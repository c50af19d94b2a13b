------------------------------- MODULE Catalog -------------------------------
(* What the store promises its users, without rows, counts, directories or   *)
(* servers: a name appears with one content, keeps that content until it is  *)
(* removed, and a content is thrown away only when no name shows it.  Store  *)
(* implements it.                                                            *)

CONSTANTS
  Names,      \* logical files
  Contents,   \* what a file can hold, known by its hash
  Absent      \* what a name without a file shows

VARIABLES
  catalog,    \* catalog[n]: the content name n shows, or Absent
  stored      \* contents that some server keeps whole

vars == <<catalog, stored>>

Init == catalog = [n \in Names |-> Absent] /\ stored = {}

Keep(h) == stored' = stored \cup {h} /\ UNCHANGED catalog

Publish(n, h) ==
  /\ catalog[n] = Absent
  /\ h \in stored
  /\ catalog' = [catalog EXCEPT ![n] = h]
  /\ UNCHANGED stored

Withdraw(n) == catalog' = [catalog EXCEPT ![n] = Absent] /\ UNCHANGED stored

Discard(h) ==
  /\ \A n \in Names : catalog[n] # h
  /\ stored' = stored \ {h}
  /\ UNCHANGED catalog

Next ==
  \/ \E h \in Contents : Keep(h) \/ Discard(h)
  \/ \E n \in Names : Withdraw(n) \/ \E h \in Contents : Publish(n, h)

Spec == Init /\ [][Next]_vars
=============================================================================
