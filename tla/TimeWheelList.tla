---------------------------- MODULE TimeWheelList ----------------------------
(***************************************************************************)
(* The time wheel with its doubly linked lists: slots[] points to the head  *)
(* node of each list, a node to its neighbours, and a connection to its     *)
(* node and to the slot that was computed when it was added.  A connection  *)
(* has at most one node, so a node is named by its connection.  A tick is   *)
(* the walk along one list, a step for each node; the main thread does      *)
(* nothing else until it has come to the end.                               *)
(***************************************************************************)
EXTENDS Integers, FiniteSets, Functions

CONSTANTS Conns, Slots, Timeout, MaxTick, MaxNoMem, NULL

ASSUME ListAssumption ==
  /\ NULL \notin Conns /\ IsFiniteSet(Conns)
  /\ Slots \in Nat \ {0} /\ Timeout \in Nat \ {0} /\ MaxTick \in Nat /\ MaxNoMem \in Nat

VARIABLES open, noded, current_tick, expire_tick, noMem,   \* as in TimeWheel
          links,        \* [head, prev, next]: the pointers of the wheel
          wheel_slot,   \* -1 for a connection without a node
          node          \* the local variable of time_wheel_tick, NULL outside

vars == <<open, noded, current_tick, expire_tick, noMem, links, wheel_slot, node>>

Init ==
  /\ open = {} /\ noded = {} /\ current_tick = 0 /\ noMem = 0
  /\ expire_tick = [c \in Conns |-> 0]
  /\ links = [head |-> [s \in 0..(Slots - 1) |-> NULL],
              prev |-> [c \in Conns |-> NULL],
              next |-> [c \in Conns |-> NULL]]
  /\ wheel_slot = [c \in Conns |-> -1]
  /\ node = NULL

\* Seeded fault: the successor keeps pointing to the node that left.
DetachHalf(l, c) ==
  LET before == l.prev[c]
      after  == l.next[c]
      fwd == IF before # NULL THEN [l EXCEPT !.next[before] = after]
                              ELSE [l EXCEPT !.head[wheel_slot[c]] = after]
  IN [fwd EXCEPT !.prev[c] = NULL, !.next[c] = NULL]

\* detach_node: only the head of a list needs the slot number.
Detach(l, c) ==
  LET before == l.prev[c]
      after  == l.next[c]
      fwd == IF before # NULL THEN [l EXCEPT !.next[before] = after]
                              ELSE [l EXCEPT !.head[wheel_slot[c]] = after]
      bwd == IF after # NULL THEN [fwd EXCEPT !.prev[after] = before] ELSE fwd
  IN [bwd EXCEPT !.prev[c] = NULL, !.next[c] = NULL]

\* The last lines of time_wheel_add: the node becomes the head of list s.
Push(l, c, s) ==
  LET first == l.head[s]
      bwd   == IF first # NULL THEN [l EXCEPT !.prev[first] = c] ELSE l
  IN [bwd EXCEPT !.prev[c] = NULL, !.next[c] = first, !.head[s] = c]

Add(c, l) ==
  LET due == current_tick + Timeout IN
  \/ /\ noded' = noded \cup {c}
     /\ expire_tick' = [expire_tick EXCEPT ![c] = due]
     /\ wheel_slot' = [wheel_slot EXCEPT ![c] = due % Slots]
     /\ links' = Push(l, c, due % Slots)
     /\ UNCHANGED noMem
  \/ /\ c \notin noded
     /\ noMem < MaxNoMem
     /\ noMem' = noMem + 1
     /\ links' = l
     /\ UNCHANGED <<noded, expire_tick, wheel_slot>>

Register(c) ==
  /\ node = NULL /\ c \notin open
  /\ open' = open \cup {c}
  /\ Add(c, links)
  /\ UNCHANGED <<current_tick, node>>

\* time_wheel_refresh.
Refresh(c) ==
  /\ node = NULL /\ c \in open
  /\ Add(c, IF c \in noded /\ wheel_slot[c] >= 0 THEN Detach(links, c) ELSE links)
  /\ UNCHANGED <<open, current_tick, node>>

\* close_control_connection, time_wheel_remove: the node is freed.
Closed(c) ==
  /\ open' = open \ {c}
  /\ noded' = noded \ {c}
  /\ links' = IF c \in noded THEN Detach(links, c) ELSE links
  /\ wheel_slot' = [wheel_slot EXCEPT ![c] = -1]
  /\ expire_tick' = [expire_tick EXCEPT ![c] = 0]
  /\ UNCHANGED <<current_tick, noMem>>

Remove(c) == node = NULL /\ c \in open /\ Closed(c) /\ UNCHANGED node

\* time_wheel_tick, up to its loop.
Tick ==
  /\ node = NULL
  /\ current_tick < MaxTick
  /\ current_tick' = current_tick + 1
  /\ node' = links.head[(current_tick + 1) % Slots]
  /\ UNCHANGED <<open, noded, expire_tick, noMem, links, wheel_slot>>

\* The loop: the successor is read before the callback closes the connection
\* and the node is freed.
Visit ==
  /\ node # NULL
  /\ node' = links.next[node]
  /\ IF expire_tick[node] <= current_tick THEN Closed(node)
     ELSE UNCHANGED <<open, noded, current_tick, expire_tick, noMem, links, wheel_slot>>

Next == (\E c \in Conns : Register(c) \/ Refresh(c) \/ Remove(c)) \/ Tick \/ Visit

Spec == Init /\ [][Next]_vars

-----------------------------------------------------------------------------
\* What list s leads to: the connections of every set that holds the head of
\* the list and, with a node, its successor.
OnList(s) ==
  {c \in Conns : \A T \in SUBSET Conns :
     /\ links.head[s] \in T \cup {NULL}
     /\ \A d \in T : links.next[d] \in T \cup {NULL}
     => c \in T}

\* The connections whose node was put on list s.
NodesOf(s) == {c \in noded : wheel_slot[c] = s}

\* q is the list s: next and prev lead from node to node, and to NULL at the ends.
At(q, i) == IF i \in DOMAIN q THEN q[i] ELSE NULL
IsList(q, s) ==
  /\ links.head[s] = At(q, 1)
  /\ \A i \in DOMAIN q : links.next[q[i]] = At(q, i + 1) /\ links.prev[q[i]] = At(q, i - 1)

\* The lists are well linked: each is a finite chain through exactly the nodes
\* that were put on it, forwards and backwards, so every walk comes to its end;
\* a walk stands on its own list; and nothing points from or to a freed node.
WellLinked ==
  /\ \A s \in 0..(Slots - 1) :
       \E q \in Bijection(1..Cardinality(NodesOf(s)), NodesOf(s)) : IsList(q, s)
  /\ noded = UNION {NodesOf(s) : s \in 0..(Slots - 1)}
  /\ node \in NodesOf(current_tick % Slots) \cup {NULL}
  /\ \A c \in Conns \ noded :
       links.prev[c] = NULL /\ links.next[c] = NULL /\ wheel_slot[c] = -1

\* What the tick under way has still to close.  TimeWheel closes it at once.
Expired ==
  IF node = NULL THEN {}
  ELSE {c \in OnList(current_tick % Slots) : expire_tick[c] <= current_tick}

Wheel == INSTANCE TimeWheel WITH
  slots <- [s \in 0..(Slots - 1) |-> OnList(s) \ Expired],
  open <- open \ Expired,
  noded <- noded \ Expired,
  expire_tick <- [c \in Conns |-> IF c \in Expired THEN 0 ELSE expire_tick[c]]

\* The lists do what TimeWheel says of sets: whatever is added, moved, removed
\* or expires, in any order within a slot, no connection is skipped, left
\* behind or closed twice.
ListsAreSets == Wheel!Spec
=============================================================================
