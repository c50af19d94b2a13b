------------------------------- MODULE MCStore -------------------------------
(* Instances of Store for TLC: one server, and two servers on one database. *)
EXTENDS Store, TLC

CONSTANTS n1, n2, n3, s1, s2, t1, t2, c1, c2, big, nil

OneServer == [p \in Threads \cup Controls |-> s1]
TwoServers == (t1 :> s1) @@ (c1 :> s1) @@ (t2 :> s2)

\* Two blocks are enough for a file that is neither empty nor complete.
Lengths == (big :> 2) @@ (nil :> 0)
Lengths1 == (big :> 1) @@ (nil :> 0)

\* The worker threads of one server are interchangeable.
ThreadSymmetry == Permutations(Threads)
=============================================================================
