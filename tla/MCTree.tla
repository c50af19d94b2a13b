------------------------------- MODULE MCTree -------------------------------
(* Instance of Tree for TLC: two servers with one session each. *)
EXTENDS Tree, TLC

CONSTANTS u1, u2, s1, s2, t1, a

OwnServer == [s \in Sessions |-> s]

\* The sessions are alike: each has a server to itself.
SessionsAlike == Permutations(Sessions)

\* A careless user's prompt is looked at by nobody, and the next login sets it:
\* states that differ in nothing else are taken for one.
Observed ==
  <<live, row, nextId, ctx, pc, job, tickets, faults,
    [p \in Sessions |-> IF ctx[p].user \in Careless THEN Root ELSE prompt[p]]>>
=============================================================================
