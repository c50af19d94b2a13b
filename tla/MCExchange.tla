----------------------------- MODULE MCExchange -----------------------------
(* An instance of Exchange for TLC: packet lengths in the order of the real   *)
(* ones (264 < 352 < 1024 < 1240 < 1284 < 1288 bytes).                       *)
EXTENDS Exchange

CONSTANTS n1, n2

Lengths ==
  [text |-> 1, file |-> 2, auth |-> 3, plan |-> 4, ticket |-> 5, login |-> 6]
=============================================================================
