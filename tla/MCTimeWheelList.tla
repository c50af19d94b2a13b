-------------------------- MODULE MCTimeWheelList --------------------------
(* Instance of TimeWheelList for TLC. *)
EXTENDS TimeWheelList, TLC

CONSTANTS k1, k2, k3
=============================================================================
