---------------------------- MODULE MCEventLoop ----------------------------
(* An instance of EventLoop for TLC: one prompt, and one socket that is the  *)
(* prompt's or a background thread's.                                        *)
EXTENDS EventLoop, TLC

CONSTANTS c1, c2

PromptAndAny == (c1 :> {"ctrl"}) @@ (c2 :> {"ctrl", "transfer"})
=============================================================================
