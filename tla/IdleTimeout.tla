----------------------------- MODULE IdleTimeout -----------------------------
(* What the server promises about idle control connections, without saying  *)
(* how: a connection is closed at the Timeout-th tick after its last         *)
(* command, never earlier and never later.  TimeWheel implements it.         *)
EXTENDS Naturals

CONSTANTS
  Conns,     \* control connections
  Timeout    \* ctrl_timeout_sec, in ticks of one second

VARIABLES
  status,    \* "closed", "watched", or "unwatched": open, but nobody counts
             \* its ticks, because there was no memory for it
  idle       \* ticks since the last command of each watched connection

vars == <<status, idle>>

Init ==
  /\ status = [c \in Conns |-> "closed"]
  /\ idle = [c \in Conns |-> 0]

Set(c, s) ==
  /\ status' = [status EXCEPT ![c] = s]
  /\ idle' = [idle EXCEPT ![c] = 0]

Open(c) == status[c] = "closed" /\ \E s \in {"watched", "unwatched"} : Set(c, s)

\* A command starts the count again; on an unwatched connection it may start it
\* for the first time.
Command(c) ==
  \/ status[c] = "watched" /\ Set(c, "watched")
  \/ status[c] = "unwatched" /\ \E s \in {"watched", "unwatched"} : Set(c, s)

Close(c) == status[c] # "closed" /\ Set(c, "closed")

Expiring == {c \in Conns : status[c] = "watched" /\ idle[c] + 1 = Timeout}

Tick ==
  /\ status' = [c \in Conns |-> IF c \in Expiring THEN "closed" ELSE status[c]]
  /\ idle' = [c \in Conns |-> IF status[c] = "watched" /\ c \notin Expiring
                               THEN idle[c] + 1 ELSE 0]

Next == (\E c \in Conns : Open(c) \/ Command(c) \/ Close(c)) \/ Tick

Spec == Init /\ [][Next]_vars
=============================================================================
