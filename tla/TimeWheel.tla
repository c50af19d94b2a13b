------------------------------ MODULE TimeWheel ------------------------------
(***************************************************************************)
(* The time wheel that closes idle control connections (time_wheel.c), with *)
(* the calls the main thread makes on it (server.c): a connection is added  *)
(* when it registers, moved when it sends a command, removed when it leaves *)
(* and closed by the tick that finds it due.  Only the main thread touches  *)
(* the wheel, so each call is one step.  A slot is the set of connections   *)
(* on its list; TimeWheelList has the list itself.                          *)
(***************************************************************************)
EXTENDS Integers

CONSTANTS
  Conns,     \* control connections
  Slots,     \* TIME_WHEEL_SLOT_COUNT
  Timeout,   \* ctrl_timeout_sec, in ticks
  MaxTick,   \* bound: ticks
  MaxNoMem   \* bound: calloc calls that fail

ASSUME WheelAssumption ==
  /\ Slots \in Nat \ {0}
  /\ Timeout \in Nat \ {0}    \* load_int_or_default accepts positive values only
  /\ MaxTick \in Nat /\ MaxNoMem \in Nat

VARIABLES
  open,          \* connections in conn_map
  noded,         \* connections with a wheel_node
  slots,         \* slots[s]: the connections on list s
  current_tick,
  expire_tick,
  noMem          \* ghost: calloc failures so far

vars == <<open, noded, slots, current_tick, expire_tick, noMem>>

Init ==
  /\ open = {}
  /\ noded = {}
  /\ slots = [s \in 0..(Slots - 1) |-> {}]
  /\ current_tick = 0
  /\ expire_tick = [c \in Conns |-> 0]
  /\ noMem = 0

SlotOf(tick) == tick % Slots

\* The lists without connection c: detach_node.
Detached(c) == [s \in DOMAIN slots |-> slots[s] \ {c}]

\* time_wheel_add on the given lists: a node that cannot be allocated leaves
\* the connection open and unwatched.
Add(c, lists) ==
  \/ /\ noded' = noded \cup {c}
     /\ expire_tick' = [expire_tick EXCEPT ![c] = current_tick + Timeout]
     /\ slots' = [lists EXCEPT ![SlotOf(current_tick + Timeout)] = @ \cup {c}]
     /\ UNCHANGED noMem
  \/ /\ c \notin noded
     /\ noMem < MaxNoMem
     /\ noMem' = noMem + 1
     /\ slots' = lists
     /\ UNCHANGED <<noded, expire_tick>>

Register(c) ==
  /\ c \notin open
  /\ open' = open \cup {c}
  /\ Add(c, slots)
  /\ UNCHANGED current_tick

\* Seeded fault: a connection that has a node is detached and not added again.
RefreshDetachesOnly(c) ==
  /\ c \in noded
  /\ slots' = Detached(c)
  /\ expire_tick' = [expire_tick EXCEPT ![c] = current_tick + Timeout]
  /\ UNCHANGED <<open, noded, current_tick, noMem>>

\* A command has been served: handle_control_event refreshes the connection.
Refresh(c) ==
  /\ c \in open
  /\ Add(c, IF c \in noded THEN Detached(c) ELSE slots)
  /\ UNCHANGED <<open, current_tick>>

\* The connection failed or its client left: close_control_connection.
Remove(c) ==
  /\ c \in open
  /\ open' = open \ {c}
  /\ noded' = noded \ {c}
  /\ slots' = IF c \in noded THEN Detached(c) ELSE slots
  /\ expire_tick' = [expire_tick EXCEPT ![c] = 0]   \* control_conn_init, next time
  /\ UNCHANGED <<current_tick, noMem>>

\* Seeded fault: every connection on the list counts as due.
DueAnyLap(tick) == slots[SlotOf(tick)]

\* The connections a tick finds due: on the list of the new tick's slot, and
\* not there for a later lap.
Due(tick) == {c \in slots[SlotOf(tick)] : expire_tick[c] <= tick}

\* time_wheel_tick: every due connection is detached, closed and freed.
Tick ==
  LET due == Due(current_tick + 1) IN
  /\ current_tick < MaxTick
  /\ current_tick' = current_tick + 1
  /\ open' = open \ due
  /\ noded' = noded \ due
  /\ slots' = [s \in DOMAIN slots |-> slots[s] \ due]
  /\ expire_tick' = [c \in Conns |-> IF c \in due THEN 0 ELSE expire_tick[c]]
  /\ UNCHANGED noMem

Next == (\E c \in Conns : Register(c) \/ Refresh(c) \/ Remove(c)) \/ Tick

Spec == Init /\ [][Next]_vars

-----------------------------------------------------------------------------
\* Type invariant: the wheel's tables hold values of their C types.
TypeOK ==
  /\ open \subseteq Conns
  /\ noded \subseteq Conns
  /\ slots \in [0..(Slots - 1) -> SUBSET Conns]
  /\ current_tick \in Nat
  /\ expire_tick \in [Conns -> Nat]
  /\ noMem \in Nat

\* A connection with a node is on exactly one list, that of the slot its
\* expire_tick falls into, and its deadline lies ahead by at most Timeout.
OnItsList ==
  /\ noded \subseteq open
  /\ \A c \in noded :
       /\ current_tick < expire_tick[c]
       /\ expire_tick[c] <= current_tick + Timeout
  /\ \A s \in DOMAIN slots :
       slots[s] = {c \in noded : SlotOf(expire_tick[c]) = s}

\* The inductive invariant of the refinement proof.
WheelInv == TypeOK /\ OnItsList

\* The connections as IdleTimeout sees them.
status == [c \in Conns |-> IF c \notin open THEN "closed"
                           ELSE IF c \in noded THEN "watched" ELSE "unwatched"]

idle == [c \in Conns |-> IF c \in noded
                         THEN Timeout - (expire_tick[c] - current_tick) ELSE 0]

Promise == INSTANCE IdleTimeout

\* The wheel closes a connection at the Timeout-th tick after its last command,
\* neither earlier nor later, on whatever lap of the wheel that is.
ClosesOnTime == Promise!Spec
=============================================================================
