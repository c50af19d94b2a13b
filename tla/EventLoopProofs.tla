----------------------------- MODULE EventLoopProofs -----------------------------
(* The main thread keeps the time wheel's promise, its sessions apart and    *)
(* its clients on time, for every number of clients and descriptors, every   *)
(* batch length and timeout.  First the wheel by itself; every step of the   *)
(* loop is a step of the wheel, a step that leaves the wheel alone, or a     *)
(* calloc that failed, so what holds of the wheel holds under the loop; then *)
(* the tables and the ready list of the loop.                                *)
EXTENDS EventLoop, WellFoundedInduction, TLAPS

(* The wheel: its lists stay in order, and every step is a step of           *)
(* IdleTimeout.                                                              *)

\* A slot number is a slot.
LEMMA SlotRange == ASSUME NEW t \in Nat PROVE SlotOf(t) \in 0..(Slots - 1)
  BY WheelAssumption DEF SlotOf

LEMMA InitInv == Init => WheelInv
  BY DEF Init, WheelInv, TypeOK, OnItsList

\* Adding a connection that is on no list puts it on the list of its deadline.
LEMMA AddInv ==
  ASSUME TypeOK, NEW c \in Conns, NEW lists,
         lists \in [0..(Slots - 1) -> SUBSET Conns],
         \A s \in 0..(Slots - 1) :
           lists[s] = {k \in noded \ {c} : SlotOf(expire_tick[k]) = s},
         Add(c, lists)
  PROVE  /\ noded' \in {noded, noded \cup {c}}
         /\ expire_tick' \in [Conns -> Nat] /\ noMem' \in Nat
         /\ slots' \in [0..(Slots - 1) -> SUBSET Conns]
         /\ \A k \in Conns \ {c} : expire_tick'[k] = expire_tick[k]
         /\ c \in noded' => expire_tick'[c] = current_tick + Timeout
         /\ \A s \in 0..(Slots - 1) :
              slots'[s] = {k \in noded' : SlotOf(expire_tick'[k]) = s}
<1> DEFINE due == current_tick + Timeout
<1>1. due \in Nat /\ SlotOf(due) \in 0..(Slots - 1)
  BY WheelAssumption, SlotRange DEF TypeOK
<1>2. CASE /\ noded' = noded \cup {c}
           /\ expire_tick' = [expire_tick EXCEPT ![c] = due]
           /\ slots' = [lists EXCEPT ![SlotOf(due)] = @ \cup {c}]
           /\ UNCHANGED noMem
  <2>1. /\ expire_tick' \in [Conns -> Nat] /\ expire_tick'[c] = due
        /\ \A k \in Conns \ {c} : expire_tick'[k] = expire_tick[k]
    BY <1>1, <1>2 DEF TypeOK
  <2>2. slots' \in [0..(Slots - 1) -> SUBSET Conns]
    BY <1>1, <1>2
  <2>3. ASSUME NEW s \in 0..(Slots - 1)
        PROVE  slots'[s] = {k \in noded' : SlotOf(expire_tick'[k]) = s}
    <3>1. slots'[s] = IF s = SlotOf(due) THEN lists[s] \cup {c} ELSE lists[s]
      BY <1>1, <1>2
    <3>2. ASSUME NEW k \in noded' PROVE k \in slots'[s] <=> SlotOf(expire_tick'[k]) = s
      <4>1. CASE k = c
        BY <1>2, <2>1, <3>1, <4>1
      <4>2. CASE k # c
        BY <1>2, <2>1, <3>1, <4>2 DEF TypeOK
      <4>. QED
        BY <4>1, <4>2
    <3>3. slots'[s] \subseteq noded'
      BY <1>2, <3>1
    <3>. QED
      BY <3>2, <3>3
  <2>. QED
    BY <1>2, <2>1, <2>2, <2>3 DEF TypeOK
<1>3. CASE /\ c \notin noded
           /\ noMem' = noMem + 1
           /\ slots' = lists
           /\ UNCHANGED <<noded, expire_tick>>
  <2>1. noded \ {c} = noded
    BY <1>3
  <2>. QED
    BY <1>3, <2>1 DEF TypeOK
<1>. QED
  BY <1>2, <1>3 DEF Add

\* Taking a connection off its list leaves the others where they are.
LEMMA DetachedLists ==
  ASSUME WheelInv, NEW c \in Conns
  PROVE  LET lists == IF c \in noded THEN Detached(c) ELSE slots IN
         /\ lists \in [0..(Slots - 1) -> SUBSET Conns]
         /\ \A s \in 0..(Slots - 1) :
              lists[s] = {k \in noded \ {c} : SlotOf(expire_tick[k]) = s}
<1> USE DEF WheelInv, TypeOK, OnItsList
<1>1. CASE c \in noded
  BY <1>1 DEF Detached
<1>2. CASE c \notin noded
  <2>1. noded \ {c} = noded
    BY <1>2
  <2>. QED
    BY <1>2, <2>1
<1>. QED
  BY <1>1, <1>2

\* A deadline set now lies ahead by Timeout, and the others stay where they are.
LEMMA DeadlineAhead ==
  ASSUME WheelInv, NEW c \in Conns,
         current_tick' = current_tick,
         noded' \in {noded, noded \cup {c}},
         \A k \in Conns \ {c} : expire_tick'[k] = expire_tick[k],
         c \in noded' => expire_tick'[c] = current_tick + Timeout
  PROVE  \A k \in noded' : /\ current_tick' < expire_tick'[k]
                           /\ expire_tick'[k] <= current_tick' + Timeout
<1> SUFFICES ASSUME NEW k \in noded'
             PROVE  /\ current_tick' < expire_tick'[k]
                    /\ expire_tick'[k] <= current_tick' + Timeout
  OBVIOUS
<1>1. CASE k = c
  <2>1. current_tick \in Nat /\ Timeout \in Nat \ {0}
    BY WheelAssumption DEF WheelInv, TypeOK
  <2>2. expire_tick'[k] = current_tick + Timeout
    BY <1>1
  <2>. QED
    BY ONLY <2>1, <2>2, current_tick' = current_tick
<1>2. CASE k # c
  <2>1. k \in noded /\ k \in Conns
    BY <1>2 DEF WheelInv, TypeOK
  <2>2. current_tick < expire_tick[k] /\ expire_tick[k] <= current_tick + Timeout
    BY <2>1 DEF WheelInv, OnItsList
  <2>3. expire_tick'[k] = expire_tick[k]
    BY <1>2, <2>1
  <2>. QED
    BY ONLY <2>2, <2>3, current_tick' = current_tick
<1>. QED
  BY <1>1, <1>2

LEMMA RegisterInv ==
  ASSUME WheelInv, NEW c \in Conns, Register(c) PROVE WheelInv'
<1>1. c \notin noded /\ noded \ {c} = noded
  BY DEF WheelInv, OnItsList, Register
<1>2. /\ TypeOK /\ Add(c, slots)
      /\ slots \in [0..(Slots - 1) -> SUBSET Conns]
      /\ \A s \in 0..(Slots - 1) :
           slots[s] = {k \in noded \ {c} : SlotOf(expire_tick[k]) = s}
  BY <1>1 DEF WheelInv, TypeOK, OnItsList, Register
<1>3. /\ noded' \in {noded, noded \cup {c}}
      /\ expire_tick' \in [Conns -> Nat] /\ noMem' \in Nat
      /\ slots' \in [0..(Slots - 1) -> SUBSET Conns]
      /\ \A k \in Conns \ {c} : expire_tick'[k] = expire_tick[k]
      /\ c \in noded' => expire_tick'[c] = current_tick + Timeout
      /\ \A s \in 0..(Slots - 1) :
           slots'[s] = {k \in noded' : SlotOf(expire_tick'[k]) = s}
  BY <1>2, AddInv
<1>4. TypeOK'
  BY <1>3 DEF WheelInv, TypeOK, Register
<1>5. \A k \in noded' : /\ current_tick' < expire_tick'[k]
                        /\ expire_tick'[k] <= current_tick' + Timeout
  <2>1. current_tick' = current_tick
    BY DEF Register
  <2>. QED
    BY <1>3, <2>1, DeadlineAhead
<1>6. OnItsList'
  BY <1>3, <1>4, <1>5 DEF WheelInv, TypeOK, OnItsList, Register
<1>. QED
  BY <1>4, <1>6 DEF WheelInv

LEMMA RefreshInv ==
  ASSUME WheelInv, NEW c \in Conns, Refresh(c) PROVE WheelInv'
<1> DEFINE lists == IF c \in noded THEN Detached(c) ELSE slots
<1>1. /\ TypeOK /\ Add(c, lists)
      /\ lists \in [0..(Slots - 1) -> SUBSET Conns]
      /\ \A s \in 0..(Slots - 1) :
           lists[s] = {k \in noded \ {c} : SlotOf(expire_tick[k]) = s}
  BY DetachedLists DEF WheelInv, Refresh
<1>2. /\ noded' \in {noded, noded \cup {c}}
      /\ expire_tick' \in [Conns -> Nat] /\ noMem' \in Nat
      /\ slots' \in [0..(Slots - 1) -> SUBSET Conns]
      /\ \A k \in Conns \ {c} : expire_tick'[k] = expire_tick[k]
      /\ c \in noded' => expire_tick'[c] = current_tick + Timeout
      /\ \A s \in 0..(Slots - 1) :
           slots'[s] = {k \in noded' : SlotOf(expire_tick'[k]) = s}
  <2> HIDE DEF lists
  <2>. QED
    BY <1>1, AddInv
<1>3. TypeOK'
  BY <1>2 DEF WheelInv, TypeOK, Refresh
<1>4. \A k \in noded' : /\ current_tick' < expire_tick'[k]
                        /\ expire_tick'[k] <= current_tick' + Timeout
  <2>1. current_tick' = current_tick
    BY DEF Refresh
  <2>. QED
    BY <1>2, <2>1, DeadlineAhead
<1>5. OnItsList'
  BY <1>2, <1>3, <1>4 DEF WheelInv, TypeOK, OnItsList, Refresh
<1>. QED
  BY <1>3, <1>5 DEF WheelInv

LEMMA RemoveInv ==
  ASSUME WheelInv, NEW c \in Conns, Remove(c) PROVE WheelInv'
<1>1. /\ slots' \in [0..(Slots - 1) -> SUBSET Conns]
      /\ \A s \in 0..(Slots - 1) :
           slots'[s] = {k \in noded \ {c} : SlotOf(expire_tick[k]) = s}
  BY DetachedLists DEF Remove
<1>2. /\ noded' = noded \ {c} /\ current_tick' = current_tick
      /\ open' = open \ {c}
      /\ \A k \in noded' : expire_tick'[k] = expire_tick[k]
  BY DEF Remove, WheelInv, TypeOK
<1>3. TypeOK'
  BY <1>1, <1>2 DEF WheelInv, TypeOK, Remove
<1>4. OnItsList'
  BY <1>1, <1>2, <1>3 DEF WheelInv, TypeOK, OnItsList
<1>. QED
  BY <1>3, <1>4 DEF WheelInv

\* A tick finds exactly the connections whose deadline is the new tick: they
\* are on the list it walks, because that list is the one of their deadline.
LEMMA DueNow ==
  ASSUME WheelInv
  PROVE  Due(current_tick + 1) = {c \in noded : expire_tick[c] = current_tick + 1}
<1>1. current_tick + 1 \in Nat /\ SlotOf(current_tick + 1) \in 0..(Slots - 1)
  BY SlotRange DEF WheelInv, TypeOK
<1>2. slots[SlotOf(current_tick + 1)] =
        {c \in noded : SlotOf(expire_tick[c]) = SlotOf(current_tick + 1)}
  BY <1>1 DEF WheelInv, TypeOK, OnItsList
<1>3. \A c \in noded : /\ expire_tick[c] \in Nat /\ current_tick \in Nat
                       /\ current_tick < expire_tick[c]
  BY DEF WheelInv, TypeOK, OnItsList
<1>4. \A c \in noded : expire_tick[c] <= current_tick + 1
                         <=> expire_tick[c] = current_tick + 1
  BY <1>3
<1>. QED
  BY <1>2, <1>4 DEF Due

LEMMA TickInv == ASSUME WheelInv, Tick PROVE WheelInv'
<1> DEFINE due == Due(current_tick + 1)
<1>1. due = {c \in noded : expire_tick[c] = current_tick + 1}
  BY DueNow
<1>2. /\ current_tick' = current_tick + 1 /\ open' = open \ due
      /\ noded' = noded \ due /\ noMem' = noMem
      /\ slots' = [s \in DOMAIN slots |-> slots[s] \ due]
      /\ expire_tick' = [c \in Conns |-> IF c \in due THEN 0 ELSE expire_tick[c]]
  BY DEF Tick
<1> HIDE DEF due
<1>3. TypeOK'
  BY <1>2 DEF WheelInv, TypeOK
<1>4. noded' \subseteq open' /\ \A c \in noded' : expire_tick'[c] = expire_tick[c]
  BY <1>2 DEF WheelInv, TypeOK, OnItsList
<1>5. \A c \in noded' : /\ current_tick' < expire_tick'[c]
                        /\ expire_tick'[c] <= current_tick' + Timeout
  BY <1>1, <1>2, <1>4, WheelAssumption DEF WheelInv, TypeOK, OnItsList
<1>6. \A s \in DOMAIN slots' : slots'[s] = {c \in noded' : SlotOf(expire_tick'[c]) = s}
  BY <1>2, <1>4 DEF WheelInv, TypeOK, OnItsList
<1>7. OnItsList'
  BY <1>4, <1>5, <1>6 DEF OnItsList
<1>. QED
  BY <1>3, <1>7 DEF WheelInv

LEMMA StepInv == WheelInv /\ [Next]_vars => WheelInv'
<1> SUFFICES ASSUME WheelInv, [Next]_vars PROVE WheelInv'
  OBVIOUS
<1>1. CASE UNCHANGED vars
  BY <1>1 DEF vars, WheelInv, TypeOK, OnItsList
<1>2. CASE Next
  BY <1>2, RegisterInv, RefreshInv, RemoveInv, TickInv DEF Next
<1>. QED
  BY <1>1, <1>2

\* Whatever is added, refreshed, removed or expires (time_wheel.c), a connection
\* with a node is on the one list of its deadline, which lies ahead.
THEOREM WheelCorrect == Spec => []WheelInv
  BY InitInv, StepInv, PTL DEF Spec

-----------------------------------------------------------------------------
(* Every step of the wheel is a step of IdleTimeout.                         *)

LEMMA InitPromise == Init => Promise!Init
  BY DEF Init, Promise!Init, status, idle

\* Add leaves c watched with a fresh deadline, or as unwatched as it was.
LEMMA AddPromise ==
  ASSUME WheelInv, NEW c \in Conns, NEW lists, Add(c, lists), c \in open',
         open' \in {open, open \cup {c}}, current_tick' = current_tick
  PROVE  \/ c \notin noded /\ Promise!Set(c, "unwatched")
         \/ Promise!Set(c, "watched")
<1> USE DEF WheelInv, TypeOK, OnItsList, Promise!Set
<1>1. CASE /\ noded' = noded \cup {c}
           /\ expire_tick' = [expire_tick EXCEPT ![c] = current_tick + Timeout]
  <2>1. status' = [status EXCEPT ![c] = "watched"]
    BY <1>1 DEF status
  <2>2. current_tick + Timeout \in Nat
    BY WheelAssumption
  <2>3. idle' = [idle EXCEPT ![c] = 0]
    <3>1. /\ expire_tick'[c] = current_tick + Timeout /\ c \in noded'
          /\ \A k \in Conns \ {c} : expire_tick'[k] = expire_tick[k] /\ (k \in noded' <=> k \in noded)
      BY <1>1, <2>2
    <3>2. idle'[c] = 0 /\ \A k \in Conns \ {c} : idle'[k] = idle[k]
      BY <3>1, WheelAssumption DEF idle
    <3>. QED
      BY <3>2 DEF idle
  <2>. QED
    BY <2>1, <2>3
<1>2. CASE c \notin noded /\ UNCHANGED <<noded, expire_tick>>
  <2>1. status' = [status EXCEPT ![c] = "unwatched"]
    BY <1>2 DEF status
  <2>2. idle' = [idle EXCEPT ![c] = 0]
    BY <1>2 DEF idle
  <2>. QED
    BY <1>2, <2>1, <2>2
<1>. QED
  BY <1>1, <1>2 DEF Add

LEMMA RegisterPromise ==
  ASSUME WheelInv, NEW c \in Conns, Register(c) PROVE Promise!Open(c)
<1>1. status[c] = "closed"
  BY DEF Register, status
<1>2. Add(c, slots) /\ c \in open' /\ open' = open \cup {c} /\ current_tick' = current_tick
  BY DEF Register
<1>3. Promise!Set(c, "unwatched") \/ Promise!Set(c, "watched")
  BY <1>2, AddPromise
<1>. QED
  BY <1>1, <1>3 DEF Promise!Open

LEMMA RefreshPromise ==
  ASSUME WheelInv, NEW c \in Conns, Refresh(c) PROVE Promise!Command(c)
<1>1. status[c] = IF c \in noded THEN "watched" ELSE "unwatched"
  BY DEF Refresh, status
<1>2. PICK lists : Add(c, lists)
  BY DEF Refresh
<1>3. c \in open' /\ open' = open /\ current_tick' = current_tick
  BY DEF Refresh
<1>4. \/ c \notin noded /\ Promise!Set(c, "unwatched")
      \/ Promise!Set(c, "watched")
  BY <1>2, <1>3, AddPromise
<1>. QED
  BY <1>1, <1>4 DEF Promise!Command

LEMMA RemovePromise ==
  ASSUME WheelInv, NEW c \in Conns, Remove(c) PROVE Promise!Close(c)
<1>1. status[c] # "closed" /\ status' = [status EXCEPT ![c] = "closed"]
  BY DEF Remove, status
<1>2. idle' = [idle EXCEPT ![c] = 0]
  BY DEF Remove, idle, WheelInv, TypeOK
<1>. QED
  BY <1>1, <1>2 DEF Promise!Close, Promise!Set

LEMMA TickPromise == ASSUME WheelInv, Tick PROVE Promise!Tick
<1> DEFINE due == {c \in noded : expire_tick[c] = current_tick + 1}
<1>1. /\ current_tick' = current_tick + 1 /\ open' = open \ due
      /\ noded' = noded \ due
      /\ expire_tick' = [c \in Conns |-> IF c \in due THEN 0 ELSE expire_tick[c]]
  BY DueNow DEF Tick
<1>2. Promise!Expiring = due
  <2>1. \A c \in Conns : status[c] = "watched" <=> c \in noded
    BY DEF status, WheelInv, OnItsList
  <2>2. \A c \in noded : idle[c] + 1 = Timeout <=> expire_tick[c] = current_tick + 1
    BY WheelAssumption DEF idle, WheelInv, TypeOK
  <2>. QED
    BY <2>1, <2>2 DEF Promise!Expiring, WheelInv, TypeOK
<1>3. status' = [c \in Conns |-> IF c \in due THEN "closed" ELSE status[c]]
  BY <1>1 DEF status, WheelInv, OnItsList
<1>4. idle' = [c \in Conns |-> IF status[c] = "watched" /\ c \notin due
                              THEN idle[c] + 1 ELSE 0]
  <2>1. ASSUME NEW c \in Conns
        PROVE  idle'[c] = IF status[c] = "watched" /\ c \notin due THEN idle[c] + 1 ELSE 0
    BY <1>1, WheelAssumption DEF idle, status, WheelInv, TypeOK, OnItsList
  <2>. QED
    BY <2>1 DEF idle
<1> HIDE DEF due
<1>. QED
  BY <1>2, <1>3, <1>4 DEF Promise!Tick

LEMMA StepPromise == WheelInv /\ [Next]_vars => [Promise!Next]_(Promise!vars)
<1> SUFFICES ASSUME WheelInv, [Next]_vars PROVE [Promise!Next]_(Promise!vars)
  OBVIOUS
<1>1. CASE UNCHANGED vars
  BY <1>1 DEF vars, Promise!vars, status, idle
<1>2. CASE Next
  BY <1>2, RegisterPromise, RefreshPromise, RemovePromise, TickPromise DEF Next, Promise!Next
<1>. QED
  BY <1>1, <1>2

\* The wheel implements the promise: whatever its size and the timeout, a
\* watched connection is closed at the Timeout-th tick after its last command,
\* neither earlier nor later (time_wheel_add, time_wheel_tick).
THEOREM TimeoutCorrect == Spec => ClosesOnTime
<1>1. Init => Promise!Init
  BY InitPromise
<1>2. WheelInv /\ [Next]_vars => [Promise!Next]_(Promise!vars)
  BY StepPromise
<1>. QED
  BY <1>1, <1>2, WheelCorrect, PTL DEF Spec, ClosesOnTime, Promise!Spec

-----------------------------------------------------------------------------

loop == <<vars, loopVars>>

\* What a failed calloc for a ControlConn does to the wheel's variables.
NoMemory ==
  /\ UNCHANGED <<open, noded, slots, current_tick, expire_tick>>
  /\ noMem' = noMem + 1

-----------------------------------------------------------------------------
(* The lowest free descriptor.                                               *)

LEMMA LeastOf ==
  ASSUME NEW T, T \subseteq Nat, T # {}
  PROVE  \E x \in T : \A y \in T : x <= y
<1>1. PICK x \in T : \A y \in T : ~ (<<y, x>> \in OpToRel(<, Nat))
  BY NatLessThanWellFounded, WFMin
<1>2. ASSUME NEW y \in T PROVE x <= y
  <2>1. <<y, x>> \in Nat \X Nat /\ <<y, x>>[1] = y /\ <<y, x>>[2] = x
    OBVIOUS
  <2>2. ~ (y < x)
    BY <1>1, <2>1 DEF OpToRel
  <2>. QED
    BY <2>2
<1>. QED
  BY <1>2

LEMMA LowestExists ==
  ASSUME NEW T, T \subseteq Nat, T # {}
  PROVE  Min(T) \in T
BY LeastOf DEF Min

LEMMA FreeDescriptor ==
  ASSUME Free # {}
  PROVE  Min(Free) \in Conns /\ who[Min(Free)] = None
<1>1. Free \subseteq Nat
  BY LoopAssumption DEF Free
<1>. QED
  BY <1>1, LowestExists DEF Free

-----------------------------------------------------------------------------
(* The wheel under the loop.                                                 *)

LEMMA LoopStepsWheel ==
  ASSUME [LoopNext]_loop
  PROVE  [Next]_vars \/ NoMemory
<1> USE DEF loop, loopVars, vars, clientVars
<1>1. ASSUME NEW c \in Clients, RegisterControl(c) PROVE Next
  <2>1. Free # {} /\ Register(Min(Free))
    BY <1>1 DEF RegisterControl, Registered, AcceptedRole
  <2>. QED
    BY <2>1, FreeDescriptor DEF Next
<1>2. ASSUME NEW c \in Clients, RejectControl(c) PROVE NoMemory
  BY <1>2 DEF RejectControl, NoMemory
<1>3. ASSUME NEW c \in Clients, EnqueueTransfer(c) PROVE UNCHANGED vars
  BY <1>3 DEF EnqueueTransfer
<1>4. CASE TickStep
  BY <1>4 DEF TickStep, Next
<1>5. ASSUME NEW fd \in Conns, ServeCommand(fd) \/ CloseControl(fd) PROVE Next
  BY <1>5 DEF ServeCommand, CloseControl, Next
<1>6. CASE \/ EpollWait \/ HandleTimer \/ AcceptFails \/ DropAccepted \/ Second
           \/ \E fd \in Conns : PassOver(fd) \/ WorkerCloses(fd)
           \/ \E c \in Clients : Connect(c) \/ SendRole(c) \/ SendHalf(c) \/ Leave(c)
  BY <1>6 DEF EpollWait, HandleTimer, AcceptFails, DropAccepted, Second, PassOver,
              WorkerCloses, Connect, SendRole, SendHalf, Leave
<1>. QED
  BY <1>1, <1>2, <1>3, <1>4, <1>5, <1>6 DEF LoopNext, MainStep

LEMMA LoopInvStep == WheelInv /\ [LoopNext]_loop => WheelInv'
<1>1. WheelInv /\ NoMemory => WheelInv'
  BY DEF NoMemory, WheelInv, TypeOK, OnItsList
<1>. QED
  BY <1>1, LoopStepsWheel, StepInv

\* The wheel stays in order under everything the main thread does with it:
\* accepting, serving, closing, making up for seconds it has missed.
THEOREM LoopWheelCorrect == LoopSpec => []WheelInv
<1>1. LoopInit => WheelInv
  BY InitInv DEF LoopInit
<1>2. WheelInv /\ [LoopNext]_loop => WheelInv'
  BY LoopInvStep
<1>. QED
  BY <1>1, <1>2, PTL DEF LoopSpec, loop

\* The event loop implements the promise of IdleTimeout: a control connection is
\* closed at the Timeout-th tick after its last command, also when the main
\* thread has to tick several seconds at once.
THEOREM LoopClosesOnTime == LoopSpec => ClosesOnTime
<1>1. LoopInit => Promise!Init
  BY InitPromise DEF LoopInit
<1>2. NoMemory => UNCHANGED Promise!vars
  BY DEF NoMemory, Promise!vars, status, idle
<1>3. WheelInv /\ [LoopNext]_loop => [Promise!Next]_(Promise!vars)
  BY <1>2, LoopStepsWheel, StepPromise
<1>. QED
  BY <1>1, <1>3, LoopWheelCorrect, PTL DEF LoopSpec, loop, ClosesOnTime, Promise!Spec

-----------------------------------------------------------------------------
(* Sessions and descriptors.                                                 *)

\* The tables the session of a descriptor is read from.
Tables ==
  /\ who \in [Conns -> Clients \cup {None}]
  /\ ctx \in [Conns -> Clients \cup {None}]
  /\ open \subseteq Conns

LEMMA SessionStep ==
  ASSUME Tables, OwnSession, [LoopNext]_loop
  PROVE  Tables' /\ OwnSession'
<1> USE DEF loop, loopVars, vars, clientVars, Tables, OwnSession
<1>1. ASSUME NEW S, S \subseteq Conns, Closed(S), open' = open \ S
      PROVE  Tables' /\ OwnSession'
  BY <1>1 DEF Closed
<1>2. ASSUME NEW c \in Clients, RegisterControl(c) PROVE Tables' /\ OwnSession'
  <2>1. /\ Min(Free) \in Conns /\ open' = open \cup {Min(Free)}
        /\ who' = [who EXCEPT ![Min(Free)] = c] /\ ctx' = [ctx EXCEPT ![Min(Free)] = None]
    BY <1>2, FreeDescriptor DEF RegisterControl, Registered, AcceptedRole, Register
  <2>. QED
    BY <2>1, LoopAssumption
<1>3. ASSUME NEW c \in Clients, EnqueueTransfer(c) PROVE Tables' /\ OwnSession'
  <2>1. /\ Min(Free) \in Conns /\ who[Min(Free)] = None
        /\ who' = [who EXCEPT ![Min(Free)] = c] /\ UNCHANGED <<ctx, open>>
    BY <1>3, FreeDescriptor DEF EnqueueTransfer, AcceptedRole
  <2>. QED
    BY <2>1
<1>4. CASE TickStep
  <2>1. open' = open \ Due(current_tick + 1) /\ Closed(Due(current_tick + 1))
    BY <1>4 DEF TickStep, Tick
  <2>. QED
    BY <2>1 DEF Closed
<1>5. ASSUME NEW fd \in Conns, WorkerCloses(fd) PROVE Tables' /\ OwnSession'
  BY <1>1, <1>5 DEF WorkerCloses
<1>6. ASSUME NEW fd \in Conns, ServeCommand(fd) PROVE Tables' /\ OwnSession'
  <2>1. /\ fd \in open /\ open' = open /\ who' = who
        /\ \E user \in {who[fd], None} : ctx' = [ctx EXCEPT ![fd] = user]
    BY <1>6 DEF ServeCommand, Dispatched, Refresh
  <2>. QED
    BY <2>1
<1>7. ASSUME NEW fd \in Conns, CloseControl(fd) PROVE Tables' /\ OwnSession'
  BY <1>1, <1>7 DEF CloseControl, Remove
<1>8. CASE UNCHANGED <<who, ctx, open>>
  BY <1>8
<1>. QED
  BY <1>2, <1>3, <1>4, <1>5, <1>6, <1>7, <1>8
     DEF LoopNext, MainStep, EpollWait, HandleTimer, AcceptFails, DropAccepted, Second,
         PassOver, Connect, SendRole, SendHalf, Leave, RejectControl

\* A session is never shown to the next client on the same descriptor
\* (register_control_connection resets what close_control_connection left), and a
\* descriptor in conn_map is never one that was given to a transfer meanwhile.
THEOREM SessionsApart == LoopSpec => []OwnSession
<1>1. LoopInit => Tables /\ OwnSession
  BY DEF LoopInit, Init, Tables, OwnSession
<1>2. Tables /\ OwnSession /\ [LoopNext]_loop => (Tables /\ OwnSession)'
  BY SessionStep
<1>. QED
  BY <1>1, <1>2, PTL DEF LoopSpec, loop
-----------------------------------------------------------------------------
(* Lists of the kernel: what is kept of one, and in which order.             *)

Distinct(q) == \A i, j \in DOMAIN q : q[i] = q[j] => i = j

Before(q, x, y) == \E i, j \in DOMAIN q : i < j /\ q[i] = x /\ q[j] = y

\* f[n] is what is kept of the first n entries of the list.
Keeps(f, list, S, m) ==
  f = [n \in 0..m |-> IF n = 0 THEN <<>>
                      ELSE IF list[n] \in S THEN Append(f[n - 1], list[n]) ELSE f[n - 1]]

LEMMA KeepsExists ==
  ASSUME NEW list, NEW S, NEW m \in Nat
  PROVE  \E f : Keeps(f, list, S, m)
<1>. DEFINE Bad == {n \in Nat : ~ \E f : Keeps(f, list, S, n)}
<1>1. SUFFICES ASSUME Bad # {} PROVE FALSE
  OBVIOUS
<1>2. PICK n \in Bad : \A k \in Bad : n <= k
  BY <1>1, LeastOf
<1>3. CASE n = 0
  <2>. DEFINE f == [k \in 0..0 |-> <<>>]
  <2>1. Keeps(f, list, S, 0)
    BY DEF Keeps
  <2>. QED
    BY <1>2, <1>3, <2>1
<1>4. CASE n # 0
  <2>1. n - 1 \in Nat /\ n - 1 \notin Bad
    BY <1>2, <1>4
  <2>2. PICK g : Keeps(g, list, S, n - 1)
    BY <2>1
  <2>. DEFINE last == IF list[n] \in S THEN Append(g[n - 1], list[n]) ELSE g[n - 1]
              f    == [k \in 0..n |-> IF k < n THEN g[k] ELSE last]
  <2>3. \A k \in 0..n : f[k] = IF k = 0 THEN <<>>
          ELSE IF list[k] \in S THEN Append(f[k - 1], list[k]) ELSE f[k - 1]
    <3>1. ASSUME NEW k \in 0..n
          PROVE  f[k] = IF k = 0 THEN <<>>
                        ELSE IF list[k] \in S THEN Append(f[k - 1], list[k]) ELSE f[k - 1]
      <4>1. CASE k = n
        BY <1>4, <2>1, <4>1
      <4>2. CASE k # n
        <5>1. k \in 0..(n - 1) /\ f[k] = g[k] /\ (k # 0 => f[k - 1] = g[k - 1])
          BY <2>1, <4>2
        <5>2. g[k] = IF k = 0 THEN <<>>
                     ELSE IF list[k] \in S THEN Append(g[k - 1], list[k]) ELSE g[k - 1]
          BY <2>2, <5>1 DEF Keeps
        <5>. QED
          BY <5>1, <5>2
      <4>. QED
        BY <4>1, <4>2
    <3>. QED
      BY <3>1
  <2>4. Keeps(f, list, S, n)
    BY <2>3 DEF Keeps
  <2>. QED
    BY <1>2, <2>4
<1>. QED
  BY <1>3, <1>4

LEMMA KeptIs ==
  ASSUME NEW list, Len(list) \in Nat, NEW S
  PROVE  \E f : Keeps(f, list, S, Len(list)) /\ Kept(list, S) = f[Len(list)]
<1>. DEFINE f == CHOOSE g : Keeps(g, list, S, Len(list))
<1>1. Keeps(f, list, S, Len(list))
  BY KeepsExists
<1>2. Kept(list, S) = f[Len(list)]
  BY DEF Kept, Keeps
<1>. QED
  BY <1>1, <1>2
\* r holds the entries of S among the first n of the list, in their order.
SoFar(r, list, S, n, A) ==
  /\ r \in Seq(A)
  /\ \A i \in 1..Len(r) : r[i] \in S /\ \E a \in 1..n : list[a] = r[i]
  /\ \A a \in 1..n : list[a] \in S => \E i \in 1..Len(r) : r[i] = list[a]
  /\ \A i, j \in 1..Len(r) :
       i < j => \E a, b \in 1..n : a < b /\ list[a] = r[i] /\ list[b] = r[j]

LEMMA SoFarNext ==
  ASSUME NEW A, NEW list \in Seq(A), NEW S, NEW n \in 1..Len(list), NEW r,
         SoFar(r, list, S, n - 1, A)
  PROVE  SoFar(IF list[n] \in S THEN Append(r, list[n]) ELSE r, list, S, n, A)
<1>1. CASE list[n] \in S
  <2>. DEFINE e == Append(r, list[n])
  <2>1. /\ r \in Seq(A) /\ list[n] \in A /\ e \in Seq(A) /\ Len(r) \in Nat /\ Len(e) = Len(r) + 1
        /\ \A i \in 1..Len(r) : e[i] = r[i]
        /\ e[Len(r) + 1] = list[n]
    BY DEF SoFar
  <2>. HIDE DEF e
  <2>2. ASSUME NEW i \in 1..Len(e) PROVE e[i] \in S /\ \E a \in 1..n : list[a] = e[i]
    <3>1. CASE i = Len(r) + 1
      BY <1>1, <2>1, <3>1
    <3>2. CASE i # Len(r) + 1
      <4>1. i \in 1..Len(r)
        BY <2>1, <3>2
      <4>2. PICK a \in 1..(n - 1) : list[a] = r[i]
        BY <4>1 DEF SoFar
      <4>. QED
        BY <2>1, <4>1, <4>2 DEF SoFar
    <3>. QED
      BY <3>1, <3>2
  <2>3. ASSUME NEW a \in 1..n, list[a] \in S PROVE \E i \in 1..Len(e) : e[i] = list[a]
    <3>1. CASE a = n
      BY <2>1, <3>1
    <3>2. CASE a # n
      BY <2>1, <2>3, <3>2 DEF SoFar
    <3>. QED
      BY <3>1, <3>2
  <2>4. ASSUME NEW i \in 1..Len(e), NEW j \in 1..Len(e), i < j
        PROVE  \E a, b \in 1..n : a < b /\ list[a] = e[i] /\ list[b] = e[j]
    <3>1. CASE j = Len(r) + 1
      <4>1. i \in 1..Len(r)
        BY <2>1, <2>4, <3>1
      <4>2. PICK a \in 1..(n - 1) : list[a] = r[i]
        BY <4>1 DEF SoFar
      <4>. QED
        BY <2>1, <3>1, <4>1, <4>2
    <3>2. CASE j # Len(r) + 1
      <4>1. i \in 1..Len(r) /\ j \in 1..Len(r)
        BY <2>1, <2>4, <3>2
      <4>2. PICK a, b \in 1..(n - 1) : a < b /\ list[a] = r[i] /\ list[b] = r[j]
        BY <2>4, <4>1 DEF SoFar
      <4>. QED
        BY <2>1, <4>1, <4>2
    <3>. QED
      BY <3>1, <3>2
  <2>5. SoFar(e, list, S, n, A)
    BY <2>1, <2>2, <2>3, <2>4 DEF SoFar
  <2>. QED
    BY <1>1, <2>5 DEF e
<1>2. CASE list[n] \notin S
  <2>1. 1..(n - 1) \subseteq 1..n /\ \A a \in 1..n : a = n \/ a \in 1..(n - 1)
    OBVIOUS
  <2>2. ASSUME NEW i \in 1..Len(r) PROVE r[i] \in S /\ \E a \in 1..n : list[a] = r[i]
    BY <2>1 DEF SoFar
  <2>3. ASSUME NEW a \in 1..n, list[a] \in S PROVE \E i \in 1..Len(r) : r[i] = list[a]
    BY <1>2, <2>1, <2>3 DEF SoFar
  <2>4. ASSUME NEW i \in 1..Len(r), NEW j \in 1..Len(r), i < j
        PROVE  \E a, b \in 1..n : a < b /\ list[a] = r[i] /\ list[b] = r[j]
    <3>1. PICK a, b \in 1..(n - 1) : a < b /\ list[a] = r[i] /\ list[b] = r[j]
      BY <2>4 DEF SoFar
    <3>. QED
      BY <2>1, <3>1
  <2>5. SoFar(r, list, S, n, A)
    BY <2>2, <2>3, <2>4 DEF SoFar
  <2>. QED
    BY <1>2, <2>5
<1>. QED
  BY <1>1, <1>2

LEMMA KeptSoFar ==
  ASSUME NEW A, NEW list \in Seq(A), NEW S
  PROVE  SoFar(Kept(list, S), list, S, Len(list), A)
<1>1. Len(list) \in Nat
  OBVIOUS
<1>2. PICK f : Keeps(f, list, S, Len(list)) /\ Kept(list, S) = f[Len(list)]
  BY <1>1, KeptIs
<1>. DEFINE Bad == {n \in 0..Len(list) : ~ SoFar(f[n], list, S, n, A)}
<1>3. ASSUME Bad # {} PROVE FALSE
  <2>1. Bad \subseteq Nat
    BY <1>1
  <2>2. PICK n \in Bad : \A k \in Bad : n <= k
    BY <1>3, <2>1, LeastOf
  <2>3. CASE n = 0
    <3>1. f[0] = <<>>
      BY <1>1, <1>2 DEF Keeps
    <3>2. SoFar(<<>>, list, S, 0, A)
      BY DEF SoFar
    <3>. QED
      BY <2>2, <2>3, <3>1, <3>2
  <2>4. CASE n # 0
    <3>1. n \in 1..Len(list) /\ n - 1 \in 0..Len(list) /\ n - 1 \notin Bad
      BY <1>1, <2>2, <2>4
    <3>2. SoFar(f[n - 1], list, S, n - 1, A)
      BY <3>1
    <3>3. f[n] = IF list[n] \in S THEN Append(f[n - 1], list[n]) ELSE f[n - 1]
      BY <1>1, <1>2, <2>4, <3>1 DEF Keeps
    <3>4. SoFar(IF list[n] \in S THEN Append(f[n - 1], list[n]) ELSE f[n - 1], list, S, n, A)
      BY <3>1, <3>2, SoFarNext
    <3>. QED
      BY <2>2, <3>3, <3>4
  <2>. QED
    BY <2>3, <2>4
<1>. QED
  BY <1>1, <1>2, <1>3

\* Kept keeps the entries that are in the set, each once if it was there once, and
\* in their order.
LEMMA KeptEntries ==
  ASSUME NEW A, NEW list \in Seq(A), NEW S
  PROVE  /\ Kept(list, S) \in Seq(A)
         /\ Range(Kept(list, S)) = Range(list) \cap S
         /\ \A x, y : Before(Kept(list, S), x, y) => Before(list, x, y)
<1>. DEFINE r == Kept(list, S)
<1>1. SoFar(r, list, S, Len(list), A) /\ DOMAIN list = 1..Len(list)
  BY KeptSoFar
<1>. HIDE DEF r
<1>2. r \in Seq(A) /\ DOMAIN r = 1..Len(r)
  BY <1>1 DEF SoFar
<1>3. Range(r) = Range(list) \cap S
  <2>1. ASSUME NEW x \in Range(r) PROVE x \in Range(list) \cap S
    <3>1. PICK i \in 1..Len(r) : r[i] = x
      BY <1>2 DEF Range
    <3>. QED
      BY <1>1, <3>1 DEF SoFar, Range
  <2>2. ASSUME NEW x \in Range(list) \cap S PROVE x \in Range(r)
    <3>1. PICK a \in 1..Len(list) : list[a] = x
      BY <1>1 DEF Range
    <3>2. PICK i \in 1..Len(r) : r[i] = list[a]
      BY <1>1, <3>1 DEF SoFar
    <3>. QED
      BY <1>2, <3>1, <3>2 DEF Range
  <2>. QED
    BY <2>1, <2>2
<1>4. ASSUME NEW x, NEW y, Before(r, x, y) PROVE Before(list, x, y)
  <2>1. PICK i, j \in 1..Len(r) : i < j /\ r[i] = x /\ r[j] = y
    BY <1>2, <1>4 DEF Before
  <2>2. PICK a, b \in 1..Len(list) : a < b /\ list[a] = r[i] /\ list[b] = r[j]
    BY <1>1, <2>1 DEF SoFar
  <2>. QED
    BY <1>1, <2>1, <2>2 DEF Before
<1>. QED
  BY <1>2, <1>3, <1>4 DEF r
LEMMA KeptOrder ==
  ASSUME NEW A, NEW list \in Seq(A), NEW S, Distinct(list)
  PROVE  /\ Distinct(Kept(list, S))
         /\ \A x, y \in S : Before(list, x, y) => Before(Kept(list, S), x, y)
<1>. DEFINE r == Kept(list, S)
<1>1. /\ r \in Seq(A) /\ Range(r) = Range(list) \cap S /\ DOMAIN r = 1..Len(r) /\ Len(r) \in Nat
      /\ \A x, y : Before(r, x, y) => Before(list, x, y)
  BY KeptEntries
<1>2. DOMAIN list = 1..Len(list) /\ Len(list) \in Nat
  OBVIOUS
<1>. HIDE DEF r
<1>3. ASSUME NEW x PROVE ~ Before(list, x, x)
  BY <1>2 DEF Before, Distinct
<1>4. ASSUME NEW i \in DOMAIN r, NEW j \in DOMAIN r, i < j PROVE r[i] # r[j]
  <2>1. Before(r, r[i], r[j])
    BY <1>4 DEF Before
  <2>2. Before(list, r[i], r[j])
    BY <1>1, <2>1
  <2>. QED
    BY <1>3, <2>2
<1>5. Distinct(r)
  <2>1. ASSUME NEW i \in DOMAIN r, NEW j \in DOMAIN r, r[i] = r[j] PROVE i = j
    <3>1. i \in Nat /\ j \in Nat /\ ~(i < j) /\ ~(j < i)
      BY <1>1, <1>4, <2>1
    <3>. QED
      BY <3>1
  <2>. QED
    BY <2>1 DEF Distinct
<1>6. ASSUME NEW x \in S, NEW y \in S, Before(list, x, y) PROVE Before(r, x, y)
  <2>1. x \in Range(r) /\ y \in Range(r)
    BY <1>1, <1>6 DEF Before, Range
  <2>2. PICK i \in DOMAIN r, j \in DOMAIN r : r[i] = x /\ r[j] = y
    BY <2>1 DEF Range
  <2>3. ~ Before(list, y, x)
    <3>1. PICK a, b \in 1..Len(list) : a < b /\ list[a] = x /\ list[b] = y
      BY <1>2, <1>6 DEF Before
    <3>2. ASSUME NEW k \in 1..Len(list), NEW l \in 1..Len(list), k < l, list[k] = y, list[l] = x
          PROVE  FALSE
      <4>1. k = b /\ l = a
        BY <1>2, <3>1, <3>2 DEF Distinct
      <4>. QED
        BY <3>1, <3>2, <4>1
    <3>. QED
      BY <1>2, <3>2 DEF Before
  <2>4. ~ Before(r, y, x) /\ x # y
    BY <1>1, <1>3, <1>6, <2>3
  <2>5. ~(j < i) /\ i # j /\ i \in Nat /\ j \in Nat
    BY <1>1, <2>2, <2>4 DEF Before
  <2>6. i < j
    BY <2>5
  <2>. QED
    BY <2>2, <2>6 DEF Before
<1>. QED
  BY <1>5, <1>6 DEF r

LEMMA LinkedEntries ==
  ASSUME NEW A, NEW list \in Seq(A), Distinct(list), NEW x \in A
  PROVE  /\ Linked(list, x) \in Seq(A) /\ Distinct(Linked(list, x))
         /\ Range(Linked(list, x)) = Range(list) \cup {x}
         /\ \A y, z : Before(list, y, z) => Before(Linked(list, x), y, z)
         /\ x \notin Range(list) => \A y \in Range(list) : Before(Linked(list, x), y, x)
<1>1. CASE x \in Range(list)
  BY <1>1 DEF Linked
<1>2. CASE x \notin Range(list)
  <2>. DEFINE e == Append(list, x)
              n == Len(list)
  <2>1. /\ n \in Nat /\ e \in Seq(A) /\ DOMAIN list = 1..n /\ DOMAIN e = 1..(n + 1)
        /\ \A i \in 1..n : e[i] = list[i]
        /\ e[n + 1] = x /\ \A i \in 1..n : list[i] # x
    BY <1>2 DEF Range
  <2>. HIDE DEF e, n
  <2>2. Distinct(e)
    BY <2>1 DEF Distinct
  <2>3. Range(e) = Range(list) \cup {x}
    <3>1. Range(e) \subseteq Range(list) \cup {x}
      BY <2>1 DEF Range
    <3>2. Range(list) \subseteq Range(e) /\ x \in Range(e)
      BY <2>1 DEF Range
    <3>. QED
      BY <3>1, <3>2
  <2>4. ASSUME NEW y, NEW z, Before(list, y, z) PROVE Before(e, y, z)
    <3>1. PICK i, j \in 1..n : i < j /\ list[i] = y /\ list[j] = z
      BY <2>1, <2>4 DEF Before
    <3>. QED
      BY <2>1, <3>1 DEF Before
  <2>5. ASSUME NEW y \in Range(list) PROVE Before(e, y, x)
    <3>1. PICK i \in 1..n : list[i] = y
      BY <2>1 DEF Range
    <3>2. i \in DOMAIN e /\ n + 1 \in DOMAIN e /\ i < n + 1 /\ e[i] = y
      BY <2>1, <3>1
    <3>. QED
      BY <2>1, <3>2 DEF Before
  <2>. QED
    BY <1>2, <2>1, <2>2, <2>3, <2>4, <2>5 DEF Linked, e
<1>. QED
  BY <1>1, <1>2
LEMMA TailEntries ==
  ASSUME NEW A, NEW q \in Seq(A), Distinct(q), q # <<>>
  PROVE  /\ Tail(q) \in Seq(A) /\ Distinct(Tail(q))
         /\ Head(q) \in Range(q) /\ Range(Tail(q)) = Range(q) \ {Head(q)}
         /\ \A y, z : Before(q, y, z) /\ y # Head(q) => Before(Tail(q), y, z)
<1>. DEFINE e == Tail(q)
            n == Len(q)
<1>1. /\ n \in Nat /\ n >= 1 /\ e \in Seq(A) /\ DOMAIN q = 1..n /\ DOMAIN e = 1..(n - 1)
      /\ \A i \in 1..(n - 1) : e[i] = q[i + 1]
      /\ Head(q) = q[1]
  OBVIOUS
<1>. HIDE DEF e, n
<1>2. Distinct(e)
  <2>1. \A i, j \in 1..n : q[i] = q[j] => i = j
    BY <1>1 DEF Distinct
  <2>2. ASSUME NEW i \in 1..(n - 1), NEW j \in 1..(n - 1), e[i] = e[j] PROVE i = j
    <3>1. i + 1 \in 1..n /\ j + 1 \in 1..n /\ q[i + 1] = q[j + 1]
      BY <1>1, <2>2
    <3>2. i + 1 = j + 1
      BY <2>1, <3>1
    <3>. QED
      BY <1>1, <3>2
  <2>. QED
    BY <1>1, <2>2 DEF Distinct
<1>3. Range(e) \subseteq Range(q) \ {Head(q)}
  BY <1>1 DEF Range, Distinct
<1>4. ASSUME NEW i \in 1..n, i # 1 PROVE i - 1 \in 1..(n - 1) /\ e[i - 1] = q[i]
  BY <1>1, <1>4
<1>5. ASSUME NEW x \in Range(q) \ {Head(q)} PROVE x \in Range(e)
  <2>1. PICK i \in 1..n : q[i] = x
    BY <1>1 DEF Range
  <2>2. i # 1
    BY <1>1, <2>1
  <2>. QED
    BY <1>1, <1>4, <2>1, <2>2 DEF Range
<1>6. ASSUME NEW y, NEW z, Before(q, y, z), y # Head(q) PROVE Before(e, y, z)
  <2>1. PICK i, j \in 1..n : i < j /\ q[i] = y /\ q[j] = z
    BY <1>1, <1>6 DEF Before
  <2>2. i # 1 /\ j # 1
    BY <1>1, <1>6, <2>1
  <2>3. /\ i - 1 \in DOMAIN e /\ j - 1 \in DOMAIN e /\ i - 1 < j - 1
        /\ e[i - 1] = y /\ e[j - 1] = z
    BY <1>1, <1>4, <2>1, <2>2
  <2>. QED
    BY <2>3 DEF Before
<1>7. Head(q) \in Range(q)
  BY <1>1 DEF Range
<1>. QED
  BY <1>1, <1>2, <1>3, <1>5, <1>6, <1>7 DEF e

\* What epoll_wait does to the ready list: the first n entries are the batch, and
\* go behind the rest.
LEMMA BatchEntries ==
  ASSUME NEW A, NEW ready \in Seq(A), Distinct(ready), NEW n \in 1..Len(ready)
  PROVE  LET batch == SubSeq(ready, 1, n)
             list  == SubSeq(ready, n + 1, Len(ready)) \o batch
         IN  /\ batch \in Seq(A) /\ Distinct(batch) /\ Range(batch) \subseteq Range(ready)
             /\ list \in Seq(A) /\ Distinct(list) /\ Range(list) = Range(ready)
             /\ \A y, z : Before(ready, y, z) /\ z \in Range(batch) => Before(batch, y, z)
             /\ \A y, z : Before(ready, y, z) /\ y \notin Range(batch) => Before(list, y, z)
             /\ \A y \in Range(ready) \ Range(batch) : \A z \in Range(batch) :
                  Before(list, y, z)
<1>. DEFINE batch == SubSeq(ready, 1, n)
            rest  == SubSeq(ready, n + 1, Len(ready))
            list  == rest \o batch
            L     == Len(ready)
<1>1. /\ L \in Nat /\ n \in Nat /\ 1 <= n /\ n <= L /\ DOMAIN ready = 1..L
      /\ batch \in Seq(A) /\ Len(batch) = n /\ \A i \in 1..n : batch[i] = ready[i]
      /\ rest \in Seq(A) /\ Len(rest) = L - n /\ \A i \in 1..(L - n) : rest[i] = ready[n + i]
  OBVIOUS
<1>. HIDE DEF batch, rest, L
<1>2. /\ list \in Seq(A) /\ Len(list) = L
      /\ \A i \in 1..L : list[i] = IF i <= L - n THEN rest[i] ELSE batch[i - (L - n)]
  <2>1. list \in Seq(A) /\ Len(list) = (L - n) + n
    BY <1>1
  <2>2. ASSUME NEW i \in 1..L
        PROVE  list[i] = IF i <= L - n THEN rest[i] ELSE batch[i - (L - n)]
    BY <1>1
  <2>. QED
    BY <1>1, <2>1, <2>2
<1>3. DOMAIN batch = 1..n /\ DOMAIN list = 1..L
  BY <1>1, <1>2
<1>. HIDE DEF list
<1>4. ASSUME NEW i \in 1..L
      PROVE  list[i] = IF i <= L - n THEN ready[n + i] ELSE ready[i - (L - n)]
  <2>1. CASE i <= L - n
    <3>1. i \in 1..(L - n)
      BY <1>1, <2>1
    <3>2. rest[i] = ready[n + i]
      BY <1>1, <3>1
    <3>. QED
      BY <1>2, <2>1, <3>2
  <2>2. CASE ~ (i <= L - n)
    <3>1. i - (L - n) \in 1..n
      BY <1>1, <2>2
    <3>2. batch[i - (L - n)] = ready[i - (L - n)]
      BY <1>1, <3>1
    <3>. QED
      BY <1>2, <2>2, <3>2
  <2>. QED
    BY <2>1, <2>2
<1>5. \A i, j \in 1..L : ready[i] = ready[j] => i = j
  BY <1>1 DEF Distinct
<1>6. Distinct(batch)
  BY <1>1, <1>3, <1>5 DEF Distinct
<1>7. Distinct(list)
  <2>1. ASSUME NEW i \in 1..L, NEW j \in 1..L, list[i] = list[j] PROVE i = j
    <3>. DEFINE at(k) == IF k <= L - n THEN n + k ELSE k - (L - n)
    <3>1. at(i) \in 1..L /\ at(j) \in 1..L /\ list[i] = ready[at(i)] /\ list[j] = ready[at(j)]
      BY <1>1, <1>4
    <3>2. at(i) = at(j)
      BY <1>5, <2>1, <3>1
    <3>. QED
      BY <1>1, <3>2
  <2>. QED
    BY <1>3, <2>1 DEF Distinct
<1>8. \A x \in Range(batch) : \E i \in 1..n : ready[i] = x
  BY <1>1, <1>3 DEF Range
<1>9. ASSUME NEW i \in 1..n
      PROVE  i + (L - n) \in 1..L /\ list[i + (L - n)] = ready[i] /\ ready[i] \in Range(batch)
  <2>1. i + (L - n) \in 1..L /\ list[i + (L - n)] = ready[i]
    BY <1>1, <1>4
  <2>2. ready[i] \in Range(batch)
    BY <1>1, <1>3 DEF Range
  <2>. QED
    BY <2>1, <2>2
<1>10. ASSUME NEW i \in 1..L, i > n
       PROVE  i - n \in 1..(L - n) /\ i - n \in 1..L /\ list[i - n] = ready[i]
  BY <1>1, <1>4, <1>10
<1>11. Range(batch) \subseteq Range(ready)
  BY <1>1, <1>8 DEF Range
<1>12. Range(list) = Range(ready)
  <2>1. ASSUME NEW x \in Range(list) PROVE x \in Range(ready)
    <3>1. PICK i \in 1..L : list[i] = x
      BY <1>3 DEF Range
    <3>2. PICK k \in 1..L : list[i] = ready[k]
      BY <1>1, <1>4
    <3>. QED
      BY <1>1, <3>1, <3>2 DEF Range
  <2>2. ASSUME NEW x \in Range(ready) PROVE x \in Range(list)
    <3>1. PICK i \in 1..L : ready[i] = x
      BY <1>1 DEF Range
    <3>2. PICK k \in 1..L : list[k] = ready[i]
      <4>1. CASE i <= n
        <5>1. i \in 1..n
          BY <1>1, <4>1
        <5>. QED
          BY <1>9, <5>1
      <4>2. CASE i > n
        BY <1>10, <4>2
      <4>. QED
        BY <1>1, <4>1, <4>2
    <3>. QED
      BY <1>3, <3>1, <3>2 DEF Range
  <2>. QED
    BY <2>1, <2>2
<1>13. ASSUME NEW y, NEW z, Before(ready, y, z)
       PROVE  /\ z \in Range(batch) => Before(batch, y, z)
              /\ y \notin Range(batch) => Before(list, y, z)
  <2>1. PICK i, j \in 1..L : i < j /\ ready[i] = y /\ ready[j] = z
    BY <1>1, <1>13 DEF Before
  <2>2. ASSUME z \in Range(batch) PROVE Before(batch, y, z)
    <3>1. PICK k \in 1..n : ready[k] = z
      BY <1>8, <2>2
    <3>2. j = k /\ i \in 1..n
      BY <1>1, <1>5, <2>1, <3>1
    <3>3. i \in DOMAIN batch /\ j \in DOMAIN batch /\ batch[i] = y /\ batch[j] = z
      BY <1>1, <1>3, <2>1, <3>1, <3>2
    <3>. QED
      BY <2>1, <3>3 DEF Before
  <2>3. ASSUME y \notin Range(batch) PROVE Before(list, y, z)
    <3>1. i \notin 1..n
      BY <1>9, <2>1, <2>3
    <3>3. i > n /\ j > n
      BY <1>1, <2>1, <3>1
    <3>2. /\ i - n \in DOMAIN list /\ j - n \in DOMAIN list /\ i - n < j - n
          /\ list[i - n] = y /\ list[j - n] = z
      BY <1>1, <1>3, <1>10, <2>1, <3>3
    <3>. QED
      BY <3>2 DEF Before
  <2>. QED
    BY <2>2, <2>3
<1>14. ASSUME NEW y \in Range(ready) \ Range(batch), NEW z \in Range(batch)
       PROVE  Before(list, y, z)
  <2>1. PICK i \in 1..L : ready[i] = y
    BY <1>1 DEF Range
  <2>2. PICK j \in 1..n : ready[j] = z
    BY <1>8
  <2>3. i > n
    BY <1>1, <1>9, <2>1
  <2>4. /\ i - n \in DOMAIN list /\ j + (L - n) \in DOMAIN list /\ i - n < j + (L - n)
        /\ list[i - n] = y /\ list[j + (L - n)] = z
    BY <1>1, <1>3, <1>9, <1>10, <2>1, <2>2, <2>3
  <2>. QED
    BY <2>4 DEF Before
<1>. QED
  BY <1>1, <1>2, <1>6, <1>7, <1>11, <1>12, <1>13, <1>14 DEF batch, list, rest, L
-----------------------------------------------------------------------------
(* The ready list and the batch under every step of the loop.                *)

Fds == Conns \cup {Timer, Listen}

Lists ==
  /\ rdl \in Seq(Fds) /\ Distinct(rdl)
  /\ events \in Seq(Fds) /\ Distinct(events)
  /\ pending \in Nat /\ left \in Nat
  /\ left > 0 => events # <<>> /\ Head(events) = Timer

LEMMA ClosedLists ==
  ASSUME Lists, NEW S, Closed(S)
  PROVE  /\ rdl' \in Seq(Fds) /\ Distinct(rdl') /\ Range(rdl') = Range(rdl) \ S
         /\ \A x, y : x \notin S /\ y \notin S /\ Before(rdl, x, y) => Before(rdl', x, y)
<1>1. rdl' = Kept(rdl, Range(rdl) \ S) /\ rdl \in Seq(Fds) /\ Distinct(rdl)
  BY DEF Closed, Lists
<1>2. rdl' \in Seq(Fds) /\ Range(rdl') = Range(rdl) \ S
  BY <1>1, KeptEntries
<1>3. ASSUME NEW x, NEW y, Before(rdl, x, y), x \notin S, y \notin S PROVE Before(rdl', x, y)
  <2>1. x \in Range(rdl) \ S /\ y \in Range(rdl) \ S
    BY <1>3 DEF Before, Range
  <2>. QED
    BY <1>1, <1>3, <2>1, KeptOrder
<1>. QED
  BY <1>1, <1>2, <1>3, KeptOrder

LEMMA EpollWaitLists ==
  ASSUME Lists, EpollWait
  PROVE  /\ events' \in Seq(Fds) /\ Distinct(events')
         /\ rdl' \in Seq(Fds) /\ Distinct(rdl')
         /\ Range(rdl') = {x \in Range(rdl) : Readable(x)} /\ Range(events') \subseteq Range(rdl')
         /\ \A x, y \in Range(rdl') : Before(rdl, x, y) =>
              /\ y \in Range(events') => Before(events', x, y)
              /\ x \notin Range(events') => Before(rdl', x, y)
         /\ \A x \in Range(rdl') \ Range(events') : \A y \in Range(events') : Before(rdl', x, y)
<1>. DEFINE now   == {x \in Range(rdl) : Readable(x)}
            ready == Kept(rdl, now)
            n     == IF Len(ready) < BatchMax THEN Len(ready) ELSE BatchMax
<1>1. rdl \in Seq(Fds) /\ Distinct(rdl)
  BY DEF Lists
<1>2. ready \in Seq(Fds) /\ Range(ready) = now
  BY <1>1, KeptEntries
<1>3. Distinct(ready) /\ \A x, y \in now : Before(rdl, x, y) => Before(ready, x, y)
  BY <1>1, KeptOrder
<1>4. /\ n > 0 /\ events' = SubSeq(ready, 1, n)
      /\ rdl' = SubSeq(ready, n + 1, Len(ready)) \o SubSeq(ready, 1, n)
  BY DEF EpollWait
<1>. HIDE DEF ready, now
<1>5. n \in 1..Len(ready)
  BY <1>2, <1>4, LoopAssumption
<1>. HIDE DEF n
<1>6. /\ events' \in Seq(Fds) /\ Distinct(events') /\ Range(events') \subseteq Range(ready)
      /\ rdl' \in Seq(Fds) /\ Distinct(rdl') /\ Range(rdl') = Range(ready)
      /\ \A x, y : Before(ready, x, y) /\ y \in Range(events') => Before(events', x, y)
      /\ \A x, y : Before(ready, x, y) /\ x \notin Range(events') => Before(rdl', x, y)
      /\ \A x \in Range(ready) \ Range(events') : \A y \in Range(events') : Before(rdl', x, y)
  BY <1>2, <1>3, <1>4, <1>5, BatchEntries
<1>7. \A x, y \in Range(rdl') : Before(rdl, x, y) => Before(ready, x, y)
  BY <1>2, <1>3, <1>6
<1>. QED
  BY <1>2, <1>6, <1>7 DEF now

LEMMA WokenLists ==
  ASSUME Lists, Tables, NEW c \in Clients
  PROVE  Woken(c) = rdl \/ \E fd \in open : who[fd] = c /\ Woken(c) = Linked(rdl, fd)
<1>1. CASE Served(c)
  <2>1. PICK fd : fd = CHOOSE k \in open : who[k] = c
    OBVIOUS
  <2>2. fd \in open /\ who[fd] = c
    BY <1>1, <2>1 DEF Served
  <2>. QED
    BY <1>1, <2>1, <2>2 DEF Woken
<1>2. CASE ~Served(c)
  BY <1>2 DEF Woken
<1>. QED
  BY <1>1, <1>2

LEMMA NextEventLists ==
  ASSUME Lists, events # <<>>, NextEvent
  PROVE  /\ events' \in Seq(Fds) /\ Distinct(events')
         /\ Head(events) \in Range(events) /\ Range(events') = Range(events) \ {Head(events)}
         /\ \A x, y : Before(events, x, y) /\ x # Head(events) => Before(events', x, y)
  BY TailEntries DEF Lists, NextEvent

\* What a step does to the ready list: only the clock links the timer, and what is
\* taken off it is not registered any more.
LEMMA ReadyStep ==
  ASSUME WheelInv, Lists, Tables, [LoopNext]_loop
  PROVE  \/ EpollWait
         \/ rdl' = rdl
         \/ \E x \in Fds : rdl' = Linked(rdl, x) /\ (x = Timer => Second)
         \/ \E S \in SUBSET Conns : Closed(S) /\ S \cap open' = {}
<1>0. Timer \notin Conns /\ Timer # Listen /\ Conns \subseteq Fds /\ {Timer, Listen} \subseteq Fds
  BY LoopAssumption DEF Fds
<1>1. ASSUME NEW c \in Clients, SendHalf(c) \/ Leave(c)
      PROVE  rdl' = rdl \/ \E x \in Conns : rdl' = Linked(rdl, x)
  BY <1>1, WokenLists DEF SendHalf, Leave, Tables
<1>2. ASSUME NEW c \in Clients, RegisterControl(c)
      PROVE  rdl' = rdl \/ \E x \in Conns : rdl' = Linked(rdl, x)
  BY <1>2, FreeDescriptor DEF RegisterControl, Registered, AcceptedRole
<1>3. ASSUME NEW c \in Clients, SendRole(c) \/ RejectControl(c) \/ EnqueueTransfer(c)
      PROVE  rdl' = rdl
  BY <1>3 DEF SendRole, RejectControl, EnqueueTransfer
<1>4. ASSUME NEW c \in Clients, Connect(c)
      PROVE  rdl' = Linked(rdl, Listen)
  BY <1>4 DEF Connect
<1>5. ASSUME Second PROVE Second /\ rdl' = Linked(rdl, Timer)
  BY <1>5 DEF Second
<1>6. CASE HandleTimer \/ AcceptFails \/ DropAccepted
  BY <1>6 DEF HandleTimer, AcceptFails, DropAccepted
<1>7. ASSUME NEW fd \in Conns, PassOver(fd) \/ ServeCommand(fd)
      PROVE  rdl' = rdl
  BY <1>7 DEF PassOver, ServeCommand, Dispatched
<1>8. ASSUME NEW fd \in Conns, CloseControl(fd) \/ WorkerCloses(fd)
      PROVE  \E S \in SUBSET Conns : Closed(S) /\ S \cap open' = {}
  BY <1>8 DEF CloseControl, WorkerCloses, Remove, vars
<1>9. CASE TickStep
  <2>. DEFINE S == Due(current_tick + 1)
  <2>1. Closed(S) /\ open' = open \ S
    BY <1>9 DEF TickStep, Tick
  <2>2. S \in SUBSET Conns
    BY DueNow DEF WheelInv, TypeOK
  <2>. HIDE DEF S
  <2>3. S \cap open' = {}
    BY <2>1
  <2>. QED
    BY <2>1, <2>2, <2>3
<1>10. CASE UNCHANGED loop
  BY <1>10 DEF loop, loopVars
<1>11. ASSUME NEW x \in Conns, rdl' = Linked(rdl, x) PROVE x \in Fds /\ (x = Timer => Second)
  BY <1>0, <1>11
<1>. QED
  BY <1>0, <1>1, <1>2, <1>3, <1>4, <1>5, <1>6, <1>7, <1>8, <1>9, <1>10, <1>11
     DEF LoopNext, MainStep

\* What a step does to the batch.
LEMMA BatchStep ==
  ASSUME [LoopNext]_loop
  PROVE  \/ EpollWait
         \/ UNCHANGED <<events, left, pending>>
         \/ \E x : HandleEvent(x) /\ NextEvent /\ UNCHANGED <<left, pending>>
         \/ HandleTimer
         \/ TickStep
         \/ Second
<1>1. ASSUME NEW c \in Clients,
             Connect(c) \/ SendRole(c) \/ SendHalf(c) \/ Leave(c)
      PROVE  UNCHANGED <<events, left, pending>>
  BY <1>1 DEF Connect, SendRole, SendHalf, Leave
<1>2. ASSUME NEW c \in Clients, RegisterControl(c) \/ RejectControl(c) \/ EnqueueTransfer(c)
      PROVE  HandleEvent(Listen) /\ NextEvent /\ UNCHANGED <<left, pending>>
  BY <1>2 DEF RegisterControl, Registered, RejectControl, EnqueueTransfer, AcceptedRole
<1>3. CASE AcceptFails \/ DropAccepted
  BY <1>3 DEF AcceptFails, DropAccepted
<1>4. ASSUME NEW fd \in Conns, PassOver(fd) \/ ServeCommand(fd) \/ CloseControl(fd)
      PROVE  HandleEvent(fd) /\ NextEvent /\ UNCHANGED <<left, pending>>
  BY <1>4 DEF PassOver, ServeCommand, Dispatched, CloseControl
<1>5. ASSUME NEW fd \in Conns, WorkerCloses(fd)
      PROVE  UNCHANGED <<events, left, pending>>
  BY <1>5 DEF WorkerCloses
<1>6. CASE UNCHANGED loop
  BY <1>6 DEF loop, loopVars
<1>. QED
  BY <1>1, <1>2, <1>3, <1>4, <1>5, <1>6 DEF LoopNext, MainStep

LEMMA ListsStep ==
  ASSUME WheelInv, Lists, Tables, [LoopNext]_loop
  PROVE  Lists'
<1>1. rdl' \in Seq(Fds) /\ Distinct(rdl')
  <2>1. ASSUME NEW x \in Fds, rdl' = Linked(rdl, x) PROVE rdl' \in Seq(Fds) /\ Distinct(rdl')
    BY <2>1, LinkedEntries DEF Lists
  <2>2. ASSUME NEW S, Closed(S) PROVE rdl' \in Seq(Fds) /\ Distinct(rdl')
    BY <2>2, ClosedLists
  <2>3. CASE rdl' = rdl
    BY <2>3 DEF Lists
  <2>. QED
    BY <2>1, <2>2, <2>3, EpollWaitLists, ReadyStep
<1>2. CASE EpollWait
  <2>1. events = <<>> /\ left' = left /\ pending' = pending
    BY <1>2 DEF EpollWait
  <2>. QED
    BY <1>1, <1>2, <2>1, EpollWaitLists DEF Lists
<1>3. CASE \E x : HandleEvent(x) /\ NextEvent /\ UNCHANGED <<left, pending>>
  <2>1. events # <<>> /\ left = 0 /\ NextEvent /\ UNCHANGED <<left, pending>>
    BY <1>3 DEF HandleEvent
  <2>. QED
    BY <1>1, <2>1, NextEventLists DEF Lists
<1>4. CASE HandleTimer
  BY <1>1, <1>4 DEF Lists, HandleTimer, HandleEvent
<1>5. CASE TickStep
  <2>1. left \in Nat /\ left > 0 /\ left' = left - 1 /\ pending' = pending /\ events # <<>>
    BY <1>5 DEF TickStep, Lists
  <2>2. CASE left = 1
    <3>1. NextEvent
      BY <1>5, <2>2 DEF TickStep
    <3>. QED
      BY <1>1, <2>1, <2>2, <3>1, NextEventLists DEF Lists
  <2>3. CASE left # 1
    <3>1. events' = events
      BY <1>5, <2>3 DEF TickStep
    <3>. QED
      BY <1>1, <2>1, <3>1 DEF Lists
  <2>. QED
    BY <2>2, <2>3
<1>6. CASE Second
  BY <1>1, <1>6 DEF Lists, Second
<1>7. CASE UNCHANGED <<events, left, pending>>
  BY <1>1, <1>7 DEF Lists
<1>. QED
  BY <1>2, <1>3, <1>4, <1>5, <1>6, <1>7, BatchStep
-----------------------------------------------------------------------------
(* Where a client is: not connected, in the backlog, or at one descriptor.   *)

States == {"out", "new", "ctrl", "transfer", "left", "cut"}

Seats ==
  /\ Tables /\ OwnSession
  /\ \A f, g \in Conns : who[f] # None /\ who[f] = who[g] => f = g
  /\ backlog \in Seq(Clients) /\ Distinct(backlog)
  /\ \A f \in Conns : who[f] \notin Range(backlog)
  /\ Listen \in Range(events) => backlog # <<>>
  /\ client \in [Clients -> States]
  /\ \A c \in Clients : client[c] = "out" => c \notin Range(backlog)

\* Behind its role a client has only commands in flight; the role is read before
\* the descriptor is registered.
Boxes ==
  /\ inbox \in [Clients -> Seq({"ctrl", "transfer", "half"})]
  /\ askedAt \in [Clients -> Nat]
  /\ \A c \in Clients : \A i \in 2..Len(inbox[c]) : inbox[c][i] = "half"
  /\ \A c \in Clients : Served(c) /\ inbox[c] # <<>> => Head(inbox[c]) = "half"
  /\ \A c \in Clients :
       client[c] \in {"out", "new"} => inbox[c] = <<>> /\ \A f \in Conns : who[f] # c

\* Accepting takes the first client out of the backlog.
LEMMA AcceptSeats ==
  ASSUME Seats, Lists, HandleEvent(Listen), backlog' = Tail(backlog), NextEvent
  PROVE  /\ Head(backlog) \in Clients /\ Head(backlog) \in Range(backlog)
         /\ backlog' \in Seq(Clients) /\ Distinct(backlog')
         /\ Range(backlog') = Range(backlog) \ {Head(backlog)}
         /\ Listen \notin Range(events')
<1>1. events # <<>> /\ Head(events) = Listen
  BY DEF HandleEvent
<1>2. Listen \in Range(events) /\ Listen \notin Range(events')
  BY <1>1, NextEventLists
<1>3. backlog \in Seq(Clients) /\ Distinct(backlog) /\ backlog # <<>>
  BY <1>2 DEF Seats
<1>. QED
  BY <1>2, <1>3, TailEntries

\* A descriptor is given to the first client of the backlog.
LEMMA SeatTaken ==
  ASSUME Seats, Lists, NEW c \in Clients, NEW role, AcceptedRole(c, role),
         who' = [who EXCEPT ![Min(Free)] = c], client' = client, Tables', OwnSession'
  PROVE  Seats'
<1>1. /\ Head(backlog) = c /\ c \in Range(backlog)
      /\ backlog' \in Seq(Clients) /\ Distinct(backlog')
      /\ Range(backlog') = Range(backlog) \ {c}
      /\ Listen \notin Range(events')
  BY AcceptSeats DEF AcceptedRole
<1>2. Min(Free) \in Conns /\ who[Min(Free)] = None
  BY FreeDescriptor DEF AcceptedRole
<1>3. \A f \in Conns : who'[f] = IF f = Min(Free) THEN c ELSE who[f]
  BY <1>2 DEF Seats, Tables
<1>4. \A f, g \in Conns : who'[f] # None /\ who'[f] = who'[g] => f = g
  BY <1>1, <1>3 DEF Seats
<1>5. \A f \in Conns : who'[f] \notin Range(backlog')
  BY <1>1, <1>3 DEF Seats
<1>. QED
  BY <1>1, <1>4, <1>5 DEF Seats

LEMMA ClosedSeats ==
  ASSUME Seats, NEW S, Closed(S), backlog' = backlog, Range(events') \subseteq Range(events),
         Tables', OwnSession'
  PROVE  Seats'
<1>1. \A f \in Conns : who'[f] = IF f \in S THEN None ELSE who[f]
  BY DEF Closed
<1>2. /\ client' \in [Clients -> States]
      /\ \A c \in Clients : client'[c] = "out" => client[c] = "out"
  BY DEF Closed, Seats, States
<1>3. None \notin Range(backlog)
  BY LoopAssumption DEF Seats, Range
<1>4. \A f \in Conns : who'[f] \notin Range(backlog')
  BY <1>1, <1>3 DEF Seats
<1>5. \A f, g \in Conns : who'[f] # None /\ who'[f] = who'[g] => f = g
  BY <1>1 DEF Seats
<1>. QED
  BY <1>2, <1>4, <1>5 DEF Seats

LEMMA BatchShrinks ==
  ASSUME Lists, NextEvent \/ UNCHANGED events, events = <<>> => UNCHANGED events
  PROVE  Range(events') \subseteq Range(events)
<1>1. CASE events' = events
  BY <1>1
<1>2. CASE events # <<>> /\ NextEvent
  BY <1>2, NextEventLists
<1>. QED
  BY <1>1, <1>2

LEMMA SeatsStep ==
  ASSUME Seats, Lists, Boxes, [LoopNext]_loop
  PROVE  Seats'
<1>0. Tables' /\ OwnSession'
  BY SessionStep DEF Seats
<1>1. ASSUME NEW c \in Clients, RegisterControl(c) PROVE Seats'
  <2>1. AcceptedRole(c, "ctrl") /\ who' = [who EXCEPT ![Min(Free)] = c] /\ client' = client
    BY <1>1 DEF RegisterControl, Registered
  <2>. QED
    BY <1>0, <2>1, SeatTaken
<1>2. ASSUME NEW c \in Clients, EnqueueTransfer(c) PROVE Seats'
  <2>1. /\ AcceptedRole(c, "transfer") /\ who' = [who EXCEPT ![Min(Free)] = c]
        /\ client' = client
    BY <1>2 DEF EnqueueTransfer, clientVars
  <2>. QED
    BY <1>0, <2>1, SeatTaken
<1>3. ASSUME NEW c \in Clients, RejectControl(c) PROVE Seats'
  <2>1. /\ backlog' \in Seq(Clients) /\ Distinct(backlog')
        /\ Range(backlog') \subseteq Range(backlog) /\ Listen \notin Range(events')
    BY <1>3, AcceptSeats DEF RejectControl, AcceptedRole
  <2>2. who' = who /\ client' = [client EXCEPT ![c] = "cut"]
    BY <1>3 DEF RejectControl
  <2>. QED
    BY <1>0, <2>1, <2>2 DEF Seats, States
<1>4. CASE DropAccepted
  <2>1. /\ backlog' \in Seq(Clients) /\ Distinct(backlog')
        /\ Range(backlog') \subseteq Range(backlog) /\ Listen \notin Range(events')
    BY <1>4, AcceptSeats DEF DropAccepted
  <2>2. who' = who /\ client' = client
    BY <1>4 DEF DropAccepted, clientVars
  <2>. QED
    BY <1>0, <2>1, <2>2 DEF Seats
<1>5. CASE TickStep
  <2>1. Closed(Due(current_tick + 1)) /\ backlog' = backlog /\ Range(events') \subseteq Range(events)
    BY <1>5, BatchShrinks DEF TickStep, Lists
  <2>. QED
    BY <1>0, <2>1, ClosedSeats
<1>6. ASSUME NEW fd \in Conns, CloseControl(fd) \/ WorkerCloses(fd) PROVE Seats'
  <2>1. Closed({fd}) /\ backlog' = backlog /\ Range(events') \subseteq Range(events)
    BY <1>6, BatchShrinks DEF CloseControl, WorkerCloses, HandleEvent
  <2>. QED
    BY <1>0, <2>1, ClosedSeats
<1>7. CASE EpollWait
  <2>1. UNCHANGED <<who, backlog, client>>
    BY <1>7 DEF EpollWait, clientVars
  <2>2. Range(events') \subseteq Range(rdl') /\ \A x \in Range(rdl') : Readable(x)
    BY <1>7, EpollWaitLists
  <2>3. Readable(Listen) => backlog # <<>>
    BY LoopAssumption DEF Readable
  <2>. QED
    BY <1>0, <2>1, <2>2, <2>3 DEF Seats
<1>8. ASSUME NEW c \in Clients, Connect(c) PROVE Seats'
  <2>1. /\ client[c] = "out" /\ client' = [client EXCEPT ![c] = "new"]
        /\ backlog' = Append(backlog, c) /\ who' = who /\ events' = events
    BY <1>8 DEF Connect
  <2>2. c \notin Range(backlog) /\ \A f \in Conns : who[f] # c
    BY <2>1 DEF Seats, Boxes
  <2>3. backlog' = Linked(backlog, c) /\ backlog \in Seq(Clients) /\ Distinct(backlog)
    BY <2>1, <2>2 DEF Linked, Seats
  <2>4. /\ backlog' \in Seq(Clients) /\ Distinct(backlog')
        /\ Range(backlog') = Range(backlog) \cup {c}
    BY <2>3, LinkedEntries
  <2>5. backlog' # <<>>
    <3>1. Len(Append(backlog, c)) = Len(backlog) + 1 /\ Len(backlog) \in Nat
      BY <2>3
    <3>. QED
      BY <2>1, <3>1
  <2>6. /\ client' \in [Clients -> States]
        /\ \A d \in Clients : client'[d] = "out" => d # c /\ client[d] = "out"
    BY <2>1 DEF Seats, States
  <2>. QED
    BY <1>0, <2>1, <2>2, <2>4, <2>5, <2>6 DEF Seats
<1>9. ASSUME NEW c \in Clients, SendRole(c) \/ Leave(c) PROVE Seats'
  <2>1. UNCHANGED <<who, backlog, events>>
    BY <1>9 DEF SendRole, Leave
  <2>2. \E k \in {"ctrl", "transfer", "left"} : client' = [client EXCEPT ![c] = k]
    BY <1>9, LoopAssumption DEF SendRole, Leave
  <2>3. /\ client' \in [Clients -> States]
        /\ \A d \in Clients : client'[d] = "out" => client[d] = "out"
    BY <2>2 DEF Seats, States
  <2>. QED
    BY <1>0, <2>1, <2>3 DEF Seats
<1>10. ASSUME UNCHANGED <<who, backlog, client>>, Range(events') \subseteq Range(events)
       PROVE  Seats'
  BY <1>0, <1>10 DEF Seats
<1>11. CASE \/ HandleTimer \/ AcceptFails \/ Second
            \/ \E fd \in Conns : PassOver(fd) \/ ServeCommand(fd)
            \/ \E c \in Clients : SendHalf(c)
            \/ UNCHANGED loop
  <2>1. UNCHANGED <<who, backlog, client>>
    BY <1>11 DEF HandleTimer, AcceptFails, Second, PassOver, ServeCommand, Dispatched, SendHalf,
                 loop, loopVars, clientVars
  <2>2. Range(events') \subseteq Range(events)
    BY <1>11, BatchShrinks
       DEF HandleTimer, AcceptFails, Second, PassOver, ServeCommand, Dispatched, SendHalf,
           HandleEvent, loop, loopVars
  <2>. QED
    BY <1>10, <2>1, <2>2
<1>. QED
  BY <1>1, <1>2, <1>3, <1>4, <1>5, <1>6, <1>7, <1>8, <1>9, <1>11 DEF LoopNext, MainStep
LEMMA ClockIsNat ==
  ASSUME WheelInv, Lists
  PROVE  Clock \in Nat /\ current_tick \in Nat /\ Clock >= current_tick
BY DEF WheelInv, TypeOK, Lists, Clock

\* An unread command more.
LEMMA OneMore ==
  ASSUME NEW q \in Seq({"ctrl", "transfer", "half"}),
         \A i \in 2..Len(q) : q[i] = "half"
  PROVE  LET e == Append(q, "half") IN
         /\ e \in Seq({"ctrl", "transfer", "half"}) /\ Len(e) = Len(q) + 1 /\ e # <<>>
         /\ \A i \in 2..Len(e) : e[i] = "half"
         /\ (q # <<>> => Head(q) = "half") => Head(e) = "half"
         /\ (q # <<>> => Head(e) = Head(q))
<1>. DEFINE e == Append(q, "half")
            n == Len(q)
<1>1. /\ n \in Nat /\ e \in Seq({"ctrl", "transfer", "half"}) /\ Len(e) = n + 1
      /\ e[n + 1] = "half" /\ \A i \in 1..n : e[i] = q[i]
      /\ q = <<>> <=> n = 0
  OBVIOUS
<1>3. q # <<>> => Head(q) = q[1] /\ 1 \in 1..n
  BY <1>1
<1>. HIDE DEF e
<1>2. e # <<>> /\ Head(e) = e[1]
  BY <1>1
<1>. HIDE DEF n
<1>4. \A i \in 2..Len(e) : e[i] = "half"
  BY <1>1 DEF n
<1>. QED
  BY <1>1, <1>2, <1>3, <1>4 DEF e, n

\* The role has been read.
LEMMA OneLess ==
  ASSUME NEW q \in Seq({"ctrl", "transfer", "half"}), q # <<>>,
         \A i \in 2..Len(q) : q[i] = "half"
  PROVE  LET e == Tail(q) IN
         /\ e \in Seq({"ctrl", "transfer", "half"}) /\ Len(e) = Len(q) - 1
         /\ \A i \in 1..Len(e) : e[i] = "half"
         /\ e # <<>> => Head(e) = "half"
<1>. DEFINE e == Tail(q)
            n == Len(q)
<1>1. /\ n \in Nat /\ n >= 1 /\ e \in Seq({"ctrl", "transfer", "half"}) /\ Len(e) = n - 1
      /\ \A i \in 1..(n - 1) : e[i] = q[i + 1]
  OBVIOUS
<1>2. e # <<>> => Head(e) = e[1] /\ 1 \in 1..Len(e)
  BY <1>1
<1>. HIDE DEF e, n
<1>3. \A i \in 1..Len(e) : e[i] = "half"
  BY <1>1 DEF n
<1>. QED
  BY <1>1, <1>2, <1>3 DEF e, n

\* Boxes with one client's unread data changed.
LEMMA BoxChanged ==
  ASSUME Boxes, NEW c \in Clients, NEW q \in Seq({"ctrl", "transfer", "half"}),
         \A i \in 2..Len(q) : q[i] = "half",
         inbox' = [inbox EXCEPT ![c] = q], askedAt' \in [Clients -> Nat],
         Served(c)' /\ q # <<>> => Head(q) = "half",
         client'[c] \in {"out", "new"} => q = <<>> /\ \A f \in Conns : who'[f] # c,
         \A d \in Clients \ {c} : /\ client'[d] = client[d] /\ (Served(d)' => Served(d))
                                  /\ \A f \in Conns : who'[f] = d => who[f] = d
  PROVE  Boxes'
<1>1. /\ inbox' \in [Clients -> Seq({"ctrl", "transfer", "half"})]
      /\ inbox'[c] = q /\ \A d \in Clients \ {c} : inbox'[d] = inbox[d]
  BY DEF Boxes
<1>2. ASSUME NEW d \in Clients
      PROVE  /\ \A i \in 2..Len(inbox'[d]) : inbox'[d][i] = "half"
             /\ Served(d)' /\ inbox'[d] # <<>> => Head(inbox'[d]) = "half"
             /\ client'[d] \in {"out", "new"} =>
                  inbox'[d] = <<>> /\ \A f \in Conns : who'[f] # d
  <2>1. CASE d = c
    BY <1>1, <2>1
  <2>2. CASE d # c
    <3>1. inbox'[d] = inbox[d] /\ client'[d] = client[d] /\ (Served(d)' => Served(d))
      BY <1>1, <2>2
    <3>2. \A f \in Conns : who'[f] = d => who[f] = d
      BY <2>2
    <3>3. /\ \A i \in 2..Len(inbox[d]) : inbox[d][i] = "half"
          /\ Served(d) /\ inbox[d] # <<>> => Head(inbox[d]) = "half"
          /\ client[d] \in {"out", "new"} => inbox[d] = <<>> /\ \A f \in Conns : who[f] # d
      BY DEF Boxes
    <3>. QED
      BY <3>1, <3>2, <3>3
  <2>. QED
    BY <2>1, <2>2
<1>. QED
  BY <1>1, <1>2 DEF Boxes

\* Boxes where nobody's data grew.
LEMMA BoxesEmptied ==
  ASSUME Boxes, \A d \in Clients : inbox'[d] \in {inbox[d], <<>>},
         inbox' \in [Clients -> Seq({"ctrl", "transfer", "half"})], askedAt' \in [Clients -> Nat],
         \A d \in Clients : /\ client'[d] \in {"out", "new"} => client[d] = client'[d]
                            /\ Served(d)' => Served(d)
                            /\ \A f \in Conns : who'[f] = d => who[f] = d
  PROVE  Boxes'
<1>2. ASSUME NEW d \in Clients
      PROVE  /\ \A i \in 2..Len(inbox'[d]) : inbox'[d][i] = "half"
             /\ Served(d)' /\ inbox'[d] # <<>> => Head(inbox'[d]) = "half"
             /\ client'[d] \in {"out", "new"} =>
                  inbox'[d] = <<>> /\ \A f \in Conns : who'[f] # d
  <2>3. /\ \A i \in 2..Len(inbox[d]) : inbox[d][i] = "half"
        /\ Served(d) /\ inbox[d] # <<>> => Head(inbox[d]) = "half"
        /\ client[d] \in {"out", "new"} => inbox[d] = <<>> /\ \A f \in Conns : who[f] # d
    BY DEF Boxes
  <2>5. /\ client'[d] \in {"out", "new"} => client[d] = client'[d]
        /\ Served(d)' => Served(d)
        /\ \A f \in Conns : who'[f] = d => who[f] = d
    OBVIOUS
  <2>4. ASSUME client'[d] \in {"out", "new"}, NEW f \in Conns PROVE who'[f] # d
    <3>1. client[d] \in {"out", "new"}
      BY <2>4, <2>5
    <3>2. who[f] # d
      BY <2>3, <3>1
    <3>. QED
      BY <2>5, <3>2
  <2>1. CASE inbox'[d] = inbox[d]
    BY <2>1, <2>3, <2>4, <2>5
  <2>2. CASE inbox'[d] = <<>>
    BY <2>2, <2>4
  <2>. QED
    BY <2>1, <2>2
<1>. QED
  BY <1>2 DEF Boxes
LEMMA ClosedBoxes ==
  ASSUME Boxes, NEW S, Closed(S), open' \subseteq open, Tables
  PROVE  Boxes'
<1>1. \A f \in Conns : who'[f] = IF f \in S THEN None ELSE who[f]
  BY DEF Closed
<1>2. \A d \in Clients : \A f \in Conns : who'[f] = d => who[f] = d
  BY <1>1, LoopAssumption
<1>3. \A d \in Clients : Served(d)' => Served(d)
  BY <1>2 DEF Served, Tables
<1>4. \A d \in Clients : client'[d] \in {"out", "new"} => client[d] = client'[d]
  BY DEF Closed
<1>5. \A d \in Clients : inbox'[d] \in {inbox[d], <<>>}
  BY DEF Closed
<1>6. inbox' \in [Clients -> Seq({"ctrl", "transfer", "half"})]
  <2>1. ASSUME NEW d \in Clients
        PROVE  inbox[d] \in Seq({"ctrl", "transfer", "half"})
    BY DEF Boxes
  <2>2. <<>> \in Seq({"ctrl", "transfer", "half"})
    OBVIOUS
  <2>. QED
    BY <2>1, <2>2 DEF Closed
<1>7. askedAt' \in [Clients -> Nat]
  BY DEF Closed, Boxes
<1>. QED
  BY <1>2, <1>3, <1>4, <1>5, <1>6, <1>7, BoxesEmptied

LEMMA BoxesStep ==
  ASSUME Seats, Lists, Boxes, WheelInv, [LoopNext]_loop
  PROVE  Boxes'
<1>0. Clock \in Nat /\ Tables
  BY ClockIsNat DEF Seats
<1>1. ASSUME NEW c \in Clients, RegisterControl(c) PROVE Boxes'
  <2>1. /\ inbox[c] # <<>> /\ inbox' = [inbox EXCEPT ![c] = Tail(inbox[c])]
        /\ client' = client /\ who' = [who EXCEPT ![Min(Free)] = c]
        /\ open' = open \cup {Min(Free)} /\ Min(Free) \in Conns
        /\ \E a \in {Clock, 0} : askedAt' = [askedAt EXCEPT ![c] = a]
    BY <1>1, FreeDescriptor DEF RegisterControl, Registered, AcceptedRole, Register
  <2>2. inbox[c] \in Seq({"ctrl", "transfer", "half"}) /\ \A i \in 2..Len(inbox[c]) : inbox[c][i] = "half"
    BY DEF Boxes
  <2>3. PICK q : q = Tail(inbox[c])
    OBVIOUS
  <2>4. /\ q \in Seq({"ctrl", "transfer", "half"}) /\ \A i \in 2..Len(q) : q[i] = "half"
        /\ q # <<>> => Head(q) = "half"
    <3>1. \A i \in 1..Len(q) : q[i] = "half"
      BY <2>1, <2>2, <2>3, OneLess
    <3>. QED
      BY <2>1, <2>2, <2>3, <3>1, OneLess
  <2>5. client'[c] \notin {"out", "new"}
    BY <2>1 DEF Boxes
  <2>6. ASSUME NEW d \in Clients \ {c}
        PROVE  /\ client'[d] = client[d] /\ (Served(d)' => Served(d))
               /\ \A f \in Conns : who'[f] = d => who[f] = d
    BY <1>0, <2>1 DEF Served, Tables
  <2>7. askedAt' \in [Clients -> Nat]
    BY <1>0, <2>1 DEF Boxes
  <2>. QED
    BY <2>1, <2>3, <2>4, <2>5, <2>6, <2>7, BoxChanged
<1>2. ASSUME NEW c \in Clients, EnqueueTransfer(c) PROVE Boxes'
  <2>1. /\ inbox[c] # <<>> /\ inbox' = [inbox EXCEPT ![c] = Tail(inbox[c])]
        /\ client' = client /\ who' = [who EXCEPT ![Min(Free)] = c]
        /\ open' = open /\ Min(Free) \in Conns /\ who[Min(Free)] = None /\ askedAt' = askedAt
    BY <1>2, FreeDescriptor DEF EnqueueTransfer, AcceptedRole, clientVars, vars
  <2>2. inbox[c] \in Seq({"ctrl", "transfer", "half"}) /\ \A i \in 2..Len(inbox[c]) : inbox[c][i] = "half"
    BY DEF Boxes
  <2>3. PICK q : q = Tail(inbox[c])
    OBVIOUS
  <2>4. /\ q \in Seq({"ctrl", "transfer", "half"}) /\ \A i \in 2..Len(q) : q[i] = "half"
        /\ q # <<>> => Head(q) = "half"
    <3>1. \A i \in 1..Len(q) : q[i] = "half"
      BY <2>1, <2>2, <2>3, OneLess
    <3>. QED
      BY <2>1, <2>2, <2>3, <3>1, OneLess
  <2>5. client'[c] \notin {"out", "new"}
    BY <2>1 DEF Boxes
  <2>6. ASSUME NEW d \in Clients \ {c}
        PROVE  /\ client'[d] = client[d] /\ (Served(d)' => Served(d))
               /\ \A f \in Conns : who'[f] = d => who[f] = d
    BY <1>0, <2>1 DEF Served, Tables
  <2>7. askedAt' \in [Clients -> Nat]
    BY <2>1 DEF Boxes
  <2>. QED
    BY <2>1, <2>3, <2>4, <2>5, <2>6, <2>7, BoxChanged
<1>3. ASSUME NEW c \in Clients, RejectControl(c) \/ Connect(c) \/ Leave(c) PROVE Boxes'
  <2>1. /\ open' = open /\ who' = who /\ askedAt' = askedAt
        /\ \E q \in {inbox[c], <<>>} : inbox' = [inbox EXCEPT ![c] = q]
        /\ \A d \in Clients \ {c} : client'[d] = client[d]
        /\ client'[c] \in {"out", "new"} => client[c] = "out"
    <3>1. CASE RejectControl(c) \/ Leave(c)
      BY <3>1 DEF RejectControl, Leave, Boxes, Seats, vars
    <3>2. CASE Connect(c)
      BY <3>2 DEF Connect, Boxes, Seats, vars
    <3>. QED
      BY <1>3, <3>1, <3>2
  <2>2. PICK q \in {inbox[c], <<>>} : inbox' = [inbox EXCEPT ![c] = q]
    BY <2>1
  <2>3. \A d \in Clients : Served(d)' <=> Served(d)
    BY <2>1 DEF Served
  <2>4. /\ q \in Seq({"ctrl", "transfer", "half"}) /\ \A i \in 2..Len(q) : q[i] = "half"
        /\ Served(c)' /\ q # <<>> => Head(q) = "half"
        /\ client'[c] \in {"out", "new"} => q = <<>> /\ \A f \in Conns : who'[f] # c
    <3>1. /\ inbox[c] \in Seq({"ctrl", "transfer", "half"})
          /\ \A i \in 2..Len(inbox[c]) : inbox[c][i] = "half"
          /\ Served(c) /\ inbox[c] # <<>> => Head(inbox[c]) = "half"
          /\ client[c] \in {"out", "new"} => inbox[c] = <<>> /\ \A f \in Conns : who[f] # c
      BY DEF Boxes
    <3>2. CASE q = inbox[c]
      BY <2>1, <2>3, <3>1, <3>2
    <3>3. CASE q = <<>>
      BY <2>1, <3>1, <3>3
    <3>. QED
      BY <2>2, <3>2, <3>3
  <2>5. askedAt' \in [Clients -> Nat]
    BY <2>1 DEF Boxes
  <2>. QED
    BY <2>1, <2>2, <2>3, <2>4, <2>5, BoxChanged
<1>4. ASSUME NEW c \in Clients, SendRole(c) PROVE Boxes'
  <2>1. PICK k \in Roles[c] : /\ client' = [client EXCEPT ![c] = k]
                              /\ inbox' = [inbox EXCEPT ![c] = <<k>>]
    BY <1>4 DEF SendRole
  <2>2. /\ k \in {"ctrl", "transfer"} /\ client[c] = "new"
        /\ open' = open /\ who' = who /\ askedAt' = askedAt
    BY <1>4, LoopAssumption DEF SendRole, vars
  <2>3. \A d \in Clients : Served(d)' <=> Served(d)
    BY <2>2 DEF Served
  <2>4. ~ Served(c)
    BY <1>0, <2>2 DEF Boxes, Served, Tables
  <2>5. PICK q : q = <<k>>
    OBVIOUS
  <2>6. q \in Seq({"ctrl", "transfer", "half"}) /\ \A i \in 2..Len(q) : q[i] = "half"
    BY <2>2, <2>5
  <2>7. client'[c] = k /\ \A d \in Clients \ {c} : client'[d] = client[d]
    BY <2>1 DEF Seats
  <2>8. askedAt' \in [Clients -> Nat]
    BY <2>2 DEF Boxes
  <2>. QED
    BY <2>1, <2>2, <2>3, <2>4, <2>5, <2>6, <2>7, <2>8, BoxChanged
<1>5. ASSUME NEW c \in Clients, SendHalf(c) PROVE Boxes'
  <2>1. /\ client[c] = "ctrl" /\ inbox' = [inbox EXCEPT ![c] = Append(inbox[c], "half")]
        /\ open' = open /\ who' = who /\ client' = client
        /\ \E a \in {Clock, 0} : askedAt' = [askedAt EXCEPT ![c] = a]
    BY <1>5 DEF SendHalf, vars
  <2>2. /\ inbox[c] \in Seq({"ctrl", "transfer", "half"})
        /\ \A i \in 2..Len(inbox[c]) : inbox[c][i] = "half"
        /\ Served(c) /\ inbox[c] # <<>> => Head(inbox[c]) = "half"
    BY DEF Boxes
  <2>3. PICK q : q = Append(inbox[c], "half")
    OBVIOUS
  <2>4. /\ q \in Seq({"ctrl", "transfer", "half"}) /\ \A i \in 2..Len(q) : q[i] = "half"
        /\ Served(c) => Head(q) = "half"
    BY <2>2, <2>3, OneMore
  <2>5. \A d \in Clients : Served(d)' <=> Served(d)
    BY <2>1 DEF Served
  <2>6. askedAt' \in [Clients -> Nat]
    BY <1>0, <2>1 DEF Boxes
  <2>. QED
    BY <2>1, <2>3, <2>4, <2>5, <2>6, BoxChanged
<1>6. ASSUME NEW fd \in Conns, ServeCommand(fd) PROVE Boxes'
  <2>1. /\ who[fd] \in Clients /\ who' = who /\ open' = open /\ client' = client
        /\ inbox' = [inbox EXCEPT ![who[fd]] = <<>>]
        /\ askedAt' = [askedAt EXCEPT ![who[fd]] = 0]
    BY <1>0, <1>6 DEF ServeCommand, Dispatched, Refresh, Seats, OwnSession, Tables
  <2>2. \A d \in Clients : Served(d)' <=> Served(d)
    BY <2>1 DEF Served
  <2>3. \A d \in Clients : inbox'[d] \in {inbox[d], <<>>}
    BY <2>1 DEF Boxes
  <2>4. inbox' \in [Clients -> Seq({"ctrl", "transfer", "half"})]
    BY <2>1 DEF Boxes
  <2>5. askedAt' \in [Clients -> Nat]
    BY <2>1 DEF Boxes
  <2>. QED
    BY <2>1, <2>2, <2>3, <2>4, <2>5, BoxesEmptied
<1>7. CASE TickStep
  BY <1>0, <1>7, ClosedBoxes DEF TickStep, Tick
<1>8. ASSUME NEW fd \in Conns, CloseControl(fd) \/ WorkerCloses(fd) PROVE Boxes'
  BY <1>0, <1>8, ClosedBoxes DEF CloseControl, WorkerCloses, Remove, vars
<1>9. CASE \/ EpollWait \/ HandleTimer \/ AcceptFails \/ DropAccepted \/ Second
           \/ \E fd \in Conns : PassOver(fd)
           \/ UNCHANGED loop
  <2>1. UNCHANGED <<who, open, client, inbox, askedAt>>
    BY <1>9 DEF EpollWait, HandleTimer, AcceptFails, DropAccepted, Second, PassOver,
                loop, loopVars, clientVars, vars
  <2>2. \A d \in Clients : Served(d)' <=> Served(d)
    BY <2>1 DEF Served
  <2>. QED
    BY <2>1, <2>2 DEF Boxes
<1>. QED
  BY <1>1, <1>2, <1>3, <1>4, <1>5, <1>6, <1>7, <1>8, <1>9 DEF LoopNext, MainStep
-----------------------------------------------------------------------------
(* The main thread never waits for a command that nothing announced, but on  *)
(* a descriptor given out again within the batch.                            *)

\* What the batch says of a descriptor is still so when its turn comes.
Announced ==
  \A fd \in open \ fresh : fd \in Range(events) =>
    inbox[who[fd]] # <<>> \/ client[who[fd]] = "left"

LEMMA AnnouncedClosed ==
  ASSUME Announced, Seats, NEW S \in SUBSET Conns, Closed(S), open' = open \ S, fresh' = fresh,
         Range(events') \subseteq Range(events)
  PROVE  Announced'
<1>. SUFFICES ASSUME NEW fd \in open' \ fresh', fd \in Range(events')
              PROVE  inbox'[who'[fd]] # <<>> \/ client'[who'[fd]] = "left"
  BY DEF Announced
<1>1. fd \in open /\ fd \notin S /\ fd \notin fresh /\ fd \in Conns /\ who[fd] \in Clients
  BY DEF Seats, Tables, OwnSession
<1>2. \A g \in S : who[g] # who[fd]
  BY <1>1, LoopAssumption DEF Seats
<1>3. who'[fd] = who[fd] /\ inbox'[who[fd]] = inbox[who[fd]] /\ client'[who[fd]] = client[who[fd]]
  BY <1>1, <1>2 DEF Closed
<1>. QED
  BY <1>1, <1>3 DEF Announced

\* A step that takes nothing from the client of a descriptor in the batch.
LEMMA AnnouncedKept ==
  ASSUME Announced, Seats, Range(events') \subseteq Range(events),
         open' \ fresh' \subseteq open \ fresh,
         \A fd \in open \ fresh : fd \in Range(events') =>
           /\ who'[fd] = who[fd]
           /\ inbox[who[fd]] # <<>> => inbox'[who[fd]] # <<>>
           /\ client[who[fd]] = "left" => client'[who[fd]] = "left"
  PROVE  Announced'
BY DEF Announced

LEMMA AnnouncedStep ==
  ASSUME Announced, Seats, Lists, Boxes, WheelInv, [LoopNext]_loop
  PROVE  Announced'
<1>0. Tables /\ open \subseteq Conns /\ \A fd \in open : who[fd] \in Clients
  BY DEF Seats, Tables, OwnSession
<1>1. ASSUME NEW c \in Clients, NEW role, AcceptedRole(c, role)
      PROVE  Range(events') \subseteq Range(events) /\ \A fd \in Conns : who[fd] # c
  <2>1. c \in Range(backlog)
    BY <1>1, AcceptSeats DEF AcceptedRole
  <2>2. Range(events') \subseteq Range(events)
    BY <1>1, BatchShrinks DEF AcceptedRole, HandleEvent
  <2>. QED
    BY <2>1, <2>2 DEF Seats
<1>2. ASSUME NEW c \in Clients, RegisterControl(c) PROVE Announced'
  <2>1. /\ AcceptedRole(c, "ctrl") /\ Min(Free) \in Conns /\ who[Min(Free)] = None
        /\ inbox' = [inbox EXCEPT ![c] = Tail(inbox[c])] /\ client' = client
        /\ who' = [who EXCEPT ![Min(Free)] = c]
        /\ open' = open \cup {Min(Free)} /\ fresh' = fresh \cup {Min(Free)}
    BY <1>2, FreeDescriptor DEF RegisterControl, Registered, AcceptedRole, Register
  <2>2. Range(events') \subseteq Range(events) /\ \A fd \in Conns : who[fd] # c
    BY <1>1, <2>1
  <2>3. ASSUME NEW fd \in open \ fresh
        PROVE  who'[fd] = who[fd] /\ inbox'[who[fd]] = inbox[who[fd]]
    BY <1>0, <2>1, <2>2, LoopAssumption DEF Tables, Boxes
  <2>. QED
    BY <2>1, <2>2, <2>3, AnnouncedKept
<1>3. ASSUME NEW c \in Clients, EnqueueTransfer(c) PROVE Announced'
  <2>1. /\ AcceptedRole(c, "transfer") /\ Min(Free) \in Conns /\ who[Min(Free)] = None
        /\ inbox' = [inbox EXCEPT ![c] = Tail(inbox[c])] /\ client' = client
        /\ who' = [who EXCEPT ![Min(Free)] = c]
        /\ open' = open /\ fresh' = fresh
    BY <1>3, FreeDescriptor DEF EnqueueTransfer, AcceptedRole, vars, clientVars
  <2>2. Range(events') \subseteq Range(events) /\ \A fd \in Conns : who[fd] # c
    BY <1>1, <2>1
  <2>3. ASSUME NEW fd \in open \ fresh
        PROVE  who'[fd] = who[fd] /\ inbox'[who[fd]] = inbox[who[fd]]
    BY <1>0, <2>1, <2>2, LoopAssumption DEF Tables, Boxes
  <2>. QED
    BY <2>1, <2>2, <2>3, AnnouncedKept
<1>4. ASSUME NEW c \in Clients, RejectControl(c) PROVE Announced'
  <2>1. /\ AcceptedRole(c, "ctrl") /\ open' = open /\ fresh' = fresh /\ who' = who
        /\ inbox' = [inbox EXCEPT ![c] = <<>>] /\ client' = [client EXCEPT ![c] = "cut"]
    BY <1>4 DEF RejectControl
  <2>2. Range(events') \subseteq Range(events) /\ \A fd \in Conns : who[fd] # c
    BY <1>1, <2>1
  <2>3. ASSUME NEW fd \in open
        PROVE  inbox'[who[fd]] = inbox[who[fd]] /\ client'[who[fd]] = client[who[fd]]
    BY <1>0, <2>1, <2>2 DEF Boxes, Seats
  <2>. QED
    BY <2>1, <2>2, <2>3, AnnouncedKept
<1>5. CASE EpollWait
  <2>1. UNCHANGED <<open, who, inbox, client>> /\ fresh' = {}
    BY <1>5 DEF EpollWait, vars, clientVars
  <2>2. \A x \in Range(events') : Readable(x)
    BY <1>5, EpollWaitLists
  <2>3. ASSUME NEW fd \in open, fd \in Range(events')
        PROVE  inbox[who[fd]] # <<>> \/ client[who[fd]] = "left"
    <3>1. fd # Timer /\ fd # Listen
      BY <1>0, LoopAssumption
    <3>. QED
      BY <2>2, <2>3, <3>1 DEF Readable
  <2>. QED
    BY <2>1, <2>3 DEF Announced
<1>6. CASE TickStep
  <2>. DEFINE S == Due(current_tick + 1)
  <2>1. Closed(S) /\ open' = open \ S /\ fresh' = fresh /\ Range(events') \subseteq Range(events)
    BY <1>6, BatchShrinks DEF TickStep, Tick, Lists
  <2>2. S \in SUBSET Conns
    BY DueNow, <1>0 DEF WheelInv, OnItsList
  <2>. HIDE DEF S
  <2>. QED
    BY <2>1, <2>2, AnnouncedClosed
<1>7. ASSUME NEW fd \in Conns, CloseControl(fd) \/ WorkerCloses(fd) PROVE Announced'
  <2>1. /\ Closed({fd}) /\ open' = open \ {fd} /\ fresh' = fresh
        /\ Range(events') \subseteq Range(events)
    BY <1>7, BatchShrinks DEF CloseControl, WorkerCloses, Remove, HandleEvent, vars
  <2>. QED
    BY <2>1, AnnouncedClosed
<1>8. ASSUME NEW fd \in Conns, ServeCommand(fd) PROVE Announced'
  <2>1. /\ HandleEvent(fd) /\ NextEvent /\ fd \in open
        /\ inbox' = [inbox EXCEPT ![who[fd]] = <<>>]
        /\ open' = open /\ UNCHANGED <<fresh, who, client>>
    BY <1>8 DEF ServeCommand, Dispatched, Refresh
  <2>2. Range(events') = Range(events) \ {fd}
    BY <2>1, NextEventLists DEF HandleEvent
  <2>3. ASSUME NEW g \in open, g # fd PROVE inbox'[who[g]] = inbox[who[g]]
    <3>1. who[g] # who[fd] /\ who[g] \in Clients /\ who[fd] \in Clients
      BY <1>0, <2>1, <2>3, LoopAssumption DEF Seats
    <3>. QED
      BY <2>1, <3>1 DEF Boxes
  <2>. QED
    BY <2>1, <2>2, <2>3, AnnouncedKept
<1>9. ASSUME NEW c \in Clients, SendRole(c) \/ SendHalf(c) \/ Leave(c) \/ Connect(c)
      PROVE  Announced'
  <2>1. /\ UNCHANGED <<open, fresh, who, events>>
        /\ \A d \in Clients \ {c} : inbox'[d] = inbox[d] /\ client'[d] = client[d]
    BY <1>9 DEF SendRole, SendHalf, Leave, Connect, vars, Boxes, Seats
  <2>2. /\ inbox[c] # <<>> => inbox'[c] # <<>>
        /\ client[c] = "left" => client'[c] = "left"
    <3>1. CASE SendHalf(c)
      <4>1. inbox'[c] = Append(inbox[c], "half") /\ client' = client
        BY <3>1 DEF SendHalf, Boxes
      <4>2. Append(inbox[c], "half") # <<>>
        BY OneMore DEF Boxes
      <4>. QED
        BY <4>1, <4>2
    <3>2. CASE SendRole(c)
      <4>1. client[c] = "new" /\ \E k : inbox'[c] = <<k>>
        BY <3>2 DEF SendRole, Boxes
      <4>. QED
        BY <4>1
    <3>3. CASE Leave(c) \/ Connect(c)
      BY <3>3 DEF Leave, Connect, Seats
    <3>. QED
      BY <1>9, <3>1, <3>2, <3>3
  <2>3. \A d \in Clients : /\ inbox[d] # <<>> => inbox'[d] # <<>>
                           /\ client[d] = "left" => client'[d] = "left"
    BY <2>1, <2>2
  <2>. QED
    BY <1>0, <2>1, <2>3, AnnouncedKept
<1>10. CASE \/ HandleTimer \/ AcceptFails \/ DropAccepted \/ Second
            \/ \E fd \in Conns : PassOver(fd)
            \/ UNCHANGED loop
  <2>1. UNCHANGED <<open, fresh, who, inbox, client>>
    BY <1>10 DEF HandleTimer, AcceptFails, DropAccepted, Second, PassOver,
                 loop, loopVars, clientVars, vars
  <2>2. Range(events') \subseteq Range(events)
    BY <1>10, BatchShrinks
       DEF HandleTimer, AcceptFails, DropAccepted, Second, PassOver, HandleEvent, loop, loopVars
  <2>. QED
    BY <2>1, <2>2, AnnouncedKept
<1>. QED
  BY <1>2, <1>3, <1>4, <1>5, <1>6, <1>7, <1>8, <1>9, <1>10 DEF LoopNext, MainStep
LoopInv == WheelInv /\ Lists /\ Seats /\ Boxes /\ Announced

LEMMA LoopInvInit == LoopInit => LoopInv
<1>. SUFFICES ASSUME LoopInit PROVE LoopInv
  OBVIOUS
<1>1. WheelInv
  BY InitInv DEF LoopInit
<1>2. \A A : <<>> \in Seq(A) /\ Distinct(<<>>) /\ Range(<<>>) = {}
  BY DEF Distinct, Range
<1>3. Lists
  BY <1>2 DEF LoopInit, Lists
<1>4. Seats
  BY <1>2 DEF LoopInit, Init, Seats, Tables, OwnSession, States
<1>5. Boxes
  <2>1. /\ inbox = [c \in Clients |-> <<>>] /\ open = {}
        /\ askedAt \in [Clients -> Nat] /\ who = [fd \in Conns |-> None]
    BY DEF LoopInit, Init
  <2>2. \A c \in Clients : ~ Served(c)
    BY <2>1 DEF Served
  <2>. QED
    BY <1>2, <2>1, <2>2, LoopAssumption DEF Boxes
<1>6. Announced
  BY DEF LoopInit, Init, Announced
<1>. QED
  BY <1>1, <1>3, <1>4, <1>5, <1>6 DEF LoopInv

LEMMA LoopInvNext == LoopInv /\ [LoopNext]_loop => LoopInv'
<1>. SUFFICES ASSUME LoopInv, [LoopNext]_loop PROVE LoopInv'
  OBVIOUS
<1>1. WheelInv'
  BY LoopInvStep DEF LoopInv
<1>2. Lists'
  BY ListsStep DEF LoopInv, Seats
<1>. QED
  BY <1>1, <1>2, SeatsStep, BoxesStep, AnnouncedStep DEF LoopInv

LEMMA LoopInvariant == LoopSpec => []LoopInv
BY LoopInvInit, LoopInvNext, PTL DEF LoopSpec, loop

\* The main thread blocks on a read that nothing announced only when the event is
\* older than the registration of its descriptor.
THEOREM NoOtherStall == LoopSpec => []StallsOnlyOnReuse
<1>1. LoopInv => StallsOnlyOnReuse
  <2>. SUFFICES ASSUME LoopInv, NEW fd \in open, HandleEvent(fd),
                       inbox[who[fd]] = <<>>, client[who[fd]] = "ctrl"
                PROVE  Head(events) \in fresh
    BY DEF StallsOnlyOnReuse, Stalled
  <2>1. Head(events) = fd /\ events # <<>> /\ events \in Seq(Fds)
    BY DEF HandleEvent, LoopInv, Lists
  <2>2. fd \in Range(events)
    BY <2>1 DEF Range
  <2>. QED
    BY <2>1, <2>2 DEF LoopInv, Announced
<1>. QED
  BY <1>1, LoopInvariant, PTL
-----------------------------------------------------------------------------
(* A main thread that keeps up with the clock serves a command before the    *)
(* tick that would close its connection.                                     *)

\* A waiting command on fd from one step to the next: epoll has just learned of it,
\* or it was there already.
NewlyAsked(fd) ==
  /\ askedAt'[who'[fd]] = Clock /\ fd \in Range(rdl')
  /\ UNCHANGED <<current_tick, left, pending>>
  /\ UNCHANGED events \/ (HandleEvent(Listen) /\ NextEvent)

StillAsked(fd) ==
  /\ fd \in open /\ who'[fd] = who[fd] /\ who[fd] \in Clients
  /\ Asked(who[fd]) /\ askedAt'[who[fd]] = askedAt[who[fd]]

LEMMA AskedRegister ==
  ASSUME LoopInv, NEW c \in Clients, RegisterControl(c), NEW fd \in open', Asked(who[fd])'
  PROVE  NewlyAsked(fd) \/ StillAsked(fd)
<1>1. /\ HandleEvent(Listen) /\ NextEvent /\ UNCHANGED <<current_tick, left, pending>>
      /\ Min(Free) \in Conns /\ who[Min(Free)] = None
      /\ inbox[c] # <<>> /\ Head(inbox[c]) = "ctrl"
      /\ inbox' = [inbox EXCEPT ![c] = Tail(inbox[c])]
      /\ who' = [who EXCEPT ![Min(Free)] = c] /\ open' = open \cup {Min(Free)}
      /\ Len(inbox[c]) > 1 => rdl' = Linked(rdl, Min(Free))
      /\ askedAt' = [askedAt EXCEPT ![c] = IF Asked(c) THEN Clock ELSE 0]
  BY FreeDescriptor DEF RegisterControl, Registered, AcceptedRole, Register
<1>2. /\ inbox[c] \in Seq({"ctrl", "transfer", "half"})
      /\ \A i \in 2..Len(inbox[c]) : inbox[c][i] = "half"
      /\ inbox'[c] = Tail(inbox[c])
  BY <1>1 DEF LoopInv, Boxes
<1>3. Tables /\ \A k \in open : who[k] \in Clients
  BY DEF LoopInv, Seats, Tables, OwnSession
<1>4. CASE fd = Min(Free)
  <2>1. who'[fd] = c
    BY <1>1, <1>3, <1>4 DEF Tables
  <2>2. Halves(c) = Len(inbox[c]) - 1
    BY <1>1 DEF Halves
  <2>3. Halves(c)' = Len(Tail(inbox[c])) /\ Len(Tail(inbox[c])) = Len(inbox[c]) - 1
    BY <1>1, <1>2, OneLess DEF Halves
  <2>4. Asked(c)'
    BY <2>1 DEF Asked, Halves
  <2>5. Halves(c)' = 2
    BY <2>4 DEF Asked
  <2>6. Asked(c) /\ Len(inbox[c]) > 1
    <3>1. Len(inbox[c]) \in Nat
      BY <1>2
    <3>2. Halves(c) = 2 /\ Len(inbox[c]) > 1
      BY <2>2, <2>3, <2>5, <3>1
    <3>3. Asked(c)
      BY <3>2 DEF Asked
    <3>. QED
      BY <3>2, <3>3
  <2>7. askedAt'[c] = Clock
    BY <1>1, <2>6 DEF LoopInv, Boxes
  <2>8. fd \in Range(rdl')
    <3>1. rdl \in Seq(Fds) /\ Distinct(rdl) /\ rdl' = Linked(rdl, fd) /\ fd \in Fds
      BY <1>1, <1>4, <2>6 DEF LoopInv, Lists, Fds
    <3>. QED
      BY <3>1, LinkedEntries
  <2>. QED
    BY <1>1, <2>1, <2>7, <2>8 DEF NewlyAsked
<1>5. CASE fd # Min(Free)
  <2>1. fd \in open /\ who'[fd] = who[fd] /\ who[fd] \in Clients
    BY <1>1, <1>3, <1>5 DEF Tables
  <2>2. c \in Range(backlog)
    BY AcceptSeats DEF LoopInv, RegisterControl, Registered, AcceptedRole
  <2>3. who[fd] # c
    BY <1>3, <2>1, <2>2 DEF LoopInv, Seats, Tables
  <2>4. inbox'[who[fd]] = inbox[who[fd]] /\ askedAt'[who[fd]] = askedAt[who[fd]]
    BY <1>1, <2>1, <2>3 DEF LoopInv, Boxes
  <2>5. Asked(who[fd])
    BY <2>1, <2>4 DEF Asked, Halves
  <2>. QED
    BY <2>1, <2>4, <2>5 DEF StillAsked
<1>. QED
  BY <1>4, <1>5

LEMMA AskedSend ==
  ASSUME LoopInv, NEW c \in Clients, SendHalf(c), NEW fd \in open', Asked(who[fd])'
  PROVE  NewlyAsked(fd) \/ StillAsked(fd)
<1>1. /\ ~Asked(c) /\ inbox' = [inbox EXCEPT ![c] = Append(inbox[c], "half")]
      /\ askedAt' = [askedAt EXCEPT ![c] = IF Halves(c) = 1 THEN Clock ELSE 0]
      /\ rdl' = Woken(c) /\ UNCHANGED <<open, who, current_tick, left, pending, events>>
  BY DEF SendHalf, vars
<1>2. /\ fd \in open /\ fd \in Conns /\ who'[fd] = who[fd] /\ who[fd] \in Clients /\ Tables
  BY <1>1 DEF LoopInv, Seats, Tables, OwnSession
<1>3. CASE who[fd] = c
  <2>1. /\ inbox[c] \in Seq({"ctrl", "transfer", "half"})
        /\ \A i \in 2..Len(inbox[c]) : inbox[c][i] = "half"
        /\ inbox'[c] = Append(inbox[c], "half")
    BY <1>1 DEF LoopInv, Boxes
  <2>2. Served(c)
    BY <1>2, <1>3 DEF Served
  <2>3. inbox[c] # <<>> => Head(inbox[c]) = "half"
    BY <2>2 DEF LoopInv, Boxes
  <2>4. Halves(c) = Len(inbox[c]) /\ Len(inbox[c]) \in Nat
    BY <2>1, <2>3 DEF Halves
  <2>5. Halves(c)' = Len(inbox[c]) + 1
    BY <2>1, <2>3, OneMore DEF Halves
  <2>6. Asked(c)'
    BY <1>2, <1>3 DEF Asked, Halves
  <2>7. Halves(c)' = 2
    BY <2>6 DEF Asked
  <2>8. askedAt'[who'[fd]] = Clock
    BY <1>1, <1>2, <1>3, <2>4, <2>5, <2>7 DEF LoopInv, Boxes
  <2>9. PICK g : g = CHOOSE k \in open : who[k] = c
    OBVIOUS
  <2>10. g \in open /\ who[g] = c /\ Woken(c) = Linked(rdl, g)
    BY <2>2, <2>9 DEF Served, Woken
  <2>11. g = fd
    BY <1>2, <1>3, <2>10, LoopAssumption DEF LoopInv, Seats, Tables
  <2>12. fd \in Range(rdl')
    <3>1. rdl \in Seq(Fds) /\ Distinct(rdl) /\ rdl' = Linked(rdl, fd) /\ fd \in Fds
      BY <1>1, <1>2, <2>10, <2>11 DEF LoopInv, Lists, Fds
    <3>. QED
      BY <3>1, LinkedEntries
  <2>. QED
    BY <1>1, <2>8, <2>12 DEF NewlyAsked
<1>4. CASE who[fd] # c
  <2>1. inbox'[who[fd]] = inbox[who[fd]] /\ askedAt'[who[fd]] = askedAt[who[fd]]
    BY <1>1, <1>2, <1>4 DEF LoopInv, Boxes
  <2>2. Asked(who[fd])
    BY <1>2, <2>1 DEF Asked, Halves
  <2>. QED
    BY <1>2, <2>1, <2>2 DEF StillAsked
<1>. QED
  BY <1>3, <1>4

LEMMA AskedClosed ==
  ASSUME LoopInv, NEW S \in SUBSET Conns, Closed(S), open' = open \ S,
         NEW fd \in open', Asked(who[fd])'
  PROVE  StillAsked(fd)
<1>1. fd \in open /\ fd \notin S /\ fd \in Conns /\ who[fd] \in Clients
  BY DEF LoopInv, Seats, Tables, OwnSession
<1>2. \A g \in S : who[g] # who[fd]
  BY <1>1, LoopAssumption DEF LoopInv, Seats
<1>3. /\ who'[fd] = who[fd] /\ inbox'[who[fd]] = inbox[who[fd]]
      /\ askedAt'[who[fd]] = askedAt[who[fd]]
  BY <1>1, <1>2 DEF Closed
<1>4. Asked(who[fd])
  BY <1>3 DEF Asked, Halves
<1>. QED
  BY <1>1, <1>3, <1>4 DEF StillAsked

LEMMA AskedStep ==
  ASSUME LoopInv, [LoopNext]_loop, NEW fd \in open', Asked(who[fd])'
  PROVE  NewlyAsked(fd) \/ StillAsked(fd)
<1>0. Tables /\ open \subseteq Conns /\ \A k \in open : who[k] \in Clients
  BY DEF LoopInv, Seats, Tables, OwnSession
<1>1. ASSUME fd \in open, who'[fd] = who[fd], inbox'[who[fd]] = inbox[who[fd]],
             askedAt'[who[fd]] = askedAt[who[fd]]
      PROVE  StillAsked(fd)
  <2>1. Asked(who[fd])
    BY <1>1 DEF Asked, Halves
  <2>. QED
    BY <1>0, <1>1, <2>1 DEF StillAsked
<1>2. ASSUME NEW c \in Clients, EnqueueTransfer(c) PROVE StillAsked(fd)
  <2>1. /\ Min(Free) \in Conns /\ who[Min(Free)] = None /\ open' = open
        /\ inbox' = [inbox EXCEPT ![c] = Tail(inbox[c])]
        /\ who' = [who EXCEPT ![Min(Free)] = c] /\ askedAt' = askedAt
    BY <1>2, FreeDescriptor DEF EnqueueTransfer, AcceptedRole, vars, clientVars
  <2>2. c \in Range(backlog)
    BY <1>2, AcceptSeats DEF LoopInv, EnqueueTransfer, AcceptedRole
  <2>3. who[fd] # c /\ fd # Min(Free)
    BY <1>0, <2>1, <2>2, LoopAssumption DEF LoopInv, Seats
  <2>. QED
    BY <1>0, <1>1, <2>1, <2>3 DEF LoopInv, Boxes, Tables
<1>3. ASSUME NEW c \in Clients, RejectControl(c) PROVE StillAsked(fd)
  <2>1. /\ open' = open /\ inbox' = [inbox EXCEPT ![c] = <<>>] /\ who' = who
        /\ askedAt' = askedAt
    BY <1>3 DEF RejectControl
  <2>2. c \in Range(backlog)
    BY <1>3, AcceptSeats DEF LoopInv, RejectControl, AcceptedRole
  <2>3. who[fd] # c
    BY <1>0, <2>1, <2>2 DEF LoopInv, Seats
  <2>. QED
    BY <1>0, <1>1, <2>1, <2>3 DEF LoopInv, Boxes
<1>4. ASSUME NEW c \in Clients, SendRole(c) PROVE StillAsked(fd)
  <2>1. /\ client[c] = "new" /\ open' = open /\ who' = who /\ askedAt' = askedAt
        /\ \E k : inbox' = [inbox EXCEPT ![c] = <<k>>]
    BY <1>4 DEF SendRole, vars
  <2>2. who[fd] # c
    BY <1>0, <2>1 DEF LoopInv, Boxes
  <2>. QED
    BY <1>0, <1>1, <2>1, <2>2 DEF LoopInv, Boxes
<1>5. ASSUME NEW g \in Conns, ServeCommand(g) PROVE StillAsked(fd)
  <2>1. /\ g \in open /\ inbox' = [inbox EXCEPT ![who[g]] = <<>>]
        /\ askedAt' = [askedAt EXCEPT ![who[g]] = 0]
        /\ open' = open /\ who' = who
    BY <1>5 DEF ServeCommand, Dispatched, Refresh
  <2>2. CASE g = fd
    <3>1. inbox'[who'[fd]] = <<>>
      BY <1>0, <2>1, <2>2 DEF LoopInv, Boxes
    <3>2. ~ Asked(who[fd])'
      BY <3>1 DEF Asked, Halves
    <3>. QED
      BY <3>2
  <2>3. CASE g # fd
    <3>1. who[fd] # who[g]
      BY <1>0, <2>1, <2>3, LoopAssumption DEF LoopInv, Seats
    <3>. QED
      BY <1>0, <1>1, <2>1, <3>1 DEF LoopInv, Boxes
  <2>. QED
    BY <2>2, <2>3
<1>6. CASE TickStep
  <2>. DEFINE S == Due(current_tick + 1)
  <2>1. Closed(S) /\ open' = open \ S
    BY <1>6 DEF TickStep, Tick
  <2>2. S \in SUBSET Conns
    BY DueNow, <1>0 DEF LoopInv, WheelInv, OnItsList
  <2>. HIDE DEF S
  <2>. QED
    BY <2>1, <2>2, AskedClosed
<1>7. ASSUME NEW g \in Conns, CloseControl(g) \/ WorkerCloses(g) PROVE StillAsked(fd)
  <2>1. Closed({g}) /\ open' = open \ {g}
    BY <1>7 DEF CloseControl, WorkerCloses, Remove, vars
  <2>. QED
    BY <2>1, AskedClosed
<1>8. CASE \/ EpollWait \/ HandleTimer \/ AcceptFails \/ DropAccepted \/ Second
           \/ \E g \in Conns : PassOver(g)
           \/ \E c \in Clients : Leave(c) \/ Connect(c)
           \/ UNCHANGED loop
  <2>1. UNCHANGED <<open, who, inbox, askedAt>>
    BY <1>8 DEF EpollWait, HandleTimer, AcceptFails, DropAccepted, Second, PassOver, Leave,
                Connect, loop, loopVars, clientVars, vars
  <2>. QED
    BY <1>1, <2>1
<1>. QED
  BY <1>2, <1>3, <1>4, <1>5, <1>6, <1>7, <1>8, AskedRegister, AskedSend DEF LoopNext, MainStep

\* What the timer, the clock and epoll_wait have nothing to do with.
OtherStep == ~ (EpollWait \/ Second \/ HandleTimer \/ TickStep)

\* An event of another descriptor is taken from the batch.
LEMMA TurnKept ==
  ASSUME LoopInv, NEW x, NEW fd, HandleEvent(x), NextEvent, x # fd
  PROVE  /\ fd \in Range(events) => fd \in Range(events')
         /\ Before(events, fd, Timer) => Before(events', fd, Timer)
         /\ Timer \in Range(events') => Timer \in Range(events)
<1>1. Lists /\ events # <<>> /\ Head(events) = x
  BY DEF LoopInv, HandleEvent
<1>. QED
  BY <1>1, NextEventLists

\* While a command waits on fd, the turn of fd in the batch is not lost.
LEMMA BatchKept ==
  ASSUME LoopInv, [LoopNext]_loop, OtherStep, NEW fd \in open', Asked(who[fd])', StillAsked(fd)
  PROVE  /\ UNCHANGED <<current_tick, left, pending>>
         /\ fd \in Range(events) => fd \in Range(events')
         /\ Before(events, fd, Timer) => Before(events', fd, Timer)
         /\ Timer \in Range(events') => Timer \in Range(events)
<1>0. /\ Tables /\ fd \in open /\ fd \in Conns /\ who'[fd] = who[fd] /\ who[fd] \in Clients
      /\ Listen # fd
  BY LoopAssumption DEF LoopInv, Seats, Tables, StillAsked
<1>. DEFINE Goal ==
       /\ UNCHANGED <<current_tick, left, pending>>
       /\ fd \in Range(events) => fd \in Range(events')
       /\ Before(events, fd, Timer) => Before(events', fd, Timer)
       /\ Timer \in Range(events') => Timer \in Range(events)
<1>1. ASSUME NEW x, x # fd, HandleEvent(x), NextEvent, UNCHANGED <<current_tick, left, pending>>
      PROVE  Goal
  BY <1>1, TurnKept
<1>2. ASSUME UNCHANGED <<events, current_tick, left, pending>> PROVE Goal
  BY <1>2
<1>. HIDE DEF Goal
<1>3. ASSUME NEW c \in Clients,
             Connect(c) \/ SendRole(c) \/ SendHalf(c) \/ Leave(c)
      PROVE  Goal
  BY <1>2, <1>3 DEF Connect, SendRole, SendHalf, Leave, vars
<1>4. ASSUME NEW c \in Clients, RegisterControl(c) \/ RejectControl(c) \/ EnqueueTransfer(c)
      PROVE  Goal
  <2>1. HandleEvent(Listen) /\ NextEvent /\ UNCHANGED <<current_tick, left, pending>>
    BY <1>4 DEF RegisterControl, Registered, RejectControl, EnqueueTransfer, AcceptedRole,
                Register, vars
  <2>. QED
    BY <1>0, <1>1, <2>1
<1>5. ASSUME AcceptFails \/ DropAccepted PROVE Goal
  <2>1. HandleEvent(Listen) /\ NextEvent /\ UNCHANGED <<current_tick, left, pending>>
    BY <1>5 DEF AcceptFails, DropAccepted, vars
  <2>. QED
    BY <1>0, <1>1, <2>1
<1>6. ASSUME NEW g \in Conns, PassOver(g) \/ CloseControl(g) PROVE Goal
  <2>1. HandleEvent(g) /\ NextEvent /\ UNCHANGED <<current_tick, left, pending>> /\ g \notin open'
    BY <1>6 DEF PassOver, CloseControl, Remove, vars
  <2>. QED
    BY <1>1, <2>1
<1>7. ASSUME NEW g \in Conns, ServeCommand(g) PROVE Goal
  <2>1. /\ HandleEvent(g) /\ NextEvent /\ UNCHANGED <<current_tick, left, pending>>
        /\ inbox' = [inbox EXCEPT ![who[g]] = <<>>]
    BY <1>7 DEF ServeCommand, Dispatched, Refresh
  <2>2. ASSUME g = fd PROVE FALSE
    <3>1. inbox'[who'[fd]] = <<>>
      BY <1>0, <2>1, <2>2 DEF LoopInv, Boxes
    <3>2. ~ Asked(who[fd])'
      BY <3>1 DEF Asked, Halves
    <3>. QED
      BY <3>2
  <2>. QED
    BY <1>1, <2>1, <2>2
<1>8. ASSUME NEW g \in Conns, WorkerCloses(g) PROVE Goal
  BY <1>2, <1>8 DEF WorkerCloses, vars
<1>9. ASSUME UNCHANGED loop PROVE Goal
  BY <1>2, <1>9 DEF loop, loopVars, vars
<1>10. Goal
  BY <1>3, <1>4, <1>5, <1>6, <1>7, <1>8, <1>9 DEF LoopNext, MainStep, OtherStep
<1>. QED
  BY <1>10 DEF Goal

\* On the ready list, nothing that is still registered loses its place.
LEMMA PlaceKept ==
  ASSUME LoopInv, [LoopNext]_loop, ~EpollWait, NEW fd \in open' \cap Conns
  PROVE  /\ fd \in Range(rdl) => fd \in Range(rdl')
         /\ Before(rdl, fd, Timer) => Before(rdl', fd, Timer)
         /\ Timer \in Range(rdl') => Timer \in Range(rdl) \/ Second
<1>1. WheelInv /\ Lists /\ Tables /\ rdl \in Seq(Fds) /\ Distinct(rdl)
  BY DEF LoopInv, Seats, Lists
<1>2. ASSUME NEW x \in Fds, rdl' = Linked(rdl, x), x = Timer => Second
      PROVE  /\ Range(rdl') = Range(rdl) \cup {x}
             /\ Before(rdl, fd, Timer) => Before(rdl', fd, Timer)
  BY <1>1, <1>2, LinkedEntries
<1>3. ASSUME NEW S \in SUBSET Conns, Closed(S), S \cap open' = {}
      PROVE  /\ Range(rdl') = Range(rdl) \ S /\ fd \notin S
             /\ Before(rdl, fd, Timer) => Before(rdl', fd, Timer)
  <2>1. fd \notin S /\ Timer \notin S
    BY <1>3, LoopAssumption
  <2>. QED
    BY <1>1, <1>3, <2>1, ClosedLists
<1>4. CASE rdl' = rdl
  BY <1>4
<1>. QED
  BY <1>1, <1>2, <1>3, <1>4, ReadyStep

\* Once a waiting command has seen the main thread fall behind, that stays on record
\* as long as it waits.
LEMMA LateStep ==
  ASSUME LoopInv, LoopInv', [LoopNext]_loop, NEW fd \in open', Asked(who[fd])', ~late'
  PROVE  ~late /\ (Second /\ StillAsked(fd) => pending = 0 /\ left = 0)
<1>0. /\ who'[fd] \in Clients
      /\ pending \in Nat /\ left \in Nat
  BY DEF LoopInv, Seats, Lists, Tables, OwnSession
<1>1. Waiting'
  BY <1>0 DEF Waiting, Asked, Served, Halves
<1>2. ASSUME NEW S, Closed(S) PROVE ~late
  BY <1>1, <1>2 DEF Closed
<1>3. ASSUME NEW g \in Conns, ServeCommand(g) PROVE ~late
  BY <1>1, <1>3 DEF ServeCommand, Dispatched
<1>4. ASSUME NEW g \in Conns, PassOver(g) \/ CloseControl(g) \/ WorkerCloses(g) PROVE ~late
  BY <1>2, <1>4 DEF PassOver, CloseControl, WorkerCloses
<1>5. ASSUME TickStep PROVE ~late
  BY <1>2, <1>5 DEF TickStep
<1>6. ASSUME \/ EpollWait \/ HandleTimer \/ AcceptFails \/ DropAccepted
             \/ \E c \in Clients : \/ RegisterControl(c) \/ RejectControl(c) \/ EnqueueTransfer(c)
                                   \/ Connect(c) \/ SendRole(c) \/ SendHalf(c) \/ Leave(c)
             \/ UNCHANGED loop
      PROVE  ~late
  <2>1. late' = late
    BY <1>6 DEF EpollWait, HandleTimer, AcceptFails, DropAccepted, RegisterControl, Registered,
                RejectControl, EnqueueTransfer, Connect, SendRole, SendHalf, Leave,
                loop, loopVars
  <2>. QED
    BY <2>1
<1>7. ASSUME Second PROVE ~late /\ (StillAsked(fd) => pending = 0 /\ left = 0)
  <2>1. late' = (late \/ (Waiting /\ pending + left > 0))
    BY <1>7 DEF Second
  <2>2. StillAsked(fd) => Waiting
    BY DEF StillAsked, Waiting, Served
  <2>3. ~late /\ ~ (Waiting /\ pending + left > 0)
    BY <2>1
  <2>. QED
    BY <1>0, <2>2, <2>3
<1>. QED
  BY <1>3, <1>4, <1>5, <1>6, <1>7 DEF LoopNext, MainStep

\* The timer is in the batch only with a second to make up for.
TimerDue == Timer \in Range(events) => pending + left > 0

\* Where fd stands when its command was complete at second a.  The clock is at most
\* one second past the last tick, and no tick to make up for is behind a; when a lies
\* before the last tick, fd comes before the timer; and until the tick of a is made
\* up for, fd is in the batch or before the timer on the ready list.
InTime(fd, a) ==
  /\ Clock > a => Clock <= current_tick + 1
  /\ left > 0 => a >= current_tick
  /\ left = 0 /\ a < current_tick =>
       \/ Before(events, fd, Timer)
       \/ /\ Timer \notin Range(events)
          /\ fd \in Range(events) \/ Timer \notin Range(rdl) \/ Before(rdl, fd, Timer)
  /\ Timer \in Range(events) /\ a <= current_tick =>
       fd \in Range(events) \/ Before(rdl, fd, Timer)

\* Every waiting command is known to epoll and, while the main thread keeps up, in time.
Punctual ==
  \A fd \in open : Asked(who[fd]) =>
    /\ askedAt[who[fd]] <= Clock
    /\ fd \in Range(rdl)
    /\ ~late => InTime(fd, askedAt[who[fd]])

LEMMA AskedReadable ==
  ASSUME NEW fd \in Conns, Asked(who[fd])
  PROVE  Readable(fd)
<1>1. inbox[who[fd]] # <<>>
  BY DEF Asked, Halves
<1>. QED
  BY <1>1, LoopAssumption DEF Readable

LEMMA TimerDueStep ==
  ASSUME LoopInv, LoopInv', TimerDue, [LoopNext]_loop
  PROVE  TimerDue'
<1>0. /\ pending \in Nat /\ left \in Nat /\ Lists
      /\ pending' \in Nat /\ left' \in Nat
  BY DEF LoopInv, Lists
<1>1. CASE EpollWait
  <2>1. Range(rdl') = {x \in Range(rdl) : Readable(x)} /\ Range(events') \subseteq Range(rdl')
    BY <1>0, <1>1, EpollWaitLists
  <2>2. Timer \in Range(events') => pending > 0
    BY <2>1 DEF Readable
  <2>3. UNCHANGED <<left, pending>>
    BY <1>1 DEF EpollWait
  <2>. QED
    BY <1>0, <2>2, <2>3 DEF TimerDue
<1>2. CASE UNCHANGED <<events, left, pending>>
  BY <1>2 DEF TimerDue
<1>3. ASSUME NEW x, HandleEvent(x), NextEvent, UNCHANGED <<left, pending>>
      PROVE  TimerDue'
  <2>1. events # <<>>
    BY <1>3 DEF HandleEvent
  <2>2. Range(events') \subseteq Range(events)
    BY <1>0, <1>3, <2>1, NextEventLists
  <2>. QED
    BY <1>3, <2>2 DEF TimerDue
<1>4. CASE HandleTimer
  <2>1. UNCHANGED events /\ left = 0 /\ left' = pending /\ pending' = 0
    BY <1>4 DEF HandleTimer, HandleEvent
  <2>. QED
    BY <1>0, <2>1 DEF TimerDue
<1>5. CASE TickStep
  <2>1. left > 0 /\ left' = left - 1 /\ pending' = pending /\ events # <<>> /\ Head(events) = Timer
    BY <1>0, <1>5 DEF TickStep, Lists
  <2>2. CASE left = 1
    <3>1. NextEvent
      BY <1>5, <2>2 DEF TickStep
    <3>2. Timer \notin Range(events')
      BY <1>0, <2>1, <3>1, NextEventLists
    <3>. QED
      BY <3>2 DEF TimerDue
  <2>3. CASE left # 1
    BY <1>0, <2>1, <2>3 DEF TimerDue
  <2>. QED
    BY <2>2, <2>3
<1>6. CASE Second
  <2>1. UNCHANGED events /\ left' = left /\ pending' = pending + 1
    BY <1>6 DEF Second
  <2>. QED
    BY <1>0, <2>1 DEF TimerDue
<1>. QED
  BY <1>1, <1>2, <1>3, <1>4, <1>5, <1>6, BatchStep

\* A command that epoll has just learned of is of this second.
LEMMA NewInTime ==
  ASSUME LoopInv, LoopInv', TimerDue, NEW fd, NewlyAsked(fd)
  PROVE  askedAt'[who'[fd]] <= Clock' /\ InTime(fd, askedAt[who[fd]])'
<1>1. /\ Clock \in Nat /\ current_tick \in Nat /\ Clock >= current_tick /\ Lists
      /\ pending \in Nat /\ left \in Nat
  BY ClockIsNat DEF LoopInv, Lists
<1>2. /\ askedAt'[who'[fd]] = Clock /\ Clock' = Clock
      /\ UNCHANGED <<current_tick, left, pending>>
  BY DEF NewlyAsked, Clock
<1>3. Timer \in Range(events') => Timer \in Range(events)
  BY <1>1, NextEventLists DEF NewlyAsked, HandleEvent
<1>4. Timer \in Range(events') => Clock > current_tick
  BY <1>1, <1>3 DEF TimerDue, Clock
<1>. QED
  BY <1>1, <1>2, <1>4 DEF InTime

\* A command that waited before the step stays in time.
LEMMA StillInTime ==
  ASSUME LoopInv, LoopInv', TimerDue, [LoopNext]_loop,
         NEW fd \in open', Asked(who[fd])', StillAsked(fd), ~late',
         NEW a \in Nat, a <= Clock, fd \in Range(rdl), InTime(fd, a)
  PROVE  InTime(fd, a)'
<1>1. /\ Clock \in Nat /\ current_tick \in Nat /\ Clock >= current_tick
      /\ pending \in Nat /\ left \in Nat /\ Lists /\ Clock = current_tick + left + pending
      /\ left > 0 => events # <<>> /\ Head(events) = Timer
      /\ fd \in open \cap Conns /\ fd \in Conns /\ fd # Timer /\ fd \in Fds /\ Timer \in Fds
  <2>1. fd \in Conns /\ fd \in open
    BY DEF LoopInv, Seats, Tables, StillAsked
  <2>. QED
    BY <2>1, ClockIsNat, LoopAssumption DEF LoopInv, Lists, Clock, Fds
<1>2. CASE EpollWait
  <2>1. events = <<>> /\ UNCHANGED <<current_tick, left, pending>> /\ Clock' = Clock
    BY <1>2 DEF EpollWait, vars, Clock
  <2>2. left = 0 /\ Range(events) = {} /\ ~ Before(events, fd, Timer)
    BY <1>1, <2>1 DEF Range, Before
  <2>3. Readable(fd)
    BY <1>1, AskedReadable DEF StillAsked
  <2>4. /\ fd \in Range(rdl') /\ Range(rdl') \subseteq Range(rdl)
        /\ Range(events') \subseteq Range(rdl')
    BY <1>1, <1>2, <2>3, EpollWaitLists
  <2>5. Before(rdl, fd, Timer) /\ Timer \in Range(rdl') =>
          /\ Timer \in Range(events') => Before(events', fd, Timer)
          /\ fd \notin Range(events') => Before(rdl', fd, Timer)
    BY <1>1, <1>2, <2>4, EpollWaitLists
  <2>6. Timer \in Range(events') /\ fd \notin Range(events') => Before(rdl', fd, Timer)
    BY <1>1, <1>2, <2>4, EpollWaitLists
  <2>. QED
    BY <2>1, <2>2, <2>4, <2>5, <2>6 DEF InTime
<1>3. CASE Second
  <2>1. pending = 0 /\ left = 0
    BY <1>3, LateStep
  <2>2. /\ pending' = 1 /\ left' = 0 /\ current_tick' = current_tick /\ events' = events
        /\ rdl' = Linked(rdl, Timer)
    BY <1>3, <2>1 DEF Second, vars
  <2>3. Clock' = current_tick + 1 /\ Clock = current_tick
    BY <1>1, <2>1, <2>2 DEF Clock
  <2>4. Timer \notin Range(events) /\ ~ Before(events, fd, Timer)
    BY <2>1 DEF TimerDue, Before, Range
  <2>5. /\ Before(rdl, fd, Timer) => Before(rdl', fd, Timer)
        /\ Timer \notin Range(rdl) => Before(rdl', fd, Timer)
    BY <1>1, <2>2, LinkedEntries DEF Lists
  <2>. QED
    BY <1>1, <2>2, <2>3, <2>4, <2>5 DEF InTime
<1>4. CASE HandleTimer
  <2>1. /\ left = 0 /\ left' = pending /\ pending' = 0 /\ current_tick' = current_tick
        /\ UNCHANGED <<rdl, events>> /\ events # <<>> /\ Head(events) = Timer
    BY <1>4 DEF HandleTimer, HandleEvent, vars
  <2>2. Clock' = Clock
    BY <1>1, <2>1 DEF Clock
  <2>3. Timer \in Range(events) /\ pending > 0
    BY <1>1, <2>1, NextEventLists, TailEntries DEF Lists, TimerDue
  <2>4. ~ Before(events, fd, Timer)
    BY <1>1, <2>1 DEF Lists, Before, Distinct
  <2>5. a >= current_tick
    BY <1>1, <2>1, <2>3, <2>4 DEF InTime
  <2>. QED
    BY <1>1, <2>1, <2>2, <2>3, <2>5 DEF InTime
<1>5. CASE TickStep
  <2>1. /\ left > 0 /\ left' = left - 1 /\ pending' = pending
        /\ current_tick' = current_tick + 1
        /\ left = 1 => NextEvent
    BY <1>5 DEF TickStep, Tick
  <2>2. Clock' = Clock
    BY <1>1, <2>1 DEF Clock
  <2>3. a >= current_tick
    BY <2>1 DEF InTime
  <2>4. CASE left = 1
    <3>1. /\ Timer \in Range(events) /\ Timer \notin Range(events')
          /\ fd \in Range(events) => fd \in Range(events')
      BY <1>1, <2>1, <2>4, NextEventLists
    <3>2. Before(rdl, fd, Timer) => Before(rdl', fd, Timer)
      <4>1. ~EpollWait
        BY <1>1, <2>1 DEF EpollWait
      <4>. QED
        BY <1>1, <4>1, PlaceKept
    <3>3. a = current_tick => fd \in Range(events') \/ Before(rdl', fd, Timer)
      BY <1>1, <3>1, <3>2 DEF InTime
    <3>. QED
      BY <1>1, <2>1, <2>2, <2>3, <2>4, <3>1, <3>3 DEF InTime
  <2>5. CASE left > 1
    <3>1. a = Clock /\ a >= current_tick + 2
      BY <1>1, <2>5 DEF InTime
    <3>. QED
      BY <1>1, <2>1, <2>2, <2>5, <3>1 DEF InTime
  <2>. QED
    BY <1>1, <2>1, <2>4, <2>5
<1>6. CASE OtherStep
  <2>1. /\ UNCHANGED <<current_tick, left, pending>>
        /\ fd \in Range(events) => fd \in Range(events')
        /\ Before(events, fd, Timer) => Before(events', fd, Timer)
        /\ Timer \in Range(events') => Timer \in Range(events)
    BY <1>6, BatchKept
  <2>2. /\ Before(rdl, fd, Timer) => Before(rdl', fd, Timer)
        /\ Timer \in Range(rdl') => Timer \in Range(rdl)
    BY <1>1, <1>6, PlaceKept DEF OtherStep
  <2>3. Clock' = Clock
    BY <2>1 DEF Clock
  <2>. QED
    BY <2>1, <2>2, <2>3 DEF InTime
<1>. QED
  BY <1>2, <1>3, <1>4, <1>5, <1>6 DEF OtherStep

\* Seconds are counted from the timer into left, and from left into ticks.
LEMMA ClockRuns ==
  ASSUME LoopInv, LoopInv', [LoopNext]_loop
  PROVE  Clock \in Nat /\ Clock' \in Nat /\ Clock' >= Clock
<1>1. /\ current_tick \in Nat /\ pending \in Nat /\ left \in Nat
      /\ current_tick' \in Nat /\ pending' \in Nat /\ left' \in Nat
  BY DEF LoopInv, Lists, WheelInv, TypeOK
<1>9. Clock \in Nat
  BY <1>1 DEF Clock
<1>10. Clock' \in Nat
  <2>1. \A i, j, k \in Nat : i + j + k \in Nat
    OBVIOUS
  <2>2. current_tick' + left' + pending' \in Nat
    BY <1>1, <2>1
  <2>. QED
    BY <2>2 DEF Clock
<1>2. ASSUME TickStep PROVE Clock' >= Clock
  BY <1>1, <1>2 DEF TickStep, Tick, Clock
<1>3. ASSUME HandleTimer PROVE Clock' >= Clock
  BY <1>1, <1>3 DEF HandleTimer, HandleEvent, Clock, vars
<1>4. ASSUME Second PROVE Clock' >= Clock
  BY <1>1, <1>4 DEF Second, Clock, vars
<1>5. ASSUME NEW c \in Clients, \/ RegisterControl(c) \/ RejectControl(c) \/ EnqueueTransfer(c)
                                \/ Connect(c) \/ SendRole(c) \/ SendHalf(c) \/ Leave(c)
      PROVE  UNCHANGED <<current_tick, left, pending>>
  BY <1>5 DEF RegisterControl, Registered, Register, RejectControl, EnqueueTransfer, Connect,
              SendRole, SendHalf, Leave, vars
<1>6. ASSUME NEW g \in Conns, PassOver(g) \/ ServeCommand(g) \/ CloseControl(g) \/ WorkerCloses(g)
      PROVE  UNCHANGED <<current_tick, left, pending>>
  BY <1>6 DEF PassOver, ServeCommand, Refresh, Dispatched, CloseControl, Remove, WorkerCloses,
              vars
<1>7. ASSUME EpollWait \/ AcceptFails \/ DropAccepted \/ UNCHANGED loop
      PROVE  UNCHANGED <<current_tick, left, pending>>
  BY <1>7 DEF EpollWait, AcceptFails, DropAccepted, loop, loopVars, vars
<1>8. UNCHANGED <<current_tick, left, pending>> => Clock' >= Clock
  BY <1>1 DEF Clock
<1>. QED
  BY <1>2, <1>3, <1>4, <1>5, <1>6, <1>7, <1>8, <1>9, <1>10 DEF LoopNext, MainStep

LEMMA PunctualStep ==
  ASSUME LoopInv, LoopInv', TimerDue, Punctual, [LoopNext]_loop
  PROVE  Punctual'
<1>. SUFFICES ASSUME NEW fd \in open', Asked(who[fd])'
              PROVE  /\ askedAt'[who'[fd]] <= Clock'
                     /\ fd \in Range(rdl')
                     /\ ~late' => InTime(fd, askedAt[who[fd]])'
  BY DEF Punctual
<1>1. CASE NewlyAsked(fd)
  <2>1. fd \in Range(rdl')
    BY <1>1 DEF NewlyAsked
  <2>. QED
    BY <1>1, <2>1, NewInTime
<1>2. CASE StillAsked(fd)
  <2>0. askedAt[who[fd]] \in Nat
    BY <1>2 DEF StillAsked, LoopInv, Boxes
  <2>. PICK a \in Nat : a = askedAt[who[fd]]
    BY <2>0
  <2>1. fd \in open /\ fd \in open' \cap Conns /\ Asked(who[fd]) /\ a \in Nat
        /\ askedAt'[who'[fd]] = a
    BY <1>2 DEF StillAsked, LoopInv, Seats, Tables
  <2>2. a <= Clock /\ fd \in Range(rdl) /\ (~late => InTime(fd, a))
    BY <2>1 DEF Punctual
  <2>3. a <= Clock'
    BY <2>1, <2>2, ClockRuns
  <2>4. fd \in Range(rdl')
    <3>1. CASE EpollWait
      <4>1. Readable(fd)
        BY <2>1, AskedReadable
      <4>. QED
        BY <2>2, <3>1, <4>1, EpollWaitLists DEF LoopInv
    <3>2. CASE ~EpollWait
      BY <2>1, <2>2, <3>2, PlaceKept
    <3>. QED
      BY <3>1, <3>2
  <2>5. ASSUME ~late' PROVE InTime(fd, a)'
    <3>1. ~late
      BY <2>5, LateStep
    <3>. QED
      BY <1>2, <2>1, <2>2, <2>5, <3>1, StillInTime
  <2>6. InTime(fd, a)' => InTime(fd, askedAt[who[fd]])'
    BY <2>1 DEF InTime
  <2>. QED
    BY <2>1, <2>3, <2>4, <2>5, <2>6
<1>. QED
  BY <1>1, <1>2, AskedStep

LEMMA PunctualInvariant == LoopSpec => [](LoopInv /\ TimerDue /\ Punctual)
<1>1. LoopInit => LoopInv /\ TimerDue /\ Punctual
  <2>1. LoopInit => TimerDue /\ Punctual
    BY DEF LoopInit, Init, TimerDue, Punctual, Range
  <2>. QED
    BY <2>1, LoopInvInit
<1>2. LoopInv /\ TimerDue /\ Punctual /\ [LoopNext]_loop => (LoopInv /\ TimerDue /\ Punctual)'
  <2>. SUFFICES ASSUME LoopInv, TimerDue, Punctual, [LoopNext]_loop
                PROVE  LoopInv' /\ TimerDue' /\ Punctual'
    OBVIOUS
  <2>1. LoopInv'
    BY LoopInvNext
  <2>. QED
    BY <2>1, TimerDueStep, PunctualStep
<1>. QED
  BY <1>1, <1>2, PTL DEF LoopSpec, loop

\* As long as no waiting command has seen the main thread fall behind, a tick closes no
\* connection whose command was complete before the previous one.
THEOREM NoCommandCutOff == LoopSpec => PunctualClients
<1>. DEFINE Cut == ~late /\ left > 0 =>
                    \A fd \in open \ open' : Asked(who[fd]) => askedAt[who[fd]] >= current_tick
<1>1. LoopInv /\ TimerDue /\ Punctual => [Cut]_loop
  BY DEF Punctual, InTime
<1>. QED
  BY <1>1, PunctualInvariant, PTL DEF LoopSpec, PunctualClients, loop
===============================================================================
