--------------------------- MODULE WorkerPoolProofs ---------------------------
(* The safety properties of WorkerPool, proved for every number of workers,  *)
(* connections, descriptor numbers and database handles.  PoolInv is         *)
(* inductive by itself; it is proved in four parts, each with one step per   *)
(* action of Next: the types, the sockets, the database handles, the exit.   *)
EXTENDS WorkerPool, SequenceTheorems, FiniteSetTheorems,
        FunctionTheorems, TLAPS

-----------------------------------------------------------------------------
(* Sequences without repetitions.                                            *)

LEMMA AppendRange ==
  ASSUME NEW S, NEW s \in Seq(S), NEW e \in S
  PROVE  /\ Range(Append(s, e)) = Range(s) \cup {e}
         /\ IsInjective(s) /\ e \notin Range(s) => IsInjective(Append(s, e))
<1>1. /\ DOMAIN s = 1..Len(s) /\ Len(s) \in Nat
      /\ DOMAIN Append(s, e) = 1..(Len(s) + 1)
      /\ \A i \in 1..Len(s) : Append(s, e)[i] = s[i]
      /\ Append(s, e)[Len(s) + 1] = e
  BY AppendProperties, LenProperties
<1>2. ASSUME NEW x PROVE x \in Range(Append(s, e)) <=> x \in Range(s) \cup {e}
  BY <1>1 DEF Range
<1>. QED
  BY <1>1, <1>2 DEF Range, IsInjective

LEMMA TailRange ==
  ASSUME NEW S, NEW s \in Seq(S), s # <<>>
  PROVE  /\ Head(s) \in Range(s) /\ Tail(s) \in Seq(S)
         /\ Range(Tail(s)) \subseteq Range(s)
         /\ IsInjective(s) => /\ Range(Tail(s)) = Range(s) \ {Head(s)}
                              /\ IsInjective(Tail(s))
<1>1. /\ DOMAIN s = 1..Len(s) /\ Len(s) \in Nat \ {0}
      /\ Tail(s) \in Seq(S) /\ DOMAIN Tail(s) = 1..(Len(s) - 1)
      /\ \A i \in 1..(Len(s) - 1) : Tail(s)[i] = s[i + 1]
      /\ Head(s) = s[1]
  BY HeadTailProperties, LenProperties, EmptySeq
<1>2. ASSUME NEW x \in Range(s), x # Head(s) PROVE x \in Range(Tail(s))
  <2>1. PICK i \in 1..Len(s) : x = s[i]
    BY <1>1 DEF Range
  <2>2. i - 1 \in 1..(Len(s) - 1) /\ s[(i - 1) + 1] = x
    BY <1>1, <1>2, <2>1
  <2>. QED
    BY <1>1, <2>2 DEF Range
<1>3. Range(Tail(s)) \subseteq Range(s)
  BY <1>1 DEF Range
<1>4. ASSUME IsInjective(s)
      PROVE  Head(s) \notin Range(Tail(s)) /\ IsInjective(Tail(s))
  BY <1>1, <1>4 DEF Range, IsInjective
<1>. QED
  BY <1>1, <1>2, <1>3, <1>4 DEF Range

LEMMA FrontRange ==
  ASSUME NEW S, NEW s \in Seq(S), s # <<>>
  PROVE  /\ Last(s) \in Range(s) /\ Front(s) \in Seq(S)
         /\ IsInjective(s) => /\ Range(Front(s)) = Range(s) \ {Last(s)}
                              /\ IsInjective(Front(s))
<1>1. DOMAIN s = 1..Len(s) /\ Len(s) \in Nat \ {0} /\ \A i \in 1..Len(s) : s[i] \in S
  BY LenProperties, EmptySeq
<1>2. /\ Front(s) \in Seq(S) /\ DOMAIN Front(s) = 1..(Len(s) - 1)
      /\ \A i \in 1..(Len(s) - 1) : Front(s)[i] = s[i]
  BY <1>1, SubSeqProperties, LenProperties DEF Front
<1>3. ASSUME NEW x \in Range(s), x # Last(s) PROVE x \in Range(Front(s))
  <2>1. PICK i \in 1..Len(s) : x = s[i]
    BY <1>1 DEF Range
  <2>2. i \in 1..(Len(s) - 1)
    BY <1>1, <1>3, <2>1 DEF Last
  <2>. QED
    BY <1>2, <2>1, <2>2 DEF Range
<1>4. Range(Front(s)) \subseteq Range(s)
  BY <1>1, <1>2 DEF Range
<1>5. ASSUME IsInjective(s)
      PROVE  Last(s) \notin Range(Front(s)) /\ IsInjective(Front(s))
  BY <1>1, <1>2, <1>5 DEF Range, IsInjective, Last
<1>6. Last(s) \in Range(s)
  BY <1>1 DEF Range, Last
<1>. QED
  BY <1>2, <1>3, <1>4, <1>5, <1>6

\* A finite set as a sequence: every element once.
LEMMA SetAsSequence ==
  ASSUME NEW S, IsFiniteSet(S)
  PROVE  /\ SetToSeq(S) \in Seq(S)
         /\ IsInjective(SetToSeq(S))
         /\ Range(SetToSeq(S)) = S
<1>. DEFINE n == Cardinality(S)
<1>1. n \in Nat /\ ExistsBijection(1..n, S)
  BY FS_CardinalityType
<1>2. PICK f \in Bijection(1..n, S) : TRUE
  BY <1>1 DEF ExistsBijection
<1>3. f \in [1..n -> S] /\ IsInjective(f)
  BY <1>2 DEF Bijection, Injection
<1>4. SetToSeq(S) \in [1..n -> S] /\ IsInjective(SetToSeq(S))
  BY <1>3 DEF SetToSeq
<1>5. SetToSeq(S) \in Injection(1..n, S)
  BY <1>4 DEF Injection
<1>6. IsFiniteSet(1..n) /\ Cardinality(1..n) = n
  BY <1>1, FS_Interval
<1>7. SetToSeq(S) \in Surjection(1..n, S)
  BY <1>5, <1>6, FS_Injection
<1>8. Range(SetToSeq(S)) = S
  BY <1>7, Fun_SurjectionProperties
<1>9. SetToSeq(S) \in Seq(S)
  BY <1>1, <1>4, SeqDef
<1>. QED
  BY <1>4, <1>8, <1>9

-----------------------------------------------------------------------------
(* Types.                                                                    *)

LEMMA TypeStep ==
  ASSUME PoolInv, [Next]_vars
  PROVE  TypeOK'
<1> USE PoolAssumption DEF PoolInv, TypeOK, mainVars, dbVars, workVars, poolVars, Closed, Free, Users
<1>1. ASSUME NEW c \in Conns, Accept(c) PROVE TypeOK'
  BY <1>1 DEF Accept
<1>2. CASE RoleTransfer
  <2>1. mainFd \in Fds
    BY <1>2 DEF RoleTransfer, SocketsOpen, OnePlace
  <2>2. queue' \in Seq(Fds) /\ waiting' \subseteq Workers
    BY <1>2, <2>1, AppendProperties DEF RoleTransfer, Enqueue, Signal
  <2>. QED
    BY <1>2, <2>2 DEF RoleTransfer
<1>3. CASE RoleCtrl
  <2>1. mainFd \in Fds
    BY <1>3 DEF RoleCtrl, SocketsOpen, OnePlace
  <2>. QED
    BY <1>3, <2>1 DEF RoleCtrl
<1>4. CASE RoleNone
  BY <1>4 DEF RoleNone
<1>5. ASSUME NEW fd \in Fds, ControlEnds(fd) PROVE TypeOK'
  BY <1>5 DEF ControlEnds
<1>6. CASE Interrupt
  BY <1>6 DEF Interrupt
<1>7. CASE ExitBegin
  <2>1. \A fd \in Range(queue) : fd \in Fds
    BY RangeOfSeq
  <2>2. shut' \subseteq Conns \cup {"file", None}
    BY <1>7, <2>1 DEF ExitBegin
  <2>. QED
    BY <1>7, <2>2 DEF ExitBegin
<1>8. ASSUME NEW w \in Workers, ExitShut(w) PROVE TypeOK'
  BY <1>8 DEF ExitShut
<1>9. CASE ExitBroadcast
  BY <1>9 DEF ExitBroadcast
<1>10. CASE ExitJoined
  BY <1>10 DEF ExitJoined
<1>11. ASSUME NEW w \in Workers, Wait(w) PROVE TypeOK'
  BY <1>11 DEF Wait
<1>12. ASSUME NEW w \in Workers, Spurious(w) PROVE TypeOK'
  BY <1>12 DEF Spurious
<1>13. ASSUME NEW w \in Workers, Leave(w) PROVE TypeOK'
  BY <1>13 DEF Leave
<1>14. ASSUME NEW w \in Workers, Take(w) PROVE TypeOK'
  <2>1. Head(queue) \in Fds /\ Tail(queue) \in Seq(Fds)
    BY <1>14, HeadTailProperties DEF Take
  <2>. QED
    BY <1>14, <2>1 DEF Take
<1>15. ASSUME NEW w \in Workers, OpenFile(w) PROVE TypeOK'
  BY <1>15 DEF OpenFile
<1>16. ASSUME NEW w \in Workers, Served(w) PROVE TypeOK'
  BY <1>16 DEF Served
<1>17. ASSUME NEW w \in Workers, CloseClient(w) PROVE TypeOK'
  BY <1>17 DEF CloseClient
<1>18. ASSUME NEW w \in Workers, Clear(w) PROVE TypeOK'
  BY <1>18 DEF Clear
<1>19. ASSUME NEW x \in Users, Query(x) PROVE TypeOK'
  BY <1>19 DEF Query
<1>20. ASSUME NEW x \in Users, GetConnection(x) PROVE TypeOK'
  <2>1. db' \in [Users -> {"no", "want", "asleep", "has"}]
    BY <1>20 DEF GetConnection
  <2>2. conn' \in [Users -> Links \cup {None}] /\ conn_pool' \in Seq(Links)
    <3>1. CASE conn_pool = <<>>
      BY <1>20, <3>1 DEF GetConnection
    <3>2. CASE conn_pool # <<>>
      <4>1. Last(conn_pool) \in Links /\ Front(conn_pool) \in Seq(Links)
        BY <3>2, FrontRange, RangeOfSeq
      <4>2. conn' = [conn EXCEPT ![x] = Last(conn_pool)] /\ conn_pool' = Front(conn_pool)
        BY <1>20, <3>2 DEF GetConnection
      <4>. QED
        BY <4>1, <4>2
    <3>. QED
      BY <3>1, <3>2
  <2>. QED
    BY <1>20, <2>1, <2>2 DEF GetConnection
<1>21. ASSUME NEW x \in Users, ReleaseConnection(x) PROVE TypeOK'
  <2>1. conn[x] \in Links
    BY <1>21 DEF ReleaseConnection, HandlesInUse
  <2>2. Append(conn_pool, conn[x]) \in Seq(Links)
    BY <2>1, AppendProperties
  <2>. QED
    BY <1>21, <2>2 DEF ReleaseConnection
<1>22. ASSUME NEW fd \in Fds, HandleControl(fd) PROVE TypeOK'
  BY <1>22 DEF HandleControl
<1>23. CASE CommandArrives
  BY <1>23 DEF CommandArrives
<1>24. CASE CommandServed
  BY <1>24 DEF CommandServed
<1>25. CASE ControlGone
  BY <1>25 DEF ControlGone
<1>26. CASE UNCHANGED vars
  BY <1>26 DEF vars
<1>. QED
  BY <1>1, <1>2, <1>3, <1>4, <1>5, <1>6, <1>7, <1>8, <1>9, <1>10, <1>11, <1>12, <1>13,
     <1>14, <1>15, <1>16, <1>17, <1>18, <1>19, <1>20, <1>21, <1>22, <1>23, <1>24, <1>25, <1>26
     DEF Next, MainStep, WorkerStep

-----------------------------------------------------------------------------
(* Sockets and store files.                                                  *)

\* Where descriptors are, in every state of PoolInv.
LEMMA Places ==
  ASSUME PoolInv
  PROVE  /\ Range(queue) \subseteq Fds
         /\ \A w \in Workers : Holds(w) => client_fd[w] \in Fds
         /\ main \in {"init", "recv", "command"} => mainFd \in Fds
<1> USE PoolAssumption DEF PoolInv, TypeOK, SocketsOpen
<1>1. Range(queue) \subseteq Fds
  BY RangeOfSeq
<1>. QED
  BY <1>1

LEMMA SocketStep ==
  ASSUME PoolInv, TypeOK', [Next]_vars
  PROVE  OnePlace' /\ SocketsOpen'
<1> USE PoolAssumption DEF PoolInv, TypeOK, OnePlace, SocketsOpen, Holds, mainVars, dbVars, workVars,
        poolVars, Closed, Free, Users
<1>1. ASSUME NEW c \in Conns, Accept(c) PROVE OnePlace' /\ SocketsOpen'
  <2>1. PICK fd \in Free : owner' = [owner EXCEPT ![fd] = c] /\ mainFd' = fd
    BY <1>1 DEF Accept
  <2>2. mainFd = None /\ fd \in Fds /\ fd \notin Range(queue) \cup ctl
    BY <1>1, <2>1, Places DEF Accept
  <2>3. \A w \in Workers : Holds(w) => client_fd[w] # fd
    BY <2>1
  <2>4. OnePlace'
    <3>1. UNCHANGED <<queue, ctl, pc, client_fd, serving>>
      BY <1>1 DEF Accept
    <3>2. \A f \in Fds : owner'[f] = IF f = fd THEN c ELSE owner[f]
      BY <2>1
    <3>3. \A w \in Workers : Holds(w)' => /\ owner'[client_fd[w]] = serving[w] /\ serving[w] \in Conns
                                         /\ client_fd[w] \notin Range(queue) \cup ctl \cup {fd}
      BY <2>2, <2>3, <3>1, <3>2, Places
    <3>4. ASSUME NEW f \in Fds, owner'[f] \in Conns, f # fd
          PROVE  \/ f \in ctl \/ f \in Range(queue)
                 \/ \E w \in Workers : Holds(w)' /\ client_fd[w] = f
      <4>1. owner[f] \in Conns /\ f # mainFd
        BY <2>2, <3>2, <3>4
      <4>2. \A w \in Workers : Holds(w)' <=> Holds(w)
        BY <3>1
      <4>. QED
        BY <4>1, <4>2
    <3>. QED
      BY <2>1, <2>2, <3>1, <3>3, <3>4
  <2>5. SocketsOpen'
    BY <1>1, <2>1, <2>2, <2>3 DEF Accept
  <2>. QED
    BY <2>4, <2>5
<1>2. CASE RoleTransfer
  <2>1. /\ mainFd \in Fds /\ mainFd' = None
        /\ Range(queue') = Range(queue) \cup {mainFd} /\ IsInjective(queue')
    BY <1>2, Places, AppendRange DEF RoleTransfer, Enqueue
  <2>2. OnePlace'
    BY <1>2, <2>1, Places DEF RoleTransfer
  <2>3. SocketsOpen'
    BY <1>2, <2>1, Places DEF RoleTransfer
  <2>. QED
    BY <2>2, <2>3
<1>3. CASE RoleCtrl
  <2>1. OnePlace'
    BY <1>3, Places DEF RoleCtrl
  <2>2. SocketsOpen'
    BY <1>3, Places DEF RoleCtrl
  <2>. QED
    BY <2>1, <2>2
<1>4. CASE RoleNone
  <2>1. OnePlace'
    BY <1>4, Places DEF RoleNone
  <2>2. SocketsOpen'
    BY <1>4, Places DEF RoleNone
  <2>. QED
    BY <2>1, <2>2
<1>5. ASSUME NEW fd \in Fds, ControlEnds(fd) PROVE OnePlace' /\ SocketsOpen'
  <2>1. OnePlace'
    BY <1>5, Places DEF ControlEnds
  <2>2. SocketsOpen'
    BY <1>5, Places DEF ControlEnds
  <2>. QED
    BY <2>1, <2>2
<1>6. CASE Interrupt
  <2>1. OnePlace'
    BY <1>6, Places DEF Interrupt
  <2>2. SocketsOpen'
    BY <1>6, Places DEF Interrupt
  <2>. QED
    BY <2>1, <2>2
<1>7. CASE ExitBegin
  <2>1. Range(queue') = {} /\ IsInjective(queue')
    BY <1>7 DEF ExitBegin, Range, IsInjective
  <2>2. OnePlace'
    BY <1>7, <2>1, Places DEF ExitBegin
  <2>3. SocketsOpen'
    BY <1>7, <2>1, Places DEF ExitBegin
  <2>. QED
    BY <2>2, <2>3
<1>8. ASSUME NEW w \in Workers, ExitShut(w) PROVE OnePlace' /\ SocketsOpen'
  <2>1. OnePlace'
    BY <1>8, Places DEF ExitShut
  <2>2. SocketsOpen'
    BY <1>8, Places DEF ExitShut
  <2>. QED
    BY <2>1, <2>2
<1>9. CASE ExitBroadcast
  <2>1. OnePlace'
    BY <1>9, Places DEF ExitBroadcast
  <2>2. SocketsOpen'
    BY <1>9, Places DEF ExitBroadcast
  <2>. QED
    BY <2>1, <2>2
<1>10. CASE ExitJoined
  <2>1. OnePlace'
    BY <1>10, Places DEF ExitJoined, HandlesInUse, ExitStands
  <2>2. SocketsOpen'
    BY <1>10, Places DEF ExitJoined, HandlesInUse, ExitStands
  <2>. QED
    BY <2>1, <2>2
<1>11. ASSUME NEW w \in Workers, Wait(w) PROVE OnePlace' /\ SocketsOpen'
  <2>1. OnePlace'
    BY <1>11, Places DEF Wait
  <2>2. SocketsOpen'
    BY <1>11, Places DEF Wait
  <2>. QED
    BY <2>1, <2>2
<1>12. ASSUME NEW w \in Workers, Spurious(w) PROVE OnePlace' /\ SocketsOpen'
  <2>1. OnePlace'
    BY <1>12, Places DEF Spurious
  <2>2. SocketsOpen'
    BY <1>12, Places DEF Spurious
  <2>. QED
    BY <2>1, <2>2
<1>13. ASSUME NEW w \in Workers, Leave(w) PROVE OnePlace' /\ SocketsOpen'
  <2>1. OnePlace'
    BY <1>13, Places DEF Leave
  <2>2. SocketsOpen'
    BY <1>13, Places DEF Leave
  <2>. QED
    BY <2>1, <2>2
<1>14. ASSUME NEW w \in Workers, Take(w) PROVE OnePlace' /\ SocketsOpen'
  <2>1. /\ Head(queue) \in Range(queue)
        /\ Range(queue') = Range(queue) \ {Head(queue)} /\ IsInjective(queue')
    BY <1>14, TailRange DEF Take
  <2>2. OnePlace'
    BY <1>14, <2>1, Places DEF Take
  <2>3. SocketsOpen'
    BY <1>14, <2>1, Places DEF Take
  <2>. QED
    BY <2>2, <2>3
<1>15. ASSUME NEW w \in Workers, OpenFile(w) PROVE OnePlace' /\ SocketsOpen'
  <2>1. OnePlace'
    BY <1>15, Places DEF OpenFile
  <2>2. SocketsOpen'
    BY <1>15, Places DEF OpenFile
  <2>. QED
    BY <2>1, <2>2
<1>16. ASSUME NEW w \in Workers, Served(w) PROVE OnePlace' /\ SocketsOpen'
  <2>1. OnePlace'
    BY <1>16, Places DEF Served
  <2>2. SocketsOpen'
    BY <1>16, Places DEF Served
  <2>. QED
    BY <2>1, <2>2
<1>17. ASSUME NEW w \in Workers, CloseClient(w) PROVE OnePlace' /\ SocketsOpen'
  <2>1. OnePlace'
    BY <1>17, Places DEF CloseClient
  <2>2. SocketsOpen'
    BY <1>17, Places DEF CloseClient
  <2>. QED
    BY <2>1, <2>2
<1>18. ASSUME NEW w \in Workers, Clear(w) PROVE OnePlace' /\ SocketsOpen'
  <2>1. OnePlace'
    BY <1>18, Places DEF Clear
  <2>2. SocketsOpen'
    BY <1>18, Places DEF Clear
  <2>. QED
    BY <2>1, <2>2
<1>19. ASSUME NEW x \in Users, Query(x) PROVE OnePlace' /\ SocketsOpen'
  <2>1. OnePlace'
    BY <1>19, Places DEF Query
  <2>2. SocketsOpen'
    BY <1>19, Places DEF Query
  <2>. QED
    BY <2>1, <2>2
<1>20. ASSUME NEW x \in Users, GetConnection(x) PROVE OnePlace' /\ SocketsOpen'
  <2>1. OnePlace'
    BY <1>20, Places DEF GetConnection
  <2>2. SocketsOpen'
    BY <1>20, Places DEF GetConnection
  <2>. QED
    BY <2>1, <2>2
<1>21. ASSUME NEW x \in Users, ReleaseConnection(x) PROVE OnePlace' /\ SocketsOpen'
  <2>1. OnePlace'
    BY <1>21, Places DEF ReleaseConnection, HandlesInUse
  <2>2. SocketsOpen'
    BY <1>21, Places DEF ReleaseConnection, HandlesInUse
  <2>. QED
    BY <2>1, <2>2
<1>22. ASSUME NEW fd \in Fds, HandleControl(fd) PROVE OnePlace' /\ SocketsOpen'
  <2>1. OnePlace'
    BY <1>22, Places DEF HandleControl
  <2>2. SocketsOpen'
    BY <1>22, Places DEF HandleControl
  <2>. QED
    BY <2>1, <2>2
<1>23. CASE CommandArrives
  <2>1. OnePlace'
    BY <1>23, Places DEF CommandArrives
  <2>2. SocketsOpen'
    BY <1>23, Places DEF CommandArrives
  <2>. QED
    BY <2>1, <2>2
<1>24. CASE CommandServed
  <2>1. OnePlace'
    BY <1>24, Places DEF CommandServed
  <2>2. SocketsOpen'
    BY <1>24, Places DEF CommandServed
  <2>. QED
    BY <2>1, <2>2
<1>25. CASE ControlGone
  <2>1. OnePlace'
    BY <1>25, Places DEF ControlGone
  <2>2. SocketsOpen'
    BY <1>25, Places DEF ControlGone
  <2>. QED
    BY <2>1, <2>2
<1>26. CASE UNCHANGED vars
  BY <1>26 DEF vars
<1>. QED
  BY <1>1, <1>2, <1>3, <1>4, <1>5, <1>6, <1>7, <1>8, <1>9, <1>10, <1>11, <1>12, <1>13,
     <1>14, <1>15, <1>16, <1>17, <1>18, <1>19, <1>20, <1>21, <1>22, <1>23, <1>24, <1>25, <1>26
     DEF Next, MainStep, WorkerStep
-----------------------------------------------------------------------------
(* Database handles.                                                         *)

LEMMA HandleStep ==
  ASSUME PoolInv, TypeOK', [Next]_vars
  PROVE  OneUser' /\ HandlesInUse'
<1> USE PoolAssumption DEF PoolInv, TypeOK, OneUser, HandlesInUse, mainVars, dbVars, workVars,
        poolVars, Closed, Free, Users
<1>1. ASSUME NEW c \in Conns, Accept(c) PROVE OneUser' /\ HandlesInUse'
  BY <1>1 DEF Accept
<1>2. CASE RoleTransfer
  BY <1>2 DEF RoleTransfer, Enqueue, Signal
<1>3. CASE RoleCtrl
  BY <1>3 DEF RoleCtrl
<1>4. CASE RoleNone
  BY <1>4 DEF RoleNone
<1>5. ASSUME NEW fd \in Fds, ControlEnds(fd) PROVE OneUser' /\ HandlesInUse'
  BY <1>5 DEF ControlEnds
<1>6. CASE Interrupt
  BY <1>6 DEF Interrupt
<1>7. CASE ExitBegin
  BY <1>7 DEF ExitBegin
<1>8. ASSUME NEW w \in Workers, ExitShut(w) PROVE OneUser' /\ HandlesInUse'
  BY <1>8 DEF ExitShut
<1>9. CASE ExitBroadcast
  BY <1>9 DEF ExitBroadcast
<1>10. CASE ExitJoined
  <2>1. \A x \in Users : conn[x] = None
    BY <1>10 DEF ExitJoined
  <2>2. conn_pool' = <<>> /\ conn' = conn /\ db' = db /\ pc' = pc /\ main' = "done"
    BY <1>10 DEF ExitJoined
  <2>3. IsInjective(<<>>)
    BY DEF IsInjective
  <2>. QED
    BY <1>10, <2>1, <2>2, <2>3 DEF ExitJoined
<1>11. ASSUME NEW w \in Workers, Wait(w) PROVE OneUser' /\ HandlesInUse'
  BY <1>11 DEF Wait
<1>12. ASSUME NEW w \in Workers, Spurious(w) PROVE OneUser' /\ HandlesInUse'
  BY <1>12 DEF Spurious
<1>13. ASSUME NEW w \in Workers, Leave(w) PROVE OneUser' /\ HandlesInUse'
  BY <1>13 DEF Leave
<1>14. ASSUME NEW w \in Workers, Take(w) PROVE OneUser' /\ HandlesInUse'
  BY <1>14 DEF Take
<1>15. ASSUME NEW w \in Workers, OpenFile(w) PROVE OneUser' /\ HandlesInUse'
  BY <1>15 DEF OpenFile
<1>16. ASSUME NEW w \in Workers, Served(w) PROVE OneUser' /\ HandlesInUse'
  BY <1>16 DEF Served
<1>17. ASSUME NEW w \in Workers, CloseClient(w) PROVE OneUser' /\ HandlesInUse'
  BY <1>17 DEF CloseClient
<1>18. ASSUME NEW w \in Workers, Clear(w) PROVE OneUser' /\ HandlesInUse'
  BY <1>18 DEF Clear
<1>19. ASSUME NEW x \in Users, Query(x) PROVE OneUser' /\ HandlesInUse'
  BY <1>19 DEF Query
<1>20. ASSUME NEW x \in Users, GetConnection(x) PROVE OneUser' /\ HandlesInUse'
  <2>1. CASE conn_pool = <<>>
    BY <1>20, <2>1 DEF GetConnection
  <2>2. CASE conn_pool # <<>>
    <3>1. /\ Last(conn_pool) \in Range(conn_pool) /\ Range(conn_pool) \subseteq Links
          /\ Range(conn_pool') = Range(conn_pool) \ {Last(conn_pool)} /\ IsInjective(conn_pool')
      BY <1>20, <2>2, FrontRange, RangeOfSeq DEF GetConnection
    <3>2. /\ conn' = [conn EXCEPT ![x] = Last(conn_pool)] /\ db' = [db EXCEPT ![x] = "has"]
          /\ UNCHANGED <<main, pc>>
      BY <1>20, <2>2 DEF GetConnection
    <3>3. main # "done"
      BY <1>20 DEF GetConnection, ExitStands
    <3>4. conn[x] = None /\ Last(conn_pool) \in Links
      BY <1>20, <3>1 DEF GetConnection
    <3>5. \A y \in Users : y # x => conn[y] # Last(conn_pool) /\ conn'[y] = conn[y]
      BY <3>1, <3>2, <3>3
    <3>6. conn'[x] = Last(conn_pool)
      BY <3>2
    <3>7. OneUser'
      BY <3>1, <3>2, <3>3, <3>4, <3>5, <3>6
    <3>8. HandlesInUse'
      BY <1>20, <3>2, <3>4 DEF GetConnection
    <3>. QED
      BY <3>7, <3>8
  <2>. QED
    BY <2>1, <2>2
<1>21. ASSUME NEW x \in Users, ReleaseConnection(x) PROVE OneUser' /\ HandlesInUse'
  <2>1. conn[x] \in Links /\ conn[x] \notin Range(conn_pool) /\ main # "done"
    BY <1>21 DEF ReleaseConnection
  <2>2. /\ Range(conn_pool') = Range(conn_pool) \cup {conn[x]} /\ IsInjective(conn_pool')
        /\ conn' = [conn EXCEPT ![x] = None] /\ main' # "done" /\ pc' = pc
    BY <1>21, <2>1, AppendRange DEF ReleaseConnection
  <2>3. OneUser'
    BY <2>1, <2>2
  <2>4. HandlesInUse'
    <3>1. \A y \in Users : conn'[y] = IF y = x THEN None ELSE conn[y]
      BY <2>2
    <3>2. \A y \in Users : /\ db'[y] = "has" <=> y # x /\ db[y] = "has"
                           /\ db'[y] # "no" => db[y] # "no"
      BY <1>21 DEF ReleaseConnection
    <3>3. main' = main /\ pc' = pc /\ "main" \in Users
      BY <1>21 DEF ReleaseConnection
    <3>. QED
      BY <3>1, <3>2, <3>3
  <2>. QED
    BY <2>3, <2>4
<1>22. ASSUME NEW fd \in Fds, HandleControl(fd) PROVE OneUser' /\ HandlesInUse'
  BY <1>22 DEF HandleControl
<1>23. CASE CommandArrives
  BY <1>23 DEF CommandArrives
<1>24. CASE CommandServed
  BY <1>24 DEF CommandServed
<1>25. CASE ControlGone
  BY <1>25 DEF ControlGone
<1>26. CASE UNCHANGED vars
  BY <1>26 DEF vars
<1>. QED
  BY <1>1, <1>2, <1>3, <1>4, <1>5, <1>6, <1>7, <1>8, <1>9, <1>10, <1>11, <1>12, <1>13,
     <1>14, <1>15, <1>16, <1>17, <1>18, <1>19, <1>20, <1>21, <1>22, <1>23, <1>24, <1>25, <1>26
     DEF Next, MainStep, WorkerStep
-----------------------------------------------------------------------------
(* The exit section.                                                         *)

LEMMA ExitStep ==
  ASSUME PoolInv, TypeOK', [Next]_vars
  PROVE  ExitStands'
<1> USE PoolAssumption DEF PoolInv, TypeOK, ExitStands, OnePlace, SocketsOpen, Holds, HandlesInUse,
        mainVars, dbVars, workVars,
        poolVars, Closed, Free, Users
<1>1. ASSUME NEW c \in Conns, Accept(c) PROVE ExitStands'
  BY <1>1 DEF Accept
<1>2. CASE RoleTransfer
  BY <1>2 DEF RoleTransfer, Enqueue, Signal
<1>3. CASE RoleCtrl
  BY <1>3 DEF RoleCtrl
<1>4. CASE RoleNone
  BY <1>4 DEF RoleNone
<1>5. ASSUME NEW fd \in Fds, ControlEnds(fd) PROVE ExitStands'
  BY <1>5 DEF ControlEnds
<1>6. CASE Interrupt
  BY <1>6 DEF Interrupt
<1>7. CASE ExitBegin
  BY <1>7 DEF ExitBegin
<1>8. ASSUME NEW w \in Workers, ExitShut(w) PROVE ExitStands'
  BY <1>8 DEF ExitShut
<1>9. CASE ExitBroadcast
  BY <1>9 DEF ExitBroadcast
<1>10. CASE ExitJoined
  BY <1>10 DEF ExitJoined
<1>11. ASSUME NEW w \in Workers, Wait(w) PROVE ExitStands'
  BY <1>11 DEF Wait, Sleeps
<1>12. ASSUME NEW w \in Workers, Spurious(w) PROVE ExitStands'
  BY <1>12 DEF Spurious
<1>13. ASSUME NEW w \in Workers, Leave(w) PROVE ExitStands'
  BY <1>13 DEF Leave
<1>14. ASSUME NEW w \in Workers, Take(w) PROVE ExitStands'
  BY <1>14 DEF Take
<1>15. ASSUME NEW w \in Workers, OpenFile(w) PROVE ExitStands'
  BY <1>15 DEF OpenFile
<1>16. ASSUME NEW w \in Workers, Served(w) PROVE ExitStands'
  BY <1>16 DEF Served
<1>17. ASSUME NEW w \in Workers, CloseClient(w) PROVE ExitStands'
  BY <1>17 DEF CloseClient
<1>18. ASSUME NEW w \in Workers, Clear(w) PROVE ExitStands'
  BY <1>18 DEF Clear
<1>19. ASSUME NEW x \in Users, Query(x) PROVE ExitStands'
  BY <1>19 DEF Query
<1>20. ASSUME NEW x \in Users, GetConnection(x) PROVE ExitStands'
  BY <1>20 DEF GetConnection
<1>21. ASSUME NEW x \in Users, ReleaseConnection(x) PROVE ExitStands'
  BY <1>21 DEF ReleaseConnection
<1>22. ASSUME NEW fd \in Fds, HandleControl(fd) PROVE ExitStands'
  BY <1>22 DEF HandleControl
<1>23. CASE CommandArrives
  BY <1>23 DEF CommandArrives
<1>24. CASE CommandServed
  BY <1>24 DEF CommandServed
<1>25. CASE ControlGone
  BY <1>25 DEF ControlGone
<1>26. CASE UNCHANGED vars
  BY <1>26 DEF vars
<1>. QED
  BY <1>1, <1>2, <1>3, <1>4, <1>5, <1>6, <1>7, <1>8, <1>9, <1>10, <1>11, <1>12, <1>13,
     <1>14, <1>15, <1>16, <1>17, <1>18, <1>19, <1>20, <1>21, <1>22, <1>23, <1>24, <1>25, <1>26
     DEF Next, MainStep, WorkerStep
-----------------------------------------------------------------------------
(* The initial state, and the theorems.                                      *)

LEMMA PoolInit == Init => PoolInv
<1> SUFFICES ASSUME Init PROVE PoolInv
  OBVIOUS
<1> USE PoolAssumption DEF Init
<1>1. conn_pool \in Seq(Links) /\ IsInjective(conn_pool) /\ Range(conn_pool) = Links
  BY SetAsSequence
<1>2. Range(queue) = {} /\ IsInjective(queue) /\ queue \in Seq(Fds)
  BY DEF Range, IsInjective
<1>3. TypeOK
  <2>1. queries \in 0..MaxQueries
    OBVIOUS
  <2>2. /\ owner \in [Fds -> Conns \cup {"file", None}] /\ busy \in [Workers -> Fds \cup {None}]
        /\ client_fd \in [Workers -> Fds \cup {None}] /\ file_fd \in [Workers -> Fds \cup {None}]
        /\ serving \in [Workers -> Conns \cup {"file", None}]
        /\ db \in [Users -> {"no", "want", "asleep", "has"}]
        /\ conn \in [Users -> Links \cup {None}]
    OBVIOUS
  <2>. QED
    BY <1>1, <1>2, <2>1, <2>2 DEF TypeOK
<1>4. OnePlace /\ SocketsOpen /\ ExitStands
  BY <1>2 DEF OnePlace, SocketsOpen, ExitStands, Holds
<1>5. OneUser /\ HandlesInUse
  BY <1>1 DEF OneUser, HandlesInUse, Users
<1>. QED
  BY <1>3, <1>4, <1>5 DEF PoolInv

LEMMA PoolStep == PoolInv /\ [Next]_vars => PoolInv'
<1>1. PoolInv /\ [Next]_vars => TypeOK'
  BY TypeStep
<1>. QED
  BY <1>1, SocketStep, HandleStep, ExitStep DEF PoolInv

\* A connection that was accepted and not yet closed is with exactly one of the
\* main thread, conn_map, the queue and a worker, under the descriptor it really
\* has, although descriptors are used again at once and worker.c closes its
\* socket outside the mutex; two threads never share a MYSQL handle, and
\* destroy_db_pool closes them all.
THEOREM PoolCorrect == Spec => []PoolInv
<1>1. Init => PoolInv
  BY PoolInit
<1>2. PoolInv /\ [Next]_vars => PoolInv'
  BY PoolStep
<1>. QED
  BY <1>1, <1>2, PTL DEF Spec

LEMMA WakeupStep ==
  ASSUME PoolInv, PoolInv', NoLostWakeup, [Next]_vars
  PROVE  NoLostWakeup'
<1> USE PoolAssumption DEF NoLostWakeup, mainVars, dbVars, workVars, poolVars
<1>0. SUFFICES ASSUME waiting' = Workers PROVE queue' = <<>> /\ main' # "joining"
  OBVIOUS
<1>1. main' # "joining"
  BY <1>0 DEF PoolInv, ExitStands
<1>2. ASSUME queue' # <<>> PROVE FALSE
  <2>1. CASE RoleTransfer
    BY <1>0, <2>1 DEF RoleTransfer, Enqueue, Signal, PoolInv, TypeOK
  <2>2. ASSUME NEW w \in Workers, Wait(w) PROVE FALSE
    BY <1>2, <2>2 DEF Wait, Sleeps
  <2>3. ASSUME NEW w \in Workers, Take(w) PROVE FALSE
    BY <1>0, <2>3 DEF Take
  <2>4. ASSUME NEW w \in Workers, Spurious(w) PROVE FALSE
    BY <1>0, <2>4 DEF Spurious
  <2>5. CASE ExitBegin
    BY <1>2, <2>5 DEF ExitBegin
  <2>6. CASE ExitBroadcast
    BY <1>0, <2>6 DEF ExitBroadcast
  <2>7. CASE UNCHANGED <<queue, waiting>>
    BY <1>0, <1>2, <2>7
  <2>. QED
    BY <2>1, <2>2, <2>3, <2>4, <2>5, <2>6, <2>7
       DEF Next, MainStep, WorkerStep, vars, Accept, RoleCtrl, RoleNone, HandleControl,
           CommandArrives, CommandServed, ControlGone, ControlEnds, Interrupt,
           ExitShut, ExitJoined, Leave, OpenFile, Served, CloseClient, Clear,
           Query, GetConnection, ReleaseConnection
<1>. QED
  BY <1>1, <1>2

\* A worker goes to sleep only after it has seen an empty queue under the mutex,
\* and whoever fills the queue or ends the pool wakes one or all: there is never
\* work, and never an exit to join, while every worker sleeps.
THEOREM WakeupKept == Spec => []NoLostWakeup
<1>1. Init => NoLostWakeup
  BY DEF Init, NoLostWakeup
<1>2. PoolInv /\ PoolInv' /\ NoLostWakeup /\ [Next]_vars => NoLostWakeup'
  BY WakeupStep
<1>. QED
  BY <1>1, <1>2, PoolCorrect, PTL DEF Spec

\* A worker that pthread_join waits for has had its transfer shut down: busy_fds
\* is written under the mutex that the exit section takes.
THEOREM ExitReachesTransfers == Spec => []ExitShutsTransfers
<1>1. PoolInv => ExitShutsTransfers
  BY DEF PoolInv, ExitStands, ExitShutsTransfers
<1>. QED
  BY <1>1, PoolCorrect, PTL
===============================================================================
