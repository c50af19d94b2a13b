------------------------------ MODULE EventLoop ------------------------------
(***************************************************************************)
(* The main thread of the server (server.c): one epoll loop that accepts    *)
(* connections, reads their role, serves control commands with blocking     *)
(* reads, and turns the time wheel once a second.  Descriptors are reused:  *)
(* the lowest free one is given out first.  The wheel is TimeWheel; its     *)
(* connections are the descriptors.  The worker pool and the exit through   *)
(* the pipe are in WorkerPool, what a command does is in Tree and Store.    *)
(***************************************************************************)
EXTENDS TimeWheel, Sequences, FiniteSetsExt, Functions

CONSTANTS
  Clients,   \* sockets of clients, each connected at most once
  Roles,     \* Roles[c]: the roles the program of socket c may announce
  Leavers,   \* the clients whose program may end
  None,      \* no client
  Timer,     \* timer_fd
  Listen,    \* listen_fd
  BatchMax,  \* length of events[]
  MaxCmds,   \* bound: commands of one client
  MaxLag     \* bound: seconds the main thread falls behind the clock

ASSUME LoopAssumption ==
  /\ Conns \subseteq Nat /\ IsFiniteSet(Conns) /\ None \notin Clients
  /\ Timer \notin Conns /\ Listen \notin Conns /\ Timer # Listen
  /\ Roles \in [Clients -> SUBSET {"ctrl", "transfer"}]
  /\ BatchMax \in Nat \ {0} /\ MaxCmds \in Nat /\ MaxLag \in Nat \ {0}

VARIABLES
  pending,   \* expirations the timerfd has counted and nobody has read
  rdl,       \* epoll's ready list
  events,    \* the rest of the batch epoll_wait returned
  left,      \* expired_count in handle_timer_event: ticks to make up for
  ctx,       \* ctx[fd]: the client whose login the session of fd shows
  limit,     \* descriptors the process may have open; fixed when it starts
  who,       \* who[fd]: the client at the other end of descriptor fd
  backlog,   \* connections not accepted yet
  client,    \* client[c]: "out", "new", "ctrl", "transfer", "left", "cut"
  inbox,     \* inbox[c]: its role and the halves of its command, unread
  sent,      \* sent[c]: halves of commands sent
  askedAt,   \* ghost: since when epoll has had an unread, complete command
  fresh,     \* ghost: descriptors registered since the last epoll_wait
  late       \* ghost: while a command waited, a second passed before the previous
             \* one was ticked

clientVars == <<client, sent, askedAt>>
loopVars == <<pending, rdl, ctx, who, backlog, inbox, fresh, late, left, events, clientVars>>

LoopInit ==
  /\ Init
  /\ pending = 0 /\ left = 0
  /\ rdl = <<>> /\ events = <<>> /\ backlog = <<>>
  /\ ctx = [fd \in Conns |-> None]
  /\ limit \in Conns
  /\ who = [fd \in Conns |-> None]
  /\ client = [c \in Clients |-> "out"]
  /\ inbox = [c \in Clients |-> <<>>]
  /\ sent = [c \in Clients |-> 0]
  /\ askedAt = [c \in Clients |-> 0]
  /\ fresh = {}
  /\ late = FALSE

\* Seconds that have passed since the start.
Clock == current_tick + left + pending

\* The role, if it is still unread, is in front.
Halves(c) ==
  IF inbox[c] # <<>> /\ Head(inbox[c]) # "half" THEN Len(inbox[c]) - 1 ELSE Len(inbox[c])
Asked(c) == Halves(c) = 2
Served(c) == \E fd \in open : who[fd] = c
Waiting == \E c \in Clients : Asked(c) /\ Served(c)

-----------------------------------------------------------------------------
(* The kernel: ready list, descriptors and sockets. *)

\* The entries of a list that are in S, in their order.
Kept(list, S) ==
  LET kept[n \in 0..Len(list)] ==
        IF n = 0 THEN <<>>
        ELSE IF list[n] \in S THEN Append(kept[n - 1], list[n]) ELSE kept[n - 1]
  IN kept[Len(list)]

\* ep_poll_callback: what became ready is linked once.
Linked(list, x) == IF x \in Range(list) THEN list ELSE Append(list, x)

\* The ready list after client c's end changed: only registered descriptors
\* are watched.
Woken(c) ==
  IF Served(c) THEN Linked(rdl, CHOOSE fd \in open : who[fd] = c) ELSE rdl

Readable(x) ==
  IF x = Timer THEN pending > 0
  ELSE IF x = Listen THEN backlog # <<>>
  ELSE inbox[who[x]] # <<>> \/ client[who[x]] = "left"

\* Descriptors S are closed: their clients see the end of the connection.
Closed(S) ==
  LET cs == {who[fd] : fd \in S} IN
  /\ who' = [fd \in Conns |-> IF fd \in S THEN None ELSE who[fd]]
  /\ ctx' = [fd \in Conns |-> IF fd \in S THEN None ELSE ctx[fd]]
  /\ rdl' = Kept(rdl, Range(rdl) \ S)
  /\ client' = [c \in Clients |-> IF c \in cs THEN "cut" ELSE client[c]]
  /\ inbox' = [c \in Clients |-> IF c \in cs THEN <<>> ELSE inbox[c]]
  /\ askedAt' = [c \in Clients |-> IF c \in cs THEN 0 ELSE askedAt[c]]
  /\ late' = (late /\ Waiting')
  /\ UNCHANGED sent

\* The timer fires once a second whatever the main thread does.
Second ==
  /\ Clock < MaxTick /\ pending + left < MaxLag
  /\ pending' = pending + 1
  /\ late' = (late \/ (Waiting /\ pending + left > 0))
  /\ rdl' = Linked(rdl, Timer)
  /\ UNCHANGED <<vars, ctx, who, backlog, inbox, fresh, left, events, clientVars>>

-----------------------------------------------------------------------------
(* Clients: the program connects, sends its role and then one command at a  *)
(* time; a packet may arrive in two pieces, and the program may end.        *)

Connect(c) ==
  /\ client[c] = "out"
  /\ client' = [client EXCEPT ![c] = "new"]
  /\ backlog' = Append(backlog, c)
  /\ rdl' = Linked(rdl, Listen)
  /\ UNCHANGED <<vars, pending, ctx, who, inbox, sent, askedAt, fresh, late, left, events>>

SendRole(c) ==
  /\ client[c] = "new"
  /\ \E k \in Roles[c] :
       /\ client' = [client EXCEPT ![c] = k]
       /\ inbox' = [inbox EXCEPT ![c] = <<k>>]
  /\ UNCHANGED <<vars, pending, rdl, ctx, who, backlog, sent, askedAt, fresh, late, left, events>>

SendHalf(c) ==
  /\ client[c] = "ctrl" /\ ~Asked(c)
  /\ sent[c] < 2 * MaxCmds
  /\ sent' = [sent EXCEPT ![c] = @ + 1]
  /\ inbox' = [inbox EXCEPT ![c] = Append(@, "half")]
  /\ askedAt' = [askedAt EXCEPT ![c] = IF Halves(c) = 1 THEN Clock ELSE 0]
  /\ rdl' = Woken(c)
  /\ UNCHANGED <<vars, pending, ctx, who, backlog, client, fresh, late, left, events>>

\* A packet that was begun is completed: send_full.
SendRest(c) == Halves(c) = 1 /\ SendHalf(c)

Leave(c) ==
  /\ c \in Leavers
  /\ client[c] \in {"new", "ctrl", "transfer"}
  /\ client' = [client EXCEPT ![c] = "left"]
  /\ rdl' = Woken(c)
  /\ UNCHANGED <<vars, pending, ctx, who, backlog, inbox, sent, askedAt, fresh, late, left, events>>

-----------------------------------------------------------------------------
(* The main thread. *)

\* Level-triggered: what is returned stays on the list, behind the rest; what
\* is not readable any more is dropped.
EpollWait ==
  LET ready == Kept(rdl, {x \in Range(rdl) : Readable(x)})
      n     == IF Len(ready) < BatchMax THEN Len(ready) ELSE BatchMax
  IN
  /\ events = <<>>
  /\ n > 0
  /\ events' = SubSeq(ready, 1, n)
  /\ rdl' = SubSeq(ready, n + 1, Len(ready)) \o SubSeq(ready, 1, n)
  /\ fresh' = {}
  /\ UNCHANGED <<vars, pending, ctx, who, backlog, inbox, late, left, clientVars>>

NextEvent == events' = Tail(events)

\* The main thread has come to event x of its batch.  A blocking read is the
\* guard of the step that needs what is read.
HandleEvent(x) == left = 0 /\ events # <<>> /\ Head(events) = x

\* handle_timer_event, up to the loop that makes up for expired_count seconds.
HandleTimer ==
  /\ HandleEvent(Timer)
  /\ left' = pending /\ pending' = 0
  /\ UNCHANGED <<vars, rdl, events, ctx, who, backlog, inbox, fresh, late, clientVars>>

\* Seeded fault: the batch is abandoned after the timer has been handled.
TickLeavesBatch ==
  /\ left > 0
  /\ Tick
  /\ Closed(Due(current_tick + 1))
  /\ left' = left - 1
  /\ events' = IF left = 1 THEN <<>> ELSE events
  /\ UNCHANGED <<pending, backlog, fresh>>

\* One time_wheel_tick, with handle_control_timeout for what is due.
TickStep ==
  /\ left > 0
  /\ Tick
  /\ Closed(Due(current_tick + 1))
  /\ left' = left - 1
  /\ IF left = 1 THEN NextEvent ELSE UNCHANGED events
  /\ UNCHANGED <<pending, backlog, fresh>>

Free == {fd \in Conns : fd <= limit /\ who[fd] = None}

\* Seeded fault: accept is repeated until it returns a descriptor.
AcceptUntilDone == HandleEvent(Listen) /\ Free = {} /\ UNCHANGED <<vars, loopVars>>

\* handle_accept_event without a free descriptor: accept fails, the connection
\* stays in the backlog.
AcceptFails ==
  /\ HandleEvent(Listen)
  /\ Free = {}
  /\ NextEvent
  /\ UNCHANGED <<vars, pending, left, rdl, ctx, who, backlog, inbox, fresh, late, clientVars>>

\* handle_accept_event: the connection gets the lowest free descriptor, and its
\* role is read.
AcceptedRole(c, role) ==
  /\ HandleEvent(Listen)
  /\ Free # {}
  /\ c = Head(backlog)
  /\ inbox[c] # <<>> /\ Head(inbox[c]) = role
  /\ backlog' = Tail(backlog)
  /\ NextEvent

\* The role is control: register_control_connection.  What the client has sent
\* behind its role makes the descriptor ready at once.
Registered(c, fd) ==
  /\ AcceptedRole(c, "ctrl")
  /\ inbox' = [inbox EXCEPT ![c] = Tail(@)]
  /\ Register(fd)
  /\ who' = [who EXCEPT ![fd] = c]
  /\ rdl' = IF Len(inbox[c]) > 1 \/ client[c] = "left" THEN Linked(rdl, fd) ELSE rdl
  /\ fresh' = fresh \cup {fd}
  /\ askedAt' = [askedAt EXCEPT ![c] = IF Asked(c) THEN Clock ELSE 0]
  /\ UNCHANGED <<pending, left, late, client, sent>>

\* Seeded fault: the session is not reset for the new connection.
RegisterKeepsSession(c) ==
  LET fd == Min(Free) IN
  /\ Registered(c, fd)
  /\ \E other \in Clients \cup {None} : ctx' = [ctx EXCEPT ![fd] = other]

RegisterControl(c) ==
  LET fd == Min(Free) IN
  /\ Registered(c, fd)
  /\ ctx' = [ctx EXCEPT ![fd] = None]

\* The role is control and there is no memory for a ControlConn.
RejectControl(c) ==
  /\ AcceptedRole(c, "ctrl")
  /\ noMem < MaxNoMem
  /\ noMem' = noMem + 1
  /\ client' = [client EXCEPT ![c] = "cut"]
  /\ inbox' = [inbox EXCEPT ![c] = <<>>]
  /\ UNCHANGED <<open, noded, slots, current_tick, expire_tick,
                 pending, left, rdl, ctx, who, fresh, late, sent, askedAt>>

\* The role is transfer: the descriptor goes to the pool.
EnqueueTransfer(c) ==
  /\ AcceptedRole(c, "transfer")
  /\ who' = [who EXCEPT ![Min(Free)] = c]
  /\ inbox' = [inbox EXCEPT ![c] = Tail(@)]
  /\ UNCHANGED <<vars, pending, left, rdl, ctx, fresh, late, clientVars>>

\* The client has gone before it sent its role.
DropAccepted ==
  /\ HandleEvent(Listen)
  /\ Free # {}
  /\ inbox[Head(backlog)] = <<>> /\ client[Head(backlog)] = "left"
  /\ backlog' = Tail(backlog)
  /\ NextEvent
  /\ UNCHANGED <<vars, pending, left, rdl, ctx, who, inbox, fresh, late, clientVars>>

\* A worker ends a transfer and closes its descriptor.
WorkerCloses(fd) ==
  /\ who[fd] # None /\ fd \notin open
  /\ UNCHANGED <<vars, pending, left, events, backlog, fresh>>
  /\ Closed({fd})

\* The event is older than the closing of its descriptor: conn_map has nothing.
PassOver(fd) ==
  /\ HandleEvent(fd)
  /\ fd \notin open
  /\ NextEvent
  /\ UNCHANGED <<vars, pending, left, rdl, ctx, who, backlog, inbox, fresh, late, clientVars>>

\* handle_control_event has read a whole command: it is dispatched, which may
\* log the client in or out.
Dispatched(fd) ==
  LET c == who[fd] IN
  /\ HandleEvent(fd)
  /\ fd \in open
  /\ Len(inbox[c]) = 2
  /\ inbox' = [inbox EXCEPT ![c] = <<>>]
  /\ askedAt' = [askedAt EXCEPT ![c] = 0]
  /\ \E user \in {c, None} : ctx' = [ctx EXCEPT ![fd] = user]
  /\ UNCHANGED <<pending, left, rdl, who, backlog, fresh, client, sent>>
  /\ late' = (late /\ Waiting')

\* Seeded fault: commands are read until there are none.
ServeUntilEmpty(fd) == Refresh(fd) /\ Dispatched(fd) /\ UNCHANGED events

\* ... and then the connection is refreshed.
ServeCommand(fd) == Refresh(fd) /\ Dispatched(fd) /\ NextEvent

\* The client has gone, maybe in the middle of a command.
CloseControl(fd) ==
  /\ HandleEvent(fd)
  /\ fd \in open
  /\ Len(inbox[who[fd]]) < 2 /\ client[who[fd]] = "left"
  /\ Remove(fd)
  /\ Closed({fd})
  /\ NextEvent
  /\ UNCHANGED <<pending, left, backlog, fresh>>

MainStep ==
  \/ EpollWait \/ HandleTimer \/ TickStep
  \/ AcceptFails \/ DropAccepted
  \/ \E c \in Clients : RegisterControl(c) \/ RejectControl(c) \/ EnqueueTransfer(c)
  \/ \E fd \in Conns : PassOver(fd) \/ ServeCommand(fd) \/ CloseControl(fd)

LoopNext ==
  /\ UNCHANGED limit
  /\ \/ MainStep
     \/ Second
     \/ \E fd \in Conns : WorkerCloses(fd)
     \/ \E c \in Clients : Connect(c) \/ SendRole(c) \/ SendHalf(c) \/ Leave(c)

\* The main thread and the clock never stop.  The client program sends its role
\* right after connect, and a packet it has begun to its end; whether a user
\* types another command is nobody's promise.
LoopFairness ==
  /\ WF_<<vars, loopVars>>(MainStep)
  /\ WF_<<vars, loopVars>>(Second)
  /\ \A c \in Clients : WF_<<vars, loopVars>>(SendRole(c) \/ SendRest(c))

LoopSpec == LoopInit /\ [][LoopNext]_<<vars, loopVars>> /\ LoopFairness

-----------------------------------------------------------------------------
\* The main thread reads from a connection whose client has sent nothing.
Stalled ==
  \E fd \in open :
    HandleEvent(fd) /\ inbox[who[fd]] = <<>> /\ client[who[fd]] = "ctrl"

\* A read that nothing announced happens only when a descriptor was closed and
\* given out again within one batch, and an old event of that batch remained.
StallsOnlyOnReuse == Stalled => Head(events) \in fresh

\* The session on a descriptor belongs to the client at its other end, whoever
\* had the descriptor before.
OwnSession == \A fd \in open : who[fd] # None /\ ctx[fd] \in {None, who[fd]}

\* While the main thread keeps up with the clock, the time wheel never closes a
\* connection whose command has been waiting for more than one tick.
PunctualClients ==
  [][~late /\ left > 0 =>
       \A fd \in open \ open' : Asked(who[fd]) => askedAt[who[fd]] >= current_tick]_<<vars, loopVars>>

\* A command on a registered connection is answered or its connection closed,
\* unless the main thread stalls on a reused descriptor.
CommandsEnd ==
  \A c \in Clients : Asked(c) /\ Served(c) ~> ~Asked(c) \/ Stalled

\* Every second is ticked, unless the main thread stalls; with ClosesOnTime, no
\* idle connection is forgotten.
SecondsTicked == pending > 0 ~> left > 0 \/ Stalled
=============================================================================
