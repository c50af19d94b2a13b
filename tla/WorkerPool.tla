----------------------------- MODULE WorkerPool -----------------------------
(***************************************************************************)
(* The transfer thread pool (thread_pool.c, queue.c, worker.c), the part of *)
(* the main thread that feeds it and shuts it down (server.c), and the      *)
(* database connections that all of them share (db_pool.c).  Sockets travel *)
(* as descriptor numbers through a queue guarded by one mutex and one       *)
(* condition variable; db_pool.c has a mutex and a condition variable of    *)
(* its own.  A section under a mutex is one step, except the main thread's  *)
(* exit section, during which workers still close and open descriptors: it  *)
(* holds the mutex over several steps.                                      *)
(***************************************************************************)
EXTENDS Naturals, Sequences, SequencesExt, FiniteSets

CONSTANTS
  Workers,   \* indices of the pool
  Conns,     \* connections that clients open
  Fds,       \* descriptor numbers, given out again once closed
  Links,     \* the MYSQL handles of conn_pool
  MaxQueries,\* bound: statements executed
  None       \* no connection, no descriptor (-1)

ASSUME PoolAssumption ==
  /\ None \notin Conns \cup Fds \cup Links \cup {"file"} /\ "file" \notin Conns /\ "main" \notin Workers
  /\ Workers # {}          \* init_thread_pool(&pool, 5)
  /\ IsFiniteSet(Links) /\ Links # {} /\ MaxQueries \in Nat

Users == Workers \cup {"main"}  \* the threads that use the database

VARIABLES
  owner,      \* descriptor table: a connection, "file" or None
  accepted,   \* connections accepted so far
  main,       \* "epoll", "init", "recv", "command", "shutting", "joining" or "done"
  mainFd,     \* the descriptor whose role or command the main thread reads or serves
  ctl,        \* descriptors in conn_map: control connections
  signalled,  \* SIGINT has been written to the pipe
  locked,     \* the main thread holds pool->lock
  toShut,     \* busy_fds entries the exit section has yet to look at
  queue,      \* pool->queue
  exitFlag,
  busy,       \* pool->busy_fds
  waiting,    \* workers inside pthread_cond_wait
  pc,         \* "loop", "serve", "close", "clear" or "gone"
  client_fd,  \* the worker's local
  file_fd,    \* a store file the handler has open
  serving,    \* ghost: the connection the worker took from the queue
  shut,       \* connections on which shutdown() was called
  conn_pool,  \* the stack of idle handles: its length is pool_top + 1
  db,         \* "no", "want" or "asleep" in get_connection, or "has" a handle
  conn,       \* the handle a user has
  queries     \* ghost: statements so far

mainVars == <<main, mainFd, ctl, signalled, locked, toShut>>
dbVars == <<conn_pool, db, conn, queries>>
workVars == <<pc, client_fd, file_fd, serving, dbVars>>
vars == <<owner, accepted, mainVars, queue, exitFlag, busy, waiting, workVars, shut>>

Init ==
  /\ owner = [fd \in Fds |-> None]
  /\ accepted = {}
  /\ main = "epoll" /\ mainFd = None /\ ctl = {}
  /\ signalled = FALSE /\ locked = FALSE /\ toShut = {}
  /\ queue = <<>> /\ exitFlag = FALSE
  /\ busy = [w \in Workers |-> None]
  /\ waiting = {}
  /\ pc = [w \in Workers |-> "loop"]
  /\ client_fd = [w \in Workers |-> None]
  /\ file_fd = [w \in Workers |-> None]
  /\ serving = [w \in Workers |-> None]
  /\ shut = {}
  /\ conn_pool = SetToSeq(Links)
  /\ db = [x \in Users |-> "no"] /\ conn = [x \in Users |-> None]
  /\ queries = 0

Closed(fds) == [fd \in Fds |-> IF fd \in fds THEN None ELSE owner[fd]]
Free == {fd \in Fds : owner[fd] = None}

-----------------------------------------------------------------------------
(* The main thread.                                                        *)

\* accept(); the main thread then blocks until the client says its role.
Accept(c) ==
  /\ main = "epoll" /\ ~exitFlag
  /\ c \notin accepted
  /\ accepted' = accepted \cup {c}
  /\ \E fd \in Free :
       /\ owner' = [owner EXCEPT ![fd] = c]
       /\ mainFd' = fd
  /\ main' = "init"
  /\ UNCHANGED <<ctl, signalled, locked, toShut, queue, exitFlag, busy, waiting, workVars, shut>>

\* pthread_cond_signal wakes one waiting worker, if there is one.
Signal(w) == waiting' = waiting \ {w}

\* Seeded fault: the connection is queued without waking a worker.
EnqueueSilently(fd) == queue' = Append(queue, fd) /\ UNCHANGED waiting

Enqueue(fd) ==
  /\ queue' = Append(queue, fd)
  /\ IF waiting = {} THEN UNCHANGED waiting ELSE \E w \in waiting : Signal(w)

\* The client has sent CONN_ROLE_TRANSFER.
RoleTransfer ==
  /\ main = "init"
  /\ Enqueue(mainFd)
  /\ main' = "epoll" /\ mainFd' = None
  /\ UNCHANGED <<owner, accepted, ctl, signalled, locked, toShut, exitFlag, busy, workVars, shut>>

\* The client has sent CONN_ROLE_CTRL.
RoleCtrl ==
  /\ main = "init"
  /\ ctl' = ctl \cup {mainFd}
  /\ main' = "epoll" /\ mainFd' = None
  /\ UNCHANGED <<owner, accepted, signalled, locked, toShut, queue, exitFlag, busy, waiting,
                 workVars, shut>>

\* The client has left, or named no role.
RoleNone ==
  /\ main = "init"
  /\ owner' = Closed({mainFd})
  /\ main' = "epoll" /\ mainFd' = None
  /\ UNCHANGED <<accepted, ctl, signalled, locked, toShut, queue, exitFlag, busy, waiting,
                 workVars, shut>>

\* handle_control_event: epoll has reported a control connection, and the main
\* thread reads one command packet, without a timeout.  Part of the packet may
\* be all there is, and the event may be older than the owner of the number.
HandleControl(fd) ==
  /\ main = "epoll"
  /\ fd \in ctl
  /\ main' = "recv" /\ mainFd' = fd
  /\ UNCHANGED <<owner, accepted, ctl, signalled, locked, toShut, queue, exitFlag, busy,
                 waiting, workVars, shut>>

\* The whole packet is there: dispatch_control_command begins.
CommandArrives ==
  /\ main = "recv"
  /\ main' = "command"
  /\ UNCHANGED <<owner, accepted, mainFd, ctl, signalled, locked, toShut, queue, exitFlag, busy,
                 waiting, workVars, shut>>

\* The command has been answered.
CommandServed ==
  /\ main = "command" /\ db["main"] = "no"
  /\ main' = "epoll" /\ mainFd' = None
  /\ UNCHANGED <<owner, accepted, ctl, signalled, locked, toShut, queue, exitFlag, busy,
                 waiting, workVars, shut>>

\* The client has left: the read fails, and the connection is closed.
ControlGone ==
  /\ main = "recv"
  /\ ctl' = ctl \ {mainFd}
  /\ owner' = Closed({mainFd})
  /\ main' = "epoll" /\ mainFd' = None
  /\ UNCHANGED <<accepted, signalled, locked, toShut, queue, exitFlag, busy, waiting,
                 workVars, shut>>

\* The time wheel closes a control connection that was idle for too long.
ControlEnds(fd) ==
  /\ main = "epoll"
  /\ fd \in ctl
  /\ ctl' = ctl \ {fd}
  /\ owner' = Closed({fd})
  /\ UNCHANGED <<accepted, main, mainFd, signalled, locked, toShut, queue, exitFlag, busy,
                 waiting, workVars, shut>>

\* SIGINT: the parent process writes to the pipe.
Interrupt ==
  /\ ~signalled
  /\ signalled' = TRUE
  /\ UNCHANGED <<owner, accepted, main, mainFd, ctl, locked, toShut, queue, exitFlag, busy,
                 waiting, workVars, shut>>

\* The exit section: take the mutex, stop the pool, drop what is queued.
ExitBegin ==
  LET queued == Range(queue) IN
  /\ main = "epoll" /\ signalled /\ ~locked
  /\ main' = "shutting" /\ locked' = TRUE
  /\ exitFlag' = TRUE
  /\ queue' = <<>>
  /\ owner' = Closed(queued)
  /\ shut' = shut \cup {owner[fd] : fd \in queued}
  /\ toShut' = Workers
  /\ UNCHANGED <<accepted, mainFd, ctl, signalled, busy, waiting, workVars>>

\* Seeded fault: the exit section closes the descriptors of busy workers, too.
ExitShutAndClose(w) ==
  /\ main = "shutting" /\ w \in toShut
  /\ toShut' = toShut \ {w}
  /\ shut' = IF busy[w] # None THEN shut \cup {owner[busy[w]]} ELSE shut
  /\ owner' = Closed({busy[w]})
  /\ UNCHANGED <<accepted, main, mainFd, ctl, signalled, locked, queue, exitFlag, busy,
                 waiting, workVars>>

\* shutdown() of what busy_fds names, whoever owns that number by now.
ExitShut(w) ==
  /\ main = "shutting" /\ w \in toShut
  /\ toShut' = toShut \ {w}
  /\ shut' = IF busy[w] # None /\ owner[busy[w]] \in Conns
             THEN shut \cup {owner[busy[w]]} ELSE shut
  /\ UNCHANGED <<owner, accepted, main, mainFd, ctl, signalled, locked, queue, exitFlag, busy,
                 waiting, workVars>>

\* Seeded fault: the exit wakes one worker instead of all.
ExitSignalOne ==
  /\ main = "shutting" /\ toShut = {}
  /\ IF waiting = {} THEN UNCHANGED waiting ELSE \E w \in waiting : Signal(w)
  /\ main' = "joining" /\ locked' = FALSE
  /\ owner' = Closed(ctl) /\ ctl' = {}
  /\ UNCHANGED <<accepted, mainFd, signalled, toShut, queue, exitFlag, busy, workVars, shut>>

\* Broadcast, give the mutex back, close the control connections.
ExitBroadcast ==
  /\ main = "shutting" /\ toShut = {}
  /\ waiting' = {}
  /\ main' = "joining" /\ locked' = FALSE
  /\ owner' = Closed(ctl) /\ ctl' = {}
  /\ UNCHANGED <<accepted, mainFd, signalled, toShut, queue, exitFlag, busy, workVars, shut>>

\* pthread_join of every worker, then the pools are destroyed: destroy_db_pool
\* closes the handles on the stack.
ExitJoined ==
  /\ main = "joining"
  /\ \A w \in Workers : pc[w] = "gone"
  /\ main' = "done"
  /\ conn_pool' = <<>>
  /\ UNCHANGED <<owner, accepted, mainFd, ctl, signalled, locked, toShut, queue, exitFlag,
                 busy, waiting, pc, client_fd, file_fd, serving, db, conn, queries, shut>>

-----------------------------------------------------------------------------
(* A worker.                                                               *)

Sleeps(w) == queue = <<>> /\ ~exitFlag

\* The top of the loop: the mutex is taken, and the condition is looked at
\* again after every wakeup.
Wait(w) ==
  /\ pc[w] = "loop" /\ w \notin waiting /\ ~locked
  /\ Sleeps(w)
  /\ waiting' = waiting \cup {w}
  /\ UNCHANGED <<owner, accepted, mainVars, queue, exitFlag, busy, workVars, shut>>

\* POSIX allows a wakeup without a signal.
Spurious(w) ==
  /\ w \in waiting
  /\ waiting' = waiting \ {w}
  /\ UNCHANGED <<owner, accepted, mainVars, queue, exitFlag, busy, workVars, shut>>

Leave(w) ==
  /\ pc[w] = "loop" /\ w \notin waiting /\ ~locked
  /\ exitFlag
  /\ pc' = [pc EXCEPT ![w] = "gone"]
  /\ UNCHANGED <<owner, accepted, mainVars, queue, exitFlag, busy, waiting,
                 client_fd, file_fd, serving, dbVars, shut>>

\* Seeded fault: busy_fds is not written before the mutex is given back.
TakeUnrecorded(w) ==
  /\ pc[w] = "loop" /\ w \notin waiting /\ ~locked
  /\ ~exitFlag /\ queue # <<>>
  /\ queue' = Tail(queue)
  /\ client_fd' = [client_fd EXCEPT ![w] = Head(queue)]
  /\ serving' = [serving EXCEPT ![w] = owner[Head(queue)]]
  /\ pc' = [pc EXCEPT ![w] = "serve"]
  /\ UNCHANGED <<owner, accepted, mainVars, exitFlag, busy, waiting, file_fd, dbVars, shut>>

\* deQueue and busy_fds under one lock.
Take(w) ==
  /\ pc[w] = "loop" /\ w \notin waiting /\ ~locked
  /\ ~exitFlag /\ queue # <<>>
  /\ queue' = Tail(queue)
  /\ client_fd' = [client_fd EXCEPT ![w] = Head(queue)]
  /\ busy' = [busy EXCEPT ![w] = Head(queue)]
  /\ serving' = [serving EXCEPT ![w] = owner[Head(queue)]]
  /\ pc' = [pc EXCEPT ![w] = "serve"]
  /\ UNCHANGED <<owner, accepted, mainVars, exitFlag, waiting, file_fd, dbVars, shut>>

\* handle_puts or handle_gets opens a store file.
OpenFile(w) ==
  /\ pc[w] = "serve" /\ file_fd[w] = None
  /\ \E fd \in Free :
       /\ owner' = [owner EXCEPT ![fd] = "file"]
       /\ file_fd' = [file_fd EXCEPT ![w] = fd]
  /\ UNCHANGED <<accepted, mainVars, queue, exitFlag, busy, waiting, pc, client_fd, serving, dbVars, shut>>

\* handle_transfer_request returns: the transfer is over, recv() or send() timed
\* out after 30 s, or the socket was shut down.
Served(w) ==
  /\ pc[w] = "serve" /\ db[w] = "no"
  /\ owner' = Closed({file_fd[w]})
  /\ file_fd' = [file_fd EXCEPT ![w] = None]
  /\ pc' = [pc EXCEPT ![w] = "close"]
  /\ UNCHANGED <<accepted, mainVars, queue, exitFlag, busy, waiting, client_fd, serving, dbVars, shut>>

\* shutdown() and close() of the client's socket, without the mutex.
CloseClient(w) ==
  /\ pc[w] = "close"
  /\ owner' = Closed({client_fd[w]})
  /\ pc' = [pc EXCEPT ![w] = "clear"]
  /\ UNCHANGED <<accepted, mainVars, queue, exitFlag, busy, waiting, client_fd, file_fd,
                 serving, dbVars, shut>>

Clear(w) ==
  /\ pc[w] = "clear" /\ ~locked
  /\ busy' = [busy EXCEPT ![w] = None]
  /\ client_fd' = [client_fd EXCEPT ![w] = None]
  /\ serving' = [serving EXCEPT ![w] = None]
  /\ pc' = [pc EXCEPT ![w] = "loop"]
  /\ UNCHANGED <<owner, accepted, mainVars, queue, exitFlag, waiting, file_fd, dbVars, shut>>

-----------------------------------------------------------------------------
(* The database connections: every statement takes one and gives it back.   *)

poolVars == <<accepted, mainVars, owner, queue, exitFlag, busy, waiting, pc, client_fd,
              file_fd, serving, shut>>

\* db_execute_query or db_execute_update: a worker for a transfer, the main
\* thread for the command it serves.
Query(x) ==
  /\ db[x] = "no" /\ queries < MaxQueries
  /\ queries' = queries + 1
  /\ db' = [db EXCEPT ![x] = "want"]
  /\ IF x = "main" THEN main = "command" ELSE pc[x] = "serve"
  /\ UNCHANGED <<poolVars, conn_pool, conn>>

\* get_connection pops a handle, or sleeps until one is pushed.
GetConnection(x) ==
  /\ db[x] = "want"
  /\ IF conn_pool = <<>>
     THEN db' = [db EXCEPT ![x] = "asleep"] /\ UNCHANGED <<conn_pool, conn>>
     ELSE /\ db' = [db EXCEPT ![x] = "has"]
          /\ conn' = [conn EXCEPT ![x] = Last(conn_pool)]
          /\ conn_pool' = Front(conn_pool)
  /\ UNCHANGED <<poolVars, queries>>

\* The statement has been executed, or has failed; pthread_cond_signal wakes one
\* thread, which looks again.
ReleaseConnection(x) ==
  LET asleep == {y \in Users : db[y] = "asleep"} IN
  /\ db[x] = "has"
  /\ conn_pool' = Append(conn_pool, conn[x])
  /\ conn' = [conn EXCEPT ![x] = None]
  /\ IF asleep = {} THEN db' = [db EXCEPT ![x] = "no"]
     ELSE \E y \in asleep : db' = [db EXCEPT ![x] = "no", ![y] = "want"]
  /\ UNCHANGED <<poolVars, queries>>

-----------------------------------------------------------------------------
MainStep == ExitBegin \/ (\E w \in Workers : ExitShut(w)) \/ ExitBroadcast \/ ExitJoined

WorkerStep(w) ==
  Wait(w) \/ Leave(w) \/ Take(w) \/ Served(w) \/ CloseClient(w) \/ Clear(w)

Next ==
  \/ \E c \in Conns : Accept(c)
  \/ RoleTransfer \/ RoleCtrl \/ RoleNone
  \/ \E fd \in Fds : HandleControl(fd) \/ ControlEnds(fd)
  \/ CommandArrives \/ CommandServed \/ ControlGone
  \/ Interrupt
  \/ MainStep
  \/ \E w \in Workers : WorkerStep(w) \/ OpenFile(w) \/ Spurious(w)
  \/ \E x \in Users : Query(x) \/ GetConnection(x) \/ ReleaseConnection(x)
  \/ main = "done" /\ UNCHANGED vars

Spec == Init /\ [][Next]_vars

\* Every worker that can run does: the scheduler is fair, the mutex is held for
\* short sections only, and a handler ends because files are finite and each
\* recv() and send() of a worker waits 30 s at most.  epoll_wait reports the
\* pipe with every batch, so the main thread sees it if it comes back there
\* again and again: strong fairness of ExitBegin.  A command is served to its
\* end: its statements end, and its answer finds room in the socket.  Nothing
\* makes a client send its role or the rest of a command, and nothing ends the
\* main thread's wait for them: no fairness leads out of "init" and "recv".
Fairness ==
  /\ \A w \in Workers : WF_vars(WorkerStep(w))
  /\ SF_vars(ExitBegin)
  /\ WF_vars(MainStep) /\ WF_vars(CommandServed)
  /\ \A x \in Users : WF_vars(GetConnection(x) \/ ReleaseConnection(x))

FairSpec == Spec /\ Fairness

-----------------------------------------------------------------------------
\* The types of pool, workers and descriptor table.
TypeOK ==
  /\ owner \in [Fds -> Conns \cup {"file", None}]
  /\ accepted \subseteq Conns
  /\ main \in {"epoll", "init", "recv", "command", "shutting", "joining", "done"}
  /\ mainFd \in Fds \cup {None}
  /\ ctl \subseteq Fds /\ toShut \subseteq Workers
  /\ signalled \in BOOLEAN /\ locked \in BOOLEAN /\ exitFlag \in BOOLEAN
  /\ queue \in Seq(Fds)
  /\ busy \in [Workers -> Fds \cup {None}]
  /\ waiting \subseteq Workers
  /\ pc \in [Workers -> {"loop", "serve", "close", "clear", "gone"}]
  /\ client_fd \in [Workers -> Fds \cup {None}]
  /\ file_fd \in [Workers -> Fds \cup {None}]
  /\ serving \in [Workers -> Conns \cup {"file", None}]
  /\ shut \subseteq Conns \cup {"file", None}
  /\ conn_pool \in Seq(Links) /\ queries \in 0..MaxQueries
  /\ db \in [Users -> {"no", "want", "asleep", "has"}]
  /\ conn \in [Users -> Links \cup {None}]

Holds(w) == pc[w] \in {"serve", "close"}

\* Every open connection has exactly one place: the main thread, conn_map, one
\* queue entry, or one worker, and that place names the descriptor the
\* connection has.  So nobody reads, writes or closes somebody else's socket
\* although descriptor numbers are given out again.
OnePlace ==
  /\ \A w \in Workers : Holds(w) => owner[client_fd[w]] = serving[w] /\ serving[w] \in Conns
  /\ \A v, w \in Workers : v # w /\ Holds(v) /\ Holds(w) => client_fd[v] # client_fd[w]
  /\ \A w \in Workers : Holds(w) => client_fd[w] \notin Range(queue) \cup ctl \cup {mainFd}
  /\ Range(queue) \cap (ctl \cup {mainFd}) = {} /\ IsInjective(queue)
  /\ \A fd \in Fds : owner[fd] \in Conns =>
       \/ fd = mainFd \/ fd \in ctl \/ fd \in Range(queue)
       \/ \E w \in Workers : Holds(w) /\ client_fd[w] = fd

\* Two threads never have one MYSQL handle, and destroy_db_pool finds them all.
OneUser ==
  /\ IsInjective(conn_pool)
  /\ \A x, y \in Users : x # y /\ conn[x] # None => conn[x] # conn[y]
  /\ main # "done" => \A l \in Links : l \in Range(conn_pool) <=> \A x \in Users : conn[x] # l
  /\ main = "done" => \A x \in Users : conn[x] = None

\* What makes OnePlace and OneUser inductive.  Sockets and store files in use
\* are open, and a file is read by the one worker that opened it.
SocketsOpen ==
  /\ \A fd \in ctl \cup Range(queue) : owner[fd] \in Conns
  /\ main = "init" => mainFd \in Fds \ ctl /\ owner[mainFd] \in Conns
  /\ main \in {"recv", "command"} => mainFd \in ctl
  /\ main \notin {"init", "recv", "command"} => mainFd = None
  /\ \A w \in Workers :
       /\ busy[w] = client_fd[w] /\ (Holds(w) => client_fd[w] # None)
       /\ file_fd[w] # None => pc[w] = "serve" /\ owner[file_fd[w]] = "file"
       /\ \A v \in Workers \ {w} : file_fd[w] # None => file_fd[v] # file_fd[w]

\* A thread has a handle only while it executes a statement.
HandlesInUse ==
  /\ \A x \in Users : db[x] = "has" <=> conn[x] # None
  /\ \A w \in Workers : db[w] # "no" => pc[w] = "serve"
  /\ db["main"] # "no" => main = "command"

\* How far the exit section is: nothing is queued any more, and what it has
\* passed over is shut down.
ExitStands ==
  /\ exitFlag <=> main \in {"shutting", "joining", "done"}
  /\ locked <=> main = "shutting"
  /\ exitFlag => /\ queue = <<>>
                 /\ \A w \in Workers \ toShut : pc[w] = "serve" => serving[w] \in shut
  /\ main = "joining" => toShut = {} /\ waiting = {}
  /\ main = "done" => \A w \in Workers : pc[w] = "gone"

\* Type invariant, with the place of every connection and database handle: the
\* inductive invariant of the proofs.
PoolInv == TypeOK /\ OnePlace /\ OneUser /\ SocketsOpen /\ HandlesInUse /\ ExitStands

\* No wakeup is lost: work in the queue never finds all workers asleep, and
\* neither does the exit.
NoLostWakeup ==
  (queue # <<>> \/ main = "joining") => waiting # Workers

\* When the main thread starts to join, every transfer still under way has been
\* shut down, so its worker cannot stay in recv() (worker.c records the
\* descriptor before it gives the mutex back).
ExitShutsTransfers ==
  main = "joining" => \A w \in Workers : pc[w] = "serve" => serving[w] \in shut

\* A queued connection is served, or the server stops.
QueuedServed ==
  \A c \in Conns :
    (\E fd \in Range(queue) : owner[fd] = c)
      ~> (exitFlag \/ \E w \in Workers : serving[w] = c)

\* What the documents say of SIGINT: the server comes to its end.
ExitAfterInterrupt == signalled ~> main = "done"

\* It does, unless a client keeps the main thread in one of its two reads
\* without a timeout, of a role or of a command, for ever: no transfer holds it
\* up, no worker sleeps on, no statement waits for a handle, none stays behind.
ExitCompletes == []<>(main \notin {"init", "recv"}) => ExitAfterInterrupt
=============================================================================
