# WindCloud: specifications and proofs

TLA+ specifications of the WindCloud V5 cloud drive (C, epoll main thread, thread pool, MySQL),
model-checked with TLC and, where it matters most, proved with TLAPS. Paths below are relative to the
repository. The specifications describe the code, not the documents; where the two differ, a run of
kind *violation* shows it (section 6).

## 1. The system

Several server processes share one MySQL database; each has its own directory of store files. Clients
talk to a server over one *control connection* (short commands) and any number of *transfer
connections* (one upload or one ranged download each).

| Part | Code | State | Operations |
|---|---|---|---|
| Event loop | `server/core/server.c`, `net/epoll.c`, `net/server_socket.c` | `conn_map`, epoll set, exit pipe, timerfd | accept and role, command, timer, close, exit |
| Sessions, dispatch | `server/core/session.c` | `ClientContext` of each connection: user, `current_path`, `current_dir_id` | login, cd, dispatch, tickets, transfer context |
| Idle timeout | `server/net/time_wheel.c` | slots of doubly linked lists, `current_tick`; `expire_tick`, `wheel_slot` of a connection | add, refresh, remove, tick |
| Transfer pool | `server/net/thread_pool.c`, `queue.c`, `core/worker.c` | queue, `busy_fds`, `exitFlag`, one mutex, one condition variable | enqueue, take, serve, close, shut down |
| File store | `server/file/file_transfer.c`, `file_cmds.c`, `data/dao_file*.c` | tables `files` (hash, size, count), `file_sources`, `paths.file_id`; store files named by hash | puts, gets, touch, rm |
| Virtual tree | `server/data/dao_vfs.c`, `file_cmds.c` | table `paths` (user, path, parent, type) | cd, ls, mkdir, rmdir, touch, rm, puts |
| Transfer tickets | `server/security/transfer_ticket.c`, `common/jwt_utils.c` | per process: 1024 slots of unused tickets | issue, verify and consume, expire |
| Multi-source download | `client/client_gets.c`, `multipart_meta.c` | task directory: `meta.ini`, part files; final file | plan, range tickets, part threads, join, merge, verify, clean up |
| Client | `client/client.c`, `client_command_handle.c`, `client_puts.c`, `client_socket.c` | token, own `current_path` | commands, upload thread |
| Authentication | `server/security/auth.c`, `data/dao_user.c` | table `users` | register, login |
| Database pool | `server/data/db_pool.c` | ten connections, mutex, condition variable | get, release |
| Protocol | `common/protocol.c` | none | framing of packets over TCP |
| Start-up, services | `data/db_init.c`, `config.c`, `log.c`, `storage_paths.c`, `sha256_utils.c`, `path_utils.c`, `server_identity.c` | configuration, log file | initialisation, look-ups |

How they interact. The main thread accepts a connection and reads its role with a blocking `recv`. A
control connection goes into `conn_map`, epoll and the time wheel; a transfer connection goes into the
queue under the pool's mutex. The main thread runs every control command to its end, so control
commands of one server never overlap; transfer threads, and the main threads of other servers, run
their SQL statements and file calls in between. Nothing holds a transaction or a lock over two
statements. A ticket issued on the control connection is the only link between the two kinds of
connection. `SIGINT` reaches the main thread through a pipe.

What is hard, and what must hold:

- **File store.** Uploads, instant uploads, touch and rm share rows, counts and files by content.
  A count must cover all links, a counted row must stand for a complete file, rm must only recycle
  what nobody links to, a file's length must not promise blocks that never arrived. Hazards:
  interleaved statements, failing statements, kills, interrupted and resumed uploads, two servers.
- **Virtual tree.** A row names its place by path and by parent id, a session its directory by path
  and by id. The pairs must agree; nothing keeps them in step.
- **Idle timeout.** The timeout (120 s) is longer than a lap of the wheel (60 slots). A connection is
  closed exactly at its deadline, a list survives removals while it is walked.
- **Transfer pool.** Descriptor numbers are used again as soon as they are closed. No socket may be in
  two hands, no wakeup lost, and the exit must reach every sleeping or receiving thread.
- **Download.** Parts are resumed from the length of part files after lost connections, expired
  tickets and kills of the client. The merged file must be exact, progress kept, a ticket used once.
- **Event loop.** One thread accepts, reads, serves and turns the wheel, with blocking reads, over
  batches of events whose descriptors may have been closed and given out again meanwhile. Sessions must
  not pass to the next owner of a descriptor; commands and seconds must get their turn.
- **Packets.** Each kind of packet has its own length and nothing on the wire says which kind comes.
  Every reply must be the one its reader waits for, on every early return, or the connection must end.

## 2. Modules

| Module | Models | Composed with |
|---|---|---|
| `Catalog` | abstract: what the store promises its users about names and contents | |
| `Store` | file store: one action per SQL statement or file call of puts, gets, touch, rm; failing calls; kills | implements `Catalog` |
| `StoreProofs` | proofs: types of `Store`; its reference count is never too low | extends `Store` |
| `StoreCatalogProofs` | proofs: `Store` implements `Catalog`; exact counts, whole contents | extends `StoreProofs` |
| `IdleTimeout` | abstract: what the server promises about idle connections | |
| `TimeWheel` | the wheel with its lists as sets | implements `IdleTimeout` |
| `TimeWheelList` | the wheel with its pointers; a tick is a walk along a list, a step for each node | implements `TimeWheel` |
| `TimeWheelListProofs` | proofs: whole lists; `TimeWheelList` implements `TimeWheel` | extends `TimeWheelList` |
| `EventLoop` | main thread: batches of events, accept and role, commands, timer; descriptors that are reused; clients | extends `TimeWheel` |
| `EventLoopProofs` | proofs: `TimeWheel` implements `IdleTimeout`, by itself and under the loop; sessions, stalls, punctuality | extends `EventLoop` |
| `WorkerPool` | queue, workers, descriptor table, main thread as far as it feeds and stops the pool; database handles | |
| `WorkerPoolProofs` | proofs: one place per connection, one user per handle, wakeups, exit | extends `WorkerPool` |
| `Exchange` | one client program and the server over byte streams: prompt, dispatch, upload thread, `handle_puts` | |
| `ExchangeProofs` | proofs: packets, truthful reports, exact resumption | extends `Exchange` |
| `Download` | one client's multi-source download with tickets and ranged gets | |
| `DownloadProofs` | proofs: part files, merge, tickets, progress | extends `Download` |
| `Tree` | virtual tree, sessions, transfer contexts | |
| `TreeProofs` | proofs: the tree, contexts, ls and the prompt | extends `Tree` |
| `MC*` | the instances TLC checks | extend the module they name |

State and code. A variable has the name of what it stands for in the code; the comment beside it says
which. An action is one step that others can observe: an SQL statement, a file call, a section under a
mutex, or a handler that only touches its own thread's data. `map` in `PROJECT.json` gives the lines of
every definition. Data is abstract: a content is a model value with a length in blocks, a user or a
name is a model value, a path a sequence of names, a ticket a record of what it says. Operators whose
comment starts with "Seeded fault" belong to no specification: each is a plausible bug, and replacing
the definition it imitates must break a property.

- **`Store`.** `pc` is the next statement of a thread, `fid` its local `file_id`, `base`/`got` are
  `local_size`/`received_count`. `disk[s][h]` has the length of a store file and the set `good` of its
  blocks that really arrived, so a file extended by `ftruncate` is long and not good. `Works`/`Fails`
  choose between a call's result and a failure; `NoResult` is a DAO function's -1, which stands for "no
  row" and "failed" alike. `Crash` ends all threads of a server.
- **`Tree`.** `ctx` is the `ClientContext` of sessions and of transfer threads alike; `job` the locals
  of a command between its statements; `prompt` the path the client keeps for itself.
- **`Catalog`.** `catalog` in `Store` maps a logical file to the content of its `files` row, to "absent",
  or to "dangling", which `Catalog` never allows; `stored` are the contents some server keeps whole.
- **`TimeWheel`.** `open` is `conn_map`, `noded` the connections with a `wheel_node`. The main thread
  alone touches the wheel, so each call is one step.
- **`TimeWheelList`.** `links` are the pointers, `node` is the local variable of `time_wheel_tick`: not
  `NULL` while a list is walked. One list is what its head leads to, defined as a smallest closed set
  (`OnList`), so it can be compared with the nodes that were put on it (`NodesOf`).
- **`EventLoop`.** The connections of `TimeWheel` are descriptors here; `who[fd]` is the client at the
  other end, `ctx[fd]` the client whose login the session shows. `rdl` is epoll's ready list, `events`
  what is left of the batch, `pending` the count a timerfd keeps, `left` the local `expired_count`. A
  blocking read is the guard of the step that needs the data: while it is not enabled, the main thread
  stands still. A command is two halves, so a read can block in the middle of one.
- **`WorkerPool`.** `owner` is the kernel's descriptor table. `locked` says that the main thread is in
  its exit section, which holds the mutex while workers go on closing sockets without it. `main` is
  where the main thread stands: in `epoll_wait`, in the read of a role (`init`) or of a command packet
  (`recv`), two reads without a timeout, in a command, or in the exit. A transfer runs its statements
  between `Take` and `Served`, a command of the main thread between `CommandArrives` and
  `CommandServed`. `conn_pool` is the stack of MYSQL handles, `db` where a thread is in
  `get_connection` and `release_connection`; the threads are the workers and the main thread, which serves commands.
- **`Exchange`.** `down`, `up` and `back` are the bytes on their way, in units; a packet of a kind is as
  many units as `Size` says, and a read takes that many units whatever they are. `asked` is what the
  prompt blocks on, `thread` and `worker` where the two ends of the upload are, `told` what the user
  has read about it. `linked` and `recorded` are the name and the row of the file; `store` are the blocks
  that have arrived and `length` is the `st_size` of the store file, which runs ahead of them: `ftruncate`
  extends the file to its final length before the first block and cuts it back when an upload is
  interrupted. The next upload resumes from `length`.
- **`Download`.** `parts` and `meta` are the task directory, `tickets[s]` the ticket table of server
  `s`, `at[i]` the next block the server sends on part `i`. `Kill` ends the client at any moment.

## 3. Runs

| Run | Instance | Shows |
|---|---|---|
| `StoreDistinct` | 2 servers on one database, a transfer thread on each, a control thread on one, all commands; requests that overlap are about different names and contents; 2 names, 2 contents, 2 blocks, fair | implementation of `Catalog`; counts exact, rows complete, downloads complete, sources right on both servers, no holes, every request ends |
| `StoreFaults` | 1 server, everything overlaps, one failing call, one kill | types and ids stay in range and the count is never too low |
| `StoreRmRace` | rm against uploads | violation of `RecycledOnlyWhenUnlinked` |
| `StoreTwoUploads` | two uploads of one content | violation of `CommittedComplete` |
| `EventLoop` | 2 clients (one control that never leaves, one of either role that may), 1 or 2 descriptors, 2 slots, timeout 3, 3 ticks, batches of 2 events, 1 command each, main thread up to 2 s behind, one failing calloc, fair | `WheelInv`, refinement of `IdleTimeout`, sessions stay with their clients, punctual clients are not closed, commands answered, seconds ticked; when the main thread can stall |
| `TimeWheelList` | 3 connections, 2 slots, timeout 3, 9 ticks, one failing calloc | well-linked lists at every step of a walk, refinement of `TimeWheel` |
| `WorkerPool` | 2 workers, 3 connections, 2 descriptor numbers, 1 database handle, 2 statements, fair | one holder per socket and per handle, no lost wakeup, queued sockets served, the exit reaches every transfer and completes unless a client keeps the main thread in a read for ever |
| `Download` | 2 servers, 3 blocks, 0 to 2 recorded sources, 2 failures, 1 kill, fair | exact parts, exact merge, single-use tickets, progress, the download ends |
| `DownloadTickets` | 2 sources | violation of `FreshTicketAccepted` |
| `DownloadSources` | a source appears while part files exist | violation of `MergeExact` |
| `Tree` | 2 servers with a session each, an upload thread, a careful and a careless user, depth 2, 3 ids, one failing statement | the careful user's tree is whole and agrees with ls and with the prompt; whatever the careless one does, paths are unique and parents are older directories |
| `Exchange` | 4 commands, a file of 3 blocks, 2 names, 2 faults, six packet lengths in the order of the real ones (264, 352, 1024, 1240, 1284, 1288 bytes), fair | `ExchangeInv`: no packet taken for another, uploads reported truthfully, exact resumption down to the length of the store file, the prompt returns, the upload thread ends |

Why the bounds are enough. Two threads and one control thread are the actors of every race on a content; in
`StoreFaults` and `StoreRmRace` they meet on a content that other names link to. Two blocks tell empty,
partial and complete apart, three blocks on two sources an even from an uneven split. Two slots with a
timeout of three make a list hold connections of different laps; three connections give a list a head, a
middle and an end. Two workers suffice for "the wrong one wakes up" and two numbers for sockets and store
files that take each other's numbers; one handle for three threads is the smallest pool in which somebody
waits (as configured there are ten handles for six threads, and nobody does). In `EventLoop` two descriptors
are enough for an event that outlives the owner of its descriptor while another event is handled first, a
limit of one for `accept` that fails, and two seconds of lag for a timer that makes up for more than one
tick. In `Exchange` four commands are a login, an upload, a failed login and a command the server then
refuses with a text; two faults break an upload and its repetition; distinct lengths let every pair of
packets be confused. In `Tree` three ids allow a directory to be removed and made again with a node below
it, and two levels are all a parent link relates. `MaxFileId`, `MaxId`, `MaxTick`, `MaxFaults`,
`MaxCrashes`, `MaxNoMem`, `MaxCuts`, `MaxKills`, `MaxChanges`, `MaxTickets`, `MaxDepth`, `MaxCmds`, `MaxLag`
and `MaxQueries` bound what the code leaves unbounded; each is declared as a bound in its module and used in
guards only.

Deadlock is checked in every run but `EventLoop` and `Exchange`, where users may stop typing and every
program then waits, as it should; their liveness properties say what must not get stuck.

Symmetry is used for interchangeable worker threads (`StoreFaults`) and sessions (`Tree`), in runs
without liveness properties. `Tree` also identifies states that differ only in a careless user's
prompt, which no guard and no property reads (`VIEW`).

**Preconditions on clients.** Two runs check what holds for well-behaved clients, because the code
promises it to no others. `StoreDistinct` lets requests overlap only on different names and contents;
`StoreRmRace` and `StoreTwoUploads` show what happens otherwise. In `Tree` a careful user creates nodes
directly in the current directory, logs in once per connection and removes a directory only while
nobody is in it or has an upload ticket for it; the careless user does none of this. The definitions
`NamesChild`, `Fresh`, `Deserted` and `Stays` are these rules. Each is needed: without `NamesChild`, `Deserted`
or `Stays`, `TreeWhole` and `LsShowsDirectory` fail (a node is found by path and missing in `ls`), and
without `Fresh` all three properties of careful users do. So these properties say nothing about the
hazards the rules leave out, which are listed in `PROJECT.json` without a property and in section 7.

## 4. Fairness

- Threads that can run do: weak fairness of the steps of a running request (`Store`), of a worker
  (`WorkerPool`) and of the client's and servers' threads (`Download`). Every `recv` and `send` of a
  transfer has a 30 s socket timeout, so a handler ends whatever the client does; the client's next
  block (`PutsRecv`) is not fair.
- `EventLoop`: weak fairness of the main thread, of the timerfd, and of a client program that sends its
  role right after `connect` and the rest of a packet it has begun (`send_full`). Typing, leaving and
  running out of memory are not fair.
- `Exchange`: weak fairness of the prompt, of the server's replies, of the upload thread, of the worker
  and of the time wheel that closes an idle control connection (`EventLoop` shows that it does). The 30 s
  timeout of a transfer counts as one of the bounded faults unless the other end has gone, so that it
  cannot make up for two ends that wait for each other.
- Database handles: a thread that wants one or has one goes on; which sleeper a signal wakes is open.
- `epoll_wait` reports the exit pipe with every batch once it is readable, so the main thread sees it if
  it comes back there again and again: strong fairness of `ExitBegin`. A command is answered once its
  statements have ended (`CommandServed` is weakly fair), since a client reads the answer before it
  sends the next command and the answer fits into the socket. Nothing makes a client say its role
  or send the rest of a command, and the main thread reads both without a timeout: no fairness leads out
  of `init` and `recv`. `ExitCompletes` therefore assumes that the main thread is out of these two reads
  again and again. Without that its conclusion, `ExitAfterInterrupt`, fails: a client sends part of a
  command and no more.
- A user who does not have the file tries again, on each server in turn: strong fairness of the
  download's `Start`. `StoreDistinct`, `WorkerPool` and `Download` contain no fairness of
  failures: failures are bounded and need not happen.

## 5. Proofs

All theorems hold for every value of the constants that satisfies the assumption named in the module
(`StoreAssumption`, `WheelAssumption`, `ListAssumption`, `LoopAssumption`, `PoolAssumption`,
`DownloadAssumption`, `TreeAssumption`, `ExchangeAssumption`). What these ask for beyond types: sets of
threads, servers, names, connections and database handles are finite; there is a worker and a handle
(`init_thread_pool(&pool, 5)`); model values that stand for "nobody" are not clients or connections, and the
timer, the listening socket and the descriptors of connections are different; a plan's list of sources names
a server once (`file_sources` has a unique key); and a text packet is shorter than those a client waits for
in its place (264 bytes against 352, 1024 and 1240 in `protocol.h`), without which a refusal could be read
as part of an answer.

**Store** (`StoreProofs`, `StoreCatalogProofs`).

- `TypeCorrect`: `Spec => []TypeOK` for any number of servers, threads, contents, failures and kills. No
  count becomes negative, which rests on the `count > 0` in `dao_file_sub_ref_count`.
- `CountCorrect`: with one control thread (`OneControl`, one server), `Spec => []NeverUndercounted`,
  whatever fails or is killed. The count of a row covers its links, the link its inserter is about to make
  and the removals that have not been booked, up to additions under way. The inductive invariant is
  `CountInv == TypeOK /\ IdsIssued /\ RmHoldsPath /\ NeverUndercounted`: fresh ids are unknown to
  everybody, so a new row starts without links; and the path rm is about to delete still leads to the
  file it read, so its decrement is owed. Most statements are *quiet*: they change neither a link nor a
  count, and one lemma (`QuietStep`) covers them. With two control threads the theorem is false: both may
  remove one path and decrement twice.
- `CatalogKept` (`KeepsCatalog`, so `Store` implements `Catalog`), `CountIsExact`, `CommittedIsWhole`,
  `SourcesAreWhole`, `SourcesHaveRows`, `NoHolesLeft`, `DownloadsAreWhole`, `RecyclesUnlinked`: these need
  `Undisturbed`, that is no failure, no kill, and requests that overlap only if they are about different
  names and contents. The runs `StoreRmRace` and `StoreTwoUploads` show that they are false when requests
  on one content overlap. The inductive invariant is `ApartInv` (with `TypeOK`). It says what each request
  knows about its own row (`KnowsRow`) and its own store file (`KnowsFile`) at every statement, and what
  the tables keep between statements (`RowsStand`, `SourcesStand`, `NeverLonger`). The argument has three
  layers: what a request knows survives every step of another request, because the two are apart
  (`KnowsStay`); a step that changes only the request's own store file keeps the tables' part
  (`SteadyStep`); and each statement that changes a table has a lemma that says which row (`OwnStep`,
  `MyRowStep`). For the refinement, most steps leave the catalog alone or store or discard one copy of one
  content (`StoresOrDiscards`); a name appears with its content when the link is written
  (`LinkPublishes`) and disappears with `RmPath` (`RmPathWithdraws`). Counts are compared with sets of
  names through cardinalities of their differences.

**Time wheel** (first section of `EventLoopProofs`; `TimeWheelListProofs`).

- `WheelCorrect`, `TimeoutCorrect`: `WheelInv` is invariant, and the wheel implements `IdleTimeout`: it
  closes a connection exactly at its deadline for any number of slots and any timeout. `WheelInv` says
  that a list holds the connections whose deadline falls into its slot and that deadlines lie at most
  `Timeout` ahead; without it a tick could meet a connection that is overdue or miss one that is due.
- `ListsWellLinked`, `ListsImplementSets`: the pointers form whole lists at every step, also while a list
  is walked and loses nodes, and they do what `TimeWheel` says of sets. The inductive invariant is
  `ListInv`: each list has an *order*, a sequence of its nodes that `next` and `prev` follow in both
  directions (`Woven`); `detach_node` takes one entry out of the sequence and leaves every other list
  alone (`DetachFrom`, `DetachBeside`), the end of `time_wheel_add` puts one in front (`PushOn`,
  `PushBeside`). `OnItsWay` is the walk: `node` stands somewhere in its list, and what lies behind it is
  not due any more (`Passed`). It needs that `time_wheel_tick` reads the successor before the callback
  frees the node. For the refinement, what the walk has still to close counts as closed (`Expired`): the
  step `Tick` is `TimeWheel`'s tick and every `Visit` a stutter. What a list leads to is what was put on
  it, because the smallest set closed under `next` is the set of nodes in the order (`OnListNodes`).

**Event loop** (`EventLoopProofs`).

- `LoopWheelCorrect`, `LoopClosesOnTime`: the same for the wheel as the main thread drives it, with
  batches, reused descriptors and several ticks at once. Every step of the loop is a step of the wheel,
  leaves the wheel alone, or is a failed `calloc` (`LoopStepsWheel`), so the proofs of the wheel carry
  over.
- `SessionsApart`: `OwnSession`: the session of a descriptor shows the login of the client at its other
  end, never that of the descriptor's previous owner.
- `NoOtherStall`: `StallsOnlyOnReuse`, for any batch length and any number of clients and descriptors. The
  inductive invariant is `LoopInv`: the ready list and the batch name a descriptor once (`Lists`); a
  client is in the backlog or at one descriptor (`Seats`); what it has sent behind its role are commands,
  and the role is read before the descriptor is registered (`Boxes`); and an event of the batch whose
  descriptor was registered before the batch still has something to read (`Announced`). The last part
  needs the others: a step that empties an inbox must not empty that of another descriptor in the batch.
- `NoCommandCutOff`: `PunctualClients`. A command that waits may only be overtaken by the timer once. To
  see this, `Punctual` follows its descriptor (`InTime`): the clock is at most one second past the last
  tick when the command is older than that; until the tick of its second has been made up for, its
  descriptor is in the batch or before the timer on the ready list; and once that tick is done, it comes
  before the timer. The list lemmas say that nothing breaks this order: filtering keeps it (`KeptOrder`),
  a descriptor that becomes ready goes behind the others (`LinkedEntries`), the batch is a first piece of
  the list and goes behind the rest (`BatchEntries`). A command is followed from one step to the next by
  `AskedStep`: epoll has just learned of it, or it was there before, unchanged.

**Transfer pool** (`WorkerPoolProofs`). `PoolCorrect` is `PoolInv`: every accepted connection is in one
place under the descriptor it has, no two threads hold one MYSQL handle. `WakeupKept` and
`ExitReachesTransfers` rest on it: not all workers sleep while the queue holds a connection or the main
thread joins them, and a worker that is joined has had its socket shut down. `ExitStands` is the part of
the invariant that relates the exit section to `busy_fds`.

**Download** (`DownloadProofs`). `DownloadCorrect` is `DownloadInv`; `MergeIsExact`, `TicketsSpent` and
`ProgressKept` rest on it. They need `~ChangeAnyTime`: no source is recorded while part files lie around. The
run `DownloadSources` shows that `MergeExact` is false without it. Under it, every plan cuts the file as
the part files were cut (`CutFor`), so that a part file is a prefix of its range also between two plans
(`FilesFit`), a running part appends the next block (`TasksFit`) and the merge has copied a prefix of the
content (`MergeFits`).

**Tree** (`TreeProofs`). `TreeCorrect` is `TreeInv`, whatever any user does: a path names one node, parents
are older directories, and no command takes the row of one node for another's. `CarefulUsersSafe` is
`CarefulInv`, and `TreeStaysWhole`, `PromptIsRight` and `LsIsRight` follow for careful users (section 3,
preconditions). The strengthening is about commands between two statements: a directory found deserted
(`RemovedAreDeserted`) and without children (`RemovedStayEmpty`) stays so until its row is gone, and a new
node's path is looked up under the directory its context keeps (`CreatorsAtHome`).

**Packets** (`ExchangeProofs`). `ExchangeCorrect` is `ExchangeInv`: which packets may be on their way, in
which order, in every pair of states of the two sides (`PromptStream` for the control connection,
`Conversation` for an upload). It also says what the file's length means: `length` is the number of
blocks that have arrived whenever no worker receives, so the offset the next upload is told is right, and
a row stands only for a whole file. `NothingMisread` and `UploadsTruthful` follow, and so does
`ResumeIsExact`: only a receiving worker changes the blocks of the store file, by appending the one that
is next, and a worker that ends its upload leaves a file exactly as long as what has arrived. In `Spec`
a `write` to the store file does not fail: that early return leaves the file at its final length, and
`ResumeIsExact` and `UploadsTruthful` would be false.

`TreeInv`, `PoolInv`, `DownloadInv`, `WheelInv` and `ExchangeInv` are invariants of the runs as well.
`CountInv`, `ApartInv` and `CarefulInv` are not listed in a configuration; TLC checks them when they are
added to `StoreFaults`, `StoreDistinct` and `Tree`, and likewise the parts of `LoopInv`, `TimerDue` and
`Punctual` when they are added to `EventLoop`.

Every safety property of a passing run, invariant or action property, and every refinement is stated by a
theorem. Only model-checked is liveness, which is out of this prover's reach: `RequestsEnd`,
`ZeroCountReclaimed`, `QueuedServed`, `ExitCompletes`, `DownloadEnds`, `CommandsEnd`, `SecondsTicked`,
`PromptReturns`, `UploadEnds`. Two definitions avoid recursive operators so that they can be reasoned
about: `Kept`, what stays of a ready list, is a recursive function, and `OnList`, what a list of the wheel
leads to, needs no recursion because the walk is a sequence of steps. What `Kept` returns is proved by
taking a least counterexample (`KeepsExists`, `KeptSoFar`), because the library's induction theorems
cannot be applied.

## 6. Findings

- `StoreRmRace`: rm reads the count and recycles in later statements; an instant upload in between
  leaves a logical file whose row and file are gone.
- `StoreTwoUploads`: an upload extends the file to its final length first and judges completeness by
  length; a second upload of the content registers it while the first still receives. A server killed
  in the middle of an upload leaves the same kind of file: with `MaxCrashes = 1` and `Overlap = "none"`
  the same property fails.
- `DownloadTickets`: range tickets are registered in the control server's process, but shown to the
  source server, which refuses them.
- `DownloadSources`: part files are kept when the source list, and with it the ranges, changes; the
  merged file is wrong and every later attempt repeats that.

## 7. Simplifications

- `Store`: the path row is identified by its logical file and `file_id` instead of its own id; the blocks
  written are the content the hash names. Files above 100 MB are received into a mapping of the store
  file, which only the kernel touches, inside `recv`: when another upload has cut the file, `recv` fails
  and ends the upload as a lost connection does, so both ways of receiving are one here.
- `WorkerPool`: one event at a time, batches are in `EventLoop`; a worker holds at most one store file;
  what a command says is left out, only that it may use the database. The runs have one database handle
  so that somebody waits; the proofs are for any number.
- `EventLoop`: what a command does is in `Tree` and `Store`; the role is one unit, a command two; a write
  to a control connection never blocks; the exit pipe is in `WorkerPool`; `fork` and signals are not
  modelled.
- `Exchange`: one upload at a time and one range ticket per `gets`; a client whose control connection was
  closed stays at its prompt, as the program does; a `write` to the store file that fails and a
  server that dies while it receives, both of which leave the file at its full length, are in `Store`
  only; a local file that cannot be read ends the upload thread (`ReadFails`); what
  two uploads of one content do to each other is in `Store`.
- `Download`: one download of one file at a time; the ticket table never fills; `Size >= ` number of
  sources in the runs. With `Size = 0` the model reproduces a failing merge: an empty part is finished
  without a part file.
- `Tree`: file entities are in `Store`, of which `Tree` keeps the order of statements on `paths` only;
  lengths, quoting and the special names `.` and `..` as new nodes are left out; `rm` and `rmdir` of
  `/` change nothing in the code and have no action.
- Not modelled: hashing, salts and the signing of tokens, configuration, logging, start-up. They are
  sequential and keep no state that another part depends on.

Seen while modelling, without a run of their own:

- `file_transfer.c:856`: when a block cannot be written, the upload ends without the `ftruncate` of line
  873 that cuts the file to what has arrived. The next upload of the content takes the length for
  progress and registers the row without a byte being sent: with `MaxFaults = 1`, `CommittedComplete`
  fails in `StoreDistinct`.
- `server.c:265` and `313`: a client that sends no role, or part of a command, keeps the main thread in a
  read without a timeout. SIGINT is not noticed, and the time wheel, which the same thread turns, cannot
  close the connection (`ExitAfterInterrupt`).
- `file_cmds.c:521`: `rmdir` looks for children and deletes in two statements; what another server or an
  upload inserts between them is left without a parent. `file_cmds.c:507` says that only empty directories
  are removed.
- `file_cmds.c:377`: `mkdir` and `touch` accept a path and store the current directory as the parent of
  what it names; `cd` and `rm` find the node where `ls` does not show it.
- `file_cmds.c:338`: a session stays in a directory that it, or another session, removes; what it creates
  from then on hangs below an id without a row.
- `session.c:568`: only a login on a connection without a user resets `current_path` and
  `current_dir_id`; a second user inherits those of the first.

- `server.c:530`: a batch of events is served to its end although one of them may close a descriptor and
  a later one give its number to a new connection. The old event then makes the main thread wait in
  `recv` for a command the new client has not sent; everything else waits with it. `StallsOnlyOnReuse`
  says that this is the only way, `CommandsEnd` and `SecondsTicked` except it.
- `session.c:568`: a failed login at the prompt logs the session out (`user_id` becomes -1), but the
  client still thinks it is logged in. `puts` and `gets` are then refused with a text of 264 bytes while
  the client waits for a longer packet: the prompt stands still until the time wheel closes the
  connection. `PromptReturns` holds for that reason alone, which its mutant shows.
- `client_puts.c:179`: `char file_hash[64]` has no room for the terminator `get_file_sha256` writes
  behind 64 characters; whether `strcmp` recognises an instant upload is left open in `OffsetArrives`.
  If it does not, the thread sends a file nobody reads and the user is told of an interruption or
  failure although the name is there; `UploadTruth` is about the other direction.

## 8. Plan

Done: `Store`, which implements `Catalog`; `IdleTimeout` / `TimeWheel` / `TimeWheelList`; `EventLoop`;
`WorkerPool` with the database handles; `Exchange`; `Download`; `Tree`. Each of them has proofs of its
inductive invariant and of the safety properties its runs check.

Left:

1. Models: several `gets` of one file at once, parts of length zero, the limit of the ticket table; two
   control threads that remove one path. Each is a hazard in `PROJECT.json`
   with its line, and most are expected to break a property of the run they would be added to.
2. Proofs: the loop drives `TimeWheel`, and `TimeWheelList` implements `TimeWheel` with the same
   operations; a theorem that composes the two, the loop over the linked lists, is not stated.
