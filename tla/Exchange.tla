------------------------------- MODULE Exchange -------------------------------
(***************************************************************************)
(* One client program against the server, over byte streams: the prompt on  *)
(* its control connection (client.c, client_command_handle.c, session.c,    *)
(* auth.c), and the upload thread of puts on a transfer connection          *)
(* (client_puts.c, handle_puts).  A packet is its kind, its length in units  *)
(* and what its reader looks at; nothing on the wire says where a packet     *)
(* ends or of which kind it is (protocol.c).  Uploads that overlap are in    *)
(* Store, the batches of the server's main thread in EventLoop.              *)
(***************************************************************************)
EXTENDS Naturals, Sequences

CONSTANTS
  Size,      \* Size[k]: length of a packet of kind k
  FileSize,  \* blocks of the local file
  Names,     \* logical names the file is uploaded under
  MaxCmds,   \* bound: commands typed at the prompt
  MaxFaults  \* bound: failing statements, broken connections, timeouts

Kinds == {"text", "plan", "ticket", "login", "file", "auth"}

ASSUME ExchangeAssumption ==
  /\ Size \in [Kinds -> Nat \ {0}]
  /\ Size["text"] < Size["file"] /\ Size["text"] < Size["plan"]
  /\ Size["text"] < Size["ticket"]
  /\ FileSize \in Nat /\ MaxCmds \in Nat /\ MaxFaults \in Nat

VARIABLES
  \* the control connection
  logged,    \* logged_in of the client's state
  session,   \* the server's session of the connection is logged in
  asked,     \* what the prompt waits for: a command, or "none"
  named,     \* the name in the last puts
  request,   \* the command the server has not read, or "none"
  down,      \* units on their way to the prompt
  cut,       \* the server has closed the connection
  cmds,      \* ghost: commands typed
  \* the upload thread, its connection and the worker
  thread,    \* "none", "auth", "file", "offset", "send", "reply", "over"
  worker,    \* "none", "auth", "file", "missing", "recv", "over"
  up, back,  \* units on their way to the worker, and to the thread
  next,      \* block the thread sends next
  broken,    \* the transfer connection was lost
  told,      \* what the user has been told of the last puts
  \* the server's tables and store
  linked,    \* names in paths
  recorded,  \* the content has a row in files
  store,     \* blocks received into the store file
  length,    \* st_size of the store file, in blocks
  owed,      \* remaining - received_count of the worker
  faults     \* ghost: faults so far

ctrlVars == <<logged, session, asked, named, request, down, cut, cmds>>
linkVars == <<thread, worker, up, back, next, broken, told>>
dataVars == <<linked, recorded, store, length, owed>>
vars == <<ctrlVars, linkVars, dataVars, faults>>

\* The units of one packet of kind k with content v.
Packet(k, v) == [i \in 1..Size[k] |-> [kind |-> k, at |-> i, val |-> v]]

Blocks(n) == [i \in 1..n |-> i]

\* Earlier uploads of the content may have ended at any point; the row may be
\* there without the whole file, and the file without the row.
Init ==
  /\ logged = FALSE /\ session = FALSE /\ cut = FALSE /\ broken = FALSE
  /\ asked = "none" /\ request = "none" /\ named \in Names
  /\ down = <<>> /\ up = <<>> /\ back = <<>>
  /\ cmds = 0 /\ faults = 0 /\ next = 1 /\ owed = 0
  /\ thread = "none" /\ worker = "none" /\ told = "nothing"
  /\ linked = {}
  /\ recorded \in BOOLEAN
  /\ length \in 0..FileSize /\ store = Blocks(length)

Fault == faults < MaxFaults /\ faults' = faults + 1

-----------------------------------------------------------------------------
(* recv_full: a read ends when the packet's length has arrived, whatever that *)
(* is made of.                                                                *)

Arrived(stream, k) == Len(stream) >= Size[k]

After(stream, k) == SubSeq(stream, Size[k] + 1, Len(stream))

-----------------------------------------------------------------------------
(* The prompt *)

Commands == {"login", "register", "list", "gets", "puts"}

\* The kind of packet the prompt reads after each command.
Awaited ==
  [login |-> "login", register |-> "text", list |-> "text",
   gets |-> "plan", range |-> "ticket", puts |-> "ticket"]

\* The user types a command, before the first login only login or register;
\* list stands for the short commands.  One upload at a time.
TypeCommand(c) ==
  /\ asked = "none"
  /\ cmds < MaxCmds
  /\ cmds' = cmds + 1
  /\ logged \/ c \in {"login", "register"}
  /\ c = "puts" => {thread, worker} \subseteq {"none", "over"}
  /\ \E n \in Names :
       /\ c # "puts" => n = named
       /\ named' = n
  /\ asked' = c
  /\ request' = IF cut THEN "none" ELSE c
  /\ told' = IF c = "puts" THEN "nothing" ELSE told
  /\ UNCHANGED <<logged, session, down, cut, thread, worker, up, back, next, broken>>
  /\ UNCHANGED <<dataVars, faults>>

PromptHas(c) == asked = c /\ Arrived(down, Awaited[c])

PromptReads == down' = After(down, Awaited[asked])

\* The connection has ended before the packet was complete: the command fails.
PromptFails ==
  /\ asked # "none" /\ cut
  /\ ~Arrived(down, Awaited[asked])
  /\ asked' = "none" /\ down' = <<>>
  /\ UNCHANGED <<logged, session, named, request, cut, cmds, linkVars, dataVars, faults>>

Succeeded == down[1].val = "ok"

\* handle_login_command, handle_normal_command
FinishShort ==
  /\ \E c \in {"login", "register", "list"} : PromptHas(c)
  /\ logged' = (logged \/ (asked = "login" /\ Succeeded))
  /\ asked' = "none" /\ PromptReads
  /\ UNCHANGED <<session, named, request, cut, cmds, linkVars, dataVars, faults>>

\* handle_gets_command: with a plan, a range ticket is requested at once, unless
\* every part is there already.
FinishPlan ==
  /\ PromptHas("gets")
  /\ asked' \in IF Succeeded THEN {"range", "none"} ELSE {"none"}
  /\ request' = IF cut THEN "none" ELSE asked'
  /\ PromptReads
  /\ UNCHANGED <<logged, session, named, cut, cmds, linkVars, dataVars, faults>>

FinishRange ==
  /\ PromptHas("range")
  /\ asked' = "none" /\ PromptReads
  /\ UNCHANGED <<logged, session, named, request, cut, cmds, linkVars, dataVars, faults>>

\* handle_puts_command: the ticket is given to a thread with a new connection.
FinishPuts ==
  /\ PromptHas("puts")
  /\ asked' = "none" /\ PromptReads
  /\ IF Succeeded
     THEN /\ thread' = "auth" /\ worker' = "auth"
          /\ up' = <<>> /\ back' = <<>> /\ next' = 1
          /\ broken' = FALSE /\ UNCHANGED told
     ELSE UNCHANGED linkVars
  /\ UNCHANGED <<logged, session, named, request, cut, cmds, dataVars, faults>>

-----------------------------------------------------------------------------
(* The server's side of the control connection *)

\* The reply dispatch_control_command sends, and the session after it.
Reply(p, s) ==
  /\ down' = down \o p
  /\ session' = s
  /\ request' = "none"

\* Without a login everything but login and register is answered with a text.
Refuse ==
  /\ request \notin {"none", "login", "register"} /\ ~session
  /\ Reply(Packet("text", "error"), FALSE)
  /\ UNCHANGED <<logged, asked, named, cut, cmds, linkVars, dataVars, faults>>

\* A failed login logs the session out.
ServeLogin ==
  /\ request = "login"
  /\ \E v \in {"ok", "error"} : Reply(Packet("login", v), v = "ok")
  /\ UNCHANGED <<logged, asked, named, cut, cmds, linkVars, dataVars, faults>>

ServeRegister ==
  /\ request = "register"
  /\ \E v \in {"ok", "error"} : Reply(Packet("text", v), session)
  /\ UNCHANGED <<logged, asked, named, cut, cmds, linkVars, dataVars, faults>>

ServeCommand ==
  /\ request \in DOMAIN Awaited \ {"login", "register"} /\ session
  /\ \E v \in {"ok", "error"} : Reply(Packet(Awaited[request], v), session)
  /\ UNCHANGED <<logged, asked, named, cut, cmds, linkVars, dataVars, faults>>

\* Seeded fault: connections without a login are not watched.
IdleCloseLoggedIn ==
  /\ ~cut /\ session
  /\ cut' = TRUE /\ request' = "none"
  /\ UNCHANGED <<logged, session, asked, named, down, cmds, linkVars, dataVars, faults>>

\* The time wheel closes the connection, maybe with a command unread.
IdleClose ==
  /\ ~cut
  /\ cut' = TRUE /\ request' = "none"
  /\ UNCHANGED <<logged, session, asked, named, down, cmds, linkVars, dataVars, faults>>

-----------------------------------------------------------------------------
(* The upload thread *)

Gone == broken \/ worker = "over"

ThreadEnds(t) == thread' = "over" /\ told' = t /\ UNCHANGED <<next, broken>>

\* A send on a connection that has ended fails, or its data is lost unnoticed.
Send(units) == up' = IF Gone THEN up ELSE up \o units

\* role, transfer_auth_packet and file_packet
ThreadOpens ==
  /\ thread \in {"auth", "file"}
  /\ \/ /\ Send(IF thread = "auth" THEN Packet("auth", "ok") ELSE Packet("file", "info"))
        /\ thread' = IF thread = "auth" THEN "file" ELSE "offset"
        /\ UNCHANGED <<told, next, broken>>
     \/ /\ Gone
        /\ ThreadEnds("failed") /\ UNCHANGED up
  /\ UNCHANGED <<ctrlVars, worker, back, dataVars, faults>>

ThreadAwaits == IF thread = "offset" THEN "file" ELSE "text"

ThreadHas(k) == thread \in {"offset", "reply"} /\ ThreadAwaits = k /\ Arrived(back, k)

ThreadLoses ==
  /\ thread \in {"offset", "reply"}
  /\ Gone /\ ~Arrived(back, ThreadAwaits)
  /\ ThreadEnds("failed")
  /\ UNCHANGED <<ctrlVars, worker, up, back, dataVars, faults>>

Take(k) == back' = After(back, k)

\* The reply to the file packet: the same hash ends the upload, anything else is
\* the offset to go on from.  The local hash has no room for its terminator
\* (char file_hash[64]), so strcmp may find a difference where there is none.
OffsetArrives ==
  /\ ThreadHas("file") /\ Take("file")
  /\ \/ /\ back[1].val.same
        /\ ThreadEnds("instant")
     \/ /\ next' = back[1].val.offset + 1
        /\ thread' = IF next' <= FileSize THEN "send" ELSE "reply"
        /\ UNCHANGED <<told, broken>>
  /\ UNCHANGED <<ctrlVars, worker, up, dataVars, faults>>

SendBlock ==
  /\ thread = "send"
  /\ \/ /\ Send(<<[kind |-> "data", at |-> next, val |-> next]>>)
        /\ next' = next + 1
        /\ thread' = IF next = FileSize THEN "reply" ELSE "send"
        /\ UNCHANGED <<told, broken>>
     \/ /\ Gone
        /\ ThreadEnds("interrupted") /\ UNCHANGED up
  /\ UNCHANGED <<ctrlVars, worker, back, dataVars, faults>>

\* The last text of the upload is shown to the user.
ReplyArrives ==
  /\ ThreadHas("text") /\ Take("text")
  /\ ThreadEnds(IF back[1].val = "ok" THEN "done" ELSE "refused")
  /\ UNCHANGED <<ctrlVars, worker, up, dataVars, faults>>

\* The local file cannot be opened, hashed or read: the thread closes its
\* connection.
ReadFails ==
  /\ thread \in {"file", "send"}
  /\ Fault
  /\ ThreadEnds("failed")
  /\ UNCHANGED <<ctrlVars, worker, up, back, dataVars>>

\* The network fails, or the client's host: what is on its way is lost.  The
\* death of the server is in Store.
Break ==
  /\ thread \notin {"none", "over"} /\ ~broken
  /\ Fault
  /\ broken' = TRUE
  /\ up' = <<>> /\ back' = <<>>
  /\ UNCHANGED <<ctrlVars, thread, worker, next, told, dataVars>>

\* The worker has closed with data unread: the reset may overtake its last words.
Reset ==
  /\ worker = "over" /\ up # <<>>
  /\ thread \in {"file", "offset", "send", "reply"}
  /\ up' = <<>> /\ back' = <<>>
  /\ UNCHANGED <<ctrlVars, thread, worker, next, broken, told, dataVars, faults>>

-----------------------------------------------------------------------------
(* The worker: handle_transfer_request and handle_puts *)

WorkerEnds(units) ==
  /\ worker' = "over"
  /\ back' = IF broken THEN back ELSE back \o units

WorkerAwaits == IF worker = "missing" THEN "file" ELSE worker

\* Nothing has come for 30 seconds, or the client has gone: recv fails.
Starved ==
  /\ worker \notin {"none", "over"}
  /\ IF worker = "recv" THEN up = <<>> /\ owed > 0 ELSE ~Arrived(up, WorkerAwaits)
  /\ IF broken \/ thread = "over" THEN UNCHANGED faults ELSE Fault
  /\ WorkerEnds(IF worker \in {"auth", "missing"} THEN <<>> ELSE Packet("text", "error"))
  /\ UNCHANGED <<ctrlVars, thread, up, next, broken, told, linked, recorded, store, owed>>

\* Seeded fault: the file keeps the length it was given for the whole content.
WorkerStarvesUntruncated == Starved /\ UNCHANGED length

\* The file is cut back to what was there before and what has arrived since.
WorkerStarves ==
  /\ Starved
  /\ length' = IF worker = "recv" THEN Len(store) ELSE length

WorkerHas(k) == worker \notin {"none", "recv", "over"} /\ WorkerAwaits = k /\ Arrived(up, k)

\* The ticket is consumed, or refused; the directory of the path may be gone.
CheckTicket ==
  /\ WorkerHas("auth")
  /\ up' = After(up, "auth")
  /\ \/ worker' = "file" /\ UNCHANGED <<back, faults>>
     \/ Fault /\ worker' = "missing" /\ UNCHANGED back
     \/ Fault /\ WorkerEnds(<<>>)
  /\ UNCHANGED <<ctrlVars, thread, next, broken, told, dataVars>>

\* finish_upload_db_work: the row if it is missing, then the name.
Commit ==
  /\ recorded' = TRUE
  /\ linked' = linked \cup {named}
  /\ UNCHANGED <<store, length, owed, faults>>

\* A statement of it fails, maybe after the row was written, or the name.
CommitFails ==
  /\ Fault
  /\ recorded' \in {recorded, TRUE}
  /\ linked' \in {linked} \cup (IF recorded' THEN {linked \cup {named}} ELSE {})
  /\ UNCHANGED <<store, length, owed>>

FileReply(same, offset) ==
  Packet("file", [same |-> same, offset |-> offset])

\* Seeded fault: the text is sent before the file packet.
RefuseTextFirst ==
  /\ WorkerHas("file")
  /\ worker = "missing" \/ named \in linked
  /\ up' = After(up, "file")
  /\ WorkerEnds(Packet("text", "error") \o FileReply(FALSE, FileSize))
  /\ UNCHANGED <<ctrlVars, thread, next, broken, told, dataVars, faults>>

\* The name exists, or its directory does not: a file packet that asks for
\* nothing, then the text.
RefuseName ==
  /\ WorkerHas("file")
  /\ worker = "missing" \/ named \in linked
  /\ up' = After(up, "file")
  /\ WorkerEnds(FileReply(FALSE, FileSize) \o Packet("text", "error"))
  /\ UNCHANGED <<ctrlVars, thread, next, broken, told, dataVars, faults>>

TakesFile == worker = "file" /\ Arrived(up, "file") /\ named \notin linked

\* A step before the reply fails: only a text.
FailFile ==
  /\ TakesFile
  /\ Fault
  /\ up' = After(up, "file")
  /\ WorkerEnds(Packet("text", "error"))
  /\ UNCHANGED <<ctrlVars, thread, next, broken, told, dataVars>>

\* The content is there and has its row: the name is linked to it.
InstantUpload ==
  /\ TakesFile
  /\ recorded /\ length = FileSize
  /\ up' = After(up, "file")
  /\ \/ Commit /\ WorkerEnds(FileReply(TRUE, 0))
     \/ CommitFails /\ WorkerEnds(Packet("text", "error"))
  /\ UNCHANGED <<ctrlVars, thread, next, broken, told>>

\* The content is there without its row: nothing is received.
RegisterContent ==
  /\ TakesFile
  /\ ~recorded /\ length = FileSize
  /\ up' = After(up, "file")
  /\ \/ Commit /\ WorkerEnds(FileReply(FALSE, FileSize) \o Packet("text", "ok"))
     \/ CommitFails /\ WorkerEnds(FileReply(FALSE, FileSize) \o Packet("text", "error"))
  /\ UNCHANGED <<ctrlVars, thread, next, broken, told>>

\* ftruncate to the final length, before the first block has arrived.
MakesRoom(n) == owed' = n /\ length' = FileSize /\ worker' = "recv"

\* Seeded fault: the whole file is waited for, whatever is already there.
AskForAll ==
  /\ TakesFile
  /\ length < FileSize
  /\ up' = After(up, "file")
  /\ back' = IF broken THEN back ELSE back \o FileReply(FALSE, length)
  /\ MakesRoom(FileSize)
  /\ UNCHANGED <<ctrlVars, thread, next, broken, told, linked, recorded, store, faults>>

\* The file is too short: its length is the offset to go on from.  Making it as
\* long as the whole content may fail, after the reply.
AskForRest ==
  /\ TakesFile
  /\ length < FileSize
  /\ up' = After(up, "file")
  /\ \/ /\ back' = IF broken THEN back ELSE back \o FileReply(FALSE, length)
        /\ MakesRoom(FileSize - length)
        /\ UNCHANGED faults
     \/ /\ Fault
        /\ WorkerEnds(FileReply(FALSE, length) \o Packet("text", "error"))
        /\ UNCHANGED <<length, owed>>
  /\ UNCHANGED <<ctrlVars, thread, next, broken, told, linked, recorded, store>>

RecvBlock ==
  /\ worker = "recv" /\ up # <<>>
  /\ owed > 0
  /\ owed' = owed - 1
  /\ store' = Append(store, up[1].val)
  /\ up' = Tail(up)
  /\ UNCHANGED <<ctrlVars, thread, worker, back, next, broken, told, linked, recorded, length, faults>>

\* Seeded fault: the upload is announced although the database refused it.
FinishUnchecked ==
  /\ worker = "recv" /\ owed = 0
  /\ Commit \/ CommitFails
  /\ WorkerEnds(Packet("text", "ok"))
  /\ UNCHANGED <<ctrlVars, thread, up, next, broken, told>>

\* Everything has come: the database, then the last text.
FinishUpload ==
  /\ worker = "recv" /\ owed = 0
  /\ \/ Commit /\ WorkerEnds(Packet("text", "ok"))
     \/ CommitFails /\ WorkerEnds(Packet("text", "error"))
  /\ UNCHANGED <<ctrlVars, thread, up, next, broken, told>>

-----------------------------------------------------------------------------
PromptStep == PromptFails \/ FinishShort \/ FinishPlan \/ FinishRange \/ FinishPuts

ServerStep == Refuse \/ ServeLogin \/ ServeRegister \/ ServeCommand

ThreadStep == ThreadOpens \/ ThreadLoses \/ OffsetArrives \/ SendBlock \/ ReplyArrives

WorkerStep ==
  \/ WorkerStarves \/ CheckTicket
  \/ RefuseName \/ FailFile \/ InstantUpload \/ RegisterContent
  \/ AskForRest \/ RecvBlock \/ FinishUpload

Next ==
  \/ \E c \in Commands : TypeCommand(c)
  \/ PromptStep \/ ServerStep \/ IdleClose
  \/ ThreadStep \/ WorkerStep
  \/ ReadFails \/ Break \/ Reset

\* Both programs go on, and the time wheel closes idle connections
\* (EventLoop); the user need not type anything, and nothing need fail.
Fairness ==
  /\ WF_vars(PromptStep) /\ WF_vars(ServerStep) /\ WF_vars(IdleClose)
  /\ WF_vars(ThreadStep) /\ WF_vars(WorkerStep)

Spec == Init /\ [][Next]_vars /\ Fairness

-----------------------------------------------------------------------------
\* The stream starts with a whole packet of kind k.
StartsWith(stream, k) ==
  \A i \in 1..Size[k] : stream[i].kind = k /\ stream[i].at = i

\* Whatever is read as a packet of one kind is one whole packet of that kind,
\* although short texts are sent where longer packets are awaited.
NoMisread ==
  /\ \A c \in DOMAIN Awaited :
       PromptHas(c) => StartsWith(down, Awaited[c])
  /\ \A k \in {"file", "text"} : ThreadHas(k) => StartsWith(back, k)
  /\ \A k \in {"auth", "file"} : WorkerHas(k) => StartsWith(up, k)

\* The file of the last puts has its name and is there as a whole.
Uploaded == named \in linked /\ recorded /\ store = Blocks(FileSize)

\* A user who is told that an upload has succeeded has the name, and the name
\* the whole content.
UploadTruth == told \in {"instant", "done"} => Uploaded

\* Interrupted and repeated uploads only ever add the next missing block, and an
\* upload that ends, in whatever way, leaves a file as long as the blocks in it:
\* the next upload takes the length for what has arrived.
ResumeExact ==
  [][/\ store' # store => worker = "recv" /\ store' = Append(store, Len(store) + 1)
     /\ worker' # "recv" => length' = Len(store')]_vars

\* The prompt comes back after every command, if only because the server closes
\* the connection of a prompt that waits for a packet which was not sent.
PromptReturns == asked # "none" ~> asked = "none"

\* Every upload thread ends: the two sides never wait for each other.  The 30
\* second timeout is one of the MaxFaults faults, so that it cannot hide that.
UploadEnds == thread \notin {"none", "over"} ~> thread = "over"

-----------------------------------------------------------------------------
(* What is on its way in each state of a conversation.                       *)

Live(state) == state \notin {"none", "over"}

Verdicts == {"ok", "error"}

TypeOK ==
  /\ {logged, session, cut, broken, recorded} \subseteq BOOLEAN
  /\ {asked, request} \subseteq DOMAIN Awaited \cup {"none"}
  /\ named \in Names /\ linked \subseteq Names
  /\ thread \in {"none", "auth", "file", "offset", "send", "reply", "over"}
  /\ worker \in {"none", "auth", "file", "missing", "recv", "over"}
  /\ told \in {"nothing", "instant", "done", "failed", "interrupted", "refused"}
  /\ next \in 1..(FileSize + 1) /\ owed \in 0..FileSize
  /\ Len(store) \in 0..FileSize /\ length \in 0..FileSize
  /\ cmds \in 0..MaxCmds /\ faults \in 0..MaxFaults

\* A command is asked and answered once: the answer, when it is there, is all
\* there is, and it is the awaited packet or the text that refuses a session.
PromptStream ==
  /\ asked = "none" => request = "none" /\ down = <<>>
  /\ request # "none" => request = asked /\ down = <<>> /\ ~cut
  /\ \/ down = <<>>
     \/ asked # "none" /\ \E v \in Verdicts : down = Packet(Awaited[asked], v)
     \/ asked \notin {"none", "login", "register"} /\ down = Packet("text", "error")

\* The store file has the blocks in their order, and its full length from the
\* first one on while a worker receives, else that of its blocks; a worker that receives knows
\* how many are left; a thread that sends knows where it is.
BlocksInOrder ==
  /\ store = Blocks(Len(store))
  /\ length = IF worker = "recv" THEN FileSize ELSE Len(store)
  /\ worker = "recv" => owed = FileSize - Len(store)
  /\ thread = "send" => next <= FileSize
  /\ thread = "reply" => next = FileSize + 1

\* One upload at a time, and success is not announced before it has ended.
OneUpload ==
  /\ asked = "puts" => ~Live(thread) /\ ~Live(worker) /\ told = "nothing"
  /\ Live(thread) => told = "nothing"
  /\ Live(worker) => told \notin {"instant", "done"}

\* Before the worker has answered: what it has not read, and no answer yet.
Opening ==
  /\ back = <<>>
  /\ \/ worker = "auth" /\ thread = "auth" /\ up = <<>>
     \/ worker = "auth" /\ thread = "file" /\ up = Packet("auth", "ok")
     \/ worker = "auth" /\ thread = "offset" /\ up = Packet("auth", "ok") \o Packet("file", "info")
     \/ worker \in {"file", "missing"} /\ thread = "file" /\ up = <<>>
     \/ worker \in {"file", "missing"} /\ thread = "offset" /\ up = Packet("file", "info")

\* The data of blocks a + 1 to b.
Sent(a, b) == [i \in 1..(b - a) |-> [kind |-> "data", at |-> a + i, val |-> a + i]]

\* The worker receives: the offset is on its way, or the blocks from there on.
Receiving ==
  /\ worker = "recv"
  /\ \/ /\ thread = "offset" /\ up = <<>> /\ Len(store) < FileSize
        /\ back = FileReply(FALSE, Len(store))
     \/ /\ thread \in {"send", "reply"} /\ back = <<>>
        /\ Len(store) < next /\ up = Sent(Len(store), next - 1)

\* The worker has ended: what of its last words the thread has not read yet.
Closing ==
  /\ worker = "over"
  /\ \/ thread \in {"auth", "file", "offset", "send", "reply"} /\ back = <<>>
     \/ /\ thread \in {"auth", "file", "offset", "send", "reply"}
        /\ back = Packet("text", "error")
     \/ thread = "reply" /\ back = Packet("text", "ok") /\ Uploaded
     \/ thread = "offset" /\ back = FileReply(TRUE, 0) /\ Uploaded
     \/ thread = "offset" /\ \E n \in 0..FileSize :
                               back = FileReply(FALSE, n) \o Packet("text", "error")
     \/ /\ thread = "offset" /\ Uploaded
        /\ back = FileReply(FALSE, FileSize) \o Packet("text", "ok")

\* The thread could not read its file and has closed: what the worker has still
\* to read before it finds out.
Leaving ==
  /\ thread = "over" /\ back = <<>>
  /\ \/ worker = "auth" /\ up = Packet("auth", "ok")
     \/ worker \in {"file", "missing"} /\ up = <<>>
     \/ /\ worker = "recv" /\ next <= FileSize
        /\ Len(store) < next /\ up = Sent(Len(store), next - 1)

\* Upload thread and worker agree on what is on its way, until the connection
\* is lost.
Conversation ==
  \/ ~Live(thread) /\ ~Live(worker)
  \/ broken /\ up = <<>> /\ back = <<>>
  \/ ~broken /\ (Opening \/ Receiving \/ Closing \/ Leaving)

\* Type invariant, with what each side of a connection may rely on: which
\* packets, in which order, may be on their way in which state of the two sides.
ExchangeInv ==
  TypeOK /\ PromptStream /\ BlocksInOrder /\ OneUpload /\ Conversation
=============================================================================
