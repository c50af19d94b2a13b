--------------------------------- MODULE Tree ---------------------------------
(***************************************************************************)
(* The virtual directory tree: the rows of the paths table, the sessions   *)
(* of the control connections (session.c, file_cmds.c, dao_vfs.c) and the  *)
(* transfer threads that insert an uploaded file into a directory.         *)
(*                                                                         *)
(* A row names its place twice, by its full path and by the id of its      *)
(* parent; a session names its directory twice, by current_path and by     *)
(* current_dir_id.  cd, gets and rm go by path, ls, mkdir and rmdir by id. *)
(* No statement keeps the two in step: each command is several SQL         *)
(* statements without a transaction.  A server's main thread runs one      *)
(* command at a time; another server's main thread and the transfer        *)
(* threads come in between.                                                *)
(***************************************************************************)
EXTENDS Naturals, Sequences, SequencesExt, FiniteSets

CONSTANTS
  Users,
  Sessions,    \* control connections
  Threads,     \* transfer worker threads
  Host,        \* the server of each session
  Names,       \* names of files and directories
  MaxDepth,    \* bound: components of a path
  MaxId,       \* bound: AUTO_INCREMENT values of the paths table
  MaxTickets,  \* bound: upload tickets that wait to be used
  MaxFaults,   \* bound: SQL statements that fail
  Careless,    \* users whose clients keep none of the rules below
  NoUser       \* the user of a session that has not logged in

ASSUME TreeAssumption ==
  /\ Sessions \cap Threads = {}
  /\ IsFiniteSet(Sessions) /\ IsFiniteSet(Threads)
  /\ NoUser \notin Users /\ Careless \subseteq Users
  /\ MaxDepth \in Nat /\ MaxId \in Nat /\ MaxTickets \in Nat /\ MaxFaults \in Nat

Procs == Sessions \cup Threads
Ids   == 1..MaxId
Root  == <<>>
Top   == 0           \* the id that stands for "/", which has no row
Paths == UNION {[1..n -> Names] : n \in 0..MaxDepth}

\* What users type: a name, or several joined by slashes, with or without a
\* slash in front.
Args == [absolute : BOOLEAN, names : Paths]

NoRow     == [user |-> NoUser, path |-> Root, parent |-> Top, type |-> "file"]
NoContext == [user |-> NoUser, path |-> Root, dir |-> Top]
NoJob     == [path |-> Root, id |-> Top, type |-> "file"]

VARIABLES
  live,     \* ids that have a row in the paths table
  row,      \* the rows
  nextId,   \* AUTO_INCREMENT of paths
  ctx,      \* ClientContext: user_id, current_path, current_dir_id
  pc,       \* next statement of each process, "idle" between commands
  job,      \* target_path, target_id and the type of the node of the command
  tickets,  \* upload tickets that clients have: user and full path
  prompt,   \* current_path of the client at the other end of each session
  faults

table == <<live, row, nextId>>
vars  == <<table, ctx, pc, job, tickets, prompt, faults>>

Init ==
  /\ live = {} /\ row = [i \in Ids |-> NoRow] /\ nextId = 1
  /\ ctx = [p \in Procs |-> NoContext]
  /\ pc = [p \in Procs |-> "idle"]
  /\ job = [p \in Procs |-> NoJob]
  /\ tickets = {}
  /\ prompt = [p \in Sessions |-> Root]
  /\ faults = 0

Works == faults' = faults
Fails == faults < MaxFaults /\ faults' = faults + 1

Goto(p, label, j) ==
  /\ pc' = [pc EXCEPT ![p] = label]
  /\ job' = [job EXCEPT ![p] = j]

\* The reply is sent; a session keeps its context, a transfer thread's is gone.
Done(p) ==
  /\ Goto(p, "idle", NoJob)
  /\ ctx' = IF p \in Threads THEN [ctx EXCEPT ![p] = NoContext] ELSE ctx

-----------------------------------------------------------------------------
(* Paths and statements.                                                   *)

\* build_abs_path.
AbsPath(p, arg) == IF arg.absolute THEN arg.names ELSE ctx[p].path \o arg.names

\* get_parent_path, and the first half of split_full_path.
ParentPath(path) == IF path = Root THEN Root ELSE Front(path)

RowsAt(user, path) == {i \in live : row[i].user = user /\ row[i].path = path}

\* dao_get_node_by_path: the root has no row; it is id 0, a directory.
NodesAt(user, path) ==
  IF path = Root THEN {[id |-> Top, type |-> "dir"]}
  ELSE {[id |-> i, type |-> row[i].type] : i \in RowsAt(user, path)}

\* The rows that ls shows, and that rmdir looks for.
Children(user, dir) == {i \in live : row[i].user = user /\ row[i].parent = dir}

\* -1 stands for "no such row" and for a statement that failed.
NoNode(p, path) == (NodesAt(ctx[p].user, path) = {} /\ Works) \/ (path # Root /\ Fails)

-----------------------------------------------------------------------------
(* The rules that keep a tree whole.  The code enforces none of them; a    *)
(* careless user's clients ignore them.                                    *)

\* Processes that have directory dir of the user as their current directory.
Inside(user, dir, p) ==
  /\ ctx[p].user = user
  /\ ctx[p].path = dir

\* A new node lies directly in the current directory.
NamesChild(p, path) == ctx[p].user \in Careless \/ ParentPath(path) = ctx[p].path

\* rmdir only when no session and no upload is in the directory or on its way.
Deserted(p, path) ==
  ctx[p].user \in Careless \/
    /\ \A q \in Procs : ~Inside(ctx[p].user, path, q)
    /\ \A t \in tickets : t.user = ctx[p].user => ParentPath(t.path) # path

\* Nobody enters a directory while it is being removed.
Stays(user, path) ==
  user \in Careless \/
    \A q \in Procs : ctx[q].user = user /\ pc[q] \in {"check", "delete"} => job[q].path # path

\* A connection that has served one user is not used by a careful one.
Fresh(p, user) == user \in Careless \/ ctx[p].user = NoUser

-----------------------------------------------------------------------------
(* Sessions.                                                               *)

\* The main thread of the session's server is free.
Ready(p) ==
  /\ p \in Sessions
  /\ \A q \in Sessions : Host[q] = Host[p] => pc[q] = "idle"

Commands(p) == Ready(p) /\ ctx[p].user \in Users

\* Processes that are creating a node.
Creators == {q \in Procs : pc[q] \in {"lookup", "insert"}}

\* Bound: a node is created only while an id is left for it and for every other
\* node that is being created.
IdsLeft == nextId + Cardinality(Creators) <= MaxId

\* login: only the first one on a connection resets the session's directory,
\* each one resets the client's.
Login(p, user) ==
  /\ Ready(p) /\ Fresh(p, user)
  /\ ctx' = [ctx EXCEPT ![p] = IF @.user = NoUser THEN [NoContext EXCEPT !.user = user]
                                                  ELSE [@ EXCEPT !.user = user]]
  /\ prompt' = [prompt EXCEPT ![p] = Root]
  /\ UNCHANGED <<table, pc, job, tickets, faults>>

\* A failed login logs the session out; a closed connection makes room for a
\* new one.  Either way the next login starts at the root on both sides.
Logout(p) ==
  /\ ctx' = [ctx EXCEPT ![p] = NoContext]
  /\ prompt' = [prompt EXCEPT ![p] = Root]
  /\ UNCHANGED <<table, pc, job, tickets, faults>>

\* Seeded fault: the client takes every argument for a relative one.
PromptAfterRelative(p, arg) == prompt[p] \o arg.names

\* What the client makes of its own path after a cd.
PromptAfter(p, arg) == IF arg.absolute THEN arg.names ELSE prompt[p] \o arg.names

\* Seeded fault: the path is updated without the id.
CdPathOnly(p, path, shown) ==
  /\ Stays(ctx[p].user, path)
  /\ Works
  /\ \E node \in NodesAt(ctx[p].user, path) :
       /\ node.type = "dir"
       /\ ctx' = [ctx EXCEPT ![p].path = path]
  /\ prompt' = [prompt EXCEPT ![p] = shown]
  /\ UNCHANGED <<table, pc, job, tickets>>

\* cd to a path: one SELECT, then the session's two fields, and the client's
\* path when the reply is good.  A refusal changes nothing.
Cd(p, path, shown) ==
  /\ Stays(ctx[p].user, path)
  /\ Works
  /\ \E node \in NodesAt(ctx[p].user, path) :
       /\ node.type = "dir"
       /\ ctx' = [ctx EXCEPT ![p].path = path, ![p].dir = node.id]
  /\ prompt' = [prompt EXCEPT ![p] = shown]
  /\ UNCHANGED <<table, pc, job, tickets>>

CdUp(p)        == Cd(p, ParentPath(ctx[p].path), ParentPath(prompt[p]))
CdInto(p, arg) == Cd(p, AbsPath(p, arg), PromptAfter(p, arg))

\* mkdir, and touch as far as the tree goes: SELECT the path, then insert.
Create(p, arg, type) ==
  LET path == AbsPath(p, arg) IN
  /\ IdsLeft
  /\ arg.names # Root /\ Len(path) <= MaxDepth
  /\ NamesChild(p, path)
  /\ NoNode(p, path)
  /\ Goto(p, "insert", [path |-> path, id |-> Top, type |-> type])
  /\ UNCHANGED <<table, ctx, tickets, prompt>>

\* UNIQUE (user_id, path).
Taken(p) == RowsAt(ctx[p].user, job[p].path) # {}

\* A new node lies below current_dir_id, whatever its path says.
PutRow(p, id) ==
  /\ live' = live \cup {id}
  /\ row' = [row EXCEPT ![id] = [user |-> ctx[p].user, path |-> job[p].path,
                                 parent |-> ctx[p].dir, type |-> job[p].type]]

\* Seeded fault: the table has no UNIQUE key.
InsertNodeTwice(p) ==
  /\ pc[p] = "insert"
  /\ Works
  /\ PutRow(p, nextId)
  /\ nextId' = nextId + 1
  /\ Done(p)
  /\ UNCHANGED <<tickets, prompt>>

\* INSERT INTO paths.
InsertNode(p) ==
  /\ pc[p] = "insert"
  /\ \/ /\ ~Taken(p) /\ Works
        /\ PutRow(p, nextId)
        /\ nextId' = nextId + 1
     \/ /\ (Taken(p) /\ Works) \/ Fails
        /\ UNCHANGED table
  /\ Done(p)
  /\ UNCHANGED <<tickets, prompt>>

\* rm and rmdir: SELECT the path; the root is no row and is left alone.
Select(p, arg, type, label) ==
  LET path == AbsPath(p, arg) IN
  /\ path # Root
  /\ Works
  /\ \E node \in NodesAt(ctx[p].user, path) :
       /\ node.type = type
       /\ Goto(p, label, [path |-> path, id |-> node.id, type |-> type])
  /\ UNCHANGED <<table, ctx, tickets, prompt>>

Rm(p, arg)    == Select(p, arg, "file", "delete")
Rmdir(p, arg) == Select(p, arg, "dir", "check") /\ Deserted(p, AbsPath(p, arg))

\* Seeded fault: any directory is deleted.
CheckEmptyIgnored(p) ==
  /\ pc[p] = "check"
  /\ Works
  /\ Goto(p, "delete", job[p])
  /\ UNCHANGED <<table, ctx, tickets, prompt>>

\* dao_is_dir_empty.
CheckEmpty(p) ==
  /\ pc[p] = "check"
  /\ \/ /\ Children(ctx[p].user, job[p].id) = {}
        /\ Works
        /\ Goto(p, "delete", job[p])
        /\ UNCHANGED ctx
     \/ /\ (Children(ctx[p].user, job[p].id) # {} /\ Works) \/ Fails
        /\ Done(p)
  /\ UNCHANGED <<table, tickets, prompt>>

\* DELETE FROM paths WHERE id and user_id match.
DeleteNode(p) ==
  /\ pc[p] = "delete"
  /\ \/ /\ Works
        /\ live' = IF row[job[p].id].user = ctx[p].user THEN live \ {job[p].id} ELSE live
        /\ row' = [i \in Ids |-> IF i \in live' THEN row[i] ELSE NoRow]
     \/ Fails /\ UNCHANGED <<live, row>>
  /\ Done(p)
  /\ UNCHANGED <<nextId, tickets, prompt>>

-----------------------------------------------------------------------------
(* Uploads.                                                                *)

\* puts on the control connection: a ticket for a file in the current
\* directory, by its full path.
Prepare(p, n) ==
  LET path == Append(ctx[p].path, n) IN
  /\ Len(path) <= MaxDepth
  /\ Stays(ctx[p].user, ctx[p].path)
  /\ Cardinality(tickets) < MaxTickets
  /\ tickets' = tickets \cup {[user |-> ctx[p].user, path |-> path]}
  /\ UNCHANGED <<table, ctx, pc, job, prompt, faults>>

\* 30 seconds are over.
TicketExpires(t) ==
  /\ tickets' = tickets \ {t}
  /\ UNCHANGED <<table, ctx, pc, job, prompt, faults>>

\* A transfer thread takes the ticket and looks the parent directory up.
BeginUpload(p, t) ==
  LET dir == ParentPath(t.path) IN
  /\ pc[p] = "idle" /\ IdsLeft
  /\ tickets' = tickets \ {t}
  /\ \/ /\ Works
        /\ \E node \in NodesAt(t.user, dir) :
             /\ node.type = "dir"
             /\ ctx' = [ctx EXCEPT ![p] = [user |-> t.user, path |-> dir, dir |-> node.id]]
             /\ Goto(p, "lookup", [path |-> t.path, id |-> Top, type |-> "file"])
     \/ Fails /\ dir # Root /\ UNCHANGED <<ctx, pc, job>>
     \/ /\ \A node \in NodesAt(t.user, dir) : node.type # "dir"
        /\ Works
        /\ UNCHANGED <<ctx, pc, job>>
  /\ UNCHANGED <<table, prompt>>

\* handle_puts refuses a path that exists; the data is received before the
\* insert, which may be minutes later.
UploadLookup(p) ==
  /\ pc[p] = "lookup"
  /\ \/ /\ NoNode(p, job[p].path)
        /\ Goto(p, "insert", job[p])
        /\ UNCHANGED ctx
     \/ /\ NodesAt(ctx[p].user, job[p].path) # {}
        /\ Works
        /\ Done(p)
  /\ UNCHANGED <<table, tickets, prompt>>

\* The upload fails before the insert.
UploadFails(p) ==
  /\ p \in Threads /\ pc[p] = "insert"
  /\ Done(p)
  /\ UNCHANGED <<table, tickets, prompt, faults>>

-----------------------------------------------------------------------------
\* dispatch_control_command.
Command(p) ==
  /\ Commands(p)
  /\ \/ Logout(p)
     \/ CdUp(p)
     \/ \E arg \in Args : CdInto(p, arg) \/ Rm(p, arg) \/ Rmdir(p, arg)
     \/ \E arg \in Args, type \in {"file", "dir"} : Create(p, arg, type)
     \/ \E n \in Names : Prepare(p, n)

Next ==
  \/ \E p \in Sessions : Command(p) \/ \E u \in Users : Login(p, u)
  \/ \E p \in Procs : InsertNode(p) \/ CheckEmpty(p) \/ DeleteNode(p)
  \/ \E t \in tickets : TicketExpires(t)
  \/ \E p \in Threads : UploadLookup(p) \/ UploadFails(p) \/ \E t \in tickets : BeginUpload(p, t)

Spec == Init /\ [][Next]_vars

-----------------------------------------------------------------------------
\* The types of table, sessions and transfer threads.
TypeOK ==
  /\ live \subseteq 1..(nextId - 1) /\ nextId \in 1..(MaxId + 1)
  /\ row \in [Ids -> [user : Users \cup {NoUser}, path : Seq(Names),
                      parent : Ids \cup {Top}, type : {"file", "dir"}]]
  /\ ctx \in [Procs -> [user : Users \cup {NoUser}, path : Seq(Names),
                        dir : Ids \cup {Top}]]
  /\ pc \in [Procs -> {"idle", "lookup", "insert", "check", "delete"}]
  /\ job \in [Procs -> [path : Seq(Names), id : Ids \cup {Top}, type : {"file", "dir"}]]
  /\ tickets \subseteq [user : Users, path : Seq(Names)]
  /\ prompt \in [Sessions -> Seq(Names)]
  /\ faults \in Nat

Careful == Users \ Careless

\* The id of the directory that the user finds at a path.
DirAt(user, path, id) == [id |-> id, type |-> "dir"] \in NodesAt(user, path)

\* The tree of a careful user is whole, whatever other users do with the same
\* table and servers and whichever statements interleave or fail: the parent
\* of every node is the directory its path names.  The comment in handle_rmdir
\* names this structure as what the look for children protects.
TreeWhole ==
  \A i \in live :
    row[i].user \in Careful => DirAt(row[i].user, ParentPath(row[i].path), row[i].parent)

\* ls, which goes by the id of the current directory, shows exactly the nodes
\* that cd, gets and rm find there by path.
LsShowsDirectory ==
  \A p \in Sessions :
    ctx[p].user \in Careful =>
      Children(ctx[p].user, ctx[p].dir) =
        {i \in live : /\ row[i].user = ctx[p].user
                      /\ ParentPath(row[i].path) = ctx[p].path}

\* The client, which keeps a path of its own, is where the session is.
PromptShowsSession ==
  \A p \in Sessions : ctx[p].user \in Careful => prompt[p] = ctx[p].path

\* A logical path names one node, although each command looks first and
\* inserts later and two servers may do so at once.
OnePathOneNode ==
  \A i, j \in live : row[i].user = row[j].user /\ row[i].path = row[j].path => i = j

\* Whatever clients do, parent links lead to an older node that is or was a
\* directory: never to a file, never in a circle.
ParentIsOlderDir ==
  \A i \in live :
    /\ row[i].parent < i
    /\ row[i].parent \in live => row[row[i].parent].type = "dir"

\* The bound on ids leaves one for every node that is being created.
IdsSuffice == nextId + Cardinality(Creators) <= MaxId + 1

\* A directory that a context is in, if it still has a row, is a directory and
\* has not become another one: ids are never used again.
ContextsAreOld ==
  \A p \in Procs :
    /\ ctx[p].dir < nextId
    /\ ctx[p].dir \in live => row[ctx[p].dir].type = "dir"

\* What rm and rmdir have selected is, as long as it has a row, what they take it
\* for: nobody renames a row or gives it another owner.
JobsNameRows ==
  \A p \in Procs :
    pc[p] \in {"check", "delete"} =>
      /\ job[p].id \in 1..(nextId - 1) /\ job[p].path # Root
      /\ job[p].id \in live =>
           /\ row[job[p].id].user = ctx[p].user
           /\ row[job[p].id].path = job[p].path
           /\ row[job[p].id].type = job[p].type

\* Type invariant, with what holds of everybody's tree: whatever clients do and
\* however statements interleave, a path names one node and parent links lead
\* to older directories.
TreeInv ==
  /\ TypeOK /\ OnePathOneNode /\ ParentIsOlderDir
  /\ IdsSuffice /\ ContextsAreOld /\ JobsNameRows

\* A careful user's context names one directory by its path and by its id.
ContextsStand ==
  \A p \in Procs : ctx[p].user \in Careful => DirAt(ctx[p].user, ctx[p].path, ctx[p].dir)

\* A careful user's new node belongs into the directory of its context, however
\* long ago its path was looked up.
CreatorsAtHome ==
  \A p \in Creators : ctx[p].user \in Careful => ParentPath(job[p].path) = ctx[p].path

\* Processes that are removing a directory of a careful user.
Removers ==
  {p \in Procs : /\ pc[p] \in {"check", "delete"} /\ job[p].type = "dir"
                 /\ ctx[p].user \in Careful}

\* Nobody is in a directory that is being removed, and no upload is on its way.
RemovedAreDeserted ==
  \A p \in Removers :
    /\ \A q \in Procs : ~Inside(ctx[p].user, job[p].path, q)
    /\ \A t \in tickets : t.user = ctx[p].user => ParentPath(t.path) # job[p].path

\* A directory that was found empty is still empty when it is deleted.
RemovedStayEmpty ==
  \A p \in Removers : \A i \in live :
    pc[p] = "delete" /\ job[p].id \in live /\ row[i].user = ctx[p].user
      => ParentPath(row[i].path) # job[p].path

\* What keeps a careful user's tree whole between the statements of a command:
\* contexts and new nodes stay with their directory, and a directory that was
\* found deserted and empty stays so until its row is gone.
CarefulInv ==
  /\ TreeWhole /\ PromptShowsSession
  /\ ContextsStand /\ CreatorsAtHome /\ RemovedAreDeserted /\ RemovedStayEmpty
=============================================================================
