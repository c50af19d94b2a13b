-------------------------------- MODULE Store --------------------------------
(***************************************************************************)
(* The content-addressed file store: the transfer threads' upload and      *)
(* download handlers (file_transfer.c) and the control thread's touch and  *)
(* rm (file_cmds.c), over the shared MySQL tables paths, files and         *)
(* file_sources and each server's own directory of <sha256> files.         *)
(*                                                                         *)
(* Nothing in this code holds a lock or a transaction across two           *)
(* statements, so every SQL statement and every file-system call that      *)
(* another thread can observe is an action of its own.  Adjacent calls     *)
(* are one action only where no other thread can act in between: the two   *)
(* SELECTs of rm on a row that only this control thread deletes, and the   *)
(* INSERT of a files row with the SELECT that reads its id back.  open()   *)
(* and fstat() of an upload are also one action: see PutsOpen.             *)
(***************************************************************************)
EXTENDS Naturals, FiniteSets

CONSTANTS
  Servers,    \* server instances that share one database
  Threads,    \* transfer worker threads (puts and gets)
  Controls,   \* control threads, one per server (touch and rm)
  Host,       \* the server a thread belongs to
  Names,      \* logical files: the (user_id, path) keys of the paths table
  Hashes,     \* file contents, identified by their SHA-256
  Size,       \* length of each content, in blocks
  Empty,      \* the content of an empty file (EMPTY_FILE_SHA256)
  Requests,   \* the commands clients send: a subset of Commands
  Overlap,    \* which requests clients run at the same time, see Admit
  MaxFileId,  \* bound: AUTO_INCREMENT values of the files table
  MaxFaults,  \* bound: SQL statements and system calls that fail
  MaxCrashes  \* bound: kills of a server process

Commands == {"puts", "gets", "touch", "rm"}
Procs    == Threads \cup Controls
FileIds  == 1..MaxFileId
NoId     == 0
NoFile   == [len |-> 0, good |-> {}, there |-> FALSE]

ASSUME StoreAssumption ==
  /\ Threads \cap Controls = {}
  /\ IsFiniteSet(Threads) /\ IsFiniteSet(Controls)
  /\ IsFiniteSet(Names) /\ Names # {}
  /\ Host \in [Procs -> Servers]
  /\ Size \in [Hashes -> Nat]
  /\ Empty \in Hashes /\ Size[Empty] = 0 /\ "absent" \notin Hashes
  /\ Requests \subseteq Commands
  /\ Overlap \in {"none", "distinct", "any"}
  /\ MaxFileId \in Nat /\ MaxFaults \in Nat /\ MaxCrashes \in Nat

VARIABLES
  paths,    \* paths.file_id of each logical file, NoId when there is no row
  files,    \* ids that have a row in the files table
  sha,      \* files.sha256sum
  count,    \* files.count
  nextId,   \* AUTO_INCREMENT of files
  sources,  \* file_sources rows: pairs of a file id and a server
  disk,     \* disk[s][h]: the store file named h on server s
  pc,       \* the next statement of each thread, "idle" between requests
  name,     \* full_path of the request
  hash,     \* content the request is about
  fid,      \* the thread's local file_id
  fd,       \* store file: "none", "open", or "unlinked" under an open fd
  base,     \* local_size: blocks the file had when it was opened
  got,      \* received_count: blocks received by this request
  lost,     \* ghost: file ids one of whose count+1 updates never took place
  faults,   \* ghost: failures so far
  crashes   \* ghost: process kills so far

tables  == <<paths, files, sha, count, nextId, sources>>
locals  == <<name, hash, fid, fd, base, got>>
threads == <<pc, locals>>
vars    == <<tables, disk, threads, lost, faults, crashes>>

-----------------------------------------------------------------------------
(* Initial state, and the ways a request starts, fails and ends.           *)

NoName == CHOOSE n \in Names : TRUE
NoHash == Empty

Init ==
  /\ paths = [n \in Names |-> NoId]
  /\ files = {}
  /\ sha = [f \in FileIds |-> NoHash]
  /\ count = [f \in FileIds |-> 0]
  /\ nextId = 1
  /\ sources = {}
  /\ disk = [s \in Servers |-> [h \in Hashes |-> NoFile]]
  /\ pc = [p \in Procs |-> "idle"]
  /\ name = [p \in Procs |-> NoName]
  /\ hash = [p \in Procs |-> NoHash]
  /\ fid = [p \in Procs |-> NoId]
  /\ fd = [p \in Procs |-> "none"]
  /\ base = [p \in Procs |-> 0]
  /\ got = [p \in Procs |-> 0]
  /\ lost = {}
  /\ faults = 0
  /\ crashes = 0

Works == faults' = faults
Fails == faults < MaxFaults /\ faults' = faults + 1

\* The DAO functions return -1 for a refused or empty statement and for one
\* that failed: their callers cannot tell the two apart.
NoResult(cond) == (cond /\ Works) \/ Fails

Goto(p, label) ==
  /\ pc' = [pc EXCEPT ![p] = label]
  /\ UNCHANGED locals

\* Every return of a handler: worker.c closes the connection, the handler its
\* file descriptor; the locals go out of scope.
Done(p) ==
  /\ pc' = [pc EXCEPT ![p] = "idle"]
  /\ name' = [name EXCEPT ![p] = NoName]
  /\ hash' = [hash EXCEPT ![p] = NoHash]
  /\ fid' = [fid EXCEPT ![p] = NoId]
  /\ fd' = [fd EXCEPT ![p] = "none"]
  /\ base' = [base EXCEPT ![p] = 0]
  /\ got' = [got EXCEPT ![p] = 0]

\* The clients' discipline.  "any": every client does as it likes; "distinct":
\* two requests overlap only when they are about different contents and
\* different names; "none": one request at a time.
Admit(p, n, h) ==
  \A q \in Procs \ {p} :
    \/ pc[q] = "idle"
    \/ Overlap = "any"
    \/ Overlap = "distinct" /\ name[q] # n /\ hash[q] # h

\* Bound: a request that may insert a files row starts only while an id is
\* left for it and for every other request under way.
IdsLeft == nextId + Cardinality({q \in Procs : pc[q] # "idle"}) <= MaxFileId

Start(p, command, n, h, label) ==
  /\ command \in Requests
  /\ pc[p] = "idle"
  /\ Admit(p, n, h)
  /\ pc' = [pc EXCEPT ![p] = label]
  /\ name' = [name EXCEPT ![p] = n]
  /\ hash' = [hash EXCEPT ![p] = h]
  /\ UNCHANGED <<tables, disk, fid, fd, base, got, lost, faults, crashes>>

\* files.sha256sum is UNIQUE: the row of a content, if there is one.
RowsOf(h) == {f \in files : sha[f] = h}

-----------------------------------------------------------------------------
(* The statements that puts, touch and rm share.                           *)

\* INSERT INTO files ... count = 1, refused when the content has a row.  When
\* the SELECT that reads the id back fails, dao_file_insert reports failure
\* although the row is there.
InsertFile(p) ==
  /\ pc[p] = "insert"
  /\ \/ /\ RowsOf(hash[p]) = {}
        /\ nextId <= MaxFileId
        /\ files' = files \cup {nextId}
        /\ sha' = [sha EXCEPT ![nextId] = hash[p]]
        /\ count' = [count EXCEPT ![nextId] = 1]
        /\ nextId' = nextId + 1
        /\ \/ /\ Works
              /\ fid' = [fid EXCEPT ![p] = nextId]
              /\ pc' = [pc EXCEPT ![p] = "linkFresh"]
              /\ UNCHANGED <<name, hash, fd, base, got>>
           \/ Fails /\ Goto(p, "refind")
     \/ /\ NoResult(RowsOf(hash[p]) # {})
        /\ Goto(p, "refind")
        /\ UNCHANGED <<files, sha, count, nextId>>
  /\ UNCHANGED <<paths, sources, disk, lost, crashes>>

\* After a refused INSERT the handler looks the content up again.
Refind(p) ==
  /\ pc[p] = "refind"
  /\ \/ /\ Works
        /\ \E f \in RowsOf(hash[p]) :
             /\ fid' = [fid EXCEPT ![p] = f]
             /\ pc' = [pc EXCEPT ![p] = "link"]
             /\ UNCHANGED <<name, hash, fd, base, got>>
     \/ /\ NoResult(RowsOf(hash[p]) = {})
        /\ Done(p)
  /\ UNCHANGED <<tables, disk, lost, crashes>>

InsertPath(p) ==
  /\ paths[name[p]] = NoId
  /\ Works
  /\ paths' = [paths EXCEPT ![name[p]] = fid[p]]

\* INSERT INTO paths is refused by UNIQUE(user_id, path) or fails.
InsertPathRefused(p) ==
  /\ NoResult(paths[name[p]] # NoId)
  /\ UNCHANGED paths

\* Link a row this request has just inserted, whose count is already 1.
LinkFresh(p) ==
  /\ pc[p] = "linkFresh"
  /\ \/ /\ InsertPath(p)
        /\ IF p \in Threads THEN Goto(p, "source") ELSE Done(p)
     \/ /\ InsertPathRefused(p)
        /\ IF p \in Threads THEN Done(p) ELSE Goto(p, "undo")
  /\ UNCHANGED <<files, sha, count, nextId, sources, disk, lost, crashes>>

\* Link a row that exists: the path first, then count+1.
Link(p) ==
  /\ pc[p] = "link"
  /\ \/ InsertPath(p) /\ Goto(p, "addRef")
     \/ InsertPathRefused(p) /\ Done(p)
  /\ UNCHANGED <<files, sha, count, nextId, sources, disk, lost, crashes>>

\* Seeded fault: the upload reports success without raising the count.
AddRefForgotten(p) ==
  /\ pc[p] = "addRef"
  /\ Works
  /\ IF fd[p] = "none" THEN Done(p) ELSE Goto(p, "source")
  /\ UNCHANGED <<tables, disk, lost, crashes>>

\* UPDATE files SET count=count+1 WHERE id=..: succeeds on a missing row too.
AddRef(p) ==
  /\ pc[p] = "addRef"
  /\ \/ /\ Works
        /\ count' = IF fid[p] \in files
                    THEN [count EXCEPT ![fid[p]] = @ + 1] ELSE count
        /\ IF fd[p] = "none" THEN Done(p) ELSE Goto(p, "source")
        /\ UNCHANGED lost
     \/ /\ Fails
        /\ lost' = lost \cup {fid[p]}
        /\ Done(p)
        /\ UNCHANGED count
  /\ UNCHANGED <<paths, files, sha, nextId, sources, disk, crashes>>

-----------------------------------------------------------------------------
(* puts: handle_puts on a transfer thread.                                 *)

StartPuts(t) ==
  /\ IdsLeft
  /\ \E n \in Names, h \in Hashes : Start(t, "puts", n, h, "lookup")

\* A failed SELECT looks like a missing path.
PutsLookup(t) ==
  /\ pc[t] = "lookup"
  /\ \/ paths[name[t]] # NoId /\ Works /\ Done(t)
     \/ /\ NoResult(paths[name[t]] = NoId)
        /\ Goto(t, "find")
  /\ UNCHANGED <<tables, disk, lost, crashes>>

PutsFind(t) ==
  /\ pc[t] = "find"
  /\ \/ /\ Works
        /\ \E f \in RowsOf(hash[t]) :
             /\ fid' = [fid EXCEPT ![t] = f]
             /\ pc' = [pc EXCEPT ![t] = "stat"]
             /\ UNCHANGED <<name, hash, fd, base, got>>
     \/ /\ NoResult(RowsOf(hash[t]) = {})
        /\ Goto(t, "open")
  /\ UNCHANGED <<tables, disk, lost, crashes>>

StoreFile(p) == disk[Host[p]][hash[p]]

\* check_store_file_ready: stat() of the store file, and its size only.
StoreReady(p) == StoreFile(p).there /\ StoreFile(p).len = Size[hash[p]]

\* Ready: link the row without any data ("instant upload"); otherwise upload
\* and repair.
PutsStat(t) ==
  /\ pc[t] = "stat"
  /\ \/ Works /\ Goto(t, IF StoreReady(t) THEN "link" ELSE "open")
     \/ Fails /\ Done(t)
  /\ UNCHANGED <<tables, disk, lost, crashes>>

SetStoreFile(p, len, good) ==
  disk' = [disk EXCEPT ![Host[p]][hash[p]] =
             [len |-> len, good |-> good, there |-> TRUE]]

\* open(O_RDWR|O_CREAT), fstat, the handshake that tells the client where to
\* resume, and the branch on what is missing.  Taken together: an rm between
\* open and fstat is covered by an rm right after fstat.
PutsOpen(t) ==
  LET size  == Size[hash[t]]
      stale == StoreFile(t).len > size
      local == IF stale THEN 0 ELSE StoreFile(t).len
  IN
  /\ pc[t] = "open"
  /\ \/ /\ Works
        /\ SetStoreFile(t, local, IF stale THEN {} ELSE StoreFile(t).good)
        /\ \/ /\ pc' = [pc EXCEPT ![t] = IF local = size THEN "insert"
                                                         ELSE "extend"]
              /\ fd' = [fd EXCEPT ![t] = "open"]
              /\ base' = [base EXCEPT ![t] = local]
              /\ UNCHANGED <<name, hash, fid, got>>
           \/ Done(t)       \* the client is gone: send_file_packet fails
     \/ Fails /\ Done(t) /\ UNCHANGED disk
  /\ UNCHANGED <<tables, lost, crashes>>

\* ftruncate(file_len) before any data: the file has its final length now.
PutsExtend(t) ==
  /\ pc[t] = "extend"
  /\ \/ /\ Works
        /\ IF fd[t] = "open"
           THEN SetStoreFile(t, Size[hash[t]], StoreFile(t).good)
           ELSE UNCHANGED disk
        /\ Goto(t, "recv")
     \/ Fails /\ Done(t) /\ UNCHANGED disk
  /\ UNCHANGED <<tables, lost, crashes>>

Larger(a, b) == IF a > b THEN a ELSE b

\* One block arrives and is written at its offset.
PutsRecv(t) ==
  LET at == base[t] + got[t] + 1 IN
  /\ pc[t] = "recv"
  /\ \/ /\ Works
        /\ IF fd[t] = "open"
           THEN SetStoreFile(t, Larger(StoreFile(t).len, at),
                                StoreFile(t).good \cup {at})
           ELSE UNCHANGED disk
        /\ got' = [got EXCEPT ![t] = @ + 1]
        /\ pc' = [pc EXCEPT ![t] = IF at = Size[hash[t]] THEN "insert"
                                                         ELSE "recv"]
        /\ UNCHANGED <<name, hash, fid, fd, base>>
     \/ Fails /\ Done(t) /\ UNCHANGED disk     \* write() fails: no ftruncate
  /\ UNCHANGED <<tables, lost, crashes>>

\* Seeded fault: an interrupted upload is closed without the ftruncate.
PutsInterruptedKeepsLength(t) ==
  /\ pc[t] = "recv"
  /\ Done(t)
  /\ UNCHANGED <<tables, disk, lost, faults, crashes>>

\* Seeded fault: the receive loop tries again when recv() times out.
PutsInterruptedRetries(t) ==
  /\ pc[t] = "recv"
  /\ UNCHANGED vars

\* recv() returns 0 or -1: the client left, the 30 s socket timeout expired
\* or the server is shutting down.  What did arrive is kept for a resume.
PutsInterrupted(t) ==
  LET kept == base[t] + got[t] IN
  /\ pc[t] = "recv"
  /\ IF fd[t] = "open"
     THEN SetStoreFile(t, kept, StoreFile(t).good \cap 1..kept)
     ELSE UNCHANGED disk
  /\ Done(t)
  /\ UNCHANGED <<tables, lost, faults, crashes>>

\* dao_file_source_upsert: this server now offers the file.
PutsSource(t) ==
  /\ pc[t] = "source"
  /\ \/ Works /\ sources' = sources \cup {<<fid[t], Host[t]>>}
     \/ Fails /\ UNCHANGED sources
  /\ Done(t)
  /\ UNCHANGED <<paths, files, sha, count, nextId, disk, lost, crashes>>

-----------------------------------------------------------------------------
(* gets: handle_gets_common on a transfer thread, for the whole file.      *)

\* A range ticket for file f names a server f is registered for or, when it is
\* registered nowhere, the server that issues it.
Offered(f, s) ==
  f # NoId => <<f, s>> \in sources \/ \A r \in sources : r[1] # f

StartGets(t) == \E n \in Names :
  /\ Offered(paths[n], Host[t])
  /\ Start(t, "gets", n, IF paths[n] = NoId THEN NoHash ELSE sha[paths[n]], "getPath")

GetsPath(t) ==
  /\ pc[t] = "getPath"
  /\ \/ /\ Works
        /\ paths[name[t]] # NoId
        /\ fid' = [fid EXCEPT ![t] = paths[name[t]]]
        /\ pc' = [pc EXCEPT ![t] = "getInfo"]
        /\ UNCHANGED <<name, hash, fd, base, got>>
     \/ /\ NoResult(paths[name[t]] = NoId)
        /\ Done(t)
  /\ UNCHANGED <<tables, disk, lost, crashes>>

GetsInfo(t) ==
  /\ pc[t] = "getInfo"
  /\ \/ /\ Works
        /\ fid[t] \in files
        /\ hash' = [hash EXCEPT ![t] = sha[fid[t]]]
        /\ pc' = [pc EXCEPT ![t] = "getOpen"]
        /\ UNCHANGED <<name, fid, fd, base, got>>
     \/ /\ NoResult(fid[t] \notin files)
        /\ Done(t)
  /\ UNCHANGED <<tables, disk, lost, crashes>>

GetsOpen(t) ==
  /\ pc[t] = "getOpen"
  /\ \/ /\ Works
        /\ StoreFile(t).there
        /\ fd' = [fd EXCEPT ![t] = "open"]
        /\ base' = [base EXCEPT ![t] = StoreFile(t).len]   \* st_size
        /\ pc' = [pc EXCEPT ![t] = "getSend"]
        /\ UNCHANGED <<name, hash, fid, got>>
     \/ /\ NoResult(~StoreFile(t).there)
        /\ Done(t)
  /\ UNCHANGED <<tables, disk, lost, crashes>>

\* base blocks are sent from the file, or the client leaves.
GetsSend(t) ==
  /\ pc[t] = "getSend"
  /\ Done(t)
  /\ UNCHANGED <<tables, disk, lost, faults, crashes>>

-----------------------------------------------------------------------------
(* touch: handle_touch on the control thread.                              *)

StartTouch(c) ==
  /\ IdsLeft
  /\ \E n \in Names : Start(c, "touch", n, Empty, "touchLookup")

TouchLookup(c) ==
  /\ pc[c] = "touchLookup"
  /\ \/ paths[name[c]] # NoId /\ Works /\ Done(c)
     \/ /\ NoResult(paths[name[c]] = NoId)
        /\ Goto(c, "ensure")
  /\ UNCHANGED <<tables, disk, lost, crashes>>

TouchEnsure(c) ==
  /\ pc[c] = "ensure"
  /\ \/ /\ Works
        /\ SetStoreFile(c, StoreFile(c).len, StoreFile(c).good)
        /\ Goto(c, "touchFind")
     \/ Fails /\ Done(c) /\ UNCHANGED disk
  /\ UNCHANGED <<tables, lost, crashes>>

TouchFind(c) ==
  /\ pc[c] = "touchFind"
  /\ \/ /\ Works
        /\ \E f \in RowsOf(Empty) :
             /\ fid' = [fid EXCEPT ![c] = f]
             /\ pc' = [pc EXCEPT ![c] = "link"]
             /\ UNCHANGED <<name, hash, fd, base, got>>
     \/ /\ NoResult(RowsOf(Empty) = {})
        /\ Goto(c, "insert")
  /\ UNCHANGED <<tables, disk, lost, crashes>>

\* Delete the row this touch inserted when its path could not be created.
TouchUndo(c) ==
  /\ pc[c] = "undo"
  /\ \/ Works /\ files' = files \ {fid[c]}
     \/ Fails /\ UNCHANGED files
  /\ Done(c)
  /\ UNCHANGED <<paths, sha, count, nextId, sources, disk, lost, crashes>>

-----------------------------------------------------------------------------
(* rm: handle_rm and release_file_entity_if_unused on the control thread.  *)

StartRm(c) == \E n \in Names :
  Start(c, "rm", n, IF paths[n] = NoId THEN NoHash ELSE sha[paths[n]], "rmLookup")

RmLookup(c) ==
  /\ pc[c] = "rmLookup"
  /\ \/ /\ Works
        /\ paths[name[c]] # NoId
        /\ fid' = [fid EXCEPT ![c] = paths[name[c]]]
        /\ pc' = [pc EXCEPT ![c] = "rmPath"]
        /\ UNCHANGED <<name, hash, fd, base, got>>
     \/ /\ NoResult(paths[name[c]] = NoId)
        /\ Done(c)
  /\ UNCHANGED <<tables, disk, lost, crashes>>

\* DELETE FROM paths WHERE id=..: succeeds even when the row is gone.
RmPath(c) ==
  /\ pc[c] = "rmPath"
  /\ \/ /\ Works
        /\ paths' = IF paths[name[c]] = fid[c]
                    THEN [paths EXCEPT ![name[c]] = NoId] ELSE paths
        /\ Goto(c, "rmInfo")
     \/ Fails /\ Done(c) /\ UNCHANGED paths
  /\ UNCHANGED <<files, sha, count, nextId, sources, disk, lost, crashes>>

RmInfo(c) ==
  /\ pc[c] = "rmInfo"
  /\ \/ /\ Works
        /\ fid[c] \in files
        /\ hash' = [hash EXCEPT ![c] = sha[fid[c]]]
        /\ pc' = [pc EXCEPT ![c] = "subRef"]
        /\ UNCHANGED <<name, fid, fd, base, got>>
     \/ /\ NoResult(fid[c] \notin files)
        /\ Done(c)
  /\ UNCHANGED <<tables, disk, lost, crashes>>

\* Seeded fault: the UPDATE without its "AND count>0".
SubRefUnguarded(c) ==
  /\ pc[c] = "subRef"
  /\ Works
  /\ count' = IF fid[c] \in files THEN [count EXCEPT ![fid[c]] = @ - 1] ELSE count
  /\ Goto(c, "getRef")
  /\ UNCHANGED <<paths, files, sha, nextId, sources, disk, lost, crashes>>

\* UPDATE files SET count=count-1 WHERE id=.. AND count>0
SubRef(c) ==
  /\ pc[c] = "subRef"
  /\ \/ /\ Works
        /\ count' = IF fid[c] \in files /\ count[fid[c]] > 0
                    THEN [count EXCEPT ![fid[c]] = @ - 1] ELSE count
        /\ Goto(c, "getRef")
     \/ Fails /\ Done(c) /\ UNCHANGED count
  /\ UNCHANGED <<paths, files, sha, nextId, sources, disk, lost, crashes>>

\* Seeded fault: the entity is recycled one reference too early.
GetRefOffByOne(c) ==
  /\ pc[c] = "getRef"
  /\ Works
  /\ IF fid[c] \in files /\ count[fid[c]] <= 1 THEN Goto(c, "unlink") ELSE Done(c)
  /\ UNCHANGED <<tables, disk, lost, crashes>>

\* Seeded fault: "ref_count >= 0" keeps an entity nobody refers to.
GetRefNeverRecycles(c) ==
  /\ pc[c] = "getRef"
  /\ Works
  /\ Done(c)
  /\ UNCHANGED <<tables, disk, lost, crashes>>

GetRef(c) ==
  /\ pc[c] = "getRef"
  /\ \/ /\ Works
        /\ fid[c] \in files /\ count[fid[c]] = 0
        /\ Goto(c, "unlink")
     \/ /\ NoResult(~(fid[c] \in files /\ count[fid[c]] = 0))
        /\ Done(c)
  /\ UNCHANGED <<tables, disk, lost, crashes>>

\* unlink(): a thread that has the file open keeps a file nobody can reach.
\* A failure is only logged.
Unlink(c) ==
  /\ pc[c] = "unlink"
  /\ pc' = [pc EXCEPT ![c] = "rmSources"]
  /\ \/ /\ Works
        /\ disk' = [disk EXCEPT ![Host[c]][hash[c]] = NoFile]
        /\ fd' = [p \in Procs |->
                    IF fd[p] = "open" /\ Host[p] = Host[c] /\ hash[p] = hash[c]
                    THEN "unlinked" ELSE fd[p]]
     \/ Fails /\ UNCHANGED <<disk, fd>>
  /\ UNCHANGED <<tables, name, hash, fid, base, got, lost, crashes>>

\* Seeded fault: rm forgets the file_sources rows.
RmSourcesForgotten(c) ==
  /\ pc[c] = "rmSources"
  /\ Works
  /\ Goto(c, "rmRow")
  /\ UNCHANGED <<tables, disk, lost, crashes>>

\* The result of this DELETE is not looked at.
RmSources(c) ==
  /\ pc[c] = "rmSources"
  /\ \/ Works /\ sources' = {r \in sources : r[1] # fid[c]}
     \/ Fails /\ UNCHANGED sources
  /\ Goto(c, "rmRow")
  /\ UNCHANGED <<paths, files, sha, count, nextId, disk, lost, crashes>>

RmRow(c) ==
  /\ pc[c] = "rmRow"
  /\ \/ Works /\ files' = files \ {fid[c]}
     \/ Fails /\ UNCHANGED files
  /\ Done(c)
  /\ UNCHANGED <<paths, sha, count, nextId, sources, disk, lost, crashes>>

-----------------------------------------------------------------------------
(* A server process is killed: its threads are gone, tables and files stay. *)
Crash(s) ==
  LET here == {p \in Procs : Host[p] = s} IN
  /\ crashes < MaxCrashes
  /\ crashes' = crashes + 1
  /\ lost' = lost \cup {fid[p] : p \in {q \in here : pc[q] = "addRef"}}
  /\ pc' = [p \in Procs |-> IF p \in here THEN "idle" ELSE pc[p]]
  /\ name' = [p \in Procs |-> IF p \in here THEN NoName ELSE name[p]]
  /\ hash' = [p \in Procs |-> IF p \in here THEN NoHash ELSE hash[p]]
  /\ fid' = [p \in Procs |-> IF p \in here THEN NoId ELSE fid[p]]
  /\ fd' = [p \in Procs |-> IF p \in here THEN "none" ELSE fd[p]]
  /\ base' = [p \in Procs |-> IF p \in here THEN 0 ELSE base[p]]
  /\ got' = [p \in Procs |-> IF p \in here THEN 0 ELSE got[p]]
  /\ UNCHANGED <<tables, disk, faults>>

-----------------------------------------------------------------------------
PutsStep(t) ==
  \/ PutsLookup(t) \/ PutsFind(t) \/ PutsStat(t) \/ PutsOpen(t)
  \/ PutsExtend(t) \/ PutsInterrupted(t) \/ PutsSource(t)
  \/ InsertFile(t) \/ Refind(t) \/ LinkFresh(t) \/ Link(t) \/ AddRef(t)

GetsStep(t) == GetsPath(t) \/ GetsInfo(t) \/ GetsOpen(t) \/ GetsSend(t)

TouchStep(c) ==
  \/ TouchLookup(c) \/ TouchEnsure(c) \/ TouchFind(c) \/ TouchUndo(c)
  \/ InsertFile(c) \/ Refind(c) \/ LinkFresh(c) \/ Link(c) \/ AddRef(c)

RmStep(c) ==
  \/ RmLookup(c) \/ RmPath(c) \/ RmInfo(c) \/ SubRef(c) \/ GetRef(c)
  \/ Unlink(c) \/ RmSources(c) \/ RmRow(c)

Next ==
  \/ \E t \in Threads : \/ StartPuts(t) \/ PutsStep(t) \/ PutsRecv(t)
                       \/ StartGets(t) \/ GetsStep(t)
  \/ \E c \in Controls : StartTouch(c) \/ StartRm(c) \/ TouchStep(c) \/ RmStep(c)
  \/ \E s \in Servers : Crash(s)

Spec == Init /\ [][Next]_vars

\* A thread that is running a request goes on running it: every call returns,
\* recv() and send() after 30 s at most.  Nothing makes a client send its next
\* block (PutsRecv): the thread can count on the timeout only.
Fairness ==
  /\ \A t \in Threads : WF_vars(PutsStep(t)) /\ WF_vars(GetsStep(t))
  /\ \A c \in Controls : WF_vars(TouchStep(c)) /\ WF_vars(RmStep(c))

FairSpec == Spec /\ Fairness

-----------------------------------------------------------------------------
(* Properties.                                                             *)

Labels == {"idle", "lookup", "find", "stat", "open", "extend", "recv", "source",
  "insert", "refind", "linkFresh", "link", "addRef", "undo",
  "getPath", "getInfo", "getOpen", "getSend",
  "touchLookup", "ensure", "touchFind",
  "rmLookup", "rmPath", "rmInfo", "subRef", "getRef", "unlink", "rmSources", "rmRow"}

TablesOK ==
  /\ paths \in [Names -> FileIds \cup {NoId}]
  /\ files \subseteq FileIds
  /\ sha \in [FileIds -> Hashes]
  /\ count \in [FileIds -> Nat]
  /\ nextId \in 1..(MaxFileId + 1)
  /\ sources \subseteq (FileIds \cup {NoId}) \X Servers

DiskOK ==
  disk \in [Servers -> [Hashes -> [len : Nat, good : SUBSET Nat, there : BOOLEAN]]]

LocalsOK ==
  /\ pc \in [Procs -> Labels]
  /\ name \in [Procs -> Names]
  /\ hash \in [Procs -> Hashes]
  /\ fid \in [Procs -> FileIds \cup {NoId}]
  /\ fd \in [Procs -> {"none", "open", "unlinked"}]
  /\ base \in [Procs -> Nat]
  /\ got \in [Procs -> Nat]

GhostsOK ==
  /\ lost \subseteq FileIds \cup {NoId}
  /\ faults \in Nat
  /\ crashes \in Nat

\* Type invariant: the tables, the store directories and every thread's locals
\* hold values of their C types.
TypeOK == TablesOK /\ DiskOK /\ LocalsOK /\ GhostsOK

LinksOf(f)  == {n \in Names : paths[n] = f}
At(label, f) == {p \in Procs : pc[p] = label /\ fid[p] = f}
Fresh(f)    == At("linkFresh", f)
Adding(f)   == At("addRef", f)
Removing(f) == At("rmInfo", f) \cup At("subRef", f)
Owed(f)     == Cardinality(LinksOf(f)) + Cardinality(Fresh(f))
                 + Cardinality(Removing(f))
Booked(f)   == count[f] + Cardinality(Adding(f))

\* The reference count of a stored content is never too low: it covers every
\* logical file that points to the row, the link its inserter is about to
\* make and the decrements under way, short only of increments under way.
\* This is what keeps rm from recycling a content that is still linked
\* (create_user_file_link, release_file_entity_if_unused), whatever fails or
\* is killed in between; the one exception is a row whose count+1 statement
\* itself was lost.
NeverUndercounted == \A f \in files \ lost : Owed(f) <= Booked(f)

\* What makes NeverUndercounted inductive: ids come from AUTO_INCREMENT, and the
\* path a control thread is about to delete is still the one it looked up.
IdsIssued ==
  /\ \A f \in files : f < nextId
  /\ \A n \in Names : paths[n] < nextId
  /\ \A p \in Procs : fid[p] < nextId

RmHoldsPath ==
  \A c \in Controls :
    pc[c] = "rmPath" => fid[c] # NoId /\ paths[name[c]] = fid[c]

\* The inductive invariant of the reference count: types, issued ids, the path
\* rm holds, and the count itself.
CountInv == TypeOK /\ IdsIssued /\ RmHoldsPath /\ NeverUndercounted

\* Without failures and without two clients on the same name or content, the
\* count is exact at every step: no link is counted twice, none is leaked.
CountExact == \A f \in files : Owed(f) = Booked(f)

Complete(s, h) ==
  /\ disk[s][h].there
  /\ disk[s][h].len = Size[h]
  /\ disk[s][h].good = 1..Size[h]

\* A files row that is counted stands for a complete, downloadable store file
\* on some server: handle_puts writes the database last (file_transfer.c:880).
CommittedComplete ==
  \A f \in files : count[f] > 0 => \E s \in Servers : Complete(s, sha[f])

\* A server listed in file_sources for a counted row has the whole file, so a
\* download plan built from the list can be served.
SourcesHold ==
  \A r \in sources :
    r[1] \in files /\ count[r[1]] > 0 => Complete(r[2], sha[r[1]])

\* rm leaves no source behind: dao_file_source.c:93 wants no server offered
\* for a file that is gone.
NoStaleSource ==
  \A r \in sources : r[1] \in files \/ \E p \in Procs : fid[p] = r[1]

\* Between uploads a store file holds exactly the blocks its length claims, so
\* the offset of the next handshake resumes at the first missing block.
NoHoles ==
  \A s \in Servers, h \in Hashes :
    \/ \E t \in Threads : /\ Host[t] = s /\ hash[t] = h
                          /\ fd[t] = "open" /\ pc[t] = "recv"
    \/ disk[s][h].good = 1..disk[s][h].len

\* Whatever a download has opened is the complete content of its path's row.
DownloadsComplete ==
  \A t \in Threads : pc[t] = "getSend" =>
    base[t] = Size[hash[t]] /\ (fd[t] = "open" => Complete(Host[t], hash[t]))

\* A files row is deleted only when no logical file points to it any more: the
\* claim of file_cmds.c:171, "only when count reaches zero ... can the entity
\* be recycled safely".
RecycledOnlyWhenUnlinked ==
  [][\A f \in files \ files' : LinksOf(f) = {}]_vars

\* The store as its users see it.
catalog == [n \in Names |-> CASE paths[n] = NoId -> "absent"
                              [] paths[n] \in files -> sha[paths[n]]
                              [] OTHER -> "dangling"]

stored == {h \in Hashes : \E s \in Servers : Complete(s, h)}

Promise == INSTANCE Catalog WITH Contents <- Hashes, Absent <- "absent"

\* Rows, counts, sources and two servers' directories together keep what
\* Catalog promises: a logical file appears only once its content is whole on
\* some server, never changes or dangles, and the last whole copy of a content
\* goes only when no logical file leads to it.
KeepsCatalog == Promise!Spec

\* A count that has dropped to zero is followed by the end of the row, unless
\* another upload links the content again first: rm leaks no entity.
ZeroCountReclaimed ==
  \A f \in FileIds :
    (f \in files /\ count[f] = 0) ~> (f \notin files \/ count[f] > 0)

\* Every request comes to an end: no upload loop runs without progress.
RequestsEnd == \A p \in Procs : pc[p] # "idle" ~> pc[p] = "idle"

-----------------------------------------------------------------------------
(* What holds between the statements of requests that overlap only when they  *)
(* are about different names and contents, as long as nothing fails.          *)

Undisturbed == Overlap # "any" /\ MaxFaults = 0 /\ MaxCrashes = 0

Apart ==
  \A p, q \in Procs :
    p # q /\ pc[p] # "idle" /\ pc[q] # "idle" => name[p] # name[q] /\ hash[p] # hash[q]

\* Statements between which the request relies on what it has read or written.
NameIsFree == {"find", "stat", "open", "extend", "recv", "insert", "refind", "linkFresh",
               "link", "ensure", "touchFind"}
HasRow     == {"stat", "linkFresh", "link", "addRef", "source", "getInfo",
               "rmPath", "rmInfo", "subRef", "getRef", "unlink", "rmSources", "rmRow"}
HasContent == {"touchFind", "insert", "refind", "linkFresh", "link", "addRef", "source",
               "getSend"}
OpensFile  == {"extend", "recv", "insert", "refind", "linkFresh", "link", "addRef",
               "source", "getSend"}
Reads      == {"getPath", "getInfo", "getOpen", "getSend"}
Removes    == {"rmLookup", "rmPath", "rmInfo", "subRef", "getRef", "unlink",
               "rmSources", "rmRow"}
Recycles   == {"unlink", "rmSources", "rmRow"}

\* The tables as the request knows them.
KnowsRow(p) ==
  /\ pc[p] \in NameIsFree => paths[name[p]] = NoId
  /\ pc[p] \in HasRow => fid[p] \in files /\ sha[fid[p]] = hash[p]
  /\ pc[p] \in {"getPath", "rmLookup"} /\ paths[name[p]] # NoId
       => sha[paths[name[p]]] = hash[p]
  /\ pc[p] = "rmPath" => paths[name[p]] = fid[p]
  /\ pc[p] = "refind" => RowsOf(hash[p]) # {}
  /\ pc[p] \in Recycles => count[fid[p]] = 0
  /\ pc[p] = "rmRow" => \A r \in sources : r[1] # fid[p]

\* The store file as the request knows it.
KnowsFile(p) ==
  /\ pc[p] \in HasContent => Complete(Host[p], hash[p])
  /\ pc[p] \in Reads /\ StoreFile(p).there => Complete(Host[p], hash[p])
  /\ pc[p] = "getSend" => base[p] = Size[hash[p]]
  /\ pc[p] \in {"extend", "recv"} =>
       StoreFile(p) = [len |-> IF pc[p] = "recv" THEN Size[hash[p]] ELSE base[p],
                       good |-> 1..(base[p] + got[p]), there |-> TRUE]
  /\ pc[p] \in {"extend", "recv"} => fd[p] = "open" /\ base[p] + got[p] < Size[hash[p]]
  /\ pc[p] \in {"idle", "lookup", "find", "stat", "open", "extend"} => got[p] = 0

\* What follows from the way requests are started.
KeepsRole(p) ==
  /\ fd[p] # "none" => pc[p] \in OpensFile
  /\ pc[p] # "undo"
  /\ p \in Controls => hash[p] = Empty \/ pc[p] \in Removes
  /\ pc[p] \in {"touchLookup", "ensure", "touchFind"} => hash[p] = Empty

\* A content has one row; a name leads to a row; a row is counted until the rm
\* that takes its last name ends it, and then has a whole copy; a content that
\* is not empty is registered by the upload that brings it.
RowsStand ==
  /\ \A f, g \in files : sha[f] = sha[g] => f = g
  /\ \A f \in files : f < nextId
  /\ \A n \in Names : paths[n] # NoId => paths[n] \in files
  /\ \A f \in files :
       count[f] > 0 \/ \E p \in Procs : pc[p] \in {"getRef"} \cup Recycles /\ fid[p] = f
  /\ \A f \in files :
       \/ sha[f] = Empty \/ \E r \in sources : r[1] = f
       \/ \E p \in Procs : pc[p] \in {"linkFresh", "source", "rmRow"} /\ fid[p] = f

SourcesStand == \A r \in sources : r[1] \in files

NeverLonger == \A s \in Servers, h \in Hashes : disk[s][h].len <= Size[h]

\* The inductive invariant of requests that keep apart.
ApartInv ==
  /\ Apart /\ CountExact /\ RowsStand /\ SourcesStand /\ NeverLonger
  /\ CommittedComplete /\ SourcesHold /\ NoHoles
  /\ \A p \in Procs : KnowsRow(p) /\ KnowsFile(p) /\ KeepsRole(p)
=============================================================================
