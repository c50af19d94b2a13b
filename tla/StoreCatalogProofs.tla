-------------------------- MODULE StoreCatalogProofs --------------------------
(* What Store promises when nothing fails and clients keep apart: the exact  *)
(* reference count, complete contents behind every counted row, source and   *)
(* download, and the abstract store of Catalog.  Proved for every number of  *)
(* servers, threads, names and contents, from the inductive invariant        *)
(* ApartInv.                                                                 *)
EXTENDS StoreProofs

\* No statement fails and no server is killed.
LEMMA NoFault ==
  ASSUME Undisturbed, TypeOK
  PROVE  ~Fails /\ \A s \in Servers : ~Crash(s)
  BY DEF Undisturbed, TypeOK, GhostsOK, Fails, Crash

-----------------------------------------------------------------------------
(* What the invariant says of one busy request.                            *)

Knows(p) == KnowsRow(p) /\ KnowsFile(p) /\ KeepsRole(p)

\* Two requests never hold the same row.
LEMMA MineAlone ==
  ASSUME TypeOK, ApartInv, NEW p \in Procs, NEW q \in Procs,
         pc[p] \in HasRow, pc[q] \in HasRow, fid[p] = fid[q]
  PROVE  p = q
  BY DEF ApartInv, Apart, KnowsRow, HasRow

\* The row a request holds is the only one of its content.
LEMMA OnlyMyRow ==
  ASSUME TypeOK, ApartInv, NEW q \in Procs, pc[q] \in HasRow
  PROVE  /\ fid[q] \in files /\ fid[q] \in FileIds /\ sha[fid[q]] = hash[q]
         /\ \A f \in files : sha[f] = hash[q] <=> f = fid[q]
  BY DEF ApartInv, RowsStand, KnowsRow, TypeOK, TablesOK

\* It is counted, until the rm that ends it has taken the last reference.
LEMMA MyRowIsUsed ==
  ASSUME TypeOK, ApartInv, NEW q \in Procs,
         pc[q] \in HasRow \ ({"getRef"} \cup Recycles)
  PROVE  count[fid[q]] > 0
<1>1. fid[q] \in files
  BY OnlyMyRow
<1>2. \A p \in Procs : pc[p] \in {"getRef"} \cup Recycles /\ fid[p] = fid[q] => FALSE
  BY MineAlone DEF HasRow, Recycles
<1>. QED
  BY <1>1, <1>2 DEF ApartInv, RowsStand

\* Nobody else is writing the store file a request is about.
LEMMA OwnCell ==
  ASSUME TypeOK, ApartInv, NEW q \in Procs, pc[q] \notin {"idle", "recv"}
  PROVE  /\ StoreFile(q).len \in Nat /\ StoreFile(q).len <= Size[hash[q]]
         /\ Size[hash[q]] \in Nat
         /\ StoreFile(q).good = 1..StoreFile(q).len
         /\ StoreFile(q).there \in BOOLEAN
<1>1. /\ Host[q] \in Servers /\ hash[q] \in Hashes /\ Size[hash[q]] \in Nat
      /\ StoreFile(q).len \in Nat /\ StoreFile(q).there \in BOOLEAN
  BY StoreAssumption, StoreFileType DEF TypeOK, LocalsOK
<1>2. \A t \in Threads : ~(Host[t] = Host[q] /\ hash[t] = hash[q] /\ pc[t] = "recv")
  BY DEF ApartInv, Apart, Procs
<1>. QED
  BY <1>1, <1>2 DEF ApartInv, NeverLonger, NoHoles, StoreFile

\* So a store file of the right size is the whole content.
LEMMA RightSizeIsWhole ==
  ASSUME TypeOK, ApartInv, NEW q \in Procs, pc[q] \notin {"idle", "recv"},
         StoreFile(q).there, StoreFile(q).len = Size[hash[q]]
  PROVE  Complete(Host[q], hash[q])
  BY OwnCell DEF Complete, StoreFile

-----------------------------------------------------------------------------
(* What a step of q leaves to the other requests.                          *)

OthersStay(q) ==
  \A p \in Procs \ {q} :
    /\ pc'[p] = pc[p] /\ name'[p] = name[p] /\ hash'[p] = hash[p]
    /\ fid'[p] = fid[p] /\ fd'[p] = fd[p] /\ base'[p] = base[p] /\ got'[p] = got[p]

SameRequest(q) ==
  pc'[q] = "idle" \/ (name'[q] = name[q] /\ hash'[q] = hash[q])

\* A request knows what it knew when the rows, the path and the store files it
\* is about are left alone.
LEMMA KnowsStay ==
  ASSUME TypeOK, ApartInv, NEW q \in Procs, OthersStay(q), NEW p \in Procs \ {q},
         paths'[name[p]] = paths[name[p]],
         \A f \in files : sha[f] = hash[p] =>
           f \in files' /\ sha'[f] = hash[p] /\ count'[f] = count[f],
         \A s \in Servers : disk'[s][hash[p]] = disk[s][hash[p]],
         \A r \in sources' : r \in sources \/ sha[r[1]] # hash[p]
  PROVE  Knows(p)'
<1>0. /\ pc'[p] = pc[p] /\ name'[p] = name[p] /\ hash'[p] = hash[p]
      /\ fid'[p] = fid[p] /\ fd'[p] = fd[p] /\ base'[p] = base[p] /\ got'[p] = got[p]
      /\ Host[p] \in Servers /\ name[p] \in Names
      /\ KnowsRow(p) /\ KnowsFile(p) /\ KeepsRole(p)
  BY StoreAssumption DEF OthersStay, ApartInv, TypeOK, LocalsOK
<1>1. KnowsRow(p)'
  <2>1. pc[p] \in NameIsFree => paths'[name[p]] = NoId
    BY <1>0 DEF KnowsRow
  <2>2. pc[p] \in HasRow => fid[p] \in files' /\ sha'[fid[p]] = hash[p]
    BY <1>0 DEF KnowsRow
  <2>3. pc[p] \in {"getPath", "rmLookup"} /\ paths'[name[p]] # NoId
          => sha'[paths'[name[p]]] = hash[p]
    BY <1>0 DEF KnowsRow, ApartInv, RowsStand
  <2>4. pc[p] = "rmPath" => paths'[name[p]] = fid[p]
    BY <1>0 DEF KnowsRow
  <2>5. pc[p] = "refind" => \E f \in files' : sha'[f] = hash[p]
    BY <1>0 DEF KnowsRow, RowsOf
  <2>6. pc[p] \in Recycles => count'[fid[p]] = 0
    BY <1>0 DEF KnowsRow, Recycles, HasRow
  <2>7. pc[p] = "rmRow" => \A r \in sources' : r[1] # fid[p]
    BY <1>0 DEF KnowsRow, HasRow
  <2>. QED
    BY <1>0, <2>1, <2>2, <2>3, <2>4, <2>5, <2>6, <2>7 DEF KnowsRow, RowsOf
<1>2. KnowsFile(p)'
  <2>1. disk'[Host[p]][hash'[p]] = disk[Host[p]][hash[p]]
    BY <1>0
  <2>. QED
    BY <1>0, <2>1 DEF KnowsFile, Complete, StoreFile
<1>3. KeepsRole(p)'
  BY <1>0 DEF KeepsRole
<1>. QED
  BY <1>1, <1>2, <1>3 DEF Knows

\* Requests stay apart when a busy one goes on, ends, or changes nothing else.
LEMMA ApartStays ==
  ASSUME ApartInv, NEW q \in Procs, pc[q] # "idle", OthersStay(q), SameRequest(q)
  PROVE  Apart'
  BY DEF ApartInv, Apart, OthersStay, SameRequest

\* The request stands for the same insertion, addition or removal, or for none.
CountsAs(q) ==
  LET counted == {"linkFresh", "addRef", "rmInfo", "subRef"} IN
  \/ pc[q] \notin counted /\ pc'[q] \notin counted
  \/ pc[q] = "rmInfo" /\ pc'[q] = "subRef" /\ fid'[q] = fid[q]

LEMMA CountsStay ==
  ASSUME NEW q \in Procs, OthersStay(q), CountsAs(q), UNCHANGED tables, CountExact
  PROVE  CountExact'
<1> SUFFICES ASSUME NEW f \in files PROVE Owed(f)' = Booked(f)'
  BY DEF tables, CountExact
<1>1. LinksOf(f)' = LinksOf(f)
  BY DEF LinksOf, tables
<1>2. Fresh(f)' = Fresh(f)
  BY DEF Fresh, At, OthersStay, CountsAs
<1>3. Adding(f)' = Adding(f)
  BY DEF Adding, At, OthersStay, CountsAs
<1>4. Removing(f)' = Removing(f)
  BY DEF Removing, At, OthersStay, CountsAs
<1>5. Owed(f) = Booked(f) /\ count' = count
  BY DEF CountExact, tables
<1>. QED
  BY <1>1, <1>2, <1>3, <1>4, <1>5 DEF Owed, Booked

-----------------------------------------------------------------------------
(* Steps that change no table: at most the store file of the request.       *)

\* The request keeps the rows it stands for alive, or finds them counted.
HoldsOn(q) ==
  /\ pc[q] \in {"getRef"} \cup Recycles =>
       \/ count[fid[q]] > 0
       \/ pc'[q] \in {"getRef"} \cup Recycles /\ fid'[q] = fid[q]
  /\ pc[q] \notin {"linkFresh", "source", "rmRow"}

\* Only the store file of the request may change, and stays in order.
KeepsDisk(q) ==
  /\ \A s \in Servers, h \in Hashes :
       s # Host[q] \/ h # hash[q] => disk'[s][h] = disk[s][h]
  /\ disk'[Host[q]][hash[q]].len <= Size[hash[q]]
  /\ \/ disk'[Host[q]][hash[q]].good = 1..disk'[Host[q]][hash[q]].len
     \/ q \in Threads /\ hash'[q] = hash[q] /\ fd'[q] = "open" /\ pc'[q] = "recv"
  /\ \A h \in {hash[q]} :
       Complete(Host[q], h) =>
         Complete(Host[q], h)' \/ \A f \in RowsOf(h) : count[f] = 0

LEMMA SteadyStep ==
  ASSUME TypeOK, TypeOK', ApartInv, NEW q \in Procs, pc[q] # "idle",
         OthersStay(q), SameRequest(q), UNCHANGED tables, KeepsDisk(q),
         CountsAs(q), HoldsOn(q), Knows(q)'
  PROVE  ApartInv'
<1>0. /\ Host[q] \in Servers /\ hash[q] \in Hashes
      /\ UNCHANGED <<paths, files, sha, count, nextId, sources>>
  BY StoreAssumption DEF TypeOK, LocalsOK, tables
<1>1. Apart'
  BY ApartStays
<1>2. CountExact'
  BY CountsStay DEF ApartInv
<1>3. RowsStand'
  <2>1. \A f \in files : count[f] > 0 \/ \E p \in Procs :
          pc'[p] \in {"getRef"} \cup Recycles /\ fid'[p] = f
    BY DEF ApartInv, RowsStand, OthersStay, HoldsOn
  <2>2. \A f \in files :
          \/ sha[f] = Empty \/ \E r \in sources : r[1] = f
          \/ \E p \in Procs : pc'[p] \in {"linkFresh", "source", "rmRow"} /\ fid'[p] = f
    BY DEF ApartInv, RowsStand, OthersStay, HoldsOn
  <2>. QED
    BY <1>0, <2>1, <2>2 DEF ApartInv, RowsStand
<1>4. SourcesStand'
  BY <1>0 DEF ApartInv, SourcesStand
<1>5. NeverLonger'
  BY <1>0 DEF ApartInv, NeverLonger, KeepsDisk
<1>6. ASSUME NEW s \in Servers, NEW h \in Hashes, Complete(s, h)
      PROVE  Complete(s, h)' \/ (h = hash[q] /\ \A f \in RowsOf(hash[q]) : count[f] = 0)
  <2>1. CASE s = Host[q] /\ h = hash[q]
    BY <1>0, <1>6, <2>1 DEF KeepsDisk
  <2>2. CASE s # Host[q] \/ h # hash[q]
    <3>1. disk'[s][h] = disk[s][h]
      BY <2>2 DEF KeepsDisk
    <3>. QED
      BY <1>6, <3>1 DEF Complete
  <2>. QED
    BY <2>1, <2>2
<1>7. CommittedComplete'
  <2>1. \A f \in files : sha[f] \in Hashes
    BY DEF TypeOK, TablesOK
  <2>. QED
    BY <1>0, <1>6, <2>1 DEF ApartInv, CommittedComplete, RowsOf
<1>8. SourcesHold'
  <2>1. \A r \in sources : r[1] \in files => sha[r[1]] \in Hashes /\ r[2] \in Servers
    BY DEF TypeOK, TablesOK
  <2>2. ASSUME NEW r \in sources, r[1] \in files, count[r[1]] > 0
        PROVE  Complete(r[2], sha[r[1]])'
    <3>1. Complete(r[2], sha[r[1]]) /\ count[r[1]] # 0
      BY <2>2 DEF ApartInv, SourcesHold, TypeOK, TablesOK
    <3>2. \/ Complete(r[2], sha[r[1]])'
          \/ sha[r[1]] = hash[q] /\ \A f \in RowsOf(hash[q]) : count[f] = 0
      BY <1>0, <1>6, <2>1, <2>2, <3>1
    <3>. QED
      BY <2>2, <3>1, <3>2 DEF RowsOf
  <2>. QED
    BY <1>0, <2>2 DEF SourcesHold
<1>9. NoHoles'
  <2> SUFFICES ASSUME NEW s \in Servers, NEW h \in Hashes
               PROVE  (\/ \E t \in Threads : /\ Host[t] = s /\ hash[t] = h
                                             /\ fd[t] = "open" /\ pc[t] = "recv"
                       \/ disk[s][h].good = 1..disk[s][h].len)'
    BY DEF NoHoles
  <2>1. CASE s = Host[q] /\ h = hash[q]
    BY <2>1 DEF KeepsDisk
  <2>2. CASE s # Host[q] \/ h # hash[q]
    <3>1. disk'[s][h] = disk[s][h]
      BY <2>2 DEF KeepsDisk
    <3>2. ASSUME NEW t \in Threads, Host[t] = s, hash[t] = h, fd[t] = "open", pc[t] = "recv"
          PROVE  hash'[t] = h /\ fd'[t] = "open" /\ pc'[t] = "recv"
      BY <2>2, <3>2 DEF OthersStay, Procs
    <3>. QED
      BY <3>1, <3>2 DEF ApartInv, NoHoles
  <2>. QED
    BY <2>1, <2>2
<1>10. ASSUME NEW p \in Procs PROVE Knows(p)'
  <2>1. CASE p = q
    BY <2>1
  <2>2. CASE p # q /\ pc[p] # "idle"
    <3>1. hash[p] # hash[q] /\ hash[p] \in Hashes /\ hash[p] = hash'[p]
      BY <2>2 DEF ApartInv, Apart, TypeOK, LocalsOK, OthersStay
    <3>. QED
      BY <1>0, <2>2, <3>1, KnowsStay DEF KeepsDisk
  <2>3. CASE p # q /\ pc[p] = "idle"
    <3>1. KnowsRow(p)'
      BY <2>3 DEF OthersStay, KnowsRow, NameIsFree, HasRow, Recycles
    <3>2. KnowsFile(p)'
      BY <2>3 DEF OthersStay, ApartInv, KnowsFile, HasContent, Reads
    <3>3. KeepsRole(p)'
      BY <2>3 DEF OthersStay, ApartInv, KeepsRole
    <3>. QED
      BY <3>1, <3>2, <3>3 DEF Knows
  <2>. QED
    BY <2>1, <2>2, <2>3
<1>. QED
  BY <1>1, <1>2, <1>3, <1>4, <1>5, <1>7, <1>8, <1>9, <1>10 DEF ApartInv, Knows

-----------------------------------------------------------------------------
(* How a request ends, and how it goes on without touching store or tables. *)

LEMMA EndsClean ==
  ASSUME TypeOK, NEW q \in Procs, Done(q)
  PROVE  OthersStay(q) /\ SameRequest(q) /\ pc'[q] = "idle" /\ Knows(q)'
<1>1. /\ OthersStay(q) /\ pc'[q] = "idle" /\ hash'[q] = Empty
      /\ fd'[q] = "none" /\ got'[q] = 0
  BY DEF Done, OthersStay, TypeOK, LocalsOK, NoHash
<1>2. KnowsRow(q)'
  BY <1>1 DEF KnowsRow, NameIsFree, HasRow, Recycles
<1>3. KnowsFile(q)'
  BY <1>1 DEF KnowsFile, HasContent, Reads
<1>4. KeepsRole(q)'
  BY <1>1 DEF KeepsRole
<1>. QED
  BY <1>1, <1>2, <1>3, <1>4 DEF SameRequest, Knows

LEMMA GoesOn ==
  ASSUME TypeOK, NEW q \in Procs, NEW label, Goto(q, label)
  PROVE  /\ OthersStay(q) /\ SameRequest(q) /\ pc'[q] = label
         /\ UNCHANGED <<name, hash, fid, fd, base, got>>
  BY DEF Goto, OthersStay, SameRequest, TypeOK, LocalsOK, locals

LEMMA StillDisk ==
  ASSUME TypeOK, ApartInv, NEW q \in Procs, pc[q] \notin {"idle", "recv"}, disk' = disk
  PROVE  KeepsDisk(q)
<1>1. \A h : Complete(Host[q], h) => Complete(Host[q], h)'
  BY DEF Complete
<1>. QED
  BY <1>1, OwnCell DEF KeepsDisk, StoreFile

\* Labels a request can leave without a word in the tables.
Passing == {"lookup", "find", "stat", "open", "extend", "refind", "insert", "getPath",
            "getInfo", "getOpen", "getSend", "touchLookup", "ensure", "touchFind",
            "rmLookup", "rmPath"}

LEMMA EndsStill ==
  ASSUME TypeOK, TypeOK', ApartInv, NEW q \in Procs, Done(q), UNCHANGED <<tables, disk>>,
         \/ pc[q] \in Passing \/ (pc[q] = "getRef" /\ count[fid[q]] > 0)
  PROVE  ApartInv'
<1>1. OthersStay(q) /\ SameRequest(q) /\ pc'[q] = "idle" /\ Knows(q)'
  BY EndsClean
<1>2. pc[q] \notin {"idle", "recv"} /\ CountsAs(q) /\ HoldsOn(q)
  BY <1>1 DEF Passing, CountsAs, HoldsOn, Recycles
<1>. QED
  BY <1>1, <1>2, StillDisk, SteadyStep

LEMMA GoesOnStill ==
  ASSUME TypeOK, TypeOK', ApartInv, NEW q \in Procs, UNCHANGED <<tables, disk>>,
         OthersStay(q), SameRequest(q), pc[q] \in Passing,
         pc'[q] \notin {"linkFresh", "addRef", "rmInfo", "subRef"}, Knows(q)'
  PROVE  ApartInv'
<1>1. pc[q] \notin {"idle", "recv"} /\ CountsAs(q) /\ HoldsOn(q)
  BY DEF Passing, CountsAs, HoldsOn, Recycles
<1>. QED
  BY <1>1, StillDisk, SteadyStep

-----------------------------------------------------------------------------
(* Statements that only read.                                               *)

LEMMA PutsLookupApart ==
  ASSUME Undisturbed, TypeOK, TypeOK', ApartInv, NEW q \in Threads, PutsLookup(q)
  PROVE  ApartInv'
<1>0. q \in Procs /\ pc[q] = "lookup" /\ UNCHANGED <<tables, disk>>
  BY DEF Procs, PutsLookup
<1>1. CASE Done(q)
  BY <1>0, <1>1, EndsStill DEF Passing
<1>2. CASE paths[name[q]] = NoId /\ Goto(q, "find")
  <2>1. /\ OthersStay(q) /\ SameRequest(q) /\ pc'[q] = "find"
        /\ UNCHANGED <<name, hash, fid, fd, base, got>>
    BY <1>0, <1>2, GoesOn
  <2>2. Knows(q)'
    BY <1>0, <1>2, <2>1 DEF ApartInv, Knows, KnowsRow, KnowsFile, KeepsRole, NameIsFree,
       HasRow, HasContent, OpensFile, Reads, Removes, Recycles, tables
  <2>. QED
    BY <1>0, <2>1, <2>2, GoesOnStill DEF Passing
<1>. QED
  BY <1>1, <1>2, NoFault DEF PutsLookup, NoResult

LEMMA PutsFindApart ==
  ASSUME Undisturbed, TypeOK, TypeOK', ApartInv, NEW q \in Threads, PutsFind(q)
  PROVE  ApartInv'
<1>0. q \in Procs /\ pc[q] = "find" /\ UNCHANGED <<tables, disk>>
  BY DEF Procs, PutsFind
<1>1. ASSUME NEW f \in RowsOf(hash[q]),
             fid' = [fid EXCEPT ![q] = f], pc' = [pc EXCEPT ![q] = "stat"],
             UNCHANGED <<name, hash, fd, base, got>>
      PROVE  ApartInv'
  <2>1. /\ OthersStay(q) /\ SameRequest(q) /\ pc'[q] = "stat" /\ fid'[q] = f
    BY <1>1 DEF OthersStay, SameRequest, TypeOK, LocalsOK, Procs
  <2>2. Knows(q)'
    BY <1>0, <1>1, <2>1 DEF ApartInv, Knows, KnowsRow, KnowsFile, KeepsRole, NameIsFree,
       HasRow, HasContent, OpensFile, Reads, Removes, Recycles, tables, RowsOf
  <2>. QED
    BY <1>0, <2>1, <2>2, GoesOnStill DEF Passing
<1>2. CASE Goto(q, "open")
  <2>1. /\ OthersStay(q) /\ SameRequest(q) /\ pc'[q] = "open"
        /\ UNCHANGED <<name, hash, fid, fd, base, got>>
    BY <1>0, <1>2, GoesOn
  <2>2. Knows(q)'
    BY <1>0, <1>2, <2>1 DEF ApartInv, Knows, KnowsRow, KnowsFile, KeepsRole, NameIsFree,
       HasRow, HasContent, OpensFile, Reads, Removes, Recycles, tables
  <2>. QED
    BY <1>0, <2>1, <2>2, GoesOnStill DEF Passing
<1>. QED
  BY <1>1, <1>2, NoFault DEF PutsFind, NoResult

LEMMA PutsStatApart ==
  ASSUME Undisturbed, TypeOK, TypeOK', ApartInv, NEW q \in Threads, PutsStat(q)
  PROVE  ApartInv'
<1>0. /\ q \in Procs /\ pc[q] = "stat" /\ UNCHANGED <<tables, disk>>
      /\ Goto(q, IF StoreReady(q) THEN "link" ELSE "open")
  BY NoFault DEF Procs, PutsStat
<1>1. CASE StoreReady(q)
  <2>1. /\ OthersStay(q) /\ SameRequest(q) /\ pc'[q] = "link"
        /\ UNCHANGED <<name, hash, fid, fd, base, got>>
    BY <1>0, <1>1, GoesOn
  <2>2. Complete(Host[q], hash[q])
    BY <1>0, <1>1, RightSizeIsWhole DEF StoreReady
  <2>3. Complete(Host[q], hash[q])'
    BY <1>0, <2>1, <2>2 DEF Complete
  <2>4. Knows(q)'
    BY <1>0, <2>1, <2>3 DEF ApartInv, Knows, KnowsRow, KnowsFile, KeepsRole, NameIsFree,
       HasRow, HasContent, OpensFile, Reads, Removes, Recycles, tables
  <2>. QED
    BY <1>0, <2>1, <2>4, GoesOnStill DEF Passing
<1>2. CASE ~StoreReady(q)
  <2>1. /\ OthersStay(q) /\ SameRequest(q) /\ pc'[q] = "open"
        /\ UNCHANGED <<name, hash, fid, fd, base, got>>
    BY <1>0, <1>2, GoesOn
  <2>2. Knows(q)'
    BY <1>0, <2>1 DEF ApartInv, Knows, KnowsRow, KnowsFile, KeepsRole, NameIsFree,
       HasRow, HasContent, OpensFile, Reads, Removes, Recycles, tables
  <2>. QED
    BY <1>0, <2>1, <2>2, GoesOnStill DEF Passing
<1>. QED
  BY <1>1, <1>2

LEMMA RefindApart ==
  ASSUME Undisturbed, TypeOK, TypeOK', ApartInv, NEW q \in Procs, Refind(q)
  PROVE  ApartInv'
<1>0. q \in Procs /\ pc[q] = "refind" /\ UNCHANGED <<tables, disk>>
  BY DEF Refind
<1>1. ASSUME NEW f \in RowsOf(hash[q]),
             fid' = [fid EXCEPT ![q] = f], pc' = [pc EXCEPT ![q] = "link"],
             UNCHANGED <<name, hash, fd, base, got>>
      PROVE  ApartInv'
  <2>1. /\ OthersStay(q) /\ SameRequest(q) /\ pc'[q] = "link" /\ fid'[q] = f
    BY <1>1 DEF OthersStay, SameRequest, TypeOK, LocalsOK
  <2>2. Complete(Host[q], hash[q])'
    BY <1>0, <1>1 DEF ApartInv, KnowsFile, HasContent, Complete
  <2>3. Knows(q)'
    BY <1>0, <1>1, <2>1, <2>2 DEF ApartInv, Knows, KnowsRow, KnowsFile, KeepsRole, NameIsFree,
       HasRow, HasContent, OpensFile, Reads, Removes, Recycles, tables, RowsOf
  <2>. QED
    BY <1>0, <2>1, <2>3, GoesOnStill DEF Passing
<1>2. CASE Done(q)
  BY <1>0, <1>2, EndsStill DEF Passing
<1>. QED
  BY <1>1, <1>2, NoFault DEF Refind, NoResult

LEMMA GetsPathApart ==
  ASSUME Undisturbed, TypeOK, TypeOK', ApartInv, NEW q \in Threads, GetsPath(q)
  PROVE  ApartInv'
<1>0. q \in Procs /\ pc[q] = "getPath" /\ UNCHANGED <<tables, disk>>
  BY DEF Procs, GetsPath
<1>1. CASE /\ paths[name[q]] # NoId
           /\ fid' = [fid EXCEPT ![q] = paths[name[q]]]
           /\ pc' = [pc EXCEPT ![q] = "getInfo"]
           /\ UNCHANGED <<name, hash, fd, base, got>>
  <2>1. /\ OthersStay(q) /\ SameRequest(q) /\ pc'[q] = "getInfo"
        /\ fid'[q] = paths[name[q]]
    BY <1>0, <1>1 DEF OthersStay, SameRequest, TypeOK, LocalsOK
  <2>2. name[q] \in Names /\ paths[name[q]] \in files
    BY <1>0, <1>1 DEF ApartInv, RowsStand, TypeOK, LocalsOK
  <2>3. (StoreFile(q).there => Complete(Host[q], hash[q]))'
    BY <1>0, <1>1 DEF ApartInv, KnowsFile, Reads, Complete, StoreFile
  <2>4. Knows(q)'
    BY <1>0, <1>1, <2>1, <2>2, <2>3 DEF ApartInv, Knows, KnowsRow, KnowsFile, KeepsRole,
       NameIsFree,
       HasRow, HasContent, OpensFile, Reads, Removes, Recycles, tables
  <2>. QED
    BY <1>0, <2>1, <2>4, GoesOnStill DEF Passing
<1>2. CASE Done(q)
  BY <1>0, <1>2, EndsStill DEF Passing
<1>. QED
  BY <1>1, <1>2, NoFault DEF GetsPath, NoResult

LEMMA GetsInfoApart ==
  ASSUME Undisturbed, TypeOK, TypeOK', ApartInv, NEW q \in Threads, GetsInfo(q)
  PROVE  ApartInv'
<1>0. q \in Procs /\ pc[q] = "getInfo" /\ UNCHANGED <<tables, disk>>
  BY DEF Procs, GetsInfo
<1>1. CASE /\ hash' = [hash EXCEPT ![q] = sha[fid[q]]]
           /\ pc' = [pc EXCEPT ![q] = "getOpen"]
           /\ UNCHANGED <<name, fid, fd, base, got>>
  <2>1. sha[fid[q]] = hash[q]
    BY <1>0, OnlyMyRow DEF HasRow
  <2>2. /\ OthersStay(q) /\ SameRequest(q) /\ pc'[q] = "getOpen" /\ hash'[q] = hash[q]
    BY <1>0, <1>1, <2>1 DEF OthersStay, SameRequest, TypeOK, LocalsOK
  <2>3. (StoreFile(q).there => Complete(Host[q], hash[q]))'
    BY <1>0, <1>1, <2>2 DEF ApartInv, KnowsFile, Reads, Complete, StoreFile
  <2>4. Knows(q)'
    BY <1>0, <1>1, <2>2, <2>3 DEF ApartInv, Knows, KnowsRow, KnowsFile, KeepsRole, NameIsFree,
       HasRow, HasContent, OpensFile, Reads, Removes, Recycles, tables
  <2>. QED
    BY <1>0, <2>2, <2>4, GoesOnStill DEF Passing
<1>2. CASE Done(q)
  BY <1>0, <1>2, EndsStill DEF Passing
<1>. QED
  BY <1>1, <1>2, NoFault DEF GetsInfo, NoResult

LEMMA GetsOpenApart ==
  ASSUME Undisturbed, TypeOK, TypeOK', ApartInv, NEW q \in Threads, GetsOpen(q)
  PROVE  ApartInv'
<1>0. q \in Procs /\ pc[q] = "getOpen" /\ UNCHANGED <<tables, disk>>
  BY DEF Procs, GetsOpen
<1>1. CASE /\ StoreFile(q).there
           /\ fd' = [fd EXCEPT ![q] = "open"]
           /\ base' = [base EXCEPT ![q] = StoreFile(q).len]
           /\ pc' = [pc EXCEPT ![q] = "getSend"]
           /\ UNCHANGED <<name, hash, fid, got>>
  <2>1. /\ OthersStay(q) /\ SameRequest(q) /\ pc'[q] = "getSend"
        /\ base'[q] = StoreFile(q).len
    BY <1>0, <1>1 DEF OthersStay, SameRequest, TypeOK, LocalsOK
  <2>2. Complete(Host[q], hash[q]) /\ StoreFile(q).len = Size[hash[q]]
    BY <1>0, <1>1 DEF ApartInv, KnowsFile, Reads, Complete, StoreFile
  <2>3. Complete(Host[q], hash[q])'
    BY <1>0, <1>1, <2>2 DEF Complete
  <2>4. Knows(q)'
    BY <1>0, <1>1, <2>1, <2>2, <2>3 DEF ApartInv, Knows, KnowsRow, KnowsFile, KeepsRole,
       NameIsFree,
       HasRow, HasContent, OpensFile, Reads, Removes, Recycles, tables
  <2>. QED
    BY <1>0, <2>1, <2>4, GoesOnStill DEF Passing
<1>2. CASE Done(q)
  BY <1>0, <1>2, EndsStill DEF Passing
<1>. QED
  BY <1>1, <1>2, NoFault DEF GetsOpen, NoResult

LEMMA GetsSendApart ==
  ASSUME TypeOK, TypeOK', ApartInv, NEW q \in Threads, GetsSend(q)
  PROVE  ApartInv'
  BY EndsStill DEF GetsSend, Passing, Procs

LEMMA TouchLookupApart ==
  ASSUME Undisturbed, TypeOK, TypeOK', ApartInv, NEW q \in Controls, TouchLookup(q)
  PROVE  ApartInv'
<1>0. q \in Procs /\ pc[q] = "touchLookup" /\ UNCHANGED <<tables, disk>>
  BY DEF Procs, TouchLookup
<1>1. CASE Done(q)
  BY <1>0, <1>1, EndsStill DEF Passing
<1>2. CASE paths[name[q]] = NoId /\ Goto(q, "ensure")
  <2>1. /\ OthersStay(q) /\ SameRequest(q) /\ pc'[q] = "ensure"
        /\ UNCHANGED <<name, hash, fid, fd, base, got>>
    BY <1>0, <1>2, GoesOn
  <2>2. Knows(q)'
    BY <1>0, <1>2, <2>1 DEF ApartInv, Knows, KnowsRow, KnowsFile, KeepsRole, NameIsFree,
       HasRow, HasContent, OpensFile, Reads, Removes, Recycles, tables
  <2>. QED
    BY <1>0, <2>1, <2>2, GoesOnStill DEF Passing
<1>. QED
  BY <1>1, <1>2, NoFault DEF TouchLookup, NoResult

LEMMA TouchFindApart ==
  ASSUME Undisturbed, TypeOK, TypeOK', ApartInv, NEW q \in Controls, TouchFind(q)
  PROVE  ApartInv'
<1>0. /\ q \in Procs /\ pc[q] = "touchFind" /\ UNCHANGED <<tables, disk>>
      /\ hash[q] = Empty /\ Complete(Host[q], hash[q])
  BY DEF Procs, TouchFind, ApartInv, KeepsRole, KnowsFile, HasContent
<1>1. ASSUME NEW f \in RowsOf(Empty),
             fid' = [fid EXCEPT ![q] = f], pc' = [pc EXCEPT ![q] = "link"],
             UNCHANGED <<name, hash, fd, base, got>>
      PROVE  ApartInv'
  <2>1. /\ OthersStay(q) /\ SameRequest(q) /\ pc'[q] = "link" /\ fid'[q] = f
    BY <1>1 DEF OthersStay, SameRequest, TypeOK, LocalsOK, Procs
  <2>2. Complete(Host[q], hash[q])'
    BY <1>0, <1>1 DEF Complete
  <2>3. Knows(q)'
    BY <1>0, <1>1, <2>1, <2>2 DEF ApartInv, Knows, KnowsRow, KnowsFile, KeepsRole, NameIsFree,
       HasRow, HasContent, OpensFile, Reads, Removes, Recycles, tables, RowsOf
  <2>. QED
    BY <1>0, <2>1, <2>3, GoesOnStill DEF Passing
<1>2. CASE Goto(q, "insert")
  <2>1. /\ OthersStay(q) /\ SameRequest(q) /\ pc'[q] = "insert"
        /\ UNCHANGED <<name, hash, fid, fd, base, got>>
    BY <1>0, <1>2, GoesOn
  <2>2. Complete(Host[q], hash[q])'
    BY <1>0, <2>1 DEF Complete
  <2>3. Knows(q)'
    BY <1>0, <1>2, <2>1, <2>2 DEF ApartInv, Knows, KnowsRow, KnowsFile, KeepsRole, NameIsFree,
       HasRow, HasContent, OpensFile, Reads, Removes, Recycles, tables
  <2>. QED
    BY <1>0, <2>1, <2>3, GoesOnStill DEF Passing
<1>. QED
  BY <1>1, <1>2, NoFault DEF TouchFind, NoResult

LEMMA RmLookupApart ==
  ASSUME Undisturbed, TypeOK, TypeOK', ApartInv, NEW q \in Controls, RmLookup(q)
  PROVE  ApartInv'
<1>0. q \in Procs /\ pc[q] = "rmLookup" /\ UNCHANGED <<tables, disk>>
  BY DEF Procs, RmLookup
<1>1. CASE /\ paths[name[q]] # NoId
           /\ fid' = [fid EXCEPT ![q] = paths[name[q]]]
           /\ pc' = [pc EXCEPT ![q] = "rmPath"]
           /\ UNCHANGED <<name, hash, fd, base, got>>
  <2>1. /\ OthersStay(q) /\ SameRequest(q) /\ pc'[q] = "rmPath"
        /\ fid'[q] = paths[name[q]]
    BY <1>0, <1>1 DEF OthersStay, SameRequest, TypeOK, LocalsOK
  <2>2. name[q] \in Names /\ paths[name[q]] \in files
    BY <1>0, <1>1 DEF ApartInv, RowsStand, TypeOK, LocalsOK
  <2>3. Knows(q)'
    BY <1>0, <1>1, <2>1, <2>2 DEF ApartInv, Knows, KnowsRow, KnowsFile, KeepsRole, NameIsFree,
       HasRow, HasContent, OpensFile, Reads, Removes, Recycles, tables
  <2>. QED
    BY <1>0, <2>1, <2>3, GoesOnStill DEF Passing
<1>2. CASE Done(q)
  BY <1>0, <1>2, EndsStill DEF Passing
<1>. QED
  BY <1>1, <1>2, NoFault DEF RmLookup, NoResult

\* The removal under way is the same one: only its next statement changes.
LEMMA RmInfoApart ==
  ASSUME Undisturbed, TypeOK, TypeOK', ApartInv, NEW q \in Controls, RmInfo(q)
  PROVE  ApartInv'
<1>0. /\ q \in Procs /\ pc[q] = "rmInfo" /\ UNCHANGED <<tables, disk>>
      /\ fid[q] \in files /\ sha[fid[q]] = hash[q]
  BY OnlyMyRow DEF Procs, RmInfo, HasRow
<1>1. /\ hash' = [hash EXCEPT ![q] = sha[fid[q]]]
      /\ pc' = [pc EXCEPT ![q] = "subRef"]
      /\ UNCHANGED <<name, fid, fd, base, got>>
  BY <1>0, NoFault DEF RmInfo, NoResult
<1>2. /\ OthersStay(q) /\ SameRequest(q) /\ pc'[q] = "subRef" /\ hash'[q] = hash[q]
      /\ fid'[q] = fid[q]
  BY <1>0, <1>1 DEF OthersStay, SameRequest, TypeOK, LocalsOK
<1>3. Knows(q)'
  BY <1>0, <1>1, <1>2 DEF ApartInv, Knows, KnowsRow, KnowsFile, KeepsRole, NameIsFree,
       HasRow, HasContent, OpensFile, Reads, Removes, Recycles, tables
<1>4. CountsAs(q) /\ HoldsOn(q)
  BY <1>0, <1>2 DEF CountsAs, HoldsOn, Recycles
<1>. QED
  BY <1>0, <1>2, <1>3, <1>4, StillDisk, SteadyStep

LEMMA GetRefApart ==
  ASSUME Undisturbed, TypeOK, TypeOK', ApartInv, NEW q \in Controls, GetRef(q)
  PROVE  ApartInv'
<1>0. /\ q \in Procs /\ pc[q] = "getRef" /\ UNCHANGED <<tables, disk>>
      /\ fid[q] \in files /\ count[fid[q]] \in Nat
  BY OnlyMyRow DEF Procs, GetRef, HasRow, TypeOK, TablesOK
<1>1. CASE count[fid[q]] = 0 /\ Goto(q, "unlink")
  <2>1. /\ OthersStay(q) /\ SameRequest(q) /\ pc'[q] = "unlink"
        /\ UNCHANGED <<name, hash, fid, fd, base, got>>
    BY <1>0, <1>1, GoesOn
  <2>2. Knows(q)'
    BY <1>0, <1>1, <2>1 DEF ApartInv, Knows, KnowsRow, KnowsFile, KeepsRole, NameIsFree,
       HasRow, HasContent, OpensFile, Reads, Removes, Recycles, tables
  <2>3. CountsAs(q) /\ HoldsOn(q)
    BY <1>0, <2>1 DEF CountsAs, HoldsOn, Recycles
  <2>. QED
    BY <1>0, <2>1, <2>2, <2>3, StillDisk, SteadyStep
<1>2. CASE count[fid[q]] # 0 /\ Done(q)
  BY <1>0, <1>2, EndsStill
<1>. QED
  BY <1>0, <1>1, <1>2, NoFault DEF GetRef, NoResult

-----------------------------------------------------------------------------
(* Statements that write the store file of the request.                     *)

LEMMA CellIsSet ==
  ASSUME TypeOK, NEW q \in Procs, NEW len, NEW good, SetStoreFile(q, len, good)
  PROVE  /\ disk'[Host[q]][hash[q]] = [len |-> len, good |-> good, there |-> TRUE]
         /\ \A s \in Servers, h \in Hashes :
              s # Host[q] \/ h # hash[q] => disk'[s][h] = disk[s][h]
<1>1. Host[q] \in Servers /\ hash[q] \in Hashes
  BY StoreAssumption DEF TypeOK, LocalsOK
<1>. QED
  BY <1>1 DEF SetStoreFile, TypeOK, DiskOK

\* The store file keeps its blocks or gains some, and has no holes after.
LEMMA CellKeepsDisk ==
  ASSUME TypeOK, NEW q \in Procs, NEW len \in Nat, len <= Size[hash[q]],
         SetStoreFile(q, len, 1..len),
         Complete(Host[q], hash[q]) => len = Size[hash[q]]
  PROVE  KeepsDisk(q)
<1>1. /\ disk'[Host[q]][hash[q]] = [len |-> len, good |-> 1..len, there |-> TRUE]
      /\ \A s \in Servers, h \in Hashes :
           s # Host[q] \/ h # hash[q] => disk'[s][h] = disk[s][h]
  BY CellIsSet
<1>2. Complete(Host[q], hash[q]) =>
        /\ disk'[Host[q]][hash[q]].there
        /\ disk'[Host[q]][hash[q]].len = Size[hash[q]]
        /\ disk'[Host[q]][hash[q]].good = 1..Size[hash[q]]
  BY <1>1
<1>. QED
  BY <1>1, <1>2 DEF KeepsDisk, Complete

LEMMA PutsOpenApart ==
  ASSUME Undisturbed, TypeOK, TypeOK', ApartInv, NEW q \in Threads, PutsOpen(q)
  PROVE  ApartInv'
<1> DEFINE len == StoreFile(q).len
           size == Size[hash[q]]
<1>0. /\ q \in Procs /\ pc[q] = "open" /\ UNCHANGED tables
      /\ len \in Nat /\ size \in Nat /\ len <= size /\ StoreFile(q).good = 1..len
  BY OwnCell DEF Procs, PutsOpen
<1>1. SetStoreFile(q, len, 1..len)
  BY <1>0, NoFault DEF PutsOpen
<1>2. disk'[Host[q]][hash[q]] = [len |-> len, good |-> 1..len, there |-> TRUE]
  BY <1>0, <1>1, CellIsSet
<1>3. KeepsDisk(q)
  BY <1>0, <1>1, CellKeepsDisk DEF Complete, StoreFile
<1>4. HoldsOn(q)
  BY <1>0 DEF HoldsOn, Recycles
<1>5. CASE /\ pc' = [pc EXCEPT ![q] = IF len = size THEN "insert" ELSE "extend"]
           /\ fd' = [fd EXCEPT ![q] = "open"]
           /\ base' = [base EXCEPT ![q] = len]
           /\ UNCHANGED <<name, hash, fid, got>>
  <2>1. /\ OthersStay(q) /\ SameRequest(q) /\ fd'[q] = "open" /\ base'[q] = len
        /\ pc'[q] = (IF len = size THEN "insert" ELSE "extend")
        /\ UNCHANGED <<name, hash, fid, got>>
    BY <1>0, <1>5 DEF OthersStay, SameRequest, TypeOK, LocalsOK
  <2>2. got[q] = 0 /\ paths[name[q]] = NoId
    BY <1>0 DEF ApartInv, KnowsFile, KnowsRow, NameIsFree
  <2>3. KnowsFile(q)'
    <3>1. CASE len = size
      <4>1. Complete(Host[q], hash[q])'
        BY <1>2, <2>1, <3>1 DEF Complete
      <4>. QED
        BY <2>1, <3>1, <4>1 DEF KnowsFile, HasContent, Reads
    <3>2. CASE len # size
      <4>1. pc'[q] = "extend" /\ base'[q] + got'[q] = len /\ len < size
        BY <1>0, <2>1, <2>2, <3>2
      <4>2. (StoreFile(q))' = [len |-> len, good |-> 1..len, there |-> TRUE]
        BY <1>2, <2>1 DEF StoreFile
      <4>. QED
        BY <2>1, <2>2, <4>1, <4>2 DEF KnowsFile, HasContent, Reads
    <3>. QED
      BY <3>1, <3>2
  <2>4. KnowsRow(q)' /\ KeepsRole(q)'
    BY <1>0, <2>1, <2>2, StoreAssumption
       DEF KnowsRow, KeepsRole, NameIsFree, HasRow, Recycles, OpensFile, Procs, tables
  <2>5. CountsAs(q)
    BY <1>0, <2>1 DEF CountsAs
  <2>. QED
    BY <1>0, <1>3, <1>4, <2>1, <2>3, <2>4, <2>5, SteadyStep DEF Knows
<1>6. CASE Done(q)
  <2>1. OthersStay(q) /\ SameRequest(q) /\ pc'[q] = "idle" /\ Knows(q)'
    BY <1>0, <1>6, EndsClean
  <2>2. CountsAs(q)
    BY <1>0, <2>1 DEF CountsAs
  <2>. QED
    BY <1>0, <1>3, <1>4, <2>1, <2>2, SteadyStep
<1>. QED
  BY <1>0, <1>5, <1>6, NoFault DEF PutsOpen

\* The file has its final length before its blocks: nobody else may trust it.
LEMMA PutsExtendApart ==
  ASSUME Undisturbed, TypeOK, TypeOK', ApartInv, NEW q \in Threads, PutsExtend(q)
  PROVE  ApartInv'
<1> DEFINE size == Size[hash[q]]
           have == base[q] + got[q]
<1>0. /\ q \in Procs /\ pc[q] = "extend" /\ UNCHANGED tables
      /\ fd[q] = "open" /\ have < size /\ size \in Nat
      /\ StoreFile(q).good = 1..have /\ StoreFile(q).len # size
  <2>1. base[q] \in Nat /\ got[q] = 0 /\ Size[hash[q]] \in Nat
    BY StoreAssumption DEF Procs, PutsExtend, TypeOK, LocalsOK, ApartInv, KnowsFile
  <2>. QED
    BY <2>1 DEF Procs, PutsExtend, ApartInv, KnowsFile
<1>1. /\ SetStoreFile(q, size, 1..have) /\ Goto(q, "recv")
  BY <1>0, NoFault DEF PutsExtend
<1>2. /\ disk'[Host[q]][hash[q]] = [len |-> size, good |-> 1..have, there |-> TRUE]
      /\ \A s \in Servers, h \in Hashes :
           s # Host[q] \/ h # hash[q] => disk'[s][h] = disk[s][h]
  BY <1>0, <1>1, CellIsSet
<1>3. /\ OthersStay(q) /\ SameRequest(q) /\ pc'[q] = "recv"
      /\ UNCHANGED <<name, hash, fid, fd, base, got>>
  BY <1>0, <1>1, GoesOn
<1>4. KeepsDisk(q)
  BY <1>0, <1>2, <1>3 DEF KeepsDisk, Complete, StoreFile
<1>5. CountsAs(q) /\ HoldsOn(q)
  BY <1>0, <1>3 DEF CountsAs, HoldsOn, Recycles
<1>6. Knows(q)'
  <2>1. (StoreFile(q))' = [len |-> size, good |-> 1..have, there |-> TRUE]
    BY <1>2, <1>3 DEF StoreFile
  <2>2. KnowsFile(q)'
    BY <1>0, <1>3, <2>1 DEF KnowsFile, HasContent, Reads
  <2>. QED
    BY <1>0, <1>3, <2>2 DEF ApartInv, Knows, KnowsRow, KnowsFile, KeepsRole, NameIsFree,
       HasRow, HasContent, OpensFile, Reads, Removes, Recycles, tables
<1>. QED
  BY <1>0, <1>3, <1>4, <1>5, <1>6, SteadyStep

LEMMA RecvCell ==
  ASSUME TypeOK, ApartInv, NEW q \in Procs, pc[q] = "recv"
  PROVE  /\ base[q] \in Nat /\ got[q] \in Nat /\ Size[hash[q]] \in Nat
         /\ base[q] + got[q] < Size[hash[q]] /\ fd[q] = "open"
         /\ StoreFile(q) = [len |-> Size[hash[q]], good |-> 1..(base[q] + got[q]),
                            there |-> TRUE]
  BY StoreAssumption DEF TypeOK, LocalsOK, ApartInv, KnowsFile

LEMMA PutsRecvApart ==
  ASSUME Undisturbed, TypeOK, TypeOK', ApartInv, NEW q \in Threads, PutsRecv(q)
  PROVE  ApartInv'
<1> DEFINE size == Size[hash[q]]
           at   == base[q] + got[q] + 1
<1>0. /\ q \in Procs /\ pc[q] = "recv" /\ UNCHANGED tables
      /\ fd[q] = "open" /\ at <= size /\ size \in Nat /\ at \in Nat
      /\ base[q] \in Nat /\ got[q] \in Nat
      /\ StoreFile(q).len = size /\ StoreFile(q).good = 1..(base[q] + got[q])
      /\ base[q] + got[q] < size
  BY RecvCell DEF Procs, PutsRecv
<1>1. /\ SetStoreFile(q, size, 1..at)
      /\ got' = [got EXCEPT ![q] = @ + 1]
      /\ pc' = [pc EXCEPT ![q] = IF at = size THEN "insert" ELSE "recv"]
      /\ UNCHANGED <<name, hash, fid, fd, base>>
  <2>1. Larger(size, at) = size
    BY <1>0 DEF Larger
  <2>2. 1..(base[q] + got[q]) \cup {at} = 1..at
    BY <1>0
  <2>. QED
    BY <1>0, <2>1, <2>2, NoFault DEF PutsRecv
<1>2. /\ disk'[Host[q]][hash[q]] = [len |-> size, good |-> 1..at, there |-> TRUE]
      /\ \A s \in Servers, h \in Hashes :
           s # Host[q] \/ h # hash[q] => disk'[s][h] = disk[s][h]
  BY <1>0, <1>1, CellIsSet
<1>3. /\ OthersStay(q) /\ SameRequest(q) /\ got'[q] = got[q] + 1
      /\ pc'[q] = (IF at = size THEN "insert" ELSE "recv")
      /\ UNCHANGED <<name, hash, fid, fd, base>>
  BY <1>0, <1>1 DEF OthersStay, SameRequest, TypeOK, LocalsOK
<1>4. KeepsDisk(q)
  <2>1. Complete(Host[q], hash[q]) => FALSE
    <3>1. (base[q] + got[q]) + 1 \in 1..size /\ (base[q] + got[q]) + 1 \notin 1..(base[q] + got[q])
      BY <1>0
    <3>. QED
      BY <1>0, <3>1 DEF Complete, StoreFile
  <2>2. \/ disk'[Host[q]][hash[q]].good = 1..disk'[Host[q]][hash[q]].len
        \/ q \in Threads /\ hash'[q] = hash[q] /\ fd'[q] = "open" /\ pc'[q] = "recv"
    BY <1>0, <1>2, <1>3
  <2>. QED
    BY <1>0, <1>2, <2>1, <2>2 DEF KeepsDisk
<1>5. CountsAs(q) /\ HoldsOn(q)
  BY <1>0, <1>3 DEF CountsAs, HoldsOn, Recycles
<1>6. KnowsFile(q)'
  <2>1. (StoreFile(q))' = [len |-> size, good |-> 1..at, there |-> TRUE]
    BY <1>2, <1>3 DEF StoreFile
  <2>2. CASE at = size
    <3>1. Complete(Host[q], hash[q])'
      BY <1>3, <2>1, <2>2 DEF Complete, StoreFile
    <3>. QED
      BY <1>3, <2>2, <3>1 DEF KnowsFile, HasContent, Reads
  <2>3. CASE at # size
    <3>1. base'[q] + got'[q] = at /\ at < size /\ pc'[q] = "recv"
      BY <1>0, <1>3, <2>3
    <3>. QED
      BY <1>0, <1>3, <2>1, <3>1 DEF KnowsFile, HasContent, Reads
  <2>. QED
    BY <2>2, <2>3
<1>7. KnowsRow(q)' /\ KeepsRole(q)'
  BY <1>0, <1>3 DEF ApartInv, Knows, KnowsRow, KnowsFile, KeepsRole, NameIsFree,
       HasRow, HasContent, OpensFile, Reads, Removes, Recycles, tables
<1>. QED
  BY <1>0, <1>3, <1>4, <1>5, <1>6, <1>7, SteadyStep DEF Knows

\* An interrupted upload leaves the blocks that arrived, and no others.
LEMMA PutsInterruptedApart ==
  ASSUME TypeOK, TypeOK', ApartInv, NEW q \in Threads, PutsInterrupted(q)
  PROVE  ApartInv'
<1> DEFINE kept == base[q] + got[q]
<1>0. /\ q \in Procs /\ pc[q] = "recv" /\ UNCHANGED tables /\ Done(q)
      /\ fd[q] = "open" /\ kept <= Size[hash[q]] /\ kept \in Nat
      /\ StoreFile(q).good = 1..kept /\ kept # Size[hash[q]] /\ Size[hash[q]] \in Nat
  BY RecvCell DEF Procs, PutsInterrupted
<1>1. SetStoreFile(q, kept, 1..kept)
  <2>1. 1..kept \cap 1..kept = 1..kept
    OBVIOUS
  <2>. QED
    BY <1>0, <2>1 DEF PutsInterrupted
<1>2. KeepsDisk(q)
  <2>1. ~Complete(Host[q], hash[q])
    <3>1. Size[hash[q]] \in 1..Size[hash[q]] /\ Size[hash[q]] \notin 1..kept
      BY <1>0
    <3>. QED
      BY <1>0, <3>1 DEF Complete, StoreFile
  <2>. HIDE DEF kept
  <2>. QED
    BY <1>0, <1>1, <2>1, CellKeepsDisk
<1>3. OthersStay(q) /\ SameRequest(q) /\ pc'[q] = "idle" /\ Knows(q)'
  BY <1>0, EndsClean
<1>4. CountsAs(q) /\ HoldsOn(q)
  BY <1>0, <1>3 DEF CountsAs, HoldsOn, Recycles
<1>. QED
  BY <1>0, <1>2, <1>3, <1>4, SteadyStep

\* An empty store file is complete as soon as it is there.
LEMMA TouchEnsureApart ==
  ASSUME Undisturbed, TypeOK, TypeOK', ApartInv, NEW q \in Controls, TouchEnsure(q)
  PROVE  ApartInv'
<1>0. /\ q \in Procs /\ pc[q] = "ensure" /\ UNCHANGED tables
      /\ hash[q] = Empty /\ Size[hash[q]] = 0
      /\ StoreFile(q).len = 0 /\ StoreFile(q).good = 1..0
  <2>1. q \in Procs /\ pc[q] = "ensure" /\ UNCHANGED tables
    BY DEF Procs, TouchEnsure
  <2>2. hash[q] = Empty
    BY <2>1 DEF ApartInv, KeepsRole
  <2>3. Size[hash[q]] = 0
    BY <2>2, StoreAssumption
  <2>. QED
    BY <2>1, <2>2, <2>3, OwnCell
<1>1. SetStoreFile(q, 0, 1..0) /\ Goto(q, "touchFind")
  BY <1>0, NoFault DEF TouchEnsure
<1>2. KeepsDisk(q)
  BY <1>0, <1>1, CellKeepsDisk
<1>3. disk'[Host[q]][hash[q]] = [len |-> 0, good |-> 1..0, there |-> TRUE]
  <2>1. q \in Procs /\ SetStoreFile(q, 0, 1..0)
    BY <1>0, <1>1
  <2>. QED
    BY <2>1, CellIsSet
<1>4. /\ OthersStay(q) /\ SameRequest(q) /\ pc'[q] = "touchFind"
      /\ UNCHANGED <<name, hash, fid, fd, base, got>>
  BY <1>0, <1>1, GoesOn
<1>5. Complete(Host[q], hash[q])'
  <2>1. hash'[q] = hash[q]
    BY <1>4
  <2>2. disk'[Host[q]][hash'[q]] = [len |-> 0, good |-> 1..0, there |-> TRUE]
    BY <1>3, <2>1
  <2>3. Size[hash'[q]] = 0
    BY <1>0, <2>1
  <2>. QED
    BY <2>2, <2>3 DEF Complete
<1>6. Knows(q)'
  BY <1>0, <1>4, <1>5 DEF ApartInv, Knows, KnowsRow, KnowsFile, KeepsRole, NameIsFree,
       HasRow, HasContent, OpensFile, Reads, Removes, Recycles, tables
<1>7. CountsAs(q) /\ HoldsOn(q)
  BY <1>0, <1>4 DEF CountsAs, HoldsOn, Recycles
<1>. QED
  BY <1>0, <1>2, <1>4, <1>6, <1>7, SteadyStep

\* No request of another client has the unlinked file open.
LEMMA UnlinkApart ==
  ASSUME Undisturbed, TypeOK, TypeOK', ApartInv, NEW q \in Controls, Unlink(q)
  PROVE  ApartInv'
<1>0. /\ q \in Procs /\ pc[q] = "unlink" /\ UNCHANGED tables
      /\ Host[q] \in Servers /\ hash[q] \in Hashes /\ Size[hash[q]] \in Nat
      /\ count[fid[q]] = 0
  BY StoreAssumption DEF Procs, Unlink, TypeOK, LocalsOK, ApartInv, KnowsRow, Recycles
<1>1. /\ disk' = [disk EXCEPT ![Host[q]][hash[q]] = NoFile]
      /\ pc' = [pc EXCEPT ![q] = "rmSources"]
      /\ UNCHANGED <<name, hash, fid, base, got>>
  BY NoFault DEF Unlink
<1>2. \A p \in Procs : fd'[p] = fd[p]
  <2>1. \A p \in Procs : fd[p] = "open" /\ hash[p] = hash[q] => FALSE
    <3> SUFFICES ASSUME NEW p \in Procs, fd[p] = "open", hash[p] = hash[q] PROVE FALSE
      OBVIOUS
    <3>1. pc[p] \in OpensFile
      BY DEF ApartInv, KeepsRole
    <3>. QED
      BY <1>0, <3>1 DEF ApartInv, Apart, OpensFile
  <2>. QED
    BY <2>1, NoFault DEF Unlink
<1>3. OthersStay(q) /\ SameRequest(q) /\ pc'[q] = "rmSources"
  BY <1>0, <1>1, <1>2 DEF OthersStay, SameRequest, TypeOK, LocalsOK
<1>4. /\ disk'[Host[q]][hash[q]] = NoFile
      /\ \A s \in Servers, h \in Hashes :
           s # Host[q] \/ h # hash[q] => disk'[s][h] = disk[s][h]
  BY <1>0, <1>1 DEF TypeOK, DiskOK
<1>5. KeepsDisk(q)
  <2>1. \A f \in RowsOf(hash[q]) : count[f] = 0
    BY <1>0, OnlyMyRow DEF RowsOf, HasRow
  <2>2. 1..NoFile.len = NoFile.good /\ NoFile.len <= Size[hash[q]]
    BY <1>0 DEF NoFile
  <2>. QED
    BY <1>4, <2>1, <2>2 DEF KeepsDisk
<1>6. Knows(q)'
  BY <1>0, <1>1, <1>2, <1>3 DEF ApartInv, Knows, KnowsRow, KnowsFile, KeepsRole, NameIsFree,
       HasRow, HasContent, OpensFile, Reads, Removes, Recycles, tables
<1>7. CountsAs(q) /\ HoldsOn(q)
  BY <1>0, <1>1, <1>3 DEF CountsAs, HoldsOn, Recycles
<1>. QED
  BY <1>0, <1>3, <1>5, <1>6, <1>7, SteadyStep

-----------------------------------------------------------------------------
(* Statements that write the tables: only rows of the request's content.    *)

\* Rows, links and sources of other contents stay as they are.
TouchesOwn(q) ==
  /\ OthersStay(q) /\ SameRequest(q) /\ disk' = disk /\ nextId <= nextId'
  /\ \A n \in Names \ {name[q]} : paths'[n] = paths[n]
  /\ \A f \in files : sha[f] # hash[q] =>
       f \in files' /\ sha'[f] = sha[f] /\ count'[f] = count[f]
  /\ \A f \in files' : sha'[f] # hash[q] =>
       f \in files /\ sha'[f] = sha[f] /\ count'[f] = count[f]
  /\ \A r \in sources : sha[r[1]] # hash[q] => r \in sources'
  /\ \A r \in sources' : r \in sources \/ sha[r[1]] = hash[q]

\* The request's path stays, or leads to its row k or nowhere before and after.
LeadsTo(q, k) ==
  \/ paths' = paths
  \/ paths[name[q]] \in {NoId, k} /\ paths'[name[q]] \in {NoId, k}

\* Row k, if there is one, is the only row of its content and as good as any.
RowIsGood(q, k) ==
  /\ \A f \in files' : sha'[f] = hash[q] => f = k
  /\ k \in files' =>
       /\ sha'[k] = hash[q] /\ k < nextId'
       /\ \/ count'[k] > 0
          \/ pc'[q] \in {"getRef"} \cup Recycles /\ fid'[q] = k
       /\ \/ sha'[k] = Empty \/ \E r \in sources' : r[1] = k
          \/ pc'[q] \in {"linkFresh", "source", "rmRow"} /\ fid'[q] = k
       /\ count'[k] > 0 => \E s \in Servers : Complete(s, hash[q])
       /\ \A r \in sources' : r[1] = k /\ count'[k] > 0 => Complete(r[2], hash[q])
       /\ Owed(k)' = Booked(k)'

LEMMA OthersKnow ==
  ASSUME TypeOK, TypeOK', ApartInv, NEW q \in Procs, pc[q] # "idle",
         TouchesOwn(q), NEW p \in Procs \ {q}
  PROVE  Knows(p)'
<1>1. CASE pc[p] # "idle"
  <2>1. hash[p] # hash[q] /\ name[p] # name[q] /\ name[p] \in Names
    BY <1>1 DEF ApartInv, Apart, TypeOK, LocalsOK
  <2>. QED
    BY <2>1, KnowsStay DEF TouchesOwn
<1>2. CASE pc[p] = "idle"
  <2>1. KnowsRow(p)'
    BY <1>2 DEF TouchesOwn, OthersStay, KnowsRow, NameIsFree, HasRow, Recycles
  <2>2. KnowsFile(p)'
    BY <1>2 DEF TouchesOwn, OthersStay, ApartInv, KnowsFile, HasContent, Reads
  <2>3. KeepsRole(p)'
    BY <1>2 DEF TouchesOwn, OthersStay, ApartInv, KeepsRole
  <2>. QED
    BY <2>1, <2>2, <2>3 DEF Knows
<1>. QED
  BY <1>1, <1>2

LEMMA OwnStep ==
  ASSUME TypeOK, TypeOK', ApartInv, NEW q \in Procs, pc[q] \notin {"idle", "recv"},
         TouchesOwn(q), NEW k \in FileIds, LeadsTo(q, k), RowIsGood(q, k),
         \A n \in Names : paths'[n] # NoId => paths'[n] \in files',
         \A r \in sources' : r[1] \in files',
         pc[q] \in HasRow => fid[q] = k, pc'[q] \in HasRow => fid'[q] = k, Knows(q)'
  PROVE  ApartInv'
<1>1. Apart'
  BY ApartStays DEF TouchesOwn
<1>2. NeverLonger'
  BY DEF ApartInv, NeverLonger, TouchesOwn
<1>3. NoHoles'
  <2>1. ASSUME NEW t \in Threads, fd[t] = "open", pc[t] = "recv"
        PROVE  fd'[t] = "open" /\ pc'[t] = "recv" /\ hash'[t] = hash[t]
    BY <2>1 DEF TouchesOwn, OthersStay, Procs
  <2>. QED
    BY <2>1 DEF ApartInv, NoHoles, TouchesOwn
<1>4. ASSUME NEW f \in files', f # k
      PROVE  /\ f \in files /\ sha'[f] = sha[f] /\ count'[f] = count[f]
             /\ sha[f] # hash[q] /\ f \in FileIds
  BY <1>4 DEF RowIsGood, TouchesOwn, TypeOK, TablesOK
<1>5. RowsStand'
  <2>1. \A f, g \in files' : sha'[f] = sha'[g] => f = g
    <3> SUFFICES ASSUME NEW f \in files', NEW g \in files', sha'[f] = sha'[g]
                 PROVE  f = g
      OBVIOUS
    <3>1. CASE f # k /\ g # k
      BY <1>4, <3>1 DEF ApartInv, RowsStand
    <3>2. CASE f = k \/ g = k
      BY <1>4, <3>2 DEF RowIsGood
    <3>. QED
      BY <3>1, <3>2
  <2>2. \A f \in files' : f < nextId'
    <3> SUFFICES ASSUME NEW f \in files', f # k PROVE f < nextId'
      BY DEF RowIsGood
    <3>1. f < nextId /\ nextId <= nextId' /\ f \in Nat /\ nextId \in Nat /\ nextId' \in Nat
      BY <1>4 DEF ApartInv, RowsStand, TouchesOwn, FileIds, TypeOK, TablesOK
    <3>. QED
      BY <3>1
  <2>3. \A f \in files' : count'[f] > 0 \/ \E p \in Procs :
          pc'[p] \in {"getRef"} \cup Recycles /\ fid'[p] = f
    <3> SUFFICES ASSUME NEW f \in files', f # k, ~(count'[f] > 0)
                 PROVE  \E p \in Procs : pc'[p] \in {"getRef"} \cup Recycles /\ fid'[p] = f
      BY DEF RowIsGood
    <3>1. PICK p \in Procs : pc[p] \in {"getRef"} \cup Recycles /\ fid[p] = f
      BY <1>4 DEF ApartInv, RowsStand
    <3>2. p # q
      BY <3>1 DEF HasRow, Recycles
    <3>. QED
      BY <3>1, <3>2 DEF TouchesOwn, OthersStay
  <2>4. \A f \in files' :
          \/ sha'[f] = Empty \/ \E r \in sources' : r[1] = f
          \/ \E p \in Procs : pc'[p] \in {"linkFresh", "source", "rmRow"} /\ fid'[p] = f
    <3> SUFFICES ASSUME NEW f \in files', f # k, sha'[f] # Empty,
                        ~ \E r \in sources' : r[1] = f
                 PROVE  \E p \in Procs :
                          pc'[p] \in {"linkFresh", "source", "rmRow"} /\ fid'[p] = f
      BY DEF RowIsGood
    <3>1. ~ \E r \in sources : r[1] = f
      BY <1>4 DEF TouchesOwn
    <3>2. PICK p \in Procs : pc[p] \in {"linkFresh", "source", "rmRow"} /\ fid[p] = f
      BY <1>4, <3>1 DEF ApartInv, RowsStand
    <3>3. p # q
      BY <3>2 DEF HasRow
    <3>. QED
      BY <3>2, <3>3 DEF TouchesOwn, OthersStay
  <2>. QED
    BY <2>1, <2>2, <2>3, <2>4 DEF RowsStand
<1>6. SourcesStand'
  BY DEF SourcesStand
<1>7. \A s, h : Complete(s, h)' <=> Complete(s, h)
  BY DEF Complete, TouchesOwn
<1>8. CommittedComplete'
  <2> SUFFICES ASSUME NEW f \in files', count'[f] > 0
               PROVE  \E s \in Servers : Complete(s, sha'[f])
    BY <1>7 DEF CommittedComplete, Complete
  <2>1. CASE f = k
    BY <2>1 DEF RowIsGood
  <2>2. CASE f # k
    BY <1>4, <2>2 DEF ApartInv, CommittedComplete
  <2>. QED
    BY <2>1, <2>2
<1>9. SourcesHold'
  <2> SUFFICES ASSUME NEW r \in sources', r[1] \in files', count'[r[1]] > 0
               PROVE  Complete(r[2], sha'[r[1]])
    BY <1>7 DEF SourcesHold, Complete
  <2>1. CASE r[1] = k
    BY <2>1 DEF RowIsGood
  <2>2. CASE r[1] # k
    <3>1. r \in sources /\ r[1] \in files /\ count[r[1]] > 0 /\ sha'[r[1]] = sha[r[1]]
      BY <1>4, <2>2 DEF TouchesOwn
    <3>. QED
      BY <3>1 DEF ApartInv, SourcesHold
  <2>. QED
    BY <2>1, <2>2
<1>10. CountExact'
  <2> SUFFICES ASSUME NEW f \in files' PROVE Owed(f)' = Booked(f)'
    BY DEF CountExact
  <2>1. CASE f = k
    BY <2>1 DEF RowIsGood
  <2>2. CASE f # k
    <3>1. LinksOf(f)' = LinksOf(f)
      <4>1. f # NoId
        BY <1>4, <2>2 DEF FileIds, NoId
      <4>. QED
        BY <2>2, <4>1 DEF LinksOf, LeadsTo, TouchesOwn
    <3>2. Fresh(f)' = Fresh(f)
      BY <2>2 DEF Fresh, At, HasRow, TouchesOwn, OthersStay
    <3>3. Adding(f)' = Adding(f)
      BY <2>2 DEF Adding, At, HasRow, TouchesOwn, OthersStay
    <3>4. Removing(f)' = Removing(f)
      BY <2>2 DEF Removing, At, HasRow, TouchesOwn, OthersStay
    <3>5. Owed(f) = Booked(f) /\ count'[f] = count[f]
      BY <1>4, <2>2 DEF ApartInv, CountExact
    <3>. QED
      BY <3>1, <3>2, <3>3, <3>4, <3>5 DEF Owed, Booked
  <2>. QED
    BY <2>1, <2>2
<1>11. ASSUME NEW p \in Procs PROVE Knows(p)'
  BY OthersKnow
<1>12. RowsStand' /\ SourcesStand'
  BY <1>5, <1>6
<1>. QED
  BY <1>1, <1>2, <1>3, <1>8, <1>9, <1>10, <1>11, <1>12 DEF ApartInv, Knows

-----------------------------------------------------------------------------
(* The reference count of the request's row.                                *)

\* Only q itself can be between two statements about row k.
LEMMA AtMine ==
  ASSUME TypeOK, ApartInv, NEW q \in Procs, pc[q] # "idle", OthersStay(q),
         NEW k, k \in files => sha[k] = hash[q], NEW label \in HasRow
  PROVE  /\ At(label, k) = IF pc[q] = label /\ fid[q] = k THEN {q} ELSE {}
         /\ At(label, k)' = IF pc'[q] = label /\ fid'[q] = k THEN {q} ELSE {}
<1>1. ASSUME NEW p \in Procs \ {q}, pc[p] = label, fid[p] = k PROVE FALSE
  <2>1. k \in files /\ sha[k] = hash[p] /\ pc[p] # "idle"
    BY <1>1 DEF ApartInv, KnowsRow, HasRow
  <2>. QED
    BY <2>1 DEF ApartInv, Apart
<1>2. \A p \in Procs \ {q} : pc'[p] = label /\ fid'[p] = k => FALSE
  BY <1>1 DEF OthersStay
<1>. QED
  BY <1>1, <1>2 DEF At

LEMMA OneOrNone ==
  ASSUME NEW q
  PROVE  Cardinality({q}) = 1 /\ Cardinality({}) = 0
  BY FS_Singleton, FS_EmptySet

\* What k owes and has booked on account of q.
Owes(q, k)  == IF pc[q] \in {"linkFresh", "rmInfo", "subRef"} /\ fid[q] = k THEN 1 ELSE 0
Books(q, k) == IF pc[q] = "addRef" /\ fid[q] = k THEN 1 ELSE 0

LEMMA Reckon ==
  ASSUME TypeOK, ApartInv, NEW q \in Procs, pc[q] # "idle", OthersStay(q),
         NEW k, k \in files => sha[k] = hash[q]
  PROVE  /\ Owed(k) = Cardinality(LinksOf(k)) + Owes(q, k)
         /\ Owed(k)' = Cardinality(LinksOf(k)') + Owes(q, k)'
         /\ Booked(k) = count[k] + Books(q, k)
         /\ Booked(k)' = count'[k] + Books(q, k)'
<1>1. /\ Fresh(k) = IF pc[q] = "linkFresh" /\ fid[q] = k THEN {q} ELSE {}
      /\ Fresh(k)' = IF pc'[q] = "linkFresh" /\ fid'[q] = k THEN {q} ELSE {}
  BY AtMine DEF Fresh, HasRow
<1>2. /\ Adding(k) = IF pc[q] = "addRef" /\ fid[q] = k THEN {q} ELSE {}
      /\ Adding(k)' = IF pc'[q] = "addRef" /\ fid'[q] = k THEN {q} ELSE {}
  BY AtMine DEF Adding, HasRow
<1>3. /\ At("rmInfo", k) = IF pc[q] = "rmInfo" /\ fid[q] = k THEN {q} ELSE {}
      /\ At("rmInfo", k)' = IF pc'[q] = "rmInfo" /\ fid'[q] = k THEN {q} ELSE {}
  BY AtMine DEF HasRow
<1>4. /\ At("subRef", k) = IF pc[q] = "subRef" /\ fid[q] = k THEN {q} ELSE {}
      /\ At("subRef", k)' = IF pc'[q] = "subRef" /\ fid'[q] = k THEN {q} ELSE {}
  BY AtMine DEF HasRow
<1>5. /\ Removing(k) = IF pc[q] \in {"rmInfo", "subRef"} /\ fid[q] = k THEN {q} ELSE {}
      /\ Removing(k)' = IF pc'[q] \in {"rmInfo", "subRef"} /\ fid'[q] = k THEN {q} ELSE {}
  BY <1>3, <1>4 DEF Removing
<1>6. /\ Cardinality(Fresh(k)) + Cardinality(Removing(k)) = Owes(q, k)
      /\ Cardinality(Fresh(k)') + Cardinality(Removing(k)') = Owes(q, k)'
  <2>1. /\ Cardinality(Fresh(k)) = IF pc[q] = "linkFresh" /\ fid[q] = k THEN 1 ELSE 0
        /\ Cardinality(Fresh(k)') = IF pc'[q] = "linkFresh" /\ fid'[q] = k THEN 1 ELSE 0
    BY <1>1, OneOrNone
  <2>2. /\ Cardinality(Removing(k)) =
             IF pc[q] \in {"rmInfo", "subRef"} /\ fid[q] = k THEN 1 ELSE 0
        /\ Cardinality(Removing(k)') =
             IF pc'[q] \in {"rmInfo", "subRef"} /\ fid'[q] = k THEN 1 ELSE 0
    BY <1>5, OneOrNone
  <2>. QED
    BY <2>1, <2>2 DEF Owes
<1>7. Cardinality(Adding(k)) = Books(q, k) /\ Cardinality(Adding(k)') = Books(q, k)'
  BY <1>2, OneOrNone DEF Books
<1>. QED
  BY <1>6, <1>7, Sizes DEF Owed, Booked

-----------------------------------------------------------------------------
(* The statements one by one.                                               *)

LEMMA InsertFileApart ==
  ASSUME Undisturbed, TypeOK, TypeOK', ApartInv, NEW q \in Procs, InsertFile(q)
  PROVE  ApartInv'
<1>0. /\ pc[q] = "insert" /\ UNCHANGED <<paths, sources, disk>>
      /\ hash[q] \in Hashes /\ Host[q] \in Servers /\ name[q] \in Names
      /\ paths[name[q]] = NoId /\ Complete(Host[q], hash[q])
  BY StoreAssumption DEF InsertFile, TypeOK, LocalsOK, ApartInv, KnowsRow, KnowsFile,
     NameIsFree, HasContent
<1>1. CASE /\ RowsOf(hash[q]) # {} /\ Goto(q, "refind")
           /\ UNCHANGED <<files, sha, count, nextId>>
  <2>1. /\ OthersStay(q) /\ SameRequest(q) /\ pc'[q] = "refind"
        /\ UNCHANGED <<name, hash, fid, fd, base, got>> /\ UNCHANGED tables
    BY <1>0, <1>1, GoesOn DEF tables
  <2>2. Complete(Host[q], hash[q])'
    BY <1>0, <2>1 DEF Complete
  <2>3. RowsOf(hash[q])' # {}
    BY <1>1, <2>1 DEF RowsOf
  <2>4. Knows(q)'
    BY <1>0, <2>1, <2>2, <2>3 DEF ApartInv, Knows, KnowsRow, KnowsFile, KeepsRole, NameIsFree,
       HasRow, HasContent, OpensFile, Reads, Removes, Recycles
  <2>. QED
    BY <1>0, <2>1, <2>4, GoesOnStill DEF Passing
<1>2. CASE /\ RowsOf(hash[q]) = {} /\ nextId <= MaxFileId
           /\ files' = files \cup {nextId}
           /\ sha' = [sha EXCEPT ![nextId] = hash[q]]
           /\ count' = [count EXCEPT ![nextId] = 1]
           /\ nextId' = nextId + 1
           /\ fid' = [fid EXCEPT ![q] = nextId]
           /\ pc' = [pc EXCEPT ![q] = "linkFresh"]
           /\ UNCHANGED <<name, hash, fd, base, got>>
  <2>a. PICK k \in FileIds : k = nextId
    BY <1>2, StoreAssumption DEF TypeOK, TablesOK, FileIds
  <2>0. /\ k \in Nat /\ k # NoId /\ k = nextId
        /\ \A f \in files : f # k /\ f \in FileIds
    <3>1. k \in Nat /\ k # NoId
      BY DEF FileIds, NoId
    <3>2. \A f \in files : f \in FileIds /\ f < nextId
      BY DEF TypeOK, TablesOK, ApartInv, RowsStand
    <3>3. \A f \in FileIds : f \in Nat
      BY DEF FileIds
    <3>. QED
      BY <2>a, <3>1, <3>2, <3>3
  <2>1. /\ OthersStay(q) /\ SameRequest(q) /\ pc'[q] = "linkFresh" /\ fid'[q] = k
        /\ sha'[k] = hash[q] /\ count'[k] = 1
    BY <1>0, <1>2, <2>0 DEF OthersStay, SameRequest, TypeOK, LocalsOK, TablesOK
  <2>2. \A f \in files : sha[f] # hash[q] /\ sha'[f] = sha[f] /\ count'[f] = count[f]
    BY <1>2, <2>0 DEF RowsOf, TypeOK, TablesOK
  <2>3. TouchesOwn(q)
    <3>1. nextId <= nextId'
      BY <1>2, <2>0
    <3>. QED
      BY <1>0, <1>2, <2>0, <2>1, <2>2, <3>1 DEF TouchesOwn
  <2>4. LeadsTo(q, k)
    BY <1>0 DEF LeadsTo
  <2>5. /\ \A n \in Names : paths[n] # NoId => paths[n] \in files
        /\ \A r \in sources : r[1] \in files
    BY DEF ApartInv, RowsStand, SourcesStand
  <2>6. Owed(k)' = Booked(k)'
    <3>1. LinksOf(k)' = {}
      BY <1>0, <2>0, <2>5 DEF LinksOf
    <3>2. Owes(q, k)' = 1 /\ Books(q, k)' = 0
      BY <2>1 DEF Owes, Books
    <3>3. /\ Owed(k)' = Cardinality(LinksOf(k)') + Owes(q, k)'
          /\ Booked(k)' = count'[k] + Books(q, k)'
      BY <1>0, <2>0, <2>1, Reckon
    <3>4. Cardinality({}) = 0
      BY FS_EmptySet
    <3>. QED
      BY <2>1, <3>1, <3>2, <3>3, <3>4
  <2>7. RowIsGood(q, k)
    <3>1. \A f \in files' : sha'[f] = hash[q] => f = k
      BY <1>2, <2>0, <2>2
    <3>2. k < nextId' /\ count'[k] > 0
      BY <1>2, <2>0, <2>1
    <3>3. \A r \in sources' : r[1] # k
      BY <1>0, <2>0, <2>5
    <3>. QED
      BY <1>0, <2>1, <2>6, <3>1, <3>2, <3>3 DEF RowIsGood
  <2>8. Complete(Host[q], hash[q])'
    BY <1>0, <1>2 DEF Complete
  <2>9. Knows(q)'
    BY <1>0, <1>2, <2>0, <2>1, <2>8 DEF ApartInv, Knows, KnowsRow, KnowsFile, KeepsRole,
       NameIsFree,
       HasRow, HasContent, OpensFile, Reads, Removes, Recycles
  <2>. QED
    BY <1>0, <1>2, <2>0, <2>1, <2>3, <2>4, <2>5, <2>7, <2>9, OwnStep DEF HasRow
<1>. QED
  BY <1>0, <1>1, <1>2, NoFault DEF InsertFile, NoResult

\* A statement about row k, which the request holds and which stays.
OnlyRow(q, k) ==
  /\ UNCHANGED <<files, sha, nextId, disk>>
  /\ \A n \in Names \ {name[q]} : paths'[n] = paths[n]
  /\ LeadsTo(q, k)
  /\ \A f \in files \ {k} : count'[f] = count[f]
  /\ \A r \in sources : r[1] # k => r \in sources'
  /\ \A r \in sources' : r \in sources \/ (r[1] = k /\ Complete(r[2], hash[q]))

\* What the statement makes of the row's count and sources.
RowGoesOn(q, k) ==
  /\ count[k] = 0 => count'[k] = 0
  /\ count'[k] > 0 \/ (pc'[q] \in {"getRef"} \cup Recycles /\ fid'[q] = k)
  /\ \/ sha[k] = Empty \/ \E r \in sources' : r[1] = k
     \/ pc'[q] \in {"linkFresh", "source", "rmRow"} /\ fid'[q] = k
  /\ Owed(k)' = Booked(k)'

LEMMA MyRowStep ==
  ASSUME TypeOK, TypeOK', ApartInv, NEW q \in Procs, pc[q] \in HasRow,
         NEW k \in FileIds, k = fid[q], OthersStay(q), SameRequest(q),
         OnlyRow(q, k), RowGoesOn(q, k), pc'[q] \in HasRow => fid'[q] = k, Knows(q)'
  PROVE  ApartInv'
<1> USE DEF OnlyRow, RowGoesOn
<1>0. /\ k \in files /\ sha[k] = hash[q] /\ k < nextId
      /\ \A f \in files : sha[f] = hash[q] <=> f = k
      /\ pc[q] \notin {"idle", "recv"} /\ count[k] \in Nat /\ nextId \in Nat
  BY OnlyMyRow DEF HasRow, ApartInv, RowsStand, TypeOK, TablesOK
<1>1. TouchesOwn(q)
  BY <1>0 DEF TouchesOwn
<1>2. RowIsGood(q, k)
  <2>1. count'[k] > 0 => \E s \in Servers : Complete(s, hash[q])
    BY <1>0 DEF ApartInv, CommittedComplete
  <2>2. \A r \in sources' : r[1] = k /\ count'[k] > 0 => Complete(r[2], hash[q])
    BY <1>0 DEF ApartInv, SourcesHold
  <2>. QED
    BY <1>0, <2>1, <2>2 DEF RowIsGood
<1>3. \A n \in Names : paths'[n] # NoId => paths'[n] \in files'
  BY <1>0 DEF ApartInv, RowsStand, LeadsTo
<1>4. \A r \in sources' : r[1] \in files'
  BY <1>0 DEF ApartInv, SourcesStand
<1>. QED
  BY <1>0, <1>1, <1>2, <1>3, <1>4, OwnStep

LEMMA LinkIsAdded ==
  ASSUME TypeOK, NEW q \in Procs, NEW k \in FileIds, k = fid[q], InsertPath(q)
  PROVE  /\ \A n \in Names \ {name[q]} : paths'[n] = paths[n]
         /\ LeadsTo(q, k)
         /\ Cardinality(LinksOf(k)') = Cardinality(LinksOf(k)) + 1
<1>1. /\ name[q] \in Names /\ paths[name[q]] = NoId /\ k # NoId
      /\ paths' = [paths EXCEPT ![name[q]] = k] /\ paths \in [Names -> FileIds \cup {NoId}]
  BY DEF TypeOK, TablesOK, LocalsOK, InsertPath, FileIds, NoId
<1>2. name[q] \notin LinksOf(k) /\ LinksOf(k)' = LinksOf(k) \cup {name[q]}
  BY <1>1 DEF LinksOf
<1>3. Cardinality(LinksOf(k)') = Cardinality(LinksOf(k)) + 1
  BY <1>2, FiniteBoth, FS_AddElement DEF Finite
<1>. QED
  BY <1>1, <1>3 DEF LeadsTo

\* The link is the one the row's first count was for.
LEMMA LinkFreshApart ==
  ASSUME Undisturbed, TypeOK, TypeOK', ApartInv, NEW q \in Procs, LinkFresh(q)
  PROVE  ApartInv'
<1>0. /\ pc[q] = "linkFresh" /\ pc[q] \in HasRow
      /\ UNCHANGED <<files, sha, count, nextId, sources, disk>>
      /\ paths[name[q]] = NoId /\ Complete(Host[q], hash[q])
  BY DEF LinkFresh, ApartInv, KnowsRow, KnowsFile, NameIsFree, HasContent, HasRow
<1>1. InsertPath(q)
  BY <1>0, NoFault DEF LinkFresh, InsertPathRefused, NoResult
<1>a. PICK k \in FileIds : k = fid[q]
  BY <1>0, OnlyMyRow
<1>2. /\ k \in files /\ sha[k] = hash[q] /\ count[k] > 0
  BY <1>0, <1>a, OnlyMyRow, MyRowIsUsed DEF HasRow, Recycles
<1>3. /\ OthersStay(q) /\ SameRequest(q) /\ Knows(q)'
      /\ \/ pc'[q] = "source" /\ fid'[q] = k
         \/ pc'[q] = "idle" /\ sha[k] = Empty
  <2>1. CASE q \in Threads
    <3>1. Goto(q, "source")
      BY <1>0, <1>1, <2>1, NoFault DEF LinkFresh, InsertPath, InsertPathRefused, NoResult
    <3>2. /\ OthersStay(q) /\ SameRequest(q) /\ pc'[q] = "source"
          /\ UNCHANGED <<name, hash, fid, fd, base, got>>
      BY <3>1, GoesOn
    <3>3. Complete(Host[q], hash[q])'
      BY <1>0, <3>2 DEF Complete
    <3>4. Knows(q)'
      BY <1>0, <1>a, <1>2, <3>2, <3>3 DEF ApartInv, Knows, KnowsRow, KnowsFile, KeepsRole,
         NameIsFree,
       HasRow, HasContent, OpensFile, Reads, Removes, Recycles
    <3>. QED
      BY <1>a, <3>2, <3>4
  <2>2. CASE q \notin Threads
    <3>1. Done(q)
      BY <1>0, <1>1, <2>2, NoFault DEF LinkFresh, InsertPath, InsertPathRefused, NoResult
    <3>2. sha[k] = Empty
      BY <1>0, <1>2, <2>2 DEF ApartInv, KeepsRole, Removes, Procs
    <3>. QED
      BY <3>1, <3>2, EndsClean
  <2>. QED
    BY <2>1, <2>2
<1>4. Owed(k)' = Booked(k)'
  <2>1. /\ Owes(q, k) = 1 /\ Owes(q, k)' = 0 /\ Books(q, k) = 0 /\ Books(q, k)' = 0
    BY <1>0, <1>a, <1>3 DEF Owes, Books
  <2>2. Cardinality(LinksOf(k)') = Cardinality(LinksOf(k)) + 1
    BY <1>a, <1>1, LinkIsAdded
  <2>3. /\ Owed(k) = Cardinality(LinksOf(k)) + Owes(q, k)
        /\ Owed(k)' = Cardinality(LinksOf(k)') + Owes(q, k)'
        /\ Booked(k) = count[k] + Books(q, k)
        /\ Booked(k)' = count'[k] + Books(q, k)'
    BY <1>0, <1>2, <1>3, Reckon
  <2>4. Owed(k) = Booked(k)
    BY <1>2 DEF ApartInv, CountExact
  <2>. QED
    BY <1>0, <2>1, <2>2, <2>3, <2>4, Sizes
<1>5. pc'[q] \in HasRow => fid'[q] = k
  BY <1>3 DEF HasRow
<1>6. OnlyRow(q, k)
  BY <1>0, <1>a, <1>1, LinkIsAdded DEF OnlyRow
<1>7. RowGoesOn(q, k)
  BY <1>0, <1>2, <1>3, <1>4 DEF RowGoesOn
<1>. QED
  BY <1>0, <1>a, <1>3, <1>5, <1>6, <1>7, MyRowStep

\* A row whose upload is over has a source, unless its content is empty.
LEMMA MyRowHasSource ==
  ASSUME TypeOK, ApartInv, NEW q \in Procs,
         pc[q] \in HasRow \ {"linkFresh", "source", "rmRow"}
  PROVE  sha[fid[q]] = Empty \/ \E r \in sources : r[1] = fid[q]
<1>1. fid[q] \in files
  BY OnlyMyRow
<1>2. \A p \in Procs : pc[p] \in {"linkFresh", "source", "rmRow"} /\ fid[p] = fid[q] => FALSE
  BY MineAlone DEF HasRow
<1>. QED
  BY <1>1, <1>2 DEF ApartInv, RowsStand

\* The link comes first, the count that stands for it is still to be added.
LEMMA LinkApart ==
  ASSUME Undisturbed, TypeOK, TypeOK', ApartInv, NEW q \in Procs, Link(q)
  PROVE  ApartInv'
<1>0. /\ pc[q] = "link" /\ pc[q] \in HasRow
      /\ UNCHANGED <<files, sha, count, nextId, sources, disk>>
      /\ paths[name[q]] = NoId /\ Complete(Host[q], hash[q])
  BY DEF Link, ApartInv, KnowsRow, KnowsFile, NameIsFree, HasContent, HasRow
<1>1. InsertPath(q) /\ Goto(q, "addRef")
  BY <1>0, NoFault DEF Link, InsertPathRefused, NoResult
<1>a. PICK k \in FileIds : k = fid[q]
  BY <1>0, OnlyMyRow
<1>2. /\ k \in files /\ sha[k] = hash[q] /\ count[k] > 0
      /\ sha[k] = Empty \/ \E r \in sources : r[1] = k
  BY <1>0, <1>a, OnlyMyRow, MyRowIsUsed, MyRowHasSource DEF HasRow, Recycles
<1>3. /\ OthersStay(q) /\ SameRequest(q) /\ pc'[q] = "addRef"
      /\ UNCHANGED <<name, hash, fid, fd, base, got>>
  BY <1>1, GoesOn
<1>4. Knows(q)'
  <2>1. Complete(Host[q], hash[q])'
    BY <1>0, <1>3 DEF Complete
  <2>. QED
    BY <1>0, <1>a, <1>2, <1>3, <2>1 DEF ApartInv, Knows, KnowsRow, KnowsFile, KeepsRole,
       NameIsFree,
       HasRow, HasContent, OpensFile, Reads, Removes, Recycles
<1>5. Owed(k)' = Booked(k)'
  <2>1. /\ Owes(q, k) = 0 /\ Owes(q, k)' = 0 /\ Books(q, k) = 0 /\ Books(q, k)' = 1
    BY <1>0, <1>a, <1>3 DEF Owes, Books
  <2>2. Cardinality(LinksOf(k)') = Cardinality(LinksOf(k)) + 1
    BY <1>a, <1>1, LinkIsAdded
  <2>3. /\ Owed(k) = Cardinality(LinksOf(k)) + Owes(q, k)
        /\ Owed(k)' = Cardinality(LinksOf(k)') + Owes(q, k)'
        /\ Booked(k) = count[k] + Books(q, k)
        /\ Booked(k)' = count'[k] + Books(q, k)'
    BY <1>0, <1>2, <1>3, Reckon
  <2>4. Owed(k) = Booked(k) /\ count[k] \in Nat
    BY <1>2 DEF ApartInv, CountExact, TypeOK, TablesOK
  <2>. QED
    BY <1>0, <2>1, <2>2, <2>3, <2>4, Sizes
<1>6. OnlyRow(q, k)
  BY <1>0, <1>a, <1>1, LinkIsAdded DEF OnlyRow
<1>7. RowGoesOn(q, k)
  BY <1>0, <1>2, <1>5 DEF RowGoesOn
<1>. QED
  BY <1>0, <1>a, <1>3, <1>4, <1>6, <1>7, MyRowStep

\* The paths, and with them the links of every row, stay.
LEMMA LinksStay ==
  ASSUME NEW q, NEW k, UNCHANGED paths
  PROVE  /\ \A n \in Names \ {name[q]} : paths'[n] = paths[n]
         /\ LeadsTo(q, k)
         /\ Cardinality(LinksOf(k)') = Cardinality(LinksOf(k))
<1>1. LinksOf(k)' = LinksOf(k)
  BY DEF LinksOf
<1>. QED
  BY <1>1 DEF LeadsTo

LEMMA AddRefApart ==
  ASSUME Undisturbed, TypeOK, TypeOK', ApartInv, NEW q \in Procs, AddRef(q)
  PROVE  ApartInv'
<1>0. /\ pc[q] = "addRef" /\ pc[q] \in HasRow
      /\ UNCHANGED <<paths, files, sha, nextId, sources, disk>>
      /\ Complete(Host[q], hash[q])
  BY DEF AddRef, ApartInv, KnowsRow, KnowsFile, HasContent, HasRow
<1>a. PICK k \in FileIds : k = fid[q]
  BY <1>0, OnlyMyRow
<1>2. /\ k \in files /\ sha[k] = hash[q] /\ count[k] > 0 /\ count[k] \in Nat
      /\ sha[k] = Empty \/ \E r \in sources : r[1] = k
  BY <1>0, <1>a, OnlyMyRow, MyRowIsUsed, MyRowHasSource
     DEF HasRow, Recycles, TypeOK, TablesOK
<1>1. /\ count'[k] = count[k] + 1
      /\ \A f \in files \ {k} : count'[f] = count[f]
  BY <1>a, <1>2, NoFault DEF AddRef, TypeOK, TablesOK
<1>3. /\ OthersStay(q) /\ SameRequest(q) /\ Knows(q)'
      /\ \/ pc'[q] = "source" /\ fid'[q] = k
         \/ pc'[q] = "idle"
  <2>1. CASE Goto(q, "source")
    <3>2. /\ OthersStay(q) /\ SameRequest(q) /\ pc'[q] = "source"
          /\ UNCHANGED <<name, hash, fid, fd, base, got>>
      BY <2>1, GoesOn
    <3>3. Complete(Host[q], hash[q])'
      BY <1>0, <3>2 DEF Complete
    <3>4. Knows(q)'
      BY <1>0, <1>a, <1>2, <3>2, <3>3 DEF ApartInv, Knows, KnowsRow, KnowsFile, KeepsRole,
         NameIsFree,
       HasRow, HasContent, OpensFile, Reads, Removes, Recycles
    <3>. QED
      BY <1>a, <3>2, <3>4
  <2>2. CASE Done(q)
    BY <2>2, EndsClean
  <2>. QED
    BY <2>1, <2>2, NoFault DEF AddRef
<1>5. Owed(k)' = Booked(k)'
  <2>1. /\ Owes(q, k) = 0 /\ Owes(q, k)' = 0 /\ Books(q, k) = 1 /\ Books(q, k)' = 0
    BY <1>0, <1>a, <1>3 DEF Owes, Books
  <2>3. /\ Owed(k) = Cardinality(LinksOf(k)) + Owes(q, k)
        /\ Owed(k)' = Cardinality(LinksOf(k)') + Owes(q, k)'
        /\ Booked(k) = count[k] + Books(q, k)
        /\ Booked(k)' = count'[k] + Books(q, k)'
    BY <1>0, <1>2, <1>3, Reckon
  <2>4. Owed(k) = Booked(k)
    BY <1>2 DEF ApartInv, CountExact
  <2>5. Cardinality(LinksOf(k)') = Cardinality(LinksOf(k))
    BY <1>0, LinksStay
  <2>. QED
    BY <1>1, <1>2, <2>1, <2>3, <2>4, <2>5, Sizes
<1>6. OnlyRow(q, k)
  BY <1>0, <1>1, LinksStay DEF OnlyRow
<1>7. RowGoesOn(q, k)
  BY <1>0, <1>1, <1>2, <1>5 DEF RowGoesOn
<1>8. pc'[q] \in HasRow => fid'[q] = k
  BY <1>3 DEF HasRow
<1>. QED
  BY <1>0, <1>a, <1>3, <1>6, <1>7, <1>8, MyRowStep

\* The account of a row whose count and links stay while q's statement about it
\* does not stand for a link, an addition or a removal, before and after.
LEMMA NothingOwed ==
  ASSUME TypeOK, ApartInv, NEW q \in Procs, pc[q] # "idle", OthersStay(q),
         NEW k, k \in files, sha[k] = hash[q], UNCHANGED paths, count'[k] = count[k],
         CountsAs(q)
  PROVE  Owed(k)' = Booked(k)'
<1>1. Owes(q, k)' = Owes(q, k) /\ Books(q, k)' = Books(q, k)
  BY DEF Owes, Books, CountsAs
<1>2. /\ Owed(k) = Cardinality(LinksOf(k)) + Owes(q, k)
      /\ Owed(k)' = Cardinality(LinksOf(k)') + Owes(q, k)'
      /\ Booked(k) = count[k] + Books(q, k)
      /\ Booked(k)' = count'[k] + Books(q, k)'
  BY Reckon
<1>3. Owed(k) = Booked(k) /\ Cardinality(LinksOf(k)') = Cardinality(LinksOf(k))
  BY LinksStay DEF ApartInv, CountExact
<1>. QED
  BY <1>1, <1>2, <1>3

LEMMA PutsSourceApart ==
  ASSUME Undisturbed, TypeOK, TypeOK', ApartInv, NEW q \in Threads, PutsSource(q)
  PROVE  ApartInv'
<1>0. /\ q \in Procs /\ pc[q] = "source" /\ pc[q] \in HasRow
      /\ UNCHANGED <<paths, files, sha, count, nextId, disk>> /\ Done(q)
      /\ Complete(Host[q], hash[q])
      /\ sources' = sources \cup {<<fid[q], Host[q]>>}
  BY NoFault DEF PutsSource, ApartInv, KnowsFile, HasContent, HasRow, Procs
<1>a. PICK k \in FileIds : k = fid[q]
  BY <1>0, OnlyMyRow
<1>2. k \in files /\ sha[k] = hash[q] /\ count[k] > 0
  BY <1>0, <1>a, OnlyMyRow, MyRowIsUsed DEF HasRow, Recycles
<1>3. OthersStay(q) /\ SameRequest(q) /\ pc'[q] = "idle" /\ Knows(q)'
  BY <1>0, EndsClean
<1>4. CountsAs(q)
  BY <1>0, <1>3 DEF CountsAs
<1>5. Owed(k)' = Booked(k)'
  BY <1>0, <1>2, <1>3, <1>4, NothingOwed
<1>6. OnlyRow(q, k)
  BY <1>0, <1>a, LinksStay DEF OnlyRow
<1>7. RowGoesOn(q, k)
  <2>1. \E r \in sources' : r[1] = k
    <3>1. <<k, Host[q]>> \in sources' /\ <<k, Host[q]>>[1] = k
      BY <1>0, <1>a
    <3>. QED
      BY <3>1
  <2>. QED
    BY <1>0, <1>2, <1>5, <2>1 DEF RowGoesOn
<1>8. pc'[q] \notin HasRow
  BY <1>3 DEF HasRow
<1>. QED
  BY <1>0, <1>a, <1>3, <1>6, <1>7, <1>8, MyRowStep

\* The link becomes a removal under way.
LEMMA RmPathApart ==
  ASSUME Undisturbed, TypeOK, TypeOK', ApartInv, NEW q \in Controls, RmPath(q)
  PROVE  ApartInv'
<1>0. /\ q \in Procs /\ pc[q] = "rmPath" /\ pc[q] \in HasRow
      /\ UNCHANGED <<files, sha, count, nextId, sources, disk>>
      /\ paths[name[q]] = fid[q] /\ Goto(q, "rmInfo")
  BY NoFault DEF RmPath, ApartInv, KnowsRow, HasRow, Procs
<1>a. PICK k \in FileIds : k = fid[q]
  BY <1>0, OnlyMyRow
<1>1. /\ k # NoId /\ name[q] \in Names /\ paths[name[q]] = k
      /\ paths' = [paths EXCEPT ![name[q]] = NoId]
  BY <1>0, <1>a, NoFault DEF RmPath, FileIds, NoId, TypeOK, LocalsOK
<1>2. /\ k \in files /\ sha[k] = hash[q] /\ count[k] > 0 /\ count[k] \in Nat
      /\ sha[k] = Empty \/ \E r \in sources : r[1] = k
  BY <1>0, <1>a, OnlyMyRow, MyRowIsUsed, MyRowHasSource
     DEF HasRow, Recycles, TypeOK, TablesOK
<1>3. /\ OthersStay(q) /\ SameRequest(q) /\ pc'[q] = "rmInfo"
      /\ UNCHANGED <<name, hash, fid, fd, base, got>>
  BY <1>0, GoesOn
<1>4. Knows(q)'
  BY <1>0, <1>a, <1>2, <1>3 DEF ApartInv, Knows, KnowsRow, KnowsFile, KeepsRole, NameIsFree,
       HasRow, HasContent, OpensFile, Reads, Removes, Recycles
<1>5. Owed(k)' = Booked(k)'
  <2>1. /\ Owes(q, k) = 0 /\ Owes(q, k)' = 1 /\ Books(q, k) = 0 /\ Books(q, k)' = 0
    BY <1>0, <1>a, <1>3 DEF Owes, Books
  <2>2. Cardinality(LinksOf(k)') = Cardinality(LinksOf(k)) - 1
    <3>1. name[q] \in LinksOf(k) /\ LinksOf(k)' = LinksOf(k) \ {name[q]}
      BY <1>1 DEF LinksOf, TypeOK, TablesOK
    <3>. QED
      BY <3>1, FiniteBoth, FS_RemoveElement DEF Finite
  <2>3. /\ Owed(k) = Cardinality(LinksOf(k)) + Owes(q, k)
        /\ Owed(k)' = Cardinality(LinksOf(k)') + Owes(q, k)'
        /\ Booked(k) = count[k] + Books(q, k)
        /\ Booked(k)' = count'[k] + Books(q, k)'
    BY <1>0, <1>2, <1>3, Reckon
  <2>4. Owed(k) = Booked(k)
    BY <1>2 DEF ApartInv, CountExact
  <2>. QED
    BY <1>0, <1>2, <2>1, <2>2, <2>3, <2>4, Sizes
<1>6. OnlyRow(q, k)
  <2>1. (\A n \in Names \ {name[q]} : paths'[n] = paths[n]) /\ LeadsTo(q, k)
    BY <1>1 DEF LeadsTo, TypeOK, TablesOK
  <2>. QED
    BY <1>0, <2>1 DEF OnlyRow
<1>7. RowGoesOn(q, k)
  BY <1>0, <1>2, <1>5 DEF RowGoesOn
<1>. QED
  BY <1>0, <1>a, <1>3, <1>4, <1>6, <1>7, MyRowStep

LEMMA SubRefApart ==
  ASSUME Undisturbed, TypeOK, TypeOK', ApartInv, NEW q \in Controls, SubRef(q)
  PROVE  ApartInv'
<1>0. /\ q \in Procs /\ pc[q] = "subRef" /\ pc[q] \in HasRow
      /\ UNCHANGED <<paths, files, sha, nextId, sources, disk>>
      /\ Goto(q, "getRef")
  BY NoFault DEF SubRef, HasRow, Procs
<1>a. PICK k \in FileIds : k = fid[q]
  BY <1>0, OnlyMyRow
<1>2. /\ k \in files /\ sha[k] = hash[q] /\ count[k] > 0 /\ count[k] \in Nat
      /\ sha[k] = Empty \/ \E r \in sources : r[1] = k
  BY <1>0, <1>a, OnlyMyRow, MyRowIsUsed, MyRowHasSource
     DEF HasRow, Recycles, TypeOK, TablesOK
<1>1. count'[k] = count[k] - 1 /\ \A f \in files \ {k} : count'[f] = count[f]
  BY <1>a, <1>2, NoFault DEF SubRef, TypeOK, TablesOK
<1>3. /\ OthersStay(q) /\ SameRequest(q) /\ pc'[q] = "getRef"
      /\ UNCHANGED <<name, hash, fid, fd, base, got>>
  BY <1>0, GoesOn
<1>4. Knows(q)'
  BY <1>0, <1>a, <1>2, <1>3 DEF ApartInv, Knows, KnowsRow, KnowsFile, KeepsRole, NameIsFree,
       HasRow, HasContent, OpensFile, Reads, Removes, Recycles
<1>5. Owed(k)' = Booked(k)'
  <2>1. /\ Owes(q, k) = 1 /\ Owes(q, k)' = 0 /\ Books(q, k) = 0 /\ Books(q, k)' = 0
    BY <1>0, <1>a, <1>3 DEF Owes, Books
  <2>3. /\ Owed(k) = Cardinality(LinksOf(k)) + Owes(q, k)
        /\ Owed(k)' = Cardinality(LinksOf(k)') + Owes(q, k)'
        /\ Booked(k) = count[k] + Books(q, k)
        /\ Booked(k)' = count'[k] + Books(q, k)'
    BY <1>0, <1>2, <1>3, Reckon
  <2>4. Owed(k) = Booked(k)
    BY <1>2 DEF ApartInv, CountExact
  <2>5. Cardinality(LinksOf(k)') = Cardinality(LinksOf(k))
    BY <1>0, LinksStay
  <2>. QED
    BY <1>1, <1>2, <2>1, <2>3, <2>4, <2>5, Sizes
<1>6. OnlyRow(q, k)
  BY <1>0, <1>1, LinksStay DEF OnlyRow
<1>7. RowGoesOn(q, k)
  BY <1>0, <1>a, <1>2, <1>3, <1>5 DEF RowGoesOn
<1>. QED
  BY <1>0, <1>a, <1>3, <1>4, <1>6, <1>7, MyRowStep

LEMMA RmSourcesApart ==
  ASSUME Undisturbed, TypeOK, TypeOK', ApartInv, NEW q \in Controls, RmSources(q)
  PROVE  ApartInv'
<1>0. /\ q \in Procs /\ pc[q] = "rmSources" /\ pc[q] \in HasRow
      /\ UNCHANGED <<paths, files, sha, count, nextId, disk>>
      /\ Goto(q, "rmRow") /\ sources' = {r \in sources : r[1] # fid[q]}
  BY NoFault DEF RmSources, HasRow, Procs
<1>a. PICK k \in FileIds : k = fid[q]
  BY <1>0, OnlyMyRow
<1>2. k \in files /\ sha[k] = hash[q] /\ count[k] = 0
  BY <1>0, <1>a, OnlyMyRow DEF ApartInv, KnowsRow, Recycles
<1>3. /\ OthersStay(q) /\ SameRequest(q) /\ pc'[q] = "rmRow"
      /\ UNCHANGED <<name, hash, fid, fd, base, got>>
  BY <1>0, GoesOn
<1>4. Knows(q)'
  BY <1>0, <1>a, <1>2, <1>3 DEF ApartInv, Knows, KnowsRow, KnowsFile, KeepsRole, NameIsFree,
       HasRow, HasContent, OpensFile, Reads, Removes, Recycles
<1>5. Owed(k)' = Booked(k)'
  <2>1. CountsAs(q)
    BY <1>0, <1>3 DEF CountsAs
  <2>. QED
    BY <1>0, <1>2, <1>3, <2>1, NothingOwed
<1>6. OnlyRow(q, k)
  BY <1>0, <1>a, LinksStay DEF OnlyRow
<1>7. RowGoesOn(q, k)
  BY <1>0, <1>a, <1>2, <1>3, <1>5 DEF RowGoesOn, Recycles
<1>. QED
  BY <1>0, <1>a, <1>3, <1>4, <1>6, <1>7, MyRowStep

\* A row whose count is zero at the end of rm has no link left.
LEMMA NoLinkLeft ==
  ASSUME TypeOK, ApartInv, NEW q \in Procs, pc[q] = "rmRow"
  PROVE  LinksOf(fid[q]) = {}
<1>1. /\ fid[q] \in files /\ count[fid[q]] = 0
  BY OnlyMyRow DEF ApartInv, KnowsRow, Recycles, HasRow
<1>2. Adding(fid[q]) = {}
  BY <1>1, MineAlone DEF Adding, At, HasRow
<1>3. Booked(fid[q]) = 0
  BY <1>1, <1>2, FS_EmptySet DEF Booked
<1>4. Cardinality(LinksOf(fid[q])) = 0
  <2>1. Owed(fid[q]) = 0
    BY <1>1, <1>3 DEF ApartInv, CountExact
  <2>. QED
    BY <2>1, Sizes DEF Owed
<1>. QED
  BY <1>4, FiniteSets, FS_EmptySet

LEMMA RmRowApart ==
  ASSUME Undisturbed, TypeOK, TypeOK', ApartInv, NEW q \in Controls, RmRow(q)
  PROVE  ApartInv'
<1>0. /\ q \in Procs /\ pc[q] = "rmRow" /\ pc[q] \in HasRow
      /\ UNCHANGED <<paths, sha, count, nextId, sources, disk>>
      /\ Done(q) /\ files' = files \ {fid[q]}
  BY NoFault DEF RmRow, HasRow, Procs
<1>a. PICK k \in FileIds : k = fid[q]
  BY <1>0, OnlyMyRow
<1>1. \A f \in files : sha[f] = hash[q] <=> f = k
  BY <1>0, <1>a, OnlyMyRow
<1>2. OthersStay(q) /\ SameRequest(q) /\ pc'[q] = "idle" /\ Knows(q)'
  BY <1>0, EndsClean
<1>3. TouchesOwn(q)
  <2>1. nextId <= nextId'
    BY <1>0 DEF TypeOK, TablesOK
  <2>. QED
    BY <1>0, <1>a, <1>1, <1>2, <2>1 DEF TouchesOwn
<1>4. RowIsGood(q, k) /\ LeadsTo(q, k)
  BY <1>0, <1>a, <1>1 DEF RowIsGood, LeadsTo
<1>5. \A n \in Names : paths'[n] # NoId => paths'[n] \in files'
  <2>1. \A n \in Names : paths[n] # k
    BY <1>0, <1>a, NoLinkLeft DEF LinksOf
  <2>. QED
    BY <1>0, <1>a, <2>1 DEF ApartInv, RowsStand
<1>6. \A r \in sources' : r[1] \in files'
  BY <1>0, <1>a DEF ApartInv, SourcesStand, KnowsRow
<1>7. pc[q] \notin {"idle", "recv"} /\ pc'[q] \notin HasRow
  BY <1>0, <1>2 DEF HasRow
<1>. QED
  BY <1>0, <1>a, <1>2, <1>3, <1>4, <1>5, <1>6, <1>7, OwnStep

-----------------------------------------------------------------------------
(* How a request starts.                                                    *)

\* Nobody is busy with the content or the name of the request that starts.
LEMMA NobodyElse ==
  ASSUME Undisturbed, NEW q \in Procs, NEW command, NEW n, NEW h, NEW label,
         Start(q, command, n, h, label)
  PROVE  \A p \in Procs \ {q} : pc[p] # "idle" => name[p] # n /\ hash[p] # h
  BY DEF Undisturbed, Start, Admit

LEMMA StartsApart ==
  ASSUME Undisturbed, TypeOK, TypeOK', ApartInv, NEW q \in Procs,
         NEW command, NEW n \in Names, NEW h \in Hashes, NEW label,
         Start(q, command, n, h, label),
         label \in {"lookup", "getPath", "touchLookup", "rmLookup"},
         label \in {"getPath", "rmLookup"} /\ paths[n] # NoId => sha[paths[n]] = h,
         label = "getPath" /\ disk[Host[q]][h].there => Complete(Host[q], h),
         q \in Controls => h = Empty \/ label = "rmLookup",
         label = "touchLookup" => h = Empty
  PROVE  ApartInv'
<1>1. /\ OthersStay(q) /\ pc[q] = "idle" /\ pc'[q] = label
      /\ name'[q] = n /\ hash'[q] = h /\ UNCHANGED <<tables, disk, fid, fd, base, got>>
      /\ UNCHANGED <<paths, files, sha, count, nextId, sources>>
  BY DEF Start, OthersStay, TypeOK, LocalsOK, tables
<1>2. Apart'
  <2>1. \A p \in Procs \ {q} : pc'[p] # "idle" => name'[p] # n /\ hash'[p] # h
    BY <1>1, NobodyElse DEF OthersStay
  <2>. QED
    BY <1>1, <2>1 DEF ApartInv, Apart, OthersStay
<1>3. CountExact'
  <2>1. CountsAs(q)
    BY <1>1 DEF CountsAs
  <2>. QED
    BY <1>1, <2>1, CountsStay DEF ApartInv
<1>4. RowsStand'
  <2>1. \A f \in files : count[f] > 0 \/ \E p \in Procs :
          pc'[p] \in {"getRef"} \cup Recycles /\ fid'[p] = f
    BY <1>1 DEF ApartInv, RowsStand, OthersStay, Recycles
  <2>2. \A f \in files :
          \/ sha[f] = Empty \/ \E r \in sources : r[1] = f
          \/ \E p \in Procs : pc'[p] \in {"linkFresh", "source", "rmRow"} /\ fid'[p] = f
    BY <1>1 DEF ApartInv, RowsStand, OthersStay
  <2>. QED
    BY <1>1, <2>1, <2>2 DEF ApartInv, RowsStand
<1>5. SourcesStand' /\ NeverLonger' /\ CommittedComplete' /\ SourcesHold'
  BY <1>1 DEF ApartInv, SourcesStand, NeverLonger, CommittedComplete, SourcesHold, Complete
<1>6. NoHoles'
  <2>1. ASSUME NEW t \in Threads, fd[t] = "open", pc[t] = "recv"
        PROVE  fd'[t] = "open" /\ pc'[t] = "recv" /\ hash'[t] = hash[t]
    BY <1>1, <2>1 DEF OthersStay, Procs
  <2>. QED
    BY <1>1, <2>1 DEF ApartInv, NoHoles
<1>7. ASSUME NEW p \in Procs \ {q} PROVE Knows(p)'
  BY <1>1, <1>7, KnowsStay
<1>8. Knows(q)'
  <2>1. fd[q] = "none" /\ got[q] = 0
    BY <1>1 DEF ApartInv, KeepsRole, KnowsFile, OpensFile, TypeOK, LocalsOK
  <2>2. KnowsRow(q)'
    BY <1>1 DEF KnowsRow, NameIsFree, HasRow, Recycles
  <2>3. KnowsFile(q)'
    <3>1. (StoreFile(q).there => Complete(Host[q], hash[q]))' \/ label # "getPath"
      BY <1>1 DEF StoreFile, Complete
    <3>. QED
      BY <1>1, <2>1, <3>1 DEF KnowsFile, HasContent, Reads
  <2>4. KeepsRole(q)'
    BY <1>1, <2>1 DEF KeepsRole, Removes
  <2>. QED
    BY <2>2, <2>3, <2>4 DEF Knows
<1>. QED
  BY <1>2, <1>3, <1>4, <1>5, <1>6, <1>7, <1>8 DEF ApartInv, Knows

\* An empty store file, wherever it is, is complete.
LEMMA EmptyIsComplete ==
  ASSUME TypeOK, ApartInv, NEW s \in Servers, disk[s][Empty].there
  PROVE  Complete(s, Empty)
<1>1. /\ Empty \in Hashes /\ Size[Empty] = 0 /\ disk[s][Empty].len \in Nat
  BY StoreAssumption DEF TypeOK, DiskOK
<1>2. \A t \in Threads : pc[t] = "recv" => hash[t] # Empty
  BY <1>1, RecvCell DEF Procs
<1>. QED
  BY <1>1, <1>2 DEF ApartInv, NeverLonger, NoHoles, Complete

\* A server that may be asked for a file has it whole, or not at all.
LEMMA OfferedIsWhole ==
  ASSUME TypeOK, ApartInv, NEW s \in Servers, NEW n \in Names, Offered(paths[n], s),
         paths[n] # NoId, NEW q \in Procs, pc[q] = "idle",
         \A p \in Procs \ {q} : pc[p] # "idle" => hash[p] # sha[paths[n]],
         disk[s][sha[paths[n]]].there
  PROVE  Complete(s, sha[paths[n]])
<1> DEFINE f == paths[n]
<1>1. f \in files
  BY DEF ApartInv, RowsStand
<1>2. \A p \in Procs : pc[p] \in HasRow => fid[p] # f
  BY DEF ApartInv, KnowsRow, HasRow
<1>3. count[f] > 0
  BY <1>1, <1>2 DEF ApartInv, RowsStand, HasRow, Recycles
<1>4. CASE <<f, s>> \in sources
  <2>1. <<f, s>>[1] = f /\ <<f, s>>[2] = s
    OBVIOUS
  <2>. QED
    BY <1>1, <1>3, <1>4, <2>1 DEF ApartInv, SourcesHold
<1>5. CASE \A r \in sources : r[1] # f
  <2>1. sha[f] = Empty
    BY <1>1, <1>2, <1>5 DEF ApartInv, RowsStand, HasRow
  <2>. QED
    BY <2>1, EmptyIsComplete
<1>. QED
  BY <1>4, <1>5 DEF Offered

LEMMA StartApart ==
  ASSUME Undisturbed, TypeOK, TypeOK', ApartInv
  PROVE  /\ \A t \in Threads : StartPuts(t) \/ StartGets(t) => ApartInv'
         /\ \A c \in Controls : StartTouch(c) \/ StartRm(c) => ApartInv'
<1>0. /\ NoHash \in Hashes /\ Empty \in Hashes /\ NoHash = Empty
      /\ \A n \in Names : paths[n] # NoId => sha[paths[n]] \in Hashes
      /\ Threads \cap Controls = {} /\ \A p \in Procs : Host[p] \in Servers
  BY StoreAssumption DEF NoHash, TypeOK, TablesOK
<1>1. ASSUME NEW t \in Threads, StartPuts(t) PROVE ApartInv'
  <2>1. PICK n \in Names, h \in Hashes : Start(t, "puts", n, h, "lookup")
    BY <1>1 DEF StartPuts
  <2>. QED
    BY <1>0, <2>1, StartsApart DEF Procs
<1>2. ASSUME NEW t \in Threads, StartGets(t) PROVE ApartInv'
  <2>1. PICK n \in Names :
          /\ Offered(paths[n], Host[t])
          /\ Start(t, "gets", n, IF paths[n] = NoId THEN NoHash ELSE sha[paths[n]],
                   "getPath")
    BY <1>2 DEF StartGets
  <2>2. PICK h \in Hashes : h = IF paths[n] = NoId THEN NoHash ELSE sha[paths[n]]
    BY <1>0
  <2>3. Start(t, "gets", n, h, "getPath") /\ t \in Procs
    BY <2>1, <2>2 DEF Procs
  <2>4. ASSUME disk[Host[t]][h].there PROVE Complete(Host[t], h)
    <3>1. CASE paths[n] = NoId
      BY <1>0, <2>2, <2>3, <2>4, <3>1, EmptyIsComplete
    <3>2. CASE paths[n] # NoId
      <4>1. \A p \in Procs \ {t} : pc[p] # "idle" => hash[p] # h
        BY <2>3, NobodyElse
      <4>2. pc[t] = "idle"
        BY <2>3 DEF Start
      <4>. QED
        BY <1>0, <2>1, <2>2, <2>3, <2>4, <3>2, <4>1, <4>2, OfferedIsWhole
    <3>. QED
      BY <3>1, <3>2
  <2>. QED
    BY <1>0, <2>2, <2>3, <2>4, StartsApart
<1>3. ASSUME NEW c \in Controls, StartTouch(c) PROVE ApartInv'
  <2>1. PICK n \in Names : Start(c, "touch", n, Empty, "touchLookup")
    BY <1>3 DEF StartTouch
  <2>. QED
    BY <1>0, <2>1, StartsApart DEF Procs
<1>4. ASSUME NEW c \in Controls, StartRm(c) PROVE ApartInv'
  <2>1. PICK n \in Names :
          Start(c, "rm", n, IF paths[n] = NoId THEN NoHash ELSE sha[paths[n]], "rmLookup")
    BY <1>4 DEF StartRm
  <2>2. PICK h \in Hashes : h = IF paths[n] = NoId THEN NoHash ELSE sha[paths[n]]
    BY <1>0
  <2>3. Start(c, "rm", n, h, "rmLookup") /\ c \in Procs
    BY <2>1, <2>2 DEF Procs
  <2>. QED
    BY <1>0, <2>2, <2>3, StartsApart
<1>. QED
  BY <1>1, <1>2, <1>3, <1>4

-----------------------------------------------------------------------------
(* The inductive invariant, and what it implies.                            *)

LEMMA InitApart == Init => ApartInv
<1> SUFFICES ASSUME Init PROVE ApartInv
  OBVIOUS
<1>0. \A p \in Procs : pc[p] = "idle" /\ hash[p] = Empty /\ fd[p] = "none" /\ got[p] = 0
  BY DEF Init, NoHash
<1>1. Apart /\ CountExact /\ RowsStand /\ SourcesStand
  BY <1>0 DEF Init, Apart, CountExact, RowsStand, SourcesStand
<1>2. NeverLonger /\ NoHoles
  <2>1. \A h \in Hashes : Size[h] \in Nat
    BY StoreAssumption
  <2>2. NoFile.len = 0 /\ NoFile.good = 1..0
    BY DEF NoFile
  <2>3. \A s \in Servers, h \in Hashes : disk[s][h] = NoFile
    BY DEF Init
  <2>4. \A s \in Servers, h \in Hashes :
          disk[s][h].len = 0 /\ disk[s][h].good = 1..disk[s][h].len
    BY <2>2, <2>3
  <2>5. NeverLonger
    BY <2>1, <2>4 DEF NeverLonger
  <2>6. NoHoles
    BY <2>4 DEF NoHoles
  <2>. QED
    BY <2>5, <2>6
<1>3. CommittedComplete /\ SourcesHold
  BY DEF Init, CommittedComplete, SourcesHold
<1>4. ASSUME NEW p \in Procs PROVE Knows(p)
  BY <1>0 DEF Knows, KnowsRow, KnowsFile, KeepsRole, NameIsFree, HasRow, HasContent,
     OpensFile, Reads, Removes, Recycles
<1>. QED
  BY <1>1, <1>2, <1>3, <1>4 DEF ApartInv, Knows

LEMMA StutterApart ==
  ASSUME ApartInv, UNCHANGED vars
  PROVE  ApartInv'
<1> USE DEF vars, tables, threads, locals
<1>1. /\ Apart' /\ RowsStand' /\ SourcesStand' /\ NeverLonger'
  BY DEF ApartInv, Apart, RowsStand, SourcesStand, NeverLonger
<1>2. CountExact'
  BY DEF ApartInv, CountExact, Owed, Booked, LinksOf, Fresh, Removing, Adding, At
<1>3. CommittedComplete' /\ SourcesHold' /\ NoHoles'
  BY DEF ApartInv, CommittedComplete, SourcesHold, NoHoles, Complete
<1>4. ASSUME NEW p \in Procs PROVE Knows(p)'
  BY DEF ApartInv, Knows, KnowsRow, KnowsFile, KeepsRole, RowsOf, Complete, StoreFile
<1>. QED
  BY <1>1, <1>2, <1>3, <1>4 DEF ApartInv, Knows

LEMMA ApartStep ==
  ASSUME Undisturbed, TypeOK, ApartInv, [Next]_vars
  PROVE  ApartInv'
<1>0. TypeOK'
  BY TypeStep
<1>1. CASE UNCHANGED vars
  BY <1>1, StutterApart
<1>2. ASSUME NEW t \in Threads,
             \/ StartPuts(t) \/ PutsStep(t) \/ PutsRecv(t) \/ StartGets(t) \/ GetsStep(t)
      PROVE  ApartInv'
  BY <1>0, <1>2, StartApart, PutsLookupApart, PutsFindApart, PutsStatApart, PutsOpenApart,
     PutsExtendApart, PutsRecvApart, PutsInterruptedApart, PutsSourceApart,
     InsertFileApart, RefindApart, LinkFreshApart, LinkApart, AddRefApart,
     GetsPathApart, GetsInfoApart, GetsOpenApart, GetsSendApart
  DEF PutsStep, GetsStep, Procs
<1>3. ASSUME NEW c \in Controls, StartTouch(c) \/ TouchStep(c) PROVE ApartInv'
  <2>1. ~TouchUndo(c)
    BY DEF TouchUndo, ApartInv, KeepsRole, Procs
  <2>. QED
    BY <1>0, <1>3, <2>1, StartApart, TouchLookupApart, TouchEnsureApart, TouchFindApart,
       InsertFileApart, RefindApart, LinkFreshApart, LinkApart, AddRefApart
    DEF TouchStep, Procs
<1>4. ASSUME NEW c \in Controls, StartRm(c) \/ RmStep(c) PROVE ApartInv'
  BY <1>0, <1>4, StartApart, RmLookupApart, RmPathApart, RmInfoApart, SubRefApart,
     GetRefApart, UnlinkApart, RmSourcesApart, RmRowApart
  DEF RmStep
<1>5. \A s \in Servers : ~Crash(s)
  BY NoFault
<1>. QED
  BY <1>1, <1>2, <1>3, <1>4, <1>5 DEF Next

LEMMA ApartAlways == Undisturbed => (Spec => [](TypeOK /\ ApartInv))
<1> SUFFICES ASSUME Undisturbed PROVE Spec => [](TypeOK /\ ApartInv)
  OBVIOUS
<1>1. Init => TypeOK /\ ApartInv
  BY InitType, InitApart
<1>2. (TypeOK /\ ApartInv) /\ [Next]_vars => (TypeOK /\ ApartInv)'
  BY TypeStep, ApartStep
<1>. QED
  BY <1>1, <1>2, PTL DEF Spec

\* Without failures, and with clients that keep to different names and contents
\* at a time, the reference count of a content is exactly the number of its
\* logical files, give or take the statements under way (CountExact).
THEOREM CountIsExact == Undisturbed => (Spec => []CountExact)
<1>1. ApartInv => CountExact
  BY DEF ApartInv
<1>. QED
  BY <1>1, ApartAlways, PTL

\* Under the same conditions a counted row stands for a whole store file on some
\* server (handle_puts writes the database last).
THEOREM CommittedIsWhole == Undisturbed => (Spec => []CommittedComplete)
<1>1. ApartInv => CommittedComplete
  BY DEF ApartInv
<1>. QED
  BY <1>1, ApartAlways, PTL

\* Under the same conditions every server listed for a counted row has the whole
\* file, so a download plan built from file_sources can be served.
THEOREM SourcesAreWhole == Undisturbed => (Spec => []SourcesHold)
<1>1. ApartInv => SourcesHold
  BY DEF ApartInv
<1>. QED
  BY <1>1, ApartAlways, PTL

\* Under the same conditions a store file that no upload is writing has exactly
\* the blocks its length claims, however often uploads are interrupted and
\* resumed: the next handshake starts at the first missing block.
THEOREM NoHolesLeft == Undisturbed => (Spec => []NoHoles)
<1>1. ApartInv => NoHoles
  BY DEF ApartInv
<1>. QED
  BY <1>1, ApartAlways, PTL

\* Under the same conditions rm leaves no source behind for a row that is gone.
THEOREM SourcesHaveRows == Undisturbed => (Spec => []NoStaleSource)
<1>1. ApartInv => NoStaleSource
  BY DEF ApartInv, SourcesStand, NoStaleSource
<1>. QED
  BY <1>1, ApartAlways, PTL

\* Under the same conditions what a download has opened is the complete content,
\* from the server it was sent to, until it has been sent.
THEOREM DownloadsAreWhole == Undisturbed => (Spec => []DownloadsComplete)
<1>1. ApartInv => DownloadsComplete
  BY DEF ApartInv, KnowsFile, HasContent, DownloadsComplete, Procs
<1>. QED
  BY <1>1, ApartAlways, PTL

\* Under the same conditions a row is deleted only when no logical file points
\* to it any more (file_cmds.c:171).
THEOREM RecyclesUnlinked == Undisturbed => (Spec => RecycledOnlyWhenUnlinked)
<1> SUFFICES ASSUME Undisturbed PROVE Spec => RecycledOnlyWhenUnlinked
  OBVIOUS
<1>1. TypeOK /\ ApartInv /\ [Next]_vars => [\A f \in files \ files' : LinksOf(f) = {}]_vars
  <2> SUFFICES ASSUME TypeOK, ApartInv, Next, NEW f \in files \ files'
               PROVE  LinksOf(f) = {}
    OBVIOUS
  <2>1. ASSUME NEW c \in Controls, RmRow(c) PROVE LinksOf(f) = {}
    <3>1. f = fid[c] /\ pc[c] = "rmRow" /\ c \in Procs
      BY <2>1 DEF RmRow, Procs
    <3>. QED
      BY <3>1, NoLinkLeft
  <2>2. \A c \in Controls : ~TouchUndo(c)
    BY DEF TouchUndo, ApartInv, KeepsRole, Procs
  <2>3. \A s \in Servers : ~Crash(s)
    BY NoFault
  <2>4. ASSUME NEW t \in Threads,
               \/ StartPuts(t) \/ PutsStep(t) \/ PutsRecv(t) \/ StartGets(t) \/ GetsStep(t)
        PROVE  FALSE
    BY <2>4 DEF StartPuts, StartGets, Start, PutsStep, GetsStep, PutsLookup, PutsFind,
       PutsStat, PutsOpen, PutsExtend, PutsRecv, PutsInterrupted, PutsSource, InsertFile,
       Refind, LinkFresh, Link, AddRef, GetsPath, GetsInfo, GetsOpen, GetsSend, tables
  <2>5. ASSUME NEW c \in Controls, StartTouch(c) \/ StartRm(c) \/ TouchStep(c) PROVE FALSE
    BY <2>2, <2>5 DEF StartTouch, StartRm, Start, TouchStep, TouchLookup, TouchEnsure,
       TouchFind, InsertFile, Refind, LinkFresh, Link, AddRef, tables
  <2>6. ASSUME NEW c \in Controls, RmStep(c) PROVE RmRow(c)
    BY <2>6 DEF RmStep, RmLookup, RmPath, RmInfo, SubRef, GetRef, Unlink, RmSources, tables
  <2>. QED
    BY <2>1, <2>3, <2>4, <2>5, <2>6 DEF Next
<1>. QED
  BY <1>1, ApartAlways, PTL DEF Spec, RecycledOnlyWhenUnlinked

-----------------------------------------------------------------------------
(* The refinement: Store implements Catalog.                                *)

Shown(n) == IF paths[n] = NoId THEN "absent" ELSE sha[paths[n]]

\* No name dangles.
LEMMA CatalogShows ==
  ASSUME TypeOK, ApartInv
  PROVE  catalog = [n \in Names |-> Shown(n)]
<1>1. ASSUME NEW n \in Names
      PROVE  Shown(n) = CASE paths[n] = NoId -> "absent"
                          [] paths[n] \in files -> sha[paths[n]]
                          [] OTHER -> "dangling"
  <2>1. CASE paths[n] = NoId
    <3>1. NoId \notin files
      BY DEF TypeOK, TablesOK, FileIds, NoId
    <3>. QED
      BY <2>1, <3>1 DEF Shown
  <2>2. CASE paths[n] # NoId
    BY <2>2 DEF Shown, ApartInv, RowsStand
  <2>. QED
    BY <2>1, <2>2
<1>. QED
  BY <1>1 DEF catalog

\* The content a name shows is whole on some server.
LEMMA ShownIsStored ==
  ASSUME TypeOK, ApartInv, NEW n \in Names, paths[n] # NoId
  PROVE  Shown(n) \in stored
<1> DEFINE f == paths[n]
<1>1. f \in files /\ sha[f] \in Hashes /\ count[f] \in Nat
  BY DEF ApartInv, RowsStand, TypeOK, TablesOK
<1>2. count[f] > 0
  <2> SUFFICES ASSUME count[f] = 0 PROVE FALSE
    BY <1>1
  <2>1. PICK p \in Procs : pc[p] \in {"getRef"} \cup Recycles /\ fid[p] = f
    BY <1>1 DEF ApartInv, RowsStand
  <2>2. Adding(f) = {}
    BY <2>1, MineAlone DEF Adding, At, HasRow, Recycles
  <2>3. Booked(f) = 0
    BY <2>2, FS_EmptySet DEF Booked
  <2>4. Cardinality(LinksOf(f)) = 0
    <3>1. Owed(f) = 0
      BY <1>1, <2>3 DEF ApartInv, CountExact
    <3>. QED
      BY <3>1, Sizes DEF Owed
  <2>5. LinksOf(f) = {}
    BY <2>4, FiniteSets, FS_EmptySet
  <2>. QED
    BY <2>5 DEF LinksOf
<1>. QED
  BY <1>1, <1>2 DEF ApartInv, CommittedComplete, stored, Shown

\* Both hold in every state, so in the next one as well.
LEMMA ShownNext ==
  TypeOK' /\ ApartInv' =>
    /\ (catalog = [n \in Names |-> Shown(n)])'
    /\ (\A n \in Names : paths[n] # NoId => Shown(n) \in stored)'
<1>1. TypeOK /\ ApartInv =>
        /\ catalog = [n \in Names |-> Shown(n)]
        /\ \A n \in Names : paths[n] # NoId => Shown(n) \in stored
  BY CatalogShows, ShownIsStored
<1>. QED
  BY <1>1, PTL

\* A step that changes no path, no content of a row and at most the copies of
\* one content keeps, brings or takes that content; what is shown stays stored.
LEMMA StoresOrDiscards ==
  ASSUME TypeOK, TypeOK', ApartInv, ApartInv', NEW h \in Hashes,
         paths' = paths, \A f \in files : sha'[f] = sha[f],
         \A s \in Servers, g \in Hashes \ {h} : disk'[s][g] = disk[s][g]
  PROVE  [Promise!Next]_(Promise!vars)
<1>1. \A n \in Names : Shown(n)' = Shown(n)
  BY DEF Shown, ApartInv, RowsStand
<1>2. catalog' = catalog
  <2>1. catalog = [n \in Names |-> Shown(n)]
    BY CatalogShows
  <2>2. catalog' = [n \in Names |-> Shown(n)']
    BY ShownNext
  <2>. QED
    BY <1>1, <2>1, <2>2
<1>3. \A g \in Hashes \ {h} : g \in stored' <=> g \in stored
  BY DEF stored, Complete
<1>4. stored \subseteq Hashes /\ stored' \subseteq Hashes
  BY DEF stored
<1>5. CASE h \in stored' <=> h \in stored
  <2>1. stored' = stored
    BY <1>3, <1>4, <1>5
  <2>. QED
    BY <1>2, <2>1 DEF Promise!vars
<1>6. CASE h \in stored' /\ h \notin stored
  <2>1. stored' = stored \cup {h}
    BY <1>3, <1>4, <1>6
  <2>. QED
    BY <1>2, <2>1 DEF Promise!Next, Promise!Keep
<1>7. CASE h \notin stored' /\ h \in stored
  <2>1. stored' = stored \ {h}
    BY <1>3, <1>4, <1>7
  <2>2. ASSUME NEW n \in Names PROVE catalog[n] # h
    <3>1. catalog[n] = Shown(n) /\ catalog[n] = Shown(n)'
      BY <1>1, CatalogShows
    <3>2. CASE paths[n] = NoId
      BY <3>1, <3>2, StoreAssumption DEF Shown
    <3>3. CASE paths[n] # NoId
      <4>1. Shown(n)' \in stored'
        BY <3>3, ShownNext
      <4>. QED
        BY <1>7, <3>1, <4>1
    <3>. QED
      BY <3>2, <3>3
  <2>. QED
    BY <1>2, <2>1, <2>2 DEF Promise!Next, Promise!Discard
<1>. QED
  BY <1>5, <1>6, <1>7

\* A path appears for a row whose content is stored: it is published.
LEMMA LinkPublishes ==
  ASSUME TypeOK, TypeOK', ApartInv, ApartInv', NEW q \in Procs, InsertPath(q),
         pc[q] \in HasRow, UNCHANGED <<sha, disk>>
  PROVE  [Promise!Next]_(Promise!vars)
<1>1. /\ name[q] \in Names /\ hash[q] \in Hashes /\ paths[name[q]] = NoId
      /\ fid[q] \in FileIds /\ fid[q] # NoId /\ sha[fid[q]] = hash[q]
      /\ paths' = [paths EXCEPT ![name[q]] = fid[q]]
  BY OnlyMyRow DEF InsertPath, TypeOK, LocalsOK, FileIds, NoId
<1>2. \A n \in Names : Shown(n)' = IF n = name[q] THEN hash[q] ELSE Shown(n)
  BY <1>1 DEF Shown, TypeOK, TablesOK
<1>3. catalog' = [catalog EXCEPT ![name[q]] = hash[q]] /\ catalog[name[q]] = "absent"
  <2>1. catalog = [n \in Names |-> Shown(n)]
    BY CatalogShows
  <2>2. catalog' = [n \in Names |-> Shown(n)']
    BY ShownNext
  <2>. QED
    BY <1>1, <1>2, <2>1, <2>2 DEF Shown
<1>4. stored' = stored
  BY DEF stored, Complete
<1>5. hash[q] \in stored
  <2>1. PICK n \in Names : n = name[q]
    BY <1>1
  <2>2. paths'[n] # NoId /\ Shown(n)' = hash[q]
    BY <1>1, <1>2, <2>1 DEF TypeOK, TablesOK
  <2>3. Shown(n)' \in stored'
    BY <2>2, ShownNext
  <2>. QED
    BY <1>4, <2>2, <2>3
<1>. QED
  BY <1>1, <1>3, <1>4, <1>5 DEF Promise!Next, Promise!Publish

\* rm withdraws the name first.
LEMMA RmPathWithdraws ==
  ASSUME TypeOK, TypeOK', ApartInv, ApartInv', NEW q \in Controls,
         pc[q] = "rmPath", UNCHANGED <<sha, disk>>,
         paths' = [paths EXCEPT ![name[q]] = NoId]
  PROVE  [Promise!Next]_(Promise!vars)
<1>1. name[q] \in Names
  BY DEF TypeOK, LocalsOK, Procs
<1>2. \A n \in Names : Shown(n)' = IF n = name[q] THEN "absent" ELSE Shown(n)
  BY <1>1 DEF Shown, TypeOK, TablesOK
<1>3. catalog' = [catalog EXCEPT ![name[q]] = "absent"]
  <2>1. catalog = [n \in Names |-> Shown(n)]
    BY CatalogShows
  <2>2. catalog' = [n \in Names |-> Shown(n)']
    BY ShownNext
  <2>. QED
    BY <1>1, <1>2, <2>1, <2>2
<1>4. stored' = stored
  BY DEF stored, Complete
<1>. QED
  BY <1>1, <1>3, <1>4 DEF Promise!Next, Promise!Withdraw

\* A step of q that adds or takes no link changes at most one copy of its content.
LEMMA StoreFilePromise ==
  ASSUME TypeOK, TypeOK', ApartInv, ApartInv', NEW q \in Procs,
         NEW len, NEW good, SetStoreFile(q, len, good) \/ disk' = disk, UNCHANGED tables
  PROVE  [Promise!Next]_(Promise!vars)
<1>1. hash[q] \in Hashes /\ paths' = paths /\ sha' = sha
  BY DEF TypeOK, LocalsOK, tables
<1>2. \A s \in Servers, g \in Hashes \ {hash[q]} : disk'[s][g] = disk[s][g]
  BY CellIsSet
<1>3. PICK h \in Hashes : h = hash[q]
  BY <1>1
<1>. QED
  BY <1>1, <1>2, <1>3, StoresOrDiscards

\* Neither does one that leaves every store file, path and content of a row.
LEMMA TablesPromise ==
  ASSUME TypeOK, TypeOK', ApartInv, ApartInv', UNCHANGED <<paths, disk>>,
         \A f \in files : sha'[f] = sha[f]
  PROVE  [Promise!Next]_(Promise!vars)
  BY StoresOrDiscards, StoreAssumption

LEMMA UnlinkPromise ==
  ASSUME TypeOK, TypeOK', ApartInv, ApartInv', NEW q \in Procs, Unlink(q)
  PROVE  [Promise!Next]_(Promise!vars)
<1>1. hash[q] \in Hashes /\ paths' = paths /\ sha' = sha
  BY DEF TypeOK, LocalsOK, Unlink, tables
<1>2. \A s \in Servers, g \in Hashes \ {hash[q]} : disk'[s][g] = disk[s][g]
  BY DEF Unlink, TypeOK, DiskOK
<1>3. PICK h \in Hashes : h = hash[q]
  BY <1>1
<1>. QED
  BY <1>1, <1>2, <1>3, StoresOrDiscards

LEMMA InsertFilePromise ==
  ASSUME TypeOK, TypeOK', ApartInv, ApartInv', NEW q \in Procs, InsertFile(q)
  PROVE  [Promise!Next]_(Promise!vars)
<1>1. \A f \in files : f \in FileIds /\ f # nextId
  BY DEF TypeOK, TablesOK, FileIds, ApartInv, RowsStand
<1>2. \A f \in files : sha'[f] = sha[f]
  BY <1>1 DEF InsertFile, TypeOK, TablesOK
<1>. QED
  BY <1>2, TablesPromise DEF InsertFile

LEMMA LinkPromise ==
  ASSUME Undisturbed, TypeOK, TypeOK', ApartInv, ApartInv', NEW q \in Procs,
         LinkFresh(q) \/ Link(q)
  PROVE  [Promise!Next]_(Promise!vars)
<1>1. /\ pc[q] \in {"linkFresh", "link"} /\ UNCHANGED <<sha, disk>>
      /\ InsertPath(q) \/ InsertPathRefused(q)
  BY DEF LinkFresh, Link
<1>2. paths[name[q]] = NoId
  BY <1>1 DEF ApartInv, KnowsRow, NameIsFree
<1>3. InsertPath(q)
  BY <1>1, <1>2, NoFault DEF InsertPathRefused, NoResult
<1>. QED
  BY <1>1, <1>3, LinkPublishes DEF HasRow

LEMMA RmPathPromise ==
  ASSUME Undisturbed, TypeOK, TypeOK', ApartInv, ApartInv', NEW q \in Controls, RmPath(q)
  PROVE  [Promise!Next]_(Promise!vars)
<1>1. /\ pc[q] = "rmPath" /\ UNCHANGED <<sha, disk>>
      /\ paths[name[q]] = fid[q]
  BY DEF RmPath, ApartInv, KnowsRow, Procs
<1>2. paths' = [paths EXCEPT ![name[q]] = NoId]
  BY <1>1, NoFault DEF RmPath
<1>. QED
  BY <1>1, <1>2, RmPathWithdraws

LEMMA PromiseStep ==
  ASSUME Undisturbed, TypeOK, TypeOK', ApartInv, ApartInv', [Next]_vars
  PROVE  [Promise!Next]_(Promise!vars)
<1>1. CASE UNCHANGED vars
  BY <1>1, TablesPromise DEF vars, tables
<1>2. ASSUME NEW p \in Procs,
             \/ PutsLookup(p) \/ PutsFind(p) \/ PutsStat(p) \/ Refind(p)
             \/ GetsStep(p) \/ TouchLookup(p) \/ TouchFind(p)
             \/ RmLookup(p) \/ RmInfo(p) \/ GetRef(p)
             \/ StartPuts(p) \/ StartGets(p) \/ StartTouch(p) \/ StartRm(p)
      PROVE  [Promise!Next]_(Promise!vars)
  <2>1. UNCHANGED <<tables, disk>>
    BY <1>2 DEF PutsLookup, PutsFind, PutsStat, Refind, GetsStep, GetsPath, GetsInfo,
       GetsOpen, GetsSend, TouchLookup, TouchFind, RmLookup, RmInfo, GetRef, StartPuts,
       StartGets, StartTouch, StartRm, Start
  <2>. QED
    BY <2>1, TablesPromise DEF tables
<1>3. ASSUME NEW p \in Procs,
             \/ PutsOpen(p) \/ PutsExtend(p) \/ PutsRecv(p) \/ PutsInterrupted(p)
             \/ TouchEnsure(p)
      PROVE  [Promise!Next]_(Promise!vars)
  <2>1. /\ UNCHANGED tables
        /\ disk' = disk \/ \E len, good : SetStoreFile(p, len, good)
    BY <1>3 DEF PutsOpen, PutsExtend, PutsRecv, PutsInterrupted, TouchEnsure
  <2>. QED
    BY <2>1, StoreFilePromise
<1>4. ASSUME NEW p \in Procs,
             \/ AddRef(p) \/ PutsSource(p) \/ SubRef(p) \/ RmSources(p) \/ RmRow(p)
             \/ TouchUndo(p)
      PROVE  [Promise!Next]_(Promise!vars)
  BY <1>4, TablesPromise DEF AddRef, PutsSource, SubRef, RmSources, RmRow, TouchUndo
<1>5. \A s \in Servers : ~Crash(s)
  BY NoFault
<1>6. ASSUME NEW t \in Threads,
             \/ StartPuts(t) \/ PutsStep(t) \/ PutsRecv(t) \/ StartGets(t) \/ GetsStep(t)
      PROVE  [Promise!Next]_(Promise!vars)
  BY <1>2, <1>3, <1>4, <1>6, InsertFilePromise, LinkPromise DEF PutsStep, Procs
<1>7. ASSUME NEW c \in Controls, StartTouch(c) \/ StartRm(c) \/ TouchStep(c) \/ RmStep(c)
      PROVE  [Promise!Next]_(Promise!vars)
  BY <1>2, <1>3, <1>4, <1>7, InsertFilePromise, LinkPromise, RmPathPromise, UnlinkPromise
  DEF TouchStep, RmStep, Procs
<1>. QED
  BY <1>1, <1>5, <1>6, <1>7 DEF Next

\* Without failures, and with clients that keep to different names and contents
\* at a time, the store keeps what Catalog promises: a name appears only once
\* its content is whole on some server, never dangles, and the last whole copy
\* goes only when no name leads to it.
THEOREM CatalogKept == Undisturbed => (Spec => KeepsCatalog)
<1> SUFFICES ASSUME Undisturbed PROVE Spec => KeepsCatalog
  OBVIOUS
<1>1. Init => Promise!Init
  <2> SUFFICES ASSUME Init PROVE Promise!Init
    OBVIOUS
  <2>1. catalog = [n \in Names |-> "absent"]
    BY DEF Init, catalog
  <2>2. stored = {}
    BY DEF Init, stored, Complete, NoFile
  <2>. QED
    BY <2>1, <2>2 DEF Promise!Init
<1>2. (TypeOK /\ ApartInv) /\ (TypeOK /\ ApartInv)' /\ [Next]_vars
        => [Promise!Next]_(Promise!vars)
  BY PromiseStep
<1>. QED
  BY <1>1, <1>2, ApartAlways, PTL DEF Spec, KeepsCatalog, Promise!Spec

=============================================================================
