----------------------------- MODULE StoreProofs -----------------------------
(* The types and the reference-count invariant of Store, proved for every   *)
(* number of threads, names, contents, failures and crashes.                *)
EXTENDS Store, FiniteSetTheorems, TLAPS

-----------------------------------------------------------------------------
(* Types: what the steps that actions are built from preserve.             *)

LEMMA DefaultsType == NoName \in Names /\ NoHash \in Hashes
  BY StoreAssumption DEF NoName, NoHash

LEMMA DoneType == ASSUME LocalsOK, NEW p \in Procs, Done(p) PROVE LocalsOK'
  BY DefaultsType DEF LocalsOK, Done, Labels

LEMMA GotoType ==
  ASSUME LocalsOK, NEW p \in Procs, NEW label \in Labels, Goto(p, label)
  PROVE  LocalsOK'
  BY DEF LocalsOK, Goto, locals

LEMMA StartType ==
  ASSUME TypeOK, NEW p \in Procs, NEW command, NEW n \in Names,
         NEW h \in Hashes, NEW label \in Labels, Start(p, command, n, h, label)
  PROVE  TypeOK'
  BY DEF TypeOK, TablesOK, DiskOK, LocalsOK, GhostsOK, Start, tables

LEMMA GhostsType ==
  ASSUME GhostsOK, Works \/ Fails, UNCHANGED <<lost, crashes>>
  PROVE  GhostsOK'
  BY DEF GhostsOK, Works, Fails

LEMMA StoreFileType ==
  ASSUME DiskOK, NEW p \in Procs, LocalsOK
  PROVE  /\ StoreFile(p).len \in Nat
         /\ StoreFile(p).good \in SUBSET Nat
         /\ StoreFile(p).there \in BOOLEAN
  BY StoreAssumption DEF DiskOK, LocalsOK, StoreFile

LEMMA DiskType ==
  ASSUME DiskOK, LocalsOK, NEW p \in Procs,
         NEW len \in Nat, NEW good \in SUBSET Nat, SetStoreFile(p, len, good)
  PROVE  DiskOK'
  BY StoreAssumption DEF DiskOK, LocalsOK, SetStoreFile

LEMMA PutsLookupType == ASSUME TypeOK, NEW t \in Procs, PutsLookup(t) PROVE TypeOK'
<1>1. LocalsOK'
  BY DoneType, GotoType, StoreFileType
  DEF PutsLookup, TypeOK, LocalsOK, TablesOK, Labels, RowsOf
<1>2. UNCHANGED <<tables, disk, lost, crashes>> /\ (Works \/ Fails)
  BY DEF PutsLookup, NoResult, Works
<1>. QED  BY <1>1, <1>2, GhostsType DEF TypeOK, TablesOK, DiskOK, tables

LEMMA PutsFindType == ASSUME TypeOK, NEW t \in Procs, PutsFind(t) PROVE TypeOK'
<1>1. LocalsOK'
  BY DoneType, GotoType, StoreFileType
  DEF PutsFind, TypeOK, LocalsOK, TablesOK, Labels, RowsOf
<1>2. UNCHANGED <<tables, disk, lost, crashes>> /\ (Works \/ Fails)
  BY DEF PutsFind, NoResult, Works
<1>. QED  BY <1>1, <1>2, GhostsType DEF TypeOK, TablesOK, DiskOK, tables

LEMMA PutsStatType == ASSUME TypeOK, NEW t \in Procs, PutsStat(t) PROVE TypeOK'
<1>1. LocalsOK'
  BY DoneType, GotoType, StoreFileType
  DEF PutsStat, TypeOK, LocalsOK, TablesOK, Labels, RowsOf
<1>2. UNCHANGED <<tables, disk, lost, crashes>> /\ (Works \/ Fails)
  BY DEF PutsStat, NoResult, Works
<1>. QED  BY <1>1, <1>2, GhostsType DEF TypeOK, TablesOK, DiskOK, tables

LEMMA GetsPathType == ASSUME TypeOK, NEW t \in Procs, GetsPath(t) PROVE TypeOK'
<1>1. LocalsOK'
  BY DoneType, GotoType, StoreFileType
  DEF GetsPath, TypeOK, LocalsOK, TablesOK, Labels, RowsOf
<1>2. UNCHANGED <<tables, disk, lost, crashes>> /\ (Works \/ Fails)
  BY DEF GetsPath, NoResult, Works
<1>. QED  BY <1>1, <1>2, GhostsType DEF TypeOK, TablesOK, DiskOK, tables

LEMMA GetsInfoType == ASSUME TypeOK, NEW t \in Procs, GetsInfo(t) PROVE TypeOK'
<1>1. LocalsOK'
  BY DoneType, GotoType, StoreFileType
  DEF GetsInfo, TypeOK, LocalsOK, TablesOK, Labels, RowsOf
<1>2. UNCHANGED <<tables, disk, lost, crashes>> /\ (Works \/ Fails)
  BY DEF GetsInfo, NoResult, Works
<1>. QED  BY <1>1, <1>2, GhostsType DEF TypeOK, TablesOK, DiskOK, tables

LEMMA GetsOpenType == ASSUME TypeOK, NEW t \in Procs, GetsOpen(t) PROVE TypeOK'
<1>1. LocalsOK'
  BY DoneType, GotoType, StoreFileType
  DEF GetsOpen, TypeOK, LocalsOK, TablesOK, Labels, RowsOf
<1>2. UNCHANGED <<tables, disk, lost, crashes>> /\ (Works \/ Fails)
  BY DEF GetsOpen, NoResult, Works
<1>. QED  BY <1>1, <1>2, GhostsType DEF TypeOK, TablesOK, DiskOK, tables

LEMMA GetsSendType == ASSUME TypeOK, NEW t \in Procs, GetsSend(t) PROVE TypeOK'
<1>1. LocalsOK'
  BY DoneType, GotoType, StoreFileType
  DEF GetsSend, TypeOK, LocalsOK, TablesOK, Labels, RowsOf
<1>2. UNCHANGED <<tables, disk, lost, crashes>> /\ (Works \/ Fails)
  BY DEF GetsSend, NoResult, Works
<1>. QED  BY <1>1, <1>2, GhostsType DEF TypeOK, TablesOK, DiskOK, tables

LEMMA RefindType == ASSUME TypeOK, NEW p \in Procs, Refind(p) PROVE TypeOK'
<1>1. LocalsOK'
  BY DoneType, GotoType, StoreFileType
  DEF Refind, TypeOK, LocalsOK, TablesOK, Labels, RowsOf
<1>2. UNCHANGED <<tables, disk, lost, crashes>> /\ (Works \/ Fails)
  BY DEF Refind, NoResult, Works
<1>. QED  BY <1>1, <1>2, GhostsType DEF TypeOK, TablesOK, DiskOK, tables

LEMMA TouchLookupType == ASSUME TypeOK, NEW c \in Procs, TouchLookup(c) PROVE TypeOK'
<1>1. LocalsOK'
  BY DoneType, GotoType, StoreFileType
  DEF TouchLookup, TypeOK, LocalsOK, TablesOK, Labels, RowsOf
<1>2. UNCHANGED <<tables, disk, lost, crashes>> /\ (Works \/ Fails)
  BY DEF TouchLookup, NoResult, Works
<1>. QED  BY <1>1, <1>2, GhostsType DEF TypeOK, TablesOK, DiskOK, tables

LEMMA TouchFindType == ASSUME TypeOK, NEW c \in Procs, TouchFind(c) PROVE TypeOK'
<1>1. LocalsOK'
  BY DoneType, GotoType, StoreFileType
  DEF TouchFind, TypeOK, LocalsOK, TablesOK, Labels, RowsOf
<1>2. UNCHANGED <<tables, disk, lost, crashes>> /\ (Works \/ Fails)
  BY DEF TouchFind, NoResult, Works
<1>. QED  BY <1>1, <1>2, GhostsType DEF TypeOK, TablesOK, DiskOK, tables

LEMMA RmLookupType == ASSUME TypeOK, NEW c \in Procs, RmLookup(c) PROVE TypeOK'
<1>1. LocalsOK'
  BY DoneType, GotoType, StoreFileType
  DEF RmLookup, TypeOK, LocalsOK, TablesOK, Labels, RowsOf
<1>2. UNCHANGED <<tables, disk, lost, crashes>> /\ (Works \/ Fails)
  BY DEF RmLookup, NoResult, Works
<1>. QED  BY <1>1, <1>2, GhostsType DEF TypeOK, TablesOK, DiskOK, tables

LEMMA RmInfoType == ASSUME TypeOK, NEW c \in Procs, RmInfo(c) PROVE TypeOK'
<1>1. LocalsOK'
  BY DoneType, GotoType, StoreFileType
  DEF RmInfo, TypeOK, LocalsOK, TablesOK, Labels, RowsOf
<1>2. UNCHANGED <<tables, disk, lost, crashes>> /\ (Works \/ Fails)
  BY DEF RmInfo, NoResult, Works
<1>. QED  BY <1>1, <1>2, GhostsType DEF TypeOK, TablesOK, DiskOK, tables

LEMMA GetRefType == ASSUME TypeOK, NEW c \in Procs, GetRef(c) PROVE TypeOK'
<1>1. LocalsOK'
  BY DoneType, GotoType, StoreFileType
  DEF GetRef, TypeOK, LocalsOK, TablesOK, Labels, RowsOf
<1>2. UNCHANGED <<tables, disk, lost, crashes>> /\ (Works \/ Fails)
  BY DEF GetRef, NoResult, Works
<1>. QED  BY <1>1, <1>2, GhostsType DEF TypeOK, TablesOK, DiskOK, tables

LEMMA InsertFileType == ASSUME TypeOK, NEW p \in Procs, InsertFile(p) PROVE TypeOK'
<1>0. hash[p] \in Hashes /\ MaxFileId \in Nat
  BY StoreAssumption DEF TypeOK, LocalsOK
<1>1. LocalsOK'
  <2>1. CASE Goto(p, "refind")
    BY <2>1, GotoType DEF TypeOK, Labels
  <2>2. CASE /\ nextId \in FileIds
             /\ fid' = [fid EXCEPT ![p] = nextId]
             /\ pc' = [pc EXCEPT ![p] = "linkFresh"]
             /\ UNCHANGED <<name, hash, fd, base, got>>
    BY <2>2 DEF TypeOK, LocalsOK, Labels
  <2>. QED  BY <1>0, <2>1, <2>2 DEF InsertFile, TypeOK, TablesOK, FileIds
<1>2. TablesOK'
  <2>1. CASE UNCHANGED tables
    BY <2>1 DEF TypeOK, TablesOK, tables
  <2>2. CASE /\ nextId <= MaxFileId
             /\ files' = files \cup {nextId}
             /\ sha' = [sha EXCEPT ![nextId] = hash[p]]
             /\ count' = [count EXCEPT ![nextId] = 1]
             /\ nextId' = nextId + 1
             /\ UNCHANGED <<paths, sources>>
    BY <1>0, <2>2 DEF TypeOK, TablesOK, FileIds
  <2>. QED  BY <2>1, <2>2 DEF InsertFile, tables
<1>3. UNCHANGED <<disk, lost, crashes>> /\ (Works \/ Fails)
  BY DEF InsertFile, NoResult, NoResult
<1>. QED  BY <1>1, <1>2, <1>3, GhostsType DEF TypeOK, DiskOK

LEMMA LinkFreshType == ASSUME TypeOK, NEW p \in Procs, LinkFresh(p) PROVE TypeOK'
<1>1. LocalsOK'
  BY DoneType, GotoType DEF LinkFresh, TypeOK, LocalsOK, TablesOK, Labels, FileIds, InsertPath, InsertPathRefused, NoResult, tables
<1>2. TablesOK'
  BY StoreAssumption DEF LinkFresh, TypeOK, LocalsOK, TablesOK, FileIds, NoId, InsertPath, InsertPathRefused, NoResult, tables
<1>3. UNCHANGED <<disk, lost, crashes>> /\ (Works \/ Fails)
  BY DEF LinkFresh, NoResult, InsertPath, InsertPathRefused, NoResult, tables
<1>. QED  BY <1>1, <1>2, <1>3, GhostsType DEF TypeOK, DiskOK

LEMMA LinkType == ASSUME TypeOK, NEW p \in Procs, Link(p) PROVE TypeOK'
<1>1. LocalsOK'
  BY DoneType, GotoType DEF Link, TypeOK, LocalsOK, TablesOK, Labels, FileIds, InsertPath, InsertPathRefused, NoResult, tables
<1>2. TablesOK'
  BY StoreAssumption DEF Link, TypeOK, LocalsOK, TablesOK, FileIds, NoId, InsertPath, InsertPathRefused, NoResult, tables
<1>3. UNCHANGED <<disk, lost, crashes>> /\ (Works \/ Fails)
  BY DEF Link, NoResult, InsertPath, InsertPathRefused, NoResult, tables
<1>. QED  BY <1>1, <1>2, <1>3, GhostsType DEF TypeOK, DiskOK

LEMMA PutsSourceType == ASSUME TypeOK, NEW t \in Procs, PutsSource(t) PROVE TypeOK'
<1>1. LocalsOK'
  BY DoneType, GotoType DEF PutsSource, TypeOK, LocalsOK, TablesOK, Labels, FileIds
<1>2. TablesOK'
  BY StoreAssumption DEF PutsSource, TypeOK, LocalsOK, TablesOK, FileIds, NoId
<1>3. UNCHANGED <<disk, lost, crashes>> /\ (Works \/ Fails)
  BY DEF PutsSource, NoResult
<1>. QED  BY <1>1, <1>2, <1>3, GhostsType DEF TypeOK, DiskOK

LEMMA TouchUndoType == ASSUME TypeOK, NEW c \in Procs, TouchUndo(c) PROVE TypeOK'
<1>1. LocalsOK'
  BY DoneType, GotoType DEF TouchUndo, TypeOK, LocalsOK, TablesOK, Labels, FileIds
<1>2. TablesOK'
  BY StoreAssumption DEF TouchUndo, TypeOK, LocalsOK, TablesOK, FileIds, NoId
<1>3. UNCHANGED <<disk, lost, crashes>> /\ (Works \/ Fails)
  BY DEF TouchUndo, NoResult
<1>. QED  BY <1>1, <1>2, <1>3, GhostsType DEF TypeOK, DiskOK

LEMMA RmPathType == ASSUME TypeOK, NEW c \in Procs, RmPath(c) PROVE TypeOK'
<1>1. LocalsOK'
  BY DoneType, GotoType DEF RmPath, TypeOK, LocalsOK, TablesOK, Labels, FileIds
<1>2. TablesOK'
  BY StoreAssumption DEF RmPath, TypeOK, LocalsOK, TablesOK, FileIds, NoId
<1>3. UNCHANGED <<disk, lost, crashes>> /\ (Works \/ Fails)
  BY DEF RmPath, NoResult
<1>. QED  BY <1>1, <1>2, <1>3, GhostsType DEF TypeOK, DiskOK

LEMMA SubRefType == ASSUME TypeOK, NEW c \in Procs, SubRef(c) PROVE TypeOK'
<1>1. LocalsOK'
  BY DoneType, GotoType DEF SubRef, TypeOK, LocalsOK, TablesOK, Labels, FileIds
<1>2. TablesOK'
  <2>1. CASE count' = count
    BY <2>1 DEF SubRef, TypeOK, TablesOK
  <2>2. CASE /\ fid[c] \in files /\ count[fid[c]] > 0
             /\ count' = [count EXCEPT ![fid[c]] = @ - 1]
    <3>1. fid[c] \in FileIds /\ count \in [FileIds -> Nat]
      BY <2>2 DEF TypeOK, TablesOK
    <3>2. count[fid[c]] - 1 \in Nat
      BY <2>2, <3>1
    <3>3. count' \in [FileIds -> Nat]
      BY <2>2, <3>1, <3>2
    <3>. QED  BY <3>3 DEF SubRef, TypeOK, TablesOK
  <2>. QED  BY <2>1, <2>2 DEF SubRef
<1>3. UNCHANGED <<disk, lost, crashes>> /\ (Works \/ Fails)
  BY DEF SubRef, NoResult
<1>. QED  BY <1>1, <1>2, <1>3, GhostsType DEF TypeOK, DiskOK

LEMMA RmSourcesType == ASSUME TypeOK, NEW c \in Procs, RmSources(c) PROVE TypeOK'
<1>1. LocalsOK'
  BY DoneType, GotoType DEF RmSources, TypeOK, LocalsOK, TablesOK, Labels, FileIds
<1>2. TablesOK'
  BY StoreAssumption DEF RmSources, TypeOK, LocalsOK, TablesOK, FileIds, NoId
<1>3. UNCHANGED <<disk, lost, crashes>> /\ (Works \/ Fails)
  BY DEF RmSources, NoResult
<1>. QED  BY <1>1, <1>2, <1>3, GhostsType DEF TypeOK, DiskOK

LEMMA RmRowType == ASSUME TypeOK, NEW c \in Procs, RmRow(c) PROVE TypeOK'
<1>1. LocalsOK'
  BY DoneType, GotoType DEF RmRow, TypeOK, LocalsOK, TablesOK, Labels, FileIds
<1>2. TablesOK'
  BY StoreAssumption DEF RmRow, TypeOK, LocalsOK, TablesOK, FileIds, NoId
<1>3. UNCHANGED <<disk, lost, crashes>> /\ (Works \/ Fails)
  BY DEF RmRow, NoResult
<1>. QED  BY <1>1, <1>2, <1>3, GhostsType DEF TypeOK, DiskOK

LEMMA AddRefType == ASSUME TypeOK, NEW p \in Procs, AddRef(p) PROVE TypeOK'
<1>1. LocalsOK'
  BY DoneType, GotoType DEF AddRef, TypeOK, LocalsOK, Labels
<1>2. TablesOK'
  BY DEF AddRef, TypeOK, LocalsOK, TablesOK
<1>3. GhostsOK'
  BY DEF AddRef, TypeOK, LocalsOK, GhostsOK, Works, Fails
<1>. QED  BY <1>1, <1>2, <1>3 DEF AddRef, TypeOK, DiskOK

LEMMA PutsOpenType == ASSUME TypeOK, NEW t \in Procs, PutsOpen(t) PROVE TypeOK'
<1>1. LocalsOK'
  BY DoneType, GotoType, StoreFileType, StoreAssumption
  DEF PutsOpen, TypeOK, LocalsOK, Labels
<1>2. DiskOK'
  <2>1. CASE disk' = disk
    BY <2>1 DEF TypeOK, DiskOK
  <2>2. ASSUME NEW len \in {0, StoreFile(t).len},
               NEW good \in {{}, StoreFile(t).good}, SetStoreFile(t, len, good)
        PROVE  DiskOK'
    BY <2>2, DiskType, StoreFileType DEF TypeOK
  <2>. QED  BY <2>1, <2>2 DEF PutsOpen
<1>3. UNCHANGED <<tables, lost, crashes>> /\ (Works \/ Fails)
  BY DEF PutsOpen, Works
<1>. QED  BY <1>1, <1>2, <1>3, GhostsType DEF TypeOK, TablesOK, tables

LEMMA PutsExtendType == ASSUME TypeOK, NEW t \in Procs, PutsExtend(t) PROVE TypeOK'
<1>1. LocalsOK'
  BY DoneType, GotoType, StoreFileType, StoreAssumption
  DEF PutsExtend, TypeOK, LocalsOK, Labels
<1>2. DiskOK'
  <2>1. CASE disk' = disk
    BY <2>1 DEF TypeOK, DiskOK
  <2>2. CASE SetStoreFile(t, Size[hash[t]], StoreFile(t).good)
    <3>1. Size[hash[t]] \in Nat
      BY StoreAssumption DEF TypeOK, LocalsOK
    <3>. QED  BY <2>2, <3>1, DiskType, StoreFileType DEF TypeOK
  <2>. QED  BY <2>1, <2>2 DEF PutsExtend
<1>3. UNCHANGED <<tables, lost, crashes>> /\ (Works \/ Fails)
  BY DEF PutsExtend, Works
<1>. QED  BY <1>1, <1>2, <1>3, GhostsType DEF TypeOK, TablesOK, tables

LEMMA PutsRecvType == ASSUME TypeOK, NEW t \in Procs, PutsRecv(t) PROVE TypeOK'
<1>1. LocalsOK'
  BY DoneType, GotoType, StoreFileType, StoreAssumption
  DEF PutsRecv, TypeOK, LocalsOK, Labels
<1>2. DiskOK'
  <2>. DEFINE at == base[t] + got[t] + 1
  <2>1. CASE disk' = disk
    BY <2>1 DEF TypeOK, DiskOK
  <2>2. CASE SetStoreFile(t, Larger(StoreFile(t).len, at), StoreFile(t).good \cup {at})
    <3>1. at \in Nat
      BY DEF TypeOK, LocalsOK
    <3>2. Larger(StoreFile(t).len, at) \in Nat
      BY <3>1, StoreFileType DEF Larger, TypeOK
    <3>3. StoreFile(t).good \cup {at} \in SUBSET Nat
      BY <3>1, StoreFileType DEF TypeOK
    <3>. HIDE DEF at
    <3>. QED  BY <2>2, <3>2, <3>3, DiskType DEF TypeOK
  <2>. QED  BY <2>1, <2>2 DEF PutsRecv
<1>3. UNCHANGED <<tables, lost, crashes>> /\ (Works \/ Fails)
  BY DEF PutsRecv, Works
<1>. QED  BY <1>1, <1>2, <1>3, GhostsType DEF TypeOK, TablesOK, tables

LEMMA PutsInterruptedType == ASSUME TypeOK, NEW t \in Procs, PutsInterrupted(t) PROVE TypeOK'
<1>1. LocalsOK'
  BY DoneType, GotoType, StoreFileType, StoreAssumption
  DEF PutsInterrupted, TypeOK, LocalsOK, Labels
<1>2. DiskOK'
  <2>. DEFINE kept == base[t] + got[t]
  <2>1. CASE disk' = disk
    BY <2>1 DEF TypeOK, DiskOK
  <2>2. CASE SetStoreFile(t, kept, StoreFile(t).good \cap 1..kept)
    <3>1. kept \in Nat
      BY DEF TypeOK, LocalsOK
    <3>2. StoreFile(t).good \cap 1..kept \in SUBSET Nat
      BY StoreFileType DEF TypeOK
    <3>. HIDE DEF kept
    <3>. QED  BY <2>2, <3>1, <3>2, DiskType DEF TypeOK
  <2>. QED  BY <2>1, <2>2 DEF PutsInterrupted
<1>3. UNCHANGED <<tables, lost, crashes>> /\ (Works \/ Fails)
  BY DEF PutsInterrupted, Works
<1>. QED  BY <1>1, <1>2, <1>3, GhostsType DEF TypeOK, TablesOK, tables

LEMMA TouchEnsureType == ASSUME TypeOK, NEW c \in Procs, TouchEnsure(c) PROVE TypeOK'
<1>1. LocalsOK'
  BY DoneType, GotoType, StoreFileType, StoreAssumption
  DEF TouchEnsure, TypeOK, LocalsOK, Labels
<1>2. DiskOK'
  BY DiskType, StoreFileType, StoreAssumption
  DEF TouchEnsure, TypeOK, LocalsOK, DiskOK
<1>3. UNCHANGED <<tables, lost, crashes>> /\ (Works \/ Fails)
  BY DEF TouchEnsure, Works
<1>. QED  BY <1>1, <1>2, <1>3, GhostsType DEF TypeOK, TablesOK, tables

LEMMA UnlinkType == ASSUME TypeOK, NEW c \in Procs, Unlink(c) PROVE TypeOK'
<1>1. LocalsOK'
  BY DEF Unlink, TypeOK, LocalsOK, Labels
<1>2. DiskOK'
  <2>1. CASE disk' = disk
    BY <2>1 DEF TypeOK, DiskOK
  <2>2. CASE disk' = [disk EXCEPT ![Host[c]][hash[c]] = NoFile]
    <3>1. NoFile \in [len : Nat, good : SUBSET Nat, there : BOOLEAN]
      BY DEF NoFile
    <3>. QED
      BY <2>2, <3>1, StoreAssumption DEF TypeOK, DiskOK, LocalsOK
  <2>. QED  BY <2>1, <2>2 DEF Unlink
<1>3. UNCHANGED <<tables, lost, crashes>> /\ (Works \/ Fails)
  BY DEF Unlink
<1>. QED  BY <1>1, <1>2, <1>3, GhostsType DEF TypeOK, TablesOK, tables

LEMMA CrashType == ASSUME TypeOK, NEW s \in Servers, Crash(s) PROVE TypeOK'
<1>1. LocalsOK'
  BY DefaultsType DEF Crash, TypeOK, LocalsOK, Labels
<1>2. GhostsOK'
  BY DEF Crash, TypeOK, LocalsOK, GhostsOK
<1>. QED  BY <1>1, <1>2 DEF Crash, TypeOK, TablesOK, DiskOK, tables

LEMMA InitType == Init => TypeOK
  BY DefaultsType, StoreAssumption
  DEF Init, TypeOK, TablesOK, DiskOK, LocalsOK, GhostsOK, Labels, NoFile,
      NoId, FileIds

LEMMA TypeStep == TypeOK /\ [Next]_vars => TypeOK'
<1> SUFFICES ASSUME TypeOK, [Next]_vars PROVE TypeOK'
  OBVIOUS
<1>1. ASSUME NEW t \in Threads, PutsStep(t) \/ PutsRecv(t) PROVE TypeOK'
  BY <1>1, PutsLookupType, PutsFindType, PutsStatType, PutsOpenType,
     PutsExtendType, PutsRecvType, PutsInterruptedType, PutsSourceType,
     InsertFileType, RefindType, LinkFreshType, LinkType, AddRefType
  DEF PutsStep, Procs
<1>2. ASSUME NEW t \in Threads, GetsStep(t) PROVE TypeOK'
  BY <1>2, GetsPathType, GetsInfoType, GetsOpenType, GetsSendType DEF GetsStep, Procs
<1>3. ASSUME NEW c \in Controls, TouchStep(c) PROVE TypeOK'
  BY <1>3, TouchLookupType, TouchEnsureType, TouchFindType, TouchUndoType,
     InsertFileType, RefindType, LinkFreshType, LinkType, AddRefType
  DEF TouchStep, Procs
<1>4. ASSUME NEW c \in Controls, RmStep(c) PROVE TypeOK'
  BY <1>4, RmLookupType, RmPathType, RmInfoType, SubRefType, GetRefType,
     UnlinkType, RmSourcesType, RmRowType
  DEF RmStep, Procs
<1>5. ASSUME NEW t \in Threads, StartPuts(t) \/ StartGets(t) PROVE TypeOK'
  <2>1. \A n \in Names : (IF paths[n] = NoId THEN NoHash ELSE sha[paths[n]]) \in Hashes
    BY DefaultsType DEF TypeOK, TablesOK
  <2>. QED
    BY <1>5, <2>1, StartType DEF StartPuts, StartGets, Procs, Labels
<1>6. ASSUME NEW c \in Controls, StartTouch(c) \/ StartRm(c) PROVE TypeOK'
  <2>1. \A n \in Names : (IF paths[n] = NoId THEN NoHash ELSE sha[paths[n]]) \in Hashes
    BY DefaultsType DEF TypeOK, TablesOK
  <2>. QED
    BY <1>6, <2>1, StartType, StoreAssumption DEF StartTouch, StartRm, Procs, Labels
<1>7. ASSUME NEW s \in Servers, Crash(s) PROVE TypeOK'
  BY <1>7, CrashType
<1>8. CASE UNCHANGED vars
  BY <1>8 DEF TypeOK, TablesOK, DiskOK, LocalsOK, GhostsOK,
              vars, tables, threads, locals
<1>. QED
  BY <1>1, <1>2, <1>3, <1>4, <1>5, <1>6, <1>7, <1>8 DEF Next

\* Every variable keeps its type, whatever fails, is killed or interleaves.
THEOREM TypeCorrect == Spec => []TypeOK
<1>1. Init => TypeOK
  BY InitType
<1>2. TypeOK /\ [Next]_vars => TypeOK'
  BY TypeStep
<1>. QED
  BY <1>1, <1>2, PTL DEF Spec

-----------------------------------------------------------------------------
(* NeverUndercounted: the reference count of a stored content covers every   *)
(* logical file that points to it.  Proved for one server, that is for one   *)
(* control thread: two control threads that remove the same path decrement   *)
(* the count twice.                                                          *)

OneControl == \A c, d \in Controls : c = d

-----------------------------------------------------------------------------
(* The sets the invariant counts, and how a step of one thread changes them. *)

LEMMA FiniteSets ==
  ASSUME NEW f
  PROVE  /\ IsFiniteSet(LinksOf(f)) /\ IsFiniteSet(Fresh(f))
         /\ IsFiniteSet(Removing(f)) /\ IsFiniteSet(Adding(f))
<1>1. IsFiniteSet(Procs) /\ IsFiniteSet(Names)
  BY StoreAssumption, FS_Union DEF Procs
<1>. QED
  BY <1>1, FS_Subset DEF LinksOf, Fresh, Removing, Adding, At

LEMMA FiniteSetsNext ==
  ASSUME NEW f
  PROVE  /\ IsFiniteSet(LinksOf(f)') /\ IsFiniteSet(Fresh(f)')
         /\ IsFiniteSet(Removing(f)') /\ IsFiniteSet(Adding(f)')
<1>1. IsFiniteSet(Procs) /\ IsFiniteSet(Names)
  BY StoreAssumption, FS_Union DEF Procs
<1>. QED
  BY <1>1, FS_Subset DEF LinksOf, Fresh, Removing, Adding, At

Finite(f) ==
  IsFiniteSet(LinksOf(f)) /\ IsFiniteSet(Fresh(f))
    /\ IsFiniteSet(Removing(f)) /\ IsFiniteSet(Adding(f))

LEMMA FiniteBoth == ASSUME NEW f PROVE Finite(f) /\ Finite(f)'
  BY FiniteSets, FiniteSetsNext DEF Finite

LEMMA Sizes ==
  ASSUME NEW f
  PROVE  /\ Cardinality(LinksOf(f)) \in Nat /\ Cardinality(LinksOf(f)') \in Nat
         /\ Cardinality(Fresh(f)) \in Nat /\ Cardinality(Fresh(f)') \in Nat
         /\ Cardinality(Removing(f)) \in Nat /\ Cardinality(Removing(f)') \in Nat
         /\ Cardinality(Adding(f)) \in Nat /\ Cardinality(Adding(f)') \in Nat
  BY FiniteSets, FiniteSetsNext, FS_CardinalityType

\* A step that adds no link, no insertion and no removal, finishes no addition
\* and leaves the count keeps the balance.
LEMMA BalanceKept ==
  ASSUME NEW f \in FileIds, count \in [FileIds -> Nat], count'[f] = count[f],
         Owed(f) <= Booked(f),
         LinksOf(f)' \subseteq LinksOf(f), Fresh(f)' \subseteq Fresh(f),
         Removing(f)' \subseteq Removing(f), Adding(f) \subseteq Adding(f)'
  PROVE  Owed(f)' <= Booked(f)'
<1>1. /\ Cardinality(LinksOf(f)') <= Cardinality(LinksOf(f))
      /\ Cardinality(Fresh(f)') <= Cardinality(Fresh(f))
      /\ Cardinality(Removing(f)') <= Cardinality(Removing(f))
      /\ Cardinality(Adding(f)) <= Cardinality(Adding(f)')
  BY FiniteSets, FiniteSetsNext, FS_Subset
<1>. QED
  BY <1>1, Sizes DEF Owed, Booked

OnlyMoves(p) ==
  \A q \in Procs \ {p} :
    pc'[q] = pc[q] /\ fid'[q] = fid[q] /\ name'[q] = name[q]

\* A step of p that touches neither a path nor a count, and takes p to no label
\* that stands for an insertion or a removal it has not already made.
Quiet(p) ==
  /\ OnlyMoves(p)
  /\ pc[p] # "addRef"
  /\ pc'[p] \notin {"linkFresh", "rmInfo"}
  /\ pc'[p] = "subRef" => pc[p] = "rmInfo" /\ fid'[p] = fid[p]
  /\ pc'[p] = "rmPath" => fid'[p] # NoId /\ paths[name'[p]] = fid'[p]
  /\ fid'[p] \in {NoId, fid[p], paths[name[p]]} \cup files
  /\ files' \subseteq files
  /\ UNCHANGED <<paths, count, nextId, lost>>

LEMMA QuietStep ==
  ASSUME CountInv, TypeOK', NEW p \in Procs, Quiet(p)
  PROVE  CountInv'
<1>1. IdsIssued'
  BY DEF CountInv, TypeOK, TablesOK, LocalsOK, IdsIssued, Quiet, OnlyMoves, NoId
<1>2. RmHoldsPath'
  BY DEF CountInv, RmHoldsPath, Quiet, OnlyMoves, Procs
<1>3. NeverUndercounted'
  <2> SUFFICES ASSUME NEW f \in files' \ lost'
               PROVE  Owed(f)' <= Booked(f)'
    BY DEF NeverUndercounted
  <2>1. /\ f \in FileIds /\ count \in [FileIds -> Nat] /\ count'[f] = count[f]
        /\ Owed(f) <= Booked(f)
    BY DEF CountInv, NeverUndercounted, Quiet, TypeOK, TablesOK
  <2>2. LinksOf(f)' \subseteq LinksOf(f)
    BY DEF LinksOf, Quiet
  <2>3. Fresh(f)' \subseteq Fresh(f)
    BY DEF Fresh, At, Quiet, OnlyMoves
  <2>4. Removing(f)' \subseteq Removing(f)
    BY DEF Removing, At, Quiet, OnlyMoves
  <2>5. Adding(f) \subseteq Adding(f)'
    BY DEF Adding, At, Quiet, OnlyMoves
  <2>. QED
    BY <2>1, <2>2, <2>3, <2>4, <2>5, BalanceKept
<1>. QED
  BY <1>1, <1>2, <1>3 DEF CountInv

-----------------------------------------------------------------------------
(* The steps that touch neither a path nor a count.                          *)

LEMMA PutsQuiet ==
  ASSUME CountInv, NEW t \in Procs,
         \/ PutsLookup(t) \/ PutsFind(t) \/ PutsStat(t) \/ PutsOpen(t) \/ PutsExtend(t)
         \/ PutsRecv(t) \/ PutsInterrupted(t) \/ PutsSource(t) \/ Refind(t)
  PROVE  Quiet(t)
<1> USE DEF Quiet, OnlyMoves, CountInv, TypeOK, LocalsOK, Goto, Done, tables, locals, NoId
<1>1. CASE PutsLookup(t)
  BY <1>1 DEF PutsLookup
<1>2. CASE PutsFind(t)
  BY <1>2 DEF PutsFind, RowsOf
<1>3. CASE PutsStat(t)
  BY <1>3 DEF PutsStat
<1>4. CASE PutsOpen(t)
  BY <1>4 DEF PutsOpen
<1>5. CASE PutsExtend(t)
  BY <1>5 DEF PutsExtend
<1>6. CASE PutsRecv(t)
  BY <1>6 DEF PutsRecv
<1>7. CASE PutsInterrupted(t)
  BY <1>7 DEF PutsInterrupted
<1>8. CASE PutsSource(t)
  BY <1>8 DEF PutsSource
<1>9. CASE Refind(t)
  BY <1>9 DEF Refind, RowsOf
<1>. QED
  BY <1>1, <1>2, <1>3, <1>4, <1>5, <1>6, <1>7, <1>8, <1>9

LEMMA GetsTouchQuiet ==
  ASSUME CountInv, NEW p \in Procs,
         \/ GetsPath(p) \/ GetsInfo(p) \/ GetsOpen(p) \/ GetsSend(p)
         \/ TouchLookup(p) \/ TouchEnsure(p) \/ TouchFind(p) \/ TouchUndo(p)
  PROVE  Quiet(p)
<1> USE DEF Quiet, OnlyMoves, CountInv, TypeOK, LocalsOK, Goto, Done, tables, locals, NoId
<1>1. CASE GetsPath(p)
  BY <1>1 DEF GetsPath
<1>2. CASE GetsInfo(p)
  BY <1>2 DEF GetsInfo
<1>3. CASE GetsOpen(p)
  BY <1>3 DEF GetsOpen
<1>4. CASE GetsSend(p)
  BY <1>4 DEF GetsSend
<1>5. CASE TouchLookup(p)
  BY <1>5 DEF TouchLookup
<1>6. CASE TouchEnsure(p)
  BY <1>6 DEF TouchEnsure
<1>7. CASE TouchFind(p)
  BY <1>7 DEF TouchFind, RowsOf
<1>8. CASE TouchUndo(p)
  BY <1>8 DEF TouchUndo
<1>. QED
  BY <1>1, <1>2, <1>3, <1>4, <1>5, <1>6, <1>7, <1>8

LEMMA RmQuiet ==
  ASSUME CountInv, NEW c \in Procs,
         \/ RmLookup(c) \/ RmInfo(c) \/ GetRef(c)
         \/ Unlink(c) \/ RmSources(c) \/ RmRow(c)
  PROVE  Quiet(c)
<1> USE DEF Quiet, OnlyMoves, CountInv, TypeOK, LocalsOK, Goto, Done, tables, locals, NoId
<1>1. CASE RmLookup(c)
  BY <1>1 DEF RmLookup
<1>2. CASE RmInfo(c)
  BY <1>2 DEF RmInfo
<1>3. CASE GetRef(c)
  BY <1>3 DEF GetRef
<1>4. CASE Unlink(c)
  BY <1>4 DEF Unlink
<1>5. CASE RmSources(c)
  BY <1>5 DEF RmSources
<1>6. CASE RmRow(c)
  BY <1>6 DEF RmRow
<1>. QED
  BY <1>1, <1>2, <1>3, <1>4, <1>5, <1>6

LEMMA StartQuiet ==
  ASSUME CountInv, NEW p \in Procs,
         StartPuts(p) \/ StartGets(p) \/ StartTouch(p) \/ StartRm(p)
  PROVE  Quiet(p)
<1>1. PICK command, n, h, label :
        /\ Start(p, command, n, h, label)
        /\ label \in {"lookup", "getPath", "touchLookup", "rmLookup"}
  BY DEF StartPuts, StartGets, StartTouch, StartRm
<1>. QED
  BY <1>1 DEF Start, Quiet, OnlyMoves, CountInv, TypeOK, LocalsOK, tables, NoId

-----------------------------------------------------------------------------
(* The steps that do.                                                        *)

\* What every step of one thread keeps of CountInv when it issues no id and
\* only frees names: the same ids, and the path that rm holds.
LEMMA IdsAndPathsKept ==
  ASSUME CountInv, NEW p \in Procs, OnlyMoves(p),
         files' \subseteq files, nextId' = nextId,
         fid'[p] \in {NoId, fid[p]}, pc'[p] # "rmPath",
         \A n \in Names : paths'[n] \in {paths[n], NoId, fid[p]},
         \A c \in Controls \ {p} : pc[c] = "rmPath" =>
           paths'[name[c]] = paths[name[c]]
  PROVE  IdsIssued' /\ RmHoldsPath'
<1>1. IdsIssued'
  BY DEF CountInv, TypeOK, TablesOK, LocalsOK, IdsIssued, OnlyMoves, NoId
<1>2. RmHoldsPath'
  BY DEF CountInv, RmHoldsPath, OnlyMoves, Procs
<1>. QED
  BY <1>1, <1>2

LEMMA InsertFileStep ==
  ASSUME CountInv, TypeOK', NEW p \in Procs, InsertFile(p)
  PROVE  CountInv'
<1> USE DEF CountInv, TypeOK, TablesOK, LocalsOK
<1>1. CASE NoResult(RowsOf(hash[p]) # {}) /\ Goto(p, "refind")
           /\ UNCHANGED <<files, sha, count, nextId>>
  <2>1. Quiet(p)
    BY <1>1 DEF InsertFile, Quiet, OnlyMoves, Goto, locals
  <2>. QED
    BY <2>1, QuietStep
<1>2. CASE /\ nextId <= MaxFileId
           /\ files' = files \cup {nextId}
           /\ count' = [count EXCEPT ![nextId] = 1]
           /\ nextId' = nextId + 1
           /\ \/ /\ fid' = [fid EXCEPT ![p] = nextId]
                 /\ pc' = [pc EXCEPT ![p] = "linkFresh"]
                 /\ UNCHANGED name
              \/ Goto(p, "refind")
  <2>1. /\ paths' = paths /\ lost' = lost /\ pc[p] = "insert" /\ nextId \in FileIds
        /\ nextId \in Nat
    BY <1>2, StoreAssumption DEF InsertFile, FileIds
  <2>2. /\ OnlyMoves(p) /\ pc'[p] \in {"linkFresh", "refind"}
        /\ fid'[p] \in {fid[p], nextId}
    BY <1>2 DEF OnlyMoves, Goto, locals
  <2>3. IdsIssued'
    <3>1. \A f \in files' : f < nextId'
      BY <1>2, <2>1 DEF IdsIssued, FileIds
    <3>2. \A n \in Names : paths'[n] < nextId'
      <4>1. \A n \in Names : paths[n] \in Nat /\ paths[n] < nextId
        BY DEF IdsIssued, FileIds, NoId
      <4>. QED
        BY <1>2, <2>1, <4>1
    <3>3. \A q \in Procs : fid'[q] < nextId'
      <4>1. \A q \in Procs : fid[q] \in Nat /\ fid[q] < nextId
        BY DEF IdsIssued, FileIds, NoId
      <4>. QED
        BY <1>2, <2>1, <2>2, <4>1 DEF OnlyMoves
    <3>. QED
      BY <3>1, <3>2, <3>3 DEF IdsIssued
  <2>4. RmHoldsPath'
    BY <2>1, <2>2 DEF RmHoldsPath, OnlyMoves, Procs
  <2>5. ASSUME NEW f \in files' \ lost' PROVE Owed(f)' <= Booked(f)'
    <3>1. CASE f = nextId
      <4>1. LinksOf(f)' = {} /\ Removing(f)' = {} /\ Fresh(f)' \subseteq {p}
        BY <2>1, <2>2, <3>1 DEF LinksOf, Removing, Fresh, At, OnlyMoves, IdsIssued
      <4>2. /\ Cardinality(LinksOf(f)') = 0 /\ Cardinality(Removing(f)') = 0
            /\ Cardinality(Fresh(f)') <= 1
        <5>1. IsFiniteSet({p}) /\ Cardinality({p}) = 1
          BY FS_Singleton
        <5>2. Cardinality(Fresh(f)') <= Cardinality({p})
          BY <4>1, <5>1, FS_Subset
        <5>. QED
          BY <4>1, <5>1, <5>2, FS_EmptySet
      <4>3. count'[f] = 1
        BY <1>2, <2>1, <3>1
      <4>. QED
        BY <4>2, <4>3, Sizes DEF Owed, Booked
    <3>2. CASE f # nextId
      <4>1. f \in FileIds /\ f \in files \ lost /\ count'[f] = count[f]
        BY <1>2, <2>1, <3>2
      <4>2. /\ LinksOf(f)' \subseteq LinksOf(f) /\ Fresh(f)' \subseteq Fresh(f)
            /\ Removing(f)' \subseteq Removing(f) /\ Adding(f) \subseteq Adding(f)'
        BY <1>2, <2>1, <2>2, <3>2
           DEF LinksOf, Removing, Fresh, Adding, At, OnlyMoves, Goto, locals
      <4>. QED
        BY <4>1, <4>2, BalanceKept DEF NeverUndercounted
    <3>. QED
      BY <3>1, <3>2
  <2>. QED
    BY <2>3, <2>4, <2>5 DEF NeverUndercounted
<1>. QED
  BY <1>1, <1>2 DEF InsertFile

\* A path is created for a row: one link more, paid for by the row's own count
\* (LinkFresh) or by the count+1 that is about to run (Link).
LEMMA InsertPathStep ==
  ASSUME CountInv, TypeOK', NEW p \in Procs, InsertPath(p), OnlyMoves(p),
         fid'[p] \in {NoId, fid[p]},
         UNCHANGED <<files, count, nextId, lost>>,
         \/ pc[p] = "linkFresh" /\ pc'[p] \in {"source", "idle"}
         \/ pc[p] = "link" /\ pc'[p] = "addRef" /\ fid'[p] = fid[p]
  PROVE  CountInv'
<1> USE DEF CountInv, TypeOK, TablesOK, LocalsOK
<1>1. IdsIssued' /\ RmHoldsPath'
  <2>1. \A c \in Controls : pc[c] = "rmPath" => paths'[name[c]] = paths[name[c]]
    BY DEF RmHoldsPath, InsertPath, Procs
  <2>. QED
    BY <2>1, IdsAndPathsKept DEF InsertPath
<1>2. ASSUME NEW f \in files' \ lost' PROVE Owed(f)' <= Booked(f)'
  <2>0. Finite(f) /\ Finite(f)'
    BY FiniteBoth
  <2>1. f \in FileIds /\ count'[f] = count[f] /\ Owed(f) <= Booked(f)
    BY DEF NeverUndercounted
  <2>2. Removing(f)' \subseteq Removing(f)
    BY DEF Removing, At, OnlyMoves
  <2>3. CASE f # fid[p]
    <3>1. /\ LinksOf(f)' \subseteq LinksOf(f) /\ Fresh(f)' \subseteq Fresh(f)
          /\ Adding(f) \subseteq Adding(f)'
      BY <2>3 DEF LinksOf, Fresh, Adding, At, OnlyMoves, InsertPath
    <3>. QED
      BY <2>1, <2>2, <3>1, BalanceKept
  <2>4. CASE f = fid[p]
    <3>1. /\ name[p] \notin LinksOf(f) /\ LinksOf(f)' = LinksOf(f) \cup {name[p]}
      BY <2>1, <2>4 DEF LinksOf, InsertPath, NoId, FileIds
    <3>2. Cardinality(LinksOf(f)') = Cardinality(LinksOf(f)) + 1
      BY ONLY <2>0, <3>1, FS_AddElement DEF Finite
    <3>3. Cardinality(Removing(f)') <= Cardinality(Removing(f))
      BY ONLY <2>0, <2>2, FS_Subset DEF Finite
    <3>4. CASE pc[p] = "linkFresh"
      <4>1. /\ p \in Fresh(f) /\ Fresh(f)' = Fresh(f) \ {p}
            /\ Adding(f) \subseteq Adding(f)'
        BY <2>4, <3>4 DEF Fresh, Adding, At, OnlyMoves
      <4>2. /\ Cardinality(Fresh(f)') = Cardinality(Fresh(f)) - 1
            /\ Cardinality(Adding(f)) <= Cardinality(Adding(f)')
        BY ONLY <2>0, <4>1, FS_RemoveElement, FS_Subset DEF Finite
      <4>. QED
        BY <2>1, <3>2, <3>3, <4>2, Sizes DEF Owed, Booked
    <3>5. CASE pc[p] = "link"
      <4>1. /\ p \notin Adding(f) /\ Adding(f)' = Adding(f) \cup {p}
            /\ Fresh(f)' \subseteq Fresh(f)
        BY <2>4, <3>5 DEF Fresh, Adding, At, OnlyMoves
      <4>2. /\ Cardinality(Fresh(f)') <= Cardinality(Fresh(f))
            /\ Cardinality(Adding(f)') = Cardinality(Adding(f)) + 1
        BY ONLY <2>0, <4>1, FS_AddElement, FS_Subset DEF Finite
      <4>. QED
        BY <2>1, <3>2, <3>3, <4>2, Sizes DEF Owed, Booked
    <3>. QED
      BY <3>4, <3>5
  <2>. QED
    BY <2>3, <2>4
<1>. QED
  BY <1>1, <1>2 DEF NeverUndercounted

LEMMA LinkStep ==
  ASSUME CountInv, TypeOK', NEW p \in Procs, LinkFresh(p) \/ Link(p)
  PROVE  CountInv'
<1> USE DEF CountInv, TypeOK, TablesOK, LocalsOK
<1>1. CASE InsertPath(p)
  <2>1. /\ OnlyMoves(p) /\ fid'[p] \in {NoId, fid[p]}
        /\ UNCHANGED <<files, count, nextId, lost>>
    BY <1>1 DEF LinkFresh, Link, InsertPath, InsertPathRefused, OnlyMoves, Goto, Done, locals
  <2>2. \/ pc[p] = "linkFresh" /\ pc'[p] \in {"source", "idle"}
        \/ pc[p] = "link" /\ pc'[p] = "addRef" /\ fid'[p] = fid[p]
        \/ paths' = paths
    BY <1>1 DEF LinkFresh, Link, InsertPathRefused, Goto, Done, locals
  <2>3. CASE paths' = paths
    <3>1. fid[p] = NoId
      BY <1>1, <2>3 DEF InsertPath
    <3>2. Quiet(p)
      BY <2>1, <2>3, <3>1 DEF Quiet, LinkFresh, Link, InsertPath, InsertPathRefused, Goto, Done, locals
    <3>. QED
      BY <3>2, QuietStep
  <2>. QED
    BY <1>1, <2>1, <2>2, <2>3, InsertPathStep
<1>2. CASE InsertPathRefused(p)
  <2>1. Quiet(p)
    BY <1>2 DEF LinkFresh, Link, InsertPath, InsertPathRefused, Quiet, OnlyMoves, Goto, Done, locals
  <2>. QED
    BY <2>1, QuietStep
<1>. QED
  BY <1>1, <1>2 DEF LinkFresh, Link

\* count+1: an addition under way becomes a count, or is lost for good.
LEMMA AddRefStep ==
  ASSUME CountInv, TypeOK', NEW p \in Procs, AddRef(p)
  PROVE  CountInv'
<1> USE DEF CountInv, TypeOK, TablesOK, LocalsOK
<1>1. /\ OnlyMoves(p) /\ fid'[p] \in {NoId, fid[p]} /\ pc'[p] \in {"idle", "source"}
      /\ pc[p] = "addRef" /\ UNCHANGED <<paths, files, nextId>>
  BY DEF AddRef, OnlyMoves, Goto, Done, locals
<1>2. IdsIssued' /\ RmHoldsPath'
  BY <1>1, IdsAndPathsKept
<1>3. ASSUME NEW f \in files' \ lost' PROVE Owed(f)' <= Booked(f)'
  <2>0. Finite(f) /\ Finite(f)'
    BY FiniteBoth
  <2>1. /\ f \in FileIds /\ f \in files /\ f \notin lost
        /\ Owed(f) <= Booked(f)
    BY <1>1 DEF NeverUndercounted, AddRef
  <2>2. /\ LinksOf(f)' \subseteq LinksOf(f) /\ Fresh(f)' \subseteq Fresh(f)
        /\ Removing(f)' \subseteq Removing(f)
    BY <1>1 DEF LinksOf, Fresh, Removing, At, OnlyMoves
  <2>3. CASE f # fid[p]
    <3>1. Adding(f) \subseteq Adding(f)' /\ count'[f] = count[f]
      BY <1>1, <2>1, <2>3 DEF Adding, At, OnlyMoves, AddRef
    <3>. QED
      BY <2>1, <2>2, <3>1, BalanceKept
  <2>4. CASE f = fid[p]
    <3>1. count'[f] = count[f] + 1 /\ count[f] \in Nat
      BY <1>3, <2>1, <2>4 DEF AddRef
    <3>2. p \in Adding(f) /\ Adding(f)' = Adding(f) \ {p}
      BY <1>1, <2>4 DEF Adding, At, OnlyMoves
    <3>3. /\ Cardinality(Adding(f)') = Cardinality(Adding(f)) - 1
          /\ Cardinality(LinksOf(f)') <= Cardinality(LinksOf(f))
          /\ Cardinality(Fresh(f)') <= Cardinality(Fresh(f))
          /\ Cardinality(Removing(f)') <= Cardinality(Removing(f))
      BY ONLY <2>0, <2>2, <3>2, FS_RemoveElement, FS_Subset DEF Finite
    <3>. QED
      BY <2>1, <3>1, <3>3, Sizes DEF Owed, Booked
  <2>. QED
    BY <2>3, <2>4
<1>. QED
  BY <1>2, <1>3 DEF NeverUndercounted

\* rm deletes the path it looked up: a link becomes a removal under way.  With
\* one control thread nobody else has deleted it in between.
LEMMA RmPathStep ==
  ASSUME CountInv, TypeOK', OneControl, NEW c \in Controls, RmPath(c)
  PROVE  CountInv'
<1> USE DEF CountInv, TypeOK, TablesOK, LocalsOK
<1>1. CASE Fails /\ Done(c) /\ UNCHANGED paths
  <2>1. Quiet(c)
    BY <1>1 DEF RmPath, Quiet, OnlyMoves, Done, Procs
  <2>. QED
    BY <2>1, QuietStep DEF Procs
<1>2. CASE /\ paths' = IF paths[name[c]] = fid[c]
                       THEN [paths EXCEPT ![name[c]] = NoId] ELSE paths
           /\ Goto(c, "rmInfo")
  <2>1. /\ c \in Procs /\ OnlyMoves(c) /\ fid' = fid /\ pc[c] = "rmPath"
        /\ pc'[c] = "rmInfo" /\ UNCHANGED <<files, count, nextId, lost>>
    BY <1>2 DEF RmPath, OnlyMoves, Goto, locals, Procs
  <2>2. /\ fid[c] # NoId /\ paths[name[c]] = fid[c] /\ name[c] \in Names
        /\ paths' = [paths EXCEPT ![name[c]] = NoId]
    BY <1>2, <2>1 DEF RmHoldsPath
  <2>3. IdsIssued' /\ RmHoldsPath'
    <3>1. Controls \ {c} = {}
      BY DEF OneControl
    <3>. QED
      BY <2>1, <2>2, <3>1, IdsAndPathsKept
  <2>4. ASSUME NEW f \in files' \ lost' PROVE Owed(f)' <= Booked(f)'
    <3>0. Finite(f) /\ Finite(f)'
      BY FiniteBoth
    <3>1. /\ f \in FileIds /\ count'[f] = count[f] /\ Owed(f) <= Booked(f)
          /\ f # NoId
      BY <2>1 DEF NeverUndercounted, FileIds, NoId
    <3>2. Fresh(f)' \subseteq Fresh(f) /\ Adding(f) \subseteq Adding(f)'
      BY <2>1 DEF Fresh, Adding, At, OnlyMoves
    <3>3. CASE f # fid[c]
      <4>1. LinksOf(f)' \subseteq LinksOf(f) /\ Removing(f)' \subseteq Removing(f)
        BY <2>1, <2>2, <3>1, <3>3 DEF LinksOf, Removing, At, OnlyMoves
      <4>. QED
        BY <3>1, <3>2, <4>1, BalanceKept
    <3>4. CASE f = fid[c]
      <4>1. name[c] \in LinksOf(f) /\ LinksOf(f)' = LinksOf(f) \ {name[c]}
        BY <2>2, <3>1, <3>4 DEF LinksOf
      <4>2. c \notin Removing(f) /\ Removing(f)' = Removing(f) \cup {c}
        BY <2>1, <3>4 DEF Removing, At, OnlyMoves
      <4>3. Cardinality(LinksOf(f)') = Cardinality(LinksOf(f)) - 1
        BY ONLY <3>0, <4>1, FS_RemoveElement DEF Finite
      <4>4. Cardinality(Removing(f)') = Cardinality(Removing(f)) + 1
        BY ONLY <3>0, <4>2, FS_AddElement DEF Finite
      <4>5. /\ Cardinality(Fresh(f)') <= Cardinality(Fresh(f))
            /\ Cardinality(Adding(f)) <= Cardinality(Adding(f)')
        BY ONLY <3>0, <3>2, FS_Subset DEF Finite
      <4>. QED
        BY <3>1, <4>3, <4>4, <4>5, Sizes DEF Owed, Booked
    <3>. QED
      BY <3>3, <3>4
  <2>. QED
    BY <2>3, <2>4 DEF NeverUndercounted
<1>. QED
  BY <1>1, <1>2 DEF RmPath

\* count-1, at most once for each removal under way.
LEMMA SubRefStep ==
  ASSUME CountInv, TypeOK', NEW c \in Procs, SubRef(c)
  PROVE  CountInv'
<1> USE DEF CountInv, TypeOK, TablesOK, LocalsOK
<1>1. /\ OnlyMoves(c) /\ fid'[c] \in {NoId, fid[c]} /\ pc'[c] \in {"idle", "getRef"}
      /\ pc[c] = "subRef" /\ UNCHANGED <<paths, files, nextId, lost>>
  BY DEF SubRef, OnlyMoves, Goto, Done, locals
<1>2. IdsIssued' /\ RmHoldsPath'
  BY <1>1, IdsAndPathsKept
<1>3. ASSUME NEW f \in files' \ lost' PROVE Owed(f)' <= Booked(f)'
  <2>0. Finite(f) /\ Finite(f)'
    BY FiniteBoth
  <2>1. f \in FileIds /\ f \in files /\ Owed(f) <= Booked(f)
    BY <1>1 DEF NeverUndercounted
  <2>2. /\ LinksOf(f)' \subseteq LinksOf(f) /\ Fresh(f)' \subseteq Fresh(f)
        /\ Adding(f) \subseteq Adding(f)' /\ Removing(f)' \subseteq Removing(f)
    BY <1>1 DEF LinksOf, Fresh, Adding, Removing, At, OnlyMoves
  <2>3. CASE count'[f] = count[f]
    BY <2>1, <2>2, <2>3, BalanceKept
  <2>4. CASE count'[f] # count[f]
    <3>1. f = fid[c] /\ count[f] > 0 /\ count'[f] = count[f] - 1 /\ count[f] \in Nat
      BY <2>1, <2>4 DEF SubRef
    <3>2. c \in Removing(f) /\ Removing(f)' = Removing(f) \ {c}
      BY <1>1, <3>1 DEF Removing, At, OnlyMoves
    <3>3. Cardinality(Removing(f)') = Cardinality(Removing(f)) - 1
      BY ONLY <2>0, <3>2, FS_RemoveElement DEF Finite
    <3>4. /\ Cardinality(LinksOf(f)') <= Cardinality(LinksOf(f))
          /\ Cardinality(Fresh(f)') <= Cardinality(Fresh(f))
          /\ Cardinality(Adding(f)) <= Cardinality(Adding(f)')
      BY ONLY <2>0, <2>2, FS_Subset DEF Finite
    <3>. QED
      BY <2>1, <3>1, <3>3, <3>4, Sizes DEF Owed, Booked
  <2>. QED
    BY <2>3, <2>4
<1>. QED
  BY <1>2, <1>3 DEF NeverUndercounted

\* A killed server forgets insertions and removals under way, which can only
\* leave a count too high, and additions under way, which become lost.
LEMMA CrashStep ==
  ASSUME CountInv, TypeOK', NEW s \in Servers, Crash(s)
  PROVE  CountInv'
<1> USE DEF CountInv, TypeOK, TablesOK, LocalsOK, tables
<1>1. IdsIssued'
  BY DEF Crash, IdsIssued, NoId
<1>2. RmHoldsPath'
  BY DEF Crash, RmHoldsPath, Procs
<1>3. ASSUME NEW f \in files' \ lost' PROVE Owed(f)' <= Booked(f)'
  <2>1. /\ f \in FileIds /\ count'[f] = count[f] /\ Owed(f) <= Booked(f)
        /\ f # NoId
    <3>1. lost \subseteq lost' /\ files' = files /\ count' = count
      BY DEF Crash
    <3>. QED
      BY <3>1 DEF NeverUndercounted, FileIds, NoId
  <2>2. /\ LinksOf(f)' \subseteq LinksOf(f) /\ Fresh(f)' \subseteq Fresh(f)
        /\ Removing(f)' \subseteq Removing(f)
    BY <2>1 DEF Crash, LinksOf, Fresh, Removing, At
  <2>3. Adding(f) \subseteq Adding(f)'
    BY <2>1 DEF Crash, Adding, At
  <2>. QED
    BY <2>1, <2>2, <2>3, BalanceKept
<1>. QED
  BY <1>1, <1>2, <1>3 DEF NeverUndercounted

-----------------------------------------------------------------------------

\* Initially no row exists, so nothing is owed.
LEMMA InitCount == Init => CountInv
<1> SUFFICES ASSUME Init PROVE CountInv
  OBVIOUS
<1>1. TypeOK
  BY InitType
<1>2. IdsIssued /\ RmHoldsPath /\ NeverUndercounted
  BY DEF Init, IdsIssued, RmHoldsPath, NeverUndercounted, NoId, Procs
<1>. QED
  BY <1>1, <1>2 DEF CountInv

LEMMA CountStep == ASSUME OneControl PROVE CountInv /\ [Next]_vars => CountInv'
<1> SUFFICES ASSUME CountInv, [Next]_vars PROVE CountInv'
  OBVIOUS
<1>1. TypeOK'
  BY TypeStep DEF CountInv
<1>2. CASE UNCHANGED vars
  <2>1. /\ IdsIssued' /\ RmHoldsPath'
    BY <1>2 DEF vars, tables, threads, locals, CountInv, IdsIssued, RmHoldsPath
  <2>2. NeverUndercounted'
    BY <1>2 DEF vars, tables, threads, locals, CountInv, NeverUndercounted,
      Owed, Booked, LinksOf, Fresh, Removing, Adding, At
  <2>. QED
    BY <1>1, <2>1, <2>2 DEF CountInv
<1>3. CASE Next
  <2> USE <1>1 DEF Procs
  <2>1. ASSUME NEW t \in Threads,
               \/ StartPuts(t) \/ PutsStep(t) \/ PutsRecv(t) \/ StartGets(t) \/ GetsStep(t)
        PROVE  CountInv'
    BY <2>1, StartQuiet, PutsQuiet, GetsTouchQuiet, QuietStep, InsertFileStep,
       LinkStep, AddRefStep DEF PutsStep, GetsStep
  <2>2. ASSUME NEW c \in Controls, StartTouch(c) \/ StartRm(c) \/ TouchStep(c)
        PROVE  CountInv'
    BY <2>2, StartQuiet, PutsQuiet, GetsTouchQuiet, QuietStep, InsertFileStep,
       LinkStep, AddRefStep DEF TouchStep
  <2>3. ASSUME NEW c \in Controls, RmStep(c)
        PROVE  CountInv'
    BY <2>3, RmQuiet, QuietStep, RmPathStep, SubRefStep DEF RmStep
  <2>. QED
    BY <1>3, <2>1, <2>2, <2>3, CrashStep DEF Next
<1>. QED
  BY <1>2, <1>3

\* With one server, whatever fails or is killed: the count of a stored content
\* covers all the logical files that point to it, unless a count+1 statement
\* itself was lost (create_user_file_link, release_file_entity_if_unused).
THEOREM CountCorrect == OneControl => (Spec => []NeverUndercounted)
<1> SUFFICES ASSUME OneControl PROVE Spec => []NeverUndercounted
  OBVIOUS
<1>1. Init => CountInv
  BY InitCount
<1>2. CountInv /\ [Next]_vars => CountInv'
  BY CountStep
<1>3. CountInv => NeverUndercounted
  BY DEF CountInv
<1>. QED
  BY <1>1, <1>2, <1>3, PTL DEF Spec

=============================================================================
