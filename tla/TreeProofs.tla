------------------------------ MODULE TreeProofs ------------------------------
(* The safety properties of Tree for every number of users, servers, threads *)
(* and names and all bounds.  First what holds whatever clients do, then the *)
(* trees of careful users.                                                   *)
EXTENDS Tree, SequenceTheorems, FiniteSetTheorems, TLAPS

Labels   == {"idle", "lookup", "insert", "check", "delete"}
Jobs     == [path : Seq(Names), id : Ids \cup {Top}, type : {"file", "dir"}]
Contexts == [user : Users \cup {NoUser}, path : Seq(Names), dir : Ids \cup {Top}]
Rows     == [user : Users \cup {NoUser}, path : Seq(Names),
             parent : Ids \cup {Top}, type : {"file", "dir"}]

-----------------------------------------------------------------------------
(* Paths, nodes, processes.                                                  *)

LEMMA PathFacts ==
  /\ Root \in Seq(Names)
  /\ \A arg \in Args : arg.names \in Seq(Names)
  /\ \A s \in Seq(Names) : ParentPath(s) \in Seq(Names)
  /\ \A s, t \in Seq(Names) : s \o t \in Seq(Names)
  /\ \A s \in Seq(Names), n \in Names :
       Append(s, n) \in Seq(Names) /\ ParentPath(Append(s, n)) = s
<1>1. Root \in Seq(Names)
  BY EmptySeq DEF Root
<1>2. ASSUME NEW arg \in Args PROVE arg.names \in Seq(Names)
  <2>1. PICK n \in 0..MaxDepth : arg.names \in [1..n -> Names]
    BY <1>2 DEF Args, Paths
  <2>2. n \in Nat
    BY TreeAssumption
  <2>. QED
    BY <2>1, <2>2, SeqDef
<1>3. ASSUME NEW s \in Seq(Names) PROVE ParentPath(s) \in Seq(Names)
  <2>1. CASE s = Root
    BY <2>1, <1>1 DEF ParentPath
  <2>2. CASE s # Root
    <3>1. Len(s) \in Nat /\ DOMAIN s = 1..Len(s) /\ \A i \in 1..(Len(s) - 1) : s[i] \in Names
      BY LenProperties, ElementOfSeq
    <3>2. SubSeq(s, 1, Len(s) - 1) \in Seq(Names)
      BY <3>1, SubSeqProperties
    <3>. QED
      BY <2>2, <3>2 DEF ParentPath, Front
  <2>. QED
    BY <2>1, <2>2
<1>4. ASSUME NEW s \in Seq(Names), NEW t \in Seq(Names) PROVE s \o t \in Seq(Names)
  BY <1>4, ConcatProperties
<1>5. ASSUME NEW s \in Seq(Names), NEW n \in Names
      PROVE  Append(s, n) \in Seq(Names) /\ ParentPath(Append(s, n)) = s
  <2>. DEFINE a == Append(s, n)
  <2>1. /\ a \in Seq(Names) /\ a # Root /\ Len(a) = Len(s) + 1 /\ Len(s) \in Nat
        /\ \A i \in 1..Len(s) : a[i] = s[i] /\ s[i] \in Names
    BY AppendProperties, LenProperties, ElementOfSeq DEF Root
  <2>. HIDE DEF a
  <2>2. /\ SubSeq(a, 1, Len(s)) \in Seq(Names) /\ Len(SubSeq(a, 1, Len(s))) = Len(s)
        /\ \A i \in 1..Len(s) : SubSeq(a, 1, Len(s))[i] = s[i]
    <3>1. \A i \in 1..Len(s) : a[i] \in Names
      BY <2>1
    <3>2. /\ SubSeq(a, 1, Len(s)) \in Seq(Names)
          /\ Len(SubSeq(a, 1, Len(s))) = IF 1 <= Len(s) THEN Len(s) - 1 + 1 ELSE 0
          /\ \A i \in 1..(Len(s) - 1 + 1) : SubSeq(a, 1, Len(s))[i] = a[1 + i - 1]
      BY <2>1, <3>1, SubSeqProperties
    <3>. QED
      BY <2>1, <3>2
  <2>3. SubSeq(a, 1, Len(s)) = s
    BY <2>2, SeqEqual
  <2>4. ParentPath(a) = SubSeq(a, 1, Len(s))
    BY <2>1 DEF ParentPath, Front
  <2>. QED
    BY <2>1, <2>3, <2>4 DEF a
<1>. QED
  BY <1>1, <1>2, <1>3, <1>4, <1>5

LEMMA AbsPathType ==
  ASSUME TypeOK, NEW p \in Procs, NEW arg \in Args
  PROVE  AbsPath(p, arg) \in Seq(Names)
  BY PathFacts DEF TypeOK, AbsPath

LEMMA RowShape ==
  ASSUME TypeOK, NEW i \in live
  PROVE  i \in Ids /\ i < nextId /\ i # Top /\ row[i] \in Rows /\ nextId \in Nat
  BY TreeAssumption DEF TypeOK, Ids, Top, Rows

LEMMA NodeShape ==
  ASSUME TypeOK, NEW user, NEW path, NEW node \in NodesAt(user, path)
  PROVE  /\ node = [id |-> node.id, type |-> node.type]
         /\ node.id \in Ids \cup {Top} /\ node.id < nextId
         /\ node.type \in {"file", "dir"}
         /\ path = Root => node.id = Top /\ node.type = "dir"
         /\ path # Root => /\ node.id \in live /\ row[node.id].user = user
                           /\ row[node.id].path = path /\ row[node.id].type = node.type
<1>1. CASE path = Root
  <2>1. 0 < nextId
    BY TreeAssumption DEF TypeOK
  <2>. QED
    BY <1>1, <2>1 DEF NodesAt, Top
<1>2. CASE path # Root
  <2>1. PICK i \in RowsAt(user, path) : node = [id |-> i, type |-> row[i].type]
    BY <1>2 DEF NodesAt
  <2>2. i \in live /\ row[i].user = user /\ row[i].path = path
    BY <2>1 DEF RowsAt
  <2>. QED
    BY <1>2, <2>1, <2>2, RowShape DEF Rows
<1>. QED
  BY <1>1, <1>2

LEMMA CreatorsFinite == IsFiniteSet(Creators) /\ Cardinality(Creators) \in Nat
<1>1. IsFiniteSet(Procs)
  BY FS_Union, TreeAssumption DEF Procs
<1>2. Creators \in SUBSET Procs
  BY DEF Creators
<1>. QED
  BY <1>1, <1>2, FS_Subset, FS_CardinalityType

LEMMA GotoEffect ==
  ASSUME TypeOK, NEW p \in Procs, NEW label \in Labels, NEW j \in Jobs, Goto(p, label, j)
  PROVE  /\ pc' \in [Procs -> Labels] /\ job' \in [Procs -> Jobs]
         /\ pc'[p] = label /\ job'[p] = j
         /\ \A q \in Procs : q # p => pc'[q] = pc[q] /\ job'[q] = job[q]
         /\ Creators' = IF label \in {"lookup", "insert"} THEN Creators \cup {p}
                                                          ELSE Creators \ {p}
<1>1. /\ pc' \in [Procs -> Labels] /\ job' \in [Procs -> Jobs]
      /\ pc'[p] = label /\ job'[p] = j
      /\ \A q \in Procs : q # p => pc'[q] = pc[q] /\ job'[q] = job[q]
  BY DEF TypeOK, Goto, Labels, Jobs
<1>2. Creators' = IF label \in {"lookup", "insert"} THEN Creators \cup {p}
                                                    ELSE Creators \ {p}
  BY <1>1 DEF Creators
<1>. QED
  BY <1>1, <1>2

LEMMA ContextConstants ==
  /\ NoContext \in Contexts /\ NoJob \in Jobs
  /\ NoContext.dir = Top /\ NoContext.user = NoUser /\ NoContext.path = Root
  BY PathFacts DEF NoContext, NoJob, Contexts, Jobs

LEMMA DoneEffect ==
  ASSUME TypeOK, NEW p \in Procs, Done(p)
  PROVE  /\ Goto(p, "idle", NoJob) /\ NoJob \in Jobs
         /\ ctx' \in [Procs -> Contexts]
         /\ \A q \in Procs : q # p => ctx'[q] = ctx[q]
         /\ ctx'[p] = IF p \in Threads THEN NoContext ELSE ctx[p]
<1>1. ctx \in [Procs -> Contexts]
  BY DEF TypeOK, Contexts
<1>. QED
  BY <1>1, ContextConstants DEF Done

-----------------------------------------------------------------------------
(* What holds of everybody's tree.                                           *)

\* A directory that a process may take as its current one.
OldDir(id) == id < nextId /\ (id \in live => row[id].type = "dir")

\* A node that a process may take its removal job for.
Fits(id, user, path, type) ==
  /\ id \in 1..(nextId - 1) /\ path # Root
  /\ id \in live => row[id].user = user /\ row[id].path = path /\ row[id].type = type

LEMMA TypeParts ==
  TypeOK <=>
    /\ live \subseteq 1..(nextId - 1) /\ nextId \in 1..(MaxId + 1)
    /\ row \in [Ids -> Rows]
    /\ ctx \in [Procs -> Contexts]
    /\ pc \in [Procs -> Labels]
    /\ job \in [Procs -> Jobs]
    /\ tickets \subseteq [user : Users, path : Seq(Names)]
    /\ prompt \in [Sessions -> Seq(Names)]
    /\ faults \in Nat
  BY DEF TypeOK, Rows, Contexts, Labels, Jobs

\* Steps that execute no statement on the table and start no command.
LEMMA QuietStep ==
  ASSUME TreeInv, UNCHANGED <<table, pc, job>>,
         ctx' \in [Procs -> Contexts],
         tickets' \subseteq [user : Users, path : Seq(Names)],
         prompt' \in [Sessions -> Seq(Names)],
         faults' \in Nat,
         \A q \in Procs : \/ ctx'[q] = ctx[q]
                          \/ pc[q] = "idle" /\ OldDir(ctx'[q].dir)
  PROVE  TreeInv'
<1>. USE DEF table
<1>1. TypeOK'
  BY DEF TreeInv, TypeOK, Contexts
<1>2. OnePathOneNode' /\ ParentIsOlderDir'
  BY DEF TreeInv, OnePathOneNode, ParentIsOlderDir
<1>3. IdsSuffice'
  BY DEF TreeInv, IdsSuffice, Creators
<1>4. ContextsAreOld'
  BY DEF TreeInv, ContextsAreOld, OldDir
<1>5. JobsNameRows'
  BY DEF TreeInv, JobsNameRows
<1>. QED
  BY <1>1, <1>2, <1>3, <1>4, <1>5 DEF TreeInv

\* Steps that move one process and leave the table alone.
LEMMA StatementStep ==
  ASSUME TreeInv, UNCHANGED table,
         NEW p \in Procs, NEW label \in Labels, NEW j \in Jobs, Goto(p, label, j),
         label \in {"lookup", "insert"} => p \in Creators \/ IdsLeft,
         ctx' \in [Procs -> Contexts],
         \A q \in Procs : q # p => ctx'[q] = ctx[q],
         OldDir(ctx'[p].dir),
         label \in {"check", "delete"} => Fits(j.id, ctx'[p].user, j.path, j.type),
         tickets' \subseteq [user : Users, path : Seq(Names)],
         prompt' \in [Sessions -> Seq(Names)],
         faults' \in Nat
  PROVE  TreeInv'
<1>. USE DEF table
<1>. TypeOK
  BY DEF TreeInv
<1>1. /\ pc' \in [Procs -> Labels] /\ job' \in [Procs -> Jobs]
      /\ pc'[p] = label /\ job'[p] = j
      /\ \A q \in Procs : q # p => pc'[q] = pc[q] /\ job'[q] = job[q]
      /\ Creators' = IF label \in {"lookup", "insert"} THEN Creators \cup {p}
                                                       ELSE Creators \ {p}
  BY GotoEffect
<1>2. TypeOK'
  BY <1>1 DEF TypeOK, Contexts, Labels, Jobs
<1>3. OnePathOneNode' /\ ParentIsOlderDir'
  BY DEF TreeInv, OnePathOneNode, ParentIsOlderDir
<1>4. IdsSuffice'
  <2>1. nextId \in Nat /\ MaxId \in Nat
    BY TreeAssumption DEF TypeOK
  <2>2. /\ Cardinality(Creators) \in Nat
        /\ Cardinality(Creators \cup {p}) =
             IF p \in Creators THEN Cardinality(Creators) ELSE Cardinality(Creators) + 1
        /\ Cardinality(Creators \ {p}) =
             IF p \in Creators THEN Cardinality(Creators) - 1 ELSE Cardinality(Creators)
    BY CreatorsFinite, FS_AddElement, FS_RemoveElement
  <2>3. nextId + Cardinality(Creators) <= MaxId + 1
    BY DEF TreeInv, IdsSuffice
  <2>4. nextId + Cardinality(Creators') <= MaxId + 1
    BY <1>1, <2>1, <2>2, <2>3 DEF IdsLeft
  <2>. QED
    BY <2>4 DEF IdsSuffice
<1>5. ContextsAreOld'
  BY DEF TreeInv, ContextsAreOld, OldDir
<1>6. JobsNameRows'
  BY <1>1 DEF TreeInv, JobsNameRows, Fits
<1>. QED
  BY <1>2, <1>3, <1>4, <1>5, <1>6 DEF TreeInv

LEMMA InvContexts ==
  ASSUME TreeInv
  PROVE  /\ TypeOK /\ ctx \in [Procs -> Contexts]
         /\ \A p \in Procs : OldDir(ctx[p].dir)
         /\ OldDir(Top) /\ OldDir(NoContext.dir)
<1>1. TypeOK /\ ctx \in [Procs -> Contexts] /\ \A p \in Procs : OldDir(ctx[p].dir)
  BY DEF TreeInv, TypeOK, Contexts, ContextsAreOld, OldDir
<1>2. OldDir(Top)
  BY <1>1, TreeAssumption DEF TypeOK, OldDir, Top
<1>. QED
  BY <1>1, <1>2, ContextConstants

\* A directory found by path may become a current directory.
LEMMA NodeIsOldDir ==
  ASSUME TypeOK, NEW user, NEW path, NEW node \in NodesAt(user, path), node.type = "dir"
  PROVE  OldDir(node.id) /\ node.id \in Ids \cup {Top}
<1>1. CASE path = Root
  BY <1>1, NodeShape, TypeParts, TreeAssumption DEF OldDir, Top
<1>2. CASE path # Root
  BY <1>2, NodeShape DEF OldDir
<1>. QED
  BY <1>1, <1>2

LEMMA CommandIdle ==
  ASSUME TypeOK, NEW p \in Sessions, Ready(p)
  PROVE  p \in Procs /\ pc[p] = "idle" /\ p \notin Creators
  BY DEF Ready, Procs, Creators

LEMMA FaultsGrow ==
  ASSUME TypeOK, Works \/ Fails
  PROVE  faults' \in Nat
  BY DEF TypeOK, Works, Fails

LEMMA LoginKeepsInv ==
  ASSUME TreeInv, NEW p \in Sessions, NEW u \in Users, Login(p, u)
  PROVE  TreeInv'
<1>. p \in Procs /\ pc[p] = "idle" /\ TypeOK
  BY InvContexts, CommandIdle DEF Login
<1>1. /\ ctx' \in [Procs -> Contexts]
      /\ \A q \in Procs : q # p => ctx'[q] = ctx[q]
      /\ ctx'[p].dir = NoContext.dir \/ ctx'[p].dir = ctx[p].dir
  <2>. DEFINE c == IF ctx[p].user = NoUser THEN [NoContext EXCEPT !.user = u]
                                          ELSE [ctx[p] EXCEPT !.user = u]
  <2>1. c \in Contexts /\ (c.dir = NoContext.dir \/ c.dir = ctx[p].dir)
    BY InvContexts, ContextConstants DEF Contexts
  <2>2. ctx' = [ctx EXCEPT ![p] = c]
    BY DEF Login
  <2>. HIDE DEF c
  <2>. QED
    BY <2>1, <2>2, InvContexts
<1>2. prompt' \in [Sessions -> Seq(Names)]
  BY PathFacts DEF Login, TypeOK
<1>3. tickets' \subseteq [user : Users, path : Seq(Names)] /\ faults' \in Nat
  BY DEF Login, TypeOK
<1>4. UNCHANGED <<table, pc, job>>
  BY DEF Login
<1>. QED
  BY <1>1, <1>2, <1>3, <1>4, InvContexts, QuietStep

LEMMA LogoutKeepsInv ==
  ASSUME TreeInv, NEW p \in Sessions, Ready(p), Logout(p)
  PROVE  TreeInv'
<1>. p \in Procs /\ pc[p] = "idle" /\ TypeOK
  BY InvContexts, CommandIdle
<1>1. /\ ctx' \in [Procs -> Contexts] /\ ctx'[p] = NoContext
      /\ \A q \in Procs : q # p => ctx'[q] = ctx[q]
  BY InvContexts, ContextConstants DEF Logout
<1>2. prompt' \in [Sessions -> Seq(Names)]
  BY PathFacts DEF Logout, TypeOK
<1>3. tickets' \subseteq [user : Users, path : Seq(Names)] /\ faults' \in Nat
  BY DEF Logout, TypeOK
<1>4. UNCHANGED <<table, pc, job>>
  BY DEF Logout
<1>. QED
  BY <1>1, <1>2, <1>3, <1>4, InvContexts, QuietStep

\* What cd does.
LEMMA CdEffect ==
  ASSUME TypeOK, NEW p \in Procs, NEW path \in Seq(Names), NEW shown, Cd(p, path, shown)
  PROVE  \E id \in Ids \cup {Top} :
           /\ DirAt(ctx[p].user, path, id) /\ OldDir(id)
           /\ ctx' \in [Procs -> Contexts]
           /\ ctx'[p].user = ctx[p].user /\ ctx'[p].path = path /\ ctx'[p].dir = id
           /\ \A q \in Procs : q # p => ctx'[q] = ctx[q]
<1>1. PICK node \in NodesAt(ctx[p].user, path) :
        /\ node.type = "dir"
        /\ ctx' = [ctx EXCEPT ![p].path = path, ![p].dir = node.id]
  BY DEF Cd
<1>2. OldDir(node.id) /\ node.id \in Ids \cup {Top}
  BY <1>1, NodeIsOldDir
<1>3. DirAt(ctx[p].user, path, node.id)
  BY <1>1, NodeShape DEF DirAt
<1>4. /\ ctx' \in [Procs -> Contexts]
      /\ ctx'[p].user = ctx[p].user /\ ctx'[p].path = path /\ ctx'[p].dir = node.id
      /\ \A q \in Procs : q # p => ctx'[q] = ctx[q]
  <2>. DEFINE c == [ctx[p] EXCEPT !.path = path, !.dir = node.id]
  <2>1. ctx \in [Procs -> Contexts] /\ ctx[p] \in Contexts
    BY DEF TypeOK, Contexts
  <2>2. c \in Contexts /\ c.user = ctx[p].user /\ c.path = path /\ c.dir = node.id
    BY <1>2, <2>1 DEF Contexts
  <2>3. ctx' = [ctx EXCEPT ![p] = c]
    BY <1>1, <2>1
  <2>. HIDE DEF c
  <2>. QED
    BY <2>1, <2>2, <2>3
<1>. QED
  BY <1>2, <1>3, <1>4

LEMMA CdKeepsInv ==
  ASSUME TreeInv, NEW p \in Sessions, Ready(p),
         NEW path \in Seq(Names), NEW shown \in Seq(Names), Cd(p, path, shown)
  PROVE  TreeInv'
<1>. p \in Procs /\ pc[p] = "idle" /\ TypeOK
  BY InvContexts, CommandIdle
<1>1. PICK id \in Ids \cup {Top} :
        /\ OldDir(id) /\ ctx' \in [Procs -> Contexts]
        /\ ctx'[p].user = ctx[p].user /\ ctx'[p].path = path /\ ctx'[p].dir = id
        /\ \A q \in Procs : q # p => ctx'[q] = ctx[q]
  BY CdEffect
<1>2. prompt' \in [Sessions -> Seq(Names)]
  BY DEF Cd, TypeOK
<1>3. tickets' \subseteq [user : Users, path : Seq(Names)] /\ faults' \in Nat
  BY FaultsGrow DEF Cd, TypeOK
<1>4. UNCHANGED <<table, pc, job>>
  BY DEF Cd
<1>. QED
  BY <1>1, <1>2, <1>3, <1>4, InvContexts, QuietStep

\* What rm and rmdir select.
LEMMA SelectEffect ==
  ASSUME TypeOK, NEW p \in Procs, NEW arg \in Args, NEW type, NEW label,
         Select(p, arg, type, label)
  PROVE  \E j \in Jobs :
           /\ Goto(p, label, j)
           /\ j.path = AbsPath(p, arg) /\ j.type = type
           /\ Fits(j.id, ctx[p].user, j.path, j.type)
<1>. DEFINE path == AbsPath(p, arg)
<1>1. PICK node \in NodesAt(ctx[p].user, path) :
        node.type = type /\ Goto(p, label, [path |-> path, id |-> node.id, type |-> type])
  BY DEF Select
<1>. DEFINE j == [path |-> path, id |-> node.id, type |-> type]
<1>2. path # Root /\ path \in Seq(Names)
  BY AbsPathType DEF Select
<1>. HIDE DEF path
<1>3. j \in Jobs
  BY <1>1, <1>2, NodeShape DEF Jobs
<1>4. Fits(j.id, ctx[p].user, j.path, j.type)
  BY <1>1, <1>2, NodeShape, RowShape DEF Fits, Ids
<1>. QED
  BY <1>1, <1>3, <1>4 DEF path

LEMMA SelectKeepsInv ==
  ASSUME TreeInv, NEW p \in Sessions, Ready(p), NEW arg \in Args, NEW type,
         NEW label \in {"check", "delete"}, Select(p, arg, type, label)
  PROVE  TreeInv'
<1>. p \in Procs /\ TypeOK
  BY InvContexts, CommandIdle
<1>1. PICK j \in Jobs : Goto(p, label, j) /\ Fits(j.id, ctx[p].user, j.path, j.type)
  BY SelectEffect
<1>2. /\ UNCHANGED <<table, ctx>> /\ faults' \in Nat
      /\ tickets' \subseteq [user : Users, path : Seq(Names)]
      /\ prompt' \in [Sessions -> Seq(Names)]
  BY FaultsGrow DEF Select, TypeOK
<1>3. label \in Labels /\ label \notin {"lookup", "insert"}
  BY DEF Labels
<1>. QED
  BY <1>1, <1>2, <1>3, InvContexts, StatementStep

LEMMA CreateKeepsInv ==
  ASSUME TreeInv, NEW p \in Sessions, Ready(p), NEW arg \in Args,
         NEW type \in {"file", "dir"}, Create(p, arg, type)
  PROVE  TreeInv'
<1>. p \in Procs /\ TypeOK
  BY InvContexts, CommandIdle
<1>. DEFINE j == [path |-> AbsPath(p, arg), id |-> Top, type |-> type]
<1>1. Goto(p, "insert", j) /\ IdsLeft
  BY DEF Create
<1>2. j \in Jobs
  BY AbsPathType DEF Jobs
<1>. HIDE DEF j
<1>3. /\ UNCHANGED <<table, ctx>> /\ faults' \in Nat
      /\ tickets' \subseteq [user : Users, path : Seq(Names)]
      /\ prompt' \in [Sessions -> Seq(Names)]
  BY FaultsGrow DEF Create, NoNode, TypeOK
<1>4. "insert" \in Labels /\ "insert" \notin {"check", "delete"}
  BY DEF Labels
<1>. QED
  BY <1>1, <1>2, <1>3, <1>4, InvContexts, StatementStep

LEMMA PrepareKeepsInv ==
  ASSUME TreeInv, NEW p \in Sessions, Commands(p), NEW n \in Names, Prepare(p, n)
  PROVE  TreeInv'
<1>. p \in Procs /\ TypeOK
  BY InvContexts, CommandIdle DEF Commands
<1>1. Append(ctx[p].path, n) \in Seq(Names) /\ ctx[p].user \in Users
  BY PathFacts DEF TypeOK, Commands
<1>2. tickets' \subseteq [user : Users, path : Seq(Names)]
  <2>1. [user |-> ctx[p].user, path |-> Append(ctx[p].path, n)]
          \in [user : Users, path : Seq(Names)]
    BY <1>1
  <2>2. tickets \subseteq [user : Users, path : Seq(Names)]
    BY DEF TypeOK
  <2>3. tickets' = tickets \cup {[user |-> ctx[p].user, path |-> Append(ctx[p].path, n)]}
    BY DEF Prepare
  <2>. QED
    BY <2>1, <2>2, <2>3
<1>3. /\ UNCHANGED <<table, pc, job, ctx>> /\ faults' \in Nat
      /\ prompt' \in [Sessions -> Seq(Names)]
  BY DEF Prepare, TypeOK
<1>. QED
  BY <1>2, <1>3, InvContexts, QuietStep

LEMMA CommandKeepsInv ==
  ASSUME TreeInv, NEW p \in Sessions, Command(p)
  PROVE  TreeInv'
<1>. TypeOK /\ p \in Procs /\ Ready(p) /\ Commands(p)
  BY InvContexts DEF Command, Commands, Procs
<1>1. CASE Logout(p)
  BY <1>1, LogoutKeepsInv
<1>2. CASE CdUp(p)
  <2>1. ParentPath(ctx[p].path) \in Seq(Names) /\ ParentPath(prompt[p]) \in Seq(Names)
    BY PathFacts DEF TypeOK
  <2>. QED
    BY <1>2, <2>1, CdKeepsInv DEF CdUp
<1>3. ASSUME NEW arg \in Args, CdInto(p, arg) PROVE TreeInv'
  <2>1. AbsPath(p, arg) \in Seq(Names) /\ PromptAfter(p, arg) \in Seq(Names)
    BY PathFacts, AbsPathType DEF TypeOK, PromptAfter
  <2>. QED
    BY <1>3, <2>1, CdKeepsInv DEF CdInto
<1>4. ASSUME NEW arg \in Args, Rm(p, arg) PROVE TreeInv'
  BY <1>4, SelectKeepsInv DEF Rm
<1>5. ASSUME NEW arg \in Args, Rmdir(p, arg) PROVE TreeInv'
  BY <1>5, SelectKeepsInv DEF Rmdir
<1>6. ASSUME NEW arg \in Args, NEW type \in {"file", "dir"}, Create(p, arg, type)
      PROVE  TreeInv'
  BY <1>6, CreateKeepsInv
<1>7. ASSUME NEW n \in Names, Prepare(p, n) PROVE TreeInv'
  BY <1>7, PrepareKeepsInv
<1>. QED
  BY <1>1, <1>2, <1>3, <1>4, <1>5, <1>6, <1>7 DEF Command

\* The statements of a process that end its command and leave the table alone.
LEMMA DoneKeepsInv ==
  ASSUME TreeInv, NEW p \in Procs, Done(p), Works \/ Fails \/ UNCHANGED faults,
         UNCHANGED <<table, tickets, prompt>>
  PROVE  TreeInv'
<1>. TypeOK
  BY InvContexts
<1>1. /\ Goto(p, "idle", NoJob) /\ NoJob \in Jobs
      /\ ctx' \in [Procs -> Contexts]
      /\ \A q \in Procs : q # p => ctx'[q] = ctx[q]
      /\ OldDir(ctx'[p].dir)
  BY DoneEffect, InvContexts
<1>2. /\ faults' \in Nat
      /\ tickets' \subseteq [user : Users, path : Seq(Names)]
      /\ prompt' \in [Sessions -> Seq(Names)]
  BY FaultsGrow DEF TypeOK
<1>3. "idle" \in Labels /\ "idle" \notin {"lookup", "insert", "check", "delete"}
  BY DEF Labels
<1>. QED
  BY <1>1, <1>2, <1>3, StatementStep

\* What the INSERT does when it succeeds.
LEMMA InsertEffect ==
  ASSUME TreeInv, NEW p \in Procs, pc[p] = "insert", PutRow(p, nextId),
         nextId' = nextId + 1, ~Taken(p)
  PROVE  /\ nextId \in Ids /\ nextId' \in 1..(MaxId + 1)
         /\ nextId \notin live /\ live' = live \cup {nextId}
         /\ row' \in [Ids -> Rows]
         /\ \A i \in live : row'[i] = row[i]
         /\ row'[nextId].user = ctx[p].user /\ row'[nextId].path = job[p].path
         /\ row'[nextId].parent = ctx[p].dir /\ row'[nextId].type = job[p].type
         /\ \A i \in live : ~(row[i].user = ctx[p].user /\ row[i].path = job[p].path)
         /\ Cardinality(Creators) \in Nat \ {0}
<1>. TypeOK
  BY InvContexts
<1>1. Cardinality(Creators) \in Nat \ {0}
  <2>1. p \in Creators
    BY DEF Creators
  <2>. QED
    BY <2>1, CreatorsFinite, FS_EmptySet
<1>2. nextId \in Ids /\ nextId' \in 1..(MaxId + 1)
  BY <1>1, TreeAssumption DEF TreeInv, TypeOK, IdsSuffice, Ids
<1>3. nextId \notin live /\ live' = live \cup {nextId}
  BY <1>2 DEF TypeOK, PutRow, Ids
<1>. DEFINE r == [user |-> ctx[p].user, path |-> job[p].path,
                  parent |-> ctx[p].dir, type |-> job[p].type]
<1>4. r \in Rows
  <2>1. ctx[p] \in Contexts /\ job[p] \in Jobs
    BY TypeParts
  <2>. QED
    BY <2>1 DEF Rows, Contexts, Jobs
<1>5. row \in [Ids -> Rows] /\ row' = [row EXCEPT ![nextId] = r]
  BY TypeParts DEF PutRow
<1>6. /\ r.user = ctx[p].user /\ r.path = job[p].path
      /\ r.parent = ctx[p].dir /\ r.type = job[p].type
  OBVIOUS
<1>. HIDE DEF r
<1>7. row' \in [Ids -> Rows] /\ row'[nextId] = r /\ \A i \in live : row'[i] = row[i]
  BY <1>2, <1>3, <1>4, <1>5
<1>8. \A i \in live : ~(row[i].user = ctx[p].user /\ row[i].path = job[p].path)
  BY DEF Taken, RowsAt
<1>. QED
  BY <1>1, <1>2, <1>3, <1>6, <1>7, <1>8

LEMMA InsertKeepsInv ==
  ASSUME TreeInv, NEW p \in Procs, InsertNode(p)
  PROVE  TreeInv'
<1>. TypeOK /\ pc[p] = "insert" /\ Done(p) /\ UNCHANGED <<tickets, prompt>>
  BY InvContexts DEF InsertNode
<1>1. CASE UNCHANGED table /\ (Works \/ Fails)
  BY <1>1, DoneKeepsInv
<1>2. CASE ~Taken(p) /\ Works /\ PutRow(p, nextId) /\ nextId' = nextId + 1
  <2>1. /\ nextId \in Ids /\ nextId' \in 1..(MaxId + 1)
        /\ nextId \notin live /\ live' = live \cup {nextId}
        /\ row' \in [Ids -> Rows]
        /\ \A i \in live : row'[i] = row[i]
        /\ row'[nextId].user = ctx[p].user /\ row'[nextId].path = job[p].path
        /\ row'[nextId].parent = ctx[p].dir /\ row'[nextId].type = job[p].type
        /\ \A i \in live : ~(row[i].user = ctx[p].user /\ row[i].path = job[p].path)
        /\ Cardinality(Creators) \in Nat \ {0}
    BY <1>2, InsertEffect
  <2>2. /\ Goto(p, "idle", NoJob) /\ NoJob \in Jobs /\ ctx' \in [Procs -> Contexts]
        /\ \A q \in Procs : q # p => ctx'[q] = ctx[q]
        /\ ctx'[p].dir = Top \/ ctx'[p] = ctx[p]
    BY DoneEffect, ContextConstants
  <2>3. /\ pc' \in [Procs -> Labels] /\ job' \in [Procs -> Jobs]
        /\ pc'[p] = "idle"
        /\ \A q \in Procs : q # p => pc'[q] = pc[q] /\ job'[q] = job[q]
        /\ Creators' = Creators \ {p}
    BY <2>2, GotoEffect DEF Labels
  <2>4. /\ nextId \in Nat /\ MaxId \in Nat /\ nextId' = nextId + 1 /\ nextId # Top
        /\ \A i \in live : i \in Nat /\ i < nextId
    BY <1>2, TreeAssumption DEF TypeOK, Top
  <2>5. TypeOK'
    <3>1. live' \subseteq 1..(nextId' - 1)
      BY <2>1, <2>4 DEF TypeOK
    <3>2. faults' \in Nat /\ tickets' \subseteq [user : Users, path : Seq(Names)]
          /\ prompt' \in [Sessions -> Seq(Names)]
      BY <1>2, FaultsGrow DEF TypeOK
    <3>. QED
      BY <2>1, <2>2, <2>3, <3>1, <3>2 DEF TypeOK, Rows, Contexts, Labels, Jobs
  <2>6. OnePathOneNode'
    BY <2>1 DEF TreeInv, OnePathOneNode
  <2>7. \A q \in Procs : /\ ctx[q].dir \in Nat /\ ctx[q].dir < nextId
                         /\ ctx[q].dir \in live => row[ctx[q].dir].type = "dir"
    <3>1. \A q \in Procs : ctx[q].dir \in Ids \cup {Top}
      BY TypeParts DEF Contexts
    <3>. QED
      BY <3>1, TreeAssumption DEF TreeInv, ContextsAreOld, Ids, Top
  <2>8. ParentIsOlderDir'
    <3>1. ASSUME NEW i \in live
          PROVE  /\ row'[i].parent < i
                 /\ row'[i].parent \in live' => row'[row'[i].parent].type = "dir"
      <4>1. /\ row[i].parent < i /\ row'[i] = row[i]
            /\ row[i].parent \in live => row[row[i].parent].type = "dir"
        BY <2>1 DEF TreeInv, ParentIsOlderDir
      <4>2. row[i].parent # nextId
        BY <2>4, <4>1
      <4>. QED
        BY <2>1, <4>1, <4>2
    <3>2. /\ row'[nextId].parent < nextId
          /\ row'[nextId].parent \in live' => row'[row'[nextId].parent].type = "dir"
      <4>1. ctx[p].dir # nextId
        BY <2>4, <2>7
      <4>. QED
        BY <2>1, <2>7, <4>1
    <3>. QED
      BY <2>1, <3>1, <3>2 DEF ParentIsOlderDir
  <2>9. IdsSuffice'
    <3>1. p \in Creators /\ IsFiniteSet(Creators)
      BY CreatorsFinite DEF Creators
    <3>2. Cardinality(Creators') = Cardinality(Creators) - 1
      BY <2>3, <3>1, FS_RemoveElement
    <3>. QED
      BY <2>1, <2>4, <3>2 DEF TreeInv, IdsSuffice
  <2>10. ContextsAreOld'
    <3>1. ASSUME NEW q \in Procs
          PROVE  /\ ctx'[q].dir < nextId'
                 /\ ctx'[q].dir \in live' => row'[ctx'[q].dir].type = "dir"
      <4>1. ctx'[q].dir = ctx[q].dir \/ ctx'[q].dir = Top
        BY <2>2
      <4>2. Top < nextId' /\ Top \notin live'
        BY <2>1, <2>4 DEF TypeOK, Top
      <4>3. ctx[q].dir < nextId' /\ ctx[q].dir # nextId
        BY <2>4, <2>7
      <4>. QED
        BY <2>1, <2>7, <4>1, <4>2, <4>3
    <3>. QED
      BY <3>1 DEF ContextsAreOld
  <2>11. JobsNameRows'
    <3>1. ASSUME NEW q \in Procs, pc'[q] \in {"check", "delete"}
          PROVE  /\ q # p /\ ctx'[q] = ctx[q] /\ job'[q] = job[q] /\ pc'[q] = pc[q]
                 /\ job[q].id \in 1..(nextId - 1) /\ job[q].path # Root
                 /\ job[q].id # nextId /\ job[q].id \in 1..(nextId' - 1)
      BY <2>2, <2>3, <2>4, <3>1 DEF TreeInv, JobsNameRows
    <3>2. ASSUME NEW q \in Procs, pc'[q] \in {"check", "delete"}, job[q].id \in live
          PROVE  /\ row'[job[q].id].user = ctx[q].user
                 /\ row'[job[q].id].path = job[q].path
                 /\ row'[job[q].id].type = job[q].type
      BY <2>1, <3>1, <3>2 DEF TreeInv, JobsNameRows
    <3>. QED
      BY <2>1, <3>1, <3>2 DEF JobsNameRows
  <2>. QED
    BY <2>5, <2>6, <2>8, <2>9, <2>10, <2>11 DEF TreeInv
<1>. QED
  BY <1>1, <1>2 DEF InsertNode

LEMMA CheckKeepsInv ==
  ASSUME TreeInv, NEW p \in Procs, CheckEmpty(p)
  PROVE  TreeInv'
<1>. TypeOK /\ pc[p] = "check" /\ UNCHANGED <<table, tickets, prompt>>
  BY InvContexts DEF CheckEmpty
<1>1. CASE Done(p) /\ (Works \/ Fails)
  BY <1>1, DoneKeepsInv
<1>2. CASE Works /\ Goto(p, "delete", job[p]) /\ UNCHANGED ctx
  <2>1. job[p] \in Jobs /\ Fits(job[p].id, ctx[p].user, job[p].path, job[p].type)
    BY TypeParts DEF TreeInv, JobsNameRows, Fits
  <2>2. /\ faults' \in Nat
        /\ tickets' \subseteq [user : Users, path : Seq(Names)]
        /\ prompt' \in [Sessions -> Seq(Names)]
    BY <1>2, FaultsGrow DEF TypeOK
  <2>3. "delete" \in Labels /\ "delete" \notin {"lookup", "insert"}
    BY DEF Labels
  <2>. QED
    BY <1>2, <2>1, <2>2, <2>3, InvContexts, StatementStep
<1>. QED
  BY <1>1, <1>2 DEF CheckEmpty

\* What the DELETE does when it succeeds.
LEMMA DeleteEffect ==
  ASSUME TreeInv, NEW p \in Procs, pc[p] = "delete",
         live' = IF row[job[p].id].user = ctx[p].user THEN live \ {job[p].id} ELSE live,
         row' = [i \in Ids |-> IF i \in live' THEN row[i] ELSE NoRow]
  PROVE  /\ live' = live \ {job[p].id} /\ row' \in [Ids -> Rows]
         /\ \A i \in live' : row'[i] = row[i]
         /\ job[p].id \in live => /\ row[job[p].id].user = ctx[p].user
                                  /\ row[job[p].id].path = job[p].path
                                  /\ row[job[p].id].type = job[p].type
<1>. TypeOK
  BY InvContexts
<1>1. job[p].id \in live => /\ row[job[p].id].user = ctx[p].user
                            /\ row[job[p].id].path = job[p].path
                            /\ row[job[p].id].type = job[p].type
  BY DEF TreeInv, JobsNameRows
<1>2. live' = live \ {job[p].id}
  BY <1>1
<1>3. NoRow \in Rows
  BY PathFacts DEF NoRow, Rows
<1>4. live \subseteq Ids /\ row \in [Ids -> Rows]
  BY RowShape, TypeParts
<1>5. row' \in [Ids -> Rows] /\ \A i \in live' : row'[i] = row[i]
  BY <1>2, <1>3, <1>4
<1>. QED
  BY <1>1, <1>2, <1>5

LEMMA DeleteKeepsInv ==
  ASSUME TreeInv, NEW p \in Procs, DeleteNode(p)
  PROVE  TreeInv'
<1>. TypeOK /\ pc[p] = "delete" /\ Done(p) /\ UNCHANGED <<nextId, tickets, prompt>>
  BY InvContexts DEF DeleteNode
<1>1. CASE Fails /\ UNCHANGED <<live, row>>
  BY <1>1, DoneKeepsInv DEF table
<1>2. CASE Works /\ ~UNCHANGED <<live, row>>
  <2>1. /\ live' = live \ {job[p].id} /\ row' \in [Ids -> Rows]
        /\ \A i \in live' : i \in live /\ row'[i] = row[i]
    <3>1. /\ live' = IF row[job[p].id].user = ctx[p].user THEN live \ {job[p].id} ELSE live
          /\ row' = [i \in Ids |-> IF i \in live' THEN row[i] ELSE NoRow]
      BY <1>2 DEF DeleteNode
    <3>. QED
      BY <3>1, DeleteEffect
  <2>2. /\ Goto(p, "idle", NoJob) /\ NoJob \in Jobs /\ ctx' \in [Procs -> Contexts]
        /\ \A q \in Procs : q # p => ctx'[q] = ctx[q]
        /\ ctx'[p].dir = Top \/ ctx'[p] = ctx[p]
    BY DoneEffect, ContextConstants
  <2>3. /\ pc' \in [Procs -> Labels] /\ job' \in [Procs -> Jobs]
        /\ pc'[p] = "idle"
        /\ \A q \in Procs : q # p => pc'[q] = pc[q] /\ job'[q] = job[q]
        /\ Creators' = Creators \ {p}
    BY <2>2, GotoEffect DEF Labels
  <2>4. TypeOK'
    <3>1. faults' \in Nat /\ tickets' \subseteq [user : Users, path : Seq(Names)]
          /\ prompt' \in [Sessions -> Seq(Names)]
      BY <1>2, FaultsGrow DEF TypeOK
    <3>2. live' \subseteq 1..(nextId' - 1) /\ nextId' \in 1..(MaxId + 1)
      BY <2>1 DEF TypeOK
    <3>. QED
      BY <2>1, <2>2, <2>3, <3>1, <3>2 DEF TypeOK, Rows, Contexts, Labels, Jobs
  <2>5. OnePathOneNode' /\ ParentIsOlderDir'
    BY <2>1 DEF TreeInv, OnePathOneNode, ParentIsOlderDir
  <2>6. IdsSuffice'
    <3>1. p \notin Creators
      BY DEF Creators
    <3>2. Creators' = Creators
      BY <2>3, <3>1
    <3>. QED
      BY <3>2 DEF TreeInv, IdsSuffice
  <2>7. ContextsAreOld'
    BY <2>1, <2>2, InvContexts DEF ContextsAreOld, OldDir
  <2>8. JobsNameRows'
    BY <2>1, <2>2, <2>3 DEF TreeInv, JobsNameRows
  <2>. QED
    BY <2>4, <2>5, <2>6, <2>7, <2>8 DEF TreeInv
<1>3. CASE Works /\ UNCHANGED <<live, row>>
  BY <1>3, DoneKeepsInv DEF table
<1>. QED
  BY <1>1, <1>2, <1>3 DEF DeleteNode

LEMMA ExpireKeepsInv ==
  ASSUME TreeInv, NEW t \in tickets, TicketExpires(t)
  PROVE  TreeInv'
<1>1. /\ UNCHANGED <<table, pc, job, ctx>> /\ faults' \in Nat
      /\ tickets' \subseteq [user : Users, path : Seq(Names)]
      /\ prompt' \in [Sessions -> Seq(Names)]
  BY InvContexts DEF TicketExpires, TypeOK
<1>. QED
  BY <1>1, InvContexts, QuietStep

LEMMA LookupKeepsInv ==
  ASSUME TreeInv, NEW p \in Threads, UploadLookup(p)
  PROVE  TreeInv'
<1>. TypeOK /\ p \in Procs /\ pc[p] = "lookup" /\ UNCHANGED <<table, tickets, prompt>>
  BY InvContexts DEF UploadLookup, Procs
<1>1. CASE Done(p) /\ Works
  BY <1>1, DoneKeepsInv
<1>2. CASE NoNode(p, job[p].path) /\ Goto(p, "insert", job[p]) /\ UNCHANGED ctx
  <2>1. job[p] \in Jobs /\ p \in Creators
    BY TypeParts DEF Creators
  <2>2. /\ faults' \in Nat
        /\ tickets' \subseteq [user : Users, path : Seq(Names)]
        /\ prompt' \in [Sessions -> Seq(Names)]
    BY <1>2, FaultsGrow DEF NoNode, TypeOK
  <2>3. "insert" \in Labels /\ "insert" \notin {"check", "delete"}
    BY DEF Labels
  <2>. QED
    BY <1>2, <2>1, <2>2, <2>3, InvContexts, StatementStep
<1>. QED
  BY <1>1, <1>2 DEF UploadLookup

LEMMA UploadFailsKeepsInv ==
  ASSUME TreeInv, NEW p \in Threads, UploadFails(p)
  PROVE  TreeInv'
<1>. p \in Procs
  BY DEF Procs
<1>. QED
  BY DoneKeepsInv DEF UploadFails

\* What a transfer thread makes of a ticket.
LEMMA BeginEffect ==
  ASSUME TypeOK, NEW p \in Threads, NEW t \in tickets, BeginUpload(p, t)
  PROVE  /\ p \in Procs /\ pc[p] = "idle" /\ IdsLeft
         /\ tickets' = tickets \ {t} /\ t \in [user : Users, path : Seq(Names)]
         /\ faults' \in Nat /\ UNCHANGED <<table, prompt>>
         /\ \/ UNCHANGED <<ctx, pc, job>>
            \/ \E j \in Jobs, id \in Ids \cup {Top} :
                 /\ DirAt(t.user, ParentPath(t.path), id) /\ OldDir(id)
                 /\ ctx' \in [Procs -> Contexts]
                 /\ ctx'[p].user = t.user /\ ctx'[p].path = ParentPath(t.path)
                 /\ ctx'[p].dir = id
                 /\ \A q \in Procs : q # p => ctx'[q] = ctx[q]
                 /\ Goto(p, "lookup", j) /\ j.path = t.path
<1>. t \in [user : Users, path : Seq(Names)]
  BY DEF TypeOK
<1>1. p \in Procs /\ pc[p] = "idle" /\ IdsLeft /\ tickets' = tickets \ {t}
      /\ UNCHANGED <<table, prompt>>
  BY DEF BeginUpload, Procs
<1>2. CASE UNCHANGED <<ctx, pc, job>> /\ (Works \/ Fails)
  BY <1>1, <1>2, FaultsGrow
<1>3. ASSUME Works, NEW node \in NodesAt(t.user, ParentPath(t.path)), node.type = "dir",
             ctx' = [ctx EXCEPT ![p] = [user |-> t.user, path |-> ParentPath(t.path),
                                        dir |-> node.id]],
             Goto(p, "lookup", [path |-> t.path, id |-> Top, type |-> "file"])
      PROVE  /\ faults' \in Nat
             /\ \E j \in Jobs, id \in Ids \cup {Top} :
                 /\ DirAt(t.user, ParentPath(t.path), id) /\ OldDir(id)
                 /\ ctx' \in [Procs -> Contexts]
                 /\ ctx'[p].user = t.user /\ ctx'[p].path = ParentPath(t.path)
                 /\ ctx'[p].dir = id
                 /\ \A q \in Procs : q # p => ctx'[q] = ctx[q]
                 /\ Goto(p, "lookup", j) /\ j.path = t.path
  <2>. DEFINE c == [user |-> t.user, path |-> ParentPath(t.path), dir |-> node.id]
              j == [path |-> t.path, id |-> Top, type |-> "file"]
  <2>1. OldDir(node.id) /\ node.id \in Ids \cup {Top}
    BY <1>3, NodeIsOldDir
  <2>2. DirAt(t.user, ParentPath(t.path), node.id)
    BY <1>3, NodeShape DEF DirAt
  <2>3. c \in Contexts /\ j \in Jobs /\ j.path = t.path
    BY <2>1, PathFacts DEF Contexts, Jobs
  <2>4. c.user = t.user /\ c.path = ParentPath(t.path) /\ c.dir = node.id
    OBVIOUS
  <2>5. ctx \in [Procs -> Contexts]
    BY TypeParts
  <2>. HIDE DEF c
  <2>6. /\ ctx' \in [Procs -> Contexts] /\ ctx'[p] = c
        /\ \A q \in Procs : q # p => ctx'[q] = ctx[q]
    <3>1. ctx' = [ctx EXCEPT ![p] = c]
      BY <1>3 DEF c
    <3>. QED
      BY <1>1, <2>3, <2>5, <3>1
  <2>7. Goto(p, "lookup", j) /\ faults' \in Nat
    BY <1>3, FaultsGrow
  <2>. HIDE DEF j
  <2>. QED
    BY <2>1, <2>2, <2>3, <2>4, <2>6, <2>7
<1>. QED
  BY <1>1, <1>2, <1>3 DEF BeginUpload

LEMMA BeginKeepsInv ==
  ASSUME TreeInv, NEW p \in Threads, NEW t \in tickets, BeginUpload(p, t)
  PROVE  TreeInv'
<1>. TypeOK
  BY InvContexts
<1>1. /\ p \in Procs /\ IdsLeft /\ UNCHANGED table /\ faults' \in Nat
      /\ tickets' \subseteq [user : Users, path : Seq(Names)]
      /\ prompt' \in [Sessions -> Seq(Names)]
  BY BeginEffect DEF TypeOK
<1>2. CASE UNCHANGED <<ctx, pc, job>>
  BY <1>1, <1>2, InvContexts, QuietStep
<1>3. CASE \E j \in Jobs : /\ ctx' \in [Procs -> Contexts] /\ OldDir(ctx'[p].dir)
                           /\ \A q \in Procs : q # p => ctx'[q] = ctx[q]
                           /\ Goto(p, "lookup", j)
  <2>1. "lookup" \in Labels /\ "lookup" \notin {"check", "delete"}
    BY DEF Labels
  <2>. QED
    BY <1>1, <1>3, <2>1, StatementStep
<1>. QED
  BY <1>2, <1>3, BeginEffect

LEMMA InitInv == Init => TreeInv
<1>. SUFFICES ASSUME Init PROVE TreeInv
  OBVIOUS
<1>1. /\ live = {} /\ nextId = 1 /\ tickets = {} /\ faults = 0 /\ MaxId \in Nat
      /\ ctx = [p \in Procs |-> NoContext] /\ pc = [p \in Procs |-> "idle"]
      /\ job = [p \in Procs |-> NoJob] /\ row = [i \in Ids |-> NoRow]
      /\ prompt = [p \in Sessions |-> Root]
  BY TreeAssumption DEF Init
<1>2. TypeOK
  <2>1. NoRow \in Rows /\ NoContext \in Contexts /\ NoJob \in Jobs /\ Root \in Seq(Names)
    BY PathFacts, ContextConstants DEF NoRow, Rows
  <2>. QED
    BY <1>1, <2>1 DEF TypeOK, Rows, Contexts, Jobs
<1>3. Creators = {} /\ Cardinality({}) = 0
  BY <1>1, FS_EmptySet DEF Creators
<1>4. IdsSuffice
  BY <1>1, <1>3 DEF IdsSuffice
<1>5. ContextsAreOld
  BY <1>1, ContextConstants DEF ContextsAreOld, Top
<1>6. OnePathOneNode /\ ParentIsOlderDir /\ JobsNameRows
  BY <1>1 DEF OnePathOneNode, ParentIsOlderDir, JobsNameRows
<1>. QED
  BY <1>2, <1>4, <1>5, <1>6 DEF TreeInv

LEMMA NextKeepsInv ==
  ASSUME TreeInv, [Next]_vars
  PROVE  TreeInv'
<1>1. CASE UNCHANGED vars
  <2>1. UNCHANGED <<table, pc, job, ctx, tickets, prompt, faults>>
    BY <1>1 DEF vars
  <2>2. /\ faults' \in Nat /\ ctx' \in [Procs -> Contexts]
        /\ tickets' \subseteq [user : Users, path : Seq(Names)]
        /\ prompt' \in [Sessions -> Seq(Names)]
    BY <2>1, InvContexts DEF TypeOK
  <2>. QED
    BY <2>1, <2>2, QuietStep
<1>2. ASSUME NEW p \in Sessions, Command(p) \/ \E u \in Users : Login(p, u)
      PROVE  TreeInv'
  BY <1>2, CommandKeepsInv, LoginKeepsInv
<1>3. ASSUME NEW p \in Procs, InsertNode(p) \/ CheckEmpty(p) \/ DeleteNode(p)
      PROVE  TreeInv'
  BY <1>3, InsertKeepsInv, CheckKeepsInv, DeleteKeepsInv
<1>4. ASSUME NEW t \in tickets, TicketExpires(t) PROVE TreeInv'
  BY <1>4, ExpireKeepsInv
<1>5. ASSUME NEW p \in Threads,
             UploadLookup(p) \/ UploadFails(p) \/ \E t \in tickets : BeginUpload(p, t)
      PROVE  TreeInv'
  BY <1>5, LookupKeepsInv, UploadFailsKeepsInv, BeginKeepsInv
<1>. QED
  BY <1>1, <1>2, <1>3, <1>4, <1>5 DEF Next

\* Whatever clients do and however the statements of two servers and of the
\* transfer threads interleave or fail, a logical path names one node, parent
\* links lead to older directories, and rm, rmdir and a context never take the
\* row of one node for another's.
THEOREM TreeCorrect == Spec => []TreeInv
<1>1. TreeInv /\ [Next]_vars => TreeInv'
  BY NextKeepsInv
<1>. QED
  BY <1>1, InitInv, PTL DEF Spec

-----------------------------------------------------------------------------
(* The trees of careful users.                                               *)

\* A context that a process may have: its directory exists and nobody removes it.
Safe(c) ==
  c.user \in Careful =>
    /\ DirAt(c.user, c.path, c.dir)
    /\ \A r \in Removers : ctx[r].user = c.user => job[r].path # c.path

LEMMA RootIsDir ==
  ASSUME NEW user
  PROVE  DirAt(user, Root, Top)
  BY DEF DirAt, NodesAt

LEMMA RemoverFacts ==
  ASSUME TreeInv, NEW r \in Removers
  PROVE  /\ r \in Procs /\ pc[r] \in {"check", "delete"} /\ r \notin Creators
         /\ job[r].type = "dir" /\ ctx[r].user \in Careful
         /\ job[r].path # Root /\ job[r].id \in 1..(nextId - 1)
  BY DEF TreeInv, JobsNameRows, Removers, Creators

LEMMA ContextsAreSafe ==
  ASSUME CarefulInv, NEW p \in Procs
  PROVE  Safe(ctx[p])
  BY DEF CarefulInv, ContextsStand, RemovedAreDeserted, Inside, Safe

LEMMA NoUserIsNotCareful == NoUser \notin Careful
  BY TreeAssumption DEF Careful

LEMMA SameTable ==
  ASSUME UNCHANGED table
  PROVE  /\ TreeWhole => TreeWhole'
         /\ \A user, path, id : DirAt(user, path, id)' <=> DirAt(user, path, id)
<1>1. \A user, path, id : DirAt(user, path, id)' <=> DirAt(user, path, id)
  BY DEF table, DirAt, NodesAt, RowsAt
<1>2. TreeWhole => TreeWhole'
  BY <1>1 DEF table, TreeWhole, DirAt, NodesAt, RowsAt
<1>. QED
  BY <1>1, <1>2

\* Steps that execute no statement on the table and start no command.
LEMMA QuietCareful ==
  ASSUME TreeInv, CarefulInv, UNCHANGED <<table, pc, job>>,
         \A q \in Procs : \/ ctx'[q] = ctx[q]
                          \/ pc[q] = "idle" /\ Safe(ctx'[q]),
         \A t \in tickets' :
           t \in tickets \/ \A r \in Removers :
                              ctx[r].user = t.user => ParentPath(t.path) # job[r].path,
         PromptShowsSession'
  PROVE  CarefulInv'
<1>1. TreeWhole' /\ \A user, path, id : DirAt(user, path, id)' <=> DirAt(user, path, id)
  BY SameTable DEF CarefulInv
<1>2. \A q \in Procs : Safe(ctx'[q])
  BY ContextsAreSafe
<1>3. ContextsStand'
  BY <1>1, <1>2 DEF ContextsStand, Safe, Careful
<1>4. /\ Removers' = Removers /\ Creators' = Creators
      /\ \A r \in Removers \cup Creators : r \in Procs /\ ctx'[r] = ctx[r]
  BY DEF Removers, Creators, Careful
<1>5. CreatorsAtHome'
  BY <1>4 DEF CarefulInv, CreatorsAtHome, Careful
<1>6. RemovedAreDeserted'
  <2>1. ASSUME NEW r \in Removers, NEW q \in Procs 
        PROVE  ctx'[q].user = ctx[r].user => ctx'[q].path # job[r].path
    <3>1. ctx[r].user \in Careful
      BY RemoverFacts
    <3>. QED
      BY <1>2, <3>1 DEF Safe
  <2>2. ASSUME NEW r \in Removers, NEW t \in tickets', t.user = ctx[r].user
        PROVE  ParentPath(t.path) # job[r].path
    BY <2>2 DEF CarefulInv, RemovedAreDeserted
  <2>. QED
    BY <1>4, <2>1, <2>2 DEF RemovedAreDeserted, Inside
<1>7. RemovedStayEmpty'
  BY <1>4 DEF CarefulInv, RemovedStayEmpty, table
<1>. QED
  BY <1>1, <1>3, <1>5, <1>6, <1>7 DEF CarefulInv

\* Steps that move one process and leave the table alone.
LEMMA StatementCareful ==
  ASSUME TreeInv, CarefulInv, UNCHANGED <<table, prompt>>,
         NEW p \in Procs, NEW label \in Labels, NEW j \in Jobs, Goto(p, label, j),
         \A q \in Procs : q # p => ctx'[q] = ctx[q],
         ctx'[p] = ctx[p] \/ (p \in Threads /\ Safe(ctx'[p])),
         label \in {"lookup", "insert"} /\ ctx'[p].user \in Careful
           => ParentPath(j.path) = ctx'[p].path,
         label \in {"check", "delete"} /\ j.type = "dir" /\ ctx'[p].user \in Careful
           => /\ \A q \in Procs : ctx'[q].user = ctx'[p].user => ctx'[q].path # j.path
              /\ \A t \in tickets : t.user = ctx'[p].user => ParentPath(t.path) # j.path,
         label = "delete" /\ j.type = "dir" /\ ctx'[p].user \in Careful /\ j.id \in live
           => \A i \in live : row[i].user = ctx'[p].user => ParentPath(row[i].path) # j.path,
         tickets' \subseteq tickets
  PROVE  CarefulInv'
<1>. TypeOK
  BY InvContexts
<1>1. TreeWhole' /\ \A user, path, id : DirAt(user, path, id)' <=> DirAt(user, path, id)
  BY SameTable DEF CarefulInv
<1>2. \A q \in Procs : Safe(ctx'[q])
  BY ContextsAreSafe
<1>3. ContextsStand'
  BY <1>1, <1>2 DEF ContextsStand, Safe, Careful
<1>4. /\ pc'[p] = label /\ job'[p] = j
      /\ \A q \in Procs : q # p => pc'[q] = pc[q] /\ job'[q] = job[q]
  BY GotoEffect
<1>5. CreatorsAtHome'
  BY <1>4 DEF CarefulInv, CreatorsAtHome, Creators, Careful
<1>6. RemovedAreDeserted'
  <2>1. ASSUME NEW r \in Removers', r # p
        PROVE  /\ r \in Removers /\ r \in Procs
               /\ ctx'[r] = ctx[r] /\ job'[r] = job[r] /\ pc'[r] = pc[r]
    BY <1>4, <2>1 DEF Removers, Careful
  <2>2. ASSUME NEW r \in Removers', NEW q \in Procs
        PROVE  ctx'[q].user = ctx'[r].user => ctx'[q].path # job'[r].path
    <3>1. CASE r = p
      BY <1>4, <3>1 DEF Removers, Careful
    <3>2. CASE r # p
      <4>1. ctx[r].user \in Careful
        BY <2>1, <3>2, RemoverFacts
      <4>. QED
        BY <1>2, <2>1, <3>2, <4>1 DEF Safe
    <3>. QED
      BY <3>1, <3>2
  <2>3. ASSUME NEW r \in Removers', NEW t \in tickets', t.user = ctx'[r].user
        PROVE  ParentPath(t.path) # job'[r].path
    <3>1. CASE r = p
      BY <1>4, <2>3, <3>1 DEF Removers, Careful
    <3>2. CASE r # p
      BY <2>1, <2>3, <3>2 DEF CarefulInv, RemovedAreDeserted
    <3>. QED
      BY <3>1, <3>2
  <2>. QED
    BY <2>2, <2>3 DEF RemovedAreDeserted, Inside
<1>7. RemovedStayEmpty'
  BY <1>4 DEF CarefulInv, RemovedStayEmpty, Removers, Careful, table
<1>8. PromptShowsSession'
  <2>1. \A s \in Sessions : ctx'[s] = ctx[s]
    BY TreeAssumption DEF Procs
  <2>. QED
    BY <2>1 DEF CarefulInv, PromptShowsSession, Careful
<1>. QED
  BY <1>1, <1>3, <1>5, <1>6, <1>7, <1>8 DEF CarefulInv

LEMMA LoginCareful ==
  ASSUME TreeInv, CarefulInv, NEW p \in Sessions, NEW u \in Users, Login(p, u)
  PROVE  CarefulInv'
<1>. TypeOK /\ p \in Procs /\ pc[p] = "idle"
  BY InvContexts, CommandIdle DEF Login
<1>1. /\ \A q \in Procs : q # p => ctx'[q] = ctx[q]
      /\ ctx'[p].user = u /\ prompt'[p] = Root
      /\ u \in Careful => ctx'[p].path = Root /\ ctx'[p].dir = Top
      /\ \A q \in Sessions : q # p => prompt'[q] = prompt[q]
  <2>. DEFINE c == IF ctx[p].user = NoUser THEN [NoContext EXCEPT !.user = u]
                                          ELSE [ctx[p] EXCEPT !.user = u]
  <2>1. ctx[p] \in Contexts /\ ctx \in [Procs -> Contexts]
    BY InvContexts
  <2>2. c.user = u
    BY <2>1 DEF Contexts, NoContext
  <2>3. u \in Careful => c.path = Root /\ c.dir = Top
    BY DEF Login, Fresh, Careful, NoContext
  <2>4. ctx' = [ctx EXCEPT ![p] = c]
    BY DEF Login
  <2>. HIDE DEF c
  <2>5. ctx'[p] = c /\ \A q \in Procs : q # p => ctx'[q] = ctx[q]
    BY <2>1, <2>4
  <2>6. prompt'[p] = Root /\ \A q \in Sessions : q # p => prompt'[q] = prompt[q]
    BY DEF Login, TypeOK
  <2>. QED
    BY <2>2, <2>3, <2>5, <2>6
<1>2. Safe(ctx'[p])
  BY <1>1, RootIsDir, RemoverFacts DEF Safe
<1>3. PromptShowsSession'
  BY <1>1 DEF CarefulInv, PromptShowsSession, Careful, Procs
<1>4. UNCHANGED <<table, pc, job, tickets>>
  BY DEF Login
<1>. QED
  BY <1>1, <1>2, <1>3, <1>4, QuietCareful

LEMMA LogoutCareful ==
  ASSUME TreeInv, CarefulInv, NEW p \in Sessions, Ready(p), Logout(p)
  PROVE  CarefulInv'
<1>. TypeOK /\ p \in Procs /\ pc[p] = "idle"
  BY InvContexts, CommandIdle
<1>1. /\ \A q \in Procs : q # p => ctx'[q] = ctx[q]
      /\ ctx'[p].user = NoUser
      /\ \A q \in Sessions : q # p => prompt'[q] = prompt[q]
  <2>1. ctx \in [Procs -> Contexts]
    BY InvContexts
  <2>2. ctx'[p] = NoContext /\ \A q \in Procs : q # p => ctx'[q] = ctx[q]
    BY <2>1 DEF Logout
  <2>. QED
    BY <2>2, ContextConstants DEF Logout, TypeOK
<1>2. Safe(ctx'[p])
  BY <1>1, NoUserIsNotCareful DEF Safe
<1>3. PromptShowsSession'
  BY <1>1, NoUserIsNotCareful DEF CarefulInv, PromptShowsSession, Careful, Procs
<1>4. UNCHANGED <<table, pc, job, tickets>>
  BY DEF Logout
<1>. QED
  BY <1>1, <1>2, <1>3, <1>4, QuietCareful

LEMMA CdCareful ==
  ASSUME TreeInv, CarefulInv, NEW p \in Sessions, Ready(p),
         NEW path \in Seq(Names), NEW shown, Cd(p, path, shown),
         prompt[p] = ctx[p].path => shown = path
  PROVE  CarefulInv'
<1>. TypeOK /\ p \in Procs /\ pc[p] = "idle"
  BY InvContexts, CommandIdle
<1>1. PICK id \in Ids \cup {Top} :
        /\ DirAt(ctx[p].user, path, id)
        /\ ctx'[p].user = ctx[p].user /\ ctx'[p].path = path /\ ctx'[p].dir = id
        /\ \A q \in Procs : q # p => ctx'[q] = ctx[q]
  BY CdEffect
<1>2. Safe(ctx'[p])
  BY <1>1, RemoverFacts DEF Safe, Cd, Stays, Careful
<1>3. PromptShowsSession'
  <2>1. prompt'[p] = shown /\ \A q \in Sessions : q # p => prompt'[q] = prompt[q]
    BY DEF Cd, TypeOK
  <2>. QED
    BY <1>1, <2>1 DEF CarefulInv, PromptShowsSession, Careful, Procs
<1>4. UNCHANGED <<table, pc, job, tickets>>
  BY DEF Cd
<1>. QED
  BY <1>1, <1>2, <1>3, <1>4, QuietCareful

LEMMA RmCareful ==
  ASSUME TreeInv, CarefulInv, NEW p \in Sessions, Ready(p), NEW arg \in Args, Rm(p, arg)
  PROVE  CarefulInv'
<1>. TypeOK /\ p \in Procs
  BY InvContexts, CommandIdle
<1>1. PICK j \in Jobs : Goto(p, "delete", j) /\ j.type = "file"
  BY SelectEffect DEF Rm
<1>2. UNCHANGED <<table, ctx, tickets, prompt>>
  BY DEF Rm, Select
<1>3. "delete" \in Labels /\ "delete" \notin {"lookup", "insert"} /\ j.type # "dir"
  BY <1>1 DEF Labels
<1>4. /\ UNCHANGED <<table, prompt>> /\ ctx'[p] = ctx[p] /\ tickets' \subseteq tickets
      /\ \A q \in Procs : q # p => ctx'[q] = ctx[q]
  BY <1>2
<1>. QED
  BY <1>1, <1>2, <1>3, <1>4, StatementCareful

LEMMA RmdirCareful ==
  ASSUME TreeInv, CarefulInv, NEW p \in Sessions, Ready(p), NEW arg \in Args, Rmdir(p, arg)
  PROVE  CarefulInv'
<1>. TypeOK /\ p \in Procs
  BY InvContexts, CommandIdle
<1>1. PICK j \in Jobs : Goto(p, "check", j) /\ j.path = AbsPath(p, arg)
  BY SelectEffect DEF Rmdir
<1>2. UNCHANGED <<table, ctx, tickets, prompt>>
  BY DEF Rmdir, Select
<1>3. ctx[p].user \in Careful =>
        /\ \A q \in Procs : ctx'[q].user = ctx[p].user => ctx'[q].path # j.path
        /\ \A t \in tickets : t.user = ctx[p].user => ParentPath(t.path) # j.path
  BY <1>1, <1>2 DEF Rmdir, Deserted, Careful, Inside
<1>4. "check" \in Labels /\ "check" \notin {"lookup", "insert", "delete"}
  BY DEF Labels
<1>5. /\ UNCHANGED <<table, prompt>> /\ ctx'[p] = ctx[p] /\ tickets' \subseteq tickets
      /\ \A q \in Procs : q # p => ctx'[q] = ctx[q]
  BY <1>2
<1>. QED
  BY <1>1, <1>2, <1>3, <1>4, <1>5, StatementCareful

LEMMA CreateCareful ==
  ASSUME TreeInv, CarefulInv, NEW p \in Sessions, Ready(p), NEW arg \in Args,
         NEW type \in {"file", "dir"}, Create(p, arg, type)
  PROVE  CarefulInv'
<1>. TypeOK /\ p \in Procs
  BY InvContexts, CommandIdle
<1>. DEFINE j == [path |-> AbsPath(p, arg), id |-> Top, type |-> type]
<1>1. Goto(p, "insert", j) /\ UNCHANGED <<table, ctx, tickets, prompt>>
  BY DEF Create
<1>2. j \in Jobs /\ j.path = AbsPath(p, arg)
  BY AbsPathType DEF Jobs
<1>. HIDE DEF j
<1>3. ctx[p].user \in Careful => ParentPath(j.path) = ctx[p].path
  BY <1>2 DEF Create, NamesChild, Careful
<1>4. "insert" \in Labels /\ "insert" \notin {"check", "delete"}
  BY DEF Labels
<1>5. /\ UNCHANGED <<table, prompt>> /\ ctx'[p] = ctx[p] /\ tickets' \subseteq tickets
      /\ \A q \in Procs : q # p => ctx'[q] = ctx[q]
  BY <1>1
<1>. QED
  BY <1>1, <1>2, <1>3, <1>4, <1>5, StatementCareful

LEMMA PrepareCareful ==
  ASSUME TreeInv, CarefulInv, NEW p \in Sessions, Commands(p), NEW n \in Names, Prepare(p, n)
  PROVE  CarefulInv'
<1>. TypeOK /\ p \in Procs
  BY InvContexts, CommandIdle DEF Commands
<1>1. UNCHANGED <<table, pc, job, ctx, prompt>>
  BY DEF Prepare
<1>2. ASSUME NEW t \in tickets', t \notin tickets, NEW r \in Removers, ctx[r].user = t.user
      PROVE  ParentPath(t.path) # job[r].path
  <2>1. t.user = ctx[p].user /\ t.path = Append(ctx[p].path, n)
    BY <1>2 DEF Prepare
  <2>2. ParentPath(t.path) = ctx[p].path
    BY <2>1, PathFacts DEF TypeOK
  <2>. QED
    BY <1>2, <2>1, <2>2, RemoverFacts, ContextsAreSafe DEF Safe
<1>3. PromptShowsSession'
  BY <1>1 DEF CarefulInv, PromptShowsSession, Careful
<1>. QED
  BY <1>1, <1>2, <1>3, QuietCareful

LEMMA CommandCareful ==
  ASSUME TreeInv, CarefulInv, NEW p \in Sessions, Command(p)
  PROVE  CarefulInv'
<1>. TypeOK /\ p \in Procs /\ Ready(p) /\ Commands(p)
  BY InvContexts DEF Command, Commands, Procs
<1>1. CASE Logout(p)
  BY <1>1, LogoutCareful
<1>2. CASE CdUp(p)
  <2>1. ParentPath(ctx[p].path) \in Seq(Names)
    BY PathFacts DEF TypeOK
  <2>. QED
    BY <1>2, <2>1, CdCareful DEF CdUp
<1>3. ASSUME NEW arg \in Args, CdInto(p, arg) PROVE CarefulInv'
  <2>1. AbsPath(p, arg) \in Seq(Names)
    BY AbsPathType
  <2>2. prompt[p] = ctx[p].path => PromptAfter(p, arg) = AbsPath(p, arg)
    BY DEF PromptAfter, AbsPath
  <2>. QED
    BY <1>3, <2>1, <2>2, CdCareful DEF CdInto
<1>4. ASSUME NEW arg \in Args, Rm(p, arg) PROVE CarefulInv'
  BY <1>4, RmCareful
<1>5. ASSUME NEW arg \in Args, Rmdir(p, arg) PROVE CarefulInv'
  BY <1>5, RmdirCareful
<1>6. ASSUME NEW arg \in Args, NEW type \in {"file", "dir"}, Create(p, arg, type)
      PROVE  CarefulInv'
  BY <1>6, CreateCareful
<1>7. ASSUME NEW n \in Names, Prepare(p, n) PROVE CarefulInv'
  BY <1>7, PrepareCareful
<1>. QED
  BY <1>1, <1>2, <1>3, <1>4, <1>5, <1>6, <1>7 DEF Command

LEMMA NoContextIsSafe == Safe(NoContext)
  BY ContextConstants, NoUserIsNotCareful DEF Safe

\* A context that a process leaves behind.
LEMMA DoneIsSafe ==
  ASSUME TypeOK, NEW p \in Procs, Done(p)
  PROVE  /\ Goto(p, "idle", NoJob) /\ NoJob \in Jobs
         /\ \A q \in Procs : q # p => ctx'[q] = ctx[q]
         /\ ctx'[p] = ctx[p] \/ (p \in Threads /\ Safe(ctx'[p]))
         /\ ctx'[p] = ctx[p] \/ ctx'[p].user \notin Careful
         /\ \A s \in Sessions : ctx'[s] = ctx[s]
<1>1. /\ Goto(p, "idle", NoJob) /\ NoJob \in Jobs
      /\ \A q \in Procs : q # p => ctx'[q] = ctx[q]
      /\ ctx'[p] = IF p \in Threads THEN NoContext ELSE ctx[p]
  BY DoneEffect
<1>2. \A s \in Sessions : ctx'[s] = ctx[s]
  BY <1>1, TreeAssumption DEF Procs
<1>. QED
  BY <1>1, <1>2, NoContextIsSafe, ContextConstants, NoUserIsNotCareful

LEMMA DoneCareful ==
  ASSUME TreeInv, CarefulInv, NEW p \in Procs, Done(p),
         UNCHANGED <<table, tickets, prompt>>
  PROVE  CarefulInv'
<1>. TypeOK
  BY InvContexts
<1>1. /\ Goto(p, "idle", NoJob) /\ NoJob \in Jobs
      /\ \A q \in Procs : q # p => ctx'[q] = ctx[q]
      /\ ctx'[p] = ctx[p] \/ (p \in Threads /\ Safe(ctx'[p]))
  BY DoneIsSafe
<1>2. "idle" \in Labels /\ "idle" \notin {"lookup", "insert", "check", "delete"}
  BY DEF Labels
<1>3. UNCHANGED <<table, prompt>> /\ tickets' \subseteq tickets
  OBVIOUS
<1>. QED
  BY <1>1, <1>2, <1>3, StatementCareful

LEMMA InsertCareful ==
  ASSUME TreeInv, CarefulInv, NEW p \in Procs, InsertNode(p)
  PROVE  CarefulInv'
<1>. TypeOK /\ pc[p] = "insert" /\ Done(p) /\ UNCHANGED <<tickets, prompt>>
  BY InvContexts DEF InsertNode
<1>1. CASE UNCHANGED table
  BY <1>1, DoneCareful
<1>2. CASE ~Taken(p) /\ Works /\ PutRow(p, nextId) /\ nextId' = nextId + 1
  <2>1. /\ nextId \notin live /\ live' = live \cup {nextId}
        /\ \A i \in live : row'[i] = row[i]
        /\ row'[nextId].user = ctx[p].user /\ row'[nextId].path = job[p].path
        /\ row'[nextId].parent = ctx[p].dir
    BY <1>2, InsertEffect
  <2>2. /\ Goto(p, "idle", NoJob) /\ NoJob \in Jobs
        /\ \A q \in Procs : q # p => ctx'[q] = ctx[q]
        /\ ctx'[p] = ctx[p] \/ ctx'[p].user \notin Careful
        /\ \A s \in Sessions : ctx'[s] = ctx[s]
    BY DoneIsSafe
  <2>3. /\ pc'[p] = "idle"
        /\ \A q \in Procs : q # p => pc'[q] = pc[q] /\ job'[q] = job[q]
        /\ Creators' = Creators \ {p} /\ p \in Creators
    BY <2>2, GotoEffect DEF Labels, Creators
  <2>4. /\ Removers' = Removers
        /\ \A r \in Removers : /\ r \in Procs /\ ctx'[r] = ctx[r] /\ job'[r] = job[r]
                               /\ pc'[r] = pc[r]
    BY <2>2, <2>3 DEF Removers, Careful
  <2>5. ASSUME NEW user, NEW path, NEW id, DirAt(user, path, id)
        PROVE  DirAt(user, path, id)'
    BY <2>1, <2>5 DEF DirAt, NodesAt, RowsAt
  <2>6. ctx[p].user \in Careful =>
          /\ ParentPath(job[p].path) = ctx[p].path
          /\ DirAt(ctx[p].user, ctx[p].path, ctx[p].dir)
    BY <2>3 DEF CarefulInv, CreatorsAtHome, ContextsStand
  <2>7. TreeWhole'
    <3>1. ASSUME NEW i \in live', row'[i].user \in Careful,
                 NEW user, NEW path, NEW id, user = row'[i].user,
                 path = ParentPath(row'[i].path), id = row'[i].parent
          PROVE  DirAt(user, path, id)'
      <4>1. CASE i \in live
        <5>1. DirAt(user, path, id)
          BY <2>1, <3>1, <4>1 DEF CarefulInv, TreeWhole
        <5>. QED
          BY <2>5, <5>1
      <4>2. CASE i = nextId
        <5>1. DirAt(user, path, id)
          BY <2>1, <2>6, <3>1, <4>2
        <5>. QED
          BY <2>5, <5>1
      <4>. QED
        BY <2>1, <4>1, <4>2
    <3>. QED
      BY <3>1 DEF TreeWhole, Careful, DirAt, NodesAt, RowsAt
  <2>8. ContextsStand'
    BY <2>2, <2>5 DEF CarefulInv, ContextsStand, Careful
  <2>9. CreatorsAtHome'
    BY <2>2, <2>3 DEF CarefulInv, CreatorsAtHome, Careful, Creators
  <2>10. RemovedAreDeserted'
    <3>1. ASSUME NEW r \in Removers, NEW q \in Procs, ctx'[q].user = ctx[r].user
          PROVE  ctx'[q].path # job[r].path
      BY <2>2, <3>1, RemoverFacts DEF CarefulInv, RemovedAreDeserted, Inside
    <3>. QED
      BY <2>4, <3>1 DEF CarefulInv, RemovedAreDeserted, Inside
  <2>11. RemovedStayEmpty'
    <3>1. ASSUME NEW r \in Removers, NEW i \in live', pc[r] = "delete", job[r].id \in live',
                 row'[i].user = ctx[r].user
          PROVE  ParentPath(row'[i].path) # job[r].path
      <4>1. job[r].id \in live
        BY <2>1, <3>1, RemoverFacts DEF TypeOK
      <4>2. CASE i \in live
        BY <2>1, <3>1, <4>1, <4>2 DEF CarefulInv, RemovedStayEmpty
      <4>3. CASE i = nextId
        BY <2>1, <2>6, <3>1, <4>3, RemoverFacts DEF CarefulInv, RemovedAreDeserted, Inside
      <4>. QED
        BY <2>1, <4>2, <4>3
    <3>. QED
      BY <2>4, <3>1 DEF RemovedStayEmpty
  <2>12. PromptShowsSession'
    BY <2>2 DEF CarefulInv, PromptShowsSession, Careful
  <2>. QED
    BY <2>7, <2>8, <2>9, <2>10, <2>11, <2>12 DEF CarefulInv
<1>. QED
  BY <1>1, <1>2 DEF InsertNode

\* A directory without children by id has none by path.
LEMMA EmptyByPath ==
  ASSUME TreeInv, CarefulInv, NEW r \in Removers, job[r].id \in live,
         Children(ctx[r].user, job[r].id) = {},
         NEW i \in live, row[i].user = ctx[r].user
  PROVE  ParentPath(row[i].path) # job[r].path
<1>. SUFFICES ASSUME ParentPath(row[i].path) = job[r].path PROVE FALSE
  OBVIOUS
<1>1. DirAt(row[i].user, job[r].path, row[i].parent)
  BY RemoverFacts DEF CarefulInv, TreeWhole
<1>2. /\ row[i].parent \in live /\ row[row[i].parent].user = ctx[r].user
      /\ row[row[i].parent].path = job[r].path
  BY <1>1, RemoverFacts DEF DirAt, NodesAt, RowsAt
<1>3. row[job[r].id].user = ctx[r].user /\ row[job[r].id].path = job[r].path
  BY RemoverFacts DEF TreeInv, JobsNameRows
<1>4. row[i].parent = job[r].id
  BY <1>2, <1>3 DEF TreeInv, OnePathOneNode
<1>. QED
  BY <1>4 DEF Children

LEMMA CheckCareful ==
  ASSUME TreeInv, CarefulInv, NEW p \in Procs, CheckEmpty(p)
  PROVE  CarefulInv'
<1>. TypeOK /\ pc[p] = "check" /\ UNCHANGED <<table, tickets, prompt>>
  BY InvContexts DEF CheckEmpty
<1>1. CASE Done(p)
  BY <1>1, DoneCareful
<1>2. CASE /\ Children(ctx[p].user, job[p].id) = {}
           /\ Goto(p, "delete", job[p]) /\ UNCHANGED ctx
  <2>1. job[p] \in Jobs /\ "delete" \in Labels /\ "delete" \notin {"lookup", "insert"}
    BY TypeParts DEF Labels
  <2>2. /\ ctx'[p] = ctx[p] /\ \A q \in Procs : q # p => ctx'[q] = ctx[q]
        /\ UNCHANGED <<table, prompt>> /\ tickets' \subseteq tickets
    BY <1>2
  <2>3. job[p].type = "dir" /\ ctx[p].user \in Careful => p \in Removers
    BY DEF Removers
  <2>4. job[p].type = "dir" /\ ctx[p].user \in Careful
          => /\ \A q \in Procs : ctx'[q].user = ctx[p].user => ctx'[q].path # job[p].path
             /\ \A t \in tickets : t.user = ctx[p].user => ParentPath(t.path) # job[p].path
    BY <1>2, <2>3 DEF CarefulInv, RemovedAreDeserted, Inside
  <2>5. job[p].type = "dir" /\ ctx[p].user \in Careful /\ job[p].id \in live
          => \A i \in live : row[i].user = ctx[p].user
                               => ParentPath(row[i].path) # job[p].path
    BY <1>2, <2>3, EmptyByPath
  <2>. QED
    BY <1>2, <2>1, <2>2, <2>4, <2>5, StatementCareful
<1>. QED
  BY <1>1, <1>2 DEF CheckEmpty

LEMMA DeleteCareful ==
  ASSUME TreeInv, CarefulInv, NEW p \in Procs, DeleteNode(p)
  PROVE  CarefulInv'
<1>. TypeOK /\ pc[p] = "delete" /\ Done(p) /\ UNCHANGED <<nextId, tickets, prompt>>
  BY InvContexts DEF DeleteNode
<1>1. CASE UNCHANGED <<live, row>>
  BY <1>1, DoneCareful DEF table
<1>2. CASE ~UNCHANGED <<live, row>>
  <2>1. /\ live' = live \ {job[p].id}
        /\ \A i \in live' : i \in live /\ row'[i] = row[i]
        /\ job[p].id \in live => /\ row[job[p].id].user = ctx[p].user
                                 /\ row[job[p].id].path = job[p].path
                                 /\ row[job[p].id].type = job[p].type
    <3>1. /\ live' = IF row[job[p].id].user = ctx[p].user THEN live \ {job[p].id} ELSE live
          /\ row' = [i \in Ids |-> IF i \in live' THEN row[i] ELSE NoRow]
      BY <1>2 DEF DeleteNode
    <3>. QED
      BY <3>1, DeleteEffect
  <2>2. /\ Goto(p, "idle", NoJob) /\ NoJob \in Jobs
        /\ \A q \in Procs : q # p => ctx'[q] = ctx[q]
        /\ ctx'[p] = ctx[p] \/ ctx'[p].user \notin Careful
        /\ \A s \in Sessions : ctx'[s] = ctx[s]
    BY DoneIsSafe
  <2>3. /\ pc'[p] = "idle"
        /\ \A q \in Procs : q # p => pc'[q] = pc[q] /\ job'[q] = job[q]
    BY <2>2, GotoEffect DEF Labels
  <2>4. \A r \in Removers' : /\ r \in Removers /\ r # p /\ ctx'[r] = ctx[r]
                             /\ job'[r] = job[r] /\ pc'[r] = pc[r]
    BY <2>2, <2>3 DEF Removers, Careful
  \* A careful user's directory goes only when nothing refers to it.
  <2>5. ASSUME NEW user \in Careful, NEW path, NEW id, DirAt(user, path, id),
               user = ctx[p].user /\ p \in Removers /\ job[p].id \in live => path # job[p].path
        PROVE  DirAt(user, path, id)'
    <3>1. CASE path = Root
      BY <2>5, <3>1 DEF DirAt, NodesAt
    <3>2. CASE path # Root
      <4>1. id \in live /\ row[id].user = user /\ row[id].path = path /\ row[id].type = "dir"
        BY <2>5, <3>2 DEF DirAt, NodesAt, RowsAt
      <4>2. id # job[p].id
        <5>1. SUFFICES ASSUME id = job[p].id PROVE FALSE
          OBVIOUS
        <5>2. p \in Removers
          BY <2>1, <4>1, <5>1 DEF Removers
        <5>. QED
          BY <2>1, <2>5, <4>1, <5>1, <5>2
      <4>3. id \in live' /\ row'[id] = row[id]
        BY <2>1, <4>1, <4>2
      <4>. QED
        BY <3>2, <4>1, <4>3 DEF DirAt, NodesAt, RowsAt
    <3>. QED
      BY <3>1, <3>2
  <2>6. TreeWhole'
    <3>1. ASSUME NEW i \in live', row'[i].user \in Careful,
                 NEW user, NEW path, NEW id, user = row'[i].user,
                 path = ParentPath(row'[i].path), id = row'[i].parent
          PROVE  DirAt(user, path, id)'
      <4>1. i \in live /\ row'[i] = row[i]
        BY <2>1
      <4>2. DirAt(user, path, id)
        BY <3>1, <4>1 DEF CarefulInv, TreeWhole
      <4>3. user = ctx[p].user /\ p \in Removers /\ job[p].id \in live
              => path # job[p].path
        BY <3>1, <4>1 DEF CarefulInv, RemovedStayEmpty
      <4>. QED
        BY <2>5, <3>1, <4>1, <4>2, <4>3
    <3>. QED
      BY <3>1, SMTT(60) DEF TreeWhole, Careful, DirAt, NodesAt, RowsAt
  <2>7. ContextsStand'
    <3>1. ASSUME NEW q \in Procs, ctx[q].user \in Careful,
                 NEW user, NEW path, NEW id, user = ctx[q].user,
                 path = ctx[q].path, id = ctx[q].dir
          PROVE  DirAt(user, path, id)'
      <4>1. DirAt(user, path, id)
        BY <3>1 DEF CarefulInv, ContextsStand
      <4>2. user = ctx[p].user /\ p \in Removers => path # job[p].path
        BY <3>1 DEF CarefulInv, RemovedAreDeserted, Inside
      <4>. QED
        BY <2>5, <3>1, <4>1, <4>2
    <3>. QED
      BY <2>2, <3>1 DEF ContextsStand, Careful, DirAt, NodesAt, RowsAt
  <2>8. CreatorsAtHome'
    BY <2>2, <2>3 DEF CarefulInv, CreatorsAtHome, Careful, Creators
  <2>9. RemovedAreDeserted'
    <3>1. ASSUME NEW r \in Removers, NEW q \in Procs, ctx'[q].user = ctx[r].user
          PROVE  ctx'[q].path # job[r].path
      BY <2>2, <3>1, RemoverFacts DEF CarefulInv, RemovedAreDeserted, Inside
    <3>. QED
      BY <2>4, <3>1 DEF CarefulInv, RemovedAreDeserted, Inside
  <2>10. RemovedStayEmpty'
    BY <2>1, <2>4 DEF CarefulInv, RemovedStayEmpty
  <2>11. PromptShowsSession'
    BY <2>2 DEF CarefulInv, PromptShowsSession, Careful
  <2>. QED
    BY <2>6, <2>7, <2>8, <2>9, <2>10, <2>11 DEF CarefulInv
<1>. QED
  BY <1>1, <1>2

LEMMA ExpireCareful ==
  ASSUME TreeInv, CarefulInv, NEW t \in tickets, TicketExpires(t)
  PROVE  CarefulInv'
<1>1. /\ UNCHANGED <<table, pc, job>> /\ ctx' = ctx
      /\ \A u \in tickets' : u \in tickets
  BY DEF TicketExpires
<1>2. PromptShowsSession'
  BY DEF TicketExpires, CarefulInv, PromptShowsSession, Careful
<1>. QED
  BY <1>1, <1>2, QuietCareful

LEMMA LookupCareful ==
  ASSUME TreeInv, CarefulInv, NEW p \in Threads, UploadLookup(p)
  PROVE  CarefulInv'
<1>. TypeOK /\ p \in Procs /\ pc[p] = "lookup" /\ UNCHANGED <<table, tickets, prompt>>
  BY InvContexts DEF UploadLookup, Procs
<1>1. CASE Done(p)
  BY <1>1, DoneCareful
<1>2. CASE Goto(p, "insert", job[p]) /\ UNCHANGED ctx
  <2>1. job[p] \in Jobs /\ "insert" \in Labels /\ "insert" \notin {"check", "delete"}
    BY TypeParts DEF Labels
  <2>2. /\ ctx'[p] = ctx[p] /\ \A q \in Procs : q # p => ctx'[q] = ctx[q]
        /\ UNCHANGED <<table, prompt>> /\ tickets' \subseteq tickets
    BY <1>2
  <2>3. ctx[p].user \in Careful => ParentPath(job[p].path) = ctx[p].path
    BY DEF CarefulInv, CreatorsAtHome, Creators
  <2>. QED
    BY <1>2, <2>1, <2>2, <2>3, StatementCareful
<1>. QED
  BY <1>1, <1>2 DEF UploadLookup

LEMMA UploadFailsCareful ==
  ASSUME TreeInv, CarefulInv, NEW p \in Threads, UploadFails(p)
  PROVE  CarefulInv'
<1>. p \in Procs
  BY DEF Procs
<1>. QED
  BY DoneCareful DEF UploadFails

LEMMA BeginCareful ==
  ASSUME TreeInv, CarefulInv, NEW p \in Threads, NEW t \in tickets, BeginUpload(p, t)
  PROVE  CarefulInv'
<1>. TypeOK
  BY InvContexts
<1>1. p \in Procs /\ UNCHANGED <<table, prompt>> /\ tickets' \subseteq tickets
  BY BeginEffect
<1>2. CASE UNCHANGED <<ctx, pc, job>>
  <2>1. PromptShowsSession'
    BY <1>1, <1>2 DEF CarefulInv, PromptShowsSession, Careful
  <2>2. UNCHANGED <<table, pc, job>> /\ ctx' = ctx /\ \A u \in tickets' : u \in tickets
    BY <1>1, <1>2
  <2>. QED
    BY <2>1, <2>2, QuietCareful
<1>3. ASSUME NEW j \in Jobs, NEW id,
             DirAt(t.user, ParentPath(t.path), id),
             ctx'[p].user = t.user, ctx'[p].path = ParentPath(t.path), ctx'[p].dir = id,
             \A q \in Procs : q # p => ctx'[q] = ctx[q],
             Goto(p, "lookup", j), j.path = t.path
      PROVE  CarefulInv'
  <2>1. \A r \in Removers : ctx[r].user = t.user => job[r].path # ParentPath(t.path)
    BY DEF CarefulInv, RemovedAreDeserted
  <2>2. Safe(ctx'[p])
    BY <1>3, <2>1 DEF Safe
  <2>3. "lookup" \in Labels /\ "lookup" \notin {"check", "delete"}
    BY DEF Labels
  <2>4. ParentPath(j.path) = ctx'[p].path
    BY <1>3
  <2>. QED
    BY <1>1, <1>3, <2>2, <2>3, <2>4, StatementCareful
<1>. QED
  BY <1>2, <1>3, BeginEffect

LEMMA InitCareful == Init => CarefulInv
<1>. SUFFICES ASSUME Init PROVE CarefulInv
  OBVIOUS
<1>1. /\ live = {} /\ \A p \in Procs : ctx[p] = NoContext /\ pc[p] = "idle"
      /\ Sessions \subseteq Procs
  BY DEF Init, Procs
<1>2. TreeWhole /\ RemovedStayEmpty
  BY <1>1 DEF TreeWhole, RemovedStayEmpty
<1>3. Creators = {} /\ Removers = {}
  BY <1>1 DEF Creators, Removers
<1>4. CreatorsAtHome /\ RemovedAreDeserted
  BY <1>3 DEF CreatorsAtHome, RemovedAreDeserted
<1>5. ContextsStand /\ PromptShowsSession
  BY <1>1, ContextConstants, NoUserIsNotCareful DEF ContextsStand, PromptShowsSession
<1>. QED
  BY <1>2, <1>4, <1>5 DEF CarefulInv

LEMMA NextCareful ==
  ASSUME TreeInv, CarefulInv, [Next]_vars
  PROVE  CarefulInv'
<1>1. CASE UNCHANGED vars
  <2>1. /\ UNCHANGED <<table, pc, job>> /\ ctx' = ctx /\ prompt' = prompt
        /\ \A t \in tickets' : t \in tickets
    BY <1>1 DEF vars
  <2>2. PromptShowsSession'
    BY <2>1 DEF CarefulInv, PromptShowsSession, Careful
  <2>. QED
    BY <2>1, <2>2, QuietCareful
<1>2. ASSUME NEW p \in Sessions, Command(p) \/ \E u \in Users : Login(p, u)
      PROVE  CarefulInv'
  BY <1>2, CommandCareful, LoginCareful
<1>3. ASSUME NEW p \in Procs, InsertNode(p) \/ CheckEmpty(p) \/ DeleteNode(p)
      PROVE  CarefulInv'
  BY <1>3, InsertCareful, CheckCareful, DeleteCareful
<1>4. ASSUME NEW t \in tickets, TicketExpires(t) PROVE CarefulInv'
  BY <1>4, ExpireCareful
<1>5. ASSUME NEW p \in Threads,
             UploadLookup(p) \/ UploadFails(p) \/ \E t \in tickets : BeginUpload(p, t)
      PROVE  CarefulInv'
  BY <1>5, LookupCareful, UploadFailsCareful, BeginCareful
<1>. QED
  BY <1>1, <1>2, <1>3, <1>4, <1>5 DEF Next

\* A careful user's commands keep their promises to each other from one
\* statement to the next: contexts and new nodes stay with their directory, and
\* a directory that was found deserted and empty stays so until its row is gone.
THEOREM CarefulUsersSafe == Spec => []CarefulInv
<1>1. TreeInv /\ CarefulInv /\ [Next]_vars => CarefulInv'
  BY NextCareful
<1>. QED
  BY <1>1, InitCareful, TreeCorrect, PTL DEF Spec

\* The tree of a careful user is whole: the parent of every node is the
\* directory its path names.
THEOREM TreeStaysWhole == Spec => []TreeWhole
<1>1. CarefulInv => TreeWhole
  BY DEF CarefulInv
<1>. QED
  BY <1>1, CarefulUsersSafe, PTL

\* The path a careful user's client shows is where the session is.
THEOREM PromptIsRight == Spec => []PromptShowsSession
<1>1. CarefulInv => PromptShowsSession
  BY DEF CarefulInv
<1>. QED
  BY <1>1, CarefulUsersSafe, PTL

\* ls, by id, shows exactly what cd, gets and rm find by path.
THEOREM LsIsRight == Spec => []LsShowsDirectory
<1>1. ASSUME TreeInv, CarefulInv, NEW p \in Sessions, ctx[p].user \in Careful,
             NEW i \in live, row[i].user = ctx[p].user
      PROVE  row[i].parent = ctx[p].dir <=> ParentPath(row[i].path) = ctx[p].path
  <2>1. DirAt(ctx[p].user, ctx[p].path, ctx[p].dir)
    BY <1>1 DEF CarefulInv, ContextsStand, Procs
  <2>2. DirAt(ctx[p].user, ParentPath(row[i].path), row[i].parent)
    BY <1>1 DEF CarefulInv, TreeWhole
  <2>3. Top \notin live
    BY <1>1, InvContexts, RowShape
  <2>. QED
    BY <1>1, <2>1, <2>2, <2>3 DEF DirAt, NodesAt, RowsAt, TreeInv, OnePathOneNode
<1>2. TreeInv /\ CarefulInv => LsShowsDirectory
  BY <1>1 DEF LsShowsDirectory, Children
<1>. QED
  BY <1>2, CarefulUsersSafe, TreeCorrect, PTL
=============================================================================
