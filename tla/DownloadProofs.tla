----------------------------- MODULE DownloadProofs -----------------------------
(* The safety properties of Download for every number of servers, every size *)
(* of the file and any number of failures, as long as no source is added     *)
(* while part files lie around.  The arithmetic of the ranges comes first,   *)
(* then one proof step per action.                                           *)
EXTENDS Download, SequenceTheorems, FiniteSetTheorems, TLAPS

-----------------------------------------------------------------------------
(* Ranges.                                                                   *)

LEMMA Division ==
  ASSUME NEW n \in Nat \ {0}
  PROVE  /\ Size \div n \in Nat /\ Size % n \in 0..(n - 1)
         /\ Size = n * (Size \div n) + (Size % n)
  BY DownloadAssumption

\* The ranges cover the file without gap or overlap.
LEMMA PartRange ==
  ASSUME NEW list, Len(list) \in Nat \ {0}, NEW i \in 1..(Len(list) + 1)
  PROVE  /\ PartFirst(list, i) \in 1..(Size + 1)
         /\ i = 1 => PartFirst(list, i) = 1
         /\ i = Len(list) + 1 => PartFirst(list, i) = Size + 1
         /\ i <= Len(list) =>
              /\ PartLen(list, i) \in 0..Size
              /\ PartFirst(list, i + 1) = PartFirst(list, i) + PartLen(list, i)
              /\ PartFirst(list, i) + PartLen(list, i) <= Size + 1
<1>. DEFINE n == Len(list)
            q == Size \div n
            r == Size % n
<1>1. /\ n \in Nat \ {0} /\ q \in Nat /\ r \in 0..(n - 1) /\ Size = n * q + r
      /\ Size \in Nat
  BY Division, DownloadAssumption
<1>2. /\ PartLen(list, i) = q + (IF i <= r THEN 1 ELSE 0)
      /\ PartFirst(list, i) = 1 + (i - 1) * q + Smaller(i - 1, r)
      /\ PartFirst(list, i + 1) = 1 + ((i + 1) - 1) * q + Smaller((i + 1) - 1, r)
  BY DEF PartLen, PartFirst
<1>. HIDE DEF n, q, r
<1>3. ASSUME NEW k \in 0..n PROVE k * q \in 0..(n * q) /\ (k + 1) * q = k * q + q
  <2>1. (n - k) \in Nat /\ (n - k) * q \in Nat /\ n * q = k * q + (n - k) * q /\ k * q \in Nat
    BY <1>1
  <2>. QED
    BY <1>1, <2>1
<1>4. i \in 1..(n + 1) /\ i - 1 \in 0..n
  BY <1>1 DEF n
<1>5. (i - 1) * q \in 0..(n * q) /\ i * q = (i - 1) * q + q
  <2>1. ((i - 1) + 1) * q = (i - 1) * q + q /\ (i - 1) + 1 = i
    BY <1>3, <1>4
  <2>. QED
    BY <1>3, <1>4, <2>1
<1>6. PartFirst(list, i) \in 1..(Size + 1)
  BY <1>1, <1>2, <1>4, <1>5 DEF Smaller
<1>7. i = 1 => PartFirst(list, i) = 1
  BY <1>1, <1>2 DEF Smaller
<1>8. i = n + 1 => PartFirst(list, i) = Size + 1
  BY <1>1, <1>2, <1>4 DEF Smaller
<1>9. ASSUME i <= n
      PROVE  /\ PartLen(list, i) \in 0..Size
             /\ PartFirst(list, i + 1) = PartFirst(list, i) + PartLen(list, i)
             /\ PartFirst(list, i) + PartLen(list, i) <= Size + 1
  <2>1. i * q \in 0..(n * q) /\ (i + 1) - 1 = i
    BY <1>3, <1>4, <1>9
  <2>2. PartFirst(list, i + 1) = PartFirst(list, i) + PartLen(list, i)
    BY <1>1, <1>2, <1>4, <1>5, <2>1 DEF Smaller
  <2>3. PartFirst(list, i + 1) <= Size + 1
    BY <1>1, <1>2, <1>4, <1>9, <2>1 DEF Smaller
  <2>. QED
    BY <1>1, <1>2, <1>4, <1>5, <1>6, <2>1, <2>2, <2>3 DEF Smaller
<1>. QED
  BY <1>6, <1>7, <1>8, <1>9 DEF n

LEMMA SameRanges ==
  ASSUME NEW a, NEW b, Len(a) = Len(b), NEW i
  PROVE  PartLen(a, i) = PartLen(b, i) /\ PartFirst(a, i) = PartFirst(b, i)
  BY DEF PartLen, PartFirst

-----------------------------------------------------------------------------
(* What the invariant says of the plan and of the files.                     *)

LEMMA CutForShape ==
  ASSUME sources \in Seq(Servers), FilesFit
  PROVE  /\ Cardinality(Servers) \in Nat \ {0}
         /\ Len(CutFor) \in 1..Cardinality(Servers)
         /\ \A i \in 1..Len(CutFor) :
              /\ i \in Indices
              /\ PartLen(CutFor, i) \in 0..Size
              /\ PartFirst(CutFor, i) \in 1..(Size + 1)
              /\ PartFirst(CutFor, i) + PartLen(CutFor, i) <= Size + 1
<1>1. Cardinality(Servers) \in Nat \ {0}
  BY FS_CardinalityType, FS_EmptySet, DownloadAssumption
<1>2. Len(CutFor) \in Nat \ {0}
  BY EmptySeq, DownloadAssumption DEF CutFor, Offered
<1>3. Len(CutFor) \in 1..Cardinality(Servers)
  BY <1>1, <1>2 DEF FilesFit
<1>. QED
  BY <1>1, <1>2, <1>3, PartRange DEF Indices

\* While a gets is under way its plan is cut like the files.
LEMMA PlanShape ==
  ASSUME TypeOK, FilesFit, TasksFit, pc # "idle"
  PROVE  /\ Len(plan) = Len(CutFor) /\ DOMAIN plan = 1..Len(plan)
         /\ \A i : /\ PartLen(plan, i) = PartLen(CutFor, i)
                   /\ PartFirst(plan, i) = PartFirst(CutFor, i)
  BY SameRanges, LenProperties DEF TypeOK, TasksFit

\* A part file and its range.
LEMMA PartShape ==
  ASSUME TypeOK, FilesFit, NEW i \in 1..Len(CutFor)
  PROVE  /\ i \in Indices /\ Size \in Nat
         /\ parts[i].data \in Seq(1..Size) /\ Len(parts[i].data) \in 0..PartLen(CutFor, i)
         /\ PartLen(CutFor, i) \in 0..Size /\ PartFirst(CutFor, i) \in 1..(Size + 1)
         /\ PartFirst(CutFor, i) + PartLen(CutFor, i) <= Size + 1
         /\ PartFirst(CutFor, i) + Len(parts[i].data) \in 1..(Size + 1)
         /\ Len(parts[i].data) = 0 => parts[i].data = <<>>
<1>1. /\ i \in Indices /\ Size \in Nat
      /\ PartLen(CutFor, i) \in 0..Size /\ PartFirst(CutFor, i) \in 1..(Size + 1)
      /\ PartFirst(CutFor, i) + PartLen(CutFor, i) <= Size + 1
  BY CutForShape, DownloadAssumption DEF TypeOK
<1>2. parts[i].data \in Seq(1..Size)
  BY <1>1 DEF TypeOK
<1>3. Len(parts[i].data) \in Nat /\ (Len(parts[i].data) = 0 => parts[i].data = <<>>)
  BY <1>2, LenProperties, EmptySeq
<1>4. Len(parts[i].data) <= PartLen(CutFor, i)
  BY <1>1 DEF FilesFit
<1>. QED
  BY <1>1, <1>2, <1>3, <1>4

\* A part thread and its ticket.
LEMMA ThreadShape ==
  ASSUME TypeOK, FilesFit, TasksFit, NEW i \in Indices,
         pc # "idle", ppc[i] \in {"connect", "recv"}
  PROVE  /\ i \in 1..Len(CutFor)
         /\ ticket[i].first = PartFirst(CutFor, i) /\ ticket[i].len = PartLen(CutFor, i)
<1>1. /\ i <= Len(plan)
      /\ ticket[i].first = PartFirst(plan, i) /\ ticket[i].len = PartLen(plan, i)
  BY DEF TasksFit
<1>2. i \in 1..Cardinality(Servers) /\ Len(CutFor) \in Nat
  BY CutForShape DEF TypeOK, Indices
<1>. QED
  BY <1>1, <1>2, PlanShape

\* Progress is what the part files have.
LEMMA SyncedShape ==
  ASSUME TypeOK, FilesFit, NEW list, Len(list) = Len(CutFor)
  PROVE  /\ Synced(list) \in [Indices -> 0..Size]
         /\ \A i \in 1..Len(list) : Synced(list)[i] = Len(parts[i].data)
<1>1. ASSUME NEW i \in 1..Len(list)
      PROVE  /\ Len(parts[i].data) \in 0..Size
             /\ Smaller(Len(parts[i].data), PartLen(list, i)) = Len(parts[i].data)
             /\ i \in Indices
  <2>1. PartLen(list, i) = PartLen(CutFor, i)
    BY SameRanges
  <2>. QED
    BY <2>1, PartShape DEF Smaller
<1>2. \A i \in Indices : i \notin 1..Len(list) => ~(i <= Len(list))
  BY CutForShape DEF TypeOK, Indices
<1>. QED
  BY <1>1, <1>2, DownloadAssumption DEF Synced

LEMMA HeldRanges ==
  ASSUME TypeOK, FilesFit, TasksFit
  PROVE  PartsHoldTheirRange
<1> SUFFICES ASSUME pc # "idle", NEW i \in DOMAIN plan
             PROVE  parts[i].data = SubSeq(Content, PartFirst(plan, i),
                                           PartFirst(plan, i) + Len(parts[i].data) - 1)
  BY DEF PartsHoldTheirRange
<1>. DEFINE first == PartFirst(CutFor, i)
            data  == parts[i].data
            last  == first + Len(data) - 1
<1>1. /\ i \in 1..Len(CutFor) /\ i \in Indices
      /\ PartLen(CutFor, i) \in 0..Size /\ first \in 1..(Size + 1)
      /\ first + PartLen(CutFor, i) <= Size + 1
      /\ PartFirst(plan, i) = first
  BY CutForShape, PlanShape DEF TypeOK
<1>2. /\ data \in Seq(1..Size) /\ Len(data) \in Nat /\ Len(data) <= PartLen(CutFor, i)
      /\ \A b \in 1..Len(data) : data[b] = first + b - 1
  BY <1>1, LenProperties DEF TypeOK, FilesFit
<1>. HIDE DEF first, data
<1>3. Size \in Nat
  BY DownloadAssumption
<1>4. first \in Int /\ last \in Int /\ \A b \in first..last : b \in 1..Size /\ Content[b] = b
  BY <1>1, <1>2, <1>3 DEF Content
<1>5. /\ SubSeq(Content, first, last) \in Seq(1..Size)
      /\ Len(SubSeq(Content, first, last)) = IF first <= last THEN last - first + 1 ELSE 0
      /\ \A b \in 1..(last - first + 1) : SubSeq(Content, first, last)[b] = Content[first + b - 1]
  BY <1>4, SubSeqProperties
<1>6. Len(SubSeq(Content, first, last)) = Len(data)
  BY <1>1, <1>2, <1>5
<1>7. \A b \in 1..Len(data) : data[b] = SubSeq(Content, first, last)[b]
  <2>1. last - first + 1 = Len(data)
    BY <1>1, <1>2
  <2>2. SUFFICES ASSUME NEW b \in 1..Len(data)
                 PROVE  data[b] = SubSeq(Content, first, last)[b]
    OBVIOUS
  <2>3. SubSeq(Content, first, last)[b] = Content[first + b - 1]
    BY <1>5, <2>1
  <2>4. first + b - 1 \in first..last
    BY <1>1, <1>2
  <2>5. Content[first + b - 1] = first + b - 1
    BY <1>4, <2>4
  <2>. QED
    BY <1>2, <2>3, <2>5
<1>8. data = SubSeq(Content, first, last)
  BY <1>2, <1>5, <1>6, <1>7, SeqEqual
<1>. QED
  BY <1>1, <1>8 DEF data

-----------------------------------------------------------------------------
(* One step.                                                                 *)

LEMMA FitStep ==
  ASSUME ~ChangeAnyTime, TypeOK, FilesFit, TasksFit, MergeFits, [Next]_vars
  PROVE  TypeOK' /\ FilesFit' /\ TasksFit' /\ MergeFits'
<1> USE DEF disk, task, part, bounds
<1>0. /\ Indices = 1..Cardinality(Servers) /\ NoFile = [there |-> FALSE, data |-> <<>>]
      /\ sources' = sources => CutFor' = CutFor
  BY DEF Indices, NoFile, CutFor, Offered
<1>e. <<>> \in Seq(Servers) /\ <<>> \in Seq(1..Size) /\ Len(<<>>) = 0
  BY EmptySeq
<1>n. Cardinality(Servers) \in Nat \ {0} /\ Size \in Nat /\ ChangeAnyTime \in BOOLEAN
  BY CutForShape, DownloadAssumption DEF TypeOK
<1>1. ASSUME NEW s \in Servers, Start(s) PROVE TypeOK' /\ FilesFit' /\ TasksFit' /\ MergeFits'
  <2>1. Offered(s) \in Seq(Servers) /\ Len(Offered(s)) = Len(CutFor)
    BY <1>0 DEF Offered, CutFor, TypeOK
  <2>2. Synced(Offered(s)) \in [Indices -> 0..Size]
    BY <2>1, SyncedShape
  <2>3. \/ /\ plan' = Offered(s) /\ finished' = Synced(Offered(s))
           /\ meta' \in {meta, Offered(s)} /\ index' = 1 /\ pc' = "tickets"
        \/ meta' \in {meta, <<>>} /\ UNCHANGED <<plan, finished, index, pc>>
    BY <1>1 DEF Start, Prepare, Works, Cut
  <2>4. /\ UNCHANGED <<sources, tickets, parts, target>> /\ pc = "idle"
        /\ control' = s /\ denied' = {}
        /\ ppc' = [j \in Indices |-> "none"] /\ ticket' = [j \in Indices |-> NoTicket]
        /\ at' = [j \in Indices |-> 1]
    BY <1>1 DEF Start
  <2>11. TypeOK'
    <3>1. NoTicket \in TicketSet /\ 1 \in 1..(Cardinality(Servers) + 1) /\ 1 \in 1..(Size + 1)
      BY <1>n, DownloadAssumption DEF NoTicket, TicketSet
    <3>2. /\ plan' \in Seq(Servers) /\ finished' \in [Indices -> 0..Size] /\ meta' \in Seq(Servers)
          /\ index' \in 1..(Cardinality(Servers) + 1) /\ pc' \in {"idle", "tickets"}
      BY <1>e, <2>1, <2>2, <2>3, <2>4, <3>1 DEF TypeOK
    <3>3. /\ ticket' \in [Indices -> TicketSet] /\ at' \in [Indices -> 1..(Size + 1)]
          /\ ppc' \in [Indices -> {"none", "connect", "recv", "end"}]
      BY <2>4, <3>1
    <3>. QED
      BY <2>4, <3>2, <3>3 DEF TypeOK
  <2>12. FilesFit'
    BY <1>0, <2>4 DEF FilesFit
  <2>13. TasksFit'
    <3>1. \A j \in Indices : ppc'[j] = "none"
      BY <2>4
    <3>2. (pc' # "idle" => Len(plan') = Len(CutFor')) /\ (pc' = "tickets" => index' <= Len(plan') + 1)
      BY <1>0, <2>1, <2>3, <2>4, CutForShape DEF TypeOK
    <3>. QED
      BY <2>3, <2>4, <3>1, <3>2 DEF TasksFit
  <2>14. MergeFits'
    BY <1>1 DEF Start, Prepare, Synced, Smaller, Works, Cut, MergeFits
  <2>. QED
    BY <2>11, <2>12, <2>13, <2>14
<1>2. ASSUME NEW s \in Servers, Expire(s) PROVE TypeOK' /\ FilesFit' /\ TasksFit' /\ MergeFits'
  <2>11. TypeOK'
    BY <1>2 DEF Expire, Cut, TypeOK
  <2>12. FilesFit'
    BY <1>0, <1>2 DEF Expire, Cut, FilesFit
  <2>13. TasksFit'
    BY <1>0, <1>2 DEF Expire, Cut, TasksFit
  <2>14. MergeFits'
    BY <1>2 DEF Expire, Cut, MergeFits
  <2>. QED
    BY <2>11, <2>12, <2>13, <2>14
<1>3. ASSUME NEW s \in Servers, AddSource(s) PROVE TypeOK' /\ FilesFit' /\ TasksFit' /\ MergeFits'
  <2>1. /\ pc = "idle" /\ \A i \in Indices : ~parts[i].there
        /\ s \notin Range(sources) /\ sources' = Append(sources, s)
        /\ UNCHANGED <<tickets, meta, parts, target, pc, control, plan, finished, index, ppc,
                       ticket, at, denied>>
    BY <1>3 DEF AddSource
  <2>2. /\ sources' \in Seq(Servers) /\ Len(sources') = Len(sources) + 1 /\ Len(sources) \in Nat
        /\ DOMAIN sources = 1..Len(sources) /\ DOMAIN sources' = 1..(Len(sources) + 1)
        /\ \A k \in 1..Len(sources) : sources'[k] = sources[k]
        /\ sources'[Len(sources) + 1] = s
    BY <2>1, AppendProperties, LenProperties DEF TypeOK
  <2>3. IsInjective(sources')
    BY <2>1, <2>2 DEF IsInjective, Range, FilesFit
  <2>4. Len(sources') <= Cardinality(Servers)
    <3>1. sources' \in Injection(1..Len(sources'), Servers)
      BY <2>2, <2>3, LenProperties DEF Injection
    <3>2. Cardinality(1..Len(sources')) = Len(sources')
      BY <2>2, FS_Interval
    <3>. QED
      BY <3>1, <3>2, FS_Injection, DownloadAssumption
  <2>11. TypeOK'
    BY <2>1, <2>2 DEF TypeOK
  <2>12. FilesFit'
    <3>1. CutFor' = sources' /\ Len(CutFor') \in Nat \ {0}
      BY <2>2, EmptySeq DEF CutFor, Offered
    <3>2. \A i \in Indices : parts'[i] = NoFile
      BY <2>1 DEF FilesFit
    <3>3. \A i \in 1..Len(CutFor') : 0 <= PartLen(CutFor', i)
      BY <3>1, PartRange
    <3>. QED
      BY <1>0, <1>e, <2>3, <2>4, <3>1, <3>2, <3>3 DEF FilesFit
  <2>13. TasksFit'
    BY <2>1 DEF TasksFit
  <2>14. MergeFits'
    BY <2>1 DEF MergeFits
  <2>. QED
    BY <2>11, <2>12, <2>13, <2>14
<1>4. ASSUME NEW i \in Indices, Accept(i) PROVE TypeOK' /\ FilesFit' /\ TasksFit' /\ MergeFits'
  <2>. DEFINE data  == parts[i].data
              len   == PartLen(CutFor, i)
              first == PartFirst(CutFor, i)
  <2>1. /\ pc = "run" /\ i \in 1..Len(CutFor) /\ ticket[i].first = first /\ ticket[i].len = len
        /\ len \in 0..Size /\ Len(data) \in 0..len /\ first + Len(data) \in 1..(Size + 1)
        /\ Len(data) = 0 => data = <<>>
    BY <1>4, ThreadShape, PartShape DEF Accept
  <2>2. \/ Len(data) = len /\ UNCHANGED <<parts, at>> /\ ppc' = [ppc EXCEPT ![i] = "end"]
        \/ /\ Len(data) < len
           /\ ppc' = [ppc EXCEPT ![i] = "recv"]
           /\ at' = [at EXCEPT ![i] = first + Len(data)]
           /\ parts' = [parts EXCEPT ![i] = [there |-> TRUE, data |-> data]]
    BY <1>4, <2>1 DEF Accept, Ends
  <2>3. /\ UNCHANGED <<sources, meta, target, pc, control, plan, finished, index, ticket, denied>>
        /\ tickets' \in [Servers -> SUBSET TicketSet]
    BY <1>4 DEF Accept, Consume, TypeOK
  <2>. HIDE DEF data, len, first
  <2>4. /\ \A j \in Indices \ {i} : parts'[j] = parts[j] /\ ppc'[j] = ppc[j] /\ at'[j] = at[j]
        /\ parts'[i].data = parts[i].data
        /\ parts'[i] = parts[i] \/ parts'[i].there
        /\ ppc'[i] = "recv" => /\ parts'[i].there /\ Len(data) < len
                               /\ at'[i] = first + Len(data)
        /\ ppc'[i] \in {"end", "recv"}
    BY <2>2 DEF TypeOK, data
  <2>11. TypeOK'
    <3>1. parts[i] \in [there : BOOLEAN, data : Seq(1..Size)]
      BY DEF TypeOK
    <3>2. parts' \in [Indices -> [there : BOOLEAN, data : Seq(1..Size)]]
      <4>1. parts' = parts \/ parts' = [parts EXCEPT ![i] = [there |-> TRUE, data |-> data]]
        BY <2>2
      <4>2. [there |-> TRUE, data |-> data] \in [there : BOOLEAN, data : Seq(1..Size)]
        BY <3>1 DEF data
      <4>. QED
        BY <4>1, <4>2 DEF TypeOK
    <3>3. at' \in [Indices -> 1..(Size + 1)] /\ ppc' \in [Indices -> {"none", "connect", "recv", "end"}]
      <4>1. at' = at \/ at' = [at EXCEPT ![i] = first + Len(data)]
        BY <2>2
      <4>2. ppc' = [ppc EXCEPT ![i] = "end"] \/ ppc' = [ppc EXCEPT ![i] = "recv"]
        BY <2>2
      <4>3. at' \in [Indices -> 1..(Size + 1)]
        <5>1. first + Len(data) \in 1..(Size + 1)
          BY <2>1
        <5>. QED
          BY <4>1, <5>1 DEF TypeOK
      <4>4. ppc' \in [Indices -> {"none", "connect", "recv", "end"}]
        BY <4>2 DEF TypeOK
      <4>. QED
        BY <4>3, <4>4
    <3>. QED
      BY <2>3, <3>2, <3>3 DEF TypeOK
  <2>12. FilesFit'
    <3>1. ASSUME NEW j \in Indices
          PROVE  /\ parts'[j].data = parts[j].data
                 /\ parts'[j] = parts[j] \/ (j = i /\ parts'[j].there)
      BY <2>4
    <3>2. i <= Len(CutFor)
      BY <2>1, CutForShape DEF TypeOK
    <3>. QED
      BY <1>0, <2>3, <3>1, <3>2 DEF FilesFit
  <2>13. TasksFit'
    <3>1. first = PartFirst(plan, i) /\ len = PartLen(plan, i)
      BY <2>1, PlanShape DEF first, len
    <3>2. i <= Len(plan)
      BY <1>4 DEF TasksFit, Accept
    <3>3. plan' = plan /\ CutFor' = CutFor /\ index' = index /\ ticket' = ticket /\ pc' = pc
      BY <1>0, <2>3
    <3>. QED
      BY <2>1, <2>4, <3>1, <3>2, <3>3 DEF TasksFit, data
  <2>14. MergeFits'
    BY <2>1, <2>3 DEF MergeFits
  <2>. QED
    BY <2>11, <2>12, <2>13, <2>14
<1>5. ASSUME NEW i \in Indices, RefuseRange(i) PROVE TypeOK' /\ FilesFit' /\ TasksFit' /\ MergeFits'
  <2>11. TypeOK'
    BY <1>5 DEF RefuseRange, Consume, Ends, TypeOK
  <2>12. FilesFit'
    BY <1>0, <1>5 DEF RefuseRange, Consume, Ends, FilesFit
  <2>13. TasksFit'
    BY <1>0, <1>5 DEF RefuseRange, Consume, Ends, TasksFit
  <2>14. MergeFits'
    BY <1>5 DEF RefuseRange, Consume, Ends, MergeFits
  <2>. QED
    BY <2>11, <2>12, <2>13, <2>14
<1>6. ASSUME NEW i \in Indices, RefuseTicket(i) PROVE TypeOK' /\ FilesFit' /\ TasksFit' /\ MergeFits'
  <2>11. TypeOK'
    <3>1. denied' \subseteq TicketSet
      BY <1>6 DEF RefuseTicket, TypeOK
    <3>. QED
      BY <1>6, <3>1 DEF RefuseTicket, Ends, TypeOK
  <2>12. FilesFit'
    BY <1>0, <1>6 DEF RefuseTicket, Ends, FilesFit
  <2>13. TasksFit'
    BY <1>0, <1>6 DEF RefuseTicket, Ends, TasksFit
  <2>14. MergeFits'
    BY <1>6 DEF RefuseTicket, Ends, MergeFits
  <2>. QED
    BY <2>11, <2>12, <2>13, <2>14
<1>7. ASSUME NEW i \in Indices, Recv(i) PROVE TypeOK' /\ FilesFit' /\ TasksFit' /\ MergeFits'
  <2>. DEFINE data  == parts[i].data
              len   == PartLen(CutFor, i)
              first == PartFirst(CutFor, i)
              more  == Append(data, at[i])
  <2>1. /\ pc = "run" /\ i \in 1..Len(CutFor) /\ ticket[i].first = first /\ ticket[i].len = len
        /\ len \in 0..Size /\ Len(data) \in 0..len /\ first \in 1..(Size + 1)
        /\ first + len <= Size + 1 /\ Size \in Nat /\ data \in Seq(1..Size)
    BY <1>7, ThreadShape, PartShape DEF Recv
  <2>2. parts[i].there /\ Len(data) < len /\ at[i] = first + Len(data)
    BY <1>7, <2>1 DEF Recv, TasksFit
  <2>3. at[i] \in 1..Size /\ at[i] + 1 \in 1..(Size + 1)
    <3> HIDE DEF data, len, first
    <3>1. first \in Int /\ len \in Int /\ Len(data) \in Int
      BY <2>1
    <3>2. 0 <= Len(data) /\ Len(data) + 1 <= len /\ 1 <= first /\ first + len <= Size + 1
      BY <2>1, <2>2, <3>1
    <3>. QED
      BY <2>1, <2>2, <3>1, <3>2
  <2>4. /\ more \in Seq(1..Size) /\ Len(more) = Len(data) + 1
        /\ \A b \in 1..Len(data) : more[b] = data[b]
        /\ more[Len(data) + 1] = at[i]
    BY <2>1, <2>3, AppendProperties
  <2>5. /\ parts' = [parts EXCEPT ![i].data = more] /\ at' = [at EXCEPT ![i] = at[i] + 1]
        /\ IF Len(data) + 1 = len THEN ppc' = [ppc EXCEPT ![i] = "end"] ELSE UNCHANGED ppc
        /\ UNCHANGED <<sources, tickets, meta, target, pc, control, plan, finished, index,
                       ticket, denied>>
    BY <1>7, <2>1 DEF Recv, Ends
  <2>. HIDE DEF data, len, first, more
  <2>6. /\ \A j \in Indices \ {i} : parts'[j] = parts[j] /\ ppc'[j] = ppc[j] /\ at'[j] = at[j]
        /\ parts'[i].data = more /\ parts'[i].there = parts[i].there /\ at'[i] = at[i] + 1
        /\ ppc'[i] \in {"end", "recv"} /\ (ppc'[i] = "recv" => Len(data) + 1 # len)
    BY <1>7, <2>5 DEF TypeOK, Recv
  <2>11. TypeOK'
    <3>1. parts' \in [Indices -> [there : BOOLEAN, data : Seq(1..Size)]]
      BY <2>4, <2>5 DEF TypeOK
    <3>2. at' \in [Indices -> 1..(Size + 1)] /\ ppc' \in [Indices -> {"none", "connect", "recv", "end"}]
      BY <2>3, <2>5 DEF TypeOK
    <3>. QED
      BY <2>5, <3>1, <3>2 DEF TypeOK
  <2>12. FilesFit'
    <3>1. i <= Len(CutFor) /\ Len(more) <= len
      BY <2>1, <2>2, <2>4, CutForShape DEF TypeOK
    <3>2. \A b \in 1..Len(data) : data[b] = first + b - 1
      BY <3>1 DEF FilesFit, data, first
    <3>3. \A b \in 1..Len(more) : more[b] = first + b - 1
      <4>1. SUFFICES ASSUME NEW b \in 1..Len(more) PROVE more[b] = first + b - 1
        OBVIOUS
      <4>2. CASE b = Len(data) + 1
        BY <2>1, <2>2, <2>4, <4>2
      <4>3. CASE b # Len(data) + 1
        <5>1. b \in 1..Len(data)
          BY <2>1, <2>4, <4>3
        <5>. QED
          BY <2>4, <3>2, <5>1
      <4>. QED
        BY <4>2, <4>3
    <3>. QED
      BY <1>0, <2>2, <2>5, <2>6, <3>1, <3>3 DEF FilesFit, first, len
  <2>13. TasksFit'
    <3>1. first = PartFirst(plan, i) /\ len = PartLen(plan, i)
      BY <2>1, PlanShape DEF first, len
    <3>2. i <= Len(plan)
      BY <1>7 DEF TasksFit, Recv
    <3>3. plan' = plan /\ CutFor' = CutFor /\ index' = index /\ ticket' = ticket /\ pc' = pc
      BY <1>0, <2>5
    <3>4. Len(parts'[i].data) = Len(data) + 1
      BY <2>4, <2>6
    <3>5. at'[i] = first + (Len(data) + 1)
      BY <2>1, <2>2, <2>6
    <3>6. ppc'[i] = "recv" => Len(data) + 1 < len
      BY <2>1, <2>2, <2>6
    <3>. QED
      BY <2>1, <2>2, <2>6, <3>1, <3>2, <3>3, <3>4, <3>5, <3>6 DEF TasksFit
  <2>14. MergeFits'
    BY <2>1, <2>5 DEF MergeFits
  <2>. QED
    BY <2>11, <2>12, <2>13, <2>14
<1>8. ASSUME NEW i \in Indices, LoseConnection(i) PROVE TypeOK' /\ FilesFit' /\ TasksFit' /\ MergeFits'
  <2>11. TypeOK'
    BY <1>8 DEF LoseConnection, Cut, Ends, TypeOK
  <2>12. FilesFit'
    BY <1>0, <1>8 DEF LoseConnection, Cut, Ends, FilesFit
  <2>13. TasksFit'
    BY <1>0, <1>8 DEF LoseConnection, Cut, Ends, TasksFit
  <2>14. MergeFits'
    BY <1>8 DEF LoseConnection, Cut, Ends, MergeFits
  <2>. QED
    BY <2>11, <2>12, <2>13, <2>14
<1>9. CASE RequestTicket
  <2>1. /\ pc = "tickets" /\ index \in 1..Len(plan) /\ index \in 1..Len(CutFor) /\ index \in Indices
        /\ Len(plan) = Len(CutFor)
    BY <1>9, PlanShape, CutForShape DEF RequestTicket, TypeOK
  <2>2. /\ PartFirst(plan, index) \in 1..(Size + 1) /\ PartLen(plan, index) \in 0..Size
        /\ plan[index] \in Servers
    <3>1. plan[index] \in Servers
      BY <2>1, ElementOfSeq DEF TypeOK
    <3>. QED
      BY <2>1, <3>1, PlanShape, PartShape
  <2>5. index + 1 \in 1..(Cardinality(Servers) + 1) /\ index + 1 <= Len(plan) + 1
    BY <1>n, <2>1 DEF Indices
  <2>3. Issued(index) \in TicketSet
    BY <2>2 DEF Issued, TicketSet, TypeOK
  <2>4. /\ UNCHANGED <<sources, meta, parts, target, control, plan, finished, at, denied>>
        /\ \/ index' = index + 1 /\ UNCHANGED <<tickets, ticket, ppc, pc>>
           \/ /\ tickets' = [tickets EXCEPT ![control] = @ \cup {Issued(index)}]
              /\ ticket' = [ticket EXCEPT ![index] = Issued(index)]
              /\ ppc' = [ppc EXCEPT ![index] = "connect"]
              /\ index' = index + 1 /\ UNCHANGED pc
           \/ pc' = "idle" /\ UNCHANGED <<tickets, ticket, ppc, index>>
    BY <1>9 DEF RequestTicket, PrepareTicket, Register
  <2>11. TypeOK'
    <3>1. /\ index' \in 1..(Cardinality(Servers) + 1)
          /\ pc' \in {"tickets", "idle"}
      BY <2>1, <2>4, <2>5 DEF TypeOK
    <3>2. /\ tickets' \in [Servers -> SUBSET TicketSet] /\ ticket' \in [Indices -> TicketSet]
          /\ ppc' \in [Indices -> {"none", "connect", "recv", "end"}]
      <4>1. CASE UNCHANGED <<tickets, ticket, ppc>>
        BY <4>1 DEF TypeOK
      <4>2. CASE /\ tickets' = [tickets EXCEPT ![control] = @ \cup {Issued(index)}]
                 /\ ticket' = [ticket EXCEPT ![index] = Issued(index)]
                 /\ ppc' = [ppc EXCEPT ![index] = "connect"]
        BY <2>1, <2>3, <4>2 DEF TypeOK
      <4>. QED
        BY <2>4, <4>1, <4>2
    <3>. QED
      BY <2>4, <3>1, <3>2 DEF TypeOK
  <2>12. FilesFit'
    BY <1>0, <2>4 DEF FilesFit
  <2>13. TasksFit'
    <3>1. CASE UNCHANGED <<ticket, ppc>>
      BY <1>0, <2>1, <2>4, <2>5, <3>1 DEF TasksFit
    <3>2. CASE /\ ticket' = [ticket EXCEPT ![index] = Issued(index)]
               /\ ppc' = [ppc EXCEPT ![index] = "connect"]
               /\ index' = index + 1 /\ UNCHANGED pc
      <4>1. /\ ticket'[index] = Issued(index) /\ ppc'[index] = "connect"
            /\ \A i \in Indices \ {index} : ticket'[i] = ticket[i] /\ ppc'[i] = ppc[i]
        BY <2>1, <3>2 DEF TypeOK
      <4>2. Issued(index).first = PartFirst(plan, index) /\ Issued(index).len = PartLen(plan, index)
        BY DEF Issued
      <4>3. index <= Len(plan) /\ index' <= Len(plan) + 1
        BY <2>1, <2>5, <3>2
      <4>. QED
        BY <1>0, <2>1, <2>4, <3>2, <4>1, <4>2, <4>3 DEF TasksFit
    <3>. QED
      BY <2>4, <3>1, <3>2
  <2>14. MergeFits'
    BY <2>1, <2>4 DEF MergeFits
  <2>. QED
    BY <2>11, <2>12, <2>13, <2>14
<1>10. CASE RunParts
  <2>11. TypeOK'
    BY <1>10 DEF RunParts, TypeOK
  <2>12. FilesFit'
    BY <1>0, <1>10 DEF RunParts, FilesFit
  <2>13. TasksFit'
    BY <1>0, <1>10 DEF RunParts, TasksFit
  <2>14. MergeFits'
    BY <1>10 DEF RunParts, MergeFits
  <2>. QED
    BY <2>11, <2>12, <2>13, <2>14
<1>11. CASE Join
  <2>1. /\ Len(plan) = Len(CutFor) /\ DOMAIN plan = 1..Len(plan) /\ pc = "run"
        /\ \A i : /\ PartLen(plan, i) = PartLen(CutFor, i)
                  /\ PartFirst(plan, i) = PartFirst(CutFor, i)
    BY <1>11, PlanShape DEF Join
  <2>2. /\ Synced(plan) \in [Indices -> 0..Size]
        /\ \A i \in 1..Len(plan) : Synced(plan)[i] = Len(parts[i].data)
    BY <2>1, SyncedShape
  <2>3. /\ finished' = Synced(plan) /\ meta' = plan /\ index' = 1
        /\ \/ AllFinished(Synced(plan)) /\ pc' = "merge" /\ target' = <<>>
           \/ pc' = "idle" /\ UNCHANGED target
        /\ \A i \in Indices : ppc[i] \in {"none", "end"}
        /\ UNCHANGED <<sources, tickets, parts, control, plan, ppc, ticket, at, denied>>
    BY <1>11 DEF Join
  <2>11. TypeOK'
    <3>1. 1 \in 1..(Cardinality(Servers) + 1)
      BY <1>n
    <3>2. target' \in Seq(1..Size) /\ pc' \in {"idle", "merge"}
      BY <1>e, <2>3 DEF TypeOK
    <3>. QED
      BY <2>2, <2>3, <3>1, <3>2 DEF TypeOK
  <2>12. FilesFit'
    BY <1>0, <2>3 DEF FilesFit
  <2>13. TasksFit'
    <3>1. 1 <= Len(plan) + 1
      BY <2>1, CutForShape DEF TypeOK
    <3>. QED
      BY <1>0, <2>1, <2>3, <3>1 DEF TasksFit
  <2>14. MergeFits'
    <3>1. CASE pc' = "merge"
      <4>1. ASSUME NEW i \in 1..Len(plan)
            PROVE  Len(parts[i].data) = PartLen(plan, i)
        <5>1. Len(parts[i].data) >= PartLen(plan, i)
          BY <2>1, <2>2, <2>3, <3>1 DEF AllFinished, IsPartFinished
        <5>. QED
          BY <2>1, <5>1, PartShape
      <4>2. PartFirst(plan, 1) = 1
        BY <2>1, CutForShape, PartRange DEF TypeOK
      <4>. QED
        BY <1>e, <2>1, <2>3, <3>1, <4>1, <4>2 DEF MergeFits
    <3>. QED
      BY <2>3, <3>1 DEF MergeFits
  <2>. QED
    BY <2>11, <2>12, <2>13, <2>14
<1>12. CASE MergePart
  <2>1. /\ Len(plan) = Len(CutFor) /\ DOMAIN plan = 1..Len(plan) /\ pc = "merge"
        /\ index \in 1..Len(plan) /\ index \in 1..Len(CutFor) /\ Len(plan) \in 1..Cardinality(Servers)
        /\ \A i : /\ PartLen(plan, i) = PartLen(CutFor, i)
                  /\ PartFirst(plan, i) = PartFirst(CutFor, i)
    <3>1. pc = "merge" /\ index <= Len(plan)
      BY <1>12 DEF MergePart
    <3>2. index \in Nat \ {0} /\ Len(CutFor) \in 1..Cardinality(Servers)
      BY <1>n, CutForShape DEF TypeOK
    <3>. QED
      BY <1>n, <3>1, <3>2, PlanShape
  <2>2. /\ \/ target' = target \o parts[index].data /\ index' = index + 1 /\ pc' = "merge"
           \/ pc' = "idle" /\ UNCHANGED <<target, index>>
        /\ UNCHANGED <<sources, tickets, meta, parts, control, plan, finished, ppc, ticket, at,
                       denied>>
    BY <1>12, <2>1 DEF MergePart
  <2>3. /\ parts[index].data \in Seq(1..Size) /\ target \in Seq(1..Size)
        /\ Len(target) \in Nat /\ Len(parts[index].data) \in Nat
    BY <2>1, PartShape, LenProperties DEF TypeOK
  <2>4. /\ target \o parts[index].data \in Seq(1..Size)
        /\ Len(target \o parts[index].data) = Len(target) + Len(parts[index].data)
        /\ \A b \in 1..(Len(target) + Len(parts[index].data)) :
             (target \o parts[index].data)[b] =
               IF b <= Len(target) THEN target[b] ELSE parts[index].data[b - Len(target)]
    BY <2>3, ConcatProperties
  <2>11. TypeOK'
    <3>1. index + 1 \in 1..(Cardinality(Servers) + 1)
      BY <1>n, <2>1
    <3>. QED
      BY <2>2, <2>4, <3>1 DEF TypeOK
  <2>12. FilesFit'
    BY <1>0, <2>2 DEF FilesFit
  <2>13. TasksFit'
    <3>1. index + 1 <= Len(plan) + 1
      BY <2>1
    <3>. QED
      BY <1>0, <2>1, <2>2, <3>1 DEF TasksFit
  <2>14. MergeFits'
    <3>1. CASE pc' = "merge"
      <4>1. /\ Len(target) = PartFirst(plan, index) - 1 /\ \A b \in 1..Len(target) : target[b] = b
            /\ \A i \in DOMAIN plan : Len(parts[i].data) = PartLen(plan, i)
        BY <2>1 DEF MergeFits
      <4>2. /\ PartFirst(plan, index + 1) = PartFirst(plan, index) + PartLen(plan, index)
            /\ PartFirst(plan, index) \in Nat /\ PartLen(plan, index) \in Nat
        BY <2>1, PartRange
      <4>3. \A b \in 1..Len(parts[index].data) :
              parts[index].data[b] = PartFirst(plan, index) + b - 1
        BY <2>1, PartShape DEF FilesFit
      <4>4. Len(target') = PartFirst(plan, index') - 1
        BY <2>1, <2>2, <2>3, <2>4, <3>1, <4>1, <4>2
      <4>5. ASSUME NEW b \in 1..Len(target') PROVE target'[b] = b
        <5>1. CASE b <= Len(target)
          BY <2>2, <2>3, <2>4, <3>1, <4>1, <4>5, <5>1
        <5>2. CASE ~(b <= Len(target))
          <6>1. b - Len(target) \in 1..Len(parts[index].data)
            BY <2>2, <2>3, <2>4, <3>1, <4>5, <5>2
          <6>2. target'[b] = parts[index].data[b - Len(target)]
            BY <2>2, <2>3, <2>4, <3>1, <4>5, <5>2
          <6>3. target'[b] = PartFirst(plan, index) + (b - Len(target)) - 1
            BY <4>3, <6>1, <6>2
          <6>. QED
            BY <2>3, <4>1, <4>2, <6>1, <6>3
        <5>. QED
          BY <5>1, <5>2
      <4>. QED
        BY <2>2, <3>1, <4>1, <4>4, <4>5 DEF MergeFits
    <3>. QED
      BY <2>2, <3>1 DEF MergeFits
  <2>. QED
    BY <2>11, <2>12, <2>13, <2>14
<1>13. CASE MergeEnd
  <2>11. TypeOK'
    BY <1>13 DEF MergeEnd, TypeOK
  <2>12. FilesFit'
    BY <1>0, <1>13 DEF MergeEnd, FilesFit
  <2>13. TasksFit'
    BY <1>0, <1>13 DEF MergeEnd, TasksFit
  <2>14. MergeFits'
    <3>1. /\ index = Len(plan) + 1 /\ Len(plan) \in Nat \ {0}
      BY <1>13, PlanShape, CutForShape DEF MergeEnd, TasksFit, TypeOK
    <3>2. Len(target) = Size /\ \A b \in 1..Len(target) : target[b] = b
      <4>1. PartFirst(plan, index) = Size + 1
        BY <3>1, PartRange
      <4>. QED
        BY <1>n, <1>13, <4>1 DEF MergeEnd, MergeFits
    <3>3. target = Content
      BY <3>2, LenProperties DEF TypeOK, Content
    <3>. QED
      BY <1>13, <3>3 DEF MergeEnd, MergeFits
  <2>. QED
    BY <2>11, <2>12, <2>13, <2>14
<1>14. CASE CheckHash
  <2>11. TypeOK'
    BY <1>n, <1>14 DEF CheckHash, TypeOK
  <2>12. FilesFit'
    BY <1>0, <1>14 DEF CheckHash, FilesFit
  <2>13. TasksFit'
    BY <1>0, <1>14 DEF CheckHash, TasksFit
  <2>14. MergeFits'
    BY <1>14 DEF CheckHash, MergeFits
  <2>. QED
    BY <2>11, <2>12, <2>13, <2>14
<1>15. CASE Cleanup
  <2>1. /\ meta' = <<>> /\ pc = "clean" /\ pc' \in {"clean", "done"}
        /\ \/ /\ index <= Len(plan) /\ parts' = [parts EXCEPT ![index] = NoFile]
              /\ index' = index + 1
           \/ UNCHANGED <<parts, index>>
        /\ UNCHANGED <<sources, tickets, target, control, plan, finished, ppc, ticket, at, denied>>
    BY <1>15 DEF Cleanup
  <2>2. Len(plan) \in 1..Cardinality(Servers) /\ Len(plan) = Len(CutFor)
    BY <2>1, PlanShape, CutForShape DEF TypeOK
  <2>11. TypeOK'
    <3>1. NoFile \in [there : BOOLEAN, data : Seq(1..Size)]
      BY <1>0, <1>e
    <3>2. parts' \in [Indices -> [there : BOOLEAN, data : Seq(1..Size)]]
      <4>1. parts' = parts \/ parts' = [parts EXCEPT ![index] = NoFile]
        BY <2>1
      <4>. QED
        BY <3>1, <4>1 DEF TypeOK
    <3>3. index' \in 1..(Cardinality(Servers) + 1)
      BY <1>n, <2>1, <2>2 DEF TypeOK
    <3>. QED
      BY <1>e, <2>1, <3>2, <3>3 DEF TypeOK
  <2>12. FilesFit'
    <3>1. \A i \in Indices : parts'[i] = parts[i] \/ parts'[i] = NoFile
      BY <2>1 DEF TypeOK
    <3>2. \A i \in 1..Len(CutFor) : 0 <= PartLen(CutFor, i)
      BY CutForShape DEF TypeOK
    <3>3. NoFile.data = <<>> /\ Len(NoFile.data) = 0 /\ CutFor' = CutFor
      BY <1>0, <1>e, <2>1
    <3>4. ASSUME NEW i \in Indices, i <= Len(CutFor), parts'[i] = NoFile
          PROVE  /\ Len(parts'[i].data) <= PartLen(CutFor, i)
                 /\ \A b \in 1..Len(parts'[i].data) : FALSE
      BY <1>0, <2>2, <3>2, <3>3, <3>4
    <3>. QED
      BY <2>1, <3>1, <3>3, <3>4 DEF FilesFit
  <2>13. TasksFit'
    <3>1. \A i \in Indices : ppc[i] # "recv"
      BY <2>1 DEF TasksFit
    <3>. QED
      BY <1>0, <2>1, <2>2, <3>1 DEF TasksFit
  <2>14. MergeFits'
    BY <2>1 DEF MergeFits
  <2>. QED
    BY <2>11, <2>12, <2>13, <2>14
<1>16. CASE Kill
  <2>11. TypeOK'
    <3>1. meta' \in Seq(Servers) /\ ppc' \in [Indices -> {"none", "connect", "recv", "end"}]
      BY <1>e, <1>16 DEF Kill, TypeOK
    <3>. QED
      BY <1>16, <3>1 DEF Kill, TypeOK
  <2>12. FilesFit'
    BY <1>0, <1>16 DEF Kill, FilesFit
  <2>13. TasksFit'
    BY <1>0, <1>16 DEF Kill, TasksFit
  <2>14. MergeFits'
    BY <1>16 DEF Kill, MergeFits
  <2>. QED
    BY <2>11, <2>12, <2>13, <2>14
<1>17. CASE UNCHANGED vars
  BY <1>0, <1>17 DEF vars, TypeOK, FilesFit, TasksFit, MergeFits
<1>. QED
  BY <1>1, <1>2, <1>3, <1>4, <1>5, <1>6, <1>7, <1>8, <1>9, <1>10, <1>11, <1>12, <1>13, <1>14,
     <1>15, <1>16, <1>17
     DEF Next, PartStep, ManagerStep

-----------------------------------------------------------------------------
(* The initial state, and the theorems.                                      *)

LEMMA FitInit ==
  ASSUME Init
  PROVE  TypeOK /\ FilesFit /\ TasksFit /\ MergeFits
<1> USE DEF Init
<1>1. /\ sources \in Seq(Servers) /\ IsInjective(sources)
      /\ Len(sources) <= Cardinality(Servers)
      /\ Origin \in Servers /\ Size \in Nat
  BY DownloadAssumption
<1>2. Cardinality(Servers) \in Nat \ {0}
  BY FS_CardinalityType, FS_EmptySet, DownloadAssumption
<1>3. Len(CutFor) \in Nat \ {0} /\ Len(CutFor) <= Cardinality(Servers)
  BY <1>1, <1>2, EmptySeq DEF CutFor, Offered
<1>4. <<>> \in Seq(Servers) /\ <<>> \in Seq(1..Size) /\ Len(<<>>) = 0
  BY EmptySeq
<1>5. TypeOK
  <2>1. NoTicket \in TicketSet /\ 0 \in 0..Size /\ 1 \in 1..(Size + 1)
    BY <1>1 DEF NoTicket, TicketSet
  <2>2. NoFile \in [there : BOOLEAN, data : Seq(1..Size)]
    BY <1>4 DEF NoFile
  <2>3. 1 \in 1..(Cardinality(Servers) + 1)
    BY <1>2
  <2>. QED
    BY <1>1, <1>4, <2>1, <2>2, <2>3 DEF TypeOK
<1>6. FilesFit
  <2>1. \A i \in 1..Len(CutFor) : 0 <= PartLen(CutFor, i)
    BY <1>3, PartRange
  <2>2. \A i \in Indices : i <= Len(CutFor) => i \in 1..Len(CutFor)
    BY <1>2, <1>3 DEF Indices
  <2>. QED
    BY <1>1, <1>3, <1>4, <2>1, <2>2 DEF FilesFit, NoFile
<1>. QED
  BY <1>5, <1>6 DEF TasksFit, MergeFits

\* As long as no source is added while part files lie around: every part file is
\* an exact prefix of its range, through lost connections, expired tickets, kills
\* and retries on other servers, so that its length is the offset to resume from.
THEOREM DownloadCorrect == ~ChangeAnyTime => (Spec => []DownloadInv)
<1> SUFFICES ASSUME ~ChangeAnyTime PROVE Spec => []DownloadInv
  OBVIOUS
<1>. DEFINE Fit == TypeOK /\ FilesFit /\ TasksFit /\ MergeFits
<1>1. Init => Fit
  BY FitInit
<1>2. Fit /\ [Next]_vars => Fit'
  BY FitStep
<1>3. Fit => DownloadInv
  BY HeldRanges DEF DownloadInv
<1>. QED
  BY <1>1, <1>2, <1>3, PTL DEF Spec

\* When all parts are finished the merged file is the original
\* (merge_part_files): the hash check that follows never fails.
THEOREM MergeIsExact == ~ChangeAnyTime => (Spec => []MergeExact)
<1>1. DownloadInv => MergeExact
  BY DEF DownloadInv, MergeFits, MergeExact
<1>. QED
  BY <1>1, DownloadCorrect, PTL

LEMMA SpentStep ==
  ASSUME DownloadInv, DownloadInv', TicketSpent, [Next]_vars
  PROVE  TicketSpent'
<1> USE DEF disk, task, part, bounds
<1> SUFFICES ASSUME NEW i \in DOMAIN plan', pc' = "run", ppc'[i] = "recv"
             PROVE  ticket'[i] \notin tickets'[plan'[i]]
  BY DEF TicketSpent
<1>0. pc # "idle" => DOMAIN plan \subseteq Indices
  BY PlanShape, CutForShape DEF DownloadInv, TypeOK
<1>1. ASSUME NEW s \in Servers, Expire(s) PROVE ticket'[i] \notin tickets'[plan'[i]]
  BY <1>1 DEF Expire, TicketSpent, DownloadInv, TypeOK
<1>2. ASSUME NEW j \in Indices, Accept(j) PROVE ticket'[i] \notin tickets'[plan'[i]]
  BY <1>0, <1>2 DEF Accept, Consume, Ends, TicketSpent, DownloadInv, TypeOK
<1>3. ASSUME NEW j \in Indices, RefuseRange(j) PROVE ticket'[i] \notin tickets'[plan'[i]]
  BY <1>3 DEF RefuseRange, Consume, Ends, TicketSpent, DownloadInv, TypeOK
<1>4. ASSUME NEW j \in Indices, RefuseTicket(j) \/ LoseConnection(j) \/ Recv(j)
      PROVE  ticket'[i] \notin tickets'[plan'[i]]
  <2>1. /\ UNCHANGED <<tickets, plan, pc, ticket>>
        /\ ppc' = ppc \/ ppc' = [ppc EXCEPT ![j] = "end"]
    BY <1>4 DEF RefuseTicket, LoseConnection, Recv, Ends
  <2>2. ppc[i] = "recv"
    BY <1>0, <2>1 DEF DownloadInv, TypeOK
  <2>. QED
    BY <2>1, <2>2 DEF TicketSpent
<1>5. CASE RunParts
  BY <1>0, <1>5 DEF RunParts, DownloadInv, TasksFit
<1>6. CASE UNCHANGED <<tickets, plan, pc, ppc, ticket>>
  BY <1>6 DEF TicketSpent
<1>. QED
  BY <1>1, <1>2, <1>3, <1>4, <1>5, <1>6
     DEF Next, PartStep, ManagerStep, Start, AddSource, RequestTicket, Join, MergePart,
         MergeEnd, CheckHash, Cleanup, Kill, vars

\* A ticket serves one transfer: while a transfer runs on it, the server that
\* let it in does not have it in its table any more
\* (verify_and_consume_transfer_ticket).
THEOREM TicketsSpent == ~ChangeAnyTime => (Spec => []TicketSpent)
<1>1. Init => TicketSpent
  BY DEF Init, TicketSpent
<1>2. DownloadInv /\ DownloadInv' /\ TicketSpent /\ [Next]_vars => TicketSpent'
  BY SpentStep
<1>. QED
  BY <1>1, <1>2, DownloadCorrect, PTL DEF Spec

\* No attempt throws away what an earlier one has downloaded: a part file
\* shrinks only after the final file has passed the hash check.
THEOREM ProgressKept == ~ChangeAnyTime => (Spec => KeepsProgress)
<1> USE DEF disk, task, part, bounds
<1>1. ASSUME DownloadInv, [Next]_vars, NEW i \in Indices
      PROVE  Len(parts'[i].data) < Len(parts[i].data) => target = Content
  <2>0. Len(parts[i].data) \in Nat
    BY <1>1, LenProperties DEF DownloadInv, TypeOK
  <2>1. ASSUME NEW j \in Indices, Accept(j) PROVE parts'[i].data = parts[i].data
    <3>1. /\ pc = "run" /\ j \in 1..Len(CutFor) /\ ticket[j].len = PartLen(CutFor, j)
          /\ Len(parts[j].data) \in 0..PartLen(CutFor, j) /\ PartLen(CutFor, j) \in Nat
          /\ Len(parts[j].data) = 0 => parts[j].data = <<>>
      BY <1>1, <2>1, ThreadShape, PartShape DEF Accept, DownloadInv
    <3>2. parts' = parts \/ parts' = [parts EXCEPT ![j] = [there |-> TRUE, data |-> parts[j].data]]
      BY <2>1, <3>1 DEF Accept, Ends
    <3>3. CASE i = j
      BY <1>1, <3>2, <3>3 DEF DownloadInv, TypeOK
    <3>4. CASE i # j
      BY <1>1, <3>2, <3>4 DEF DownloadInv, TypeOK
    <3>. QED
      BY <3>3, <3>4
  <2>2. ASSUME NEW j \in Indices, Recv(j) PROVE ~(Len(parts'[i].data) < Len(parts[i].data))
    <3>1. parts' = [parts EXCEPT ![j].data = Append(@, at[j])]
      BY <2>2 DEF Recv
    <3>2. Len(Append(parts[j].data, at[j])) = Len(parts[j].data) + 1
      <4>1. parts[j].data \in Seq(1..Size) /\ at[j] \in 1..(Size + 1) /\ Size \in Nat
        BY <1>1, DownloadAssumption DEF DownloadInv, TypeOK
      <4>2. parts[j].data \in Seq(1..(Size + 1))
        BY <4>1, LenProperties, SeqDef
      <4>. QED
        BY <4>1, <4>2, AppendProperties
    <3>. QED
      BY <1>1, <2>0, <3>1, <3>2 DEF DownloadInv, TypeOK
  <2>3. CASE Cleanup
    BY <1>1, <2>3 DEF Cleanup, DownloadInv, MergeFits
  <2>4. CASE UNCHANGED parts
    BY <2>0, <2>4
  <2>. QED
    BY <1>1, <2>0, <2>1, <2>2, <2>3, <2>4
       DEF Next, PartStep, ManagerStep, Start, Expire, AddSource, RefuseRange, RefuseTicket,
           LoseConnection, RequestTicket, RunParts, Join, MergePart, MergeEnd, CheckHash,
           Kill, vars
<1>2. DownloadInv /\ [Next]_vars =>
        [\A i \in Indices : Len(parts'[i].data) < Len(parts[i].data) => target = Content]_vars
  BY <1>1
<1>. QED
  BY <1>2, DownloadCorrect, PTL DEF Spec, KeepsProgress
===============================================================================
