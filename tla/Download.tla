------------------------------ MODULE Download ------------------------------
(***************************************************************************)
(* One client's multi-source download of one file (client_gets.c,          *)
(* multipart_meta.c), with the servers' side of it: the download plan, the *)
(* one-time range tickets (session.c, transfer_ticket.c) and the ranged    *)
(* gets on a transfer thread (handle_gets_range).                          *)
(*                                                                         *)
(* The plan cuts the file into one part per source server.  Each part has  *)
(* a file of its own in the client's task directory; its length is the     *)
(* only record of progress that counts.  A download that stops is taken up *)
(* by the user's next gets, also after the client was killed.              *)
(***************************************************************************)
EXTENDS Naturals, Sequences, SequencesExt, FiniteSets

CONSTANTS
  Servers,         \* server instances on one database
  Origin,          \* the server that has had the file from the start
  Size,            \* length of the file, in blocks
  InitialSources,  \* values of file_sources before the first gets
  MaxCuts,         \* bound: refused requests, lost connections, expired tickets
  MaxKills,        \* bound: deaths of the client process
  MaxChanges,      \* bound: servers that are added to file_sources meanwhile
  ChangeAnyTime    \* they may be added while part files are lying around

ASSUME DownloadAssumption ==
  /\ Origin \in Servers /\ IsFiniteSet(Servers)
  /\ Size \in Nat /\ MaxCuts \in Nat /\ MaxKills \in Nat /\ MaxChanges \in Nat
  /\ ChangeAnyTime \in BOOLEAN
  /\ \A list \in InitialSources :
       list \in Seq(Servers) /\ IsInjective(list) /\ Len(list) <= Cardinality(Servers)

Content  == [b \in 1..Size |-> b]
Indices  == 1..Cardinality(Servers)
NoFile   == [there |-> FALSE, data |-> <<>>]
NoTicket == [issuer |-> Origin, source |-> Origin, first |-> 1, len |-> 0]

VARIABLES
  sources,   \* file_sources rows of the file, ORDER BY id
  tickets,   \* tickets[s]: range tickets on server s, neither used nor expired
  meta,      \* meta.ini: the source list it was written for, <<>> without one
  parts,     \* the part files of the task directory
  target,    \* blocks of the final file
  pc,        \* "idle", "tickets", "run", "merge", "check", "clean" or "done"
  control,   \* the server of the control connection
  plan,      \* sources in manager_task->meta
  finished,  \* finished_bytes of each part
  index,     \* the loop variable of the ticket and merge loops
  ppc,       \* part threads: "none", "connect", "recv" or "end"
  ticket,    \* the ticket of each part's task
  at,        \* the next block the server sends to each part
  denied,    \* ghost: tickets refused by the server they were shown to
  cuts, kills, changes

disk   == <<meta, parts, target>>
task   == <<plan, finished, index>>
part   == <<ppc, ticket, at>>
bounds == <<cuts, kills, changes>>
vars   == <<sources, tickets, disk, pc, control, task, part, denied, bounds>>

Init ==
  /\ sources \in InitialSources
  /\ tickets = [s \in Servers |-> {}]
  /\ meta = <<>>
  /\ parts = [i \in Indices |-> NoFile]
  /\ target = <<>>
  /\ pc = "idle" /\ control = Origin
  /\ plan = <<>> /\ finished = [i \in Indices |-> 0] /\ index = 1
  /\ ppc = [i \in Indices |-> "none"]
  /\ ticket = [i \in Indices |-> NoTicket]
  /\ at = [i \in Indices |-> 1]
  /\ denied = {}
  /\ cuts = 0 /\ kills = 0 /\ changes = 0

Works == cuts' = cuts
Cut   == cuts < MaxCuts /\ cuts' = cuts + 1

-----------------------------------------------------------------------------
(* Plan and parts.                                                         *)

\* Files without file_sources rows fall back to the server that is asked.
Offered(s) == IF sources = <<>> THEN <<s>> ELSE sources

Holds(s) == s = Origin \/ s \in Range(sources)

\* Even split over the sources of the plan; the first parts take the remainder.
PartLen(list, i) ==
  Size \div Len(list) + (IF i <= Size % Len(list) THEN 1 ELSE 0)

Smaller(a, b) == IF a < b THEN a ELSE b

\* Seeded fault: the blocks the remainder adds to the first parts are not
\* counted in the start of the next part.
PartFirstNoRemainder(list, i) == 1 + (i - 1) * (Size \div Len(list))

PartFirst(list, i) ==
  1 + (i - 1) * (Size \div Len(list)) + Smaller(i - 1, Size % Len(list))

\* The finished_bytes that the lengths of the part files stand for.
Synced(list) ==
  [i \in Indices |-> IF i <= Len(list)
                     THEN Smaller(Len(parts[i].data), PartLen(list, i)) ELSE 0]

\* Seeded fault: a part counts as finished only beyond its last byte.
IsPartFinishedNever(done, i) == done[i] > PartLen(plan, i)

IsPartFinished(done, i) == done[i] >= PartLen(plan, i)

AllFinished(done) == \A i \in DOMAIN plan : IsPartFinished(done, i)

\* A meta.ini written for another source list is not taken up.
Compatible(list) == meta = list

\* multipart_task_prepare and the refresh after it: ranges come from the plan
\* and progress from the part files, whether meta.ini is taken up or not.
Prepare(list) ==
  /\ plan' = list
  /\ meta' = IF Compatible(list) THEN meta ELSE list
  /\ finished' = Synced(list)

\* gets: ask the control server for a plan and prepare the task directory.
Start(s) ==
  /\ pc = "idle"
  /\ control' = s
  /\ \/ /\ Works
        /\ Prepare(Offered(s))
        /\ index' = 1
        /\ pc' = "tickets"
     \/ Cut /\ meta' \in {meta, <<>>} /\ UNCHANGED <<plan, finished, index, pc>>
  /\ ppc' = [i \in Indices |-> "none"]
  /\ ticket' = [i \in Indices |-> NoTicket]
  /\ at' = [i \in Indices |-> 1]
  /\ denied' = {}
  /\ UNCHANGED <<sources, tickets, parts, target, kills, changes>>

\* What the signed ticket says, and which process knows it.
Issued(i) ==
  [issuer |-> control, source |-> plan[i],
   first |-> PartFirst(plan, i), len |-> PartLen(plan, i)]

Allowed(i) == plan[i] \in Range(Offered(control))

\* issue_transfer_ticket: the table belongs to the control server's process.
Register(t) == tickets' = [tickets EXCEPT ![control] = @ \cup {t}]

\* handle_gets_range_ticket_prepare on the control server.
PrepareTicket(i) ==
  /\ Allowed(i)
  /\ Register(Issued(i))
  /\ ticket' = [ticket EXCEPT ![i] = Issued(i)]

\* One turn of the loop over the parts; a refused ticket ends the command.
RequestTicket ==
  /\ pc = "tickets" /\ index <= Len(plan)
  /\ \/ /\ IsPartFinished(finished, index)
        /\ Works
        /\ index' = index + 1
        /\ UNCHANGED <<tickets, ticket, ppc, pc>>
     \/ /\ ~IsPartFinished(finished, index)
        /\ Works /\ PrepareTicket(index)
        /\ ppc' = [ppc EXCEPT ![index] = "connect"]
        /\ index' = index + 1
        /\ UNCHANGED pc
     \/ /\ ~IsPartFinished(finished, index)
        /\ Cut \/ (Works /\ ~Allowed(index))
        /\ pc' = "idle"
        /\ UNCHANGED <<tickets, ticket, ppc, index>>
  /\ UNCHANGED <<sources, disk, control, plan, finished, at, denied, kills, changes>>

\* The manager thread starts the part threads; the prompt is free again.
RunParts ==
  /\ pc = "tickets" /\ index > Len(plan)
  /\ pc' = "run"
  /\ UNCHANGED <<sources, tickets, disk, control, task, part, denied, bounds>>

-----------------------------------------------------------------------------
(* A part thread and the transfer thread that serves it.                   *)

Ends(i) == ppc' = [ppc EXCEPT ![i] = "end"]

NamesServer(i) == ticket[i].source = plan[i]

\* The ticket has its place in the table of this process.
Known(i) == ticket[i] \in tickets[plan[i]]

Accepts(i) == NamesServer(i) /\ Known(i)

\* handle_gets_common: the store file is there and long enough for the range.
Serves(i) ==
  Holds(plan[i]) /\ ticket[i].len > 0 /\ ticket[i].first + ticket[i].len - 1 <= Size

Consume(i) == tickets' = [tickets EXCEPT ![plan[i]] = @ \ {ticket[i]}]

\* Seeded fault: the ticket is not taken out of the table.
AcceptKeepsTicket(i) ==
  LET have == Len(parts[i].data) IN
  /\ pc = "run" /\ ppc[i] = "connect" /\ Accepts(i) /\ Serves(i)
  /\ parts' = [parts EXCEPT ![i].there = TRUE]
  /\ at' = [at EXCEPT ![i] = ticket[i].first + have]
  /\ ppc' = [ppc EXCEPT ![i] = "recv"]
  /\ UNCHANGED <<sources, tickets, meta, target, pc, control, task, ticket, denied, bounds>>

\* Seeded fault: a part file that exists is downloaded from its start again.
AcceptRestarts(i) ==
  /\ pc = "run" /\ ppc[i] = "connect" /\ Accepts(i) /\ Serves(i)
  /\ Consume(i)
  /\ parts' = [parts EXCEPT ![i] = [there |-> TRUE, data |-> <<>>]]
  /\ at' = [at EXCEPT ![i] = ticket[i].first]
  /\ ppc' = [ppc EXCEPT ![i] = "recv"]
  /\ UNCHANGED <<sources, meta, target, pc, control, task, ticket, denied, bounds>>

\* Seeded fault: the server sends the range from its start, whatever the offset.
AcceptIgnoresOffset(i) ==
  /\ pc = "run" /\ ppc[i] = "connect" /\ Accepts(i) /\ Serves(i)
  /\ Consume(i)
  /\ parts' = [parts EXCEPT ![i].there = TRUE]
  /\ at' = [at EXCEPT ![i] = ticket[i].first]
  /\ ppc' = [ppc EXCEPT ![i] = "recv"]
  /\ UNCHANGED <<sources, meta, target, pc, control, task, ticket, denied, bounds>>

\* The ticket is verified and consumed, the server names the length of the
\* range, the client answers with the length of its part file: equal means
\* nothing to do, longer means start over.
Accept(i) ==
  LET have  == Len(parts[i].data)
      offset == IF have > ticket[i].len THEN 0 ELSE have
  IN
  /\ pc = "run" /\ ppc[i] = "connect" /\ Accepts(i) /\ Serves(i)
  /\ Consume(i)
  /\ IF offset = ticket[i].len
     THEN Ends(i) /\ UNCHANGED <<parts, at>>
     ELSE /\ ppc' = [ppc EXCEPT ![i] = "recv"]
          /\ at' = [at EXCEPT ![i] = ticket[i].first + offset]
          /\ parts' = [parts EXCEPT ![i] =
                         [there |-> TRUE,
                          data |-> IF offset = 0 THEN <<>> ELSE parts[i].data]]
  /\ UNCHANGED <<sources, meta, target, pc, control, task, ticket, denied, bounds>>

\* The ticket is good, the range is not: the server answers with size -1.
RefuseRange(i) ==
  /\ pc = "run" /\ ppc[i] = "connect" /\ Accepts(i) /\ ~Serves(i)
  /\ Consume(i)
  /\ Ends(i)
  /\ UNCHANGED <<sources, disk, pc, control, task, ticket, at, denied, bounds>>

\* The ticket is not in this server's table: the connection is closed.
RefuseTicket(i) ==
  /\ pc = "run" /\ ppc[i] = "connect" /\ ~Accepts(i)
  /\ denied' = denied \cup {ticket[i]}
  /\ Ends(i)
  /\ UNCHANGED <<sources, tickets, disk, pc, control, task, ticket, at, bounds>>

\* One block arrives and is written behind the last one.
Recv(i) ==
  /\ pc = "run" /\ ppc[i] = "recv"
  /\ parts' = [parts EXCEPT ![i].data = Append(@, at[i])]
  /\ at' = [at EXCEPT ![i] = @ + 1]
  /\ IF Len(parts[i].data) + 1 = ticket[i].len THEN Ends(i) ELSE UNCHANGED ppc
  /\ UNCHANGED <<sources, tickets, meta, target, pc, control, task, ticket, denied, bounds>>

\* The connection is lost before or during the transfer, or a write fails.
LoseConnection(i) ==
  /\ pc = "run" /\ ppc[i] \in {"connect", "recv"}
  /\ Cut
  /\ Ends(i)
  /\ UNCHANGED <<sources, tickets, disk, pc, control, task, ticket, at, denied, kills, changes>>

\* 30 seconds are over.
Expire(s) ==
  \E t \in tickets[s] :
    /\ Cut
    /\ tickets' = [tickets EXCEPT ![s] = @ \ {t}]
    /\ UNCHANGED <<sources, disk, pc, control, task, part, denied, kills, changes>>

-----------------------------------------------------------------------------
(* The manager thread: join, merge, verify, clean up.                      *)

\* All part threads joined: the part files decide what is finished.
Join ==
  LET now == Synced(plan) IN
  /\ pc = "run"
  /\ \A i \in Indices : ppc[i] \in {"none", "end"}
  /\ finished' = now
  /\ meta' = plan
  /\ index' = 1
  /\ IF AllFinished(now)
     THEN pc' = "merge" /\ target' = <<>>       \* O_TRUNC
     ELSE pc' = "idle" /\ UNCHANGED target
  /\ UNCHANGED <<sources, tickets, parts, control, plan, part, denied, bounds>>

\* One part file is appended to the final file.
MergePart ==
  /\ pc = "merge" /\ index <= Len(plan)
  /\ \/ /\ parts[index].there
        /\ Works
        /\ target' = target \o parts[index].data
        /\ index' = index + 1
        /\ UNCHANGED pc
     \/ /\ Cut \/ (Works /\ ~parts[index].there)
        /\ pc' = "idle"
        /\ UNCHANGED <<target, index>>
  /\ UNCHANGED <<sources, tickets, meta, parts, control, plan, finished, part, denied,
                 kills, changes>>

MergeEnd ==
  /\ pc = "merge" /\ index > Len(plan)
  /\ pc' = "check"
  /\ UNCHANGED <<sources, tickets, disk, control, task, part, denied, bounds>>

\* The hash decides; a mismatch leaves everything as it is.
CheckHash ==
  /\ pc = "check"
  /\ IF target = Content THEN pc' = "clean" /\ index' = 1 ELSE pc' = "idle" /\ UNCHANGED index
  /\ UNCHANGED <<sources, tickets, disk, control, plan, finished, part, denied, bounds>>

\* multipart_task_cleanup: meta.ini goes first, then one part file after the
\* other; the task directory and the report come last.
Cleanup ==
  /\ pc = "clean"
  /\ meta' = <<>>
  /\ IF index <= Len(plan)
     THEN parts' = [parts EXCEPT ![index] = NoFile] /\ index' = index + 1 /\ UNCHANGED pc
     ELSE pc' = "done" /\ UNCHANGED <<parts, index>>
  /\ UNCHANGED <<sources, tickets, target, control, plan, finished, part, denied, bounds>>

-----------------------------------------------------------------------------
(* The surroundings.                                                       *)

\* The client process dies: the user quits, or a connect() fails and
\* ERROR_CHECK exits.  A meta.ini that is being written is lost.
Kill ==
  /\ kills < MaxKills
  /\ pc \notin {"idle", "done"}
  /\ kills' = kills + 1
  /\ pc' = "idle"
  /\ ppc' = [i \in Indices |-> "none"]
  /\ meta' \in {meta, <<>>}
  /\ UNCHANGED <<sources, tickets, parts, target, control, task, ticket, at, denied, cuts, changes>>

\* Another user uploads the same content to one more server.
AddSource(s) ==
  /\ changes < MaxChanges
  /\ ChangeAnyTime \/ (pc = "idle" /\ \A i \in Indices : ~parts[i].there)
  /\ s \notin Range(sources)
  /\ sources' = Append(sources, s)
  /\ changes' = changes + 1
  /\ UNCHANGED <<tickets, disk, pc, control, task, part, denied, cuts, kills>>

PartStep(i)  == Accept(i) \/ RefuseRange(i) \/ RefuseTicket(i) \/ Recv(i)
ManagerStep  == RequestTicket \/ RunParts \/ Join \/ MergePart \/ MergeEnd
                  \/ CheckHash \/ Cleanup

Next ==
  \/ \E s \in Servers : Start(s) \/ Expire(s) \/ AddSource(s)
  \/ \E i \in Indices : PartStep(i) \/ LoseConnection(i)
  \/ ManagerStep
  \/ Kill
  \/ pc = "done" /\ UNCHANGED vars

Spec == Init /\ [][Next]_vars

\* Client and server threads go on running, and a user who does not have the
\* file yet gives gets again, sooner or later on a connection to each server.
Fairness ==
  /\ \A i \in Indices : WF_vars(PartStep(i))
  /\ WF_vars(ManagerStep)
  /\ \A s \in Servers : SF_vars(Start(s))

FairSpec == Spec /\ Fairness

-----------------------------------------------------------------------------
TicketSet ==
  [issuer : Servers, source : Servers, first : 1..(Size + 1), len : 0..Size]

\* The types of the task directory, the manager's task and the ticket tables.
TypeOK ==
  /\ sources \in Seq(Servers) /\ meta \in Seq(Servers) /\ plan \in Seq(Servers)
  /\ tickets \in [Servers -> SUBSET TicketSet]
  /\ parts \in [Indices -> [there : BOOLEAN, data : Seq(1..Size)]]
  /\ target \in Seq(1..Size)
  /\ pc \in {"idle", "tickets", "run", "merge", "check", "clean", "done"}
  /\ control \in Servers
  /\ finished \in [Indices -> 0..Size]
  /\ index \in 1..(Cardinality(Servers) + 1)
  /\ ppc \in [Indices -> {"none", "connect", "recv", "end"}]
  /\ ticket \in [Indices -> TicketSet]
  /\ at \in [Indices -> 1..(Size + 1)]
  /\ denied \subseteq TicketSet

\* A part file always holds the first blocks of its range, in order and without
\* holes: only then is its length the offset to resume from
\* (sync_finished_bytes_from_part_files, run_gets_part_transfer).
PartsHoldTheirRange ==
  plan # <<>> /\ pc # "idle" => \A i \in DOMAIN plan :
    parts[i].data = SubSeq(Content, PartFirst(plan, i),
                           PartFirst(plan, i) + Len(parts[i].data) - 1)

\* What makes it inductive as long as no source is added to files that lie
\* around (~ChangeAnyTime).  Every plan then has as many parts as the files were
\* cut for, and the files are prefixes of these ranges also between two plans.
CutFor == Offered(Origin)

FilesFit ==
  /\ IsInjective(sources) /\ Len(CutFor) <= Cardinality(Servers)
  /\ \A i \in Indices :
       /\ ~parts[i].there \/ i > Len(CutFor) => parts[i] = NoFile
       /\ i <= Len(CutFor) =>
            /\ Len(parts[i].data) <= PartLen(CutFor, i)
            /\ \A b \in 1..Len(parts[i].data) : parts[i].data[b] = PartFirst(CutFor, i) + b - 1

\* A part thread writes behind the last block it has, within the range of its
\* ticket, and that is the range of the plan.
TasksFit ==
  /\ pc # "idle" => Len(plan) = Len(CutFor)
  /\ pc \in {"tickets", "merge"} => index <= Len(plan) + 1
  /\ \A i \in Indices :
       /\ ppc[i] \in {"connect", "recv"} /\ pc # "idle" =>
            /\ i <= Len(plan)
            /\ ticket[i].first = PartFirst(plan, i) /\ ticket[i].len = PartLen(plan, i)
       /\ ppc[i] = "recv" =>
            /\ pc = "run" /\ parts[i].there
            /\ at[i] = ticket[i].first + Len(parts[i].data)
            /\ Len(parts[i].data) < ticket[i].len

\* The merge has copied the ranges before index, of files that are complete.
MergeFits ==
  /\ pc = "merge" =>
       /\ \A i \in DOMAIN plan : Len(parts[i].data) = PartLen(plan, i)
       /\ Len(target) = PartFirst(plan, index) - 1
       /\ \A b \in 1..Len(target) : target[b] = b
  /\ pc \in {"check", "clean", "done"} => target = Content

\* Type invariant, with what the part files hold: the inductive invariant of the
\* proofs.
DownloadInv == TypeOK /\ PartsHoldTheirRange /\ FilesFit /\ TasksFit /\ MergeFits

\* Once all parts are finished the merged file is the original, byte for byte
\* (client_gets.c:293): the hash check never fails.
MergeExact == pc = "check" => target = Content

\* What has been downloaded is not downloaded again: until the final file is
\* right no part file loses a block, whatever is cut, killed or retried.
KeepsProgress ==
  [][\A i \in Indices :
       Len(parts'[i].data) < Len(parts[i].data) => target = Content]_vars

\* A ticket serves one transfer (session.c:648): while a transfer runs on it,
\* the table that let it in does not hold it any more.
TicketSpent ==
  \A i \in DOMAIN plan : pc = "run" /\ ppc[i] = "recv" => ticket[i] \notin tickets[plan[i]]

\* A ticket that has neither been used nor expired opens the transfer on the
\* server it names: a file is downloaded from several servers at once.
FreshTicketAccepted == \A t \in denied : t \notin tickets[t.issuer]

\* The user who tries again gets the file.
DownloadEnds == <>(pc = "done")
=============================================================================
