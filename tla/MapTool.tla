------------------------------- MODULE MapTool -------------------------------
(***************************************************************************)
(* The map tool of the repository map connector: it asks whether the index *)
(* is at the branch's head, has the worker scan if it is not, waits for a  *)
(* while, and may then answer a query.  The query itself looks again       *)
(* whether the index is behind and, if so, has it scanned without waiting. *)
(*                                                                         *)
(* The scan is ScanJobs' subject; here it is what a caller sees of it: the *)
(* job's row, the repository's row, and an index that is torn while a scan *)
(* rewrites it.  There is one index for all branches.                      *)
(***************************************************************************)
EXTENDS Naturals, Sequences

CONSTANTS
    Askers,     \* sessions that call map
    Branches,
    MaxScans,   \* bound on the jobs of a behaviour
    MaxPushes,
    MaxMishaps  \* bound on lost jobs, failed counts and failed requests

VARIABLES
    tip,        \* the number of the last commit of each branch
    repoRow,    \* row of repos: default_ref and last_scanned_commit, None before the first scan
    scans,      \* rows of scan_jobs, oldest first
    mapIndex,   \* what the files, symbols, edges and chunks stand for
    asker,      \* each session's call
    mapLeft     \* pushes and mishaps still to come

mapVars == <<tip, repoRow, scans, mapIndex, asker, mapLeft>>

NoRow == [known |-> FALSE, default |-> "main", last |-> <<"none", 0>>]
NoCall == [stage |-> "rest", ref |-> "main", job |-> 0, query |-> FALSE, row |-> NoRow,
           seen |-> 0, counted |-> FALSE, lacking |-> FALSE, warned |-> FALSE, since |-> 0,
           ticket |-> 0, read |-> <<>>]

MapInit ==
    /\ tip = [b \in Branches |-> 1]
    /\ repoRow = NoRow
    /\ scans = << >>
    /\ mapIndex = [of |-> <<"none", 0>>, state |-> "empty", marked |-> FALSE, epoch |-> 0]
    /\ asker = [a \in Askers |-> NoCall]
    /\ mapLeft = [push |-> MaxPushes, mishap |-> MaxMishaps]

OnStage(a, stage) == asker[a].stage = stage
Step(a, fields) == asker' = [asker EXCEPT ![a] = fields]
Mishap == mapLeft.mishap > 0 /\ mapLeft' = [mapLeft EXCEPT !.mishap = @ - 1]

\* A scan the tool can go on from.
JobDone(job) == job.status = "done"

\* files.fully_indexed_at is NULL for some file.
Unindexed == mapIndex.marked

-----------------------------------------------------------------------------
\* The tool.

\* The session calls map, with a branch, or with the ticket of a job it was told to come back for.
Ask(a) ==
    /\ OnStage(a, "rest")
    /\ \E b \in Branches, q \in BOOLEAN :
        \/ Step(a, [NoCall EXCEPT !.stage = "row", !.ref = b, !.query = q])
        \/ /\ asker[a].ticket > 0
           /\ Step(a, [NoCall EXCEPT !.stage = "poll", !.ref = scans[asker[a].ticket].ref,
                                     !.query = q, !.job = asker[a].ticket])
    /\ UNCHANGED <<tip, repoRow, scans, mapIndex, mapLeft>>

\* getFreshness reads the repository's row, then the head, then counts what is not indexed.
ReadRow(a) ==
    /\ OnStage(a, "row")
    /\ Step(a, [asker[a] EXCEPT !.row = repoRow, !.since = mapIndex.epoch,
                                !.stage = IF repoRow.known THEN "head" ELSE "scan"])
    /\ UNCHANGED <<tip, repoRow, scans, mapIndex, mapLeft>>

ReadHead(a) ==
    /\ OnStage(a, "head")
    /\ Step(a, [asker[a] EXCEPT !.seen = tip[asker[a].ref], !.stage = "count"])
    /\ UNCHANGED <<tip, repoRow, scans, mapIndex, mapLeft>>

CountUnindexed(a) ==
    /\ OnStage(a, "count")
    /\ \/ Step(a, [asker[a] EXCEPT !.lacking = Unindexed, !.counted = TRUE, !.stage = "gate"])
          /\ UNCHANGED mapLeft
       \/ Mishap /\ Step(a, [asker[a] EXCEPT !.stage = "gate"])
    /\ UNCHANGED <<tip, repoRow, scans, mapIndex>>

FreshBranch(row, ref, head) == row.last[1] = ref

\* fresh: the head is the commit scanned last.
FreshRow(row, ref, head) == row.last = <<ref, head>>

AfterGate(call) == IF call.query THEN "refresh" ELSE "told"

Gate(a) ==
    /\ OnStage(a, "gate")
    /\ IF FreshRow(asker[a].row, asker[a].ref, asker[a].seen)
         THEN Step(a, [asker[a] EXCEPT !.warned = asker[a].lacking, !.row = NoRow,
                                       !.stage = AfterGate(asker[a])])
         ELSE Step(a, [asker[a] EXCEPT !.row = NoRow, !.stage = "scan"])
    /\ UNCHANGED <<tip, repoRow, scans, mapIndex, mapLeft>>

\* enqueueScan: the row's default branch becomes the branch asked for, whatever the index holds.
EnqueueScan(ref) ==
    /\ repoRow' = [repoRow EXCEPT !.known = TRUE, !.default = ref]
    /\ scans' = Append(scans, [ref |-> ref, status |-> "queued", problem |-> FALSE, epoch |-> 0])

StartScan(a) ==
    /\ OnStage(a, "scan")
    /\ \/ /\ Len(scans) < MaxScans
          /\ EnqueueScan(asker[a].ref)
          /\ Step(a, [asker[a] EXCEPT !.job = Len(scans) + 1, !.stage = "poll"])
          /\ UNCHANGED mapLeft
       \/ Mishap /\ Step(a, [asker[a] EXCEPT !.stage = "told"]) /\ UNCHANGED <<repoRow, scans>>
    /\ UNCHANGED <<tip, mapIndex>>

\* pollToBudget: the job is over, or the time is and the caller gets a ticket.  A failed job is
\* reported as one still in progress.
Poll(a) ==
    /\ OnStage(a, "poll")
    /\ LET job == scans[asker[a].job]
       IN  Step(a, IF JobDone(job)
                   THEN [asker[a] EXCEPT !.warned = job.problem, !.counted = TRUE,
                                         !.since = job.epoch, !.stage = AfterGate(asker[a])]
                   ELSE [asker[a] EXCEPT !.ticket = asker[a].job, !.stage = "told"])
    /\ UNCHANGED <<tip, repoRow, scans, mapIndex, mapLeft>>

\* ensureFresh, before the query: no branch is named, so the row's own counts.  It waits for
\* nothing, and what goes wrong in it goes unsaid.
Refresh(a) ==
    /\ OnStage(a, "refresh")
    /\ \/ /\ FreshRow(repoRow, repoRow.default, tip[repoRow.default])
          /\ UNCHANGED <<repoRow, scans, mapLeft>>
       \/ /\ ~FreshRow(repoRow, repoRow.default, tip[repoRow.default])
          /\ Len(scans) < MaxScans
          /\ EnqueueScan(repoRow.default)
          /\ UNCHANGED mapLeft
       \/ Mishap /\ UNCHANGED <<repoRow, scans>>
    /\ Step(a, [asker[a] EXCEPT !.stage = "query"])
    /\ UNCHANGED <<tip, mapIndex>>

RunQuery(a) ==
    /\ OnStage(a, "query")
    /\ Step(a, [asker[a] EXCEPT !.read = <<mapIndex>>, !.stage = "told"])
    /\ UNCHANGED <<tip, repoRow, scans, mapIndex, mapLeft>>

\* The session has its text; a ticket stays with it.
Tell(a) ==
    /\ OnStage(a, "told")
    /\ Step(a, [NoCall EXCEPT !.ticket = asker[a].ticket])
    /\ UNCHANGED <<tip, repoRow, scans, mapIndex, mapLeft>>

-----------------------------------------------------------------------------
\* The worker and the branches.

Running(k) == scans[k].status = "running"
Idle == \A k \in DOMAIN scans : scans[k].status # "running" \/ scans[k].problem
Rewrites(of, state, marked) ==
    mapIndex' = [of |-> of, state |-> state, marked |-> marked, epoch |-> mapIndex.epoch + 1]

Claim(k) ==
    /\ Idle /\ scans[k].status = "queued"
    /\ \A j \in 1..(k - 1) : scans[j].status # "queued"
    /\ scans' = [scans EXCEPT ![k].status = "running"]
    /\ UNCHANGED <<tip, repoRow, mapIndex, asker, mapLeft>>

\* The clone is taken and rows are deleted and replaced, the replaced ones marked until they are
\* indexed; or there is no clone.
Rewrite(k) ==
    /\ Running(k) /\ scans[k].epoch = 0 /\ ~scans[k].problem
    /\ \/ /\ scans' = [scans EXCEPT ![k].epoch = mapIndex.epoch + 1]
          /\ \E marked \in BOOLEAN :
                Rewrites(<<scans[k].ref, tip[scans[k].ref]>>, "torn", marked)
       \/ /\ scans' = [scans EXCEPT ![k].status = "failed"]
          /\ UNCHANGED mapIndex
    /\ UNCHANGED <<tip, repoRow, asker, mapLeft>>

\* The scan ends, with or without files it left and with its problems in the row; or it fails
\* part of the way, and the branch and the commit of the last good scan stay on record.
FinishScan(k) ==
    /\ Running(k) /\ scans[k].epoch > 0 /\ ~scans[k].problem
    /\ \/ \E left \in BOOLEAN : \E problem \in {left, TRUE} :
            /\ scans' = [scans EXCEPT ![k].status = "done", ![k].problem = problem,
                                      ![k].epoch = mapIndex.epoch + 1]
            /\ Rewrites(mapIndex.of, IF left THEN "partial" ELSE "whole", left)
            /\ repoRow' = [repoRow EXCEPT !.last = mapIndex.of]
       \/ /\ scans' = [scans EXCEPT ![k].status = "failed"]
          /\ UNCHANGED <<mapIndex, repoRow>>
    /\ UNCHANGED <<tip, asker, mapLeft>>

\* The worker dies with the job: the row says running for ever, and the next job is taken up.
LoseJob(k) ==
    /\ Running(k) /\ ~scans[k].problem /\ Mishap
    /\ scans' = [scans EXCEPT ![k].problem = TRUE]
    /\ UNCHANGED <<tip, repoRow, mapIndex, asker>>

PushBranch(b) ==
    /\ mapLeft.push > 0 /\ mapLeft' = [mapLeft EXCEPT !.push = @ - 1]
    /\ tip' = [tip EXCEPT ![b] = @ + 1]
    /\ UNCHANGED <<repoRow, scans, mapIndex, asker>>

\* A session of another process has a branch scanned.
OtherRequest(b) ==
    /\ Len(scans) < MaxScans
    /\ EnqueueScan(b)
    /\ UNCHANGED <<tip, mapIndex, asker, mapLeft>>

CallMap(a) ==
    Ask(a) \/ ReadRow(a) \/ ReadHead(a) \/ CountUnindexed(a) \/ Gate(a) \/ StartScan(a) \/ Poll(a)
    \/ Refresh(a) \/ RunQuery(a) \/ Tell(a)
Works(k) == Claim(k) \/ Rewrite(k) \/ FinishScan(k) \/ LoseJob(k)

MapNext ==
    \/ \E a \in Askers : CallMap(a)
    \/ \E k \in DOMAIN scans : Works(k)
    \/ \E b \in Branches : PushBranch(b) \/ OtherRequest(b)

-----------------------------------------------------------------------------
CallStages == {"rest", "row", "head", "count", "gate", "scan", "poll", "refresh", "query", "told"}

MapTypeOK ==
    /\ tip \in [Branches -> 1..(1 + MaxPushes)]
    /\ repoRow.known \in BOOLEAN /\ repoRow.default \in Branches
    /\ Len(scans) <= MaxScans
    /\ mapIndex.state \in {"empty", "torn", "partial", "whole"}
    /\ \A a \in Askers : asker[a].stage \in CallStages /\ asker[a].job \in 0..Len(scans)

(***************************************************************************)
(* An answer that comes without a warning, read from what a finished scan  *)
(* left, has every file of a commit of the branch the call named, no older *)
(* than the head the call saw, unless the index was rewritten after the    *)
(* scan or the check the answer rests on, or the files were never counted  *)
(* (getUnindexedFileCount fails soft).  A done scan may have left files    *)
(* out, a ticket may be for another's job, and default_ref follows the     *)
(* last request.  After a scan that died no such promise holds: its branch *)
(* is in the index and another's commit on record.                         *)
(***************************************************************************)
SilentAnswerIsWhole ==
    \A a \in Askers :
        LET call == asker[a]
        IN  call.read # << >> /\ ~call.warned /\ call.counted /\ call.read[1].epoch = call.since
            /\ call.read[1].state \in {"partial", "whole"}
                => /\ call.read[1].state = "whole"
                   /\ call.read[1].of[1] = call.ref
                   /\ call.read[1].of[2] >= call.seen

=============================================================================
