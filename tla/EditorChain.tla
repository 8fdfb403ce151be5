----------------------------- MODULE EditorChain -----------------------------
(***************************************************************************)
(* One delegate_editor run: the whole-blob checkpoint in Redis, the QStash *)
(* chain of worker invocations, pushes of a stalled run by its caller, and  *)
(* the commits its write_file calls make on the branch.  The calls of one  *)
(* model turn run at the same time (Promise.all).  Branch versions stand    *)
(* for blob shas, 0 for a file that does not exist; file contents, the      *)
(* read_file and validate calls and the wording of prompts are left out.   *)
(***************************************************************************)
EXTENDS Integers, Sequences, SequencesExt, FiniteSets

CONSTANTS
    Invocations,        \* server processes available to this run
    Files,              \* paths the policy lets the run write
    BatchSize,          \* write_file calls a model puts in one turn
    MaxFilesPerRun,     \* EDITOR_MAX_FILES_PER_RUN
    MaxWritesPerFile,   \* EDITOR_MAX_WRITES_PER_FILE
    StartLimit,         \* max_steps the run is started with
    PushLimits,         \* max_steps of the later calls, 0 when it is left out
    EDITOR_DEFAULT_STEPS,
    EDITOR_HARD_MAX_STEPS,
    MaxFailures,        \* EDITOR_WORKER_MAX_CONSECUTIVE_FAILURES
    StepRetries,        \* QSTASH_STEP_RETRIES
    EDITOR_STUCK_STEPS, \* all-repeat steps after which tools are withheld (3)
    Budget,             \* how many times each hazard may strike
    Kinds               \* how many different hazards strike in one run

Hazards == {"kill", "load", "save", "publish", "lostput", "other"}

ASSUME EditorAssumption ==
    /\ {BatchSize, MaxFilesPerRun, MaxWritesPerFile, StartLimit, EDITOR_DEFAULT_STEPS,
        EDITOR_HARD_MAX_STEPS, MaxFailures, EDITOR_STUCK_STEPS} \subseteq Nat \ {0}
    /\ PushLimits \subseteq Nat
    /\ StepRetries \in Nat
    /\ Budget \in [Hazards -> Nat] /\ Kinds \in Nat
    /\ IsFiniteSet(Files)

VARIABLES
    record,     \* the checkpoint blob in Redis
    start,      \* the call that starts the run
    queue,      \* messages QStash has accepted and not yet delivered
    pc,         \* where each invocation is in its handler
    job,        \* the request each invocation serves
    mem,        \* the blob each invocation holds in memory
    at,         \* its step and its loop bound
    editorCalls,    \* its write_file calls in flight
    branch,     \* version of each file on the branch
    committed,  \* history: files the run has committed
    unseen,     \* history: commits that a death, a dropped save or a lost answer hid
    attempts,   \* history: worker turns since the recorded step last moved
    spent       \* how many times each hazard has struck

chain == <<record, start, queue, attempts>>
proc == <<pc, job, mem, at>>
repo == <<branch, committed>>
editorVars == <<record, start, queue, pc, job, mem, at, editorCalls, branch, committed,
          unseen, attempts, spent>>

-----------------------------------------------------------------------------
Blob == [status: {"none", "running", "done", "failed"}, steps: Nat,
         overall: Nat,                  \* overallMaxSteps
         started: BOOLEAN,              \* stepStartedAt is set
         written: Seq(Files),           \* writtenFiles
         writes: [Files -> Nat],        \* writesPerFile
         repeats: Nat,                  \* consecutiveAllRepeatSteps
         pending: BOOLEAN,              \* pendingVerification
         answer: {"none", "honest", "claim", "flagged"}]
NoBlob == [status |-> "none", steps |-> 0, overall |-> 0, started |-> FALSE,
           written |-> <<>>, writes |-> [f \in Files |-> 0], repeats |-> 0,
           pending |-> FALSE, answer |-> "none"]

Message == [kind: {"step", "failure"}, after: Nat, retry: Nat, retried: Nat]
\* seen: the status a call's own read of the checkpoint found.
Job == [role: {"worker"}, msg: Message]
          \cup [role: {"push"}, limit: Nat, seen: {"none", "running", "done"}]
          \cup [role: {"none"}]
NoJob == [role |-> "none"]

NoBase == -1
Nowhere == [step |-> 0, capped |-> 0]
\* prior and touched are read before the first await of write_file.
WriteCall == [n: 1 .. BatchSize, file: Files, base: {NoBase} \cup Nat,
              prior: Nat, touched: BOOLEAN, sha: {NoBase} \cup Nat]

Least(a, b) == IF a < b THEN a ELSE b

Strike(h) ==
    /\ spent[h] < Budget[h]
    /\ Cardinality({k \in Hazards : spent[k] > 0} \cup {h}) <= Kinds
    /\ spent' = [spent EXCEPT ![h] = @ + 1]

Active(i) == pc[i] # "idle"
At(i, label) == pc[i] = label
Goto(i, label) == pc' = [pc EXCEPT ![i] = label]
Single(i) == job[i].role = "worker"

-----------------------------------------------------------------------------
(* editor_checkpoint.js: a failed read is "no checkpoint", a failed write is *)
(* dropped; a write replaces the whole blob.                                 *)

Load(v) == \/ v = record /\ UNCHANGED spent
           \/ v = NoBlob /\ record # NoBlob /\ Strike("load")

Listed(b) == ToSet(b.written)

\* The commits that were listed in b alone, when b is lost.
Hide(b) == unseen' = unseen \cup ((Listed(b) \cap committed) \ Listed(record))

SaveRecord(b) ==
    \/ /\ record' = b
       /\ attempts' = IF b.steps = record.steps THEN attempts ELSE 0
       /\ unseen' = unseen \ Listed(b)
       /\ UNCHANGED spent
    \/ Strike("save") /\ Hide(b) /\ UNCHANGED <<record, attempts>>

Running(b, steps) == [b EXCEPT !.status = "running", !.steps = steps, !.started = FALSE]
DeadLettered(b) == [b EXCEPT !.status = "dead-lettered", !.started = FALSE]
FailedFields(b) == [NoBlob EXCEPT !.status = "failed", !.steps = b.steps, !.overall = b.overall]
Failed(b) == [b EXCEPT !.status = "failed", !.started = FALSE]

LeaveStep(i) ==
    /\ Goto(i, "idle")
    /\ job' = [job EXCEPT ![i] = NoJob]
    /\ mem' = [mem EXCEPT ![i] = NoBlob]
    /\ at' = [at EXCEPT ![i] = Nowhere]
    /\ editorCalls' = [editorCalls EXCEPT ![i] = {}]

-----------------------------------------------------------------------------
(* seedEditorRun and publishEditorStep, from delegate_editor without a       *)
(* run id.  If the publish fails the caller is not told the run's id.        *)

StepMessage(after, retry) ==
    [kind |-> "step", after |-> after, retry |-> retry, retried |-> 0]

SeedEditorRun ==
    /\ start = "new"
    /\ start' = "publish"
    /\ SaveRecord([NoBlob EXCEPT !.status = "running",
                           !.overall = Least(StartLimit, EDITOR_HARD_MAX_STEPS)])
    /\ UNCHANGED <<queue, proc, editorCalls, repo>>

PublishStart ==
    /\ start = "publish"
    /\ \/ start' = "done" /\ queue' = queue \cup {StepMessage(0, 0)}
          /\ UNCHANGED spent
       \/ start' = "refused" /\ Strike("publish") /\ UNCHANGED queue
    /\ UNCHANGED <<record, attempts, proc, editorCalls, repo, unseen>>

-----------------------------------------------------------------------------
(* handleEditorWorker.  Unlike agent_worker.js it does not read the          *)
(* Upstash-Retried header: its failure counter is the one in the body.       *)

Deliver(i, m) ==
    /\ ~Active(i) /\ m \in queue
    /\ queue' = queue \ {m}
    /\ job' = [job EXCEPT ![i] = [role |-> "worker", msg |-> m]]
    /\ Goto(i, IF m.kind = "failure" THEN "cbload" ELSE "load")
    /\ UNCHANGED <<record, start, attempts, mem, at, editorCalls, repo, unseen, spent>>

DescribesAny(b, m) == b.status # "none"
Describes(b, m) == b.status = "running" /\ b.steps = m.after

\* The idempotency guard, before the heartbeat or the callback's dead letter.
GuardedLoad(i, from, to) ==
    /\ At(i, from)
    /\ \E v \in {record, NoBlob} :
         /\ Load(v)
         /\ IF Describes(v, job[i].msg)
              THEN /\ mem' = [mem EXCEPT ![i] = v]
                   /\ Goto(i, to)
                   /\ UNCHANGED <<job, at, editorCalls>>
              ELSE LeaveStep(i)
    /\ UNCHANGED <<chain, repo, unseen>>

WorkerLoad(i) == GuardedLoad(i, "load", "heartbeat")

\* The heartbeat spreads the whole loaded blob.
HeartbeatBlob(b) == [b EXCEPT !.started = TRUE]

Heartbeat(i) ==
    /\ At(i, "heartbeat")
    /\ SaveRecord(HeartbeatBlob(mem[i]))
    /\ Goto(i, "resume")
    /\ UNCHANGED <<start, queue, job, mem, at, editorCalls, repo>>

\* result.steps > afterStep: what this process saw, whatever Redis recorded.
Advanced(i) == at[i].step > job[i].msg.after
NewRetry(i) == IF Advanced(i) THEN 0 ELSE job[i].msg.retry + 1
Exhausted(i) == ~Advanced(i) /\ NewRetry(i) >= MaxFailures

Reload(i) ==
    /\ At(i, "reload")
    /\ \E v \in {record, NoBlob} :
         /\ Load(v)
         /\ IF v.status = "running"
              THEN /\ mem' = [mem EXCEPT ![i] = v]
                   /\ Goto(i, IF Exhausted(i) THEN "giveup" ELSE "publish")
                   /\ UNCHANGED <<job, at, editorCalls>>
              ELSE LeaveStep(i)
    /\ UNCHANGED <<chain, repo, unseen>>

DeadLetter(i, label) ==
    /\ At(i, label)
    /\ SaveRecord(Failed(mem[i]))
    /\ LeaveStep(i)
    /\ UNCHANGED <<start, queue, repo>>

GiveUp(i) == DeadLetter(i, "giveup")

Rechain(i) ==
    /\ At(i, "publish")
    /\ \/ /\ queue' = queue \cup {StepMessage(mem[i].steps, NewRetry(i))}
          /\ UNCHANGED spent
       \/ Strike("publish") /\ UNCHANGED queue
    /\ LeaveStep(i)
    /\ UNCHANGED <<record, start, attempts, repo, unseen>>

\* handleEditorWorkerFailure.
CallbackLoad(i) == GuardedLoad(i, "cbload", "cbsave")
CallbackSave(i) == DeadLetter(i, "cbsave")

-----------------------------------------------------------------------------
(* runEditorAgent.                                                           *)

\* Back to the worker with result.steps, or out of the tool call.
Result(i, steps) ==
    IF Single(i)
      THEN /\ at' = [at EXCEPT ![i] = [Nowhere EXCEPT !.step = steps]]
           /\ mem' = [mem EXCEPT ![i] = NoBlob]
           /\ Goto(i, "reload")
           /\ UNCHANGED <<job, editorCalls>>
      ELSE LeaveStep(i)

Asked(limit) == IF limit = 0 THEN EDITOR_DEFAULT_STEPS ELSE limit
Capped(i, v) == IF Single(i) THEN v.steps + 1
                ELSE Least(Asked(job[i].limit), EDITOR_HARD_MAX_STEPS)
Overall(i, v) == IF Single(i) THEN v.overall ELSE Capped(i, v)

Resume(i) ==
    /\ At(i, "resume")
    /\ \E v \in {record, NoBlob} :
         /\ Load(v)
         /\ \/ /\ v.status \in {"running", "failed"}
               /\ v.steps < Capped(i, v)
               /\ mem' = [mem EXCEPT ![i] = [v EXCEPT !.overall = Overall(i, v)]]
               /\ at' = [at EXCEPT ![i] = [step |-> v.steps + 1,
                                           capped |-> Capped(i, v)]]
               /\ Goto(i, "turn")
               /\ attempts' = IF Single(i) THEN attempts + 1 ELSE attempts
               /\ UNCHANGED <<job, editorCalls>>
            \/ /\ v.status = "done" \/ v.steps >= Capped(i, v)
               /\ v.status # "none"
               /\ Result(i, v.steps)
               /\ UNCHANGED attempts
            \/ /\ v.status = "none"            \* throws: nothing to resume
               /\ Result(i, mem[i].steps)
               /\ UNCHANGED attempts
    /\ UNCHANGED <<record, start, queue, repo, unseen>>

FinalStep(i) == at[i].step = mem[i].overall
Stuck(i) == mem[i].repeats >= EDITOR_STUCK_STEPS
Withhold(i) == FinalStep(i) \/ Stuck(i)

\* The provider failed, answered nothing, or called a function on a turn
\* without tools.
TurnFails(i) ==
    /\ At(i, "turn")
    /\ SaveRecord(Running(mem[i], at[i].step - 1))
    /\ Result(i, at[i].step - 1)
    /\ UNCHANGED <<start, queue, repo>>

\* The step is saved; the loop goes on or has reached its bound.
StepOn(i, b) ==
    /\ SaveRecord(Running(b, at[i].step))
    /\ IF at[i].step < at[i].capped
         THEN /\ mem' = [mem EXCEPT ![i] = b]
              /\ at' = [at EXCEPT ![i].step = @ + 1]
              /\ Goto(i, "turn")
              /\ UNCHANGED <<job, editorCalls>>
         ELSE Result(i, at[i].step)

Verifies(i) == ~Withhold(i) /\ ~mem[i].pending /\ at[i].step < at[i].capped

\* The draft is sent back once, with tools, to be checked against the log.
TurnVerifies(i) ==
    /\ At(i, "turn") /\ Verifies(i)
    /\ StepOn(i, [mem[i] EXCEPT !.pending = TRUE])
    /\ UNCHANGED <<start, queue, repo>>

\* Without a round left, a claim of a run that wrote nothing gets one
\* corrective call; what still claims work is flagged.
Corrects(i, draft) ==
    ~mem[i].pending /\ mem[i].written = <<>> /\ draft = "claim"
Final(i, text) ==
    IF mem[i].written = <<>> /\ text = "claim" THEN "flagged" ELSE text

TurnAnswers(i) ==
    /\ At(i, "turn") /\ ~Verifies(i)
    /\ \E draft, corrected \in {"honest", "claim"} :
         LET text == IF Corrects(i, draft) THEN corrected ELSE draft
             b == [mem[i] EXCEPT !.answer = Final(i, text),
                                 !.pending = @ \/ Corrects(i, draft)]
         IN  /\ Corrects(i, draft) \/ corrected = draft
             /\ SaveRecord([Running(b, at[i].step) EXCEPT !.status = "done"])
    /\ Result(i, at[i].step)
    /\ UNCHANGED <<start, queue, repo>>

\* The turn's calls start together: each write_file reads the caps before it
\* awaits anything, so none sees what the others of its turn will count.
UnderCapsLate(b, f) ==
    /\ f \in Listed(b) \/ Len(b.written) <= MaxFilesPerRun
    /\ b.writes[f] < MaxWritesPerFile
UnderCaps(b, f) ==
    /\ f \in Listed(b) \/ Len(b.written) < MaxFilesPerRun
    /\ b.writes[f] < MaxWritesPerFile

TurnCalls(i) ==
    /\ At(i, "turn") /\ ~Withhold(i)
    /\ \E n \in 0 .. BatchSize : \E file \in [1 .. n -> Files] :
       \E named \in [1 .. n -> BOOLEAN] :       \* base_sha is given
         editorCalls' = [editorCalls EXCEPT ![i] =
              {[n |-> k, file |-> file[k], sha |-> NoBase,
                base |-> IF named[k] THEN branch[file[k]] ELSE NoBase,
                prior |-> mem[i].writes[file[k]],
                touched |-> file[k] \in Listed(mem[i])] :
                  k \in {j \in 1 .. n : UnderCaps(mem[i], file[j])}}]
    /\ Goto(i, "calls")
    /\ UNCHANGED <<chain, job, mem, at, repo, unseen, spent>>

\* The counters a write_file that returned leaves behind.
Count(b, c) == [b EXCEPT !.writes[c.file] = c.prior + 1,
                         !.written = IF c.touched THEN @ ELSE Append(@, c.file)]

Drop(i, c) == editorCalls' = [editorCalls EXCEPT ![i] = @ \ {c}]

\* base_sha, when it is given, is still the file's sha.
BaseHolds(c) == c.base \in {NoBase, branch[c.file]}

\* writeFile up to its PUT: refused by a guardrail, a failed read, a stale
\* base_sha or a replacement that does not apply; nothing to change; or on
\* its way with the sha it read.
WriteReads(i, c) ==
    /\ At(i, "calls") /\ c \in editorCalls[i] /\ c.sha = NoBase
    /\ \/ Drop(i, c) /\ UNCHANGED mem
       \/ /\ BaseHolds(c) /\ branch[c.file] > 0
          /\ Drop(i, c)
          /\ mem' = [mem EXCEPT ![i] = Count(@, c)]
       \/ /\ BaseHolds(c)
          /\ editorCalls' = [editorCalls EXCEPT ![i] = (@ \ {c})
                                  \cup {[c EXCEPT !.sha = branch[c.file]]}]
          /\ UNCHANGED mem
    /\ UNCHANGED <<chain, pc, job, at, repo, unseen, spent>>

\* GitHub takes the PUT if the sha is still the file's; otherwise, 409 or 422.
Accepts(c) == c.sha = branch[c.file]

WritePuts(i, c) ==
    /\ At(i, "calls") /\ c \in editorCalls[i] /\ c.sha # NoBase
    /\ Drop(i, c)
    /\ \/ /\ Accepts(c)
          /\ branch' = [branch EXCEPT ![c.file] = @ + 1]
          /\ committed' = committed \cup {c.file}
          /\ \/ mem' = [mem EXCEPT ![i] = Count(@, c)] /\ UNCHANGED <<unseen, spent>>
             \/ /\ Strike("lostput")           \* fetch throws after the commit
                /\ unseen' = unseen \cup ({c.file} \ Listed(mem[i]))
                /\ UNCHANGED mem
       \/ ~Accepts(c) /\ UNCHANGED <<mem, repo, unseen, spent>>
    /\ UNCHANGED <<chain, pc, job, at>>

\* Promise.all is back.  Whether every call of the turn repeated an earlier
\* one is the model's doing.
TurnEnds(i) ==
    /\ At(i, "calls") /\ editorCalls[i] = {}
    /\ \E repeat \in BOOLEAN :
         StepOn(i, [mem[i] EXCEPT !.repeats = IF repeat THEN @ + 1 ELSE 0])
    /\ UNCHANGED <<start, queue, repo>>

-----------------------------------------------------------------------------
(* delegate_editor with resume_run_id.  It reads the checkpoint itself: a   *)
(* failed run and a fresh one are only reported, and a stalled one is taken *)
(* on with an explicit max_steps.  When that read fails it knows none of    *)
(* this.  Calls that only report change nothing and are not steps.          *)

\* No recent activity: nobody is at a step of the run.
Stalled == \A j \in Invocations : ~Active(j)

Pushes(v, limit) ==
    \/ v.status \in {"none", "done"}
    \/ v.status = "running" /\ Stalled /\ limit # 0

Push(i, limit) ==
    /\ start = "done" /\ ~Active(i)
    /\ \E v \in {record, NoBlob} :
         /\ Load(v)
         /\ Pushes(v, limit)
         /\ job' = [job EXCEPT ![i] = [role |-> "push", limit |-> limit, seen |-> v.status]]
    /\ Goto(i, "resume")
    /\ UNCHANGED <<chain, mem, at, editorCalls, repo, unseen>>

\* The process dies.  QStash tries the message again, then reports it.
Undelivered(m) ==
    IF m.kind = "failure" THEN m
    ELSE IF m.retried < StepRetries THEN [m EXCEPT !.retried = @ + 1]
    ELSE [m EXCEPT !.kind = "failure"]

Kill(i) ==
    /\ Active(i)
    /\ Strike("kill")
    /\ queue' = IF Single(i) THEN queue \cup {Undelivered(job[i].msg)} ELSE queue
    /\ Hide(mem[i])
    /\ LeaveStep(i)
    /\ UNCHANGED <<record, start, attempts, repo>>

\* Someone else commits to the branch.
OtherCommit(f) ==
    /\ Strike("other")
    /\ branch' = [branch EXCEPT ![f] = @ + 1]
    /\ UNCHANGED <<chain, proc, editorCalls, committed, unseen>>

-----------------------------------------------------------------------------
EditorInit ==
    /\ record = NoBlob /\ start = "new" /\ queue = {}
    /\ pc = [i \in Invocations |-> "idle"]
    /\ job = [i \in Invocations |-> NoJob]
    /\ mem = [i \in Invocations |-> NoBlob]
    /\ at = [i \in Invocations |-> Nowhere]
    /\ editorCalls = [i \in Invocations |-> {}]
    /\ branch = [f \in Files |-> 0]
    /\ committed = {} /\ unseen = {} /\ attempts = 0
    /\ spent = [h \in Hazards |-> 0]

Worker(i) ==
    \/ WorkerLoad(i) \/ Heartbeat(i) \/ Reload(i) \/ GiveUp(i) \/ Rechain(i)
    \/ CallbackLoad(i) \/ CallbackSave(i)

Loop(i) ==
    \/ Resume(i) \/ TurnFails(i) \/ TurnVerifies(i) \/ TurnAnswers(i)
    \/ TurnCalls(i) \/ TurnEnds(i)
    \/ \E c \in editorCalls[i] : WriteReads(i, c) \/ WritePuts(i, c)

StartCall == SeedEditorRun \/ PublishStart
Delivery == \E i \in Invocations : \E m \in queue : Deliver(i, m)
PushCall == \E i \in Invocations : \E l \in PushLimits : Push(i, l)

EditorNext ==
    \/ StartCall \/ Delivery \/ PushCall
    \/ \E i \in Invocations : Worker(i) \/ Loop(i) \/ Kill(i)
    \/ \E f \in Files : OtherCommit(f)

EditorSpec == EditorInit /\ [][EditorNext]_editorVars

-----------------------------------------------------------------------------
EditorTypeOK ==
    /\ record \in Blob
    /\ start \in {"new", "publish", "done", "refused"}
    /\ queue \subseteq Message
    /\ pc \in [Invocations -> {"idle", "load", "heartbeat", "resume", "turn",
                 "calls", "reload", "giveup", "publish", "cbload", "cbsave"}]
    /\ job \in [Invocations -> Job]
    /\ mem \in [Invocations -> Blob]
    /\ at \in [Invocations -> [step: Nat, capped: Nat]]
    /\ editorCalls \in [Invocations -> SUBSET WriteCall]
    /\ branch \in [Files -> Nat]
    /\ committed \subseteq Files /\ unseen \subseteq Files
    /\ attempts \in Nat
    /\ spent \in [Hazards -> Nat]

\* The audit trail: every file the run has committed is in writtenFiles, on
\* record or in the memory of the process at work, unless that process died,
\* its save was dropped or GitHub's answer was lost.
CommitsReported ==
    committed \subseteq Listed(record) \cup unseen
                          \cup UNION {Listed(mem[i]) : i \in Invocations}

\* Calls of one turn can pass the per-run cap together, but by no more files
\* than a turn has calls.
OvershootBounded ==
    Cardinality(Listed(record)) <= MaxFilesPerRun + BatchSize - 1

\* Without the Upstash-Retried header a step can be tried once per delivery
\* and failure; a dropped save makes the worker count it afresh.
AttemptsBounded ==
    attempts <= MaxFailures * (StepRetries + 1) * (1 + spent["save"])

\* Each cap gives way by a bounded number: files by the calls of a turn, tries by the deliveries
\* that died unseen and the saves that were dropped.
EditorBounded == OvershootBounded /\ AttemptsBounded

\* A final answer that claims completed work is flagged when the run's write
\* log is empty.
NoUnbackedClaim == record.answer = "claim" => record.written # <<>>

\* What an editor run says of its writes is true of the branch: it names every commit, and
\* claims none without one.
EditorReportTrue == CommitsReported /\ NoUnbackedClaim

\* write_file with a base_sha replaces exactly the version it names, whoever
\* else commits in the meantime.
BaseShaHonoured ==
    [][\A i \in Invocations : \A c \in editorCalls[i] :
         /\ c.base # NoBase
         /\ c \notin editorCalls'[i]
         /\ branch'[c.file] # branch[c.file]
         => branch[c.file] = c.base]_editorVars

\* While one process at a time works on the run the record only moves forward: no recorded step
\* is taken back, a finished run is never touched, and a dead-lettered one only by a call whose
\* own read of the record failed.  That call does revive it, which editor_tools.js:69 and
\* 135-138 rule out; processes that overlap are AgentChain's subject.
Revived == \E i \in Invocations : job[i].role = "push" /\ job[i].seen = "none"
RecordMovesForward ==
    [][/\ record'.steps >= record.steps
       /\ record.status = "done" => record' = record
       /\ record.status = "failed" => record' = record \/ Revived]_editorVars

\* Neither the record nor the branch is set back by whoever comes late.
EditorStepsSound == RecordMovesForward /\ BaseShaHonoured
=============================================================================
