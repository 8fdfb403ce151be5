----------------------------- MODULE AgentChain -----------------------------
(***************************************************************************)
(* One asynchronous delegate_agent run: the checkpoint in Redis, the       *)
(* QStash messages that drive it, the worker invocations that take one     *)
(* step each, QStash's failure callback, and callers that poll the run id  *)
(* and may push the run forward themselves.  Every Redis or QStash call of *)
(* a handler is a step of its own, so invocations interleave between them. *)
(* One invocation's loop over model turns and tool calls is AgentLoop; here *)
(* a turn is one step with its possible outcomes.                          *)
(***************************************************************************)
EXTENDS Integers

CONSTANTS
    Invocations,        \* server processes available to this run
    MessageIds,         \* QStash message ids
    StartLimits,        \* max_steps a caller starts the run with
    PollLimits,         \* max_steps of later calls; 0: the argument is left out
    OneCaller,          \* later calls are made one after the other
    HardMaxSteps,       \* HARD_MAX_STEPS
    DefaultMaxSteps,    \* max_steps when a caller leaves it out
    MaxFailures,        \* AGENT_WORKER_MAX_CONSECUTIVE_FAILURES
    StepRetries,        \* QSTASH_STEP_RETRIES
    FreshTicks,         \* AGENT_ASYNC_POLL_FRESH_SECONDS, in clock ticks
    DeadTicks,          \* AGENT_ASYNC_STEP_DEAD_SECONDS, in clock ticks
    MaxLife,            \* maxDuration of a process, in clock ticks
    Budget              \* how many times each hazard may strike

Hazards == {"duplicate", "disconnect", "lostack", "kill", "load", "save",
            "outage", "publish", "expire"}

ASSUME LimitAssumption ==
    /\ HardMaxSteps \in Nat \ {0}
    /\ DefaultMaxSteps \in 1 .. HardMaxSteps
    /\ StartLimits \subseteq Nat \ {0}
    /\ PollLimits \subseteq Nat
    /\ OneCaller \in BOOLEAN
ASSUME RetryAssumption == MaxFailures \in Nat \ {0} /\ StepRetries \in Nat
ASSUME ClockAssumption ==
    /\ FreshTicks \in Nat \ {0}
    /\ DeadTicks \in Nat /\ DeadTicks >= FreshTicks
    /\ MaxLife \in Nat
ASSUME BudgetAssumption == Budget \in [Hazards -> Nat]

VARIABLES
    cp,         \* the checkpoint's meta record in Redis
    idle,       \* ticks since its last write (lastStepAt)
    start,      \* the call that starts the run
    queue,      \* messages QStash has accepted and not yet delivered
    pc,         \* where each invocation is in its handler
    call,       \* the request each invocation serves
    snap,       \* the checkpoint each invocation read last
    turn,       \* the loop bounds of runInvestigation; step holds result.steps
    age,        \* ticks each invocation has lived
    attempts,   \* history: worker turns since the recorded step last moved
    spent       \* how many times each hazard has struck

vars == <<cp, idle, start, queue, pc, call, snap, turn, age, attempts, spent>>

-----------------------------------------------------------------------------
Checkpoint == [status: {"none", "running", "done", "failed"}, steps: Nat,
               overall: Nat,        \* overallMaxSteps; 0: not recorded
               started: BOOLEAN]    \* stepStartedAt is set
NoCheckpoint == [status |-> "none", steps |-> 0, overall |-> 0, started |-> FALSE]

Message == [id: MessageIds, kind: {"step", "failure"},
            after: Nat, retry: Nat, retried: Nat]

\* A call's limit is the caller's max_steps; held: QStash awaits the response.
Call == [role: {"worker"}, msg: Message, held: BOOLEAN]
            \cup [role: {"poll"}, limit: Nat]
            \cup [role: {"none"}]
NoCall == [role |-> "none"]
Turn == [step: Nat, overall: Nat, capped: Nat]
NoTurn == [step |-> 0, overall |-> 0, capped |-> 0]

Label == {"idle", "earlyload", "earlysave", "load", "heartbeat", "resume",
          "turn", "hardcap", "reload", "giveup", "publish", "respond",
          "cbload", "cbsave"}

Smaller(a, b) == IF a < b THEN a ELSE b
Larger(a, b) == IF a < b THEN b ELSE a

Strike(h) == spent[h] < Budget[h] /\ spent' = [spent EXCEPT ![h] = @ + 1]

Active(i) == pc[i] # "idle"
Holds(i) == call[i].role = "worker" /\ call[i].held
Free(id) == /\ \A m \in queue : m.id # id
            /\ \A i \in Invocations : Holds(i) => call[i].msg.id # id

\* effectiveRetryCount: the counter in the body or the Upstash-Retried header.
EffectiveRetry(m) == Larger(m.retry, m.retried)

-----------------------------------------------------------------------------
(* Redis: a read that fails is reported as "no checkpoint", a write that     *)
(* fails is dropped in silence.  During an outage reads are still served.    *)

Load(v) == \/ v = cp /\ UNCHANGED spent
           \/ v = NoCheckpoint /\ cp # NoCheckpoint /\ Strike("load")

Save(c) ==
    \/ /\ spent["outage"] = 0
       /\ cp' = c /\ idle' = 0
       /\ attempts' = IF c.steps = cp.steps THEN attempts ELSE 0
       /\ UNCHANGED spent
    \/ /\ spent["outage"] > 0
       /\ UNCHANGED <<cp, idle, attempts, spent>>
    \/ /\ spent["outage"] = 0
       /\ Strike("save")
       /\ UNCHANGED <<cp, idle, attempts>>

RunningAt(steps, overall) ==
    [status |-> "running", steps |-> steps, overall |-> overall, started |-> FALSE]
DoneAt(steps, overall) == [RunningAt(steps, overall) EXCEPT !.status = "done"]

\* The three dead-letter writes list their fields and leave overallMaxSteps out.
FailedAtStillRunning(steps) == RunningAt(steps, 0)
FailedAt(steps) == [RunningAt(steps, 0) EXCEPT !.status = "failed"]

-----------------------------------------------------------------------------
(* An invocation.                                                            *)

Goto(i, label) == pc' = [pc EXCEPT ![i] = label]

Begin(i, c, label) ==
    /\ ~Active(i)
    /\ call' = [call EXCEPT ![i] = c]
    /\ Goto(i, label)

Return(i) ==
    /\ Goto(i, "idle")
    /\ call' = [call EXCEPT ![i] = NoCall]
    /\ snap' = [snap EXCEPT ![i] = NoCheckpoint]
    /\ turn' = [turn EXCEPT ![i] = NoTurn]
    /\ age' = [age EXCEPT ![i] = 0]

NewStep(id, after, retry) ==
    [id |-> id, kind |-> "step", after |-> after, retry |-> retry, retried |-> 0]

Publish(after, retry) ==
    \E id \in MessageIds :
        Free(id) /\ queue' = queue \cup {NewStep(id, after, retry)}

-----------------------------------------------------------------------------
(* Starting a run: seedRun, then publishAgentStep.  If the publish fails the *)
(* caller is not told the run's id.                                          *)

SeedRun(m) ==
    /\ start = "new"
    /\ start' = "publish"
    /\ Save(RunningAt(0, Smaller(m, HardMaxSteps)))
    /\ UNCHANGED <<queue, pc, call, snap, turn, age>>

PublishStart ==
    /\ start = "publish"
    /\ \/ Publish(0, 0) /\ start' = "done" /\ UNCHANGED spent
       \/ Strike("publish") /\ start' = "refused" /\ UNCHANGED queue
    /\ UNCHANGED <<cp, idle, pc, call, snap, turn, age, attempts>>

-----------------------------------------------------------------------------
(* QStash delivers a message; delivering it twice is a hazard.               *)

FirstLabel(m) ==
    IF m.kind = "failure" THEN "cbload"
    ELSE IF EffectiveRetry(m) >= MaxFailures THEN "earlyload" ELSE "load"

Deliver(i, m) ==
    /\ m \in queue
    /\ \/ queue' = queue \ {m} /\ UNCHANGED spent
       \/ Strike("duplicate") /\ UNCHANGED queue
    /\ Begin(i, [role |-> "worker", msg |-> m, held |-> TRUE], FirstLabel(m))
    /\ UNCHANGED <<cp, idle, start, snap, turn, age, attempts>>

\* What QStash does with a delivery that got no response: try again, or call
\* the failure callback once the retries are used up.
Undelivered(m) ==
    IF m.kind = "failure" THEN m
    ELSE IF m.retried < StepRetries THEN [m EXCEPT !.retried = @ + 1]
    ELSE [m EXCEPT !.kind = "failure"]

Requeue(i) == queue' = IF Holds(i) THEN queue \cup {Undelivered(call[i].msg)}
                       ELSE queue

-----------------------------------------------------------------------------
(* handleAgentWorker.                                                        *)

At(i, label) == pc[i] = label

DescribesNext(c, m) == c.status = "running" /\ c.steps = m.after + 1
Describes(c, m) == c.status = "running" /\ c.steps = m.after

EarlyLoad(i) ==
    /\ At(i, "earlyload")
    /\ \E v \in {cp, NoCheckpoint} :
         /\ Load(v)
         /\ snap' = [snap EXCEPT ![i] = v]
         /\ Goto(i, IF Describes(v, call[i].msg) THEN "earlysave" ELSE "load")
    /\ UNCHANGED <<cp, idle, start, queue, call, turn, age, attempts>>

EarlySave(i) ==
    /\ At(i, "earlysave")
    /\ Save(FailedAt(snap[i].steps))
    /\ Return(i)
    /\ UNCHANGED <<start, queue>>

WorkerLoad(i) ==
    /\ At(i, "load")
    /\ \E v \in {cp, NoCheckpoint} :
         /\ Load(v)
         /\ IF Describes(v, call[i].msg)
              THEN /\ snap' = [snap EXCEPT ![i] = v]
                   /\ Goto(i, "heartbeat")
                   /\ UNCHANGED <<call, turn, age>>
              ELSE Return(i)
    /\ UNCHANGED <<cp, idle, start, queue, attempts>>

HeartbeatThenPublish(i) ==
    /\ At(i, "heartbeat")
    /\ Save([snap[i] EXCEPT !.started = TRUE])
    /\ queue' = queue \cup {NewStep(call[i].msg.id, snap[i].steps, 0)}
    /\ Goto(i, "resume")
    /\ UNCHANGED <<start, call, snap, turn, age>>

\* The heartbeat writes back what was read, not what Redis holds now.
Heartbeat(i) ==
    /\ At(i, "heartbeat")
    /\ Save([snap[i] EXCEPT !.started = TRUE])
    /\ Goto(i, "resume")
    /\ UNCHANGED <<start, queue, call, snap, turn, age>>

-----------------------------------------------------------------------------
(* runInvestigation, called by a worker for a single step and by a caller    *)
(* for up to max_steps.                                                      *)

Single(i) == call[i].role = "worker"

MaxSteps(limit) == Smaller(IF limit = 0 THEN DefaultMaxSteps ELSE limit, HardMaxSteps)

BoundsBehind(i, v) ==
    IF Single(i)
      THEN [step |-> v.steps, capped |-> v.steps,
            overall |-> IF v.overall = 0 THEN DefaultMaxSteps ELSE v.overall]
      ELSE LET m == MaxSteps(call[i].limit)
           IN  [step |-> v.steps, capped |-> m, overall |-> m]

\* cappedSteps and effectiveOverallMaxSteps, by way of the checkpoint v.
Bounds(i, v) ==
    IF Single(i)
      THEN [step |-> v.steps + 1, capped |-> v.steps + 1,
            overall |-> IF v.overall = 0 THEN DefaultMaxSteps ELSE v.overall]
      ELSE LET m == MaxSteps(call[i].limit)
           IN  [step |-> v.steps + 1, capped |-> m, overall |-> m]

\* Back to the worker with result.steps, or out of the tool call.
Result(i, steps) ==
    IF Single(i)
      THEN /\ turn' = [turn EXCEPT ![i] = [NoTurn EXCEPT !.step = steps]]
           /\ Goto(i, "reload")
           /\ UNCHANGED <<call, snap, age>>
      ELSE Return(i)

Resume(i) ==
    /\ At(i, "resume")
    /\ \E v \in {cp, NoCheckpoint} :
         /\ Load(v)
         /\ LET b == Bounds(i, v)
            IN  \/ /\ v.status \in {"running", "failed"}
                   /\ b.step <= b.capped
                   /\ turn' = [turn EXCEPT ![i] = b]
                   /\ Goto(i, "turn")
                   /\ attempts' = IF Single(i)
                                    THEN Smaller(attempts + 1, MaxFailures + 1)
                                    ELSE attempts
                   /\ UNCHANGED <<call, snap, age>>
                \/ /\ v.status \in {"running", "failed"}
                   /\ b.step > b.capped
                   /\ Result(i, v.steps)
                   /\ UNCHANGED attempts
                \/ /\ v.status = "done"
                   /\ Result(i, v.steps)
                   /\ UNCHANGED attempts
                \/ /\ v.status = "none"      \* throws: nothing to resume
                   /\ Result(i, snap[i].steps)
                   /\ UNCHANGED attempts
    /\ UNCHANGED <<cp, idle, start, queue>>

IsFinalStep(t) == t.step = t.overall

\* The provider call, or the handling of its tool calls, failed.
TurnFails(i) ==
    /\ At(i, "turn")
    /\ LET t == turn[i] IN
         /\ Save(RunningAt(t.step - 1, t.overall))
         /\ Result(i, t.step - 1)
    /\ UNCHANGED <<start, queue>>

\* The step made tool calls, or its draft answer is sent back for checking.
TurnAdvances(i) ==
    /\ At(i, "turn")
    /\ LET t == turn[i] IN
         /\ ~IsFinalStep(t)                     \* no tools are offered
         /\ Save(RunningAt(t.step, t.overall))
         /\ \/ /\ t.step < t.capped
               /\ turn' = [turn EXCEPT ![i].step = @ + 1]
               /\ UNCHANGED <<pc, call, snap, age>>
            \/ /\ t.step >= t.capped
               /\ t.capped < HardMaxSteps
               /\ Result(i, t.capped)
            \/ /\ t.step >= t.capped
               /\ t.capped >= HardMaxSteps
               /\ Goto(i, "hardcap")
               /\ UNCHANGED <<call, snap, turn, age>>
    /\ UNCHANGED <<start, queue>>

\* finishRun, for an answer and for an empty or unusable one alike.
TurnFinishes(i) ==
    /\ At(i, "turn")
    /\ Save(DoneAt(turn[i].step, turn[i].overall))
    /\ Result(i, turn[i].step)
    /\ UNCHANGED <<start, queue>>

HardCap(i) ==
    /\ At(i, "hardcap")
    /\ Save(DoneAt(turn[i].capped, turn[i].overall))
    /\ Result(i, turn[i].capped)
    /\ UNCHANGED <<start, queue>>

-----------------------------------------------------------------------------
(* handleAgentWorker, once runInvestigation is back.                         *)

\* advanced: what this process saw happen, whatever Redis recorded.
Advanced(i) == turn[i].step > call[i].msg.after
NewRetryForgotten(i) == 0
NewRetry(i) == IF Advanced(i) THEN 0 ELSE EffectiveRetry(call[i].msg) + 1

Exhausted(i) == ~Advanced(i) /\ NewRetry(i) >= MaxFailures

Reload(i) ==
    /\ At(i, "reload")
    /\ \E v \in {cp, NoCheckpoint} :
         /\ Load(v)
         /\ IF v.status # "running"
              THEN Return(i)
              ELSE /\ snap' = [snap EXCEPT ![i] = v]
                   /\ Goto(i, IF Exhausted(i) THEN "giveup" ELSE "publish")
                   /\ UNCHANGED <<call, turn, age>>
    /\ UNCHANGED <<cp, idle, start, queue, attempts>>

GiveUp(i) ==
    /\ At(i, "giveup")
    /\ Save(FailedAt(snap[i].steps))
    /\ Return(i)
    /\ UNCHANGED <<start, queue>>

\* The next message names the step on record, not the one just taken.
NextAfter(i) == snap[i].steps

\* A failed publish is logged and answered like any other outcome.
Rechain(i) ==
    /\ At(i, "publish")
    /\ \/ /\ Publish(NextAfter(i), NewRetry(i))
          /\ Goto(i, "respond")
          /\ UNCHANGED <<call, snap, turn, age, spent>>
       \/ /\ Strike("publish")
          /\ Return(i)
          /\ UNCHANGED queue
    /\ UNCHANGED <<cp, idle, start, attempts>>

\* The 200 for the handled message; QStash may never see it.
Respond(i) ==
    /\ At(i, "respond")
    /\ \/ UNCHANGED <<queue, spent>>
       \/ Holds(i) /\ Strike("lostack") /\ Requeue(i)
    /\ Return(i)
    /\ UNCHANGED <<cp, idle, start, attempts>>

-----------------------------------------------------------------------------
(* handleAgentWorkerFailure.                                                 *)

CallbackLoad(i) ==
    /\ At(i, "cbload")
    /\ \E v \in {cp, NoCheckpoint} :
         /\ Load(v)
         /\ IF Describes(v, call[i].msg)
              THEN /\ snap' = [snap EXCEPT ![i] = v]
                   /\ Goto(i, "cbsave")
                   /\ UNCHANGED <<call, turn, age>>
              ELSE Return(i)
    /\ UNCHANGED <<cp, idle, start, queue, attempts>>

CallbackSave(i) ==
    /\ At(i, "cbsave")
    /\ Save(FailedAt(snap[i].steps))
    /\ Return(i)
    /\ UNCHANGED <<start, queue>>

-----------------------------------------------------------------------------
(* delegate_agent called with resume_run_id.  The calls that only report     *)
(* change nothing and are not steps; what is left runs runInvestigation.     *)

StaleBetweenSteps(c) == idle >= FreshTicks
Stale(c) == IF c.started THEN idle > DeadTicks ELSE idle >= FreshTicks

PushesSettled(c, limit) == c.status \in {"none", "done"}
Pushes(c, limit) ==
    \/ c.status \in {"none", "done"}
    \/ c.status = "running" /\ Stale(c) /\ limit # 0

Poll(i, limit) ==
    /\ start = "done"
    /\ OneCaller => \A j \in Invocations : call[j].role # "poll"
    /\ \E v \in {cp, NoCheckpoint} : Load(v) /\ Pushes(v, limit)
    /\ Begin(i, [role |-> "poll", limit |-> limit], "resume")
    /\ UNCHANGED <<cp, idle, start, queue, snap, turn, age, attempts>>

-----------------------------------------------------------------------------
(* The platform, the network and the clock.                                  *)

\* The process dies: out of time, or with its server.
Kill(i) ==
    /\ Active(i) /\ pc[i] # "respond"
    /\ Strike("kill")
    /\ Requeue(i)
    /\ Return(i)
    /\ UNCHANGED <<cp, idle, start, attempts>>

\* QStash stops waiting for the response; the process does not notice.
Disconnect(i) ==
    /\ Active(i) /\ Holds(i)
    /\ Strike("disconnect")
    /\ Requeue(i)
    /\ call' = [call EXCEPT ![i].held = FALSE]
    /\ UNCHANGED <<cp, idle, start, pc, snap, turn, age, attempts>>

StoreOutage ==
    /\ spent["outage"] = 0 /\ Strike("outage")
    /\ UNCHANGED <<cp, idle, start, queue, pc, call, snap, turn, age, attempts>>

\* The hour of CHECKPOINT_TTL_SECONDS is longer than any tick bound here.
Expire ==
    /\ cp # NoCheckpoint
    /\ idle > DeadTicks
    /\ Strike("expire")
    /\ cp' = NoCheckpoint /\ idle' = 0 /\ attempts' = 0
    /\ UNCHANGED <<start, queue, pc, call, snap, turn, age>>

\* A process past maxDuration is killed before the clock moves on.
Tick ==
    /\ \A i \in Invocations : Active(i) => age[i] < MaxLife
    /\ idle' = Smaller(idle + 1, DeadTicks + 1)
    /\ age' = [i \in Invocations |-> IF Active(i) THEN age[i] + 1 ELSE 0]
    /\ UNCHANGED <<cp, start, queue, pc, call, snap, turn, attempts, spent>>

-----------------------------------------------------------------------------
Init ==
    /\ cp = NoCheckpoint
    /\ idle = 0
    /\ start = "new"
    /\ queue = {}
    /\ pc = [i \in Invocations |-> "idle"]
    /\ call = [i \in Invocations |-> NoCall]
    /\ snap = [i \in Invocations |-> NoCheckpoint]
    /\ turn = [i \in Invocations |-> NoTurn]
    /\ age = [i \in Invocations |-> 0]
    /\ attempts = 0
    /\ spent = [h \in Hazards |-> 0]

Worker(i) ==
    \/ EarlyLoad(i) \/ EarlySave(i)
    \/ WorkerLoad(i) \/ Heartbeat(i)
    \/ Reload(i) \/ GiveUp(i) \/ Rechain(i) \/ Respond(i)

Callback(i) == CallbackLoad(i) \/ CallbackSave(i)

Answers(i) == TurnAdvances(i) \/ TurnFinishes(i)

Investigation(i) == Resume(i) \/ TurnFails(i) \/ Answers(i) \/ HardCap(i)

Handler(i) == Worker(i) \/ Callback(i) \/ Investigation(i)

StartCall == PublishStart \/ \E m \in StartLimits : SeedRun(m)

Delivery == \E i \in Invocations : \E m \in queue : Deliver(i, m)

PollCall == \E i \in Invocations : \E l \in PollLimits : Poll(i, l)

Platform ==
    \/ \E i \in Invocations : Kill(i) \/ Disconnect(i)
    \/ StoreOutage \/ Expire \/ Tick

Next ==
    \/ StartCall \/ Delivery \/ PollCall
    \/ \E i \in Invocations : Handler(i)
    \/ Platform

Spec == Init /\ [][Next]_vars

\* A started process runs on, QStash delivers what it accepted, and time
\* passes.  Nothing is promised about the hazards or about callers.
Progress ==
    /\ WF_vars(StartCall)
    /\ WF_vars(Delivery)
    /\ WF_vars(Tick)
    /\ \A i \in Invocations : WF_vars(Handler(i))

FairSpec == Spec /\ Progress

\* Callers keep pushing a run that looks stalled.
PushedSpec == FairSpec /\ WF_vars(PollCall)

-----------------------------------------------------------------------------
TypeOK ==
    /\ cp \in Checkpoint
    /\ idle \in 0 .. DeadTicks + 1
    /\ start \in {"new", "publish", "done", "refused"}
    /\ queue \subseteq Message
    /\ pc \in [Invocations -> Label]
    /\ call \in [Invocations -> Call]
    /\ snap \in [Invocations -> Checkpoint]
    /\ turn \in [Invocations -> Turn]
    /\ age \in [Invocations -> Nat]
    /\ attempts \in 0 .. MaxFailures + 1
    /\ spent \in [Hazards -> Nat]

\* No message enters the queue with an exhausted failure counter: a step that
\* has failed MaxFailures times is given up, never published again, however
\* deliveries, faults and polls interleave.
RetryBounded ==
    \A m \in queue : m.retry < MaxFailures /\ m.retried <= StepRetries

\* Two processes never hold a provider turn of the same run at the same time
\* (the afterStep guard, and the poller's freshness test).
OneTurnAtATime ==
    \A i, j \in Invocations : At(i, "turn") /\ At(j, "turn") => i = j

\* A running record always has the answering step still ahead of it: were it
\* passed, step === effectiveOverallMaxSteps would never hold again.
RunningHasBudget ==
    cp.status = "running" =>
        cp.steps < IF cp.overall = 0 THEN DefaultMaxSteps ELSE cp.overall

\* A started run that is on record as running has something that will move it:
\* a message with QStash or a process at work.
Driven ==
    start = "done" /\ cp.status = "running" =>
        queue # {} \/ \E i \in Invocations : Active(i)

\* The chain of a running record goes on: a step is left, and something drives it.
ChainMoves == Driven /\ RunningHasBudget

\* Workers execute the same step at most MaxFailures times.
AttemptsBounded == attempts <= MaxFailures

\* Neither the counters nor what they count pass the limit.
RetriesBounded == RetryBounded /\ AttemptsBounded

\* While the record shows a step in flight, no push starts beside the worker
\* that is taking it.
PollSparesWorker ==
    [][\A i, j \in Invocations :
         cp.started /\ At(j, "turn") /\ Single(j) /\ ~Active(i)
            => call'[i].role # "poll"]_vars

\* The run is, for its caller, the run RunLifecycle describes.
Lifecycle == INSTANCE RunLifecycle WITH status <- cp.status, steps <- cp.steps
RefinesLifecycle == Lifecycle!RunSpec

\* A started run reaches an outcome and keeps it.
Settles == <>[](cp.status \in {"done", "failed"})

\* Wherever the chain of a run that was reported as started broke, once the
\* provider stops failing the pushes bring it to an outcome it keeps.
PushesRecover ==
    <>[][\A i \in Invocations : ~TurnFails(i)]_vars
        => Settles \/ <>(start = "refused")
=============================================================================
