----------------------------- MODULE AgentLoop ------------------------------
(***************************************************************************)
(* runInvestigation: one delegate_agent run, turn by turn.  The loop asks  *)
(* the provider for a turn, executes its tool calls or takes its text as a *)
(* draft answer, has the draft checked once, corrected once, and stores    *)
(* the conversation and the loop's counters after every step so that a     *)
(* later call can go on.  Calls follow one another here, each started by a *)
(* worker for a single step or by a caller for up to max_steps, and each   *)
(* may die between two steps; calls that overlap are AgentChain's subject. *)
(***************************************************************************)
EXTENDS Integers, SequencesExt

CONSTANTS
    Limits,         \* values of max_steps the callers pass
    HardMaxSteps,   \* HARD_MAX_STEPS
    StuckSteps,     \* all-repeat steps in a row after which tools are withheld
    Modes           \* what a behaviour may be about, see Mode

ASSUME LimitAssumption ==
    /\ HardMaxSteps \in Nat \ {0}
    /\ Limits \subseteq 1 .. HardMaxSteps
    /\ StuckSteps \in Nat \ {0}

Mode == [workers: BOOLEAN,      \* the run is driven by workers, step by step
         throws: BOOLEAN,       \* handling the tool results itself may throw
         calls: Nat,            \* bound: calls of runInvestigation on the run
         faults: Nat]           \* bound: Redis commands that fail
ASSUME ModeAssumption == Modes \subseteq Mode

VARIABLES
    log,        \* the contents list in Redis
    cp,         \* the meta record in Redis
    loop,       \* the loop state of the call in progress
    told,       \* what the latest call reported to its caller
    calls,      \* calls of runInvestigation so far
    faults,     \* Redis commands that have failed so far
    mode        \* the kind of run, chosen at the start

loopVars == <<log, cp, loop, told, calls, faults, mode>>

-----------------------------------------------------------------------------
\* Turns of the conversation: the user's task, tool results and the two kinds
\* of request to check the draft; the model's tool calls and answers.
\* "repeated" is a turn of tool results every call of which is a repeat.
ResultTurn == {"results", "repeated"}
UserTurn == {"task", "check", "correct"} \cup ResultTurn
ModelTurn == {"calls", "draft"}
AnswerKind == {"none", "text", "unusable", "hardcap"}

\* What survives from one call to the next.
Meta == [status: {"none", "running", "done"}, steps: 0 .. HardMaxSteps,
         overall: 0 .. HardMaxSteps,
         pending: BOOLEAN,              \* pendingVerification
         recheck: BOOLEAN,              \* structuralRecheckUsed
         repeats: Nat,                  \* consecutiveAllRepeatSteps
         called: BOOLEAN,               \* repeatCounts is not empty
         answer: AnswerKind]
NoMeta == [status |-> "none", steps |-> 0, overall |-> 0, pending |-> FALSE,
           recheck |-> FALSE, repeats |-> 0, called |-> FALSE, answer |-> "none"]

Idle == [on |-> FALSE, single |-> FALSE, step |-> 0, capped |-> 0, overall |-> 0,
         pending |-> FALSE, recheck |-> FALSE, repeats |-> 0, called |-> FALSE,
         contents |-> << >>, cursor |-> 0]

IsFinalStepLate == loop.step > loop.overall
IsFinalStep == loop.step = loop.overall
StuckLoopForce == loop.repeats >= StuckSteps
WithholdTools == IsFinalStep \/ StuckLoopForce

-----------------------------------------------------------------------------
(* saveCheckpoint: the push of the new turns and the write of the meta       *)
(* record go out together, and either may fail in silence.                   *)

Save(turns, meta) ==
    \E pushed, written \in BOOLEAN :
        /\ turns = << >> => pushed
        /\ faults' = faults + (IF pushed THEN 0 ELSE 1) + (IF written THEN 0 ELSE 1)
        /\ faults' <= mode.faults
        /\ log' = IF pushed THEN log \o turns ELSE log
        /\ cp' = IF written THEN meta ELSE cp

\* The turns this call has added since it last saved.
Unsaved(l) == SubSeq(l.contents, l.cursor + 1, Len(l.contents))

\* The fields every save of the loop writes alike.
MetaOf(l, steps) ==
    [NoMeta EXCEPT !.status = "running", !.steps = steps, !.overall = l.overall,
                   !.pending = l.pending, !.repeats = l.repeats, !.called = l.called]

\* Only the saves of the checking rounds and of the outcome name
\* structuralRecheckUsed.
MetaWithRecheck(l, steps) == [MetaOf(l, steps) EXCEPT !.recheck = l.recheck]

\* A worker's call reports to the worker, which drops all but the step count.
Leave(report) ==
    /\ loop' = Idle
    /\ told' = IF loop.single THEN told ELSE report

\* The step in l is complete and stored: the next one, or the end of the loop.
NextStep(l) ==
    /\ loop' = [l EXCEPT !.step = @ + 1, !.cursor = Len(l.contents)]
    /\ UNCHANGED told

-----------------------------------------------------------------------------
(* The beginning of a call.                                                  *)

\* seedRun stores the task turn for the workers to start from.
SeedRun(m) ==
    /\ mode.workers /\ cp = NoMeta /\ log = << >>
    /\ Save(<<"task">>, [NoMeta EXCEPT !.status = "running", !.overall = m])
    /\ UNCHANGED <<loop, told, calls>>

\* A synchronous run keeps the task turn in memory until its first save.
StartRun(m) ==
    /\ ~mode.workers /\ calls = 0 /\ calls < mode.calls
    /\ calls' = 1
    /\ loop' = [Idle EXCEPT !.on = TRUE, !.step = 1, !.capped = m, !.overall = m,
                            !.contents = <<"task">>]
    /\ UNCHANGED <<log, cp, told, faults>>

RestoredBehind ==
    [on |-> TRUE, single |-> FALSE, step |-> cp.steps, capped |-> 0, overall |-> 0,
     pending |-> cp.pending, recheck |-> cp.recheck, repeats |-> cp.repeats,
     called |-> cp.called, contents |-> log, cursor |-> Len(log)]
Restored ==
    [on |-> TRUE, single |-> FALSE, step |-> cp.steps + 1, capped |-> 0, overall |-> 0,
     pending |-> cp.pending, recheck |-> cp.recheck, repeats |-> cp.repeats,
     called |-> cp.called, contents |-> log, cursor |-> Len(log)]

ResumeSingle ==
    /\ mode.workers /\ ~loop.on /\ calls < mode.calls
    /\ cp.status = "running"
    /\ calls' = calls + 1
    /\ loop' = [Restored EXCEPT !.single = TRUE, !.capped = cp.steps + 1,
                               !.overall = cp.overall]
    /\ UNCHANGED <<log, cp, told, faults>>

ResumeUpTo(m) ==
    /\ ~loop.on /\ calls < mode.calls
    /\ cp.status = "running"
    /\ calls' = calls + 1
    /\ IF cp.steps >= m
         THEN told' = "partial" /\ UNCHANGED loop
         ELSE /\ loop' = [Restored EXCEPT !.capped = m, !.overall = m]
              /\ UNCHANGED told
    /\ UNCHANGED <<log, cp, faults>>

\* A call that finds the run finished reads its stored answer.
ReadOutcome ==
    /\ ~loop.on /\ calls < mode.calls
    /\ cp.status = "done"
    /\ calls' = calls + 1
    /\ told' = "success"
    /\ UNCHANGED <<log, cp, loop, faults>>

-----------------------------------------------------------------------------
(* The steps of the loop, one provider turn each.                            *)

InStep == loop.on /\ loop.step <= loop.capped

\* The provider failed for good: what is done so far stays resumable.
ProviderFails ==
    /\ InStep
    /\ Save(Unsaved(loop), MetaOf(loop, loop.step - 1))
    /\ Leave("failure")
    /\ UNCHANGED calls

MayCheck == ~WithholdTools /\ ~loop.pending /\ loop.step < loop.capped
MayCorrect == loop.pending /\ ~loop.recheck /\ loop.step < loop.capped

RequestAlone(request) == <<request>>
DraftAnd(request) == <<"draft", request>>

\* A round of checking: the draft goes back with a request, and the step ends.
SendBack(request, l) ==
    LET next == [l EXCEPT !.contents = @ \o DraftAnd(request)]
    IN  /\ Save(Unsaved(next), MetaWithRecheck(next, next.step))
        /\ NextStep(next)
        /\ UNCHANGED calls

DraftChecked == InStep /\ MayCheck /\ SendBack("check", [loop EXCEPT !.pending = TRUE])

\* At least one line the draft quotes is nowhere in the tool results.
DraftCorrected ==
    InStep /\ MayCorrect /\ SendBack("correct", [loop EXCEPT !.recheck = TRUE])

\* finishRun: the tail of the conversation is not stored with the outcome.
FinishRun(answer, report) ==
    /\ Save(<< >>, [MetaWithRecheck(loop, loop.step) EXCEPT !.status = "done",
                                                            !.answer = answer])
    /\ Leave(report)
    /\ UNCHANGED calls

Answers == InStep /\ ~MayCheck /\ FinishRun("text", "success")

\* An empty turn, or a tool call written out as text.
AnswersNothing == InStep /\ FinishRun("unusable", "failure")

\* The provider can ask for tools only when they are offered.
CallsTools(repeat) ==
    /\ InStep /\ ~WithholdTools
    /\ repeat => loop.called
    /\ LET next == [loop EXCEPT
                      !.contents = @ \o <<"calls", IF repeat THEN "repeated" ELSE "results">>,
                      !.repeats = IF repeat THEN @ + 1 ELSE 0,
                      !.called = TRUE]
       IN  /\ Save(Unsaved(next), MetaOf(next, next.step))
           /\ NextStep(next)
    /\ UNCHANGED calls

\* The outer catch: the model's turn is in the conversation, its results not.
StepThrows ==
    /\ mode.throws
    /\ InStep /\ ~WithholdTools
    /\ LET next == [loop EXCEPT !.contents = Append(@, "calls"), !.called = TRUE]
       IN  Save(Unsaved(next), MetaOf(next, next.step - 1))
    /\ Leave("failure")
    /\ UNCHANGED calls

\* The loop ends without an answer.
StepsExhausted ==
    /\ loop.on /\ loop.step > loop.capped
    /\ IF loop.capped >= HardMaxSteps
         THEN /\ Save(<< >>, [MetaWithRecheck(loop, loop.capped) EXCEPT
                                !.status = "done", !.answer = "hardcap"])
              /\ Leave("success")
         ELSE /\ Leave("partial")
              /\ UNCHANGED <<log, cp, faults>>
    /\ UNCHANGED calls

\* The process dies; what it has not stored is lost.
Crash ==
    /\ loop.on
    /\ loop' = Idle
    /\ UNCHANGED <<log, cp, told, calls, faults>>

-----------------------------------------------------------------------------
LoopInit ==
    /\ mode \in Modes
    /\ log = << >>
    /\ cp = NoMeta
    /\ loop = Idle
    /\ told = "none"
    /\ calls = 0
    /\ faults = 0

Call ==
    \/ ResumeSingle \/ ReadOutcome
    \/ \E m \in Limits : SeedRun(m) \/ StartRun(m) \/ ResumeUpTo(m)

Step ==
    \/ ProviderFails \/ DraftChecked \/ DraftCorrected
    \/ Answers \/ AnswersNothing
    \/ \E repeat \in BOOLEAN : CallsTools(repeat)
    \/ StepThrows \/ StepsExhausted

LoopNext == (Call \/ Step \/ Crash) /\ UNCHANGED mode

LoopSpec == LoopInit /\ [][LoopNext]_loopVars

-----------------------------------------------------------------------------
LoopTypeOK ==
    /\ log \in Seq(UserTurn \cup ModelTurn)
    /\ cp \in Meta
    /\ loop \in [on: BOOLEAN, single: BOOLEAN, step: 0 .. HardMaxSteps + 1,
                 capped: 0 .. HardMaxSteps, overall: 0 .. HardMaxSteps,
                 pending: BOOLEAN, recheck: BOOLEAN, repeats: Nat, called: BOOLEAN,
                 contents: Seq(UserTurn \cup ModelTurn), cursor: Nat]
    /\ told \in {"none", "success", "partial", "failure"}
    /\ calls \in 0 .. mode.calls
    /\ faults \in 0 .. mode.faults

\* As long as Redis answers and no step throws halfway, what the provider is sent,
\* across resumes and crashes, is a conversation it accepts: the parties alternate, the user
\* speaks last, and every turn of tool calls is followed by its results.
ConversationValid ==
    InStep /\ faults = 0 /\ ~mode.throws =>
        /\ loop.contents # << >> /\ Last(loop.contents) \in UserTurn
        /\ \A k \in 1 .. Len(loop.contents) - 1 :
             LET this == loop.contents[k]
                 next == loop.contents[k + 1]
             IN  /\ (this \in UserTurn) # (next \in UserTurn)
                 /\ (this = "calls") = (next \in ResultTurn)

\* The append-only list and the meta record tell the same story: one pair of
\* turns per recorded step, neither lost nor stored twice.  A command that
\* fails displaces one from the other by at most one step.  (A step that throws
\* halfway stores its calls and not their results.)
LogMatchesMeta ==
    cp.status = "running" /\ ~mode.throws =>
        LET ahead == Len(SelectSeq(log, LAMBDA t : t # "task")) - 2 * cp.steps
        IN  -(2 * faults) <= ahead /\ ahead <= 2 * faults

\* The stored conversation is the one the provider would have accepted, and as long as the
\* steps on record say.
ConversationSound == ConversationValid /\ LogMatchesMeta

\* The check of a draft is a one-time round, whatever resumes the run.
OneCheck == Len(SelectSeq(log, LAMBDA t : t = "check")) <= 1 + faults

\* A stored answer was checked, unless no tools could be offered any more.
CheckedUnlessForced ==
    cp.answer = "text" /\ faults = 0 =>
        \/ "check" \in Range(log)
        \/ cp.steps >= cp.overall
        \/ cp.repeats >= StuckSteps

\* A call made by a caller rather than a worker never leaves the answer unchecked.
SyncAnswerChecked == ~mode.workers => CheckedUnlessForced

\* The last step the run has left always ends it: no run stops at the hard cap
\* without a word from the model.
AnsweredAtCeiling ==
    /\ loop.on /\ loop.step > loop.capped => loop.capped < HardMaxSteps
    /\ cp.answer # "hardcap"

\* An answer is earned: it is the model's own word, a caller's run checks it when tools could
\* still be offered, and the check takes place once.
AnswersEarned == AnsweredAtCeiling /\ SyncAnswerChecked /\ OneCheck

\* A run whose record is always written, seen through that record, is the run RunLifecycle
\* describes, so one step here is one turn of AgentChain.
Lifecycle == INSTANCE RunLifecycle WITH
    status <- IF mode.faults = 0 THEN cp.status ELSE "none",
    steps <- IF mode.faults = 0 THEN cp.steps ELSE 0
RefinesLifecycle == Lifecycle!RunSpec
=============================================================================
