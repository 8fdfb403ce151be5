---------------------------- MODULE DesignerLoop ----------------------------
(***************************************************************************)
(* delegate_designer: a model edits frontend files on one branch with      *)
(* read_file, write_file and validate, step by step.  The calls of a step  *)
(* run side by side; an exact repeat of a read or a validation is served   *)
(* from a cache of this process, and three steps in a row of nothing but   *)
(* repeats take the tools away.  Every step is saved, so that a later call *)
(* can take the run up again.                                              *)
(*                                                                         *)
(* A file is its version on the branch (0 when it is absent), which is     *)
(* also its blob sha; others commit to the same branch.                    *)
(***************************************************************************)
EXTENDS Naturals, Sequences

CONSTANTS
    Paths,
    None,                       \* no run, no checkpoint, no sha
    FRONTEND_HARD_MAX_STEPS,
    FRONTEND_MAX_VALIDATE_CALLS,
    MaxFileVersion,             \* bound on the commits to a file
    MaxCalls,                   \* bound on the calls of one step
    DesignBudgets               \* bounds, one chosen per behaviour: [resume, commit, fault, kill, expire]

ASSUME DesignAssumption ==
    /\ FRONTEND_HARD_MAX_STEPS \in Nat \ {0}
    /\ MaxFileVersion \in Nat \ {0}

VARIABLES
    files,          \* the branch: version of each file
    design,         \* the run in this process, or None
    cache,          \* resultCache: signature -> result
    inFlight,       \* the calls of the current step
    saved,          \* the run's checkpoint, or None
    reply,          \* what the last call returned, or None
    designLeft      \* what is left of the bounds

designVars == <<files, design, cache, inFlight, saved, reply, designLeft>>

FileVersions == 0..MaxFileVersion
Ops == {"read_file", "write_file", "validate"}
Cacheable == {"read_file", "validate"}
Signature(op, p, base) == [op |-> op, path |-> p, base |-> base]
Signatures == [op : Ops, path : Paths, base : FileVersions \cup {None}]

Spends(kind) ==
    /\ designLeft[kind] > 0
    /\ designLeft' = [designLeft EXCEPT ![kind] = @ - 1]

-----------------------------------------------------------------------------
(* The run and its checkpoint.                                             *)

\* The conversation is kept as what it lets the model do: the version it knows of each file,
\* the stale version a conflict told it about, and the version its own last write made.
Fresh == [stepsDone |-> 0, known |-> [p \in Paths |-> None], stale |-> [p \in Paths |-> None],
          mine |-> [p \in Paths |-> 0], counts |-> {}, repeats |-> 0,
          validated |-> [p \in Paths |-> 0], written |-> {}]

DesignInit ==
    /\ files \in [Paths -> 0..1]
    /\ design = None /\ cache = << >> /\ inFlight = << >>
    /\ saved = None /\ reply = None
    /\ designLeft \in DesignBudgets

\* saveCheckpoint, deleteCheckpoint: one write of the whole state, whose failure is ignored.
SaveAs(state, kept) ==
    /\ saved' = IF kept THEN state ELSE saved
    /\ IF kept THEN UNCHANGED designLeft ELSE Spends("fault")

\* own: history, the run's newest commit to each file, answered or not; overtaken: history, the
\* files with a cached read from before a commit whose answer was lost.
DesignAtUnlisted(state, cap) ==
    [state |-> [state EXCEPT !.written = {}], step |-> state.stepsDone + 1, cap |-> cap, pc |-> "ask",
     own |-> state.mine, overtaken |-> {}]
DesignAt(state, cap) ==
    [state |-> state, step |-> state.stepsDone + 1, cap |-> cap, pc |-> "ask",
     own |-> state.mine, overtaken |-> {}]

StartDesign ==
    /\ design = None /\ reply = None /\ saved = None
    /\ \E cap \in 1..FRONTEND_HARD_MAX_STEPS : design' = DesignAt(Fresh, cap)
    /\ UNCHANGED <<files, cache, inFlight, saved, reply, designLeft>>

\* kept: the checkpoint stands where the reply says, until the run is taken up again.
Replied(failed, steps, written, kept) ==
    [failed |-> failed, steps |-> steps, written |-> written, kept |-> kept]

\* A caller that was given the run's id asks for more; the ceiling counts from the first step.
ResumeDesign ==
    /\ design = None /\ reply # None /\ reply.failed /\ saved # None
    /\ Spends("resume")
    /\ \E cap \in 1..FRONTEND_HARD_MAX_STEPS :
        IF saved.stepsDone + 1 > cap
        THEN /\ reply' = Replied(TRUE, saved.stepsDone, saved.written, TRUE)
             /\ UNCHANGED design
        ELSE design' = DesignAt(saved, cap) /\ reply' = [reply EXCEPT !.kept = FALSE]
    /\ cache' = << >>
    /\ UNCHANGED <<files, inFlight, saved>>

StuckForce == design.state.repeats >= 3
Withheld == design.step = design.cap \/ StuckForce

Return(failed, steps, kept) ==
    /\ reply' = Replied(failed, steps, design.state.written, kept)
    /\ design' = None /\ inFlight' = << >> /\ cache' = << >>
    /\ UNCHANGED files

\* The provider failed, the model answered with nothing, or it called a tool it was not given:
\* the state as of the last whole step is saved for the next call.
StopEarly ==
    /\ design # None /\ design.pc = "ask"
    /\ \E kept \in BOOLEAN :
        /\ Return(TRUE, design.step - 1, kept)
        /\ SaveAs([design.state EXCEPT !.stepsDone = design.step - 1], kept)

\* A final answer discards the checkpoint; a delete that fails leaves it to its TTL.
Answer ==
    /\ design # None /\ design.pc = "ask"
    /\ Return(FALSE, design.step, FALSE)
    /\ \E kept \in BOOLEAN : SaveAs(None, kept)

-----------------------------------------------------------------------------
(* One step of calls.                                                      *)

\* Calls the model can make: it has no other shas than those it was told.
PossibleCalls ==
    {Signature(op, p, None) : op \in Ops, p \in Paths}
        \cup {Signature("write_file", p, design.state.known[p]) : p \in Paths}

Repeats(call, before) == call \in design.state.counts \/ call \in before
ServedFromCache(call, before) ==
    Repeats(call, before) /\ call.op \in Cacheable /\ call \in DOMAIN cache

Entry(calls, i) ==
    LET before == {calls[j] : j \in 1..(i - 1)}
    IN  [call |-> calls[i], repeat |-> Repeats(calls[i], before),
         cached |-> ServedFromCache(calls[i], before),
         answer |-> IF ServedFromCache(calls[i], before) THEN "ok" ELSE "waiting",
         result |-> IF ServedFromCache(calls[i], before) THEN cache[calls[i]] ELSE 0]

\* Each call is looked up and counted before any of them waits for an answer.
MakeCalls ==
    /\ design # None /\ design.pc = "ask" /\ ~Withheld
    /\ \E n \in 1..MaxCalls : \E calls \in [1..n -> PossibleCalls] :
        /\ inFlight' = [i \in 1..n |-> Entry(calls, i)]
        /\ design' = [design EXCEPT !.pc = "calls",
                                    !.state.counts = @ \cup {calls[i] : i \in 1..n}]
    /\ UNCHANGED <<files, cache, saved, reply, designLeft>>

Waiting(i, op) ==
    i \in DOMAIN inFlight /\ inFlight[i].answer = "waiting" /\ inFlight[i].call.op = op

Answered(i, answer, result) ==
    inFlight' = [inFlight EXCEPT ![i].answer = answer, ![i].result = result]
Cached(i, result) == cache' = [c \in DOMAIN cache \cup {inFlight[i].call} |->
                                  IF c = inFlight[i].call THEN result ELSE cache[c]]

\* read_file: the version of the file, or an error (0) when it is absent or the request fails;
\* the error is cached as well.
ReadDone(i) ==
    /\ Waiting(i, "read_file")
    /\ \E v \in {files[inFlight[i].call.path], 0} :
        /\ IF v = files[inFlight[i].call.path] THEN UNCHANGED designLeft ELSE Spends("fault")
        /\ Answered(i, "ok", v) /\ Cached(i, v)
    /\ UNCHANGED <<files, design, saved, reply>>

\* write_file: GitHub takes it when the sha is the file's own, or when none is sent for a file
\* that is absent; everything else is a conflict.
Accepted(call) ==
    IF call.base = None THEN files[call.path] = 0 ELSE call.base = files[call.path]

WriteDone(i) ==
    /\ Waiting(i, "write_file")
    /\ LET call == inFlight[i].call
       IN  IF Accepted(call)
           THEN /\ files[call.path] < MaxFileVersion
                /\ files' = [files EXCEPT ![call.path] = @ + 1]
                /\ Answered(i, "ok", files[call.path] + 1)
                /\ design' = [design EXCEPT !.state.written = @ \cup {call.path}]
           ELSE Answered(i, "conflict", 0) /\ UNCHANGED <<files, design>>
    /\ UNCHANGED <<cache, saved, reply, designLeft>>

ReadOf(p) == Signature("read_file", p, None)

\* The commit is made and its answer is lost; the model is told of an error.
WriteAnswerLost(i) ==
    /\ Waiting(i, "write_file") /\ Accepted(inFlight[i].call)
    /\ Spends("fault")
    /\ LET p == inFlight[i].call.path
       IN  /\ files[p] < MaxFileVersion
           /\ files' = [files EXCEPT ![p] = @ + 1]
           /\ design' = [design EXCEPT
                            !.own[p] = files[p] + 1,
                            !.overtaken = IF ReadOf(p) \in DOMAIN cache THEN @ \cup {p} ELSE @]
    /\ Answered(i, "failed", 0)
    /\ UNCHANGED <<cache, saved, reply>>

\* validate: its syntax check is pure; the count is taken before it runs.
ValidateDone(i) ==
    /\ Waiting(i, "validate")
    /\ LET p == inFlight[i].call.path
           allowed == design.state.validated[p] < FRONTEND_MAX_VALIDATE_CALLS
           verdict == IF allowed THEN 1 ELSE 0
       IN  /\ Answered(i, "ok", verdict) /\ Cached(i, verdict)
           /\ design' = [design EXCEPT !.state.validated[p] = IF allowed THEN @ + 1 ELSE @]
    /\ UNCHANGED <<files, saved, reply, designLeft>>

Results(op, p) == {i \in DOMAIN inFlight : inFlight[i].call.op = op /\ inFlight[i].call.path = p}
Landed(p) == {inFlight[i].result : i \in {j \in Results("write_file", p) : inFlight[j].answer = "ok"}}
Conflicts(p) == {i \in Results("write_file", p) : inFlight[i].answer = "conflict"}
WrittenNow == {p \in Paths : Landed(p) # {}}
Newest(S) == CHOOSE v \in S : \A w \in S : w <= v

\* What the model knows of a file after the step: its newest successful write or read.
Seen(p) == ({inFlight[i].result : i \in Results("read_file", p)} \cup Landed(p)) \ {0}
Known(p) == IF Seen(p) = {} THEN design.state.known[p] ELSE Newest(Seen(p))
Stale(p) == IF Conflicts(p) # {} THEN inFlight[CHOOSE i \in Conflicts(p) : TRUE].call.base
            ELSE IF Seen(p) # {} THEN None ELSE design.state.stale[p]

InvalidatesValidation == {Signature("validate", p, None) : p \in WrittenNow}

\* Only a write that succeeded takes its file's read out of the cache and of the counts.
Invalidated == {ReadOf(p) : p \in WrittenNow}
AllRepeats == \A i \in DOMAIN inFlight : inFlight[i].repeat

StateAfter ==
    [design.state EXCEPT !.stepsDone = design.step,
                         !.known = [p \in Paths |-> Known(p)],
                         !.stale = [p \in Paths |-> Stale(p)],
                         !.mine = [p \in Paths |-> IF p \in WrittenNow THEN Newest(Landed(p))
                                                   ELSE @[p]],
                         !.counts = @ \ Invalidated,
                         !.repeats = IF AllRepeats THEN @ + 1 ELSE 0]

\* Every call has answered: the cache is corrected, the step is counted and saved.
FinishStep ==
    /\ design # None /\ design.pc = "calls"
    /\ \A i \in DOMAIN inFlight : inFlight[i].answer # "waiting"
    /\ cache' = [c \in DOMAIN cache \ Invalidated |-> cache[c]]
    /\ design' = [design EXCEPT !.state = StateAfter, !.step = @ + 1, !.pc = "ask",
           !.own = [p \in Paths |-> IF p \in WrittenNow THEN Newest(Landed(p)) ELSE @[p]],
           !.overtaken = @ \ WrittenNow]
    /\ \E kept \in BOOLEAN : SaveAs(StateAfter, kept)
    /\ inFlight' = << >>
    /\ UNCHANGED <<files, reply>>

-----------------------------------------------------------------------------
(* What happens to the run from outside.                                   *)

\* The platform ends the process; whoever waited gets no answer.
Killed ==
    /\ design # None /\ Spends("kill")
    /\ design' = None /\ inFlight' = << >> /\ cache' = << >>
    /\ UNCHANGED <<files, saved, reply>>

CheckpointExpires ==
    /\ saved # None /\ design = None /\ Spends("expire")
    /\ saved' = None
    /\ UNCHANGED <<files, design, cache, inFlight, reply>>

CommittedByOther ==
    /\ Spends("commit")
    /\ \E p \in Paths : files[p] < MaxFileVersion /\ files' = [files EXCEPT ![p] = @ + 1]
    /\ UNCHANGED <<design, cache, inFlight, saved, reply>>

DesignNext ==
    \/ StartDesign \/ ResumeDesign \/ StopEarly \/ Answer \/ MakeCalls \/ FinishStep
    \/ \E i \in 1..MaxCalls : ReadDone(i) \/ WriteDone(i) \/ WriteAnswerLost(i) \/ ValidateDone(i)
    \/ Killed \/ CheckpointExpires \/ CommittedByOther

DesignSpec == DesignInit /\ [][DesignNext]_designVars

-----------------------------------------------------------------------------
(* Properties.                                                             *)

\* Type correctness.
DesignStates ==
    [stepsDone : 0..FRONTEND_HARD_MAX_STEPS, known : [Paths -> FileVersions \cup {None}],
     stale : [Paths -> FileVersions \cup {None}], mine : [Paths -> FileVersions],
     counts : SUBSET Signatures, repeats : 0..3,
     validated : [Paths -> 0..FRONTEND_MAX_VALIDATE_CALLS], written : SUBSET Paths]

DesignTypeOK ==
    /\ files \in [Paths -> FileVersions]
    /\ design # None =>
        /\ design.state \in DesignStates
        /\ design.step \in 1..design.cap /\ design.cap \in 1..FRONTEND_HARD_MAX_STEPS
        /\ design.pc \in {"ask", "calls"}
        /\ design.own \in [Paths -> FileVersions] /\ design.overtaken \subseteq Paths
    /\ saved # None => saved \in DesignStates
    /\ DOMAIN cache \subseteq Signatures
    /\ \A i \in DOMAIN inFlight : inFlight[i].answer \in {"waiting", "ok", "conflict", "failed"}

\* Between steps no cached read is older than what the run itself committed to the file, though
\* the read may have been answered before the write of the same step.  The exception is a read
\* cached before a commit whose answer was lost: the write is reported as failed and the read
\* stays in the cache, although by designer_delegate.js:420 a failed write_file "changed nothing
\* on the branch".  A later write that is answered ends it.
CacheKeepsUp ==
    (design # None /\ design.pc = "ask") =>
        \A p \in Paths : (ReadOf(p) \in DOMAIN cache /\ p \notin design.overtaken) =>
            cache[ReadOf(p)] \in {0} \cup design.own[p]..MaxFileVersion

\* A file whose write the model was told of is in the list the call returns, also when the run
\* was stopped, killed and taken up again.
WritesReported ==
    /\ design # None => \A p \in Paths : design.state.mine[p] > 0 => p \in design.state.written
    /\ saved # None => \A p \in Paths : saved.mine[p] > 0 => p \in saved.written

\* No step is lost or done twice over a stop: the checkpoint a failed call leaves stands at the
\* step it reports and knows the writes it reports, until it expires.
ResumesWhereItStopped ==
    (reply # None /\ reply.failed /\ reply.kept /\ saved # None) =>
        saved.stepsDone = reply.steps /\ saved.written = reply.written

\* When a failed call has saved the run, the next call finds the writes the model was told of and
\* its place.  A killed step and a write whose answer was lost are no part of this.
DesignKept == WritesReported /\ ResumesWhereItStopped

\* "Re-read the file and retry instead of overwriting blindly": a read after a write conflict
\* does not give the version the conflict called stale.
RereadSeesBranch ==
    design # None => \A i \in DOMAIN inFlight :
        LET p == inFlight[i].call.path
        IN  (inFlight[i].call.op = "read_file" /\ inFlight[i].answer = "ok"
                /\ design.state.stale[p] # None) =>
                    inFlight[i].result # design.state.stale[p]
=============================================================================
