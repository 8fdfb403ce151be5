------------------------- MODULE EditorChain_proofs -------------------------
(***************************************************************************)
(* Theorems about EditorChain, for any number of processes, files, calls   *)
(* of a turn, steps and faults.                                            *)
(*                                                                         *)
(* One message or one worker carries a run from step to step, so only a    *)
(* push can make two processes work on it at once.  Where none does, the   *)
(* process at work knows what is in the record, and what it saves is never *)
(* behind it; that is what keeps the list of written files whole, the      *)
(* record from moving back and the tries of a step bounded.  A call that   *)
(* could not read the record knows least: it may take on a run that has    *)
(* failed.                                                                 *)
(***************************************************************************)
EXTENDS EditorChain, FiniteSetTheorems, SequenceTheorems, TLAPS

\* Nobody pushes the run, or one process serves it.
Alone == PushLimits = {} \/ \A p, q \in Invocations : p = q

WorkerSteps == {"load", "heartbeat", "reload", "giveup", "publish"}
LoopSteps == {"turn", "calls"}
Callback == {"cbload", "cbsave"}
Labels == {"idle", "resume"} \cup WorkerSteps \cup LoopSteps \cup Callback
Place == [step : Nat, capped : Nat]

ProcTyped ==
    /\ pc \in [Invocations -> Labels]
    /\ job \in [Invocations -> Job]
    /\ mem \in [Invocations -> Blob]
    /\ at \in [Invocations -> Place]
    /\ editorCalls \in [Invocations -> SUBSET WriteCall]

\* What a process holds at each place in its handler.
Shape(i) ==
    /\ pc[i] \in WorkerSteps => Single(i) /\ job[i].msg.kind = "step"
    /\ pc[i] \in Callback => Single(i) /\ job[i].msg.kind = "failure"
    /\ pc[i] \in {"resume"} \cup LoopSteps =>
         job[i].role = "push" \/ (Single(i) /\ job[i].msg.kind = "step")
    /\ pc[i] \in LoopSteps => at[i].step > 0
    /\ pc[i] \in {"idle", "load", "cbload", "reload"} => mem[i] = NoBlob
    /\ pc[i] = "resume" /\ ~Single(i) => mem[i] = NoBlob
    /\ pc[i] # "calls" => editorCalls[i] = {}
    /\ pc[i] = "idle" => job[i] = NoJob
    /\ job[i].role = "push" => job[i].limit \in PushLimits

Works(i) == pc[i] # "idle" /\ Single(i)

\* One message or one worker carries the chain.
ChainIsOne ==
    /\ \A m, n \in queue : m = n
    /\ \A i \in Invocations : Works(i) => queue = {}
    /\ \A i, j \in Invocations : Works(i) /\ Works(j) => i = j
    /\ start # "done" => queue = {} /\ \A i \in Invocations : pc[i] = "idle"
    /\ start = "new" => record = NoBlob /\ committed = {}

ClaimBacked(b) == b.answer = "claim" => b.written # <<>>

EditorInv == EditorTypeOK /\ (\A i \in Invocations : Shape(i)) /\ ChainIsOne

-----------------------------------------------------------------------------
(* What the small operations leave behind.                                   *)

LEMMA TypesApart ==
    EditorTypeOK <=>
      /\ record \in Blob /\ start \in {"new", "publish", "done", "refused"}
      /\ queue \subseteq Message /\ ProcTyped
      /\ branch \in [Files -> Nat] /\ committed \subseteq Files /\ unseen \subseteq Files
      /\ attempts \in Nat /\ spent \in [Hazards -> Nat]
  BY DEF EditorTypeOK, ProcTyped, Place, Labels, WorkerSteps, LoopSteps, Callback

LEMMA BlobTypes ==
    /\ NoBlob \in Blob /\ Nowhere \in Place /\ NoJob \in Job
    /\ \A b \in Blob, n \in Nat :
         /\ Running(b, n) \in Blob
         /\ [Running(b, n) EXCEPT !.status = "done"] \in Blob
         /\ HeartbeatBlob(b) \in Blob /\ Failed(b) \in Blob
         /\ [b EXCEPT !.overall = n] \in Blob
         /\ [b EXCEPT !.repeats = n] \in Blob
         /\ [b EXCEPT !.pending = TRUE] \in Blob
<1>1. NoBlob \in Blob /\ Nowhere \in Place /\ NoJob \in Job
  BY DEF NoBlob, Blob, Nowhere, Place, NoJob, Job
<1>2. ASSUME NEW b \in Blob, NEW n \in Nat
      PROVE  /\ Running(b, n) \in Blob
             /\ [Running(b, n) EXCEPT !.status = "done"] \in Blob
             /\ HeartbeatBlob(b) \in Blob /\ Failed(b) \in Blob
             /\ [b EXCEPT !.overall = n] \in Blob
             /\ [b EXCEPT !.repeats = n] \in Blob
             /\ [b EXCEPT !.pending = TRUE] \in Blob
  <2>1. Running(b, n) \in Blob
    BY DEF Running, Blob
  <2>2. [Running(b, n) EXCEPT !.status = "done"] \in Blob
    BY DEF Running, Blob
  <2>3. HeartbeatBlob(b) \in Blob
    BY DEF HeartbeatBlob, Blob
  <2>4. Failed(b) \in Blob
    BY DEF Failed, Blob
  <2>5. [b EXCEPT !.overall = n] \in Blob /\ [b EXCEPT !.repeats = n] \in Blob
    BY DEF Blob
  <2>6. [b EXCEPT !.pending = TRUE] \in Blob
    BY DEF Blob
  <2> QED BY <2>1, <2>2, <2>3, <2>4, <2>5, <2>6
<1> QED BY <1>1, <1>2

LEMMA CountTypes ==
    ASSUME NEW b \in Blob, NEW c \in WriteCall
    PROVE  Count(b, c) \in Blob
<1> DEFINE w == [b.writes EXCEPT ![c.file] = c.prior + 1]
           l == IF c.touched THEN b.written ELSE Append(b.written, c.file)
<1>1. w \in [Files -> Nat]
  BY DEF Blob, WriteCall
<1>2. l \in Seq(Files)
  BY DEF Blob, WriteCall
<1>3. Count(b, c) = [[b EXCEPT !.writes = w] EXCEPT !.written = l]
  BY DEF Count, Blob
<1>4. /\ Count(b, c).writes = w /\ Count(b, c).written = l
      /\ DOMAIN Count(b, c) = DOMAIN b
      /\ \A x \in DOMAIN b : x \notin {"writes", "written"} => Count(b, c)[x] = b[x]
  BY <1>3 DEF Blob
<1> HIDE DEF w, l
<1> QED BY <1>1, <1>2, <1>3 DEF Blob

LEMMA ListTypes ==
    ASSUME NEW b \in Blob
    PROVE  Listed(b) \subseteq Files /\ Listed(NoBlob) = {}
  BY DEF Listed, ToSet, Blob, NoBlob

LEMMA StrikeType ==
    ASSUME EditorTypeOK, NEW h \in Hazards, Strike(h)
    PROVE  spent' \in [Hazards -> Nat] /\ spent'[h] = spent[h] + 1
                /\ \A k \in Hazards : k # h => spent'[k] = spent[k]
  BY DEF EditorTypeOK, Strike

LEMMA SaveType ==
    ASSUME EditorTypeOK, NEW b \in Blob, SaveRecord(b)
    PROVE  record' \in Blob /\ attempts' \in Nat /\ spent' \in [Hazards -> Nat] /\ unseen' \subseteq Files
<1>1. Listed(b) \subseteq Files /\ unseen \subseteq Files
  BY ListTypes DEF EditorTypeOK
<1>2. unseen' \subseteq Files
  BY <1>1 DEF SaveRecord, Hide
<1> QED BY <1>2, StrikeType DEF EditorTypeOK, SaveRecord, Hazards

LEMMA LoadType ==
    ASSUME EditorTypeOK, NEW v, Load(v)
    PROVE  v \in Blob /\ v \in {record, NoBlob} /\ spent' \in [Hazards -> Nat]
  BY BlobTypes, StrikeType DEF EditorTypeOK, Load, Hazards

-----------------------------------------------------------------------------
(* A step of one process.                                                    *)

Sets(f, g, i, v) == g = [f EXCEPT ![i] = v] \/ (g = f /\ v = f[i])

Becomes(i, l, j, b, a, C) ==
    /\ Sets(pc, pc', i, l) /\ Sets(job, job', i, j) /\ Sets(mem, mem', i, b)
    /\ Sets(at, at', i, a) /\ Sets(editorCalls, editorCalls', i, C)

IsAt(i, l, j, b, a, C) ==
    pc[i] = l /\ job[i] = j /\ mem[i] = b /\ at[i] = a /\ editorCalls[i] = C

OthersStay(i) ==
    \A j \in Invocations \ {i} :
        /\ pc'[j] = pc[j] /\ job'[j] = job[j] /\ mem'[j] = mem[j]
        /\ at'[j] = at[j] /\ editorCalls'[j] = editorCalls[j]

LEMMA BecomesSo ==
    ASSUME ProcTyped, NEW i \in Invocations, NEW l \in Labels, NEW j \in Job, NEW b \in Blob,
           NEW a \in Place, NEW C \in SUBSET WriteCall, Becomes(i, l, j, b, a, C)
    PROVE  /\ ProcTyped' /\ OthersStay(i)
           /\ pc'[i] = l /\ job'[i] = j /\ mem'[i] = b /\ at'[i] = a /\ editorCalls'[i] = C
<1>1. pc' \in [Invocations -> Labels] /\ pc'[i] = l /\ \A k \in Invocations \ {i} : pc'[k] = pc[k]
  BY DEF Becomes, ProcTyped, Sets
<1>2. job' \in [Invocations -> Job] /\ job'[i] = j /\ \A k \in Invocations \ {i} : job'[k] = job[k]
  BY DEF Becomes, ProcTyped, Sets
<1>3. mem' \in [Invocations -> Blob] /\ mem'[i] = b /\ \A k \in Invocations \ {i} : mem'[k] = mem[k]
  BY DEF Becomes, ProcTyped, Sets
<1>4. at' \in [Invocations -> Place] /\ at'[i] = a /\ \A k \in Invocations \ {i} : at'[k] = at[k]
  BY DEF Becomes, ProcTyped, Sets
<1>5. /\ editorCalls' \in [Invocations -> SUBSET WriteCall] /\ editorCalls'[i] = C
      /\ \A k \in Invocations \ {i} : editorCalls'[k] = editorCalls[k]
  BY DEF Becomes, ProcTyped, Sets
<1> QED BY <1>1, <1>2, <1>3, <1>4, <1>5 DEF ProcTyped, OthersStay

\* What a process may come to.
Fine(i, l, j, b, a, C) ==
    /\ l \in WorkerSteps => j.role = "worker" /\ j.msg.kind = "step"
    /\ l \in Callback => j.role = "worker" /\ j.msg.kind = "failure"
    /\ l \in {"resume"} \cup LoopSteps =>
         j.role = "push" \/ (j.role = "worker" /\ j.msg.kind = "step")
    /\ l \in LoopSteps => a.step > 0
    /\ l \in {"idle", "load", "cbload", "reload"} => b = NoBlob
    /\ l = "resume" /\ j.role # "worker" => b = NoBlob
    /\ l # "calls" => C = {}
    /\ l = "idle" => j = NoJob
    /\ j.role = "push" => j.limit \in PushLimits

LEMMA FineShape ==
    ASSUME NEW i, Fine(i, pc[i], job[i], mem[i], at[i], editorCalls[i])
    PROVE  Shape(i)
  BY DEF Fine, Shape, Single

LEMMA ShapeFine ==
    ASSUME NEW i, Shape(i)
    PROVE  Fine(i, pc[i], job[i], mem[i], at[i], editorCalls[i])
  BY DEF Fine, Shape, Single

LEMMA FineNext ==
    ASSUME NEW i, NEW l, NEW j, NEW b, NEW a, NEW C, Fine(i, l, j, b, a, C),
           pc'[i] = l, job'[i] = j, mem'[i] = b, at'[i] = a, editorCalls'[i] = C
    PROVE  Shape(i)'
  BY DEF Fine, Shape, Single

\* A step of i alone, and one that leaves the request.
Alters(i) == ProcTyped' /\ OthersStay(i) /\ Shape(i)'
Leaves(i) == /\ pc'[i] = "idle" /\ job'[i] = NoJob /\ mem'[i] = NoBlob /\ at'[i] = Nowhere
             /\ editorCalls'[i] = {}

\* What a step makes of the hazards: no save is dropped, or a save is made or dropped.
Calm == spent' \in [Hazards -> Nat] /\ spent'["save"] = spent["save"]
Saves(b) ==
    /\ record' \in Blob /\ attempts' \in Nat /\ spent' \in [Hazards -> Nat] /\ unseen' \subseteq Files
    /\ \/ /\ record' = b /\ spent'["save"] = spent["save"]
          /\ attempts' = IF b.steps = record.steps THEN attempts ELSE 0
          /\ unseen' = unseen \ Listed(b)
       \/ /\ record' = record /\ attempts' = attempts /\ spent'["save"] = spent["save"] + 1
          /\ unseen' = unseen \cup ((Listed(b) \cap committed) \ Listed(record))

LEMMA SaveMoves ==
    ASSUME EditorTypeOK, NEW b \in Blob, SaveRecord(b)
    PROVE  Saves(b)
  BY StrikeType, SaveType DEF EditorTypeOK, SaveRecord, Hide, Hazards, Saves

LEMMA StrikeMoves ==
    ASSUME EditorTypeOK, NEW h \in Hazards \ {"save"}, Strike(h)
    PROVE  Calm
  BY StrikeType DEF Calm, Hazards

LEMMA LoadMoves ==
    ASSUME EditorTypeOK, NEW v, Load(v)
    PROVE  v \in Blob /\ v \in {record, NoBlob} /\ Calm
  BY BlobTypes, StrikeMoves DEF EditorTypeOK, Load, Hazards, Calm

LEMMA LeaveMoves ==
    ASSUME EditorTypeOK, NEW i \in Invocations, LeaveStep(i)
    PROVE  Alters(i) /\ Leaves(i)
<1>1. Becomes(i, "idle", NoJob, NoBlob, Nowhere, {})
  BY DEF LeaveStep, Goto, Becomes, Sets
<1>2. Fine(i, "idle", NoJob, NoBlob, Nowhere, {})
  BY DEF Fine, NoJob, WorkerSteps, LoopSteps, Callback
<1>3. ProcTyped /\ "idle" \in Labels
  BY TypesApart DEF Labels
<1>4. /\ ProcTyped' /\ OthersStay(i) /\ pc'[i] = "idle" /\ job'[i] = NoJob /\ mem'[i] = NoBlob
      /\ at'[i] = Nowhere /\ editorCalls'[i] = {}
  BY <1>1, <1>3, BecomesSo, BlobTypes
<1>5. Shape(i)'
  BY <1>2, <1>4, FineNext
<1> QED BY <1>4, <1>5 DEF Alters, Leaves

\* Back to the worker with a step, or out of the tool call.
Returns(i, n) ==
    \/ Leaves(i) /\ ~Single(i)
    \/ /\ Single(i) /\ pc'[i] = "reload" /\ job'[i] = job[i] /\ mem'[i] = NoBlob
       /\ at'[i].step = n /\ editorCalls'[i] = {}

LEMMA ResultMoves ==
    ASSUME EditorTypeOK, NEW i \in Invocations, Shape(i), pc[i] \in {"resume"} \cup LoopSteps,
           editorCalls[i] = {}, NEW n \in Nat, Result(i, n)
    PROVE  Alters(i) /\ Returns(i, n)
<1>1. CASE ~Single(i)
  <2>1. LeaveStep(i)
    BY <1>1 DEF Result
  <2> QED BY <1>1, <2>1, LeaveMoves DEF Returns
<1>2. CASE Single(i)
  <2> DEFINE a == [Nowhere EXCEPT !.step = n]
  <2>1. Becomes(i, "reload", job[i], NoBlob, a, {})
    BY <1>2 DEF Result, Goto, Becomes, Sets
  <2>2. ProcTyped /\ "reload" \in Labels /\ a \in Place /\ a.step = n /\ job[i] \in Job
    BY TypesApart DEF Labels, WorkerSteps, Place, Nowhere, ProcTyped
  <2>3. Fine(i, "reload", job[i], NoBlob, a, {})
    BY <1>2 DEF Fine, Shape, Single, WorkerSteps, LoopSteps, Callback
  <2> HIDE DEF a
  <2>4. /\ ProcTyped' /\ OthersStay(i) /\ pc'[i] = "reload" /\ job'[i] = job[i] /\ mem'[i] = NoBlob
        /\ at'[i] = a /\ editorCalls'[i] = {}
    BY <2>1, <2>2, BecomesSo, BlobTypes
  <2>5. Shape(i)'
    BY <2>3, <2>4, FineNext
  <2> QED BY <1>2, <2>2, <2>4, <2>5 DEF Alters, Returns
<1> QED BY <1>1, <1>2

\* The process goes on with what it has loaded, or leaves.
GoesOn(i, l, b) ==
    /\ pc'[i] = l /\ job'[i] = job[i] /\ mem'[i] = b /\ at'[i] = at[i]
    /\ editorCalls'[i] = {}

LEMMA GoMoves ==
    ASSUME EditorTypeOK, NEW i \in Invocations, Shape(i), NEW l \in Labels, NEW b \in Blob,
           Becomes(i, l, job[i], b, at[i], {}), Fine(i, l, job[i], b, at[i], {})
    PROVE  Alters(i) /\ GoesOn(i, l, b)
<1>1. ProcTyped /\ job[i] \in Job /\ at[i] \in Place
  BY TypesApart DEF ProcTyped
<1>2. /\ ProcTyped' /\ OthersStay(i) /\ pc'[i] = l /\ job'[i] = job[i] /\ mem'[i] = b
      /\ at'[i] = at[i] /\ editorCalls'[i] = {}
  BY <1>1, BecomesSo
<1>3. Shape(i)'
  BY <1>2, FineNext
<1> QED BY <1>2, <1>3 DEF Alters, GoesOn

LEMMA GuardMoves ==
    ASSUME EditorTypeOK, NEW i \in Invocations, Shape(i), NEW from, NEW to,
           \/ from = "load" /\ to = "heartbeat"
           \/ from = "cbload" /\ to = "cbsave",
           GuardedLoad(i, from, to)
    PROVE  /\ Alters(i) /\ Calm /\ UNCHANGED <<chain, repo, unseen>>
           /\ pc[i] = from
           /\ \/ Leaves(i)
              \/ Describes(record, job[i].msg) /\ GoesOn(i, to, record)
<1>1. PICK v \in {record, NoBlob} :
         /\ Load(v)
         /\ IF Describes(v, job[i].msg)
              THEN /\ mem' = [mem EXCEPT ![i] = v]
                   /\ Goto(i, to)
                   /\ UNCHANGED <<job, at, editorCalls>>
              ELSE LeaveStep(i)
  BY DEF GuardedLoad
<1>2. Calm /\ v \in Blob
  BY <1>1, LoadMoves
<1>3. UNCHANGED <<chain, repo, unseen>> /\ pc[i] = from
  BY DEF GuardedLoad, At
<1>4. CASE ~Describes(v, job[i].msg)
  <2>1. LeaveStep(i)
    BY <1>1, <1>4
  <2> QED BY <1>2, <1>3, <2>1, LeaveMoves
<1>5. CASE Describes(v, job[i].msg)
  <2>1. v = record
    BY <1>1, <1>5 DEF Describes, NoBlob
  <2>2. editorCalls[i] = {} /\ job[i].role = "worker"
    BY <1>3 DEF Shape, Single, WorkerSteps, Callback
  <2>3. Becomes(i, to, job[i], v, at[i], {})
    BY <1>1, <1>5, <2>2 DEF Becomes, Sets, Goto
  <2>4. to \in Labels /\ Fine(i, to, job[i], v, at[i], {})
    BY <1>3, <2>2 DEF Fine, Shape, Single, WorkerSteps, LoopSteps, Callback, Labels
  <2>5. Alters(i) /\ GoesOn(i, to, v)
    BY <1>2, <2>3, <2>4, GoMoves
  <2> QED BY <1>2, <1>3, <1>5, <2>1, <2>5
<1> QED BY <1>4, <1>5

LEMMA HeartbeatMoves ==
    ASSUME EditorTypeOK, NEW i \in Invocations, Shape(i), Heartbeat(i)
    PROVE  /\ pc[i] = "heartbeat" /\ Alters(i) /\ Saves(HeartbeatBlob(mem[i]))
           /\ GoesOn(i, "resume", mem[i]) /\ UNCHANGED <<start, queue, repo>>
<1>1. pc[i] = "heartbeat" /\ editorCalls[i] = {} /\ UNCHANGED <<start, queue, repo>>
  BY DEF Heartbeat, At, Shape
<1>2. mem[i] \in Blob /\ HeartbeatBlob(mem[i]) \in Blob
  BY TypesApart, BlobTypes DEF ProcTyped
<1>3. Saves(HeartbeatBlob(mem[i]))
  BY <1>2, SaveMoves DEF Heartbeat
<1>4. Becomes(i, "resume", job[i], mem[i], at[i], {})
  BY <1>1 DEF Becomes, Sets, Goto, Heartbeat
<1>5. "resume" \in Labels /\ Fine(i, "resume", job[i], mem[i], at[i], {})
  BY <1>1 DEF Fine, Shape, Single, WorkerSteps, LoopSteps, Callback, Labels
<1> QED BY <1>1, <1>2, <1>3, <1>4, <1>5, GoMoves

LEMMA ReloadMoves ==
    ASSUME EditorTypeOK, NEW i \in Invocations, Shape(i), Reload(i)
    PROVE  /\ pc[i] = "reload" /\ Alters(i) /\ Calm /\ UNCHANGED <<chain, repo, unseen>>
           /\ \/ Leaves(i)
              \/ /\ record.status = "running"
                 /\ GoesOn(i, IF Exhausted(i) THEN "giveup" ELSE "publish", record)
<1>1. PICK v \in {record, NoBlob} :
         /\ Load(v)
         /\ IF v.status = "running"
              THEN /\ mem' = [mem EXCEPT ![i] = v]
                   /\ Goto(i, IF Exhausted(i) THEN "giveup" ELSE "publish")
                   /\ UNCHANGED <<job, at, editorCalls>>
              ELSE LeaveStep(i)
  BY DEF Reload
<1>2. Calm /\ v \in Blob
  BY <1>1, LoadMoves
<1>3. UNCHANGED <<chain, repo, unseen>> /\ pc[i] = "reload"
  BY DEF Reload, At
<1>4. CASE v.status # "running"
  <2>1. LeaveStep(i)
    BY <1>1, <1>4
  <2> QED BY <1>2, <1>3, <2>1, LeaveMoves
<1>5. CASE v.status = "running"
  <2> DEFINE to == IF Exhausted(i) THEN "giveup" ELSE "publish"
  <2>1. v = record
    BY <1>1, <1>5 DEF NoBlob
  <2>2. editorCalls[i] = {} /\ job[i].role = "worker" /\ to \in {"giveup", "publish"}
    BY <1>3 DEF Shape, Single, WorkerSteps
  <2>3. Becomes(i, to, job[i], v, at[i], {})
    BY <1>1, <1>5, <2>2 DEF Becomes, Sets, Goto
  <2> HIDE DEF to
  <2>4. to \in Labels /\ Fine(i, to, job[i], v, at[i], {})
    BY <1>3, <2>2 DEF Fine, Shape, Single, WorkerSteps, LoopSteps, Callback, Labels
  <2>5. Alters(i) /\ GoesOn(i, to, v)
    BY <1>2, <2>3, <2>4, GoMoves
  <2> QED BY <1>2, <1>3, <1>5, <2>1, <2>5 DEF to
<1> QED BY <1>4, <1>5

LEMMA DeadLetterMoves ==
    ASSUME EditorTypeOK, NEW i \in Invocations, NEW l, DeadLetter(i, l)
    PROVE  /\ pc[i] = l /\ Alters(i) /\ Saves(Failed(mem[i]))
           /\ Leaves(i) /\ UNCHANGED <<start, queue, repo>>
<1>1. Failed(mem[i]) \in Blob
  BY TypesApart, BlobTypes DEF ProcTyped
<1> QED BY <1>1, SaveMoves, LeaveMoves DEF DeadLetter, At

LEMMA MessageTypes ==
    /\ \A n, r \in Nat : StepMessage(n, r) \in Message
    /\ \A m \in Message : Undelivered(m) \in Message
  BY DEF Message, StepMessage, Undelivered

LEMMA WorkerMessage ==
    ASSUME EditorTypeOK, NEW i \in Invocations, Single(i)
    PROVE  job[i].msg \in Message
  BY DEF EditorTypeOK, Single, Job

LEMMA RechainMoves ==
    ASSUME EditorTypeOK, NEW i \in Invocations, Shape(i), Rechain(i)
    PROVE  /\ pc[i] = "publish" /\ Alters(i) /\ Calm /\ Leaves(i)
           /\ UNCHANGED <<record, start, attempts, repo, unseen>>
           /\ StepMessage(mem[i].steps, NewRetry(i)) \in Message
           /\ \/ queue' = queue
              \/ queue' = queue \cup {StepMessage(mem[i].steps, NewRetry(i))}
<1>1. pc[i] = "publish" /\ Single(i) /\ mem[i] \in Blob
  BY TypesApart DEF Rechain, At, Shape, WorkerSteps, ProcTyped
<1>2. job[i].msg \in Message
  BY <1>1, WorkerMessage
<1>3. mem[i].steps \in Nat /\ NewRetry(i) \in Nat
  BY <1>1, <1>2 DEF NewRetry, Blob, Message
<1>4. Calm
  BY StrikeMoves, StrikeType DEF Rechain, Calm, EditorTypeOK, Hazards
<1>5. Alters(i) /\ Leaves(i)
  BY LeaveMoves DEF Rechain
<1> QED BY <1>1, <1>3, <1>4, <1>5, MessageTypes DEF Rechain

-----------------------------------------------------------------------------
(* The loop of a run.                                                        *)

LEMMA LoopBounds ==
    ASSUME EditorTypeOK, NEW i \in Invocations, NEW v \in Blob,
           job[i].role = "push" \/ Single(i)
    PROVE  Capped(i, v) \in Nat /\ Overall(i, v) \in Nat
<1>1. /\ job[i] \in Job /\ v.steps \in Nat /\ v.overall \in Nat
      /\ EDITOR_HARD_MAX_STEPS \in Nat /\ EDITOR_DEFAULT_STEPS \in Nat
  BY EditorAssumption DEF EditorTypeOK, Blob
<1>2. ~Single(i) => job[i].limit \in Nat
  BY <1>1 DEF Job, Single
<1> QED BY <1>1, <1>2 DEF Asked, Capped, Overall, Least

\* The process takes up the record at its next step.
TakesUp(i) ==
    /\ record.status \in {"running", "failed"} /\ record.steps < Capped(i, record)
    /\ pc'[i] = "turn" /\ job'[i] = job[i]
    /\ mem'[i] \in Blob /\ mem'[i].steps = record.steps /\ mem'[i].written = record.written
    /\ mem'[i].answer = record.answer
    /\ at'[i] = [step |-> record.steps + 1, capped |-> Capped(i, record)]
    /\ editorCalls'[i] = {}
    /\ attempts' = IF Single(i) THEN attempts + 1 ELSE attempts

LEMMA ResumeMoves ==
    ASSUME EditorTypeOK, NEW i \in Invocations, Shape(i), Resume(i)
    PROVE  /\ pc[i] = "resume" /\ Alters(i) /\ Calm /\ attempts' \in Nat
           /\ UNCHANGED <<record, start, queue, repo, unseen>>
           /\ \/ TakesUp(i)
              \/ /\ attempts' = attempts
                 /\ \/ record.status = "done" /\ Returns(i, record.steps)
                    \/ record.steps >= Capped(i, record) /\ Returns(i, record.steps)
                    \/ Returns(i, mem[i].steps)
<1>1. PICK v \in {record, NoBlob} :
         /\ Load(v)
         /\ \/ /\ v.status \in {"running", "failed"}
               /\ v.steps < Capped(i, v)
               /\ mem' = [mem EXCEPT ![i] = [v EXCEPT !.overall = Overall(i, v)]]
               /\ at' = [at EXCEPT ![i] = [step |-> v.steps + 1,
                                           capped |-> Capped(i, v)]]
               /\ Goto(i, "turn")
               /\ attempts' = IF Single(i) THEN attempts + 1 ELSE attempts
               /\ UNCHANGED <<job, editorCalls>>
            \/ /\ v.status = "done" \/ v.steps >= Capped(i, v)
               /\ v.status # "none"
               /\ Result(i, v.steps)
               /\ UNCHANGED attempts
            \/ /\ v.status = "none"
               /\ Result(i, mem[i].steps)
               /\ UNCHANGED attempts
  BY DEF Resume
<1>2. Calm /\ v \in Blob
  BY <1>1, LoadMoves
<1>3. UNCHANGED <<record, start, queue, repo, unseen>> /\ pc[i] = "resume" /\ attempts \in Nat
  BY <1>1 DEF Resume, At, EditorTypeOK
<1>4. /\ editorCalls[i] = {} /\ mem[i] \in Blob /\ mem[i].steps \in Nat /\ v.steps \in Nat
      /\ job[i].role = "push" \/ (Single(i) /\ job[i].msg.kind = "step")
      /\ job[i].role = "push" => job[i].limit \in PushLimits
  BY <1>2, <1>3, TypesApart DEF Shape, ProcTyped, Blob
<1>5. v.status # "none" => v = record
  BY <1>1 DEF NoBlob
<1>6. CASE /\ v.status \in {"running", "failed"}
           /\ v.steps < Capped(i, v)
           /\ mem' = [mem EXCEPT ![i] = [v EXCEPT !.overall = Overall(i, v)]]
           /\ at' = [at EXCEPT ![i] = [step |-> v.steps + 1,
                                       capped |-> Capped(i, v)]]
           /\ Goto(i, "turn")
           /\ attempts' = IF Single(i) THEN attempts + 1 ELSE attempts
           /\ UNCHANGED <<job, editorCalls>>
  <2> DEFINE b == [v EXCEPT !.overall = Overall(i, v)]
             a == [step |-> v.steps + 1, capped |-> Capped(i, v)]
  <2>1. v = record /\ Capped(i, v) \in Nat /\ Overall(i, v) \in Nat
    BY <1>2, <1>4, <1>5, <1>6, LoopBounds
  <2>2. b \in Blob /\ b.steps = v.steps /\ b.written = v.written /\ b.answer = v.answer
    <3>1. b \in Blob
      BY <1>2, <2>1, BlobTypes
    <3> QED BY <1>2, <3>1 DEF Blob
  <2>3. a \in Place /\ a.step > 0
    BY <1>4, <2>1 DEF Place
  <2>4. Becomes(i, "turn", job[i], b, a, {})
    BY <1>4, <1>6 DEF Becomes, Sets, Goto
  <2> HIDE DEF a, b
  <2>5. Fine(i, "turn", job[i], b, a, {}) /\ "turn" \in Labels
    BY <1>4, <2>3 DEF Fine, Single, WorkerSteps, LoopSteps, Callback, Labels
  <2>6. ProcTyped /\ job[i] \in Job
    BY TypesApart DEF ProcTyped
  <2>7. /\ ProcTyped' /\ OthersStay(i) /\ pc'[i] = "turn" /\ job'[i] = job[i] /\ mem'[i] = b
        /\ at'[i] = a /\ editorCalls'[i] = {}
    BY <2>2, <2>3, <2>4, <2>5, <2>6, BecomesSo
  <2>8. Shape(i)'
    BY <2>5, <2>7, FineNext
  <2>9. TakesUp(i)
    BY <1>6, <2>1, <2>2, <2>7 DEF TakesUp, a
  <2> QED BY <1>2, <1>3, <1>6, <2>7, <2>8, <2>9 DEF Alters
<1>7. CASE /\ v.status = "done" \/ v.steps >= Capped(i, v)
           /\ v.status # "none"
           /\ Result(i, v.steps)
           /\ UNCHANGED attempts
  <2>1. v = record
    BY <1>5, <1>7
  <2>2. Alters(i) /\ Returns(i, v.steps)
    BY <1>3, <1>4, <1>7, ResultMoves
  <2> QED BY <1>2, <1>3, <1>7, <2>1, <2>2
<1>8. CASE /\ v.status = "none"
           /\ Result(i, mem[i].steps)
           /\ UNCHANGED attempts
  <2>1. Alters(i) /\ Returns(i, mem[i].steps)
    BY <1>3, <1>4, <1>8, ResultMoves
  <2> QED BY <1>2, <1>3, <1>8, <2>1
<1> QED BY <1>1, <1>6, <1>7, <1>8

LEMMA LoopPlace ==
    ASSUME EditorTypeOK, NEW i \in Invocations, Shape(i), pc[i] \in LoopSteps
    PROVE  /\ mem[i] \in Blob /\ at[i] \in Place /\ at[i].step \in Nat \ {0} /\ at[i].capped \in Nat
           /\ job[i].role = "push" \/ (Single(i) /\ job[i].msg.kind = "step")
           /\ job[i].role = "push" => job[i].limit \in PushLimits
  BY TypesApart DEF Shape, ProcTyped, Place

LEMMA TurnFailsMoves ==
    ASSUME EditorTypeOK, NEW i \in Invocations, Shape(i), TurnFails(i)
    PROVE  /\ pc[i] = "turn" /\ Alters(i) /\ Returns(i, at[i].step - 1)
           /\ Saves(Running(mem[i], at[i].step - 1)) /\ UNCHANGED <<start, queue, repo>>
<1>1. pc[i] = "turn" /\ pc[i] \in LoopSteps /\ editorCalls[i] = {}
  BY DEF TurnFails, At, LoopSteps, Shape
<1>2. mem[i] \in Blob /\ at[i].step - 1 \in Nat
  BY <1>1, LoopPlace
<1>3. Running(mem[i], at[i].step - 1) \in Blob
  BY <1>2, BlobTypes
<1>4. Alters(i) /\ Returns(i, at[i].step - 1)
  BY <1>1, <1>2, ResultMoves DEF TurnFails
<1> QED BY <1>1, <1>3, <1>4, SaveMoves DEF TurnFails

\* The run's next turn, with the blob b.
NextTurn(i, b) ==
    /\ pc'[i] = "turn" /\ job'[i] = job[i] /\ mem'[i] = b /\ at[i].step < at[i].capped
    /\ at'[i].step = at[i].step + 1 /\ at'[i].capped = at[i].capped
    /\ editorCalls'[i] = {}

LEMMA StepOnMoves ==
    ASSUME EditorTypeOK, NEW i \in Invocations, Shape(i), pc[i] \in LoopSteps, editorCalls[i] = {},
           NEW b \in Blob, StepOn(i, b)
    PROVE  /\ Alters(i) /\ Saves(Running(b, at[i].step))
           /\ Returns(i, at[i].step) \/ NextTurn(i, b)
<1>1. /\ mem[i] \in Blob /\ at[i] \in Place /\ at[i].step \in Nat \ {0} /\ at[i].capped \in Nat
      /\ job[i].role = "push" \/ (Single(i) /\ job[i].msg.kind = "step")
      /\ job[i].role = "push" => job[i].limit \in PushLimits
  BY LoopPlace
<1>2. Saves(Running(b, at[i].step))
  <2>1. Running(b, at[i].step) \in Blob
    BY <1>1, BlobTypes
  <2> QED BY <2>1, SaveMoves DEF StepOn
<1>3. CASE ~(at[i].step < at[i].capped)
  <2>1. Result(i, at[i].step)
    BY <1>3 DEF StepOn
  <2>2. Alters(i) /\ Returns(i, at[i].step)
    BY <1>1, <2>1, ResultMoves
  <2> QED BY <1>2, <2>2
<1>4. CASE at[i].step < at[i].capped
  <2> DEFINE a == [at[i] EXCEPT !.step = at[i].step + 1]
  <2>1. a \in Place /\ a.step = at[i].step + 1 /\ a.capped = at[i].capped /\ a.step > 0
    BY <1>1 DEF Place
  <2>2. Becomes(i, "turn", job[i], b, a, {})
    BY <1>4 DEF StepOn, Becomes, Sets, Goto
  <2> HIDE DEF a
  <2>3. Fine(i, "turn", job[i], b, a, {}) /\ "turn" \in Labels
    BY <1>1, <2>1 DEF Fine, Single, WorkerSteps, LoopSteps, Callback, Labels
  <2>4. ProcTyped /\ job[i] \in Job
    BY TypesApart DEF ProcTyped
  <2>5. /\ ProcTyped' /\ OthersStay(i) /\ pc'[i] = "turn" /\ job'[i] = job[i] /\ mem'[i] = b
        /\ at'[i] = a /\ editorCalls'[i] = {}
    BY <2>1, <2>2, <2>3, <2>4, BecomesSo
  <2>6. Shape(i)'
    BY <2>3, <2>5, FineNext
  <2> QED BY <1>2, <1>4, <2>1, <2>5, <2>6 DEF Alters, NextTurn
<1> QED BY <1>3, <1>4

LEMMA TurnVerifiesMoves ==
    ASSUME EditorTypeOK, NEW i \in Invocations, Shape(i), TurnVerifies(i)
    PROVE  \E b \in Blob :
           /\ b.written = mem[i].written /\ b.answer = mem[i].answer
           /\ pc[i] \in LoopSteps /\ editorCalls[i] = {}
           /\ Alters(i) /\ Saves(Running(b, at[i].step)) /\ UNCHANGED <<start, queue, repo>>
           /\ Returns(i, at[i].step) \/ NextTurn(i, b)
<1> DEFINE b == [mem[i] EXCEPT !.pending = TRUE]
<1>1. pc[i] \in LoopSteps /\ editorCalls[i] = {} /\ UNCHANGED <<start, queue, repo>>
  BY DEF TurnVerifies, At, LoopSteps, Shape
<1>2. mem[i] \in Blob
  BY <1>1, LoopPlace
<1>3. b \in Blob /\ b.written = mem[i].written /\ b.answer = mem[i].answer
  <2>1. b \in Blob
    BY <1>2, BlobTypes
  <2> QED BY <1>2, <2>1 DEF Blob
<1>4. StepOn(i, b)
  BY DEF TurnVerifies
<1> HIDE DEF b
<1> QED BY <1>1, <1>3, <1>4, StepOnMoves

LEMMA TurnEndsMoves ==
    ASSUME EditorTypeOK, NEW i \in Invocations, Shape(i), TurnEnds(i)
    PROVE  \E b \in Blob :
           /\ b.written = mem[i].written /\ b.answer = mem[i].answer
           /\ pc[i] \in LoopSteps /\ editorCalls[i] = {}
           /\ Alters(i) /\ Saves(Running(b, at[i].step)) /\ UNCHANGED <<start, queue, repo>>
           /\ Returns(i, at[i].step) \/ NextTurn(i, b)
<1>1. pc[i] \in LoopSteps /\ editorCalls[i] = {} /\ UNCHANGED <<start, queue, repo>>
  BY DEF TurnEnds, At, LoopSteps
<1>2. mem[i] \in Blob
  BY <1>1, LoopPlace
<1>3. PICK repeat \in BOOLEAN : StepOn(i, [mem[i] EXCEPT !.repeats = IF repeat THEN mem[i].repeats + 1 ELSE 0])
  BY DEF TurnEnds
<1> DEFINE b == [mem[i] EXCEPT !.repeats = IF repeat THEN mem[i].repeats + 1 ELSE 0]
<1>4. b \in Blob /\ b.written = mem[i].written /\ b.answer = mem[i].answer
  <2>1. (IF repeat THEN mem[i].repeats + 1 ELSE 0) \in Nat
    BY <1>2 DEF Blob
  <2>2. b \in Blob
    BY <1>2, <2>1, BlobTypes
  <2> QED BY <1>2, <2>2 DEF Blob
<1>5. StepOn(i, b)
  BY <1>3
<1> HIDE DEF b
<1> QED BY <1>1, <1>4, <1>5, StepOnMoves

LEMMA TurnAnswersMoves ==
    ASSUME EditorTypeOK, NEW i \in Invocations, Shape(i), TurnAnswers(i)
    PROVE  \E b \in Blob :
           /\ b.written = mem[i].written /\ ClaimBacked(b)
           /\ b.steps = at[i].step /\ b.status = "done"
           /\ pc[i] = "turn" /\ Saves(b)
           /\ Alters(i) /\ Returns(i, at[i].step) /\ UNCHANGED <<start, queue, repo>>
<1>1. pc[i] = "turn" /\ pc[i] \in LoopSteps /\ editorCalls[i] = {} /\ UNCHANGED <<start, queue, repo>>
  BY DEF TurnAnswers, At, LoopSteps, Shape
<1>2. mem[i] \in Blob /\ at[i].step \in Nat
  BY <1>1, LoopPlace
<1>3. PICK draft, corrected \in {"honest", "claim"} :
         LET text == IF Corrects(i, draft) THEN corrected ELSE draft
             b == [mem[i] EXCEPT !.answer = Final(i, text),
                                 !.pending = mem[i].pending \/ Corrects(i, draft)]
         IN  SaveRecord([Running(b, at[i].step) EXCEPT !.status = "done"])
  BY DEF TurnAnswers
<1> DEFINE text == IF Corrects(i, draft) THEN corrected ELSE draft
           later == mem[i].pending \/ Corrects(i, draft)
           m == [mem[i] EXCEPT !.answer = Final(i, text), !.pending = later]
           b == [Running(m, at[i].step) EXCEPT !.status = "done"]
<1>4. Final(i, text) \in {"honest", "claim", "flagged"} /\ (Final(i, text) = "claim" => mem[i].written # <<>>)
  BY DEF Final
<1>5. later \in BOOLEAN
  <2>1. mem[i].pending \in BOOLEAN
    BY <1>2 DEF Blob
  <2> QED BY <2>1 DEF Corrects
<1> HIDE DEF text, later
<1>6. m \in Blob /\ m.written = mem[i].written /\ m.answer = Final(i, text)
  BY <1>2, <1>4, <1>5 DEF Blob
<1>7. SaveRecord(b)
  BY <1>3 DEF text, later
<1> HIDE DEF m
<1>8. b \in Blob
  BY <1>2, <1>6, BlobTypes
<1>9. /\ b.written = mem[i].written /\ b.answer = Final(i, text) /\ b.steps = at[i].step
      /\ b.status = "done"
  BY <1>2, <1>6 DEF Running, Blob
<1> HIDE DEF b
<1>10. Saves(b)
  BY <1>7, <1>8, SaveMoves
<1>11. Alters(i) /\ Returns(i, at[i].step)
  BY <1>1, <1>2, ResultMoves DEF TurnAnswers
<1> QED BY <1>1, <1>4, <1>8, <1>9, <1>10, <1>11 DEF ClaimBacked

\* A step among the calls of a turn: what is in memory and in flight afterwards.
InTurn(i, b, C) ==
    /\ pc'[i] = "calls" /\ job'[i] = job[i] /\ at'[i] = at[i] /\ mem'[i] = b /\ editorCalls'[i] = C

LEMMA InTurnMoves ==
    ASSUME EditorTypeOK, NEW i \in Invocations, Shape(i), pc[i] \in LoopSteps,
           NEW b \in Blob, NEW C \in SUBSET WriteCall, Becomes(i, "calls", job[i], b, at[i], C)
    PROVE  Alters(i) /\ InTurn(i, b, C)
<1>1. /\ at[i] \in Place /\ at[i].step > 0
      /\ job[i].role = "push" \/ (Single(i) /\ job[i].msg.kind = "step")
      /\ job[i].role = "push" => job[i].limit \in PushLimits
  BY LoopPlace
<1>2. Fine(i, "calls", job[i], b, at[i], C) /\ "calls" \in Labels
  BY <1>1 DEF Fine, Single, WorkerSteps, LoopSteps, Callback, Labels
<1>3. ProcTyped /\ job[i] \in Job
  BY TypesApart DEF ProcTyped
<1>4. /\ ProcTyped' /\ OthersStay(i) /\ pc'[i] = "calls" /\ job'[i] = job[i] /\ mem'[i] = b
      /\ at'[i] = at[i] /\ editorCalls'[i] = C
  BY <1>1, <1>2, <1>3, BecomesSo
<1>5. Shape(i)'
  BY <1>2, <1>4, FineNext
<1> QED BY <1>4, <1>5 DEF Alters, InTurn

\* The calls a turn starts with.
Fresh(i, C) ==
    /\ \A c \in C : /\ c.sha = NoBase /\ (c.touched <=> c.file \in Listed(mem[i]))
                    /\ UnderCaps(mem[i], c.file)
    /\ IsFiniteSet({c.file : c \in C}) /\ Cardinality({c.file : c \in C}) <= BatchSize

LEMMA TurnCallsMoves ==
    ASSUME EditorTypeOK, NEW i \in Invocations, Shape(i), TurnCalls(i)
    PROVE  \E C \in SUBSET WriteCall :
           /\ Fresh(i, C) /\ pc[i] = "turn" /\ Alters(i) /\ InTurn(i, mem[i], C)
           /\ UNCHANGED <<chain, repo, unseen, spent>>
<1>1. pc[i] = "turn" /\ pc[i] \in LoopSteps /\ UNCHANGED <<chain, repo, unseen, spent>>
  BY DEF TurnCalls, At, LoopSteps
<1>2. PICK n \in 0 .. BatchSize : \E file \in [1 .. n -> Files] : \E named \in [1 .. n -> BOOLEAN] :
         editorCalls' = [editorCalls EXCEPT ![i] =
              {[n |-> k, file |-> file[k], sha |-> NoBase,
                base |-> IF named[k] THEN branch[file[k]] ELSE NoBase,
                prior |-> mem[i].writes[file[k]],
                touched |-> file[k] \in Listed(mem[i])] :
                  k \in {j \in 1 .. n : UnderCaps(mem[i], file[j])}}]
  BY DEF TurnCalls
<1>3. PICK file \in [1 .. n -> Files] : \E named \in [1 .. n -> BOOLEAN] :
         editorCalls' = [editorCalls EXCEPT ![i] =
              {[n |-> k, file |-> file[k], sha |-> NoBase,
                base |-> IF named[k] THEN branch[file[k]] ELSE NoBase,
                prior |-> mem[i].writes[file[k]],
                touched |-> file[k] \in Listed(mem[i])] :
                  k \in {j \in 1 .. n : UnderCaps(mem[i], file[j])}}]
  BY <1>2
<1>4. PICK named \in [1 .. n -> BOOLEAN] :
         editorCalls' = [editorCalls EXCEPT ![i] =
              {[n |-> k, file |-> file[k], sha |-> NoBase,
                base |-> IF named[k] THEN branch[file[k]] ELSE NoBase,
                prior |-> mem[i].writes[file[k]],
                touched |-> file[k] \in Listed(mem[i])] :
                  k \in {j \in 1 .. n : UnderCaps(mem[i], file[j])}}]
  BY <1>3
<1> DEFINE J == {j \in 1 .. n : UnderCaps(mem[i], file[j])}
           call(k) == [n |-> k, file |-> file[k], sha |-> NoBase,
                       base |-> IF named[k] THEN branch[file[k]] ELSE NoBase,
                       prior |-> mem[i].writes[file[k]],
                       touched |-> file[k] \in Listed(mem[i])]
           C == {call(k) : k \in J}
<1>5. mem[i] \in Blob /\ branch \in [Files -> Nat] /\ BatchSize \in Nat \ {0}
  BY <1>1, LoopPlace, EditorAssumption DEF EditorTypeOK
<1>6. \A k \in J : call(k) \in WriteCall /\ call(k).sha = NoBase /\ call(k).file = file[k]
                   /\ (call(k).touched <=> file[k] \in Listed(mem[i]))
  <2> SUFFICES ASSUME NEW k \in J
               PROVE  call(k) \in WriteCall /\ call(k).sha = NoBase /\ call(k).file = file[k]
                      /\ (call(k).touched <=> file[k] \in Listed(mem[i]))
    OBVIOUS
  <2>1. k \in 1 .. BatchSize /\ file[k] \in Files /\ named[k] \in BOOLEAN
    BY <1>5
  <2>2. mem[i].writes[file[k]] \in Nat /\ branch[file[k]] \in Nat
    BY <1>5, <2>1 DEF Blob
  <2>3. (IF named[k] THEN branch[file[k]] ELSE NoBase) \in {NoBase} \cup Nat
    BY <2>2
  <2> DEFINE base == IF named[k] THEN branch[file[k]] ELSE NoBase
             prior == mem[i].writes[file[k]]
             touched == file[k] \in Listed(mem[i])
             entry == [n |-> k, file |-> file[k], sha |-> NoBase, base |-> base,
                       prior |-> prior, touched |-> touched]
  <2>4. call(k) = entry /\ touched \in BOOLEAN /\ base \in {NoBase} \cup Nat /\ prior \in Nat
    BY <2>2, <2>3
  <2>5. entry.sha = NoBase /\ entry.file = file[k] /\ entry.touched = touched
    OBVIOUS
  <2>6. entry \in WriteCall
    <3> HIDE DEF base, prior, touched, call
    <3> QED BY <2>1, <2>4 DEF WriteCall
  <2> HIDE DEF entry, call
  <2> QED BY <2>4, <2>5, <2>6
<1>7. Fresh(i, C)
  <2>1. \A c \in C : /\ c.sha = NoBase /\ (c.touched <=> c.file \in Listed(mem[i]))
                     /\ UnderCaps(mem[i], c.file)
    <3> SUFFICES ASSUME NEW k \in J
                 PROVE  /\ call(k).sha = NoBase /\ (call(k).touched <=> call(k).file \in Listed(mem[i]))
                        /\ UnderCaps(mem[i], call(k).file)
      OBVIOUS
    <3> QED BY <1>6
  <2>2. {c.file : c \in C} = {file[k] : k \in J}
    <3> HIDE DEF call
    <3> QED BY <1>6
  <2>3. IsFiniteSet(J) /\ Cardinality(J) <= BatchSize
    <3>1. IsFiniteSet(1 .. n) /\ Cardinality(1 .. n) <= BatchSize /\ Cardinality(1 .. n) \in Nat
      <4>1. 1 \in Int /\ n \in Int /\ n <= BatchSize /\ n >= 0
        BY <1>5
      <4>2. IsFiniteSet(1 .. n) /\ Cardinality(1 .. n) = IF 1 > n THEN 0 ELSE n - 1 + 1
        BY <4>1, FS_Interval
      <4> QED BY <1>5, <4>1, <4>2
    <3>2. J \in SUBSET (1 .. n)
      OBVIOUS
    <3>3. IsFiniteSet(J) /\ Cardinality(J) <= Cardinality(1 .. n)
      BY <3>1, <3>2, FS_Subset
    <3>4. Cardinality(J) \in Nat
      BY <3>3, FS_CardinalityType
    <3> QED BY <1>5, <3>1, <3>3, <3>4
  <2>4. [k \in J |-> file[k]] \in Surjection(J, {file[k] : k \in J})
    BY DEF Surjection
  <2>5. IsFiniteSet({file[k] : k \in J}) /\ Cardinality({file[k] : k \in J}) <= Cardinality(J)
    BY <2>3, <2>4, FS_Surjection
  <2>6. Cardinality({file[k] : k \in J}) \in Nat /\ Cardinality(J) \in Nat
    BY <2>3, <2>5, FS_CardinalityType
  <2>7. Cardinality({file[k] : k \in J}) <= BatchSize
    <3> HIDE DEF J
    <3> QED BY <1>5, <2>3, <2>5, <2>6
  <2> QED BY <2>1, <2>2, <2>5, <2>7 DEF Fresh
<1>8. C \in SUBSET WriteCall
  BY <1>6
<1>9. Becomes(i, "calls", job[i], mem[i], at[i], C)
  BY <1>4 DEF TurnCalls, Becomes, Sets, Goto
<1> HIDE DEF C
<1>10. Alters(i) /\ InTurn(i, mem[i], C)
  BY <1>1, <1>5, <1>8, <1>9, InTurnMoves
<1> QED BY <1>1, <1>7, <1>8, <1>10

LEMMA CallTypes ==
    ASSUME EditorTypeOK, NEW i \in Invocations, NEW c \in editorCalls[i]
    PROVE  /\ c \in WriteCall /\ c.file \in Files /\ branch[c.file] \in Nat
           /\ [c EXCEPT !.sha = branch[c.file]] \in WriteCall
           /\ editorCalls[i] \in SUBSET WriteCall
<1>1. c \in WriteCall /\ editorCalls[i] \in SUBSET WriteCall /\ branch \in [Files -> Nat]
  BY DEF EditorTypeOK
<1>2. c.file \in Files /\ branch[c.file] \in Nat
  BY <1>1 DEF WriteCall
<1>3. [c EXCEPT !.sha = branch[c.file]] \in WriteCall
  BY <1>1, <1>2 DEF WriteCall
<1> QED BY <1>1, <1>2, <1>3

Later(c) == [c EXCEPT !.sha = branch[c.file]]

LEMMA WriteReadsMoves ==
    ASSUME EditorTypeOK, NEW i \in Invocations, Shape(i), NEW c \in editorCalls[i], WriteReads(i, c)
    PROVE  /\ pc[i] = "calls" /\ c.sha = NoBase /\ Alters(i)
           /\ UNCHANGED <<chain, repo, unseen, spent>>
           /\ \/ InTurn(i, mem[i], editorCalls[i] \ {c})
              \/ InTurn(i, Count(mem[i], c), editorCalls[i] \ {c})
              \/ BaseHolds(c) /\ InTurn(i, mem[i], (editorCalls[i] \ {c}) \cup {Later(c)})
<1>1. /\ pc[i] = "calls" /\ pc[i] \in LoopSteps /\ c.sha = NoBase
      /\ UNCHANGED <<chain, repo, unseen, spent>>
  BY DEF WriteReads, At, LoopSteps
<1>2. /\ mem[i] \in Blob /\ c \in WriteCall /\ Later(c) \in WriteCall
      /\ editorCalls[i] \in SUBSET WriteCall
  BY <1>1, LoopPlace, CallTypes DEF Later
<1>3. Count(mem[i], c) \in Blob
  BY <1>2, CountTypes
<1>4. CASE Drop(i, c) /\ UNCHANGED mem
  <2>1. Becomes(i, "calls", job[i], mem[i], at[i], editorCalls[i] \ {c})
    BY <1>1, <1>4 DEF WriteReads, Drop, Becomes, Sets
  <2> QED BY <1>1, <1>2, <2>1, InTurnMoves
<1>5. CASE Drop(i, c) /\ mem' = [mem EXCEPT ![i] = Count(mem[i], c)]
  <2>1. Becomes(i, "calls", job[i], Count(mem[i], c), at[i], editorCalls[i] \ {c})
    BY <1>1, <1>5 DEF WriteReads, Drop, Becomes, Sets
  <2> QED BY <1>1, <1>2, <1>3, <2>1, InTurnMoves
<1>6. CASE /\ BaseHolds(c) /\ UNCHANGED mem
           /\ editorCalls' = [editorCalls EXCEPT ![i] = (editorCalls[i] \ {c}) \cup {Later(c)}]
  <2>1. Becomes(i, "calls", job[i], mem[i], at[i], (editorCalls[i] \ {c}) \cup {Later(c)})
    BY <1>1, <1>6 DEF WriteReads, Becomes, Sets
  <2>2. (editorCalls[i] \ {c}) \cup {Later(c)} \in SUBSET WriteCall
    BY <1>2
  <2> QED BY <1>1, <1>2, <1>6, <2>1, <2>2, InTurnMoves
<1> QED BY <1>4, <1>5, <1>6 DEF WriteReads, Later

LEMMA WritePutsMoves ==
    ASSUME EditorTypeOK, NEW i \in Invocations, Shape(i), NEW c \in editorCalls[i], WritePuts(i, c)
    PROVE  /\ pc[i] = "calls" /\ c.sha # NoBase /\ Alters(i) /\ UNCHANGED chain /\ Calm
           /\ unseen' \subseteq Files /\ committed' \subseteq Files /\ branch' \in [Files -> Nat]
           /\ \/ /\ InTurn(i, mem[i], editorCalls[i] \ {c})
                 /\ UNCHANGED <<repo, unseen>>
              \/ /\ InTurn(i, Count(mem[i], c), editorCalls[i] \ {c})
                 /\ Accepts(c) /\ committed' = committed \cup {c.file} /\ unseen' = unseen
                 /\ \A f \in Files \ {c.file} : branch'[f] = branch[f]
              \/ /\ InTurn(i, mem[i], editorCalls[i] \ {c})
                 /\ Accepts(c) /\ committed' = committed \cup {c.file}
                 /\ unseen' = unseen \cup ({c.file} \ Listed(mem[i]))
                 /\ \A f \in Files \ {c.file} : branch'[f] = branch[f]
<1>1. /\ pc[i] = "calls" /\ pc[i] \in LoopSteps /\ c.sha # NoBase /\ UNCHANGED chain
      /\ unseen \subseteq Files /\ committed \subseteq Files /\ branch \in [Files -> Nat]
      /\ spent \in [Hazards -> Nat]
  BY DEF WritePuts, At, LoopSteps, EditorTypeOK
<1>2. /\ mem[i] \in Blob /\ c \in WriteCall /\ c.file \in Files /\ branch[c.file] \in Nat
      /\ editorCalls[i] \in SUBSET WriteCall
  BY <1>1, LoopPlace, CallTypes
<1>3. Count(mem[i], c) \in Blob
  BY <1>2, CountTypes
<1>4. ASSUME mem' = mem PROVE Alters(i) /\ InTurn(i, mem[i], editorCalls[i] \ {c})
  <2>1. Becomes(i, "calls", job[i], mem[i], at[i], editorCalls[i] \ {c})
    BY <1>1, <1>4 DEF WritePuts, Drop, Becomes, Sets
  <2> QED BY <1>1, <1>2, <2>1, InTurnMoves
<1>5. ASSUME mem' = [mem EXCEPT ![i] = Count(mem[i], c)]
      PROVE  Alters(i) /\ InTurn(i, Count(mem[i], c), editorCalls[i] \ {c})
  <2>1. Becomes(i, "calls", job[i], Count(mem[i], c), at[i], editorCalls[i] \ {c})
    BY <1>1, <1>5 DEF WritePuts, Drop, Becomes, Sets
  <2> QED BY <1>1, <1>2, <1>3, <2>1, InTurnMoves
<1>6. CASE ~Accepts(c) /\ UNCHANGED <<mem, repo, unseen, spent>>
  BY <1>1, <1>4, <1>6 DEF Calm, repo
<1>7. CASE /\ Accepts(c) /\ committed' = committed \cup {c.file}
           /\ branch' = [branch EXCEPT ![c.file] = branch[c.file] + 1]
           /\ \/ mem' = [mem EXCEPT ![i] = Count(mem[i], c)] /\ UNCHANGED <<unseen, spent>>
              \/ /\ Strike("lostput")
                 /\ unseen' = unseen \cup ({c.file} \ Listed(mem[i]))
                 /\ UNCHANGED mem
  <2>1. committed' \subseteq Files /\ branch' \in [Files -> Nat]
        /\ \A f \in Files \ {c.file} : branch'[f] = branch[f]
    BY <1>1, <1>2, <1>7
  <2>2. CASE mem' = [mem EXCEPT ![i] = Count(mem[i], c)] /\ UNCHANGED <<unseen, spent>>
    BY <1>1, <1>5, <1>7, <2>1, <2>2 DEF Calm
  <2>3. CASE /\ Strike("lostput") /\ UNCHANGED mem
             /\ unseen' = unseen \cup ({c.file} \ Listed(mem[i]))
    <3>1. Calm
      BY <2>3, StrikeMoves DEF Hazards
    <3> QED BY <1>1, <1>2, <1>4, <1>7, <2>1, <2>3, <3>1
  <2> QED BY <1>7, <2>2, <2>3
<1> QED BY <1>6, <1>7 DEF WritePuts

-----------------------------------------------------------------------------
(* Delivery, the push, and the death of a process.                           *)

LEMMA DeliverMoves ==
    ASSUME EditorTypeOK, NEW i \in Invocations, Shape(i), NEW m \in queue, Deliver(i, m)
    PROVE  /\ pc[i] = "idle" /\ Alters(i) /\ queue' = queue \ {m}
           /\ UNCHANGED <<record, start, attempts, repo, unseen, spent>>
           /\ pc'[i] = (IF m.kind = "failure" THEN "cbload" ELSE "load")
           /\ job'[i] = [role |-> "worker", msg |-> m] /\ mem'[i] = NoBlob /\ editorCalls'[i] = {}
<1> DEFINE l == IF m.kind = "failure" THEN "cbload" ELSE "load"
           j == [role |-> "worker", msg |-> m]
<1>1. /\ pc[i] = "idle" /\ queue' = queue \ {m}
      /\ UNCHANGED <<record, start, attempts, repo, unseen, spent>>
  BY DEF Deliver, Active
<1>2. m \in Message /\ editorCalls[i] = {} /\ mem[i] = NoBlob
  BY <1>1 DEF EditorTypeOK, Shape
<1>3. j \in Job /\ j.role = "worker" /\ j.msg = m /\ l \in Labels
  BY <1>2 DEF Job, Labels, WorkerSteps, Callback
<1>4. Becomes(i, l, j, NoBlob, at[i], {})
  BY <1>2 DEF Deliver, Becomes, Sets, Goto
<1>5. (l = "load" /\ m.kind = "step") \/ (l = "cbload" /\ m.kind = "failure")
  BY <1>2 DEF Message
<1> HIDE DEF l, j
<1>6. Fine(i, l, j, NoBlob, at[i], {})
  BY <1>3, <1>5 DEF Fine, WorkerSteps, LoopSteps, Callback
<1>7. ProcTyped /\ at[i] \in Place
  BY TypesApart DEF ProcTyped
<1>8. /\ ProcTyped' /\ OthersStay(i) /\ pc'[i] = l /\ job'[i] = j /\ mem'[i] = NoBlob
      /\ at'[i] = at[i] /\ editorCalls'[i] = {}
  BY <1>3, <1>4, <1>7, BecomesSo, BlobTypes
<1>9. Shape(i)'
  BY <1>6, <1>8, FineNext
<1> QED BY <1>1, <1>8, <1>9 DEF Alters, l, j

\* A call with the run's id knows of the record what its own read found, which may be nothing.
Read(seen) == seen = "none" \/ record.status = seen

LEMMA PushMoves ==
    ASSUME EditorTypeOK, NEW i \in Invocations, Shape(i), NEW limit \in PushLimits, Push(i, limit)
    PROVE  /\ start = "done" /\ pc[i] = "idle" /\ Alters(i) /\ Calm
           /\ UNCHANGED <<chain, repo, unseen>>
           /\ pc'[i] = "resume" /\ mem'[i] = NoBlob /\ editorCalls'[i] = {}
           /\ job'[i].role = "push" /\ Read(job'[i].seen)
<1>1. PICK v \in {record, NoBlob} :
         /\ Load(v)
         /\ Pushes(v, limit)
         /\ job' = [job EXCEPT ![i] = [role |-> "push", limit |-> limit, seen |-> v.status]]
  BY DEF Push
<1> DEFINE j == [role |-> "push", limit |-> limit, seen |-> v.status]
<1>2. start = "done" /\ pc[i] = "idle" /\ UNCHANGED <<chain, repo, unseen>>
  BY DEF Push, Active
<1>3. Calm /\ v.status \in {"none", "running", "done"}
  BY <1>1, LoadMoves DEF Pushes
<1>4. editorCalls[i] = {} /\ mem[i] = NoBlob /\ limit \in Nat
  BY <1>2, EditorAssumption DEF Shape
<1>5. j \in Job /\ j.role = "push" /\ j.limit = limit /\ j.seen = v.status /\ "resume" \in Labels
  BY <1>3, <1>4 DEF Job, Labels
<1>6. Read(v.status)
  BY DEF Read, NoBlob
<1>7. Becomes(i, "resume", j, NoBlob, at[i], {})
  BY <1>1, <1>4 DEF Push, Becomes, Sets, Goto
<1> HIDE DEF j
<1>8. Fine(i, "resume", j, NoBlob, at[i], {})
  BY <1>5 DEF Fine, WorkerSteps, LoopSteps, Callback
<1>9. ProcTyped /\ at[i] \in Place
  BY TypesApart DEF ProcTyped
<1>10. /\ ProcTyped' /\ OthersStay(i) /\ pc'[i] = "resume" /\ job'[i] = j /\ mem'[i] = NoBlob
       /\ at'[i] = at[i] /\ editorCalls'[i] = {}
  BY <1>5, <1>7, <1>9, BecomesSo, BlobTypes
<1>11. Shape(i)'
  BY <1>8, <1>10, FineNext
<1> QED BY <1>2, <1>3, <1>5, <1>6, <1>10, <1>11 DEF Alters

LEMMA KillMoves ==
    ASSUME EditorTypeOK, NEW i \in Invocations, Shape(i), Kill(i)
    PROVE  /\ pc[i] # "idle" /\ Alters(i) /\ Leaves(i) /\ Calm
           /\ UNCHANGED <<record, start, attempts, repo>>
           /\ unseen' = unseen \cup ((Listed(mem[i]) \cap committed) \ Listed(record))
           /\ unseen' \subseteq Files
           /\ queue' = IF Single(i) THEN queue \cup {Undelivered(job[i].msg)} ELSE queue
           /\ Single(i) => Undelivered(job[i].msg) \in Message
<1>1. Calm
  BY StrikeMoves DEF Kill, Hazards
<1>2. unseen' = unseen \cup ((Listed(mem[i]) \cap committed) \ Listed(record))
  BY DEF Kill, Hide
<1>3. unseen' \subseteq Files
  BY <1>2 DEF EditorTypeOK
<1> QED BY <1>1, <1>2, <1>3, LeaveMoves, MessageTypes, WorkerMessage DEF Kill, Active

-----------------------------------------------------------------------------
(* One message or one worker.                                                *)

LEMMA TypesNext ==
    ASSUME record' \in Blob, start' \in {"new", "publish", "done", "refused"},
           queue' \subseteq Message, ProcTyped',
           branch' \in [Files -> Nat], committed' \subseteq Files, unseen' \subseteq Files,
           attempts' \in Nat, spent' \in [Hazards -> Nat]
    PROVE  EditorTypeOK'
  BY DEF EditorTypeOK, ProcTyped, Place, Labels, WorkerSteps, LoopSteps, Callback

LEMMA ShapesNext ==
    ASSUME NEW i \in Invocations, \A j \in Invocations : Shape(j), Alters(i)
    PROVE  \A j \in Invocations : Shape(j)'
<1> SUFFICES ASSUME NEW j \in Invocations, j # i PROVE Shape(j)'
  BY DEF Alters
<1>1. pc'[j] = pc[j] /\ job'[j] = job[j] /\ mem'[j] = mem[j] /\ at'[j] = at[j] /\ editorCalls'[j] = editorCalls[j]
  BY DEF Alters, OthersStay
<1> QED BY <1>1 DEF Shape, Single

LEMMA ChainStays ==
    ASSUME ChainIsOne, NEW i \in Invocations, Alters(i), pc[i] # "idle", UNCHANGED <<start, queue>>,
           job'[i] = job[i] \/ pc'[i] = "idle"
    PROVE  ChainIsOne'
<1>1. \A j \in Invocations : Works(j)' => Works(j)
  BY DEF Alters, OthersStay, Works, Single
<1>2. start = "done"
  BY DEF ChainIsOne
<1> QED BY <1>1, <1>2 DEF ChainIsOne

LEMMA ChainHandsOn ==
    ASSUME ChainIsOne, NEW i \in Invocations, Alters(i), Works(i), pc'[i] = "idle", UNCHANGED start,
           NEW m, queue' = queue \cup {m}
    PROVE  ChainIsOne'
<1>1. \A j \in Invocations : ~Works(j)'
  BY DEF Alters, OthersStay, Works, Single, ChainIsOne
<1>2. start = "done" /\ queue = {}
  BY DEF ChainIsOne, Works
<1> QED BY <1>1, <1>2 DEF ChainIsOne

LEMMA ChainDelivers ==
    ASSUME ChainIsOne, NEW i \in Invocations, Alters(i), NEW m \in queue, queue' = queue \ {m},
           UNCHANGED start
    PROVE  ChainIsOne'
<1>1. queue' = {} /\ start = "done"
  BY DEF ChainIsOne
<1>2. \A j \in Invocations : Works(j)' => j = i
  BY DEF Alters, OthersStay, Works, Single, ChainIsOne
<1> QED BY <1>1, <1>2 DEF ChainIsOne

LEMMA WorkerWorks ==
    ASSUME NEW i, Shape(i), pc[i] \in WorkerSteps \cup Callback
    PROVE  Works(i)
  BY DEF Shape, Works, WorkerSteps, Callback

LEMMA Busy ==
    ASSUME NEW i, pc[i] \in WorkerSteps \cup Callback \cup LoopSteps \cup {"resume"}
    PROVE  pc[i] # "idle"
  BY DEF WorkerSteps, Callback, LoopSteps

\* What a step of the process i does that neither takes a message nor hands one on.
LEMMA QuietStep ==
    ASSUME EditorInv, NEW i \in Invocations, Alters(i), pc[i] # "idle", UNCHANGED <<start, queue>>,
           job'[i] = job[i] \/ pc'[i] = "idle",
           record' \in Blob, branch' \in [Files -> Nat], committed' \subseteq Files,
           unseen' \subseteq Files, attempts' \in Nat, spent' \in [Hazards -> Nat]
    PROVE  EditorInv'
<1>1. EditorTypeOK'
  <2>1. start' \in {"new", "publish", "done", "refused"} /\ queue' \subseteq Message /\ ProcTyped'
    BY DEF EditorInv, EditorTypeOK, Alters
  <2> QED BY <2>1, TypesNext
<1> QED BY <1>1, ShapesNext, ChainStays DEF EditorInv

\* A step that leaves the record and the branch as they were.
LEMMA StillTyped ==
    ASSUME EditorInv
    PROVE  /\ UNCHANGED repo => branch' \in [Files -> Nat] /\ committed' \subseteq Files
           /\ unseen' = unseen => unseen' \subseteq Files
           /\ record' = record => record' \in Blob
           /\ attempts' = attempts => attempts' \in Nat
           /\ spent' = spent => spent' \in [Hazards -> Nat]
           /\ start' = start => start' \in {"new", "publish", "done", "refused"}
           /\ queue' = queue => queue' \subseteq Message
  BY DEF EditorInv, EditorTypeOK, repo

LEMMA GuardInv ==
    ASSUME EditorInv, NEW i \in Invocations, CallbackLoad(i) \/ WorkerLoad(i)
    PROVE  EditorInv'
<1>1. EditorTypeOK /\ Shape(i)
  BY DEF EditorInv
<1>2. /\ Alters(i) /\ Calm /\ UNCHANGED <<chain, repo, unseen>> /\ pc[i] # "idle"
      /\ Leaves(i) \/ GoesOn(i, "heartbeat", record) \/ GoesOn(i, "cbsave", record)
  BY <1>1, GuardMoves DEF WorkerLoad, CallbackLoad
<1> QED BY <1>2, QuietStep, StillTyped DEF chain, Calm, Leaves, GoesOn

LEMMA HeartbeatInv == ASSUME EditorInv, NEW i \in Invocations, Heartbeat(i) PROVE EditorInv'
<1>1. /\ pc[i] = "heartbeat" /\ Alters(i) /\ Saves(HeartbeatBlob(mem[i]))
      /\ GoesOn(i, "resume", mem[i]) /\ UNCHANGED <<start, queue, repo>>
  BY HeartbeatMoves DEF EditorInv
<1> QED BY <1>1, QuietStep, StillTyped DEF Saves, GoesOn

LEMMA ReloadInv == ASSUME EditorInv, NEW i \in Invocations, Reload(i) PROVE EditorInv'
<1>1. /\ pc[i] = "reload" /\ Alters(i) /\ Calm /\ UNCHANGED <<chain, repo, unseen>>
      /\ Leaves(i) \/ job'[i] = job[i]
  BY ReloadMoves DEF EditorInv, GoesOn
<1> QED BY <1>1, QuietStep, StillTyped DEF chain, Calm, Leaves

LEMMA DeadLetterInv ==
    ASSUME EditorInv, NEW i \in Invocations, GiveUp(i) \/ CallbackSave(i)
    PROVE  EditorInv'
<1>1. /\ pc[i] # "idle" /\ Alters(i) /\ Saves(Failed(mem[i]))
      /\ Leaves(i) /\ UNCHANGED <<start, queue, repo>>
  BY DeadLetterMoves DEF EditorInv, GiveUp, CallbackSave
<1> QED BY <1>1, QuietStep, StillTyped DEF Saves, Leaves

\* What a worker does that hands the chain on.
LEMMA HandOnStep ==
    ASSUME EditorInv, NEW i \in Invocations, Alters(i), Works(i), Leaves(i), Calm,
           UNCHANGED <<record, start, attempts, repo>>, unseen' \subseteq Files,
           NEW m \in Message, queue' = queue \cup {m}
    PROVE  EditorInv'
<1>1. EditorTypeOK'
  <2>1. queue' \subseteq Message /\ ProcTyped'
    BY DEF EditorInv, EditorTypeOK, Alters
  <2> QED BY <2>1, TypesNext, StillTyped DEF Calm
<1> QED BY <1>1, ShapesNext, ChainHandsOn DEF EditorInv, Leaves

LEMMA RechainInv == ASSUME EditorInv, NEW i \in Invocations, Rechain(i) PROVE EditorInv'
<1> DEFINE m == StepMessage(mem[i].steps, NewRetry(i))
<1>1. /\ pc[i] = "publish" /\ Alters(i) /\ Calm /\ Leaves(i)
      /\ UNCHANGED <<record, start, attempts, repo, unseen>> /\ m \in Message
      /\ queue' = queue \/ queue' = queue \cup {m}
  BY RechainMoves DEF EditorInv
<1>2. Works(i)
  BY <1>1, WorkerWorks DEF EditorInv, WorkerSteps
<1> HIDE DEF m
<1>3. CASE queue' = queue
  BY <1>1, <1>3, QuietStep, StillTyped DEF Calm, Leaves
<1>4. CASE queue' = queue \cup {m}
  BY <1>1, <1>2, <1>4, HandOnStep, StillTyped
<1> QED BY <1>1, <1>3, <1>4

LEMMA KillInv == ASSUME EditorInv, NEW i \in Invocations, Kill(i) PROVE EditorInv'
<1>1. /\ pc[i] # "idle" /\ Alters(i) /\ Leaves(i) /\ Calm
      /\ UNCHANGED <<record, start, attempts, repo>> /\ unseen' \subseteq Files
      /\ queue' = IF Single(i) THEN queue \cup {Undelivered(job[i].msg)} ELSE queue
      /\ Single(i) => Undelivered(job[i].msg) \in Message
  BY KillMoves DEF EditorInv
<1>2. CASE Single(i)
  BY <1>1, <1>2, HandOnStep DEF Works
<1>3. CASE ~Single(i)
  BY <1>1, <1>3, QuietStep, StillTyped DEF Calm, Leaves
<1> QED BY <1>2, <1>3

LEMMA ReturnsTyped ==
    ASSUME NEW i, NEW n, Returns(i, n)
    PROVE  job'[i] = job[i] \/ pc'[i] = "idle"
  BY DEF Returns, Leaves

LEMMA LoopInv ==
    ASSUME EditorInv, NEW i \in Invocations, Loop(i)
    PROVE  EditorInv'
<1>1. EditorTypeOK /\ Shape(i)
  BY DEF EditorInv
<1>2. ASSUME Resume(i) PROVE EditorInv'
  <2>1. /\ pc[i] = "resume" /\ Alters(i) /\ Calm /\ attempts' \in Nat
        /\ UNCHANGED <<record, start, queue, repo, unseen>>
        /\ job'[i] = job[i] \/ Returns(i, record.steps) \/ Returns(i, mem[i].steps)
    BY <1>1, <1>2, ResumeMoves DEF TakesUp
  <2>2. job'[i] = job[i] \/ pc'[i] = "idle"
    BY <2>1, ReturnsTyped
  <2> QED BY <2>1, <2>2, QuietStep, StillTyped DEF Calm
<1>3. ASSUME TurnFails(i) PROVE EditorInv'
  <2>1. /\ pc[i] = "turn" /\ Alters(i) /\ Returns(i, at[i].step - 1)
        /\ Saves(Running(mem[i], at[i].step - 1)) /\ UNCHANGED <<start, queue, repo>>
    BY <1>1, <1>3, TurnFailsMoves
  <2> QED BY <2>1, QuietStep, StillTyped, ReturnsTyped DEF Saves
<1>4. ASSUME NEW b \in Blob, pc[i] \in LoopSteps, Alters(i), Saves(Running(b, at[i].step)),
             UNCHANGED <<start, queue, repo>>, Returns(i, at[i].step) \/ NextTurn(i, b)
      PROVE  EditorInv'
  <2>1. job'[i] = job[i] \/ pc'[i] = "idle"
    BY <1>4, ReturnsTyped DEF NextTurn
  <2>2. pc[i] # "idle"
    BY <1>4 DEF LoopSteps
  <2> QED BY <1>4, <2>1, <2>2, QuietStep, StillTyped DEF Saves
<1>5. ASSUME TurnVerifies(i) PROVE EditorInv'
  BY <1>1, <1>4, <1>5, TurnVerifiesMoves
<1>6. ASSUME TurnEnds(i) PROVE EditorInv'
  BY <1>1, <1>4, <1>6, TurnEndsMoves
<1>7. ASSUME TurnAnswers(i) PROVE EditorInv'
  <2>1. PICK b \in Blob : /\ pc[i] = "turn" /\ Saves(b)
                          /\ Alters(i) /\ Returns(i, at[i].step) /\ UNCHANGED <<start, queue, repo>>
    BY <1>1, <1>7, TurnAnswersMoves
  <2> QED BY <2>1, QuietStep, StillTyped, ReturnsTyped DEF Saves
<1>8. ASSUME TurnCalls(i) PROVE EditorInv'
  <2>1. /\ pc[i] = "turn" /\ Alters(i) /\ job'[i] = job[i]
        /\ UNCHANGED <<chain, repo, unseen, spent>>
    BY <1>1, <1>8, TurnCallsMoves DEF InTurn
  <2> QED BY <2>1, QuietStep, StillTyped DEF chain
<1>9. ASSUME NEW c \in editorCalls[i], WriteReads(i, c) PROVE EditorInv'
  <2>1. /\ pc[i] = "calls" /\ Alters(i) /\ job'[i] = job[i]
        /\ UNCHANGED <<chain, repo, unseen, spent>>
    BY <1>1, <1>9, WriteReadsMoves DEF InTurn
  <2> QED BY <2>1, QuietStep, StillTyped DEF chain
<1>10. ASSUME NEW c \in editorCalls[i], WritePuts(i, c) PROVE EditorInv'
  <2>1. /\ pc[i] = "calls" /\ Alters(i) /\ job'[i] = job[i] /\ UNCHANGED chain /\ Calm
        /\ unseen' \subseteq Files /\ committed' \subseteq Files /\ branch' \in [Files -> Nat]
    BY <1>1, <1>10, WritePutsMoves DEF InTurn
  <2> QED BY <2>1, QuietStep, StillTyped DEF chain, Calm
<1> QED BY <1>2, <1>3, <1>5, <1>6, <1>7, <1>8, <1>9, <1>10 DEF Loop

LEMMA DeliverInv ==
    ASSUME EditorInv, NEW i \in Invocations, NEW m \in queue, Deliver(i, m)
    PROVE  EditorInv'
<1>1. /\ Alters(i) /\ queue' = queue \ {m}
      /\ UNCHANGED <<record, start, attempts, repo, unseen, spent>>
  BY DeliverMoves DEF EditorInv
<1>2. EditorTypeOK'
  <2>1. queue' \subseteq Message /\ ProcTyped'
    BY <1>1 DEF EditorInv, EditorTypeOK, Alters
  <2> QED BY <1>1, <2>1, TypesNext, StillTyped
<1> QED BY <1>1, <1>2, ShapesNext, ChainDelivers DEF EditorInv

LEMMA PushInv ==
    ASSUME EditorInv, NEW i \in Invocations, NEW l \in PushLimits, Push(i, l)
    PROVE  EditorInv'
<1>1. /\ start = "done" /\ Alters(i) /\ Calm /\ UNCHANGED <<chain, repo, unseen>>
      /\ job'[i].role = "push"
  BY PushMoves DEF EditorInv
<1>2. EditorTypeOK'
  <2>1. ProcTyped'
    BY <1>1 DEF Alters
  <2> QED BY <1>1, <2>1, TypesNext, StillTyped DEF chain, Calm
<1>3. \A j \in Invocations : Works(j)' => Works(j)
  BY <1>1 DEF Works, Single, Alters, OthersStay
<1>4. ChainIsOne'
  BY <1>1, <1>3 DEF ChainIsOne, chain, EditorInv
<1> QED BY <1>1, <1>2, <1>4, ShapesNext DEF EditorInv

Seeded == [NoBlob EXCEPT !.status = "running", !.overall = Least(StartLimit, EDITOR_HARD_MAX_STEPS)]

LEMMA SeedMoves ==
    ASSUME EditorTypeOK, SeedEditorRun
    PROVE  /\ start = "new" /\ start' = "publish" /\ Seeded \in Blob /\ Saves(Seeded)
           /\ Listed(Seeded) = {} /\ Seeded.answer = "none"
           /\ UNCHANGED <<queue, proc, editorCalls, repo>>
<1>1. Least(StartLimit, EDITOR_HARD_MAX_STEPS) \in Nat
  BY EditorAssumption DEF Least
<1>2. Seeded \in Blob /\ Listed(Seeded) = {} /\ Seeded.answer = "none"
  <2> DEFINE run == [NoBlob EXCEPT !.status = "running"]
             n == Least(StartLimit, EDITOR_HARD_MAX_STEPS)
  <2>1. run \in Blob /\ run.written = <<>> /\ run.answer = "none"
    <3>1. ASSUME NEW b \in Blob
          PROVE  LET r == [b EXCEPT !.status = "running"]
                 IN  r \in Blob /\ r.written = b.written /\ r.answer = b.answer
      BY DEF Blob
    <3>2. NoBlob \in Blob /\ NoBlob.written = <<>> /\ NoBlob.answer = "none"
      BY BlobTypes DEF NoBlob
    <3> HIDE DEF run
    <3> QED BY <3>1, <3>2 DEF run
  <2>2. Seeded = [run EXCEPT !.overall = n]
    BY DEF Seeded
  <2> HIDE DEF run, n
  <2>3. Seeded \in Blob
    BY <1>1, <2>1, <2>2, BlobTypes DEF n
  <2>4. Seeded.written = <<>> /\ Seeded.answer = "none"
    BY <2>1, <2>2 DEF Blob
  <2> QED BY <2>3, <2>4 DEF Listed, ToSet
<1> QED BY <1>2, SaveMoves DEF SeedEditorRun, Seeded

LEMMA StartInv == ASSUME EditorInv, StartCall PROVE EditorInv'
<1>1. ASSUME SeedEditorRun PROVE EditorInv'
  <2>1. /\ start = "new" /\ start' = "publish" /\ Saves(Seeded)
        /\ UNCHANGED <<queue, proc, editorCalls, repo>>
    BY <1>1, SeedMoves DEF EditorInv
  <2>2. EditorTypeOK'
    <3>1. ProcTyped'
      BY <2>1, TypesApart DEF EditorInv, ProcTyped, proc
    <3>2. branch' \in [Files -> Nat] /\ committed' \subseteq Files /\ queue' \subseteq Message
      BY <2>1, StillTyped
    <3> QED BY <2>1, <3>1, <3>2, TypesNext DEF Saves
  <2>3. \A j \in Invocations : Shape(j)'
    BY <2>1 DEF EditorInv, proc, Shape, Single
  <2>4. ChainIsOne'
    BY <2>1 DEF EditorInv, ChainIsOne, proc, Works, Single
  <2> QED BY <2>2, <2>3, <2>4 DEF EditorInv
<1>2. ASSUME PublishStart PROVE EditorInv'
  <2>1. /\ start = "publish" /\ start' \in {"done", "refused"} /\ UNCHANGED <<record, attempts, proc, editorCalls, repo, unseen>>
        /\ queue' = queue \/ (start' = "done" /\ queue' = queue \cup {StepMessage(0, 0)})
    BY <1>2 DEF PublishStart
  <2>2. spent' \in [Hazards -> Nat]
    BY <1>2, StrikeType DEF PublishStart, EditorInv, EditorTypeOK, Hazards
  <2>3. EditorTypeOK'
    <3>1. ProcTyped'
      BY <2>1, TypesApart DEF EditorInv, ProcTyped, proc
    <3>2. queue' \subseteq Message
      BY <2>1, MessageTypes DEF EditorInv, EditorTypeOK
    <3> QED BY <2>1, <2>2, <3>1, <3>2, TypesNext, StillTyped
  <2>4. \A j \in Invocations : Shape(j)'
    BY <2>1 DEF EditorInv, proc, Shape, Single
  <2>5. ChainIsOne'
    <3>1. queue = {} /\ \A j \in Invocations : ~Works(j)'
      BY <2>1 DEF EditorInv, ChainIsOne, proc, Works
    <3> QED BY <2>1, <3>1 DEF EditorInv, ChainIsOne, proc
  <2> QED BY <2>3, <2>4, <2>5 DEF EditorInv
<1> QED BY <1>1, <1>2 DEF StartCall

LEMMA OtherCommitMoves ==
    ASSUME EditorTypeOK, NEW f \in Files, OtherCommit(f)
    PROVE  /\ Calm /\ branch' \in [Files -> Nat]
           /\ UNCHANGED <<chain, proc, editorCalls, committed, unseen>>
<1>1. Calm
  BY StrikeMoves DEF OtherCommit, Hazards
<1> QED BY <1>1 DEF OtherCommit, EditorTypeOK

LEMMA OtherCommitInv == ASSUME EditorInv, NEW f \in Files, OtherCommit(f) PROVE EditorInv'
<1>1. /\ Calm /\ branch' \in [Files -> Nat]
      /\ UNCHANGED <<chain, proc, editorCalls, committed, unseen>>
  BY OtherCommitMoves DEF EditorInv
<1>2. EditorTypeOK'
  <2>1. ProcTyped'
    BY <1>1, TypesApart DEF EditorInv, ProcTyped, proc
  <2>2. committed' \subseteq Files
    BY <1>1 DEF EditorInv, EditorTypeOK
  <2> QED BY <1>1, <2>1, <2>2, TypesNext, StillTyped DEF chain, Calm
<1> QED BY <1>1, <1>2 DEF EditorInv, chain, proc, Shape, Single, ChainIsOne, Works

LEMMA StutterInv == ASSUME EditorInv, UNCHANGED editorVars PROVE EditorInv'
<1>1. EditorTypeOK'
  BY DEF EditorInv, editorVars, EditorTypeOK
<1>2. \A j \in Invocations : Shape(j)'
  BY DEF EditorInv, editorVars, Shape, Single
<1>3. ChainIsOne'
  BY DEF EditorInv, editorVars, ChainIsOne, Works, Single
<1> QED BY <1>1, <1>2, <1>3 DEF EditorInv

LEMMA EditorInitInv == EditorInit => EditorInv
<1> SUFFICES ASSUME EditorInit PROVE EditorInv
  OBVIOUS
<1>1. EditorTypeOK
  BY BlobTypes DEF EditorInit, EditorTypeOK, Place
<1>2. \A j \in Invocations : Shape(j)
  BY DEF EditorInit, Shape, WorkerSteps, LoopSteps, Callback, NoJob
<1>3. ChainIsOne
  BY DEF EditorInit, ChainIsOne, Works
<1> QED BY <1>1, <1>2, <1>3 DEF EditorInv

LEMMA EditorStepInv == EditorInv /\ [EditorNext]_editorVars => EditorInv'
<1> SUFFICES ASSUME EditorInv, [EditorNext]_editorVars PROVE EditorInv'
  OBVIOUS
<1>1. ASSUME NEW i \in Invocations, Worker(i) PROVE EditorInv'
  BY <1>1, GuardInv, HeartbeatInv, ReloadInv, DeadLetterInv, RechainInv DEF Worker
<1> QED BY <1>1, StartInv, DeliverInv, PushInv, LoopInv, KillInv, OtherCommitInv, StutterInv
        DEF EditorNext, Delivery, PushCall

\* Every variable of an editor run keeps its type, and one message or one worker carries the
\* run from step to step, whatever dies, fails or is pushed.
THEOREM EditorInvariant == EditorSpec => []EditorInv
<1> QED BY EditorInitInv, EditorStepInv, PTL DEF EditorSpec

\* Every variable of an editor run keeps its type; in particular no step below zero is saved.
THEOREM EditorTyped == EditorSpec => []EditorTypeOK
<1>1. EditorInv => EditorTypeOK
  BY DEF EditorInv
<1> QED BY <1>1, EditorInvariant, PTL

-----------------------------------------------------------------------------
(* What each list has room for, what a claim rests on and what a call names. *)

CallOK(i, c) ==
    /\ c.touched => c.file \in Listed(mem[i])
    /\ c.sha # NoBase /\ c.base # NoBase => c.sha = c.base

\* The files the list of i can have when its calls are over.
Prospect(i) == Listed(mem[i]) \cup {c.file : c \in editorCalls[i]}
Most == MaxFilesPerRun + BatchSize - 1

Tidy(i) ==
    /\ ClaimBacked(mem[i])
    /\ \A c \in editorCalls[i] : CallOK(i, c)
    /\ Cardinality(Prospect(i)) <= Most
RecordTidy == ClaimBacked(record) /\ Cardinality(Listed(record)) <= Most

ReportInv == EditorInv /\ RecordTidy /\ \A i \in Invocations : Tidy(i)

LEMMA MostIsNat == Most \in Nat /\ MaxFilesPerRun <= Most
  BY EditorAssumption DEF Most

LEMMA FewFiles ==
    ASSUME NEW S, S \subseteq Files
    PROVE  IsFiniteSet(S) /\ Cardinality(S) \in Nat
  BY EditorAssumption, FS_Subset, FS_CardinalityType

LEMMA Fewer ==
    ASSUME NEW S, S \subseteq Files, NEW T, T \subseteq S, Cardinality(S) <= Most
    PROVE  Cardinality(T) <= Most
<1>1. IsFiniteSet(S) /\ Cardinality(S) \in Nat /\ Cardinality(T) \in Nat
  BY FewFiles
<1>2. Cardinality(T) <= Cardinality(S)
  BY <1>1, FS_Subset
<1> QED BY <1>1, <1>2, MostIsNat

LEMMA ProspectFiles ==
    ASSUME EditorTypeOK, NEW i \in Invocations
    PROVE  Prospect(i) \subseteq Files /\ Listed(mem[i]) \subseteq Prospect(i)
<1>1. mem[i] \in Blob /\ editorCalls[i] \subseteq WriteCall
  BY DEF EditorTypeOK
<1>2. Listed(mem[i]) \subseteq Files
  BY <1>1, ListTypes
<1>3. \A c \in editorCalls[i] : c.file \in Files
  BY <1>1 DEF WriteCall
<1> QED BY <1>2, <1>3 DEF Prospect

\* A list is no longer than it has entries.
LEMMA ListLength ==
    ASSUME NEW b \in Blob
    PROVE  Cardinality(Listed(b)) <= Len(b.written)
<1> DEFINE w == b.written
<1>1. w \in Seq(Files) /\ Len(w) \in Nat /\ DOMAIN w = 1 .. Len(w)
  BY DEF Blob
<1>2. [k \in DOMAIN w |-> w[k]] \in Surjection(DOMAIN w, Listed(b))
  BY DEF Surjection, Listed, ToSet
<1>3. IsFiniteSet(DOMAIN w) /\ Cardinality(DOMAIN w) = Len(w)
  <2> HIDE DEF w
  <2>1. IsFiniteSet(1 .. Len(w)) /\ Cardinality(1 .. Len(w)) = IF 1 > Len(w) THEN 0 ELSE Len(w) - 1 + 1
    BY <1>1, FS_Interval
  <2> QED BY <1>1, <2>1
<1>4. Cardinality(Listed(b)) <= Cardinality(DOMAIN w)
  BY <1>2, <1>3, FS_Surjection
<1> QED BY <1>3, <1>4

LEMMA TidyBlank ==
    ASSUME NEW i, mem'[i] = NoBlob, editorCalls'[i] = {}
    PROVE  Tidy(i)'
<1>1. Prospect(i)' = {}
  BY DEF Prospect, Listed, ToSet, NoBlob
<1>2. Cardinality(Prospect(i)') <= Most
  BY <1>1, MostIsNat, FS_EmptySet
<1> QED BY <1>2 DEF Tidy, ClaimBacked, NoBlob, Most

\* A process holds a list that is short enough, and no call is in flight.
LEMMA TidyHeld ==
    ASSUME NEW i, NEW b, mem'[i] = b, ClaimBacked(b), Cardinality(Listed(b)) <= Most,
           editorCalls'[i] = {}
    PROVE  Tidy(i)'
<1>1. Prospect(i)' = Listed(b)
  BY DEF Prospect, Listed, ToSet
<1> QED BY <1>1 DEF Tidy, Most

LEMMA TidyKept ==
    ASSUME NEW i, Tidy(i), mem'[i] = mem[i], editorCalls'[i] = editorCalls[i]
    PROVE  Tidy(i)'
  BY DEF Tidy, CallOK, Prospect, Listed, Most

LEMMA TidyShort ==
    ASSUME EditorTypeOK, NEW i \in Invocations, Tidy(i)
    PROVE  Cardinality(Listed(mem[i])) <= Most /\ ClaimBacked(mem[i])
  BY ProspectFiles, Fewer DEF Tidy

LEMMA TidySave ==
    ASSUME RecordTidy, NEW b, Saves(b), ClaimBacked(b), Cardinality(Listed(b)) <= Most
    PROVE  RecordTidy'
<1>1. CASE record' = record
  BY <1>1 DEF RecordTidy, Most
<1>2. CASE record' = b
  BY <1>2 DEF RecordTidy, Most
<1> QED BY <1>1, <1>2 DEF Saves

LEMMA TidyRecordKept == ASSUME RecordTidy, record' = record PROVE RecordTidy'
  BY DEF RecordTidy, Most

LEMMA TidyStep ==
    ASSUME ReportInv, EditorInv', NEW i \in Invocations, Alters(i), Tidy(i)', RecordTidy'
    PROVE  ReportInv'
<1> SUFFICES ASSUME NEW j \in Invocations, j # i PROVE Tidy(j)'
  BY DEF ReportInv
<1>1. mem'[j] = mem[j] /\ editorCalls'[j] = editorCalls[j]
  BY DEF Alters, OthersStay
<1> QED BY <1>1, TidyKept DEF ReportInv

LEMMA TidyReturns ==
    ASSUME NEW i, NEW n, Returns(i, n)
    PROVE  Tidy(i)'
  BY TidyBlank DEF Returns, Leaves

\* The versions of a blob that are saved have its list and its answer.
LEMMA SameReport ==
    ASSUME NEW b \in Blob
    PROVE  /\ \A n : Listed(Running(b, n)) = Listed(b) /\ (ClaimBacked(b) => ClaimBacked(Running(b, n)))
           /\ Listed(HeartbeatBlob(b)) = Listed(b) /\ (ClaimBacked(b) => ClaimBacked(HeartbeatBlob(b)))
           /\ Listed(Failed(b)) = Listed(b) /\ (ClaimBacked(b) => ClaimBacked(Failed(b)))
  BY DEF Blob, Running, HeartbeatBlob, Failed, Listed, ClaimBacked

LEMMA SameList ==
    ASSUME NEW a, NEW b, a.written = b.written, a.answer = b.answer
    PROVE  Listed(a) = Listed(b) /\ (ClaimBacked(b) => ClaimBacked(a))
  BY DEF Listed, ClaimBacked

\* A write that returned adds its file to the list.
LEMMA CountReport ==
    ASSUME NEW b \in Blob, NEW c \in WriteCall
    PROVE  /\ Listed(Count(b, c)) = Listed(b) \cup (IF c.touched THEN {} ELSE {c.file})
           /\ ClaimBacked(b) => ClaimBacked(Count(b, c))
           /\ Count(b, c).steps = b.steps
<1>1. /\ Count(b, c).written = (IF c.touched THEN b.written ELSE Append(b.written, c.file))
      /\ Count(b, c).answer = b.answer /\ Count(b, c).steps = b.steps
  BY DEF Count, Blob
<1>2. b.written \in Seq(Files) /\ c.file \in Files
  BY DEF Blob, WriteCall
<1>3. CASE c.touched
  BY <1>1, <1>3 DEF Listed, ClaimBacked
<1>4. CASE ~c.touched
  <2> DEFINE w == b.written
  <2>1. Count(b, c).written = Append(w, c.file)
    BY <1>1, <1>4
  <2>2. /\ DOMAIN Append(w, c.file) = DOMAIN w \cup {Len(w) + 1}
        /\ \A k \in DOMAIN w : Append(w, c.file)[k] = w[k]
        /\ Append(w, c.file)[Len(w) + 1] = c.file
        /\ Append(w, c.file) # <<>>
    BY <1>2
  <2>3. Listed(Count(b, c)) = Listed(b) \cup {c.file}
    BY <2>1, <2>2 DEF Listed, ToSet
  <2> QED BY <1>1, <1>4, <2>1, <2>2, <2>3 DEF ClaimBacked
<1> QED BY <1>3, <1>4

LEMMA WorkerReport ==
    ASSUME ReportInv, NEW i \in Invocations, Worker(i)
    PROVE  ReportInv'
<1>1. EditorTypeOK /\ Shape(i) /\ EditorInv' /\ mem[i] \in Blob /\ RecordTidy /\ Tidy(i) /\ EditorInv
  <2>1. EditorNext
    BY DEF EditorNext
  <2> QED BY <2>1, EditorStepInv, TypesApart DEF ReportInv, EditorInv, ProcTyped
<1>2. Cardinality(Listed(mem[i])) <= Most /\ ClaimBacked(mem[i])
  BY <1>1, TidyShort
<1>3. Cardinality(Listed(record)) <= Most /\ ClaimBacked(record)
  BY <1>1 DEF RecordTidy
<1>4. ASSUME WorkerLoad(i) \/ CallbackLoad(i) PROVE ReportInv'
  <2>1. /\ Alters(i) /\ UNCHANGED <<chain, repo>>
        /\ Leaves(i) \/ GoesOn(i, "heartbeat", record) \/ GoesOn(i, "cbsave", record)
    BY <1>1, <1>4, GuardMoves DEF WorkerLoad, CallbackLoad
  <2>2. RecordTidy'
    BY <1>1, <2>1, TidyRecordKept DEF chain
  <2>3. Tidy(i)'
    BY <1>3, <2>1, TidyBlank, TidyHeld DEF Leaves, GoesOn
  <2> QED BY <1>1, <2>1, <2>2, <2>3, TidyStep
<1>5. ASSUME Heartbeat(i) PROVE ReportInv'
  <2>1. /\ Alters(i) /\ Saves(HeartbeatBlob(mem[i])) /\ GoesOn(i, "resume", mem[i])
    BY <1>1, <1>5, HeartbeatMoves
  <2>2. RecordTidy'
    BY <1>1, <1>2, <2>1, SameReport, TidySave
  <2>3. Tidy(i)'
    BY <1>2, <2>1, TidyHeld DEF GoesOn
  <2> QED BY <1>1, <2>1, <2>2, <2>3, TidyStep
<1>6. ASSUME Reload(i) PROVE ReportInv'
  <2>1. /\ Alters(i) /\ UNCHANGED <<chain, repo>>
        /\ Leaves(i) \/ (mem'[i] = record /\ editorCalls'[i] = {})
    BY <1>1, <1>6, ReloadMoves DEF GoesOn
  <2>2. RecordTidy'
    BY <1>1, <2>1, TidyRecordKept DEF chain
  <2>3. Tidy(i)'
    BY <1>3, <2>1, TidyBlank, TidyHeld DEF Leaves
  <2> QED BY <1>1, <2>1, <2>2, <2>3, TidyStep
<1>7. ASSUME GiveUp(i) \/ CallbackSave(i) PROVE ReportInv'
  <2>1. Alters(i) /\ Saves(Failed(mem[i])) /\ Leaves(i)
    BY <1>1, <1>7, DeadLetterMoves DEF GiveUp, CallbackSave
  <2>2. RecordTidy'
    BY <1>1, <1>2, <2>1, SameReport, TidySave
  <2> QED BY <1>1, <2>1, <2>2, TidyStep, TidyBlank DEF Leaves
<1>8. ASSUME Rechain(i) PROVE ReportInv'
  <2>1. Alters(i) /\ record' = record /\ Leaves(i)
    BY <1>1, <1>8, RechainMoves
  <2> QED BY <1>1, <2>1, TidyRecordKept, TidyStep, TidyBlank DEF Leaves
<1> QED BY <1>4, <1>5, <1>6, <1>7, <1>8 DEF Worker

LEMMA LoopReport ==
    ASSUME ReportInv, NEW i \in Invocations, Loop(i)
    PROVE  ReportInv'
<1>1. EditorTypeOK /\ Shape(i) /\ EditorInv' /\ mem[i] \in Blob /\ RecordTidy /\ Tidy(i) /\ EditorInv
  <2>1. EditorNext
    BY DEF EditorNext
  <2> QED BY <2>1, EditorStepInv, TypesApart DEF ReportInv, EditorInv, ProcTyped
<1>2. Cardinality(Listed(mem[i])) <= Most /\ ClaimBacked(mem[i])
  BY <1>1, TidyShort
<1>3. Cardinality(Listed(record)) <= Most /\ ClaimBacked(record)
  BY <1>1 DEF RecordTidy
<1>4. ASSUME Resume(i) PROVE ReportInv'
  <2>1. /\ Alters(i) /\ record' = record
        /\ TakesUp(i) \/ Returns(i, record.steps) \/ Returns(i, mem[i].steps)
    BY <1>1, <1>4, ResumeMoves
  <2>2. CASE TakesUp(i)
    <3>1. editorCalls'[i] = {} /\ mem'[i].written = record.written /\ mem'[i].answer = record.answer
      BY <2>2 DEF TakesUp
    <3>2. Listed(mem'[i]) = Listed(record) /\ ClaimBacked(mem'[i])
      BY <1>3, <3>1, SameList
    <3>3. Tidy(i)'
      BY <1>3, <3>1, <3>2, TidyHeld
    <3> QED BY <1>1, <2>1, <3>3, TidyRecordKept, TidyStep
  <2>3. CASE Returns(i, record.steps) \/ Returns(i, mem[i].steps)
    BY <1>1, <2>1, <2>3, TidyReturns, TidyRecordKept, TidyStep
  <2> QED BY <2>1, <2>2, <2>3
<1>5. ASSUME TurnFails(i) PROVE ReportInv'
  <2>1. /\ Alters(i) /\ Returns(i, at[i].step - 1) /\ Saves(Running(mem[i], at[i].step - 1))
    BY <1>1, <1>5, TurnFailsMoves
  <2>2. RecordTidy'
    BY <1>1, <1>2, <2>1, SameReport, TidySave
  <2> QED BY <1>1, <2>1, <2>2, TidyReturns, TidyStep
<1>6. ASSUME NEW b \in Blob, b.written = mem[i].written, b.answer = mem[i].answer, Alters(i),
             Saves(Running(b, at[i].step)), Returns(i, at[i].step) \/ NextTurn(i, b)
      PROVE  ReportInv'
  <2>1. Cardinality(Listed(b)) <= Most /\ ClaimBacked(b)
    BY <1>2, <1>6, SameList
  <2>2. RecordTidy'
    BY <1>1, <1>6, <2>1, SameReport, TidySave
  <2>3. Tidy(i)'
    BY <1>6, <2>1, TidyReturns, TidyHeld DEF NextTurn
  <2> QED BY <1>1, <1>6, <2>2, <2>3, TidyStep
<1>7. ASSUME TurnVerifies(i) PROVE ReportInv'
  BY <1>1, <1>6, <1>7, TurnVerifiesMoves
<1>8. ASSUME TurnEnds(i) PROVE ReportInv'
  BY <1>1, <1>6, <1>8, TurnEndsMoves
<1>9. ASSUME TurnAnswers(i) PROVE ReportInv'
  <2>1. PICK b \in Blob : /\ b.written = mem[i].written /\ ClaimBacked(b) /\ Saves(b)
                          /\ Alters(i) /\ Returns(i, at[i].step)
    BY <1>1, <1>9, TurnAnswersMoves
  <2>2. Cardinality(Listed(b)) <= Most
    BY <1>2, <2>1 DEF Listed
  <2>3. RecordTidy'
    BY <1>1, <2>1, <2>2, TidySave
  <2> QED BY <1>1, <2>1, <2>3, TidyReturns, TidyStep
<1>10. ASSUME TurnCalls(i) PROVE ReportInv'
  <2>1. PICK C \in SUBSET WriteCall :
           /\ Fresh(i, C) /\ Alters(i) /\ InTurn(i, mem[i], C)
           /\ UNCHANGED <<chain, repo, unseen, spent>>
    BY <1>1, <1>10, TurnCallsMoves
  <2> DEFINE L == Listed(mem[i])
             N == {c.file : c \in C}
  <2>2. L \subseteq Files /\ N \subseteq Files /\ IsFiniteSet(N) /\ Cardinality(N) <= BatchSize
    <3>1. \A c \in C : c.file \in Files
      BY DEF WriteCall
    <3> QED BY <1>1, <2>1, <3>1, ListTypes DEF Fresh
  <2>3. Cardinality(L \cup N) <= Most
    <3>1. CASE N \subseteq L
      <4>1. L \cup N = L
        BY <3>1
      <4> QED BY <1>2, <4>1
    <3>2. CASE ~(N \subseteq L)
      <4>1. PICK c \in C : c.file \notin L
        BY <3>2
      <4>2. UnderCaps(mem[i], c.file)
        BY <2>1 DEF Fresh
      <4>3. Len(mem[i].written) < MaxFilesPerRun /\ Len(mem[i].written) \in Nat
        BY <1>1, <4>1, <4>2 DEF UnderCaps, Blob
      <4>4. Cardinality(L) <= Len(mem[i].written)
        BY <1>1, ListLength
      <4>5. IsFiniteSet(L) /\ Cardinality(L) \in Nat /\ Cardinality(N) \in Nat /\ Cardinality(L \cap N) \in Nat
            /\ Cardinality(L \cup N) \in Nat
        BY <2>2, FewFiles
      <4>6. Cardinality(L \cup N) = Cardinality(L) + Cardinality(N) - Cardinality(L \cap N)
        BY <2>2, <4>5, FS_Union
      <4>7. MaxFilesPerRun \in Nat /\ BatchSize \in Nat
        BY EditorAssumption
      <4> HIDE DEF L, N
      <4> QED BY <2>2, <4>3, <4>4, <4>5, <4>6, <4>7 DEF Most
    <3> QED BY <3>1, <3>2
  <2>4. Prospect(i)' = L \cup N
    BY <2>1 DEF InTurn, Prospect, Listed
  <2>5. ClaimBacked(mem'[i])
    BY <1>2, <2>1 DEF InTurn
  <2>6. ASSUME NEW c \in editorCalls'[i] PROVE CallOK(i, c)'
    <3>1. c.sha = NoBase /\ (c.touched => c.file \in Listed(mem'[i]))
      BY <2>1, <2>6 DEF InTurn, Fresh
    <3> QED BY <3>1 DEF CallOK, Listed
  <2>7. Tidy(i)'
    <3>1. Cardinality(Prospect(i)') <= Most
      BY <2>3, <2>4
    <3> HIDE DEF L, N
    <3> QED BY <2>5, <2>6, <3>1 DEF Tidy, ClaimBacked, Most
  <2>8. record' = record
    BY <2>1 DEF chain
  <2> QED BY <1>1, <2>1, <2>7, <2>8, TidyRecordKept, TidyStep
<1>11. ASSUME NEW c \in editorCalls[i], NEW C, NEW b, InTurn(i, b, C), ClaimBacked(b),
              Listed(mem[i]) \subseteq Listed(b), Listed(b) \subseteq Prospect(i),
              \A e \in C : /\ \E f \in editorCalls[i] : e.file = f.file /\ (e.touched <=> f.touched)
                           /\ e.sha # NoBase /\ e.base # NoBase => e.sha = e.base
       PROVE  Tidy(i)'
  <2>1. Prospect(i)' \subseteq Prospect(i)
    BY <1>11 DEF InTurn, Prospect, Listed
  <2>2. Prospect(i) \subseteq Files /\ Cardinality(Prospect(i)) <= Most
    BY <1>1, ProspectFiles DEF Tidy
  <2>3. Cardinality(Prospect(i)') <= Most
    BY <2>1, <2>2, Fewer
  <2>4. ASSUME NEW e \in editorCalls'[i] PROVE CallOK(i, e)'
    <3>1. e \in C /\ mem'[i] = b
      BY <1>11, <2>4 DEF InTurn
    <3>2. PICK f \in editorCalls[i] : e.file = f.file /\ (e.touched <=> f.touched)
      BY <1>11, <3>1
    <3>3. f.touched => f.file \in Listed(mem[i])
      BY <1>1 DEF Tidy, CallOK
    <3>4. e.touched => e.file \in Listed(b)
      BY <1>11, <3>2, <3>3
    <3> QED BY <1>11, <3>1, <3>4 DEF CallOK, Listed
  <2> QED BY <1>11, <2>3, <2>4 DEF Tidy, ClaimBacked, Most, InTurn
<1>12. ASSUME NEW c \in editorCalls[i]
       PROVE  \A e \in editorCalls[i] \ {c} :
                /\ \E f \in editorCalls[i] : e.file = f.file /\ (e.touched <=> f.touched)
                /\ e.sha # NoBase /\ e.base # NoBase => e.sha = e.base
  BY <1>1 DEF Tidy, CallOK
<1>13. ASSUME NEW c \in editorCalls[i]
       PROVE  /\ ClaimBacked(Count(mem[i], c))
              /\ Listed(mem[i]) \subseteq Listed(Count(mem[i], c))
              /\ Listed(Count(mem[i], c)) \subseteq Prospect(i)
  <2>1. c \in WriteCall
    BY <1>1, CallTypes
  <2> QED BY <1>1, <1>2, <2>1, CountReport DEF Prospect
<1>14. Listed(mem[i]) \subseteq Prospect(i)
  BY DEF Prospect
<1>15. ASSUME NEW c \in editorCalls[i], WriteReads(i, c) PROVE ReportInv'
  <2>1. /\ c.sha = NoBase /\ Alters(i) /\ UNCHANGED <<chain, repo, unseen, spent>>
        /\ \/ InTurn(i, mem[i], editorCalls[i] \ {c})
           \/ InTurn(i, Count(mem[i], c), editorCalls[i] \ {c})
           \/ BaseHolds(c) /\ InTurn(i, mem[i], (editorCalls[i] \ {c}) \cup {Later(c)})
    BY <1>1, <1>15, WriteReadsMoves
  <2>2. ASSUME InTurn(i, mem[i], editorCalls[i] \ {c}) PROVE Tidy(i)'
    BY <1>2, <1>11, <1>12, <1>14, <2>2
  <2>3. ASSUME InTurn(i, Count(mem[i], c), editorCalls[i] \ {c}) PROVE Tidy(i)'
    BY <1>11, <1>12, <1>13, <2>3
  <2>4. ASSUME BaseHolds(c) /\ InTurn(i, mem[i], (editorCalls[i] \ {c}) \cup {Later(c)})
      PROVE  Tidy(i)'
    <3> DEFINE C == (editorCalls[i] \ {c}) \cup {Later(c)}
    <3>1. Later(c).file = c.file /\ (Later(c).touched <=> c.touched) /\ Later(c).base = c.base
          /\ Later(c).sha = branch[c.file]
      <4>1. c \in WriteCall
        BY <1>1, CallTypes
      <4> QED BY <4>1 DEF Later, WriteCall
    <3>2. Later(c).base # NoBase => Later(c).sha = Later(c).base
      BY <2>4, <3>1 DEF BaseHolds
    <3>3. \A e \in C : /\ \E f \in editorCalls[i] : e.file = f.file /\ (e.touched <=> f.touched)
                       /\ e.sha # NoBase /\ e.base # NoBase => e.sha = e.base
      BY <1>12, <3>1, <3>2
    <3>4. InTurn(i, mem[i], C)
      BY <2>4
    <3> HIDE DEF C
    <3> QED BY <1>2, <1>11, <1>14, <3>3, <3>4
  <2>5. record' = record
    BY <2>1 DEF chain
  <2> QED BY <1>1, <2>1, <2>2, <2>3, <2>4, <2>5, TidyRecordKept, TidyStep
<1>16. ASSUME NEW c \in editorCalls[i], WritePuts(i, c) PROVE ReportInv'
  <2>1. /\ Alters(i) /\ UNCHANGED chain
        /\ InTurn(i, mem[i], editorCalls[i] \ {c}) \/ InTurn(i, Count(mem[i], c), editorCalls[i] \ {c})
    BY <1>1, <1>16, WritePutsMoves
  <2>2. ASSUME InTurn(i, mem[i], editorCalls[i] \ {c}) PROVE Tidy(i)'
    BY <1>2, <1>11, <1>12, <1>14, <2>2
  <2>3. ASSUME InTurn(i, Count(mem[i], c), editorCalls[i] \ {c}) PROVE Tidy(i)'
    BY <1>11, <1>12, <1>13, <2>3
  <2>4. record' = record
    BY <2>1 DEF chain
  <2> QED BY <1>1, <2>1, <2>2, <2>3, <2>4, TidyRecordKept, TidyStep
<1> QED BY <1>4, <1>5, <1>7, <1>8, <1>9, <1>10, <1>15, <1>16 DEF Loop

LEMMA ReportStep == ReportInv /\ [EditorNext]_editorVars => ReportInv'
<1> SUFFICES ASSUME ReportInv, [EditorNext]_editorVars PROVE ReportInv'
  OBVIOUS
<1>1. EditorInv /\ EditorInv' /\ EditorTypeOK /\ RecordTidy /\ \A i \in Invocations : Shape(i)
  BY EditorStepInv DEF ReportInv, EditorInv
<1>2. ASSUME RecordTidy', UNCHANGED <<mem, editorCalls>> PROVE ReportInv'
  BY <1>1, <1>2, TidyKept DEF ReportInv
<1>3. ASSUME SeedEditorRun PROVE ReportInv'
  <2>1. Saves(Seeded) /\ Listed(Seeded) = {} /\ Seeded.answer = "none" /\ UNCHANGED <<proc, editorCalls>>
    BY <1>1, <1>3, SeedMoves
  <2>2. Cardinality(Listed(Seeded)) <= Most /\ ClaimBacked(Seeded)
    BY <2>1, MostIsNat, FS_EmptySet DEF ClaimBacked
  <2> QED BY <1>1, <1>2, <2>1, <2>2, TidySave DEF proc
<1>4. ASSUME PublishStart \/ (\E f \in Files : OtherCommit(f)) \/ UNCHANGED editorVars
      PROVE  ReportInv'
  <2>1. UNCHANGED <<record, mem, editorCalls>>
    BY <1>4 DEF PublishStart, OtherCommit, editorVars, chain, proc
  <2> QED BY <1>1, <1>2, <2>1, TidyRecordKept
<1>5. ASSUME NEW i \in Invocations, NEW m \in queue, Deliver(i, m) PROVE ReportInv'
  <2>1. Alters(i) /\ record' = record /\ mem'[i] = NoBlob /\ editorCalls'[i] = {}
    BY <1>1, <1>5, DeliverMoves
  <2> QED BY <1>1, <2>1, TidyRecordKept, TidyBlank, TidyStep
<1>6. ASSUME NEW i \in Invocations, NEW l \in PushLimits, Push(i, l) PROVE ReportInv'
  <2>1. Alters(i) /\ record' = record /\ mem'[i] = NoBlob /\ editorCalls'[i] = {}
    BY <1>1, <1>6, PushMoves DEF chain
  <2> QED BY <1>1, <2>1, TidyRecordKept, TidyBlank, TidyStep
<1>7. ASSUME NEW i \in Invocations, Kill(i) PROVE ReportInv'
  <2>1. Alters(i) /\ record' = record /\ Leaves(i)
    BY <1>1, <1>7, KillMoves
  <2> QED BY <1>1, <2>1, TidyRecordKept, TidyBlank, TidyStep DEF Leaves
<1> QED BY <1>3, <1>4, <1>5, <1>6, <1>7, WorkerReport, LoopReport
        DEF EditorNext, StartCall, Delivery, PushCall

LEMMA ReportInit == EditorInit => ReportInv
<1> SUFFICES ASSUME EditorInit PROVE ReportInv
  OBVIOUS
<1>1. Cardinality({}) <= Most
  BY MostIsNat, FS_EmptySet
<1>2. Listed(NoBlob) = {} /\ ClaimBacked(NoBlob)
  BY DEF Listed, ToSet, NoBlob, ClaimBacked
<1>3. RecordTidy
  BY <1>1, <1>2 DEF EditorInit, RecordTidy
<1>4. ASSUME NEW i \in Invocations PROVE Tidy(i)
  <2>1. mem[i] = NoBlob /\ editorCalls[i] = {}
    BY DEF EditorInit
  <2>2. Prospect(i) = {}
    BY <1>2, <2>1 DEF Prospect
  <2> QED BY <1>1, <1>2, <2>1, <2>2 DEF Tidy
<1> QED BY <1>3, <1>4, EditorInitInv DEF ReportInv

\* Whoever pushes and however many processes work on the run: what lists and claims rest on.
THEOREM ReportInvariant == EditorSpec => []ReportInv
<1> QED BY ReportInit, ReportStep, PTL DEF EditorSpec

\* A final answer that claims completed work has a write behind it or is flagged, and calls of one
\* turn pass the cap on files together by no more than a turn has calls, even where a push and a
\* worker are at the run at once.
THEOREM ClaimsAreBacked == EditorSpec => [](NoUnbackedClaim /\ OvershootBounded)
<1>1. ReportInv => NoUnbackedClaim /\ OvershootBounded
  BY DEF ReportInv, RecordTidy, ClaimBacked, NoUnbackedClaim, OvershootBounded, Most
<1> QED BY <1>1, ReportInvariant, PTL

\* write_file with a base_sha replaces exactly the version it names, however many processes work
\* on the run and whoever else commits.
THEOREM BaseIsHonoured == EditorSpec => BaseShaHonoured
<1>1. ReportInv /\ [EditorNext]_editorVars =>
        [\A i \in Invocations : \A c \in editorCalls[i] :
           /\ c.base # NoBase
           /\ c \notin editorCalls'[i]
           /\ branch'[c.file] # branch[c.file]
           => branch[c.file] = c.base]_editorVars
  <2> SUFFICES ASSUME ReportInv, EditorNext, NEW i \in Invocations, NEW c \in editorCalls[i],
                      c.base # NoBase, c \notin editorCalls'[i], branch'[c.file] # branch[c.file]
               PROVE  branch[c.file] = c.base
    BY DEF editorVars
  <2>1. EditorTypeOK /\ \A j \in Invocations : Shape(j) /\ Tidy(j)
    BY DEF ReportInv, EditorInv
  <2>2. ~\E f \in Files : OtherCommit(f)
    BY DEF OtherCommit
  <2>3. branch' # branch
    OBVIOUS
  <2>4. \A j \in Invocations : ~Worker(j) /\ ~Kill(j)
    BY <2>3 DEF Worker, Kill, WorkerLoad, CallbackLoad, GuardedLoad, Heartbeat, Reload, GiveUp,
           CallbackSave, DeadLetter, Rechain, repo
  <2>5. ~StartCall /\ ~Delivery /\ ~PushCall
    BY <2>3 DEF StartCall, SeedEditorRun, PublishStart, Delivery, Deliver, PushCall, Push, repo
  <2>6. PICK j \in Invocations : Loop(j)
    BY <2>2, <2>4, <2>5 DEF EditorNext
  <2>7. PICK d \in editorCalls[j] : WritePuts(j, d)
    BY <2>3, <2>6 DEF Loop, Resume, TurnFails, TurnVerifies, TurnAnswers, TurnCalls, TurnEnds, WriteReads, repo
  <2>8. /\ d.sha # NoBase /\ Alters(j) /\ Accepts(d)
        /\ \E b : InTurn(j, b, editorCalls[j] \ {d})
        /\ \A f \in Files \ {d.file} : branch'[f] = branch[f]
    BY <2>1, <2>3, <2>7, WritePutsMoves DEF repo
  <2>9. i = j /\ c = d
    BY <2>8 DEF Alters, OthersStay, InTurn
  <2>10. d.sha = d.base
    BY <2>1, <2>8, <2>9 DEF Tidy, CallOK
  <2> QED BY <2>8, <2>9, <2>10 DEF Accepts
<1> QED BY <1>1, ReportInvariant, PTL DEF EditorSpec, BaseShaHonoured

-----------------------------------------------------------------------------
(* How often a step can be tried.                                            *)

Each == StepRetries + 1
Floor(s) == (MaxFailures * Each) * s
Ceiling(s) == (MaxFailures * Each) * (1 + s)

\* The tries of a step before the message m is delivered, when s saves have been dropped.
Tries(m, s) == Floor(s) + m.retry * Each + m.retried

\* A message that asks for a step has tries left.
Fits(m) == m.retry < MaxFailures /\ m.retried <= StepRetries

LEMMA MoreTimes ==
    ASSUME NEW a \in Nat, NEW b \in Nat, NEW c \in Nat, a <= b
    PROVE  a * c <= b * c /\ a * c \in Nat /\ b * c \in Nat
<1>1. PICK d \in Nat : b = a + d
  <2>1. b - a \in Nat /\ b = a + (b - a)
    OBVIOUS
  <2> QED BY <2>1
<1>2. b * c = a * c + d * c
  BY <1>1
<1>3. a * c \in Nat /\ d * c \in Nat
  OBVIOUS
<1> QED BY <1>2, <1>3

LEMMA FloorFacts ==
    ASSUME NEW s \in Nat
    PROVE  /\ Floor(s) \in Nat /\ Ceiling(s) \in Nat /\ Floor(s) <= Ceiling(s)
           /\ Floor(s + 1) = Ceiling(s) /\ Ceiling(s) <= Ceiling(s + 1)
           /\ Ceiling(s) = Floor(s) + MaxFailures * Each
<1>1. MaxFailures \in Nat /\ Each \in Nat
  BY EditorAssumption DEF Each
<1> DEFINE k == MaxFailures * Each
<1>2. k \in Nat
  BY <1>1
<1>3. Floor(s) = k * s /\ Ceiling(s) = k * (1 + s) /\ Floor(s + 1) = k * (s + 1) /\ Ceiling(s + 1) = k * (1 + (s + 1))
  BY DEF Floor, Ceiling
<1> HIDE DEF k
<1>4. k * s \in Nat /\ k * (1 + s) = k * s + k /\ k * (s + 1) = k * s + k /\ k * (1 + (s + 1)) = k * s + k + k
  BY <1>2
<1> QED BY <1>2, <1>3, <1>4 DEF k

LEMMA TriesFacts ==
    ASSUME NEW m \in Message, NEW s \in Nat
    PROVE  /\ Tries(m, s) \in Nat /\ Floor(s) <= Tries(m, s) /\ Tries(m, s) <= Tries(m, s + 1)
           /\ Fits(m) => Tries(m, s) + 1 <= Ceiling(s)
<1>1. MaxFailures \in Nat /\ StepRetries \in Nat /\ Each \in Nat /\ Each = StepRetries + 1
  BY EditorAssumption DEF Each
<1>2. m.retry \in Nat /\ m.retried \in Nat
  BY DEF Message
<1> DEFINE p == m.retry * Each
           f == Floor(s)
           k == MaxFailures * Each
<1>3. p \in Nat /\ k \in Nat
  BY <1>1, <1>2
<1>4. /\ f \in Nat /\ Ceiling(s) = f + k /\ Floor(s + 1) = f + k
  BY FloorFacts
<1>5. Tries(m, s) = f + p + m.retried /\ Tries(m, s + 1) = Floor(s + 1) + p + m.retried
  BY DEF Tries
<1>6. Fits(m) => p + Each <= k
  <2>1. SUFFICES ASSUME m.retry + 1 <= MaxFailures PROVE p + Each <= k
    BY <1>1, <1>2 DEF Fits
  <2>2. (m.retry + 1) * Each <= k
    BY <1>1, <1>2, <2>1, MoreTimes
  <2>3. (m.retry + 1) * Each = p + Each
    BY <1>1, <1>2
  <2> QED BY <2>2, <2>3
<1>7. Fits(m) => m.retried <= StepRetries
  BY DEF Fits
<1> HIDE DEF p, f, k
<1> QED BY <1>1, <1>2, <1>3, <1>4, <1>5, <1>6, <1>7 DEF f

\* The message of the next try has room for those of the last.
LEMMA NextTries ==
    ASSUME NEW m \in Message, NEW s \in Nat, NEW n \in Nat
    PROVE  /\ Floor(s) <= Tries(StepMessage(n, 0), s)
           /\ m.retried <= StepRetries => Tries(m, s) + 1 <= Tries(StepMessage(n, m.retry + 1), s)
           /\ Tries([m EXCEPT !.retried = m.retried + 1], s) = Tries(m, s) + 1
<1>1. StepRetries \in Nat /\ Each \in Nat /\ Each = StepRetries + 1
  BY EditorAssumption DEF Each
<1>2. m.retry \in Nat /\ m.retried \in Nat /\ Floor(s) \in Nat
  BY FloorFacts DEF Message
<1>3. Tries(StepMessage(n, 0), s) = Floor(s) + 0 * Each + 0
  BY DEF StepMessage, Tries
<1>4. Tries(StepMessage(n, m.retry + 1), s) = Floor(s) + (m.retry + 1) * Each + 0
  BY DEF StepMessage, Tries
<1>5. Tries([m EXCEPT !.retried = m.retried + 1], s) = Floor(s) + m.retry * Each + (m.retried + 1)
  BY DEF Message, Tries
<1>6. 0 * Each = 0 /\ (m.retry + 1) * Each = m.retry * Each + Each /\ m.retry * Each \in Nat
  BY <1>1, <1>2
<1> DEFINE p == m.retry * Each
<1>7. Tries(m, s) = Floor(s) + p + m.retried
  BY DEF Tries
<1> QED
  <2>1. p \in Nat
    BY <1>6
  <2>2. Floor(s) <= Tries(StepMessage(n, 0), s)
    BY <1>2, <1>3, <1>6
  <2>3. m.retried <= StepRetries => Tries(m, s) + 1 <= Tries(StepMessage(n, m.retry + 1), s)
    <3>1. Tries(StepMessage(n, m.retry + 1), s) = Floor(s) + (p + Each) + 0
      BY <1>4, <1>6
    <3> HIDE DEF p
    <3> QED BY <1>1, <1>2, <1>7, <2>1, <3>1
  <2>4. Tries([m EXCEPT !.retried = m.retried + 1], s) = Tries(m, s) + 1
    <3>1. Tries([m EXCEPT !.retried = m.retried + 1], s) = Floor(s) + p + (m.retried + 1)
      BY <1>5
    <3> HIDE DEF p
    <3> QED BY <1>2, <1>7, <2>1, <3>1
  <2> QED BY <2>2, <2>3, <2>4

-----------------------------------------------------------------------------
(* One process at work.                                                      *)

Blind(i) == job[i].role = "push" /\ job[i].seen = "none"

InMemory(i) ==
    /\ record.status = "running" /\ mem[i].status = "running"
    /\ record.steps = mem[i].steps /\ Listed(record) = Listed(mem[i])

\* A call that read no checkpoint may be at a run that has failed.
Ahead(i) ==
    /\ record.status = "running" \/ (record.status = "failed" /\ Blind(i))
    /\ record.steps <= at[i].step - 1
    /\ Listed(record) \subseteq Listed(mem[i])

\* What the process at work knows of the record.
Knows(i) ==
    /\ pc[i] \in {"heartbeat", "giveup", "publish", "cbsave"} => InMemory(i)
    /\ pc[i] = "resume" => IF Single(i) THEN InMemory(i) ELSE Read(job[i].seen)
    /\ pc[i] \in LoopSteps => Ahead(i)
    /\ Single(i) /\ pc[i] \in {"heartbeat", "resume"} \cup LoopSteps =>
         record.steps = job[i].msg.after
    /\ Single(i) /\ pc[i] \in LoopSteps =>
         at[i].step = job[i].msg.after + 1 /\ at[i].capped = at[i].step

Dropped == spent["save"]

\* How often the step at hand may have been tried.
Tried(i) ==
    Single(i) /\ job[i].msg.kind = "step" =>
      /\ Fits(job[i].msg)
      /\ pc[i] \in {"load", "heartbeat", "resume"} => attempts <= Tries(job[i].msg, Dropped)
      /\ pc[i] \in LoopSteps => attempts <= Tries(job[i].msg, Dropped) + 1
      /\ pc[i] \in {"reload", "giveup", "publish"} =>
           IF Advanced(i) THEN attempts <= Floor(Dropped)
                          ELSE attempts <= Tries(job[i].msg, Dropped) + 1
      /\ pc[i] = "publish" => ~Exhausted(i)

QueueTried ==
    /\ \A m \in queue : m.kind = "step" => Fits(m) /\ attempts <= Tries(m, Dropped)
    /\ start # "done" => attempts = 0

Bounded == attempts <= Ceiling(Dropped)

SerialInv ==
    /\ EditorInv /\ QueueTried /\ Bounded /\ CommitsReported
    /\ \A i \in Invocations : Knows(i) /\ Tried(i)

\* A step takes the record no step back and leaves one that has ended, unless a call that could
\* not read it takes it on.
Forward == /\ record'.steps >= record.steps
           /\ record.status = "done" => record' = record
           /\ record.status = "failed" => record' = record \/ Revived

LEMMA OneWorks ==
    ASSUME Alone, EditorInv, NEW i \in Invocations, NEW j \in Invocations,
           pc[i] # "idle", pc[j] # "idle"
    PROVE  i = j
<1>1. CASE \A p, q \in Invocations : p = q
  BY <1>1
<1>2. CASE PushLimits = {}
  <2>1. ASSUME NEW k \in Invocations, pc[k] # "idle" PROVE Works(k)
    <3>1. Shape(k) /\ pc[k] \in Labels
      BY TypesApart DEF EditorInv, ProcTyped
    <3> QED BY <1>2, <2>1, <3>1 DEF Shape, Works, Labels
  <2> QED BY <2>1 DEF EditorInv, ChainIsOne
<1> QED BY <1>1, <1>2 DEF Alone

LEMMA OthersIdle ==
    ASSUME Alone, EditorInv, NEW i \in Invocations,
           pc[i] # "idle" \/ \A k \in Invocations : pc[k] = "idle"
    PROVE  \A j \in Invocations \ {i} : pc[j] = "idle" /\ job[j] = NoJob /\ mem[j] = NoBlob
  BY OneWorks DEF EditorInv, Shape

LEMMA OthersKnow ==
    ASSUME Alone, EditorInv, NEW i \in Invocations, Alters(i), Knows(i)', Tried(i)',
           pc[i] # "idle" \/ \A k \in Invocations : pc[k] = "idle"
    PROVE  \A j \in Invocations : Knows(j)' /\ Tried(j)'
<1> SUFFICES ASSUME NEW j \in Invocations, j # i PROVE Knows(j)' /\ Tried(j)'
  OBVIOUS
<1>1. pc'[j] = "idle" /\ job'[j] = NoJob
  BY OthersIdle DEF Alters, OthersStay
<1> QED BY <1>1 DEF Knows, Tried, Single, NoJob, LoopSteps

\* What has left has nothing to know.
LEMMA IdleKnows ==
    ASSUME NEW i, pc'[i] = "idle", job'[i] = NoJob
    PROVE  Knows(i)' /\ Tried(i)'
  BY DEF Knows, Tried, Single, NoJob, LoopSteps

\* A commit stays listed somewhere, or is counted among the hidden ones.
LEMMA Reported ==
    ASSUME CommitsReported, NEW i \in Invocations, OthersStay(i), UNCHANGED committed,
           Listed(record) \subseteq Listed(record'),
           unseen \subseteq unseen' \cup Listed(record'),
           Listed(mem[i]) \cap committed \subseteq Listed(mem'[i]) \cup unseen' \cup Listed(record')
    PROVE  CommitsReported'
<1> SUFFICES ASSUME NEW f \in committed
             PROVE  \/ f \in Listed(record') \/ f \in unseen'
                    \/ \E k \in Invocations : f \in Listed(mem'[k])
  BY DEF CommitsReported, Listed
<1>1. CASE f \in Listed(record) \/ f \in unseen \/ f \in Listed(mem[i])
  BY <1>1
<1>2. ASSUME NEW k \in Invocations, f \in Listed(mem[k]), k # i PROVE f \in Listed(mem'[k])
  BY <1>2 DEF OthersStay
<1>3. f \in Listed(record) \/ f \in unseen \/ \E k \in Invocations : f \in Listed(mem[k])
  BY DEF CommitsReported
<1> QED BY <1>1, <1>2, <1>3

\* Whether it reaches the record or is dropped, a save of the list hides none of it.
LEMMA ReportedSave ==
    ASSUME CommitsReported, NEW i \in Invocations, OthersStay(i), UNCHANGED committed,
           NEW b, Saves(b), Listed(b) = Listed(mem[i]), Listed(record) \subseteq Listed(record')
    PROVE  CommitsReported'
<1>1. CASE record' = b /\ unseen' = unseen \ Listed(b)
  BY <1>1, Reported
<1>2. CASE record' = record /\ unseen' = unseen \cup ((Listed(b) \cap committed) \ Listed(record))
  BY <1>2, Reported
<1> QED BY <1>1, <1>2 DEF Saves

\* A step that saves nothing and leaves the process no list of its own to lose.
LEMMA ReportedStay ==
    ASSUME CommitsReported, NEW i \in Invocations, OthersStay(i), UNCHANGED <<record, committed, unseen>>,
           Listed(mem[i]) \subseteq Listed(mem'[i]) \cup Listed(record)
    PROVE  CommitsReported'
  BY Reported

\* What a save, or none, does to the bounds on tries.
Tallied == \/ attempts' \in {attempts, 0} /\ Dropped' = Dropped
           \/ attempts' = attempts /\ Dropped' = Dropped + 1

LEMMA SavesTally == ASSUME NEW b, Saves(b) PROVE Tallied
  BY DEF Saves, Tallied, Dropped

LEMMA CalmTally == ASSUME Calm, UNCHANGED attempts PROVE Tallied
  BY DEF Calm, Tallied, Dropped

LEMMA Counts ==
    ASSUME EditorInv
    PROVE  attempts \in Nat /\ Dropped \in Nat /\ record \in Blob /\ record.steps \in Nat
           /\ record.status \in {"none", "running", "done", "failed"}
  BY DEF EditorInv, EditorTypeOK, Dropped, Hazards, Blob

LEMMA TallyTries ==
    ASSUME EditorInv, Tallied, NEW m \in Message, NEW k \in {0, 1},
           attempts <= Tries(m, Dropped) + k
    PROVE  attempts' <= Tries(m, Dropped') + k
<1>1. attempts \in Nat /\ Dropped \in Nat
  BY Counts
<1>2. Tries(m, Dropped) \in Nat /\ Tries(m, Dropped) <= Tries(m, Dropped + 1) /\ Tries(m, Dropped + 1) \in Nat
  BY <1>1, TriesFacts
<1> QED BY <1>1, <1>2 DEF Tallied

LEMMA TallyBounded ==
    ASSUME EditorInv, Tallied, Bounded
    PROVE  Bounded'
<1>1. attempts \in Nat /\ Dropped \in Nat
  BY Counts
<1>2. Ceiling(Dropped) \in Nat /\ Ceiling(Dropped) <= Ceiling(Dropped + 1) /\ Ceiling(Dropped + 1) \in Nat
  BY <1>1, FloorFacts
<1>3. CASE Dropped' = Dropped
  <2>1. Ceiling(Dropped') = Ceiling(Dropped)
    BY <1>3
  <2> QED BY <1>1, <1>2, <1>3, <2>1 DEF Tallied, Bounded, Ceiling, Each
<1>4. CASE Dropped' = Dropped + 1
  <2>1. Ceiling(Dropped') = Ceiling(Dropped + 1)
    BY <1>4
  <2> QED BY <1>1, <1>2, <1>4, <2>1 DEF Tallied, Bounded, Ceiling, Each
<1> QED BY <1>3, <1>4 DEF Tallied

LEMMA TallyQueue ==
    ASSUME EditorInv, Tallied, QueueTried, UNCHANGED <<queue, start>>
    PROVE  QueueTried'
<1>1. ASSUME NEW m \in queue, m.kind = "step" PROVE Fits(m) /\ attempts' <= Tries(m, Dropped')
  <2>1. Fits(m) /\ attempts <= Tries(m, Dropped) + 0 /\ m \in Message
    <3>1. m \in Message /\ attempts \in Nat /\ Dropped \in Nat
      BY Counts DEF EditorInv, EditorTypeOK
    <3>2. Fits(m) /\ attempts <= Tries(m, Dropped) /\ Tries(m, Dropped) \in Nat
      BY <1>1, <3>1, TriesFacts DEF QueueTried
    <3> QED BY <3>1, <3>2
  <2>2. attempts' <= Tries(m, Dropped') + 0
    BY <2>1, TallyTries
  <2>3. Tries(m, Dropped') \in Nat
    <3>1. Dropped' \in Nat
      BY Counts DEF Tallied
    <3> QED BY <2>1, <3>1, TriesFacts
  <2> QED BY <2>1, <2>2, <2>3
<1>2. start' # "done" => attempts' = 0
  BY DEF QueueTried, Tallied
<1> QED BY <1>1, <1>2 DEF QueueTried, Tries, Fits, Floor, Each, Dropped

\* A step of the process at work that leaves the queue alone.
LEMMA SerialStep ==
    ASSUME Alone, SerialInv, EditorInv', NEW i \in Invocations, Alters(i), pc[i] # "idle",
           UNCHANGED <<queue, start>>, Tallied, Knows(i)', Tried(i)', CommitsReported'
    PROVE  SerialInv'
  BY OthersKnow, TallyQueue, TallyBounded DEF SerialInv

\* The same, when the process leaves.
LEMMA SerialLeave ==
    ASSUME Alone, SerialInv, EditorInv', NEW i \in Invocations, Alters(i), pc[i] # "idle",
           UNCHANGED <<queue, start>>, Tallied, Leaves(i), CommitsReported'
    PROVE  SerialInv'
<1>1. Knows(i)' /\ Tried(i)'
  BY IdleKnows DEF Leaves
<1> QED BY <1>1, SerialStep

LEMMA Holds ==
    ASSUME SerialInv, NEW i \in Invocations
    PROVE  /\ EditorInv /\ EditorTypeOK /\ Shape(i) /\ Knows(i) /\ Tried(i) /\ mem[i] \in Blob
           /\ CommitsReported /\ attempts \in Nat /\ Dropped \in Nat /\ record \in Blob
           /\ record.steps \in Nat /\ mem[i].steps \in Nat /\ branch \in [Files -> Nat]
<1>1. EditorTypeOK /\ mem[i] \in Blob
  BY TypesApart DEF SerialInv, EditorInv, ProcTyped
<1>2. mem[i].steps \in Nat /\ branch \in [Files -> Nat]
  BY <1>1 DEF Blob, EditorTypeOK
<1> QED BY <1>1, <1>2, Counts DEF SerialInv, EditorInv

LEMMA SameForward == ASSUME record' = record, record.steps \in Nat PROVE Forward
  BY DEF Forward

LEMMA GuardedSerial ==
    ASSUME Alone, SerialInv, EditorInv', NEW i \in Invocations, NEW from, NEW to,
           \/ from = "load" /\ to = "heartbeat"
           \/ from = "cbload" /\ to = "cbsave",
           GuardedLoad(i, from, to)
    PROVE  SerialInv' /\ Forward
<1>1. EditorInv /\ EditorTypeOK /\ Shape(i) /\ Knows(i) /\ Tried(i) /\ record.steps \in Nat /\ CommitsReported
  BY Holds
<1>2. from \in {"load", "cbload"} /\ to \in {"heartbeat", "cbsave"} /\ (from = "load" <=> to = "heartbeat")
  OBVIOUS
<1>3. /\ Alters(i) /\ Calm /\ UNCHANGED <<chain, repo, unseen>> /\ pc[i] = from
      /\ Leaves(i) \/ (Describes(record, job[i].msg) /\ GoesOn(i, to, record))
  BY <1>1, GuardMoves
<1>4. UNCHANGED <<record, queue, start, attempts, committed, unseen>> /\ pc[i] # "idle" /\ Tallied
  BY <1>2, <1>3, CalmTally DEF chain, repo
<1>5. CommitsReported'
  <2>1. mem[i] = NoBlob /\ Listed(NoBlob) = {}
    BY <1>1, <1>2, <1>3 DEF Shape, Listed, ToSet, NoBlob
  <2>2. OthersStay(i)
    BY <1>3 DEF Alters
  <2> QED BY <1>1, <1>4, <2>1, <2>2, ReportedStay
<1>6. CASE Leaves(i)
  BY <1>1, <1>3, <1>4, <1>6, <1>5, SerialLeave, SameForward
<1>7. CASE Describes(record, job[i].msg) /\ GoesOn(i, to, record)
  <2>1. /\ pc'[i] = to /\ job'[i] = job[i] /\ mem'[i] = record /\ record' = record
        /\ record.status = "running" /\ record.steps = job[i].msg.after /\ Dropped' = Dropped
    BY <1>3, <1>4, <1>7 DEF GoesOn, Describes, Calm, Dropped
  <2>2. Knows(i)'
    BY <1>2, <1>3, <2>1 DEF Knows, InMemory, Listed, Single, LoopSteps
  <2>3. Tried(i)'
    BY <1>1, <1>2, <1>3, <1>4, <2>1 DEF Tried, Single, Tries, Floor, Each, Fits, LoopSteps
  <2> QED BY <1>1, <1>3, <1>4, <1>5, <2>2, <2>3, SerialStep, SameForward
<1> QED BY <1>3, <1>6, <1>7

LEMMA GuardSerial ==
    ASSUME Alone, SerialInv, EditorInv', NEW i \in Invocations, WorkerLoad(i) \/ CallbackLoad(i)
    PROVE  SerialInv' /\ Forward
  BY GuardedSerial DEF WorkerLoad, CallbackLoad

LEMMA HeartbeatSerial ==
    ASSUME Alone, SerialInv, EditorInv', NEW i \in Invocations, Heartbeat(i)
    PROVE  SerialInv' /\ Forward
<1>1. /\ EditorInv /\ EditorTypeOK /\ Shape(i) /\ Knows(i) /\ Tried(i) /\ record.steps \in Nat
      /\ CommitsReported /\ mem[i] \in Blob /\ attempts \in Nat /\ Dropped \in Nat
  BY Holds
<1>2. /\ pc[i] = "heartbeat" /\ Alters(i) /\ Saves(HeartbeatBlob(mem[i]))
      /\ GoesOn(i, "resume", mem[i]) /\ UNCHANGED <<start, queue, repo>>
  BY <1>1, HeartbeatMoves
<1>3. InMemory(i) /\ Single(i) /\ record.steps = job[i].msg.after /\ job[i].msg.kind = "step"
  BY <1>1, <1>2 DEF Knows, Shape, WorkerSteps
<1>4. /\ HeartbeatBlob(mem[i]).steps = mem[i].steps /\ HeartbeatBlob(mem[i]).status = mem[i].status
      /\ Listed(HeartbeatBlob(mem[i])) = Listed(mem[i])
  <2>1. Listed(HeartbeatBlob(mem[i])) = Listed(mem[i])
    BY <1>1, SameReport
  <2> QED BY <1>1, <2>1 DEF HeartbeatBlob, Blob
<1>5. record'.status = "running" /\ record'.steps = record.steps /\ Listed(record') = Listed(record)
  BY <1>2, <1>3, <1>4 DEF Saves, InMemory
<1>6. attempts' = attempts /\ Tallied
  <2>1. Tallied
    BY <1>2, SavesTally
  <2> QED BY <1>2, <1>3, <1>4, <2>1 DEF Saves, InMemory
<1>7. Knows(i)'
  <2>1. mem'[i] = mem[i] /\ job'[i] = job[i] /\ pc'[i] = "resume"
    BY <1>2 DEF GoesOn
  <2>2. Listed(mem'[i]) = Listed(mem[i])
    BY <2>1
  <2> QED BY <1>3, <1>5, <2>1, <2>2 DEF Knows, InMemory, Listed, Single, LoopSteps
<1>8. Tried(i)'
  <2>1. job'[i] = job[i] /\ pc'[i] = "resume"
    BY <1>2 DEF GoesOn
  <2>2. job[i].msg \in Message
    BY <1>1, <1>3, WorkerMessage
  <2>3. Fits(job[i].msg) /\ attempts <= Tries(job[i].msg, Dropped)
    BY <1>1, <1>2, <1>3 DEF Tried
  <2>4. attempts <= Tries(job[i].msg, Dropped) + 0
    BY <1>1, <2>2, <2>3, TriesFacts
  <2>5. attempts' <= Tries(job[i].msg, Dropped') + 0
    BY <1>1, <1>6, <2>2, <2>4, TallyTries
  <2>6. Tries(job[i].msg, Dropped') \in Nat
    <3>1. Dropped' \in Nat
      BY <1>1, <1>6 DEF Tallied
    <3> QED BY <2>2, <3>1, TriesFacts
  <2>7. attempts' <= Tries(job'[i].msg, Dropped')
    BY <2>1, <2>5, <2>6
  <2> QED BY <2>1, <2>3, <2>7 DEF Tried, Fits, Tries, Floor, Each, LoopSteps
<1>9. CommitsReported'
  <2>1. committed' = committed /\ OthersStay(i)
    BY <1>2 DEF repo, Alters
  <2> QED BY <1>1, <1>2, <1>4, <1>5, <2>1, ReportedSave
<1>10. Forward
  BY <1>1, <1>3, <1>5 DEF Forward, InMemory
<1> QED BY <1>1, <1>2, <1>6, <1>7, <1>8, <1>9, <1>10, SerialStep

LEMMA ReloadSerial ==
    ASSUME Alone, SerialInv, EditorInv', NEW i \in Invocations, Reload(i)
    PROVE  SerialInv' /\ Forward
<1>1. /\ EditorInv /\ EditorTypeOK /\ Shape(i) /\ Knows(i) /\ Tried(i) /\ record.steps \in Nat /\ CommitsReported
  BY Holds
<1>2. /\ pc[i] = "reload" /\ Alters(i) /\ Calm /\ UNCHANGED <<chain, repo, unseen>>
      /\ \/ Leaves(i)
         \/ /\ record.status = "running"
            /\ GoesOn(i, IF Exhausted(i) THEN "giveup" ELSE "publish", record)
  BY <1>1, ReloadMoves
<1>3. UNCHANGED <<record, queue, start, attempts, committed, unseen>> /\ pc[i] # "idle" /\ Tallied
  BY <1>2, CalmTally DEF chain, repo
<1>4. CommitsReported'
  <2>1. mem[i] = NoBlob /\ Listed(NoBlob) = {}
    BY <1>1, <1>2 DEF Shape, Listed, ToSet, NoBlob
  <2>2. OthersStay(i)
    BY <1>2 DEF Alters
  <2> QED BY <1>1, <1>3, <2>1, <2>2, ReportedStay
<1>5. CASE Leaves(i)
  BY <1>1, <1>2, <1>3, <1>5, <1>4, SerialLeave, SameForward
<1>6. CASE record.status = "running" /\ GoesOn(i, IF Exhausted(i) THEN "giveup" ELSE "publish", record)
  <2>1. /\ pc'[i] = (IF Exhausted(i) THEN "giveup" ELSE "publish") /\ job'[i] = job[i] /\ at'[i] = at[i]
        /\ mem'[i] = record /\ record' = record /\ attempts' = attempts
        /\ Dropped' = Dropped
    BY <1>2, <1>3, <1>6 DEF GoesOn, Calm, Dropped
  <2>2. pc'[i] \in {"giveup", "publish"}
    BY <2>1
  <2>3. Knows(i)'
    BY <1>6, <2>1, <2>2 DEF Knows, InMemory, Listed, Single, LoopSteps
  <2>4. (Advanced(i)' <=> Advanced(i)) /\ (Exhausted(i)' <=> Exhausted(i))
    BY <2>1 DEF Advanced, Exhausted, NewRetry
  <2>5. Tried(i)'
    <3>1. Single(i)' <=> Single(i)
      BY <2>1 DEF Single
    <3>2. Single(i) /\ job[i].msg.kind = "step" =>
            /\ Fits(job[i].msg)
            /\ IF Advanced(i) THEN attempts <= Floor(Dropped)
                              ELSE attempts <= Tries(job[i].msg, Dropped) + 1
      BY <1>1, <1>2 DEF Tried
    <3>3. pc'[i] = "publish" => ~Exhausted(i)
      BY <2>1
    <3>4. Tries(job[i].msg, Dropped)' = Tries(job[i].msg, Dropped) /\ Floor(Dropped)' = Floor(Dropped)
          /\ (Fits(job[i].msg)' <=> Fits(job[i].msg))
      BY <2>1 DEF Tries, Floor, Fits, Each
    <3> QED BY <2>1, <2>2, <2>4, <3>1, <3>2, <3>3, <3>4 DEF Tried, LoopSteps
  <2> QED BY <1>1, <1>2, <1>3, <1>4, <2>3, <2>5, SerialStep, SameForward
<1> QED BY <1>2, <1>5, <1>6

LEMMA DeadLetterSerial ==
    ASSUME Alone, SerialInv, EditorInv', NEW i \in Invocations, GiveUp(i) \/ CallbackSave(i)
    PROVE  SerialInv' /\ Forward
<1>1. /\ EditorInv /\ EditorTypeOK /\ Shape(i) /\ Knows(i) /\ record.steps \in Nat /\ mem[i] \in Blob
      /\ CommitsReported
  BY Holds
<1>2. /\ pc[i] \in {"giveup", "cbsave"} /\ Alters(i) /\ Saves(Failed(mem[i]))
      /\ Leaves(i) /\ UNCHANGED <<start, queue, repo>>
  BY <1>1, DeadLetterMoves DEF GiveUp, CallbackSave
<1>3. InMemory(i)
  BY <1>1, <1>2 DEF Knows
<1>4. Failed(mem[i]).steps = mem[i].steps /\ Listed(Failed(mem[i])) = Listed(mem[i])
  <2>1. Listed(Failed(mem[i])) = Listed(mem[i])
    BY <1>1, SameReport
  <2> QED BY <1>1, <2>1 DEF Failed, Blob
<1>5. record'.steps = record.steps /\ Listed(record') = Listed(record)
  BY <1>2, <1>3, <1>4 DEF Saves, InMemory
<1>6. Forward
  BY <1>1, <1>3, <1>5 DEF Forward, InMemory
<1>7. Tallied /\ UNCHANGED <<queue, start, committed>> /\ pc[i] # "idle"
  BY <1>2, SavesTally DEF repo
<1>8. CommitsReported'
  BY <1>1, <1>2, <1>4, <1>5, <1>7, ReportedSave DEF Alters
<1> QED BY <1>2, <1>6, <1>7, <1>8, SerialLeave

\* A worker that has tries left puts them into the next message.
LEMMA HandOnSerial ==
    ASSUME Alone, SerialInv, EditorInv', NEW i \in Invocations, Alters(i), Works(i), Leaves(i), Calm,
           UNCHANGED <<record, start, attempts, repo>>,
           NEW m \in Message, queue' = queue \cup {m},
           m.kind = "step" => Fits(m) /\ attempts <= Tries(m, Dropped), CommitsReported'
    PROVE  SerialInv' /\ Forward
<1>1. /\ EditorInv /\ QueueTried /\ Bounded /\ record.steps \in Nat
  BY Holds DEF SerialInv
<1>2. queue = {} /\ pc[i] # "idle" /\ start = "done"
  BY <1>1 DEF EditorInv, ChainIsOne, Works
<1>3. \A j \in Invocations : Knows(j)' /\ Tried(j)'
  <2>1. Knows(i)' /\ Tried(i)'
    BY IdleKnows DEF Leaves
  <2> QED BY <1>1, <1>2, <2>1, OthersKnow
<1>4. Tallied /\ Dropped' = Dropped
  BY CalmTally DEF Calm, Dropped
<1>5. QueueTried'
  <2>1. queue' = {m} /\ start' = "done"
    BY <1>2
  <2>2. m.kind = "step" => Fits(m) /\ attempts' <= Tries(m, Dropped')
    BY <1>4
  <2> QED BY <2>1, <2>2 DEF QueueTried, Fits, Tries, Floor, Each, Dropped
<1> QED BY <1>1, <1>3, <1>4, <1>5, TallyBounded, SameForward DEF SerialInv

LEMMA RechainSerial ==
    ASSUME Alone, SerialInv, EditorInv', NEW i \in Invocations, Rechain(i)
    PROVE  SerialInv' /\ Forward
<1> DEFINE m == StepMessage(mem[i].steps, NewRetry(i))
<1>1. /\ EditorInv /\ EditorTypeOK /\ Shape(i) /\ Knows(i) /\ Tried(i) /\ record.steps \in Nat
      /\ mem[i].steps \in Nat /\ attempts \in Nat /\ Dropped \in Nat /\ CommitsReported
  BY Holds
<1>2. /\ pc[i] = "publish" /\ Alters(i) /\ Calm /\ Leaves(i)
      /\ UNCHANGED <<record, start, attempts, repo, unseen>> /\ m \in Message
      /\ queue' = queue \/ queue' = queue \cup {m}
  BY <1>1, RechainMoves
<1>3. Works(i) /\ Single(i) /\ job[i].msg.kind = "step"
  BY <1>1, <1>2 DEF Works, Shape, WorkerSteps
<1>4. Fits(m) /\ attempts <= Tries(m, Dropped)
  <2>1. job[i].msg \in Message
    BY <1>1, <1>3, WorkerMessage
  <2>2. /\ Fits(job[i].msg) /\ ~Exhausted(i)
        /\ IF Advanced(i) THEN attempts <= Floor(Dropped) ELSE attempts <= Tries(job[i].msg, Dropped) + 1
    BY <1>1, <1>2, <1>3 DEF Tried
  <2>3. Tries(job[i].msg, Dropped) \in Nat /\ Floor(Dropped) \in Nat /\ Tries(m, Dropped) \in Nat
    BY <1>1, <1>2, <2>1, TriesFacts, FloorFacts
  <2>4. m.retry = NewRetry(i) /\ m.retried = 0
    BY DEF StepMessage
  <2>5. CASE Advanced(i)
    <3>1. m = StepMessage(mem[i].steps, 0)
      BY <2>5 DEF NewRetry
    <3>2. Floor(Dropped) <= Tries(StepMessage(mem[i].steps, 0), Dropped)
      BY <1>1, <2>1, NextTries
    <3>3. Fits(m)
      BY <2>4, <2>5, EditorAssumption DEF Fits, NewRetry
    <3> HIDE DEF m
    <3> QED BY <1>1, <2>2, <2>3, <2>5, <3>1, <3>2, <3>3
  <2>6. CASE ~Advanced(i)
    <3>1. m = StepMessage(mem[i].steps, job[i].msg.retry + 1)
      BY <2>6 DEF NewRetry
    <3>2. Tries(job[i].msg, Dropped) + 1 <= Tries(StepMessage(mem[i].steps, job[i].msg.retry + 1), Dropped)
      BY <1>1, <2>1, <2>2, NextTries DEF Fits
    <3>3. Fits(m)
      <4>1. job[i].msg.retry \in Nat /\ MaxFailures \in Nat /\ StepRetries \in Nat
        BY <2>1, EditorAssumption DEF Message
      <4> QED BY <2>2, <2>4, <2>6, <4>1 DEF Fits, Exhausted, NewRetry
    <3> HIDE DEF m
    <3> QED BY <1>1, <2>2, <2>3, <2>6, <3>1, <3>2, <3>3
  <2> QED BY <2>5, <2>6
<1> HIDE DEF m
<1>5. CommitsReported'
  <2>1. Listed(mem[i]) = Listed(record)
    BY <1>1, <1>2 DEF Knows, InMemory
  <2> QED BY <1>1, <1>2, <2>1, ReportedStay DEF Alters, repo
<1>6. CASE queue' = queue
  <2>1. Tallied /\ pc[i] # "idle"
    BY <1>2, CalmTally
  <2> QED BY <1>1, <1>2, <1>6, <1>5, <2>1, SerialLeave, SameForward
<1>7. CASE queue' = queue \cup {m}
  BY <1>2, <1>3, <1>4, <1>7, <1>5, HandOnSerial
<1> QED BY <1>2, <1>6, <1>7

LEMMA KillSerial ==
    ASSUME Alone, SerialInv, EditorInv', NEW i \in Invocations, Kill(i)
    PROVE  SerialInv' /\ Forward
<1>1. /\ EditorInv /\ EditorTypeOK /\ Shape(i) /\ Tried(i) /\ record.steps \in Nat
      /\ attempts \in Nat /\ Dropped \in Nat /\ CommitsReported
  BY Holds
<1>2. /\ pc[i] # "idle" /\ Alters(i) /\ Leaves(i) /\ Calm
      /\ UNCHANGED <<record, start, attempts, repo>>
      /\ unseen' = unseen \cup ((Listed(mem[i]) \cap committed) \ Listed(record))
      /\ queue' = IF Single(i) THEN queue \cup {Undelivered(job[i].msg)} ELSE queue
      /\ Single(i) => Undelivered(job[i].msg) \in Message
  BY <1>1, KillMoves
<1>3. CommitsReported'
  BY <1>1, <1>2, Reported DEF Alters, repo
<1>4. CASE ~Single(i)
  <2>1. Tallied /\ queue' = queue
    BY <1>2, <1>4, CalmTally
  <2> QED BY <1>1, <1>2, <1>3, <2>1, SerialLeave, SameForward
<1>5. CASE Single(i)
  <2> DEFINE m == job[i].msg
             u == Undelivered(m)
  <2>1. m \in Message /\ m.kind \in {"step", "failure"}
    BY <1>1, <1>5, WorkerMessage DEF Message
  <2>2. ASSUME u.kind = "step"
        PROVE  Fits(u) /\ attempts <= Tries(u, Dropped)
    <3>1. m.kind = "step" /\ m.retried < StepRetries /\ u = [m EXCEPT !.retried = m.retried + 1]
      BY <2>1, <2>2 DEF Undelivered, Message
    <3>2. Fits(m)
      BY <1>1, <1>5, <3>1 DEF Tried
    <3>3. attempts <= Tries(m, Dropped) + 1
      <4>1. /\ Tries(m, Dropped) \in Nat /\ Floor(Dropped) \in Nat /\ Floor(Dropped) <= Tries(m, Dropped)
        BY <1>1, <2>1, TriesFacts, FloorFacts
      <4>2. pc[i] \in {"load", "heartbeat", "resume", "reload", "giveup", "publish"} \cup LoopSteps
        <5>1. pc[i] \in Labels
          BY <1>1, TypesApart DEF ProcTyped
        <5> QED BY <1>1, <1>2, <3>1, <5>1 DEF Shape, Labels, WorkerSteps, Callback, LoopSteps
      <4>3. \/ attempts <= Tries(m, Dropped) \/ attempts <= Tries(m, Dropped) + 1
            \/ attempts <= Floor(Dropped)
        BY <1>1, <1>5, <3>1, <4>2 DEF Tried
      <4> HIDE DEF m
      <4> QED BY <1>1, <4>1, <4>3
    <3>4. Fits(u)
      <4>1. m.retried \in Nat /\ StepRetries \in Nat /\ u.retry = m.retry /\ u.retried = m.retried + 1
        BY <2>1, <3>1, EditorAssumption DEF Message
      <4> HIDE DEF m, u
      <4> QED BY <3>1, <3>2, <4>1 DEF Fits
    <3>5. Tries(u, Dropped) = Tries(m, Dropped) + 1
      <4> HIDE DEF m, u
      <4> QED BY <1>1, <2>1, <3>1, NextTries
    <3> HIDE DEF m, u
    <3> QED BY <3>3, <3>4, <3>5
  <2>3. u \in Message /\ Works(i) /\ queue' = queue \cup {u}
    BY <1>2, <1>5 DEF Works
  <2> HIDE DEF u
  <2> QED BY <1>2, <1>3, <2>2, <2>3, HandOnSerial
<1> QED BY <1>4, <1>5

LEMMA DeliverSerial ==
    ASSUME Alone, SerialInv, EditorInv', NEW i \in Invocations, NEW m \in queue, Deliver(i, m)
    PROVE  SerialInv' /\ Forward
<1>1. /\ EditorInv /\ EditorTypeOK /\ Shape(i) /\ QueueTried /\ Bounded /\ CommitsReported
      /\ record.steps \in Nat /\ m \in Message
  BY Holds DEF SerialInv, EditorTypeOK
<1>2. /\ pc[i] = "idle" /\ Alters(i) /\ queue' = queue \ {m}
      /\ UNCHANGED <<record, start, attempts, repo, unseen, spent>>
      /\ pc'[i] = (IF m.kind = "failure" THEN "cbload" ELSE "load")
      /\ job'[i] = [role |-> "worker", msg |-> m] /\ mem'[i] = NoBlob /\ editorCalls'[i] = {}
  BY <1>1, DeliverMoves
<1>3. pc'[i] \in {"cbload", "load"} /\ job'[i].msg = m /\ job'[i].role = "worker"
  BY <1>2
<1>4. Knows(i)'
  BY <1>3 DEF Knows, LoopSteps
<1>5. Tried(i)'
  <2>1. m.kind = "step" => Fits(m) /\ attempts' <= Tries(m, Dropped')
    BY <1>1, <1>2 DEF QueueTried, Dropped
  <2> QED BY <1>3, <2>1 DEF Tried, LoopSteps, Tries, Fits, Floor, Each, Dropped
<1>6. queue' = {}
  BY <1>1, <1>2 DEF EditorInv, ChainIsOne
<1>7. \A j \in Invocations : Knows(j)' /\ Tried(j)'
  <2>1. ASSUME NEW j \in Invocations, j # i PROVE Knows(j)' /\ Tried(j)'
    <3>1. CASE pc[j] = "idle"
      <4>1. pc'[j] = "idle" /\ job'[j] = NoJob
        BY <1>1, <1>2, <2>1, <3>1 DEF EditorInv, Shape, Alters, OthersStay
      <4> QED BY <4>1, IdleKnows
    <3>2. CASE pc[j] # "idle"
      <4>1. pc'[j] # "idle" /\ pc'[i] # "idle"
        BY <1>2, <1>3, <2>1, <3>2 DEF Alters, OthersStay
      <4>2. CASE \A p, q \in Invocations : p = q
        BY <2>1, <4>2
      <4>3. CASE PushLimits = {}
        <5>1. Works(j)
          <6>1. Shape(j) /\ pc[j] \in Labels
            BY <1>1, TypesApart DEF EditorInv, ProcTyped
          <6> QED BY <3>2, <4>3, <6>1 DEF Shape, Works, Labels
        <5> QED BY <1>1, <5>1 DEF EditorInv, ChainIsOne
      <4> QED BY <4>2, <4>3 DEF Alone
    <3> QED BY <3>1, <3>2
  <2> QED BY <1>4, <1>5, <2>1
<1>8. QueueTried' /\ Bounded'
  <2>1. start' # "done" => attempts' = 0
    BY <1>1, <1>2 DEF QueueTried
  <2>2. Bounded'
    BY <1>1, <1>2 DEF Bounded, Dropped, Ceiling, Each
  <2> QED BY <1>6, <2>1, <2>2 DEF QueueTried
<1>9. CommitsReported'
  <2>1. mem[i] = NoBlob
    BY <1>1, <1>2 DEF Shape
  <2> QED BY <1>1, <1>2, <2>1, ReportedStay DEF repo, Alters
<1> QED BY <1>1, <1>2, <1>7, <1>8, <1>9, SameForward DEF SerialInv

LEMMA PushSerial ==
    ASSUME Alone, SerialInv, EditorInv', NEW i \in Invocations, NEW l \in PushLimits, Push(i, l)
    PROVE  SerialInv' /\ Forward
<1>1. /\ EditorInv /\ EditorTypeOK /\ Shape(i) /\ QueueTried /\ Bounded /\ CommitsReported
      /\ record.steps \in Nat
  BY Holds DEF SerialInv
<1>2. /\ pc[i] = "idle" /\ Alters(i) /\ Calm /\ UNCHANGED <<chain, repo, unseen>>
      /\ pc'[i] = "resume" /\ mem'[i] = NoBlob /\ editorCalls'[i] = {}
      /\ job'[i].role = "push" /\ Read(job'[i].seen)
  BY <1>1, PushMoves
<1>3. ~Single(i)' /\ record' = record
  BY <1>2 DEF Single, chain
<1>4. Knows(i)' /\ Tried(i)'
  BY <1>2, <1>3 DEF Knows, Tried, LoopSteps, Read
<1>5. \A k \in Invocations : pc[k] = "idle"
  BY <1>2 DEF Alone
<1>6. \A j \in Invocations : Knows(j)' /\ Tried(j)'
  BY <1>1, <1>2, <1>4, <1>5, OthersKnow
<1>7. Tallied /\ UNCHANGED <<queue, start, committed, unseen>>
  BY <1>2, CalmTally DEF chain, repo
<1>8. CommitsReported'
  <2>1. mem[i] = NoBlob
    BY <1>1, <1>2 DEF Shape
  <2> QED BY <1>1, <1>2, <1>3, <1>7, <2>1, ReportedStay DEF Alters
<1> QED BY <1>1, <1>3, <1>6, <1>7, <1>8, TallyQueue, TallyBounded, SameForward DEF SerialInv

LEMMA StartSerial ==
    ASSUME Alone, SerialInv, EditorInv', StartCall
    PROVE  SerialInv' /\ Forward
<1>1. /\ EditorInv /\ EditorTypeOK /\ QueueTried /\ Bounded /\ CommitsReported
      /\ record.steps \in Nat /\ attempts \in Nat /\ Dropped \in Nat
  BY Counts DEF SerialInv, EditorInv
<1>2. start # "done" /\ queue = {} /\ \A j \in Invocations : pc[j] = "idle"
  <2>1. start # "done"
    BY DEF StartCall, SeedEditorRun, PublishStart
  <2> QED BY <1>1, <2>1 DEF EditorInv, ChainIsOne
<1>3. \A j \in Invocations : Knows(j)' /\ Tried(j)'
  <2> SUFFICES ASSUME NEW j \in Invocations PROVE Knows(j)' /\ Tried(j)'
    OBVIOUS
  <2>1. pc' = pc /\ job' = job
    BY DEF StartCall, SeedEditorRun, PublishStart, proc
  <2>2. job[j] = NoJob
    BY <1>1, <1>2 DEF EditorInv, Shape
  <2> QED BY <1>2, <2>1, <2>2, IdleKnows
<1>4. ASSUME SeedEditorRun PROVE SerialInv' /\ Forward
  <2>1. /\ start = "new" /\ start' = "publish" /\ Saves(Seeded)
        /\ UNCHANGED <<queue, proc, editorCalls, repo>>
    BY <1>1, <1>4, SeedMoves
  <2>2. Tallied
    BY <2>1, SavesTally
  <2>3. QueueTried'
    <3>1. queue' = {} /\ attempts' = 0
      BY <1>1, <1>2, <2>1, <2>2 DEF QueueTried, Tallied
    <3> QED BY <3>1 DEF QueueTried
  <2>4. CommitsReported'
    BY <1>1, <2>1 DEF EditorInv, ChainIsOne, CommitsReported, repo
  <2>5. Forward
    <3>1. record = NoBlob /\ record' \in Blob
      BY <1>1, <2>1 DEF EditorInv, ChainIsOne, Saves
    <3> QED BY <3>1 DEF Forward, NoBlob, Blob
  <2> QED BY <1>1, <1>3, <2>2, <2>3, <2>4, <2>5, TallyBounded DEF SerialInv
<1>5. ASSUME PublishStart PROVE SerialInv' /\ Forward
  <2>1. /\ start = "publish" /\ start' \in {"done", "refused"}
        /\ UNCHANGED <<record, attempts, proc, editorCalls, repo, unseen>>
        /\ queue' = queue \/ queue' = queue \cup {StepMessage(0, 0)}
    BY <1>5 DEF PublishStart
  <2>2. Dropped' = Dropped
    BY <1>1, <1>5, StrikeType DEF PublishStart, Dropped, Hazards
  <2>3. Tallied
    BY <2>1, <2>2 DEF Tallied
  <2>4. attempts = 0
    BY <1>1, <1>2 DEF QueueTried
  <2>5. QueueTried'
    <3>1. StepMessage(0, 0) \in Message /\ StepMessage(0, 0).retry = 0 /\ StepMessage(0, 0).retried = 0
      BY MessageTypes DEF StepMessage
    <3>2. Fits(StepMessage(0, 0))
      BY <3>1, EditorAssumption DEF Fits
    <3>3. 0 <= Tries(StepMessage(0, 0), Dropped)
      BY <1>1, <3>1, TriesFacts
    <3>4. \A m \in queue' : Fits(m) /\ attempts' <= Tries(m, Dropped')
      BY <1>2, <2>1, <2>2, <2>4, <3>2, <3>3
    <3> QED BY <2>1, <2>4, <3>4 DEF QueueTried, Fits, Tries, Floor, Each, Dropped
  <2>6. CommitsReported'
    BY <1>1, <2>1 DEF CommitsReported, repo, proc, Listed
  <2> QED BY <1>1, <1>3, <2>1, <2>3, <2>5, <2>6, TallyBounded, SameForward DEF SerialInv
<1> QED BY <1>4, <1>5 DEF StartCall

LEMMA StillSerial ==
    ASSUME SerialInv, EditorInv', UNCHANGED <<chain, proc, committed, unseen>>, Dropped' = Dropped
    PROVE  SerialInv' /\ Forward
<1>1. record.steps \in Nat /\ EditorInv
  BY Counts DEF SerialInv
<1>2. UNCHANGED <<record, start, queue, attempts, pc, job, mem, at, committed, unseen>>
  BY DEF chain, proc
<1>3. \A j \in Invocations : Knows(j)'
  BY <1>2 DEF SerialInv, Knows, InMemory, Ahead, Blind, Read, Single, Listed
<1>4. \A j \in Invocations : Tried(j)'
  BY <1>2 DEF SerialInv, Tried, Single, Tries, Floor, Each, Fits, Advanced, Exhausted, NewRetry
<1>5. QueueTried' /\ Bounded'
  BY <1>2 DEF SerialInv, QueueTried, Bounded, Tries, Floor, Each, Fits, Ceiling
<1>6. CommitsReported'
  BY <1>2 DEF SerialInv, CommitsReported, Listed
<1> QED BY <1>1, <1>2, <1>3, <1>4, <1>5, <1>6, SameForward DEF SerialInv

\* A loop that is over with the step n of its request: a worker, which made one step, has it at
\* hand, or has saved or lost the next.
LEMMA ReturnsSerial ==
    ASSUME Alone, SerialInv, EditorInv', NEW i \in Invocations, Shape(i), Alters(i),
           pc[i] \in {"resume"} \cup LoopSteps,
           UNCHANGED <<queue, start>>, Tallied, CommitsReported', NEW n \in Nat, Returns(i, n),
           Single(i) => /\ n = job[i].msg.after \/ n = job[i].msg.after + 1
                        /\ n = job[i].msg.after + 1 =>
                             \/ attempts' = 0
                             \/ attempts' = attempts /\ Dropped' = Dropped + 1
    PROVE  SerialInv'
<1>1. /\ EditorInv /\ EditorTypeOK /\ Tried(i) /\ attempts \in Nat /\ Dropped \in Nat
  BY Holds
<1>2. pc[i] # "idle"
  BY DEF LoopSteps
<1>3. CASE Leaves(i)
  BY <1>2, <1>3, SerialLeave
<1>4. CASE Single(i) /\ ~Leaves(i)
  <2> DEFINE m == job[i].msg
  <2>1. pc'[i] = "reload" /\ job'[i] = job[i] /\ mem'[i] = NoBlob /\ at'[i].step = n
    BY <1>4 DEF Returns
  <2>2. m \in Message /\ m.kind = "step" /\ m.after \in Nat
    BY <1>1, <1>4, WorkerMessage DEF Shape, Single, Message
  <2>3. Fits(m) /\ attempts <= Tries(m, Dropped) + 1 /\ Tries(m, Dropped) \in Nat
    <3>1. Fits(m) /\ (attempts <= Tries(m, Dropped) \/ attempts <= Tries(m, Dropped) + 1)
      BY <1>1, <1>4, <2>2 DEF Tried
    <3>2. Tries(m, Dropped) \in Nat
      BY <1>1, <2>2, TriesFacts
    <3> HIDE DEF m
    <3> QED BY <1>1, <3>1, <3>2
  <2>4. attempts' <= Tries(m, Dropped') + 1
    BY <1>1, <2>2, <2>3, TallyTries
  <2>5. n = m.after + 1 => attempts' <= Floor(Dropped')
    <3>1. ASSUME attempts' = 0 PROVE attempts' <= Floor(Dropped')
      <4>1. Dropped' \in Nat
        BY <1>1 DEF Tallied
      <4> QED BY <3>1, <4>1, FloorFacts
    <3>2. ASSUME attempts' = attempts, Dropped' = Dropped + 1 PROVE attempts' <= Floor(Dropped')
      <4>1. Tries(m, Dropped) + 1 <= Ceiling(Dropped) /\ Ceiling(Dropped) = Floor(Dropped + 1)
            /\ Ceiling(Dropped) \in Nat
        BY <1>1, <2>2, <2>3, TriesFacts, FloorFacts
      <4>2. Floor(Dropped') = Floor(Dropped + 1)
        BY <3>2
      <4> HIDE DEF m
      <4> QED BY <1>1, <2>3, <3>2, <4>1, <4>2
    <3> QED BY <1>4, <3>1, <3>2
  <2>6. Advanced(i)' <=> n = m.after + 1
    BY <1>4, <2>1, <2>2 DEF Advanced
  <2>7. Knows(i)'
    BY <2>1 DEF Knows, LoopSteps
  <2>8. Tried(i)'
    <3>1. Single(i)' /\ job'[i].msg = m
      BY <1>4, <2>1 DEF Single
    <3>2. Fits(job'[i].msg) /\ (IF Advanced(i)' THEN attempts' <= Floor(Dropped')
                                ELSE attempts' <= Tries(job'[i].msg, Dropped') + 1)
      BY <2>3, <2>4, <2>5, <2>6, <3>1
    <3> HIDE DEF m
    <3> QED BY <2>1, <3>1, <3>2 DEF Tried, LoopSteps, Fits, Tries, Floor, Each
  <2> QED BY <1>2, <2>7, <2>8, SerialStep
<1> QED BY <1>3, <1>4 DEF Returns

LEMMA ResumeSerial ==
    ASSUME Alone, SerialInv, EditorInv', NEW i \in Invocations, Resume(i)
    PROVE  SerialInv' /\ Forward
<1>1. /\ EditorInv /\ EditorTypeOK /\ Shape(i) /\ Knows(i) /\ Tried(i) /\ record.steps \in Nat
      /\ CommitsReported /\ mem[i] \in Blob /\ mem[i].steps \in Nat /\ attempts \in Nat /\ Dropped \in Nat
      /\ record \in Blob
  BY Holds
<1>2. /\ pc[i] = "resume" /\ Alters(i) /\ Calm /\ attempts' \in Nat
      /\ UNCHANGED <<record, start, queue, repo, unseen>>
      /\ \/ TakesUp(i)
         \/ /\ attempts' = attempts
            /\ \/ record.status = "done" /\ Returns(i, record.steps)
               \/ record.steps >= Capped(i, record) /\ Returns(i, record.steps)
               \/ Returns(i, mem[i].steps)
  BY <1>1, ResumeMoves
<1>3. /\ Single(i) => InMemory(i) /\ record.steps = job[i].msg.after /\ job[i].msg.kind = "step"
      /\ ~Single(i) => mem[i] = NoBlob /\ job[i].role = "push" /\ Read(job[i].seen)
  BY <1>1, <1>2 DEF Knows, Shape, Single
<1>4. Listed(mem[i]) \subseteq Listed(record)
  <2>1. CASE Single(i)
    BY <1>3, <2>1 DEF InMemory
  <2>2. CASE ~Single(i)
    BY <1>3, <2>2 DEF Listed, ToSet, NoBlob
  <2> QED BY <2>1, <2>2
<1>5. CommitsReported'
  BY <1>1, <1>2, <1>4, ReportedStay DEF Alters, repo
<1>6. ASSUME NEW n \in Nat, n \in {record.steps, mem[i].steps}, attempts' = attempts, Returns(i, n)
      PROVE  SerialInv'
  <2>1. Single(i) => n = job[i].msg.after /\ n # job[i].msg.after + 1
    BY <1>1, <1>3, <1>6 DEF InMemory
  <2>2. Tallied
    BY <1>2, <1>6, CalmTally
  <2> QED BY <1>1, <1>2, <1>6, <1>5, <2>1, <2>2, ReturnsSerial
<1>7. ASSUME TakesUp(i) PROVE SerialInv'
  <2>1. /\ pc'[i] = "turn" /\ job'[i] = job[i] /\ mem'[i].written = record.written
        /\ at'[i] = [step |-> record.steps + 1, capped |-> Capped(i, record)]
        /\ attempts' = (IF Single(i) THEN attempts + 1 ELSE attempts)
        /\ record.status \in {"running", "failed"}
    BY <1>7 DEF TakesUp
  <2>2. /\ record' = record /\ at'[i].step = record.steps + 1 /\ at'[i].capped = Capped(i, record)
        /\ Listed(mem'[i]) = Listed(record) /\ Dropped' = Dropped
        /\ (Single(i)' <=> Single(i))
    BY <1>2, <2>1 DEF Listed, Calm, Dropped, Single
  <2>3. Knows(i)'
    <3>1. job[i].role = "push" => job[i].seen \in {"none", "running", "done"}
      <4>1. job[i] \in Job
        BY <1>1 DEF EditorTypeOK
      <4> QED BY <4>1 DEF Job
    <3>2. record.status = "running" \/ (record.status = "failed" /\ Blind(i))
      BY <1>3, <2>1, <3>1 DEF InMemory, Read, Blind
    <3>3. Ahead(i)'
      BY <1>1, <2>1, <2>2, <3>2 DEF Ahead, Blind, Listed
    <3>4. Single(i) => at'[i].capped = at'[i].step
      BY <1>1, <2>2 DEF Capped
    <3> QED BY <1>3, <2>1, <2>2, <3>3, <3>4 DEF Knows, LoopSteps
  <2>4. Single(i) => /\ Fits(job[i].msg) /\ attempts <= Tries(job[i].msg, Dropped)
                     /\ Tries(job[i].msg, Dropped) \in Nat /\ job[i].msg \in Message
                     /\ Tries(job[i].msg, Dropped) + 1 <= Ceiling(Dropped) /\ Ceiling(Dropped) \in Nat
    BY <1>1, <1>2, <1>3, WorkerMessage, TriesFacts, FloorFacts DEF Tried
  <2>5. Tried(i)'
    <3>1. Single(i) => Fits(job[i].msg) /\ attempts' <= Tries(job[i].msg, Dropped) + 1
      BY <1>1, <2>1, <2>4
    <3>2. Tries(job[i].msg, Dropped)' = Tries(job[i].msg, Dropped) /\ (Fits(job[i].msg)' <=> Fits(job[i].msg))
      BY <2>1, <2>2 DEF Tries, Floor, Fits, Each
    <3> QED BY <2>1, <2>2, <3>1, <3>2 DEF Tried, LoopSteps
  <2>6. Bounded'
    <3>1. Bounded
      BY DEF SerialInv
    <3>2. attempts' <= Ceiling(Dropped)
      BY <1>1, <2>1, <2>4, <3>1 DEF Bounded
    <3> QED BY <2>2, <3>2 DEF Bounded, Ceiling, Each
  <2>7. QueueTried'
    <3>1. QueueTried /\ pc[i] # "idle"
      BY <1>2 DEF SerialInv
    <3>2. start = "done"
      BY <1>1, <3>1 DEF EditorInv, ChainIsOne
    <3>3. CASE Single(i)
      <4>1. queue = {}
        BY <1>1, <3>1, <3>3 DEF EditorInv, ChainIsOne, Works
      <4> QED BY <1>2, <3>2, <4>1 DEF QueueTried
    <3>4. CASE ~Single(i)
      <4>1. Tallied
        BY <2>1, <2>2, <3>4 DEF Tallied
      <4> QED BY <1>1, <1>2, <3>1, <4>1, TallyQueue
    <3> QED BY <3>3, <3>4
  <2>8. \A j \in Invocations : Knows(j)' /\ Tried(j)'
    BY <1>1, <1>2, <2>3, <2>5, OthersKnow
  <2> QED BY <1>5, <2>6, <2>7, <2>8 DEF SerialInv
<1> QED BY <1>1, <1>2, <1>6, <1>7, SameForward

\* A save of the step n or the one before, by the loop of i.
LEMMA SavedForward ==
    ASSUME EditorInv, NEW i \in Invocations, Ahead(i), at[i].step \in Nat, NEW b \in Blob, Saves(b),
           b.steps \in {at[i].step, at[i].step - 1}, Listed(b) = Listed(mem[i])
    PROVE  Forward /\ Listed(record) \subseteq Listed(record')
<1>1. record.steps \in Nat /\ b.steps \in Nat
  BY Counts DEF Blob
<1>2. CASE record' = record
  BY <1>1, <1>2 DEF Forward
<1>3. CASE record' = b
  <2>1. record.status # "done" /\ (record.status = "failed" => Revived)
    BY DEF Ahead, Blind, Revived
  <2>2. record'.steps >= record.steps /\ Listed(record) \subseteq Listed(record')
    BY <1>1, <1>3 DEF Ahead
  <2> QED BY <2>1, <2>2 DEF Forward
<1> QED BY <1>2, <1>3 DEF Saves

LEMMA InLoop ==
    ASSUME SerialInv, NEW i \in Invocations, pc[i] \in LoopSteps
    PROVE  /\ Ahead(i) /\ at[i].step \in Nat \ {0} /\ at[i].step - 1 \in Nat
           /\ Single(i) => /\ record.steps = job[i].msg.after /\ at[i].step = job[i].msg.after + 1
                           /\ at[i].capped = at[i].step /\ job[i].msg.kind = "step"
           /\ EditorInv /\ EditorTypeOK /\ Shape(i) /\ record.steps \in Nat /\ mem[i] \in Blob
           /\ pc[i] # "idle" /\ pc[i] \in {"resume"} \cup LoopSteps
<1>1. EditorInv /\ EditorTypeOK /\ Shape(i) /\ Knows(i) /\ record.steps \in Nat /\ mem[i] \in Blob
  BY Holds
<1>2. at[i].step \in Nat \ {0}
  BY <1>1, LoopPlace
<1>3. at[i].step - 1 \in Nat
  BY <1>2
<1>4. Single(i) => job[i].msg.kind = "step"
  BY <1>1 DEF Shape, Single
<1> QED BY <1>1, <1>2, <1>3, <1>4 DEF Knows, LoopSteps

LEMMA RunningBlob ==
    ASSUME NEW b \in Blob, NEW n \in Nat
    PROVE  /\ Running(b, n) \in Blob /\ Running(b, n).steps = n /\ Running(b, n).status = "running"
           /\ Listed(Running(b, n)) = Listed(b)
<1>1. Running(b, n) \in Blob /\ Listed(Running(b, n)) = Listed(b)
  BY BlobTypes, SameReport
<1> QED BY <1>1 DEF Running, Blob

LEMMA TurnFailsSerial ==
    ASSUME Alone, SerialInv, EditorInv', NEW i \in Invocations, TurnFails(i)
    PROVE  SerialInv' /\ Forward
<1> DEFINE n == at[i].step - 1
           b == Running(mem[i], n)
<1>1. pc[i] \in LoopSteps
  BY DEF TurnFails, At, LoopSteps
<1>2. /\ Ahead(i) /\ at[i].step \in Nat \ {0} /\ n \in Nat /\ EditorInv /\ EditorTypeOK /\ Shape(i)
      /\ Single(i) => at[i].step = job[i].msg.after + 1
      /\ mem[i] \in Blob /\ pc[i] \in {"resume"} \cup LoopSteps
  BY <1>1, InLoop
<1>3. /\ Alters(i) /\ Returns(i, n) /\ Saves(b) /\ UNCHANGED <<start, queue, repo>>
  BY <1>2, TurnFailsMoves
<1>4. b \in Blob /\ b.steps = n /\ Listed(b) = Listed(mem[i])
  BY <1>2, RunningBlob
<1> HIDE DEF b
<1>5. Forward /\ Listed(record) \subseteq Listed(record')
  BY <1>2, <1>3, <1>4, SavedForward
<1>6. Single(i) => n = job[i].msg.after /\ n # job[i].msg.after + 1
  <2>1. Single(i) => job[i].msg.after \in Nat
    BY <1>2, WorkerMessage DEF Message
  <2> QED BY <1>2, <2>1
<1>7. Tallied /\ UNCHANGED <<queue, start, committed>>
  BY <1>3, SavesTally DEF repo
<1> HIDE DEF n
<1>8. CommitsReported'
  BY <1>3, <1>4, <1>5, <1>7, ReportedSave DEF Alters, SerialInv
<1>9. SerialInv'
  BY <1>2, <1>3, <1>6, <1>7, <1>8, ReturnsSerial
<1> QED BY <1>5, <1>9

\* A worker that saves its step, or loses the save, has no tries of the next behind it.
LEMMA SavedStep ==
    ASSUME SerialInv, NEW i \in Invocations, pc[i] \in LoopSteps, NEW b, b.steps = at[i].step, Saves(b)
    PROVE  Single(i) => \/ attempts' = 0
                        \/ attempts' = attempts /\ Dropped' = Dropped + 1
<1>1. Single(i) => record.steps # at[i].step
  <2>1. /\ Single(i) => /\ record.steps = job[i].msg.after /\ at[i].step = job[i].msg.after + 1
        /\ record.steps \in Nat
    BY InLoop
  <2> QED BY <2>1
<1> QED BY <1>1 DEF Saves, Dropped

LEMMA StepOnSerial ==
    ASSUME Alone, SerialInv, EditorInv', NEW i \in Invocations, pc[i] \in LoopSteps, Alters(i),
           NEW b \in Blob, b.written = mem[i].written, Saves(Running(b, at[i].step)),
           UNCHANGED <<start, queue, repo>>, Returns(i, at[i].step) \/ NextTurn(i, b)
    PROVE  SerialInv' /\ Forward
<1> DEFINE r == Running(b, at[i].step)
<1>1. /\ Ahead(i) /\ at[i].step \in Nat \ {0} /\ EditorInv /\ EditorTypeOK /\ Shape(i)
      /\ Single(i) => at[i].step = job[i].msg.after + 1 /\ at[i].capped = at[i].step
      /\ mem[i] \in Blob /\ pc[i] \in {"resume"} \cup LoopSteps /\ pc[i] # "idle" /\ record.steps \in Nat
  BY InLoop
<1>2. r \in Blob /\ r.steps = at[i].step /\ Listed(r) = Listed(mem[i]) /\ r.status = "running"
  <2>1. Listed(b) = Listed(mem[i])
    BY DEF Listed
  <2> QED BY <1>1, <2>1, RunningBlob
<1>3. Saves(r)
  OBVIOUS
<1> HIDE DEF r
<1>4. Forward /\ Listed(record) \subseteq Listed(record')
  BY <1>1, <1>2, <1>3, SavedForward
<1>5. Tallied /\ UNCHANGED <<queue, start, committed>>
  BY <1>3, SavesTally DEF repo
<1>6. CommitsReported'
  BY <1>2, <1>3, <1>4, <1>5, ReportedSave DEF Alters, SerialInv
<1>7. ASSUME Returns(i, at[i].step) PROVE SerialInv'
  <2>1. Single(i) => \/ attempts' = 0
                     \/ attempts' = attempts /\ Dropped' = Dropped + 1
    BY <1>2, <1>3, SavedStep
  <2> QED BY <1>1, <1>5, <1>7, <1>6, <2>1, ReturnsSerial
<1>8. ASSUME NextTurn(i, b) PROVE SerialInv'
  <2>1. /\ pc'[i] = "turn" /\ job'[i] = job[i] /\ mem'[i] = b /\ at[i].step < at[i].capped
        /\ at'[i].step = at[i].step + 1 /\ at'[i].capped = at[i].capped
    BY <1>8 DEF NextTurn
  <2>2. ~Single(i)
    BY <1>1, <2>1
  <2>3. ~Single(i)'
    BY <2>1, <2>2 DEF Single
  <2>4. Listed(mem'[i]) = Listed(mem[i])
    BY <2>1 DEF Listed
  <2>5. Ahead(i)'
    <3>1. /\ record'.status = "running" \/ (record'.status = "failed" /\ Blind(i))
          /\ record'.steps <= at[i].step /\ Listed(record') \subseteq Listed(mem'[i])
      <4>1. CASE record' = record
        BY <1>1, <2>4, <4>1 DEF Ahead
      <4>2. CASE record' = r
        BY <1>1, <1>2, <2>4, <4>2
      <4> QED BY <1>3, <4>1, <4>2 DEF Saves
    <3>2. record'.steps <= at'[i].step - 1
      BY <1>1, <2>1, <3>1
    <3> QED BY <2>1, <3>1, <3>2 DEF Ahead, Blind, Listed
  <2>6. Knows(i)' /\ Tried(i)'
    BY <2>1, <2>3, <2>5 DEF Knows, Tried, LoopSteps
  <2> QED BY <1>1, <1>5, <1>6, <2>6, SerialStep
<1> QED BY <1>4, <1>7, <1>8

LEMMA TurnAnswersSerial ==
    ASSUME Alone, SerialInv, EditorInv', NEW i \in Invocations, TurnAnswers(i)
    PROVE  SerialInv' /\ Forward
<1>1. pc[i] \in LoopSteps
  BY DEF TurnAnswers, At, LoopSteps
<1>2. /\ Ahead(i) /\ at[i].step \in Nat \ {0} /\ EditorInv /\ EditorTypeOK /\ Shape(i)
      /\ Single(i) => at[i].step = job[i].msg.after + 1
      /\ pc[i] \in {"resume"} \cup LoopSteps
  BY <1>1, InLoop
<1>3. PICK b \in Blob :
        /\ b.written = mem[i].written /\ b.steps = at[i].step /\ Saves(b)
        /\ Alters(i) /\ Returns(i, at[i].step) /\ UNCHANGED <<start, queue, repo>>
  BY <1>2, TurnAnswersMoves
<1>4. Listed(b) = Listed(mem[i])
  BY <1>3 DEF Listed
<1>5. Forward /\ Listed(record) \subseteq Listed(record')
  BY <1>2, <1>3, <1>4, SavedForward
<1>6. Tallied /\ UNCHANGED <<queue, start, committed>>
  BY <1>3, SavesTally DEF repo
<1>7. Single(i) => \/ attempts' = 0
                   \/ attempts' = attempts /\ Dropped' = Dropped + 1
  BY <1>1, <1>3, SavedStep
<1>8. CommitsReported'
  BY <1>3, <1>4, <1>5, <1>6, ReportedSave DEF Alters, SerialInv
<1>9. SerialInv'
  BY <1>2, <1>3, <1>6, <1>7, <1>8, ReturnsSerial
<1> QED BY <1>5, <1>9

\* A step among the calls of a turn.
LEMMA InTurnSerial ==
    ASSUME Alone, SerialInv, EditorInv', NEW i \in Invocations, pc[i] \in LoopSteps, Alters(i),
           NEW b, NEW C, InTurn(i, b, C), Listed(mem[i]) \subseteq Listed(b),
           UNCHANGED chain, Dropped' = Dropped, CommitsReported'
    PROVE  SerialInv' /\ Forward
<1>1. /\ Ahead(i) /\ EditorInv /\ Tried(i) /\ Knows(i) /\ record.steps \in Nat /\ pc[i] # "idle"
  BY InLoop, Holds
<1>2. /\ pc'[i] = "calls" /\ job'[i] = job[i] /\ at'[i] = at[i] /\ mem'[i] = b
      /\ UNCHANGED <<record, start, queue, attempts>>
  BY DEF InTurn, chain
<1>3. Ahead(i)' /\ (Single(i)' <=> Single(i))
  BY <1>1, <1>2 DEF Ahead, Blind, Listed, Single
<1>4. Knows(i)'
  BY <1>1, <1>2, <1>3 DEF Knows, LoopSteps
<1>5. Tried(i)'
  BY <1>1, <1>2, <1>3 DEF Tried, LoopSteps, Tries, Floor, Fits, Each
<1>6. Tallied
  BY <1>2 DEF Tallied
<1> QED BY <1>1, <1>2, <1>4, <1>5, <1>6, SerialStep, SameForward

LEMMA CallsSerial ==
    ASSUME Alone, SerialInv, ReportInv, EditorInv', NEW i \in Invocations,
           TurnCalls(i) \/ \E c \in editorCalls[i] : WriteReads(i, c) \/ WritePuts(i, c)
    PROVE  SerialInv' /\ Forward
<1>1. pc[i] \in LoopSteps
  BY DEF TurnCalls, WriteReads, WritePuts, At, LoopSteps
<1>2. /\ EditorInv /\ EditorTypeOK /\ Shape(i) /\ mem[i] \in Blob /\ CommitsReported
  BY Holds
<1>3. ASSUME NEW c \in editorCalls[i]
      PROVE  /\ c \in WriteCall
             /\ Listed(Count(mem[i], c)) = Listed(mem[i]) \cup (IF c.touched THEN {} ELSE {c.file})
  BY <1>2, CallTypes, CountReport
<1>4. CASE TurnCalls(i)
  <2>1. PICK C \in SUBSET WriteCall : /\ Alters(i) /\ InTurn(i, mem[i], C)
                                      /\ UNCHANGED <<chain, repo, unseen, spent>>
    BY <1>2, <1>4, TurnCallsMoves
  <2>2. CommitsReported'
    BY <1>2, <2>1, ReportedStay DEF chain, repo, InTurn, Alters
  <2> QED BY <1>1, <2>1, <2>2, InTurnSerial DEF Dropped
<1>5. ASSUME NEW c \in editorCalls[i], WriteReads(i, c) PROVE SerialInv' /\ Forward
  <2>1. PICK b \in {mem[i], Count(mem[i], c)} : \E C :
           /\ Alters(i) /\ InTurn(i, b, C) /\ UNCHANGED <<chain, repo, unseen, spent>>
    BY <1>2, <1>5, WriteReadsMoves
  <2>2. Listed(mem[i]) \subseteq Listed(b)
    BY <1>3, <2>1
  <2>3. CommitsReported'
    BY <1>2, <2>1, <2>2, ReportedStay DEF chain, repo, InTurn, Alters
  <2> QED BY <1>1, <2>1, <2>2, <2>3, InTurnSerial DEF Dropped
<1>6. ASSUME NEW c \in editorCalls[i], WritePuts(i, c) PROVE SerialInv' /\ Forward
  <2>1. /\ Alters(i) /\ UNCHANGED chain /\ Calm
        /\ \/ /\ InTurn(i, mem[i], editorCalls[i] \ {c})
              /\ UNCHANGED <<repo, unseen>>
           \/ /\ InTurn(i, Count(mem[i], c), editorCalls[i] \ {c})
              /\ committed' = committed \cup {c.file} /\ unseen' = unseen
           \/ /\ InTurn(i, mem[i], editorCalls[i] \ {c})
              /\ committed' = committed \cup {c.file}
              /\ unseen' = unseen \cup ({c.file} \ Listed(mem[i]))
    BY <1>2, <1>6, WritePutsMoves
  <2>2. Dropped' = Dropped /\ record' = record
    BY <2>1 DEF Calm, Dropped, chain
  <2>3. c.touched => c.file \in Listed(mem[i])
    BY <1>6 DEF ReportInv, Tidy, CallOK
  <2>4. CASE InTurn(i, mem[i], editorCalls[i] \ {c}) /\ UNCHANGED <<repo, unseen>>
    <3>1. CommitsReported'
      BY <1>2, <2>1, <2>2, <2>4, ReportedStay DEF repo, InTurn, Alters
    <3> QED BY <1>1, <2>1, <2>2, <2>4, <3>1, InTurnSerial
  <2>5. ASSUME NEW b \in {mem[i], Count(mem[i], c)}, InTurn(i, b, editorCalls[i] \ {c}),
               committed' = committed \cup {c.file}, unseen \subseteq unseen',
               c.file \in unseen' \/ c.file \in Listed(b)
        PROVE  SerialInv' /\ Forward
    <3>1. Listed(mem[i]) \subseteq Listed(b)
      BY <1>3, <2>5
    <3>2. mem'[i] = b /\ \A k \in Invocations \ {i} : mem'[k] = mem[k]
      BY <2>1, <2>5 DEF InTurn, Alters, OthersStay
    <3>3. CommitsReported'
      <4> SUFFICES ASSUME NEW f \in committed'
                   PROVE  \/ f \in Listed(record') \/ f \in unseen'
                          \/ \E k \in Invocations : f \in Listed(mem'[k])
        BY DEF CommitsReported, Listed
      <4>1. CASE f = c.file
        BY <2>5, <3>2, <4>1
      <4>2. CASE f \in committed
        <5>1. f \in Listed(record) \/ f \in unseen \/ \E k \in Invocations : f \in Listed(mem[k])
          BY <1>2, <4>2 DEF CommitsReported
        <5>2. ASSUME NEW k \in Invocations, f \in Listed(mem[k]) PROVE f \in Listed(mem'[k])
          BY <3>1, <3>2, <5>2
        <5> QED BY <2>2, <2>5, <5>1, <5>2
      <4> QED BY <2>5, <4>1, <4>2
    <3> QED BY <1>1, <2>1, <2>2, <2>5, <3>1, <3>3, InTurnSerial
  <2>6. CASE /\ InTurn(i, Count(mem[i], c), editorCalls[i] \ {c})
             /\ committed' = committed \cup {c.file} /\ unseen' = unseen
    <3>1. c.file \in Listed(Count(mem[i], c))
      BY <1>3, <2>3
    <3> QED BY <2>5, <2>6, <3>1
  <2>7. CASE /\ InTurn(i, mem[i], editorCalls[i] \ {c})
             /\ committed' = committed \cup {c.file}
             /\ unseen' = unseen \cup ({c.file} \ Listed(mem[i]))
    BY <2>5, <2>7
  <2> QED BY <2>1, <2>4, <2>6, <2>7
<1> QED BY <1>4, <1>5, <1>6

LEMMA LoopSerial ==
    ASSUME Alone, SerialInv, ReportInv, EditorInv', NEW i \in Invocations, Loop(i)
    PROVE  SerialInv' /\ Forward
<1>1. EditorTypeOK /\ Shape(i)
  BY Holds
<1>2. ASSUME TurnVerifies(i) \/ TurnEnds(i) PROVE SerialInv' /\ Forward
  <2>1. PICK b \in Blob :
          /\ b.written = mem[i].written /\ pc[i] \in LoopSteps
          /\ Alters(i) /\ Saves(Running(b, at[i].step)) /\ UNCHANGED <<start, queue, repo>>
          /\ Returns(i, at[i].step) \/ NextTurn(i, b)
    <3>1. CASE TurnVerifies(i)
      BY <1>1, <3>1, TurnVerifiesMoves
    <3>2. CASE TurnEnds(i)
      BY <1>1, <3>2, TurnEndsMoves
    <3> QED BY <1>2, <3>1, <3>2
  <2> QED BY <2>1, StepOnSerial
<1>3. ASSUME TurnCalls(i) \/ \E c \in editorCalls[i] : WriteReads(i, c) \/ WritePuts(i, c)
      PROVE  SerialInv' /\ Forward
  BY <1>3, CallsSerial
<1> QED BY <1>2, <1>3, ResumeSerial, TurnFailsSerial, TurnAnswersSerial DEF Loop

LEMMA WorkerSerial ==
    ASSUME Alone, SerialInv, EditorInv', NEW i \in Invocations, Worker(i)
    PROVE  SerialInv' /\ Forward
  BY GuardSerial, HeartbeatSerial, ReloadSerial, DeadLetterSerial, RechainSerial DEF Worker

LEMMA SerialStays ==
    Alone /\ ReportInv /\ SerialInv /\ [EditorNext]_editorVars => SerialInv' /\ Forward
<1> SUFFICES ASSUME Alone, ReportInv, SerialInv, [EditorNext]_editorVars
             PROVE  SerialInv' /\ Forward
  OBVIOUS
<1>1. EditorInv /\ EditorInv' /\ EditorTypeOK
  BY EditorStepInv DEF SerialInv, EditorInv
<1>2. ASSUME NEW f \in Files, OtherCommit(f) PROVE SerialInv' /\ Forward
  <2>1. UNCHANGED <<chain, proc, committed, unseen>> /\ Dropped' = Dropped
    BY <1>1, <1>2, OtherCommitMoves DEF Calm, Dropped
  <2> QED BY <1>1, <2>1, StillSerial
<1>3. ASSUME UNCHANGED editorVars PROVE SerialInv' /\ Forward
  <2>1. UNCHANGED <<chain, proc, committed, unseen>> /\ Dropped' = Dropped
    BY <1>3 DEF editorVars, chain, proc, Dropped
  <2> QED BY <1>1, <2>1, StillSerial
<1>4. ASSUME NEW i \in Invocations, Worker(i) \/ Loop(i) \/ Kill(i) PROVE SerialInv' /\ Forward
  BY <1>1, <1>4, WorkerSerial, LoopSerial, KillSerial
<1>5. ASSUME Delivery \/ PushCall \/ StartCall PROVE SerialInv' /\ Forward
  BY <1>1, <1>5, DeliverSerial, PushSerial, StartSerial DEF Delivery, PushCall
<1> QED BY <1>2, <1>3, <1>4, <1>5 DEF EditorNext

LEMMA SerialInit == EditorInit => SerialInv
<1> SUFFICES ASSUME EditorInit PROVE SerialInv
  OBVIOUS
<1>1. EditorInv /\ attempts = 0 /\ queue = {} /\ committed = {} /\ Dropped \in Nat
  BY EditorInitInv, Counts DEF EditorInit
<1>2. Bounded
  BY <1>1, FloorFacts DEF Bounded
<1>3. QueueTried /\ CommitsReported
  BY <1>1 DEF QueueTried, CommitsReported
<1>4. ASSUME NEW i \in Invocations PROVE Knows(i) /\ Tried(i)
  <2>1. pc[i] = "idle" /\ job[i] = NoJob
    BY DEF EditorInit
  <2> QED BY <2>1 DEF Knows, Tried, Single, NoJob, LoopSteps
<1> QED BY <1>1, <1>2, <1>3, <1>4 DEF SerialInv

\* Where no push works beside a worker, the process at work knows the record: what a run commits
\* it also reports, and every try of a step is accounted for.
THEOREM SerialInvariant == ASSUME Alone PROVE EditorSpec => []SerialInv
<1>1. ReportInv /\ SerialInv /\ [EditorNext]_editorVars => SerialInv'
  BY SerialStays
<1> QED BY <1>1, SerialInit, ReportInvariant, PTL DEF EditorSpec

\* What an editor run says of its writes is true of the branch: unless a process died, a save was
\* dropped or an answer of GitHub was lost, writtenFiles names every commit, and a claim has a
\* write behind it.
THEOREM ReportIsTrue == ASSUME Alone PROVE EditorSpec => []EditorReportTrue
<1>1. ReportInv /\ SerialInv => EditorReportTrue
  BY DEF ReportInv, RecordTidy, ClaimBacked, SerialInv, NoUnbackedClaim, EditorReportTrue
<1> QED BY <1>1, ReportInvariant, SerialInvariant, PTL

\* The run's caps give way by a bounded number: files by the calls of a turn, tries of a step by
\* the deliveries that died and the saves that were dropped.
THEOREM EditorIsBounded == ASSUME Alone PROVE EditorSpec => []EditorBounded
<1>1. ReportInv /\ SerialInv => EditorBounded
  BY DEF ReportInv, RecordTidy, SerialInv, Bounded, Ceiling, Each, Dropped, Most,
         OvershootBounded, AttemptsBounded, EditorBounded
<1> QED BY <1>1, ReportInvariant, SerialInvariant, PTL

\* Where one process at a time works on the run, no step takes the record a step back or touches
\* a finished run, none but a call that could not read the record takes on a failed one, and none
\* replaces a version of a file its call did not name.
THEOREM StepsAreSound == ASSUME Alone PROVE EditorSpec => EditorStepsSound
<1>1. ReportInv /\ SerialInv /\ [EditorNext]_editorVars =>
        [/\ record'.steps >= record.steps
         /\ record.status = "done" => record' = record
         /\ record.status = "failed" => record' = record \/ Revived]_editorVars
  BY SerialStays DEF Forward
<1> QED BY <1>1, ReportInvariant, SerialInvariant, BaseIsHonoured, PTL
        DEF EditorSpec, EditorStepsSound, RecordMovesForward
=============================================================================
