------------------------- MODULE AgentChain_proofs --------------------------
(***************************************************************************)
(* Theorems about AgentChain for every value of its constants.             *)
(***************************************************************************)
EXTENDS AgentChain, TLAPS

-----------------------------------------------------------------------------
(* The inductive strengthening of TypeOK: what a process may be doing says   *)
(* which kind of request it serves, and a provider turn has a step before it *)
(* to go back to.                                                            *)

StoreOK ==
    /\ cp \in Checkpoint
    /\ idle \in 0 .. DeadTicks + 1
    /\ attempts \in 0 .. MaxFailures + 1
    /\ spent \in [Hazards -> Nat]

RoleOK(i) ==
    /\ pc[i] \in {"resume", "turn", "hardcap"} => call[i].role \in {"worker", "poll"}
    /\ pc[i] \notin {"idle", "resume", "turn", "hardcap"} => call[i].role = "worker"
    /\ pc[i] = "turn" => turn[i].step >= 1

ProcessOK ==
    /\ pc \in [Invocations -> Label]
    /\ call \in [Invocations -> Call]
    /\ snap \in [Invocations -> Checkpoint]
    /\ turn \in [Invocations -> Turn]
    /\ age \in [Invocations -> Nat]
    /\ \A i \in Invocations : RoleOK(i)

StartOK == start \in {"new", "publish", "done", "refused"}
QueueOK == queue \subseteq Message

TypeInv == StoreOK /\ ProcessOK /\ StartOK /\ QueueOK

store == <<cp, idle, attempts, spent>>
process == <<pc, call, snap, turn, age>>

-----------------------------------------------------------------------------
(* Redis.                                                                    *)

LEMMA CheckpointTypes ==
    /\ NoCheckpoint \in Checkpoint
    /\ \A s, o \in Nat : RunningAt(s, o) \in Checkpoint /\ DoneAt(s, o) \in Checkpoint
    /\ \A s \in Nat : FailedAt(s) \in Checkpoint
BY DEF NoCheckpoint, Checkpoint, RunningAt, DoneAt, FailedAt

LEMMA StrikeType ==
    ASSUME StoreOK, NEW h \in Hazards, Strike(h)
    PROVE  spent' \in [Hazards -> Nat]
BY DEF StoreOK, Strike

LEMMA LoadType ==
    ASSUME StoreOK, NEW v, Load(v)
    PROVE  v \in Checkpoint /\ spent' \in [Hazards -> Nat]
BY StrikeType, CheckpointTypes DEF StoreOK, Load, Hazards

LEMMA SaveType ==
    ASSUME StoreOK, NEW c \in Checkpoint, Save(c)
    PROVE  StoreOK'
<1>1. idle' \in 0 .. DeadTicks + 1 /\ attempts' \in 0 .. MaxFailures + 1
  BY ClockAssumption, RetryAssumption DEF StoreOK, Save
<1>2. spent' \in [Hazards -> Nat]
  BY StrikeType DEF StoreOK, Save, Hazards
<1> QED
  BY <1>1, <1>2 DEF StoreOK, Save

\* Reads and hazards leave the record and its clock alone.
LEMMA StoreKept ==
    ASSUME StoreOK, UNCHANGED <<cp, idle, attempts>>, spent' \in [Hazards -> Nat]
    PROVE  StoreOK'
BY DEF StoreOK

-----------------------------------------------------------------------------
(* An invocation.                                                            *)

LEMMA ReturnType ==
    ASSUME ProcessOK, NEW i \in Invocations, Return(i)
    PROVE  ProcessOK'
<1>1. NoCall \in Call /\ NoTurn \in Turn /\ "idle" \in Label
  BY DEF NoCall, Call, NoTurn, Turn, Label
<1>2. /\ pc' \in [Invocations -> Label] /\ call' \in [Invocations -> Call]
      /\ snap' \in [Invocations -> Checkpoint] /\ turn' \in [Invocations -> Turn]
      /\ age' \in [Invocations -> Nat]
  BY <1>1, CheckpointTypes DEF ProcessOK, Return, Goto
<1>3. ASSUME NEW j \in Invocations PROVE RoleOK(j)'
  BY DEF ProcessOK, Return, Goto, RoleOK
<1> QED
  BY <1>2, <1>3 DEF ProcessOK

\* A process that moves on within its handler.
LEMMA GotoType ==
    ASSUME ProcessOK, NEW i \in Invocations, NEW label \in Label, Goto(i, label),
           UNCHANGED <<call, age>>,
           snap' \in [Invocations -> Checkpoint],
           turn' \in [Invocations -> Turn],
           \A j \in Invocations : j # i => turn'[j] = turn[j],
           label \in {"resume", "turn", "hardcap"} => call[i].role \in {"worker", "poll"},
           label \notin {"idle", "resume", "turn", "hardcap"} => call[i].role = "worker",
           label = "turn" => turn'[i].step >= 1
    PROVE  ProcessOK'
<1>1. pc' \in [Invocations -> Label]
  BY DEF ProcessOK, Goto
<1>2. ASSUME NEW j \in Invocations PROVE RoleOK(j)'
  BY DEF ProcessOK, Goto, RoleOK
<1> QED
  BY <1>1, <1>2 DEF ProcessOK

LEMMA ResultType ==
    ASSUME ProcessOK, NEW i \in Invocations, NEW steps \in Nat, Result(i, steps)
    PROVE  ProcessOK'
<1>1. CASE Single(i)
  <2>1. [NoTurn EXCEPT !.step = steps] \in Turn
    BY DEF NoTurn, Turn
  <2>2. /\ turn' = [turn EXCEPT ![i] = [NoTurn EXCEPT !.step = steps]]
        /\ Goto(i, "reload") /\ UNCHANGED <<call, snap, age>>
    BY <1>1 DEF Result
  <2>3. /\ turn' \in [Invocations -> Turn] /\ snap' \in [Invocations -> Checkpoint]
        /\ \A j \in Invocations : j # i => turn'[j] = turn[j]
    BY <2>1, <2>2 DEF ProcessOK
  <2> QED
    BY <1>1, <2>2, <2>3, GotoType DEF Label, Single
<1>2. CASE ~Single(i)
  BY <1>2, ReturnType DEF Result
<1> QED
  BY <1>1, <1>2

-----------------------------------------------------------------------------
(* Messages.                                                                 *)

LEMMA EffectiveRetryType ==
    \A m \in Message : EffectiveRetry(m) \in Nat
BY DEF Message, EffectiveRetry, Larger

LEMMA PublishType ==
    ASSUME QueueOK, NEW after \in Nat, NEW retry \in Nat, Publish(after, retry)
    PROVE  QueueOK'
BY DEF QueueOK, Publish, NewStep, Message

LEMMA UndeliveredType ==
    \A m \in Message : Undelivered(m) \in Message
BY RetryAssumption DEF Message, Undelivered

LEMMA RequeueType ==
    ASSUME QueueOK, ProcessOK, NEW i \in Invocations, Requeue(i)
    PROVE  QueueOK'
<1>1. Holds(i) => call[i].msg \in Message
  BY DEF ProcessOK, Holds, Call
<1> QED
  BY <1>1, UndeliveredType DEF QueueOK, Requeue

-----------------------------------------------------------------------------
(* Every action preserves TypeInv.                                           *)

LEMMA InitType == Init => TypeInv
<1> SUFFICES ASSUME Init PROVE TypeInv
  OBVIOUS
<1>1. StoreOK
  BY ClockAssumption, RetryAssumption, CheckpointTypes DEF Init, StoreOK
<1>2. ProcessOK
  <2>1. NoCall \in Call /\ NoTurn \in Turn /\ "idle" \in Label
    BY DEF NoCall, Call, NoTurn, Turn, Label
  <2>2. \A i \in Invocations : RoleOK(i)
    BY DEF Init, RoleOK
  <2> QED
    BY <2>1, <2>2, CheckpointTypes DEF Init, ProcessOK
<1> QED
  BY <1>1, <1>2 DEF Init, TypeInv, StartOK, QueueOK

LEMMA StartCallType ==
    ASSUME TypeInv, StartCall
    PROVE  TypeInv'
<1> USE DEF TypeInv
<1>1. CASE PublishStart
  <2>1. StoreOK' /\ ProcessOK'
    BY <1>1, StrikeType, StoreKept DEF PublishStart, ProcessOK, RoleOK, StoreOK, Hazards
  <2>2. QueueOK'
    BY <1>1, PublishType DEF PublishStart, QueueOK
  <2> QED
    BY <1>1, <2>1, <2>2 DEF PublishStart, StartOK
<1>2. ASSUME NEW m \in StartLimits, SeedRun(m)
      PROVE  TypeInv'
  <2>1. Smaller(m, HardMaxSteps) \in Nat
    BY LimitAssumption DEF Smaller
  <2>2. StoreOK'
    BY <1>2, <2>1, SaveType, CheckpointTypes DEF SeedRun
  <2> QED
    BY <1>2, <2>2 DEF SeedRun, ProcessOK, RoleOK, StartOK, QueueOK
<1> QED
  BY <1>1, <1>2 DEF StartCall

LEMMA BeginType ==
    ASSUME ProcessOK, NEW i \in Invocations, NEW c \in Call, NEW label \in Label,
           Begin(i, c, label), UNCHANGED <<snap, turn, age>>,
           \/ label # "idle" /\ label # "turn" /\ c.role = "worker"
           \/ label = "resume" /\ c.role = "poll"
    PROVE  ProcessOK'
<1>1. pc' \in [Invocations -> Label] /\ call' \in [Invocations -> Call]
  BY DEF ProcessOK, Begin, Goto
<1>2. ASSUME NEW j \in Invocations PROVE RoleOK(j)'
  BY DEF ProcessOK, Begin, Goto, RoleOK
<1> QED
  BY <1>1, <1>2 DEF ProcessOK

LEMMA DeliveryType ==
    ASSUME TypeInv, Delivery
    PROVE  TypeInv'
<1> USE DEF TypeInv
<1>1. PICK i \in Invocations, m \in queue : Deliver(i, m)
  BY DEF Delivery
<1>2. m \in Message /\ QueueOK'
  BY <1>1 DEF Deliver, QueueOK
<1>3. StoreOK'
  BY <1>1, StrikeType, StoreKept DEF Deliver, StoreOK, Hazards
<1>4. [role |-> "worker", msg |-> m, held |-> TRUE] \in Call
  BY <1>2 DEF Call
<1>5. FirstLabel(m) \in Label \ {"idle", "turn"}
  BY DEF FirstLabel, Label
<1>6. ProcessOK'
  BY <1>1, <1>4, <1>5, BeginType DEF Deliver
<1> QED
  BY <1>1, <1>2, <1>3, <1>6 DEF Deliver, StartOK

LEMMA PollType ==
    ASSUME TypeInv, PollCall
    PROVE  TypeInv'
<1> USE DEF TypeInv
<1>1. PICK i \in Invocations, l \in PollLimits : Poll(i, l)
  BY DEF PollCall
<1>2. StoreOK'
  BY <1>1, LoadType, StoreKept DEF Poll
<1>3. [role |-> "poll", limit |-> l] \in Call /\ "resume" \in Label
  BY LimitAssumption DEF Call, Label
<1>4. ProcessOK'
  BY <1>1, <1>3, BeginType DEF Poll
<1> QED
  BY <1>1, <1>2, <1>4 DEF Poll, StartOK, QueueOK

-----------------------------------------------------------------------------
(* The reads and the writes of the handlers, by what they have in common.    *)

\* A read that ends the handler or moves on with what it read.
LEMMA ReadStep ==
    ASSUME TypeInv, NEW i \in Invocations, NEW v, Load(v),
           UNCHANGED <<cp, idle, start, queue, attempts>>,
           NEW label \in Label \ {"idle", "turn"},
           \/ Return(i)
           \/ /\ call[i].role = "worker"
              /\ snap' = [snap EXCEPT ![i] = v]
              /\ Goto(i, label)
              /\ UNCHANGED <<call, turn, age>>
    PROVE  TypeInv'
<1> USE DEF TypeInv
<1>1. v \in Checkpoint /\ StoreOK'
  BY LoadType, StoreKept
<1>2. CASE Return(i)
  BY <1>1, <1>2, ReturnType DEF StartOK, QueueOK
<1>3. CASE ~Return(i)
  <2>1. /\ call[i].role = "worker" /\ snap' = [snap EXCEPT ![i] = v]
        /\ Goto(i, label) /\ UNCHANGED <<call, turn, age>>
    BY <1>3
  <2>2. snap' \in [Invocations -> Checkpoint] /\ turn' \in [Invocations -> Turn]
    BY <1>1, <2>1 DEF ProcessOK
  <2>3. ProcessOK'
    BY <2>1, <2>2, GotoType
  <2> QED
    BY <1>1, <2>3 DEF StartOK, QueueOK
<1> QED
  BY <1>2, <1>3

\* A write that ends the handler.
LEMMA LastWriteStep ==
    ASSUME TypeInv, NEW i \in Invocations, NEW c \in Checkpoint,
           Save(c), Return(i), UNCHANGED <<start, queue>>
    PROVE  TypeInv'
BY SaveType, ReturnType DEF TypeInv, StartOK, QueueOK

LEMMA SnapSteps ==
    ASSUME ProcessOK, NEW i \in Invocations
    PROVE  /\ snap[i].steps \in Nat
           /\ FailedAt(snap[i].steps) \in Checkpoint
           /\ [snap[i] EXCEPT !.started = TRUE] \in Checkpoint
<1>1. snap[i] \in Checkpoint
  BY DEF ProcessOK
<1>2. snap[i].steps \in Nat /\ [snap[i] EXCEPT !.started = TRUE] \in Checkpoint
  BY <1>1 DEF Checkpoint
<1> QED
  BY <1>2, CheckpointTypes

LEMMA WorkerType ==
    ASSUME TypeInv, NEW i \in Invocations, Worker(i) \/ Callback(i)
    PROVE  TypeInv'
<1> USE DEF TypeInv
<1>0. pc[i] \notin {"idle", "resume", "turn", "hardcap"} => call[i].role = "worker"
  BY DEF ProcessOK, RoleOK
<1>1. CASE EarlyLoad(i)
  <2>1. PICK v \in {cp, NoCheckpoint} :
          /\ Load(v)
          /\ snap' = [snap EXCEPT ![i] = v]
          /\ Goto(i, IF Describes(v, call[i].msg) THEN "earlysave" ELSE "load")
    BY <1>1 DEF EarlyLoad
  <2> QED
    BY <1>0, <1>1, <2>1, ReadStep DEF EarlyLoad, At, Label
<1>2. CASE EarlySave(i)
  BY <1>2, SnapSteps, LastWriteStep DEF EarlySave
<1>3. CASE WorkerLoad(i)
  BY <1>0, <1>3, ReadStep DEF WorkerLoad, At, Label
<1>4. CASE Heartbeat(i)
  <2>1. StoreOK'
    BY <1>4, SnapSteps, SaveType DEF Heartbeat
  <2>2. ProcessOK'
    BY <1>0, <1>4, GotoType DEF Heartbeat, At, Label, ProcessOK
  <2> QED
    BY <1>4, <2>1, <2>2 DEF Heartbeat, StartOK, QueueOK
<1>5. CASE Reload(i)
  BY <1>0, <1>5, ReadStep DEF Reload, At, Label
<1>6. CASE GiveUp(i)
  BY <1>6, SnapSteps, LastWriteStep DEF GiveUp
<1>7. CASE Rechain(i)
  <2>1. NewRetry(i) \in Nat
    <3>1. call[i].msg \in Message
      BY <1>0, <1>7 DEF Rechain, At, ProcessOK, Call
    <3> QED
      BY <3>1, EffectiveRetryType DEF NewRetry
  <2>2. CASE Publish(NextAfter(i), NewRetry(i)) /\ Goto(i, "respond")
               /\ UNCHANGED <<call, snap, turn, age, spent>>
    <3>1. QueueOK'
      BY <2>1, <2>2, SnapSteps, PublishType DEF NextAfter
    <3>2. ProcessOK'
      BY <1>0, <1>7, <2>2, GotoType DEF Rechain, At, Label, ProcessOK
    <3> QED
      BY <1>7, <3>1, <3>2, <2>2 DEF Rechain, StartOK, StoreOK
  <2>3. CASE Strike("publish") /\ Return(i) /\ UNCHANGED queue
    <3>1. StoreOK'
      BY <1>7, <2>3, StrikeType, StoreKept DEF Rechain, Hazards
    <3> QED
      BY <1>7, <2>3, <3>1, ReturnType DEF Rechain, StartOK, QueueOK
  <2> QED
    BY <1>7, <2>2, <2>3 DEF Rechain
<1>8. CASE Respond(i)
  <2>1. StoreOK'
    BY <1>8, StrikeType, StoreKept DEF Respond, Hazards, StoreOK
  <2>2. QueueOK'
    BY <1>8, RequeueType DEF Respond, QueueOK
  <2> QED
    BY <1>8, <2>1, <2>2, ReturnType DEF Respond, StartOK
<1>9. CASE CallbackLoad(i)
  BY <1>0, <1>9, ReadStep DEF CallbackLoad, At, Label
<1>10. CASE CallbackSave(i)
  BY <1>10, SnapSteps, LastWriteStep DEF CallbackSave
<1> QED
  BY <1>1, <1>2, <1>3, <1>4, <1>5, <1>6, <1>7, <1>8, <1>9, <1>10 DEF Worker, Callback

-----------------------------------------------------------------------------
(* runInvestigation and the platform.                                        *)

LEMMA TurnTypes ==
    ASSUME TypeInv, NEW i \in Invocations
    PROVE  /\ turn[i].step \in Nat /\ turn[i].capped \in Nat /\ turn[i].overall \in Nat
           /\ At(i, "turn") => turn[i].step >= 1
           /\ [turn EXCEPT ![i].step = @ + 1] \in [Invocations -> Turn]
BY DEF TypeInv, ProcessOK, RoleOK, At, Turn

LEMMA BoundsType ==
    ASSUME TypeInv, NEW i \in Invocations, NEW v \in Checkpoint,
           call[i].role \in {"worker", "poll"}
    PROVE  Bounds(i, v) \in Turn /\ Bounds(i, v).step >= 1
<1>1. v.steps \in Nat /\ v.overall \in Nat
  BY DEF Checkpoint
<1>2. CASE Single(i)
  BY <1>1, <1>2, LimitAssumption DEF Bounds, Turn
<1>3. CASE ~Single(i)
  <2>1. call[i].limit \in Nat
    BY <1>3 DEF TypeInv, ProcessOK, Call, Single
  <2>2. MaxSteps(call[i].limit) \in Nat
    BY <2>1, LimitAssumption DEF MaxSteps, Smaller
  <2> QED
    BY <1>1, <1>3, <2>2 DEF Bounds, Turn
<1> QED
  BY <1>2, <1>3

LEMMA ResumeType ==
    ASSUME TypeInv, NEW i \in Invocations, Resume(i)
    PROVE  TypeInv'
<1> USE DEF TypeInv
<1>1. PICK v \in {cp, NoCheckpoint} :
        /\ Load(v)
        /\ \/ /\ turn' = [turn EXCEPT ![i] = Bounds(i, v)]
              /\ Goto(i, "turn")
              /\ attempts' = IF Single(i) THEN Smaller(attempts + 1, MaxFailures + 1)
                                          ELSE attempts
              /\ UNCHANGED <<call, snap, age>>
           \/ Result(i, v.steps) /\ UNCHANGED attempts
           \/ Result(i, snap[i].steps) /\ UNCHANGED attempts
  BY DEF Resume
<1>2. v \in Checkpoint /\ spent' \in [Hazards -> Nat]
  BY <1>1, LoadType
<1>3. v.steps \in Nat /\ snap[i].steps \in Nat
  BY <1>2, SnapSteps DEF Checkpoint
<1>4. /\ UNCHANGED <<cp, idle, start, queue>>
      /\ pc[i] = "resume" /\ call[i].role \in {"worker", "poll"}
  BY DEF Resume, At, ProcessOK, RoleOK
<1>5. attempts' \in 0 .. MaxFailures + 1
  BY <1>1, RetryAssumption DEF Smaller, StoreOK
<1>6. ASSUME turn' = [turn EXCEPT ![i] = Bounds(i, v)], Goto(i, "turn"),
             UNCHANGED <<call, snap, age>>
      PROVE  ProcessOK'
  <2>1. Bounds(i, v) \in Turn /\ Bounds(i, v).step >= 1
    BY <1>2, <1>4, BoundsType
  <2>2. /\ turn' \in [Invocations -> Turn] /\ turn'[i].step >= 1
        /\ \A j \in Invocations : j # i => turn'[j] = turn[j]
        /\ snap' \in [Invocations -> Checkpoint]
    BY <1>6, <2>1 DEF ProcessOK
  <2> QED
    BY <1>4, <1>6, <2>2, GotoType DEF Label
<1>7. ASSUME Result(i, v.steps) \/ Result(i, snap[i].steps)
      PROVE  ProcessOK'
  BY <1>3, <1>7, ResultType
<1>8. ProcessOK' => TypeInv'
  BY <1>2, <1>4, <1>5 DEF StoreOK, StartOK, QueueOK
<1>9. ProcessOK'
  BY <1>1, <1>6, <1>7
<1> QED
  BY <1>8, <1>9

LEMMA InvestigationType ==
    ASSUME TypeInv, NEW i \in Invocations, Investigation(i)
    PROVE  TypeInv'
<1> USE DEF TypeInv
<1>0. /\ turn[i].step \in Nat /\ turn[i].capped \in Nat /\ turn[i].overall \in Nat
      /\ At(i, "turn") => turn[i].step >= 1
      /\ [turn EXCEPT ![i].step = @ + 1] \in [Invocations -> Turn]
  BY TurnTypes
<1>1. CASE Resume(i)
  BY <1>1, ResumeType
<1>2. CASE TurnFails(i)
  <2>1. turn[i].step - 1 \in Nat
    BY <1>0, <1>2 DEF TurnFails
  <2> QED
    BY <1>0, <1>2, <2>1, CheckpointTypes, SaveType, ResultType
    DEF TurnFails, StartOK, QueueOK
<1>3. CASE TurnAdvances(i)
  <2>1. StoreOK'
    BY <1>0, <1>3, CheckpointTypes, SaveType DEF TurnAdvances
  <2>2. ASSUME turn' = [turn EXCEPT ![i].step = @ + 1], UNCHANGED <<pc, call, snap, age>>
        PROVE  ProcessOK'
    <3>1. \A j \in Invocations : RoleOK(j)'
      BY <1>0, <2>2 DEF ProcessOK, RoleOK, Turn
    <3> QED
      BY <1>0, <2>2, <3>1 DEF ProcessOK
  <2>3. ASSUME Result(i, turn[i].capped)
        PROVE  ProcessOK'
    BY <1>0, <2>3, ResultType
  <2>4. ASSUME Goto(i, "hardcap"), UNCHANGED <<call, snap, turn, age>>
        PROVE  ProcessOK'
    BY <1>3, <2>4, GotoType DEF TurnAdvances, At, ProcessOK, RoleOK, Label
  <2> QED
    BY <1>3, <2>1, <2>2, <2>3, <2>4 DEF TurnAdvances, StartOK, QueueOK
<1>4. CASE TurnFinishes(i)
  BY <1>0, <1>4, CheckpointTypes, SaveType, ResultType DEF TurnFinishes, StartOK, QueueOK
<1>5. CASE HardCap(i)
  BY <1>0, <1>5, CheckpointTypes, SaveType, ResultType DEF HardCap, StartOK, QueueOK
<1> QED
  BY <1>1, <1>2, <1>3, <1>4, <1>5 DEF Investigation, Answers

LEMMA PlatformType ==
    ASSUME TypeInv, Platform
    PROVE  TypeInv'
<1> USE DEF TypeInv
<1>1. ASSUME NEW i \in Invocations, Kill(i)
      PROVE  TypeInv'
  BY <1>1, StrikeType, StoreKept, RequeueType, ReturnType DEF Kill, Hazards, StartOK
<1>2. ASSUME NEW i \in Invocations, Disconnect(i)
      PROVE  TypeInv'
  <2>1. call[i].role = "worker" /\ call[i] \in Call
    BY <1>2 DEF Disconnect, Holds, ProcessOK
  <2>2. [call[i] EXCEPT !.held = FALSE] \in Call /\ [call[i] EXCEPT !.held = FALSE].role = "worker"
    BY <2>1 DEF Call
  <2>3. call' = [call EXCEPT ![i] = [call[i] EXCEPT !.held = FALSE]]
    BY <1>2 DEF Disconnect
  <2>4. call' \in [Invocations -> Call] /\ \A j \in Invocations : call'[j].role = call[j].role
    BY <2>1, <2>2, <2>3 DEF ProcessOK
  <2>5. ProcessOK'
    BY <1>2, <2>4 DEF Disconnect, ProcessOK, RoleOK
  <2>6. StoreOK' /\ QueueOK'
    BY <1>2, StrikeType, StoreKept, RequeueType DEF Disconnect, Hazards
  <2> QED
    BY <1>2, <2>5, <2>6 DEF Disconnect, StartOK
<1>3. CASE StoreOutage
  BY <1>3, StrikeType, StoreKept
  DEF StoreOutage, Hazards, StartOK, QueueOK, ProcessOK, RoleOK
<1>4. CASE Expire
  <2>1. StoreOK'
    BY <1>4, StrikeType, CheckpointTypes, ClockAssumption, RetryAssumption
    DEF Expire, Hazards, StoreOK
  <2> QED
    BY <1>4, <2>1 DEF Expire, StartOK, QueueOK, ProcessOK, RoleOK
<1>5. CASE Tick
  <2>1. StoreOK'
    BY <1>5, ClockAssumption DEF Tick, StoreOK, Smaller
  <2>2. age' \in [Invocations -> Nat]
    BY <1>5 DEF Tick, ProcessOK
  <2> QED
    BY <1>5, <2>1, <2>2 DEF Tick, StartOK, QueueOK, ProcessOK, RoleOK
<1> QED
  BY <1>1, <1>2, <1>3, <1>4, <1>5 DEF Platform

LEMMA NextType == TypeInv /\ [Next]_vars => TypeInv'
<1> SUFFICES ASSUME TypeInv, [Next]_vars PROVE TypeInv'
  OBVIOUS
<1>1. CASE UNCHANGED vars
  BY <1>1 DEF vars, TypeInv, StoreOK, ProcessOK, RoleOK, StartOK, QueueOK
<1>2. CASE Next
  BY <1>2, StartCallType, DeliveryType, PollType, WorkerType, InvestigationType,
     PlatformType
  DEF Next, Handler
<1> QED
  BY <1>1, <1>2

LEMMA TypeInvariant == Spec => []TypeInv
BY InitType, NextType, PTL DEF Spec

\* The variables keep their types, whatever fails and however handlers
\* interleave: no step count falls below zero and no counter leaves its range.
THEOREM TypeCorrect == Spec => []TypeOK
<1>1. TypeInv => TypeOK
  BY DEF TypeInv, StoreOK, ProcessOK, StartOK, QueueOK, TypeOK
<1> QED
  BY <1>1, TypeInvariant, PTL

-----------------------------------------------------------------------------
(* What a handler's step does to the queue, and to the other processes.      *)

SameProcess(j) == pc'[j] = pc[j] /\ call'[j] = call[j] /\ turn'[j] = turn[j]

LEMMA ReturnFrame ==
    ASSUME TypeInv, NEW i \in Invocations, Return(i)
    PROVE  /\ \A j \in Invocations \ {i} : SameProcess(j)
           /\ pc'[i] = "idle" /\ call'[i] = NoCall
BY DEF Return, Goto, SameProcess, TypeInv, ProcessOK

LEMMA GotoFrame ==
    ASSUME TypeInv, NEW i \in Invocations, NEW label, Goto(i, label)
    PROVE  /\ \A j \in Invocations \ {i} : pc'[j] = pc[j]
           /\ pc'[i] = label
BY DEF Goto, TypeInv, ProcessOK

LEMMA ResultFrame ==
    ASSUME TypeInv, NEW i \in Invocations, NEW steps, Result(i, steps)
    PROVE  /\ \A j \in Invocations \ {i} : SameProcess(j)
           /\ pc'[i] \in {"idle", "reload"}
           /\ call'[i] \in {call[i], NoCall}
<1>1. CASE Single(i)
  BY <1>1, GotoFrame DEF Result, SameProcess, TypeInv, ProcessOK
<1>2. CASE ~Single(i)
  BY <1>2, ReturnFrame DEF Result
<1> QED
  BY <1>1, <1>2

\* All of a handler but the publish and the response.
Quiet(i) ==
    /\ \A j \in Invocations \ {i} : SameProcess(j)
    /\ call'[i] \in {call[i], NoCall}
    /\ UNCHANGED <<start, queue>>
    /\ pc[i] \notin {"idle", "respond"}

LEMMA QuietWorker ==
    ASSUME TypeInv, NEW i \in Invocations, Worker(i) \/ Callback(i)
    PROVE  \/ Quiet(i) /\ (pc'[i] = "publish" => Reload(i))
           \/ Rechain(i) \/ Respond(i)
<1>1. CASE EarlyLoad(i)
  BY <1>1, GotoFrame DEF EarlyLoad, Quiet, SameProcess, At
<1>2. CASE EarlySave(i) \/ GiveUp(i) \/ CallbackSave(i)
  BY <1>2, ReturnFrame DEF EarlySave, GiveUp, CallbackSave, Quiet, At
<1>3. CASE WorkerLoad(i)
  BY <1>3, ReturnFrame, GotoFrame DEF WorkerLoad, Quiet, SameProcess, At
<1>4. CASE Heartbeat(i)
  BY <1>4, GotoFrame DEF Heartbeat, Quiet, SameProcess, At
<1>5. CASE Reload(i)
  BY <1>5, ReturnFrame, GotoFrame DEF Reload, Quiet, SameProcess, At
<1>6. CASE CallbackLoad(i)
  BY <1>6, ReturnFrame, GotoFrame DEF CallbackLoad, Quiet, SameProcess, At
<1> QED
  BY <1>1, <1>2, <1>3, <1>4, <1>5, <1>6 DEF Worker, Callback

LEMMA QuietInvestigation ==
    ASSUME TypeInv, NEW i \in Invocations, Investigation(i)
    PROVE  Quiet(i) /\ pc'[i] # "publish"
<1>1. CASE Resume(i)
  <2>1. \/ /\ \E v : turn' = [turn EXCEPT ![i] = Bounds(i, v)]
           /\ Goto(i, "turn") /\ UNCHANGED <<call, snap, age>>
        \/ \E s : Result(i, s)
    BY <1>1 DEF Resume
  <2>2. ASSUME NEW v, turn' = [turn EXCEPT ![i] = Bounds(i, v)],
               Goto(i, "turn"), UNCHANGED <<call, snap, age>>
        PROVE  Quiet(i) /\ pc'[i] # "publish"
    BY <1>1, <2>2, GotoFrame DEF Resume, Quiet, SameProcess, At, TypeInv, ProcessOK
  <2>3. ASSUME NEW s, Result(i, s)
        PROVE  Quiet(i) /\ pc'[i] # "publish"
    BY <1>1, <2>3, ResultFrame DEF Resume, Quiet, At
  <2> QED
    BY <2>1, <2>2, <2>3
<1>2. CASE TurnFails(i)
  BY <1>2, ResultFrame DEF TurnFails, Quiet, At
<1>3. CASE TurnAdvances(i)
  <2>1. ASSUME turn' = [turn EXCEPT ![i].step = @ + 1], UNCHANGED <<pc, call, snap, age>>
        PROVE  Quiet(i) /\ pc'[i] # "publish"
    BY <1>3, <2>1 DEF TurnAdvances, Quiet, SameProcess, At, TypeInv, ProcessOK
  <2>2. ASSUME Result(i, turn[i].capped)
        PROVE  Quiet(i) /\ pc'[i] # "publish"
    BY <1>3, <2>2, ResultFrame DEF TurnAdvances, Quiet, At
  <2>3. ASSUME Goto(i, "hardcap"), UNCHANGED <<call, snap, turn, age>>
        PROVE  Quiet(i) /\ pc'[i] # "publish"
    BY <1>3, <2>3, GotoFrame DEF TurnAdvances, Quiet, SameProcess, At
  <2> QED
    BY <1>3, <2>1, <2>2, <2>3 DEF TurnAdvances
<1>4. CASE TurnFinishes(i)
  BY <1>4, ResultFrame DEF TurnFinishes, Quiet, At
<1>5. CASE HardCap(i)
  BY <1>5, ResultFrame DEF HardCap, Quiet, At
<1> QED
  BY <1>1, <1>2, <1>3, <1>4, <1>5 DEF Investigation, Answers

\* The two steps at the end of a handler that may touch the queue.
LEMMA RechainFrame ==
    ASSUME TypeInv, NEW i \in Invocations, Rechain(i)
    PROVE  /\ \A j \in Invocations \ {i} : SameProcess(j)
           /\ pc[i] = "publish" /\ UNCHANGED start
           /\ \/ /\ Publish(NextAfter(i), NewRetry(i))
                 /\ call'[i] = call[i] /\ pc'[i] = "respond"
              \/ UNCHANGED queue /\ call'[i] = NoCall /\ pc'[i] = "idle"
BY ReturnFrame, GotoFrame DEF Rechain, SameProcess, At

-----------------------------------------------------------------------------
(* RetryBounded.  A message is only ever published by a process that found   *)
(* its failure counter below the limit, and keeps its counter while it is    *)
(* delivered and redelivered.                                                *)

Bounded(m) == m.retry < MaxFailures /\ m.retried <= StepRetries

RetryOK(i) ==
    /\ call[i].role = "worker" => Bounded(call[i].msg)
    /\ pc[i] = "publish" => NewRetry(i) < MaxFailures

RetryInv ==
    /\ \A m \in queue : Bounded(m)
    /\ \A i \in Invocations : RetryOK(i)

LEMMA SameRetryOK ==
    ASSUME NEW j \in Invocations, RetryOK(j), SameProcess(j)
    PROVE  RetryOK(j)'
BY DEF RetryOK, SameProcess, NewRetry, Advanced

LEMMA IdleRetryOK ==
    ASSUME NEW j \in Invocations, pc'[j] = "idle", call'[j] = NoCall
    PROVE  RetryOK(j)'
BY DEF RetryOK, NoCall

LEMMA PublishBounded ==
    ASSUME QueueOK, \A m \in queue : Bounded(m),
           NEW after \in Nat, NEW retry \in Nat, retry < MaxFailures,
           Publish(after, retry)
    PROVE  \A m \in queue' : Bounded(m)
BY RetryAssumption DEF QueueOK, Publish, NewStep, Bounded

LEMMA RequeueBounded ==
    ASSUME TypeInv, RetryInv, NEW i \in Invocations, Requeue(i)
    PROVE  \A m \in queue' : Bounded(m)
<1>1. ASSUME Holds(i)
      PROVE  Bounded(Undelivered(call[i].msg))
  <2>1. call[i].msg \in Message /\ Bounded(call[i].msg)
    BY <1>1 DEF TypeInv, ProcessOK, Holds, Call, RetryInv, RetryOK
  <2>2. ASSUME NEW m \in Message, Bounded(m)
        PROVE  Bounded(Undelivered(m))
    BY <2>2, RetryAssumption DEF Message, Bounded, Undelivered
  <2> QED
    BY <2>1, <2>2
<1> QED
  BY <1>1 DEF RetryInv, Requeue

LEMMA RetryHandler ==
    ASSUME TypeInv, RetryInv, NEW i \in Invocations, Handler(i)
    PROVE  RetryInv'
<1>1. ASSUME \A j \in Invocations \ {i} : SameProcess(j), RetryOK(i)',
             \A m \in queue' : Bounded(m)
      PROVE  RetryInv'
  BY <1>1, SameRetryOK DEF RetryInv
<1>2. ASSUME Quiet(i), pc'[i] # "publish"
      PROVE  RetryInv'
  <2>1. RetryOK(i)'
    BY <1>2 DEF Quiet, RetryInv, RetryOK, NoCall
  <2> QED
    BY <1>1, <1>2, <2>1 DEF Quiet, RetryInv
<1>3. CASE Quiet(i) /\ pc'[i] = "publish" /\ Reload(i)
  <2>1. ~Exhausted(i) /\ UNCHANGED <<call, turn>>
    BY <1>3, ReturnFrame, GotoFrame DEF Reload
  <2>2. NewRetry(i) < MaxFailures
    <3>1. CASE Advanced(i)
      BY <3>1, RetryAssumption DEF NewRetry
    <3>2. CASE ~Advanced(i)
      <4>1. NewRetry(i) \in Nat
        <5>1. call[i].msg \in Message
          BY <1>3 DEF Reload, At, TypeInv, ProcessOK, RoleOK, Call
        <5> QED
          BY <5>1, EffectiveRetryType DEF NewRetry
      <4> QED
        BY <2>1, <3>2, <4>1, RetryAssumption DEF Exhausted
    <3> QED
      BY <3>1, <3>2
  <2>3. RetryOK(i)'
    BY <2>1, <2>2 DEF RetryInv, RetryOK, NewRetry, Advanced
  <2> QED
    BY <1>1, <1>3, <2>3 DEF Quiet, RetryInv
<1>4. CASE Rechain(i)
  <2>1. NewRetry(i) \in Nat /\ NewRetry(i) < MaxFailures /\ NextAfter(i) \in Nat
    <3>1. call[i].msg \in Message
      BY <1>4, RechainFrame DEF TypeInv, ProcessOK, RoleOK, Call
    <3>2. NewRetry(i) \in Nat
      BY <3>1, EffectiveRetryType DEF NewRetry
    <3>3. NewRetry(i) < MaxFailures
      BY <1>4, RechainFrame DEF RetryInv, RetryOK
    <3>4. NextAfter(i) \in Nat
      BY SnapSteps DEF NextAfter, TypeInv
    <3> QED
      BY <3>2, <3>3, <3>4
  <2>2. \A m \in queue' : Bounded(m)
    BY <1>4, <2>1, RechainFrame, PublishBounded DEF RetryInv, TypeInv
  <2>3. RetryOK(i)'
    BY <1>4, RechainFrame, IdleRetryOK DEF RetryInv, RetryOK
  <2> QED
    BY <1>1, <1>4, <2>2, <2>3, RechainFrame
<1>5. CASE Respond(i)
  <2>1. \A m \in queue' : Bounded(m)
    BY <1>5, RequeueBounded DEF Respond, RetryInv
  <2> QED
    BY <1>1, <1>5, <2>1, ReturnFrame, IdleRetryOK DEF Respond
<1> QED
  BY <1>2, <1>3, <1>4, <1>5, QuietWorker, QuietInvestigation DEF Handler

LEMMA RetryNext == TypeInv /\ RetryInv /\ [Next]_vars => RetryInv'
<1> SUFFICES ASSUME TypeInv, RetryInv, [Next]_vars PROVE RetryInv'
  OBVIOUS
<1>0. ASSUME \A j \in Invocations : SameProcess(j), \A m \in queue' : Bounded(m)
      PROVE  RetryInv'
  BY <1>0, SameRetryOK DEF RetryInv
<1>1. CASE StartCall
  <2>1. \A m \in queue' : Bounded(m)
    BY <1>1, PublishBounded, RetryAssumption
    DEF StartCall, PublishStart, SeedRun, RetryInv, TypeInv
  <2> QED
    BY <1>0, <1>1, <2>1 DEF StartCall, PublishStart, SeedRun, SameProcess
<1>2. CASE Delivery \/ PollCall
  <2>1. PICK i \in Invocations : \/ \E m \in queue : Deliver(i, m)
                                 \/ \E l \in PollLimits : Poll(i, l)
    BY <1>2 DEF Delivery, PollCall
  <2>2. \A m \in queue' : Bounded(m)
    BY <2>1 DEF Deliver, Poll, RetryInv
  <2>3. \A j \in Invocations \ {i} : SameProcess(j)
    BY <2>1 DEF Deliver, Poll, Begin, Goto, SameProcess, TypeInv, ProcessOK
  <2>4. RetryOK(i)'
    BY <2>1 DEF Deliver, Poll, Begin, Goto, FirstLabel, RetryInv, RetryOK, TypeInv, ProcessOK
  <2> QED
    BY <2>2, <2>3, <2>4, SameRetryOK DEF RetryInv
<1>3. ASSUME NEW i \in Invocations, Handler(i)
      PROVE  RetryInv'
  BY <1>3, RetryHandler
<1>4. ASSUME NEW i \in Invocations, Kill(i)
      PROVE  RetryInv'
  <2>1. \A m \in queue' : Bounded(m)
    BY <1>4, RequeueBounded DEF Kill
  <2> QED
    BY <1>4, <2>1, ReturnFrame, SameRetryOK, IdleRetryOK DEF Kill, RetryInv
<1>5. ASSUME NEW i \in Invocations, Disconnect(i)
      PROVE  RetryInv'
  <2>1. \A m \in queue' : Bounded(m)
    BY <1>5, RequeueBounded DEF Disconnect
  <2>2. \A j \in Invocations : /\ call'[j].role = call[j].role
                               /\ call[j].role = "worker" => call'[j].msg = call[j].msg
    <3>1. call' = [call EXCEPT ![i] = [call[i] EXCEPT !.held = FALSE]]
      BY <1>5 DEF Disconnect
    <3>2. call[i] \in Call /\ call[i].role = "worker"
      BY <1>5 DEF Disconnect, Holds, TypeInv, ProcessOK
    <3>3. /\ [call[i] EXCEPT !.held = FALSE].role = call[i].role
          /\ [call[i] EXCEPT !.held = FALSE].msg = call[i].msg
      BY <3>2 DEF Call
    <3> QED
      BY <3>1, <3>3 DEF TypeInv, ProcessOK
  <2>3. ASSUME NEW j \in Invocations
        PROVE  RetryOK(j)'
    <3>1. pc[j] = "publish" => call[j].role = "worker"
      BY DEF TypeInv, ProcessOK, RoleOK
    <3> QED
      BY <1>5, <2>2, <3>1
      DEF Disconnect, RetryInv, RetryOK, NewRetry, Advanced
  <2> QED
    BY <2>1, <2>3 DEF RetryInv
<1>6. CASE StoreOutage \/ Expire \/ Tick \/ UNCHANGED vars
  BY <1>0, <1>6 DEF StoreOutage, Expire, Tick, vars, SameProcess, RetryInv
<1> QED
  BY <1>1, <1>2, <1>3, <1>4, <1>5, <1>6 DEF Next, Platform

\* However deliveries, retries, kills, failing calls and pushing callers
\* interleave, no message is in the queue with an exhausted failure counter:
\* the limit that agent_worker.js puts on a failing step is never passed over.
THEOREM RetryCorrect == Spec => []RetryBounded
<1>1. Init => RetryInv
  BY DEF Init, RetryInv, RetryOK, NoCall
<1>2. RetryInv => RetryBounded
  BY DEF RetryInv, Bounded, RetryBounded
<1> QED
  BY <1>1, <1>2, RetryNext, TypeInvariant, PTL DEF Spec

-----------------------------------------------------------------------------
(* OneTurnAtATime.  Where QStash handles every message exactly once and no   *)
(* caller pushes, the run has a single token: the call that starts it, the   *)
(* one message in the queue, or the one process at work on it.               *)

Working(i) == pc[i] \notin {"idle", "respond"}

TokenInv ==
    /\ \A i, j \in Invocations : Working(i) /\ Working(j) => i = j
    /\ \A m, n \in queue : m = n
    /\ queue # {} => \A i \in Invocations : ~Working(i)
    /\ start # "done" => queue = {} /\ \A i \in Invocations : ~Working(i)

Serial ==
    /\ PollLimits = {}
    /\ Budget["duplicate"] = 0 /\ Budget["disconnect"] = 0 /\ Budget["lostack"] = 0

LEMMA NeverStrikes ==
    ASSUME StoreOK, NEW h \in Hazards, Budget[h] = 0
    PROVE  ~Strike(h)
BY DEF StoreOK, Strike

\* The process that holds the token moves on, hands it over or drops it.
LEMMA TokenHeld ==
    ASSUME TokenInv, NEW i \in Invocations, Working(i),
           \A j \in Invocations \ {i} : SameProcess(j), UNCHANGED start,
           \/ UNCHANGED queue
           \/ ~Working(i)' /\ \E m : queue' = queue \cup {m}
    PROVE  TokenInv'
BY DEF TokenInv, Working, SameProcess

LEMMA TokenHandler ==
    ASSUME Serial, TypeInv, TokenInv, NEW i \in Invocations, Handler(i)
    PROVE  TokenInv'
<1>1. CASE Quiet(i)
  BY <1>1, TokenHeld DEF Quiet, Working
<1>2. CASE Rechain(i)
  <2>1. \/ UNCHANGED queue
        \/ ~Working(i)' /\ \E m : queue' = queue \cup {m}
    BY <1>2, RechainFrame DEF Publish, Working
  <2> QED
    BY <1>2, <2>1, RechainFrame, TokenHeld DEF Working
<1>3. CASE Respond(i)
  <2>1. UNCHANGED <<queue, start>>
    BY <1>3, NeverStrikes DEF Respond, Serial, TypeInv, Hazards
  <2> QED
    BY <1>3, <2>1, ReturnFrame DEF Respond, At, TokenInv, Working, SameProcess
<1> QED
  BY <1>1, <1>2, <1>3, QuietWorker, QuietInvestigation DEF Handler

LEMMA TokenNext ==
    ASSUME Serial
    PROVE  TypeInv /\ TokenInv /\ [Next]_vars => TokenInv'
<1> SUFFICES ASSUME TypeInv, TokenInv, [Next]_vars PROVE TokenInv'
  OBVIOUS
<1>1. CASE StartCall
  <2>1. CASE PublishStart
    BY <1>1, <2>1 DEF PublishStart, Publish, TokenInv, Working
  <2>2. CASE ~PublishStart
    BY <1>1, <2>2 DEF StartCall, SeedRun, TokenInv, Working
  <2> QED
    BY <2>1, <2>2
<1>2. CASE Delivery
  <2>1. PICK i \in Invocations, m \in queue : Deliver(i, m)
    BY <1>2 DEF Delivery
  <2>2. queue' = queue \ {m}
    BY <2>1, NeverStrikes DEF Deliver, Serial, TypeInv, Hazards
  <2>3. queue' = {} /\ start = "done" /\ \A j \in Invocations : ~Working(j)
    BY <2>2 DEF TokenInv
  <2> QED
    BY <2>1, <2>3 DEF Deliver, Begin, Goto, TokenInv, Working, TypeInv, ProcessOK
<1>3. ASSUME NEW i \in Invocations, Handler(i)
      PROVE  TokenInv'
  BY <1>3, TokenHandler
<1>4. ASSUME NEW i \in Invocations, Kill(i)
      PROVE  TokenInv'
  <2>1. Working(i) /\ ~Working(i)'
    BY <1>4, ReturnFrame DEF Kill, Active, Working
  <2>2. UNCHANGED queue \/ \E m : queue' = queue \cup {m}
    BY <1>4 DEF Kill, Requeue
  <2> QED
    BY <1>4, <2>1, <2>2, ReturnFrame, TokenHeld DEF Kill
<1>5. \A i \in Invocations : ~Disconnect(i)
  BY NeverStrikes DEF Disconnect, Serial, TypeInv, Hazards
<1>6. ~PollCall
  BY DEF PollCall, Serial
<1>7. CASE StoreOutage \/ Expire \/ Tick \/ UNCHANGED vars
  BY <1>7 DEF StoreOutage, Expire, Tick, vars, TokenInv, Working
<1> QED
  BY <1>1, <1>2, <1>3, <1>4, <1>5, <1>6, <1>7 DEF Next, Platform

\* Where every message is handled exactly once and no caller pushes the run,
\* two workers never hold a provider turn at the same time, whatever else
\* fails: the chain of runInvestigation calls is sequential.
THEOREM SerialTurns ==
    ASSUME Serial
    PROVE  Spec => []OneTurnAtATime
<1>1. Init => TokenInv
  BY DEF Init, TokenInv, Working
<1>2. TokenInv => OneTurnAtATime
  BY DEF TokenInv, Working, OneTurnAtATime, At
<1> QED
  BY <1>1, <1>2, TokenNext, TypeInvariant, PTL DEF Spec

-----------------------------------------------------------------------------
(***************************************************************************)
(* Where QStash hands every message over once, no caller pushes and the    *)
(* record does not expire, AgentChain implements RunLifecycle: every write *)
(* to the record takes the run one step on, ends it, or leaves it alone.   *)
(*                                                                         *)
(* A write is made from what the process read some steps before.  The      *)
(* invariant says that what it read, or the turn it took from it, is still *)
(* what the record holds: only the process with the token writes.          *)
(***************************************************************************)

\* What a process is about to write agrees with the record.
Agrees(i) ==
    /\ pc[i] \in {"earlysave", "heartbeat", "giveup", "cbsave"} =>
            cp.status = "running" /\ snap[i].status = "running" /\ snap[i].steps = cp.steps
    /\ pc[i] = "resume" => cp.status = "running"
    /\ pc[i] = "turn" =>
            cp.status = "running" /\ turn[i].step = cp.steps + 1 /\ turn[i].capped = turn[i].step
    /\ pc[i] = "hardcap" => cp.status = "running" /\ turn[i].capped \in {cp.steps, cp.steps + 1}

LifeInv ==
    /\ start = "new" => cp = NoCheckpoint
    /\ \A i \in Invocations : call[i].role # "poll" /\ Agrees(i)

SerialRun == Serial /\ Budget["expire"] = 0

SameRun == cp'.status = cp.status /\ cp'.steps = cp.steps

-----------------------------------------------------------------------------
(* What a write may do to the record.                                      *)

LEMMA SaveRecord ==
    ASSUME NEW c, Save(c)
    PROVE  cp' = c \/ cp' = cp
BY DEF Save

LEMMA LoadRecord ==
    ASSUME NEW v, Load(v)
    PROVE  v = cp \/ v = NoCheckpoint
BY DEF Load

LEMMA RecordFields ==
    ASSUME NEW s, NEW o
    PROVE  /\ RunningAt(s, o).status = "running" /\ RunningAt(s, o).steps = s
           /\ DoneAt(s, o).status = "done" /\ DoneAt(s, o).steps = s
           /\ FailedAt(s).status = "failed" /\ FailedAt(s).steps = s
           /\ NoCheckpoint.status = "none" /\ NoCheckpoint.steps = 0
BY DEF RunningAt, DoneAt, FailedAt, NoCheckpoint

\* A process that holds the token may write as it likes: nobody else is about to.
LEMMA Alone ==
    ASSUME TypeInv, TokenInv, LifeInv, NEW i \in Invocations, Working(i), UNCHANGED start,
           \A j \in Invocations \ {i} : SameProcess(j) /\ snap'[j] = snap[j],
           call'[i].role # "poll", Agrees(i)'
    PROVE  LifeInv'
<1>1. \A j \in Invocations \ {i} : ~Working(j)
  BY DEF TokenInv
<1>2. \A j \in Invocations \ {i} : Agrees(j)'
  BY <1>1 DEF Agrees, Working, SameProcess
<1>3. start # "new"
  BY DEF TokenInv
<1> QED
  BY <1>2, <1>3 DEF LifeInv, SameProcess

-----------------------------------------------------------------------------
(* The handlers' steps.                                                    *)

\* What every step of a handler leaves behind, and what it does to the run.
Others(i) == \A j \in Invocations \ {i} : SameProcess(j) /\ snap'[j] = snap[j]
Keeps(i) == Others(i) /\ call'[i].role # "poll" /\ Agrees(i)'
RunStep == SameRun \/ Lifecycle!RunNext

LEMMA ReturnKeeps ==
    ASSUME TypeInv, NEW i \in Invocations, Return(i)
    PROVE  Keeps(i)
<1>1. \A j \in Invocations \ {i} : snap'[j] = snap[j]
  BY DEF Return, TypeInv, ProcessOK
<1>2. Agrees(i)' /\ call'[i].role # "poll"
  BY ReturnFrame DEF Agrees, NoCall
<1> QED
  BY <1>1, <1>2, ReturnFrame DEF Keeps, Others

\* Back in the worker: nothing is about to be written.
LEMMA ResultKeeps ==
    ASSUME TypeInv, NEW i \in Invocations, call[i].role = "worker", NEW steps, Result(i, steps)
    PROVE  Keeps(i)
<1>1. /\ turn' = [turn EXCEPT ![i] = [NoTurn EXCEPT !.step = steps]]
      /\ Goto(i, "reload") /\ UNCHANGED <<call, snap>>
  BY DEF Result, Single
<1>2. pc'[i] = "reload"
  BY <1>1, GotoFrame
<1>3. Agrees(i)' /\ call'[i].role # "poll"
  BY <1>1, <1>2 DEF Agrees
<1> QED
  BY <1>1, <1>3, ResultFrame DEF Keeps, Others

\* A process reads a running record and goes on to a label with it.
LEMMA ReadKeeps ==
    ASSUME TypeInv, NEW i \in Invocations, call[i].role = "worker", NEW v, Load(v), UNCHANGED cp,
           v.status = "running", snap' = [snap EXCEPT ![i] = v],
           NEW label \in {"earlysave", "heartbeat", "giveup", "publish", "cbsave"}, Goto(i, label),
           UNCHANGED <<call, turn>>
    PROVE  Keeps(i)
<1>1. v = cp
  BY LoadRecord, RecordFields
<1>2. snap'[i] = cp /\ \A j \in Invocations \ {i} : snap'[j] = snap[j]
  BY <1>1 DEF TypeInv, ProcessOK
<1>3. pc'[i] = label /\ \A j \in Invocations \ {i} : pc'[j] = pc[j]
  BY GotoFrame
<1>4. Agrees(i)'
  BY <1>1, <1>2, <1>3 DEF Agrees
<1> QED
  BY <1>2, <1>3, <1>4 DEF Keeps, Others, SameProcess

LEMMA WorkerKeeps ==
    ASSUME TypeInv, LifeInv, NEW i \in Invocations, Worker(i) \/ Callback(i)
    PROVE  Keeps(i) /\ RunStep
<1>0. pc[i] \notin {"idle", "resume", "turn", "hardcap"} => call[i].role = "worker"
  BY DEF TypeInv, ProcessOK, RoleOK
<1>1. CASE EarlyLoad(i)
  <2>1. PICK v \in {cp, NoCheckpoint} :
          /\ Load(v) /\ snap' = [snap EXCEPT ![i] = v]
          /\ Goto(i, IF Describes(v, call[i].msg) THEN "earlysave" ELSE "load")
    BY <1>1 DEF EarlyLoad
  <2>2. SameRun /\ UNCHANGED <<cp, call, turn>> /\ call[i].role = "worker"
    BY <1>0, <1>1 DEF EarlyLoad, SameRun, At
  <2>3. CASE Describes(v, call[i].msg)
    BY <2>1, <2>2, <2>3, ReadKeeps DEF Describes, RunStep
  <2>4. CASE ~Describes(v, call[i].msg)
    <3>1. pc'[i] = "load" /\ \A j \in Invocations \ {i} : pc'[j] = pc[j] /\ snap'[j] = snap[j]
      BY <2>1, <2>4, GotoFrame DEF TypeInv, ProcessOK
    <3> QED
      BY <2>2, <3>1 DEF Keeps, Others, SameProcess, Agrees, RunStep
  <2> QED
    BY <2>3, <2>4
<1>2. CASE EarlySave(i) \/ GiveUp(i) \/ CallbackSave(i)
  <2>1. Save(FailedAt(snap[i].steps)) /\ Keeps(i)
    BY <1>2, ReturnKeeps DEF EarlySave, GiveUp, CallbackSave
  <2>2. cp.status = "running" /\ snap[i].steps = cp.steps
    BY <1>2 DEF EarlySave, GiveUp, CallbackSave, At, LifeInv, Agrees
  <2>3. SameRun \/ Lifecycle!GiveUp
    BY <2>1, <2>2, SaveRecord, RecordFields DEF SameRun, Lifecycle!GiveUp
  <2> QED
    BY <2>1, <2>3 DEF RunStep, Lifecycle!RunNext
<1>3. CASE WorkerLoad(i) \/ CallbackLoad(i)
  <2>1. PICK v \in {cp, NoCheckpoint} :
          /\ Load(v)
          /\ \/ /\ Describes(v, call[i].msg) /\ snap' = [snap EXCEPT ![i] = v]
                /\ Goto(i, "heartbeat") \/ Goto(i, "cbsave")
                /\ UNCHANGED <<call, turn>>
             \/ Return(i)
    BY <1>3 DEF WorkerLoad, CallbackLoad
  <2>2. SameRun /\ UNCHANGED cp /\ call[i].role = "worker"
    BY <1>0, <1>3 DEF WorkerLoad, CallbackLoad, SameRun, At
  <2>3. CASE Return(i)
    BY <2>2, <2>3, ReturnKeeps DEF RunStep
  <2>4. CASE ~Return(i)
    BY <2>1, <2>2, <2>4, ReadKeeps DEF Describes, RunStep
  <2> QED
    BY <2>3, <2>4
<1>4. CASE Heartbeat(i)
  <2>1. /\ Save([snap[i] EXCEPT !.started = TRUE]) /\ Goto(i, "resume")
        /\ UNCHANGED <<call, snap, turn>> /\ call[i].role = "worker"
    BY <1>0, <1>4 DEF Heartbeat, At
  <2>2. cp.status = "running" /\ snap[i].status = "running" /\ snap[i].steps = cp.steps
    BY <1>4 DEF Heartbeat, At, LifeInv, Agrees
  <2>3. snap[i] \in Checkpoint
    BY DEF TypeInv, ProcessOK
  <2>4. SameRun
    BY <2>1, <2>2, <2>3, SaveRecord DEF SameRun, Checkpoint
  <2>5. pc'[i] = "resume" /\ \A j \in Invocations \ {i} : pc'[j] = pc[j]
    BY <2>1, GotoFrame
  <2> QED
    BY <2>1, <2>2, <2>4, <2>5 DEF Keeps, Others, SameProcess, Agrees, SameRun, RunStep
<1>5. CASE Reload(i)
  <2>1. PICK v \in {cp, NoCheckpoint} :
          /\ Load(v)
          /\ \/ /\ v.status = "running" /\ snap' = [snap EXCEPT ![i] = v]
                /\ Goto(i, "giveup") \/ Goto(i, "publish")
                /\ UNCHANGED <<call, turn>>
             \/ Return(i)
    BY <1>5 DEF Reload
  <2>2. SameRun /\ UNCHANGED cp /\ call[i].role = "worker"
    BY <1>0, <1>5 DEF Reload, SameRun, At
  <2>3. CASE Return(i)
    BY <2>2, <2>3, ReturnKeeps DEF RunStep
  <2>4. CASE ~Return(i)
    BY <2>1, <2>2, <2>4, ReadKeeps DEF RunStep
  <2> QED
    BY <2>3, <2>4
<1>6. CASE Rechain(i)
  <2>1. SameRun
    BY <1>6 DEF Rechain, SameRun
  <2>2. CASE Return(i)
    BY <2>1, <2>2, ReturnKeeps DEF RunStep
  <2>3. CASE ~Return(i)
    <3>1. Goto(i, "respond") /\ UNCHANGED <<call, snap, turn>> /\ call[i].role = "worker"
      BY <1>0, <1>6, <2>3 DEF Rechain, At
    <3>2. pc'[i] = "respond" /\ \A j \in Invocations \ {i} : pc'[j] = pc[j]
      BY <3>1, GotoFrame
    <3> QED
      BY <2>1, <3>1, <3>2 DEF Keeps, Others, SameProcess, Agrees, RunStep
  <2> QED
    BY <2>2, <2>3
<1>7. CASE Respond(i)
  BY <1>7, ReturnKeeps DEF Respond, SameRun, RunStep
<1> QED
  BY <1>1, <1>2, <1>3, <1>4, <1>5, <1>6, <1>7 DEF Worker, Callback

LEMMA InvestigationKeeps ==
    ASSUME TypeInv, LifeInv, NEW i \in Invocations, Investigation(i)
    PROVE  Keeps(i) /\ RunStep
<1>0. call[i].role = "worker" /\ Single(i)
  BY DEF TypeInv, ProcessOK, RoleOK, LifeInv, Investigation, Answers, Resume, TurnFails,
         TurnAdvances, TurnFinishes, HardCap, At, Single
<1>1. CASE Resume(i)
  <2>1. SameRun /\ UNCHANGED cp /\ cp.status = "running" /\ cp \in Checkpoint
    BY <1>1 DEF Resume, SameRun, LifeInv, Agrees, At, TypeInv, StoreOK
  <2>2. CASE \E s : Result(i, s)
    BY <1>0, <2>1, <2>2, ResultKeeps DEF RunStep
  <2>3. CASE ~\E s : Result(i, s)
    <3>1. PICK v \in {cp, NoCheckpoint} :
            /\ Load(v) /\ v.status \in {"running", "failed"}
            /\ turn' = [turn EXCEPT ![i] = Bounds(i, v)]
            /\ Goto(i, "turn") /\ UNCHANGED <<call, snap>>
      BY <1>1, <2>3 DEF Resume
    <3>2. v = cp
      BY <3>1, LoadRecord, RecordFields
    <3>3. turn'[i].step = cp.steps + 1 /\ turn'[i].capped = cp.steps + 1
      BY <1>0, <3>1, <3>2 DEF Bounds, TypeInv, ProcessOK
    <3>4. /\ pc'[i] = "turn"
          /\ \A j \in Invocations \ {i} : pc'[j] = pc[j] /\ turn'[j] = turn[j]
      BY <3>1, GotoFrame DEF TypeInv, ProcessOK
    <3> QED
      BY <1>0, <2>1, <3>1, <3>3, <3>4 DEF Keeps, Others, SameProcess, Agrees, RunStep
  <2> QED
    BY <2>2, <2>3
<1>2. ASSUME pc[i] = "turn"
      PROVE  /\ cp.status = "running" /\ cp.steps \in Nat
             /\ turn[i].step = cp.steps + 1 /\ turn[i].capped = cp.steps + 1
  BY <1>2 DEF LifeInv, Agrees, TypeInv, StoreOK, Checkpoint
<1>3. CASE TurnFails(i)
  <2>1. Save(RunningAt(turn[i].step - 1, turn[i].overall)) /\ Result(i, turn[i].step - 1)
    BY <1>3 DEF TurnFails
  <2>2. SameRun
    BY <1>2, <1>3, <2>1, SaveRecord, RecordFields DEF TurnFails, At, SameRun
  <2> QED
    BY <1>0, <2>1, <2>2, ResultKeeps DEF RunStep
<1>4. CASE TurnAdvances(i)
  <2>1. /\ Save(RunningAt(turn[i].step, turn[i].overall))
        /\ \/ Result(i, turn[i].capped)
           \/ Goto(i, "hardcap") /\ UNCHANGED <<call, snap, turn>>
    BY <1>2, <1>4 DEF TurnAdvances, At
  <2>2. SameRun \/ Lifecycle!TakeStep
    BY <1>2, <1>4, <2>1, SaveRecord, RecordFields
       DEF TurnAdvances, At, SameRun, Lifecycle!TakeStep
  <2>3. CASE Result(i, turn[i].capped)
    BY <1>0, <2>2, <2>3, ResultKeeps DEF RunStep, Lifecycle!RunNext
  <2>4. CASE Goto(i, "hardcap") /\ UNCHANGED <<call, snap, turn>>
    <3>1. pc'[i] = "hardcap" /\ \A j \in Invocations \ {i} : pc'[j] = pc[j]
      BY <2>4, GotoFrame
    <3>2. cp'.status = "running" /\ cp'.steps \in {cp.steps, cp.steps + 1}
      BY <1>2, <1>4, <2>2 DEF TurnAdvances, At, SameRun, Lifecycle!TakeStep
    <3>3. turn'[i].capped \in {cp'.steps, cp'.steps + 1}
      BY <1>2, <1>4, <2>4, <3>2 DEF TurnAdvances, At
    <3> QED
      BY <1>0, <2>2, <2>4, <3>1, <3>2, <3>3
         DEF Keeps, Others, SameProcess, Agrees, RunStep, Lifecycle!RunNext
  <2> QED
    BY <2>1, <2>3, <2>4
<1>5. CASE TurnFinishes(i)
  <2>1. Save(DoneAt(turn[i].step, turn[i].overall)) /\ Result(i, turn[i].step)
    BY <1>5 DEF TurnFinishes
  <2>2. SameRun \/ Lifecycle!Finish
    BY <1>2, <1>5, <2>1, SaveRecord, RecordFields
       DEF TurnFinishes, At, SameRun, Lifecycle!Finish
  <2> QED
    BY <1>0, <2>1, <2>2, ResultKeeps DEF RunStep, Lifecycle!RunNext
<1>6. CASE HardCap(i)
  <2>1. Save(DoneAt(turn[i].capped, turn[i].overall)) /\ Result(i, turn[i].capped)
    BY <1>6 DEF HardCap
  <2>2. cp.status = "running" /\ turn[i].capped \in {cp.steps, cp.steps + 1}
    BY <1>6 DEF HardCap, At, LifeInv, Agrees
  <2>3. SameRun \/ Lifecycle!Finish
    BY <2>1, <2>2, SaveRecord, RecordFields DEF SameRun, Lifecycle!Finish
  <2> QED
    BY <1>0, <2>1, <2>3, ResultKeeps DEF RunStep, Lifecycle!RunNext
<1> QED
  BY <1>1, <1>3, <1>4, <1>5, <1>6 DEF Investigation, Answers

\* A respond step follows the token; the others are taken by its holder.
LEMMA HandlerLife ==
    ASSUME Serial, TypeInv, TokenInv, LifeInv, NEW i \in Invocations, Handler(i)
    PROVE  LifeInv' /\ RunStep
<1>1. Keeps(i) /\ RunStep
  BY WorkerKeeps, InvestigationKeeps DEF Handler
<1>2. UNCHANGED start
  BY QuietWorker, QuietInvestigation, RechainFrame DEF Handler, Quiet, Respond
<1>3. CASE Working(i)
  BY <1>1, <1>2, <1>3, Alone DEF Keeps, Others
<1>4. CASE ~Working(i)
  <2>1. Respond(i)
    BY <1>4, QuietWorker, QuietInvestigation, RechainFrame DEF Handler, Quiet, Working
  <2>2. UNCHANGED cp
    BY <2>1 DEF Respond
  <2>3. \A j \in Invocations \ {i} : Agrees(j)'
    BY <1>1, <2>2 DEF Keeps, Others, SameProcess, Agrees, LifeInv
  <2> QED
    BY <1>1, <1>2, <2>2, <2>3 DEF Keeps, Others, SameProcess, LifeInv
<1> QED
  BY <1>1, <1>3, <1>4

LEMMA LifeNext ==
    ASSUME SerialRun
    PROVE  TypeInv /\ TokenInv /\ LifeInv /\ [Next]_vars => LifeInv' /\ RunStep
<1> SUFFICES ASSUME TypeInv, TokenInv, LifeInv, [Next]_vars PROVE LifeInv' /\ RunStep
  OBVIOUS
<1>1. CASE StartCall
  <2>1. CASE PublishStart
    <3>1. UNCHANGED <<cp, pc, call, snap, turn>> /\ start' # "new"
      BY <2>1 DEF PublishStart
    <3> QED
      BY <3>1 DEF LifeInv, Agrees, RunStep, SameRun
  <2>2. CASE ~PublishStart
    <3>1. PICK m \in StartLimits : SeedRun(m)
      BY <1>1, <2>2 DEF StartCall
    <3>2. start = "new" /\ start' = "publish" /\ UNCHANGED <<pc, call, snap, turn>>
          /\ (cp' = cp \/ cp' = RunningAt(0, Smaller(m, HardMaxSteps)))
      BY <3>1, SaveRecord DEF SeedRun
    <3>3. RunStep
      BY <3>2, RecordFields DEF LifeInv, RunStep, SameRun, Lifecycle!RunNext, Lifecycle!Seed
    <3>4. \A i \in Invocations : pc'[i] \in {"idle", "respond"}
      BY <3>2 DEF TokenInv, Working
    <3> QED
      BY <3>2, <3>3, <3>4 DEF LifeInv, Agrees
  <2> QED
    BY <2>1, <2>2
<1>2. CASE Delivery
  <2>1. PICK i \in Invocations, m \in queue : Deliver(i, m)
    BY <1>2 DEF Delivery
  <2>2. UNCHANGED <<cp, start, snap, turn>>
    BY <2>1 DEF Deliver
  <2>3. /\ pc'[i] \in {"cbload", "earlyload", "load"} /\ call'[i].role = "worker"
        /\ \A j \in Invocations \ {i} : pc'[j] = pc[j] /\ call'[j] = call[j]
    BY <2>1 DEF Deliver, Begin, Goto, FirstLabel, TypeInv, ProcessOK
  <2> QED
    BY <2>2, <2>3 DEF LifeInv, Agrees, RunStep, SameRun
<1>3. ASSUME NEW i \in Invocations, Handler(i)
      PROVE  LifeInv' /\ RunStep
  BY <1>3, HandlerLife DEF SerialRun
<1>4. ASSUME NEW i \in Invocations, Kill(i)
      PROVE  LifeInv' /\ RunStep
  <2>1. Keeps(i) /\ UNCHANGED <<cp, start>>
    BY <1>4, ReturnKeeps DEF Kill
  <2>2. \A j \in Invocations \ {i} : Agrees(j)'
    BY <2>1 DEF Keeps, Others, SameProcess, Agrees, LifeInv
  <2> QED
    BY <2>1, <2>2 DEF Keeps, Others, SameProcess, LifeInv, RunStep, SameRun
<1>5. \A i \in Invocations : ~Disconnect(i)
  BY NeverStrikes DEF Disconnect, SerialRun, Serial, TypeInv, Hazards
<1>6. ~Expire
  BY NeverStrikes DEF Expire, SerialRun, TypeInv, Hazards
<1>7. ~PollCall
  BY DEF PollCall, SerialRun, Serial
<1>8. CASE StoreOutage \/ Tick \/ UNCHANGED vars
  BY <1>8 DEF StoreOutage, Tick, vars, LifeInv, Agrees, RunStep, SameRun
<1> QED
  BY <1>1, <1>2, <1>3, <1>4, <1>5, <1>6, <1>7, <1>8 DEF Next, Platform

\* Where every message is handled exactly once, no caller pushes the run and its record does not
\* expire, the caller sees the run RunLifecycle describes: steps are taken one at a time, the run
\* ends once, and nothing touches it afterwards, whatever reads, writes and processes fail.
THEOREM SerialRefines ==
    ASSUME SerialRun
    PROVE  Spec => RefinesLifecycle
<1>1. Init => TokenInv /\ LifeInv
  BY DEF Init, TokenInv, Working, LifeInv, Agrees, NoCall
<1>2. Init => Lifecycle!RunInit
  BY RecordFields DEF Init, Lifecycle!RunInit
<1>3. TypeInv /\ TokenInv /\ [Next]_vars => TokenInv'
  BY TokenNext DEF SerialRun
<1>4. TypeInv /\ TokenInv /\ LifeInv /\ [Next]_vars => LifeInv' /\ [Lifecycle!RunNext]_(Lifecycle!run)
  BY LifeNext DEF RunStep, SameRun, Lifecycle!run
<1> QED
  BY <1>1, <1>2, <1>3, <1>4, TypeInvariant, PTL DEF Spec, RefinesLifecycle, Lifecycle!RunSpec

-----------------------------------------------------------------------------
(* RunningHasBudget.  A record that was given up has lost its budget; a      *)
(* worker that resumes it nevertheless falls back on the default.  Then the  *)
(* answering step is still ahead only if no caller asked for more than the   *)
(* default, or if no worker ever resumes such a record.                      *)

Ceiling(c) == IF c.overall = 0 THEN DefaultMaxSteps ELSE c.overall

WithinDefault ==
    StartLimits \subseteq 1 .. DefaultMaxSteps /\ PollLimits \subseteq 0 .. DefaultMaxSteps

Room(c) ==
    /\ c.status = "running" => c.steps < Ceiling(c)
    /\ WithinDefault => c.overall <= DefaultMaxSteps /\ (c.status = "failed" => c.steps < Ceiling(c))

RoomOK(i) ==
    /\ Room(snap[i])
    /\ pc[i] \in {"earlysave", "giveup", "cbsave", "heartbeat"} => snap[i].status = "running"
    /\ pc[i] = "turn" => turn[i].step <= turn[i].overall
    /\ WithinDefault => turn[i].overall <= DefaultMaxSteps
    /\ call[i].role = "poll" => call[i].limit \in PollLimits

RoomInv == Room(cp) /\ \A i \in Invocations : RoomOK(i)

LEMMA RoomOfRecords ==
    /\ Room(NoCheckpoint)
    /\ \A s \in Nat : \A o \in Nat \ {0} :
         (WithinDefault => o <= DefaultMaxSteps) =>
            /\ s < o => Room(RunningAt(s, o))
            /\ Room(DoneAt(s, o))
BY LimitAssumption DEF Room, Ceiling, NoCheckpoint, RunningAt, DoneAt

LEMMA RoomOfFailed ==
    ASSUME NEW c \in Checkpoint, Room(c), c.status = "running"
    PROVE  Room(FailedAt(c.steps))
<1>1. FailedAt(c.steps).status = "failed" /\ FailedAt(c.steps).steps = c.steps
      /\ FailedAt(c.steps).overall = 0
  BY DEF FailedAt, RunningAt
<1> HIDE DEF FailedAt
<1> QED BY <1>1, LimitAssumption DEF Room, Ceiling, Checkpoint

LEMMA RoomRead ==
    ASSUME RoomInv, NEW v, Load(v)
    PROVE  Room(v)
BY LoadRecord, RoomOfRecords DEF RoomInv

LEMMA RoomWritten ==
    ASSUME RoomInv, NEW c, Save(c), Room(c)
    PROVE  Room(cp')
BY SaveRecord DEF RoomInv

\* One process steps; the others stay where they are.
LEMMA RoomOne ==
    ASSUME RoomInv, NEW i \in Invocations, Others(i), Room(cp'), RoomOK(i)'
    PROVE  RoomInv'
BY DEF RoomInv, RoomOK, Others, SameProcess

LEMMA ReturnRoom ==
    ASSUME TypeInv, NEW i \in Invocations, Return(i)
    PROVE  Others(i) /\ RoomOK(i)'
<1>1. Others(i)
  BY ReturnKeeps DEF Keeps
<1>2. snap'[i] = NoCheckpoint /\ turn'[i] = NoTurn /\ pc'[i] = "idle" /\ call'[i] = NoCall
  BY ReturnFrame DEF Return, TypeInv, ProcessOK
<1> QED BY <1>1, <1>2, RoomOfRecords, LimitAssumption DEF RoomOK, NoTurn, NoCall

LEMMA ResultRoom ==
    ASSUME TypeInv, RoomInv, NEW i \in Invocations, NEW steps, Result(i, steps)
    PROVE  Others(i) /\ RoomOK(i)'
<1>1. CASE Single(i)
  <2>1. /\ turn' = [turn EXCEPT ![i] = [NoTurn EXCEPT !.step = steps]]
        /\ Goto(i, "reload") /\ UNCHANGED <<call, snap>>
    BY <1>1 DEF Result
  <2>2. pc'[i] = "reload" /\ \A j \in Invocations \ {i} : pc'[j] = pc[j] /\ turn'[j] = turn[j]
    BY <2>1, GotoFrame DEF TypeInv, ProcessOK
  <2>3. turn'[i].overall = 0
    BY <2>1 DEF TypeInv, ProcessOK, NoTurn
  <2> QED BY <2>1, <2>2, <2>3, LimitAssumption DEF RoomInv, RoomOK, Others, SameProcess
<1>2. CASE ~Single(i)
  BY <1>2, ReturnRoom DEF Result
<1> QED BY <1>1, <1>2

LEMMA MovesRoom ==
    ASSUME TypeInv, RoomInv, NEW i \in Invocations, NEW label \in Label \ {"turn"}, Goto(i, label),
           NEW v, Room(v), v.status = "running" \/ label \notin {"earlysave", "giveup", "cbsave", "heartbeat"},
           snap' = [snap EXCEPT ![i] = v], UNCHANGED <<call, turn>>
    PROVE  Others(i) /\ RoomOK(i)'
<1>1. pc'[i] = label /\ \A j \in Invocations \ {i} : pc'[j] = pc[j]
  BY GotoFrame
<1>2. snap'[i] = v /\ \A j \in Invocations \ {i} : snap'[j] = snap[j]
  BY DEF TypeInv, ProcessOK
<1> QED BY <1>1, <1>2 DEF RoomInv, RoomOK, Others, SameProcess

LEMMA RoomWorker ==
    ASSUME TypeInv, RoomInv, NEW i \in Invocations, Worker(i) \/ Callback(i)
    PROVE  RoomInv'
<1>0. /\ snap \in [Invocations -> Checkpoint] /\ snap[i] \in Checkpoint /\ RoomOK(i) /\ Room(cp)
      /\ snap = [snap EXCEPT ![i] = snap[i]]
  BY DEF TypeInv, ProcessOK, RoomInv
<1>1. CASE EarlyLoad(i) \/ WorkerLoad(i) \/ CallbackLoad(i) \/ Reload(i)
  <2>1. PICK v \in {cp, NoCheckpoint} : /\ Load(v)
          /\ \/ Return(i)
             \/ \E label \in {"earlysave", "load", "heartbeat", "cbsave", "giveup", "publish"} :
                  /\ Goto(i, label) /\ snap' = [snap EXCEPT ![i] = v] /\ UNCHANGED <<call, turn>>
                  /\ v.status = "running" \/ label = "load"
    BY <1>1 DEF EarlyLoad, WorkerLoad, CallbackLoad, Reload, Describes
  <2>2. Others(i) /\ RoomOK(i)'
    BY <2>1, RoomRead, ReturnRoom, MovesRoom DEF Label
  <2>3. UNCHANGED cp
    BY <1>1 DEF EarlyLoad, WorkerLoad, CallbackLoad, Reload
  <2> QED BY <1>0, <2>2, <2>3, RoomOne
<1>2. CASE EarlySave(i) \/ GiveUp(i) \/ CallbackSave(i)
  <2>1. Save(FailedAt(snap[i].steps)) /\ Return(i) /\ snap[i].status = "running"
    BY <1>0, <1>2 DEF EarlySave, GiveUp, CallbackSave, At, RoomOK
  <2>2. Room(cp')
    BY <1>0, <2>1, RoomOfFailed, RoomWritten DEF RoomOK
  <2> QED BY <2>1, <2>2, ReturnRoom, RoomOne
<1>3. CASE Heartbeat(i)
  <2>1. /\ Save([snap[i] EXCEPT !.started = TRUE]) /\ Goto(i, "resume") /\ UNCHANGED <<call, snap, turn>>
    BY <1>3 DEF Heartbeat
  <2>2. Room([snap[i] EXCEPT !.started = TRUE])
    BY <1>0 DEF RoomOK, Room, Ceiling, Checkpoint
  <2>3. Room(cp')
    BY <2>1, <2>2, RoomWritten
  <2>4. Others(i) /\ RoomOK(i)'
    BY <1>0, <2>1, MovesRoom DEF RoomOK, Label
  <2> QED BY <2>3, <2>4, RoomOne
<1>4. CASE Rechain(i)
  <2>1. UNCHANGED cp
    BY <1>4 DEF Rechain
  <2>2. Return(i) \/ (Goto(i, "respond") /\ UNCHANGED <<call, snap, turn>>)
    BY <1>4 DEF Rechain
  <2>3. Others(i) /\ RoomOK(i)'
    BY <1>0, <2>2, ReturnRoom, MovesRoom DEF RoomOK, Label
  <2> QED BY <1>0, <2>1, <2>3, RoomOne
<1>5. CASE Respond(i)
  BY <1>0, <1>5, ReturnRoom, RoomOne DEF Respond
<1> QED BY <1>1, <1>2, <1>3, <1>4, <1>5 DEF Worker, Callback

\* The bounds runInvestigation sets itself leave room for the step it is about to take.
LEMMA RoomBounds ==
    ASSUME TypeInv, NEW i \in Invocations, RoomOK(i), pc[i] = "resume", NEW v \in Checkpoint, Room(v),
           v.status = "running" \/ (v.status = "failed" /\ WithinDefault),
           Bounds(i, v).step <= Bounds(i, v).capped
    PROVE  /\ Bounds(i, v).step <= Bounds(i, v).overall
           /\ WithinDefault => Bounds(i, v).overall <= DefaultMaxSteps
<1>1. CASE Single(i)
  <2>1. Bounds(i, v).step = v.steps + 1 /\ Bounds(i, v).overall = Ceiling(v)
    BY <1>1 DEF Bounds, Ceiling
  <2> QED BY <2>1, LimitAssumption DEF Room, Ceiling, Checkpoint
<1>2. CASE ~Single(i)
  <2>1. call[i].role = "poll" /\ call[i].limit \in Nat
    BY <1>2 DEF TypeInv, ProcessOK, RoleOK, Single, Call
  <2>2. Bounds(i, v).capped = MaxSteps(call[i].limit) /\ Bounds(i, v).overall = MaxSteps(call[i].limit)
    BY <1>2 DEF Bounds
  <2>3. WithinDefault => MaxSteps(call[i].limit) <= DefaultMaxSteps
    <3> SUFFICES ASSUME WithinDefault PROVE MaxSteps(call[i].limit) <= DefaultMaxSteps
      OBVIOUS
    <3>1. call[i].limit \in 0 .. DefaultMaxSteps
      BY <2>1 DEF RoomOK, WithinDefault
    <3> QED BY <3>1, LimitAssumption DEF MaxSteps, Smaller
  <2> QED BY <2>2, <2>3
<1> QED BY <1>1, <1>2

LEMMA RoomInvestigation ==
    ASSUME TypeInv, RoomInv, NEW i \in Invocations, Investigation(i),
           WithinDefault \/ (pc[i] = "resume" => cp.status = "running")
    PROVE  RoomInv'
<1>0. /\ turn \in [Invocations -> Turn] /\ turn[i] \in Turn /\ RoomOK(i) /\ Room(cp) /\ cp \in Checkpoint
  BY DEF TypeInv, ProcessOK, StoreOK, RoomInv
<1>1. CASE Resume(i)
  <2>1. PICK v \in {cp, NoCheckpoint} : /\ Load(v)
          /\ \/ \E s : Result(i, s)
             \/ /\ v.status \in {"running", "failed"} /\ Bounds(i, v).step <= Bounds(i, v).capped
                /\ turn' = [turn EXCEPT ![i] = Bounds(i, v)] /\ Goto(i, "turn") /\ UNCHANGED <<call, snap>>
    BY <1>1 DEF Resume
  <2>2. UNCHANGED cp /\ pc[i] = "resume"
    BY <1>1 DEF Resume, At
  <2>3. CASE \E s : Result(i, s)
    BY <1>0, <2>2, <2>3, ResultRoom, RoomOne
  <2>4. CASE ~\E s : Result(i, s)
    <3>1. /\ Bounds(i, v).step <= Bounds(i, v).overall
          /\ WithinDefault => Bounds(i, v).overall <= DefaultMaxSteps
      <4>1. v \in Checkpoint /\ Room(v) /\ (v.status = "running" \/ (v.status = "failed" /\ WithinDefault))
        BY <1>0, <2>1, <2>2, <2>4, RoomRead, RecordFields, CheckpointTypes
      <4> QED BY <1>0, <2>1, <2>2, <2>4, <4>1, RoomBounds
    <3>2. pc'[i] = "turn" /\ \A j \in Invocations \ {i} : pc'[j] = pc[j] /\ turn'[j] = turn[j]
      BY <2>1, <2>4, GotoFrame DEF TypeInv, ProcessOK
    <3>3. turn'[i] = Bounds(i, v) /\ UNCHANGED <<call, snap>>
      BY <1>0, <2>1, <2>4
    <3>4. Others(i) /\ RoomOK(i)'
      BY <1>0, <3>1, <3>2, <3>3 DEF Others, SameProcess, RoomOK
    <3> QED BY <1>0, <2>2, <3>4, RoomOne
  <2> QED BY <2>3, <2>4
<1>2. ASSUME pc[i] = "turn"
      PROVE  /\ turn[i].step >= 1 /\ turn[i].step \in Nat /\ turn[i].overall \in Nat
             /\ turn[i].step <= turn[i].overall
             /\ WithinDefault => turn[i].overall <= DefaultMaxSteps
  BY <1>0, <1>2 DEF TypeInv, ProcessOK, RoleOK, RoomOK, Turn
<1>3. CASE TurnFails(i)
  <2>1. /\ Save(RunningAt(turn[i].step - 1, turn[i].overall)) /\ Result(i, turn[i].step - 1)
        /\ pc[i] = "turn"
    BY <1>3 DEF TurnFails, At
  <2>2. Room(RunningAt(turn[i].step - 1, turn[i].overall))
    BY <1>2, <2>1, RoomOfRecords
  <2> QED BY <2>1, <2>2, RoomWritten, ResultRoom, RoomOne
<1>4. CASE TurnAdvances(i)
  <2>1. /\ Save(RunningAt(turn[i].step, turn[i].overall)) /\ pc[i] = "turn" /\ ~IsFinalStep(turn[i])
        /\ \/ turn' = [turn EXCEPT ![i].step = @ + 1] /\ UNCHANGED <<pc, call, snap>>
           \/ Result(i, turn[i].capped)
           \/ Goto(i, "hardcap") /\ UNCHANGED <<call, snap, turn>>
    BY <1>4 DEF TurnAdvances, At
  <2>2. turn[i].step < turn[i].overall
    BY <1>2, <2>1 DEF IsFinalStep
  <2>3. Room(cp')
    BY <1>2, <2>1, <2>2, RoomOfRecords, RoomWritten
  <2>4. Others(i) /\ RoomOK(i)'
    <3>1. CASE turn' = [turn EXCEPT ![i].step = @ + 1] /\ UNCHANGED <<pc, call, snap>>
      <4>1. turn'[i].step = turn[i].step + 1 /\ turn'[i].overall = turn[i].overall
            /\ \A j \in Invocations \ {i} : turn'[j] = turn[j]
        BY <1>0, <3>1 DEF Turn
      <4>2. turn'[i].step <= turn'[i].overall
        BY <1>2, <2>1, <2>2, <4>1
      <4>3. Others(i)
        BY <3>1, <4>1 DEF Others, SameProcess
      <4>4. pc'[i] = pc[i] /\ snap'[i] = snap[i] /\ call'[i] = call[i]
        BY <3>1
      <4>5. RoomOK(i)'
        BY <1>0, <4>1, <4>2, <4>4 DEF RoomOK
      <4> QED BY <4>3, <4>5
    <3>2. CASE Goto(i, "hardcap") /\ UNCHANGED <<call, snap, turn>>
      <4>1. snap' = [snap EXCEPT ![i] = snap[i]]
        BY <3>2 DEF TypeInv, ProcessOK
      <4>2. Room(snap[i]) /\ UNCHANGED <<call, turn>> /\ Goto(i, "hardcap")
            /\ "hardcap" \in Label \ {"turn"} /\ "hardcap" \notin {"earlysave", "giveup", "cbsave", "heartbeat"}
        BY <1>0, <3>2 DEF RoomOK, Label
      <4> QED BY <4>1, <4>2, MovesRoom
    <3> QED BY <2>1, <3>1, <3>2, ResultRoom
  <2> QED BY <2>3, <2>4, RoomOne
<1>5. CASE TurnFinishes(i) \/ HardCap(i)
  <2>1. PICK s \in Nat : Save(DoneAt(s, turn[i].overall)) /\ Result(i, s)
    BY <1>0, <1>5 DEF TurnFinishes, HardCap, Turn
  <2>2. Room(DoneAt(s, turn[i].overall))
    <3>1. DoneAt(s, turn[i].overall).status = "done" /\ DoneAt(s, turn[i].overall).overall = turn[i].overall
      BY DEF DoneAt, RunningAt
    <3> QED BY <1>0, <3>1 DEF Room, RoomOK
  <2> QED BY <2>1, <2>2, RoomWritten, ResultRoom, RoomOne
<1> QED BY <1>1, <1>3, <1>4, <1>5 DEF Investigation, Answers

LEMMA RoomNext ==
    ASSUME TypeInv, RoomInv, [Next]_vars,
           WithinDefault \/ \A i \in Invocations : pc[i] = "resume" => cp.status = "running"
    PROVE  RoomInv'
<1>1. CASE StartCall
  <2>1. CASE PublishStart
    BY <2>1 DEF PublishStart, RoomInv, RoomOK
  <2>2. CASE ~PublishStart
    <3>1. PICK m \in StartLimits : SeedRun(m)
      BY <1>1, <2>2 DEF StartCall
    <3>2. Smaller(m, HardMaxSteps) \in Nat \ {0}
          /\ (WithinDefault => Smaller(m, HardMaxSteps) <= DefaultMaxSteps)
      BY LimitAssumption DEF Smaller, WithinDefault
    <3>3. Room(cp')
      BY <3>1, <3>2, RoomOfRecords, RoomWritten DEF SeedRun
    <3> QED BY <3>1, <3>3 DEF SeedRun, RoomInv, RoomOK
  <2> QED BY <2>1, <2>2
<1>2. CASE Delivery \/ PollCall
  <2> SUFFICES ASSUME NEW i \in Invocations, NEW c, NEW label \in {"cbload", "earlyload", "load", "resume"},
                      Begin(i, c, label), c.role = "poll" => c.limit \in PollLimits,
                      UNCHANGED <<cp, snap, turn>>
               PROVE  RoomInv'
    <3>1. ASSUME NEW i \in Invocations, NEW m \in queue, Deliver(i, m) PROVE RoomInv'
      <4> DEFINE c == [role |-> "worker", msg |-> m, held |-> TRUE]
      <4>1. Begin(i, c, FirstLabel(m)) /\ UNCHANGED <<cp, snap, turn>> /\ c.role # "poll"
        BY <3>1 DEF Deliver
      <4>2. FirstLabel(m) \in {"cbload", "earlyload", "load", "resume"}
        BY DEF FirstLabel
      <4> QED BY <4>1, <4>2
    <3>2. ASSUME NEW i \in Invocations, NEW l \in PollLimits, Poll(i, l) PROVE RoomInv'
      <4> DEFINE c == [role |-> "poll", limit |-> l]
      <4>1. Begin(i, c, "resume") /\ UNCHANGED <<cp, snap, turn>> /\ c.limit = l
        BY <3>2 DEF Poll
      <4> QED BY <4>1
    <3> QED BY <1>2, <3>1, <3>2 DEF Delivery, PollCall
  <2>3. pc'[i] = label /\ call'[i] = c /\ \A j \in Invocations \ {i} : pc'[j] = pc[j] /\ call'[j] = call[j]
    BY GotoFrame DEF Begin, TypeInv, ProcessOK
  <2>4. Others(i) /\ RoomOK(i)' /\ Room(cp')
    BY <2>3 DEF Others, SameProcess, RoomInv, RoomOK
  <2> QED BY <2>4, RoomOne
<1>3. ASSUME NEW i \in Invocations, Handler(i) PROVE RoomInv'
  BY <1>3, RoomWorker, RoomInvestigation DEF Handler
<1>4. ASSUME NEW i \in Invocations, Kill(i) PROVE RoomInv'
  <2>1. Room(cp')
    BY <1>4 DEF Kill, RoomInv
  <2> QED BY <1>4, <2>1, ReturnRoom, RoomOne DEF Kill
<1>5. ASSUME NEW i \in Invocations, Disconnect(i) PROVE RoomInv'
  <2>1. UNCHANGED <<cp, pc, snap, turn>> /\ call' = [call EXCEPT ![i].held = FALSE]
    BY <1>5 DEF Disconnect
  <2>2. \A j \in Invocations : call'[j].role = call[j].role /\ (call[j].role = "poll" => call'[j] = call[j])
    BY <1>5, <2>1 DEF Disconnect, Holds, TypeInv, ProcessOK, Call
  <2> QED BY <2>1, <2>2 DEF RoomInv, RoomOK
<1>6. CASE Expire
  BY <1>6, RoomOfRecords DEF Expire, RoomInv, RoomOK
<1>7. CASE StoreOutage \/ Tick \/ UNCHANGED vars
  BY <1>7 DEF StoreOutage, Tick, vars, RoomInv, RoomOK
<1> QED BY <1>1, <1>2, <1>3, <1>4, <1>5, <1>6, <1>7 DEF Next, Platform

LEMMA RoomInit == Init => RoomInv
BY RoomOfRecords, LimitAssumption DEF Init, RoomInv, RoomOK, NoTurn, NoCall

\* A running record has its answering step ahead of it, so the loop that compares a step with the
\* budget reaches it: under every hazard where callers ask for no more than the default, and with
\* any limits where the chain is serial.
THEOREM AnswerAhead ==
    ASSUME WithinDefault \/ SerialRun
    PROVE  Spec => []RunningHasBudget
<1>1. RoomInv => RunningHasBudget
  BY DEF RoomInv, Room, Ceiling, RunningHasBudget
<1>2. CASE WithinDefault
  <2>1. TypeInv /\ RoomInv /\ [Next]_vars => RoomInv'
    BY <1>2, RoomNext
  <2> QED BY <1>1, <2>1, RoomInit, TypeInvariant, PTL DEF Spec
<1>3. CASE SerialRun
  <2>1. Init => TokenInv /\ LifeInv
    BY DEF Init, TokenInv, Working, LifeInv, Agrees, NoCall
  <2>2. TypeInv /\ TokenInv /\ [Next]_vars => TokenInv'
    BY <1>3, TokenNext DEF SerialRun
  <2>3. TypeInv /\ TokenInv /\ LifeInv /\ [Next]_vars => LifeInv'
    BY <1>3, LifeNext
  <2>4. TypeInv /\ LifeInv /\ RoomInv /\ [Next]_vars => RoomInv'
    BY RoomNext DEF LifeInv, Agrees
  <2> QED BY <1>1, <2>1, <2>2, <2>3, <2>4, RoomInit, TypeInvariant, PTL DEF Spec
<1> QED BY <1>2, <1>3

-----------------------------------------------------------------------------
(* Driven.  A running record is driven by a message that names the step on   *)
(* record, by a process that is about to find such a message fresh, or by    *)
(* one that has found it fresh and not yet handed the run on.                *)

Fetching == {"earlyload", "load", "cbload"}
Engaged == {"earlysave", "heartbeat", "resume", "turn", "hardcap", "reload", "giveup", "cbsave"}

Drives(i) ==
    \/ pc[i] \in Engaged
    \/ pc[i] = "publish" /\ snap[i].steps = cp.steps
    \/ pc[i] \in Fetching /\ call[i].msg.after = cp.steps

MessageDrives == \E m \in queue : m.after = cp.steps

DriveInv ==
    /\ spent["outage"] = 0
    /\ \A i \in Invocations : call[i].role # "poll"
    /\ start = "new" => cp.status = "none"
    /\ start # "done" =>
         /\ cp.status = "running" => cp.steps = 0
         /\ queue = {} /\ \A i \in Invocations : ~Active(i)
    /\ start = "done" /\ cp.status = "running" =>
         MessageDrives \/ \E i \in Invocations : Drives(i)

\* No caller pushes, no process dies and no call fails: QStash may still repeat itself, give up
\* waiting for a response or lose it, and the record may expire.
Undisturbed ==
    /\ PollLimits = {}
    /\ \A h \in {"kill", "load", "save", "outage", "publish"} : Budget[h] = 0

LEMMA OnlyStrikes ==
    ASSUME [Next]_vars
    PROVE  UNCHANGED spent \/ \E h \in Hazards : Strike(h)
<1> USE DEF Hazards
<1>1. CASE StartCall \/ Delivery \/ PollCall \/ UNCHANGED vars
  BY <1>1 DEF StartCall, SeedRun, PublishStart, Save, Delivery, Deliver, PollCall, Poll, Load, vars
<1>2. ASSUME NEW i \in Invocations, Worker(i) \/ Callback(i)
      PROVE  UNCHANGED spent \/ \E h \in Hazards : Strike(h)
  BY <1>2 DEF Worker, Callback, EarlyLoad, EarlySave, WorkerLoad, Heartbeat, Reload, GiveUp, Rechain,
              Respond, CallbackLoad, CallbackSave, Load, Save
<1>3. ASSUME NEW i \in Invocations, Investigation(i)
      PROVE  UNCHANGED spent \/ \E h \in Hazards : Strike(h)
  BY <1>3 DEF Investigation, Answers, Resume, TurnFails, TurnAdvances, TurnFinishes, HardCap, Load, Save
<1>4. CASE Platform
  BY <1>4 DEF Platform, Kill, Disconnect, StoreOutage, Expire, Tick
<1> QED BY <1>1, <1>2, <1>3, <1>4 DEF Next, Handler

LEMMA NoOutage ==
    ASSUME Budget["outage"] = 0, TypeInv, spent["outage"] = 0, [Next]_vars
    PROVE  spent'["outage"] = 0
<1>1. CASE UNCHANGED spent
  BY <1>1
<1>2. ASSUME NEW h \in Hazards, Strike(h) PROVE spent'["outage"] = 0
  <2>1. h # "outage"
    BY <1>2, NeverStrikes DEF TypeInv, Hazards
  <2> QED BY <1>2, <2>1 DEF Strike, TypeInv, StoreOK
<1> QED BY <1>1, <1>2, OnlyStrikes

LEMMA FaithfulStore ==
    ASSUME Undisturbed, TypeInv, DriveInv
    PROVE  /\ \A v : Load(v) => v = cp
           /\ \A c : Save(c) => cp' = c
<1>1. ~Strike("load") /\ ~Strike("save")
  BY NeverStrikes DEF Undisturbed, TypeInv, Hazards
<1> QED BY <1>1 DEF Load, Save, DriveInv

\* One process steps: it drives the run afterwards, or a message does, or it did not before.
LEMMA DriveOne ==
    ASSUME TypeInv, DriveInv, spent'["outage"] = 0, NEW i \in Invocations, Active(i), Others(i),
           UNCHANGED start, queue \subseteq queue', call'[i].role # "poll",
           \/ cp'.status # "running"
           \/ Drives(i)'
           \/ MessageDrives'
           \/ cp' = cp /\ ~Drives(i)
    PROVE  DriveInv'
<1>1. start = "done" /\ start' = "done"
  BY DEF DriveInv, TypeInv, StartOK
<1>2. \A j \in Invocations : call'[j].role # "poll"
  BY DEF DriveInv, Others, SameProcess
<1>3. ASSUME cp' = cp, ~Drives(i), cp.status = "running"
      PROVE  MessageDrives' \/ \E j \in Invocations : Drives(j)'
  <2>1. CASE MessageDrives
    BY <1>3, <2>1 DEF MessageDrives
  <2>2. CASE \E j \in Invocations : Drives(j)
    <3>1. PICK j \in Invocations : Drives(j) /\ j # i
      BY <1>3, <2>2
    <3>2. Drives(j)'
      BY <1>3, <3>1 DEF Others, SameProcess, Drives
    <3> QED BY <3>2
  <2> QED BY <1>1, <1>3, <2>1, <2>2 DEF DriveInv
<1> QED BY <1>1, <1>2, <1>3 DEF DriveInv

LEMMA OthersKept ==
    ASSUME TypeInv, NEW i \in Invocations, Handler(i)
    PROVE  Others(i) /\ UNCHANGED start /\ call'[i] \in {call[i], NoCall} /\ Active(i)
<1>1. \/ UNCHANGED snap
      \/ \E v : snap' = [snap EXCEPT ![i] = v]
  <2>1. CASE Worker(i) \/ Callback(i)
    BY <2>1 DEF Worker, Callback, EarlyLoad, EarlySave, WorkerLoad, Heartbeat, Reload, GiveUp, Rechain,
                Respond, CallbackLoad, CallbackSave, Return
  <2>2. CASE Investigation(i)
    BY <2>2 DEF Investigation, Answers, Resume, TurnFails, TurnAdvances, TurnFinishes, HardCap, Result, Return
  <2> QED BY <2>1, <2>2 DEF Handler
<1>2. \A j \in Invocations \ {i} : snap'[j] = snap[j]
  BY <1>1 DEF TypeInv, ProcessOK
<1>3. /\ \A j \in Invocations \ {i} : SameProcess(j)
      /\ UNCHANGED start /\ call'[i] \in {call[i], NoCall} /\ Active(i)
  <2>1. CASE Quiet(i)
    BY <2>1 DEF Quiet, Active
  <2>2. CASE Rechain(i)
    BY <2>2, RechainFrame DEF Active
  <2>3. CASE Respond(i)
    BY <2>3, ReturnFrame DEF Respond, Active, At
  <2> QED BY <2>1, <2>2, <2>3, QuietWorker, QuietInvestigation DEF Handler
<1> QED BY <1>2, <1>3 DEF Others

LEMMA DriveWorker ==
    ASSUME Undisturbed, TypeInv, DriveInv, NEW i \in Invocations, Worker(i) \/ Callback(i)
    PROVE  /\ queue \subseteq queue'
           /\ \/ cp'.status # "running"
              \/ Drives(i)'
              \/ MessageDrives'
              \/ cp' = cp /\ ~Drives(i)
<1> USE DEF Drives, Engaged, Fetching
<1>0. snap \in [Invocations -> Checkpoint] /\ snap[i] \in Checkpoint
  BY DEF TypeInv, ProcessOK
<1>1. CASE EarlyLoad(i)
  <2>1. Load(cp) /\ cp' = cp /\ queue' = queue /\ call' = call /\ At(i, "earlyload")
        /\ snap' = [snap EXCEPT ![i] = cp]
        /\ Goto(i, IF Describes(cp, call[i].msg) THEN "earlysave" ELSE "load")
    BY <1>1, FaithfulStore DEF EarlyLoad
  <2>2. pc'[i] = IF Describes(cp, call[i].msg) THEN "earlysave" ELSE "load"
    BY <2>1, GotoFrame
  <2> QED BY <2>1, <2>2 DEF At
<1>2. CASE EarlySave(i) \/ GiveUp(i) \/ CallbackSave(i)
  <2>1. Save(FailedAt(snap[i].steps)) /\ queue' = queue
    BY <1>2 DEF EarlySave, GiveUp, CallbackSave
  <2> QED BY <2>1, FaithfulStore, RecordFields
<1>3. CASE WorkerLoad(i) \/ CallbackLoad(i)
  <2>1. /\ cp' = cp /\ queue' = queue /\ pc[i] \in Fetching
        /\ Describes(cp, call[i].msg) => Goto(i, "heartbeat") \/ Goto(i, "cbsave")
    BY <1>3, FaithfulStore DEF WorkerLoad, CallbackLoad, At
  <2>2. CASE Describes(cp, call[i].msg)
    BY <2>1, <2>2, GotoFrame
  <2>3. CASE ~Describes(cp, call[i].msg)
    BY <2>1, <2>3 DEF Describes
  <2> QED BY <2>1, <2>2, <2>3
<1>4. CASE Heartbeat(i)
  BY <1>4, GotoFrame DEF Heartbeat
<1>5. CASE Reload(i)
  <2>1. /\ cp' = cp /\ queue' = queue
        /\ cp.status = "running" => snap' = [snap EXCEPT ![i] = cp] /\ (Goto(i, "giveup") \/ Goto(i, "publish"))
    BY <1>5, FaithfulStore DEF Reload
  <2>2. CASE cp.status = "running"
    <3>1. snap'[i] = cp /\ (pc'[i] = "giveup" \/ pc'[i] = "publish")
      BY <1>0, <2>1, <2>2, GotoFrame
    <3> QED BY <2>1, <3>1
  <2> QED BY <2>1, <2>2
<1>6. CASE Rechain(i)
  <2>1. ~Strike("publish")
    BY NeverStrikes DEF Undisturbed, TypeInv, Hazards
  <2>2. cp' = cp /\ Publish(snap[i].steps, NewRetry(i)) /\ pc[i] = "publish"
    BY <1>6, <2>1 DEF Rechain, NextAfter, At
  <2>3. PICK id \in MessageIds : queue' = queue \cup {NewStep(id, snap[i].steps, NewRetry(i))}
    BY <2>2 DEF Publish
  <2>4. NewStep(id, snap[i].steps, NewRetry(i)).after = snap[i].steps
    BY DEF NewStep
  <2> QED BY <2>2, <2>3, <2>4 DEF MessageDrives
<1>7. CASE Respond(i)
  BY <1>7 DEF Respond, Requeue, At
<1> QED BY <1>1, <1>2, <1>3, <1>4, <1>5, <1>6, <1>7 DEF Worker, Callback

LEMMA DriveInvestigation ==
    ASSUME TypeInv, DriveInv, NEW i \in Invocations, Investigation(i)
    PROVE  queue' = queue /\ Drives(i)'
<1>0. Single(i)
  BY DEF TypeInv, ProcessOK, RoleOK, DriveInv, Investigation, Answers, Resume, TurnFails,
         TurnAdvances, TurnFinishes, HardCap, At, Single
<1>1. ASSUME NEW label \in {"turn", "hardcap", "reload"}, Goto(i, label) PROVE Drives(i)'
  BY <1>1, GotoFrame DEF Drives, Engaged
<1>2. ASSUME NEW steps, Result(i, steps) PROVE Drives(i)'
  BY <1>0, <1>1, <1>2 DEF Result
<1>3. CASE Resume(i)
  <2>1. UNCHANGED queue /\ (Goto(i, "turn") \/ \E s : Result(i, s))
    BY <1>3 DEF Resume
  <2> QED BY <1>1, <1>2, <2>1
<1>4. CASE TurnAdvances(i)
  <2>1. UNCHANGED queue /\ (Goto(i, "hardcap") \/ Result(i, turn[i].capped) \/ (UNCHANGED pc /\ pc[i] = "turn"))
    BY <1>4 DEF TurnAdvances, At
  <2> QED BY <1>1, <1>2, <2>1 DEF Drives, Engaged
<1>5. CASE TurnFails(i) \/ TurnFinishes(i) \/ HardCap(i)
  <2>1. UNCHANGED queue /\ \E s : Result(i, s)
    BY <1>5 DEF TurnFails, TurnFinishes, HardCap
  <2> QED BY <1>2, <2>1
<1> QED BY <1>3, <1>4, <1>5 DEF Investigation, Answers

LEMMA DriveNext ==
    ASSUME Undisturbed
    PROVE  TypeInv /\ DriveInv /\ [Next]_vars => DriveInv'
<1> SUFFICES ASSUME TypeInv, DriveInv, [Next]_vars PROVE DriveInv'
  OBVIOUS
<1>0. spent'["outage"] = 0
  BY NoOutage DEF DriveInv, Undisturbed
<1>1. CASE StartCall
  <2>1. CASE PublishStart
    <3>1. ~Strike("publish")
      BY NeverStrikes DEF Undisturbed, TypeInv, Hazards
    <3>2. /\ start = "publish" /\ start' = "done" /\ UNCHANGED <<cp, pc, call, snap>>
          /\ Publish(0, 0)
      BY <2>1, <3>1 DEF PublishStart
    <3>3. PICK id \in MessageIds : queue' = queue \cup {NewStep(id, 0, 0)}
      BY <3>2 DEF Publish
    <3>35. NewStep(id, 0, 0).after = 0
      BY DEF NewStep
    <3>4. cp'.status = "running" => MessageDrives'
      BY <3>2, <3>3, <3>35 DEF DriveInv, MessageDrives
    <3> QED BY <1>0, <3>2, <3>4 DEF DriveInv
  <2>2. CASE ~PublishStart
    <3>1. PICK m : SeedRun(m)
      BY <1>1, <2>2 DEF StartCall
    <3>2. start = "new" /\ start' = "publish" /\ UNCHANGED <<queue, pc, call>>
          /\ cp' = RunningAt(0, Smaller(m, HardMaxSteps))
      BY <3>1, FaithfulStore DEF SeedRun
    <3>3. cp'.steps = 0
      BY <3>2, RecordFields
    <3> QED BY <1>0, <3>2, <3>3 DEF DriveInv, Active
  <2> QED BY <2>1, <2>2
<1>2. ASSUME NEW i \in Invocations, NEW m \in queue, Deliver(i, m) PROVE DriveInv'
  <2>1. /\ start = "done" /\ UNCHANGED <<cp, start, snap>> /\ queue \ {m} \subseteq queue' /\ ~Active(i)
        /\ pc' = [pc EXCEPT ![i] = FirstLabel(m)]
        /\ call' = [call EXCEPT ![i] = [role |-> "worker", msg |-> m, held |-> TRUE]]
    BY <1>2 DEF Deliver, Begin, Goto, DriveInv
  <2>2. /\ \A j \in Invocations \ {i} : pc'[j] = pc[j] /\ call'[j] = call[j]
        /\ pc'[i] \in Fetching /\ call'[i].role = "worker" /\ call'[i].msg = m
    BY <2>1 DEF FirstLabel, Fetching, TypeInv, ProcessOK
  <2>3. cp.status = "running" => MessageDrives' \/ \E j \in Invocations : Drives(j)'
    <3>1. CASE m.after = cp.steps
      BY <2>1, <2>2, <3>1 DEF Drives
    <3>2. CASE m.after # cp.steps /\ MessageDrives
      BY <2>1, <3>2 DEF MessageDrives
    <3>3. ASSUME NEW j \in Invocations, Drives(j) PROVE Drives(j)'
      <4>1. j # i
        BY <2>1, <3>3 DEF Drives, Engaged, Fetching, Active
      <4> QED BY <2>1, <2>2, <3>3, <4>1 DEF Drives
    <3> QED BY <2>1, <3>1, <3>2, <3>3 DEF DriveInv
  <2> QED BY <1>0, <2>1, <2>2, <2>3 DEF DriveInv
<1>3. ASSUME NEW i \in Invocations, Handler(i) PROVE DriveInv'
  <2>1. /\ queue \subseteq queue'
        /\ \/ cp'.status # "running" \/ Drives(i)' \/ MessageDrives' \/ (cp' = cp /\ ~Drives(i))
    BY <1>3, DriveWorker, DriveInvestigation DEF Handler
  <2>2. call'[i].role # "poll"
    BY <1>3, OthersKept DEF DriveInv, NoCall
  <2> QED BY <1>0, <1>3, <2>1, <2>2, OthersKept, DriveOne
<1>4. \A i \in Invocations : ~Kill(i)
  BY NeverStrikes DEF Kill, Undisturbed, TypeInv, Hazards
<1>5. ASSUME NEW i \in Invocations, Disconnect(i) PROVE DriveInv'
  <2>1. /\ UNCHANGED <<cp, start, pc, snap>> /\ queue \subseteq queue' /\ Active(i)
        /\ call' = [call EXCEPT ![i].held = FALSE]
    BY <1>5 DEF Disconnect, Requeue
  <2>2. \A j \in Invocations : call'[j].role = call[j].role /\ call'[j].msg = call[j].msg
    BY <1>5, <2>1 DEF Disconnect, Holds, TypeInv, ProcessOK, Call
  <2>3. \A j \in Invocations : Drives(j) => Drives(j)'
    BY <2>1, <2>2 DEF Drives
  <2>4. MessageDrives => MessageDrives'
    BY <2>1 DEF MessageDrives
  <2>5. start = "done"
    BY <2>1 DEF DriveInv
  <2> QED BY <1>0, <2>1, <2>2, <2>3, <2>4, <2>5 DEF DriveInv
<1>6. CASE Expire
  <2>1. UNCHANGED <<start, queue, pc, call>> /\ cp'.status = "none"
    BY <1>6, RecordFields DEF Expire
  <2> QED BY <1>0, <2>1 DEF DriveInv, Active
<1>7. CASE StoreOutage \/ Tick \/ UNCHANGED vars
  <2>1. UNCHANGED <<cp, start, queue, pc, call, snap>>
    BY <1>7 DEF StoreOutage, Tick, vars
  <2> QED BY <1>0, <2>1 DEF DriveInv, MessageDrives, Drives, Active
<1>8. ~PollCall
  BY DEF PollCall, Undisturbed
<1> QED BY <1>1, <1>2, <1>3, <1>4, <1>5, <1>6, <1>7, <1>8 DEF Next, Platform, Delivery

\* The chain of a run goes on.  Where no process dies, no call fails and no caller pushes, a running
\* record is driven, however often QStash repeats a message, gives up a delivery that is being
\* handled or loses its response, and wherever the record expires; and where callers ask for no more
\* than the default, its answering step is ahead.
THEOREM ChainGoesOn ==
    ASSUME Undisturbed, WithinDefault
    PROVE  Spec => []ChainMoves
<1>1. Init => DriveInv
  BY RecordFields DEF Init, DriveInv, NoCall, Active, Hazards
<1>2. DriveInv => Driven
  BY DEF DriveInv, Driven, MessageDrives, Drives, Engaged, Fetching, Active
<1>3. TypeInv /\ DriveInv /\ [Next]_vars => DriveInv'
  BY DriveNext
<1>4. Spec => []RunningHasBudget
  BY AnswerAhead
<1> QED BY <1>1, <1>2, <1>3, <1>4, TypeInvariant, PTL DEF Spec, ChainMoves

-----------------------------------------------------------------------------
(* RetriesBounded.  Where the chain is serial, the failure counter that      *)
(* travels with the messages counts what the record has seen: a turn that    *)
(* does not move the recorded step adds one to the counter of the message    *)
(* that asks for it again.  With retries of QStash's own a killed turn would *)
(* be asked for with a counter that is not raised; QSTASH_STEP_RETRIES is 0  *)
(* unless it is configured.                                                  *)

Dependable ==
    /\ SerialRun /\ StepRetries = 0
    /\ Budget["save"] = 0 /\ Budget["outage"] = 0

AttemptOK(i) ==
    /\ pc[i] \in {"earlyload", "load", "heartbeat", "resume"} =>
            attempts <= EffectiveRetry(call[i].msg)
    /\ pc[i] \in {"heartbeat", "resume"} => snap[i].steps = call[i].msg.after
    /\ pc[i] \in {"heartbeat", "resume", "turn"} => cp.steps = call[i].msg.after
    /\ pc[i] = "turn" => attempts <= EffectiveRetry(call[i].msg) + 1
    /\ pc[i] = "hardcap" => attempts = 0
    /\ pc[i] \in {"reload", "publish"} => attempts <= NewRetry(i)

AttemptInv ==
    /\ spent["outage"] = 0
    /\ attempts <= MaxFailures
    /\ start # "done" => attempts = 0
    /\ \A m \in queue : m.kind = "step" => attempts <= m.retry
    /\ \A i \in Invocations : AttemptOK(i)

LEMMA FaithfulWrites ==
    ASSUME Dependable, TypeInv, AttemptInv, NEW c, Save(c)
    PROVE  cp' = c /\ attempts' = IF c.steps = cp.steps THEN attempts ELSE 0
<1>1. ~Strike("save")
  BY NeverStrikes DEF Dependable, TypeInv, Hazards
<1> QED BY <1>1 DEF Save, AttemptInv

\* What a process serves: a message whose counter has not reached the limit.
LEMMA CounterBounds ==
    ASSUME Dependable, TypeInv, RetryInv, NEW i \in Invocations, call[i].role = "worker"
    PROVE  /\ call[i].msg \in Message /\ EffectiveRetry(call[i].msg) \in Nat
           /\ EffectiveRetry(call[i].msg) + 1 <= MaxFailures
           /\ NewRetry(i) \in {0, EffectiveRetry(call[i].msg) + 1}
<1>1. call[i].msg \in Message /\ Bounded(call[i].msg)
  BY DEF TypeInv, ProcessOK, Call, RetryInv, RetryOK
<1>2. EffectiveRetry(call[i].msg) \in Nat /\ EffectiveRetry(call[i].msg) < MaxFailures
  BY <1>1, RetryAssumption DEF Bounded, Dependable, EffectiveRetry, Larger, Message
<1> QED BY <1>1, <1>2, RetryAssumption DEF NewRetry

\* The holder of the token steps; the others have nothing in hand.
LEMMA AttemptOne ==
    ASSUME TypeInv, TokenInv, AttemptInv, spent'["outage"] = 0, NEW i \in Invocations, Working(i), Others(i),
           UNCHANGED start, attempts' <= MaxFailures, AttemptOK(i)',
           \A m \in queue' : m.kind = "step" => attempts' <= m.retry
    PROVE  AttemptInv'
<1>1. \A j \in Invocations \ {i} : pc'[j] \in {"idle", "respond"}
  BY DEF TokenInv, Working, Others, SameProcess
<1>2. \A j \in Invocations \ {i} : AttemptOK(j)'
  BY <1>1 DEF AttemptOK
<1>3. start = "done"
  BY DEF TokenInv, TypeInv, StartOK
<1> QED BY <1>2, <1>3 DEF AttemptInv

LEMMA ReturnAttempt ==
    ASSUME TypeInv, NEW i \in Invocations, Return(i)
    PROVE  AttemptOK(i)'
BY ReturnFrame DEF AttemptOK

\* Back in the worker with the steps the investigation reports.
LEMMA ResultAttempt ==
    ASSUME Dependable, TypeInv, RetryInv, NEW i \in Invocations, call[i].role = "worker",
           NEW steps, Result(i, steps), attempts' \in Nat,
           attempts' = 0 \/ (~(steps > call[i].msg.after) /\ attempts' <= EffectiveRetry(call[i].msg) + 1)
    PROVE  AttemptOK(i)'
<1>1. /\ turn' = [turn EXCEPT ![i] = [NoTurn EXCEPT !.step = steps]]
      /\ Goto(i, "reload") /\ UNCHANGED call
  BY DEF Result, Single
<1>2. pc'[i] = "reload" /\ turn'[i].step = steps
  BY <1>1, GotoFrame DEF TypeInv, ProcessOK, NoTurn
<1>3. NewRetry(i)' = IF steps > call[i].msg.after THEN 0 ELSE EffectiveRetry(call[i].msg) + 1
  BY <1>1, <1>2 DEF NewRetry, Advanced
<1>4. EffectiveRetry(call[i].msg) \in Nat
  BY CounterBounds
<1>5. attempts' <= NewRetry(i)'
  BY <1>3, <1>4
<1> QED BY <1>2, <1>5 DEF AttemptOK

LEMMA AttemptInvestigation ==
    ASSUME Dependable, TypeInv, RetryInv, LifeInv, AttemptInv, NEW i \in Invocations, Investigation(i)
    PROVE  AttemptOK(i)' /\ attempts' <= MaxFailures /\ UNCHANGED queue
<1>0. /\ call[i].role = "worker" /\ Single(i) /\ AttemptOK(i) /\ Agrees(i)
      /\ attempts \in Nat /\ attempts <= MaxFailures /\ cp \in Checkpoint /\ cp.steps \in Nat
  BY DEF TypeInv, ProcessOK, StoreOK, RoleOK, LifeInv, AttemptInv, Checkpoint, Investigation, Answers,
         Resume, TurnFails, TurnAdvances, TurnFinishes, HardCap, At, Single
<1>1. /\ call[i].msg.after \in Nat /\ EffectiveRetry(call[i].msg) \in Nat
      /\ EffectiveRetry(call[i].msg) + 1 <= MaxFailures
  BY <1>0, CounterBounds DEF Message
<1>2. CASE Resume(i)
  <2>0. attempts <= EffectiveRetry(call[i].msg) /\ snap[i].steps = call[i].msg.after
        /\ cp.steps = call[i].msg.after /\ UNCHANGED <<cp, queue>>
    BY <1>0, <1>2 DEF Resume, At, AttemptOK
  <2>1. PICK v \in {cp, NoCheckpoint} : /\ Load(v)
          /\ \/ /\ v.status \in {"running", "failed"} /\ Goto(i, "turn")
                /\ UNCHANGED call /\ attempts' = Smaller(attempts + 1, MaxFailures + 1)
             \/ Result(i, v.steps) /\ v.status # "none" /\ UNCHANGED attempts
             \/ Result(i, snap[i].steps) /\ UNCHANGED attempts
    BY <1>0, <1>2 DEF Resume
  <2>2. v.status # "none" => v.steps = call[i].msg.after
    BY <2>0, <2>1, RecordFields
  <2>3. ASSUME Result(i, call[i].msg.after), UNCHANGED attempts
        PROVE  AttemptOK(i)' /\ attempts' <= MaxFailures
    <3>1. attempts' \in Nat /\ attempts' <= EffectiveRetry(call[i].msg) + 1
          /\ ~(call[i].msg.after > call[i].msg.after)
      BY <1>0, <1>1, <2>0, <2>3
    <3> QED BY <1>0, <2>3, <3>1, ResultAttempt
  <2>4. ASSUME Goto(i, "turn"), UNCHANGED call, attempts' = Smaller(attempts + 1, MaxFailures + 1)
        PROVE  AttemptOK(i)' /\ attempts' <= MaxFailures
    <3>1. attempts' <= EffectiveRetry(call[i].msg) + 1 /\ attempts' <= MaxFailures
      BY <1>0, <1>1, <2>0, <2>4, RetryAssumption DEF Smaller
    <3>2. pc'[i] = "turn"
      BY <2>4, GotoFrame
    <3> QED BY <2>0, <2>4, <3>1, <3>2 DEF AttemptOK
  <2> QED BY <2>0, <2>1, <2>2, <2>3, <2>4
<1>3. ASSUME pc[i] = "turn"
      PROVE  /\ turn[i].step = cp.steps + 1 /\ turn[i].capped = turn[i].step
             /\ cp.steps = call[i].msg.after /\ attempts <= EffectiveRetry(call[i].msg) + 1
  BY <1>0, <1>3 DEF Agrees, AttemptOK
<1>4. CASE TurnFails(i)
  <2>1. Save(RunningAt(turn[i].step - 1, turn[i].overall)) /\ Result(i, turn[i].step - 1) /\ UNCHANGED queue
        /\ pc[i] = "turn"
    BY <1>4 DEF TurnFails, At
  <2>2. turn[i].step - 1 = cp.steps
    BY <1>0, <1>3, <2>1
  <2>3. attempts' = attempts
    BY <2>1, <2>2, FaithfulWrites, RecordFields
  <2>4. attempts' \in Nat /\ attempts' <= EffectiveRetry(call[i].msg) + 1
        /\ ~(turn[i].step - 1 > call[i].msg.after)
    BY <1>0, <1>1, <1>3, <2>1, <2>2, <2>3
  <2> QED BY <1>0, <2>1, <2>3, <2>4, ResultAttempt
<1>5. CASE TurnAdvances(i) \/ TurnFinishes(i)
  <2>1. /\ pc[i] = "turn" /\ UNCHANGED queue
        /\ Save(RunningAt(turn[i].step, turn[i].overall)) \/ Save(DoneAt(turn[i].step, turn[i].overall))
    BY <1>5 DEF TurnAdvances, TurnFinishes, At
  <2>2. turn[i].step # cp.steps
    BY <1>0, <1>3, <2>1
  <2>3. attempts' = 0
    BY <2>1, <2>2, FaithfulWrites, RecordFields
  <2>35. attempts' <= MaxFailures /\ ~(turn[i].step < turn[i].capped)
    BY <1>0, <1>3, <2>1, <2>3, RetryAssumption
  <2>4. Result(i, turn[i].step) \/ Result(i, turn[i].capped) \/ (Goto(i, "hardcap") /\ UNCHANGED call)
    BY <1>5, <2>35 DEF TurnAdvances, TurnFinishes
  <2>5. CASE Result(i, turn[i].step) \/ Result(i, turn[i].capped)
    BY <1>0, <2>1, <2>3, <2>35, <2>5, ResultAttempt
  <2>6. CASE Goto(i, "hardcap") /\ UNCHANGED call
    <3>1. pc'[i] = "hardcap"
      BY <2>6, GotoFrame
    <3> QED BY <1>0, <2>1, <2>3, <2>35, <3>1 DEF AttemptOK
  <2> QED BY <2>1, <2>35, <2>4, <2>5, <2>6
<1>6. CASE HardCap(i)
  <2>1. Save(DoneAt(turn[i].capped, turn[i].overall)) /\ Result(i, turn[i].capped) /\ UNCHANGED queue
        /\ attempts = 0
    BY <1>0, <1>6 DEF HardCap, At, AttemptOK
  <2>2. attempts' = 0
    BY <2>1, FaithfulWrites
  <2> QED BY <1>0, <2>1, <2>2, ResultAttempt
<1> QED BY <1>2, <1>4, <1>5, <1>6 DEF Investigation, Answers

LEMMA AttemptWorker ==
    ASSUME Dependable, TypeInv, TokenInv, RetryInv, AttemptInv, NEW i \in Invocations,
           Worker(i) \/ Callback(i), Working(i)
    PROVE  /\ AttemptOK(i)' /\ attempts' <= MaxFailures
           /\ \A m \in queue' : m.kind = "step" => attempts' <= m.retry
<1>0. /\ queue = {} /\ AttemptOK(i) /\ snap \in [Invocations -> Checkpoint] /\ snap[i] \in Checkpoint
      /\ attempts \in Nat /\ attempts <= MaxFailures
  BY DEF TypeInv, ProcessOK, StoreOK, TokenInv, AttemptInv
<1>1. CASE EarlyLoad(i)
  <2>1. UNCHANGED <<attempts, call, queue>> /\ pc[i] = "earlyload"
        /\ (Goto(i, "earlysave") \/ Goto(i, "load"))
    BY <1>1 DEF EarlyLoad, At
  <2>2. pc'[i] \in {"earlysave", "load"}
    BY <2>1, GotoFrame
  <2> QED BY <1>0, <2>1, <2>2 DEF AttemptOK
<1>2. CASE EarlySave(i) \/ GiveUp(i) \/ CallbackSave(i)
  <2>1. Save(FailedAt(snap[i].steps)) /\ Return(i) /\ UNCHANGED queue
    BY <1>2 DEF EarlySave, GiveUp, CallbackSave
  <2>2. attempts' \in {attempts, 0}
    BY <2>1, FaithfulWrites
  <2> QED BY <1>0, <2>1, <2>2, ReturnAttempt, RetryAssumption
<1>3. CASE WorkerLoad(i) \/ CallbackLoad(i)
  <2>1. PICK v \in {cp, NoCheckpoint} :
          /\ Load(v) /\ UNCHANGED <<attempts, cp, queue>>
          /\ \/ Return(i)
             \/ /\ Describes(v, call[i].msg) /\ snap' = [snap EXCEPT ![i] = v] /\ UNCHANGED call
                /\ Goto(i, "cbsave") \/ (Goto(i, "heartbeat") /\ pc[i] = "load")
    BY <1>3 DEF WorkerLoad, CallbackLoad, At
  <2>2. CASE Return(i)
    BY <1>0, <2>1, <2>2, ReturnAttempt
  <2>3. CASE ~Return(i)
    <3>1. v = cp /\ v.steps = call[i].msg.after
      BY <2>1, <2>3, RecordFields DEF Describes
    <3>2. snap'[i] = cp /\ (pc'[i] = "cbsave" \/ (pc'[i] = "heartbeat" /\ pc[i] = "load"))
      BY <1>0, <2>1, <2>3, <3>1, GotoFrame
    <3> QED BY <1>0, <2>1, <2>3, <3>1, <3>2 DEF AttemptOK
  <2> QED BY <2>2, <2>3
<1>4. CASE Heartbeat(i)
  <2>1. /\ Save([snap[i] EXCEPT !.started = TRUE]) /\ Goto(i, "resume") /\ UNCHANGED <<call, snap, queue>>
        /\ pc[i] = "heartbeat"
    BY <1>4 DEF Heartbeat, At
  <2>2. [snap[i] EXCEPT !.started = TRUE].steps = snap[i].steps
    BY <1>0 DEF Checkpoint
  <2>3. cp'.steps = call[i].msg.after /\ attempts' = attempts
    BY <1>0, <2>1, <2>2, FaithfulWrites DEF AttemptOK
  <2>4. pc'[i] = "resume"
    BY <2>1, GotoFrame
  <2> QED BY <1>0, <2>1, <2>3, <2>4 DEF AttemptOK
<1>5. CASE Reload(i)
  <2>1. /\ UNCHANGED <<attempts, queue>> /\ pc[i] = "reload"
        /\ \/ Return(i)
           \/ (Goto(i, "giveup") \/ Goto(i, "publish")) /\ UNCHANGED <<call, turn>>
    BY <1>5 DEF Reload, At
  <2>2. CASE Return(i)
    BY <1>0, <2>1, <2>2, ReturnAttempt
  <2>3. CASE ~Return(i)
    <3>1. pc'[i] \in {"giveup", "publish"} /\ UNCHANGED <<call, turn>>
      BY <2>1, <2>3, GotoFrame
    <3>2. NewRetry(i)' = NewRetry(i)
      BY <3>1 DEF NewRetry, Advanced
    <3> QED BY <1>0, <2>1, <3>1, <3>2 DEF AttemptOK
  <2> QED BY <2>2, <2>3
<1>6. CASE Rechain(i)
  <2>1. UNCHANGED attempts /\ attempts <= NewRetry(i)
    BY <1>0, <1>6 DEF Rechain, At, AttemptOK
  <2>2. pc'[i] \in {"respond", "idle"}
    BY <1>6, RechainFrame
  <2>3. UNCHANGED queue \/ \E id \in MessageIds : queue' = queue \cup {NewStep(id, NextAfter(i), NewRetry(i))}
    BY <1>6 DEF Rechain, Publish
  <2>4. \A id : NewStep(id, NextAfter(i), NewRetry(i)).retry = NewRetry(i)
    BY DEF NewStep
  <2> QED BY <1>0, <2>1, <2>2, <2>3, <2>4 DEF AttemptOK
<1>7. ~Respond(i)
  BY DEF Respond, At, Working
<1> QED BY <1>1, <1>2, <1>3, <1>4, <1>5, <1>6, <1>7 DEF Worker, Callback

LEMMA AttemptNext ==
    ASSUME Dependable
    PROVE  TypeInv /\ TokenInv /\ RetryInv /\ LifeInv /\ AttemptInv /\ [Next]_vars => AttemptInv'
<1> SUFFICES ASSUME TypeInv, TokenInv, RetryInv, LifeInv, AttemptInv, [Next]_vars PROVE AttemptInv'
  OBVIOUS
<1>0. spent'["outage"] = 0 /\ attempts \in Nat /\ attempts <= MaxFailures
  BY NoOutage DEF AttemptInv, Dependable, TypeInv, StoreOK
<1>1. CASE StartCall
  <2>0. attempts = 0 /\ queue = {} /\ \A i \in Invocations : pc[i] \in {"idle", "respond"}
    BY <1>1 DEF StartCall, PublishStart, SeedRun, AttemptInv, TokenInv, Working
  <2>1. UNCHANGED pc /\ attempts' = 0
    BY <1>1, <2>0, FaithfulWrites DEF StartCall, PublishStart, SeedRun
  <2>2. \A i \in Invocations : AttemptOK(i)'
    BY <2>0, <2>1 DEF AttemptOK
  <2>3. UNCHANGED queue \/ \E id \in MessageIds : queue' = queue \cup {NewStep(id, 0, 0)}
    BY <1>1 DEF StartCall, PublishStart, SeedRun, Publish
  <2>4. \A id : NewStep(id, 0, 0).retry = 0
    BY DEF NewStep
  <2>5. \A m \in queue' : attempts' <= m.retry
    BY <2>0, <2>1, <2>3, <2>4
  <2> QED BY <1>0, <2>1, <2>2, <2>5, RetryAssumption DEF AttemptInv
<1>2. ASSUME NEW i \in Invocations, NEW m \in queue, Deliver(i, m) PROVE AttemptInv'
  <2>1. /\ UNCHANGED <<attempts, start>> /\ queue' \subseteq queue
        /\ pc' = [pc EXCEPT ![i] = FirstLabel(m)]
        /\ call' = [call EXCEPT ![i] = [role |-> "worker", msg |-> m, held |-> TRUE]]
    BY <1>2 DEF Deliver, Begin, Goto
  <2>2. /\ \A j \in Invocations \ {i} : pc'[j] = pc[j]
        /\ pc'[i] = FirstLabel(m) /\ call'[i].msg = m
    BY <2>1 DEF TypeInv, ProcessOK
  <2>3. \A j \in Invocations \ {i} : pc'[j] \in {"idle", "respond"}
    BY <2>2 DEF TokenInv, Working
  <2>4. \A j \in Invocations \ {i} : AttemptOK(j)'
    BY <2>3 DEF AttemptOK
  <2>5. m \in Message /\ m.retry \in Nat /\ m.retried \in Nat
    BY DEF TypeInv, QueueOK, Message
  <2>6. m.kind = "step" => attempts <= EffectiveRetry(m)
    BY <1>0, <2>5 DEF AttemptInv, EffectiveRetry, Larger
  <2>7. pc'[i] \in {"cbload", "earlyload", "load"} /\ (m.kind # "step" => pc'[i] = "cbload")
    BY <2>2, <2>5 DEF FirstLabel, Message
  <2>8. AttemptOK(i)'
    BY <2>1, <2>2, <2>6, <2>7 DEF AttemptOK
  <2> QED BY <1>0, <2>1, <2>4, <2>8 DEF AttemptInv
<1>3. ASSUME NEW i \in Invocations, Handler(i), Working(i) PROVE AttemptInv'
  <2>1. /\ AttemptOK(i)' /\ attempts' <= MaxFailures
        /\ \A m \in queue' : m.kind = "step" => attempts' <= m.retry
    <3>1. CASE Worker(i) \/ Callback(i)
      BY <1>3, <3>1, AttemptWorker
    <3>2. CASE Investigation(i)
      BY <1>3, <3>2, AttemptInvestigation DEF TokenInv
    <3> QED BY <1>3, <3>1, <3>2 DEF Handler
  <2> QED BY <1>0, <1>3, <2>1, OthersKept, AttemptOne
<1>4. ASSUME NEW i \in Invocations, Respond(i) PROVE AttemptInv'
  <2>1. UNCHANGED <<cp, start, queue, attempts>>
    BY <1>4, NeverStrikes DEF Respond, Dependable, SerialRun, Serial, TypeInv, Hazards
  <2>2. AttemptOK(i)' /\ Others(i)
    BY <1>4, ReturnAttempt, ReturnKeeps DEF Respond, Keeps
  <2>3. \A j \in Invocations \ {i} : AttemptOK(j)'
    BY <2>1, <2>2 DEF AttemptInv, AttemptOK, Others, SameProcess, NewRetry, Advanced
  <2> QED BY <1>0, <2>1, <2>2, <2>3 DEF AttemptInv
<1>5. ASSUME NEW i \in Invocations, Handler(i), ~Working(i) PROVE AttemptInv'
  BY <1>4, <1>5, QuietWorker, QuietInvestigation, RechainFrame DEF Handler, Quiet, Working
<1>6. ASSUME NEW i \in Invocations, Kill(i) PROVE AttemptInv'
  <2>1. /\ UNCHANGED <<start, attempts>> /\ Return(i) /\ Working(i) /\ Requeue(i)
    BY <1>6 DEF Kill, Active, Working
  <2>2. queue = {}
    BY <2>1 DEF TokenInv
  <2>3. Holds(i) => Undelivered(call[i].msg).kind = "failure"
    <3> SUFFICES ASSUME Holds(i) PROVE Undelivered(call[i].msg).kind = "failure"
      OBVIOUS
    <3>1. call[i].msg \in Message /\ Bounded(call[i].msg)
      BY DEF Holds, TypeInv, ProcessOK, Call, RetryInv, RetryOK
    <3>2. ~(call[i].msg.retried < StepRetries)
      BY <3>1 DEF Dependable, Message
    <3> QED BY <3>1, <3>2 DEF Undelivered, Message
  <2>4. \A m \in queue' : m.kind = "step" => attempts' <= m.retry
    BY <2>1, <2>2, <2>3 DEF Requeue
  <2> QED BY <1>0, <2>1, <2>4, ReturnAttempt, ReturnKeeps, AttemptOne DEF Keeps
<1>7. \A i \in Invocations : ~Disconnect(i)
  BY NeverStrikes DEF Disconnect, Dependable, SerialRun, Serial, TypeInv, Hazards
<1>8. ~Expire /\ ~StoreOutage
  BY NeverStrikes DEF Expire, StoreOutage, Dependable, SerialRun, TypeInv, Hazards
<1>9. CASE Tick \/ UNCHANGED vars
  <2>1. UNCHANGED <<cp, start, queue, pc, call, snap, turn, attempts>>
    BY <1>9 DEF Tick, vars
  <2> QED BY <1>0, <2>1 DEF AttemptInv, AttemptOK, NewRetry, Advanced
<1>10. ~PollCall
  BY DEF PollCall, Dependable, SerialRun, Serial
<1> QED BY <1>1, <1>2, <1>3, <1>5, <1>6, <1>7, <1>8, <1>9, <1>10 DEF Next, Platform, Delivery

\* Where the chain is serial, the store keeps what it is given and QStash leaves retries to the
\* chain, workers execute a step at most MaxFailures times before the record moves, however often
\* providers, reads and publishes fail and processes die.
THEOREM AttemptsCorrect ==
    ASSUME Dependable
    PROVE  Spec => []RetriesBounded
<1>1. Init => TokenInv /\ LifeInv
  BY DEF Init, TokenInv, Working, LifeInv, Agrees, NoCall
<1>2. Init => RetryInv
  BY DEF Init, RetryInv, RetryOK, NoCall
<1>3. Init => AttemptInv
  BY RetryAssumption DEF Init, AttemptInv, AttemptOK, Hazards
<1>4. TypeInv /\ TokenInv /\ [Next]_vars => TokenInv'
  BY TokenNext DEF Dependable, SerialRun
<1>5. TypeInv /\ TokenInv /\ LifeInv /\ [Next]_vars => LifeInv'
  BY LifeNext DEF Dependable
<1>6. TypeInv /\ TokenInv /\ RetryInv /\ LifeInv /\ AttemptInv /\ [Next]_vars => AttemptInv'
  BY AttemptNext
<1>7. AttemptInv => AttemptsBounded
  BY DEF AttemptInv, AttemptsBounded
<1> QED BY <1>1, <1>2, <1>3, <1>4, <1>5, <1>6, <1>7, TypeInvariant, RetryNext, RetryCorrect, PTL
        DEF Spec, RetriesBounded

-----------------------------------------------------------------------------
(* PollSparesWorker.  A worker's heartbeat is on record before its turn      *)
(* begins, and the record grows no older than the worker.                    *)

KeepsRecords == Budget["load"] = 0 /\ Budget["save"] = 0 /\ Budget["outage"] = 0

BeatOK(i) ==
    /\ age[i] <= MaxLife
    /\ pc[i] \in {"resume", "turn"} /\ call[i].role = "worker" => idle <= age[i]
    /\ pc[i] = "heartbeat" => snap[i].status = "running"
    /\ ~Active(i) => call[i].role # "poll"

BeatInv ==
    /\ spent["outage"] = 0
    /\ cp.started => cp.status = "running"
    /\ \A i \in Invocations : BeatOK(i)

SameBeat(j) == SameProcess(j) /\ snap'[j] = snap[j] /\ age'[j] = age[j]

LEMMA KeptWrites ==
    ASSUME KeepsRecords, TypeInv, BeatInv
    PROVE  /\ \A v : Load(v) => v = cp
           /\ \A c : Save(c) => cp' = c /\ idle' = 0
<1>1. ~Strike("load") /\ ~Strike("save")
  BY NeverStrikes DEF KeepsRecords, TypeInv, Hazards
<1> QED BY <1>1 DEF Load, Save, BeatInv

LEMMA RecordStarted ==
    ASSUME NEW s, NEW o
    PROVE  ~RunningAt(s, o).started /\ ~DoneAt(s, o).started /\ ~FailedAt(s).started /\ ~NoCheckpoint.started
BY DEF RunningAt, DoneAt, FailedAt, NoCheckpoint

LEMMA BeatOne ==
    ASSUME BeatInv, TypeInv, spent'["outage"] = 0, NEW i \in Invocations,
           \A j \in Invocations \ {i} : SameBeat(j), BeatOK(i)',
           (cp' = cp /\ idle' = idle) \/ (idle' = 0 /\ (cp'.started => cp'.status = "running"))
    PROVE  BeatInv'
<1>1. \A j \in Invocations : age[j] \in Nat /\ idle \in Nat
  BY ClockAssumption DEF TypeInv, ProcessOK, StoreOK
<1>2. \A j \in Invocations \ {i} : BeatOK(j)'
  BY <1>1 DEF BeatInv, BeatOK, SameBeat, SameProcess, Active
<1> QED BY <1>2 DEF BeatInv

LEMMA ReturnBeat ==
    ASSUME TypeInv, NEW i \in Invocations, Return(i)
    PROVE  BeatOK(i)' /\ \A j \in Invocations \ {i} : SameBeat(j)
<1>1. age'[i] = 0 /\ \A j \in Invocations \ {i} : age'[j] = age[j] /\ snap'[j] = snap[j]
  BY DEF Return, TypeInv, ProcessOK
<1> QED BY <1>1, ReturnFrame, ClockAssumption DEF BeatOK, SameBeat, NoCall

\* A process goes on, to a label that presumes no heartbeat or while it has one.
LEMMA GoesOnBeat ==
    ASSUME TypeInv, BeatInv, NEW i \in Invocations, Active(i), UNCHANGED <<call, age>>, Others(i),
           pc'[i] \notin {"idle", "heartbeat"},
           pc'[i] \in {"resume", "turn"} /\ call[i].role = "worker" =>
                idle' = 0 \/ (idle' = idle /\ pc[i] \in {"resume", "turn"})
    PROVE  BeatOK(i)' /\ \A j \in Invocations \ {i} : SameBeat(j)
<1>1. age[i] \in Nat
  BY DEF TypeInv, ProcessOK
<1>2. BeatOK(i)'
  BY <1>1 DEF BeatInv, BeatOK, Active
<1> QED BY <1>2 DEF SameBeat, Others

LEMMA ResultBeat ==
    ASSUME TypeInv, BeatInv, NEW i \in Invocations, Active(i), Others(i), NEW steps, Result(i, steps)
    PROVE  BeatOK(i)' /\ \A j \in Invocations \ {i} : SameBeat(j)
<1>1. CASE Single(i)
  <2>1. UNCHANGED <<call, age>> /\ pc'[i] = "reload"
    BY <1>1, GotoFrame DEF Result
  <2> QED BY <2>1, GoesOnBeat
<1>2. CASE ~Single(i)
  BY <1>2, ReturnBeat DEF Result
<1> QED BY <1>1, <1>2

LEMMA BeatWorker ==
    ASSUME KeepsRecords, TypeInv, BeatInv, spent'["outage"] = 0, NEW i \in Invocations,
           Worker(i) \/ Callback(i)
    PROVE  BeatInv'
<1>0. Others(i) /\ Active(i) /\ snap[i] \in Checkpoint /\ snap \in [Invocations -> Checkpoint]
  BY OthersKept DEF Handler, TypeInv, ProcessOK
<1>1. CASE EarlyLoad(i) \/ Reload(i) \/ CallbackLoad(i) \/ Rechain(i) \/ Respond(i)
  <2>1. /\ UNCHANGED <<cp, idle>>
        /\ Return(i) \/ \E label \in {"earlysave", "load", "giveup", "publish", "cbsave", "respond"} :
                           Goto(i, label) /\ UNCHANGED <<call, age>>
    BY <1>1 DEF EarlyLoad, Reload, CallbackLoad, Rechain, Respond
  <2>2. Return(i) \/ (UNCHANGED <<call, age>> /\ pc'[i] \notin {"idle", "heartbeat", "resume", "turn"})
    BY <2>1, GotoFrame
  <2>3. BeatOK(i)' /\ \A j \in Invocations \ {i} : SameBeat(j)
    BY <1>0, <2>2, ReturnBeat, GoesOnBeat
  <2> QED BY <2>1, <2>3, BeatOne
<1>2. CASE EarlySave(i) \/ GiveUp(i) \/ CallbackSave(i)
  <2>1. Save(FailedAt(snap[i].steps)) /\ Return(i)
    BY <1>2 DEF EarlySave, GiveUp, CallbackSave
  <2>2. idle' = 0 /\ ~cp'.started
    BY <2>1, KeptWrites, RecordStarted
  <2> QED BY <2>1, <2>2, ReturnBeat, BeatOne
<1>3. CASE WorkerLoad(i)
  <2>1. PICK v \in {cp, NoCheckpoint} :
          /\ UNCHANGED <<cp, idle>>
          /\ \/ Return(i)
             \/ /\ Describes(v, call[i].msg) /\ snap' = [snap EXCEPT ![i] = v]
                /\ Goto(i, "heartbeat") /\ UNCHANGED <<call, age>>
    BY <1>3 DEF WorkerLoad
  <2>2. CASE Return(i)
    BY <2>1, <2>2, ReturnBeat, BeatOne
  <2>3. CASE ~Return(i)
    <3>1. pc'[i] = "heartbeat" /\ snap'[i].status = "running" /\ UNCHANGED <<call, age>>
      BY <1>0, <2>1, <2>3, GotoFrame DEF Describes
    <3>2. BeatOK(i)' /\ \A j \in Invocations \ {i} : SameBeat(j)
      BY <1>0, <3>1 DEF BeatInv, BeatOK, SameBeat, Others, Active
    <3> QED BY <2>1, <3>2, BeatOne
  <2> QED BY <2>2, <2>3
<1>4. CASE Heartbeat(i)
  <2>1. /\ Save([snap[i] EXCEPT !.started = TRUE]) /\ Goto(i, "resume") /\ UNCHANGED <<call, age>>
        /\ pc[i] = "heartbeat"
    BY <1>4 DEF Heartbeat, At
  <2>2. idle' = 0 /\ cp'.status = "running"
    BY <1>0, <2>1, KeptWrites DEF BeatInv, BeatOK, Checkpoint
  <2>3. BeatOK(i)' /\ \A j \in Invocations \ {i} : SameBeat(j)
    BY <1>0, <2>1, <2>2, GotoFrame, GoesOnBeat
  <2> QED BY <2>2, <2>3, BeatOne
<1> QED BY <1>1, <1>2, <1>3, <1>4 DEF Worker, Callback

LEMMA BeatInvestigation ==
    ASSUME KeepsRecords, TypeInv, BeatInv, spent'["outage"] = 0, NEW i \in Invocations, Investigation(i)
    PROVE  BeatInv'
<1>0. Others(i) /\ Active(i)
  BY OthersKept DEF Handler
<1>1. CASE Resume(i)
  <2>1. /\ UNCHANGED <<cp, idle>> /\ pc[i] = "resume"
        /\ (\E s : Result(i, s)) \/ (Goto(i, "turn") /\ UNCHANGED <<call, age>>)
    BY <1>1 DEF Resume, At
  <2>2. BeatOK(i)' /\ \A j \in Invocations \ {i} : SameBeat(j)
    BY <1>0, <2>1, ResultBeat, GotoFrame, GoesOnBeat
  <2> QED BY <2>1, <2>2, BeatOne
<1>2. CASE TurnFails(i) \/ TurnFinishes(i) \/ HardCap(i)
  <2>1. PICK c : Save(c) /\ ~c.started
    BY <1>2, RecordStarted DEF TurnFails, TurnFinishes, HardCap
  <2>2. idle' = 0 /\ ~cp'.started
    BY <2>1, KeptWrites
  <2>3. \E s : Result(i, s)
    BY <1>2 DEF TurnFails, TurnFinishes, HardCap
  <2> QED BY <1>0, <2>2, <2>3, ResultBeat, BeatOne
<1>3. CASE TurnAdvances(i)
  <2>1. /\ Save(RunningAt(turn[i].step, turn[i].overall)) /\ pc[i] = "turn"
        /\ \/ Result(i, turn[i].capped)
           \/ UNCHANGED <<pc, call, age>>
           \/ Goto(i, "hardcap") /\ UNCHANGED <<call, age>>
    BY <1>3 DEF TurnAdvances, At
  <2>2. idle' = 0 /\ ~cp'.started
    BY <2>1, KeptWrites, RecordStarted
  <2>3. BeatOK(i)' /\ \A j \in Invocations \ {i} : SameBeat(j)
    BY <1>0, <2>1, <2>2, ResultBeat, GotoFrame, GoesOnBeat
  <2> QED BY <2>2, <2>3, BeatOne
<1> QED BY <1>1, <1>2, <1>3 DEF Investigation, Answers

LEMMA BeatNext ==
    ASSUME KeepsRecords
    PROVE  TypeInv /\ BeatInv /\ [Next]_vars => BeatInv'
<1> SUFFICES ASSUME TypeInv, BeatInv, [Next]_vars PROVE BeatInv'
  OBVIOUS
<1>0. spent'["outage"] = 0
  BY NoOutage DEF BeatInv, KeepsRecords
<1>00. idle \in Nat /\ \A i \in Invocations : age[i] \in Nat
  BY ClockAssumption DEF TypeInv, StoreOK, ProcessOK
<1>1. CASE StartCall
  <2>1. UNCHANGED <<pc, call, snap, age>> /\ ((cp' = cp /\ idle' = idle) \/ (idle' = 0 /\ ~cp'.started))
    BY <1>1, KeptWrites, RecordStarted DEF StartCall, PublishStart, SeedRun
  <2> QED BY <1>0, <1>00, <2>1 DEF BeatInv, BeatOK, Active
<1>2. ASSUME NEW i \in Invocations, NEW c, NEW label \in {"cbload", "earlyload", "load", "resume"},
             Begin(i, c, label), UNCHANGED <<cp, idle, snap, turn, age>>, c.role = "poll" \/ label # "resume"
      PROVE  BeatInv'
  <2>1. pc'[i] = label /\ call'[i] = c /\ \A j \in Invocations \ {i} : pc'[j] = pc[j] /\ call'[j] = call[j]
    BY <1>2, GotoFrame DEF Begin, TypeInv, ProcessOK
  <2>2. BeatOK(i)' /\ \A j \in Invocations \ {i} : SameBeat(j)
    BY <1>2, <2>1 DEF BeatInv, BeatOK, SameBeat, SameProcess, Active
  <2> QED BY <1>0, <1>2, <2>2, BeatOne
<1>3. CASE Delivery
  <2>1. PICK i \in Invocations, m \in queue : Deliver(i, m)
    BY <1>3 DEF Delivery
  <2>2. Begin(i, [role |-> "worker", msg |-> m, held |-> TRUE], FirstLabel(m))
        /\ UNCHANGED <<cp, idle, snap, turn, age>> /\ FirstLabel(m) \in {"cbload", "earlyload", "load"}
    BY <2>1 DEF Deliver, FirstLabel
  <2> QED BY <1>2, <2>2
<1>4. CASE PollCall
  <2>1. PICK i \in Invocations, l \in PollLimits : Poll(i, l)
    BY <1>4 DEF PollCall
  <2>2. Begin(i, [role |-> "poll", limit |-> l], "resume") /\ UNCHANGED <<cp, idle, snap, turn, age>>
    BY <2>1 DEF Poll
  <2> QED BY <1>2, <2>2
<1>5. ASSUME NEW i \in Invocations, Handler(i) PROVE BeatInv'
  BY <1>0, <1>5, BeatWorker, BeatInvestigation DEF Handler
<1>6. ASSUME NEW i \in Invocations, Kill(i) PROVE BeatInv'
  BY <1>0, <1>6, ReturnBeat, BeatOne DEF Kill
<1>7. ASSUME NEW i \in Invocations, Disconnect(i) PROVE BeatInv'
  <2>1. UNCHANGED <<cp, idle, pc, snap, age>> /\ call' = [call EXCEPT ![i].held = FALSE]
    BY <1>7 DEF Disconnect
  <2>2. \A j \in Invocations : call'[j].role = call[j].role
    BY <1>7, <2>1 DEF Disconnect, Holds, TypeInv, ProcessOK, Call
  <2> QED BY <1>0, <2>1, <2>2 DEF BeatInv, BeatOK, Active
<1>8. CASE Expire
  <2>1. idle' = 0 /\ ~cp'.started /\ UNCHANGED <<pc, call, snap, age>>
    BY <1>8, RecordStarted DEF Expire
  <2> QED BY <1>0, <1>00, <2>1 DEF BeatInv, BeatOK, Active
<1>9. CASE Tick
  <2>1. UNCHANGED <<cp, pc, call, snap>> /\ idle' <= idle + 1
    BY <1>00, <1>9, ClockAssumption DEF Tick, Smaller
  <2>2. idle' \in Nat
    BY <1>00, <1>9, ClockAssumption DEF Tick, Smaller
  <2>3. ASSUME NEW i \in Invocations PROVE BeatOK(i)'
    <3>1. /\ Active(i) => age'[i] = age[i] + 1 /\ age[i] < MaxLife
          /\ ~Active(i) => age'[i] = 0
      BY <1>9 DEF Tick
    <3>2. age'[i] <= MaxLife
      BY <1>00, <3>1, ClockAssumption
    <3>3. pc[i] \in {"resume", "turn"} /\ call[i].role = "worker" => idle' <= age'[i]
      BY <1>00, <2>1, <2>2, <3>1 DEF BeatInv, BeatOK, Active
    <3> QED BY <2>1, <3>2, <3>3 DEF BeatInv, BeatOK, Active
  <2> QED BY <1>0, <2>1, <2>3 DEF BeatInv
<1>10. CASE StoreOutage \/ UNCHANGED vars
  BY <1>0, <1>10 DEF StoreOutage, vars, BeatInv, BeatOK, Active
<1> QED BY <1>1, <1>3, <1>4, <1>5, <1>6, <1>7, <1>8, <1>9, <1>10 DEF Next, Platform

\* While the record shows a worker's step in flight no push starts beside it, however many callers
\* poll and whatever QStash repeats or loses, if no process outlives the time after which a step is
\* taken for dead and no read or write of the record fails.
THEOREM PollsSpareWorkers ==
    ASSUME KeepsRecords, MaxLife <= DeadTicks
    PROVE  Spec => PollSparesWorker
<1>1. Init => BeatInv
  BY RecordStarted, ClockAssumption DEF Init, BeatInv, BeatOK, NoCall, Active, Hazards
<1>2. TypeInv /\ BeatInv /\ [Next]_vars =>
        [\A i, j \in Invocations :
            cp.started /\ At(j, "turn") /\ Single(j) /\ ~Active(i) => call'[i].role # "poll"]_vars
  <2> SUFFICES ASSUME TypeInv, BeatInv, Next, NEW i \in Invocations, NEW j \in Invocations,
                      cp.started, At(j, "turn"), Single(j), ~Active(i)
               PROVE  call'[i].role # "poll"
    OBVIOUS
  <2>1. idle <= DeadTicks /\ cp.status = "running" /\ call[i].role # "poll"
    <3>1. idle \in Nat /\ age[j] \in Nat /\ idle <= age[j] /\ age[j] <= MaxLife
      BY ClockAssumption DEF TypeInv, StoreOK, ProcessOK, BeatInv, BeatOK, At, Single
    <3> QED BY <3>1, ClockAssumption DEF BeatInv, BeatOK
  <2>2. ASSUME NEW k \in Invocations, NEW l \in PollLimits, Poll(k, l) PROVE FALSE
    <3>1. Pushes(cp, l)
      BY <2>2, KeptWrites DEF Poll
    <3>2. ~Stale(cp)
      <4>1. idle \in Nat
        BY ClockAssumption DEF TypeInv, StoreOK
      <4> QED BY <2>1, <4>1, ClockAssumption DEF Stale
    <3> QED BY <2>1, <3>1, <3>2 DEF Pushes
  <2>3. ASSUME NEW k \in Invocations, NEW m \in queue, Deliver(k, m) PROVE call'[i].role # "poll"
    BY <2>1, <2>3 DEF Deliver, Begin, TypeInv, ProcessOK
  <2>4. ASSUME NEW k \in Invocations, Handler(k) PROVE call'[i].role # "poll"
    <3>1. k # i
      BY <2>4, OthersKept
    <3> QED BY <2>1, <2>4, <3>1, OthersKept DEF Others, SameProcess
  <2>5. ASSUME NEW k \in Invocations, Kill(k) \/ Disconnect(k) PROVE call'[i].role # "poll"
    <3>1. k # i
      BY <2>5 DEF Kill, Disconnect
    <3>2. call'[i] = call[i]
      BY <2>5, <3>1, ReturnFrame DEF Kill, Disconnect, SameProcess, TypeInv, ProcessOK
    <3> QED BY <2>1, <3>2
  <2>6. CASE UNCHANGED call
    BY <2>1, <2>6
  <2> QED BY <2>2, <2>3, <2>4, <2>5, <2>6
          DEF Next, StartCall, SeedRun, PublishStart, Delivery, PollCall, Platform, StoreOutage, Expire, Tick
<1> QED BY <1>1, <1>2, BeatNext, TypeInvariant, PTL DEF Spec, PollSparesWorker
=============================================================================
