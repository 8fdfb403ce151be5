------------------------- MODULE TermuxQueue_proofs -------------------------
(***************************************************************************)
(* Theorems about TermuxQueue for every value of its constants.            *)
(***************************************************************************)
EXTENDS TermuxQueue, FiniteSetTheorems, SequenceTheorems, TLAPS

-----------------------------------------------------------------------------
(* The inductive strengthening of TypeOK: a request past its pop is about a  *)
(* job, and so is an agent that does more than poll; neither is past its     *)
(* limit when it is about to try again.                                      *)

RedisOK ==
    /\ record \in [Jobs -> Record]
    /\ list \in Seq(Jobs)
    /\ listTtl \in 0 .. JobTTL

SubmitOK ==
    submit \in [Jobs -> {"new", "refused", "store", "push", "arm", "sent", "failed"}]

Fit(r) ==
    /\ r.at \in {"get", "mark", "check", "store"} => r.job \in Jobs
    /\ r.at = "get" => r.skipped < MaxSkips

HandlersOK == serve \in [Handlers -> Request] /\ \A h \in Handlers : Fit(serve[h])

Sane(a) ==
    /\ a.at \in {"asking", "executing", "posting", "posted"} => a.job \in Jobs
    /\ a.at \in {"asking", "executing"} => a.tries = 0
    /\ a.at = "posting" => a.tries < MaxPosts

AgentsOK == phone \in [Phones -> Agent] /\ \A p \in Phones : Sane(phone[p])

HistoryOK ==
    /\ ran \in [Jobs -> Nat]
    /\ dropped \subseteq Jobs /\ slow \subseteq Jobs
    /\ faults \in 0 .. MaxFaults

TypeInv == RedisOK /\ SubmitOK /\ HandlersOK /\ AgentsOK /\ HistoryOK

-----------------------------------------------------------------------------
(* Records, agents and requests.                                             *)

LEMMA FaultType ==
    ASSUME HistoryOK, Fault
    PROVE  faults' \in 0 .. MaxFaults
BY LimitAssumption DEF HistoryOK, Fault

LEMMA RecordTypes ==
    /\ NoRecord \in Record
    /\ \A s \in {"queued", "running", "done", "failed"} :
         /\ [status |-> s, ttl |-> JobTTL] \in Record
         /\ [status |-> s, ttl |-> RunningTtl] \in Record
    /\ \A r \in Record : Aged(r) \in Record
BY LimitAssumption DEF NoRecord, Record, Final, RunningTtl, Aged

LEMMA IdleAgentType == IdleAgent \in Agent /\ Sane(IdleAgent)
BY LimitAssumption DEF IdleAgent, Agent, Sane, Final

LEMMA UnansweredType ==
    ASSUME NEW a \in Agent, Sane(a)
    PROVE  Unanswered(a) \in Agent /\ Sane(Unanswered(a))
<1>1. CASE a.at = "posted" /\ a.tries < MaxPosts
  <2>1. Unanswered(a) = [a EXCEPT !.at = "posting"]
    BY <1>1 DEF Unanswered, Retried
  <2> QED
    BY <1>1, <2>1 DEF Agent, Sane
<1>2. CASE ~(a.at = "posted" /\ a.tries < MaxPosts)
  BY <1>2, IdleAgentType DEF Unanswered, Retried
<1> QED
  BY <1>1, <1>2

LEMMA HearsType ==
    ASSUME AgentsOK, NEW p \in Phones, NEW a \in Agent, Sane(a), Hears(p, a)
    PROVE  AgentsOK'
BY DEF AgentsOK, Hears, Sane

LEMMA IdleRequestType ==
    ASSUME NEW p \in Phones
    PROVE  IdleRequest(p) \in Request /\ Fit(IdleRequest(p))
BY LimitAssumption DEF IdleRequest, Request, Fit, Final

LEMMA ServeType ==
    ASSUME HandlersOK, NEW h \in Handlers, NEW r \in Request, Fit(r),
           serve' = [serve EXCEPT ![h] = r]
    PROVE  HandlersOK'
BY DEF HandlersOK, Fit

LEMMA ReplyType ==
    ASSUME HandlersOK, AgentsOK, NEW h \in Handlers, NEW a \in Agent, Sane(a), Reply(h, a)
    PROVE  HandlersOK' /\ AgentsOK'
<1>1. serve[h].phone \in Phones
  BY DEF HandlersOK, Request
<1>2. HandlersOK'
  BY <1>1, IdleRequestType, ServeType DEF Reply
<1>3. AgentsOK'
  BY <1>1, HearsType DEF Reply, AgentsOK
<1> QED
  BY <1>2, <1>3

LEMMA SendType ==
    ASSUME HandlersOK, NEW p \in Phones, NEW h \in Handlers, NEW at \in {"pop", "check"},
           NEW job \in Jobs \cup {NoJob}, NEW outcome \in Final, at = "check" => job \in Jobs,
           Send(p, h, at, job, outcome)
    PROVE  HandlersOK'
<1> DEFINE r == [at |-> at, phone |-> p, held |-> TRUE, job |-> job,
                 skipped |-> 0, outcome |-> outcome]
<1>1. r \in Request /\ Fit(r)
  BY LimitAssumption DEF Request, Fit
<1> QED
  BY <1>1, ServeType DEF Send

LEMMA ReleasedType ==
    ASSUME HandlersOK, NEW p \in Phones, serve' = Released(p)
    PROVE  HandlersOK'
<1>1. ASSUME NEW h \in Handlers
      PROVE  [serve[h] EXCEPT !.held = FALSE] \in Request /\ Fit([serve[h] EXCEPT !.held = FALSE])
  BY DEF HandlersOK, Request, Fit
<1> QED
  BY <1>1 DEF HandlersOK, Released

-----------------------------------------------------------------------------
(* Every action preserves TypeInv.                                           *)

LEMMA InitType == Init => TypeInv
<1> SUFFICES ASSUME Init PROVE TypeInv
  OBVIOUS
<1>1. RedisOK
  BY RecordTypes, LimitAssumption DEF Init, RedisOK
<1>2. HandlersOK
  BY IdleRequestType DEF Init, HandlersOK
<1>3. AgentsOK
  BY IdleAgentType DEF Init, AgentsOK
<1>4. SubmitOK /\ HistoryOK
  BY LimitAssumption DEF Init, SubmitOK, HistoryOK
<1> QED
  BY <1>1, <1>2, <1>3, <1>4 DEF TypeInv

LEMMA SubmissionType ==
    ASSUME TypeInv, NEW j \in Jobs, Submission(j) \/ SubmitFails(j)
    PROVE  TypeInv'
<1> USE DEF TypeInv
<1>1. SubmitOK'
  BY DEF SubmitOK, Submission, Admit, Store, Push, Arm, SubmitFails
<1>2. HandlersOK' /\ AgentsOK'
  BY DEF HandlersOK, AgentsOK, Submission, Admit, Store, Push, Arm, SubmitFails
<1>3. HistoryOK'
  BY FaultType DEF HistoryOK, Submission, Admit, Store, Push, Arm, SubmitFails, history
<1>4. RedisOK'
  <2>1. CASE Store(j)
    BY <2>1, RecordTypes DEF Store, RedisOK
  <2>2. CASE Push(j)
    BY <2>2, AppendProperties DEF Push, RedisOK
  <2>3. CASE Arm(j)
    BY <2>3, LimitAssumption DEF Arm, RedisOK, Armed
  <2>4. CASE Admit(j) \/ SubmitFails(j)
    BY <2>4 DEF Admit, SubmitFails, RedisOK, redis
  <2> QED
    BY <2>1, <2>2, <2>3, <2>4 DEF Submission
<1> QED
  BY <1>1, <1>2, <1>3, <1>4

LEMMA PopTypes ==
    ASSUME TypeInv, NEW h \in Handlers, Pop(h)
    PROVE  TypeInv'
<1> USE DEF TypeInv
<1>1. list # << >> /\ list \in Seq(Jobs) /\ Head(list) \in Jobs /\ Tail(list) \in Seq(Jobs)
  BY HeadTailProperties DEF Pop, NothingToPop, RedisOK
<1>2. RedisOK'
  BY <1>1, LimitAssumption DEF Pop, RedisOK, Shrunk
<1> DEFINE r == [serve[h] EXCEPT !.at = "get", !.job = Head(list)]
<1>3. r \in Request /\ Fit(r)
  <2>1. serve[h] \in Request /\ serve[h].skipped < MaxSkips
    BY LimitAssumption DEF Pop, NothingToPop, HandlersOK, Request
  <2>2. r \in Request
    BY <1>1, <2>1 DEF Request
  <2>3. r.job = Head(list) /\ r.skipped = serve[h].skipped
    BY <2>1 DEF Request
  <2> QED
    BY <1>1, <2>1, <2>2, <2>3 DEF Fit
<1>4. serve' = [serve EXCEPT ![h] = r]
  BY DEF Pop, HandlersOK
<1>5. HandlersOK'
  BY <1>3, <1>4, ServeType
<1> QED
  BY <1>2, <1>5 DEF Pop, SubmitOK, AgentsOK, HistoryOK, history

LEMMA GetType ==
    ASSUME TypeInv, NEW h \in Handlers, Get(h)
    PROVE  TypeInv'
<1> USE DEF TypeInv
<1> DEFINE r == IF record[serve[h].job].status = "queued"
                  THEN [serve[h] EXCEPT !.at = "mark"]
                  ELSE [serve[h] EXCEPT !.at = "pop", !.job = NoJob, !.skipped = @ + 1]
<1>1. r \in Request /\ Fit(r)
  BY LimitAssumption DEF Get, Serves, HandlersOK, Request, Fit
<1>2. serve' = [serve EXCEPT ![h] = r]
  BY DEF Get, HandlersOK
<1>3. HandlersOK'
  BY <1>1, <1>2, ServeType
<1> QED
  BY <1>3 DEF Get, RedisOK, SubmitOK, AgentsOK, HistoryOK, redis, history

LEMMA MarkType ==
    ASSUME TypeInv, NEW h \in Handlers, Mark(h)
    PROVE  TypeInv'
<1> USE DEF TypeInv
<1> DEFINE a == [IdleAgent EXCEPT !.at = "asking", !.job = serve[h].job]
<1>1. serve[h].job \in Jobs
  BY DEF Mark, Serves, HandlersOK, Fit
<1>2. a \in Agent /\ Sane(a)
  <2>1. a \in Agent
    BY <1>1, IdleAgentType DEF Agent
  <2>2. a.at = "asking" /\ a.job = serve[h].job /\ a.tries = 0
    BY IdleAgentType DEF IdleAgent, Agent
  <2> QED
    BY <1>1, <2>1, <2>2 DEF Sane
<1>3. HandlersOK' /\ AgentsOK'
  BY <1>2, ReplyType DEF Mark
<1>4. RedisOK'
  BY <1>1, RecordTypes DEF Mark, RedisOK
<1> QED
  BY <1>3, <1>4 DEF Mark, SubmitOK, HistoryOK, history

LEMMA ResultType ==
    ASSUME TypeInv, NEW h \in Handlers, Check(h) \/ Refuse(h) \/ StoreResult(h)
    PROVE  TypeInv'
<1> USE DEF TypeInv
<1>1. CASE Check(h)
  <2>1. [serve[h] EXCEPT !.at = "store"] \in Request /\ Fit([serve[h] EXCEPT !.at = "store"])
    BY <1>1 DEF Check, Serves, HandlersOK, Request, Fit
  <2>2. serve' = [serve EXCEPT ![h] = [serve[h] EXCEPT !.at = "store"]]
    BY <1>1 DEF Check, HandlersOK
  <2>3. HandlersOK'
    BY <2>1, <2>2, ServeType
  <2> QED
    BY <1>1, <2>3 DEF Check, RedisOK, SubmitOK, AgentsOK, HistoryOK, redis, history
<1>2. CASE Refuse(h)
  <2>1. phone[serve[h].phone] \in Agent /\ Sane(phone[serve[h].phone])
    BY DEF HandlersOK, Request, AgentsOK
  <2>2. HandlersOK' /\ AgentsOK'
    BY <1>2, <2>1, UnansweredType, ReplyType DEF Refuse
  <2> QED
    BY <1>2, <2>2 DEF Refuse, RedisOK, SubmitOK, HistoryOK, redis, history
<1>3. CASE StoreResult(h)
  <2>1. serve[h].job \in Jobs /\ serve[h].outcome \in Final
    BY <1>3 DEF StoreResult, Serves, HandlersOK, Fit, Request
  <2>2. RedisOK'
    BY <1>3, <2>1, RecordTypes DEF StoreResult, RedisOK, Final
  <2>3. HandlersOK' /\ AgentsOK'
    BY <1>3, IdleAgentType, ReplyType DEF StoreResult
  <2> QED
    BY <1>3, <2>2, <2>3 DEF StoreResult, SubmitOK, HistoryOK, history
<1> QED
  BY <1>1, <1>2, <1>3

LEMMA HandlingType ==
    ASSUME TypeInv, NEW h \in Handlers, Handling(h)
    PROVE  TypeInv'
<1>1. CASE PopEmpty(h)
  <2>1. HandlersOK' /\ AgentsOK'
    BY <1>1, IdleAgentType, ReplyType DEF TypeInv, PopEmpty
  <2> QED
    BY <1>1, <2>1 DEF TypeInv, PopEmpty, RedisOK, SubmitOK, HistoryOK, redis, history
<1> QED
  BY <1>1, PopTypes, GetType, MarkType, ResultType DEF Handling

LEMMA AgentStepType ==
    ASSUME TypeInv, NEW p \in Phones, AgentStep(p)
    PROVE  TypeInv'
<1> USE DEF TypeInv
<1>1. phone[p] \in Agent /\ Sane(phone[p])
  BY DEF AgentsOK
<1>2. ASSUME NEW h \in Handlers, Poll(p, h)
      PROVE  TypeInv'
  <2>1. [IdleAgent EXCEPT !.at = "polling"] \in Agent /\ Sane([IdleAgent EXCEPT !.at = "polling"])
    BY LimitAssumption DEF IdleAgent, Agent, Sane, Final
  <2>2. AgentsOK' /\ HandlersOK'
    BY <1>2, <2>1, HearsType, SendType DEF Poll, Final
  <2> QED
    BY <1>2, <2>2 DEF Poll, RedisOK, SubmitOK, HistoryOK, redis, history
<1>3. ASSUME NEW h \in Handlers, Post(p, h)
      PROVE  TypeInv'
  <2> DEFINE a == [phone[p] EXCEPT !.at = "posted", !.tries = @ + 1]
  <2>1. a \in Agent /\ Sane(a)
    <3>1. phone[p].job \in Jobs /\ phone[p].tries + 1 \in 0 .. MaxPosts
      BY <1>1, <1>3, LimitAssumption DEF Post, Doing, Agent, Sane
    <3>2. a.at = "posted" /\ a.job = phone[p].job
      BY <1>1 DEF Agent
    <3>3. a \in Agent
      BY <1>1, <3>1 DEF Agent
    <3> QED
      BY <3>1, <3>2, <3>3 DEF Sane
  <2>2. phone[p].job \in Jobs /\ phone[p].outcome \in Final
    BY <1>1, <1>3 DEF Post, Doing, Agent, Sane
  <2>3. AgentsOK' /\ HandlersOK'
    BY <1>3, <2>1, <2>2, HearsType, SendType DEF Post
  <2> QED
    BY <1>3, <2>3 DEF Post, RedisOK, SubmitOK, HistoryOK, redis, history
<1>4. CASE Approve(p)
  <2>1. [phone[p] EXCEPT !.at = "executing", !.age = 0] \in Agent
        /\ Sane([phone[p] EXCEPT !.at = "executing", !.age = 0])
    BY <1>1, <1>4 DEF Approve, Doing, Agent, Sane
  <2>2. AgentsOK'
    BY <1>4, <2>1, HearsType DEF Approve
  <2>3. HistoryOK'
    <3>1. phone[p].job \in Jobs
      BY <1>1, <1>4 DEF Approve, Doing, Sane
    <3>2. ran[phone[p].job] + 1 \in Nat
      BY <3>1 DEF HistoryOK
    <3> QED
      BY <1>4, <3>2 DEF Approve, HistoryOK
  <2> QED
    BY <1>4, <2>2, <2>3 DEF Approve, RedisOK, SubmitOK, HandlersOK, redis
<1>5. ASSUME NEW outcome \in Final, Deny(p) \/ Finish(p, outcome)
      PROVE  TypeInv'
  <2>1. ASSUME NEW o \in Final, phone[p].at \in {"asking", "executing"}
        PROVE  /\ [phone[p] EXCEPT !.at = "posting", !.age = 0, !.outcome = o] \in Agent
               /\ Sane([phone[p] EXCEPT !.at = "posting", !.age = 0, !.outcome = o])
    <3> DEFINE a == [phone[p] EXCEPT !.at = "posting", !.age = 0, !.outcome = o]
    <3>1. a.at = "posting" /\ a.job = phone[p].job /\ a.tries = phone[p].tries
      BY <1>1 DEF Agent
    <3>2. a \in Agent
      BY <1>1 DEF Agent
    <3>3. Sane(a)
      BY <1>1, <2>1, <3>1, LimitAssumption DEF Sane
    <3> QED
      BY <3>2, <3>3
  <2>2. AgentsOK'
    BY <1>5, <2>1, HearsType DEF Deny, Finish, Doing, Final
  <2> QED
    BY <1>5, <2>2 DEF Deny, Finish, RedisOK, SubmitOK, HandlersOK, HistoryOK, redis, history
<1>6. \E outcome \in Final : TRUE
  BY DEF Final
<1> QED
  BY <1>2, <1>3, <1>4, <1>5, <1>6 DEF AgentStep

LEMMA FailureType ==
    ASSUME TypeInv, Failure
    PROVE  TypeInv'
<1> USE DEF TypeInv
<1>1. ASSUME NEW h \in Handlers, HandlerFails(h)
      PROVE  TypeInv'
  <2>1. phone[serve[h].phone] \in Agent /\ Sane(phone[serve[h].phone])
        /\ serve[h].job \in Jobs \cup {NoJob}
    BY DEF HandlersOK, Request, AgentsOK
  <2>2. HandlersOK' /\ AgentsOK'
    BY <1>1, <2>1, UnansweredType, ReplyType DEF HandlerFails
  <2>3. HistoryOK'
    BY <1>1, <2>1, FaultType DEF HandlerFails, HistoryOK
  <2> QED
    BY <1>1, <2>2, <2>3 DEF HandlerFails, RedisOK, SubmitOK, redis
<1>2. ASSUME NEW p \in Phones, GivesUpWaiting(p) \/ AgentRestarts(p)
      PROVE  TypeInv'
  <2>1. AgentsOK'
    BY <1>2, IdleAgentType, UnansweredType, HearsType
    DEF GivesUpWaiting, AgentRestarts, AgentsOK
  <2>2. HandlersOK'
    BY <1>2, ReleasedType DEF GivesUpWaiting, AgentRestarts
  <2>3. HistoryOK'
    BY <1>2, FaultType DEF GivesUpWaiting, AgentRestarts, HistoryOK, history
  <2> QED
    BY <1>2, <2>1, <2>2, <2>3 DEF GivesUpWaiting, AgentRestarts, RedisOK, SubmitOK, redis
<1> QED
  BY <1>1, <1>2, SubmissionType DEF Failure

LEMMA TickType ==
    ASSUME TypeInv, Tick
    PROVE  TypeInv'
<1> USE DEF TypeInv
<1>1. RedisOK'
  BY RecordTypes, LimitAssumption DEF Tick, RedisOK
<1>2. ASSUME NEW p \in Phones
      PROVE  [phone[p] EXCEPT !.age = @ + 1] \in Agent /\ Sane([phone[p] EXCEPT !.age = @ + 1])
  BY DEF AgentsOK, Agent, Sane
<1>3. AgentsOK'
  BY <1>2 DEF Tick, AgentsOK
<1>4. Submitting \subseteq Jobs /\ Unarmed \subseteq Jobs
  BY DEF Submitting, Unarmed, ToSet, RedisOK
<1>5. HistoryOK'
  BY <1>4 DEF Tick, HistoryOK
<1> QED
  BY <1>1, <1>3, <1>5 DEF Tick, SubmitOK, HandlersOK

LEMMA NextType == TypeInv /\ [Next]_vars => TypeInv'
<1> SUFFICES ASSUME TypeInv, [Next]_vars PROVE TypeInv'
  OBVIOUS
<1>1. CASE UNCHANGED vars
  BY <1>1 DEF vars, TypeInv, RedisOK, SubmitOK, HandlersOK, AgentsOK, HistoryOK
<1>2. CASE Next
  BY <1>2, SubmissionType, HandlingType, AgentStepType, FailureType, TickType DEF Next
<1> QED
  BY <1>1, <1>2

LEMMA TypeInvariant == Spec => []TypeInv
BY InitType, NextType, PTL DEF Spec

\* Requests that outlive their answers, retries, restarts and expiring keys
\* leave every variable of the queue in its type: no agent posts more often
\* than it may, and no claim skips more ids than it may.
THEOREM TypeCorrect == Spec => []TypeOK
<1>1. TypeInv => TypeOK
  BY DEF TypeInv, RedisOK, SubmitOK, HandlersOK, AgentsOK, HistoryOK, TypeOK
<1> QED
  BY <1>1, TypeInvariant, PTL

-----------------------------------------------------------------------------
(* The length of the list.  A submission that has passed the length check    *)
(* and not yet pushed counts like an id in the list.                         *)

Coming == {j \in Jobs : submit[j] \in {"store", "push"}}

LEMMA ComingFinite ==
    /\ IsFiniteSet(Coming) /\ Cardinality(Coming) \in Nat
    /\ IsFiniteSet(Submitting) /\ Cardinality(Submitting) \in Nat
    /\ Cardinality(Coming) <= Cardinality(Submitting)
<1>1. IsFiniteSet(Jobs)
  BY FS_Interval, LimitAssumption DEF Jobs
<1>2. Submitting \in SUBSET Jobs /\ Coming \in SUBSET Submitting
  BY DEF Submitting, Coming
<1>3. IsFiniteSet(Submitting) /\ IsFiniteSet(Coming) /\ Cardinality(Coming) <= Cardinality(Submitting)
  BY <1>1, <1>2, FS_Subset
<1> QED
  BY <1>3, FS_CardinalityType

\* A step that adds nothing to the list and lets no submission in.
LEMMA DepthKept ==
    ASSUME TypeInv, DepthBounded, Coming' \subseteq Coming,
           Len(list') \in Nat, Len(list') <= Len(list)
    PROVE  DepthBounded'
<1>1. Cardinality(Coming') <= Cardinality(Coming) /\ Cardinality(Coming') \in Nat
  BY ComingFinite, FS_Subset, FS_CardinalityType
<1>2. Len(list) \in Nat
  BY DEF TypeInv, RedisOK
<1> QED
  BY <1>1, <1>2, ComingFinite, LimitAssumption DEF DepthBounded, Coming

LEMMA DepthNext == TypeInv /\ DepthBounded /\ [Next]_vars => DepthBounded'
<1> SUFFICES ASSUME TypeInv, DepthBounded, [Next]_vars PROVE DepthBounded'
  OBVIOUS
<1> USE DEF TypeInv, RedisOK
<1>1. Len(list) \in Nat /\ list \in Seq(Jobs)
  OBVIOUS
<1>2. ASSUME UNCHANGED submit, list' = list \/ list' = << >>
      PROVE  DepthBounded'
  BY <1>1, <1>2, DepthKept DEF Coming
<1>3. ASSUME NEW j \in Jobs, Admit(j)
      PROVE  DepthBounded'
  <2>1. CASE Full
    BY <1>1, <1>3, <2>1, DepthKept DEF Admit, Coming, SubmitOK, redis
  <2>2. CASE ~Full
    <3>1. Coming' = Coming \cup {j} /\ j \notin Coming
      BY <1>3, <2>2 DEF Admit, Coming, SubmitOK
    <3>2. Cardinality(Coming') = Cardinality(Coming) + 1
      BY <3>1, ComingFinite, FS_AddElement
    <3>3. Cardinality(Coming) < Callers /\ Len(list) < MaxDepth /\ list' = list
      BY <1>1, <1>3, <2>2, ComingFinite, LimitAssumption DEF Admit, Full, redis
    <3> QED
      BY <1>1, <3>2, <3>3, ComingFinite, LimitAssumption DEF DepthBounded, Coming
  <2> QED
    BY <2>1, <2>2
<1>4. ASSUME NEW j \in Jobs, Push(j)
      PROVE  DepthBounded'
  <2>1. Coming' = Coming \ {j} /\ j \in Coming
    BY <1>4 DEF Push, Coming, SubmitOK
  <2>2. Cardinality(Coming') = Cardinality(Coming) - 1
    BY <2>1, ComingFinite, FS_RemoveElement
  <2>3. Len(list') = Len(list) + 1
    BY <1>1, <1>4, AppendProperties DEF Push
  <2> QED
    BY <1>1, <2>2, <2>3, ComingFinite, LimitAssumption DEF DepthBounded, Coming
<1>5. ASSUME NEW j \in Jobs, Store(j) \/ Arm(j) \/ SubmitFails(j)
      PROVE  DepthBounded'
  BY <1>1, <1>5, DepthKept DEF Store, Arm, SubmitFails, Coming, SubmitOK, redis
<1>6. ASSUME NEW h \in Handlers, Handling(h)
      PROVE  DepthBounded'
  <2>1. CASE Pop(h)
    <3>1. Len(list') \in Nat /\ Len(list') <= Len(list)
      BY <1>1, <2>1, HeadTailProperties DEF Pop, NothingToPop
    <3> QED
      BY <2>1, <3>1, DepthKept DEF Pop, Coming
  <2> QED
    BY <1>2, <1>6, <2>1
    DEF Handling, PopEmpty, Get, Mark, Check, Refuse, StoreResult, redis
<1>7. ASSUME NEW p \in Phones, AgentStep(p)
      PROVE  DepthBounded'
  BY <1>2, <1>7 DEF AgentStep, Poll, Post, Approve, Deny, Finish, redis
<1>8. CASE Failure
  BY <1>2, <1>5, <1>8 DEF Failure, HandlerFails, GivesUpWaiting, AgentRestarts, redis
<1>9. CASE Tick
  BY <1>2, <1>9 DEF Tick
<1>10. CASE UNCHANGED vars
  BY <1>2, <1>10 DEF vars
<1> QED
  BY <1>3, <1>4, <1>5, <1>6, <1>7, <1>8, <1>9, <1>10 DEF Next, Submission

\* However many callers read the length before any of them pushes, the list
\* outgrows TERMUX_MAX_QUEUE_DEPTH by less than their number.
THEOREM DepthCorrect == Spec => []DepthBounded
<1>1. Init => DepthBounded
  <2> SUFFICES ASSUME Init PROVE DepthBounded
    OBVIOUS
  <2>1. Coming = {} /\ Len(list) = 0
    BY DEF Init, Coming
  <2>2. Cardinality(Coming) = 0
    BY <2>1, FS_EmptySet
  <2> QED
    BY <2>1, <2>2, LimitAssumption DEF DepthBounded, Coming
<1> QED
  BY <1>1, DepthNext, TypeInvariant, PTL DEF Spec

-----------------------------------------------------------------------------
(* At most once.  The id of a job that has not been started is with its      *)
(* submission, then once in the list, then with one claim, then with one     *)
(* agent; it moves on only in this direction, and may be lost anywhere.      *)

Unsubmitted(j) == submit[j] \in {"new", "refused", "store", "push"}
Listed(j) == \E k \in 1 .. Len(list) : list[k] = j
Claimed(h, j) == serve[h].at \in {"get", "mark"} /\ serve[h].job = j
Asked(p, j) == phone[p].at = "asking" /\ phone[p].job = j

ListedOnce(j) == \A k, l \in 1 .. Len(list) : list[k] = j /\ list[l] = j => k = l

PlaceOK(j) ==
    /\ ListedOnce(j)
    /\ Listed(j) => ~Unsubmitted(j)
    /\ \A h \in Handlers : Claimed(h, j) =>
         /\ ~Unsubmitted(j) /\ ~Listed(j)
         /\ \A g \in Handlers : Claimed(g, j) => g = h
    /\ \A p \in Phones : Asked(p, j) =>
         /\ ~Unsubmitted(j) /\ ~Listed(j)
         /\ \A h \in Handlers : ~Claimed(h, j)
         /\ \A q \in Phones : Asked(q, j) => q = p

ToStart(j) ==
    \/ Unsubmitted(j) \/ Listed(j)
    \/ \E h \in Handlers : Claimed(h, j)
    \/ \E p \in Phones : Asked(p, j)

OnceOK(j) == PlaceOK(j) /\ (ToStart(j) => ran[j] = 0) /\ ran[j] <= 1

OnceInv == \A j \in Jobs : OnceOK(j)

\* Where a step moves the job to no new place and does not start it.
LEMMA OnceKept ==
    ASSUME NEW j \in Jobs, OnceOK(j),
           list' = list \/ list' = << >>,
           Unsubmitted(j)' => Unsubmitted(j),
           \A h \in Handlers : Claimed(h, j)' => Claimed(h, j),
           \A p \in Phones : Asked(p, j)' => Asked(p, j),
           ran'[j] = ran[j]
    PROVE  OnceOK(j)'
<1>1. ListedOnce(j)' /\ (Listed(j)' => Listed(j))
  BY DEF OnceOK, PlaceOK, ListedOnce, Listed
<1>2. PlaceOK(j)'
  BY <1>1 DEF OnceOK, PlaceOK
<1>3. ToStart(j)' => ToStart(j)
  BY <1>1 DEF ToStart
<1> QED
  BY <1>2, <1>3 DEF OnceOK

LEMMA ReplyPlaces ==
    ASSUME TypeInv, NEW h \in Handlers, NEW a, a.at # "asking", Reply(h, a), NEW j \in Jobs
    PROVE  /\ \A g \in Handlers : Claimed(g, j)' => Claimed(g, j)
           /\ \A p \in Phones : Asked(p, j)' => Asked(p, j)
<1>1. serve \in [Handlers -> Request] /\ phone \in [Phones -> Agent]
  BY DEF TypeInv, HandlersOK, AgentsOK
<1>2. ASSUME NEW g \in Handlers, Claimed(g, j)' PROVE Claimed(g, j)
  BY <1>1, <1>2 DEF Reply, Claimed, IdleRequest
<1>3. ASSUME NEW p \in Phones, Asked(p, j)' PROVE Asked(p, j)
  BY <1>1, <1>3 DEF Reply, Hears, Asked
<1> QED
  BY <1>2, <1>3

LEMMA UnansweredPlace == \A a \in Agent : Unanswered(a).at # "asking"
BY DEF Unanswered, Retried, IdleAgent, Agent

LEMMA OncePush ==
    ASSUME TypeInv, OnceInv, NEW i \in Jobs, Push(i)
    PROVE  OnceInv'
<1> SUFFICES ASSUME NEW j \in Jobs PROVE OnceOK(j)'
  BY DEF OnceInv
<1>1. /\ list \in Seq(Jobs) /\ Len(list) \in Nat
      /\ OnceOK(j) /\ OnceOK(i) /\ Unsubmitted(i)
  BY DEF TypeInv, RedisOK, OnceInv, Push, Unsubmitted
<1>2. /\ Len(list') = Len(list) + 1 /\ list'[Len(list) + 1] = i
      /\ \A k \in 1 .. Len(list) : list'[k] = list[k]
  BY <1>1, AppendProperties DEF Push
<1>3. \A h \in Handlers : Claimed(h, j)' <=> Claimed(h, j)
  BY DEF Push, Claimed
<1>4. (\A p \in Phones : Asked(p, j)' <=> Asked(p, j)) /\ ran' = ran
  BY DEF Push, Asked, history
<1>5. Unsubmitted(j)' <=> Unsubmitted(j) /\ j # i
  BY DEF Push, Unsubmitted, TypeInv, SubmitOK
<1>6. Listed(j)' <=> Listed(j) \/ j = i
  BY <1>1, <1>2 DEF Listed
<1>7. ListedOnce(j)'
  BY <1>1, <1>2 DEF ListedOnce, Listed, OnceOK, PlaceOK
<1>8. PlaceOK(j)'
  BY <1>1, <1>3, <1>4, <1>5, <1>6, <1>7 DEF OnceOK, PlaceOK
<1>9. ToStart(j)' => ToStart(j)
  BY <1>1, <1>3, <1>4, <1>5, <1>6 DEF ToStart
<1> QED
  BY <1>1, <1>4, <1>8, <1>9 DEF OnceOK

LEMMA OncePop ==
    ASSUME TypeInv, OnceInv, NEW h \in Handlers, Pop(h)
    PROVE  OnceInv'
<1> SUFFICES ASSUME NEW j \in Jobs PROVE OnceOK(j)'
  BY DEF OnceInv
<1>1. list \in Seq(Jobs) /\ list # << >> /\ Len(list) \in Nat \ {0} /\ OnceOK(j)
  BY DEF TypeInv, RedisOK, OnceInv, Pop, NothingToPop
<1>2. /\ Len(list') = Len(list) - 1 /\ Head(list) = list[1]
      /\ \A k \in 1 .. Len(list') : list'[k] = list[k + 1]
  BY <1>1, HeadTailProperties DEF Pop
<1>3. ListedOnce(j) /\ (j = Head(list) => Listed(j))
  BY <1>1, <1>2 DEF OnceOK, PlaceOK, Listed
<1>4. Listed(j)' => Listed(j) /\ j # Head(list)
  BY <1>1, <1>2, <1>3 DEF Listed, ListedOnce
<1>5. ListedOnce(j)'
  BY <1>1, <1>2, <1>3 DEF ListedOnce
<1>6. \A g \in Handlers : Claimed(g, j)' => Claimed(g, j) \/ (g = h /\ j = Head(list))
  BY DEF Pop, Claimed, TypeInv, HandlersOK, Request
<1>7. /\ \A p \in Phones : Asked(p, j)' <=> Asked(p, j)
      /\ Unsubmitted(j)' <=> Unsubmitted(j)
      /\ ran' = ran
  BY DEF Pop, Asked, Unsubmitted, history
<1>8. PlaceOK(j)'
  BY <1>1, <1>3, <1>4, <1>5, <1>6, <1>7 DEF OnceOK, PlaceOK
<1>9. ToStart(j)' => ToStart(j)
  BY <1>3, <1>4, <1>6, <1>7 DEF ToStart
<1> QED
  BY <1>1, <1>7, <1>8, <1>9 DEF OnceOK

LEMMA OnceMark ==
    ASSUME TypeInv, OnceInv, NEW h \in Handlers, Mark(h)
    PROVE  OnceInv'
<1> SUFFICES ASSUME NEW j \in Jobs PROVE OnceOK(j)'
  BY DEF OnceInv
<1>1. /\ serve \in [Handlers -> Request] /\ phone \in [Phones -> Agent]
      /\ serve[h].at = "mark" /\ OnceOK(j)
  BY DEF TypeInv, HandlersOK, AgentsOK, Mark, Serves, OnceInv
<1>2. \A g \in Handlers : Claimed(g, j)' => Claimed(g, j) /\ g # h
  BY <1>1 DEF Mark, Reply, Claimed, IdleRequest
<1>3. \A p \in Phones : Asked(p, j)' =>
        \/ Asked(p, j)
        \/ Claimed(h, j) /\ p = serve[h].phone
  <2> DEFINE a == [IdleAgent EXCEPT !.at = "asking", !.job = serve[h].job]
  <2>1. a.job = serve[h].job
    BY DEF IdleAgent
  <2>2. \/ phone' = phone
        \/ phone' = [phone EXCEPT ![serve[h].phone] = a]
    BY DEF Mark, Reply, Hears
  <2> HIDE DEF a
  <2> QED
    BY <1>1, <2>1, <2>2 DEF Asked, Claimed
<1>4. /\ Unsubmitted(j)' <=> Unsubmitted(j)
      /\ Listed(j)' <=> Listed(j)
      /\ ListedOnce(j)' <=> ListedOnce(j)
      /\ ran' = ran
  BY DEF Mark, Unsubmitted, Listed, ListedOnce, history
<1>5. PlaceOK(j)'
  BY <1>1, <1>2, <1>3, <1>4 DEF OnceOK, PlaceOK
<1>6. ToStart(j)' => ToStart(j)
  BY <1>2, <1>3, <1>4 DEF ToStart
<1> QED
  BY <1>1, <1>4, <1>5, <1>6 DEF OnceOK

LEMMA OnceApprove ==
    ASSUME TypeInv, OnceInv, NEW p \in Phones, Approve(p)
    PROVE  OnceInv'
<1> SUFFICES ASSUME NEW j \in Jobs PROVE OnceOK(j)'
  BY DEF OnceInv
<1>1. /\ phone \in [Phones -> Agent] /\ ran \in [Jobs -> Nat] /\ phone[p].at = "asking"
      /\ OnceOK(j)
  BY DEF TypeInv, AgentsOK, HistoryOK, Approve, Doing, OnceInv
<1>2. \A q \in Phones : Asked(q, j)' => Asked(q, j) /\ q # p
  BY <1>1 DEF Approve, Hears, Asked, Agent
<1>3. /\ Unsubmitted(j)' <=> Unsubmitted(j)
      /\ Listed(j)' <=> Listed(j)
      /\ ListedOnce(j)' <=> ListedOnce(j)
      /\ \A h \in Handlers : Claimed(h, j)' <=> Claimed(h, j)
  BY DEF Approve, Unsubmitted, Listed, ListedOnce, Claimed, redis
<1>4. PlaceOK(j)'
  BY <1>1, <1>2, <1>3 DEF OnceOK, PlaceOK
<1>5. ToStart(j)' => ToStart(j)
  BY <1>2, <1>3 DEF ToStart
<1>6. CASE Asked(p, j)
  <2>1. ran[j] = 0 /\ ran'[j] = 1
    BY <1>1, <1>6 DEF Approve, Asked, OnceOK, ToStart
  <2>2. ~ToStart(j)'
    BY <1>1, <1>2, <1>3, <1>6 DEF ToStart, OnceOK, PlaceOK
  <2> QED
    BY <1>4, <2>1, <2>2 DEF OnceOK
<1>7. CASE ~Asked(p, j)
  <2>1. ran'[j] = ran[j]
    BY <1>1, <1>7 DEF Approve, Asked
  <2> QED
    BY <1>1, <1>4, <1>5, <2>1 DEF OnceOK
<1> QED
  BY <1>6, <1>7

LEMMA OnceNext == TypeInv /\ OnceInv /\ [Next]_vars => OnceInv'
<1> SUFFICES ASSUME TypeInv, OnceInv, [Next]_vars PROVE OnceInv'
  OBVIOUS
<1>1. /\ serve \in [Handlers -> Request] /\ phone \in [Phones -> Agent]
      /\ \A j \in Jobs : OnceOK(j)
  BY DEF TypeInv, HandlersOK, AgentsOK, OnceInv
<1>2. ASSUME NEW i \in Jobs, Admit(i) \/ Store(i) \/ Arm(i) \/ SubmitFails(i)
      PROVE  OnceInv'
  <2> SUFFICES ASSUME NEW j \in Jobs PROVE OnceOK(j)'
    BY DEF OnceInv
  <2>1. Unsubmitted(j)' => Unsubmitted(j)
    BY <1>2 DEF Admit, Store, Arm, SubmitFails, Submitting, Unsubmitted, TypeInv, SubmitOK
  <2>2. /\ list' = list /\ ran' = ran
        /\ \A h \in Handlers : Claimed(h, j)' <=> Claimed(h, j)
        /\ \A p \in Phones : Asked(p, j)' <=> Asked(p, j)
    BY <1>2 DEF Admit, Store, Arm, SubmitFails, Claimed, Asked, redis, history
  <2> QED
    BY <1>1, <2>1, <2>2, OnceKept
\* A request that ends without giving its phone a job.
<1>3. ASSUME NEW h \in Handlers, NEW a, a.at # "asking", Reply(h, a),
             UNCHANGED <<list, submit, ran>>
      PROVE  OnceInv'
  <2> SUFFICES ASSUME NEW j \in Jobs PROVE OnceOK(j)'
    BY DEF OnceInv
  <2>1. Unsubmitted(j)' <=> Unsubmitted(j)
    BY <1>3 DEF Unsubmitted
  <2> QED
    BY <1>1, <1>3, <2>1, ReplyPlaces, OnceKept
<1>4. ASSUME NEW h \in Handlers, PopEmpty(h) \/ Refuse(h) \/ StoreResult(h) \/ HandlerFails(h)
      PROVE  OnceInv'
  <2>1. IdleAgent.at # "asking" /\ Unanswered(phone[serve[h].phone]).at # "asking"
    BY <1>1, UnansweredPlace DEF IdleAgent, Request
  <2> QED
    BY <1>3, <1>4, <2>1 DEF PopEmpty, Refuse, StoreResult, HandlerFails, redis, history
<1>5. ASSUME NEW h \in Handlers, Get(h) \/ Check(h)
      PROVE  OnceInv'
  <2> SUFFICES ASSUME NEW j \in Jobs PROVE OnceOK(j)'
    BY DEF OnceInv
  <2>1. \A g \in Handlers : Claimed(g, j)' => Claimed(g, j)
    BY <1>1, <1>5 DEF Get, Check, Serves, Claimed, Request
  <2>2. /\ list' = list /\ ran' = ran /\ (Unsubmitted(j)' <=> Unsubmitted(j))
        /\ \A p \in Phones : Asked(p, j)' <=> Asked(p, j)
    BY <1>5 DEF Get, Check, Asked, Unsubmitted, redis, history
  <2> QED
    BY <1>1, <2>1, <2>2, OnceKept
<1>6. ASSUME NEW p \in Phones, NEW h \in Handlers, Poll(p, h) \/ Post(p, h)
      PROVE  OnceInv'
  <2> SUFFICES ASSUME NEW j \in Jobs PROVE OnceOK(j)'
    BY DEF OnceInv
  <2>1. \A g \in Handlers : Claimed(g, j)' => Claimed(g, j)
    BY <1>1, <1>6 DEF Poll, Post, Send, Claimed
  <2>2. \A q \in Phones : Asked(q, j)' => Asked(q, j)
    BY <1>1, <1>6 DEF Poll, Post, Hears, Asked, IdleAgent, Agent
  <2>3. list' = list /\ ran' = ran /\ (Unsubmitted(j)' <=> Unsubmitted(j))
    BY <1>6 DEF Poll, Post, Unsubmitted, redis, history
  <2> QED
    BY <1>1, <2>1, <2>2, <2>3, OnceKept
<1>7. ASSUME NEW p \in Phones, NEW outcome \in Final, Deny(p) \/ Finish(p, outcome)
      PROVE  OnceInv'
  <2> SUFFICES ASSUME NEW j \in Jobs PROVE OnceOK(j)'
    BY DEF OnceInv
  <2>1. \A q \in Phones : Asked(q, j)' => Asked(q, j)
    BY <1>1, <1>7 DEF Deny, Finish, Hears, Asked, Agent
  <2>2. /\ list' = list /\ ran' = ran /\ (Unsubmitted(j)' <=> Unsubmitted(j))
        /\ \A h \in Handlers : Claimed(h, j)' <=> Claimed(h, j)
    BY <1>7 DEF Deny, Finish, Unsubmitted, Claimed, redis, history
  <2> QED
    BY <1>1, <2>1, <2>2, OnceKept
<1>8. ASSUME NEW p \in Phones, GivesUpWaiting(p) \/ AgentRestarts(p)
      PROVE  OnceInv'
  <2> SUFFICES ASSUME NEW j \in Jobs PROVE OnceOK(j)'
    BY DEF OnceInv
  <2>1. \A h \in Handlers : Claimed(h, j)' => Claimed(h, j)
    BY <1>1, <1>8 DEF GivesUpWaiting, AgentRestarts, Released, Claimed, Request
  <2>2. Unanswered(phone[p]).at # "asking" /\ IdleAgent.at # "asking"
    BY <1>1, UnansweredPlace DEF IdleAgent
  <2>3. \A q \in Phones : Asked(q, j)' => Asked(q, j)
    BY <1>1, <1>8, <2>2 DEF GivesUpWaiting, AgentRestarts, Hears, Asked
  <2>4. list' = list /\ ran' = ran /\ (Unsubmitted(j)' <=> Unsubmitted(j))
    BY <1>8 DEF GivesUpWaiting, AgentRestarts, Unsubmitted, redis, history
  <2> QED
    BY <1>1, <2>1, <2>3, <2>4, OnceKept
<1>9. CASE Tick
  <2> SUFFICES ASSUME NEW j \in Jobs PROVE OnceOK(j)'
    BY DEF OnceInv
  <2>1. \A q \in Phones : Asked(q, j)' => Asked(q, j)
    BY <1>1, <1>9 DEF Tick, Asked, Agent
  <2>2. /\ list' = list \/ list' = << >>
        /\ ran' = ran /\ (Unsubmitted(j)' <=> Unsubmitted(j))
        /\ \A h \in Handlers : Claimed(h, j)' <=> Claimed(h, j)
    BY <1>9 DEF Tick, Unsubmitted, Claimed
  <2> QED
    BY <1>1, <2>1, <2>2, OnceKept
<1>10. CASE UNCHANGED vars
  <2> SUFFICES ASSUME NEW j \in Jobs PROVE OnceOK(j)'
    BY DEF OnceInv
  <2> QED
    BY <1>1, <1>10, OnceKept DEF vars, Unsubmitted, Claimed, Asked
<1>11. \E outcome \in Final : TRUE
  BY DEF Final
<1> QED
  BY <1>2, <1>4, <1>5, <1>6, <1>7, <1>8, <1>9, <1>10, <1>11,
     OncePush, OncePop, OnceMark, OnceApprove
  DEF Next, Submission, Handling, AgentStep, Failure

\* Whatever requests are abandoned, repeated or answered late, whatever agents
\* poll at once or restart, and whatever expires: no agent starts the command
\* of a job that was started before.
THEOREM OnceCorrect == Spec => []AtMostOnce
<1>1. Init => OnceInv
  BY DEF Init, OnceInv, OnceOK, PlaceOK, ListedOnce, Listed, ToStart, Claimed, Asked,
         IdleRequest, IdleAgent, Unsubmitted
<1>2. OnceInv => AtMostOnce
  BY DEF OnceInv, OnceOK, AtMostOnce
<1> QED
  BY <1>1, <1>2, OnceNext, TypeInvariant, PTL DEF Spec

-----------------------------------------------------------------------------
(* Where a job is: with its caller, in the list or with a claim before any   *)
(* agent has it, then with one agent, then in the posts of its result, which *)
(* all say the same.                                                         *)

AtWork == {"asking", "executing"}
Works(p, j) == phone[p].job = j /\ phone[p].at \in AtWork \cup {"posting", "posted"}
Posting(h, j) == serve[h].job = j /\ serve[h].at \in {"check", "store"}
ToClaim(j) == Unsubmitted(j) \/ Listed(j) \/ \E h \in Handlers : Claimed(h, j)

\* No result of the job is on its way, or stored, but this one.
Says(j, outcome) ==
    /\ record[j].status \in Final => record[j].status = outcome
    /\ \A h \in Handlers : Posting(h, j) => serve[h].outcome = outcome

WorkOK(j) ==
    /\ ToClaim(j) =>
        /\ record[j].status \in {"none", "queued"}
        /\ \A p \in Phones : ~Works(p, j)
        /\ \A h \in Handlers : ~Posting(h, j)
    /\ \A h \in Handlers : Claimed(h, j) /\ serve[h].at = "mark" => record[j].status = "queued"
    /\ \A p \in Phones : Works(p, j) =>
        /\ \A q \in Phones : Works(q, j) => q = p
        /\ phone[p].at \in AtWork =>
                record[j].status \notin Final /\ \A h \in Handlers : ~Posting(h, j)
        /\ phone[p].at \notin AtWork => Says(j, phone[p].outcome)
    /\ \A h \in Handlers : Posting(h, j) => Says(j, serve[h].outcome)
    /\ \A h \in Handlers : Posting(h, j) /\ serve[h].at = "store" =>
            record[j].status \in {"running"} \cup Final

WorkInv == \A j \in Jobs : WorkOK(j)

\* A step that hands the job to nobody new and records nothing of it.
LEMMA WorkKept ==
    ASSUME NEW j \in Jobs, WorkOK(j), record'[j].status = record[j].status,
           ToClaim(j)' => ToClaim(j),
           \A h \in Handlers : Claimed(h, j)' /\ serve'[h].at = "mark" => record[j].status = "queued",
           \A p \in Phones : Works(p, j)' =>
                /\ Works(p, j)
                /\ phone'[p].at \in AtWork => phone[p].at \in AtWork
                /\ phone[p].at \notin AtWork => phone'[p].outcome = phone[p].outcome,
           \A h \in Handlers : Posting(h, j)' =>
                /\ Posting(h, j) /\ serve'[h].outcome = serve[h].outcome
                /\ serve'[h].at = "store" => serve[h].at = "store" \/ record[j].status = "running"
    PROVE  WorkOK(j)'
<1>1. \A x : Says(j, x) => Says(j, x)'
  BY DEF Says
<1>2. \A p \in Phones : Works(p, j)' /\ phone'[p].at \notin AtWork => Says(j, phone[p].outcome)'
  <2> SUFFICES ASSUME NEW p \in Phones, Works(p, j)', phone'[p].at \notin AtWork
               PROVE  Says(j, phone[p].outcome)'
    OBVIOUS
  <2> DEFINE x == phone'[p].outcome
  <2>1. Says(j, x)
    BY DEF WorkOK, Says
  <2> HIDE DEF x
  <2>2. \A y : y = x => Says(j, y)'
    BY <1>1, <2>1
  <2> QED BY <2>2 DEF x, Says
<1>3. \A h \in Handlers : Posting(h, j)' => Says(j, serve[h].outcome)'
  BY <1>1 DEF WorkOK, Says
<1>4. \A p \in Phones : Works(p, j)' =>
        /\ \A q \in Phones : Works(q, j)' => q = p
        /\ phone'[p].at \in AtWork =>
                record'[j].status \notin Final /\ \A h \in Handlers : ~Posting(h, j)'
  BY DEF WorkOK
<1>5. ToClaim(j)' =>
        /\ record'[j].status \in {"none", "queued"}
        /\ \A p \in Phones : ~Works(p, j)'
        /\ \A h \in Handlers : ~Posting(h, j)'
  BY DEF WorkOK
<1>6. \A h \in Handlers : Posting(h, j)' /\ serve'[h].at = "store" =>
            record'[j].status \in {"running"} \cup Final
  BY DEF WorkOK
<1> QED BY <1>2, <1>3, <1>4, <1>5, <1>6 DEF WorkOK

\* A job no longer waits to be claimed but for one reason.
LEMMA ListKept ==
    ASSUME NEW j, list' = list \/ list' = << >>, Unsubmitted(j)' => Unsubmitted(j),
           \A h \in Handlers : Claimed(h, j)' => Claimed(h, j)
    PROVE  ToClaim(j)' => ToClaim(j)
  BY DEF ToClaim, Listed

\* What a handler's last step leaves of it, and of its phone.
LEMMA ReplyWork ==
    ASSUME TypeInv, NEW h \in Handlers, NEW a, Reply(h, a), NEW j \in Jobs
    PROVE  /\ \A g \in Handlers : Claimed(g, j)' => Claimed(g, j) /\ serve'[g] = serve[g]
           /\ \A g \in Handlers : Posting(g, j)' => Posting(g, j) /\ serve'[g] = serve[g]
           /\ \A p \in Phones : phone'[p] = phone[p] \/ (p = serve[h].phone /\ phone'[p] = a)
<1>1. serve \in [Handlers -> Request] /\ phone \in [Phones -> Agent]
  BY DEF TypeInv, HandlersOK, AgentsOK
<1>2. ASSUME NEW g \in Handlers, Claimed(g, j)' PROVE Claimed(g, j) /\ serve'[g] = serve[g]
  BY <1>1, <1>2 DEF Reply, Claimed, IdleRequest
<1>3. ASSUME NEW g \in Handlers, Posting(g, j)' PROVE Posting(g, j) /\ serve'[g] = serve[g]
  BY <1>1, <1>3 DEF Reply, Posting, IdleRequest
<1>4. \A p \in Phones : phone'[p] = phone[p] \/ (p = serve[h].phone /\ phone'[p] = a)
  BY <1>1 DEF Reply, Hears
<1> QED
  BY <1>2, <1>3, <1>4

\* An agent whose request brings nothing has its result still, or nothing at all.
LEMMA UnansweredWork ==
    ASSUME TypeInv, NEW p \in Phones
    PROVE  LET a == Unanswered(phone[p])
           IN  \/ a.job = NoJob /\ a.at = "idle"
               \/ /\ phone[p].at = "posted" /\ a.at = "posting"
                  /\ a.job = phone[p].job /\ a.outcome = phone[p].outcome
  BY DEF Unanswered, Retried, IdleAgent, TypeInv, AgentsOK, Agent

\* A request that ends, and does not hand over a job or store a result.
LEMMA WorkReplied ==
    ASSUME TypeInv, WorkInv, NEW h \in Handlers, NEW a, Reply(h, a),
           a.job = NoJob \/ (/\ phone[serve[h].phone].at = "posted" /\ a.at = "posting"
                             /\ a.job = phone[serve[h].phone].job
                             /\ a.outcome = phone[serve[h].phone].outcome),
           UNCHANGED <<record, list, submit>>
    PROVE  WorkInv'
<1> SUFFICES ASSUME NEW j \in Jobs PROVE WorkOK(j)'
  BY DEF WorkInv
<1>1. ToClaim(j)' => ToClaim(j)
  BY ReplyWork, ListKept DEF Unsubmitted
<1>2. NoJob # j
  BY DEF NoJob, Jobs
<1>3. \A p \in Phones : Works(p, j)' =>
                /\ Works(p, j)
                /\ phone'[p].at \in AtWork => phone[p].at \in AtWork
                /\ phone[p].at \notin AtWork => phone'[p].outcome = phone[p].outcome
  BY <1>2, ReplyWork DEF Works, AtWork
<1> QED BY <1>1, <1>3, ReplyWork, WorkKept DEF WorkInv, WorkOK

LEMMA WorkSubmit ==
    ASSUME TypeInv, OnceInv, WorkInv, NEW i \in Jobs,
           Admit(i) \/ Store(i) \/ Push(i) \/ Arm(i) \/ SubmitFails(i)
    PROVE  WorkInv'
<1> SUFFICES ASSUME NEW j \in Jobs PROVE WorkOK(j)'
  BY DEF WorkInv
<1>0. WorkOK(j) /\ submit \in [Jobs -> {"new", "refused", "store", "push", "arm", "sent", "failed"}]
  BY DEF WorkInv, TypeInv, SubmitOK
<1>1. UNCHANGED <<serve, phone>>
  BY DEF Admit, Store, Push, Arm, SubmitFails
<1>2. /\ \A h \in Handlers : Claimed(h, j)' <=> Claimed(h, j)
      /\ \A h \in Handlers : Posting(h, j)' <=> Posting(h, j)
      /\ \A p \in Phones : Works(p, j)' <=> Works(p, j)
  BY <1>1 DEF Claimed, Posting, Works
<1>3. ToClaim(j)' => ToClaim(j)
  <2>1. CASE Push(i)
    <3>1. list \in Seq(Jobs) /\ Len(list) \in Nat /\ Unsubmitted(i)
      BY <2>1 DEF TypeInv, RedisOK, Push, Unsubmitted
    <3>2. /\ Len(list') = Len(list) + 1 /\ list'[Len(list) + 1] = i
          /\ \A k \in 1 .. Len(list) : list'[k] = list[k]
      BY <2>1, <3>1, AppendProperties DEF Push
    <3>3. Listed(j)' => Listed(j) \/ j = i
      BY <3>1, <3>2 DEF Listed
    <3>4. Unsubmitted(j)' => Unsubmitted(j)
      BY <1>0, <2>1 DEF Push, Unsubmitted
    <3> QED BY <1>2, <3>1, <3>3, <3>4 DEF ToClaim
  <2>2. CASE ~Push(i)
    <3>1. list' = list /\ (Unsubmitted(j)' => Unsubmitted(j))
      BY <1>0, <2>2 DEF Admit, Store, Arm, SubmitFails, Submitting, Unsubmitted, redis
    <3> QED BY <1>2, <3>1, ListKept
  <2> QED BY <2>1, <2>2
<1>4. CASE Store(i) /\ i = j
  <2>1. ToClaim(j) /\ record'[j].status = "queued"
    BY <1>4 DEF Store, ToClaim, Unsubmitted, TypeInv, RedisOK
  <2> QED BY <1>0, <1>1, <1>2, <2>1 DEF WorkOK
<1>5. CASE ~(Store(i) /\ i = j)
  <2>1. record'[j].status = record[j].status
    BY <1>5 DEF Admit, Store, Push, Arm, SubmitFails, redis, TypeInv, RedisOK
  <2> QED BY <1>0, <1>1, <1>2, <1>3, <2>1, WorkKept DEF WorkOK
<1> QED BY <1>4, <1>5

LEMMA WorkPop ==
    ASSUME TypeInv, WorkInv, NEW h \in Handlers, Pop(h)
    PROVE  WorkInv'
<1> SUFFICES ASSUME NEW j \in Jobs PROVE WorkOK(j)'
  BY DEF WorkInv
<1>0. WorkOK(j) /\ serve \in [Handlers -> Request] /\ list \in Seq(Jobs) /\ list # << >>
      /\ Len(list) \in Nat \ {0}
  BY DEF WorkInv, TypeInv, HandlersOK, RedisOK, Pop, NothingToPop
<1>1. /\ Len(list') = Len(list) - 1 /\ Head(list) = list[1]
      /\ \A k \in 1 .. Len(list') : list'[k] = list[k + 1]
  BY <1>0, HeadTailProperties DEF Pop
<1>2. /\ \A g \in Handlers : Claimed(g, j)' => Claimed(g, j) \/ j = Head(list)
      /\ \A g \in Handlers : Claimed(g, j)' /\ serve'[g].at = "mark" => serve'[g] = serve[g]
      /\ \A g \in Handlers : Posting(g, j)' => Posting(g, j) /\ serve'[g] = serve[g]
  BY <1>0 DEF Pop, Claimed, Posting, Request
<1>3. UNCHANGED <<record, phone, submit>>
  BY DEF Pop
<1>4. ToClaim(j)' => ToClaim(j)
  <2>1. j = Head(list) => Listed(j)
    BY <1>0, <1>1 DEF Listed
  <2>2. Listed(j)' => Listed(j)
    BY <1>0, <1>1 DEF Listed
  <2> QED BY <1>2, <1>3, <2>1, <2>2 DEF ToClaim, Unsubmitted
<1>5. \A p \in Phones : Works(p, j)' <=> Works(p, j)
  BY <1>3 DEF Works
<1>6. \A g \in Handlers : Claimed(g, j)' /\ serve'[g].at = "mark" => record[j].status = "queued"
  BY <1>0, <1>2 DEF WorkOK, Claimed
<1> QED BY <1>0, <1>2, <1>3, <1>4, <1>5, <1>6, WorkKept

LEMMA WorkLook ==
    ASSUME TypeInv, WorkInv, NEW h \in Handlers, Get(h) \/ Check(h)
    PROVE  WorkInv'
<1> SUFFICES ASSUME NEW j \in Jobs PROVE WorkOK(j)'
  BY DEF WorkInv
<1>0. WorkOK(j) /\ serve \in [Handlers -> Request]
  BY DEF WorkInv, TypeInv, HandlersOK
<1>1. UNCHANGED <<record, list, phone, submit>>
  BY DEF Get, Check, redis
<1>2. /\ \A g \in Handlers : Claimed(g, j)' => Claimed(g, j)
      /\ \A g \in Handlers : Claimed(g, j)' /\ serve'[g].at = "mark" =>
            serve'[g] = serve[g] \/ record[j].status = "queued"
  BY <1>0 DEF Get, Check, Serves, Claimed, Request
<1>3. \A g \in Handlers : Posting(g, j)' =>
            /\ Posting(g, j) /\ serve'[g].outcome = serve[g].outcome
            /\ serve'[g].at = "store" => serve[g].at = "store" \/ record[j].status = "running"
  BY <1>0 DEF Get, Check, IsRunning, Serves, Posting, Request
<1>4. ToClaim(j)' => ToClaim(j)
  BY <1>1, <1>2, ListKept DEF Unsubmitted
<1>5. \A p \in Phones : Works(p, j)' <=> Works(p, j)
  BY <1>1 DEF Works
<1>6. \A g \in Handlers : Claimed(g, j)' /\ serve'[g].at = "mark" => record[j].status = "queued"
  BY <1>0, <1>2 DEF WorkOK, Claimed
<1> QED BY <1>0, <1>1, <1>3, <1>4, <1>5, <1>6, WorkKept

\* The job goes from the claim to the agent, which is the first to have it.
LEMMA WorkMark ==
    ASSUME TypeInv, OnceInv, WorkInv, NEW h \in Handlers, Mark(h)
    PROVE  WorkInv'
<1> SUFFICES ASSUME NEW j \in Jobs PROVE WorkOK(j)'
  BY DEF WorkInv
<1> DEFINE i == serve[h].job
           a == [IdleAgent EXCEPT !.at = "asking", !.job = i]
<1>0. /\ serve \in [Handlers -> Request] /\ phone \in [Phones -> Agent] /\ record \in [Jobs -> Record]
      /\ serve[h].at = "mark" /\ i \in Jobs /\ Claimed(h, i) /\ OnceOK(j) /\ WorkOK(j)
  BY DEF TypeInv, HandlersOK, AgentsOK, RedisOK, Mark, Serves, OnceInv, WorkInv, Claimed, Fit
<1>1. a.at = "asking" /\ a.job = i
  BY DEF IdleAgent
<1>2. Reply(h, a) /\ UNCHANGED <<list, submit>>
      /\ record' = [record EXCEPT ![i] = [status |-> "running", ttl |-> RunningTtl]]
  BY DEF Mark
<1> HIDE DEF a
<1>3. /\ \A g \in Handlers : Claimed(g, j)' => Claimed(g, j) /\ serve'[g] = serve[g]
      /\ \A g \in Handlers : Posting(g, j)' => Posting(g, j) /\ serve'[g] = serve[g]
      /\ \A p \in Phones : phone'[p] = phone[p] \/ (p = serve[h].phone /\ phone'[p] = a)
  BY <1>2, ReplyWork
<1>4. ToClaim(j)' => ToClaim(j)
  BY <1>2, <1>3, ListKept DEF Unsubmitted
<1>5. CASE i = j
  <2>1. ToClaim(j) /\ record'[j].status = "running"
    BY <1>0, <1>2, <1>5 DEF ToClaim
  <2>2. \A p \in Phones : Works(p, j)' => p = serve[h].phone /\ phone'[p] = a
    BY <1>0, <1>3, <2>1 DEF Works, WorkOK
  <2>3. \A g \in Handlers : ~Posting(g, j)'
    BY <1>0, <1>3, <2>1 DEF WorkOK
  <2>4. \A g \in Handlers : ~Claimed(g, j)'
    <3>1. serve'[h].at = "idle"
      BY <1>0, <1>2 DEF Reply, IdleRequest
    <3> QED BY <1>0, <1>3, <1>5, <3>1 DEF Claimed, OnceOK, PlaceOK
  <2>5. ~ToClaim(j)'
    BY <1>0, <1>2, <1>5, <2>4 DEF OnceOK, PlaceOK, ToClaim, Unsubmitted, Listed
  <2> QED BY <1>1, <2>1, <2>2, <2>3, <2>4, <2>5 DEF WorkOK, AtWork, Final
<1>6. CASE i # j
  <2>1. record'[j].status = record[j].status
    BY <1>0, <1>2, <1>6
  <2>2. \A p \in Phones : Works(p, j)' => Works(p, j) /\ phone'[p] = phone[p]
    BY <1>1, <1>3, <1>6 DEF Works
  <2> QED BY <1>0, <1>3, <1>4, <2>1, <2>2, WorkKept DEF WorkOK
<1> QED BY <1>5, <1>6

\* A result is stored over the running state, or over itself.
LEMMA WorkStored ==
    ASSUME TypeInv, WorkInv, NEW h \in Handlers, StoreResult(h)
    PROVE  WorkInv'
<1> SUFFICES ASSUME NEW j \in Jobs PROVE WorkOK(j)'
  BY DEF WorkInv
<1> DEFINE i == serve[h].job
           x == serve[h].outcome
<1>0. /\ serve \in [Handlers -> Request] /\ phone \in [Phones -> Agent] /\ record \in [Jobs -> Record]
      /\ serve[h].at = "store" /\ i \in Jobs /\ Posting(h, i) /\ WorkOK(j) /\ x \in Final
  BY DEF TypeInv, HandlersOK, AgentsOK, RedisOK, StoreResult, Serves, WorkInv, Posting, Fit, Request
<1>1. Reply(h, IdleAgent) /\ UNCHANGED <<list, submit>>
      /\ record' = [record EXCEPT ![i] = [status |-> x, ttl |-> JobTTL]]
  BY DEF StoreResult
<1>2. /\ \A g \in Handlers : Claimed(g, j)' => Claimed(g, j) /\ serve'[g] = serve[g]
      /\ \A g \in Handlers : Posting(g, j)' => Posting(g, j) /\ serve'[g] = serve[g]
      /\ \A p \in Phones : phone'[p] = phone[p] \/ (p = serve[h].phone /\ phone'[p] = IdleAgent)
  BY <1>1, ReplyWork
<1>3. ToClaim(j)' => ToClaim(j)
  BY <1>1, <1>2, ListKept DEF Unsubmitted
<1>4. \A p \in Phones : Works(p, j)' => Works(p, j) /\ phone'[p] = phone[p]
  <2>1. IdleAgent.job # j
    BY DEF IdleAgent, NoJob, Jobs
  <2> QED BY <1>2, <2>1 DEF Works
<1>5. CASE i = j
  <2>1. ~ToClaim(j) /\ record'[j].status = x
    BY <1>0, <1>1, <1>5 DEF WorkOK
  <2>2. \A p \in Phones : Works(p, j)' => phone'[p].at \notin AtWork /\ phone'[p].outcome = x
    BY <1>0, <1>4, <1>5 DEF WorkOK, Says
  <2>3. \A g \in Handlers : Posting(g, j)' => serve'[g].outcome = x
    BY <1>0, <1>2, <1>5 DEF WorkOK, Says
  <2>4. \A y : y = x => Says(j, y)'
    BY <2>1, <2>3 DEF Says
  <2>5. \A g \in Handlers : ~Claimed(g, j)'
    BY <1>2, <2>1 DEF ToClaim
  <2>6. \A p, q \in Phones : Works(p, j)' /\ Works(q, j)' => q = p
    BY <1>0, <1>4 DEF WorkOK
  <2>7. \A p \in Phones : Works(p, j)' => Says(j, phone[p].outcome)'
    BY <2>2, <2>4
  <2>8. \A g \in Handlers : Posting(g, j)' => Says(j, serve[g].outcome)'
    BY <2>3, <2>4
  <2> QED BY <1>0, <1>3, <2>1, <2>2, <2>5, <2>6, <2>7, <2>8 DEF WorkOK
<1>6. CASE i # j
  <2>1. record'[j].status = record[j].status
    BY <1>0, <1>1, <1>6
  <2> QED BY <1>0, <1>2, <1>3, <1>4, <2>1, WorkKept DEF WorkOK
<1> QED BY <1>5, <1>6

LEMMA WorkAgent ==
    ASSUME TypeInv, WorkInv, NEW p \in Phones, AgentStep(p)
    PROVE  WorkInv'
<1> SUFFICES ASSUME NEW j \in Jobs PROVE WorkOK(j)'
  BY DEF WorkInv
<1>0. WorkOK(j) /\ serve \in [Handlers -> Request] /\ phone \in [Phones -> Agent]
  BY DEF WorkInv, TypeInv, HandlersOK, AgentsOK
<1>1. UNCHANGED <<record, list, submit>>
  BY DEF AgentStep, Poll, Post, Approve, Deny, Finish, redis
<1>2. CASE Approve(p) \/ Deny(p) \/ \E outcome \in Final : Finish(p, outcome)
  <2>1. UNCHANGED serve
    BY <1>2 DEF Approve, Deny, Finish
  <2>2. \A q \in Phones : Works(q, j)' =>
            /\ Works(q, j)
            /\ phone'[q].at \in AtWork => phone[q].at \in AtWork
            /\ phone[q].at \notin AtWork => phone'[q].outcome = phone[q].outcome
    <3>1. phone[p].at \in AtWork /\ \A q \in Phones \ {p} : phone'[q] = phone[q]
      BY <1>0, <1>2 DEF Approve, Deny, Finish, Doing, Hears, AtWork
    <3>2. phone'[p].job = phone[p].job
      <4>1. phone[p] \in Agent
        BY <1>0
      <4>2. \/ phone'[p] = [phone[p] EXCEPT !.at = "executing", !.age = 0]
            \/ \E outcome \in Final :
                  phone'[p] = [phone[p] EXCEPT !.at = "posting", !.age = 0, !.outcome = outcome]
        BY <1>0, <1>2 DEF Approve, Deny, Finish, Hears, Final
      <4> QED BY <4>1, <4>2 DEF Agent
    <3>3. ASSUME NEW q \in Phones, phone'[q] = phone[q], Works(q, j)'
          PROVE  /\ Works(q, j)
                 /\ phone'[q].at \in AtWork => phone[q].at \in AtWork
                 /\ phone[q].at \notin AtWork => phone'[q].outcome = phone[q].outcome
      BY <3>3 DEF Works
    <3>4. Works(p, j)' => Works(p, j)
      BY <3>1, <3>2 DEF Works
    <3> QED BY <3>1, <3>3, <3>4
  <2>3. /\ \A h \in Handlers : Claimed(h, j)' <=> Claimed(h, j)
        /\ \A h \in Handlers : Posting(h, j)' <=> Posting(h, j)
    BY <2>1 DEF Claimed, Posting
  <2>4. ToClaim(j)' => ToClaim(j)
    BY <1>1, <2>3, ListKept DEF Unsubmitted
  <2> QED BY <1>0, <1>1, <2>1, <2>2, <2>3, <2>4, WorkKept DEF WorkOK
<1>3. ASSUME NEW h \in Handlers, Poll(p, h) PROVE WorkOK(j)'
  <2>1. \A q \in Phones : Works(q, j)' => Works(q, j) /\ phone'[q] = phone[q]
    BY <1>0, <1>3 DEF Poll, Hears, Works, AtWork, IdleAgent
  <2>2. /\ \A g \in Handlers : Claimed(g, j)' => Claimed(g, j) /\ serve'[g] = serve[g]
        /\ \A g \in Handlers : Posting(g, j)' => Posting(g, j) /\ serve'[g] = serve[g]
    BY <1>0, <1>3 DEF Poll, Send, Claimed, Posting
  <2>3. ToClaim(j)' => ToClaim(j)
    BY <1>1, <2>2, ListKept DEF Unsubmitted
  <2> QED BY <1>0, <1>1, <2>1, <2>2, <2>3, WorkKept DEF WorkOK
<1>4. ASSUME NEW h \in Handlers, Post(p, h) PROVE WorkOK(j)'
  <2>0. phone[p].at = "posting"
    BY <1>4 DEF Post, Doing
  <2>1. \A q \in Phones : Works(q, j)' =>
            /\ Works(q, j)
            /\ phone'[q].at \in AtWork => phone[q].at \in AtWork
            /\ phone'[q].outcome = phone[q].outcome
    BY <1>0, <1>4, <2>0 DEF Post, Hears, Works, AtWork, Agent
  <2>2. /\ serve'[h].at = "check" /\ serve'[h].job = phone[p].job /\ serve'[h].outcome = phone[p].outcome
        /\ \A g \in Handlers \ {h} : serve'[g] = serve[g]
    BY <1>0, <1>4 DEF Post, Send
  <2>3. \A g \in Handlers : Claimed(g, j)' => Claimed(g, j) /\ serve'[g] = serve[g]
    BY <2>2 DEF Claimed
  <2>4. ToClaim(j)' => ToClaim(j)
    BY <1>1, <2>3, ListKept DEF Unsubmitted
  <2>5. CASE phone[p].job # j
    <3>1. \A g \in Handlers : Posting(g, j)' => Posting(g, j) /\ serve'[g] = serve[g]
      BY <2>2, <2>5 DEF Posting
    <3> QED BY <1>0, <1>1, <2>1, <2>3, <2>4, <3>1, WorkKept DEF WorkOK
  <2>6. CASE phone[p].job = j
    <3> DEFINE x == phone[p].outcome
    <3>1. Works(p, j) /\ Says(j, x)
      BY <1>0, <2>0, <2>6 DEF Works, AtWork, WorkOK
    <3>2. \A g \in Handlers : Posting(g, j)' => serve'[g].outcome = x
      BY <2>2, <3>1 DEF Posting, Says
    <3>3. record'[j].status \in Final => record'[j].status = x
      BY <1>1, <3>1 DEF Says
    <3>4. \A y : y = x => Says(j, y)'
      BY <3>2, <3>3 DEF Says
    <3>5. \A q \in Phones : Works(q, j)' =>
                q = p /\ phone'[q].at \notin AtWork /\ phone'[q].outcome = x
      BY <1>0, <2>0, <2>1, <3>1 DEF WorkOK, AtWork
    <3>6. \A q \in Phones : Works(q, j)' => Says(j, phone[q].outcome)'
      BY <3>4, <3>5
    <3>7. \A g \in Handlers : Posting(g, j)' => Says(j, serve[g].outcome)'
      BY <3>2, <3>4
    <3>8. ~ToClaim(j)'
      BY <1>0, <2>4, <3>1 DEF WorkOK
    <3>9. \A g \in Handlers : Posting(g, j)' /\ serve'[g].at = "store" => Posting(g, j) /\ serve[g].at = "store"
      BY <2>2 DEF Posting
    <3> QED BY <1>0, <1>1, <2>3, <3>5, <3>6, <3>7, <3>8, <3>9 DEF WorkOK
  <2> QED BY <2>5, <2>6
<1> QED BY <1>2, <1>3, <1>4 DEF AgentStep

LEMMA WorkFailure ==
    ASSUME TypeInv, WorkInv, NEW p \in Phones, GivesUpWaiting(p) \/ AgentRestarts(p)
    PROVE  WorkInv'
<1> SUFFICES ASSUME NEW j \in Jobs PROVE WorkOK(j)'
  BY DEF WorkInv
<1>0. WorkOK(j) /\ serve \in [Handlers -> Request] /\ phone \in [Phones -> Agent]
  BY DEF WorkInv, TypeInv, HandlersOK, AgentsOK
<1>1. UNCHANGED <<record, list, submit>>
  BY DEF GivesUpWaiting, AgentRestarts, redis
<1>2. /\ \A g \in Handlers : Claimed(g, j)' => Claimed(g, j) /\ serve'[g].at = serve[g].at
      /\ \A g \in Handlers : Posting(g, j)' =>
            Posting(g, j) /\ serve'[g].at = serve[g].at /\ serve'[g].outcome = serve[g].outcome
  BY <1>0 DEF GivesUpWaiting, AgentRestarts, Released, Claimed, Posting, Request
<1>3. \A q \in Phones : Works(q, j)' =>
        /\ Works(q, j)
        /\ phone'[q].at \in AtWork => phone[q].at \in AtWork
        /\ phone[q].at \notin AtWork => phone'[q].outcome = phone[q].outcome
  <2>1. NoJob # j
    BY DEF NoJob, Jobs
  <2>2. \/ phone' = [phone EXCEPT ![p] = Unanswered(phone[p])]
        \/ phone' = [phone EXCEPT ![p] = IdleAgent]
    BY DEF GivesUpWaiting, AgentRestarts, Hears
  <2>3. IdleAgent.job = NoJob
    BY DEF IdleAgent
  <2>4. LET a == Unanswered(phone[p])
        IN  \/ a.job = NoJob /\ a.at = "idle"
            \/ /\ phone[p].at = "posted" /\ a.at = "posting"
               /\ a.job = phone[p].job /\ a.outcome = phone[p].outcome
    BY UnansweredWork
  <2> QED BY <1>0, <2>1, <2>2, <2>3, <2>4 DEF Works, AtWork
<1>4. ToClaim(j)' => ToClaim(j)
  BY <1>1, <1>2, ListKept DEF Unsubmitted
<1> QED BY <1>0, <1>1, <1>2, <1>3, <1>4, WorkKept DEF WorkOK

LEMMA WorkTick == ASSUME TypeInv, WorkInv, Tick PROVE WorkInv'
<1> SUFFICES ASSUME NEW j \in Jobs PROVE WorkOK(j)'
  BY DEF WorkInv
<1>0. WorkOK(j) /\ phone \in [Phones -> Agent] /\ record \in [Jobs -> Record]
  BY DEF WorkInv, TypeInv, AgentsOK, RedisOK
<1>1. UNCHANGED <<submit, serve>> /\ (list' = list \/ list' = << >>)
      /\ \A h \in Handlers : serve[h].at = "idle"
  BY DEF Tick, Busy, Serves
<1>2. record'[j].status \in {record[j].status, "none"}
  BY <1>0 DEF Tick, Aged, NoRecord, Record
<1>3. \A h \in Handlers : ~Claimed(h, j)' /\ ~Posting(h, j)'
  BY <1>1 DEF Claimed, Posting
<1>4. \A p \in Phones : Works(p, j)' =>
        /\ Works(p, j) /\ phone'[p].outcome = phone[p].outcome /\ phone'[p].at = phone[p].at
  BY <1>0 DEF Tick, Works, Agent
<1>5. ToClaim(j)' => ToClaim(j)
  BY <1>1, <1>3, ListKept DEF Unsubmitted
<1>6. \A p \in Phones : Works(p, j)' /\ phone'[p].at \notin AtWork => Says(j, phone[p].outcome)'
  BY <1>0, <1>2, <1>3, <1>4 DEF WorkOK, Says, Final
<1> QED BY <1>0, <1>2, <1>3, <1>4, <1>5, <1>6 DEF WorkOK, Final

LEMMA WorkNext == TypeInv /\ OnceInv /\ WorkInv /\ [Next]_vars => WorkInv'
<1> SUFFICES ASSUME TypeInv, OnceInv, WorkInv, [Next]_vars PROVE WorkInv'
  OBVIOUS
<1>1. ASSUME NEW j \in Jobs, Submission(j) \/ SubmitFails(j) PROVE WorkInv'
  BY <1>1, WorkSubmit DEF Submission
<1>2. ASSUME NEW h \in Handlers, PopEmpty(h) \/ Refuse(h) \/ HandlerFails(h) PROVE WorkInv'
  <2>1. UNCHANGED <<record, list, submit>>
    BY <1>2 DEF PopEmpty, Refuse, HandlerFails, redis
  <2>2. Reply(h, IdleAgent) \/ Reply(h, Unanswered(phone[serve[h].phone]))
    BY <1>2 DEF PopEmpty, Refuse, HandlerFails
  <2>3. serve[h].phone \in Phones
    BY DEF TypeInv, HandlersOK, Request
  <2>4. IdleAgent.job = NoJob
    BY DEF IdleAgent
  <2> QED BY <2>1, <2>2, <2>3, <2>4, UnansweredWork, WorkReplied
<1>3. ASSUME NEW h \in Handlers, Handling(h) PROVE WorkInv'
  BY <1>2, <1>3, WorkPop, WorkLook, WorkMark, WorkStored DEF Handling
<1>4. CASE UNCHANGED vars
  <2> SUFFICES ASSUME NEW j \in Jobs PROVE WorkOK(j)'
    BY DEF WorkInv
  <2>1. UNCHANGED <<record, list, submit, serve, phone>>
    BY <1>4 DEF vars
  <2>2. /\ \A h \in Handlers : Claimed(h, j)' <=> Claimed(h, j)
        /\ \A h \in Handlers : Posting(h, j)' <=> Posting(h, j)
        /\ \A p \in Phones : Works(p, j)' <=> Works(p, j)
    BY <2>1 DEF Claimed, Posting, Works
  <2>3. ToClaim(j)' => ToClaim(j)
    BY <2>1, <2>2, ListKept DEF Unsubmitted
  <2> QED BY <2>1, <2>2, <2>3, WorkKept DEF WorkInv, WorkOK
<1> QED BY <1>1, <1>2, <1>3, <1>4, WorkAgent, WorkFailure, WorkTick DEF Next, Failure

LEMMA WorkInvariant == Spec => [](TypeInv /\ OnceInv /\ WorkInv)
<1>1. Init => OnceInv
  BY DEF Init, OnceInv, OnceOK, PlaceOK, ListedOnce, Listed, ToStart, Claimed, Asked,
         IdleRequest, IdleAgent, Unsubmitted
<1>2. Init => WorkInv
  BY DEF Init, WorkInv, WorkOK, Works, Posting, Claimed, IdleRequest, IdleAgent, AtWork, NoRecord, Final
<1> QED BY <1>1, <1>2, TypeInvariant, OnceNext, WorkNext, PTL DEF Spec

\* A result that is stored stays as it is until it expires: a post that is repeated or late
\* brings the same result, and a claim that is slow to mark its job has it to itself.
THEOREM ResultsStay == Spec => ResultStays
<1>1. TypeInv /\ OnceInv /\ WorkInv /\ [Next]_vars =>
        [\A j \in Jobs : record[j].status \in Final =>
              record'[j].status \in {record[j].status, "none"}]_vars
  <2> SUFFICES ASSUME TypeInv, OnceInv, WorkInv, Next, NEW j \in Jobs, record[j].status \in Final
               PROVE  record'[j].status \in {record[j].status, "none"}
    OBVIOUS
  <2>0. WorkOK(j) /\ record \in [Jobs -> Record]
    BY DEF WorkInv, TypeInv, RedisOK
  <2>1. ASSUME NEW i \in Jobs, Store(i) PROVE record'[j].status = record[j].status
    <3>1. ToClaim(i) /\ WorkOK(i)
      BY <2>1 DEF Store, ToClaim, Unsubmitted, WorkInv
    <3>2. i # j
      BY <3>1 DEF WorkOK, Final
    <3> QED BY <2>0, <2>1, <3>2 DEF Store
  <2>2. ASSUME NEW h \in Handlers, Mark(h) PROVE record'[j].status = record[j].status
    <3>1. Claimed(h, serve[h].job) /\ serve[h].at = "mark"
      BY <2>2 DEF Mark, Serves, Claimed
    <3>2. serve[h].job # j
      BY <2>0, <3>1 DEF WorkOK, Final
    <3> QED BY <2>0, <2>2, <3>2 DEF Mark
  <2>3. ASSUME NEW h \in Handlers, StoreResult(h) PROVE record'[j].status = record[j].status
    <3>1. Posting(h, serve[h].job)
      BY <2>3 DEF StoreResult, Serves, Posting
    <3>2. serve[h].job = j => serve[h].outcome = record[j].status
      BY <2>0, <3>1 DEF WorkOK, Says
    <3> QED BY <2>0, <2>3, <3>2 DEF StoreResult
  <2>4. CASE Tick
    BY <2>0, <2>4 DEF Tick, Aged, NoRecord, Record
  <2>5. CASE UNCHANGED record
    BY <2>5
  <2> QED BY <2>1, <2>2, <2>3, <2>4, <2>5
          DEF Next, Submission, Handling, AgentStep, Failure, Admit, Push, Arm, SubmitFails, PopEmpty, Pop,
              Get, Check, Refuse, HandlerFails, Poll, Post, Approve, Deny, Finish, GivesUpWaiting,
              AgentRestarts, redis
<1> QED BY <1>1, WorkInvariant, PTL DEF Spec, ResultStays

-----------------------------------------------------------------------------
(* Found when looked for.  The list lives at least as long as the records of *)
(* the jobs in it whose callers were told they wait.                         *)

Waiting(j) == record[j].status = "queued"
Reached(j) == Listed(j) \/ \E h \in Handlers : Claimed(h, j)

ReachOK(j) ==
    /\ Waiting(j) => record[j].ttl <= JobTTL
    /\ Listed(j) /\ submit[j] = "sent" =>
            listTtl > 0 /\ (Waiting(j) => record[j].ttl <= listTtl)
    /\ submit[j] \in {"arm", "sent"} /\ Waiting(j) /\ j \notin dropped => Reached(j)

ReachInv == \A j \in Jobs : ReachOK(j)

\* A step that leaves the list and its expiry alone.
LEMMA ReachKept ==
    ASSUME NEW j \in Jobs, ReachOK(j), UNCHANGED <<list, listTtl>>,
           Waiting(j)' => record'[j] = record[j],
           submit'[j] = submit[j] \/ submit'[j] \notin {"arm", "sent"},
           j \in dropped => j \in dropped',
           \A h \in Handlers : Claimed(h, j) =>
                Claimed(h, j)' \/ j \in dropped' \/ ~Waiting(j)'
    PROVE  ReachOK(j)'
<1>1. Listed(j)' <=> Listed(j)
  BY DEF Listed
<1>2. Waiting(j)' => Waiting(j)
  BY DEF Waiting
<1>3. Waiting(j)' => record'[j].ttl <= JobTTL
  BY <1>2 DEF ReachOK
<1>4. Listed(j)' /\ submit'[j] = "sent" =>
            listTtl' > 0 /\ (Waiting(j)' => record'[j].ttl <= listTtl')
  BY <1>1, <1>2 DEF ReachOK
<1>5. submit'[j] \in {"arm", "sent"} /\ Waiting(j)' /\ j \notin dropped' => Reached(j)'
  BY <1>1, <1>2 DEF ReachOK, Reached
<1> QED BY <1>3, <1>4, <1>5 DEF ReachOK

LEMMA ReachSubmit ==
    ASSUME TypeInv, OnceInv, WorkInv, ReachInv, NEW i \in Jobs,
           Admit(i) \/ Store(i) \/ Push(i) \/ Arm(i) \/ SubmitFails(i)
    PROVE  ReachInv'
<1> SUFFICES ASSUME NEW j \in Jobs PROVE ReachOK(j)'
  BY DEF ReachInv
<1>0. /\ ReachOK(j) /\ OnceOK(j) /\ record \in [Jobs -> Record] /\ listTtl \in 0 .. JobTTL
      /\ submit \in [Jobs -> {"new", "refused", "store", "push", "arm", "sent", "failed"}]
      /\ list \in Seq(Jobs) /\ JobTTL \in Nat \ {0}
  BY LimitAssumption DEF ReachInv, OnceInv, TypeInv, SubmitOK, RedisOK
<1>1. \A h \in Handlers : Claimed(h, j)' <=> Claimed(h, j)
  BY DEF Admit, Store, Push, Arm, SubmitFails, Claimed
<1>2. CASE Admit(i) \/ SubmitFails(i)
  <2>1. /\ UNCHANGED <<record, list, listTtl>> /\ dropped \subseteq dropped'
        /\ submit'[j] = submit[j] \/ submit'[j] \notin {"arm", "sent"}
    BY <1>0, <1>2 DEF Admit, SubmitFails, redis, history
  <2> QED BY <1>0, <1>1, <2>1, ReachKept
<1>3. CASE Store(i)
  <2>1. CASE i = j
    <3>1. /\ record'[j].ttl = JobTTL /\ submit'[j] = "push" /\ Unsubmitted(j) /\ list' = list
      BY <1>0, <1>3, <2>1 DEF Store, Unsubmitted
    <3>2. ~Listed(j)'
      BY <1>0, <3>1 DEF OnceOK, PlaceOK, Listed
    <3> QED BY <1>0, <3>1, <3>2 DEF ReachOK
  <2>2. CASE i # j
    <3>1. /\ UNCHANGED <<list, listTtl, dropped>> /\ record'[j] = record[j] /\ submit'[j] = submit[j]
      BY <1>0, <1>3, <2>2 DEF Store, history
    <3> QED BY <1>0, <1>1, <3>1, ReachKept
  <2> QED BY <2>1, <2>2
<1>4. CASE Push(i)
  <2>1. /\ Len(list) \in Nat /\ Len(list') = Len(list) + 1 /\ list'[Len(list) + 1] = i
        /\ \A k \in 1 .. Len(list) : list'[k] = list[k]
    BY <1>0, <1>4, AppendProperties DEF Push
  <2>2. Listed(j)' <=> Listed(j) \/ j = i
    BY <2>1 DEF Listed
  <2>3. UNCHANGED <<record, listTtl, dropped>>
        /\ submit' = [submit EXCEPT ![i] = "arm"]
    BY <1>4 DEF Push, history
  <2>4. CASE i = j
    <3>1. submit'[j] = "arm"
      BY <1>0, <2>3, <2>4
    <3> QED BY <1>0, <2>2, <2>3, <2>4, <3>1 DEF ReachOK, Reached, Waiting
  <2>5. CASE i # j
    <3>1. submit'[j] = submit[j]
      BY <1>0, <2>3, <2>5
    <3> QED BY <1>0, <1>1, <2>2, <2>3, <2>5, <3>1 DEF ReachOK, Reached, Waiting
  <2> QED BY <2>4, <2>5
<1>5. CASE Arm(i)
  <2>1. /\ UNCHANGED <<record, list, dropped>> /\ listTtl' = IF list # << >> THEN JobTTL ELSE 0
        /\ submit' = [submit EXCEPT ![i] = "sent"] /\ submit[i] = "arm"
    BY <1>5 DEF Arm, Armed
  <2>2. Listed(j)' <=> Listed(j)
    BY <2>1 DEF Listed
  <2>3. Listed(j) => list # << >>
    BY DEF Listed
  <2>4. submit'[j] \in {"arm", "sent"} => submit[j] \in {"arm", "sent"}
    BY <1>0, <2>1
  <2>5. Waiting(j)' <=> Waiting(j)
    BY <2>1 DEF Waiting
  <2> QED BY <1>0, <1>1, <2>1, <2>2, <2>3, <2>4, <2>5 DEF ReachOK, Reached
<1> QED BY <1>2, <1>3, <1>4, <1>5

LEMMA ReachHandling ==
    ASSUME TypeInv, OnceInv, WorkInv, ReachInv, NEW h \in Handlers, Handling(h) \/ HandlerFails(h)
    PROVE  ReachInv'
<1> SUFFICES ASSUME NEW j \in Jobs PROVE ReachOK(j)'
  BY DEF ReachInv
<1>0. /\ ReachOK(j) /\ WorkOK(j) /\ record \in [Jobs -> Record] /\ listTtl \in 0 .. JobTTL
      /\ serve \in [Handlers -> Request] /\ Fit(serve[h])
      /\ list \in Seq(Jobs) /\ JobTTL \in Nat \ {0} /\ j # NoJob
  BY LimitAssumption DEF ReachInv, WorkInv, TypeInv, HandlersOK, RedisOK, NoJob, Jobs
<1>1. CASE Pop(h)
  <2>1. Len(list) \in Nat \ {0} /\ UNCHANGED <<record, submit, dropped>> /\ list # << >>
    BY <1>0, <1>1 DEF Pop, NothingToPop, history
  <2>2. /\ Len(list') = Len(list) - 1 /\ Head(list) = list[1]
        /\ \A k \in 1 .. Len(list') : list'[k] = list[k + 1]
    BY <1>0, <1>1, <2>1, HeadTailProperties DEF Pop
  <2>3. Listed(j)' => Listed(j) /\ listTtl' = listTtl
    <3>1. Listed(j)' => Listed(j) /\ Len(list) # 1
      BY <2>1, <2>2 DEF Listed
    <3> QED BY <1>1, <3>1 DEF Pop, Shrunk
  <2>4. Listed(j) => Listed(j)' \/ j = list[1]
    <3> SUFFICES ASSUME NEW k \in 1 .. Len(list), list[k] = j, k # 1 PROVE Listed(j)'
      BY DEF Listed
    <3> DEFINE m == k - 1
    <3>1. m \in 1 .. Len(list') /\ m + 1 = k
      BY <2>1, <2>2
    <3> HIDE DEF m
    <3>2. list'[m] = list[m + 1]
      BY <2>2, <3>1
    <3> QED BY <3>1, <3>2, Zenon DEF Listed
  <2>5. Claimed(h, j)' <=> j = list[1]
    <3>1. serve'[h] = [serve[h] EXCEPT !.at = "get", !.job = list[1]]
      BY <1>0, <1>1, <2>2 DEF Pop
    <3> QED BY <1>0, <3>1 DEF Claimed, Request
  <2>55. \A g \in Handlers : Claimed(g, j) => Claimed(g, j)'
    <3>1. ~Claimed(h, j)
      BY <1>1 DEF Pop, Claimed, Serves
    <3>2. \A g \in Handlers \ {h} : serve'[g] = serve[g]
      BY <1>0, <1>1 DEF Pop
    <3> QED BY <3>1, <3>2 DEF Claimed
  <2>6. Reached(j) => Reached(j)'
    BY <2>4, <2>5, <2>55 DEF Reached
  <2> QED BY <1>0, <2>1, <2>3, <2>6 DEF ReachOK, Waiting
<1>2. CASE ~Pop(h)
  <2>1. UNCHANGED <<list, listTtl, submit>> /\ dropped \subseteq dropped'
    BY <1>2 DEF Handling, PopEmpty, Get, Mark, Check, Refuse, StoreResult, HandlerFails, redis, history
  <2>2. Waiting(j)' => record'[j] = record[j]
    <3>1. CASE Mark(h) \/ StoreResult(h)
      <4>1. PICK r : r.status # "queued" /\ record' = [record EXCEPT ![serve[h].job] = r]
        <5>1. serve[h].outcome \in Final
          BY <1>0 DEF Request
        <5> QED BY <3>1, <5>1 DEF Mark, StoreResult, Final
      <4> QED BY <1>0, <4>1 DEF Waiting
    <3>2. CASE ~Mark(h) /\ ~StoreResult(h)
      BY <1>2, <3>2 DEF Handling, PopEmpty, Get, Check, Refuse, HandlerFails, redis
    <3> QED BY <3>1, <3>2
  <2>3. \A g \in Handlers : Claimed(g, j) => Claimed(g, j)' \/ j \in dropped' \/ ~Waiting(j)'
    <3>1. ASSUME NEW g \in Handlers \ {h}, Claimed(g, j) PROVE Claimed(g, j)'
      <4>1. serve'[g] = serve[g]
        BY <1>0, <1>2 DEF Handling, PopEmpty, Get, Mark, Check, Refuse, StoreResult, HandlerFails, Reply
      <4> QED BY <3>1, <4>1 DEF Claimed
    <3>2. ASSUME Claimed(h, j) PROVE Claimed(h, j)' \/ j \in dropped' \/ ~Waiting(j)'
      <4>1. CASE Get(h)
        BY <1>0, <3>2, <4>1 DEF Get, Serves, Claimed, Waiting, Request, redis
      <4>2. CASE Mark(h)
        BY <1>0, <3>2, <4>2 DEF Mark, Claimed, Waiting
      <4>3. CASE HandlerFails(h)
        BY <1>0, <3>2, <4>3 DEF HandlerFails, Claimed
      <4> QED BY <1>2, <3>2, <4>1, <4>2, <4>3
              DEF Handling, PopEmpty, Check, Refuse, StoreResult, Serves, Claimed
    <3> QED BY <3>1, <3>2
  <2> QED BY <1>0, <2>1, <2>2, <2>3, ReachKept
<1> QED BY <1>1, <1>2

LEMMA ReachAgent ==
    ASSUME TypeInv, ReachInv, NEW p \in Phones, AgentStep(p) \/ GivesUpWaiting(p) \/ AgentRestarts(p)
    PROVE  ReachInv'
<1> SUFFICES ASSUME NEW j \in Jobs PROVE ReachOK(j)'
  BY DEF ReachInv
<1>0. ReachOK(j) /\ serve \in [Handlers -> Request]
  BY DEF ReachInv, TypeInv, HandlersOK
<1>1. UNCHANGED <<record, list, listTtl, submit, dropped>>
  BY DEF AgentStep, Poll, Post, Approve, Deny, Finish, GivesUpWaiting, AgentRestarts, redis, history
<1>2. \A g \in Handlers : Claimed(g, j) => Claimed(g, j)'
  <2>1. ASSUME NEW h \in Handlers, Poll(p, h) \/ Post(p, h)
        PROVE  \A g \in Handlers : Claimed(g, j) => Claimed(g, j)'
    <3>1. \A g \in Handlers \ {h} : serve'[g] = serve[g]
      BY <1>0, <2>1 DEF Poll, Post, Send
    <3>2. ~Claimed(h, j)
      BY <2>1 DEF Poll, Post, Takes, Busy, Serves, Claimed
    <3> QED BY <3>1, <3>2 DEF Claimed
  <2>2. CASE GivesUpWaiting(p) \/ AgentRestarts(p)
    BY <1>0, <2>2 DEF GivesUpWaiting, AgentRestarts, Released, Claimed, Request
  <2>3. CASE UNCHANGED serve
    BY <2>3 DEF Claimed
  <2> QED BY <2>1, <2>2, <2>3 DEF AgentStep, Approve, Deny, Finish
<1> QED BY <1>0, <1>1, <1>2, ReachKept

LEMMA ListedIsIn == ASSUME list \in Seq(Jobs), NEW j PROVE Listed(j) <=> j \in ToSet(list)
<1>1. DOMAIN list = 1 .. Len(list)
  BY DEF Jobs
<1> QED BY <1>1 DEF Listed, ToSet

LEMMA ReachTick == ASSUME TypeInv, ReachInv, Tick PROVE ReachInv'
<1> SUFFICES ASSUME NEW j \in Jobs PROVE ReachOK(j)'
  BY DEF ReachInv
<1>0. /\ ReachOK(j) /\ record \in [Jobs -> Record] /\ listTtl \in 0 .. JobTTL /\ JobTTL \in Nat
      /\ list \in Seq(Jobs)
      /\ submit \in [Jobs -> {"new", "refused", "store", "push", "arm", "sent", "failed"}]
  BY LimitAssumption DEF ReachInv, TypeInv, RedisOK, SubmitOK
<1>1. UNCHANGED <<submit, serve>> /\ \A h \in Handlers : ~Claimed(h, j)
  BY DEF Tick, Busy, Serves, Claimed
<1>2. /\ list' = IF listTtl = 1 THEN << >> ELSE list
      /\ listTtl' = IF listTtl = 0 THEN 0 ELSE listTtl - 1
      /\ dropped' = IF listTtl = 1 THEN dropped \cup Unarmed ELSE dropped
  BY DEF Tick
<1>3. Waiting(j)' => Waiting(j) /\ record[j].ttl > 1 /\ record'[j].ttl = record[j].ttl - 1
  BY <1>0 DEF Tick, Waiting, Aged, NoRecord, Record
<1>4. record[j].ttl \in Nat
  BY <1>0 DEF Record
<1>5. CASE listTtl = 1
  <2>1. ~Listed(j)'
    BY <1>2, <1>5 DEF Listed
  <2>2. submit[j] = "arm" /\ Listed(j) => j \in dropped'
    <3>1. Listed(j) <=> j \in ToSet(list)
      BY <1>0, ListedIsIn
    <3> QED BY <1>2, <1>5, <3>1 DEF Unarmed
  <2>3. submit[j] = "sent" /\ Listed(j) => ~Waiting(j)'
    <3> SUFFICES ASSUME submit[j] = "sent", Listed(j), Waiting(j)' PROVE FALSE
      OBVIOUS
    <3>1. Waiting(j) /\ record[j].ttl > 1
      BY <1>3
    <3>2. record[j].ttl <= listTtl
      BY <1>0, <3>1 DEF ReachOK
    <3> QED BY <1>4, <1>5, <3>1, <3>2
  <2> QED BY <1>0, <1>1, <1>2, <1>3, <1>4, <1>5, <2>1, <2>2, <2>3 DEF ReachOK, Reached
<1>6. CASE listTtl # 1
  <2>1. (Listed(j)' <=> Listed(j)) /\ dropped' = dropped
    BY <1>2, <1>6 DEF Listed
  <2>2. Reached(j) => Reached(j)'
    BY <1>1, <2>1 DEF Reached
  <2> QED BY <1>0, <1>1, <1>2, <1>3, <1>4, <1>6, <2>1, <2>2 DEF ReachOK
<1> QED BY <1>5, <1>6

LEMMA ReachNext == TypeInv /\ OnceInv /\ WorkInv /\ ReachInv /\ [Next]_vars => ReachInv'
<1> SUFFICES ASSUME TypeInv, OnceInv, WorkInv, ReachInv, [Next]_vars PROVE ReachInv'
  OBVIOUS
<1>1. ASSUME NEW j \in Jobs, Submission(j) \/ SubmitFails(j) PROVE ReachInv'
  BY <1>1, ReachSubmit DEF Submission
<1>2. ASSUME NEW p \in Phones, AgentStep(p) \/ GivesUpWaiting(p) \/ AgentRestarts(p) PROVE ReachInv'
  BY <1>2, ReachAgent
<1>3. CASE UNCHANGED vars
  <2> SUFFICES ASSUME NEW j \in Jobs PROVE ReachOK(j)'
    BY DEF ReachInv
  <2>1. UNCHANGED <<record, list, listTtl, submit, serve, dropped>>
    BY <1>3 DEF vars
  <2>2. \A h \in Handlers : Claimed(h, j) => Claimed(h, j)'
    BY <2>1 DEF Claimed
  <2> QED BY <2>1, <2>2, ReachKept DEF ReachInv
<1> QED BY <1>1, <1>2, <1>3, ReachHandling, ReachTick DEF Next, Failure

-----------------------------------------------------------------------------
(* The record of a job in work.  Its time to live runs against the two waits *)
(* of the agent: the owner's answer, then the command.                       *)

Timely(a, r) ==
    /\ a.at \in {"idle", "polling"} => a.job = NoJob
    /\ a.at = "asking" =>
            a.age <= ApprovalWait /\ r.status = "running" /\ r.ttl + a.age >= RunningTtl
    /\ a.at = "executing" =>
            a.age <= Timeout /\ r.status = "running" /\ r.ttl + ApprovalWait + a.age >= RunningTtl
    /\ a.at \in {"posting", "posted"} => r.status # "none"

AgeOK(p) == Timely(phone[p], record[phone[p].job])
AgeInv == \A p \in Phones : AgeOK(p)

\* Agents whose record is not touched, and agents that give their job up.
LEMMA AgeKept ==
    ASSUME NEW p \in Phones, AgeOK(p),
           phone'[p] \in {phone[p], IdleAgent, Unanswered(phone[p])}, phone[p] \in Agent, Sane(phone[p]),
           phone[p].job # NoJob => record'[phone[p].job] = record[phone[p].job]
    PROVE  AgeOK(p)'
<1>0. phone[p].at \in {"asking", "executing", "posting", "posted"} => phone[p].job # NoJob
  BY DEF Sane, Jobs, NoJob
<1>1. Timely(IdleAgent, record'[IdleAgent.job])
  BY DEF Timely, IdleAgent
<1>2. CASE phone'[p] = IdleAgent
  BY <1>1, <1>2 DEF AgeOK
<1>3. CASE phone'[p] = phone[p]
  <2>1. CASE phone[p].job = NoJob
    BY <1>0, <1>3, <2>1 DEF AgeOK, Timely
  <2>2. CASE phone[p].job # NoJob
    BY <1>3, <2>2 DEF AgeOK
  <2> QED BY <2>1, <2>2
<1>4. CASE phone'[p] = Unanswered(phone[p]) /\ phone'[p] # IdleAgent
  <2>1. phone[p].at = "posted" /\ phone'[p] = [phone[p] EXCEPT !.at = "posting"]
    BY <1>4 DEF Unanswered, Retried
  <2>2. phone'[p].at = "posting" /\ phone'[p].job = phone[p].job
    BY <2>1 DEF Agent
  <2> QED BY <1>0, <2>1, <2>2 DEF AgeOK, Timely
<1> QED BY <1>2, <1>3, <1>4

\* A step that changes no record, and no agent but by answering or dropping its request.
LEMMA AgeQuiet ==
    ASSUME TypeInv, AgeInv, UNCHANGED record,
           \A p \in Phones : phone'[p] \in {phone[p], IdleAgent, Unanswered(phone[p])}
    PROVE  AgeInv'
BY AgeKept DEF AgeInv, TypeInv, AgentsOK

LEMMA AgeReply ==
    ASSUME TypeInv, NEW h \in Handlers, NEW a, Reply(h, a)
    PROVE  \A p \in Phones : phone'[p] = phone[p] \/ (p = serve[h].phone /\ phone'[p] = a)
BY DEF Reply, Hears, TypeInv, AgentsOK

LEMMA AgeHandling ==
    ASSUME TypeInv, WorkInv, AgeInv, NEW h \in Handlers, Handling(h) \/ HandlerFails(h)
    PROVE  AgeInv'
<1>0. /\ record \in [Jobs -> Record] /\ serve[h] \in Request /\ Fit(serve[h])
      /\ \A p \in Phones : phone[p] \in Agent /\ Sane(phone[p])
  BY DEF TypeInv, RedisOK, HandlersOK, AgentsOK
<1>1. CASE PopEmpty(h) \/ Refuse(h) \/ HandlerFails(h)
  <2>1. UNCHANGED record /\ (Reply(h, IdleAgent) \/ Reply(h, Unanswered(phone[serve[h].phone])))
    BY <1>1 DEF PopEmpty, Refuse, HandlerFails, redis
  <2> QED BY <2>1, AgeReply, AgeQuiet
<1>2. CASE Pop(h) \/ Get(h) \/ Check(h)
  <2>1. UNCHANGED <<record, phone>>
    BY <1>2 DEF Pop, Get, Check, redis
  <2> QED BY <2>1, AgeQuiet
<1>3. CASE Mark(h)
  <2> DEFINE a == [IdleAgent EXCEPT !.at = "asking", !.job = serve[h].job]
             j == serve[h].job
  <2>1. /\ j \in Jobs /\ Claimed(h, j) /\ Reply(h, a)
        /\ record' = [record EXCEPT ![j] = [status |-> "running", ttl |-> RunningTtl]]
    BY <1>0, <1>3 DEF Mark, Serves, Claimed, Fit
  <2>2. \A p \in Phones : ~Works(p, j)
    BY <2>1 DEF WorkInv, WorkOK, ToClaim
  <2>3. a.at = "asking" /\ a.job = j /\ a.age = 0
    BY DEF IdleAgent
  <2>4. record'[j] = [status |-> "running", ttl |-> RunningTtl] /\ RunningTtl \in Nat
    BY <1>0, <2>1, LimitAssumption DEF RunningTtl
  <2> HIDE DEF a, j
  <2>5. Timely(a, record'[a.job])
    BY <2>3, <2>4, LimitAssumption DEF Timely
  <2>6. ASSUME NEW p \in Phones, phone'[p] = phone[p] PROVE AgeOK(p)'
    <3>1. phone[p].job # NoJob => phone[p].job # j
      <4>1. phone[p].at \in {"idle", "polling"} \/ phone[p].job = j => Works(p, j) \/ phone[p].job = NoJob
        BY <1>0 DEF AgeInv, AgeOK, Timely, Works, AtWork, Agent
      <4> QED BY <2>2, <4>1
    <3>2. record'[phone[p].job] = record[phone[p].job] \/ phone[p].job = NoJob
      BY <1>0, <2>1, <3>1
    <3> QED BY <1>0, <2>6, <3>2, AgeKept DEF AgeInv
  <2>7. ASSUME NEW p \in Phones, phone'[p] = a PROVE AgeOK(p)'
    BY <2>5, <2>7 DEF AgeOK
  <2> QED BY <2>1, <2>6, <2>7, AgeReply DEF AgeInv
<1>4. CASE StoreResult(h)
  <2> DEFINE j == serve[h].job
  <2>1. /\ j \in Jobs /\ Posting(h, j) /\ Reply(h, IdleAgent)
        /\ record' = [record EXCEPT ![j] = [status |-> serve[h].outcome, ttl |-> JobTTL]]
    BY <1>0, <1>4 DEF StoreResult, Serves, Posting, Fit
  <2>2. record'[j].status # "none"
    BY <1>0, <2>1 DEF Request, Final
  <2>3. \A p \in Phones : Works(p, j) => phone[p].at \notin AtWork
    BY <2>1 DEF WorkInv, WorkOK, AtWork
  <2> HIDE DEF j
  <2>4. ASSUME NEW p \in Phones, phone'[p] = phone[p] PROVE AgeOK(p)'
    <3>1. CASE phone[p].job = j /\ phone[p].job # NoJob
      <4>1. phone[p].at \in {"posting", "posted"}
        BY <1>0, <2>3, <3>1 DEF AgeInv, AgeOK, Timely, Works, AtWork, Agent
      <4> QED BY <2>2, <2>4, <3>1, <4>1 DEF AgeOK, Timely
    <3>2. CASE phone[p].job # j \/ phone[p].job = NoJob
      <4>1. phone[p].job # NoJob => record'[phone[p].job] = record[phone[p].job]
        BY <1>0, <2>1, <3>2
      <4> QED BY <1>0, <2>4, <4>1, AgeKept DEF AgeInv
    <3> QED BY <3>1, <3>2
  <2>5. ASSUME NEW p \in Phones, phone'[p] = IdleAgent PROVE AgeOK(p)'
    BY <2>5 DEF AgeOK, Timely, IdleAgent
  <2> QED BY <2>1, <2>4, <2>5, AgeReply DEF AgeInv
<1> QED BY <1>1, <1>2, <1>3, <1>4 DEF Handling

LEMMA AgeAgent ==
    ASSUME TypeInv, AgeInv, NEW p \in Phones, AgentStep(p) \/ GivesUpWaiting(p) \/ AgentRestarts(p)
    PROVE  AgeInv'
<1>0. /\ record \in [Jobs -> Record] /\ phone \in [Phones -> Agent]
      /\ phone[p] \in Agent /\ AgeOK(p) /\ record' = record
  BY DEF TypeInv, RedisOK, AgentsOK, AgeInv, AgentStep, Poll, Post, Approve, Deny, Finish,
         GivesUpWaiting, AgentRestarts, redis
<1>1. CASE GivesUpWaiting(p) \/ AgentRestarts(p)
  <2>1. Hears(p, IdleAgent) \/ Hears(p, Unanswered(phone[p]))
    BY <1>1 DEF GivesUpWaiting, AgentRestarts
  <2> QED BY <1>0, <2>1, AgeQuiet DEF Hears
<1>2. ASSUME NEW a, Hears(p, a), Timely(a, record[a.job]) PROVE AgeInv'
  <2>1. \A q \in Phones : phone'[q] = IF q = p THEN a ELSE phone[q]
    BY <1>0, <1>2 DEF Hears
  <2> QED BY <1>0, <1>2, <2>1 DEF AgeInv, AgeOK
<1>3. ASSUME NEW h \in Handlers, Poll(p, h) PROVE AgeInv'
  <2> DEFINE a == [IdleAgent EXCEPT !.at = "polling"]
  <2>1. Timely(a, record[a.job])
    BY DEF Timely, IdleAgent
  <2> QED BY <1>2, <1>3, <2>1 DEF Poll
<1>4. ASSUME NEW h \in Handlers, Post(p, h) PROVE AgeInv'
  <2> DEFINE a == [phone[p] EXCEPT !.at = "posted", !.tries = @ + 1]
  <2>1. a.at = "posted" /\ a.job = phone[p].job /\ Hears(p, a) /\ phone[p].at = "posting"
    BY <1>0, <1>4 DEF Agent, Post, Doing
  <2> HIDE DEF a
  <2>2. Timely(a, record[a.job])
    BY <1>0, <2>1 DEF Timely, AgeOK
  <2> QED BY <1>2, <2>1, <2>2
<1>5. CASE Approve(p)
  <2> DEFINE a == [phone[p] EXCEPT !.at = "executing", !.age = 0]
  <2>1. a.at = "executing" /\ a.job = phone[p].job /\ a.age = 0 /\ Hears(p, a)
        /\ phone[p].at = "asking" /\ phone[p].age \in Nat
    BY <1>0, <1>5 DEF Agent, Approve, Doing
  <2> HIDE DEF a
  <2>2. phone[p].age <= ApprovalWait /\ record[phone[p].job].status = "running"
        /\ record[phone[p].job].ttl + phone[p].age >= RunningTtl
    BY <1>0, <2>1 DEF AgeOK, Timely
  <2>3. phone[p].job \in Jobs
    BY <2>1 DEF TypeInv, AgentsOK, Sane
  <2>4. record[phone[p].job].ttl \in Nat
    BY <1>0, <2>3 DEF Record
  <2>5. Timely(a, record[a.job])
    BY <2>1, <2>2, <2>4, LimitAssumption DEF Timely, RunningTtl
  <2> QED BY <1>2, <2>1, <2>5
<1>6. ASSUME NEW outcome, Deny(p) \/ Finish(p, outcome) PROVE AgeInv'
  <2>1. PICK a : /\ Hears(p, a) /\ a.at = "posting" /\ a.job = phone[p].job
                 /\ phone[p].at \in {"asking", "executing"}
    BY <1>0, <1>6 DEF Agent, Deny, Finish, Doing
  <2>2. Timely(a, record[a.job])
    BY <1>0, <2>1 DEF Timely, AgeOK
  <2> QED BY <1>2, <2>1, <2>2
<1> QED BY <1>1, <1>3, <1>4, <1>5, <1>6 DEF AgentStep

LEMMA AgeTick ==
    ASSUME TypeInv, AgeInv, ApprovalWait < JobTTL, Tick
    PROVE  AgeInv'
<1> SUFFICES ASSUME NEW p \in Phones PROVE AgeOK(p)'
  BY DEF AgeInv
<1> DEFINE a == phone[p]
           r == record[phone[p].job]
<1>0. a \in Agent /\ Sane(a) /\ Timely(a, r) /\ Waits(a)
  BY DEF TypeInv, AgentsOK, AgeInv, AgeOK, Tick
<1>1. CASE a.at = "idle"
  <2>1. phone'[p] = a
    BY <1>1 DEF Tick, Doing
  <2> QED BY <1>0, <1>1, <2>1 DEF AgeOK, Timely
<1>2. CASE a.at \in {"asking", "executing"}
  <2>1. phone'[p] = [a EXCEPT !.age = @ + 1]
    BY <1>2 DEF Tick, Doing
  <2>2. phone'[p].at = a.at /\ phone'[p].job = a.job /\ phone'[p].age = a.age + 1 /\ a.age \in Nat
    BY <1>0, <2>1 DEF Agent
  <2>3. a.job \in Jobs /\ record'[a.job] = Aged(r)
    BY <1>0, <1>2 DEF Sane, Tick
  <2>4. r \in Record /\ r.ttl \in Nat
    BY <2>3 DEF TypeInv, RedisOK, Record
  <2> HIDE DEF a, r
  <2>5. r.ttl > 1
    BY <1>0, <1>2, <2>2, <2>4, LimitAssumption DEF Timely, Waits, RunningTtl
  <2>6. record'[a.job].status = r.status /\ record'[a.job].ttl = r.ttl - 1
    BY <2>3, <2>4, <2>5 DEF Aged, Record
  <2>7. RunningTtl \in Nat
    BY LimitAssumption DEF RunningTtl
  <2>8. Timely(phone'[p], record'[a.job])
    BY <1>0, <1>2, <2>2, <2>4, <2>6, <2>7, LimitAssumption DEF Timely, Waits
  <2> QED BY <2>2, <2>8 DEF AgeOK
<1> QED BY <1>0, <1>1, <1>2 DEF Waits

LEMMA AgeNext ==
    ASSUME TypeInv, WorkInv, AgeInv, ApprovalWait < JobTTL, [Next]_vars
    PROVE  AgeInv'
<1>1. ASSUME NEW j \in Jobs, Submission(j) \/ SubmitFails(j) PROVE AgeInv'
  <2>0. /\ record \in [Jobs -> Record] /\ UNCHANGED phone
        /\ \A p \in Phones : phone[p] \in Agent /\ Sane(phone[p])
    BY <1>1 DEF TypeInv, RedisOK, AgentsOK, Submission, Admit, Store, Push, Arm, SubmitFails
  <2>1. CASE Store(j)
    <3>1. Unsubmitted(j) /\ record' = [record EXCEPT ![j] = [status |-> "queued", ttl |-> JobTTL]]
      BY <2>1 DEF Store, Unsubmitted
    <3>2. \A p \in Phones : ~Works(p, j)
      BY <3>1 DEF WorkInv, WorkOK, ToClaim
    <3>3. ASSUME NEW p \in Phones PROVE AgeOK(p)'
      <4>1. phone[p].job # NoJob => phone[p].job # j
        BY <2>0, <3>2 DEF AgeInv, AgeOK, Timely, Works, AtWork, Agent
      <4>2. phone[p].job # NoJob => record'[phone[p].job] = record[phone[p].job]
        BY <2>0, <3>1, <4>1
      <4> QED BY <2>0, <4>2, AgeKept DEF AgeInv
    <3> QED BY <3>3 DEF AgeInv
  <2>2. CASE ~Store(j)
    <3>1. UNCHANGED record
      BY <1>1, <2>2 DEF Submission, Admit, Push, Arm, SubmitFails, redis
    <3> QED BY <2>0, <3>1, AgeQuiet
  <2> QED BY <2>1, <2>2
<1>2. CASE UNCHANGED vars
  BY <1>2, AgeQuiet DEF vars
<1> QED BY <1>1, <1>2, AgeHandling, AgeAgent, AgeTick DEF Next, Failure

\* A job is found when it is looked for.  The id of a job whose caller was told it waits is in the
\* list or in the hands of a claim until its record expires, through every interleaving of the
\* commands of submissions, claims and posts, unless a call that held it failed.  The record of a job
\* an agent asks for, runs or posts is there, provided an owner has less time to answer than a
\* record has to live.
THEOREM AllFound ==
    ASSUME ApprovalWait < JobTTL
    PROVE  Spec => []JobsFound
<1>1. Init => ReachInv
  BY DEF Init, ReachInv, ReachOK, Listed, Waiting, NoRecord
<1>2. Init => AgeInv
  BY DEF Init, AgeInv, AgeOK, Timely, IdleAgent
<1>3. TypeInv /\ ReachInv => QueuedIsReachable
  <2> SUFFICES ASSUME TypeInv, ReachInv, NEW j \in Jobs, submit[j] = "sent",
                      record[j].status = "queued", j \notin dropped, ~(j \in ToSet(list))
               PROVE  \E h \in Handlers : serve[h].job = j /\ serve[h].at \in {"get", "mark"}
    BY DEF QueuedIsReachable
  <2>1. ~Listed(j)
    BY ListedIsIn DEF TypeInv, RedisOK
  <2> QED BY <2>1 DEF ReachInv, ReachOK, Waiting, Reached, Claimed
<1>4. TypeInv /\ AgeInv => RecordOutlivesWork
  BY DEF RecordOutlivesWork, AgeInv, AgeOK, Timely, TypeInv, AgentsOK, Agent
<1>5. TypeInv /\ WorkInv /\ AgeInv /\ [Next]_vars => AgeInv'
  BY AgeNext
<1> QED BY <1>1, <1>2, <1>3, <1>4, <1>5, WorkInvariant, ReachNext, PTL DEF Spec, JobsFound
=============================================================================
