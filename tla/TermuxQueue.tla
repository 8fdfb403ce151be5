---------------------------- MODULE TermuxQueue -----------------------------
(***************************************************************************)
(* The Termux job queue: tool calls put jobs in Redis, agents on phones    *)
(* poll for them, run them after asking their owner, and post the results. *)
(* Every Redis command of a call is a step of its own.  A request of a     *)
(* phone is served by a handler that goes on when the phone has stopped    *)
(* waiting for it.  One tick is longer than any request: a tick may fall   *)
(* once between the commands of a submission.  The requests of a phone are *)
(* short beside the time its record has left, and fall within a tick.      *)
(***************************************************************************)
EXTENDS Integers, FiniteSets, SequencesExt

CONSTANTS
    JobCount,       \* bound: termux_exec and termux_api calls
    Phones,         \* agents that poll
    Handlers,       \* requests of phones the server works on at a time
    Callers,        \* bound: submissions the server works on at a time
    MaxDepth,       \* TERMUX_MAX_QUEUE_DEPTH
    MaxSkips,       \* MAX_SKIPS_PER_CLAIM
    MaxPosts,       \* attempts of postResult
    JobTTL,         \* TERMUX_JOB_TTL_SECONDS, in ticks
    Timeout,        \* a job's timeoutSeconds, in ticks
    ApprovalWait,   \* TERMUX_APPROVAL_TIMEOUT_S, in ticks
    MaxFaults       \* bound: requests lost, calls that fail, agents that die

ASSUME LimitAssumption ==
    /\ JobCount \in Nat
    /\ Callers \in Nat \ {0} /\ MaxDepth \in Nat \ {0}
    /\ MaxSkips \in Nat \ {0} /\ MaxPosts \in Nat \ {0}
    /\ JobTTL \in Nat \ {0} /\ Timeout \in Nat \ {0}
    /\ ApprovalWait \in Nat /\ MaxFaults \in Nat

VARIABLES
    record,     \* termux:job:<id>
    list,       \* termux:queue, the oldest id first
    listTtl,    \* ticks until the list expires; 0: it has no expiry
    submit,     \* where each tool call is in enqueueJob
    serve,      \* the request each handler serves
    phone,      \* what each agent is doing
    ran,        \* history: times each job's command was started
    dropped,    \* history: jobs in the hands of a call when it failed, or in
                \* the list when it expired between their push and its expire
    slow,       \* submissions in which a tick has fallen
    faults      \* faults so far

vars == <<record, list, listTtl, submit, serve, phone, ran, dropped, slow, faults>>
redis == <<record, list, listTtl>>
history == <<ran, dropped, slow>>

-----------------------------------------------------------------------------
\* Jobs are numbered in the order in which their calls begin.
Jobs == 1 .. JobCount
NoJob == 0

Final == {"done", "failed"}
Record == [status: {"none", "queued", "running"} \cup Final, ttl: Nat]
NoRecord == [status |-> "none", ttl |-> 0]

Request == [at: {"idle", "pop", "get", "mark", "check", "store"},
            phone: Phones, held: BOOLEAN, job: Jobs \cup {NoJob},
            skipped: 0 .. MaxSkips, outcome: Final]
IdleRequest(p) == [at |-> "idle", phone |-> p, held |-> FALSE, job |-> NoJob,
                   skipped |-> 0, outcome |-> "done"]
Agent == [at: {"idle", "polling", "asking", "executing", "posting", "posted"},
          job: Jobs \cup {NoJob}, outcome: Final, tries: 0 .. MaxPosts, age: Nat]
IdleAgent == [at |-> "idle", job |-> NoJob, outcome |-> "done", tries |-> 0, age |-> 0]

Fault == faults < MaxFaults /\ faults' = faults + 1

-----------------------------------------------------------------------------
(* A tool call: enqueueJob.  What follows it, waiting and describing the     *)
(* job, only reads.                                                          *)

Full == Len(list) >= MaxDepth
Submitting == {j \in Jobs : submit[j] \in {"store", "push", "arm"}}

Admit(j) ==
    /\ submit[j] = "new" /\ \A i \in 1 .. j - 1 : submit[i] # "new"
    /\ Cardinality(Submitting) < Callers
    /\ submit' = [submit EXCEPT ![j] = IF Full THEN "refused" ELSE "store"]
    /\ UNCHANGED <<redis, serve, phone, history, faults>>

Store(j) ==
    /\ submit[j] = "store"
    /\ record' = [record EXCEPT ![j] = [status |-> "queued", ttl |-> JobTTL]]
    /\ submit' = [submit EXCEPT ![j] = "push"]
    /\ UNCHANGED <<list, listTtl, serve, phone, history, faults>>

Push(j) ==
    /\ submit[j] = "push"
    /\ list' = Append(list, j)
    /\ submit' = [submit EXCEPT ![j] = "arm"]
    /\ UNCHANGED <<record, listTtl, serve, phone, history, faults>>

ArmedOnce == IF list # << >> /\ listTtl = 0 THEN JobTTL ELSE listTtl
\* A list that has been emptied does not exist, and has nothing to re-arm.
Armed == IF list # << >> THEN JobTTL ELSE 0

Arm(j) ==
    /\ submit[j] = "arm"
    /\ listTtl' = Armed
    /\ submit' = [submit EXCEPT ![j] = "sent"]
    /\ slow' = slow \ {j}
    /\ UNCHANGED <<record, list, serve, phone, ran, dropped, faults>>

\* Redis throws, and the caller is told that its request failed.
SubmitFails(j) ==
    /\ j \in Submitting /\ Fault
    /\ submit' = [submit EXCEPT ![j] = "failed"]
    /\ dropped' = dropped \cup {j}
    /\ slow' = slow \ {j}
    /\ UNCHANGED <<redis, serve, phone, ran>>

-----------------------------------------------------------------------------
(* A request of a phone.                                                     *)

Serves(h, at) == serve[h].at = at
Busy(h) == ~Serves(h, "idle")
\* Handlers are alike: which of the free ones takes a request makes no difference.
Takes(h) == ~Busy(h) /\ h = CHOOSE g \in Handlers : ~Busy(g)
Send(p, h, at, job, outcome) ==
    serve' = [serve EXCEPT ![h] = [at |-> at, phone |-> p, held |-> TRUE, job |-> job,
                                   skipped |-> 0, outcome |-> outcome]]

RetriedOnceMore(a) == IF a.tries <= MaxPosts THEN [a EXCEPT !.at = "posting"] ELSE IdleAgent
RetriedByRunning(a) == IF a.tries < MaxPosts THEN [a EXCEPT !.at = "asking"] ELSE IdleAgent
\* postResult tries again, up to a limit; the result is then lost.
Retried(a) == IF a.tries < MaxPosts THEN [a EXCEPT !.at = "posting"] ELSE IdleAgent

\* A request that brings no good answer: the agent polls or posts again.
Unanswered(a) == IF a.at = "posted" THEN Retried(a) ELSE IdleAgent

Hears(p, a) == phone' = [phone EXCEPT ![p] = a]

\* The handler h is done; its phone, if it still waits, becomes a.
Reply(h, a) ==
    /\ serve' = [serve EXCEPT ![h] = IdleRequest(serve[h].phone)]
    /\ IF serve[h].held THEN Hears(serve[h].phone, a) ELSE UNCHANGED phone

-----------------------------------------------------------------------------
(* handleTermuxPoll and claimJob.                                            *)

Shrunk == IF Len(list) = 1 THEN 0 ELSE listTtl
NothingToPop(h) == list = << >> \/ serve[h].skipped = MaxSkips

PopEmpty(h) ==
    /\ Serves(h, "pop") /\ NothingToPop(h)
    /\ Reply(h, IdleAgent)
    /\ UNCHANGED <<redis, submit, history, faults>>

PopLeaves(h) ==
    /\ Serves(h, "pop") /\ ~NothingToPop(h)
    /\ serve' = [serve EXCEPT ![h].at = "get", ![h].job = Head(list)]
    /\ UNCHANGED <<redis, submit, phone, history, faults>>

Pop(h) ==
    /\ Serves(h, "pop") /\ ~NothingToPop(h)
    /\ serve' = [serve EXCEPT ![h].at = "get", ![h].job = Head(list)]
    /\ list' = Tail(list)
    /\ listTtl' = Shrunk
    /\ UNCHANGED <<record, submit, phone, history, faults>>

Get(h) ==
    /\ Serves(h, "get")
    /\ serve' = IF record[serve[h].job].status = "queued"
                  THEN [serve EXCEPT ![h].at = "mark"]
                  ELSE [serve EXCEPT ![h].at = "pop", ![h].job = NoJob,
                                     ![h].skipped = @ + 1]
    /\ UNCHANGED <<redis, submit, phone, history, faults>>

RunningTtl == JobTTL + Timeout

Mark(h) ==
    /\ Serves(h, "mark")
    /\ record' = [record EXCEPT ![serve[h].job] = [status |-> "running", ttl |-> RunningTtl]]
    /\ Reply(h, [IdleAgent EXCEPT !.at = "asking", !.job = serve[h].job])
    /\ UNCHANGED <<list, listTtl, submit, history, faults>>

-----------------------------------------------------------------------------
(* handleTermuxResult and completeJob.                                       *)

IsRunning(h) == record[serve[h].job].status = "running"

Check(h) ==
    /\ Serves(h, "check") /\ IsRunning(h)
    /\ serve' = [serve EXCEPT ![h].at = "store"]
    /\ UNCHANGED <<redis, submit, phone, history, faults>>

\* A result the server refuses is posted again like one it did not get.
Refuse(h) ==
    /\ Serves(h, "check") /\ ~IsRunning(h)
    /\ Reply(h, Unanswered(phone[serve[h].phone]))
    /\ UNCHANGED <<redis, submit, history, faults>>

StoreResult(h) ==
    /\ Serves(h, "store")
    /\ record' = [record EXCEPT ![serve[h].job] =
                    [status |-> serve[h].outcome, ttl |-> JobTTL]]
    /\ Reply(h, IdleAgent)
    /\ UNCHANGED <<list, listTtl, submit, history, faults>>

\* Redis throws, or the process dies, in the middle of a request.
HandlerFails(h) ==
    /\ Busy(h) /\ Fault
    /\ Reply(h, Unanswered(phone[serve[h].phone]))
    /\ dropped' = dropped \cup ({serve[h].job} \ {NoJob})
    /\ UNCHANGED <<redis, submit, ran, slow>>

-----------------------------------------------------------------------------
(* The agent on the phone: one job at a time, polling in between.            *)

Doing(p, at) == phone[p].at = at

Poll(p, h) ==
    /\ Doing(p, "idle") /\ Takes(h)
    /\ Hears(p, [IdleAgent EXCEPT !.at = "polling"])
    /\ Send(p, h, "pop", NoJob, "done")
    /\ UNCHANGED <<redis, submit, history, faults>>

\* Only an explicit approval, or a command that needs none, runs the job.
Approve(p) ==
    /\ Doing(p, "asking")
    /\ Hears(p, [phone[p] EXCEPT !.at = "executing", !.age = 0])
    /\ ran' = [ran EXCEPT ![phone[p].job] = @ + 1]
    /\ UNCHANGED <<redis, submit, serve, dropped, slow, faults>>

Deny(p) ==
    /\ Doing(p, "asking")
    /\ Hears(p, [phone[p] EXCEPT !.at = "posting", !.age = 0, !.outcome = "failed"])
    /\ UNCHANGED <<redis, submit, serve, history, faults>>

\* The command ends, or is killed at its timeout, or cannot be started.
Finish(p, outcome) ==
    /\ Doing(p, "executing")
    /\ Hears(p, [phone[p] EXCEPT !.at = "posting", !.age = 0, !.outcome = outcome])
    /\ UNCHANGED <<redis, submit, serve, history, faults>>

Post(p, h) ==
    /\ Doing(p, "posting") /\ Takes(h)
    /\ Hears(p, [phone[p] EXCEPT !.at = "posted", !.tries = @ + 1])
    /\ Send(p, h, "check", phone[p].job, phone[p].outcome)
    /\ UNCHANGED <<redis, submit, history, faults>>

Released(p) == [h \in Handlers |->
                  IF serve[h].phone = p THEN [serve[h] EXCEPT !.held = FALSE] ELSE serve[h]]

\* The request times out on the phone, or its answer is lost.
GivesUpWaiting(p) ==
    /\ phone[p].at \in {"polling", "posted"} /\ Fault
    /\ Hears(p, Unanswered(phone[p]))
    /\ serve' = Released(p)
    /\ UNCHANGED <<redis, submit, history>>

\* The agent is killed and started again.
AgentRestarts(p) ==
    /\ ~Doing(p, "idle") /\ Fault
    /\ Hears(p, IdleAgent)
    /\ serve' = Released(p)
    /\ UNCHANGED <<redis, submit, history>>

-----------------------------------------------------------------------------
Waits(a) == \/ a.at = "idle"
            \/ a.at = "asking" /\ a.age < ApprovalWait
            \/ a.at = "executing" /\ a.age < Timeout

Aged(r) == IF r.ttl <= 1 THEN NoRecord ELSE [r EXCEPT !.ttl = @ - 1]

\* EXPIRE comes too late for an id that was pushed on a list about to expire.
Unarmed == {j \in ToSet(list) : submit[j] = "arm"}

Tick ==
    /\ Submitting \cap slow = {} /\ \A h \in Handlers : ~Busy(h)
    /\ \A p \in Phones : Waits(phone[p])
    /\ record' = [j \in Jobs |-> Aged(record[j])]
    /\ list' = IF listTtl = 1 THEN << >> ELSE list
    /\ listTtl' = IF listTtl = 0 THEN 0 ELSE listTtl - 1
    /\ phone' = [p \in Phones |-> IF Doing(p, "idle") THEN phone[p]
                                  ELSE [phone[p] EXCEPT !.age = @ + 1]]
    /\ dropped' = IF listTtl = 1 THEN dropped \cup Unarmed ELSE dropped
    /\ slow' = Submitting
    /\ UNCHANGED <<submit, serve, ran, faults>>

-----------------------------------------------------------------------------
Init ==
    /\ record = [j \in Jobs |-> NoRecord]
    /\ list = << >>
    /\ listTtl = 0
    /\ submit = [j \in Jobs |-> "new"]
    /\ \E p \in Phones :
         serve = [h \in Handlers |-> IdleRequest(p)]
    /\ phone = [p \in Phones |-> IdleAgent]
    /\ ran = [j \in Jobs |-> 0]
    /\ dropped = {}
    /\ slow = {}
    /\ faults = 0

Submission(j) == Admit(j) \/ Store(j) \/ Push(j) \/ Arm(j)

Handling(h) ==
    \/ PopEmpty(h) \/ Pop(h) \/ Get(h) \/ Mark(h)
    \/ Check(h) \/ Refuse(h) \/ StoreResult(h)

AgentStep(p) ==
    \/ \E h \in Handlers : Poll(p, h) \/ Post(p, h)
    \/ Approve(p) \/ Deny(p) \/ \E outcome \in Final : Finish(p, outcome)

Failure ==
    \/ \E j \in Jobs : SubmitFails(j)
    \/ \E h \in Handlers : HandlerFails(h)
    \/ \E p \in Phones : GivesUpWaiting(p) \/ AgentRestarts(p)

Next ==
    \/ \E j \in Jobs : Submission(j)
    \/ \E h \in Handlers : Handling(h)
    \/ \E p \in Phones : AgentStep(p)
    \/ Failure \/ Tick

Spec == Init /\ [][Next]_vars

\* Requests are handled, agents work and poll on.  Neither callers nor time
\* are promised to move.
FairSpec ==
    /\ Spec
    /\ \A h \in Handlers : WF_vars(Handling(h))
    /\ \A p \in Phones : WF_vars(AgentStep(p))

-----------------------------------------------------------------------------
TypeOK ==
    /\ record \in [Jobs -> Record]
    /\ list \in Seq(Jobs)
    /\ listTtl \in 0 .. JobTTL
    /\ submit \in [Jobs -> {"new", "refused", "store", "push", "arm", "sent", "failed"}]
    /\ serve \in [Handlers -> Request]
    /\ phone \in [Phones -> Agent]
    /\ ran \in [Jobs -> Nat]
    /\ dropped \subseteq Jobs /\ slow \subseteq Jobs
    /\ faults \in 0 .. MaxFaults

\* A command is started at most once, whatever is lost, retried or polled by
\* two agents at a time.
AtMostOnce == \A j \in Jobs : ran[j] <= 1

\* A job its caller was told is queued can still be claimed: its id is in the
\* list or in the hands of a claim, unless a call that held it has failed or the
\* list expired between the two commands that add and re-arm it.
QueuedIsReachable ==
    \A j \in Jobs :
        submit[j] = "sent" /\ record[j].status = "queued" /\ j \notin dropped =>
            \/ j \in ToSet(list)
            \/ \E h \in Handlers : serve[h].job = j /\ serve[h].at \in {"get", "mark"}

\* The record of a job does not expire while an agent asks for it, runs it or
\* posts its result, however long it was queued before.
RecordOutlivesWork ==
    \A p \in Phones : phone[p].job # NoJob => record[phone[p].job].status # "none"

\* A job is found when it is looked for: by a claim while it waits, by its post while it runs.
JobsFound == QueuedIsReachable /\ RecordOutlivesWork

\* Callers that pass the length check together exceed the limit by no more
\* than their number.
DepthBounded == Len(list) + Cardinality({j \in Jobs : submit[j] \in {"store", "push"}})
                    <= MaxDepth + Callers - 1

\* A stored result is never overwritten nor taken back, by a late or repeated
\* post or by a claim that was slow to mark its job.
ResultStays ==
    [][\A j \in Jobs : record[j].status \in Final =>
          record'[j].status \in {record[j].status, "none"}]_vars

\* Again and again the list holds no job that is waiting to be claimed: agents
\* get through it, behind whatever ids of expired jobs, and even if no other
\* caller and no expiry comes to help.
Served == []<>(\A j \in ToSet(list) : record[j].status # "queued")
=============================================================================
