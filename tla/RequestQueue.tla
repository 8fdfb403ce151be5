---------------------------- MODULE RequestQueue ----------------------------
(***************************************************************************)
(* How a process paces its requests to one service, GitHub, Notion or      *)
(* Mem0.  Tool calls that run side by side put their requests on one       *)
(* promise chain, which leaves a minimum gap between two starts; a request *)
(* that meets a rate limit, or a server error where the client thinks it   *)
(* safe, waits outside the chain and joins it again at the end.            *)
(*                                                                         *)
(* Time is counted in ticks.  A server error leaves open whether the       *)
(* request was carried out.                                                *)
(***************************************************************************)
EXTENDS Naturals, Sequences

CONSTANTS
    Requests,       \* calls of githubRequest, notionRequest or mem0Request
    Upstreams,      \* which of the three services a behaviour may be about
    MIN_INTERVAL,   \* ticks between two starts
    MAX_RETRIES,
    MaxTime         \* bound on the clock, for a finite model

ASSUME QueueAssumption == MIN_INTERVAL \in Nat /\ MAX_RETRIES \in Nat /\ MaxTime \in Nat

VARIABLES
    upstream,       \* the service
    clock,
    chain,          \* the requests on the promise chain, the running one first
    lastStarted,    \* when the last request was sent
    request         \* each request: what it asks, where it stands

queueVars == <<upstream, clock, chain, lastStarted, request>>

Kinds == {"read", "append"}         \* append: carried out twice, it leaves two of the thing
Stages == {"idle", "queued", "gap", "flight", "backoff", "ok", "failed"}

\* pacing: 429, and GitHub's 403 for its secondary limit; gateway: 502, 503, 504; server: any other
\* 5xx; refused: any other status; dropped: fetch throws.
Pacing == {"pacing"}
ServerErrors == {"gateway", "server"}
Answers == {"ok", "refused", "dropped"} \cup Pacing \cup ServerErrors

\* The service may have done what it was asked though the caller is told otherwise.
Ambiguous == {"ok", "dropped"} \cup ServerErrors

\* isRetryable, isRetryableNotion with isSafeToRetryOnServerError, isRetryableMem0.
Retryable(service, kind, answer) ==
    \/ answer \in Pacing
    \/ service = "notion" /\ answer = "gateway" /\ kind = "read"
    \/ service = "mem0" /\ answer \in ServerErrors

QueueInit ==
    /\ upstream \in Upstreams
    /\ clock = MIN_INTERVAL /\ lastStarted = 0
    /\ chain = << >>
    /\ request = [r \in Requests |-> [stage |-> "idle", kind |-> "read", attempt |-> 0,
                                      until |-> 0, applied |-> 0]]

Stage(r) == request[r].stage
Moves(r, stage) == request' = [request EXCEPT ![r].stage = stage]

Call(r) ==
    /\ Stage(r) = "idle"
    /\ \E kind \in Kinds :
        request' = [request EXCEPT ![r].stage = "queued", ![r].kind = kind]
    /\ chain' = Append(chain, r)
    /\ UNCHANGED <<upstream, clock, lastStarted>>

Whenever(r) == r \in Requests
First(r) == chain # << >> /\ Head(chain) = r

\* The request before it is over: how long to wait is worked out once.
Turn(r) ==
    /\ Stage(r) = "queued" /\ First(r)
    /\ request' = [request EXCEPT ![r].stage = "gap", ![r].until = lastStarted + MIN_INTERVAL]
    /\ UNCHANGED <<upstream, clock, chain, lastStarted>>

Send(r) ==
    /\ Stage(r) = "gap" /\ clock >= request[r].until
    /\ lastStarted' = clock
    /\ Moves(r, "flight")
    /\ UNCHANGED <<upstream, clock, chain>>

StageAfter(r, answer) ==
    CASE answer = "ok" -> "ok"
      [] answer # "ok" /\ Retryable(upstream, request[r].kind, answer)
             /\ request[r].attempt < MAX_RETRIES -> "backoff"
      [] OTHER -> "failed"

\* Whatever the answer is, the next request on the chain gets its turn.
Receive(r, answer) ==
    /\ Stage(r) = "flight"
    /\ \E done \in {0, 1} :
        /\ answer = "ok" => done = 1
        /\ answer \notin Ambiguous => done = 0
        /\ request' = [request EXCEPT ![r].stage = StageAfter(r, answer),
                                      ![r].applied = IF request[r].kind = "append" THEN @ + done
                                                     ELSE @]
    /\ chain' = Tail(chain)
    /\ UNCHANGED <<upstream, clock, lastStarted>>

\* The pause is over, at a time the service or the jitter chose: the request queues again.
TryAgain(r) ==
    /\ Stage(r) = "backoff"
    /\ request' = [request EXCEPT ![r].stage = "queued", ![r].attempt = @ + 1]
    /\ chain' = Append(chain, r)
    /\ UNCHANGED <<upstream, clock, lastStarted>>

Pass ==
    /\ clock < MaxTime
    /\ clock' = clock + 1
    /\ UNCHANGED <<upstream, chain, lastStarted, request>>

QueueNext ==
    \/ Pass
    \/ \E r \in Requests :
        \/ Call(r) \/ Turn(r) \/ Send(r) \/ TryAgain(r)
        \/ \E answer \in Answers : Receive(r, answer)

QueueSpec == QueueInit /\ [][QueueNext]_queueVars

-----------------------------------------------------------------------------
(* Properties.                                                             *)

\* Type correctness.
QueueTypeOK ==
    /\ upstream \in Upstreams
    /\ clock \in Nat /\ lastStarted \in Nat
    /\ chain \in Seq(Requests)
    /\ request \in [Requests -> [stage : Stages, kind : Kinds, attempt : Nat, until : Nat,
                                 applied : Nat]]

\* The chain is what keeps calls that run side by side from being sent together.
OneRequestAtATime ==
    \A r, s \in Requests : (Stage(r) = "flight" /\ Stage(s) = "flight") => r = s

\* Two requests are never sent closer than the minimum gap, also when the wait of the second
\* was worked out while the first had long been queued, or one of them is a retry.
StartsAreSpaced ==
    [][lastStarted' # lastStarted => lastStarted' >= lastStarted + MIN_INTERVAL]_queueVars

\* A request whose repetition would leave two of the thing is carried out at most once by GitHub
\* and Notion however often it is tried: a failure that may hide a success is never retried.
\* (Mem0's client retries those too.)
AppliedOnce == \A r \in Requests : upstream # "mem0" => request[r].applied <= 1

\* One failure does not jam the queue: only a request that is being sent or about to be sent
\* keeps the others from their turn.
NeverJammed ==
    chain # << >> => Stage(Head(chain)) \in {"queued", "gap", "flight"}
\* Requests go out one by one, no failure stops them, and none is done twice.
QueueSound == OneRequestAtATime /\ AppliedOnce /\ NeverJammed
=============================================================================
