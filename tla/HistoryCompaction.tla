-------------------------- MODULE HistoryCompaction --------------------------
(***************************************************************************)
(* What an investigation remembers of its tool calls, for a provider whose *)
(* history is compacted (bai): the conversation, whose older bulky results *)
(* are replaced by a marker; the text they had, kept in a map and in Redis *)
(* for the check of the draft answer; and the cache that serves an exact   *)
(* repeat of a call.  A run is killed and resumed from what Redis has.     *)
(*                                                                         *)
(* A text is what it shows and the version of the repository it was read   *)
(* at.  Result ids are unique within a turn only.                          *)
(***************************************************************************)
EXTENDS Naturals, Sequences, FiniteSets, Functions

CONSTANTS
    Batches,            \* what the model may call in one step: sequences of [name, ref, page]
    ResultIds,          \* ids of function calls, in the order a turn uses them
    FullDetail,         \* HISTORY_FULL_DETAIL_STEPS
    StepRoom,           \* long results that fit in one step (MAX_STEP_RESULT_CHARS)
    MaxVersions,
    HistoryBudgets       \* bounds, one chosen per behaviour: [steps, push, fault, faults, kill,
                        \* draft, error], faults being the Redis failures allowed at the start

VARIABLES
    contents,           \* the response turns in memory: sequences of [id, call, text, sent]
    precompact,         \* preCompactionResults: <<id, suffix>> -> text
    resultCache,        \* signature -> text
    repeatCounts,       \* signatures called so far
    turn,               \* the step under way: its number, stage and results
    redis,              \* list of turns, meta, side store and cache entries
    head,               \* version of the repository the tools read
    historyLeft

historyVars == <<contents, precompact, resultCache, repeatCounts, turn, redis, head, historyLeft>>

-----------------------------------------------------------------------------
\* The calls.

HeadLike(call) == call.ref \in {"none", "HEAD"}
FamilyOf(call) == call.name \in {"read_file", "get_file_at_commit"}

\* normalizedSignature: reads of the same part of a file at the head are one call.
SignatureOf(call) ==
    IF FamilyOf(call) /\ HeadLike(call) THEN <<"family", call.page>>
    ELSE <<call.name, call.ref, call.page>>

\* validateFunctionArgs: get_file_at_commit needs a commit.
Refused(call) == call.name = "get_file_at_commit" /\ call.ref = "none"

Refusal == [shows |-> "refusal", at |-> 0]
Failure == [shows |-> "error", at |-> 0]
Marker == [shows |-> "marker", at |-> 0]
CutOut == [shows |-> "withheld", at |-> 0]
IsLong(text) == text.at > 0

\* What a call that runs may return: the part of the file it names, or an error.
Outcomes(call) == IF Refused(call) THEN {Refusal} ELSE {Failure, [shows |-> call.page, at |-> head]}

Tries(kind) == historyLeft[kind] > 0 /\ historyLeft' = [historyLeft EXCEPT ![kind] = @ - 1]
Put(store, key, text) == [k \in DOMAIN store \cup {key} |-> IF k = key THEN text ELSE store[k]]
Joined(store, entries) ==
    [k \in DOMAIN store \cup DOMAIN entries |-> IF k \in DOMAIN entries THEN entries[k] ELSE store[k]]

\* What Redis keeps of a run, each part under its keys: the list of turns, the meta record, the
\* uncut results and the result cache.
EmptyStore == [list |-> << >>, meta |-> [steps |-> 0, counts |-> {}], side |-> <<>>, cache |-> <<>>]

HistoryInit ==
    /\ contents = << >> /\ precompact = <<>> /\ resultCache = <<>> /\ repeatCounts = {}
    /\ turn = [step |-> 1, stage |-> "ask", results |-> << >>]
    /\ redis = EmptyStore
    /\ head = 1
    /\ historyLeft \in HistoryBudgets

-----------------------------------------------------------------------------
\* A step.

\* The signatures the run has called before and this process has no text of.
MissingCached(calls) ==
    {SignatureOf(calls[i]) : i \in DOMAIN calls} \cap (repeatCounts \ DOMAIN resultCache)

\* The cache once the missing entries are fetched (getResultCacheEntries), in one MGET.
Fetched(calls) ==
    Joined(resultCache, [s \in MissingCached(calls) \cap DOMAIN redis.cache |-> redis.cache[s]])

\* A call of the step is a repeat when the run or an earlier call of the step has its signature.
IsRepeat(calls, i) ==
    \/ SignatureOf(calls[i]) \in repeatCounts
    \/ \E j \in 1..(i - 1) : SignatureOf(calls[j]) = SignatureOf(calls[i])

\* Served as before, or run: the calls of a step start before any of them has ended.
ReadsOrServes(calls, i, known) ==
    IF IsRepeat(calls, i) /\ SignatureOf(calls[i]) \in DOMAIN known
    THEN {known[SignatureOf(calls[i])]}
    ELSE Outcomes(calls[i])

Runs(calls, known) == {i \in DOMAIN calls :
                        ~(IsRepeat(calls, i) /\ SignatureOf(calls[i]) \in DOMAIN known)}

\* The per-step cap: the long results beyond the room are withheld from the conversation.
WithinRoom(texts) ==
    [i \in DOMAIN texts |->
        IF IsLong(texts[i]) /\ Cardinality({j \in 1..(i - 1) : IsLong(texts[j])}) >= StepRoom
        THEN CutOut ELSE texts[i]]

\* The model's turn and its results.  Of calls with one signature the last to end leaves its text
\* in the cache and in Redis; a fetch or a write that fails is ignored.
Lasts(calls, run) ==
    LET signatures == {SignatureOf(calls[i]) : i \in run}
    IN  {last \in [signatures -> run] : \A s \in signatures : SignatureOf(calls[last[s]]) = s}

Take(calls, texts) ==
    LET sent == WithinRoom(texts)
    IN  turn' = [turn EXCEPT !.stage = "compact",
                    !.results = [i \in DOMAIN calls |-> [id |-> ResultIds[i], call |-> calls[i],
                                                          text |-> sent[i], sent |-> sent[i]]]]

Costs(redisFailed, errors) ==
    /\ historyLeft.error >= errors /\ redisFailed => historyLeft.fault > 0
    /\ historyLeft' = [historyLeft EXCEPT !.error = @ - errors,
                                        !.fault = @ - IF redisFailed THEN 1 ELSE 0]

CallTools ==
    /\ turn.stage = "ask" /\ turn.step <= historyLeft.steps
    /\ \E calls \in Batches : \E known \in {resultCache, Fetched(calls)} :
        LET run == Runs(calls, known)
            any == UNION {ReadsOrServes(calls, i, known) : i \in DOMAIN calls}
        IN  \E texts \in [DOMAIN calls -> any], last \in Lasts(calls, run) :
            \E kept \in SUBSET DOMAIN last :
                /\ \A i \in DOMAIN calls : texts[i] \in ReadsOrServes(calls, i, known)
                /\ Costs(known # Fetched(calls) \/ kept # DOMAIN last,
                         Cardinality({i \in run : texts[i] = Failure}))
                /\ resultCache' = Joined(known, [s \in DOMAIN last |-> texts[last[s]]])
                /\ redis' = [redis EXCEPT !.cache = Joined(@, [s \in kept |-> texts[last[s]]])]
                /\ repeatCounts' = repeatCounts \cup {SignatureOf(calls[i]) : i \in DOMAIN calls}
                /\ Take(calls, texts)
    /\ UNCHANGED <<contents, precompact, head>>

\* A draft answer goes back to the model: a step without results, saved like the others.
SendBackDraft ==
    /\ turn.stage = "ask" /\ turn.step <= historyLeft.steps
    /\ Tries("draft")
    /\ turn' = [turn EXCEPT !.stage = "save"]
    /\ UNCHANGED <<contents, precompact, resultCache, repeatCounts, redis, head>>

\* A plain set, whatever the map has under the id.
StoreOver(map, id, text) == <<Put(map, <<id, 1>>, text), <<id, 1>>>>

\* setPreCompactionResult: a text goes under its id, or under the first suffix that is free or has
\* the same text.
StoreUnder(map, id, text) ==
    LET taken(k) == <<id, k>> \in DOMAIN map /\ map[<<id, k>>] # text
        k == CHOOSE k \in 1..(Cardinality(DOMAIN map) + 1) : ~taken(k) /\ \A j \in 1..(k - 1) : taken(j)
    IN  <<Put(map, <<id, k>>, text), <<id, k>>>>

\* compactHistoryInPlace for a step about to be taken or ended: the long results of the response
\* turns before the last FullDetail steps become markers.
AgedOut(list, step) == {i \in DOMAIN list : i + FullDetail <= step - 1}

CompactTurn(results) ==
    [i \in DOMAIN results |-> IF IsLong(results[i].text) THEN [results[i] EXCEPT !.text = Marker]
                                                         ELSE results[i]]

Compacted(list, step) ==
    [i \in DOMAIN list |-> IF i \in AgedOut(list, step) THEN CompactTurn(list[i]) ELSE list[i]]

\* The results that are compacted now, in order.
NewlyCompacted(list, step) ==
    LET place[i \in 0..Len(list)] ==
            IF i = 0 THEN << >>
            ELSE place[i - 1] \o (IF i \in AgedOut(list, step)
                                  THEN SelectSeq(list[i], LAMBDA r : IsLong(r.text)) ELSE << >>)
    IN  place[Len(list)]

\* The map and the side store's entries after those results.
Stores(map, results) ==
    LET at[k \in 0..Len(results)] ==
            IF k = 0 THEN [map |-> map, side |-> <<>>]
            ELSE LET stored == StoreUnder(at[k - 1].map, results[k].id, results[k].text)
                 IN  [map |-> stored[1], side |-> Put(at[k - 1].side, stored[2], results[k].text)]
    IN  at[Len(results)]

\* The list is compacted, its texts are put away, and the step's turn is appended.
CompactAndAppend ==
    /\ turn.stage = "compact"
    /\ LET kept == Stores(precompact, NewlyCompacted(contents, turn.step))
       IN  /\ precompact' = kept.map
           /\ \/ redis' = [redis EXCEPT !.side = Joined(@, kept.side)] /\ UNCHANGED historyLeft
              \/ DOMAIN kept.side # {} /\ Tries("fault") /\ UNCHANGED redis
    /\ contents' = Append(Compacted(contents, turn.step), turn.results)
    /\ turn' = [turn EXCEPT !.stage = "save"]
    /\ UNCHANGED <<resultCache, repeatCounts, head>>

\* saveCheckpoint: the turns since the last save are pushed and meta is set, each of which may
\* fail alone; a turn whose push failed is not pushed again.
SaveStep ==
    /\ turn.stage = "save"
    /\ \E pushed, set \in BOOLEAN :
        /\ IF pushed /\ set THEN UNCHANGED historyLeft ELSE Tries("fault")
        /\ redis' = [redis EXCEPT
                        !.list = IF pushed /\ turn.results # << >> THEN Append(@, turn.results) ELSE @,
                        !.meta = IF set THEN [steps |-> turn.step, counts |-> repeatCounts] ELSE @]
    /\ turn' = [step |-> turn.step + 1, stage |-> "ask", results |-> << >>]
    /\ UNCHANGED <<contents, precompact, resultCache, repeatCounts, head>>

\* The process ends, at any point.
KillRun ==
    /\ turn.stage # "down" /\ Tries("kill")
    /\ turn' = [step |-> 0, stage |-> "down", results |-> << >>]
    /\ contents' = << >> /\ precompact' = <<>> /\ resultCache' = <<>> /\ repeatCounts' = {}
    /\ UNCHANGED <<redis, head>>

\* A resume: the turns come back as they were pushed and are compacted anew; the map and the cache
\* start empty.
ResumeRun ==
    /\ turn.stage = "down"
    /\ LET step == redis.meta.steps + 1
           kept == Stores(<<>>, NewlyCompacted(redis.list, step))
       IN  /\ contents' = Compacted(redis.list, step)
           /\ precompact' = kept.map
           /\ \/ redis' = [redis EXCEPT !.side = Joined(@, kept.side)] /\ UNCHANGED historyLeft
              \/ DOMAIN kept.side # {} /\ Tries("fault") /\ UNCHANGED redis
           /\ turn' = [step |-> step, stage |-> "ask", results |-> << >>]
    /\ repeatCounts' = redis.meta.counts
    /\ UNCHANGED <<resultCache, head>>

\* Someone pushes to the repository; when, between two steps, makes no difference.
PushRepo ==
    /\ turn.stage = "ask" /\ head < MaxVersions /\ Tries("push")
    /\ head' = head + 1
    /\ UNCHANGED <<contents, precompact, resultCache, repeatCounts, turn, redis>>

HistoryNext ==
    CallTools \/ SendBackDraft \/ CompactAndAppend \/ SaveStep \/ KillRun \/ ResumeRun \/ PushRepo

-----------------------------------------------------------------------------
\* The check of a draft (findUnverifiedClaims, lineIsVerbatimInToolResults): the text the
\* conversation still has, the map, and what Redis has under the ids the map does not have.
AllResults == UNION {Range(contents[i]) : i \in DOMAIN contents}
MissingFromMap == {r.id : r \in {q \in AllResults : q.text = Marker /\ <<q.id, 1>> \notin DOMAIN precompact}}
ToolTexts ==
    {r.text : r \in AllResults} \cup Range(precompact)
        \cup {redis.side[k] : k \in {j \in DOMAIN redis.side : j[1] \in MissingFromMap /\ j[2] = 1}}

Verbatim(text) == text \in ToolTexts

HistoryTypeOK ==
    /\ turn.step \in 0..(historyLeft.steps + 1) /\ turn.stage \in {"ask", "compact", "save", "down"}
    /\ Len(contents) <= historyLeft.steps + 1 /\ Len(redis.list) <= historyLeft.steps + 1
    /\ head \in 1..MaxVersions
    /\ DOMAIN precompact \subseteq Range(ResultIds) \X (1..(historyLeft.steps + 1))

\* What the model was sent in the conversation it still has is found by the check of its draft,
\* compacted or not, and whatever ids the turns share: a quote of it is never called unverified.
EvidenceKept == \A r \in AllResults : Verbatim(r.sent)

\* While Redis keeps what it is given, a call made again in a later turn has the text it had in
\* the earlier one, in this process or after a resume: it is not run again.
RepeatsAgree ==
    historyLeft.fault = historyLeft.faults
        => \A i, j \in DOMAIN contents : i < j =>
            \A r \in Range(contents[j]) :
                LET before == {q \in Range(contents[i]) : SignatureOf(q.call) = SignatureOf(r.call)}
                IN  before = {} \/ CutOut \in {q.sent : q \in before \cup {r}}
                    \/ \E q \in before : q.sent = r.sent

\* A call is answered with the part of the file it names, an error, or the refusal of a call with
\* its signature, never with another part.
AnsweredWithOwn ==
    \A r \in AllResults : r.sent.shows \in {r.call.page, "error", "refusal", "withheld"}

\* The investigation's memory of its tool calls is sound.
EvidenceSound == EvidenceKept /\ RepeatsAgree /\ AnsweredWithOwn

=============================================================================
