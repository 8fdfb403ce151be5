----------------------------- MODULE KeyCascade -----------------------------
(***************************************************************************)
(* How a call finds an API key that works.  Six clients walk the same grid *)
(* of models and keys with different rules: Gemini, GLM, Groq and B.AI for *)
(* chat, Exa for web answers, and the scan worker's embeddings.  A rate    *)
(* limited pair of model and key is remembered for a while, in Redis or in *)
(* the process, and spared by every call until then.                       *)
(*                                                                         *)
(* A step is one look at the memory or one answer of the provider.  Calls  *)
(* of other processes interleave between them, and all this call sees of   *)
(* them is what they record.  Models and keys count from 0.                *)
(***************************************************************************)
EXTENDS Naturals, FiniteSets

CONSTANTS
    Callers,        \* calls of a behaviour, all to one provider
    Providers,      \* clients that are used
    NumModels,      \* the primary model and its fallbacks, where a client has them
    NumKeys

ASSUME CascadeAssumption == NumModels \in Nat \ {0} /\ NumKeys \in Nat \ {0}

VARIABLES
    provider,       \* the client the calls go through
    asked,          \* what became of each call
    cooling,        \* recorded cooldowns of the provider: <<model, key>>
    turn            \* keyRotationCounter

cascadeVars == <<provider, asked, cooling, turn>>

\* badKey: 401 or 403; limited: 429; overloaded: 503; network: timeout or dropped connection;
\* gone: 404; other: any other status.
Failures == {"badKey", "limited", "overloaded", "network", "gone", "other"}
Passing == {"limited", "overloaded", "network"}

(* What a client does after a failure: ask the next pair, leave the key or *)
(* the model, or give up with the error.                                   *)
Else(f, rest) == [x \in Failures |-> IF x \in DOMAIN f THEN f[x] ELSE rest]
NextWhen(S) == [x \in S |-> "next"]

GeminiPolicy ==
    [modelFirst |-> TRUE, rotates |-> TRUE, oneModel |-> FALSE, passes |-> 1,
     after |-> [Else(NextWhen(Passing \cup {"badKey"}), "throw") EXCEPT !["gone"] = "nextModel"],
     cools |-> Passing, coolsLast |-> TRUE, skipError |-> "skipped"]
GlmPolicy ==
    [modelFirst |-> FALSE, rotates |-> FALSE, oneModel |-> FALSE, passes |-> 1,
     after |-> [Else(NextWhen(Passing), "throw") EXCEPT !["badKey"] = "nextKey"],
     cools |-> {"limited"}, coolsLast |-> TRUE, skipError |-> "skipped"]
GroqPolicy ==
    [modelFirst |-> FALSE, rotates |-> FALSE, oneModel |-> FALSE, passes |-> 1,
     after |-> [Else(NextWhen(Passing), "throw") EXCEPT !["badKey"] = "nextKey"],
     cools |-> {"limited"}, coolsLast |-> TRUE, skipError |-> "skipped"]
BaiPolicy ==
    [modelFirst |-> FALSE, rotates |-> FALSE, oneModel |-> TRUE, passes |-> 2,
     after |-> Else(NextWhen(Passing \cup {"badKey"}), "throw"),
     cools |-> Passing, coolsLast |-> TRUE, skipError |-> "skipped"]
\* The last key's rate limit is thrown before it is recorded.
ExaPolicy ==
    [modelFirst |-> FALSE, rotates |-> FALSE, oneModel |-> TRUE, passes |-> 1,
     after |-> Else(NextWhen(Passing), "throw"),
     cools |-> {"limited"}, coolsLast |-> FALSE, skipError |-> "skipped"]
\* A key found cooling counts as a rate limit.
EmbedPolicy ==
    [modelFirst |-> FALSE, rotates |-> TRUE, oneModel |-> TRUE, passes |-> 1,
     after |-> Else(NextWhen({"limited", "badKey"}), "throw"),
     cools |-> {"limited"}, coolsLast |-> TRUE, skipError |-> "limited"]

Policy == [gemini |-> GeminiPolicy, glm |-> GlmPolicy, groq |-> GroqPolicy,
           bai |-> BaiPolicy, exa |-> ExaPolicy, embed |-> EmbedPolicy]

ASSUME ProviderAssumption == Providers \subseteq DOMAIN Policy

-----------------------------------------------------------------------------
(* The walk over the grid.                                                 *)

ModelIds == 0..(NumModels - 1)
KeyIds == 0..(NumKeys - 1)
Rules == Policy[provider]

Unasked == [pc |-> "unasked", models |-> {}, offset |-> 0, pos |-> 0, pass |-> 1, live |-> 0,
            round |-> 1, err |-> "none", marked |-> FALSE,
            seen |-> {}, badKeys |-> {}, gone |-> {}, lasting |-> FALSE]

CascadeInit ==
    /\ provider \in Providers
    /\ asked = [c \in Callers |-> Unasked]
    /\ cooling = {}
    /\ turn \in KeyIds           \* of the calls the process served before

Size(c) == Cardinality(asked[c].models) * NumKeys
FirstModel(c) == CHOOSE m \in asked[c].models : \A n \in asked[c].models : m <= n

\* The pair at a position: for a model every key, or for a key every model.
KeyAt(c, pos) ==
    (asked[c].offset + (IF Rules.modelFirst THEN pos ELSE pos \div Cardinality(asked[c].models)))
        % NumKeys
ModelAt(c, pos) ==
    FirstModel(c) + (IF Rules.modelFirst THEN pos \div NumKeys
                ELSE pos % Cardinality(asked[c].models))
Here(c) == <<ModelAt(c, asked[c].pos), KeyAt(c, asked[c].pos)>>

OnwardByWholeRow(c, move) ==
    LET inner == IF Rules.modelFirst THEN NumKeys ELSE Cardinality(asked[c].models)
    IN  IF move = "next" THEN asked[c].pos + 1 ELSE asked[c].pos + inner

\* The position a failure moves the call to: the next pair, model or key.
Onward(c, move) ==
    LET inner == IF Rules.modelFirst THEN NumKeys ELSE Cardinality(asked[c].models)
        pos == asked[c].pos
    IN  IF move = "next" THEN pos + 1 ELSE ((pos \div inner) + 1) * inner

\* The call's record afterwards.
Becomes(c, record) == asked' = [asked EXCEPT ![c] = record]

\* A caller that names a model other than the primary one gets no other.
ModelsFor(m) == IF m = 0 /\ ~Rules.oneModel THEN ModelIds ELSE {m}

StartCall(c) ==
    /\ asked[c].pc = "unasked"
    /\ \E m \in ModelIds :
        /\ Rules.oneModel => m = 0
        /\ Becomes(c, [asked[c] EXCEPT !.pc = "look", !.models = ModelsFor(m),
                                       !.offset = IF Rules.rotates THEN turn ELSE 0])
    /\ turn' = IF Rules.rotates THEN (turn + 1) % NumKeys ELSE turn
    /\ UNCHANGED <<provider, cooling>>

\* The error kept while the walk goes on: a pair that was spared never hides a real answer.
SkipError(c) == IF asked[c].err = "none" THEN Rules.skipError ELSE asked[c].err

\* The pair is known to be rate limited and is spared.
SkipPair(c) ==
    /\ asked[c].pc = "look" /\ asked[c].pos < Size(c) /\ Here(c) \in cooling
    /\ Becomes(c, [asked[c] EXCEPT !.pos = @ + 1, !.seen = @ \cup {Here(c)},
                                   !.err = SkipError(c)])
    /\ UNCHANGED <<provider, cooling, turn>>

\* The memory has nothing about the pair, or did not answer (it fails open).
SendRequest(c) ==
    /\ asked[c].pc = "look" /\ asked[c].pos < Size(c)
    /\ Becomes(c, [asked[c] EXCEPT !.pc = "flight", !.live = 1])
    /\ UNCHANGED <<provider, cooling, turn>>

\* The result says so when another pair than the first served it.
Marked(c) ==
    /\ provider # "embed"
    /\ IF provider = "bai" THEN KeyAt(c, asked[c].pos) > 0 ELSE asked[c].pos > 0

Succeed(c) ==
    /\ asked[c].pc = "flight"
    /\ Becomes(c, [asked[c] EXCEPT !.pc = "served", !.marked = Marked(c)])
    /\ UNCHANGED <<provider, cooling, turn>>

\* baiChat: an answer whose tokens all went to reasoning is asked for once more, with more.
AskAgain(c) ==
    /\ asked[c].pc = "flight" /\ provider = "bai" /\ asked[c].round = 1
    /\ Becomes(c, [Unasked EXCEPT !.pc = "look", !.models = asked[c].models, !.round = 2])
    /\ UNCHANGED <<provider, cooling, turn>>

IsLast(c) == asked[c].pos = Size(c) - 1
Records(c, f) == f \in Rules.cools /\ (Rules.coolsLast \/ ~IsLast(c))
GivesUpAtLastKey(c, f) ==
    Rules.after[f] = "throw" \/ KeyAt(c, asked[c].pos) = NumKeys - 1
GivesUp(c, f) ==
    \/ Rules.after[f] = "throw"
    \/ Rules.after[f] = "nextModel" /\ Onward(c, "nextModel") >= Size(c)

Fail(c, f) ==
    /\ asked[c].pc = "flight"
    /\ Becomes(c,
           [asked[c] EXCEPT !.err = f,
                            !.pc = IF GivesUp(c, f) THEN "failed" ELSE "look",
                            !.pos = IF GivesUp(c, f) THEN @ ELSE Onward(c, Rules.after[f]),
                            !.seen = @ \cup {Here(c)},
                            !.badKeys = IF f = "badKey" THEN @ \cup {Here(c)[2]} ELSE @,
                            !.gone = IF f = "gone" THEN @ \cup {Here(c)[1]} ELSE @,
                            !.lasting = @ \/ f \notin Passing])
    /\ \/ cooling' = cooling                             \* a write that fails is ignored
       \/ Records(c, f) /\ cooling' = cooling \cup {Here(c)}
    /\ UNCHANGED <<provider, turn>>

\* B.AI's keys get a second pass, unless the first one asked none of them.
NextPass(c) ==
    /\ asked[c].pc = "look" /\ asked[c].pos >= Size(c)
    /\ asked[c].pass < Rules.passes /\ asked[c].live > 0
    /\ Becomes(c, [asked[c] EXCEPT !.pos = 0, !.pass = @ + 1, !.live = 0])
    /\ UNCHANGED <<provider, cooling, turn>>

\* B.AI's error is marked transient if every attempt behind it was; the others throw the last
\* answer they got.
FinalError(c) ==
    CASE provider # "bai" -> asked[c].err
      [] OTHER -> IF asked[c].lasting THEN "other" ELSE "network"

Exhausted(c) ==
    /\ asked[c].pc = "look" /\ asked[c].pos >= Size(c)
    /\ asked[c].pass = Rules.passes \/ asked[c].live = 0
    /\ Becomes(c, [asked[c] EXCEPT !.pc = "failed", !.err = FinalError(c)])
    /\ UNCHANGED <<provider, cooling, turn>>

\* A recorded cooldown runs out.
Expire ==
    /\ \E pair \in cooling : cooling' = cooling \ {pair}
    /\ UNCHANGED <<provider, asked, turn>>

\* A call of another process was rate limited.
CoolElsewhere ==
    /\ \E m \in IF Rules.oneModel THEN {0} ELSE ModelIds, k \in KeyIds :
            cooling' = cooling \cup {<<m, k>>}
    /\ UNCHANGED <<provider, asked, turn>>

CascadeNext ==
    \/ Expire
    \/ CoolElsewhere
    \/ \E c \in Callers :
        \/ StartCall(c) \/ SkipPair(c) \/ SendRequest(c) \/ Succeed(c) \/ AskAgain(c)
        \/ NextPass(c) \/ Exhausted(c) \/ \E f \in Failures : Fail(c, f)

CascadeSpec == CascadeInit /\ [][CascadeNext]_cascadeVars

-----------------------------------------------------------------------------
(* Properties.                                                             *)

\* Type correctness.
CascadeTypeOK ==
    /\ provider \in Providers
    /\ cooling \subseteq ModelIds \X KeyIds
    /\ turn \in KeyIds
    /\ \A c \in Callers :
        /\ asked[c].pc \in {"unasked", "look", "flight", "served", "failed"}
        /\ asked[c].models \subseteq ModelIds
        /\ asked[c].offset \in KeyIds
        /\ asked[c].pos \in 0..(NumModels * NumKeys)
        /\ asked[c].pass \in 1..2 /\ asked[c].round \in 1..2
        /\ asked[c].err \in Failures \cup {"none", "skipped"}
        /\ asked[c].seen \subseteq asked[c].models \X KeyIds

\* A key that only some client may pass over: the rest of its models, or of the model's keys.
Excused(c, m, k) ==
    \/ provider \in {"glm", "groq"} /\ k \in asked[c].badKeys
    \/ provider = "gemini" /\ m \in asked[c].gone

\* A call that fails with an error another pair might not have given has tried, or found
\* cooling, every pair of its grid but those a bad key or a retired model excuses, whatever key
\* the rotation began with and whatever other calls recorded meanwhile.
EveryPairTried ==
    \A c \in Callers :
        (asked[c].pc = "failed" /\ asked[c].err \in {"limited", "badKey", "gone", "skipped"}) =>
            \A m \in asked[c].models, k \in KeyIds :
                \/ <<m, k>> \in asked[c].seen
                \/ Excused(c, m, k)
                \/ asked[c].err = "badKey" /\ Rules.after["badKey"] = "throw"
                \/ asked[c].err = "gone" /\ Rules.after["gone"] = "throw"

\* A result is marked as a fallback only if something failed or was spared before it, and an
\* unmarked result of the chat clients came from the call's first pair.
FallbackMarked ==
    \A c \in Callers : asked[c].pc = "served" =>
        /\ asked[c].marked => asked[c].seen # {}
        /\ (~asked[c].marked /\ provider # "embed") => asked[c].pos = 0

\* The walk leaves nothing untried and does not hide that it went on.
WalkHonest == EveryPairTried /\ FallbackMarked
=============================================================================
