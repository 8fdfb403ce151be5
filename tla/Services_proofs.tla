-------------------------- MODULE Services_proofs --------------------------
(***************************************************************************)
(* What the walk over models and keys promises, for any number of models,  *)
(* keys and calls, whichever client walks and whatever others record; what *)
(* the pacing of requests promises, for any number of requests, any        *)
(* interval and any number of retries; and that the services side by side  *)
(* keep what each of them keeps alone: a step of the run is a step of one  *)
(* service and a stutter of the others.                                    *)
(*                                                                         *)
(* The inductive invariant of the walk says that a call has met, or may    *)
(* pass over, every pair before its position, and in its second pass all   *)
(* of them.  That the positions of a grid are all its pairs, whatever key  *)
(* the rotation begins with, is arithmetic.                                *)
(*                                                                         *)
(* The inductive invariant of the queue says who may be where on the       *)
(* chain: a request is on it at most once, only the first has its turn,    *)
(* what the first waits for is the last start, and a request that is not   *)
(* over has not been carried out by a service whose client never retries   *)
(* after an ambiguous failure.                                             *)
(***************************************************************************)
EXTENDS MCServices, ScanJobs_proofs, SequenceTheorems

-----------------------------------------------------------------------------
(* The walk over models and keys.                                          *)


KnownClients == {"gemini", "glm", "groq", "bai", "exa", "embed"}

CallRecord == [pc : {"unasked", "look", "flight", "served", "failed"}, models : SUBSET ModelIds,
         offset : KeyIds, pos : Nat, pass : {1, 2}, live : {0, 1}, round : {1, 2},
         err : Failures \cup {"none", "skipped"}, marked : BOOLEAN, seen : SUBSET (Nat \X Nat),
         badKeys : SUBSET Nat, gone : SUBSET Nat, lasting : BOOLEAN]

\* A grid has one model or all of them, and only a client that rotates its keys begins elsewhere
\* than with the first.
Grid(c) ==
    /\ \/ asked[c].models = ModelIds
       \/ \E m \in ModelIds : asked[c].models = {m}
    /\ Rules.oneModel => asked[c].models = {0}
    /\ ~Rules.rotates => asked[c].offset = 0

\* The call has met the pair at a position, or may pass over it.
Met(c, q) ==
    \/ <<ModelAt(c, q), KeyAt(c, q)>> \in asked[c].seen
    \/ Excused(c, ModelAt(c, q), KeyAt(c, q))

MetAll(c) == \A q \in 0..(Size(c) - 1) : Met(c, q)

\* What it has met: all before its position, and in a second pass everything.
Walked(c) ==
    /\ \A q \in 0..(Size(c) - 1) : q < asked[c].pos => Met(c, q)
    /\ asked[c].pass = 2 => MetAll(c)
    /\ asked[c].pos > 0 => asked[c].seen # {} /\ asked[c].pos <= Size(c)
    /\ asked[c].pc = "flight" => asked[c].pos < Size(c)
    /\ asked[c].seen \subseteq asked[c].models \X KeyIds

\* A call that failed has met everything, or failed for good.
Finished(c) ==
    asked[c].pc = "failed" =>
        \/ MetAll(c)
        \/ asked[c].err \notin {"limited", "badKey", "gone", "skipped"}
        \/ asked[c].err \in {"badKey", "gone"} /\ Rules.after[asked[c].err] = "throw"

Honest(c) ==
    asked[c].pc = "served" =>
        /\ asked[c].marked => asked[c].seen # {}
        /\ (~asked[c].marked /\ provider # "embed") => asked[c].pos = 0

CallSound(c) ==
    IF asked[c].pc = "unasked" THEN asked[c] = Unasked
    ELSE Grid(c) /\ Walked(c) /\ Finished(c) /\ Honest(c)

WalkTyped ==
    /\ provider \in Providers /\ provider \in KnownClients
    /\ turn \in KeyIds
    /\ cooling \subseteq ModelIds \X KeyIds
    /\ asked \in [Callers -> CallRecord]

CascadeInv == WalkTyped /\ \A c \in Callers : CallSound(c)

-----------------------------------------------------------------------------
(* Arithmetic.                                                             *)

LEMMA DivMod ==
    ASSUME NEW n \in Nat \ {0}, NEW a \in Nat, NEW j \in 0..(n - 1)
    PROVE  /\ (a * n + j) \div n = a
           /\ (a * n + j) % n = j
OBVIOUS

LEMMA DivModRange ==
    ASSUME NEW n \in Nat \ {0}, NEW q \in Nat
    PROVE  q \div n \in Nat /\ q % n \in 0..(n - 1)
OBVIOUS

\* The positions up to the end of a row are in that row.
LEMMA SameRow ==
    ASSUME NEW n \in Nat \ {0}, NEW p \in Nat, NEW q \in Nat, p <= q, q < ((p \div n) + 1) * n
    PROVE  q \div n = p \div n
OBVIOUS

LEMMA RowEnd ==
    ASSUME NEW n \in Nat \ {0}, NEW p \in Nat
    PROVE  ((p \div n) + 1) * n \in Nat /\ ((p \div n) + 1) * n > p
OBVIOUS

LEMMA RowFits ==
    ASSUME NEW n \in Nat \ {0}, NEW b \in Nat, NEW a \in 0..(b - 1), NEW j \in 0..(n - 1)
    PROVE  a * n + j \in 0..(b * n - 1)
OBVIOUS

\* A row of the grid is inside the grid.
LEMMA RowInside ==
    ASSUME NEW n \in Nat \ {0}, NEW b \in Nat, NEW p \in 0..(b * n - 1)
    PROVE  p \div n \in 0..(b - 1) /\ ((p \div n) + 1) * n <= b * n
<1>1. PICK a \in Nat : a = p \div n
    BY DivModRange
<1>2. a * n <= p /\ p < a * n + n
    BY <1>1
<1>3. ~(a >= b)
    <2> SUFFICES ASSUME a >= b PROVE FALSE
        OBVIOUS
    <2>1. a * n >= b * n
        OBVIOUS
    <2> QED BY <1>2, <2>1
<1>4. b - (a + 1) \in Nat /\ b = (a + 1) + (b - (a + 1))
    BY <1>3
<1>5. b * n = (a + 1) * n + (b - (a + 1)) * n
    BY <1>4
<1>6. (b - (a + 1)) * n >= 0
    BY <1>4
<1> QED BY <1>1, <1>3, <1>5, <1>6

\* From any start, n steps round a circle of n places come to each of them.
Steps(n, o, k) == IF k >= o THEN k - o ELSE (k + n) - o

LEMMA Rotation ==
    ASSUME NEW n \in Nat \ {0}, NEW o \in 0..(n - 1), NEW k \in 0..(n - 1), NEW a \in Nat
    PROVE  /\ Steps(n, o, k) \in 0..(n - 1)
           /\ (o + (a * n + Steps(n, o, k))) % n = k
<1>1. CASE k >= o
  <2>1. Steps(n, o, k) \in 0..(n - 1) /\ o + (a * n + Steps(n, o, k)) = a * n + k
    BY <1>1 DEF Steps
  <2> QED BY <2>1, DivMod
<1>2. CASE ~(k >= o)
  <2>1. Steps(n, o, k) \in 0..(n - 1) /\ o + (a * n + Steps(n, o, k)) = (a + 1) * n + k
    BY <1>2 DEF Steps
  <2>2. ((a + 1) * n + k) % n = k
    BY DivMod
  <2> QED BY <2>1, <2>2
<1> QED BY <1>1, <1>2

-----------------------------------------------------------------------------
(* What the clients' policies have in common.                              *)

LEMMA KnownProviders == Providers \subseteq KnownClients
BY ProviderAssumption DEF Policy, KnownClients

\* The grid, and the passes.
LEMMA PolicyShape ==
    ASSUME provider \in KnownClients
    PROVE  /\ Rules.modelFirst <=> provider = "gemini"
           /\ Rules.oneModel <=> provider \in {"bai", "exa", "embed"}
           /\ Rules.rotates <=> provider \in {"gemini", "embed"}
           /\ Rules.passes = IF provider = "bai" THEN 2 ELSE 1
           /\ Rules.skipError \in {"skipped", "limited"}
<1>1. CASE provider = "gemini" BY <1>1 DEF Rules, Policy, GeminiPolicy
<1>2. CASE provider = "glm" BY <1>2 DEF Rules, Policy, GlmPolicy
<1>3. CASE provider = "groq" BY <1>3 DEF Rules, Policy, GroqPolicy
<1>4. CASE provider = "bai" BY <1>4 DEF Rules, Policy, BaiPolicy
<1>5. CASE provider = "exa" BY <1>5 DEF Rules, Policy, ExaPolicy
<1>6. CASE provider = "embed" BY <1>6 DEF Rules, Policy, EmbedPolicy
<1> QED BY <1>1, <1>2, <1>3, <1>4, <1>5, <1>6 DEF KnownClients

\* Where a failure leads: a rate limit always to the next pair, and only the failures that an
\* excuse is kept of past the rest of a row.
LEMMA PolicyMoves ==
    ASSUME provider \in KnownClients, NEW f \in Failures
    PROVE  /\ Rules.after[f] \in {"next", "nextKey", "nextModel", "throw"}
           /\ f = "limited" => Rules.after[f] = "next"
           /\ Rules.after[f] = "nextModel" => provider = "gemini" /\ f = "gone"
           /\ Rules.after[f] = "nextKey" => provider \in {"glm", "groq"} /\ f = "badKey"
<1> USE DEF Rules, Policy, Else, NextWhen, Failures, Passing
<1>1. CASE provider = "gemini" BY <1>1 DEF GeminiPolicy
<1>2. CASE provider = "glm" BY <1>2 DEF GlmPolicy
<1>3. CASE provider = "groq" BY <1>3 DEF GroqPolicy
<1>4. CASE provider = "bai" BY <1>4 DEF BaiPolicy
<1>5. CASE provider = "exa" BY <1>5 DEF ExaPolicy
<1>6. CASE provider = "embed" BY <1>6 DEF EmbedPolicy
<1> QED BY <1>1, <1>2, <1>3, <1>4, <1>5, <1>6 DEF KnownClients

-----------------------------------------------------------------------------
(* The grid.                                                               *)

LEMMA GridFacts ==
    ASSUME WalkTyped, NEW c \in Callers, Grid(c)
    PROVE  /\ Cardinality(asked[c].models) \in Nat \ {0}
           /\ FirstModel(c) \in ModelIds
           /\ \A m \in asked[c].models : m - FirstModel(c) \in 0..(Cardinality(asked[c].models) - 1)
           /\ \A a \in 0..(Cardinality(asked[c].models) - 1) : FirstModel(c) + a \in asked[c].models
           /\ Cardinality(asked[c].models) <= NumModels
           /\ Size(c) \in Nat \ {0}
           /\ NumKeys \in Nat \ {0} /\ asked[c].offset \in 0..(NumKeys - 1) /\ asked[c].pos \in Nat
           /\ Rules.oneModel => Cardinality(asked[c].models) = 1
<1> DEFINE M == asked[c].models
<1>1. NumKeys \in Nat \ {0} /\ NumModels \in Nat \ {0}
    BY CascadeAssumption
<1>2. asked[c].offset \in 0..(NumKeys - 1) /\ asked[c].pos \in Nat
    BY DEF WalkTyped, CallRecord, KeyIds
<1>3. CASE M = ModelIds
  <2>1. Cardinality(M) = NumModels
    <3>1. 0 \in Int /\ NumModels - 1 \in Int /\ ~(0 > NumModels - 1)
          /\ (NumModels - 1) - 0 + 1 = NumModels
      BY <1>1
    <3>2. Cardinality(0..(NumModels - 1)) = (NumModels - 1) - 0 + 1
      BY <3>1, FS_Interval, Zenon
    <3> QED BY <3>1, <3>2, <1>3 DEF ModelIds
  <2>2. FirstModel(c) = 0
    <3>1. 0 \in M /\ \A n \in M : 0 <= n
      BY <1>1, <1>3 DEF ModelIds
    <3>2. \A m \in M : (\A n \in M : m <= n) => m = 0
      BY <3>1, <1>3 DEF ModelIds
    <3> QED BY <3>1, <3>2 DEF FirstModel
  <2>3. Rules.oneModel => Cardinality(M) = 1
    BY FS_Singleton DEF Grid
  <2> QED BY <1>1, <1>2, <1>3, <2>1, <2>2, <2>3 DEF Size, ModelIds
<1>4. CASE \E m \in ModelIds : M = {m}
  <2>1. PICK m \in ModelIds : M = {m}
    BY <1>4
  <2>2. Cardinality(M) = 1
    BY <2>1, FS_Singleton
  <2>3. m \in Nat /\ FirstModel(c) = m
    BY <2>1 DEF FirstModel, ModelIds
  <2>4. \A a \in 0..(Cardinality(M) - 1) : FirstModel(c) + a \in M
    BY <2>1, <2>2, <2>3
  <2>5. Cardinality(M) <= NumModels /\ Size(c) \in Nat \ {0} /\ m \in ModelIds
    BY <1>1, <2>1, <2>2 DEF Size
  <2>6. \A n \in M : n - FirstModel(c) \in 0..(Cardinality(M) - 1)
    BY <2>1, <2>2, <2>3
  <2> QED BY <1>1, <1>2, <2>2, <2>3, <2>4, <2>5, <2>6
<1> QED BY <1>3, <1>4 DEF Grid

LEMMA PairType ==
    ASSUME WalkTyped, NEW c \in Callers, Grid(c), NEW q \in Nat
    PROVE  /\ ModelAt(c, q) \in Nat /\ KeyAt(c, q) \in KeyIds
           /\ q < Size(c) => ModelAt(c, q) \in asked[c].models
<1> DEFINE W == Cardinality(asked[c].models)
<1>1. /\ W \in Nat \ {0} /\ NumKeys \in Nat \ {0} /\ FirstModel(c) \in Nat
      /\ asked[c].offset \in Nat
    BY GridFacts DEF ModelIds
<1> HIDE DEF W
<1>a. q \div NumKeys \in Nat
    BY <1>1, DivModRange, Zenon
<1>b. q \div W \in Nat /\ q % W \in 0..(W - 1)
    BY <1>1, DivModRange, Zenon
<1>2. q \div NumKeys \in Nat /\ q \div W \in Nat /\ q % W \in Nat
    BY <1>1, <1>a, <1>b
<1>3. ModelAt(c, q) \in Nat
    BY <1>1, <1>2 DEF ModelAt, W
<1> DEFINE x == IF Rules.modelFirst THEN q ELSE q \div W
<1>4. x \in Nat
    BY <1>2
<1> HIDE DEF x
<1>5. asked[c].offset + x \in Nat
    BY <1>1, <1>4
<1>6. (asked[c].offset + x) % NumKeys \in 0..(NumKeys - 1)
    BY <1>1, <1>5, DivModRange, Zenon
<1>7. KeyAt(c, q) = (asked[c].offset + x) % NumKeys
    BY DEF KeyAt, x, W
<1>8. q < Size(c) => ModelAt(c, q) \in asked[c].models
  <2> SUFFICES ASSUME q < W * NumKeys PROVE ModelAt(c, q) \in asked[c].models
    BY DEF Size, W
  <2>1. W \in Nat /\ q \in 0..(W * NumKeys - 1)
    BY <1>1
  <2>2. q \div NumKeys \in 0..(W - 1)
    BY <1>1, <2>1, RowInside, Zenon
  <2>3. \A a \in 0..(W - 1) : FirstModel(c) + a \in asked[c].models
    BY GridFacts DEF W
  <2> QED BY <1>b, <2>2, <2>3 DEF ModelAt, W
<1> QED BY <1>3, <1>6, <1>7, <1>8 DEF KeyIds

\* Every pair of a grid has a position, wherever the rotation begins.
LEMMA EveryPair ==
    ASSUME WalkTyped, NEW c \in Callers, Grid(c), NEW m \in asked[c].models, NEW k \in KeyIds
    PROVE  \E q \in 0..(Size(c) - 1) : ModelAt(c, q) = m /\ KeyAt(c, q) = k
<1> DEFINE W == Cardinality(asked[c].models)
           a == m - FirstModel(c)
           o == asked[c].offset
<1>1. /\ W \in Nat \ {0} /\ NumKeys \in Nat \ {0} /\ a \in 0..(W - 1) /\ o \in 0..(NumKeys - 1)
      /\ FirstModel(c) \in Nat /\ FirstModel(c) + a = m
    <2>1. m \in Nat
      BY DEF WalkTyped, CallRecord, ModelIds
    <2> QED BY <2>1, GridFacts DEF ModelIds
<1>2. k \in 0..(NumKeys - 1)
    BY DEF KeyIds
<1>a. a \in Nat /\ W \in Nat
    BY <1>1
<1> HIDE DEF W, a, o
<1>3. CASE Rules.modelFirst
  <2> DEFINE j == Steps(NumKeys, o, k)
  <2>1. j \in 0..(NumKeys - 1) /\ (o + (a * NumKeys + j)) % NumKeys = k
    <3>1. NumKeys \in Nat \ {0} /\ o \in 0..(NumKeys - 1) /\ k \in 0..(NumKeys - 1) /\ a \in Nat
      BY <1>1, <1>2, <1>a
    <3> QED BY <3>1, Rotation, Zenon
  <2> HIDE DEF j
  <2> DEFINE q == a * NumKeys + j
  <2>2. q \in 0..(W * NumKeys - 1)
    BY <1>1, <1>a, <2>1, RowFits, Zenon
  <2>3. q \div NumKeys = a
    BY <1>1, <1>a, <2>1, DivMod, Zenon
  <2>4. ModelAt(c, q) = m
    BY <1>1, <1>3, <2>3 DEF ModelAt
  <2>5. KeyAt(c, q) = k
    BY <1>3, <2>1 DEF KeyAt, o
  <2> QED BY <2>2, <2>4, <2>5 DEF Size, W
<1>4. CASE ~Rules.modelFirst
  <2> DEFINE j == Steps(NumKeys, o, k)
  <2>1. j \in 0..(NumKeys - 1) /\ (o + (0 * NumKeys + j)) % NumKeys = k
    <3>1. NumKeys \in Nat \ {0} /\ o \in 0..(NumKeys - 1) /\ k \in 0..(NumKeys - 1) /\ 0 \in Nat
      BY <1>1, <1>2
    <3> QED BY <3>1, Rotation, Zenon
  <2> HIDE DEF j
  <2>2. (o + j) % NumKeys = k
    BY <2>1, <1>1
  <2> DEFINE q == j * W + a
  <2>3. q \in 0..(NumKeys * W - 1) /\ NumKeys * W = W * NumKeys
    <3>1. NumKeys * W = W * NumKeys /\ NumKeys \in Nat
      BY <1>1
    <3> QED BY <1>1, <2>1, <3>1, RowFits, Zenon
  <2>4. q \div W = j /\ q % W = a
    <3>1. j \in Nat
      BY <1>1, <2>1
    <3> QED BY <1>1, <3>1, DivMod, Zenon
  <2>5. ModelAt(c, q) = m
    BY <1>1, <1>4, <2>4 DEF ModelAt, W
  <2>6. KeyAt(c, q) = k
    BY <1>4, <2>2, <2>4 DEF KeyAt, W, o
  <2> QED BY <2>3, <2>5, <2>6 DEF Size, W
<1> QED BY <1>3, <1>4

\* The rest of a row has the model, or the key, of the place it is left at.
LEMMA RestOfRow ==
    ASSUME WalkTyped, NEW c \in Callers, Grid(c), NEW move \in {"next", "nextKey", "nextModel"},
           move = "nextModel" => Rules.modelFirst, move = "nextKey" => ~Rules.modelFirst
    PROVE  /\ Onward(c, move) \in Nat /\ Onward(c, move) > asked[c].pos
           /\ asked[c].pos < Size(c) => Onward(c, move) <= Size(c)
           /\ \A q \in Nat : asked[c].pos <= q /\ q < Onward(c, move) =>
                /\ move = "next" => q = asked[c].pos
                /\ move = "nextModel" => ModelAt(c, q) = ModelAt(c, asked[c].pos)
                /\ move = "nextKey" => KeyAt(c, q) = KeyAt(c, asked[c].pos)
<1> DEFINE W == Cardinality(asked[c].models)
           pos == asked[c].pos
<1>1. W \in Nat \ {0} /\ NumKeys \in Nat \ {0} /\ pos \in Nat
    BY GridFacts
<1>2. CASE move = "next"
    BY <1>1, <1>2, GridFacts DEF Onward
<1>3. CASE move = "nextModel"
  <2>1. Onward(c, move) = ((pos \div NumKeys) + 1) * NumKeys
    BY <1>3 DEF Onward
  <2>2. Onward(c, move) \in Nat /\ Onward(c, move) > pos
    BY <1>1, <2>1, RowEnd
  <2>3. \A q \in Nat : pos <= q /\ q < Onward(c, move) => q \div NumKeys = pos \div NumKeys
    BY <1>1, <2>1, SameRow
  <2>4. pos < W * NumKeys => Onward(c, move) <= W * NumKeys
    <3>1. pos < W * NumKeys => pos \in 0..(W * NumKeys - 1) /\ W \in Nat
      BY <1>1
    <3> HIDE DEF W, pos
    <3> QED BY <1>1, <2>1, <3>1, RowInside
  <2> QED BY <1>3, <2>2, <2>3, <2>4 DEF ModelAt, Size
<1>4. CASE move = "nextKey"
  <2>1. Onward(c, move) = ((pos \div W) + 1) * W
    BY <1>4 DEF Onward
  <2>2. Onward(c, move) \in Nat /\ Onward(c, move) > pos
    BY <1>1, <2>1, RowEnd
  <2>3. \A q \in Nat : pos <= q /\ q < Onward(c, move) => q \div W = pos \div W
    BY <1>1, <2>1, SameRow
  <2>4. pos < W * NumKeys => Onward(c, move) <= W * NumKeys
    <3>1. W * NumKeys = NumKeys * W /\ NumKeys \in Nat
      BY <1>1
    <3>2. pos < NumKeys * W => pos \in 0..(NumKeys * W - 1)
      BY <1>1
    <3> HIDE DEF W, pos
    <3> QED BY <1>1, <2>1, <3>1, <3>2, RowInside
  <2> QED BY <1>4, <2>2, <2>3, <2>4 DEF KeyAt, Size
<1> QED BY <1>2, <1>3, <1>4

-----------------------------------------------------------------------------
(* What a step leaves as it was.                                           *)

\* The positions of a call mean the same pairs all along, and what was met stays met.
LEMMA MetGrows ==
    ASSUME NEW c \in Callers, provider' = provider, asked'[c].models = asked[c].models,
           asked'[c].offset = asked[c].offset, asked[c].seen \subseteq asked'[c].seen,
           asked[c].badKeys \subseteq asked'[c].badKeys, asked[c].gone \subseteq asked'[c].gone
    PROVE  /\ Size(c)' = Size(c) /\ (Grid(c) => Grid(c)')
           /\ \A q : /\ ModelAt(c, q)' = ModelAt(c, q) /\ KeyAt(c, q)' = KeyAt(c, q)
                     /\ Met(c, q) => Met(c, q)'
           /\ MetAll(c) => MetAll(c)'
<1>1. Rules' = Rules /\ Size(c)' = Size(c) /\ FirstModel(c)' = FirstModel(c)
    BY DEF Rules, Size, FirstModel
<1>2. \A q : ModelAt(c, q)' = ModelAt(c, q) /\ KeyAt(c, q)' = KeyAt(c, q)
    BY <1>1 DEF ModelAt, KeyAt
<1>3. \A q : Met(c, q) => Met(c, q)'
    BY <1>2 DEF Met, Excused
<1>4. Grid(c) => Grid(c)'
    BY <1>1 DEF Grid
<1> QED BY <1>1, <1>2, <1>3, <1>4 DEF MetAll

LEMMA SameCall ==
    ASSUME NEW c \in Callers, CallSound(c), provider' = provider, asked'[c] = asked[c]
    PROVE  CallSound(c)'
<1>1. Size(c)' = Size(c) /\ (Grid(c) => Grid(c)') /\ (MetAll(c) => MetAll(c)')
      /\ \A q : Met(c, q) => Met(c, q)'
    BY MetGrows
<1>2. Rules' = Rules
    BY DEF Rules
<1>3. Walked(c) => Walked(c)'
    BY <1>1 DEF Walked
<1>4. Finished(c) => Finished(c)'
    BY <1>1, <1>2 DEF Finished
<1> QED BY <1>1, <1>3, <1>4 DEF CallSound, Honest

\* A call that took a step is well typed if its new record is, and the others stay sound.
LEMMA OneCall ==
    ASSUME CascadeInv, NEW c \in Callers, NEW new \in CallRecord, Becomes(c, new),
           provider' = provider, turn' \in KeyIds, cooling' \subseteq ModelIds \X KeyIds,
           asked'[c] = new => CallSound(c)'
    PROVE  CascadeInv'
<1>1. asked'[c] = new /\ asked' \in [Callers -> CallRecord]
    BY DEF CascadeInv, WalkTyped, Becomes
<1>2. \A d \in Callers \ {c} : asked'[d] = asked[d]
    BY DEF CascadeInv, WalkTyped, Becomes
<1>3. \A d \in Callers \ {c} : CallSound(d)'
    BY <1>2, SameCall DEF CascadeInv
<1> QED BY <1>1, <1>3 DEF CascadeInv, WalkTyped

-----------------------------------------------------------------------------
(* The steps of a call.                                                    *)

LEMMA StartCallSound ==
    ASSUME CascadeInv, NEW c \in Callers, StartCall(c)
    PROVE  CascadeInv'
<1>1. PICK m \in ModelIds :
        /\ Rules.oneModel => m = 0
        /\ Becomes(c, [asked[c] EXCEPT !.pc = "look", !.models = ModelsFor(m),
                                       !.offset = IF Rules.rotates THEN turn ELSE 0])
    BY DEF StartCall
<1> DEFINE new == [asked[c] EXCEPT !.pc = "look", !.models = ModelsFor(m),
                                   !.offset = IF Rules.rotates THEN turn ELSE 0]
<1>2. asked[c] = Unasked /\ asked[c] \in CallRecord
    BY DEF CascadeInv, CallSound, WalkTyped, StartCall
<1>3. turn \in KeyIds /\ 0 \in KeyIds
    BY CascadeAssumption DEF CascadeInv, WalkTyped, KeyIds
<1>4. turn' \in KeyIds /\ provider' = provider
    <2>1. NumKeys \in Nat \ {0} /\ turn + 1 \in Nat
      BY <1>3, CascadeAssumption DEF KeyIds
    <2>2. (turn + 1) % NumKeys \in 0..(NumKeys - 1)
      BY <2>1, DivModRange, Zenon
    <2> QED BY <1>3, <2>2 DEF StartCall, KeyIds
<1>5. ModelsFor(m) \in SUBSET ModelIds /\ (ModelsFor(m) = ModelIds \/ ModelsFor(m) = {m})
      /\ (Rules.oneModel => ModelsFor(m) = {0})
    BY <1>1 DEF ModelsFor
<1>6. new \in CallRecord
    BY <1>2, <1>3, <1>5 DEF CallRecord
<1>7. ASSUME asked'[c] = new PROVE CallSound(c)'
  <2>1. /\ new.models = ModelsFor(m) /\ new.offset = IF Rules.rotates THEN turn ELSE 0
        /\ new.pc = "look" /\ new.pos = 0 /\ new.pass = 1 /\ new.seen = {}
    BY <1>2 DEF Unasked
  <2>2. Grid(c)'
    BY <1>4, <1>5, <1>7, <2>1 DEF Grid, Rules
  <2>3. Walked(c)' /\ Finished(c)' /\ Honest(c)'
    BY <1>7, <2>1 DEF Walked, Finished, Honest
  <2> QED BY <1>7, <2>1, <2>2, <2>3 DEF CallSound
<1>8. cooling' \subseteq ModelIds \X KeyIds
    BY DEF CascadeInv, WalkTyped, StartCall
<1> QED BY <1>1, <1>4, <1>6, <1>7, <1>8, OneCall

LEMMA SkipPairSound ==
    ASSUME CascadeInv, NEW c \in Callers, SkipPair(c)
    PROVE  CascadeInv'
<1> DEFINE new == [asked[c] EXCEPT !.pos = @ + 1, !.seen = @ \cup {Here(c)},
                                   !.err = SkipError(c)]
<1>1. asked[c] \in CallRecord /\ asked[c].pc = "look" /\ Grid(c) /\ Walked(c) /\ WalkTyped
    BY DEF CascadeInv, CallSound, WalkTyped, SkipPair
<1>2. Here(c) \in Nat \X Nat /\ Here(c) \in asked[c].models \X KeyIds
    BY <1>1, PairType DEF Here, KeyIds, CallRecord, SkipPair
<1>3. SkipError(c) \in Failures \cup {"none", "skipped"}
    BY <1>1, PolicyShape DEF SkipError, CallRecord, WalkTyped, Failures
<1>4. new \in CallRecord
  <2>1. asked[c].pos + 1 \in Nat /\ asked[c].seen \cup {Here(c)} \in SUBSET (Nat \X Nat)
    BY <1>1, <1>2 DEF CallRecord
  <2> QED BY <1>1, <1>3, <2>1 DEF CallRecord
<1>5. ASSUME asked'[c] = new PROVE CallSound(c)'
  <2>1. /\ new.pc = "look" /\ new.pos = asked[c].pos + 1 /\ new.pass = asked[c].pass
        /\ new.models = asked[c].models /\ new.offset = asked[c].offset
        /\ new.seen = asked[c].seen \cup {Here(c)}
        /\ new.badKeys = asked[c].badKeys /\ new.gone = asked[c].gone
    BY <1>1 DEF CallRecord
  <2>2. /\ Size(c)' = Size(c) /\ Grid(c)' /\ (MetAll(c) => MetAll(c)')
        /\ \A q : /\ ModelAt(c, q)' = ModelAt(c, q) /\ KeyAt(c, q)' = KeyAt(c, q)
                  /\ Met(c, q) => Met(c, q)'
    BY <1>1, <1>5, <2>1, MetGrows DEF SkipPair
  <2>3. \A q : q = asked[c].pos => Met(c, q)'
    BY <1>5, <2>1, <2>2 DEF Met, Here
  <2>4. /\ asked[c].pos + 1 <= Size(c)
        /\ \A q \in 0..(Size(c) - 1) : q < asked[c].pos + 1 => q < asked[c].pos \/ q = asked[c].pos
    BY <1>1, GridFacts DEF CallRecord, SkipPair
  <2>5. Walked(c)'
    BY <1>1, <1>2, <1>5, <2>1, <2>2, <2>3, <2>4 DEF Walked
  <2> QED BY <1>5, <2>1, <2>2, <2>5 DEF CallSound, Finished, Honest
<1> QED BY <1>1, <1>4, <1>5, OneCall DEF SkipPair, WalkTyped

LEMMA SendRequestSound ==
    ASSUME CascadeInv, NEW c \in Callers, SendRequest(c)
    PROVE  CascadeInv'
<1> DEFINE new == [asked[c] EXCEPT !.pc = "flight", !.live = 1]
<1>1. asked[c] \in CallRecord /\ asked[c].pc = "look" /\ Grid(c) /\ Walked(c) /\ WalkTyped
    BY DEF CascadeInv, CallSound, WalkTyped, SendRequest
<1>2. Becomes(c, new)
    BY DEF SendRequest
<1>4. new \in CallRecord
    BY <1>1 DEF CallRecord
<1>3. ASSUME asked'[c] = new PROVE CallSound(c)'
  <2>1. /\ new.pc = "flight" /\ new.pos = asked[c].pos /\ new.pass = asked[c].pass
        /\ new.models = asked[c].models /\ new.offset = asked[c].offset
        /\ new.seen = asked[c].seen
        /\ new.badKeys = asked[c].badKeys /\ new.gone = asked[c].gone
    BY <1>1 DEF CallRecord
  <2>2. /\ Size(c)' = Size(c) /\ Grid(c)' /\ (MetAll(c) => MetAll(c)')
        /\ \A q : Met(c, q) => Met(c, q)'
    BY <1>1, <1>3, <2>1, MetGrows DEF SendRequest
  <2>3. Walked(c)'
    BY <1>1, <1>3, <2>1, <2>2 DEF Walked, SendRequest
  <2> QED BY <1>3, <2>1, <2>2, <2>3 DEF CallSound, Finished, Honest
<1> QED BY <1>1, <1>2, <1>3, <1>4, OneCall DEF SendRequest, WalkTyped

LEMMA SucceedSound ==
    ASSUME CascadeInv, NEW c \in Callers, Succeed(c)
    PROVE  CascadeInv'
<1> DEFINE new == [asked[c] EXCEPT !.pc = "served", !.marked = Marked(c)]
<1>1. asked[c] \in CallRecord /\ asked[c].pc = "flight" /\ Grid(c) /\ Walked(c) /\ WalkTyped
    BY DEF CascadeInv, CallSound, WalkTyped, Succeed
<1>2. Marked(c) \in BOOLEAN
    BY DEF Marked
<1>3. new \in CallRecord
    BY <1>1, <1>2 DEF CallRecord
<1>4. /\ Marked(c) => asked[c].pos > 0
      /\ (~Marked(c) /\ provider # "embed") => asked[c].pos = 0
  <2>1. CASE provider = "bai"
    <3>1. ~Rules.modelFirst /\ Rules.oneModel /\ ~Rules.rotates
      BY <1>1, <2>1, PolicyShape DEF WalkTyped
    <3>2. Cardinality(asked[c].models) = 1 /\ asked[c].offset = 0
      BY <1>1, <3>1, GridFacts DEF Grid
    <3>3. NumKeys \in Nat \ {0} /\ asked[c].pos \in 0..(NumKeys - 1)
      BY <1>1, <3>2, GridFacts DEF Walked, Size
    <3>4. (0 * NumKeys + asked[c].pos) % NumKeys = asked[c].pos
      BY <3>3, DivMod, Zenon
    <3>5. KeyAt(c, asked[c].pos) = asked[c].pos
      BY <3>1, <3>2, <3>3, <3>4 DEF KeyAt
    <3> QED BY <2>1, <3>3, <3>5 DEF Marked
  <2>2. CASE provider # "bai"
    BY <1>1, <2>2, GridFacts DEF Marked
  <2> QED BY <2>1, <2>2
<1>5. ASSUME asked'[c] = new PROVE CallSound(c)'
  <2>1. /\ new.pc = "served" /\ new.pos = asked[c].pos /\ new.pass = asked[c].pass
        /\ new.models = asked[c].models /\ new.offset = asked[c].offset
        /\ new.seen = asked[c].seen /\ new.marked = Marked(c)
        /\ new.badKeys = asked[c].badKeys /\ new.gone = asked[c].gone
    BY <1>1 DEF CallRecord
  <2>2. /\ Size(c)' = Size(c) /\ Grid(c)' /\ (MetAll(c) => MetAll(c)')
        /\ \A q : Met(c, q) => Met(c, q)'
    BY <1>1, <1>5, <2>1, MetGrows DEF Succeed
  <2>3. Walked(c)'
    BY <1>1, <1>5, <2>1, <2>2 DEF Walked
  <2>4. Honest(c)'
    BY <1>1, <1>4, <1>5, <2>1 DEF Honest, Walked, Succeed
  <2> QED BY <1>5, <2>1, <2>2, <2>3, <2>4 DEF CallSound, Finished
<1>6. Becomes(c, new)
    BY DEF Succeed
<1> QED BY <1>1, <1>3, <1>5, <1>6, OneCall DEF Succeed, WalkTyped

LEMMA AskAgainSound ==
    ASSUME CascadeInv, NEW c \in Callers, AskAgain(c)
    PROVE  CascadeInv'
<1> DEFINE new == [Unasked EXCEPT !.pc = "look", !.models = asked[c].models, !.round = 2]
<1>1. asked[c] \in CallRecord /\ asked[c].pc = "flight" /\ Grid(c) /\ Walked(c) /\ WalkTyped
    BY DEF CascadeInv, CallSound, WalkTyped, AskAgain
<1>2. 0 \in KeyIds
    BY CascadeAssumption DEF KeyIds
<1>3. new \in CallRecord
    BY <1>1, <1>2 DEF CallRecord, Unasked
<1>4. ASSUME asked'[c] = new PROVE CallSound(c)'
  <2>1. /\ new.pc = "look" /\ new.pos = 0 /\ new.pass = 1
        /\ new.models = asked[c].models /\ new.offset = 0 /\ new.seen = {}
    BY DEF Unasked
  <2>2. Grid(c)'
    BY <1>1, <1>4, <2>1 DEF Grid, Rules, AskAgain
  <2> QED BY <1>4, <2>1, <2>2 DEF CallSound, Walked, Finished, Honest
<1>5. Becomes(c, new)
    BY DEF AskAgain
<1> QED BY <1>1, <1>3, <1>4, <1>5, OneCall DEF AskAgain, WalkTyped

\* Whatever the failure, the call has then met all it leaves behind.
LEMMA FailSound ==
    ASSUME CascadeInv, NEW c \in Callers, NEW f \in Failures, Fail(c, f)
    PROVE  CascadeInv'
<1> DEFINE pos == asked[c].pos
           move == Rules.after[f]
           pc1 == IF GivesUp(c, f) THEN "failed" ELSE "look"
           pos1 == IF GivesUp(c, f) THEN asked[c].pos ELSE Onward(c, Rules.after[f])
           seen1 == asked[c].seen \cup {Here(c)}
           bad1 == IF f = "badKey" THEN asked[c].badKeys \cup {Here(c)[2]} ELSE asked[c].badKeys
           gone1 == IF f = "gone" THEN asked[c].gone \cup {Here(c)[1]} ELSE asked[c].gone
           lasting1 == asked[c].lasting \/ f \notin Passing
           new == [asked[c] EXCEPT !.err = f, !.pc = pc1, !.pos = pos1, !.seen = seen1,
                                   !.badKeys = bad1, !.gone = gone1, !.lasting = lasting1]
<1>1. asked[c] \in CallRecord /\ asked[c].pc = "flight" /\ Grid(c) /\ Walked(c) /\ WalkTyped
    BY DEF CascadeInv, CallSound, WalkTyped, Fail
<1>2. /\ move \in {"next", "nextKey", "nextModel", "throw"}
      /\ f = "limited" => move = "next"
      /\ move = "nextModel" => provider = "gemini" /\ f = "gone"
      /\ move = "nextKey" => provider \in {"glm", "groq"} /\ f = "badKey"
      /\ move = "nextModel" => Rules.modelFirst
      /\ move = "nextKey" => ~Rules.modelFirst
    BY <1>1, PolicyMoves, PolicyShape DEF WalkTyped
<1>3. pos \in Nat /\ Size(c) \in Nat /\ pos < Size(c)
    BY <1>1, GridFacts DEF Walked
<1>4. /\ Here(c)[1] = ModelAt(c, pos) /\ Here(c)[2] = KeyAt(c, pos)
      /\ Here(c) \in Nat \X Nat /\ Here(c)[1] \in Nat /\ Here(c)[2] \in Nat
      /\ Here(c) \in asked[c].models \X KeyIds
    BY <1>1, <1>3, PairType DEF Here, KeyIds
<1>5. ASSUME move # "throw"
      PROVE  /\ Onward(c, move) \in Nat /\ Onward(c, move) > pos /\ Onward(c, move) <= Size(c)
             /\ \A q \in Nat : pos <= q /\ q < Onward(c, move) =>
                  /\ move = "next" => q = pos
                  /\ move = "nextModel" => ModelAt(c, q) = ModelAt(c, pos)
                  /\ move = "nextKey" => KeyAt(c, q) = KeyAt(c, pos)
  <2>1. move \in {"next", "nextKey", "nextModel"}
    BY <1>2, <1>5
  <2> HIDE DEF move
  <2> QED BY <1>1, <1>2, <1>3, <2>1, RestOfRow
<1>6. new \in CallRecord
  <2>1. GivesUp(c, f) \/ Onward(c, Rules.after[f]) \in Nat
    BY <1>5 DEF GivesUp
  <2>2. seen1 \in SUBSET (Nat \X Nat) /\ bad1 \in SUBSET Nat /\ gone1 \in SUBSET Nat
        /\ lasting1 \in BOOLEAN
    BY <1>1, <1>4 DEF CallRecord
  <2>3. pc1 \in {"failed", "look"} /\ pos1 \in Nat
    BY <1>3, <2>1
  <2> HIDE DEF pc1, pos1, seen1, bad1, gone1, lasting1
  <2>4. asked[c] \in CallRecord
    BY <1>1
  <2> QED BY <2>2, <2>3, <2>4 DEF CallRecord
<1>7. ASSUME asked'[c] = new PROVE CallSound(c)'
  <2>1. /\ new.pc = IF GivesUp(c, f) THEN "failed" ELSE "look"
        /\ new.pos = IF GivesUp(c, f) THEN pos ELSE Onward(c, move)
        /\ new.err = f /\ new.pass = asked[c].pass
        /\ new.models = asked[c].models /\ new.offset = asked[c].offset
        /\ new.seen = asked[c].seen \cup {Here(c)}
        /\ asked[c].badKeys \subseteq new.badKeys /\ asked[c].gone \subseteq new.gone
        /\ f = "badKey" => KeyAt(c, pos) \in new.badKeys
        /\ f = "gone" => ModelAt(c, pos) \in new.gone
    BY <1>1, <1>4 DEF CallRecord
  <2> HIDE DEF new
  <2>2. /\ Size(c)' = Size(c) /\ Grid(c)' /\ (MetAll(c) => MetAll(c)')
        /\ \A q : /\ ModelAt(c, q)' = ModelAt(c, q) /\ KeyAt(c, q)' = KeyAt(c, q)
                  /\ Met(c, q) => Met(c, q)'
    BY <1>1, <1>7, <2>1, MetGrows DEF Fail
  <2>3. ASSUME move # "throw", NEW q \in Nat, pos <= q, q < Onward(c, move)
        PROVE  Met(c, q)'
    <3>1. CASE move = "next"
      <4>1. q = pos
        BY <1>5, <2>3, <3>1
      <4> QED BY <1>7, <2>1, <2>2, <4>1 DEF Met, Here
    <3>2. CASE move = "nextModel"
      <4>1. ModelAt(c, q) \in new.gone /\ provider' = "gemini"
        BY <1>2, <1>5, <2>1, <2>3, <3>2 DEF Fail
      <4> QED BY <1>7, <2>2, <4>1 DEF Met, Excused
    <3>3. CASE move = "nextKey"
      <4>1. KeyAt(c, q) \in new.badKeys /\ provider' \in {"glm", "groq"}
        BY <1>2, <1>5, <2>1, <2>3, <3>3 DEF Fail
      <4> QED BY <1>7, <2>2, <4>1 DEF Met, Excused
    <3> QED BY <1>2, <2>3, <3>1, <3>2, <3>3
  <2>4. ASSUME move # "throw", NEW q \in 0..(Size(c) - 1), q < Onward(c, move)
        PROVE  Met(c, q)'
    <3>1. CASE q < pos
      BY <1>1, <2>2, <3>1 DEF Walked
    <3>2. CASE ~(q < pos)
      <4>1. q \in Nat /\ pos <= q
        BY <1>3, <3>2
      <4> QED BY <2>3, <2>4, <4>1
    <3> QED BY <3>1, <3>2
  <2>5. Walked(c)'
    <3>1. \A q \in 0..(Size(c) - 1) : q < new.pos => Met(c, q)'
      BY <1>1, <2>1, <2>2, <2>4 DEF Walked, GivesUp
    <3>2. new.pass = 2 => MetAll(c)'
      BY <1>1, <2>1, <2>2 DEF Walked
    <3>3. new.pos <= Size(c) /\ (new.pc = "flight" => new.pos < Size(c))
      BY <1>3, <1>5, <2>1 DEF GivesUp
    <3>4. new.seen # {} /\ new.seen \subseteq new.models \X KeyIds
      BY <1>1, <1>4, <2>1 DEF Walked
    <3> QED BY <1>7, <2>2, <3>1, <3>2, <3>3, <3>4 DEF Walked
  <2>6. Finished(c)'
    <3>1. CASE ~GivesUp(c, f)
      BY <1>7, <2>1, <3>1 DEF Finished
    <3>2. CASE move = "throw"
      <4>1. Rules' = Rules
        BY DEF Rules, Fail
      <4>2. f # "limited" /\ f # "skipped"
        BY <1>2, <3>2 DEF Failures
      <4> QED BY <1>7, <2>1, <3>2, <4>1, <4>2 DEF Finished
    <3>3. CASE move = "nextModel" /\ Onward(c, "nextModel") >= Size(c)
      <4>1. \A q \in 0..(Size(c) - 1) : q < Onward(c, move)
        BY <1>3, <1>5, <3>3
      <4> QED BY <2>2, <2>4, <3>3, <4>1 DEF Finished, MetAll
    <3> QED BY <3>1, <3>2, <3>3 DEF GivesUp
  <2>7. Honest(c)'
    BY <1>7, <2>1 DEF Honest
  <2> QED BY <1>7, <2>1, <2>2, <2>5, <2>6, <2>7 DEF CallSound
<1>8. Becomes(c, new)
    BY DEF Fail
<1>9. cooling' \subseteq ModelIds \X KeyIds
    BY <1>1, <1>4 DEF Fail, WalkTyped, CallRecord
<1> QED BY <1>1, <1>6, <1>7, <1>8, <1>9, OneCall DEF Fail, WalkTyped

LEMMA NextPassSound ==
    ASSUME CascadeInv, NEW c \in Callers, NextPass(c)
    PROVE  CascadeInv'
<1> DEFINE new == [asked[c] EXCEPT !.pos = 0, !.pass = @ + 1, !.live = 0]
<1>1. asked[c] \in CallRecord /\ asked[c].pc = "look" /\ Grid(c) /\ Walked(c) /\ WalkTyped
    BY DEF CascadeInv, CallSound, WalkTyped, NextPass
<1>2. asked[c].pass + 1 = 2
    BY <1>1, PolicyShape DEF NextPass, CallRecord, WalkTyped
<1>3. new \in CallRecord
    BY <1>1, <1>2 DEF CallRecord
<1>4. MetAll(c)
    BY <1>1, GridFacts DEF NextPass, Walked, MetAll
<1>5. ASSUME asked'[c] = new PROVE CallSound(c)'
  <2>1. /\ new.pc = "look" /\ new.pos = 0
        /\ new.models = asked[c].models /\ new.offset = asked[c].offset
        /\ new.seen = asked[c].seen
        /\ new.badKeys = asked[c].badKeys /\ new.gone = asked[c].gone
    BY <1>1 DEF CallRecord
  <2>2. /\ Size(c)' = Size(c) /\ Grid(c)' /\ MetAll(c)'
    BY <1>1, <1>4, <1>5, <2>1, MetGrows DEF NextPass
  <2>3. Walked(c)'
    BY <1>1, <1>5, <2>1, <2>2 DEF Walked
  <2> QED BY <1>5, <2>1, <2>2, <2>3 DEF CallSound, Finished, Honest
<1>6. Becomes(c, new)
    BY DEF NextPass
<1> QED BY <1>1, <1>3, <1>5, <1>6, OneCall DEF NextPass, WalkTyped

LEMMA ExhaustedSound ==
    ASSUME CascadeInv, NEW c \in Callers, Exhausted(c)
    PROVE  CascadeInv'
<1> DEFINE new == [asked[c] EXCEPT !.pc = "failed", !.err = FinalError(c)]
<1>1. asked[c] \in CallRecord /\ asked[c].pc = "look" /\ Grid(c) /\ Walked(c) /\ WalkTyped
    BY DEF CascadeInv, CallSound, WalkTyped, Exhausted
<1>2. FinalError(c) \in Failures \cup {"none", "skipped"}
    BY <1>1 DEF FinalError, Failures, CallRecord
<1>3. new \in CallRecord
    BY <1>1, <1>2 DEF CallRecord
<1>4. MetAll(c)
    BY <1>1, GridFacts DEF Exhausted, Walked, MetAll
<1>5. ASSUME asked'[c] = new PROVE CallSound(c)'
  <2>1. /\ new.pc = "failed" /\ new.pos = asked[c].pos
        /\ new.models = asked[c].models /\ new.offset = asked[c].offset
        /\ new.seen = asked[c].seen /\ new.pass = asked[c].pass
        /\ new.badKeys = asked[c].badKeys /\ new.gone = asked[c].gone
    BY <1>1 DEF CallRecord
  <2>2. /\ Size(c)' = Size(c) /\ Grid(c)' /\ MetAll(c)'
        /\ \A q : Met(c, q) => Met(c, q)'
    BY <1>1, <1>4, <1>5, <2>1, MetGrows DEF Exhausted
  <2>3. Walked(c)'
    BY <1>1, <1>5, <2>1, <2>2 DEF Walked
  <2> QED BY <1>5, <2>1, <2>2, <2>3 DEF CallSound, Finished, Honest
<1>6. Becomes(c, new)
    BY DEF Exhausted
<1> QED BY <1>1, <1>3, <1>5, <1>6, OneCall DEF Exhausted, WalkTyped

-----------------------------------------------------------------------------
(* The theorem.                                                            *)

LEMMA CascadeInitSound ==
    ASSUME CascadeInit
    PROVE  CascadeInv
<1>1. 0 \in KeyIds
    BY CascadeAssumption DEF KeyIds
<1>2. Unasked \in CallRecord /\ Unasked.pc = "unasked"
    BY <1>1 DEF Unasked, CallRecord
<1> QED BY <1>2, KnownProviders DEF CascadeInit, CascadeInv, WalkTyped, CallSound

LEMMA CascadeStepSound ==
    ASSUME CascadeInv, [CascadeNext]_cascadeVars
    PROVE  CascadeInv'
<1>1. ASSUME provider' = provider, asked' = asked, turn' = turn,
             cooling' \subseteq ModelIds \X KeyIds
      PROVE  CascadeInv'
    BY <1>1, SameCall DEF CascadeInv, WalkTyped
<1>2. CASE Expire \/ CoolElsewhere \/ UNCHANGED cascadeVars
  <2>1. cooling' \subseteq ModelIds \X KeyIds
    <3>1. 0 \in ModelIds
      BY CascadeAssumption DEF ModelIds
    <3> QED BY <1>2, <3>1 DEF Expire, CoolElsewhere, cascadeVars, CascadeInv, WalkTyped
  <2> QED BY <1>1, <1>2, <2>1 DEF Expire, CoolElsewhere, cascadeVars
<1>3. ASSUME NEW c \in Callers,
             \/ StartCall(c) \/ SkipPair(c) \/ SendRequest(c) \/ Succeed(c) \/ AskAgain(c)
             \/ NextPass(c) \/ Exhausted(c) \/ \E f \in Failures : Fail(c, f)
      PROVE  CascadeInv'
    BY <1>3, StartCallSound, SkipPairSound, SendRequestSound, SucceedSound, AskAgainSound,
       NextPassSound, ExhaustedSound, FailSound
<1> QED BY <1>2, <1>3 DEF CascadeNext

LEMMA InvariantIsHonest ==
    ASSUME CascadeInv
    PROVE  WalkHonest
<1>1. EveryPairTried
  <2> SUFFICES ASSUME NEW c \in Callers, asked[c].pc = "failed",
                      asked[c].err \in {"limited", "badKey", "gone", "skipped"},
                      NEW m \in asked[c].models, NEW k \in KeyIds
               PROVE  \/ <<m, k>> \in asked[c].seen
                      \/ Excused(c, m, k)
                      \/ asked[c].err = "badKey" /\ Rules.after["badKey"] = "throw"
                      \/ asked[c].err = "gone" /\ Rules.after["gone"] = "throw"
    BY DEF EveryPairTried
  <2>1. WalkTyped /\ Grid(c) /\ Finished(c)
    BY DEF CascadeInv, CallSound
  <2>2. CASE MetAll(c)
    <3>1. PICK q \in 0..(Size(c) - 1) : ModelAt(c, q) = m /\ KeyAt(c, q) = k
      BY <2>1, EveryPair
    <3> QED BY <2>2, <3>1 DEF MetAll, Met
  <2> QED BY <2>1, <2>2 DEF Finished
<1>2. FallbackMarked
    BY DEF CascadeInv, CallSound, Honest, FallbackMarked
<1> QED BY <1>1, <1>2 DEF WalkHonest

LEMMA InvariantIsTyped ==
    ASSUME CascadeInv
    PROVE  CascadeTypeOK
<1> SUFFICES ASSUME NEW c \in Callers
             PROVE  /\ asked[c].pos \in 0..(NumModels * NumKeys)
                    /\ asked[c].seen \subseteq asked[c].models \X KeyIds
  <2>1. \A c \in Callers : asked[c] \in CallRecord
    BY DEF CascadeInv, WalkTyped
  <2> QED BY <2>1 DEF CascadeInv, WalkTyped, CallRecord, CascadeTypeOK
<1>1. CASE asked[c].pc = "unasked"
    BY <1>1, CascadeAssumption DEF CascadeInv, CallSound, Unasked
<1>2. CASE asked[c].pc # "unasked"
  <2>1. WalkTyped /\ Grid(c) /\ Walked(c)
    BY <1>2 DEF CascadeInv, CallSound
  <2>2. Size(c) \in Nat /\ asked[c].pos <= Size(c) /\ asked[c].pos \in Nat
    BY <2>1, GridFacts DEF Walked
  <2> DEFINE W == Cardinality(asked[c].models)
  <2>3. W \in Nat /\ W <= NumModels /\ NumKeys \in Nat /\ NumModels \in Nat /\ Size(c) = W * NumKeys
    BY <2>1, GridFacts, CascadeAssumption DEF Size
  <2> HIDE DEF W
  <2>4. W * NumKeys <= NumModels * NumKeys
    BY <2>3
  <2>5. NumModels * NumKeys \in Nat
    BY <2>3
  <2> QED BY <2>1, <2>2, <2>3, <2>4, <2>5 DEF Walked
<1> QED BY <1>1, <1>2

\* Every call has met, or may pass over, every pair before its position, all of them once it starts
\* over, and when it gives up for want of another pair it has none left.
THEOREM CascadeInvariant == CascadeSpec => []CascadeInv
BY CascadeInitSound, CascadeStepSound, PTL DEF CascadeSpec

\* Whichever client walks, however many models and keys it has, and whatever other calls record
\* in the meantime: a call that fails with an error another pair might not have given has tried,
\* found cooling or may pass over every pair, and no result hides that others came before it.
THEOREM WalkIsHonest == CascadeSpec => []WalkHonest
BY CascadeInvariant, InvariantIsHonest, PTL

\* Every variable of the walk keeps its type: no call leaves its grid, and it meets only pairs of it.
THEOREM CascadeTyped == CascadeSpec => []CascadeTypeOK
BY CascadeInvariant, InvariantIsTyped, PTL

-----------------------------------------------------------------------------
(* The queue of requests.                                                  *)

OnChain == {"queued", "gap", "flight"}
Record == [stage : Stages, kind : Kinds, attempt : Nat, until : Nat, applied : Nat]

\* Only requests that wait or are being sent are on the chain, each once.
ChainIsQueue ==
    /\ \A i \in 1..Len(chain) : request[chain[i]].stage \in OnChain
    /\ \A i, j \in 1..Len(chain) : chain[i] = chain[j] => i = j

\* Only the first has its turn.
FirstHasTurn ==
    \A r \in Requests : request[r].stage \in {"gap", "flight"} => Len(chain) > 0 /\ chain[1] = r

\* It waits for the gap after the last start.
WaitsForGap ==
    \A r \in Requests : request[r].stage = "gap" => request[r].until = lastStarted + MIN_INTERVAL

\* GitHub and Notion have not carried out a request that will be sent again.
NotYetApplied ==
    upstream # "mem0" => \A r \in Requests :
        /\ request[r].applied <= 1
        /\ request[r].stage \notin {"ok", "failed"} => request[r].applied = 0

QueueInv == QueueTypeOK /\ ChainIsQueue /\ FirstHasTurn /\ WaitsForGap /\ NotYetApplied

-----------------------------------------------------------------------------
(* Lemmas about the steps.                                                 *)

\* A failure after which an append is sent again hides no success, but from Mem0's client.
LEMMA SafeToRetry ==
    ASSUME NEW answer \in Answers, upstream # "mem0", Retryable(upstream, "append", answer)
    PROVE  answer \notin Ambiguous
BY DEF Retryable, Ambiguous, Pacing, ServerErrors, Answers

\* A request that joins the chain at its end.
LEMMA Joins ==
    ASSUME QueueInv, NEW r \in Requests, request[r].stage \in {"idle", "backoff"},
           chain' = Append(chain, r), UNCHANGED <<upstream, clock, lastStarted>>,
           request' \in [Requests -> Record],
           \A s \in Requests : s # r => request'[s] = request[s],
           request'[r].stage = "queued", request'[r].applied = request[r].applied
    PROVE  QueueInv'
<1> USE DEF QueueInv
<1>1. /\ Len(chain') = Len(chain) + 1 /\ Len(chain) \in Nat
      /\ \A i \in 1..Len(chain) : chain'[i] = chain[i] /\ chain[i] \in Requests
      /\ chain'[Len(chain) + 1] = r
    BY DEF QueueTypeOK
<1>2. \A i \in 1..Len(chain) : chain[i] # r
    BY DEF ChainIsQueue, OnChain
<1>3. QueueTypeOK'
    <2>1. chain' \in Seq(Requests)
        BY DEF QueueTypeOK
    <2> QED BY <2>1 DEF QueueTypeOK, Record
<1>4. ChainIsQueue'
    <2>1. \A i \in 1..Len(chain') : request'[chain'[i]].stage \in OnChain
        <3> SUFFICES ASSUME NEW i \in 1..Len(chain') PROVE request'[chain'[i]].stage \in OnChain
            OBVIOUS
        <3>1. CASE i = Len(chain) + 1
            BY <3>1, <1>1 DEF OnChain
        <3>2. CASE i \in 1..Len(chain)
            BY <3>2, <1>1, <1>2 DEF ChainIsQueue
        <3> QED BY <3>1, <3>2, <1>1
    <2>2. \A i, j \in 1..Len(chain') : chain'[i] = chain'[j] => i = j
        <3> SUFFICES ASSUME NEW i \in 1..Len(chain'), NEW j \in 1..Len(chain'), chain'[i] = chain'[j]
                     PROVE  i = j
            OBVIOUS
        <3>1. i \in 1..Len(chain) \/ i = Len(chain) + 1
            BY <1>1
        <3>2. j \in 1..Len(chain) \/ j = Len(chain) + 1
            BY <1>1
        <3> QED BY <3>1, <3>2, <1>1, <1>2 DEF ChainIsQueue
    <2> QED BY <2>1, <2>2 DEF ChainIsQueue
<1>5. FirstHasTurn'
    <2> SUFFICES ASSUME NEW s \in Requests, request'[s].stage \in {"gap", "flight"}
                 PROVE  Len(chain') > 0 /\ chain'[1] = s
        BY DEF FirstHasTurn
    <2>1. Len(chain) > 0 /\ chain[1] = s
        BY DEF FirstHasTurn
    <2> QED BY <2>1, <1>1
<1>6. WaitsForGap' /\ NotYetApplied'
    BY DEF WaitsForGap, NotYetApplied
<1> QED BY <1>3, <1>4, <1>5, <1>6

\* The first request of the chain takes its turn, or is sent.
LEMMA TakesTurn ==
    ASSUME QueueInv, NEW r \in Requests, request[r].stage \in OnChain, Len(chain) > 0, chain[1] = r,
           UNCHANGED <<upstream, clock, chain>>, lastStarted' \in Nat,
           request' \in [Requests -> Record],
           \A s \in Requests : s # r => request'[s] = request[s],
           request'[r].stage \in {"gap", "flight"}, request'[r].applied = request[r].applied,
           request'[r].stage = "gap" => request'[r].until = lastStarted' + MIN_INTERVAL
    PROVE  QueueInv'
<1> USE DEF QueueInv
<1>1. \A s \in Requests : s # r => request[s].stage \notin {"gap", "flight"}
    BY DEF FirstHasTurn
<1>2. QueueTypeOK'
    BY DEF QueueTypeOK, Record
<1>3. ChainIsQueue'
    <2>1. \A i \in 1..Len(chain) : chain[i] \in Requests
        BY DEF QueueTypeOK
    <2>2. \A i \in 1..Len(chain) : request'[chain[i]].stage \in OnChain
        BY <2>1 DEF ChainIsQueue, OnChain
    <2> QED BY <2>2 DEF ChainIsQueue
<1>4. FirstHasTurn' /\ WaitsForGap'
    BY <1>1 DEF FirstHasTurn, WaitsForGap
<1>5. NotYetApplied'
    BY DEF NotYetApplied, OnChain
<1> QED BY <1>2, <1>3, <1>4, <1>5

-----------------------------------------------------------------------------
(* The steps preserve the invariant.                                       *)

LEMMA InitInv == QueueInit => QueueInv
<1> SUFFICES ASSUME QueueInit PROVE QueueInv
    OBVIOUS
<1>1. QueueTypeOK
    BY QueueAssumption DEF QueueInit, QueueTypeOK, Stages, Kinds
<1>2. ChainIsQueue /\ FirstHasTurn /\ WaitsForGap /\ NotYetApplied
    BY DEF QueueInit, ChainIsQueue, FirstHasTurn, WaitsForGap, NotYetApplied
<1> QED BY <1>1, <1>2 DEF QueueInv

LEMMA CallInv == ASSUME QueueInv, NEW r \in Requests, Call(r) PROVE QueueInv'
<1>1. PICK kind \in Kinds :
        request' = [request EXCEPT ![r].stage = "queued", ![r].kind = kind]
    BY DEF Call
<1>2. /\ request' \in [Requests -> Record]
      /\ \A s \in Requests : s # r => request'[s] = request[s]
      /\ request'[r].stage = "queued" /\ request'[r].applied = request[r].applied
    BY <1>1 DEF QueueInv, QueueTypeOK, Record, Stages
<1> QED BY <1>2, Joins DEF Call, Stage

LEMMA TryAgainInv == ASSUME QueueInv, NEW r \in Requests, TryAgain(r) PROVE QueueInv'
<1>1. /\ request' \in [Requests -> Record]
      /\ \A s \in Requests : s # r => request'[s] = request[s]
      /\ request'[r].stage = "queued" /\ request'[r].applied = request[r].applied
    <2>1. /\ request \in [Requests -> Record]
          /\ request' = [request EXCEPT ![r].stage = "queued", ![r].attempt = request[r].attempt + 1]
        BY DEF TryAgain, QueueInv, QueueTypeOK, Record
    <2> QED BY <2>1 DEF Record, Stages
<1> QED BY <1>1, Joins DEF TryAgain, Stage

LEMMA TurnInv == ASSUME QueueInv, NEW r \in Requests, Turn(r) PROVE QueueInv'
<1>1. Len(chain) > 0 /\ chain[1] = r /\ lastStarted' = lastStarted /\ lastStarted \in Nat
    BY DEF Turn, First, QueueInv, QueueTypeOK
<1>2. /\ request' \in [Requests -> Record]
      /\ \A s \in Requests : s # r => request'[s] = request[s]
      /\ request'[r].stage = "gap" /\ request'[r].applied = request[r].applied
      /\ request'[r].until = lastStarted + MIN_INTERVAL
    <2>1. /\ request \in [Requests -> Record] /\ lastStarted + MIN_INTERVAL \in Nat
          /\ request' = [request EXCEPT ![r].stage = "gap", ![r].until = lastStarted + MIN_INTERVAL]
        BY QueueAssumption DEF Turn, QueueInv, QueueTypeOK, Record
    <2> HIDE DEF QueueInv
    <2>2. request'[r] \in Record
        BY <2>1 DEF Record, Stages
    <2> QED BY <2>1, <2>2 DEF Record
<1> QED BY <1>1, <1>2, TakesTurn DEF Turn, Stage, OnChain

LEMMA SendInv == ASSUME QueueInv, NEW r \in Requests, Send(r) PROVE QueueInv'
<1>1. Len(chain) > 0 /\ chain[1] = r /\ lastStarted' \in Nat
    BY DEF Send, Stage, QueueInv, QueueTypeOK, FirstHasTurn
<1>2. /\ request' \in [Requests -> Record]
      /\ \A s \in Requests : s # r => request'[s] = request[s]
      /\ request'[r].stage = "flight" /\ request'[r].applied = request[r].applied
    BY DEF Send, Moves, QueueInv, QueueTypeOK, Record, Stages
<1> QED BY <1>1, <1>2, TakesTurn DEF Send, Stage, OnChain

LEMMA ReceiveInv ==
    ASSUME QueueInv, NEW r \in Requests, NEW answer \in Answers, Receive(r, answer)
    PROVE  QueueInv'
<1> USE DEF QueueInv
<1>0. PICK done \in {0, 1} :
        /\ answer = "ok" => done = 1
        /\ answer \notin Ambiguous => done = 0
        /\ request' = [request EXCEPT ![r].stage = StageAfter(r, answer),
                                      ![r].applied = IF request[r].kind = "append" THEN @ + done ELSE @]
    BY DEF Receive
<1>1. /\ request[r].stage = "flight" /\ chain' = Tail(chain)
      /\ lastStarted' = lastStarted /\ clock' = clock /\ upstream' = upstream
    BY DEF Receive, Stage
<1>2. request[r] \in Record
    BY DEF QueueTypeOK, Record
<1>3. StageAfter(r, answer) \in {"ok", "backoff", "failed"}
    BY DEF StageAfter
<1>4. /\ request' \in [Requests -> Record]
      /\ \A s \in Requests : s # r => request'[s] = request[s]
      /\ request'[r].stage = StageAfter(r, answer)
      /\ request'[r].applied = IF request[r].kind = "append" THEN request[r].applied + done
                               ELSE request[r].applied
    <2> DEFINE applied == IF request[r].kind = "append" THEN request[r].applied + done
                          ELSE request[r].applied
               stage == StageAfter(r, answer)
    <2>1. /\ request \in [Requests -> Record]
          /\ request' = [request EXCEPT ![r].stage = stage, ![r].applied = applied]
        BY <1>0 DEF QueueTypeOK, Record
    <2>2. applied \in Nat /\ stage \in Stages
        BY <1>2, <1>3 DEF Record, Stages
    <2> HIDE DEF applied, stage
    <2>3. /\ request' \in [Requests -> Record]
          /\ \A s \in Requests : s # r => request'[s] = request[s]
          /\ request'[r].stage = stage /\ request'[r].applied = applied
        BY <2>1, <2>2 DEF Record
    <2> QED BY <2>3 DEF applied, stage
<1>5. Len(chain) > 0 /\ chain[1] = r /\ Len(chain) \in Nat
    BY <1>1 DEF FirstHasTurn, QueueTypeOK
<1>6. /\ Len(chain') = Len(chain) - 1
      /\ \A i \in 1..Len(chain') : chain'[i] = chain[i + 1] /\ chain[i + 1] \in Requests
      /\ chain' \in Seq(Requests)
    <2>1. chain \in Seq(Requests) /\ chain # << >>
        BY <1>5 DEF QueueTypeOK
    <2>2. chain' \in Seq(Requests) /\ Len(chain') = Len(chain) - 1
          /\ \A i \in 1..Len(chain') : chain'[i] = chain[i + 1]
        BY <1>1, <2>1, HeadTailProperties
    <2>3. \A i \in 1..Len(chain) : chain[i] \in Requests
        BY <2>1
    <2>4. \A i \in 1..Len(chain') : i + 1 \in 1..Len(chain)
        BY <2>1, <2>2
    <2> QED BY <2>2, <2>3, <2>4
<1>7. QueueTypeOK'
    BY <1>1, <1>4, <1>6 DEF QueueTypeOK, Record
<1>8. \A i \in 1..Len(chain') : chain'[i] # r
    BY <1>5, <1>6 DEF ChainIsQueue
<1>9. ChainIsQueue'
    <2>1. \A i \in 1..Len(chain') : request'[chain'[i]].stage \in OnChain
        BY <1>4, <1>5, <1>6, <1>8 DEF ChainIsQueue
    <2>2. \A i, j \in 1..Len(chain') : chain'[i] = chain'[j] => i = j
        <3> SUFFICES ASSUME NEW i \in 1..Len(chain'), NEW j \in 1..Len(chain'), chain'[i] = chain'[j]
                     PROVE  i = j
            OBVIOUS
        <3>1. i + 1 \in 1..Len(chain) /\ j + 1 \in 1..Len(chain)
            BY <1>5, <1>6
        <3>2. chain[i + 1] = chain[j + 1]
            BY <1>6
        <3> QED BY <3>1, <3>2, <1>5, <1>6 DEF ChainIsQueue
    <2> QED BY <2>1, <2>2 DEF ChainIsQueue
<1>10. \A s \in Requests : request'[s].stage \notin {"gap", "flight"}
    BY <1>3, <1>4, <1>5 DEF FirstHasTurn
<1>11. FirstHasTurn' /\ WaitsForGap'
    BY <1>10 DEF FirstHasTurn, WaitsForGap
<1>12. NotYetApplied'
    <2> SUFFICES ASSUME upstream # "mem0"
                 PROVE  /\ request'[r].applied <= 1
                        /\ request'[r].stage \notin {"ok", "failed"} => request'[r].applied = 0
        BY <1>1, <1>4 DEF NotYetApplied
    <2>1. request[r].applied = 0
        BY <1>1 DEF NotYetApplied
    <2>2. request'[r].applied <= 1
        BY <2>1, <1>4
    <2>3. ASSUME StageAfter(r, answer) = "backoff", request[r].kind = "append" PROVE done = 0
        <3>1. Retryable(upstream, "append", answer)
            BY <2>3 DEF StageAfter
        <3> QED BY <3>1, <1>0, SafeToRetry
    <2> QED BY <2>1, <2>2, <2>3, <1>3, <1>4
<1> QED BY <1>7, <1>9, <1>11, <1>12

LEMMA PassInv == ASSUME QueueInv, Pass PROVE QueueInv'
<1>1. UNCHANGED <<upstream, chain, lastStarted, request>> /\ clock' = clock + 1
    BY DEF Pass
<1>2. QueueTypeOK'
    BY <1>1 DEF QueueInv, QueueTypeOK
<1> QED BY <1>1, <1>2 DEF QueueInv, ChainIsQueue, FirstHasTurn, WaitsForGap, NotYetApplied

LEMMA NextInv == QueueInv /\ [QueueNext]_queueVars => QueueInv'
<1> SUFFICES ASSUME QueueInv, [QueueNext]_queueVars PROVE QueueInv'
    OBVIOUS
<1>1. CASE Pass
    BY <1>1, PassInv
<1>2. CASE \E r \in Requests : \/ Call(r) \/ Turn(r) \/ Send(r) \/ TryAgain(r)
                               \/ \E answer \in Answers : Receive(r, answer)
    BY <1>2, CallInv, TurnInv, SendInv, TryAgainInv, ReceiveInv
<1>3. CASE UNCHANGED queueVars
    BY <1>3 DEF queueVars, QueueInv, QueueTypeOK, ChainIsQueue, FirstHasTurn, WaitsForGap, NotYetApplied
<1> QED BY <1>1, <1>2, <1>3 DEF QueueNext

-----------------------------------------------------------------------------
(* Theorems.                                                               *)

\* Every variable of the queue keeps its type, and the chain its order.
THEOREM QueueInvariant == QueueSpec => []QueueInv
<1>1. QueueInit => QueueInv
    BY InitInv
<1>2. QueueInv /\ [QueueNext]_queueVars => QueueInv'
    BY NextInv
<1> QED BY <1>1, <1>2, PTL DEF QueueSpec

\* Requests that run side by side go out one by one, a failed one does not hold up the rest, and
\* GitHub and Notion carry out a request once however often it is sent.
THEOREM QueueCorrect == QueueSpec => []QueueSound
<1>1. QueueInv => QueueSound
    <2> SUFFICES ASSUME QueueInv PROVE QueueSound
        OBVIOUS
    <2>1. OneRequestAtATime
        BY DEF QueueInv, OneRequestAtATime, FirstHasTurn, Stage
    <2>2. AppliedOnce
        BY DEF QueueInv, AppliedOnce, NotYetApplied
    <2>3. NeverJammed
        BY DEF QueueInv, NeverJammed, ChainIsQueue, OnChain, QueueTypeOK, Stage
    <2> QED BY <2>1, <2>2, <2>3 DEF QueueSound
<1> QED BY <1>1, QueueInvariant, PTL

\* Two requests are never started closer together than the interval.
THEOREM QueueSpaced == QueueSpec => StartsAreSpaced
<1>1. QueueInv /\ [QueueNext]_queueVars
        => [lastStarted' # lastStarted => lastStarted' >= lastStarted + MIN_INTERVAL]_queueVars
    <2> SUFFICES ASSUME QueueInv, QueueNext, lastStarted' # lastStarted
                 PROVE  lastStarted' >= lastStarted + MIN_INTERVAL
        OBVIOUS
    <2>1. PICK r \in Requests : Send(r)
        BY DEF QueueNext, Pass, Call, Turn, TryAgain, Receive
    <2> QED BY <2>1 DEF Send, Stage, QueueInv, WaitsForGap
<1> QED BY <1>1, QueueInvariant, PTL DEF QueueSpec, StartsAreSpaced

-----------------------------------------------------------------------------
(* Side by side.                                                             *)

\* What the run of the services does is, for each of them, what its own specification allows.
THEOREM ServicesImplement == ServicesSpec => ScanSpec /\ CascadeSpec /\ QueueSpec
<1>1. ServicesInit => ScanInit /\ CascadeInit /\ QueueInit
  BY DEF ServicesInit
<1>2. [ServicesNext]_servicesVars =>
        [ScanNext]_scanVars /\ [CascadeNext]_cascadeVars /\ [QueueNext]_queueVars
  BY DEF ServicesNext, ScanMoves, CascadeMoves, QueueMoves, servicesVars, scanVars, database,
         cascadeVars, queueVars
<1> QED BY <1>1, <1>2, PTL DEF ServicesSpec, ScanSpec, CascadeSpec, QueueSpec

\* A call that fails has left no model and key untried that might have served it, and paced
\* requests go out one by one, are not held up by a failed one and are not carried out twice.
THEOREM CallsAreSound == ServicesSpec => []CallsSound
<1>1. WalkHonest /\ QueueSound => CallsSound
  BY DEF CallsSound
<1> QED BY <1>1, ServicesImplement, WalkIsHonest, QueueCorrect, PTL

\* With one worker, the index has the content of the commit scanned last, and after scans that
\* ended well every edge has the target it could have.
THEOREM IndexIsHealed == ASSUME NEW w, Solo(w) PROVE ServicesSpec => []IndexHealed
<1>1. IndexTrue /\ EdgesHealed => IndexHealed
  BY DEF IndexHealed
<1> QED BY <1>1, ServicesImplement, IndexIsTrue, EdgesAreHealed, PTL

\* The state of each service is well typed.
THEOREM ServicesAreTyped == ASSUME NEW w, Solo(w) PROVE ServicesSpec => []ServicesTypeOK
<1> DEFINE Moving == moving \in {"scan", "cascade", "queue"}
<1>1. ServicesInit => Moving
  BY ServicesAssumption DEF ServicesInit
<1>2. Moving /\ [ServicesNext]_servicesVars => Moving'
  BY DEF ServicesNext, ScanMoves, CascadeMoves, QueueMoves, servicesVars
<1>3. Moving /\ ScanTypeOK /\ CascadeTypeOK /\ QueueInv => ServicesTypeOK
  BY DEF ServicesTypeOK, QueueInv
<1> QED BY <1>1, <1>2, <1>3, ServicesImplement, ScanTyped, CascadeTyped, QueueInvariant, PTL DEF ServicesSpec
=============================================================================
