----------------------------- MODULE GraphQuery -----------------------------
(***************************************************************************)
(* queryGraph: who calls a symbol, or what it calls, within a number of    *)
(* hops.  The database computes the symbols round by round; calls made     *)
(* outside any symbol belong to a file and are looked up afterwards, one   *)
(* '<module>' entry per file.  The map does not change while it is asked.  *)
(***************************************************************************)
EXTENDS Naturals, FiniteSets

CONSTANTS
    Symbols,        \* ids of the symbols of a repository
    Scripts,        \* files with calls outside any symbol
    Named,          \* what the name asked for may resolve to: sets of symbols
    MaxHops         \* bound on the depth, 5 in the code

ASSUME GraphAssumption == MaxHops \in Nat \ {0} /\ Named \subseteq SUBSET Symbols

VARIABLES
    callEdges,      \* <<caller, callee>> between symbols
    scriptCalls,    \* <<file, callee>>: edges with no src_symbol_id
    asking,         \* the query: [start, direction, hops]
    walk,           \* rows of the recursive query: <<symbol, depth>>
    fresh,          \* rows of its last round
    callers,        \* file -> depth, of the module-level callers
    stage           \* "walk", "modules" or "done"

graphVars == <<callEdges, scriptCalls, asking, walk, fresh, callers, stage>>

Directions == {"callers", "callees"}
Asks == [start : Named, direction : Directions, depth : 0..(MaxHops + 1)]

\* The depth asked for, brought into range.
Clamp(depth) == IF depth < 1 THEN 1 ELSE IF depth > MaxHops THEN MaxHops ELSE depth
Hops == Clamp(asking.depth)

GraphInit ==
    /\ callEdges \in SUBSET (Symbols \X Symbols)
    /\ scriptCalls \in SUBSET (Scripts \X Symbols)
    /\ asking \in Asks
    /\ fresh = {<<s, 0>> : s \in asking.start}
    /\ walk = fresh
    /\ callers = << >>
    /\ stage = "walk"

\* The edges of a symbol in the direction asked for.
NextSymbols(s) ==
    IF asking.direction = "callees" THEN {e[2] : e \in {d \in callEdges : d[1] = s}}
    ELSE {e[1] : e \in {d \in callEdges : d[2] = s}}

\* A round joins the rows of the last one with the edges; UNION keeps rows not there yet.
Joined == UNION {{<<t, row[2] + 1>> : t \in NextSymbols(row[1])} :
                    row \in {r \in fresh : r[2] < Hops}}
Round ==
    /\ stage = "walk" /\ fresh # {}
    /\ fresh' = Joined \ walk
    /\ walk' = walk \cup fresh'
    /\ UNCHANGED <<callEdges, scriptCalls, asking, callers, stage>>

Least(S) == CHOOSE n \in S : \A m \in S : n <= m

\* The rows returned: a symbol at the least depth above 0, the start as well if it is in a cycle.
Reached == {row[1] : row \in {r \in walk : r[2] > 0}}
DepthOf(s) == Least({row[2] : row \in {r \in walk : r[1] = s /\ r[2] > 0}})

WalkDone ==
    /\ stage = "walk" /\ fresh = {}
    /\ stage' = IF asking.direction = "callers" THEN "modules" ELSE "done"
    /\ UNCHANGED <<callEdges, scriptCalls, asking, walk, fresh, callers>>

\* getModuleCallers: one hop more than the symbol called, 0 for those asked for.
Base(s) == IF s \in asking.start THEN 0 ELSE DepthOf(s)
DepthsOf(f) == {Base(e[2]) + 1 : e \in {d \in scriptCalls : d[1] = f /\ d[2] \in asking.start \cup Reached}}
InRange(f) == {n \in DepthsOf(f) : n <= Hops}

ModuleCallers ==
    /\ stage = "modules"
    /\ callers' = [f \in {g \in Scripts : InRange(g) # {}} |-> Least(InRange(f))]
    /\ stage' = "done"
    /\ UNCHANGED <<callEdges, scriptCalls, asking, walk, fresh>>

GraphNext == Round \/ WalkDone \/ ModuleCallers

GraphSpec == GraphInit /\ [][GraphNext]_graphVars

-----------------------------------------------------------------------------
(* Properties.                                                             *)

\* Type correctness.
GraphTypeOK ==
    /\ asking \in Asks
    /\ fresh \subseteq walk /\ walk \subseteq Symbols \X (0..MaxHops)
    /\ DOMAIN callers \subseteq Scripts
    /\ stage \in {"walk", "modules", "done"}

\* A chain of n calls from one symbol to another, written as the symbols it passes.
Chained(from, to, n) ==
    \E path \in [0..n -> Symbols] :
        /\ path[0] = from /\ path[n] = to
        /\ \A i \in 1..n : path[i] \in NextSymbols(path[i - 1])
Shortest(s) == {n \in 1..Hops : \E t \in asking.start : Chained(t, s, n)}

\* The answer holds exactly the symbols a chain of at most the asked number of calls connects,
\* with the length of the shortest one, on recursive functions and cycles too, and every file
\* that calls one of those, or the symbol itself, within the same number.
GraphExact ==
    stage = "done" =>
        /\ \A s \in Symbols :
            /\ s \in Reached <=> Shortest(s) # {}
            /\ s \in Reached => DepthOf(s) = Least(Shortest(s))
        /\ asking.direction = "callers" => \A f \in Scripts :
            LET lengths == {1 : s \in {t \in asking.start : <<f, t>> \in scriptCalls}} \cup
                    UNION {{n + 1 : n \in Shortest(s)} :
                              s \in {t \in Symbols : <<f, t>> \in scriptCalls}}
                inRange == {n \in lengths : n <= Hops}
            IN  /\ f \in DOMAIN callers <=> inRange # {}
                /\ f \in DOMAIN callers => callers[f] = Least(inRange)
=============================================================================
