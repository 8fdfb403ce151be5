----------------------------- MODULE MCConnectors -----------------------------
(***************************************************************************)
(* The connectors that keep or read what is stored elsewhere, side by      *)
(* side: the memory tools, their sync to Notion and their walk over        *)
(* relations, the repository map's tool and its graph query, and the tools *)
(* that write to a branch or show a text.  Each works from its own view of *)
(* its store, so a behaviour moves one of them, chosen at the start, and   *)
(* the others stay as they began.                                          *)
(***************************************************************************)
EXTENDS MemorySync, MemoryStore, RelationWalk, MapTool, GraphQuery, BranchWrites, TextViews, TLC

CONSTANT Components     \* the components the run is about

VARIABLE moving         \* the component that moves

connectorVars == <<syncVars, storeVars, walkVars, mapVars, graphVars, branchVars, view, moving>>

\* A component that does not move starts in one state only.
ConnectorsInit ==
    /\ moving \in Components
    /\ SyncInit /\ (moving # "sync" => store = <<>>)
    /\ StoreInit /\ (moving # "store" => storeLeft = CHOOSE b \in StoreBudgets : TRUE)
    /\ WalkInit /\ (moving # "walk" => inScope = {} /\ elsewhere = {})
    /\ MapInit
    /\ moving # "graph" =>
            /\ callEdges = {} /\ scriptCalls = {}
            /\ asking = [start |-> CHOOSE S \in Named : TRUE, direction |-> "callees", depth |-> 1]
    /\ GraphInit
    /\ BranchInit
    /\ ViewInit /\ (moving # "views" => view.tool = "read_file" /\ view.text = <<>>)

SyncMoves == moving = "sync" /\ SyncNext /\ UNCHANGED <<storeVars, walkVars, mapVars, graphVars, branchVars, view, moving>>
StoreMoves == moving = "store" /\ StoreNext /\ UNCHANGED <<syncVars, walkVars, mapVars, graphVars, branchVars, view, moving>>
WalkMoves == moving = "walk" /\ WalkNext /\ UNCHANGED <<syncVars, storeVars, mapVars, graphVars, branchVars, view, moving>>
MapMoves == moving = "map" /\ MapNext /\ UNCHANGED <<syncVars, storeVars, walkVars, graphVars, branchVars, view, moving>>
GraphMoves == moving = "graph" /\ GraphNext /\ UNCHANGED <<syncVars, storeVars, walkVars, mapVars, branchVars, view, moving>>
BranchMoves == moving = "branch" /\ BranchNext /\ UNCHANGED <<syncVars, storeVars, walkVars, mapVars, graphVars, view, moving>>
ViewMoves == moving = "views" /\ ViewNext /\ UNCHANGED <<syncVars, storeVars, walkVars, mapVars, graphVars, branchVars, moving>>

ConnectorsNext == SyncMoves \/ StoreMoves \/ WalkMoves \/ MapMoves \/ GraphMoves \/ BranchMoves \/ ViewMoves

ConnectorsSpec == ConnectorsInit /\ [][ConnectorsNext]_connectorVars

-----------------------------------------------------------------------------
SyncHazards == [change |-> 1, fault |-> 1, time |-> 1, start |-> 2]
StoreHazards == {[add |-> 1, update |-> 2, delete |-> 1, fault |-> 1],
                 [add |-> 2, update |-> 1, delete |-> 0, fault |-> 0],
                 [add |-> 2, update |-> 0, delete |-> 1, fault |-> 1]}
Names == {{"s1"}, {"s1", "s2"}}

\* One request of each tool, and one of each that is rejected, over two paths.
TwoChanges == <<[old |-> "u", new |-> "v"], [old |-> "w", new |-> "u"]>>
AnyRequest ==
    [kind : {"create"}, path : {"p", "q"}, text : {<<"u">>}] \cup
    [kind : {"overwrite"}, path : {"q"}, text : {<<"u", "w">>}] \cup
    [kind : {"edit"}, path : {"p"}, edits : {TwoChanges}] \cup
    [kind : {"delete"}, path : {"p", "q"}] \cup
    [kind : {"rename"}, path : {"p"}, to : {"p", "q"}] \cup
    [kind : {"push"}, files : {<<[path |-> "p", text |-> <<"w">>], [path |-> "q", text |-> <<"u">>]>>,
                               <<[path |-> "q", text |-> <<"w">>], [path |-> "q", text |-> <<"u">>]>>}]
OneTree == [p |-> <<"u", "w">>, q |-> <<>>]
AnyEdit == [path : {"p", "q"}, text : {<<>>, <<"w", "u">>, <<"u", "u">>}]
\* The tools' thresholds and pages in proportion: read_file returns up to five pages whole, the
\* delegates' and Notion's one; the last sets no limit of its own to a page.
WholeLengths == [read_file |-> 3, delegate |-> 2, notion |-> 2]
PageLengths == [read_file |-> 1, delegate |-> 2, notion |-> 2]
LimitLengths == [read_file |-> 2, delegate |-> 3, notion |-> 4]
BranchHazards == [other |-> 1, fault |-> 1]
AllConnectors == {"sync", "store", "walk", "map", "graph", "branch", "views"}
OnlySync == {"sync"}

\* Two sync runs, two editors and two writers of a branch are one set of names, which one permutation
\* moves together.
MemorySymmetry == Permutations(Runs)

\* The state of the component that moves is well typed.
ConnectorsTypeOK ==
    CASE moving = "sync" -> SyncTypeOK
      [] moving = "store" -> StoreTypeOK
      [] moving = "walk" -> WalkTypeOK
      [] moving = "map" -> MapTypeOK
      [] moving = "graph" -> GraphTypeOK
      [] moving = "branch" -> BranchTypeOK
      [] moving = "views" -> ViewTypeOK

\* What is answered: the walk over relations lists the memories within the depth asked for, the
\* graph query's rows are the symbols within the hops asked for, an answer without a warning was
\* read from an index that is whole and of the branch asked about, and the pages and diffs of a
\* text, followed to their end, are the text and the change.
AnswersExact ==
    /\ moving = "walk" => WalkExact
    /\ moving = "graph" => GraphExact
    /\ moving = "map" => SilentAnswerIsWhole
    /\ moving = "views" => ViewsExact
=============================================================================
