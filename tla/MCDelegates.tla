---------------------------- MODULE MCDelegates -----------------------------
(***************************************************************************)
(* The three delegates that drive a model through tool calls, side by      *)
(* side: the investigating agent's loop, what it remembers of its calls,   *)
(* the editor's chain of steps and the designer's loop.  They keep their   *)
(* runs apart, so a behaviour moves one of them, chosen at the start, and  *)
(* the others stay as they began.                                          *)
(***************************************************************************)
EXTENDS AgentLoop, HistoryCompaction, EditorChain, DesignerLoop, TLC

CONSTANT Delegates      \* the delegates the run is about

VARIABLE moving         \* the delegate that moves

delegateVars == <<loopVars, historyVars, editorVars, designVars, moving>>

\* A delegate that does not move starts in one state only.
DelegatesInit ==
    /\ moving \in Delegates
    /\ LoopInit /\ (moving # "agent" => mode = CHOOSE m \in Modes : TRUE)
    /\ HistoryInit /\ (moving # "history" => historyLeft = CHOOSE b \in HistoryBudgets : TRUE)
    /\ EditorInit
    /\ DesignInit /\ (moving # "designer" =>
                        files = [p \in Paths |-> 0] /\ designLeft = CHOOSE b \in DesignBudgets : TRUE)

AgentMoves == moving = "agent" /\ LoopNext /\ UNCHANGED <<historyVars, editorVars, designVars, moving>>
HistoryMoves == moving = "history" /\ HistoryNext /\ UNCHANGED <<loopVars, editorVars, designVars, moving>>
EditorMoves == moving = "editor" /\ EditorNext /\ UNCHANGED <<loopVars, historyVars, designVars, moving>>
DesignerMoves == moving = "designer" /\ DesignNext /\ UNCHANGED <<loopVars, historyVars, editorVars, moving>>

DelegatesNext == AgentMoves \/ HistoryMoves \/ EditorMoves \/ DesignerMoves

DelegatesSpec == DelegatesInit /\ [][DelegatesNext]_delegateVars

-----------------------------------------------------------------------------
\* A caller's run whose Redis commands may fail, and a run driven by workers whose steps may throw.
AgentModes == {[workers |-> FALSE, throws |-> FALSE, calls |-> 3, faults |-> 2],
               [workers |-> TRUE, throws |-> TRUE, calls |-> 6, faults |-> 0]}
Faults == [h \in Hazards |-> 1]
NoTrouble == [resume |-> 1, commit |-> 0, fault |-> 0, kill |-> 0, expire |-> 0]
Troubles == {[NoTrouble EXCEPT !.commit = 1], [NoTrouble EXCEPT !.fault = 1],
             [NoTrouble EXCEPT !.kill = 1, !.expire = 1]}
All == {"agent", "history", "editor", "designer"}
\* Two pages of a file, one of them also under another name, and what may go wrong.
Page(name, ref, page) == [name |-> name, ref |-> ref, page |-> page]
Reads == {<<Page("read_file", "none", "p1")>>, <<Page("read_file", "none", "p2")>>,
          <<Page("get_file_at_commit", "HEAD", "p1"), Page("read_file", "none", "p1")>>}
CallIds == <<"i1", "i2">>
Sound == [steps |-> 3, push |-> 0, fault |-> 0, faults |-> 0, kill |-> 0, draft |-> 0, error |-> 0]
Mishaps == {[Sound EXCEPT !.push = 1, !.kill = 1], [Sound EXCEPT !.error = 1, !.draft = 1],
            [Sound EXCEPT !.steps = 2, !.fault = 1, !.faults = 1, !.kill = 1],
            [Sound EXCEPT !.fault = 1, !.faults = 1]}
OnlyDesigner == {"designer"}

FileSymmetry == Permutations(Files)

\* The state of the delegate that moves is well typed.
DelegatesTypeOK ==
    CASE moving = "agent" -> LoopTypeOK
      [] moving = "history" -> HistoryTypeOK
      [] moving = "editor" -> EditorTypeOK
      [] moving = "designer" -> DesignTypeOK
=============================================================================
