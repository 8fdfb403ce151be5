------------------------------ MODULE MCNotion ------------------------------
(***************************************************************************)
(* The components that keep pages in Notion, side by side: the entity      *)
(* index, a page's marked range, the checkpoint notes, the commit log and  *)
(* the updates of a page.  They share no page, so a behaviour moves one of *)
(* them, chosen at the start, and the others stay as they began.           *)
(***************************************************************************)
EXTENDS EntityIndex, MarkerRange, CheckpointNotes, CommitLog, PageUpdate, TLC

CONSTANT Components     \* the components the run is about

VARIABLE moving         \* the component that moves

notionVars == <<indexVars, rangeVars, noteVars, logVars, pageVars, moving>>

CallsIn(p) == Cardinality({c \in Callers : home[c] = p})
Busiest == CHOOSE p \in Processes : TRUE

\* A component that does not move starts in one state only.  The processes differ in name
\* only, so one of them may be taken to run the most calls.
NotionInit ==
    /\ moving \in Components
    /\ IndexInit /\ (\A p \in Processes : CallsIn(p) <= CallsIn(Busiest))
                 /\ (moving # "index" => CallsIn(Busiest) = Cardinality(Callers))
    /\ MarkerInit /\ (moving # "range" => ~skips)
    /\ NotesInit /\ (moving # "notes" => index = [k \in NoteKeys |-> NoNotePage])
    /\ LogInit
    /\ PageInit

IndexMoves == moving = "index" /\ IndexNext /\ UNCHANGED <<rangeVars, noteVars, logVars, pageVars, moving>>
RangeMoves == moving = "range" /\ MarkerNext /\ UNCHANGED <<indexVars, noteVars, logVars, pageVars, moving>>
NotesMove == moving = "notes" /\ NotesNext /\ UNCHANGED <<indexVars, rangeVars, logVars, pageVars, moving>>
LogMoves == moving = "log" /\ LogNext /\ UNCHANGED <<indexVars, rangeVars, noteVars, pageVars, moving>>
PageMoves == moving = "page" /\ PageNext /\ UNCHANGED <<indexVars, rangeVars, noteVars, logVars, moving>>

NotionNext == IndexMoves \/ RangeMoves \/ NotesMove \/ LogMoves \/ PageMoves

NotionSpec == NotionInit /\ [][NotionNext]_notionVars

-----------------------------------------------------------------------------
IndexFaults == [fault |-> 1, crash |-> 1, op |-> 1]
All == {"index", "range", "notes", "log", "page"}

\* What one notion_update asks for: every kind of edit, in the combinations that meet each other.
Tail2 == {"log", "embed"}
Replacements == <<[find |-> "u", replace |-> "v"], [find |-> "x", replace |-> "y"]>>
Body(status) == [blocks |-> <<"x">>, entity |-> FALSE, status |-> status, relations |-> {}]
SomeUpdates ==
    {[kind |-> "update", parts |-> {"append", "status", "relations"} \cup Tail2,
      append |-> <<"v">>, status |-> "open", relations |-> {"b"}],
     [kind |-> "update", parts |-> {"replace", "content"} \cup Tail2,
      replace |-> Replacements, content |-> Body(<<"closed">>)],
     [kind |-> "update", parts |-> {"content", "updates"} \cup Tail2,
      content |-> Body(<<>>), updates |-> [find |-> "x", replace |-> "u"]],
     [kind |-> "update", parts |-> {"append", "status", "archive"}, append |-> <<"u">>, status |-> "closed"],
     [kind |-> "update", parts |-> {"props", "status"} \cup Tail2, status |-> "open"],
     [kind |-> "search", parts |-> {"embed"}]}
OnePage == [blocks |-> <<"u", "x">>, era |-> 0, entity |-> TRUE, status |-> <<"open">>, relations |-> {"a"}, archived |-> FALSE]
PageFaults == [fault |-> 1, person |-> 1]

\* Two writers, two keys and two instances of the log are one set of names, which one
\* permutation moves together.
NotionSymmetry == Permutations(Callers) \cup Permutations(Writers)

\* The state of the component that moves is well typed.
NotionTypeOK ==
    CASE moving = "index" -> IndexTypeOK
      [] moving = "range" -> RangeTypeOK
      [] moving = "notes" -> NotesTypeOK
      [] moving = "log" -> LogTypeOK
      [] moving = "page" -> PageTypeOK
=============================================================================
