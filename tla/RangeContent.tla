---------------------------- MODULE RangeContent ----------------------------
(***************************************************************************)
(* What a machine-managed range of a Notion page promises its readers:     *)
(* once it holds the text of some save, it always holds the text of some   *)
(* save in full.  A save first adds its text, and only then may older      *)
(* texts go, so that no failure in between leaves the range without one    *)
(* (swapRangeContent, src/connectors/notion/tools.js).                     *)
(***************************************************************************)
CONSTANT Saves

VARIABLE held       \* the saves whose text the range holds in full

RangeInit == held = {}

\* Usually the text of one save; two saves that create the range share its end marker.
AddTexts == held \subseteq held' /\ held' \subseteq Saves

DropTexts == held' \subseteq held /\ held' # {}

RangeNext == AddTexts \/ DropTexts

RangeSpec == RangeInit /\ [][RangeNext]_held
=============================================================================
