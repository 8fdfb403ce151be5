------------------------------ MODULE TextViews ------------------------------
(***************************************************************************)
(* What a model is shown of a text too long to show at once, and of two    *)
(* texts that differ: read_file's pages and line windows                   *)
(* (connectors/github/files.js), the pages of the delegates' own read_file *)
(* and their line diff (agent_delegate.js), edit_file's diff, and the      *)
(* pages of a Notion page (connectors/output.js).                          *)
(*                                                                         *)
(* A reader starts without arguments and follows the offsets it is told    *)
(* until nothing remains.  Each page is cut from the text as it is when    *)
(* the page is asked for.                                                  *)
(***************************************************************************)
EXTENDS Integers, Sequences, FiniteSets

CONSTANTS
    ViewTools,      \* the tools
    WholeUpTo,      \* tool -> the longest text returned whole
    PageOf,         \* tool -> the length of a page when none is asked for
    LongestPage,    \* tool -> the longest page one may ask for
    Characters,     \* what texts are made of
    LongestText,
    LineSpan,       \* the lines shown after line_start when line_end is not given
    TextChanges     \* how often the text changes under the reader

VARIABLE view       \* the tool, the text, what the reader has got and the offset it was told

Strings == UNION {[1..n -> Characters] : n \in 0..LongestText}

-----------------------------------------------------------------------------
(* Pages.                                                                  *)

Lesser(a, b) == IF a <= b THEN a ELSE b
Greater(a, b) == IF a >= b THEN a ELSE b

\* s.slice(from, to): from is counted from 0, to is left out.
Slice(s, from, to) == SubSeq(s, from + 1, Lesser(to, Len(s)))

Page(s, offset, limit) ==
    [text |-> Slice(s, offset, offset + limit),
     offset |-> offset,
     left |-> Greater(0, Len(s) - offset - Len(Slice(s, offset, offset + limit)))]

\* Without arguments: everything up to the tool's threshold, and a first page above it.
FirstPageOf(tool, s) ==
    IF Len(s) <= WholeUpTo[tool] THEN [text |-> s, offset |-> 0, left |-> 0] ELSE Page(s, 0, PageOf[tool])

\* From an offset, with a limit or the tool's own.
PageFrom(tool, s, offset, limit) ==
    Page(s, offset, Lesser(IF limit = 0 THEN PageOf[tool] ELSE limit, LongestPage[tool]))

\* Arguments read_file refuses: offsets and limits that would not be positions and lengths.
Misplaced(offset, limit) == offset < 0 \/ limit < 1
MisplacedLines(first, last) == first < 1 \/ last < 1 \/ last < first

\* line_start to line_end, both counted from 1 and included.
LineWindow(lines, first, last) ==
    LET start == Greater(1, first)
        end == Lesser(Len(lines), IF last = 0 THEN start + LineSpan ELSE last)
    IN  SubSeq(lines, start, end)

-----------------------------------------------------------------------------
(* Diffs.                                                                  *)

\* dp[i][j]: the length of the longest common subsequence of what follows i in a and j in b.
Common(a, b) ==
    LET dp[i \in 1..(Len(a) + 1), j \in 1..(Len(b) + 1)] ==
            IF i > Len(a) \/ j > Len(b) THEN 0
            ELSE IF a[i] = b[j] THEN dp[i + 1, j + 1] + 1
            ELSE Greater(dp[i + 1, j], dp[i, j + 1])
    IN  dp

\* The walk through the table.  On a tie the delegates' diff deletes first, edit_file's adds first.
Deletes(dp, i, j, deleteFirst) ==
    IF deleteFirst THEN dp[i + 1, j] >= dp[i, j + 1] ELSE dp[i, j + 1] < dp[i + 1, j]

LineDiff(a, b, deleteFirst) ==
    LET dp == Common(a, b)
        Walk[i \in 1..(Len(a) + 1), j \in 1..(Len(b) + 1)] ==
            IF i > Len(a) /\ j > Len(b) THEN <<>>
            ELSE IF i > Len(a) THEN <<[t |-> "add", l |-> b[j]]>> \o Walk[i, j + 1]
            ELSE IF j > Len(b) THEN <<[t |-> "del", l |-> a[i]]>> \o Walk[i + 1, j]
            ELSE IF a[i] = b[j] THEN <<[t |-> "ctx", l |-> a[i]]>> \o Walk[i + 1, j + 1]
            ELSE IF Deletes(dp, i, j, deleteFirst) THEN <<[t |-> "del", l |-> a[i]]>> \o Walk[i + 1, j]
            ELSE <<[t |-> "add", l |-> b[j]]>> \o Walk[i, j + 1]
    IN  Walk[1, 1]

-----------------------------------------------------------------------------
ViewInit ==
    \E tool \in ViewTools, s \in Strings :
        view = [tool |-> tool, text |-> s, was |-> s, got |-> <<>>, offset |-> 0, reading |-> "no", left |-> TextChanges]

\* The reader adds the page it got to what it has.
Got(page) ==
    view' = [view EXCEPT !.got = @ \o page.text, !.offset = page.offset + Len(page.text),
                         !.reading = IF page.left = 0 THEN "done" ELSE "more"]

ReadFirst == view.reading = "no" /\ Got(FirstPageOf(view.tool, view.text))

ReadNext ==
    /\ view.reading = "more"
    /\ \E limit \in 0..LongestText : Got(PageFrom(view.tool, view.text, view.offset, limit))

\* The file or page is edited while it is read.
EditText(s) ==
    /\ view.left > 0 /\ view.reading # "done" /\ s # view.text
    /\ view' = [view EXCEPT !.text = s, !.left = @ - 1]

ViewNext == ReadFirst \/ ReadNext \/ \E s \in Strings : EditText(s)

-----------------------------------------------------------------------------
ViewTypeOK ==
    /\ view.tool \in ViewTools /\ {view.text, view.was} \subseteq Strings
    /\ view.reading \in {"no", "more", "done"} /\ view.left \in 0..TextChanges

\* The subsequences of a sequence.
Subsequences(s) ==
    {[k \in 1..Cardinality(S) |-> s[CHOOSE i \in S : Cardinality({j \in S : j <= i}) = k]] : S \in SUBSET DOMAIN s}

Lines(diff, types) ==
    LET chosen == SelectSeq(diff, LAMBDA d : d.t \in types) IN [k \in DOMAIN chosen |-> chosen[k].l]

\* A reader that follows the offsets of a text that does not change has read it, once and whole,
\* whatever limits it asks for on the way.
PagesWhole == view.reading = "done" /\ view.text = view.was /\ view.left = TextChanges => view.got = view.text

\* The diff of the text as it was and as it is leads from one to the other, and leaves as many
\* lines alone as can be.
DiffExact ==
    \A deleteFirst \in BOOLEAN :
        LET diff == LineDiff(view.was, view.text, deleteFirst)
            kept == Lines(diff, {"ctx"})
        IN  /\ Lines(diff, {"ctx", "del"}) = view.was
            /\ Lines(diff, {"ctx", "add"}) = view.text
            /\ \A s \in Subsequences(view.was) \cap Subsequences(view.text) : Len(s) <= Len(kept)

\* Every argument read_file accepts gives a window that is part of the text, at its place, and an
\* honest count of what follows; a line window has the lines of those numbers.
WindowsHonest ==
    /\ \A offset \in -1..(LongestText + 1), limit \in 0..LongestText : ~Misplaced(offset, limit) =>
            LET page == PageFrom(view.tool, view.text, offset, limit)
            IN  /\ \A k \in DOMAIN page.text : page.text[k] = view.text[offset + k]
                /\ offset <= Len(view.text) => offset + Len(page.text) + page.left = Len(view.text)
    /\ \A first \in 0..(LongestText + 1), last \in 0..LongestText : ~MisplacedLines(first, last) =>
            LET lines == LineWindow(view.text, first, last)
            IN  /\ \A k \in DOMAIN lines : lines[k] = view.text[first + k - 1]
                /\ Len(lines) = Cardinality({n \in DOMAIN view.text : first <= n /\ n <= last})

ViewsExact == PagesWhole /\ DiffExact /\ WindowsHonest
=============================================================================
