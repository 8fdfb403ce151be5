---------------------------- MODULE MarkerRange ----------------------------
(***************************************************************************)
(* A marker-delimited range of a Notion page, written by                   *)
(* notion_sync_content, the Mem0 sync and the checkpoint tool              *)
(* (replaceMarkerRange, replaceCheckpointRange, swapRangeContent,          *)
(* appendBlocks, deleteBlocks in src/connectors/notion/tools.js, findRange *)
(* in src/connectors/notion/client.js).                                    *)
(*                                                                         *)
(* A save reads the page; without a range it appends one; otherwise it     *)
(* inserts its lines after the start marker, deletes the lines it had      *)
(* read, and sets the marker's timestamp last.  Appends go in batches of   *)
(* at most Batch blocks; each request may fail, and a failed append may    *)
(* have been applied.                                                      *)
(***************************************************************************)
EXTENDS Integers, Sequences, FiniteSets, SequencesExt

CONSTANTS
    Writers,        \* saves that may run at the same time
    Lines,          \* lines of a save's text
    Batch,          \* blocks per append request (100 in the code)
    MaxSaves,       \* bound: saves started
    MaxStamp,       \* bound: versions of the source
    MaxNotes,       \* bound: blocks a person adds to the page
    RangeFaults     \* bound: failed requests and crashes

ASSUME RangeAssumption ==
    /\ Lines \in Nat \ {0} /\ Batch \in Nat \ {0} /\ MaxSaves \in Nat \ {0}
    /\ MaxStamp \in Nat /\ MaxNotes \in Nat /\ RangeFaults \in Nat

VARIABLES
    body,           \* the page's top-level blocks, in order
    stamp,          \* start marker -> the timestamp it shows
    writers,        \* writer -> the save it runs
    latest,         \* the source's newest version
    versionOf,      \* save -> the version it writes
    skips,          \* whether a save skips an unchanged timestamp (sync) or not (checkpoint)
    started,        \* saves started so far
    faultsLeft,
    torn,           \* some save left a start marker without its end
    overlapped      \* some two saves ran at the same time

rangeVars == <<body, stamp, writers, latest, versionOf, skips, started, faultsLeft, torn, overlapped>>

Saves == 1 .. MaxSaves

\* A block: the save that wrote it and its place in that save's text; a person's
\* block is numbered on its own.
StartOf(n) == [save |-> n, kind |-> "start", at |-> 0]
EndOf(n)   == [save |-> n, kind |-> "end", at |-> 0]
Line(n, i) == [save |-> n, kind |-> "line", at |-> i]
Note(i)    == [save |-> 0, kind |-> "note", at |-> i]
Blocks == {StartOf(n) : n \in Saves} \cup {EndOf(n) : n \in Saves}
          \cup {Line(n, i) : n \in Saves, i \in 1 .. Lines} \cup {Note(i) : i \in 1 .. MaxNotes}

Text(n) == [i \in 1 .. Lines |-> Line(n, i)]
NewRange(n) == <<StartOf(n)>> \o Text(n) \o <<EndOf(n)>>

NoBlock == Note(0)
IdleWriter == [step |-> "idle", save |-> 0, anchor |-> NoBlock,
               todo |-> <<>>, old |-> {}, kept |-> FALSE]

RangeTypeOK ==
    /\ body \in Seq(Blocks)
    /\ stamp \in [Saves -> 0 .. MaxStamp]
    /\ \A w \in Writers :
          /\ writers[w].step \in {"idle", "read", "create", "insert", "delete", "stamp"}
          /\ writers[w].save \in Saves \cup {0}
          /\ writers[w].todo \in Seq(Blocks)
          /\ writers[w].old \subseteq Blocks
    /\ latest \in 0 .. MaxStamp
    /\ versionOf \in [Saves -> 0 .. MaxStamp]
    /\ skips \in BOOLEAN
    /\ started \in 0 .. MaxSaves
    /\ faultsLeft \in 0 .. RangeFaults

MarkerInit ==
    /\ body = <<>>
    /\ stamp = [n \in Saves |-> 0]
    /\ writers = [w \in Writers |-> IdleWriter]
    /\ latest = 0
    /\ versionOf = [n \in Saves |-> 0]
    /\ skips \in BOOLEAN
    /\ started = 0
    /\ faultsLeft = RangeFaults
    /\ torn = FALSE
    /\ overlapped = FALSE

-----------------------------------------------------------------------------
(* findRange: the first start marker and the first end marker after it.    *)

Kinds(kind, from) == {i \in from .. Len(body) : body[i].kind = kind}
FirstStart == LET I == Kinds("start", 1) IN CHOOSE i \in I : \A j \in I : i <= j
HasRange == Kinds("start", 1) # {} /\ Kinds("end", FirstStart) # {}

\* The blocks strictly between the two markers.
Inner == LET s == FirstStart
             E == Kinds("end", s)
         IN SubSeq(body, s + 1, (CHOOSE e \in E : \A j \in E : e <= j) - 1)
InnerBlocks == Range(Inner)

-----------------------------------------------------------------------------
(* A save.                                                                 *)

Set(w, rec) == writers' = [writers EXCEPT ![w] = rec]
EndSave(w) == Set(w, IdleWriter)
FailSave(w) == faultsLeft > 0 /\ faultsLeft' = faultsLeft - 1 /\ EndSave(w)

\* The source's version is the newest one; a retry repeats it.
BeginSave(w) ==
    /\ writers[w].step = "idle" /\ started < MaxSaves
    /\ \E v \in {latest, latest + 1} \ {0} :
          /\ v <= MaxStamp
          /\ latest' = v
          /\ versionOf' = [versionOf EXCEPT ![started + 1] = v]
          /\ Set(w, [IdleWriter EXCEPT !.step = "read", !.save = started + 1])
    /\ started' = started + 1
    /\ overlapped' = (overlapped \/ \E u \in Writers \ {w} : writers[u].step # "idle")
    /\ UNCHANGED <<body, stamp, skips, faultsLeft, torn>>

\* replaceMarkerRange up to its first write.
Unchanged(w) == skips /\ stamp[body[FirstStart].save] = versionOf[writers[w].save]
Read(w) ==
    /\ writers[w].step = "read"
    /\ LET me == writers[w]
       IN \/ /\ ~HasRange
             /\ Set(w, [me EXCEPT !.step = "create", !.todo = NewRange(me.save)])
          \/ /\ HasRange /\ Unchanged(w)
             /\ EndSave(w)
          \/ /\ HasRange /\ ~Unchanged(w)
             /\ Set(w, [me EXCEPT !.step = "insert", !.todo = Text(me.save),
                                    !.anchor = body[FirstStart], !.old = InnerBlocks])
    /\ UNCHANGED <<body, stamp, latest, versionOf, skips, started, faultsLeft, torn, overlapped>>

\* appendBlocks at the end of the page: the first batch first.
Create(w) ==
    LET me == writers[w]
        n == IF Len(me.todo) < Batch THEN Len(me.todo) ELSE Batch
        sent == SubSeq(me.todo, 1, n)
        rest == SubSeq(me.todo, n + 1, Len(me.todo))
    IN /\ me.step = "create"
       /\ \/ /\ body' = body \o sent
             /\ stamp' = [stamp EXCEPT ![me.save] = versionOf[me.save]]
             /\ \/ /\ IF rest = <<>> THEN EndSave(w) ELSE Set(w, [me EXCEPT !.todo = rest])
                   /\ UNCHANGED <<faultsLeft, torn>>
                \/ FailSave(w) /\ torn' = (torn \/ rest # <<>>)
          \/ /\ FailSave(w) /\ torn' = (torn \/ StartOf(me.save) \in Range(body))
             /\ UNCHANGED <<body, stamp>>
       /\ UNCHANGED <<latest, versionOf, skips, started, overlapped>>

\* appendBlocks after the start marker: the last batch first, all after the same block.
InsertAfter(s, b, blocks) ==
    LET i == CHOOSE j \in DOMAIN s : s[j] = b
    IN SubSeq(s, 1, i) \o blocks \o SubSeq(s, i + 1, Len(s))

AllInserted(rest) == rest = <<>>

\* A failed batch ends the save: the old lines stay.
CarryOn(w) == faultsLeft > 0 /\ faultsLeft' = faultsLeft - 1 /\ Set(w, [writers[w] EXCEPT !.step = "delete"])
InsertFails(w) == FailSave(w)

Insert(w) ==
    LET me == writers[w]
        n == IF Len(me.todo) % Batch = 0 THEN Batch ELSE Len(me.todo) % Batch
        sent == SubSeq(me.todo, Len(me.todo) - n + 1, Len(me.todo))
        rest == SubSeq(me.todo, 1, Len(me.todo) - n)
    IN /\ me.step = "insert"
       /\ \/ /\ me.anchor \in Range(body)
             /\ body' = InsertAfter(body, me.anchor, sent)
             /\ \/ /\ Set(w, [me EXCEPT !.todo = rest, !.step = IF AllInserted(rest) THEN "delete" ELSE @])
                   /\ UNCHANGED faultsLeft
                \/ InsertFails(w)
          \/ /\ me.anchor \notin Range(body)          \* the API refuses an unknown anchor
             /\ EndSave(w) /\ UNCHANGED <<body, faultsLeft>>
          \/ InsertFails(w) /\ UNCHANGED body
       /\ UNCHANGED <<stamp, latest, versionOf, skips, started, torn, overlapped>>

\* deleteBlocks: in any order, three at a time; a block already gone is no failure,
\* and after one that could not be deleted the others still are.
DeleteOld(w) ==
    LET me == writers[w]
    IN /\ me.step = "delete"
       /\ \/ \E b \in me.old :
                \/ /\ body' = SelectSeq(body, LAMBDA x : x # b)
                   /\ Set(w, [me EXCEPT !.old = @ \ {b}])
                   /\ UNCHANGED faultsLeft
                \/ /\ faultsLeft > 0 /\ faultsLeft' = faultsLeft - 1
                   /\ Set(w, [me EXCEPT !.old = @ \ {b}, !.kept = TRUE])
                   /\ UNCHANGED body
          \/ /\ me.old = {}
             /\ IF me.kept THEN EndSave(w) ELSE Set(w, [me EXCEPT !.step = "stamp"])
             /\ UNCHANGED <<body, faultsLeft>>
       /\ UNCHANGED <<stamp, latest, versionOf, skips, started, torn, overlapped>>

\* The start marker's timestamp, last.
Stamp(w) ==
    LET me == writers[w]
    IN /\ me.step = "stamp"
       /\ \/ /\ stamp' = IF me.anchor \in Range(body)
                         THEN [stamp EXCEPT ![me.anchor.save] = versionOf[me.save]] ELSE stamp
             /\ EndSave(w) /\ UNCHANGED faultsLeft
          \/ FailSave(w) /\ UNCHANGED stamp
       /\ UNCHANGED <<body, latest, versionOf, skips, started, torn, overlapped>>

\* The process dies between two requests.
Crash(w) ==
    /\ writers[w].step # "idle"
    /\ FailSave(w)
    /\ torn' = (torn \/ (writers[w].step = "create" /\ StartOf(writers[w].save) \in Range(body)))
    /\ UNCHANGED <<body, stamp, latest, versionOf, skips, started, overlapped>>

\* A person adds a block at the end of the page, below every range (a block added while
\* a range is still being appended would lie inside it).
AddNote ==
    LET n == Cardinality({i \in DOMAIN body : body[i].kind = "note"})
    IN /\ n < MaxNotes /\ started > 0
       /\ \A w \in Writers : writers[w].step = "create" => StartOf(writers[w].save) \notin Range(body)
       /\ body' = Append(body, Note(n + 1))
       /\ UNCHANGED <<stamp, writers, latest, versionOf, skips, started, faultsLeft, torn, overlapped>>

MarkerNext ==
    \/ \E w \in Writers :
          \/ BeginSave(w) \/ Read(w) \/ Create(w) \/ Insert(w) \/ DeleteOld(w) \/ Stamp(w) \/ Crash(w)
    \/ AddNote

MarkerSpec == MarkerInit /\ [][MarkerNext]_rangeVars

-----------------------------------------------------------------------------
(* Properties.                                                             *)

\* The saves whose lines the range holds, all of them and in order.
HeldTexts ==
    IF ~HasRange THEN {}
    ELSE LET inner == Inner
         IN {n \in Saves : SelectSeq(inner, LAMBDA b : b.save = n /\ b.kind = "line") = Text(n)}

\* Once the range holds the text of a save, every later state holds the text of one in
\* full, whatever fails, crashes or overlaps ("worst case old + new appear together",
\* notion/tools.js:151-152).
RangePromise == INSTANCE RangeContent WITH held <- HeldTexts
KeepsAText == RangePromise!RangeSpec

\* A save that is skipped as up to date finds its version's text in the range: no failed
\* or half-done save makes a retry be skipped (notion/tools.js:152-153).
SkipIsBacked ==
    [][\A w \in Writers :
          writers[w].step = "read" /\ writers'[w].step = "idle" /\ faultsLeft' = faultsLeft
             /\ ~overlapped /\ ~torn
          => \E n \in HeldTexts : versionOf[n] = versionOf[writers[w].save]]_rangeVars

\* Nothing a person adds after the range is deleted, unless a save left a start marker
\* without its end.
NotesKept ==
    [][~torn' => \A i \in 1 .. MaxNotes : Note(i) \in Range(body) => Note(i) \in Range(body')]_rangeVars

\* A range is replaced without loss: of its text, of the save that a retry would skip, or of
\* the notes around it.
RangeSound == KeepsAText /\ SkipIsBacked /\ NotesKept
=============================================================================
