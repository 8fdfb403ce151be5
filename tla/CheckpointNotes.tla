-------------------------- MODULE CheckpointNotes --------------------------
(***************************************************************************)
(* The checkpoint tool: notes saved under keys, parked under another key,  *)
(* brought back, edited and appended to (doCheckpoint, retireParkedKey,    *)
(* readCheckpointNotesWithPage in src/connectors/notion/tools.js).         *)
(*                                                                         *)
(* A key names a page through its index row; the page's marked range holds *)
(* the notes.  A save inserts its notes before it deletes the old ones     *)
(* (module MarkerRange), so a range is a set of notes each save wrote,     *)
(* and a read returns all of them.  One session works at a time; any       *)
(* request of it may fail and it may die between two requests.             *)
(***************************************************************************)
EXTENDS Integers, FiniteSets

CONSTANTS
    Latest,         \* the key "checkpoint-latest"
    Others,         \* the other keys
    MaxTexts,       \* bound: pieces of text users write
    MaxNotePages,   \* bound: pages that may hold notes
    MaxOps,         \* bound: calls
    NoteFaults      \* bound: failed requests and crashes

ASSUME NotesAssumption ==
    /\ Latest \notin Others
    /\ MaxNotePages \in Nat \ {0} /\ MaxTexts \in Nat /\ MaxTexts >= MaxNotePages
    /\ MaxOps \in Nat /\ NoteFaults \in Nat

VARIABLES
    index,          \* key -> the page its index row names
    notePages,      \* page -> its state and the notes in its range
    session,        \* the call that runs
    kept,           \* texts the user was told are saved, and did not ask to replace
    used,           \* texts used so far
    opsLeft,
    notesFaultsLeft,
    indexFailed     \* an index row could not be written

noteVars == <<index, notePages, session, kept, used, opsLeft, notesFaultsLeft, indexFailed>>

Texts == 1 .. MaxTexts
NotePages == 1 .. MaxNotePages
NoNotePage == 0
NoteKeys == {Latest} \cup Others
IdleSession == [op |-> "none", step |-> "read", key |-> Latest, to |-> Latest, page |-> NoNotePage,
                text |-> {}, source |-> NoNotePage, dropped |-> {}, old |-> {}]

\* The pieces of text on a page, over all the saves whose notes it holds.
TextOn(p) == IF p = NoNotePage \/ notePages[p].state # "live" THEN {} ELSE UNION notePages[p].range
\* What a load of some key shows.
Readable == UNION {TextOn(index[k]) : k \in NoteKeys}

NotesTypeOK ==
    /\ index \in [NoteKeys -> NotePages \cup {NoNotePage}]
    /\ \A p \in NotePages : /\ notePages[p].state \in {"none", "live", "archived"}
                            /\ notePages[p].range \subseteq SUBSET Texts
    /\ session.op \in {"none", "save", "append", "edit", "park", "unpark"}
    /\ session.step \in {"read", "find", "make", "row", "insert", "delete", "stamp",
                         "same", "blank", "retire", "dropPage", "dropRow"}
    /\ session.key \in NoteKeys /\ session.to \in NoteKeys
    /\ kept \subseteq Texts /\ used \in 0 .. MaxTexts
    /\ opsLeft \in 0 .. MaxOps /\ notesFaultsLeft \in 0 .. NoteFaults

\* Some keys hold notes; two keys may name one page (notion_update sets an entity_id freely).
NotesInit ==
    /\ index \in [NoteKeys -> NotePages \cup {NoNotePage}]
    /\ LET named == {p \in NotePages : \E k \in NoteKeys : index[k] = p}
       IN /\ \A p \in named : p = 1 \/ p - 1 \in named
          /\ notePages = [p \in NotePages |->
                 IF p \in named THEN [state |-> "live", range |-> {{p}}] ELSE [state |-> "none", range |-> {}]]
          /\ used = Cardinality(named)
    /\ kept = Readable
    /\ session = IdleSession
    /\ opsLeft = MaxOps
    /\ notesFaultsLeft = NoteFaults
    /\ indexFailed = FALSE

-----------------------------------------------------------------------------
SessionAt(step) == session.op # "none" /\ session.step = step
SessionGoto(step) == session' = [session EXCEPT !.step = step]
EndSession == session' = IdleSession
Fails == notesFaultsLeft > 0 /\ notesFaultsLeft' = notesFaultsLeft - 1
Works == UNCHANGED notesFaultsLeft
Aborts == Fails /\ EndSession

\* findPageByEntityId, an archived page counting as missing.
LivePage(k) == IF index[k] # NoNotePage /\ notePages[index[k]].state = "live" THEN index[k] ELSE NoNotePage

\* A call with its arguments.  A save gives up what its key held; an edit the text it replaces.
BeginNotes ==
    /\ session.op = "none" /\ opsLeft > 0
    /\ opsLeft' = opsLeft - 1
    /\ \/ \E k \in NoteKeys : LET t == used + 1 IN
             /\ t \in Texts /\ used' = t
             /\ session' = [IdleSession EXCEPT !.op = "save", !.step = "find", !.key = k, !.to = k, !.text = {t}]
             /\ kept' = kept \ TextOn(LivePage(k))
       \/ \E k \in NoteKeys, op \in {"append", "edit"} : LET t == used + 1 IN
             /\ t \in Texts /\ used' = t
             /\ session' = [IdleSession EXCEPT !.op = op, !.key = k, !.to = k, !.text = {t}]
             /\ UNCHANGED kept
       \/ \E k \in NoteKeys : \E to \in NoteKeys \ {k} :
             /\ session' = [IdleSession EXCEPT !.op = "park", !.key = k, !.to = to]
             /\ kept' = (kept \ TextOn(LivePage(to))) \cup (kept \cap TextOn(LivePage(k)))
             /\ UNCHANGED used
       \/ \E k \in Others :
             /\ session' = [IdleSession EXCEPT !.op = "unpark", !.key = k, !.to = Latest]
             /\ kept' = (kept \ TextOn(LivePage(Latest))) \cup (kept \cap TextOn(LivePage(k)))
             /\ UNCHANGED used
    /\ UNCHANGED <<index, notePages, notesFaultsLeft, indexFailed>>

\* readCheckpointNotesWithPage: no page, nothing done; otherwise the text to save.
ReadNotes ==
    /\ SessionAt("read")
    /\ \/ /\ Works
          /\ LET p == LivePage(session.key)
                 save(text, gone) == session' = [session EXCEPT !.step = "find", !.text = text,
                                                                !.source = p, !.dropped = gone]
             IN IF p = NoNotePage THEN EndSession /\ UNCHANGED kept
                ELSE \/ session.op = "append" /\ save(TextOn(p) \cup session.text, {}) /\ UNCHANGED kept
                     \/ session.op \in {"park", "unpark"} /\ save(TextOn(p), {}) /\ UNCHANGED kept
                     \/ session.op = "edit" /\ TextOn(p) = {} /\ EndSession /\ UNCHANGED kept
                     \/ /\ session.op = "edit"
                        /\ \E x \in TextOn(p) :
                              save((TextOn(p) \ {x}) \cup session.text, {x}) /\ kept' = kept \ {x}
       \/ Aborts /\ UNCHANGED kept
    /\ UNCHANGED <<index, notePages, used, opsLeft, indexFailed>>

-----------------------------------------------------------------------------
(* The save of session.text under session.to.                              *)

FindKey ==
    /\ SessionAt("find")
    /\ \/ /\ Works
          /\ LET p == LivePage(session.to)
             IN session' = [session EXCEPT !.step = IF p = NoNotePage THEN "make" ELSE "insert", !.page = p,
                                           !.old = IF p = NoNotePage THEN {} ELSE notePages[p].range]
       \/ Aborts
    /\ UNCHANGED <<index, notePages, kept, used, opsLeft, indexFailed>>

\* What follows a save, and the user's being told.
AfterSave ==
    /\ kept' = kept \cup session.text
    /\ session' = IF session.op = "park" /\ session.key = Latest THEN [session EXCEPT !.step = "same"]
                  ELSE IF session.op = "unpark" THEN [session EXCEPT !.step = "retire"]
                  ELSE IdleSession

\* doCreatePage: a page under the key's name.
MakePage ==
    /\ SessionAt("make")
    /\ \/ \E p \in NotePages :
             /\ notePages[p].state = "none" /\ \A q \in 1 .. p - 1 : notePages[q].state # "none"
             /\ notePages' = [notePages EXCEPT ![p] = [state |-> "live", range |-> {session.text}]]
             /\ \/ Works /\ session' = [session EXCEPT !.step = "row", !.page = p]
                \/ Aborts
       \/ Aborts /\ UNCHANGED notePages
       \/ /\ \A p \in NotePages : notePages[p].state # "none"
          /\ EndSession /\ Works /\ UNCHANGED notePages              \* bound: no page left
    /\ UNCHANGED <<index, kept, used, opsLeft, indexFailed>>

\* upsertIndexRow: a failure is handed back as indexError, which doCheckpoint does not look at.
WriteRow ==
    /\ SessionAt("row")
    /\ \/ Works /\ index' = [index EXCEPT ![session.to] = session.page] /\ UNCHANGED indexFailed
       \/ Fails /\ indexFailed' = TRUE /\ UNCHANGED index
    /\ AfterSave
    /\ UNCHANGED <<notePages, used, opsLeft>>

\* swapRangeContent: the new notes first ...
InsertNotes ==
    /\ SessionAt("insert")
    /\ \/ Works /\ notePages' = [notePages EXCEPT ![session.page].range = @ \cup {session.text}] /\ SessionGoto("delete")
       \/ Aborts /\ UNCHANGED notePages
    /\ UNCHANGED <<index, kept, used, opsLeft, indexFailed>>

\* ... then the blocks it had read go (equal text just inserted stays) ...
DeleteNotes ==
    /\ SessionAt("delete")
    /\ \/ /\ Works /\ SessionGoto("stamp")
          /\ notePages' = [notePages EXCEPT ![session.page].range = (@ \ session.old) \cup {session.text}]
       \/ /\ Aborts
          /\ \E gone \in SUBSET session.old :
                notePages' = [notePages EXCEPT ![session.page].range = (@ \ gone) \cup {session.text}]
    /\ UNCHANGED <<index, kept, used, opsLeft, indexFailed>>

\* ... and the timestamp last.
StampNotes ==
    /\ SessionAt("stamp")
    /\ \/ Works /\ AfterSave
       \/ Aborts /\ UNCHANGED kept
    /\ UNCHANGED <<index, notePages, used, opsLeft, indexFailed>>

-----------------------------------------------------------------------------
(* park: blank checkpoint-latest once the copy is saved.                   *)

\* Skipped when the two keys turn out to share a page.
NeverShared == FALSE
ParkShares == LivePage(session.to) = session.source

CheckShared ==
    /\ SessionAt("same")
    /\ \/ Works /\ IF ParkShares THEN EndSession ELSE SessionGoto("blank")
       \/ Aborts
    /\ UNCHANGED <<index, notePages, kept, used, opsLeft, indexFailed>>

\* replaceCheckpointRange with no lines: nothing to insert, then the old notes go.
BlankSource ==
    /\ SessionAt("blank")
    /\ \/ Works /\ notePages' = [notePages EXCEPT ![session.source].range = {}] /\ EndSession
       \/ Aborts /\ \E left \in SUBSET notePages[session.source].range :
                        notePages' = [notePages EXCEPT ![session.source].range = left]
    /\ UNCHANGED <<index, kept, used, opsLeft, indexFailed>>

-----------------------------------------------------------------------------
(* unpark: retireParkedKey.                                                *)

Retire ==
    /\ SessionAt("retire")
    /\ \/ /\ Works
          /\ LET src == LivePage(session.key)
                 sharers == {k \in NoteKeys \ {session.key} : index[k] = src}
             IN IF src = NoNotePage \/ LivePage(Latest) = src THEN EndSession
                ELSE session' = [session EXCEPT !.page = src,
                                                !.step = IF sharers = {} THEN "dropPage" ELSE "dropRow"]
       \/ Aborts
    /\ UNCHANGED <<index, notePages, kept, used, opsLeft, indexFailed>>

ArchivePage ==
    /\ SessionAt("dropPage")
    /\ \/ Works /\ notePages' = [notePages EXCEPT ![session.page].state = "archived"] /\ SessionGoto("dropRow")
       \/ Aborts /\ UNCHANGED notePages
    /\ UNCHANGED <<index, kept, used, opsLeft, indexFailed>>

ArchiveRow ==
    /\ SessionAt("dropRow")
    /\ \/ Works /\ index' = [index EXCEPT ![session.key] = NoNotePage] /\ EndSession
       \/ Aborts /\ UNCHANGED index
    /\ UNCHANGED <<notePages, kept, used, opsLeft, indexFailed>>

\* The process dies between two requests.
SessionDies ==
    /\ session.op # "none" /\ Aborts
    /\ UNCHANGED <<index, notePages, kept, used, opsLeft, indexFailed>>

NotesNext ==
    \/ BeginNotes \/ ReadNotes \/ FindKey \/ MakePage \/ WriteRow
    \/ InsertNotes \/ DeleteNotes \/ StampNotes
    \/ CheckShared \/ BlankSource \/ Retire \/ ArchivePage \/ ArchiveRow \/ SessionDies

NotesSpec == NotesInit /\ [][NotesNext]_noteVars

-----------------------------------------------------------------------------
(* Properties.                                                             *)

\* A text the user was told is saved stays readable under some key until the user asks
\* for it to be replaced, through every park, unpark, edit and append, with a failure or a
\* crash after any request and with keys that share a page: a park blanks only what was
\* copied, an unpark archives only what was restored.
SavedTextReadable == ~indexFailed => kept \subseteq Readable

=============================================================================
