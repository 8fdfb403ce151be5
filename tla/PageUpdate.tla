----------------------------- MODULE PageUpdate -----------------------------
(***************************************************************************)
(* notion_update on one page (src/connectors/notion/tools.js) and the      *)
(* page's embedding, which the worker keeps for notion_find.  One call may *)
(* ask for several edits; they are made one after the other, each by       *)
(* requests of its own, and the first that fails ends the call with what   *)
(* was done before it.  Calls overlap, people edit the page in Notion, and *)
(* a request may fail with or without having been applied.                 *)
(*                                                                         *)
(* The page is its top-level blocks, one word each, and its marker lines.  *)
(* An embedding is the text it was made from.  entity_id corrections are   *)
(* the entity index's subject.                                             *)
(***************************************************************************)
EXTENDS Naturals, Sequences, FiniteSets

CONSTANTS
    Updaters,       \* tool calls
    UpdateAsks,     \* what one call may ask for
    FirstPage,      \* the page as it starts
    UpdateBudget    \* [fault, person]: failed requests, and edits made in Notion itself

VARIABLES
    page,           \* [blocks, era, entity, status, relations, archived]
    row,            \* the embedding row: [text, fresh], fresh when written after the last edit
    update,         \* caller -> its call
    together,       \* two calls, or a call and a person, worked on the page at once
    blind,          \* a body was overwritten although the page could not be read before
    masked,         \* the row was written after an edit its text was read before
    updateLeft

pageVars == <<page, row, update, together, blind, masked, updateLeft>>

\* No embedding: no page is without blocks.
NoText == [blocks |-> <<>>, entity |-> FALSE, status |-> <<>>, relations |-> {}]

Order == <<"props", "append", "replace", "content", "updates", "status", "relations",
           "archive", "log", "embed">>

\* The parts of a call in the order it makes them.  A call that archives the page writes no
\* changelog entry and no embedding; a search embeds and does nothing else.
PartsOf(ask) == SelectSeq(Order, LAMBDA part : part \in ask.parts)

\* The text of the page: what a markdown read returns, changelog lines left out.
TextOf(p) == [blocks |-> p.blocks, entity |-> p.entity, status |-> p.status, relations |-> p.relations]

Idle == [at |-> "idle", ask |-> [parts |-> {}], todo |-> <<>>, seen |-> FirstPage, read |-> FALSE,
         next |-> 1, text |-> NoText, results |-> {}, did |-> {}, stopped |-> "no"]

PageInit ==
    /\ page = FirstPage
    /\ row = [text |-> NoText, fresh |-> FALSE]
    /\ update = [u \in Updaters |-> Idle]
    /\ together = FALSE /\ blind = FALSE /\ masked = FALSE
    /\ updateLeft = UpdateBudget

-----------------------------------------------------------------------------
Part(u) == IF update[u].at = "on" THEN Head(update[u].todo) ELSE "no"
Working(u) == update[u].at = "on"

\* The call after its part is done: its line in the results, and the next part.
Advanced(call) ==
    [call EXCEPT !.results = IF Head(call.todo) \in {"log", "embed"} THEN @ ELSE @ \cup {Head(call.todo)},
                 !.todo = Tail(@), !.read = FALSE, !.next = 1,
                 !.at = IF Len(call.todo) = 1 THEN "done" ELSE "on"]

\* An error ends it, with the results so far in the message.
Stopped(call) == [call EXCEPT !.at = "done", !.stopped = Head(call.todo), !.text = NoText]

FaultLeft == updateLeft.fault > 0
UseFault == updateLeft' = [updateLeft EXCEPT !.fault = @ - 1]

\* A request that changes the page, after which the call is `next`.  Notion refuses to edit an
\* archived page.
Writes(u, new, next) ==
    LET did == [next EXCEPT !.did = @ \cup {Part(u)}]
    IN  /\ \/ /\ ~page.archived
              /\ page' = new
              /\ row' = [row EXCEPT !.fresh = FALSE]
              /\ \/ update' = [update EXCEPT ![u] = did] /\ UNCHANGED updateLeft
                 \/ FaultLeft /\ UseFault /\ update' = [update EXCEPT ![u] = Stopped([@ EXCEPT !.did = @ \cup {Part(u)}])]
           \/ /\ page.archived \/ FaultLeft
              /\ IF page.archived THEN UNCHANGED updateLeft ELSE UseFault
              /\ update' = [update EXCEPT ![u] = Stopped(@)]
              /\ UNCHANGED <<page, row>>
        /\ UNCHANGED <<together, masked>>

\* A request that only reads.
Reads(u, next) ==
    /\ \/ update' = [update EXCEPT ![u] = next] /\ UNCHANGED updateLeft
       \/ FaultLeft /\ UseFault /\ update' = [update EXCEPT ![u] = Stopped(@)]
    /\ UNCHANGED <<page, row, together, blind, masked>>

Refuses(u) ==
    /\ update' = [update EXCEPT ![u] = Stopped(@)]
    /\ UNCHANGED <<page, row, together, blind, masked, updateLeft>>

\* What a search's lookup of the row says: there is none, or it was written before the last edit.
Outdated == ~row.fresh

\* A call starts: an update, or a search that finds the page without an embedding or with one
\* older than its last edit.
StartUpdate(u) ==
    /\ update[u].at = "idle"
    /\ \E ask \in UpdateAsks :
            /\ ask.kind = "search" => Outdated
            /\ update' = [update EXCEPT ![u] = [Idle EXCEPT !.at = "on", !.ask = ask, !.todo = PartsOf(ask)]]
    /\ together' = (together \/ \E v \in Updaters : Working(v))
    /\ UNCHANGED <<page, row, blind, masked, updateLeft>>

-----------------------------------------------------------------------------
\* title, properties or archived: false.
PatchProperties(u) ==
    /\ Part(u) = "props"
    /\ LET new == [page EXCEPT !.archived = FALSE]
       IN  \/ /\ page' = new /\ row' = [row EXCEPT !.fresh = FALSE]
              /\ update' = [update EXCEPT ![u] = Advanced([@ EXCEPT !.did = @ \cup {"props"}])]
              /\ UNCHANGED updateLeft
           \/ /\ FaultLeft /\ UseFault
              /\ update' = [update EXCEPT ![u] = Stopped(@)]
              /\ UNCHANGED <<page, row>>
    /\ UNCHANGED <<together, blind, masked>>

\* append_content, and append_markdown.
AppendBlocks(u) ==
    /\ Part(u) = "append"
    /\ Writes(u, [page EXCEPT !.blocks = @ \o update[u].ask.append], Advanced(update[u]))
    /\ UNCHANGED blind

\* replacements: the blocks are read once; each `find` must be the whole text of one of them.
Matches(blocks, find) == {i \in DOMAIN blocks : blocks[i] = find}

ReadBlocks(u) ==
    /\ Part(u) \in {"replace", "status", "relations"} /\ ~update[u].read
    /\ Reads(u, [update[u] EXCEPT !.read = TRUE, !.seen = page])

ReplaceBlock(u) ==
    LET call == update[u]
        change == call.ask.replace[call.next]
        hits == Matches(call.seen.blocks, change.find)
        i == CHOOSE k \in hits : TRUE
        next == IF call.next = Len(call.ask.replace) THEN Advanced(call) ELSE [call EXCEPT !.next = @ + 1]
    IN  /\ Part(u) = "replace" /\ call.read
        /\ IF Cardinality(hits) # 1 \/ call.seen.era # page.era
           THEN Refuses(u)
           ELSE Writes(u, [page EXCEPT !.blocks[i] = change.replace], next) /\ UNCHANGED blind

\* replace_content: the marker lines of the page as it was read are put back before the new body,
\* except those the new body brings itself.  A read that fails counts as a page without any.
KeepsAll(new, old) ==
    [entity |-> old.entity \/ new.entity, status |-> old.status \o new.status, relations |-> old.relations \cup new.relations]
Preserved(new, old) ==
    [entity |-> old.entity \/ new.entity,
     status |-> IF new.status # <<>> THEN new.status ELSE old.status,
     relations |-> old.relations \cup new.relations]

ReadMarkers(u) ==
    /\ Part(u) = "content" /\ ~update[u].read
    /\ \/ /\ update' = [update EXCEPT ![u].read = TRUE, ![u].seen = page]
          /\ UNCHANGED <<blind, updateLeft>>
       \/ /\ FaultLeft /\ UseFault
          /\ update' = [update EXCEPT ![u].read = TRUE, ![u].seen = [page EXCEPT !.entity = FALSE, !.status = <<>>, !.relations = {}]]
          /\ blind' = TRUE
    /\ UNCHANGED <<page, row, together, masked>>

ReplaceContent(u) ==
    LET body == update[u].ask.content
        kept == Preserved(body, update[u].seen)
    IN  /\ Part(u) = "content" /\ update[u].read
        /\ Writes(u, [page EXCEPT !.blocks = body.blocks, !.era = @ + 1, !.entity = kept.entity,
                                  !.status = kept.status, !.relations = kept.relations],
                  Advanced(update[u]))
        /\ UNCHANGED blind

\* content_updates: one request, in which each old_str must be on the page exactly once.
SearchReplace(u) ==
    LET change == update[u].ask.updates
        hits == Matches(page.blocks, change.find)
    IN  /\ Part(u) = "updates"
        /\ IF Cardinality(hits) # 1
           THEN Refuses(u)
           ELSE /\ Writes(u, [page EXCEPT !.blocks[CHOOSE i \in hits : TRUE] = change.replace], Advanced(update[u]))
                /\ UNCHANGED blind

\* The status marker is edited where it was seen, or added; one that has gone since cannot be.
SetStatus(u) ==
    LET call == update[u]
    IN  /\ Part(u) = "status" /\ call.read
        /\ IF call.seen.status # <<>> /\ (page.status = <<>> \/ page.era # call.seen.era)
           THEN Refuses(u)
           ELSE /\ Writes(u, IF call.seen.status # <<>> THEN [page EXCEPT !.status[1] = call.ask.status]
                             ELSE [page EXCEPT !.status = Append(@, call.ask.status)],
                          Advanced(call))
                /\ UNCHANGED blind

\* The relations seen are deleted one by one, then the new ones appended in one request.
ReplaceRelations(u) ==
    LET call == update[u]
        left == call.seen.relations
    IN  /\ Part(u) = "relations" /\ call.read
        /\ \/ \E r \in left :
                IF r \in page.relations
                THEN Writes(u, [page EXCEPT !.relations = @ \ {r}], [call EXCEPT !.seen.relations = @ \ {r}]) /\ UNCHANGED blind
                ELSE Refuses(u)
           \/ /\ left = {}
              /\ Writes(u, [page EXCEPT !.relations = @ \cup call.ask.relations], Advanced(call))
              /\ UNCHANGED blind

\* archived: true.
ArchiveUpdated(u) ==
    /\ Part(u) = "archive"
    /\ Writes(u, [page EXCEPT !.archived = TRUE], Advanced(update[u]))
    /\ UNCHANGED blind

\* The changelog entry edits the page too; its failure is a note in the results.
LogChange(u) ==
    /\ Part(u) = "log"
    /\ update' = [update EXCEPT ![u] = Advanced(@)]
    /\ \/ ~page.archived /\ row' = [row EXCEPT !.fresh = FALSE] /\ UNCHANGED updateLeft
       \/ (page.archived \/ FaultLeft) /\ UNCHANGED row
          /\ IF page.archived THEN UNCHANGED updateLeft ELSE UseFault
    /\ UNCHANGED <<page, together, blind, masked>>

\* The page is read again and its text sent to the worker, which skips a text it has and
\* otherwise computes the vector and upserts the row, now.  Failures are swallowed; whether the
\* caller still waits, or has answered and left this to the worker, makes no difference here.
ReadForEmbedding(u) ==
    /\ Part(u) = "embed" /\ ~update[u].read
    /\ \/ /\ update' = [update EXCEPT ![u].read = TRUE, ![u].text = TextOf(page)]
          /\ UNCHANGED updateLeft
       \/ FaultLeft /\ UseFault /\ update' = [update EXCEPT ![u] = Advanced(@)]
    /\ UNCHANGED <<page, row, together, blind, masked>>

SameText(u) == row.text = update[u].text

\* The request to the worker fails or is not answered in time: nothing is written, and nobody told.
Unanswered == FaultLeft /\ UseFault /\ UNCHANGED <<row, masked>>

EmbedPage(u) ==
    LET text == update[u].text
    IN  /\ Part(u) = "embed" /\ update[u].read
        /\ update' = [update EXCEPT ![u] = Advanced([@ EXCEPT !.text = NoText])]
        /\ \/ /\ IF SameText(u)
                 THEN UNCHANGED <<row, masked>>
                 ELSE row' = [text |-> text, fresh |-> TRUE] /\ masked' = (text # TextOf(page))
              /\ UNCHANGED updateLeft
           \/ Unanswered
    /\ UNCHANGED <<page, together, blind>>

\* A person edits the page in Notion.
PersonEdits ==
    /\ updateLeft.person > 0 /\ ~page.archived
    /\ updateLeft' = [updateLeft EXCEPT !.person = @ - 1]
    /\ page' = [page EXCEPT !.blocks = Append(@, "w")]
    /\ row' = [row EXCEPT !.fresh = FALSE]
    /\ together' = (together \/ \E u \in Updaters : Working(u))
    /\ UNCHANGED <<update, blind, masked>>

PageNext ==
    \/ PersonEdits
    \/ \E u \in Updaters :
            \/ StartUpdate(u) \/ PatchProperties(u) \/ AppendBlocks(u) \/ ReadBlocks(u) \/ ReplaceBlock(u)
            \/ ReadMarkers(u) \/ ReplaceContent(u) \/ SearchReplace(u) \/ SetStatus(u) \/ ReplaceRelations(u)
            \/ ArchiveUpdated(u) \/ LogChange(u) \/ ReadForEmbedding(u) \/ EmbedPage(u)

-----------------------------------------------------------------------------
PageTypeOK ==
    /\ page.era \in Nat /\ page.entity \in BOOLEAN /\ page.archived \in BOOLEAN
    /\ row.fresh \in BOOLEAN
    /\ \A u \in Updaters : /\ update[u].at \in {"idle", "on", "done"}
                           /\ update[u].ask \in UpdateAsks \cup {Idle.ask}
                           /\ update[u].did \cup update[u].results \subseteq {Order[i] : i \in DOMAIN Order}
    /\ updateLeft \in [fault : Nat, person : Nat]

Ended(u) == update[u].at = "done"
Undisturbed == ~together /\ updateLeft.fault = UpdateBudget.fault

\* An update that fails names in its error every edit it had made but the one that failed, and
\* one that archives the page has made all its other edits before.
ReportHonest ==
    \A u \in Updaters : Ended(u) =>
        /\ update[u].did \ update[u].results \subseteq {update[u].stopped}
        /\ update[u].results \subseteq update[u].did
        /\ "archive" \in update[u].did =>
                update[u].ask.parts \ {"log", "embed", "archive"} \subseteq update[u].did

\* The entity_id line survives every edit, unless the page could not be read before its body was
\* overwritten; and calls that do not overlap leave one status line at most, however often
\* the status or the body is set.
MarkersKept ==
    /\ ~blind => page.entity
    /\ ~together => Len(page.status) <= 1

\* An update that met no failure and no other edit leaves the embedding of the page's text as it
\* is now; and a row that a search takes for current is of that text, unless an edit came
\* between its reading and its writing.
EmbeddingKept ==
    /\ Undisturbed /\ updateLeft.person = UpdateBudget.person =>
            \A u \in Updaters : Ended(u) /\ "embed" \in update[u].ask.parts /\ update[u].stopped = "no"
                                /\ (\A v \in Updaters \ {u} : update[v].at = "idle")
                                => row.text = TextOf(page)
    /\ row.fresh /\ ~masked => row.text = TextOf(page)

\* What a page update promises.
UpdateSound == ReportHonest /\ MarkersKept /\ EmbeddingKept
=============================================================================
