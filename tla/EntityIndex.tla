---------------------------- MODULE EntityIndex ----------------------------
(***************************************************************************)
(* Notion pages tracked by an entity_id, and the Entity Index database     *)
(* that maps an entity_id to its page (src/connectors/notion/tools.js,     *)
(* src/connectors/notion/client.js).                                       *)
(*                                                                         *)
(* A page carries its entity_id in a marker block; a row of the index      *)
(* holds entity_id and page id.  Notion has no unique constraint, so       *)
(* notion_create looks the entity up, creates the page, looks again,       *)
(* writes the row and finally compares every row of the entity: the oldest *)
(* one wins and the others archive their own page.  Each step below is one *)
(* Notion request; requests of several callers interleave, callers of one  *)
(* process share the per-entity lock, and a request may fail, with or      *)
(* without having been applied.                                            *)
(***************************************************************************)
EXTENDS Integers, FiniteSets, FiniteSetsExt

CONSTANTS
    Callers,        \* tool calls that may be in flight at the same time
    Processes,      \* server instances; the lock is local to one of them
    Entities,       \* entity_ids
    MaxPages,       \* bound: pages ever created
    MaxRows,        \* bound: index rows ever created
    IndexBudget     \* bound: failures, crashes and other operations

ASSUME IndexAssumption ==
    /\ MaxPages \in Nat \ {0}
    /\ MaxRows \in Nat \ {0}
    /\ IndexBudget \in [fault : Nat, crash : Nat, op : Nat]

VARIABLES
    pages,          \* page id -> its state in Notion and its entity marker
    rows,           \* row id -> its state, entity and page; ids in creation order
    calls,          \* caller -> the call it runs
    home,           \* caller -> the process it runs in
    told,           \* entities some create answered for as tracked
    indexLeft       \* what is left of the budget

indexVars == <<pages, rows, calls, home, told, indexLeft>>

Pages == 1 .. MaxPages
Rows  == 1 .. MaxRows
None  == 0
States == {"none", "live", "archived"}

Steps == {"find", "look", "make", "refind", "relook", "yield", "query", "point",
          "rank", "rowsOf", "dropRows", "dropPage"}

IdleCall == [op |-> "none", step |-> "find", entity |-> CHOOSE e \in Entities : TRUE,
             mine |-> None, target |-> None, losing |-> {}, partial |-> FALSE]

IndexTypeOK ==
    /\ pages \in [Pages -> [state : States, entity : Entities]]
    /\ rows \in [Rows -> [state : States, entity : Entities, page : Pages \cup {None}]]
    /\ calls \in [Callers -> [op : {"none", "create", "archive", "restore", "retag", "backfill"},
                              step : Steps, entity : Entities, mine : Pages \cup {None},
                              target : Nat, losing : SUBSET Rows, partial : BOOLEAN]]
    /\ home \in [Callers -> Processes]
    /\ told \subseteq Entities
    /\ indexLeft \in [fault : Nat, crash : Nat, op : Nat]

IndexInit ==
    /\ pages = [p \in Pages |-> [state |-> "none", entity |-> IdleCall.entity]]
    /\ rows = [r \in Rows |-> [state |-> "none", entity |-> IdleCall.entity, page |-> None]]
    /\ calls = [c \in Callers |-> IdleCall]
    /\ home \in [Callers -> Processes]
    /\ told = {}
    /\ indexLeft = IndexBudget

-----------------------------------------------------------------------------
(* What a query of the index and a read of a page return.                  *)

LivePagesOf(e) == {p \in Pages : pages[p].state = "live" /\ pages[p].entity = e}
LiveRowsOf(e)  == {r \in Rows : rows[r].state = "live" /\ rows[r].entity = e}
RowsPointingAt(p) == {r \in Rows : rows[r].state = "live" /\ rows[r].page = p}
PageLive(p) == p # None /\ pages[p].state = "live"

\* Some row a page_size 1 query may return: the query states no order.
AnyRow(R) == IF R = {} THEN {None} ELSE R

FreshPage == CHOOSE p \in Pages : pages[p].state = "none" /\ \A q \in 1 .. p - 1 : pages[q].state # "none"
FreshRow  == CHOOSE r \in Rows : rows[r].state = "none" /\ \A q \in 1 .. r - 1 : rows[q].state # "none"

\* withLock(`notion-create:${entity_id}`): one create per entity in a process.
NeverLocked(c, e) == FALSE
CreateLocked(c, e) ==
    \E d \in Callers \ {c} : home[d] = home[c] /\ calls[d].op = "create" /\ calls[d].entity = e

CallAt(c, step) == calls[c].op # "none" /\ calls[c].step = step
CallGoto(c, step) == calls' = [calls EXCEPT ![c].step = step]
EndCall(c) == calls' = [calls EXCEPT ![c] = IdleCall]

\* A request that fails: the budget says how many may.
Fail == indexLeft.fault > 0 /\ indexLeft' = [indexLeft EXCEPT !.fault = @ - 1]
Answered == UNCHANGED indexLeft

-----------------------------------------------------------------------------
(* Starting a call.                                                        *)

\* Pages and rows left for a new call, counting those calls in flight may still create.
Unmade == Cardinality({p \in Pages : pages[p].state = "none"})
          - Cardinality({c \in Callers : calls[c].op = "create" /\ calls[c].mine = None})
RoomForRow == Cardinality({r \in Rows : rows[r].state = "none"})
          > Cardinality({c \in Callers : calls[c].op # "none"})

\* notion_create with an entity_id, once it holds the lock.
BeginCreate(c) ==
    /\ calls[c].op = "none" /\ Unmade > 0 /\ RoomForRow
    /\ \E e \in Entities :
          /\ ~CreateLocked(c, e)
          /\ calls' = [calls EXCEPT ![c] = [IdleCall EXCEPT !.op = "create", !.entity = e]]
    /\ UNCHANGED <<pages, rows, home, told, indexLeft>>

\* The other operations on a page p; none takes the lock.
Running(op, p, e, step) ==
    [IdleCall EXCEPT !.op = op, !.mine = p, !.entity = e, !.step = step]

\* archived: true -- the page first, then its rows.
Archive(c, p) ==
    /\ pages[p].state = "live"
    /\ pages' = [pages EXCEPT ![p].state = "archived"]
    /\ calls' = [calls EXCEPT ![c] = Running("archive", p, IdleCall.entity, "rowsOf")]

\* archived: false -- the page, then the row of its marker's entity unless another live page has it.
Restore(c, p) ==
    /\ pages[p].state = "archived"
    /\ pages' = [pages EXCEPT ![p].state = "live"]
    /\ calls' = [calls EXCEPT ![c] = Running("restore", p, pages[p].entity, "find")]

\* entity_id: e -- the marker, then the row of e; the old entity_id's row stays.
Retag(c, p) ==
    /\ pages[p].state = "live"
    /\ \E e \in Entities :
          /\ pages' = [pages EXCEPT ![p].entity = e]
          /\ calls' = [calls EXCEPT ![c] = Running("retag", p, e, "query")]

\* A page that carries its marker is entered into the index, unless its entity_id has a row.
Backfill(c, p) ==
    /\ pages[p].state = "live"
    /\ calls' = [calls EXCEPT ![c] = Running("backfill", p, pages[p].entity, "find")]
    /\ UNCHANGED pages

\* A person archives the page in Notion: no row changes.
ArchivedByHand(p) ==
    /\ pages[p].state = "live"
    /\ pages' = [pages EXCEPT ![p].state = "archived"]
    /\ UNCHANGED calls

BeginOther(c) ==
    /\ calls[c].op = "none" /\ indexLeft.op > 0 /\ RoomForRow
    /\ indexLeft' = [indexLeft EXCEPT !.op = @ - 1]
    /\ \E p \in Pages : Archive(c, p) \/ Restore(c, p) \/ Retag(c, p) \/ Backfill(c, p) \/ ArchivedByHand(p)
    /\ UNCHANGED <<rows, home, told>>

-----------------------------------------------------------------------------
(* findPageByEntityId: one row of the entity, then the page it names.      *)

AfterMiss(c) == IF calls[c].step \in {"find", "look"} /\ calls[c].op = "create" THEN "make" ELSE "query"

Find(c) ==
    /\ CallAt(c, "find") \/ CallAt(c, "refind")
    /\ \/ /\ \E r \in AnyRow(LiveRowsOf(calls[c].entity)) :
                calls' = [calls EXCEPT
                    ![c].target = IF r = None THEN None ELSE rows[r].page,
                    ![c].step = IF r = None THEN AfterMiss(c)
                                ELSE IF @ = "find" THEN "look" ELSE "relook"]
          /\ Answered
       \/ Fail /\ EndCall(c)
    /\ UNCHANGED <<pages, rows, home, told>>

\* A live owner ends the call; an archived one does not own its entity_id.
OwnerFound(c) ==
    /\ PageLive(calls[c].target)
    /\ (calls[c].op = "restore" \/ calls[c].step = "relook") => calls[c].target # calls[c].mine

Look(c) ==
    /\ CallAt(c, "look") \/ CallAt(c, "relook")
    /\ \/ /\ Answered
          /\ IF OwnerFound(c)
             THEN IF calls[c].step = "relook" THEN CallGoto(c, "yield") ELSE EndCall(c)
             ELSE CallGoto(c, AfterMiss(c))
       \/ Fail /\ EndCall(c)
    /\ UNCHANGED <<pages, rows, home, told>>

-----------------------------------------------------------------------------
(* notion_create from the page on.                                         *)

\* POST /pages and the later content batches.  A failed POST may have been
\* applied all the same; after a failed batch the row is still written, but
\* without the second look and without the comparison.
Make(c) ==
    /\ CallAt(c, "make")
    /\ LET made == [pages EXCEPT ![FreshPage] = [state |-> "live", entity |-> calls[c].entity]]
           carryOn(partial) ==
               calls' = [calls EXCEPT ![c].mine = FreshPage, ![c].partial = partial,
                                      ![c].step = IF partial THEN "query" ELSE "refind"]
       IN \/ Answered /\ pages' = made /\ carryOn(FALSE)
          \/ Fail /\ pages' = made /\ carryOn(TRUE)
          \/ Fail /\ pages' = made /\ EndCall(c)
          \/ Fail /\ EndCall(c) /\ UNCHANGED pages
    /\ UNCHANGED <<rows, home, told>>

\* Another create finished first: archive the page just made and report theirs.
Yield(c) ==
    /\ CallAt(c, "yield")
    /\ \/ Answered /\ pages' = [pages EXCEPT ![calls[c].mine].state = "archived"]
       \/ Fail /\ UNCHANGED pages
    /\ EndCall(c)
    /\ UNCHANGED <<rows, home, told>>

-----------------------------------------------------------------------------
(* upsertIndexRow and reconcileEntityIndex.                                *)

QueryRow(c) ==
    /\ CallAt(c, "query")
    /\ \/ /\ \E r \in AnyRow(LiveRowsOf(calls[c].entity)) :
                calls' = [calls EXCEPT ![c].target = r, ![c].step = "point"]
          /\ Answered
       \/ Fail /\ EndCall(c)
    /\ UNCHANGED <<pages, rows, home, told>>

\* The row a create or another call writes: the one the query saw, or a new one.
\* A row archived meanwhile cannot be edited, and the write reports an error.
RowWritten(c) ==
    LET r == calls[c].target
    IN IF r = None
       THEN [rows EXCEPT ![FreshRow] = [state |-> "live", entity |-> calls[c].entity, page |-> calls[c].mine]]
       ELSE [rows EXCEPT ![r].page = calls[c].mine]

PointRow(c) ==
    /\ CallAt(c, "point")
    /\ \/ /\ calls[c].target # None => rows[calls[c].target].state = "live"
          /\ \/ /\ Answered /\ rows' = RowWritten(c)
                /\ IF calls[c].op = "create" /\ ~calls[c].partial
                   THEN CallGoto(c, "rank") /\ told' = told \cup {calls[c].entity}
                   ELSE EndCall(c) /\ UNCHANGED told
             \/ Fail /\ rows' = RowWritten(c) /\ EndCall(c) /\ UNCHANGED told
       \/ /\ calls[c].target # None /\ rows[calls[c].target].state = "archived"
          /\ Answered /\ EndCall(c) /\ UNCHANGED <<rows, told>>
       \/ Fail /\ EndCall(c) /\ UNCHANGED <<rows, told>>
    /\ UNCHANGED <<pages, home>>

\* The oldest row wins, for everyone; the loser's own rows are those it saw.
Loses(c, R) == Cardinality(R) >= 2 /\ rows[Min(R)].page # calls[c].mine

Rank(c) ==
    /\ CallAt(c, "rank")
    /\ LET R == LiveRowsOf(calls[c].entity)
       IN \/ /\ Answered
             /\ IF Loses(c, R)
                THEN calls' = [calls EXCEPT ![c].losing = R \cap RowsPointingAt(calls[c].mine),
                                            ![c].step = "dropRows"]
                ELSE EndCall(c)
          \/ Fail /\ EndCall(c)
    /\ UNCHANGED <<pages, rows, home, told>>

-----------------------------------------------------------------------------
(* archiveIndexRowsForPage, and the end of a lost comparison.              *)

RowsOf(c) ==
    /\ CallAt(c, "rowsOf")
    /\ \/ Answered /\ calls' = [calls EXCEPT ![c].losing = RowsPointingAt(calls[c].mine), ![c].step = "dropRows"]
       \/ Fail /\ EndCall(c)
    /\ UNCHANGED <<pages, rows, home, told>>

\* Rows are archived one request at a time; a failure leaves the rest.
DropRow(c) ==
    /\ CallAt(c, "dropRows")
    /\ \/ \E r \in calls[c].losing :
             \/ /\ Answered /\ rows' = [rows EXCEPT ![r].state = "archived"]
                /\ calls' = [calls EXCEPT ![c].losing = @ \ {r}]
             \/ Fail /\ EndCall(c) /\ UNCHANGED rows
       \/ /\ calls[c].losing = {} /\ Answered /\ UNCHANGED rows
          /\ IF calls[c].op = "create" THEN CallGoto(c, "dropPage") ELSE EndCall(c)
    /\ UNCHANGED <<pages, home, told>>

DropPage(c) ==
    /\ CallAt(c, "dropPage")
    /\ \/ Answered /\ pages' = [pages EXCEPT ![calls[c].mine].state = "archived"]
       \/ Fail /\ UNCHANGED pages
    /\ EndCall(c)
    /\ UNCHANGED <<rows, home, told>>

\* An instance dies: its calls end where they are and its locks are gone.
CrashProcess(q) ==
    /\ indexLeft.crash > 0
    /\ \E c \in Callers : home[c] = q /\ calls[c].op # "none"
    /\ indexLeft' = [indexLeft EXCEPT !.crash = @ - 1]
    /\ calls' = [c \in Callers |-> IF home[c] = q THEN IdleCall ELSE calls[c]]
    /\ UNCHANGED <<pages, rows, home, told>>

IndexNext ==
    \/ \E c \in Callers :
          \/ BeginCreate(c) \/ BeginOther(c) \/ Find(c) \/ Look(c) \/ Make(c) \/ Yield(c)
          \/ QueryRow(c) \/ PointRow(c) \/ Rank(c) \/ RowsOf(c) \/ DropRow(c) \/ DropPage(c)
    \/ \E q \in Processes : CrashProcess(q)

IndexSpec == IndexInit /\ [][IndexNext]_indexVars

-----------------------------------------------------------------------------
(* Properties.                                                             *)

Spent == IndexBudget.fault - indexLeft.fault + IndexBudget.crash - indexLeft.crash
OneProcess == \A c, d \in Callers : home[c] = home[d]
OnlyCreates == indexLeft.op = IndexBudget.op

\* While all callers share one process, the lock and the lookups leave at most one
\* live page per entity_id, and one more for each failed request, crash or other
\* operation: no interleaving of concurrent creates adds one by itself.
DuplicatesAccounted ==
    OneProcess => \A e \in Entities :
        Cardinality(LivePagesOf(e)) <= 1 + Spent + IndexBudget.op - indexLeft.op

\* Whatever races, failures and crashes the creates of several instances met, an
\* entity_id that was recorded stays findable: its oldest row leads to a live page.
\* Two losing creates never archive each other's page.
RecordedStaysFindable ==
    OnlyCreates => \A e \in told :
        LiveRowsOf(e) # {} /\ PageLive(rows[Min(LiveRowsOf(e))].page)

\* The index leads to one page per entity_id, and to a live one.
IndexSound == DuplicatesAccounted /\ RecordedStaysFindable
=============================================================================
