----------------------------- MODULE MemorySync -----------------------------
(***************************************************************************)
(* sync_mem0_to_notion: the one-way sync from Mem0 to Notion               *)
(* (src/connectors/sync/mem0_notion.js).                                   *)
(*                                                                         *)
(* A run lists the memories page by page, gives every open memory a Notion *)
(* page with its text and status, archives the page of a superseded one,   *)
(* and in the end archives the pages whose memory is not in its list.      *)
(* Memories change and other runs move between any two requests; the time  *)
(* budget may be spent before any item; a request may fail.                *)
(***************************************************************************)
EXTENDS Integers, Sequences, FiniteSets, SequencesExt

CONSTANTS
    Runs,           \* calls of the tool that may be in flight at the same time
    MaxMemories,    \* bound: memories ever stored
    PageSize,       \* memories per listing request (100 in the code)
    ListPages,       \* listing requests (10 in the code)
    MaxVersion,     \* bound: versions of a memory
    SyncBudget      \* bound: changes of the store, failures, spent budgets, starts

ASSUME SyncAssumption ==
    /\ MaxMemories \in Nat \ {0} /\ PageSize \in Nat \ {0} /\ ListPages \in Nat \ {0}
    /\ MaxVersion \in Nat \ {0}
    /\ SyncBudget \in [change : Nat, fault : Nat, time : Nat, start : Nat]

VARIABLES
    store,          \* the memories' ids, as a listing returns them: newest first
    memo,           \* id -> key (its entity_id), version (updated_at) and status
    pageOf,         \* key -> the Notion page the Entity Index has for mem0:key
    syncs,          \* run -> where it stands
    syncLeft        \* what is left of the budget

syncVars == <<store, memo, pageOf, syncs, syncLeft>>

Ids  == 1 .. MaxMemories
MemoKeys == Ids
Statuses == {"unset", "open", "superseded"}

Memory == [id : Ids, key : MemoKeys, version : 0 .. MaxVersion, status : Statuses]
NeverMade == [state |-> "none", indexed |-> FALSE, made |-> 0, stamp |-> 0, status |-> "unset"]
IdleSync == [step |-> "idle", at |-> 1, list |-> <<>>, todo |-> <<>>, found |-> NeverMade,
             only |-> {}, truncated |-> FALSE, spent |-> FALSE, failed |-> FALSE,
             orphans |-> {}, disturbed |-> FALSE, settled |-> FALSE, wrote |-> FALSE]

SyncTypeOK ==
    /\ store \in Seq(Ids)
    /\ memo \in [Ids -> Memory]
    /\ \A k \in MemoKeys : /\ pageOf[k].state \in {"none", "live", "archived"}
                       /\ pageOf[k].stamp \in 0 .. MaxVersion /\ pageOf[k].status \in Statuses
                       /\ pageOf[k].indexed => pageOf[k].state # "none"
    /\ \A r \in Runs : /\ syncs[r].step \in {"idle", "list", "items", "archive", "create", "content",
                                             "status", "index", "orphans", "done"}
                       /\ syncs[r].list \in Seq(Memory) /\ syncs[r].todo \in Seq(Memory)
                       /\ syncs[r].orphans \subseteq MemoKeys

\* A store that has been there for some time, not yet synced.
SyncInit ==
    /\ \E n \in 0 .. MaxMemories : store = [i \in 1 .. n |-> n + 1 - i]
    /\ memo = [i \in Ids |-> [id |-> i, key |-> i, version |-> 1, status |-> "unset"]]
    /\ pageOf = [k \in MemoKeys |-> NeverMade]
    /\ syncs = [r \in Runs |-> IdleSync]
    /\ syncLeft = SyncBudget

-----------------------------------------------------------------------------
Busy(r) == syncs[r].step \notin {"idle", "done"}
KeysOf(list) == {list[i].key : i \in DOMAIN list}
KeyHolders(k) == {i \in Range(store) : memo[i].key = k}
UniqueKeys == \A k \in MemoKeys : Cardinality(KeyHolders(k)) <= 1

Spend(what) == syncLeft[what] > 0 /\ syncLeft' = [syncLeft EXCEPT ![what] = @ - 1]
Free == UNCHANGED syncLeft

\* What a run did not see happen: a change of the store, or another run's work.
Disturbed(q) == IF Busy(q) THEN [syncs[q] EXCEPT !.disturbed = TRUE] ELSE IdleSync
Move(r, rec) == syncs' = [q \in Runs |-> IF q = r THEN rec ELSE Disturbed(q)]
Writes(r, rec) == Move(r, [rec EXCEPT !.wrote = TRUE])
Disturb == syncs' = [q \in Runs |-> Disturbed(q)]
Done(s) == [s EXCEPT !.step = "done", !.at = 1, !.list = <<>>, !.todo = <<>>, !.orphans = {}]
Same == UNCHANGED <<store, memo>>

-----------------------------------------------------------------------------
(* The memories, and a person in Notion.                                   *)

AddMemory ==
    /\ Spend("change")
    /\ \E i \in Ids \ Range(store) : \E k \in {1, i} :
          /\ memo[i].version = 1
          /\ \A j \in Range(store) : j < i
          /\ store' = <<i>> \o store
          /\ memo' = [memo EXCEPT ![i].key = k]
    /\ Disturb
    /\ UNCHANGED pageOf

ChangeMemory ==
    /\ Spend("change")
    /\ \E i \in Range(store), s \in Statuses :
          /\ memo[i].version < MaxVersion
          /\ memo' = [memo EXCEPT ![i].version = @ + 1, ![i].status = s]
    /\ Disturb
    /\ UNCHANGED <<store, pageOf>>

DeleteMemory ==
    /\ Spend("change")
    /\ \E i \in Range(store) : store' = SelectSeq(store, LAMBDA j : j # i)
    /\ Disturb
    /\ UNCHANGED <<memo, pageOf>>

\* A page archived in Notion itself keeps its row in the index.
ArchivedByHand ==
    /\ Spend("change")
    /\ \E k \in MemoKeys : pageOf[k].state = "live" /\ pageOf' = [pageOf EXCEPT ![k].state = "archived"]
    /\ Disturb
    /\ Same

-----------------------------------------------------------------------------
(* listAllMemories.                                                        *)

Synced(i) == LET m == memo[i] p == pageOf[m.key]
             IN IF m.status = "superseded" THEN p.state # "live"
                ELSE \/ /\ p.state = "live" /\ p.stamp = m.version
                        /\ m.status = "unset" \/ p.status = m.status
                     \/ p.state = "archived" /\ p.indexed

\* A run over everything, or with entity_ids (one key stands for the filter).
StartSync(r) ==
    /\ ~Busy(r) /\ Spend("start")
    /\ \E only \in {{}, {1}} :
          Move(r, [IdleSync EXCEPT !.step = "list", !.only = only,
                      !.disturbed = \E q \in Runs \ {r} : Busy(q),
                      !.settled = \E q \in Runs : /\ syncs[q].step = "done" /\ ~syncs[q].disturbed
                                                  /\ ~syncs[q].spent /\ ~syncs[q].truncated
                                                  /\ ~syncs[q].failed /\ syncs[q].only = {}])
    /\ UNCHANGED pageOf /\ Same

ListingPage(n) == SubSeq(store, (n - 1) * PageSize + 1,
                         IF n * PageSize < Len(store) THEN n * PageSize ELSE Len(store))

Chosen(only, list) == IF only = {} THEN list ELSE SelectSeq(list, LAMBDA m : m.key \in only)

\* The list counts as truncated as soon as the last page allowed holds something new.
ListMemories(r) ==
    LET s == syncs[r]
        known == {s.list[i].id : i \in DOMAIN s.list}
        new == SelectSeq(ListingPage(s.at), LAMBDA i : i \notin known)
        list == s.list \o [i \in DOMAIN new |-> memo[new[i]]]
        go(l, cut) == [s EXCEPT !.list = Chosen(s.only, l), !.todo = Chosen(s.only, l),
                                !.truncated = cut, !.step = "items"]
    IN /\ s.step = "list"
       /\ \/ Free /\ new = <<>> /\ Move(r, go(s.list, FALSE))
          \/ Free /\ new # <<>> /\ s.at < ListPages /\ Move(r, [s EXCEPT !.list = list, !.at = @ + 1])
          \/ Free /\ new # <<>> /\ s.at = ListPages /\ Move(r, go(list, TRUE))
          \/ Spend("fault") /\ Move(r, IdleSync)
       /\ UNCHANGED pageOf /\ Same

-----------------------------------------------------------------------------
(* syncOneMemory.                                                          *)

Item(r) == Head(syncs[r].todo)
ItemPage(r) == pageOf[Item(r).key]
DropItem(r) == [syncs[r] EXCEPT !.todo = Tail(@), !.step = "items", !.found = NeverMade]
ItemDone(r) == Move(r, DropItem(r))
ItemWritten(r) == Writes(r, DropItem(r))
ItemFails(r) == Spend("fault") /\ Move(r, [DropItem(r) EXCEPT !.failed = TRUE])
ItemGoto(r, step) == Move(r, [syncs[r] EXCEPT !.step = step, !.found = ItemPage(r)])

\* findPageByEntityId sees what the index leads to, archived or not.
StartItem(r) ==
    /\ syncs[r].step = "items" /\ syncs[r].todo # <<>>
    /\ LET p == ItemPage(r)
           old == Item(r).status = "superseded"
       IN \/ Free /\ old /\ ~(p.indexed /\ p.state = "live") /\ ItemDone(r)
          \/ Free /\ old /\ p.indexed /\ p.state = "live" /\ ItemGoto(r, "archive")
          \/ Free /\ ~old /\ p.indexed /\ p.state = "archived" /\ ItemDone(r)
          \/ Free /\ ~old /\ ~p.indexed /\ ItemGoto(r, "create")
          \/ Free /\ ~old /\ p.indexed /\ p.state = "live" /\ ItemGoto(r, "content")
          \/ ItemFails(r)
    /\ UNCHANGED pageOf /\ Same

\* The budget is looked at before an item, never within one.
OutOfTime(r) ==
    /\ syncs[r].step = "items" /\ syncs[r].todo # <<>>
    /\ Spend("time")
    /\ Move(r, [syncs[r] EXCEPT !.spent = TRUE, !.todo = <<>>])
    /\ UNCHANGED pageOf /\ Same

\* doUpdatePage archived: the page first, then its row; already archived is no failure.
Archived(p, rowToo) == [p EXCEPT !.state = "archived", !.indexed = ~rowToo]

ArchiveSuperseded(r) ==
    /\ syncs[r].step = "archive"
    /\ LET k == Item(r).key
           gone == pageOf[k].state # "live" \/ pageOf[k].made # syncs[r].found.made
       IN \/ Free /\ gone /\ ItemDone(r) /\ UNCHANGED pageOf
          \/ Free /\ ~gone /\ pageOf' = [pageOf EXCEPT ![k] = Archived(@, TRUE)] /\ ItemWritten(r)
          \/ ItemFails(r) /\ ~gone /\ pageOf' = [pageOf EXCEPT ![k] = Archived(@, FALSE)]
          \/ ItemFails(r) /\ UNCHANGED pageOf
    /\ Same

\* doCreatePage: when another run was first, that run's page is written instead.
CreateForItem(r) ==
    /\ syncs[r].step = "create"
    /\ LET k == Item(r).key
           raced == pageOf[k].indexed /\ pageOf[k].state = "live"
           made == [state |-> "live", indexed |-> TRUE, made |-> pageOf[k].made + 1,
                    stamp |-> 0, status |-> Item(r).status]
           on(p) == [syncs[r] EXCEPT !.step = "content", !.found = [p EXCEPT !.state = "none"]]
       IN \/ Free /\ raced /\ Move(r, on(pageOf[k])) /\ UNCHANGED pageOf
          \/ Free /\ ~raced /\ pageOf' = [pageOf EXCEPT ![k] = made] /\ Writes(r, on(made))
          \/ ItemFails(r) /\ ~raced /\ pageOf' = [pageOf EXCEPT ![k] = made]
          \/ ItemFails(r) /\ UNCHANGED pageOf
    /\ Same

\* replaceSyncedRange: nothing when the stamp is the memory's; the stamp comes last.
UpToDate(r) == ItemPage(r).stamp = Item(r).version
StampWritten(r) == [pageOf EXCEPT ![Item(r).key].stamp = Item(r).version]

\* The page was found, or it was just made (then its status is already set).
WriteContent(r) ==
    /\ syncs[r].step = "content"
    /\ LET gone == ItemPage(r).state # "live" \/ ItemPage(r).made # syncs[r].found.made
           next == IF syncs[r].found.state = "none" THEN DropItem(r)
                   ELSE [syncs[r] EXCEPT !.step = "status"]
       IN \/ /\ Free /\ gone /\ UNCHANGED pageOf
             /\ Move(r, [DropItem(r) EXCEPT !.failed = TRUE])
          \/ Free /\ ~gone /\ UpToDate(r) /\ Move(r, next) /\ UNCHANGED pageOf
          \/ Free /\ ~gone /\ ~UpToDate(r) /\ Writes(r, next) /\ pageOf' = StampWritten(r)
          \/ ItemFails(r) /\ UNCHANGED pageOf
    /\ Same

\* Status (relations alike) only when it differs from what was found; unset never counts.
StatusIgnored(r) == FALSE
StatusChanged(r) == Item(r).status # "unset" /\ syncs[r].found.status # Item(r).status

WriteStatus(r) ==
    /\ syncs[r].step = "status"
    /\ LET gone == ItemPage(r).state # "live" \/ ItemPage(r).made # syncs[r].found.made
       IN \/ Free /\ ~StatusChanged(r) /\ ItemDone(r) /\ UNCHANGED pageOf
          \/ /\ Free /\ StatusChanged(r) /\ gone /\ UNCHANGED pageOf
             /\ Move(r, [DropItem(r) EXCEPT !.failed = TRUE])
          \/ /\ Free /\ StatusChanged(r) /\ ~gone /\ ItemWritten(r)
             /\ pageOf' = [pageOf EXCEPT ![Item(r).key].status = Item(r).status]
          \/ ItemFails(r) /\ UNCHANGED pageOf
    /\ Same

-----------------------------------------------------------------------------
(* The hard-deletion pass.                                                 *)

\* entity_ids: a partial list cannot tell deleted memories from those not asked for.
Filtered(s) == s.only # {}

EndItems(r) ==
    /\ syncs[r].step = "items" /\ syncs[r].todo = <<>>
    /\ Free
    /\ Move(r, IF Filtered(syncs[r]) THEN Done(syncs[r]) ELSE [syncs[r] EXCEPT !.step = "index"])
    /\ UNCHANGED pageOf /\ Same

Indexed == {k \in MemoKeys : pageOf[k].indexed}

\* A list that may be incomplete says nothing about what was deleted.
TrustsCapped(s) == s.spent \/ (s.list = <<>> /\ Indexed # {})
Untrusted(s) == s.truncated \/ s.spent \/ (s.list = <<>> /\ Indexed # {})

ReadIndex(r) ==
    LET s == syncs[r]
    IN /\ s.step = "index"
       /\ \/ Free /\ Untrusted(s) /\ Move(r, [Done(s) EXCEPT !.failed = @ \/ s.list = <<>>])
          \/ /\ Free /\ ~Untrusted(s)
             /\ Move(r, [s EXCEPT !.step = "orphans", !.orphans = Indexed \ KeysOf(s.list)])
          \/ Spend("fault") /\ Move(r, IdleSync)
       /\ UNCHANGED pageOf /\ Same

\* Each in turn; one that fails is reported and the others follow.
ArchiveOrphan(r) ==
    LET s == syncs[r]
    IN /\ s.step = "orphans"
       /\ \/ Free /\ s.orphans = {} /\ Move(r, Done(s)) /\ UNCHANGED pageOf
          \/ Spend("time") /\ s.orphans # {} /\ UNCHANGED pageOf
             /\ Move(r, [Done(s) EXCEPT !.spent = TRUE])
          \/ \E k \in s.orphans :
                LET rest(f) == [s EXCEPT !.orphans = @ \ {k}, !.failed = @ \/ f]
                IN \/ Free /\ pageOf[k].state # "live" /\ Move(r, rest(FALSE)) /\ UNCHANGED pageOf
                   \/ /\ Free /\ pageOf[k].state = "live" /\ Writes(r, rest(FALSE))
                      /\ pageOf' = [pageOf EXCEPT ![k] = Archived(@, TRUE)]
                   \/ /\ Spend("fault") /\ pageOf[k].state = "live" /\ Writes(r, rest(FALSE))
                      /\ pageOf' = [pageOf EXCEPT ![k] = Archived(@, FALSE)]
                   \/ Spend("fault") /\ Move(r, rest(TRUE)) /\ UNCHANGED pageOf
       /\ Same

SyncNext ==
    \/ AddMemory \/ ChangeMemory \/ DeleteMemory \/ ArchivedByHand
    \/ \E r \in Runs :
          \/ StartSync(r) \/ ListMemories(r) \/ StartItem(r) \/ OutOfTime(r)
          \/ ArchiveSuperseded(r) \/ CreateForItem(r) \/ WriteContent(r) \/ WriteStatus(r)
          \/ EndItems(r) \/ ReadIndex(r) \/ ArchiveOrphan(r)

SyncSpec == SyncInit /\ [][SyncNext]_syncVars

-----------------------------------------------------------------------------
(* Properties.                                                             *)

Archives(r, k) == /\ k \in syncs[r].orphans \ syncs'[r].orphans
                  /\ pageOf[k].state = "live" /\ pageOf'[k].state = "archived"

\* The deletion pass archives a page only when no memory has its key, whatever listing
\* cap, time budget, filter or failure the run met, as long as neither the store nor
\* another run moved since the run began.
OnlyOrphansArchived ==
    [][\A r \in Runs, k \in MemoKeys : Archives(r, k) /\ ~syncs[r].disturbed => KeyHolders(k) = {}]_syncVars

\* "the hard-deletion pass treats 'not in this list' as 'deleted from mem0'"
\* (sync/mem0_notion.js:249-253): it archives no page of a memory that is stored.
NoStoredArchived ==
    [][\A r \in Runs, k \in MemoKeys : Archives(r, k) => KeyHolders(k) = {}]_syncVars

\* A full run that met no failure, no cap and no change leaves every memory with a page
\* that shows its version and status, a superseded memory without a live page, and no
\* live page without a memory; pages archived by hand stay as they are.
Complete(r) == LET s == syncs[r] IN s.step = "done" /\ s.only = {}
                  /\ ~s.disturbed /\ ~s.truncated /\ ~s.spent /\ ~s.failed
CleanRunSyncs ==
    \A r \in Runs : Complete(r) /\ UniqueKeys =>
        /\ \A i \in Range(store) : Synced(i)
        /\ \A k \in MemoKeys : KeyHolders(k) = {} => pageOf[k].state # "live"

\* A run after such a run, with nothing changed in between, writes nothing to Notion.
SecondRunQuiet ==
    \A r \in Runs : syncs[r].settled /\ ~syncs[r].disturbed /\ UniqueKeys => ~syncs[r].wrote

\* A sync reaches the state in which there is nothing left to sync.
SyncConverges == CleanRunSyncs /\ SecondRunQuiet
=============================================================================
