---------------------------- MODULE MemoryStore ----------------------------
(***************************************************************************)
(* mem0_write and mem0_delete (src/connectors/mem/write.js, delete.js,     *)
(* tools.js, client.js): adding memories to Mem0, which stores them        *)
(* asynchronously, updating them by reading, merging and writing back, and *)
(* deleting them.                                                          *)
(*                                                                         *)
(* An item to add is looked up by entity_id in the listing, page by page,  *)
(* then searched for by content, then posted; once posted it is a job that *)
(* Mem0 may carry out late or never.  The items of a batch run             *)
(* concurrently, and so do calls; each step is one request.  (The check    *)
(* that an add has landed only chooses the answer's wording.)              *)
(***************************************************************************)
EXTENDS Integers, Sequences, FiniteSets, SequencesExt

CONSTANTS
    AddCalls,       \* add and add_batch calls that may be in flight at the same time
    Editors,        \* updates that may be in flight at the same time
    MaxStored,      \* bound: jobs posted
    Slots,          \* entity_ids
    Contents,       \* what a memory says
    Nothing,        \* no entity_id, no content
    ScanPage,       \* memories per listing request (100 in the code)
    ScanPages,      \* listing requests of a lookup (10 in the code)
    StoreBudgets    \* bounds: add calls, updates, deletions, faults; one is chosen

ASSUME StoreAssumption ==
    /\ MaxStored \in Nat \ {0} /\ ScanPage \in Nat \ {0} /\ ScanPages \in Nat \ {0}
    /\ Nothing \notin Slots \cup Contents
    /\ StoreBudgets \subseteq [add : Nat, update : Nat, delete : Nat, fault : Nat]

VARIABLES
    landed,         \* the stored memories' ids, newest first
    jobs,           \* ids posted and not stored yet
    lastId,         \* the newest id Mem0 has given out
    facts,          \* id -> entity, content and status of a memory or a job
    items,          \* item of a call -> the work on it
    edits,          \* editor -> its update
    asked,          \* id -> what it should hold by the writes that were answered for
    races,          \* entities whose adds met a race, a shifting or overlong listing, a retry
    overlaps,       \* ids two updates of which overlapped
    storeLeft       \* what is left of the budget

storeVars == <<landed, jobs, lastId, facts, items, edits, asked, races, overlaps, storeLeft>>

Stored == 1 .. MaxStored
Items == AddCalls \X {1, 2}
Wanted == [entity : Slots \cup {Nothing}, content : Contents, skips : BOOLEAN]
Fact == [entity : Slots \cup {Nothing}, content : Contents \cup {Nothing}, status : {"unset", "superseded"}]
SomeFact == [entity |-> Nothing, content |-> Nothing, status |-> "unset"]
IdleItem == [step |-> "idle", want |-> [entity |-> Nothing, content |-> Nothing, skips |-> FALSE], at |-> 1]
IdleEdit == [step |-> "idle", id |-> 0, base |-> SomeFact, change |-> SomeFact]

StoreTypeOK ==
    /\ landed \in Seq(Stored) /\ jobs \subseteq Stored /\ lastId \in Stored \cup {0}
    /\ facts \in [Stored -> Fact] /\ asked \in [Stored -> Fact]
    /\ items \in [Items -> [step : {"idle", "lookup", "search", "post"}, want : Wanted \cup {IdleItem.want}, at : 1 .. ScanPages]]
    /\ \A u \in Editors : /\ edits[u].step \in {"idle", "write"} /\ edits[u].id \in Stored \cup {0}
                          /\ edits[u].base \in Fact /\ edits[u].change \in Fact
    /\ races \subseteq Slots /\ overlaps \subseteq Stored
    /\ storeLeft \in [add : Nat, update : Nat, delete : Nat, fault : Nat]

StoreInit ==
    /\ landed = <<>> /\ jobs = {} /\ lastId = 0 /\ races = {} /\ overlaps = {}
    /\ facts = [id \in Stored |-> SomeFact] /\ asked = facts
    /\ items = [i \in Items |-> IdleItem]
    /\ edits = [u \in Editors |-> IdleEdit]
    /\ storeLeft \in StoreBudgets

-----------------------------------------------------------------------------
Use(what) == storeLeft[what] > 0 /\ storeLeft' = [storeLeft EXCEPT ![what] = @ - 1]
Gratis == UNCHANGED storeLeft
Posted == Range(landed) \cup jobs
Active(i) == items[i].step # "idle"
With(e) == {id \in Posted : facts[id].entity = e}
OnTheirWay(e) == {i \in Items : Active(i) /\ items[i].want.entity = e}

SetItem(i, rec) == items' = [items EXCEPT ![i] = rec]
EndItem(i) == SetItem(i, IdleItem)
NoEdits == UNCHANGED <<edits, overlaps>>

\* A listing that changes under a lookup may hide the memory the lookup is for.
Shifted == races \cup ({items[i].want.entity : i \in {j \in Items : items[j].step = "lookup"}} \cap Slots)

-----------------------------------------------------------------------------
(* add and add_batch.                                                      *)

\* A batch skips an item that repeats the entity_id or, unless told not to look, the
\* content of an earlier one.
InBatchDuplicate(first, second) ==
    \/ first.entity # Nothing /\ second.entity = first.entity
    \/ ~first.skips /\ ~second.skips /\ second.content = first.content

Begun(want) == [IdleItem EXCEPT !.step = IF want.entity # Nothing THEN "lookup"
                                         ELSE IF want.skips THEN "post" ELSE "search",
                                !.want = want]

\* Calls know nothing of each other, nor of jobs not carried out yet.
BeginAdd(q) ==
    /\ ~Active(<<q, 1>>) /\ ~Active(<<q, 2>>) /\ Use("add")
    /\ \E first \in Wanted :
          /\ \/ items' = [items EXCEPT ![<<q, 1>>] = Begun(first)]
             \/ \E second \in Wanted :
                   items' = [items EXCEPT ![<<q, 1>>] = Begun(first),
                                          ![<<q, 2>>] = IF InBatchDuplicate(first, second) THEN IdleItem ELSE Begun(second)]
          /\ races' = races \cup {e \in Slots :
                         /\ \E n \in {1, 2} : items'[<<q, n>>].want.entity = e
                         /\ OnTheirWay(e) # {} \/ With(e) \cap jobs # {}}
    /\ NoEdits /\ UNCHANGED <<landed, jobs, lastId, facts, asked>>

\* findByEntityId: the first match ends the item, a short page or the last one the lookup.
ScanOf(n) == Range(SubSeq(landed, (n - 1) * ScanPage + 1,
                          IF n * ScanPage < Len(landed) THEN n * ScanPage ELSE Len(landed)))

LookUp(i) ==
    LET it == items[i]
        page == ScanOf(it.at)
        found == \E id \in page : facts[id].entity = it.want.entity
        more == Cardinality(page) = ScanPage /\ it.at < ScanPages
    IN /\ it.step = "lookup"
       /\ \/ Gratis /\ found /\ EndItem(i) /\ UNCHANGED races
          \/ Gratis /\ ~found /\ more /\ SetItem(i, [it EXCEPT !.at = @ + 1]) /\ UNCHANGED races
          \/ /\ Gratis /\ ~found /\ ~more
             /\ SetItem(i, [it EXCEPT !.step = IF it.want.skips THEN "post" ELSE "search", !.at = 1])
             /\ races' = IF Len(landed) > ScanPage * ScanPages THEN races \cup {it.want.entity} ELSE races
          \/ Use("fault") /\ EndItem(i) /\ UNCHANGED races
       /\ NoEdits /\ UNCHANGED <<landed, jobs, lastId, facts, asked>>

\* findPossibleDuplicates: a near-identical memory that is not superseded blocks the item;
\* one that is only similar flags it.
SearchContent(i) ==
    LET it == items[i]
        blocked == \E id \in Range(landed) : facts[id].content = it.want.content /\ facts[id].status # "superseded"
    IN /\ it.step = "search"
       /\ \/ Gratis /\ blocked /\ EndItem(i)
          \/ Gratis /\ ~blocked /\ SetItem(i, [it EXCEPT !.step = "post"])
          \/ Use("fault") /\ EndItem(i)
       /\ NoEdits /\ UNCHANGED <<landed, jobs, lastId, facts, asked, races>>

\* POST /v3/memories/add/: accepted; or accepted though answered with a 5xx, and then sent
\* again by mem0Request; or failed for good, accepted or not.
Post(i) ==
    LET it == items[i]
        fact == [entity |-> it.want.entity, content |-> it.want.content, status |-> "unset"]
        accept(ids) == /\ ids \subseteq Stored
                       /\ jobs' = jobs \cup ids /\ lastId' = lastId + Cardinality(ids)
                       /\ facts' = [n \in Stored |-> IF n \in ids THEN fact ELSE facts[n]]
                       /\ asked' = [n \in Stored |-> IF n \in ids THEN fact ELSE asked[n]]
    IN /\ it.step = "post" /\ EndItem(i)
       /\ \/ Gratis /\ accept({lastId + 1}) /\ UNCHANGED races
          \/ /\ Use("fault") /\ accept({lastId + 1, lastId + 2})
             /\ races' = races \cup ({it.want.entity} \cap Slots)
          \/ (Use("fault") \/ (lastId = MaxStored /\ Gratis)) /\ UNCHANGED <<jobs, lastId, facts, asked, races>>
       /\ NoEdits /\ UNCHANGED landed

\* Mem0 carries a job out, or silently drops it.
Land ==
    /\ \E id \in jobs : /\ jobs' = jobs \ {id}
                        /\ \/ Gratis /\ landed' = <<id>> \o landed
                           \/ Use("fault") /\ UNCHANGED landed
    /\ races' = Shifted
    /\ NoEdits /\ UNCHANGED <<lastId, facts, items, asked>>

-----------------------------------------------------------------------------
(* update and delete.                                                      *)

\* GET: the memory as it is now, and what the caller wants changed.
BeginUpdate(u) ==
    /\ edits[u].step = "idle" /\ Use("update")
    /\ \E id \in Range(landed), change \in Fact :
          /\ change.entity = facts[id].entity
          /\ change # facts[id] /\ change.content \in Contents
          /\ change.content = facts[id].content \/ change.status = facts[id].status
          /\ edits' = [edits EXCEPT ![u] = [step |-> "write", id |-> id, base |-> facts[id], change |-> change]]
          /\ overlaps' = IF \E v \in Editors : edits[v].step = "write" /\ edits[v].id = id
                         THEN overlaps \cup {id} ELSE overlaps
    /\ UNCHANGED <<landed, jobs, lastId, facts, items, asked, races>>

\* PUT replaces content and metadata as a whole: what was read, and the changes over it.
\* (Each update changes the content or the metadata.)
PutsOnlyChanges(base, change) ==
    IF change.content # base.content THEN [change EXCEPT !.entity = Nothing, !.status = "unset"] ELSE change
Merged(base, change) ==
    [base EXCEPT !.content = IF change.content # base.content THEN change.content ELSE @,
                 !.status = IF change.status # base.status THEN change.status ELSE @]

WriteUpdate(u) ==
    LET ed == edits[u]
    IN /\ ed.step = "write" /\ Gratis
       /\ edits' = [edits EXCEPT ![u] = IdleEdit]
       /\ IF ed.id \in Range(landed)
          THEN /\ facts' = [facts EXCEPT ![ed.id] = Merged(ed.base, ed.change)]
               /\ asked' = [asked EXCEPT ![ed.id].content = IF ed.change.content # ed.base.content THEN ed.change.content ELSE @,
                                         ![ed.id].status = IF ed.change.status # ed.base.status THEN ed.change.status ELSE @]
          ELSE UNCHANGED <<facts, asked>>
       /\ UNCHANGED <<landed, jobs, lastId, items, races, overlaps>>

\* One, several or all memories of a scope.
DeleteMemories ==
    /\ Use("delete")
    /\ \E gone \in SUBSET Range(landed) : gone # {} /\ landed' = SelectSeq(landed, LAMBDA id : id \notin gone)
    /\ races' = Shifted
    /\ NoEdits /\ UNCHANGED <<jobs, lastId, facts, items, asked>>

StoreNext ==
    \/ \E q \in AddCalls : BeginAdd(q)
    \/ \E i \in Items : LookUp(i) \/ SearchContent(i) \/ Post(i)
    \/ \E u \in Editors : BeginUpdate(u) \/ WriteUpdate(u)
    \/ Land \/ DeleteMemories

StoreSpec == StoreInit /\ [][StoreNext]_storeVars

-----------------------------------------------------------------------------
(* Properties.                                                             *)

\* An entity_id has one memory: several share it only when calls for it overlapped, a job
\* was still on its way, the listing shifted or was too long, or a POST was repeated.
OneMemoryPerEntity == \A e \in Slots \ races : Cardinality(With(e)) <= 1

\* Every field of a memory is what was last written to it, whatever other fields updates
\* wrote since, unless two updates of the memory overlapped: an update of one field
\* never wipes another.
FieldsKept == \A id \in Range(landed) \ overlaps : facts[id] = asked[id]

\* Calls that do not overlap leave one memory per entity_id with every field as last written.
MemoriesKept == OneMemoryPerEntity /\ FieldsKept
=============================================================================
