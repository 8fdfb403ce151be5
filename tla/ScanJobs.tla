------------------------------ MODULE ScanJobs ------------------------------
(***************************************************************************)
(* The repository map's scan worker (worker/src/scan/queue.js): a queue of *)
(* scan jobs in Postgres, claimed by worker processes, each of which       *)
(* clones the repository, compares it with what is indexed and rewrites    *)
(* the rows of the files that changed, a few files at a time.              *)
(*                                                                         *)
(* Every step of a worker is one SQL statement, clone or embedding call.   *)
(* The rows carry the job that wrote them in the place of their serial id: *)
(* a job inserts a given row at most once.  A content is its own hash.     *)
(***************************************************************************)
EXTENDS CalleeLookup

CONSTANTS
    Replicas,       \* worker processes
    MaxJobs,        \* scans requested in a behaviour
    Paths,          \* files of the repository
    Trees,          \* commits
    Tree,           \* Tree[t][f]: content of f at commit t, None when absent
    Text,           \* Text[c]: what parsing content c gives
    SCAN_CONCURRENCY,
    PASS2_WINDOW_FILES,
    Private,        \* the repository cannot be cloned without a token
    ScanBudgets     \* pushes, failed statements, crashes, failed embeddings a behaviour may have

Jobs == 1..MaxJobs

ASSUME ScanAssumption ==
    /\ Tree \in [Trees -> [Paths -> DOMAIN Text \cup {None}]]
    /\ MaxJobs \in Nat /\ SCAN_CONCURRENCY \in Nat \ {0} /\ PASS2_WINDOW_FILES \in Nat \ {0}
    /\ Private \in BOOLEAN

\* An import that names no file of the repository is none.
ASSUME TextAssumption == \A c \in DOMAIN Text : Text[c].imports \subseteq Paths

VARIABLES
    head,           \* the commit the branch is at
    jobs,           \* scan_jobs
    commit,         \* repos.last_scanned_commit
    rows,           \* files: id, content_hash, fully_indexed_at
    symbols,        \* symbols
    edges,          \* edges: imports and calls
    chunks,         \* chunks
    tokens,         \* pendingCloneTokens of each process
    stashing,       \* enqueueScan between its INSERT and the token's stash
    work,           \* the job a process is at, and how far
    scanLeft        \* what is left of them

database == <<rows, symbols, edges, chunks>>
scanVars == <<head, jobs, commit, database, tokens, stashing, work, scanLeft>>

Absent == [status |-> "absent", total |-> 0, done |-> 0, failures |-> {}, unhealed |-> FALSE]
NoWork == [pc |-> "idle", job |-> 0, tree |-> None, touched |-> FALSE, deleted |-> {},
           at |-> [f \in Paths |-> "out"], id |-> [f \in Paths |-> 0], broken |-> FALSE,
           index |-> {}, files |-> [f \in Paths |-> 0], window |-> {}, failed |-> {}]

ScanInit ==
    /\ head \in Trees
    /\ jobs = [j \in Jobs |-> Absent]
    /\ commit = None
    /\ rows = [f \in Paths |-> None] /\ symbols = {} /\ edges = {} /\ chunks = {}
    /\ tokens = [w \in Replicas |-> {}] /\ stashing = [w \in Replicas |-> 0]
    /\ work = [w \in Replicas |-> NoWork]
    /\ scanLeft \in ScanBudgets

Fresh(w) == Tree[work[w].tree]
FileSteps == {"wait", "upserted", "unchunked", "unlinked", "cleared", "parsed", "linked",
              "embedded", "unembedded", "stored", "ended", "out"}
At(w, steps) == {f \in Paths : work[w].at[f] \in steps}
Goto(w, pc) == work' = [work EXCEPT ![w].pc = pc]
MoveFile(w, f, step) == work' = [work EXCEPT ![w].at[f] = step]
Left(kind) == scanLeft[kind] > 0
Spend(kind) == scanLeft' = [scanLeft EXCEPT ![kind] = @ - 1]

-----------------------------------------------------------------------------
(* The queue.                                                              *)

\* The branch moves on while nobody looks.
PushCommit ==
    /\ Left("push") /\ Spend("push")
    /\ \E t \in Trees \ {head} : head' = t
    /\ UNCHANGED <<jobs, commit, database, tokens, stashing, work>>

\* The job is visible to every process before this one has stashed its token.
Enqueue(w) ==
    /\ stashing[w] = 0
    /\ \E j \in Jobs :
        /\ jobs[j] = Absent /\ \A k \in 1..(j - 1) : jobs[k] # Absent
        /\ jobs' = [jobs EXCEPT ![j].status = "queued"]
        /\ stashing' = [stashing EXCEPT ![w] = j]
    /\ UNCHANGED <<head, commit, database, tokens, work, scanLeft>>

StashToken(w) ==
    /\ stashing[w] # 0
    /\ tokens' = [tokens EXCEPT ![w] = @ \cup {stashing[w]}]
    /\ stashing' = [stashing EXCEPT ![w] = 0]
    /\ UNCHANGED <<head, jobs, commit, database, work, scanLeft>>

Queued == {j \in Jobs : jobs[j].status = "queued"}
Oldest(S) == CHOOSE j \in S : \A k \in S : j <= k

ClaimsUntilAFailure(w) == work[w].pc = "idle" /\ \A j \in Jobs : jobs[j].status # "failed"

\* runLoop, kicked by a request, the poll timer or /tick: a process that is at a job already
\* does not start a second loop.
CanClaim(w) == work[w].pc = "idle"
ClaimJob(w) ==
    /\ CanClaim(w) /\ Queued # {}
    /\ LET j == Oldest(Queued)
       IN  /\ jobs' = [jobs EXCEPT ![j].status = "running"]
           /\ work' = [work EXCEPT ![w] = [NoWork EXCEPT !.pc = "clone", !.job = j]]
    /\ UNCHANGED <<head, commit, database, tokens, stashing, scanLeft>>

TakeToken(w) == [tokens EXCEPT ![w] = @ \ {work[w].job}]

CloneRepo(w) ==
    /\ work[w].pc = "clone"
    /\ tokens' = TakeToken(w)
    /\ work' = IF Private /\ work[w].job \notin tokens[w]
                  THEN [work EXCEPT ![w].pc = "fail"]
                  ELSE [work EXCEPT ![w].pc = "diff", ![w].tree = head]
    /\ UNCHANGED <<head, jobs, commit, database, stashing, scanLeft>>

-----------------------------------------------------------------------------
(* Comparing the clone with the index.                                     *)

\* getKnownFileHashes: only the hash of a file that was indexed to the end is trusted.
Known == {f \in Paths : rows[f] # None /\ rows[f].indexed}

\* diffFiles
Changed(fresh, known) ==
    {f \in Paths : fresh[f] # None /\ ~(f \in known /\ rows[f].hash = fresh[f])}
Deleted(fresh, known) == {f \in known : fresh[f] = None}

Diff(w) ==
    /\ work[w].pc = "diff"
    /\ LET changed == Changed(Fresh(w), Known)
           deleted == Deleted(Fresh(w), Known)
       IN  /\ jobs' = [jobs EXCEPT ![work[w].job].total = Cardinality(changed)]
           /\ work' = [work EXCEPT ![w].pc = "purge", ![w].deleted = deleted,
                                   ![w].touched = (changed \cup deleted # {}),
                                   ![w].at = [f \in Paths |->
                                                IF f \in changed THEN "wait" ELSE "out"]]
    /\ UNCHANGED <<head, commit, database, tokens, stashing, scanLeft>>

\* Symbols go with the calls written inside them; a call to one of them loses its target.
Bereft(es, gone) ==
    {[e EXCEPT !.dst = IF @ \in gone THEN None ELSE @] :
        e \in {x \in es : x.kind = "imports" \/
                          ~\E s \in gone : s.file = x.src /\ s.job = x.job}}
SymbolsOf(f) == {s \in symbols : s.file = f}

\* deleteFile: an import of the file goes with it, a call into it does not.
DeleteFile(w, f) ==
    /\ work[w].pc = "purge" /\ f \in work[w].deleted
    /\ rows' = [rows EXCEPT ![f] = None]
    /\ symbols' = symbols \ SymbolsOf(f)
    /\ edges' = Bereft({e \in edges : e.src # f /\ e.dst # f}, SymbolsOf(f))
    /\ chunks' = {c \in chunks : c.file # f}
    /\ work' = [work EXCEPT ![w].deleted = @ \ {f}]
    /\ UNCHANGED <<head, jobs, commit, tokens, stashing, scanLeft>>

PurgeDone(w) ==
    /\ work[w].pc = "purge" /\ work[w].deleted = {} /\ Goto(w, "pass1")
    /\ UNCHANGED <<head, jobs, commit, database, tokens, stashing, scanLeft>>

-----------------------------------------------------------------------------
(* Pass 1: rows and symbols of every changed file, before any edge.        *)

InFlight(w) == At(w, {"upserted", "unchunked", "unlinked", "cleared"})

\* upsertFile: whatever the row held, the new hash is not trusted yet.
Upserted(f, id, hash) == [id |-> id, hash |-> hash, indexed |-> FALSE]

StartFile(w, f) ==
    /\ work[w].pc = "pass1" /\ work[w].at[f] = "wait" /\ ~work[w].broken
    /\ Cardinality(InFlight(w)) < SCAN_CONCURRENCY
    /\ LET id == IF rows[f] = None THEN work[w].job ELSE rows[f].id
       IN  /\ rows' = [rows EXCEPT ![f] = Upserted(f, id, Fresh(w)[f])]
           /\ work' = [work EXCEPT ![w].at[f] = "upserted", ![w].id[f] = id]
    /\ UNCHANGED <<head, jobs, commit, symbols, edges, chunks, tokens, stashing, scanLeft>>

RowStands(w, f) == rows[f] # None /\ rows[f].id = work[w].id[f]

\* deleteFileArtifacts: three statements.
DeleteChunks(w, f) ==
    /\ work[w].at[f] = "upserted" /\ MoveFile(w, f, "unchunked")
    /\ chunks' = IF RowStands(w, f) THEN {c \in chunks : c.file # f} ELSE chunks
    /\ UNCHANGED <<head, jobs, commit, rows, symbols, edges, tokens, stashing, scanLeft>>

DeleteEdges(w, f) ==
    /\ work[w].at[f] = "unchunked" /\ MoveFile(w, f, "unlinked")
    /\ edges' = IF RowStands(w, f) THEN {e \in edges : e.src # f} ELSE edges
    /\ UNCHANGED <<head, jobs, commit, rows, symbols, chunks, tokens, stashing, scanLeft>>

DeleteSymbols(w, f) ==
    /\ work[w].at[f] = "unlinked" /\ MoveFile(w, f, "cleared")
    /\ LET gone == IF RowStands(w, f) THEN SymbolsOf(f) ELSE {}
       IN  symbols' = symbols \ gone /\ edges' = Bereft(edges, gone)
    /\ UNCHANGED <<head, jobs, commit, rows, chunks, tokens, stashing, scanLeft>>

Defined(f, c, j) == {[file |-> f, job |-> j, name |-> d.name, class |-> d.class] : d \in Text[c].defs}

InsertSymbols(w, f) ==
    /\ work[w].at[f] = "cleared" /\ RowStands(w, f)
    /\ symbols' = symbols \cup Defined(f, Fresh(w)[f], work[w].job)
    /\ MoveFile(w, f, "parsed")
    /\ UNCHANGED <<head, jobs, commit, rows, edges, chunks, tokens, stashing, scanLeft>>

\* A statement that throws here rejects the whole pass; a row deleted under it does, too.
FileBreaks(w, f) ==
    /\ work[w].pc = "pass1"
    /\ \/ f \in InFlight(w) \/ (work[w].at[f] = "wait" /\ ~work[w].broken)
    /\ IF work[w].at[f] = "cleared" /\ ~RowStands(w, f) THEN UNCHANGED scanLeft
       ELSE Left("fault") /\ Spend("fault")
    /\ work' = [work EXCEPT ![w].broken = TRUE, ![w].at[f] = "out"]
    /\ UNCHANGED <<head, jobs, commit, database, tokens, stashing>>

\* The indexes are read once, when every changed file has its symbols.
Pass1Done(w) ==
    /\ work[w].pc = "pass1" /\ InFlight(w) = {}
    /\ work[w].broken \/ At(w, {"wait"}) = {}
    /\ work' = IF work[w].broken THEN [work EXCEPT ![w].pc = "fail"]
               ELSE [work EXCEPT ![w].pc = "pass2", ![w].index = symbols,
                                 ![w].files = [f \in Paths |->
                                     IF rows[f] = None THEN 0 ELSE rows[f].id]]
    /\ UNCHANGED <<head, jobs, commit, database, tokens, stashing, scanLeft>>

-----------------------------------------------------------------------------
(* Pass 2: edges, then the embeddings of a window of files, then chunks.   *)

NextWindow(w) ==
    /\ work[w].pc = "pass2" /\ At(w, {"parsed"}) # {}
    /\ \E S \in SUBSET At(w, {"parsed"}) :
        /\ S # {} /\ (Cardinality(S) = PASS2_WINDOW_FILES
                        \/ (S = At(w, {"parsed"}) /\ Cardinality(S) < PASS2_WINDOW_FILES))
        /\ work' = [work EXCEPT ![w].pc = "edges", ![w].window = S]
    /\ UNCHANGED <<head, jobs, commit, database, tokens, stashing, scanLeft>>

\* The edges of a file, resolved against the indexes.  A name it cannot resolve is kept.
Edges(w, f) ==
    LET text == Text[Fresh(w)[f]]
        found == {p \in text.imports : work[w].files[p] # 0}
        Edge(kind, what, dst) ==
            [src |-> f, kind |-> kind, what |-> what, dst |-> dst, job |-> work[w].job]
    IN  {Edge("imports", p, IF p \in found THEN p ELSE None) : p \in text.imports} \cup
        {Edge("calls", c, LookupCallee(c, work[w].index, f, found)) : c \in text.calls}

\* Foreign keys: the row of the file, its symbols and every target must still be there.
KeysHold(w, f) ==
    /\ RowStands(w, f)
    /\ Defined(f, Fresh(w)[f], work[w].job) \subseteq symbols
    /\ \A e \in Edges(w, f) :
        CASE e.dst = None -> TRUE
          [] e.kind = "imports" /\ e.dst # None ->
                rows[e.dst] # None /\ rows[e.dst].id = work[w].files[e.dst]
          [] OTHER -> e.dst \in symbols

LinkFile(w, f) ==
    /\ work[w].pc = "edges" /\ f \in work[w].window /\ work[w].at[f] = "parsed"
    /\ KeysHold(w, f)
    /\ edges' = edges \cup Edges(w, f)
    /\ MoveFile(w, f, "linked")
    /\ UNCHANGED <<head, jobs, commit, rows, symbols, chunks, tokens, stashing, scanLeft>>

\* incrementJobFilesDone
CountFile(w) == jobs' = [jobs EXCEPT ![work[w].job].done = @ + 1]

\* recordFailure: the job goes on without the file, which keeps an untrusted hash.
Fails(w, f) == [work EXCEPT ![w].at[f] = "ended", ![w].failed = @ \cup {f}]

LinkFails(w, f) ==
    /\ work[w].pc = "edges" /\ f \in work[w].window /\ work[w].at[f] = "parsed"
    /\ IF KeysHold(w, f) THEN Left("fault") /\ Spend("fault") ELSE UNCHANGED scanLeft
    /\ CountFile(w) /\ work' = Fails(w, f)
    /\ UNCHANGED <<head, commit, database, tokens, stashing>>

\* embedFileChunks: one call for the window.  An error of the keys fails all of it; any other
\* makes every file try again by itself.
EmbedWindow(w) ==
    /\ work[w].pc = "edges" /\ work[w].window \cap At(w, {"parsed"}) = {}
    /\ LET ready == At(w, {"linked"})
       IN  \E bad \in SUBSET ready :
            /\ IF bad = {} THEN UNCHANGED scanLeft ELSE Left("embed") /\ Spend("embed")
            /\ work' = [work EXCEPT ![w].pc = "chunks",
                                    ![w].at = [f \in Paths |->
                                        CASE f \in bad -> "unembedded"
                                          [] f \in ready \ bad -> "embedded"
                                          [] OTHER -> @[f]]]
    /\ UNCHANGED <<head, jobs, commit, database, tokens, stashing>>

Chunk(w, f) == [file |-> f, of |-> Fresh(w)[f], job |-> work[w].job]

InsertChunks(w, f) ==
    /\ work[w].at[f] = "embedded" /\ RowStands(w, f)
    /\ chunks' = chunks \cup {Chunk(w, f)}
    /\ MoveFile(w, f, "stored")
    /\ UNCHANGED <<head, jobs, commit, rows, symbols, edges, tokens, stashing, scanLeft>>

\* markFileIndexed names the row, not the hash.
MarkIndexed(w, f) ==
    /\ work[w].at[f] = "stored"
    /\ rows' = IF RowStands(w, f) THEN [rows EXCEPT ![f].indexed = TRUE] ELSE rows
    /\ MoveFile(w, f, "ended")
    /\ CountFile(w)
    /\ UNCHANGED <<head, commit, symbols, edges, chunks, tokens, stashing, scanLeft>>

\* No embedding, or a statement that throws; the batches of chunks before it stay.
StoreFails(w, f) ==
    /\ work[w].at[f] \in {"unembedded", "embedded", "stored"}
    /\ IF work[w].at[f] = "unembedded" \/ (work[w].at[f] = "embedded" /\ ~RowStands(w, f))
       THEN UNCHANGED <<scanLeft, chunks>>
       ELSE /\ Left("fault") /\ Spend("fault")
            /\ chunks' \in {chunks} \cup
                    (IF work[w].at[f] = "embedded" THEN {chunks \cup {Chunk(w, f)}} ELSE {})
    /\ CountFile(w) /\ work' = Fails(w, f)
    /\ UNCHANGED <<head, commit, rows, symbols, edges, tokens, stashing>>

WindowDone(w) ==
    /\ work[w].pc = "chunks" /\ At(w, {"embedded", "unembedded", "stored"}) = {}
    /\ Goto(w, "pass2")
    /\ UNCHANGED <<head, jobs, commit, database, tokens, stashing, scanLeft>>

Pass2Done(w) ==
    /\ work[w].pc = "pass2" /\ At(w, {"parsed"}) = {}
    /\ Goto(w, "heal")
    /\ UNCHANGED <<head, jobs, commit, database, tokens, stashing, scanLeft>>

-----------------------------------------------------------------------------
(* After the passes: edges that have lost their target, or found one.      *)

\* planReResolution: imports first, so that a call can be resolved through one of them.
Linkable(w) ==
    {e \in edges : e.kind = "imports" /\ e.dst = None /\ work[w].files[e.what] # 0}
WithImports(w) == (edges \ Linkable(w)) \cup {[e EXCEPT !.dst = e.what] : e \in Linkable(w)}
ImportedBy(f, es) == {e.dst : e \in {x \in es : x.kind = "imports" /\ x.src = f}} \ {None}
HealCall(w, e, imports) == [e EXCEPT !.dst = LookupCallee(e.what, work[w].index, e.src, imports)]
WithCalls(w, es) ==
    {IF e.kind = "calls" /\ e.dst = None THEN HealCall(w, e, ImportedBy(e.src, es)) ELSE e : e \in es}
HealKeysHold(w) ==
    /\ \A e \in Linkable(w) : rows[e.what] # None /\ rows[e.what].id = work[w].files[e.what]
    /\ \A e \in WithCalls(w, WithImports(w)) : e.kind = "calls" => e.dst \in symbols \cup {None}

HealsAfterWriting(w) == work[w].window # {}
NeedsHealing(w) == work[w].touched

HealEdges(w) ==
    /\ work[w].pc = "heal" /\ NeedsHealing(w) /\ HealKeysHold(w)
    /\ edges' = WithCalls(w, WithImports(w))
    /\ Goto(w, "commit")
    /\ UNCHANGED <<head, jobs, commit, rows, symbols, chunks, tokens, stashing, scanLeft>>

SkipHealing(w) ==
    /\ work[w].pc = "heal" /\ ~NeedsHealing(w)
    /\ Goto(w, "commit")
    /\ UNCHANGED <<head, jobs, commit, database, tokens, stashing, scanLeft>>

\* Reported, and the job still ends as done.
HealFails(w) ==
    /\ work[w].pc = "heal" /\ NeedsHealing(w)
    /\ IF HealKeysHold(w) THEN Left("fault") /\ Spend("fault") ELSE UNCHANGED scanLeft
    /\ edges' \in {edges} \cup (IF HealKeysHold(w) THEN {WithImports(w)} ELSE {})
    /\ work' = [work EXCEPT ![w].pc = "commit", ![w].broken = TRUE]
    /\ UNCHANGED <<head, jobs, commit, rows, symbols, chunks, tokens, stashing>>

UpdateCommit(w) ==
    /\ work[w].pc = "commit"
    /\ commit' = work[w].tree
    /\ Goto(w, "done")
    /\ UNCHANGED <<head, jobs, database, tokens, stashing, scanLeft>>

LeaveJob(w) == work' = [work EXCEPT ![w] = NoWork]

FinishJob(w) ==
    /\ work[w].pc = "done"
    /\ jobs' = [jobs EXCEPT ![work[w].job].status = "done",
                            ![work[w].job].failures = work[w].failed,
                            ![work[w].job].unhealed = work[w].broken]
    /\ LeaveJob(w)
    /\ UNCHANGED <<head, commit, database, tokens, stashing, scanLeft>>

FailJob(w) ==
    /\ work[w].pc = "fail"
    /\ jobs' = [jobs EXCEPT ![work[w].job].status = "failed"]
    /\ LeaveJob(w)
    /\ UNCHANGED <<head, commit, database, tokens, stashing, scanLeft>>

\* A statement of the job itself throws: the job fails, unless recording that throws as well.
JobThrows(w) ==
    /\ work[w].pc \in {"clone", "diff", "purge", "commit", "done", "fail"}
    /\ Left("fault") /\ Spend("fault")
    /\ tokens' = IF work[w].pc = "clone" THEN TakeToken(w) ELSE tokens
    /\ IF work[w].pc = "fail" THEN LeaveJob(w) ELSE Goto(w, "fail")
    /\ UNCHANGED <<head, jobs, commit, database, stashing>>

\* The process dies and is started again; nothing takes its running job back.
Crash(w) ==
    /\ Left("crash") /\ Spend("crash")
    /\ work[w] # NoWork \/ tokens[w] # {} \/ stashing[w] # 0
    /\ LeaveJob(w)
    /\ tokens' = [tokens EXCEPT ![w] = {}] /\ stashing' = [stashing EXCEPT ![w] = 0]
    /\ UNCHANGED <<head, jobs, commit, database>>

-----------------------------------------------------------------------------
FileStep(w, f) ==
    \/ StartFile(w, f) \/ DeleteChunks(w, f) \/ DeleteEdges(w, f) \/ DeleteSymbols(w, f)
    \/ InsertSymbols(w, f) \/ FileBreaks(w, f)
    \/ LinkFile(w, f) \/ LinkFails(w, f)
    \/ InsertChunks(w, f) \/ MarkIndexed(w, f) \/ StoreFails(w, f)
    \/ DeleteFile(w, f)

JobStep(w) ==
    \/ ClaimJob(w) \/ CloneRepo(w) \/ Diff(w) \/ PurgeDone(w) \/ Pass1Done(w) \/ NextWindow(w)
    \/ EmbedWindow(w) \/ WindowDone(w) \/ Pass2Done(w) \/ HealEdges(w) \/ SkipHealing(w)
    \/ HealFails(w) \/ UpdateCommit(w) \/ FinishJob(w) \/ FailJob(w) \/ JobThrows(w)

WorkerStep(w) == JobStep(w) \/ \E f \in Paths : FileStep(w, f)

ScanNext ==
    \/ PushCommit
    \/ \E w \in Replicas : Enqueue(w) \/ StashToken(w) \/ WorkerStep(w) \/ Crash(w)

\* The poll timer claims what waits, and a process that lives goes on with its job.
ScanFairness == \A w \in Replicas : WF_scanVars(WorkerStep(w))
ScanSpec == ScanInit /\ [][ScanNext]_scanVars /\ ScanFairness

-----------------------------------------------------------------------------
ScanTypeOK ==
    /\ head \in Trees /\ commit \in Trees \cup {None}
    /\ \A j \in Jobs : jobs[j].status \in {"absent", "queued", "running", "done", "failed"}
    /\ \A f \in Paths : rows[f] = None \/ (rows[f].id \in Jobs /\ rows[f].hash \in DOMAIN Text)
    /\ \A w \in Replicas : tokens[w] \subseteq Jobs /\ stashing[w] \in Jobs \cup {0}
                           /\ \A f \in Paths : work[w].at[f] \in FileSteps

\* A file whose fully_indexed_at is set has the symbols, the chunks and the calls of its
\* current hash, each once (schema.sql, fully_indexed_at): otherwise the next scan would skip a
\* file that searches cannot find.  Its imports are never more than the ones it has; the rows
\* of those whose target was deleted since are gone.
IndexedIsWhole ==
    \A f \in Known :
        LET c == rows[f].hash
            OfFile(kind) == {[what |-> e.what, job |-> e.job] :
                                e \in {x \in edges : x.src = f /\ x.kind = kind}}
        IN  \E j \in Jobs :
            /\ SymbolsOf(f) = Defined(f, c, j)
            /\ {x \in chunks : x.file = f} = {[file |-> f, of |-> c, job |-> j]}
            /\ OfFile("calls") = {[what |-> k, job |-> j] : k \in Text[c].calls}
            /\ OfFile("imports") \subseteq {[what |-> p, job |-> j] : p \in Text[c].imports}

\* When a scan comes to its end the index is what it cloned, except for the files it lists as
\* failed: those are not trusted, so that the next scan takes them again, and no file the
\* clone lacks is still trusted.
ScanMirrors ==
    \A w \in Replicas : work[w].pc \in {"heal", "commit", "done"} =>
        \A f \in Paths :
            LET c == Fresh(w)[f]
            IN  IF c = None \/ f \in work[w].failed THEN f \notin Known
                ELSE f \in Known /\ rows[f].hash = c

\* The progress shown never passes the total, and a job that is done has reached it: every
\* file is counted once, whichever way it ends (incrementJobFilesDone).
ProgressBounded ==
    \A j \in Jobs : /\ jobs[j].done <= jobs[j].total
                    /\ jobs[j].status = "done" => jobs[j].done = jobs[j].total

\* What the index trusts is whole and is what the last scan cloned, and a job counts its files
\* as they are.
IndexTrue == IndexedIsWhole /\ ScanMirrors /\ ProgressBounded

\* After a scan that ended well, no edge is without a target that the stored name would find
\* (reResolveRepoEdges), even when the symbols it pointed to were replaced by that scan: the
\* scans after it that found nothing to do have nothing to heal either.
EndedWell(j) == jobs[j].status = "done" /\ ~jobs[j].unhealed
EdgesHealed ==
    (\A w \in Replicas : work[w] = NoWork) /\
    (\A j \in Jobs : jobs[j].status # "absent" => EndedWell(j))
    => \A e \in edges : e.dst = None =>
        IF e.kind = "imports" THEN rows[e.what] = None
        ELSE LookupCallee(e.what, symbols, e.src, ImportedBy(e.src, edges)) = None

\* A job that waits is taken, and ends as done or failed, unless the process that took it is
\* gone: such a job stays running for good (claimNextQueuedJob looks at queued jobs only).
Abandoned(j) == jobs[j].status = "running" /\ \A w \in Replicas : work[w].job # j
JobsSettle ==
    \A j \in Jobs : jobs[j].status = "queued" ~>
                        (jobs[j].status \in {"done", "failed"} \/ Abandoned(j))
=============================================================================
