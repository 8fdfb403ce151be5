-------------------------- MODULE ScanJobs_proofs --------------------------
(***************************************************************************)
(* Theorems about ScanJobs for one worker process, which is how the worker *)
(* is deployed: for every repository, history of commits, concurrency and  *)
(* window size, and whatever statement, embedding call or process fails,   *)
(* the index is true (IndexTrue).                                          *)
(*                                                                         *)
(* The invariant follows each file through the passes: what its row, its   *)
(* symbols, its edges and its chunks are at each of its stages.  Other     *)
(* files touch its edges only to take their target away, or to give one.   *)
(***************************************************************************)
EXTENDS ScanJobs, FiniteSetTheorems, NaturalsInduction, WellFoundedInduction, TLAPS

IsSymbol(s) == DOMAIN s = {"file", "job", "name", "class"}

\* One process; a value that stands for nothing is no path and no row, and a path no symbol.
Solo(w) ==
    /\ Replicas = {w}
    /\ IsFiniteSet(Paths)
    /\ None \notin Paths
    /\ \A p \in Paths : ~IsSymbol(p)
    /\ DOMAIN None # {"id", "hash", "indexed"}

-----------------------------------------------------------------------------
(* What the index says of one file.                                        *)

ChunksOf(f) == {x \in chunks : x.file = f}
ViewOf(es, f, kind) == {[what |-> e.what, job |-> e.job] : e \in {x \in es : x.src = f /\ x.kind = kind}}
OfFile(f, kind) == ViewOf(edges, f, kind)
CallsIn(c, j) == {[what |-> k, job |-> j] : k \in Text[c].calls}
ImportsIn(c, j) == {[what |-> p, job |-> j] : p \in Text[c].imports}

WholeBy(f, c, j) ==
    /\ SymbolsOf(f) = Defined(f, c, j)
    /\ ChunksOf(f) = {[file |-> f, of |-> c, job |-> j]}
    /\ OfFile(f, "calls") = CallsIn(c, j)
    /\ OfFile(f, "imports") \subseteq ImportsIn(c, j)

-----------------------------------------------------------------------------
(* The inductive invariant.                                                *)

WorkFields == {"pc", "job", "tree", "touched", "deleted", "at", "id", "broken",
               "index", "files", "window", "failed"}
Past == {"purge", "pass1", "pass2", "edges", "chunks", "heal", "commit", "done"}

IsEdge(e) ==
    /\ DOMAIN e = {"src", "kind", "what", "dst", "job"}
    /\ e.kind \in {"imports", "calls"}
    /\ e.kind = "calls" => (e.dst = None \/ IsSymbol(e.dst))

WorkShape(w) ==
    /\ DOMAIN work = {w}
    /\ DOMAIN work[w] = WorkFields
    /\ work[w].at \in [Paths -> FileSteps]
    /\ DOMAIN work[w].id = Paths
    /\ work[w].failed \in SUBSET Paths
    /\ work[w].pc \in {"clone", "diff"} => work[w].failed = {}
    /\ work[w].pc \in {"idle", "clone", "diff", "fail"} \cup Past
    /\ work[w].pc # "idle" => work[w].job \in Jobs
    /\ work[w].pc \in {"diff"} \cup Past => work[w].tree \in Trees

DatabaseShape(w) ==
    /\ head \in Trees
    /\ DOMAIN rows = Paths
    /\ \A f \in Paths : rows[f] # None => DOMAIN rows[f] = {"id", "hash", "indexed"}
                                          /\ rows[f].indexed \in BOOLEAN
    /\ \A s \in symbols \cup work[w].index : IsSymbol(s)
    /\ \A e \in edges : IsEdge(e)

\* Where a file can be while the job is at pc.
StagesAt(pc) ==
    CASE pc = "purge" -> {"wait", "out"}
      [] pc = "pass1" -> {"wait", "upserted", "unchunked", "unlinked", "cleared", "parsed", "out"}
      [] pc = "pass2" -> {"parsed", "ended", "out"}
      [] pc = "edges" -> {"parsed", "linked", "ended", "out"}
      [] pc = "chunks" -> {"parsed", "embedded", "unembedded", "stored", "ended", "out"}
      [] pc \in {"heal", "commit", "done"} -> {"ended", "out"}
      [] pc = "fail" -> {"wait", "parsed", "ended", "out"}
      [] OTHER -> {"out"}

Staged(w) ==
    /\ \A f \in Paths : work[w].at[f] \in StagesAt(work[w].pc)
    /\ work[w].pc \in Past =>
        \A f \in Paths : /\ work[w].at[f] # "out" => Fresh(w)[f] # None
                         /\ f \in work[w].deleted => Fresh(w)[f] = None /\ work[w].pc = "purge"

\* What the database holds of a file at its stage.
FileSound(w, f) ==
    LET at == work[w].at[f]
        c == Fresh(w)[f]
        j == work[w].job
    IN  /\ at \in {"upserted", "unchunked", "unlinked", "cleared", "parsed", "linked", "embedded",
                   "unembedded", "stored"} =>
                /\ rows[f] # None
                /\ rows[f].id = work[w].id[f] /\ rows[f].hash = c /\ ~rows[f].indexed
        /\ at \in {"unchunked", "unlinked", "cleared", "parsed", "linked", "embedded", "unembedded"} =>
                ChunksOf(f) = {}
        /\ at \in {"unlinked", "cleared", "parsed"} => OfFile(f, "calls") = {} /\ OfFile(f, "imports") = {}
        /\ at = "cleared" => SymbolsOf(f) = {}
        /\ at \in {"parsed", "linked", "embedded", "unembedded", "stored"} => SymbolsOf(f) = Defined(f, c, j)
        /\ at \in {"linked", "embedded", "unembedded", "stored"} =>
                OfFile(f, "calls") = CallsIn(c, j) /\ OfFile(f, "imports") \subseteq ImportsIn(c, j)
        /\ at = "stored" => ChunksOf(f) = {[file |-> f, of |-> c, job |-> j]}
        /\ f \in Known => \E k \in Jobs : WholeBy(f, rows[f].hash, k)

\* A file the scan has done with, or never took up, is as the clone has it, or not trusted.
Mirrored(w, f) ==
    LET c == Fresh(w)[f]
        asCloned == f \in Known /\ rows[f].hash = c
    IN  /\ f \in work[w].failed => work[w].at[f] = "ended"
        /\ work[w].at[f] = "ended" => IF f \in work[w].failed THEN f \notin Known ELSE asCloned
        /\ work[w].at[f] = "out" =>
                IF c = None THEN f \in work[w].deleted \/ f \notin Known
                ELSE asCloned \/ (work[w].pc = "pass1" /\ work[w].broken)

Remaining(w) == {f \in Paths : work[w].at[f] \notin {"out", "ended"}}

Counted(w) ==
    /\ DOMAIN jobs = Jobs
    /\ \A j \in Jobs :
        /\ DOMAIN jobs[j] = {"status", "total", "done", "failures", "unhealed"}
        /\ jobs[j].done \in Nat /\ jobs[j].total \in Nat
        /\ jobs[j].done <= jobs[j].total
        /\ jobs[j].status \in {"absent", "queued"} => jobs[j].total = 0
        /\ jobs[j].status = "done" => jobs[j].done = jobs[j].total
    /\ work[w].pc # "idle" => jobs[work[w].job].status = "running"
    /\ work[w].pc \in {"clone", "diff"} => jobs[work[w].job].total = 0
    /\ work[w].pc \in Past =>
        LET job == jobs[work[w].job]
        IN  /\ job.done + Cardinality(Remaining(w)) <= job.total
            /\ (work[w].pc = "pass1" /\ work[w].broken)
                    \/ job.done + Cardinality(Remaining(w)) = job.total

ScanInv(w) ==
    /\ WorkShape(w)
    /\ DatabaseShape(w)
    /\ Staged(w)
    /\ \A f \in Paths : FileSound(w, f)
    /\ work[w].pc \in Past => \A f \in Paths : Mirrored(w, f)
    /\ Counted(w)

-----------------------------------------------------------------------------
(* What a step leaves alone.                                               *)

\* Nothing is said of a file that the step does not touch; its imports may become fewer.
LEMMA FileSame ==
    ASSUME NEW w, NEW f \in Paths, FileSound(w, f),
           rows'[f] = rows[f], SymbolsOf(f)' = SymbolsOf(f), ChunksOf(f)' = ChunksOf(f),
           OfFile(f, "calls")' = OfFile(f, "calls"),
           OfFile(f, "imports")' \subseteq OfFile(f, "imports"),
           work'[w].at[f] = work[w].at[f], work'[w].id[f] = work[w].id[f],
           work'[w].tree = work[w].tree, work'[w].job = work[w].job
    PROVE  FileSound(w, f)'
  BY DEF FileSound, Known, WholeBy, Fresh

\* The database as it was.
LEMMA ViewsSame ==
    ASSUME UNCHANGED <<symbols, edges, chunks>>, NEW f
    PROVE  /\ SymbolsOf(f)' = SymbolsOf(f) /\ ChunksOf(f)' = ChunksOf(f)
           /\ OfFile(f, "calls")' = OfFile(f, "calls")
           /\ OfFile(f, "imports")' = OfFile(f, "imports")
  BY DEF SymbolsOf, ChunksOf, OfFile, ViewOf

\* The file is not at work and the database as it was.
LEMMA FileLeft ==
    ASSUME NEW w, NEW f \in Paths, FileSound(w, f), UNCHANGED <<rows, symbols, edges, chunks>>,
           work'[w].at[f] \in {"out", "wait", "ended"}
    PROVE  FileSound(w, f)'
  BY ViewsSame DEF FileSound, Known, WholeBy, Fresh

LEMMA KnownSame ==
    ASSUME NEW f \in Paths, rows'[f] = rows[f]
    PROVE  f \in Known' <=> f \in Known
  BY DEF Known

LEMMA MirrorSame ==
    ASSUME NEW w, NEW f \in Paths, Mirrored(w, f), rows'[f] = rows[f],
           work'[w].at[f] = work[w].at[f], work'[w].tree = work[w].tree,
           f \in work'[w].failed <=> f \in work[w].failed,
           f \in work'[w].deleted <=> f \in work[w].deleted,
           (work[w].pc = "pass1" /\ work[w].broken) => (work'[w].pc = "pass1" /\ work'[w].broken)
    PROVE  Mirrored(w, f)'
  BY KnownSame DEF Mirrored, Fresh

\* How a step moves one file.
LEMMA Moved ==
    ASSUME NEW w, WorkShape(w), NEW f \in Paths, NEW step \in FileSteps, MoveFile(w, f, step)
    PROVE  /\ DOMAIN work' = {w} /\ DOMAIN work'[w] = WorkFields
           /\ work'[w].at = [work[w].at EXCEPT ![f] = step]
           /\ work'[w].at[f] = step
           /\ \A g \in Paths \ {f} : work'[w].at[g] = work[w].at[g]
           /\ \A x \in WorkFields \ {"at"} : work'[w][x] = work[w][x]
  BY DEF MoveFile, WorkShape, WorkFields

\* How a step moves the job.
LEMMA Gone ==
    ASSUME NEW w, WorkShape(w), NEW pc, Goto(w, pc)
    PROVE  /\ DOMAIN work' = {w} /\ DOMAIN work'[w] = WorkFields
           /\ work'[w].pc = pc
           /\ \A x \in WorkFields \ {"pc"} : work'[w][x] = work[w][x]
  BY DEF Goto, WorkShape, WorkFields

\* A job that is left.
LEMMA Idled ==
    ASSUME NEW w, WorkShape(w), LeaveJob(w)
    PROVE  DOMAIN work' = {w} /\ work'[w] = NoWork
  BY DEF LeaveJob, WorkShape

-----------------------------------------------------------------------------
(* Steps outside the job.                                                  *)

LEMMA InitHolds == ASSUME NEW w, Solo(w), ScanInit PROVE ScanInv(w)
<1>1. work[w] = NoWork /\ DOMAIN work = {w}
  BY DEF ScanInit, Solo
<1>2. WorkShape(w) /\ DatabaseShape(w)
  BY <1>1 DEF WorkShape, DatabaseShape, NoWork, ScanInit, WorkFields, FileSteps, Past
<1>3. Staged(w)
  BY <1>1 DEF Staged, StagesAt, NoWork, Past
<1>4. \A f \in Paths : FileSound(w, f)
  BY <1>1 DEF FileSound, Known, NoWork, ScanInit
<1>5. Counted(w)
  BY <1>1 DEF Counted, NoWork, Past, ScanInit, Absent
<1> QED BY <1>1, <1>2, <1>3, <1>4, <1>5 DEF ScanInv, NoWork, Past

LEMMA OutsideKeeps ==
    ASSUME NEW w, Solo(w), ScanInv(w), PushCommit \/ Enqueue(w) \/ StashToken(w) PROVE ScanInv(w)'
<1>1. UNCHANGED <<work, rows, symbols, edges, chunks>> /\ head' \in Trees
  BY DEF PushCommit, Enqueue, StashToken, database, ScanInv, DatabaseShape
<1>2. WorkShape(w)' /\ DatabaseShape(w)' /\ Staged(w)'
  BY <1>1 DEF ScanInv, WorkShape, DatabaseShape, Staged, Fresh
<1>3. \A f \in Paths : FileSound(w, f)'
  BY <1>1, ViewsSame, FileSame DEF ScanInv
<1>4. work'[w].pc \in Past => \A f \in Paths : Mirrored(w, f)'
  BY <1>1, MirrorSame DEF ScanInv
<1>5. Counted(w)'
  <2>1. CASE UNCHANGED jobs
    BY <1>1, <2>1 DEF ScanInv, Counted, Remaining
  <2>2. CASE Enqueue(w)
    <3>1. PICK j \in Jobs : jobs[j] = Absent /\ jobs' = [jobs EXCEPT ![j].status = "queued"]
      BY <2>2 DEF Enqueue
    <3>2. work[w].pc # "idle" => work[w].job \in Jobs /\ work[w].job # j
      BY <3>1 DEF ScanInv, Counted, WorkShape, Absent
    <3>3. Remaining(w)' = Remaining(w)
      BY <1>1 DEF Remaining
    <3>4. work[w].pc \in Past => work[w].pc # "idle"
      BY DEF Past
    <3> QED BY <1>1, <3>1, <3>2, <3>3, <3>4 DEF ScanInv, Counted, Absent
  <2> QED BY <2>1, <2>2 DEF PushCommit, StashToken
<1> QED BY <1>1, <1>2, <1>3, <1>4, <1>5 DEF ScanInv

-----------------------------------------------------------------------------
(* Taking and leaving a job.                                               *)

\* A process without a job has no claim about any file's stage.
LEMMA IdleKeeps ==
    ASSUME NEW w, ScanInv(w), LeaveJob(w), UNCHANGED <<head, rows, symbols, edges, chunks>>, Counted(w)'
    PROVE  ScanInv(w)'
<1>1. DOMAIN work' = {w} /\ work'[w] = NoWork
  BY Idled DEF ScanInv
<1>2. WorkShape(w)' /\ DatabaseShape(w)'
  BY <1>1 DEF ScanInv, WorkShape, DatabaseShape, NoWork, WorkFields, FileSteps, Past
<1>3. Staged(w)'
  BY <1>1 DEF Staged, StagesAt, NoWork, Past
<1>4. \A f \in Paths : FileSound(w, f)'
  <2>1. \A f \in Paths : work'[w].at[f] = "out"
    BY <1>1 DEF NoWork
  <2> QED BY <2>1, FileLeft DEF ScanInv
<1> QED BY <1>1, <1>2, <1>3, <1>4 DEF ScanInv, NoWork, Past

\* The counters of jobs when the process has none.
LEMMA IdleCounted ==
    ASSUME NEW w, ScanInv(w), work'[w] = NoWork, UNCHANGED jobs
    PROVE  Counted(w)'
  BY DEF ScanInv, Counted, NoWork, Past

LEMMA FinishKeeps == ASSUME NEW w, Solo(w), ScanInv(w), FinishJob(w) PROVE ScanInv(w)'
<1>1. /\ work[w].pc = "done" /\ LeaveJob(w) /\ UNCHANGED <<head, rows, symbols, edges, chunks>>
      /\ jobs' = [jobs EXCEPT ![work[w].job].status = "done",
                              ![work[w].job].failures = work[w].failed,
                              ![work[w].job].unhealed = work[w].broken]
  BY DEF FinishJob, database
<1>2. work'[w] = NoWork
  BY <1>1, Idled DEF ScanInv
<1>3. Remaining(w) = {}
  BY <1>1 DEF ScanInv, Staged, StagesAt, Remaining
<1>4. jobs[work[w].job].done = jobs[work[w].job].total /\ work[w].job \in Jobs
  BY <1>1, <1>3, FS_EmptySet DEF ScanInv, Counted, Past, WorkShape
<1> DEFINE job == work[w].job
<1>5. DOMAIN jobs = Jobs /\ DOMAIN jobs[job] = {"status", "total", "done", "failures", "unhealed"}
  BY <1>4 DEF ScanInv, Counted
<1>6. /\ DOMAIN jobs' = Jobs /\ DOMAIN jobs'[job] = DOMAIN jobs[job]
      /\ jobs'[job].status = "done" /\ jobs'[job].done = jobs[job].done /\ jobs'[job].total = jobs[job].total
      /\ \A j \in Jobs \ {job} : jobs'[j] = jobs[j]
  <2> HIDE DEF job
  <2> QED BY <1>1, <1>4, <1>5 DEF job
<1>7. Counted(w)'
  <2> HIDE DEF job
  <2> QED BY <1>2, <1>4, <1>6 DEF ScanInv, Counted, NoWork, Past, job
<1> QED BY <1>1, <1>7, IdleKeeps

LEMMA FailKeeps == ASSUME NEW w, Solo(w), ScanInv(w), FailJob(w) PROVE ScanInv(w)'
<1>1. /\ work[w].pc = "fail" /\ LeaveJob(w) /\ UNCHANGED <<head, rows, symbols, edges, chunks>>
      /\ jobs' = [jobs EXCEPT ![work[w].job].status = "failed"]
  BY DEF FailJob, database
<1>2. work'[w] = NoWork /\ work[w].job \in Jobs
  BY <1>1, Idled DEF ScanInv, WorkShape
<1>3. Counted(w)'
  BY <1>1, <1>2 DEF ScanInv, Counted, NoWork, Past
<1> QED BY <1>1, <1>3, IdleKeeps

LEMMA CrashKeeps == ASSUME NEW w, Solo(w), ScanInv(w), Crash(w) PROVE ScanInv(w)'
<1>1. LeaveJob(w) /\ UNCHANGED <<head, jobs, rows, symbols, edges, chunks>>
  BY DEF Crash, database
<1> QED BY <1>1, Idled, IdleCounted, IdleKeeps DEF ScanInv

\* The job that waits longest is one that waits.
LEMMA OldestWaits == ASSUME NEW S \in SUBSET Jobs, S # {} PROVE Oldest(S) \in S
<1> DEFINE R == OpToRel(<, Nat)
<1>1. IsWellFoundedOn(R, Nat)
  BY NatLessThanWellFounded
<1>2. S \subseteq Nat
  BY ScanAssumption DEF Jobs
<1>3. PICK x \in S : \A y \in S : ~(<<y, x>> \in R)
  <2> HIDE DEF R
  <2> QED BY <1>1, <1>2, WFMin
<1>4. \A y \in S : ~(y < x)
  BY <1>2, <1>3 DEF OpToRel
<1>5. \A y \in S : x <= y
  BY <1>2, <1>4
<1> QED BY <1>5 DEF Oldest

\* A job is claimed with nothing in hand.
LEMMA ClaimKeeps == ASSUME NEW w, Solo(w), ScanInv(w), ClaimJob(w) PROVE ScanInv(w)'
<1> DEFINE j == Oldest(Queued)
<1>0. UNCHANGED <<head, rows, symbols, edges, chunks>> /\ work[w].pc = "idle"
  BY DEF ClaimJob, database, CanClaim
<1>1. /\ work' = [work EXCEPT ![w] = [NoWork EXCEPT !.pc = "clone", !.job = j]]
      /\ jobs' = [jobs EXCEPT ![j].status = "running"]
      /\ Queued # {}
  BY DEF ClaimJob
<1>2. j \in Jobs /\ jobs[j].status = "queued"
  BY <1>1, OldestWaits DEF Queued
<1> HIDE DEF j
<1>3. /\ DOMAIN work' = {w} /\ DOMAIN work'[w] = WorkFields
      /\ work'[w].pc = "clone" /\ work'[w].job = j
      /\ work'[w].at = [f \in Paths |-> "out"] /\ work'[w].id = [f \in Paths |-> 0]
      /\ work'[w].index = {} /\ work'[w].failed = {}
  BY <1>1 DEF ScanInv, WorkShape, NoWork, WorkFields
<1>4. WorkShape(w)' /\ DatabaseShape(w)'
  BY <1>0, <1>2, <1>3 DEF ScanInv, WorkShape, DatabaseShape, FileSteps, Past
<1>5. Staged(w)'
  BY <1>3 DEF Staged, StagesAt, Past
<1>6. \A f \in Paths : FileSound(w, f)'
  BY <1>0, <1>3, FileLeft DEF ScanInv
<1>7. Counted(w)'
  BY <1>0, <1>1, <1>2, <1>3 DEF ScanInv, Counted, Past
<1> QED BY <1>3, <1>4, <1>5, <1>6, <1>7 DEF ScanInv, Past

LEMMA CloneKeeps == ASSUME NEW w, Solo(w), ScanInv(w), CloneRepo(w) PROVE ScanInv(w)'
<1>1. /\ work[w].pc = "clone" /\ UNCHANGED <<head, jobs, rows, symbols, edges, chunks>>
      /\ \/ work' = [work EXCEPT ![w].pc = "fail"]
         \/ work' = [work EXCEPT ![w].pc = "diff", ![w].tree = head]
  BY DEF CloneRepo, database
<1>2. /\ DOMAIN work' = {w} /\ DOMAIN work'[w] = WorkFields
      /\ work'[w].pc \in {"fail", "diff"} /\ work'[w].job = work[w].job
      /\ work'[w].pc = "diff" => work'[w].tree = head
      /\ work'[w].at = work[w].at /\ work'[w].id = work[w].id
      /\ work'[w].index = work[w].index /\ work'[w].failed = work[w].failed
  BY <1>1 DEF ScanInv, WorkShape, WorkFields
<1>3. \A f \in Paths : work[w].at[f] = "out"
  BY <1>1 DEF ScanInv, Staged, StagesAt
<1>4. WorkShape(w)' /\ DatabaseShape(w)'
  BY <1>1, <1>2 DEF ScanInv, WorkShape, DatabaseShape, Past
<1>5. Staged(w)'
  BY <1>2, <1>3 DEF Staged, StagesAt, Past
<1>6. \A f \in Paths : FileSound(w, f)'
  BY <1>1, <1>2, <1>3, FileLeft DEF ScanInv
<1>7. Counted(w)'
  BY <1>1, <1>2 DEF ScanInv, Counted, Past
<1> QED BY <1>2, <1>4, <1>5, <1>6, <1>7 DEF ScanInv, Past

\* What the comparison takes up, deletes and leaves.
LEMMA DiffKeeps == ASSUME NEW w, Solo(w), ScanInv(w), Diff(w) PROVE ScanInv(w)'
<1> DEFINE changed == Changed(Fresh(w), Known)
           deleted == Deleted(Fresh(w), Known)
           job == work[w].job
<1>1. /\ work[w].pc = "diff" /\ UNCHANGED <<head, rows, symbols, edges, chunks>>
      /\ jobs' = [jobs EXCEPT ![job].total = Cardinality(changed)]
      /\ work' = [work EXCEPT ![w].pc = "purge", ![w].deleted = deleted,
                              ![w].touched = (changed \cup deleted # {}),
                              ![w].at = [f \in Paths |-> IF f \in changed THEN "wait" ELSE "out"]]
  BY DEF Diff, database
<1>2. /\ DOMAIN work' = {w} /\ DOMAIN work'[w] = WorkFields
      /\ work'[w].pc = "purge" /\ work'[w].job = job /\ work'[w].tree = work[w].tree
      /\ work'[w].deleted = deleted
      /\ work'[w].at = [f \in Paths |-> IF f \in changed THEN "wait" ELSE "out"]
      /\ work'[w].id = work[w].id
      /\ work'[w].index = work[w].index /\ work'[w].failed = work[w].failed
  <2> HIDE DEF changed, deleted
  <2> QED BY <1>1 DEF ScanInv, WorkShape, WorkFields
<1>3. \A f \in Paths : work[w].at[f] = "out" /\ f \notin work[w].failed
  BY <1>1 DEF ScanInv, Staged, StagesAt, WorkShape
<1> HIDE DEF job
<1>4. /\ changed \subseteq Paths /\ deleted \subseteq Paths
      /\ \A f \in changed : Fresh(w)[f] # None
      /\ \A f \in deleted : Fresh(w)[f] = None
      /\ \A f \in Paths \ changed :
            IF Fresh(w)[f] = None THEN f \in deleted \/ f \notin Known
            ELSE f \in Known /\ rows[f].hash = Fresh(w)[f]
  BY DEF Changed, Deleted, Known
<1> HIDE DEF changed, deleted
<1>5. WorkShape(w)' /\ DatabaseShape(w)'
  <2>1. work'[w].at \in [Paths -> FileSteps]
    BY <1>2 DEF FileSteps
  <2> QED BY <1>1, <1>2, <1>4, <2>1 DEF ScanInv, WorkShape, DatabaseShape, Past, job
<1>6. Staged(w)'
  BY <1>2, <1>4 DEF Staged, StagesAt, Past, Fresh
<1>7. \A f \in Paths : FileSound(w, f)'
  <2>1. \A f \in Paths : work'[w].at[f] \in {"out", "wait", "ended"}
    BY <1>2
  <2> QED BY <1>1, <2>1, FileLeft DEF ScanInv
<1>8. \A f \in Paths : Mirrored(w, f)'
  <2> TAKE f \in Paths
  <2>1. /\ f \in Known' <=> f \in Known
        /\ Fresh(w)'[f] = Fresh(w)[f] /\ rows'[f] = rows[f]
    BY <1>1, <1>2, KnownSame DEF Fresh
  <2>2. work'[w].at[f] = IF f \in changed THEN "wait" ELSE "out"
    BY <1>2
  <2>3. f \notin work'[w].failed
    BY <1>2, <1>3
  <2> QED BY <1>2, <1>4, <2>1, <2>2, <2>3 DEF Mirrored
<1>9. Counted(w)'
  <2>1. Remaining(w)' = changed
    BY <1>2, <1>4 DEF Remaining
  <2>2. Cardinality(changed) \in Nat
    BY <1>4, FS_Subset, FS_CardinalityType DEF Solo
  <2>0. job \in Jobs /\ jobs[job].status = "running" /\ jobs[job].total = 0
    BY <1>1 DEF ScanInv, Counted, WorkShape, job
  <2>3. /\ job \in Jobs /\ DOMAIN jobs = Jobs
        /\ DOMAIN jobs[job] = {"status", "total", "done", "failures", "unhealed"}
        /\ jobs[job].done = 0 /\ jobs[job].status = "running"
    BY <2>0 DEF ScanInv, Counted
  <2>4. /\ DOMAIN jobs' = Jobs /\ DOMAIN jobs'[job] = DOMAIN jobs[job]
        /\ jobs'[job].total = Cardinality(changed) /\ jobs'[job].done = 0
        /\ jobs'[job].status = "running"
        /\ \A j \in Jobs \ {job} : jobs'[j] = jobs[j]
    BY <1>1, <2>3
  <2>5. \A j \in Jobs :
          /\ DOMAIN jobs'[j] = {"status", "total", "done", "failures", "unhealed"}
          /\ jobs'[j].done \in Nat /\ jobs'[j].total \in Nat
          /\ jobs'[j].done <= jobs'[j].total
          /\ jobs'[j].status \in {"absent", "queued"} => jobs'[j].total = 0
          /\ jobs'[j].status = "done" => jobs'[j].done = jobs'[j].total
    BY <2>2, <2>3, <2>4 DEF ScanInv, Counted
  <2> QED BY <1>2, <2>1, <2>2, <2>4, <2>5 DEF Counted
<1> QED BY <1>2, <1>5, <1>6, <1>7, <1>8, <1>9 DEF ScanInv, Past

\* A statement of the job throws.
LEMMA ThrowKeeps == ASSUME NEW w, Solo(w), ScanInv(w), JobThrows(w) PROVE ScanInv(w)'
<1>1. /\ UNCHANGED <<head, jobs, rows, symbols, edges, chunks>>
      /\ work[w].pc \in {"clone", "diff", "purge", "commit", "done", "fail"}
      /\ IF work[w].pc = "fail" THEN LeaveJob(w) ELSE Goto(w, "fail")
  BY DEF JobThrows, database
<1>2. CASE work[w].pc = "fail"
  BY <1>1, <1>2, Idled, IdleCounted, IdleKeeps DEF ScanInv
<1>3. CASE work[w].pc # "fail"
  <2>1. /\ DOMAIN work' = {w} /\ DOMAIN work'[w] = WorkFields
        /\ work'[w].pc = "fail" /\ work'[w].job = work[w].job
        /\ work'[w].at = work[w].at /\ work'[w].id = work[w].id
        /\ work'[w].index = work[w].index /\ work'[w].failed = work[w].failed
    BY <1>1, <1>3 DEF Goto, ScanInv, WorkShape, WorkFields
  <2>2. \A f \in Paths : work[w].at[f] \in {"wait", "ended", "out"}
    BY <1>1, <1>3 DEF ScanInv, Staged, StagesAt
  <2>3. WorkShape(w)' /\ DatabaseShape(w)'
    BY <1>1, <2>1 DEF ScanInv, WorkShape, DatabaseShape, Past
  <2>4. Staged(w)'
    BY <2>1, <2>2 DEF Staged, StagesAt, Past
  <2>5. \A f \in Paths : FileSound(w, f)'
    BY <1>1, <2>1, <2>2, FileLeft DEF ScanInv
  <2>6. Counted(w)'
    BY <1>1, <2>1 DEF ScanInv, Counted, Past
  <2> QED BY <2>1, <2>3, <2>4, <2>5, <2>6 DEF ScanInv, Past
<1> QED BY <1>1, <1>2, <1>3

-----------------------------------------------------------------------------
(* The job goes on from pc to pc; the files and the database stay.         *)

\* What is left of a step that moves the job from one part of the scan to the next.
LEMMA MovesOn ==
    ASSUME NEW w, Solo(w), ScanInv(w), UNCHANGED <<head, jobs, rows, symbols, edges, chunks>>,
           work[w].pc \in Past, work'[w].pc \in Past,
           WorkShape(w)', \A s \in work'[w].index : IsSymbol(s),
           work'[w].job = work[w].job, work'[w].tree = work[w].tree,
           work'[w].at = work[w].at, work'[w].id = work[w].id,
           work'[w].deleted = work[w].deleted, work'[w].failed = work[w].failed,
           work[w].pc = "pass1" => ~work[w].broken,
           \A f \in Paths : f \notin work[w].deleted /\ work[w].at[f] \in StagesAt(work'[w].pc)
    PROVE  ScanInv(w)'
<1>1. DatabaseShape(w)'
  BY DEF ScanInv, DatabaseShape
<1>2. Staged(w)'
  BY DEF ScanInv, Staged, Fresh
<1>3. \A f \in Paths : FileSound(w, f)'
  BY ViewsSame, FileSame DEF ScanInv
<1>4. \A f \in Paths : Mirrored(w, f)'
  BY MirrorSame DEF ScanInv
<1>5. Counted(w)'
  <2>1. Remaining(w)' = Remaining(w)
    BY DEF Remaining
  <2>2. work[w].pc \notin {"idle", "clone", "diff"} /\ work'[w].pc \notin {"idle", "clone", "diff"}
    BY DEF Past
  <2> QED BY <2>1, <2>2 DEF ScanInv, Counted
<1> QED BY <1>1, <1>2, <1>3, <1>4, <1>5 DEF ScanInv

\* The same, of a step that does nothing else.
LEMMA OnwardTo ==
    ASSUME NEW w, Solo(w), ScanInv(w), UNCHANGED <<head, jobs, rows, symbols, edges, chunks>>,
           NEW pc \in Past, Goto(w, pc), work[w].pc \in Past \ {"pass1"},
           \A f \in Paths : f \notin work[w].deleted /\ work[w].at[f] \in StagesAt(pc)
    PROVE  ScanInv(w)'
<1>1. /\ DOMAIN work' = {w} /\ DOMAIN work'[w] = WorkFields /\ work'[w].pc = pc
      /\ work'[w].job = work[w].job /\ work'[w].tree = work[w].tree
      /\ work'[w].at = work[w].at /\ work'[w].id = work[w].id
      /\ work'[w].deleted = work[w].deleted /\ work'[w].failed = work[w].failed
      /\ work'[w].index = work[w].index
  BY Gone DEF ScanInv, WorkFields
<1>2. WorkShape(w)'
  BY <1>1 DEF ScanInv, WorkShape, Past
<1>3. \A s \in work'[w].index : IsSymbol(s)
  BY <1>1 DEF ScanInv, DatabaseShape
<1>4. work[w].pc = "pass1" => ~work[w].broken
  OBVIOUS
<1> QED BY <1>1, <1>2, <1>3, <1>4, MovesOn

LEMMA PurgedKeeps == ASSUME NEW w, Solo(w), ScanInv(w), PurgeDone(w) PROVE ScanInv(w)'
<1>1. /\ work[w].pc = "purge" /\ Goto(w, "pass1")
      /\ UNCHANGED <<head, jobs, rows, symbols, edges, chunks>>
  BY DEF PurgeDone, database
<1>2. work[w].pc \in Past \ {"pass1"} /\ "pass1" \in Past
  BY <1>1 DEF Past
<1>3. \A f \in Paths : f \notin work[w].deleted /\ work[w].at[f] \in StagesAt("pass1")
  BY <1>1, <1>2 DEF ScanInv, Staged, StagesAt, PurgeDone
<1> QED BY <1>1, <1>2, <1>3, OnwardTo

LEMMA WindowKeeps == ASSUME NEW w, Solo(w), ScanInv(w), WindowDone(w) PROVE ScanInv(w)'
<1>1. /\ work[w].pc = "chunks" /\ Goto(w, "pass2")
      /\ UNCHANGED <<head, jobs, rows, symbols, edges, chunks>>
  BY DEF WindowDone, database
<1>2. work[w].pc \in Past \ {"pass1"} /\ "pass2" \in Past
  BY <1>1 DEF Past
<1>3. \A f \in Paths : f \notin work[w].deleted /\ work[w].at[f] \in StagesAt("pass2")
  BY <1>1, <1>2 DEF ScanInv, Staged, StagesAt, At, WindowDone
<1> QED BY <1>1, <1>2, <1>3, OnwardTo

LEMMA Pass2Keeps == ASSUME NEW w, Solo(w), ScanInv(w), Pass2Done(w) PROVE ScanInv(w)'
<1>1. /\ work[w].pc = "pass2" /\ Goto(w, "heal")
      /\ UNCHANGED <<head, jobs, rows, symbols, edges, chunks>>
  BY DEF Pass2Done, database
<1>2. work[w].pc \in Past \ {"pass1"} /\ "heal" \in Past
  BY <1>1 DEF Past
<1>3. \A f \in Paths : f \notin work[w].deleted /\ work[w].at[f] \in StagesAt("heal")
  BY <1>1, <1>2 DEF ScanInv, Staged, StagesAt, At, Pass2Done
<1> QED BY <1>1, <1>2, <1>3, OnwardTo

LEMMA SkipKeeps == ASSUME NEW w, Solo(w), ScanInv(w), SkipHealing(w) PROVE ScanInv(w)'
<1>1. /\ work[w].pc = "heal" /\ Goto(w, "commit")
      /\ UNCHANGED <<head, jobs, rows, symbols, edges, chunks>>
  BY DEF SkipHealing, database
<1>2. work[w].pc \in Past \ {"pass1"} /\ "commit" \in Past
  BY <1>1 DEF Past
<1>3. \A f \in Paths : f \notin work[w].deleted /\ work[w].at[f] \in StagesAt("commit")
  BY <1>1, <1>2 DEF ScanInv, Staged, StagesAt
<1> QED BY <1>1, <1>2, <1>3, OnwardTo

LEMMA CommitKeeps == ASSUME NEW w, Solo(w), ScanInv(w), UpdateCommit(w) PROVE ScanInv(w)'
<1>1. /\ work[w].pc = "commit" /\ Goto(w, "done")
      /\ UNCHANGED <<head, jobs, rows, symbols, edges, chunks>>
  BY DEF UpdateCommit, database
<1>2. work[w].pc \in Past \ {"pass1"} /\ "done" \in Past
  BY <1>1 DEF Past
<1>3. \A f \in Paths : f \notin work[w].deleted /\ work[w].at[f] \in StagesAt("done")
  BY <1>1, <1>2 DEF ScanInv, Staged, StagesAt
<1> QED BY <1>1, <1>2, <1>3, OnwardTo

LEMMA NextWindowKeeps == ASSUME NEW w, Solo(w), ScanInv(w), NextWindow(w) PROVE ScanInv(w)'
<1>1. work[w].pc = "pass2" /\ UNCHANGED <<head, jobs, rows, symbols, edges, chunks>>
  BY DEF NextWindow, database
<1>2. PICK S : work' = [work EXCEPT ![w].pc = "edges", ![w].window = S]
  BY DEF NextWindow
<1>3. /\ DOMAIN work' = {w} /\ DOMAIN work'[w] = WorkFields /\ work'[w].pc = "edges"
      /\ \A x \in WorkFields \ {"pc", "window"} : work'[w][x] = work[w][x]
  BY <1>2 DEF ScanInv, WorkShape, WorkFields
<1>4. WorkShape(w)'
  BY <1>1, <1>3 DEF ScanInv, WorkShape, Past, WorkFields
<1>5. \A f \in Paths : f \notin work[w].deleted /\ work[w].at[f] \in StagesAt("edges")
  BY <1>1 DEF ScanInv, Staged, StagesAt, Past
<1> QED BY <1>1, <1>3, <1>4, <1>5, MovesOn DEF ScanInv, DatabaseShape, WorkFields, Past

\* The first pass ends with every file parsed, or the job fails.
LEMMA Pass1Keeps == ASSUME NEW w, Solo(w), ScanInv(w), Pass1Done(w) PROVE ScanInv(w)'
<1>1. /\ work[w].pc = "pass1" /\ UNCHANGED <<head, jobs, rows, symbols, edges, chunks>>
      /\ InFlight(w) = {} /\ (work[w].broken \/ At(w, {"wait"}) = {})
  BY DEF Pass1Done, database
<1>2. \A f \in Paths : /\ f \notin work[w].deleted
                       /\ work[w].at[f] \in {"wait", "parsed", "out"}
                       /\ ~work[w].broken => work[w].at[f] # "wait"
  BY <1>1 DEF ScanInv, Staged, StagesAt, InFlight, At, Past
<1>3. CASE work[w].broken
  <2>1. work' = [work EXCEPT ![w].pc = "fail"]
    BY <1>3 DEF Pass1Done
  <2>2. /\ DOMAIN work' = {w} /\ DOMAIN work'[w] = WorkFields /\ work'[w].pc = "fail"
        /\ \A x \in WorkFields \ {"pc"} : work'[w][x] = work[w][x]
    BY <2>1 DEF ScanInv, WorkShape, WorkFields
  <2>3. WorkShape(w)' /\ DatabaseShape(w)'
    BY <1>1, <2>2 DEF ScanInv, WorkShape, DatabaseShape, Past, WorkFields
  <2>4. Staged(w)'
    BY <1>2, <2>2 DEF Staged, StagesAt, Past, WorkFields
  <2>5. \A f \in Paths : FileSound(w, f)'
    BY <1>1, <2>2, ViewsSame, FileSame DEF ScanInv, WorkFields
  <2>6. Counted(w)'
    BY <1>1, <2>2 DEF ScanInv, Counted, Past, WorkFields
  <2> QED BY <2>2, <2>3, <2>4, <2>5, <2>6 DEF ScanInv, Past
<1>4. CASE ~work[w].broken
  <2>1. PICK files : work' = [work EXCEPT ![w].pc = "pass2", ![w].index = symbols, ![w].files = files]
    BY <1>4 DEF Pass1Done
  <2>2. /\ DOMAIN work' = {w} /\ DOMAIN work'[w] = WorkFields /\ work'[w].pc = "pass2"
        /\ work'[w].index = symbols
        /\ \A x \in WorkFields \ {"pc", "index", "files"} : work'[w][x] = work[w][x]
    BY <2>1 DEF ScanInv, WorkShape, WorkFields
  <2>3. WorkShape(w)'
    BY <1>1, <2>2 DEF ScanInv, WorkShape, Past, WorkFields
  <2>4. \A f \in Paths : f \notin work[w].deleted /\ work[w].at[f] \in StagesAt("pass2")
    BY <1>2, <1>4 DEF StagesAt
  <2> QED BY <1>1, <1>4, <2>2, <2>3, <2>4, MovesOn DEF ScanInv, DatabaseShape, WorkFields, Past
<1> QED BY <1>3, <1>4

\* The files of a window that have their edges have them whether or not they were embedded.
LEMMA EmbedKeeps == ASSUME NEW w, Solo(w), ScanInv(w), EmbedWindow(w) PROVE ScanInv(w)'
<1>1. /\ work[w].pc = "edges" /\ UNCHANGED <<head, jobs, rows, symbols, edges, chunks>>
  BY DEF EmbedWindow, database
<1>2. PICK bad \in SUBSET At(w, {"linked"}) :
            work' = [work EXCEPT ![w].pc = "chunks",
                                 ![w].at = [f \in Paths |->
                                        CASE f \in bad -> "unembedded"
                                          [] f \in At(w, {"linked"}) \ bad -> "embedded"
                                          [] OTHER -> @[f]]]
  BY DEF EmbedWindow
<1> DEFINE at == [f \in Paths |-> IF f \in bad THEN "unembedded"
                                  ELSE IF work[w].at[f] = "linked" THEN "embedded" ELSE work[w].at[f]]
<1>3. /\ DOMAIN work' = {w} /\ DOMAIN work'[w] = WorkFields /\ work'[w].pc = "chunks"
      /\ work'[w].at = at
      /\ \A x \in WorkFields \ {"pc", "at"} : work'[w][x] = work[w][x]
  <2>1. at = [f \in Paths |-> CASE f \in bad -> "unembedded"
                                [] f \in At(w, {"linked"}) \ bad -> "embedded"
                                [] OTHER -> work[w].at[f]]
    BY DEF At
  <2> HIDE DEF at
  <2> QED BY <1>2, <2>1 DEF ScanInv, WorkShape, WorkFields
<1>4. \A f \in Paths :
        /\ f \notin work[w].deleted
        /\ IF work[w].at[f] = "linked" THEN work'[w].at[f] \in {"unembedded", "embedded"}
           ELSE /\ work'[w].at[f] = work[w].at[f]
                /\ work[w].at[f] \in {"parsed", "ended", "out"}
  <2>1. \A f \in Paths : f \notin work[w].deleted /\ work[w].at[f] \in {"parsed", "linked", "ended", "out"}
    BY <1>1 DEF ScanInv, Staged, StagesAt, Past
  <2>2. \A f \in bad : work[w].at[f] = "linked"
    BY DEF At
  <2>3. \A f \in Paths : work'[w].at[f] = at[f]
    BY <1>3
  <2> QED BY <2>1, <2>2, <2>3
<1>5. WorkShape(w)' /\ DatabaseShape(w)'
  <2>1. work'[w].at \in [Paths -> FileSteps]
    BY <1>3, <1>4 DEF FileSteps
  <2> HIDE DEF at
  <2> QED BY <1>1, <1>3, <2>1 DEF ScanInv, WorkShape, DatabaseShape, Past, WorkFields
<1> HIDE DEF at
<1>6. Staged(w)'
  BY <1>1, <1>3, <1>4 DEF ScanInv, Staged, StagesAt, Past, WorkFields, Fresh
<1>7. \A f \in Paths : FileSound(w, f)'
  <2> TAKE f \in Paths
  <2>1. CASE work[w].at[f] = "linked"
    BY <1>1, <1>3, <1>4, <2>1, ViewsSame DEF ScanInv, FileSound, Known, WholeBy, Fresh, WorkFields
  <2>2. CASE work[w].at[f] # "linked"
    BY <1>1, <1>3, <1>4, <2>2, ViewsSame, FileSame DEF ScanInv, WorkFields
  <2> QED BY <2>1, <2>2
<1>8. \A f \in Paths : Mirrored(w, f)'
  <2> TAKE f \in Paths
  <2>1. Mirrored(w, f)
    BY <1>1 DEF ScanInv, Past
  <2> QED BY <1>1, <1>3, <1>4, <2>1, KnownSame DEF Mirrored, Fresh, WorkFields
<1>9. Counted(w)'
  <2>1. Remaining(w)' = Remaining(w)
    BY <1>3, <1>4 DEF Remaining
  <2> QED BY <1>1, <1>3, <2>1 DEF ScanInv, Counted, Past, WorkFields
<1> QED BY <1>3, <1>5, <1>6, <1>7, <1>8, <1>9 DEF ScanInv, Past

-----------------------------------------------------------------------------
(* Steps of one file.                                                      *)

\* What is said of the other files when the step touches only what the database has of this one.
LEMMA OthersKept ==
    ASSUME NEW w, ScanInv(w), NEW f \in Paths, work[w].pc \in Past,
           NEW g \in Paths \ {f},
           rows'[g] = rows[g], SymbolsOf(g)' = SymbolsOf(g), ChunksOf(g)' = ChunksOf(g),
           OfFile(g, "calls")' = OfFile(g, "calls"),
           OfFile(g, "imports")' \subseteq OfFile(g, "imports"),
           work'[w].pc = work[w].pc, work'[w].tree = work[w].tree, work'[w].job = work[w].job,
           work'[w].at[g] = work[w].at[g], work'[w].id[g] = work[w].id[g],
           g \in work'[w].failed <=> g \in work[w].failed,
           g \in work'[w].deleted <=> g \in work[w].deleted,
           work[w].broken => work'[w].broken
    PROVE  FileSound(w, g)' /\ Mirrored(w, g)'
<1>1. FileSound(w, g)'
  BY FileSame DEF ScanInv
<1>2. Mirrored(w, g)'
  BY MirrorSame DEF ScanInv
<1> QED BY <1>1, <1>2

\* A file that stays among those that remain does not change the count.
LEMMA CountSame ==
    ASSUME NEW w, ScanInv(w), NEW f \in Paths, work[w].pc \in Past, UNCHANGED jobs,
           work'[w].pc = work[w].pc, work'[w].job = work[w].job,
           \A g \in Paths \ {f} : work'[w].at[g] = work[w].at[g],
           work[w].at[f] \in {"out", "ended"} <=> work'[w].at[f] \in {"out", "ended"},
           work'[w].broken = work[w].broken
    PROVE  Counted(w)'
<1>1. Remaining(w)' = Remaining(w)
  BY DEF Remaining
<1> QED BY <1>1 DEF ScanInv, Counted, Past

\* The first step of a file: its row has the new hash, which is not trusted.
LEMMA StartFileKeeps ==
    ASSUME NEW w, Solo(w), ScanInv(w), NEW f \in Paths, StartFile(w, f) PROVE ScanInv(w)'
<1> DEFINE id == IF rows[f] = None THEN work[w].job ELSE rows[f].id
           row == [id |-> id, hash |-> Fresh(w)[f], indexed |-> FALSE]
<1>1. /\ work[w].pc = "pass1" /\ work[w].at[f] = "wait"
      /\ UNCHANGED <<head, jobs, symbols, edges, chunks>>
      /\ rows' = [rows EXCEPT ![f] = row]
      /\ work' = [work EXCEPT ![w].at[f] = "upserted", ![w].id[f] = id]
  BY DEF StartFile, Upserted
<1>2. row # None /\ DOMAIN row = {"id", "hash", "indexed"}
      /\ row.id = id /\ row.hash = Fresh(w)[f] /\ row.indexed = FALSE
  BY DEF Solo
<1> HIDE DEF id, row
<1>3. /\ DOMAIN work' = {w} /\ DOMAIN work'[w] = WorkFields
      /\ work'[w].at = [work[w].at EXCEPT ![f] = "upserted"]
      /\ work'[w].id = [work[w].id EXCEPT ![f] = id]
      /\ \A x \in WorkFields \ {"at", "id"} : work'[w][x] = work[w][x]
  BY <1>1 DEF ScanInv, WorkShape, WorkFields
<1>4. /\ work'[w].at[f] = "upserted" /\ work'[w].id[f] = id
      /\ \A g \in Paths \ {f} : /\ work'[w].at[g] = work[w].at[g] /\ work'[w].id[g] = work[w].id[g]
                                /\ rows'[g] = rows[g]
      /\ rows'[f] = row /\ DOMAIN rows' = Paths
  BY <1>1, <1>3 DEF ScanInv, WorkShape, DatabaseShape
<1>5. WorkShape(w)'
  BY <1>1, <1>3 DEF ScanInv, WorkShape, WorkFields, FileSteps
<1>6. DatabaseShape(w)'
  <2>1. \A g \in Paths : rows'[g] # None => /\ DOMAIN rows'[g] = {"id", "hash", "indexed"}
                                            /\ rows'[g].indexed \in BOOLEAN
    BY <1>2, <1>4 DEF ScanInv, DatabaseShape
  <2>2. work'[w].index = work[w].index
    BY <1>3 DEF WorkFields
  <2> QED BY <1>1, <1>4, <2>1, <2>2 DEF ScanInv, DatabaseShape
<1>7. Staged(w)'
  BY <1>1, <1>3, <1>4 DEF ScanInv, Staged, StagesAt, WorkFields, Past, Fresh
<1>8. \A g \in Paths \ {f} : FileSound(w, g)' /\ Mirrored(w, g)'
  <2> TAKE g \in Paths \ {f}
  <2>1. /\ rows'[g] = rows[g]
        /\ work'[w].pc = work[w].pc /\ work'[w].tree = work[w].tree /\ work'[w].job = work[w].job
        /\ work'[w].at[g] = work[w].at[g] /\ work'[w].id[g] = work[w].id[g]
        /\ work'[w].failed = work[w].failed /\ work'[w].deleted = work[w].deleted
        /\ work'[w].broken = work[w].broken
    BY <1>3, <1>4 DEF WorkFields
  <2>2. /\ SymbolsOf(g)' = SymbolsOf(g) /\ ChunksOf(g)' = ChunksOf(g)
        /\ OfFile(g, "calls")' = OfFile(g, "calls")
        /\ OfFile(g, "imports")' \subseteq OfFile(g, "imports")
    BY <1>1, ViewsSame
  <2>3. work[w].pc \in Past
    BY <1>1 DEF Past
  <2> QED BY <2>1, <2>2, <2>3, OthersKept
<1>9. FileSound(w, f)' /\ Mirrored(w, f)'
  <2>1. f \notin Known' /\ f \notin work[w].failed
    BY <1>1, <1>2, <1>4 DEF Known, ScanInv, Mirrored, Past
  <2> QED BY <1>1, <1>2, <1>3, <1>4, <2>1 DEF FileSound, Mirrored, Fresh, WorkFields
<1>c. Counted(w)'
  BY <1>1, <1>3, <1>4, CountSame DEF WorkFields, Past
<1> QED BY <1>5, <1>6, <1>7, <1>8, <1>9, <1>c DEF ScanInv

\* A step of a file that neither begins nor ends its part in the scan.
LEMMA MoveKeeps ==
    ASSUME NEW w, ScanInv(w), NEW f \in Paths, work[w].pc \in Past,
           NEW step \in FileSteps, step \in StagesAt(work[w].pc), step \notin {"out", "ended"},
           work[w].at[f] \notin {"out", "ended"}, MoveFile(w, f, step),
           UNCHANGED <<head, jobs, rows>>, DatabaseShape(w)', FileSound(w, f)',
           \A g \in Paths \ {f} :
                /\ SymbolsOf(g)' = SymbolsOf(g) /\ ChunksOf(g)' = ChunksOf(g)
                /\ OfFile(g, "calls")' = OfFile(g, "calls")
                /\ OfFile(g, "imports")' \subseteq OfFile(g, "imports")
    PROVE  ScanInv(w)'
<1>1. /\ DOMAIN work' = {w} /\ DOMAIN work'[w] = WorkFields
      /\ work'[w].at = [work[w].at EXCEPT ![f] = step]
      /\ work'[w].at[f] = step
      /\ \A g \in Paths \ {f} : work'[w].at[g] = work[w].at[g]
      /\ \A x \in WorkFields \ {"at"} : work'[w][x] = work[w][x]
  BY Moved DEF ScanInv
<1>2. WorkShape(w)'
  BY <1>1 DEF ScanInv, WorkShape, WorkFields
<1>3. Staged(w)'
  BY <1>1 DEF ScanInv, Staged, WorkFields, Fresh
<1>4. \A g \in Paths \ {f} : FileSound(w, g)' /\ Mirrored(w, g)'
  <2> TAKE g \in Paths \ {f}
  <2>1. /\ rows'[g] = rows[g]
        /\ work'[w].pc = work[w].pc /\ work'[w].tree = work[w].tree /\ work'[w].job = work[w].job
        /\ work'[w].at[g] = work[w].at[g] /\ work'[w].id[g] = work[w].id[g]
        /\ work'[w].failed = work[w].failed /\ work'[w].deleted = work[w].deleted
        /\ work'[w].broken = work[w].broken
    BY <1>1 DEF WorkFields
  <2> QED BY <2>1, OthersKept
<1>5. Mirrored(w, f)'
  <2>1. f \notin work[w].failed
    BY DEF ScanInv, Mirrored
  <2> QED BY <1>1, <2>1 DEF Mirrored, WorkFields
<1>6. Counted(w)'
  BY <1>1, CountSame DEF WorkFields
<1> QED BY <1>2, <1>3, <1>4, <1>5, <1>6 DEF ScanInv

\* The row a step finds is the one the job's first step wrote.
LEMMA RowIsThere ==
    ASSUME NEW w, ScanInv(w), NEW f \in Paths,
           work[w].at[f] \in {"upserted", "unchunked", "unlinked", "cleared", "parsed", "linked",
                              "embedded", "unembedded", "stored"}
    PROVE  RowStands(w, f) /\ rows[f].hash = Fresh(w)[f] /\ ~rows[f].indexed /\ f \notin Known
  BY DEF ScanInv, FileSound, RowStands, Known

\* The step in the first pass at which a file is says what the job is at.
LEMMA InPass1 ==
    ASSUME NEW w, ScanInv(w), NEW f \in Paths,
           work[w].at[f] \in {"upserted", "unchunked", "unlinked", "cleared"}
    PROVE  work[w].pc = "pass1"
  BY DEF ScanInv, Staged, StagesAt, WorkShape, Past

LEMMA InChunks ==
    ASSUME NEW w, ScanInv(w), NEW f \in Paths,
           work[w].at[f] \in {"embedded", "unembedded", "stored"}
    PROVE  work[w].pc = "chunks"
  BY DEF ScanInv, Staged, StagesAt, WorkShape, Past

LEMMA DeleteChunksKeeps ==
    ASSUME NEW w, Solo(w), ScanInv(w), NEW f \in Paths, DeleteChunks(w, f) PROVE ScanInv(w)'
<1>1. /\ work[w].at[f] = "upserted" /\ MoveFile(w, f, "unchunked")
      /\ UNCHANGED <<head, jobs, rows, symbols, edges>>
  BY DEF DeleteChunks
<1>2. work[w].pc = "pass1" /\ RowStands(w, f)
  BY <1>1, InPass1, RowIsThere
<1>3. chunks' = {c \in chunks : c.file # f}
  BY <1>2 DEF DeleteChunks
<1>4. /\ ChunksOf(f)' = {}
      /\ \A g \in Paths \ {f} : ChunksOf(g)' = ChunksOf(g)
      /\ \A g \in Paths : /\ SymbolsOf(g)' = SymbolsOf(g)
                          /\ OfFile(g, "calls")' = OfFile(g, "calls")
                          /\ OfFile(g, "imports")' = OfFile(g, "imports")
  BY <1>1, <1>3 DEF ChunksOf, SymbolsOf, OfFile, ViewOf
<1>5. /\ work'[w].at[f] = "unchunked"
      /\ \A x \in WorkFields \ {"at"} : work'[w][x] = work[w][x]
  BY <1>1, Moved DEF ScanInv, FileSteps
<1>6. FileSound(w, f)'
  BY <1>1, <1>4, <1>5 DEF ScanInv, FileSound, Known, Fresh, WorkFields
<1>7. DatabaseShape(w)'
  BY <1>1, <1>5 DEF ScanInv, DatabaseShape, WorkFields
<1> QED BY <1>1, <1>2, <1>4, <1>6, <1>7, MoveKeeps DEF Past, FileSteps, StagesAt

\* Deleting the edges of a file leaves those of the others.
LEMMA DeleteEdgesKeeps ==
    ASSUME NEW w, Solo(w), ScanInv(w), NEW f \in Paths, DeleteEdges(w, f) PROVE ScanInv(w)'
<1>1. /\ work[w].at[f] = "unchunked" /\ MoveFile(w, f, "unlinked")
      /\ UNCHANGED <<head, jobs, rows, symbols, chunks>>
  BY DEF DeleteEdges
<1>2. work[w].pc = "pass1" /\ RowStands(w, f)
  BY <1>1, InPass1, RowIsThere
<1>3. edges' = {e \in edges : e.src # f}
  BY <1>2 DEF DeleteEdges
<1>4. /\ OfFile(f, "calls")' = {} /\ OfFile(f, "imports")' = {}
      /\ \A g \in Paths \ {f} : /\ OfFile(g, "calls")' = OfFile(g, "calls")
                                /\ OfFile(g, "imports")' = OfFile(g, "imports")
      /\ \A g \in Paths : SymbolsOf(g)' = SymbolsOf(g) /\ ChunksOf(g)' = ChunksOf(g)
  BY <1>1, <1>3 DEF ChunksOf, SymbolsOf, OfFile, ViewOf
<1>5. /\ work'[w].at[f] = "unlinked"
      /\ \A x \in WorkFields \ {"at"} : work'[w][x] = work[w][x]
  BY <1>1, Moved DEF ScanInv, FileSteps
<1>6. FileSound(w, f)'
  BY <1>1, <1>4, <1>5 DEF ScanInv, FileSound, Known, Fresh, WorkFields
<1>7. DatabaseShape(w)'
  BY <1>1, <1>3, <1>5 DEF ScanInv, DatabaseShape, WorkFields
<1> QED BY <1>1, <1>2, <1>4, <1>6, <1>7, MoveKeeps DEF Past, FileSteps, StagesAt

-----------------------------------------------------------------------------
(* What becomes of edges when symbols go.                                  *)

\* The edges of es that are left, and what they are, when the symbols of one file go: calls
\* of other files lose at most their target.
LEMMA BereftOthers ==
    ASSUME NEW es, NEW gone, NEW g, \A e \in es : IsEdge(e), \A s \in gone : s.file # g,
           NEW kind \in {"calls", "imports"}
    PROVE  ViewOf(Bereft(es, gone), g, kind) = ViewOf(es, g, kind)
<1> DEFINE Cut(e) == [e EXCEPT !.dst = IF @ \in gone THEN None ELSE @]
           Stay == {x \in es : x.kind = "imports" \/ ~\E s \in gone : s.file = x.src /\ s.job = x.job}
<1>1. Bereft(es, gone) = {Cut(e) : e \in Stay}
  BY DEF Bereft
<1>2. \A e \in es : Cut(e).src = e.src /\ Cut(e).kind = e.kind /\ Cut(e).what = e.what /\ Cut(e).job = e.job
  BY DEF IsEdge
<1>3. \A e \in es : e.src = g => e \in Stay
  OBVIOUS
<1>4. Stay \subseteq es
  OBVIOUS
<1> HIDE DEF Cut, Stay
<1> QED BY <1>1, <1>2, <1>3, <1>4 DEF ViewOf

LEMMA BereftShape ==
    ASSUME NEW es, NEW gone, \A e \in es : IsEdge(e)
    PROVE  \A e \in Bereft(es, gone) : IsEdge(e)
  BY DEF Bereft, IsEdge

\* What is left of a file's own edges is at most what there was.
LEMMA BereftOwn ==
    ASSUME NEW es, NEW gone, NEW f, \A e \in es : IsEdge(e), NEW kind \in {"calls", "imports"}
    PROVE  ViewOf(Bereft(es, gone), f, kind) \subseteq ViewOf(es, f, kind)
<1> DEFINE Cut(e) == [e EXCEPT !.dst = IF @ \in gone THEN None ELSE @]
           Stay == {x \in es : x.kind = "imports" \/ ~\E s \in gone : s.file = x.src /\ s.job = x.job}
<1>1. Bereft(es, gone) = {Cut(e) : e \in Stay}
  BY DEF Bereft
<1>2. \A e \in es : Cut(e).src = e.src /\ Cut(e).kind = e.kind /\ Cut(e).what = e.what /\ Cut(e).job = e.job
  BY DEF IsEdge
<1>4. Stay \subseteq es
  OBVIOUS
<1> HIDE DEF Cut, Stay
<1> QED BY <1>1, <1>2, <1>4 DEF ViewOf

LEMMA DeleteSymbolsKeeps ==
    ASSUME NEW w, Solo(w), ScanInv(w), NEW f \in Paths, DeleteSymbols(w, f) PROVE ScanInv(w)'
<1>1. /\ work[w].at[f] = "unlinked" /\ MoveFile(w, f, "cleared")
      /\ UNCHANGED <<head, jobs, rows, chunks>>
  BY DEF DeleteSymbols
<1>2. work[w].pc = "pass1" /\ RowStands(w, f)
  BY <1>1, InPass1, RowIsThere
<1>3. symbols' = symbols \ SymbolsOf(f) /\ edges' = Bereft(edges, SymbolsOf(f))
  BY <1>2 DEF DeleteSymbols
<1>s. \A s \in SymbolsOf(f) : s.file = f
  BY DEF SymbolsOf
<1>e. \A e \in edges : IsEdge(e)
  BY DEF ScanInv, DatabaseShape
<1>4. /\ SymbolsOf(f)' = {}
      /\ \A g \in Paths \ {f} : SymbolsOf(g)' = SymbolsOf(g)
      /\ \A g \in Paths : ChunksOf(g)' = ChunksOf(g)
  BY <1>1, <1>3 DEF ChunksOf, SymbolsOf
<1>5. \A g \in Paths \ {f} : /\ OfFile(g, "calls")' = OfFile(g, "calls")
                             /\ OfFile(g, "imports")' = OfFile(g, "imports")
  <2> TAKE g \in Paths \ {f}
  <2>1. \A kind \in {"calls", "imports"} :
            ViewOf(Bereft(edges, SymbolsOf(f)), g, kind) = ViewOf(edges, g, kind)
    <3> DEFINE gone == SymbolsOf(f)
    <3>1. \A s \in gone : s.file # g
      BY <1>s
    <3> HIDE DEF gone
    <3>2. \A kind \in {"calls", "imports"} : ViewOf(Bereft(edges, gone), g, kind) = ViewOf(edges, g, kind)
      <4> TAKE kind \in {"calls", "imports"}
      <4> QED BY <1>e, <3>1, BereftOthers
    <3> QED BY <3>2 DEF gone
  <2> QED BY <1>3, <2>1 DEF OfFile
<1>6. OfFile(f, "calls")' = {} /\ OfFile(f, "imports")' = {}
  <2>1. OfFile(f, "calls") = {} /\ OfFile(f, "imports") = {}
    BY <1>1 DEF ScanInv, FileSound
  <2>2. /\ OfFile(f, "calls")' \subseteq OfFile(f, "calls")
        /\ OfFile(f, "imports")' \subseteq OfFile(f, "imports")
    BY <1>3, <1>e, BereftOwn DEF OfFile
  <2> QED BY <2>1, <2>2
<1>7. /\ work'[w].at[f] = "cleared"
      /\ \A x \in WorkFields \ {"at"} : work'[w][x] = work[w][x]
  BY <1>1, Moved DEF ScanInv, FileSteps
<1>8. FileSound(w, f)'
  BY <1>1, <1>4, <1>6, <1>7 DEF ScanInv, FileSound, Known, Fresh, WorkFields
<1>9. DatabaseShape(w)'
  BY <1>1, <1>3, <1>7, <1>e, BereftShape DEF ScanInv, DatabaseShape, WorkFields
<1> QED BY <1>1, <1>2, <1>4, <1>5, <1>8, <1>9, MoveKeeps DEF Past, FileSteps, StagesAt

LEMMA InsertSymbolsKeeps ==
    ASSUME NEW w, Solo(w), ScanInv(w), NEW f \in Paths, InsertSymbols(w, f) PROVE ScanInv(w)'
<1>1. /\ work[w].at[f] = "cleared" /\ MoveFile(w, f, "parsed")
      /\ UNCHANGED <<head, jobs, rows, edges, chunks>>
      /\ symbols' = symbols \cup Defined(f, Fresh(w)[f], work[w].job)
  BY DEF InsertSymbols
<1>2. work[w].pc = "pass1"
  BY <1>1, InPass1
<1>3. \A s \in Defined(f, Fresh(w)[f], work[w].job) : s.file = f /\ IsSymbol(s)
  BY DEF Defined, IsSymbol
<1>4. /\ SymbolsOf(f) = {}
      /\ SymbolsOf(f)' = Defined(f, Fresh(w)[f], work[w].job)
      /\ \A g \in Paths \ {f} : SymbolsOf(g)' = SymbolsOf(g)
      /\ \A g \in Paths : /\ ChunksOf(g)' = ChunksOf(g)
                          /\ OfFile(g, "calls")' = OfFile(g, "calls")
                          /\ OfFile(g, "imports")' = OfFile(g, "imports")
  <2>1. SymbolsOf(f) = {}
    BY <1>1 DEF ScanInv, FileSound
  <2>2. SymbolsOf(f)' = Defined(f, Fresh(w)[f], work[w].job)
    BY <1>1, <1>3, <2>1 DEF SymbolsOf
  <2>3. \A g \in Paths \ {f} : SymbolsOf(g)' = SymbolsOf(g)
    BY <1>1, <1>3 DEF SymbolsOf
  <2> QED BY <1>1, <2>1, <2>2, <2>3 DEF ChunksOf, OfFile, ViewOf
<1>5. /\ work'[w].at[f] = "parsed"
      /\ \A x \in WorkFields \ {"at"} : work'[w][x] = work[w][x]
  BY <1>1, Moved DEF ScanInv, FileSteps
<1>6. FileSound(w, f)'
  BY <1>1, <1>4, <1>5 DEF ScanInv, FileSound, Known, Fresh, WorkFields
<1>7. DatabaseShape(w)'
  BY <1>1, <1>3, <1>5 DEF ScanInv, DatabaseShape, WorkFields
<1> QED BY <1>1, <1>2, <1>4, <1>6, <1>7, MoveKeeps DEF Past, FileSteps, StagesAt

\* A file whose step throws is left with a row nobody trusts.
LEMMA FileBreaksKeeps ==
    ASSUME NEW w, Solo(w), ScanInv(w), NEW f \in Paths, FileBreaks(w, f) PROVE ScanInv(w)'
<1>1. /\ work[w].pc = "pass1"
      /\ UNCHANGED <<head, jobs, rows, symbols, edges, chunks>>
      /\ work' = [work EXCEPT ![w].broken = TRUE, ![w].at[f] = "out"]
      /\ work[w].at[f] \in {"wait", "upserted", "unchunked", "unlinked", "cleared"}
  BY DEF FileBreaks, InFlight, At, database
<1>2. /\ DOMAIN work' = {w} /\ DOMAIN work'[w] = WorkFields
      /\ work'[w].at = [work[w].at EXCEPT ![f] = "out"]
      /\ work'[w].broken = TRUE
      /\ \A x \in WorkFields \ {"at", "broken"} : work'[w][x] = work[w][x]
  BY <1>1 DEF ScanInv, WorkShape, WorkFields
<1>3. /\ work'[w].at[f] = "out"
      /\ \A g \in Paths \ {f} : work'[w].at[g] = work[w].at[g]
  BY <1>2 DEF ScanInv, WorkShape
<1>4. WorkShape(w)'
  BY <1>1, <1>2 DEF ScanInv, WorkShape, WorkFields, FileSteps
<1>5. DatabaseShape(w)'
  BY <1>1, <1>2 DEF ScanInv, DatabaseShape, WorkFields
<1>6. Staged(w)'
  BY <1>1, <1>2, <1>3 DEF ScanInv, Staged, StagesAt, WorkFields, Past, Fresh
<1>7. \A g \in Paths \ {f} : FileSound(w, g)' /\ Mirrored(w, g)'
  <2> TAKE g \in Paths \ {f}
  <2>1. /\ rows'[g] = rows[g]
        /\ work'[w].pc = work[w].pc /\ work'[w].tree = work[w].tree /\ work'[w].job = work[w].job
        /\ work'[w].at[g] = work[w].at[g] /\ work'[w].id[g] = work[w].id[g]
        /\ work'[w].failed = work[w].failed /\ work'[w].deleted = work[w].deleted
        /\ work'[w].broken
    BY <1>1, <1>2, <1>3 DEF WorkFields
  <2>2. /\ SymbolsOf(g)' = SymbolsOf(g) /\ ChunksOf(g)' = ChunksOf(g)
        /\ OfFile(g, "calls")' = OfFile(g, "calls")
        /\ OfFile(g, "imports")' \subseteq OfFile(g, "imports")
    BY <1>1, ViewsSame
  <2>3. work[w].pc \in Past
    BY <1>1 DEF Past
  <2> QED BY <2>1, <2>2, <2>3, OthersKept
<1>8. FileSound(w, f)'
  BY <1>1, <1>3, FileLeft DEF ScanInv
<1>9. Mirrored(w, f)'
  <2>1. Fresh(w)[f] # None /\ f \notin work[w].failed
    BY <1>1 DEF ScanInv, Staged, Mirrored, Past
  <2> QED BY <1>1, <1>2, <1>3, <2>1 DEF Mirrored, Fresh, WorkFields
<1>a. Counted(w)'
  <2>1. Remaining(w)' = Remaining(w) \ {f} /\ f \in Remaining(w)
    BY <1>1, <1>3 DEF Remaining
  <2>2. IsFiniteSet(Remaining(w))
    BY FS_Subset DEF Solo, Remaining
  <2>3. Cardinality(Remaining(w)) \in Nat /\ Cardinality(Remaining(w)') = Cardinality(Remaining(w)) - 1
    BY <2>1, <2>2, FS_RemoveElement, FS_CardinalityType
  <2>4. /\ work[w].job \in Jobs /\ jobs[work[w].job].done \in Nat /\ jobs[work[w].job].total \in Nat
        /\ jobs[work[w].job].done + Cardinality(Remaining(w)) <= jobs[work[w].job].total
    BY <1>1 DEF ScanInv, Counted, WorkShape, Past
  <2>5. jobs[work[w].job].done + Cardinality(Remaining(w)') <= jobs[work[w].job].total
    BY <2>3, <2>4
  <2> QED BY <1>1, <1>2, <2>5 DEF ScanInv, Counted, Past, WorkFields
<1> QED BY <1>4, <1>5, <1>6, <1>7, <1>8, <1>9, <1>a DEF ScanInv

-----------------------------------------------------------------------------
(* The second pass.                                                        *)

\* A callee is resolved to a symbol of the index or to nothing.
LEMMA UniqueIn == ASSUME NEW S PROVE Unique(S) \in S \cup {None}
<1>1. CASE S = {}
  BY <1>1, FS_EmptySet DEF Unique
<1>2. CASE S # {}
  BY <1>2 DEF Unique
<1> QED BY <1>1, <1>2

LEMMA CalleeIn ==
    ASSUME NEW callee, NEW index, NEW file, NEW imports
    PROVE  LookupCallee(callee, index, file, imports) \in index \cup {None}
<1> DEFINE found == {s \in index : s.name = callee.name}
<1>0. found \subseteq index
  OBVIOUS
<1> HIDE DEF found
<1>1. PickCallee(found, file, imports) \in found \cup {None}
  <2>1. Unique({s \in found : s.file = file}) \in found \cup {None}
    BY UniqueIn
  <2>2. Unique({s \in found : s.file \in imports}) \in found \cup {None}
    BY UniqueIn
  <2>3. Unique(found) \in found \cup {None}
    BY UniqueIn
  <2> QED BY <2>1, <2>2, <2>3 DEF PickCallee
<1>2. PickMember(found, callee.on, file, imports) \in found \cup {None}
  <2> DEFINE methods == {s \in found : IsMethod(s)}
             exact == Unique({s \in methods : s.class = callee.on})
             own == Unique({s \in methods : s.file = file})
             near == Unique({s \in methods : s.file = file \/ s.file \in imports})
  <2>1. exact \in found \cup {None} /\ own \in found \cup {None} /\ near \in found \cup {None}
    <3>1. methods \subseteq found
      OBVIOUS
    <3> HIDE DEF methods
    <3>2. {s \in methods : s.class = callee.on} \subseteq found
      BY <3>1
    <3>3. {s \in methods : s.file = file} \subseteq found
      BY <3>1
    <3>4. {s \in methods : s.file = file \/ s.file \in imports} \subseteq found
      BY <3>1
    <3> QED BY <3>2, <3>3, <3>4, UniqueIn
  <2>2. PickMember(found, callee.on, file, imports) \in {None, exact, own, near}
    BY Zenon DEF PickMember
  <2> HIDE DEF methods, exact, own, near
  <2> QED BY <2>1, <2>2
<1>3. LookupCallee(callee, index, file, imports) \in found \cup {None}
  BY <1>1, <1>2 DEF LookupCallee, found
<1> QED BY <1>0, <1>3

\* The edges a file is given: its own calls and imports, each with this job.
LEMMA EdgesGiven ==
    ASSUME NEW w, ScanInv(w), NEW f \in Paths
    PROVE  /\ \A e \in Edges(w, f) : IsEdge(e) /\ e.src = f
           /\ ViewOf(Edges(w, f), f, "calls") = CallsIn(Fresh(w)[f], work[w].job)
           /\ ViewOf(Edges(w, f), f, "imports") = ImportsIn(Fresh(w)[f], work[w].job)
<1> DEFINE text == Text[Fresh(w)[f]]
           j == work[w].job
           found == {p \in text.imports : work[w].files[p] # 0}
           Edge(kind, what, dst) == [src |-> f, kind |-> kind, what |-> what, dst |-> dst, job |-> j]
           I == {Edge("imports", p, IF p \in found THEN p ELSE None) : p \in text.imports}
           C == {Edge("calls", c, LookupCallee(c, work[w].index, f, found)) : c \in text.calls}
<1>1. Edges(w, f) = I \cup C
  BY DEF Edges
<1>2. \A e \in I : IsEdge(e) /\ e.src = f /\ e.kind = "imports" /\ e.job = j /\ e.what \in text.imports
  BY DEF IsEdge
<1>3. \A e \in C : IsEdge(e) /\ e.src = f /\ e.kind = "calls" /\ e.job = j /\ e.what \in text.calls
  <2> TAKE e \in C
  <2>1. PICK c \in text.calls : e = Edge("calls", c, LookupCallee(c, work[w].index, f, found))
    OBVIOUS
  <2> DEFINE d == LookupCallee(c, work[w].index, f, found)
  <2>2. d = None \/ IsSymbol(d)
    BY CalleeIn DEF ScanInv, DatabaseShape
  <2> HIDE DEF d
  <2>3. e = Edge("calls", c, d)
    BY <2>1 DEF d
  <2> QED BY <2>2, <2>3 DEF IsEdge
<1>4. \A p \in text.imports : \E e \in I : e.what = p
  <2> TAKE p \in text.imports
  <2> DEFINE e == Edge("imports", p, IF p \in found THEN p ELSE None)
  <2>1. e \in I
    OBVIOUS
  <2>2. e.what = p
    OBVIOUS
  <2> HIDE DEF e, I
  <2> QED BY <2>1, <2>2
<1>5. \A c \in text.calls : \E e \in C : e.what = c
  <2> TAKE c \in text.calls
  <2> DEFINE e == Edge("calls", c, LookupCallee(c, work[w].index, f, found))
  <2>1. e \in C
    OBVIOUS
  <2>2. e.what = c
    OBVIOUS
  <2> HIDE DEF e, C
  <2> QED BY <2>1, <2>2
<1> HIDE DEF I, C
<1>6. ViewOf(Edges(w, f), f, "calls") = CallsIn(Fresh(w)[f], j)
  BY <1>1, <1>2, <1>3, <1>5 DEF ViewOf, CallsIn
<1>7. ViewOf(Edges(w, f), f, "imports") = ImportsIn(Fresh(w)[f], j)
  BY <1>1, <1>2, <1>3, <1>4 DEF ViewOf, ImportsIn
<1> QED BY <1>1, <1>2, <1>3, <1>6, <1>7

LEMMA LinkKeeps ==
    ASSUME NEW w, Solo(w), ScanInv(w), NEW f \in Paths, LinkFile(w, f) PROVE ScanInv(w)'
<1>1. /\ work[w].pc = "edges" /\ work[w].at[f] = "parsed" /\ MoveFile(w, f, "linked")
      /\ UNCHANGED <<head, jobs, rows, symbols, chunks>>
      /\ edges' = edges \cup Edges(w, f)
  BY DEF LinkFile
<1>2. /\ OfFile(f, "calls") = {} /\ OfFile(f, "imports") = {}
  BY <1>1 DEF ScanInv, FileSound
<1> DEFINE given == Edges(w, f)
<1>3. /\ \A e \in given : IsEdge(e) /\ e.src = f
      /\ ViewOf(given, f, "calls") = CallsIn(Fresh(w)[f], work[w].job)
      /\ ViewOf(given, f, "imports") = ImportsIn(Fresh(w)[f], work[w].job)
  BY EdgesGiven
<1> HIDE DEF given
<1>4. edges' = edges \cup given
  BY <1>1 DEF given
<1>5. \A kind \in {"calls", "imports"}, g \in Paths :
            OfFile(g, kind)' = OfFile(g, kind) \cup ViewOf(given, g, kind)
  BY <1>4 DEF OfFile, ViewOf
<1>6. \A kind \in {"calls", "imports"}, g \in Paths \ {f} : ViewOf(given, g, kind) = {}
  BY <1>3 DEF ViewOf
<1>7. /\ OfFile(f, "calls")' = CallsIn(Fresh(w)[f], work[w].job)
      /\ OfFile(f, "imports")' = ImportsIn(Fresh(w)[f], work[w].job)
      /\ \A g \in Paths \ {f} : /\ OfFile(g, "calls")' = OfFile(g, "calls")
                                /\ OfFile(g, "imports")' = OfFile(g, "imports")
  <2>1. OfFile(f, "calls")' = CallsIn(Fresh(w)[f], work[w].job)
    BY <1>2, <1>3, <1>5
  <2>2. OfFile(f, "imports")' = ImportsIn(Fresh(w)[f], work[w].job)
    BY <1>2, <1>3, <1>5
  <2>3. \A g \in Paths \ {f} : OfFile(g, "calls")' = OfFile(g, "calls")
    BY <1>5, <1>6
  <2>4. \A g \in Paths \ {f} : OfFile(g, "imports")' = OfFile(g, "imports")
    BY <1>5, <1>6
  <2> QED BY <2>1, <2>2, <2>3, <2>4
<1>8. \A g \in Paths : SymbolsOf(g)' = SymbolsOf(g) /\ ChunksOf(g)' = ChunksOf(g)
  BY <1>1 DEF SymbolsOf, ChunksOf
<1>9. /\ work'[w].at[f] = "linked"
      /\ \A x \in WorkFields \ {"at"} : work'[w][x] = work[w][x]
  BY <1>1, Moved DEF ScanInv, FileSteps
<1>a. FileSound(w, f)'
  BY <1>1, <1>7, <1>8, <1>9 DEF ScanInv, FileSound, Known, Fresh, WorkFields
<1>b. DatabaseShape(w)'
  BY <1>1, <1>3, <1>4, <1>9 DEF ScanInv, DatabaseShape, WorkFields
<1> QED BY <1>1, <1>7, <1>8, <1>a, <1>b, MoveKeeps DEF Past, FileSteps, StagesAt

LEMMA InsertChunksKeeps ==
    ASSUME NEW w, Solo(w), ScanInv(w), NEW f \in Paths, InsertChunks(w, f) PROVE ScanInv(w)'
<1>1. /\ work[w].at[f] = "embedded" /\ MoveFile(w, f, "stored")
      /\ UNCHANGED <<head, jobs, rows, symbols, edges>>
      /\ chunks' = chunks \cup {[file |-> f, of |-> Fresh(w)[f], job |-> work[w].job]}
  BY DEF InsertChunks, Chunk
<1>2. work[w].pc = "chunks"
  BY <1>1, InChunks
<1>3. ChunksOf(f) = {}
  BY <1>1 DEF ScanInv, FileSound
<1>4. /\ ChunksOf(f)' = {[file |-> f, of |-> Fresh(w)[f], job |-> work[w].job]}
      /\ \A g \in Paths \ {f} : ChunksOf(g)' = ChunksOf(g)
      /\ \A g \in Paths : /\ SymbolsOf(g)' = SymbolsOf(g)
                          /\ OfFile(g, "calls")' = OfFile(g, "calls")
                          /\ OfFile(g, "imports")' = OfFile(g, "imports")
  BY <1>1, <1>3 DEF ChunksOf, SymbolsOf, OfFile, ViewOf
<1>5. /\ work'[w].at[f] = "stored"
      /\ \A x \in WorkFields \ {"at"} : work'[w][x] = work[w][x]
  BY <1>1, Moved DEF ScanInv, FileSteps
<1>6. FileSound(w, f)'
  BY <1>1, <1>4, <1>5 DEF ScanInv, FileSound, Known, Fresh, WorkFields
<1>7. DatabaseShape(w)'
  BY <1>1, <1>5 DEF ScanInv, DatabaseShape, WorkFields
<1> QED BY <1>1, <1>2, <1>4, <1>6, <1>7, MoveKeeps DEF Past, FileSteps, StagesAt

\* A file ends, well or not, and is counted.
LEMMA EndKeeps ==
    ASSUME NEW w, Solo(w), ScanInv(w), NEW f \in Paths, work[w].pc \in {"edges", "chunks"},
           work[w].at[f] \notin {"out", "ended"}, CountFile(w), UNCHANGED head,
           DOMAIN work' = {w}, DOMAIN work'[w] = WorkFields,
           work'[w].at = [work[w].at EXCEPT ![f] = "ended"],
           work'[w].failed \in {work[w].failed, work[w].failed \cup {f}},
           \A x \in WorkFields \ {"at", "failed"} : work'[w][x] = work[w][x],
           DatabaseShape(w)', FileSound(w, f)',
           IF f \in work'[w].failed THEN f \notin Known' ELSE f \in Known' /\ rows'[f].hash = Fresh(w)[f],
           \A g \in Paths \ {f} :
                /\ rows'[g] = rows[g]
                /\ SymbolsOf(g)' = SymbolsOf(g) /\ ChunksOf(g)' = ChunksOf(g)
                /\ OfFile(g, "calls")' = OfFile(g, "calls")
                /\ OfFile(g, "imports")' \subseteq OfFile(g, "imports")
    PROVE  ScanInv(w)'
<1>0. work[w].pc \in Past /\ work[w].pc \notin {"idle", "clone", "diff", "pass1", "purge"}
  BY DEF Past
<1>1. /\ work'[w].at[f] = "ended"
      /\ \A g \in Paths \ {f} : work'[w].at[g] = work[w].at[g]
      /\ work'[w].pc = work[w].pc /\ work'[w].tree = work[w].tree /\ work'[w].job = work[w].job
      /\ work'[w].id = work[w].id /\ work'[w].broken = work[w].broken
      /\ work'[w].deleted = work[w].deleted
  BY DEF ScanInv, WorkShape, WorkFields
<1>2. WorkShape(w)'
  BY <1>0, <1>1 DEF ScanInv, WorkShape, FileSteps
<1>3. Staged(w)'
  BY <1>0, <1>1 DEF ScanInv, Staged, StagesAt, Fresh
<1>4. \A g \in Paths \ {f} : FileSound(w, g)' /\ Mirrored(w, g)'
  <2> TAKE g \in Paths \ {f}
  <2>1. /\ g \in work'[w].failed <=> g \in work[w].failed
        /\ g \in work'[w].deleted <=> g \in work[w].deleted
        /\ work'[w].at[g] = work[w].at[g] /\ work'[w].id[g] = work[w].id[g]
        /\ work[w].broken => work'[w].broken
    BY <1>1
  <2>2. /\ rows'[g] = rows[g]
        /\ SymbolsOf(g)' = SymbolsOf(g) /\ ChunksOf(g)' = ChunksOf(g)
        /\ OfFile(g, "calls")' = OfFile(g, "calls")
        /\ OfFile(g, "imports")' \subseteq OfFile(g, "imports")
    OBVIOUS
  <2> QED BY <1>0, <1>1, <2>1, <2>2, OthersKept
<1>5. Mirrored(w, f)'
  BY <1>1 DEF Mirrored, Fresh
<1>6. Counted(w)'
  <2> DEFINE job == work[w].job
  <2>1. Remaining(w)' = Remaining(w) \ {f} /\ f \in Remaining(w)
    BY <1>1 DEF Remaining
  <2>2. IsFiniteSet(Remaining(w))
    BY FS_Subset DEF Solo, Remaining
  <2>3. /\ Cardinality(Remaining(w)) \in Nat /\ Cardinality(Remaining(w)') \in Nat
        /\ Cardinality(Remaining(w)') = Cardinality(Remaining(w)) - 1
    BY <2>1, <2>2, FS_RemoveElement, FS_CardinalityType
  <2>4. /\ job \in Jobs /\ DOMAIN jobs = Jobs
        /\ DOMAIN jobs[job] = {"status", "total", "done", "failures", "unhealed"}
        /\ jobs[job].done \in Nat /\ jobs[job].total \in Nat /\ jobs[job].status = "running"
        /\ jobs[job].done + Cardinality(Remaining(w)) = jobs[job].total
    BY <1>0 DEF ScanInv, Counted, WorkShape
  <2>5. jobs' = [jobs EXCEPT ![job].done = @ + 1]
    BY DEF CountFile
  <2> HIDE DEF job
  <2>6. /\ DOMAIN jobs' = Jobs /\ DOMAIN jobs'[job] = DOMAIN jobs[job]
        /\ jobs'[job].done = jobs[job].done + 1 /\ jobs'[job].total = jobs[job].total
        /\ jobs'[job].status = "running"
        /\ \A j \in Jobs \ {job} : jobs'[j] = jobs[j]
    BY <2>4, <2>5
  <2>7. \A j \in Jobs :
          /\ DOMAIN jobs'[j] = {"status", "total", "done", "failures", "unhealed"}
          /\ jobs'[j].done \in Nat /\ jobs'[j].total \in Nat
          /\ jobs'[j].done <= jobs'[j].total
          /\ jobs'[j].status \in {"absent", "queued"} => jobs'[j].total = 0
          /\ jobs'[j].status = "done" => jobs'[j].done = jobs'[j].total
    <3> TAKE j \in Jobs
    <3>1. CASE j = job
      BY <2>3, <2>4, <2>6, <3>1
    <3>2. CASE j # job
      BY <2>6, <3>2 DEF ScanInv, Counted
    <3> QED BY <3>1, <3>2
  <2>8. jobs'[job].done + Cardinality(Remaining(w)') = jobs'[job].total
    BY <2>3, <2>4, <2>6
  <2>9. work'[w].job = job
    BY <1>1 DEF job
  <2>a. jobs'[job].done + Cardinality(Remaining(w)') <= jobs'[job].total
    BY <2>8, <2>4, <2>6
  <2> QED BY <1>0, <1>1, <2>6, <2>7, <2>8, <2>9, <2>a DEF Counted
<1> QED BY <1>2, <1>3, <1>4, <1>5, <1>6 DEF ScanInv

\* How a step gives a file up.
LEMMA FailsSets ==
    ASSUME NEW w, WorkShape(w), NEW f \in Paths, work' = Fails(w, f)
    PROVE  /\ DOMAIN work' = {w} /\ DOMAIN work'[w] = WorkFields
           /\ work'[w].at = [work[w].at EXCEPT ![f] = "ended"]
           /\ work'[w].at[f] = "ended"
           /\ work'[w].failed = work[w].failed \cup {f}
           /\ \A x \in WorkFields \ {"at", "failed"} : work'[w][x] = work[w][x]
  BY DEF Fails, WorkShape, WorkFields

LEMMA LinkFailsKeeps ==
    ASSUME NEW w, Solo(w), ScanInv(w), NEW f \in Paths, LinkFails(w, f) PROVE ScanInv(w)'
<1>1. /\ work[w].pc = "edges" /\ work[w].at[f] = "parsed"
      /\ CountFile(w) /\ work' = Fails(w, f)
      /\ UNCHANGED <<head, rows, symbols, edges, chunks>>
  BY DEF LinkFails, database
<1>2. /\ DOMAIN work' = {w} /\ DOMAIN work'[w] = WorkFields
      /\ work'[w].at = [work[w].at EXCEPT ![f] = "ended"]
      /\ work'[w].at[f] = "ended"
      /\ work'[w].failed = work[w].failed \cup {f}
      /\ \A x \in WorkFields \ {"at", "failed"} : work'[w][x] = work[w][x]
  BY <1>1, FailsSets DEF ScanInv
<1>3. f \notin Known'
  BY <1>1, RowIsThere, KnownSame
<1>4. FileSound(w, f)'
  BY <1>1, <1>2, FileLeft DEF ScanInv
<1>5. DatabaseShape(w)'
  BY <1>1, <1>2 DEF ScanInv, DatabaseShape, WorkFields
<1>6. \A g \in Paths \ {f} :
        /\ rows'[g] = rows[g]
        /\ SymbolsOf(g)' = SymbolsOf(g) /\ ChunksOf(g)' = ChunksOf(g)
        /\ OfFile(g, "calls")' = OfFile(g, "calls")
        /\ OfFile(g, "imports")' \subseteq OfFile(g, "imports")
  BY <1>1, ViewsSame
<1> QED BY <1>1, <1>2, <1>3, <1>4, <1>5, <1>6, EndKeeps

LEMMA StoreFailsKeeps ==
    ASSUME NEW w, Solo(w), ScanInv(w), NEW f \in Paths, StoreFails(w, f) PROVE ScanInv(w)'
<1>1. /\ work[w].at[f] \in {"unembedded", "embedded", "stored"}
      /\ CountFile(w) /\ work' = Fails(w, f)
      /\ UNCHANGED <<head, rows, symbols, edges>>
  BY DEF StoreFails
<1>2. chunks' = chunks \/ chunks' = chunks \cup {Chunk(w, f)}
  BY DEF StoreFails
<1>3. work[w].pc = "chunks"
  BY <1>1, InChunks
<1>4. /\ DOMAIN work' = {w} /\ DOMAIN work'[w] = WorkFields
      /\ work'[w].at = [work[w].at EXCEPT ![f] = "ended"]
      /\ work'[w].at[f] = "ended"
      /\ work'[w].failed = work[w].failed \cup {f}
      /\ \A x \in WorkFields \ {"at", "failed"} : work'[w][x] = work[w][x]
  BY <1>1, FailsSets DEF ScanInv
<1>5. f \notin Known'
  BY <1>1, RowIsThere, KnownSame
<1>6. FileSound(w, f)'
  BY <1>4, <1>5 DEF FileSound
<1>7. DatabaseShape(w)'
  BY <1>1, <1>4 DEF ScanInv, DatabaseShape, WorkFields
<1>8. \A g \in Paths \ {f} :
        /\ rows'[g] = rows[g]
        /\ SymbolsOf(g)' = SymbolsOf(g) /\ ChunksOf(g)' = ChunksOf(g)
        /\ OfFile(g, "calls")' = OfFile(g, "calls")
        /\ OfFile(g, "imports")' \subseteq OfFile(g, "imports")
  <2>1. Chunk(w, f).file = f
    BY DEF Chunk
  <2>2. \A g \in Paths \ {f} : ChunksOf(g)' = ChunksOf(g)
    BY <1>2, <2>1 DEF ChunksOf
  <2> QED BY <1>1, <2>2 DEF SymbolsOf, OfFile, ViewOf
<1> QED BY <1>1, <1>3, <1>4, <1>5, <1>6, <1>7, <1>8, EndKeeps

\* The file is trusted from here on: everything of its content is there.
LEMMA MarkIndexedKeeps ==
    ASSUME NEW w, Solo(w), ScanInv(w), NEW f \in Paths, MarkIndexed(w, f) PROVE ScanInv(w)'
<1>1. /\ work[w].at[f] = "stored" /\ MoveFile(w, f, "ended") /\ CountFile(w)
      /\ UNCHANGED <<head, symbols, edges, chunks>>
  BY DEF MarkIndexed
<1>2. /\ work[w].pc = "chunks" /\ RowStands(w, f) /\ rows[f] # None
      /\ rows[f].hash = Fresh(w)[f]
  BY <1>1, InChunks, RowIsThere DEF RowStands
<1>3. rows' = [rows EXCEPT ![f].indexed = TRUE]
  BY <1>2 DEF MarkIndexed
<1>4. /\ DOMAIN work' = {w} /\ DOMAIN work'[w] = WorkFields
      /\ work'[w].at = [work[w].at EXCEPT ![f] = "ended"]
      /\ work'[w].at[f] = "ended"
      /\ \A x \in WorkFields \ {"at"} : work'[w][x] = work[w][x]
  BY <1>1, Moved DEF ScanInv, FileSteps
<1>5. /\ DOMAIN rows' = Paths /\ DOMAIN rows'[f] = {"id", "hash", "indexed"}
      /\ rows'[f].indexed = TRUE /\ rows'[f].hash = rows[f].hash
      /\ \A g \in Paths \ {f} : rows'[g] = rows[g]
  BY <1>2, <1>3 DEF ScanInv, DatabaseShape
<1>6. rows'[f] # None /\ f \in Known'
  BY <1>5 DEF Known, Solo
<1>7. \A g \in Paths : /\ SymbolsOf(g)' = SymbolsOf(g) /\ ChunksOf(g)' = ChunksOf(g)
                       /\ OfFile(g, "calls")' = OfFile(g, "calls")
                       /\ OfFile(g, "imports")' = OfFile(g, "imports")
  BY <1>1, ViewsSame
<1>8. f \notin work'[w].failed
  <2>1. f \notin work[w].failed
    BY <1>1, <1>2 DEF ScanInv, Mirrored, Past
  <2> QED BY <1>4, <2>1 DEF WorkFields
<1>9. FileSound(w, f)'
  <2>1. WholeBy(f, Fresh(w)[f], work[w].job) /\ work[w].job \in Jobs
    BY <1>1, <1>2 DEF ScanInv, FileSound, WholeBy, WorkShape
  <2>2. PICK k \in Jobs : WholeBy(f, rows[f].hash, k)
    BY <1>2, <2>1
  <2>3. WholeBy(f, rows[f].hash, k)'
    BY <1>5, <1>7, <2>2 DEF WholeBy
  <2> QED BY <1>4, <2>3 DEF FileSound
<1>a. DatabaseShape(w)'
  <2>1. \A g \in Paths : rows'[g] # None => /\ DOMAIN rows'[g] = {"id", "hash", "indexed"}
                                            /\ rows'[g].indexed \in BOOLEAN
    BY <1>5 DEF ScanInv, DatabaseShape
  <2>2. work'[w].index = work[w].index
    BY <1>4 DEF WorkFields
  <2> QED BY <1>1, <1>5, <2>1, <2>2 DEF ScanInv, DatabaseShape
<1>b. work'[w].failed = work[w].failed
  BY <1>4 DEF WorkFields
<1> QED BY <1>1, <1>2, <1>4, <1>5, <1>6, <1>7, <1>8, <1>9, <1>a, <1>b, EndKeeps

-----------------------------------------------------------------------------
(* Deleting a file and healing the edges of the others.                    *)

\* A deleted file takes its symbols with it; a call has no path for its target.
LEMMA DeleteFileKeeps ==
    ASSUME NEW w, Solo(w), ScanInv(w), NEW f \in Paths, DeleteFile(w, f) PROVE ScanInv(w)'
<1> DEFINE kept == {e \in edges : e.src # f /\ e.dst # f}
<1>1. /\ work[w].pc = "purge" /\ f \in work[w].deleted
      /\ rows' = [rows EXCEPT ![f] = None]
      /\ symbols' = symbols \ SymbolsOf(f)
      /\ edges' = Bereft(kept, SymbolsOf(f))
      /\ chunks' = {c \in chunks : c.file # f}
      /\ work' = [work EXCEPT ![w].deleted = @ \ {f}]
      /\ UNCHANGED <<head, jobs>>
  BY DEF DeleteFile
<1>2. /\ DOMAIN work' = {w} /\ DOMAIN work'[w] = WorkFields
      /\ work'[w].deleted = work[w].deleted \ {f}
      /\ \A x \in WorkFields \ {"deleted"} : work'[w][x] = work[w][x]
  <2> HIDE DEF kept
  <2> QED BY <1>1 DEF ScanInv, WorkShape, WorkFields
<1>3. /\ work'[w].pc = "purge" /\ work'[w].at = work[w].at /\ work'[w].id = work[w].id
      /\ work'[w].tree = work[w].tree /\ work'[w].job = work[w].job
      /\ work'[w].failed = work[w].failed /\ work'[w].broken = work[w].broken
      /\ work'[w].index = work[w].index
  BY <1>1, <1>2 DEF WorkFields
<1>4. work[w].pc \in Past /\ work[w].pc \notin {"idle", "clone", "diff", "pass1"}
  BY <1>1 DEF Past
<1>5. /\ Fresh(w)[f] = None /\ work[w].at[f] = "out" /\ f \notin work[w].failed
      /\ \A g \in Paths : work[w].at[g] \in {"wait", "out"}
  BY <1>1, <1>4 DEF ScanInv, Staged, StagesAt, Mirrored
<1>6. rows'[f] = None /\ DOMAIN rows' = Paths /\ \A g \in Paths \ {f} : rows'[g] = rows[g]
  BY <1>1 DEF ScanInv, DatabaseShape
<1>7. f \notin Known'
  BY <1>6 DEF Known
<1>s. \A s \in SymbolsOf(f) : s.file = f
  BY DEF SymbolsOf
<1>e. \A e \in kept : IsEdge(e)
  BY DEF ScanInv, DatabaseShape
<1>8. \A g \in Paths \ {f} : /\ ViewOf(kept, g, "calls") = OfFile(g, "calls")
                             /\ ViewOf(kept, g, "imports") \subseteq OfFile(g, "imports")
  <2>1. \A e \in edges : e.kind = "calls" => e.dst # f
    BY DEF ScanInv, DatabaseShape, IsEdge, Solo
  <2> QED BY <2>1 DEF OfFile, ViewOf
<1> HIDE DEF kept
<1>9. \A g \in Paths \ {f} : /\ OfFile(g, "calls")' = OfFile(g, "calls")
                             /\ OfFile(g, "imports")' \subseteq OfFile(g, "imports")
  <2> TAKE g \in Paths \ {f}
  <2>1. \A kind \in {"calls", "imports"} :
            ViewOf(Bereft(kept, SymbolsOf(f)), g, kind) = ViewOf(kept, g, kind)
    <3> DEFINE gone == SymbolsOf(f)
    <3>1. \A s \in gone : s.file # g
      BY <1>s
    <3> HIDE DEF gone
    <3>2. \A kind \in {"calls", "imports"} : ViewOf(Bereft(kept, gone), g, kind) = ViewOf(kept, g, kind)
      <4> TAKE kind \in {"calls", "imports"}
      <4> QED BY <1>e, <3>1, BereftOthers
    <3> QED BY <3>2 DEF gone
  <2> QED BY <1>1, <1>8, <2>1 DEF OfFile
<1>a. \A g \in Paths \ {f} : SymbolsOf(g)' = SymbolsOf(g) /\ ChunksOf(g)' = ChunksOf(g)
  BY <1>1, <1>s DEF SymbolsOf, ChunksOf
<1>b. \A g \in Paths \ {f} : FileSound(w, g)' /\ Mirrored(w, g)'
  <2> TAKE g \in Paths \ {f}
  <2>1. g \in work'[w].deleted <=> g \in work[w].deleted
    BY <1>2
  <2>2. /\ rows'[g] = rows[g] /\ work'[w].pc = work[w].pc
        /\ SymbolsOf(g)' = SymbolsOf(g) /\ ChunksOf(g)' = ChunksOf(g)
        /\ OfFile(g, "calls")' = OfFile(g, "calls")
        /\ OfFile(g, "imports")' \subseteq OfFile(g, "imports")
    BY <1>1, <1>3, <1>6, <1>9, <1>a
  <2> QED BY <1>3, <1>4, <2>1, <2>2, OthersKept
<1>c. FileSound(w, f)'
  BY <1>3, <1>5, <1>7 DEF FileSound
<1>d. Mirrored(w, f)'
  BY <1>3, <1>5, <1>7 DEF Mirrored, Fresh
<1>f. WorkShape(w)'
  BY <1>1, <1>2, <1>3 DEF ScanInv, WorkShape, Past
<1>g. DatabaseShape(w)'
  <2>1. \A e \in edges' : IsEdge(e)
    BY <1>1, <1>e, BereftShape
  <2>2. \A g \in Paths : rows'[g] # None => /\ DOMAIN rows'[g] = {"id", "hash", "indexed"}
                                            /\ rows'[g].indexed \in BOOLEAN
    BY <1>6 DEF ScanInv, DatabaseShape
  <2> QED BY <1>1, <1>3, <1>6, <2>1, <2>2 DEF ScanInv, DatabaseShape
<1>h. Staged(w)'
  BY <1>1, <1>2, <1>3, <1>4 DEF ScanInv, Staged, StagesAt, Fresh
<1>i. Counted(w)'
  <2>1. Remaining(w)' = Remaining(w)
    BY <1>3 DEF Remaining
  <2> QED BY <1>1, <1>3, <1>4, <2>1 DEF ScanInv, Counted
<1> QED BY <1>b, <1>c, <1>d, <1>f, <1>g, <1>h, <1>i DEF ScanInv

\* Two sets of edges whose edges differ in their targets only.
Alike(d, e) == d.src = e.src /\ d.kind = e.kind /\ d.what = e.what /\ d.job = e.job
SameButTargets(es, fs) ==
    /\ \A e \in es : \E d \in fs : Alike(d, e)
    /\ \A d \in fs : \E e \in es : Alike(d, e)

LEMMA SameViews ==
    ASSUME NEW es, NEW fs, SameButTargets(es, fs), NEW f, NEW kind
    PROVE  ViewOf(fs, f, kind) = ViewOf(es, f, kind)
  BY DEF SameButTargets, Alike, ViewOf

LEMMA ImportsLinked ==
    ASSUME NEW w, \A e \in edges : IsEdge(e)
    PROVE  SameButTargets(edges, WithImports(w)) /\ \A e \in WithImports(w) : IsEdge(e)
<1> DEFINE Set(e) == [e EXCEPT !.dst = e.what]
<1>1. \A e \in Linkable(w) : Alike(Set(e), e) /\ IsEdge(Set(e)) /\ e \in edges
  BY DEF Linkable, Alike, IsEdge
<1>2. WithImports(w) = (edges \ Linkable(w)) \cup {Set(e) : e \in Linkable(w)}
  BY DEF WithImports
<1>3. \A e \in edges : Alike(e, e)
  BY DEF Alike
<1> HIDE DEF Set
<1> QED BY <1>1, <1>2, <1>3 DEF SameButTargets

LEMMA CallsLinked ==
    ASSUME NEW w, \A s \in work[w].index : IsSymbol(s), NEW es, \A e \in es : IsEdge(e)
    PROVE  SameButTargets(es, WithCalls(w, es)) /\ \A e \in WithCalls(w, es) : IsEdge(e)
<1> DEFINE Set(e) == IF e.kind = "calls" /\ e.dst = None
                     THEN HealCall(w, e, ImportedBy(e.src, es)) ELSE e
<1>1. \A e \in es : Alike(Set(e), e) /\ IsEdge(Set(e))
  <2> TAKE e \in es
  <2>1. CASE e.kind = "calls" /\ e.dst = None
    <3> DEFINE d == LookupCallee(e.what, work[w].index, e.src, ImportedBy(e.src, es))
    <3>1. d = None \/ IsSymbol(d)
      BY CalleeIn
    <3>2. Set(e) = [e EXCEPT !.dst = d]
      BY <2>1 DEF HealCall
    <3> HIDE DEF d, Set
    <3> QED BY <2>1, <3>1, <3>2 DEF Alike, IsEdge
  <2>2. CASE ~(e.kind = "calls" /\ e.dst = None)
    BY <2>2 DEF Alike
  <2> QED BY <2>1, <2>2
<1>2. WithCalls(w, es) = {Set(e) : e \in es}
  BY DEF WithCalls
<1> HIDE DEF Set
<1> QED BY <1>1, <1>2 DEF SameButTargets

\* New targets, and the job goes on to its last two steps.
LEMMA Targeted ==
    ASSUME NEW w, Solo(w), ScanInv(w), UNCHANGED <<head, jobs, rows, symbols, chunks>>,
           work[w].pc = "heal", DOMAIN work' = {w}, DOMAIN work'[w] = WorkFields,
           work'[w].pc = "commit",
           \A x \in WorkFields \ {"pc", "broken"} : work'[w][x] = work[w][x],
           SameButTargets(edges, edges'), \A e \in edges' : IsEdge(e)
    PROVE  ScanInv(w)'
<1>1. /\ work'[w].at = work[w].at /\ work'[w].id = work[w].id
      /\ work'[w].tree = work[w].tree /\ work'[w].job = work[w].job
      /\ work'[w].failed = work[w].failed /\ work'[w].deleted = work[w].deleted
      /\ work'[w].index = work[w].index
  BY DEF WorkFields
<1>2. /\ work[w].pc \in Past /\ work'[w].pc \in Past
      /\ work[w].pc \notin {"idle", "clone", "diff", "pass1"}
      /\ work'[w].pc \notin {"idle", "clone", "diff", "pass1"}
  BY DEF Past
<1>3. WorkShape(w)' /\ DatabaseShape(w)'
  BY <1>1, <1>2 DEF ScanInv, WorkShape, DatabaseShape
<1>4. Staged(w)'
  BY <1>1, <1>2 DEF ScanInv, Staged, StagesAt, Fresh
<1>5. \A f \in Paths : FileSound(w, f)'
  <2> TAKE f \in Paths
  <2>1. SymbolsOf(f)' = SymbolsOf(f) /\ ChunksOf(f)' = ChunksOf(f)
    BY DEF SymbolsOf, ChunksOf
  <2>2. OfFile(f, "calls")' = OfFile(f, "calls") /\ OfFile(f, "imports")' = OfFile(f, "imports")
    BY SameViews DEF OfFile
  <2> QED BY <1>1, <2>1, <2>2, FileSame DEF ScanInv
<1>6. \A f \in Paths : Mirrored(w, f)'
  BY <1>1, <1>2, MirrorSame DEF ScanInv
<1>7. Counted(w)'
  <2>1. Remaining(w)' = Remaining(w)
    BY <1>1 DEF Remaining
  <2> QED BY <1>1, <1>2, <2>1 DEF ScanInv, Counted
<1> QED BY <1>3, <1>4, <1>5, <1>6, <1>7 DEF ScanInv

\* The two rounds of healing, one after the other.
LEMMA HealedAlike ==
    ASSUME NEW w, ScanInv(w)
    PROVE  /\ SameButTargets(edges, WithImports(w)) /\ \A e \in WithImports(w) : IsEdge(e)
           /\ SameButTargets(edges, WithCalls(w, WithImports(w)))
           /\ \A e \in WithCalls(w, WithImports(w)) : IsEdge(e)
<1>1. /\ \A e \in edges : IsEdge(e)
      /\ \A s \in work[w].index : IsSymbol(s)
  BY DEF ScanInv, DatabaseShape
<1>2. SameButTargets(edges, WithImports(w)) /\ \A e \in WithImports(w) : IsEdge(e)
  BY <1>1, ImportsLinked
<1> DEFINE mid == WithImports(w)
           end == WithCalls(w, mid)
<1> HIDE DEF mid
<1>3. SameButTargets(mid, end) /\ \A e \in end : IsEdge(e)
  BY <1>1, <1>2, CallsLinked DEF mid
<1> HIDE DEF end
<1>4. SameButTargets(edges, mid)
  BY <1>2 DEF mid
<1>5. SameButTargets(edges, end)
  BY <1>3, <1>4 DEF SameButTargets, Alike
<1> QED BY <1>2, <1>3, <1>5 DEF mid, end

LEMMA HealKeeps ==
    ASSUME NEW w, Solo(w), ScanInv(w), HealEdges(w) \/ HealFails(w) PROVE ScanInv(w)'
<1>1. work[w].pc = "heal" /\ UNCHANGED <<head, jobs, rows, symbols, chunks>>
  BY DEF HealEdges, HealFails
<1>2. edges' \in {edges, WithImports(w), WithCalls(w, WithImports(w))}
  BY DEF HealEdges, HealFails
<1>3. SameButTargets(edges, edges)
  BY DEF SameButTargets, Alike
<1>4. SameButTargets(edges, edges') /\ \A e \in edges' : IsEdge(e)
  BY <1>2, <1>3, HealedAlike DEF ScanInv, DatabaseShape
<1>5. /\ DOMAIN work' = {w} /\ DOMAIN work'[w] = WorkFields
      /\ work'[w].pc = "commit"
      /\ \A x \in WorkFields \ {"pc", "broken"} : work'[w][x] = work[w][x]
  <2>1. CASE Goto(w, "commit")
    BY <2>1, Gone DEF ScanInv
  <2>2. CASE work' = [work EXCEPT ![w].pc = "commit", ![w].broken = TRUE]
    BY <2>2 DEF ScanInv, WorkShape, WorkFields
  <2> QED BY <2>1, <2>2 DEF HealEdges, HealFails
<1> QED BY <1>1, <1>4, <1>5, Targeted

-----------------------------------------------------------------------------
(* The theorems.                                                           *)

LEMMA FileStepKeeps ==
    ASSUME NEW w, Solo(w), ScanInv(w), NEW f \in Paths, FileStep(w, f) PROVE ScanInv(w)'
<1>1. CASE StartFile(w, f)
  BY <1>1, StartFileKeeps
<1>2. CASE DeleteChunks(w, f)
  BY <1>2, DeleteChunksKeeps
<1>3. CASE DeleteEdges(w, f)
  BY <1>3, DeleteEdgesKeeps
<1>4. CASE DeleteSymbols(w, f)
  BY <1>4, DeleteSymbolsKeeps
<1>5. CASE InsertSymbols(w, f)
  BY <1>5, InsertSymbolsKeeps
<1>6. CASE FileBreaks(w, f)
  BY <1>6, FileBreaksKeeps
<1>7. CASE LinkFile(w, f)
  BY <1>7, LinkKeeps
<1>8. CASE LinkFails(w, f)
  BY <1>8, LinkFailsKeeps
<1>9. CASE InsertChunks(w, f)
  BY <1>9, InsertChunksKeeps
<1>a. CASE MarkIndexed(w, f)
  BY <1>a, MarkIndexedKeeps
<1>b. CASE StoreFails(w, f)
  BY <1>b, StoreFailsKeeps
<1>c. CASE DeleteFile(w, f)
  BY <1>c, DeleteFileKeeps
<1> QED BY <1>1, <1>2, <1>3, <1>4, <1>5, <1>6, <1>7, <1>8, <1>9, <1>a, <1>b, <1>c DEF FileStep

LEMMA JobStepKeeps == ASSUME NEW w, Solo(w), ScanInv(w), JobStep(w) PROVE ScanInv(w)'
<1>1. CASE ClaimJob(w)
  BY <1>1, ClaimKeeps
<1>2. CASE CloneRepo(w)
  BY <1>2, CloneKeeps
<1>3. CASE Diff(w)
  BY <1>3, DiffKeeps
<1>4. CASE PurgeDone(w)
  BY <1>4, PurgedKeeps
<1>5. CASE Pass1Done(w)
  BY <1>5, Pass1Keeps
<1>6. CASE NextWindow(w)
  BY <1>6, NextWindowKeeps
<1>7. CASE EmbedWindow(w)
  BY <1>7, EmbedKeeps
<1>8. CASE WindowDone(w)
  BY <1>8, WindowKeeps
<1>9. CASE Pass2Done(w)
  BY <1>9, Pass2Keeps
<1>a. CASE HealEdges(w) \/ HealFails(w)
  BY <1>a, HealKeeps
<1>b. CASE SkipHealing(w)
  BY <1>b, SkipKeeps
<1>c. CASE UpdateCommit(w)
  BY <1>c, CommitKeeps
<1>d. CASE FinishJob(w)
  BY <1>d, FinishKeeps
<1>e. CASE FailJob(w)
  BY <1>e, FailKeeps
<1>f. CASE JobThrows(w)
  BY <1>f, ThrowKeeps
<1> QED BY <1>1, <1>2, <1>3, <1>4, <1>5, <1>6, <1>7, <1>8, <1>9, <1>a, <1>b, <1>c, <1>d, <1>e, <1>f
        DEF JobStep

LEMMA StutterKeeps == ASSUME NEW w, ScanInv(w), UNCHANGED scanVars PROVE ScanInv(w)'
<1>1. UNCHANGED <<head, jobs, rows, symbols, edges, chunks, work>>
  BY DEF scanVars, database
<1>2. WorkShape(w)' /\ DatabaseShape(w)' /\ Staged(w)'
  BY <1>1 DEF ScanInv, WorkShape, DatabaseShape, Staged, Fresh
<1>3. \A f \in Paths : FileSound(w, f)'
  BY <1>1, ViewsSame, FileSame DEF ScanInv
<1>4. work'[w].pc \in Past => \A f \in Paths : Mirrored(w, f)'
  BY <1>1, MirrorSame DEF ScanInv
<1>5. Counted(w)'
  <2>1. Remaining(w)' = Remaining(w)
    BY <1>1 DEF Remaining
  <2> QED BY <1>1, <2>1 DEF ScanInv, Counted
<1> QED BY <1>1, <1>2, <1>3, <1>4, <1>5 DEF ScanInv

\* Every state of the worker: each file is what its stage in the scan says, each job has
\* counted what its files have come to.
THEOREM ScanInvariant == ASSUME NEW w, Solo(w) PROVE ScanSpec => []ScanInv(w)
<1>1. ScanInit => ScanInv(w)
  BY InitHolds
<1>2. ScanInv(w) /\ [ScanNext]_scanVars => ScanInv(w)'
  <2> SUFFICES ASSUME ScanInv(w), [ScanNext]_scanVars PROVE ScanInv(w)'
    OBVIOUS
  <2>1. CASE PushCommit
    BY <2>1, OutsideKeeps
  <2>2. ASSUME NEW v \in Replicas, Enqueue(v) \/ StashToken(v) PROVE ScanInv(w)'
    BY <2>2, OutsideKeeps DEF Solo
  <2>3. ASSUME NEW v \in Replicas, JobStep(v) PROVE ScanInv(w)'
    BY <2>3, JobStepKeeps DEF Solo
  <2>4. ASSUME NEW v \in Replicas, NEW f \in Paths, FileStep(v, f) PROVE ScanInv(w)'
    BY <2>4, FileStepKeeps DEF Solo
  <2>5. ASSUME NEW v \in Replicas, Crash(v) PROVE ScanInv(w)'
    BY <2>5, CrashKeeps DEF Solo
  <2>6. CASE UNCHANGED scanVars
    BY <2>6, StutterKeeps
  <2> QED BY <2>1, <2>2, <2>3, <2>4, <2>5, <2>6 DEF ScanNext, WorkerStep
<1> QED BY <1>1, <1>2, PTL DEF ScanSpec

\* What the invariant says of the index: a file whose fully_indexed_at is set is there whole,
\* a scan that ends has the index mirror its clone but for the files it lists as failed, and
\* the progress shown is exact.
LEMMA InvIsTrue == ASSUME NEW w, Solo(w), ScanInv(w) PROVE IndexTrue
<1>1. IndexedIsWhole
  <2> SUFFICES ASSUME NEW f \in Known
               PROVE  \E j \in Jobs : WholeBy(f, rows[f].hash, j)
    BY DEF IndexedIsWhole, WholeBy, ChunksOf, OfFile, ViewOf, CallsIn, ImportsIn
  <2> QED BY DEF ScanInv, FileSound, Known
<1>2. ScanMirrors
  <2> SUFFICES ASSUME work[w].pc \in {"heal", "commit", "done"}, NEW f \in Paths
               PROVE  LET c == Fresh(w)[f]
                      IN  IF c = None \/ f \in work[w].failed THEN f \notin Known
                          ELSE f \in Known /\ rows[f].hash = c
    BY DEF ScanMirrors, Solo
  <2>1. work[w].pc \in Past /\ Mirrored(w, f) /\ work[w].at[f] \in {"ended", "out"}
    BY DEF ScanInv, Past, Staged, StagesAt
  <2>2. f \notin work[w].deleted /\ (work[w].at[f] # "out" => Fresh(w)[f] # None)
    BY <2>1 DEF ScanInv, Staged
  <2> QED BY <2>1, <2>2 DEF Mirrored
<1>3. ProgressBounded
  BY DEF ProgressBounded, ScanInv, Counted
<1> QED BY <1>1, <1>2, <1>3 DEF IndexTrue

\* Whatever fails, and at whatever step, the index the map is read from is true.
THEOREM IndexIsTrue == ASSUME NEW w, Solo(w) PROVE ScanSpec => []IndexTrue
<1>1. ScanInv(w) => IndexTrue
  BY InvIsTrue
<1> QED BY <1>1, ScanInvariant, PTL

-----------------------------------------------------------------------------
(* The edges.                                                              *)

\* An edge without a target has none: what it names is not there, or is not the only one.
Healed ==
    \A e \in edges : e.dst = None =>
        IF e.kind = "imports" THEN rows[e.what] = None
        ELSE LookupCallee(e.what, symbols, e.src, ImportedBy(e.src, edges)) = None

\* No job but the one at work was left in the middle, failed, or could not heal the edges.
Healthy(w) ==
    \A j \in Jobs :
        \/ jobs[j].status \in {"absent", "queued"} \/ EndedWell(j)
        \/ work[w].pc # "idle" /\ j = work[w].job

\* The job has not touched the index, or has healed it.
Undisturbed(w) ==
    \/ work[w].pc \in {"idle", "clone", "diff"}
    \/ work[w].pc \in Past /\ ~work[w].touched
    \/ work[w].pc \in {"commit", "done"} /\ ~work[w].broken

Indexing == {"pass2", "edges", "chunks", "heal"}

HealInv(w) ==
    /\ work[w].pc \in Past /\ ~work[w].touched =>
            work[w].deleted = {} /\ \A f \in Paths : work[w].at[f] = "out"
    /\ work[w].pc \in Indexing =>
            /\ work[w].index = symbols
            /\ \A f \in Paths : work[w].files[f] = 0 <=> rows[f] = None
    /\ \A f \in Paths : rows[f] # None => rows[f].id \in Jobs
    /\ \A e \in edges : e.kind = "imports" => e.what \in Paths
    /\ Healthy(w) /\ Undisturbed(w) => Healed

NamesPaths(es) == \A e \in es : e.kind = "imports" => e.what \in Paths

\* A step that leaves the rows, the symbols and the edges as they are.
LEMMA HealQuiet ==
    ASSUME NEW w, HealInv(w), UNCHANGED <<rows, symbols, edges>>,
           work'[w].pc \in Past /\ ~work'[w].touched =>
                work'[w].deleted = {} /\ \A f \in Paths : work'[w].at[f] = "out",
           work'[w].pc \in Indexing =>
                /\ work'[w].index = symbols
                /\ \A f \in Paths : work'[w].files[f] = 0 <=> rows[f] = None,
           Healthy(w)' /\ Undisturbed(w)' => Healthy(w) /\ Undisturbed(w)
    PROVE  HealInv(w)'
<1>1. Healed => Healed'
  BY DEF Healed, ImportedBy
<1> QED BY <1>1 DEF HealInv

\* The same, of a step that leaves the job where it is in its work.
LEMMA HealOutside ==
    ASSUME NEW w, ScanInv(w), HealInv(w), PushCommit \/ Enqueue(w) \/ StashToken(w)
    PROVE  HealInv(w)'
<1>1. UNCHANGED <<rows, symbols, edges, work>>
  BY DEF PushCommit, Enqueue, StashToken, database
<1>2. Healthy(w)' => Healthy(w)
  <2>1. \/ UNCHANGED jobs
        \/ \E j \in Jobs : jobs[j] = Absent /\ jobs' = [jobs EXCEPT ![j].status = "queued"]
    BY DEF PushCommit, Enqueue, StashToken
  <2>2. CASE UNCHANGED jobs
    BY <1>1, <2>2 DEF Healthy, EndedWell
  <2>3. ASSUME NEW j \in Jobs, jobs[j] = Absent, jobs' = [jobs EXCEPT ![j].status = "queued"]
        PROVE  Healthy(w)' => Healthy(w)
    <3>1. \A k \in Jobs \ {j} : jobs'[k] = jobs[k]
      BY <2>3
    <3>2. jobs[j].status = "absent"
      BY <2>3 DEF Absent
    <3> QED BY <1>1, <3>1, <3>2 DEF Healthy, EndedWell
  <2> QED BY <2>1, <2>2, <2>3
<1>3. Undisturbed(w)' => Undisturbed(w)
  BY <1>1 DEF Undisturbed
<1> QED BY <1>1, <1>2, <1>3, HealQuiet DEF HealInv

LEMMA IdleWork == NoWork.pc = "idle"
BY DEF NoWork

\* A job that is left without having ended well is never forgotten.
LEMMA HealLeft ==
    ASSUME NEW w, ScanInv(w), HealInv(w), LeaveJob(w), UNCHANGED <<rows, symbols, edges>>,
           \/ UNCHANGED jobs
           \/ work[w].pc = "fail" /\ jobs' = [jobs EXCEPT ![work[w].job].status = "failed"]
    PROVE  HealInv(w)'
<1>0. WorkShape(w)
  BY DEF ScanInv
<1>1. work'[w] = NoWork /\ work'[w].pc = "idle"
  BY <1>0, Idled, IdleWork
<1>2. CASE work[w].pc = "idle"
  <2>1. UNCHANGED jobs
    BY <1>2
  <2>2. Healthy(w)' => Healthy(w)
    BY <1>1, <1>2, <2>1 DEF Healthy, EndedWell
  <2> QED BY <1>1, <1>2, <2>2, HealQuiet DEF Undisturbed, Past, Indexing
<1>3. CASE work[w].pc # "idle"
  <2>1. jobs[work[w].job].status = "running" /\ work[w].job \in Jobs
    BY <1>3 DEF ScanInv, Counted, WorkShape
  <2>2. jobs'[work[w].job].status \in {"running", "failed"}
    BY <2>1 DEF ScanInv, Counted
  <2>3. ~Healthy(w)'
    BY <1>1, <2>1, <2>2 DEF Healthy, EndedWell
  <2> QED BY <1>1, <2>3, HealQuiet DEF Past, Indexing
<1> QED BY <1>2, <1>3

LEMMA HealClaim ==
    ASSUME NEW w, ScanInv(w), HealInv(w), ClaimJob(w) PROVE HealInv(w)'
<1> DEFINE j == Oldest(Queued)
<1>1. /\ work[w].pc = "idle" /\ UNCHANGED <<rows, symbols, edges>>
      /\ jobs' = [jobs EXCEPT ![j].status = "running"] /\ Queued # {}
      /\ work' = [work EXCEPT ![w] = [NoWork EXCEPT !.pc = "clone", !.job = j]]
  BY DEF ClaimJob, CanClaim, database
<1>2. j \in Jobs /\ jobs[j].status = "queued"
  <2>1. j \in Queued
    BY <1>1, OldestWaits DEF Queued
  <2> QED BY <2>1 DEF Queued
<1> HIDE DEF j
<1>3. work'[w].pc = "clone" /\ work'[w].job = j
  BY <1>1 DEF ScanInv, WorkShape, NoWork
<1>4. \A k \in Jobs \ {j} : jobs'[k] = jobs[k]
  BY <1>1
<1>5. Healthy(w)' => Healthy(w)
  BY <1>1, <1>2, <1>3, <1>4 DEF Healthy, EndedWell
<1> QED BY <1>1, <1>3, <1>5, HealQuiet DEF Undisturbed, Past, Indexing

LEMMA HealFinish ==
    ASSUME NEW w, ScanInv(w), HealInv(w), FinishJob(w) PROVE HealInv(w)'
<1> DEFINE j == work[w].job
<1>1. /\ work[w].pc = "done" /\ UNCHANGED <<rows, symbols, edges>> /\ LeaveJob(w)
      /\ jobs' = [jobs EXCEPT ![j].status = "done", ![j].failures = work[w].failed,
                              ![j].unhealed = work[w].broken]
  BY DEF FinishJob, database
<1>0. WorkShape(w)
  BY DEF ScanInv
<1>2. work'[w].pc = "idle"
  BY <1>0, <1>1, Idled, IdleWork
<1>3. j \in Jobs /\ DOMAIN jobs = Jobs
      /\ DOMAIN jobs[j] = {"status", "total", "done", "failures", "unhealed"}
  BY <1>1 DEF ScanInv, WorkShape, Counted
<1>a. \A x : x = [jobs[j] EXCEPT !.status = "done", !.failures = work[w].failed,
                                !.unhealed = work[w].broken]
              => x.status = "done" /\ x.unhealed = work[w].broken
  BY <1>3
<1>b. jobs' = [jobs EXCEPT ![j] = [jobs[j] EXCEPT !.status = "done", !.failures = work[w].failed,
                                                  !.unhealed = work[w].broken]]
  BY <1>1, <1>3
<1>4. \A k \in Jobs \ {j} : jobs'[k] = jobs[k]
  BY <1>3, <1>b
<1>5. jobs'[j].status = "done" /\ jobs'[j].unhealed = work[w].broken
  BY <1>3, <1>a, <1>b
<1>6. Healthy(w)' => Healthy(w) /\ ~work[w].broken
  BY <1>1, <1>2, <1>3, <1>4, <1>5 DEF Healthy, EndedWell
<1> QED BY <1>1, <1>2, <1>6, HealQuiet DEF Undisturbed, Past, Indexing

\* A step of the job itself, which goes on with it.
LEMMA HealOn ==
    ASSUME NEW w, HealInv(w), UNCHANGED <<rows, symbols, edges>>,
           work[w].pc # "idle", work'[w].pc # "idle", work'[w].job = work[w].job,
           \A k \in Jobs \ {work[w].job} : jobs'[k] = jobs[k],
           work'[w].pc \in Past /\ ~work'[w].touched =>
                work'[w].deleted = {} /\ \A f \in Paths : work'[w].at[f] = "out",
           work'[w].pc \in Indexing =>
                /\ work'[w].index = symbols
                /\ \A f \in Paths : work'[w].files[f] = 0 <=> rows[f] = None,
           Undisturbed(w)' => Undisturbed(w)
    PROVE  HealInv(w)'
<1>1. Healthy(w)' => Healthy(w)
  BY DEF Healthy, EndedWell
<1> QED BY <1>1, HealQuiet

\* A step that only takes the job from one part of the scan to the next.
LEMMA HealGoto ==
    ASSUME NEW w, ScanInv(w), HealInv(w), NEW pc, Goto(w, pc), UNCHANGED <<jobs, rows, symbols, edges>>,
           work[w].pc # "idle", pc # "idle",
           pc \in Past => work[w].pc \in Past,
           pc \in Indexing => work[w].pc \in Indexing,
           pc = "commit" => ~work[w].touched, pc = "done" => work[w].pc = "commit",
           pc \notin {"clone", "diff"}
    PROVE  HealInv(w)'
<1>0. WorkShape(w)
  BY DEF ScanInv
<1>1. /\ work'[w].pc = pc /\ work'[w].job = work[w].job /\ work'[w].touched = work[w].touched
      /\ work'[w].deleted = work[w].deleted /\ work'[w].at = work[w].at
      /\ work'[w].index = work[w].index /\ work'[w].files = work[w].files
      /\ work'[w].broken = work[w].broken
  BY <1>0, Gone DEF WorkFields
<1>2. Undisturbed(w)' => Undisturbed(w)
  BY <1>1 DEF Undisturbed, Past
<1> QED BY <1>1, <1>2, HealOn DEF HealInv

LEMMA HealGoes ==
    ASSUME NEW w, ScanInv(w), HealInv(w),
           PurgeDone(w) \/ WindowDone(w) \/ Pass2Done(w) \/ SkipHealing(w) \/ UpdateCommit(w)
    PROVE  HealInv(w)'
<1>1. CASE PurgeDone(w)
  BY <1>1, HealGoto DEF PurgeDone, database, Past, Indexing
<1>2. CASE WindowDone(w)
  BY <1>2, HealGoto DEF WindowDone, database, Past, Indexing
<1>3. CASE Pass2Done(w)
  BY <1>3, HealGoto DEF Pass2Done, database, Past, Indexing
<1>4. CASE SkipHealing(w)
  BY <1>4, HealGoto DEF SkipHealing, NeedsHealing, database, Past, Indexing
<1>5. CASE UpdateCommit(w)
  BY <1>5, HealGoto DEF UpdateCommit, database, Past, Indexing
<1> QED BY <1>1, <1>2, <1>3, <1>4, <1>5

LEMMA HealThrows ==
    ASSUME NEW w, ScanInv(w), HealInv(w), JobThrows(w) PROVE HealInv(w)'
<1>1. UNCHANGED <<jobs, rows, symbols, edges>> /\ work[w].pc # "idle"
  BY DEF JobThrows, database
<1>2. CASE work[w].pc = "fail"
  BY <1>1, <1>2, HealLeft DEF JobThrows
<1>3. CASE work[w].pc # "fail"
  BY <1>1, <1>3, HealGoto DEF JobThrows, Past, Indexing
<1> QED BY <1>2, <1>3

LEMMA HealClone ==
    ASSUME NEW w, ScanInv(w), HealInv(w), CloneRepo(w) PROVE HealInv(w)'
<1>1. /\ work[w].pc = "clone" /\ UNCHANGED <<jobs, rows, symbols, edges>>
      /\ \/ work' = [work EXCEPT ![w].pc = "fail"]
         \/ work' = [work EXCEPT ![w].pc = "diff", ![w].tree = head]
  BY DEF CloneRepo, database
<1>0. DOMAIN work = {w} /\ DOMAIN work[w] = WorkFields
  BY DEF ScanInv, WorkShape
<1>2. work'[w].pc \in {"fail", "diff"} /\ work'[w].job = work[w].job
  BY <1>0, <1>1 DEF WorkFields
<1> QED BY <1>1, <1>2, HealOn DEF Undisturbed, Past, Indexing

LEMMA HealDiff ==
    ASSUME NEW w, ScanInv(w), HealInv(w), Diff(w) PROVE HealInv(w)'
<1> DEFINE changed == Changed(Fresh(w), Known)
           deleted == Deleted(Fresh(w), Known)
           at == [f \in Paths |-> IF f \in changed THEN "wait" ELSE "out"]
<1>1. /\ work[w].pc = "diff" /\ UNCHANGED <<rows, symbols, edges>>
      /\ jobs' = [jobs EXCEPT ![work[w].job].total = Cardinality(changed)]
      /\ work' = [work EXCEPT ![w].pc = "purge", ![w].deleted = deleted,
                              ![w].touched = (changed \cup deleted # {}), ![w].at = at]
  BY DEF Diff, database
<1>0. DOMAIN work = {w} /\ DOMAIN work[w] = WorkFields
  BY DEF ScanInv, WorkShape
<1> HIDE DEF at
<1>2. /\ work'[w].pc = "purge" /\ work'[w].job = work[w].job /\ work'[w].deleted = deleted
      /\ work'[w].touched = (changed \cup deleted # {}) /\ work'[w].at = at
  BY <1>0, <1>1 DEF WorkFields
<1>a. \A f \in Paths : f \notin changed => at[f] = "out"
  BY DEF at
<1> HIDE DEF changed, deleted
<1>3. ~work'[w].touched => work'[w].deleted = {} /\ \A f \in Paths : work'[w].at[f] = "out"
  <2> SUFFICES ASSUME ~work'[w].touched
               PROVE  work'[w].deleted = {} /\ \A f \in Paths : work'[w].at[f] = "out"
    OBVIOUS
  <2>1. changed \cup deleted = {}
    BY <1>2, Zenon
  <2>2. changed = {} /\ deleted = {}
    BY <2>1
  <2> HIDE DEF at
  <2>3. work'[w].deleted = {}
    BY <1>2, <2>2
  <2>4. \A f \in Paths : at[f] = "out"
    BY <1>a, <2>2
  <2>5. work'[w].at = at
    BY <1>2
  <2> QED BY <2>3, <2>4, <2>5
<1>4. \A k \in Jobs \ {work[w].job} : jobs'[k] = jobs[k]
  <2>1. PICK total : jobs' = [jobs EXCEPT ![work[w].job].total = total]
    BY <1>1
  <2>2. DOMAIN jobs = Jobs
    BY DEF ScanInv, Counted
  <2> QED BY <2>1, <2>2
<1> QED BY <1>1, <1>2, <1>3, <1>4, HealOn DEF Undisturbed, Past, Indexing

\* The indexes are read as the rows and the symbols stand, and nothing changes these before the
\* edges are healed.
LEMMA HealPass1 ==
    ASSUME NEW w, ScanInv(w), HealInv(w), Pass1Done(w) PROVE HealInv(w)'
<1> DEFINE files == [f \in Paths |-> IF rows[f] = None THEN 0 ELSE rows[f].id]
<1>1. /\ work[w].pc = "pass1" /\ UNCHANGED <<jobs, rows, symbols, edges>>
      /\ \/ work' = [work EXCEPT ![w].pc = "fail"]
         \/ work' = [work EXCEPT ![w].pc = "pass2", ![w].index = symbols, ![w].files = files]
  BY DEF Pass1Done, database
<1>0. DOMAIN work = {w} /\ DOMAIN work[w] = WorkFields
  BY DEF ScanInv, WorkShape
<1>2. \A f \in Paths : files[f] = 0 <=> rows[f] = None
  BY DEF HealInv, Jobs
<1> HIDE DEF files
<1>3. CASE work' = [work EXCEPT ![w].pc = "fail"]
  <2>1. work'[w].pc = "fail" /\ work'[w].job = work[w].job
    BY <1>0, <1>3 DEF WorkFields
  <2> QED BY <1>1, <2>1, HealOn DEF Undisturbed, Past, Indexing
<1>4. CASE work' = [work EXCEPT ![w].pc = "pass2", ![w].index = symbols, ![w].files = files]
  <2>1. /\ work'[w].pc = "pass2" /\ work'[w].index = symbols /\ work'[w].files = files
        /\ work'[w].job = work[w].job /\ work'[w].touched = work[w].touched
        /\ work'[w].deleted = work[w].deleted /\ work'[w].at = work[w].at
    BY <1>0, <1>4 DEF WorkFields
  <2>2. Undisturbed(w)' => Undisturbed(w)
    BY <1>1, <2>1 DEF Undisturbed, Past
  <2> QED BY <1>1, <1>2, <2>1, <2>2, HealOn DEF HealInv, Past
<1> QED BY <1>1, <1>3, <1>4

LEMMA HealWindow ==
    ASSUME NEW w, ScanInv(w), HealInv(w), NextWindow(w) \/ EmbedWindow(w) PROVE HealInv(w)'
<1>0. DOMAIN work = {w} /\ DOMAIN work[w] = WorkFields
  BY DEF ScanInv, WorkShape
<1>1. UNCHANGED <<jobs, rows, symbols, edges>> /\ work[w].pc \in {"pass2", "edges"}
  BY DEF NextWindow, EmbedWindow, database
<1>2. /\ work'[w].pc \in {"edges", "chunks"}
      /\ work'[w].index = work[w].index /\ work'[w].files = work[w].files
      /\ work'[w].job = work[w].job /\ work'[w].touched = work[w].touched
      /\ work'[w].deleted = work[w].deleted
      /\ \A f \in Paths : work[w].at[f] = "out" => work'[w].at[f] = "out"
  <2>1. CASE NextWindow(w)
    <3>1. PICK S : work' = [work EXCEPT ![w].pc = "edges", ![w].window = S]
      BY <2>1 DEF NextWindow
    <3> QED BY <1>0, <3>1 DEF WorkFields
  <2>2. CASE EmbedWindow(w)
    <3>1. PICK bad \in SUBSET At(w, {"linked"}) :
            work' = [work EXCEPT ![w].pc = "chunks",
                                 ![w].at = [f \in Paths |->
                                    CASE f \in bad -> "unembedded"
                                      [] f \in At(w, {"linked"}) \ bad -> "embedded"
                                      [] OTHER -> work[w].at[f]]]
      BY <2>2 DEF EmbedWindow
    <3> DEFINE at == [f \in Paths |-> CASE f \in bad -> "unembedded"
                                        [] f \in At(w, {"linked"}) \ bad -> "embedded"
                                        [] OTHER -> work[w].at[f]]
    <3>2. \A f \in Paths : work[w].at[f] = "out" => at[f] = "out"
      BY DEF At
    <3>3. work' = [work EXCEPT ![w].pc = "chunks", ![w].at = at]
      BY <3>1
    <3> HIDE DEF at
    <3> QED BY <1>0, <3>2, <3>3 DEF WorkFields
  <2> QED BY <2>1, <2>2
<1>3. Undisturbed(w)' => Undisturbed(w)
  BY <1>1, <1>2 DEF Undisturbed, Past
<1> QED BY <1>1, <1>2, <1>3, HealOn DEF HealInv, Past, Indexing

\* A step of a file, taken by a job that has something to write: no more is asked of the edges
\* until it has healed them.
LEMMA HealFile ==
    ASSUME NEW w, HealInv(w), work[w].pc \in {"purge", "pass1", "edges", "chunks"},
           work'[w].pc = work[w].pc, work'[w].touched,
           work[w].pc \in Indexing =>
                /\ UNCHANGED symbols
                /\ work'[w].index = work[w].index /\ work'[w].files = work[w].files
                /\ \A f \in Paths : rows'[f] = None <=> rows[f] = None,
           \A f \in Paths : rows'[f] # None => rows'[f].id \in Jobs,
           NamesPaths(edges')
    PROVE  HealInv(w)'
<1>1. ~Undisturbed(w)'
  BY DEF Undisturbed
<1>2. work'[w].pc \in Indexing =>
            /\ work'[w].index = symbols'
            /\ \A f \in Paths : work'[w].files[f] = 0 <=> rows'[f] = None
  BY DEF HealInv
<1> QED BY <1>1, <1>2 DEF HealInv, NamesPaths

LEMMA Touches ==
    ASSUME NEW w, HealInv(w), work[w].pc \in Past, NEW f \in Paths,
           work[w].at[f] # "out" \/ f \in work[w].deleted
    PROVE  work[w].touched
  BY DEF HealInv

LEMMA BereftNames ==
    ASSUME NEW es, NEW gone, \A e \in es : IsEdge(e), NamesPaths(es)
    PROVE  NamesPaths(Bereft(es, gone))
<1> DEFINE Cut(e) == [e EXCEPT !.dst = IF @ \in gone THEN None ELSE @]
           Stay == {x \in es : x.kind = "imports" \/ ~\E s \in gone : s.file = x.src /\ s.job = x.job}
<1>1. Bereft(es, gone) = {Cut(e) : e \in Stay}
  BY DEF Bereft
<1>2. \A e \in es : Cut(e).kind = e.kind /\ Cut(e).what = e.what
  BY DEF IsEdge
<1>4. Stay \subseteq es
  OBVIOUS
<1> HIDE DEF Cut, Stay
<1> QED BY <1>1, <1>2, <1>4 DEF NamesPaths

LEMMA AlikeNames ==
    ASSUME NEW es, NEW fs, SameButTargets(es, fs), NamesPaths(es) PROVE NamesPaths(fs)
  BY DEF SameButTargets, Alike, NamesPaths

LEMMA GivenNames ==
    ASSUME NEW w, ScanInv(w), NEW f \in Paths, Fresh(w)[f] \in DOMAIN Text
    PROVE  NamesPaths(Edges(w, f))
<1> SUFFICES ASSUME NEW e \in Edges(w, f), e.kind = "imports" PROVE e.what \in Paths
  BY DEF NamesPaths
<1>1. e.src = f
  BY EdgesGiven
<1>2. [what |-> e.what, job |-> e.job] \in ViewOf(Edges(w, f), f, "imports")
  BY <1>1 DEF ViewOf
<1>3. [what |-> e.what, job |-> e.job] \in ImportsIn(Fresh(w)[f], work[w].job)
  BY <1>2, EdgesGiven
<1>4. PICK p \in Text[Fresh(w)[f]].imports :
        [what |-> e.what, job |-> e.job] = [what |-> p, job |-> work[w].job]
  BY <1>3 DEF ImportsIn
<1>5. e.what = p
  BY <1>4
<1> QED BY <1>5, TextAssumption

\* The steps of a file, one at a time.
LEMMA HealFileMoves ==
    ASSUME NEW w, Solo(w), ScanInv(w), HealInv(w), NEW f \in Paths,
           \/ DeleteChunks(w, f) \/ DeleteEdges(w, f) \/ DeleteSymbols(w, f) \/ InsertSymbols(w, f)
           \/ LinkFile(w, f) \/ InsertChunks(w, f) \/ MarkIndexed(w, f)
    PROVE  HealInv(w)'
<1>0. WorkShape(w)
  BY DEF ScanInv
<1>1. PICK step \in FileSteps : MoveFile(w, f, step)
  BY DEF DeleteChunks, DeleteEdges, DeleteSymbols, InsertSymbols, LinkFile, InsertChunks,
         MarkIndexed, FileSteps
<1>2. work[w].at[f] \in {"upserted", "unchunked", "unlinked", "cleared", "parsed", "embedded", "stored"}
  BY DEF DeleteChunks, DeleteEdges, DeleteSymbols, InsertSymbols, LinkFile, InsertChunks, MarkIndexed
<1>3. /\ work'[w].pc = work[w].pc /\ work'[w].touched = work[w].touched
      /\ work'[w].index = work[w].index /\ work'[w].files = work[w].files
  BY <1>0, <1>1, Moved DEF WorkFields
<1>4. work[w].pc \in {"pass1", "edges", "chunks"}
  BY <1>2, InPass1, InChunks DEF LinkFile, DeleteChunks, DeleteEdges, DeleteSymbols, InsertSymbols,
                                 InsertChunks, MarkIndexed
<1>5. work[w].touched
  BY <1>2, <1>4, Touches DEF Past
<1>6. RowStands(w, f) /\ rows[f].hash = Fresh(w)[f]
  BY <1>2, RowIsThere
<1>7. /\ \A g \in Paths : rows'[g] = None <=> rows[g] = None
      /\ \A g \in Paths : rows'[g] # None => rows'[g].id \in Jobs
  <2>1. CASE UNCHANGED rows
    BY <2>1 DEF HealInv
  <2>2. CASE MarkIndexed(w, f)
    <3>1. rows' = [rows EXCEPT ![f].indexed = TRUE] /\ rows[f] # None
      BY <1>6, <2>2 DEF MarkIndexed, RowStands
    <3>2. /\ DOMAIN rows = Paths /\ DOMAIN rows[f] = {"id", "hash", "indexed"}
      BY <3>1 DEF ScanInv, DatabaseShape
    <3>3. /\ rows'[f] # None /\ rows'[f].id = rows[f].id
          /\ \A g \in Paths \ {f} : rows'[g] = rows[g]
      BY <3>1, <3>2 DEF Solo
    <3> QED BY <3>1, <3>3 DEF HealInv
  <2> QED BY <2>1, <2>2 DEF DeleteChunks, DeleteEdges, DeleteSymbols, InsertSymbols, LinkFile, InsertChunks
<1>8. work[w].pc \in Indexing => UNCHANGED symbols
  BY <1>4, InPass1 DEF Indexing, DeleteChunks, DeleteEdges, DeleteSymbols, InsertSymbols, LinkFile,
                       InsertChunks, MarkIndexed
<1>9. NamesPaths(edges')
  <2>0. NamesPaths(edges) /\ \A e \in edges : IsEdge(e)
    BY DEF HealInv, NamesPaths, ScanInv, DatabaseShape
  <2>1. CASE UNCHANGED edges
    BY <2>0, <2>1
  <2>2. CASE DeleteEdges(w, f)
    BY <2>0, <2>2 DEF DeleteEdges, NamesPaths
  <2>3. CASE DeleteSymbols(w, f)
    <3>1. PICK gone : edges' = Bereft(edges, gone)
      BY <2>3 DEF DeleteSymbols
    <3> QED BY <2>0, <3>1, BereftNames
  <2>4. CASE LinkFile(w, f)
    <3>1. edges' = edges \cup Edges(w, f) /\ work[w].pc = "edges" /\ work[w].at[f] = "parsed"
      BY <2>4 DEF LinkFile
    <3>2. Fresh(w)[f] \in DOMAIN Text
      <4>1. work[w].tree \in Trees /\ Fresh(w)[f] # None
        BY <1>0, <3>1 DEF WorkShape, Past, ScanInv, Staged
      <4> QED BY <4>1, ScanAssumption DEF Fresh
    <3>3. NamesPaths(Edges(w, f))
      BY <3>2, GivenNames
    <3> QED BY <2>0, <3>1, <3>3 DEF NamesPaths
  <2> QED BY <2>1, <2>2, <2>3, <2>4 DEF DeleteChunks, InsertSymbols, InsertChunks, MarkIndexed
<1> QED BY <1>3, <1>4, <1>5, <1>7, <1>8, <1>9, HealFile

LEMMA HealFileGivesUp ==
    ASSUME NEW w, Solo(w), ScanInv(w), HealInv(w), NEW f \in Paths,
           LinkFails(w, f) \/ StoreFails(w, f) \/ FileBreaks(w, f)
    PROVE  HealInv(w)'
<1>0. WorkShape(w)
  BY DEF ScanInv
<1>1. UNCHANGED <<rows, symbols, edges>>
  BY DEF LinkFails, StoreFails, FileBreaks, database
<1>2. work[w].at[f] # "out" /\ work[w].pc \in {"pass1", "edges", "chunks"}
  <2>1. CASE LinkFails(w, f)
    BY <2>1 DEF LinkFails
  <2>2. CASE StoreFails(w, f)
    BY <2>2, InChunks DEF StoreFails
  <2>3. CASE FileBreaks(w, f)
    BY <2>3 DEF FileBreaks, InFlight, At
  <2> QED BY <2>1, <2>2, <2>3
<1>3. /\ work'[w].pc = work[w].pc /\ work'[w].touched = work[w].touched
      /\ work'[w].index = work[w].index /\ work'[w].files = work[w].files
  <2>1. CASE work' = Fails(w, f)
    <3>1. \A x \in WorkFields \ {"at", "failed"} : work'[w][x] = work[w][x]
      BY <1>0, <2>1, FailsSets
    <3> QED BY <3>1 DEF WorkFields
  <2>2. CASE FileBreaks(w, f)
    BY <1>0, <2>2 DEF FileBreaks, WorkShape, WorkFields
  <2> QED BY <2>1, <2>2 DEF LinkFails, StoreFails
<1>4. work[w].touched
  BY <1>2, Touches DEF Past
<1> QED BY <1>1, <1>2, <1>3, <1>4, HealFile DEF HealInv, NamesPaths

LEMMA HealFileStarts ==
    ASSUME NEW w, Solo(w), ScanInv(w), HealInv(w), NEW f \in Paths, StartFile(w, f)
    PROVE  HealInv(w)'
<1> DEFINE id == IF rows[f] = None THEN work[w].job ELSE rows[f].id
           row == [id |-> id, hash |-> Fresh(w)[f], indexed |-> FALSE]
<1>0. WorkShape(w) /\ DOMAIN rows = Paths
  BY DEF ScanInv, DatabaseShape
<1>1. /\ work[w].pc = "pass1" /\ work[w].at[f] = "wait" /\ UNCHANGED <<symbols, edges>>
      /\ rows' = [rows EXCEPT ![f] = row]
      /\ work' = [work EXCEPT ![w].at[f] = "upserted", ![w].id[f] = id]
  BY DEF StartFile, Upserted
<1>2. id \in Jobs
  BY <1>0, <1>1 DEF HealInv, WorkShape
<1>3. row.id = id
  OBVIOUS
<1> HIDE DEF id, row
<1>4. \A g \in Paths : rows'[g] # None => rows'[g].id \in Jobs
  BY <1>0, <1>1, <1>2, <1>3 DEF HealInv
<1>5. work'[w].pc = work[w].pc /\ work'[w].touched = work[w].touched
  BY <1>0, <1>1 DEF WorkShape, WorkFields
<1>6. work[w].touched
  BY <1>1, Touches DEF Past
<1> QED BY <1>1, <1>4, <1>5, <1>6, HealFile DEF HealInv, NamesPaths, Indexing

LEMMA HealFileDeleted ==
    ASSUME NEW w, Solo(w), ScanInv(w), HealInv(w), NEW f \in Paths, DeleteFile(w, f)
    PROVE  HealInv(w)'
<1> DEFINE kept == {e \in edges : e.src # f /\ e.dst # f}
<1>0. WorkShape(w) /\ DOMAIN rows = Paths
  BY DEF ScanInv, DatabaseShape
<1>1. /\ work[w].pc = "purge" /\ f \in work[w].deleted
      /\ rows' = [rows EXCEPT ![f] = None]
      /\ edges' = Bereft(kept, SymbolsOf(f))
      /\ work' = [work EXCEPT ![w].deleted = @ \ {f}]
  BY DEF DeleteFile
<1>2. NamesPaths(kept) /\ \A e \in kept : IsEdge(e)
  BY DEF HealInv, NamesPaths, ScanInv, DatabaseShape
<1> HIDE DEF kept
<1>3. NamesPaths(edges')
  BY <1>1, <1>2, BereftNames
<1>4. \A g \in Paths : rows'[g] # None => rows'[g].id \in Jobs
  BY <1>0, <1>1 DEF HealInv
<1>5. work'[w].pc = work[w].pc /\ work'[w].touched = work[w].touched
  BY <1>0, <1>1 DEF WorkShape, WorkFields
<1>6. work[w].touched
  BY <1>1, Touches DEF Past
<1> QED BY <1>1, <1>3, <1>4, <1>5, <1>6, HealFile DEF Indexing

\* What is left without a target once both rounds are through has none.
LEMMA HealReaches ==
    ASSUME NEW w, Solo(w), ScanInv(w), HealInv(w), HealEdges(w) PROVE Healed'
<1> DEFINE mid == WithImports(w)
           Set(e) == IF e.kind = "calls" /\ e.dst = None
                     THEN HealCall(w, e, ImportedBy(e.src, mid)) ELSE e
<1>1. /\ work[w].pc = "heal" /\ UNCHANGED <<rows, symbols>>
      /\ work[w].index = symbols
      /\ \A p \in Paths : work[w].files[p] = 0 <=> rows[p] = None
      /\ edges' = {Set(e) : e \in mid}
  BY DEF HealEdges, HealInv, Indexing, WithCalls
<1>2. \A e \in edges : IsEdge(e)
  BY DEF ScanInv, DatabaseShape
<1>3. \A e \in mid : IsEdge(e)
  BY HealedAlike
<1>4. \A e \in mid : e.kind = "imports" /\ e.dst = None => rows[e.what] = None
  <2> SUFFICES ASSUME NEW e \in mid, e.kind = "imports", e.dst = None PROVE rows[e.what] = None
    OBVIOUS
  <2>1. CASE e \in edges \ Linkable(w)
    BY <1>1, <2>1 DEF Linkable, HealInv
  <2>2. ASSUME NEW d \in Linkable(w), e = [d EXCEPT !.dst = d.what] PROVE FALSE
    <3>1. d \in edges /\ d.kind = "imports" /\ IsEdge(d)
      BY <1>2 DEF Linkable
    <3>2. e.dst = d.what /\ d.what \in Paths
      BY <2>2, <3>1 DEF IsEdge, HealInv
    <3> QED BY <3>2 DEF Solo
  <2> QED BY <2>1, <2>2 DEF WithImports
<1>5. \A e \in mid : Set(e).kind = e.kind /\ Set(e).src = e.src /\ Set(e).what = e.what
  BY <1>3 DEF HealCall, IsEdge
<1>6. \A e \in mid : e.kind = "imports" => Set(e) = e
  OBVIOUS
<1>7. \A e \in mid : e.kind = "calls" /\ Set(e).dst = None =>
            LookupCallee(e.what, symbols, e.src, ImportedBy(e.src, mid)) = None
  <2> SUFFICES ASSUME NEW e \in mid, e.kind = "calls", Set(e).dst = None
               PROVE  LookupCallee(e.what, symbols, e.src, ImportedBy(e.src, mid)) = None
    OBVIOUS
  <2>1. e.dst = None
    OBVIOUS
  <2> DEFINE d == LookupCallee(e.what, work[w].index, e.src, ImportedBy(e.src, mid))
  <2>2. Set(e) = [e EXCEPT !.dst = d]
    BY <2>1 DEF HealCall
  <2> HIDE DEF d
  <2>3. Set(e).dst = d
    BY <1>3, <2>2 DEF IsEdge
  <2> QED BY <1>1, <2>3 DEF d
<1> HIDE DEF mid, Set
<1>8. \A e \in mid : e.kind \in {"imports", "calls"}
  BY <1>3 DEF IsEdge
<1>9. \A f : ImportedBy(f, edges') = ImportedBy(f, mid)
  <2> TAKE f
  <2>1. {x \in edges' : x.kind = "imports" /\ x.src = f} = {x \in mid : x.kind = "imports" /\ x.src = f}
    BY <1>1, <1>5, <1>6, <1>8
  <2> QED BY <2>1 DEF ImportedBy
<1> SUFFICES ASSUME NEW x \in edges', x.dst = None
             PROVE  IF x.kind = "imports" THEN rows'[x.what] = None
                    ELSE LookupCallee(x.what, symbols', x.src, ImportedBy(x.src, edges')) = None
  BY DEF Healed, ImportedBy
<1>a. PICK e \in mid : x = Set(e)
  BY <1>1
<1>b. CASE e.kind = "imports"
  BY <1>1, <1>4, <1>6, <1>a, <1>b
<1>c. CASE e.kind = "calls"
  <2>1. LookupCallee(e.what, symbols, e.src, ImportedBy(e.src, mid)) = None
    BY <1>7, <1>a, <1>c
  <2>2. x.kind = "calls" /\ x.what = e.what /\ x.src = e.src
    BY <1>5, <1>a, <1>c
  <2> QED BY <1>1, <1>9, <2>1, <2>2
<1> QED BY <1>8, <1>b, <1>c

LEMMA HealHealing ==
    ASSUME NEW w, Solo(w), ScanInv(w), HealInv(w), HealEdges(w) \/ HealFails(w)
    PROVE  HealInv(w)'
<1>0. WorkShape(w)
  BY DEF ScanInv
<1>1. work[w].pc = "heal" /\ work[w].touched /\ UNCHANGED <<rows, symbols>>
  BY DEF HealEdges, HealFails, NeedsHealing
<1>2. edges' \in {edges, WithImports(w), WithCalls(w, WithImports(w))}
  BY DEF HealEdges, HealFails
<1>3. NamesPaths(edges')
  BY <1>2, HealedAlike, AlikeNames DEF HealInv, NamesPaths
<1>4. work'[w].pc = "commit" /\ work'[w].touched
  <2>1. CASE Goto(w, "commit")
    BY <1>0, <1>1, <2>1, Gone DEF WorkFields
  <2>2. CASE work' = [work EXCEPT ![w].pc = "commit", ![w].broken = TRUE]
    BY <1>0, <1>1, <2>2 DEF WorkShape, WorkFields
  <2> QED BY <2>1, <2>2 DEF HealEdges, HealFails
<1>5. Undisturbed(w)' => Healed'
  <2>1. CASE HealEdges(w)
    BY <2>1, HealReaches
  <2>2. CASE HealFails(w)
    <3>1. work'[w].broken
      BY <1>0, <2>2 DEF HealFails, WorkShape, WorkFields
    <3> QED BY <1>4, <3>1 DEF Undisturbed
  <2> QED BY <2>1, <2>2
<1> QED BY <1>1, <1>3, <1>4, <1>5 DEF HealInv, NamesPaths, Indexing

LEMMA HealFileStep ==
    ASSUME NEW w, Solo(w), ScanInv(w), HealInv(w), NEW f \in Paths, FileStep(w, f)
    PROVE  HealInv(w)'
<1>1. CASE \/ DeleteChunks(w, f) \/ DeleteEdges(w, f) \/ DeleteSymbols(w, f) \/ InsertSymbols(w, f)
           \/ LinkFile(w, f) \/ InsertChunks(w, f) \/ MarkIndexed(w, f)
  BY <1>1, HealFileMoves
<1>2. CASE LinkFails(w, f) \/ StoreFails(w, f) \/ FileBreaks(w, f)
  BY <1>2, HealFileGivesUp
<1>3. CASE StartFile(w, f)
  BY <1>3, HealFileStarts
<1>4. CASE DeleteFile(w, f)
  BY <1>4, HealFileDeleted
<1> QED BY <1>1, <1>2, <1>3, <1>4 DEF FileStep

LEMMA HealJobStep ==
    ASSUME NEW w, Solo(w), ScanInv(w), HealInv(w), JobStep(w) PROVE HealInv(w)'
<1>1. CASE ClaimJob(w)
  BY <1>1, HealClaim
<1>2. CASE CloneRepo(w)
  BY <1>2, HealClone
<1>3. CASE Diff(w)
  BY <1>3, HealDiff
<1>4. CASE PurgeDone(w) \/ WindowDone(w) \/ Pass2Done(w) \/ SkipHealing(w) \/ UpdateCommit(w)
  BY <1>4, HealGoes
<1>5. CASE Pass1Done(w)
  BY <1>5, HealPass1
<1>6. CASE NextWindow(w) \/ EmbedWindow(w)
  BY <1>6, HealWindow
<1>7. CASE HealEdges(w) \/ HealFails(w)
  BY <1>7, HealHealing
<1>8. CASE FinishJob(w)
  BY <1>8, HealFinish
<1>9. CASE FailJob(w)
  BY <1>9, HealLeft DEF FailJob, database
<1>a. CASE JobThrows(w)
  BY <1>a, HealThrows
<1> QED BY <1>1, <1>2, <1>3, <1>4, <1>5, <1>6, <1>7, <1>8, <1>9, <1>a DEF JobStep

LEMMA HealInit == ASSUME NEW w, Solo(w), ScanInit PROVE HealInv(w)
<1>1. work[w] = NoWork
  BY DEF ScanInit, Solo
<1>2. NoWork.pc \notin Past /\ NoWork.pc \notin Indexing
  BY DEF NoWork, Past, Indexing
<1> QED BY <1>1, <1>2 DEF ScanInit, HealInv, Healed

\* Where each edge stands while a scan is under way: the indexes the worker resolves names
\* against are still the rows and the symbols when it heals the edges with them, and a job that
\* found nothing to do leaves the edges as the one before it left them.
THEOREM HealInvariant == ASSUME NEW w, Solo(w) PROVE ScanSpec => []HealInv(w)
<1>1. ScanInit => HealInv(w)
  BY HealInit
<1>2. ScanInv(w) /\ HealInv(w) /\ [ScanNext]_scanVars => HealInv(w)'
  <2> SUFFICES ASSUME ScanInv(w), HealInv(w), [ScanNext]_scanVars PROVE HealInv(w)'
    OBVIOUS
  <2>1. CASE PushCommit
    BY <2>1, HealOutside
  <2>2. ASSUME NEW v \in Replicas, Enqueue(v) \/ StashToken(v) PROVE HealInv(w)'
    BY <2>2, HealOutside DEF Solo
  <2>3. ASSUME NEW v \in Replicas, JobStep(v) PROVE HealInv(w)'
    BY <2>3, HealJobStep DEF Solo
  <2>4. ASSUME NEW v \in Replicas, NEW f \in Paths, FileStep(v, f) PROVE HealInv(w)'
    BY <2>4, HealFileStep DEF Solo
  <2>5. ASSUME NEW v \in Replicas, Crash(v) PROVE HealInv(w)'
    BY <2>5, HealLeft DEF Solo, Crash, database
  <2>6. CASE UNCHANGED scanVars
    <3>1. UNCHANGED <<rows, symbols, edges, work, jobs>>
      BY <2>6 DEF scanVars, database
    <3>2. (Healthy(w)' <=> Healthy(w)) /\ (Undisturbed(w)' <=> Undisturbed(w))
      BY <3>1 DEF Healthy, Undisturbed, EndedWell
    <3> QED BY <3>1, <3>2, HealQuiet DEF HealInv
  <2> QED BY <2>1, <2>2, <2>3, <2>4, <2>5, <2>6 DEF ScanNext, WorkerStep
<1> QED BY <1>1, <1>2, ScanInvariant, PTL DEF ScanSpec

LEMMA InvIsHealed == ASSUME NEW w, Solo(w), HealInv(w) PROVE EdgesHealed
<1> SUFFICES ASSUME \A v \in Replicas : work[v] = NoWork,
                    \A j \in Jobs : jobs[j].status # "absent" => EndedWell(j)
             PROVE  Healed
  BY DEF EdgesHealed, Healed
<1>1. work[w].pc = "idle"
  BY IdleWork DEF Solo
<1> QED BY <1>1 DEF HealInv, Healthy, Undisturbed

\* After scans that all ended well no edge is without a target it could have.
THEOREM EdgesAreHealed == ASSUME NEW w, Solo(w) PROVE ScanSpec => []EdgesHealed
<1>1. HealInv(w) => EdgesHealed
  BY InvIsHealed
<1> QED BY <1>1, HealInvariant, PTL

-----------------------------------------------------------------------------
(* Types.                                                                  *)

Statuses == {"absent", "queued", "running", "done", "failed"}

Typed(w) ==
    /\ commit \in Trees \cup {None}
    /\ \A j \in Jobs : jobs[j].status \in Statuses
    /\ \A f \in Paths : rows[f] # None => rows[f].hash \in DOMAIN Text
    /\ DOMAIN tokens = {w} /\ tokens[w] \subseteq Jobs
    /\ DOMAIN stashing = {w} /\ stashing[w] \in Jobs \cup {0}

\* A step that records something of one job.
LEMMA StatusKept ==
    ASSUME NEW w, ScanInv(w), Typed(w), NEW j \in Jobs,
           \/ UNCHANGED jobs
           \/ \E s \in Statuses : jobs' = [jobs EXCEPT ![j].status = s]
           \/ \E s \in Statuses : \E x, y :
                 jobs' = [jobs EXCEPT ![j].status = s, ![j].failures = x, ![j].unhealed = y]
           \/ \E n : jobs' = [jobs EXCEPT ![j].total = n]
           \/ jobs' = [jobs EXCEPT ![j].done = @ + 1]
    PROVE  \A k \in Jobs : jobs'[k].status \in Statuses
<1>1. /\ DOMAIN jobs = Jobs
      /\ DOMAIN jobs[j] = {"status", "total", "done", "failures", "unhealed"}
      /\ \A k \in Jobs : jobs[k].status \in Statuses
  BY DEF ScanInv, Counted, Typed
<1>2. CASE UNCHANGED jobs
  BY <1>1, <1>2
<1>3. ASSUME NEW s \in Statuses, jobs' = [jobs EXCEPT ![j].status = s]
      PROVE  \A k \in Jobs : jobs'[k].status \in Statuses
  BY <1>1, <1>3
<1>4. ASSUME NEW s \in Statuses, NEW x, NEW y,
             jobs' = [jobs EXCEPT ![j].status = s, ![j].failures = x, ![j].unhealed = y]
      PROVE  \A k \in Jobs : jobs'[k].status \in Statuses
  <2>1. jobs' = [jobs EXCEPT ![j] = [jobs[j] EXCEPT !.status = s, !.failures = x, !.unhealed = y]]
    BY <1>1, <1>4
  <2>2. \A r : r = [jobs[j] EXCEPT !.status = s, !.failures = x, !.unhealed = y] => r.status = s
    BY <1>1
  <2>3. jobs'[j].status = s /\ \A k \in Jobs \ {j} : jobs'[k] = jobs[k]
    BY <1>1, <2>1, <2>2
  <2> QED BY <1>1, <2>3
<1>5. ASSUME NEW n, jobs' = [jobs EXCEPT ![j].total = n]
      PROVE  \A k \in Jobs : jobs'[k].status \in Statuses
  BY <1>1, <1>5
<1>6. CASE jobs' = [jobs EXCEPT ![j].done = @ + 1]
  BY <1>1, <1>6
<1> QED BY <1>2, <1>3, <1>4, <1>5, <1>6

LEMMA JobsTyped ==
    ASSUME NEW w, Solo(w), ScanInv(w), Typed(w), ScanNext
    PROVE  \A k \in Jobs : jobs'[k].status \in Statuses
<1> DEFINE Goal == \A k \in Jobs : jobs'[k].status \in Statuses
<1>0. work[w].pc # "idle" => work[w].job \in Jobs
  BY DEF ScanInv, WorkShape
<1>1. CASE UNCHANGED jobs
  BY <1>1 DEF Typed
<1>2. ASSUME Enqueue(w) PROVE Goal
  BY <1>2, StatusKept DEF Enqueue, Statuses
<1>3. ASSUME ClaimJob(w) PROVE Goal
  <2>1. Oldest(Queued) \in Jobs
    BY <1>3, OldestWaits DEF ClaimJob, Queued
  <2> QED BY <1>3, <2>1, StatusKept DEF ClaimJob, Statuses
<1>4. ASSUME Diff(w) PROVE Goal
  BY <1>0, <1>4, StatusKept DEF Diff
<1>5. ASSUME FinishJob(w) PROVE Goal
  BY <1>0, <1>5, StatusKept DEF FinishJob, Statuses
<1>6. ASSUME FailJob(w) PROVE Goal
  BY <1>0, <1>6, StatusKept DEF FailJob, Statuses
<1>7. ASSUME NEW f \in Paths, LinkFails(w, f) \/ StoreFails(w, f) \/ MarkIndexed(w, f) PROVE Goal
  <2>1. CountFile(w)
    BY <1>7 DEF LinkFails, StoreFails, MarkIndexed
  <2>2. work[w].pc # "idle"
    BY <1>7, InChunks DEF LinkFails, StoreFails, MarkIndexed
  <2> QED BY <1>0, <2>1, <2>2, StatusKept DEF CountFile
<1>8. ASSUME JobStep(w) PROVE Goal
  BY <1>1, <1>3, <1>4, <1>5, <1>6, <1>8
     DEF JobStep, CloneRepo, PurgeDone, Pass1Done, NextWindow, EmbedWindow, WindowDone, Pass2Done,
         HealEdges, SkipHealing, HealFails, UpdateCommit, JobThrows
<1>9. ASSUME NEW f \in Paths, FileStep(w, f) PROVE Goal
  BY <1>1, <1>7, <1>9
     DEF FileStep, StartFile, DeleteChunks, DeleteEdges, DeleteSymbols, InsertSymbols, FileBreaks,
         LinkFile, InsertChunks, DeleteFile
<1> QED BY <1>1, <1>2, <1>8, <1>9 DEF ScanNext, WorkerStep, PushCommit, StashToken, Crash, Solo

LEMMA HashesTyped ==
    ASSUME NEW w, Solo(w), ScanInv(w), Typed(w), NEW f \in Paths, FileStep(w, f)
    PROVE  \A g \in Paths : rows'[g] # None => rows'[g].hash \in DOMAIN Text
<1>0. /\ DOMAIN rows = Paths
      /\ \A g \in Paths : rows[g] # None => DOMAIN rows[g] = {"id", "hash", "indexed"}
  BY DEF ScanInv, DatabaseShape
<1>1. CASE StartFile(w, f)
  <2>1. work[w].tree \in Trees /\ Fresh(w)[f] # None
    BY <1>1 DEF StartFile, ScanInv, WorkShape, Staged, Past
  <2>2. Fresh(w)[f] \in DOMAIN Text
    BY <2>1, ScanAssumption DEF Fresh
  <2>3. PICK id : rows' = [rows EXCEPT ![f] = [id |-> id, hash |-> Fresh(w)[f], indexed |-> FALSE]]
    BY <1>1 DEF StartFile, Upserted
  <2> QED BY <1>0, <2>2, <2>3 DEF Typed
<1>2. CASE MarkIndexed(w, f)
  <2>1. rows' = rows \/ (rows[f] # None /\ rows' = [rows EXCEPT ![f].indexed = TRUE])
    BY <1>2 DEF MarkIndexed, RowStands
  <2> QED BY <1>0, <2>1 DEF Typed
<1>3. CASE DeleteFile(w, f)
  BY <1>0, <1>3 DEF DeleteFile, Typed
<1>4. CASE UNCHANGED rows
  BY <1>4 DEF Typed
<1> QED BY <1>1, <1>2, <1>3, <1>4 DEF FileStep, DeleteChunks, DeleteEdges, DeleteSymbols, InsertSymbols,
                                       FileBreaks, LinkFile, LinkFails, InsertChunks, StoreFails, database

LEMMA JobStepTyped ==
    ASSUME NEW w, Solo(w), ScanInv(w), Typed(w), JobStep(w)
    PROVE  /\ commit' \in Trees \cup {None} /\ UNCHANGED <<rows, stashing>>
           /\ DOMAIN tokens' = {w} /\ tokens'[w] \subseteq Jobs
<1>1. CASE UpdateCommit(w)
  BY <1>1 DEF UpdateCommit, database, Typed, ScanInv, WorkShape, Past
<1>2. CASE CloneRepo(w) \/ JobThrows(w)
  BY <1>2 DEF CloneRepo, JobThrows, TakeToken, database, Typed
<1>3. ASSUME ~UpdateCommit(w), ~CloneRepo(w), ~JobThrows(w)
      PROVE  UNCHANGED <<commit, rows, stashing, tokens>>
  BY <1>3 DEF JobStep, ClaimJob, Diff, PurgeDone, Pass1Done, NextWindow, EmbedWindow, WindowDone,
              Pass2Done, HealEdges, SkipHealing, HealFails, FinishJob, FailJob, database
<1> QED BY <1>1, <1>2, <1>3 DEF Typed

\* Every state of the worker is well typed.
THEOREM ScanTyped == ASSUME NEW w, Solo(w) PROVE ScanSpec => []ScanTypeOK
<1>1. ScanInit => Typed(w)
  BY DEF ScanInit, Typed, Solo, Statuses, Absent, Jobs
<1>2. ScanInv(w) /\ Typed(w) /\ [ScanNext]_scanVars => Typed(w)'
  <2> SUFFICES ASSUME ScanInv(w), Typed(w), [ScanNext]_scanVars PROVE Typed(w)'
    OBVIOUS
  <2>1. CASE UNCHANGED scanVars
    BY <2>1 DEF scanVars, database, Typed
  <2>2. ASSUME ScanNext PROVE Typed(w)'
    <3>0. \A k \in Jobs : jobs'[k].status \in Statuses
      BY <2>2, JobsTyped
    <3>1. CASE PushCommit \/ Enqueue(w) \/ StashToken(w) \/ Crash(w)
      BY <3>0, <3>1 DEF PushCommit, Enqueue, StashToken, Crash, database, Typed
    <3>2. CASE JobStep(w)
      BY <3>0, <3>2, JobStepTyped DEF Typed
    <3>3. ASSUME NEW f \in Paths, FileStep(w, f) PROVE Typed(w)'
      <4>1. UNCHANGED <<commit, tokens, stashing>>
        BY <3>3 DEF FileStep, StartFile, DeleteChunks, DeleteEdges, DeleteSymbols, InsertSymbols,
                    FileBreaks, LinkFile, LinkFails, InsertChunks, StoreFails, MarkIndexed, DeleteFile
      <4> QED BY <3>0, <3>3, <4>1, HashesTyped DEF Typed
    <3> QED BY <2>2, <3>1, <3>2, <3>3 DEF ScanNext, WorkerStep, Solo
  <2> QED BY <2>1, <2>2
<1>3. ScanInv(w) /\ HealInv(w) /\ Typed(w) => ScanTypeOK
  BY DEF ScanInv, HealInv, Typed, ScanTypeOK, DatabaseShape, WorkShape, Solo, Statuses
<1> QED BY <1>1, <1>2, <1>3, ScanInvariant, HealInvariant, PTL DEF ScanSpec
=============================================================================
