--------------------------- MODULE Commits_proofs ---------------------------
(***************************************************************************)
(* Theorems about the commits made through the server: the log kept of     *)
(* them on the checkpoint page (CommitLog), for any number of processes,   *)
(* commits, saves and clears, any cap and any number of failures; and the  *)
(* branch they are made on (BranchWrites), for any number of tool calls,   *)
(* paths, requests and commits made elsewhere.                             *)
(***************************************************************************)
EXTENDS CommitLog, BranchWrites, FiniteSetTheorems, SequenceTheorems,
        NaturalsInduction, WellFoundedInduction, TLAPS

-----------------------------------------------------------------------------
(* The commit log.                                                         *)


Faults == LogFaults - logFaultsLeft

\* What is known of the log's values.
LogShape ==
    /\ inserted \in Nat /\ cleared \in Nat
    /\ log \subseteq 1 .. inserted
    /\ record \in [LogProcesses -> [step : {"idle", "insert", "reread", "trim"}, doomed : SUBSET Nat]]
    /\ tend \in [step : {"idle", "reread", "trim", "list", "clear"}, doomed : SUBSET Nat]
    /\ logFaultsLeft \in 0 .. LogFaults

\* What a trim is about to delete was already beyond the cap; what a clear deletes, it has seen.
DoomedOld ==
    /\ \A p \in LogProcesses : \A b \in record[p].doomed : b <= inserted - Cap
    /\ \A b \in tend.doomed : IF tend.step = "clear" THEN b <= cleared ELSE b <= inserted - Cap

\* The processes that have inserted since p read the log, by the relation R.
Since(R, p) == {q \in LogProcesses : <<q, p>> \in R}

Within(entries, more, faults) == Cardinality(entries) <= Cap + Cardinality(more) + faults

\* R orders the records that are being trimmed: it relates q to p when q inserted its entry
\* after p had read the log.  Once p has deleted what it is about to delete, only the entries of
\* those are in excess.
Ordered(R) ==
    /\ \A p, q \in LogProcesses : <<q, p>> \in R =>
           p # q /\ q \in Trimming /\ record[p].step = "trim"
    /\ \A p, q, r \in LogProcesses : <<q, p>> \in R /\ <<p, r>> \in R => <<q, r>> \in R
    /\ \A p \in LogProcesses : record[p].step = "trim" =>
           Within(log \ record[p].doomed, Since(R, p), Faults)

Relations == SUBSET (LogProcesses \X LogProcesses)

LogInv ==
    /\ LogShape
    /\ DoomedOld
    /\ Within(log, Trimming, Faults)
    /\ \E R \in Relations : Ordered(R)

-----------------------------------------------------------------------------
\* A set of numbers that is not empty has a least one.
LEMMA LeastExists ==
    ASSUME NEW S \in SUBSET Nat, S # {}
    PROVE  \E m \in S : \A n \in S : m <= n
<1> DEFINE R == OpToRel(<, Nat)
<1>1. IsWellFoundedOn(R, Nat)
  BY NatLessThanWellFounded
<1>2. PICK x \in S : \A y \in S : ~(<<y, x>> \in R)
  <2> HIDE DEF R
  <2> QED BY <1>1, WFMin
<1>3. \A y \in S : ~(y < x)
  BY <1>2 DEF OpToRel
<1> QED BY <1>3

\* The entries beyond the cap of a log are none of the newest Cap ever inserted.
LEMMA BeyondOld ==
    ASSUME NEW n \in Nat, NEW S \in SUBSET (1 .. n), NEW b \in Beyond(S)
    PROVE  b <= n - Cap
<1> DEFINE above == {x \in S : x > b}
<1>1. b \in S /\ Cardinality(above) >= Cap
  BY DEF Beyond
<1>2. above \subseteq (b + 1) .. n /\ b + 1 \in Int /\ n \in Int
  <2>1. S \subseteq 1 .. n /\ b \in Int
    BY <1>1
  <2>2. ASSUME NEW x \in above PROVE x \in (b + 1) .. n
    BY <2>1
  <2>3. b + 1 \in Int /\ n \in Int
    BY <2>1
  <2> HIDE DEF above
  <2> QED BY <2>2, <2>3
<1>3. IsFiniteSet((b + 1) .. n) /\ Cardinality((b + 1) .. n) = IF b + 1 > n THEN 0 ELSE n - (b + 1) + 1
  BY <1>2, FS_Interval
<1>4. Cardinality(above) <= Cardinality((b + 1) .. n)
  BY <1>2, <1>3, FS_Subset
<1>5. IsFiniteSet(above) /\ Cardinality(above) \in Nat
  BY <1>2, <1>3, FS_Subset, FS_CardinalityType
<1> HIDE DEF above
<1> QED BY <1>1, <1>2, <1>3, <1>4, <1>5, LogAssumption

\* A log without its entries beyond the cap is within the cap.
LEMMA CapHolds ==
    ASSUME NEW n \in Nat, NEW S \in SUBSET (1 .. n)
    PROVE  Cardinality(S \ Beyond(S)) <= Cap
<1> DEFINE kept == S \ Beyond(S)
<1>0. IsFiniteSet(S)
  <2>1. IsFiniteSet(1 .. n)
    BY FS_Interval
  <2> QED BY <2>1, FS_Subset
<1>1. CASE kept = {}
  BY <1>1, FS_EmptySet, LogAssumption
<1>2. CASE kept # {}
  <2>1. PICK m \in kept : \A k \in kept : m <= k
    <3>1. kept \in SUBSET Nat
      <4>1. 1 .. n \subseteq Nat
        OBVIOUS
      <4> QED BY <4>1
    <3> HIDE DEF kept
    <3> QED BY <1>2, <3>1, LeastExists
  <2> DEFINE above == {x \in S : x > m}
  <2>2. m \in S /\ m \in 1 .. n /\ ~(Cardinality(above) >= Cap)
    BY <2>1 DEF Beyond
  <2>3. IsFiniteSet(above) /\ Cardinality(above) \in Nat
    BY <1>0, FS_Subset, FS_CardinalityType
  <2>4. IsFiniteSet(above \cup {m}) /\ Cardinality(above \cup {m}) <= Cardinality(above) + 1
    <3>1. IsFiniteSet(above \cup {m}) /\ Cardinality(above \cup {m}) = IF m \in above THEN Cardinality(above) ELSE Cardinality(above) + 1
      <4> HIDE DEF above
      <4> QED BY <2>3, FS_AddElement
    <3> HIDE DEF above
    <3> QED BY <2>3, <3>1
  <2>5. kept \subseteq above \cup {m}
    <3>1. ASSUME NEW k \in kept, k # m PROVE k > m
      <4>1. k \in 1 .. n /\ m <= k
        BY <2>1
      <4> QED BY <2>2, <3>1, <4>1
    <3> QED BY <3>1
  <2>6. Cardinality(kept) <= Cardinality(above \cup {m}) /\ Cardinality(kept) \in Nat
    <3> HIDE DEF above, kept
    <3> QED BY <2>4, <2>5, FS_Subset, FS_CardinalityType
  <2>7. Cardinality(above \cup {m}) \in Nat
    BY <2>4, FS_CardinalityType
  <2> HIDE DEF above, kept
  <2>8. Cardinality(kept) <= Cap
    BY <2>2, <2>3, <2>4, <2>6, <2>7, LogAssumption
  <2> QED BY <2>8 DEF kept
<1> QED BY <1>1, <1>2

-----------------------------------------------------------------------------
(* How the bound is kept when the entries, the processes and the faults it *)
(* is about change.                                                        *)

LEMMA WithinFewer ==
    ASSUME NEW E, NEW M, NEW f \in Int, NEW E2, NEW M2, NEW f2 \in Int,
           IsFiniteSet(E), IsFiniteSet(M2), Within(E, M, f),
           E2 \subseteq E, M \subseteq M2, f <= f2
    PROVE  Within(E2, M2, f2)
<1>1. IsFiniteSet(E2) /\ Cardinality(E2) <= Cardinality(E)
  BY FS_Subset
<1>2. IsFiniteSet(M) /\ Cardinality(M) <= Cardinality(M2)
  BY FS_Subset
<1>3. {Cardinality(E), Cardinality(E2), Cardinality(M), Cardinality(M2)} \subseteq Nat
  BY <1>1, <1>2, FS_CardinalityType
<1> QED BY <1>1, <1>2, <1>3, LogAssumption DEF Within

\* One entry more, or one process less, for one more fault.
LEMMA WithinFault ==
    ASSUME NEW E, NEW M, NEW f \in Int, NEW E2, NEW M2, NEW f2 \in Int, NEW x,
           IsFiniteSet(E), IsFiniteSet(M), IsFiniteSet(M2), Within(E, M, f), f + 1 <= f2,
           \/ E2 \subseteq E \cup {x} /\ M \subseteq M2
           \/ E2 \subseteq E /\ M \ {x} \subseteq M2
    PROVE  Within(E2, M2, f2)
<1>1. {Cardinality(E), Cardinality(M), Cardinality(M2)} \subseteq Nat
  BY FS_CardinalityType
<1>2. CASE E2 \subseteq E \cup {x} /\ M \subseteq M2
  <2>1. IsFiniteSet(E \cup {x}) /\ Cardinality(E \cup {x}) <= Cardinality(E) + 1
    <3>1. IsFiniteSet(E \cup {x}) /\ Cardinality(E \cup {x}) = IF x \in E THEN Cardinality(E) ELSE Cardinality(E) + 1
      BY FS_AddElement
    <3> QED BY <1>1, <3>1
  <2>2. IsFiniteSet(E2) /\ Cardinality(E2) <= Cardinality(E \cup {x})
    BY <1>2, <2>1, FS_Subset
  <2>3. Cardinality(M) <= Cardinality(M2)
    BY <1>2, FS_Subset
  <2>4. Cardinality(E2) \in Nat /\ Cardinality(E \cup {x}) \in Nat
    BY <2>1, <2>2, FS_CardinalityType
  <2> QED BY <1>1, <2>1, <2>2, <2>3, <2>4, LogAssumption DEF Within
<1>3. CASE E2 \subseteq E /\ M \ {x} \subseteq M2
  <2>1. IsFiniteSet(M \ {x}) /\ Cardinality(M) <= Cardinality(M \ {x}) + 1
    <3>1. IsFiniteSet(M \ {x}) /\ Cardinality(M \ {x}) = IF x \in M THEN Cardinality(M) - 1 ELSE Cardinality(M)
      BY FS_RemoveElement
    <3> QED BY <1>1, <3>1
  <2>2. Cardinality(M \ {x}) <= Cardinality(M2)
    BY <1>3, FS_Subset
  <2>3. IsFiniteSet(E2) /\ Cardinality(E2) <= Cardinality(E)
    BY <1>3, FS_Subset
  <2>4. Cardinality(E2) \in Nat /\ Cardinality(M \ {x}) \in Nat
    BY <2>1, <2>3, FS_CardinalityType
  <2> QED BY <1>1, <2>1, <2>2, <2>3, <2>4, LogAssumption DEF Within
<1> QED BY <1>2, <1>3

\* One entry more, for one more process.
LEMMA WithinInsert ==
    ASSUME NEW E, NEW M, NEW f \in Int, NEW x, NEW q,
           IsFiniteSet(E), IsFiniteSet(M), Within(E, M, f), q \notin M
    PROVE  /\ Within(E \cup {x}, M \cup {q}, f)
           /\ IsFiniteSet(E \cup {x}) /\ IsFiniteSet(M \cup {q})
<1>1. {Cardinality(E), Cardinality(M)} \subseteq Nat
  BY FS_CardinalityType
<1>2. IsFiniteSet(E \cup {x}) /\ Cardinality(E \cup {x}) <= Cardinality(E) + 1
  <2>1. IsFiniteSet(E \cup {x}) /\ Cardinality(E \cup {x}) = IF x \in E THEN Cardinality(E) ELSE Cardinality(E) + 1
    BY FS_AddElement
  <2> QED BY <1>1, <2>1
<1>3. IsFiniteSet(M \cup {q}) /\ Cardinality(M \cup {q}) = Cardinality(M) + 1
  BY FS_AddElement
<1>4. Cardinality(E \cup {x}) \in Nat
  BY <1>2, FS_CardinalityType
<1> QED BY <1>1, <1>2, <1>3, <1>4, LogAssumption DEF Within

\* The sets the bound is about are finite, in this state and the next.
LEMMA LogFinite ==
    ASSUME LogShape
    PROVE  /\ Faults \in Int /\ IsFiniteSet(Trimming)
           /\ \A D : IsFiniteSet(log \ D)
           /\ \A R, p : IsFiniteSet(Since(R, p))
<1>1. IsFiniteSet(log)
  <2>1. log \subseteq 1 .. inserted /\ 1 \in Int /\ inserted \in Int
    BY DEF LogShape
  <2>2. IsFiniteSet(1 .. inserted)
    BY <2>1, FS_Interval
  <2> QED BY <2>1, <2>2, FS_Subset
<1>2. IsFiniteSet(Trimming) /\ \A R, p : IsFiniteSet(Since(R, p))
  BY LogAssumption, FS_Subset DEF Trimming, Since
<1>3. Faults \in Int
  BY LogAssumption DEF LogShape, Faults
<1> QED BY <1>1, <1>2, <1>3, FS_Difference

-----------------------------------------------------------------------------
LEMMA LogInitInv == LogInit => LogInv
<1> SUFFICES ASSUME LogInit PROVE LogInv
  OBVIOUS
<1>1. LogShape /\ DoomedOld
  BY LogAssumption DEF LogInit, LogShape, DoomedOld, IdleTask
<1>2. {} \in Relations /\ Ordered({})
  BY DEF Relations, Ordered, LogInit, IdleTask
<1>3. Within(log, Trimming, Faults)
  <2>1. Cardinality(log) = 0
    BY FS_EmptySet DEF LogInit
  <2>2. Cardinality(Trimming) \in Nat
    BY LogAssumption, FS_Subset, FS_CardinalityType DEF Trimming
  <2>3. Faults = 0
    BY LogAssumption DEF LogInit, Faults
  <2> QED BY <2>1, <2>2, <2>3, LogAssumption DEF Within
<1> QED BY <1>1, <1>2, <1>3 DEF LogInv

\* Entries are numbers, those beyond the cap among them.
LEMMA BeyondNat ==
    ASSUME LogShape
    PROVE  /\ inserted \in Nat /\ Cap \in Nat /\ log \subseteq Nat /\ Beyond(log) \subseteq log
           /\ \A b \in Beyond(log) : b <= inserted - Cap
<1>1. inserted \in Nat /\ log \in SUBSET (1 .. inserted) /\ Cap \in Nat
  BY LogAssumption DEF LogShape
<1>2. \A b \in Beyond(log) : b <= inserted - Cap
  BY <1>1, BeyondOld
<1>3. 1 .. inserted \subseteq Nat
  BY <1>1
<1> QED BY <1>1, <1>2, <1>3 DEF Beyond

\* The shape of the log's values.
LEMMA LogShapeKept == LogShape /\ LogNext => LogShape'
<1> SUFFICES ASSUME LogShape, LogNext PROVE LogShape'
  OBVIOUS
<1> USE LogAssumption
<1>1. ASSUME NEW q \in LogProcesses, Commit(q) \/ StartRecord(q) \/ InsertEntry(q) \/ ProcessDies(q)
      PROVE  LogShape'
  BY <1>1 DEF LogShape, Commit, StartRecord, InsertEntry, ProcessDies, LogFault, IdleTask
<1>2. Beyond(log) \subseteq Nat /\ log \subseteq Nat
  BY BeyondNat
<1>3. ASSUME NEW q \in LogProcesses, Reread(q) PROVE LogShape'
  BY <1>2, <1>3 DEF LogShape, Reread, LogFault, IdleTask
<1>4. ASSUME NEW q \in LogProcesses, Trim(q) PROVE LogShape'
  BY <1>4 DEF LogShape, Trim, DeleteOne, LogFault, IdleTask
<1>5. ASSUME StartTend \/ TendReads \/ TendDeletes PROVE LogShape'
  BY <1>2, <1>5 DEF LogShape, StartTend, TendReads, TendDeletes, DeleteOne, LogFault, IdleTask
<1> QED BY <1>1, <1>3, <1>4, <1>5 DEF LogNext

\* A trim never reaches the newest Cap entries.
LEMMA DoomedOldKept == LogShape /\ DoomedOld /\ LogNext => DoomedOld'
<1> SUFFICES ASSUME LogShape, DoomedOld, LogNext PROVE DoomedOld'
  OBVIOUS
<1> USE LogAssumption
<1>0. /\ inserted \in Nat /\ Cap \in Nat /\ \A b \in Beyond(log) : b <= inserted - Cap
      /\ Beyond(log) \subseteq Nat
  BY BeyondNat
<1>1. ASSUME NEW q \in LogProcesses, Commit(q) \/ StartRecord(q) \/ ProcessDies(q)
      PROVE  DoomedOld'
  BY <1>1 DEF LogShape, DoomedOld, Commit, StartRecord, ProcessDies, LogFault, IdleTask
<1>2. ASSUME NEW q \in LogProcesses, InsertEntry(q) PROVE DoomedOld'
  <2>1. inserted' \in {inserted, inserted + 1} /\ UNCHANGED <<tend, cleared>>
    BY <1>2 DEF InsertEntry
  <2>2. \A p \in LogProcesses : record'[p].doomed \in SUBSET record[p].doomed
    BY <1>2 DEF InsertEntry, LogShape, IdleTask, LogFault
  <2>3. \A p \in LogProcesses : record[p].doomed \subseteq Nat
    BY DEF LogShape
  <2>4. tend.doomed \subseteq Nat
    BY DEF LogShape
  <2>5. \A p \in LogProcesses : \A b \in record'[p].doomed : b <= inserted' - Cap
    <3> TAKE p \in LogProcesses
    <3> TAKE b \in record'[p].doomed
    <3>1. b \in Nat /\ b <= inserted - Cap
      BY <2>2, <2>3 DEF DoomedOld
    <3>2. inserted' = inserted \/ inserted' = inserted + 1
      BY <2>1
    <3>3. inserted \in Nat /\ Cap \in Nat
      BY <1>0
    <3> QED BY <3>1, <3>2, <3>3
  <2>6. \A b \in tend.doomed : IF tend.step = "clear" THEN b <= cleared ELSE b <= inserted' - Cap
    BY <1>0, <2>1, <2>4 DEF DoomedOld
  <2> QED BY <2>1, <2>5, <2>6 DEF DoomedOld
<1>3. ASSUME NEW q \in LogProcesses, Reread(q) PROVE DoomedOld'
  BY <1>0, <1>3 DEF LogShape, DoomedOld, Reread, LogFault, IdleTask
<1>4. ASSUME NEW q \in LogProcesses, Trim(q) PROVE DoomedOld'
  BY <1>4 DEF LogShape, DoomedOld, Trim, LogFault, IdleTask
<1>5. ASSUME StartTend PROVE DoomedOld'
  BY <1>5 DEF LogShape, DoomedOld, StartTend, IdleTask
<1>6. ASSUME TendReads PROVE DoomedOld'
  <2>1. \A b \in log : b <= inserted
    BY DEF LogShape
  <2>2. CASE tend' = [step |-> "trim", doomed |-> Beyond(log)] /\ UNCHANGED cleared
    BY <1>0, <1>6, <2>2 DEF DoomedOld, TendReads
  <2>3. CASE tend' = [step |-> "clear", doomed |-> log] /\ cleared' = inserted
    BY <1>6, <2>1, <2>3 DEF DoomedOld, TendReads
  <2> QED BY <1>6, <2>2, <2>3 DEF TendReads
<1>7. ASSUME TendDeletes PROVE DoomedOld'
  BY <1>7 DEF LogShape, DoomedOld, TendDeletes, LogFault, IdleTask
<1> QED BY <1>1, <1>2, <1>3, <1>4, <1>5, <1>6, <1>7 DEF LogNext

\* While the entries, the records and the faults stay, the order and the bound do.
LEMMA OrderedStays ==
    ASSUME LogInv, UNCHANGED <<log, record, logFaultsLeft>>
    PROVE  Within(log, Trimming, Faults)' /\ (\E R \in Relations : Ordered(R))'
<1>1. Within(log, Trimming, Faults)'
  BY DEF LogInv, Within, Trimming, Faults
<1>2. PICK R \in Relations : Ordered(R)
  BY DEF LogInv
<1>3. Ordered(R)'
  BY <1>2 DEF Ordered, Within, Trimming, Faults, Since
<1> QED BY <1>1, <1>2, <1>3 DEF Relations

\* A deletion: of a record of a process, of a save or of a clear_log.
LEMMA DeletionKeeps ==
    ASSUME LogInv, LogShape', NEW b, DeleteOne(b),
           \A p \in LogProcesses : /\ record'[p].step = record[p].step
                                   /\ record[p].doomed \ {b} \subseteq record'[p].doomed
    PROVE  Within(log, Trimming, Faults)' /\ (\E R \in Relations : Ordered(R))'
<1>1. PICK R \in Relations : Ordered(R)
  BY DEF LogInv
<1>2. Trimming' = Trimming
  BY DEF Trimming
<1>3. log' \subseteq log /\ \A D : log' \ D \subseteq log \ D
  BY DEF DeleteOne
<1>4. logFaultsLeft \in Nat /\ logFaultsLeft' \in Nat
  BY LogAssumption DEF LogInv, LogShape
<1>5. Faults \in Int /\ Faults' \in Int /\ Faults <= Faults'
  <2>1. logFaultsLeft' = logFaultsLeft \/ logFaultsLeft' = logFaultsLeft - 1
    BY DEF DeleteOne, LogFault
  <2>2. LogFaults \in Nat
    BY LogAssumption
  <2>3. Faults \in Int /\ (Faults' = Faults \/ Faults' = Faults + 1)
    <3>1. CASE logFaultsLeft' = logFaultsLeft
      BY <1>4, <2>2, <3>1 DEF Faults
    <3>2. CASE logFaultsLeft' = logFaultsLeft - 1
      BY <1>4, <2>2, <3>2 DEF Faults
    <3> QED BY <2>1, <3>1, <3>2
  <2> QED BY <2>3
<1>6. /\ IsFiniteSet(Trimming) /\ IsFiniteSet(log \ {})
      /\ \A p : IsFiniteSet(Since(R, p)) /\ \A D : IsFiniteSet(log \ D)
  BY LogFinite DEF LogInv
<1>7. Within(log, Trimming, Faults)'
  <2>1. Within(log, Trimming, Faults) /\ IsFiniteSet(log)
    <3>1. log \ {} = log
      OBVIOUS
    <3> QED BY <1>6, <3>1 DEF LogInv
  <2>2. Within(log', Trimming, Faults')
    BY <1>3, <1>5, <1>6, <2>1, WithinFewer
  <2> QED BY <1>2, <2>2 DEF Within
<1>8. ASSUME NEW p \in LogProcesses, record'[p].step = "trim"
      PROVE  Within(log' \ record'[p].doomed, Since(R, p), Faults')
  <2>1. Within(log \ record[p].doomed, Since(R, p), Faults)
    BY <1>1, <1>8 DEF Ordered
  <2>2. CASE log' = log \ {b} /\ UNCHANGED logFaultsLeft
    <3>1. log' \ record'[p].doomed \subseteq log \ record[p].doomed
      BY <2>2
    <3>2. IsFiniteSet(log \ record[p].doomed) /\ IsFiniteSet(Since(R, p))
      BY <1>6
    <3> QED BY <1>5, <2>1, <3>1, <3>2, WithinFewer
  <2>3. CASE LogFault /\ UNCHANGED log
    <3>1. log' \ record'[p].doomed \subseteq (log \ record[p].doomed) \cup {b}
      BY <2>3
    <3>2. Faults + 1 <= Faults'
      BY <2>3, <1>4, LogAssumption DEF LogFault, Faults
    <3>3. IsFiniteSet(log \ record[p].doomed) /\ IsFiniteSet(Since(R, p))
      BY <1>6
    <3> QED BY <1>5, <2>1, <3>1, <3>2, <3>3, WithinFault
  <2> QED BY <2>2, <2>3 DEF DeleteOne
<1>9. Ordered(R)'
  <2>1. \A p \in LogProcesses : (record[p].step = "trim" => Within(log \ record[p].doomed, Since(R, p), Faults))'
    BY <1>8 DEF Since, Within
  <2>2. \A p, q \in LogProcesses : <<q, p>> \in R =>
           p # q /\ q \in Trimming' /\ record'[p].step = "trim"
    BY <1>1, <1>2 DEF Ordered
  <2>3. \A p, q, r \in LogProcesses : <<q, p>> \in R /\ <<p, r>> \in R => <<q, r>> \in R
    BY <1>1 DEF Ordered
  <2> QED BY <2>1, <2>2, <2>3 DEF Ordered
<1> QED BY <1>7, <1>9 DEF Relations

\* The relation without a process.
Without(R, p) == {e \in R : e[1] # p /\ e[2] # p}

\* A process stops trimming, or does not begin to: it had nothing left to delete, or it met a
\* failure.
LEMMA EndKeeps ==
    ASSUME LogInv, LogShape', NEW p \in LogProcesses, UNCHANGED log,
           record'[p].step \in {"idle", "insert"},
           \A r \in LogProcesses \ {p} : record'[r] = record[r],
           \/ /\ UNCHANGED logFaultsLeft
              /\ p \notin Trimming \/ (record[p].step = "trim" /\ record[p].doomed = {})
           \/ LogFault
    PROVE  Within(log, Trimming, Faults)' /\ (\E R \in Relations : Ordered(R))'
<1>1. PICK R \in Relations : Ordered(R)
  BY DEF LogInv
<1>2. Trimming' = Trimming \ {p}
  BY DEF Trimming
<1>3. logFaultsLeft \in Nat /\ logFaultsLeft' \in Nat /\ LogFaults \in Nat
  BY LogAssumption DEF LogInv, LogShape
<1>4. Faults \in Int /\ Faults' \in Int /\ Faults <= Faults'
  <2>1. logFaultsLeft' = logFaultsLeft \/ logFaultsLeft' = logFaultsLeft - 1
    BY DEF LogFault
  <2>2. Faults \in Int /\ (Faults' = Faults \/ Faults' = Faults + 1)
    <3>1. CASE logFaultsLeft' = logFaultsLeft
      BY <1>3, <3>1 DEF Faults
    <3>2. CASE logFaultsLeft' = logFaultsLeft - 1
      BY <1>3, <3>2 DEF Faults
    <3> QED BY <2>1, <3>1, <3>2
  <2> QED BY <2>2
<1>5. LogFault => Faults + 1 <= Faults'
  BY <1>3 DEF LogFault, Faults
<1>6. /\ IsFiniteSet(Trimming) /\ IsFiniteSet(log) /\ \A D : IsFiniteSet(log \ D)
      /\ \A S, r : IsFiniteSet(Since(S, r))
  <2>1. IsFiniteSet(log \ {}) /\ log \ {} = log
    BY LogFinite DEF LogInv
  <2> QED BY <2>1, LogFinite DEF LogInv
<1>7. IsFiniteSet(Trimming \ {p})
  BY <1>6, FS_Subset
<1> DEFINE R2 == Without(R, p)
<1>8. R2 \in Relations /\ \A a, b : <<a, b>> \in R2 <=> <<a, b>> \in R /\ a # p /\ b # p
  BY DEF Relations, Without
<1>9. \A r \in LogProcesses \ {p} : Since(R2, r) = Since(R, r) \ {p}
  BY <1>8 DEF Since
<1>10. \A r \in LogProcesses : Since(R, r) \subseteq Trimming \ {r}
  BY <1>1 DEF Since, Ordered
<1>11. Within(log, Trimming \ {p}, Faults')
  <2>0. Within(log, Trimming, Faults)
    BY DEF LogInv
  <2>1. CASE p \notin Trimming
    <3>1. Trimming \subseteq Trimming \ {p}
      BY <2>1
    <3> QED BY <1>4, <1>6, <1>7, <2>0, <3>1, WithinFewer
  <2>2. CASE LogFault
    <3>1. Faults + 1 <= Faults'
      BY <1>5, <2>2
    <3> QED BY <1>4, <1>6, <1>7, <2>0, <3>1, WithinFault
  <2>3. CASE record[p].step = "trim" /\ record[p].doomed = {}
    <3>1. Within(log, Since(R, p), Faults)
      <4>1. Within(log \ record[p].doomed, Since(R, p), Faults)
        BY <1>1, <2>3 DEF Ordered
      <4>2. log \ record[p].doomed = log
        BY <2>3
      <4> QED BY <4>1, <4>2
    <3>2. Since(R, p) \subseteq Trimming \ {p}
      BY <1>10
    <3> QED BY <1>4, <1>6, <1>7, <3>1, <3>2, WithinFewer
  <2> QED BY <2>1, <2>2, <2>3
<1>12. ASSUME NEW r \in LogProcesses, record'[r].step = "trim"
       PROVE  Within(log \ record'[r].doomed, Since(R2, r), Faults')
  <2>1. r # p /\ record'[r] = record[r]
    BY <1>12
  <2>2. Within(log \ record[r].doomed, Since(R, r), Faults)
    BY <1>1, <1>12, <2>1 DEF Ordered
  <2>3. Since(R2, r) = Since(R, r) \ {p} /\ IsFiniteSet(Since(R2, r))
    BY <1>6, <1>9, <2>1
  <2>4. IsFiniteSet(log \ record[r].doomed) /\ IsFiniteSet(Since(R, r))
    BY <1>6
  <2>5. CASE p \notin Since(R, r)
    <3>1. Since(R, r) \subseteq Since(R2, r)
      BY <2>3, <2>5
    <3>2. Within(log \ record[r].doomed, Since(R2, r), Faults')
      BY <1>4, <2>2, <2>3, <2>4, <3>1, WithinFewer
    <3> QED BY <2>1, <3>2
  <2>6. CASE LogFault
    <3>1. Faults + 1 <= Faults'
      BY <1>5, <2>6
    <3>2. Since(R, r) \ {p} \subseteq Since(R2, r)
      BY <2>3
    <3>3. Within(log \ record[r].doomed, Since(R2, r), Faults')
      BY <1>4, <2>2, <2>3, <2>4, <3>1, <3>2, WithinFault
    <3> QED BY <2>1, <3>3
  <2>7. CASE p \in Since(R, r) /\ record[p].step = "trim" /\ record[p].doomed = {}
    <3>1. Within(log, Since(R, p), Faults)
      <4>1. Within(log \ record[p].doomed, Since(R, p), Faults)
        BY <1>1, <2>7 DEF Ordered
      <4>2. log \ record[p].doomed = log
        BY <2>7
      <4> QED BY <4>1, <4>2
    <3>2. Since(R, p) \subseteq Since(R2, r)
      BY <1>1, <1>10, <2>3, <2>7 DEF Ordered, Since
    <3>3. log \ record[r].doomed \subseteq log
      OBVIOUS
    <3>4. Within(log \ record[r].doomed, Since(R2, r), Faults')
      BY <1>4, <1>6, <2>3, <3>1, <3>2, <3>3, WithinFewer
    <3> QED BY <2>1, <3>4
  <2>8. p \in Since(R, r) => p \in Trimming
    BY <1>10
  <2> QED BY <2>5, <2>6, <2>7, <2>8
<1>13. Ordered(R2)'
  <2>1. \A r \in LogProcesses : (record[r].step = "trim" => Within(log \ record[r].doomed, Since(R2, r), Faults))'
    BY <1>12 DEF Since, Within
  <2>2. \A r, q \in LogProcesses : <<q, r>> \in R2 =>
           r # q /\ q \in Trimming' /\ record'[r].step = "trim"
    BY <1>1, <1>2, <1>8 DEF Ordered
  <2>3. \A a, q, r \in LogProcesses : <<q, a>> \in R2 /\ <<a, r>> \in R2 => <<q, r>> \in R2
    BY <1>1, <1>8 DEF Ordered
  <2> HIDE DEF R2
  <2> QED BY <2>1, <2>2, <2>3 DEF Ordered
<1>14. Within(log, Trimming, Faults)'
  BY <1>2, <1>11 DEF Within
<1> QED BY <1>8, <1>13, <1>14 DEF Relations

\* What each kind of step leaves as it is.
KeepsBound == Within(log, Trimming, Faults)' /\ (\E R \in Relations : Ordered(R))'

\* A process inserts its entry on top, and is heard.
LEMMA InsertKeeps ==
    ASSUME LogInv, LogShape', NEW p \in LogProcesses, record[p].step = "insert",
           log' = log \cup {inserted + 1}, UNCHANGED logFaultsLeft,
           record' = [record EXCEPT ![p].step = "reread"]
    PROVE  KeepsBound
<1>1. PICK R \in Relations : Ordered(R)
  BY DEF LogInv
<1>2. /\ p \notin Trimming /\ Trimming' = Trimming \cup {p}
      /\ record'[p].step = "reread" /\ \A r \in LogProcesses \ {p} : record'[r] = record[r]
  BY DEF Trimming, LogInv, LogShape
<1>3. Faults \in Int /\ Faults' = Faults
  BY LogFinite DEF LogInv, Faults
<1>4. /\ IsFiniteSet(Trimming) /\ IsFiniteSet(log) /\ \A D : IsFiniteSet(log \ D)
      /\ \A S, r : IsFiniteSet(Since(S, r))
  <2>1. IsFiniteSet(log \ {}) /\ log \ {} = log
    BY LogFinite DEF LogInv
  <2> QED BY <2>1, LogFinite DEF LogInv
<1>5. IsFiniteSet(Trimming \cup {p})
  BY <1>4, FS_AddElement
<1>6. PICK Q \in Relations : \A a, b \in LogProcesses :
        <<a, b>> \in Q <=> <<a, b>> \in R \/ (a = p /\ record[b].step = "trim")
  <2> DEFINE S == R \cup {e \in LogProcesses \X LogProcesses : e[1] = p /\ record[e[2]].step = "trim"}
  <2>1. S \in Relations
    BY DEF Relations
  <2>2. \A a, b \in LogProcesses : <<a, b>> \in S <=> <<a, b>> \in R \/ (a = p /\ record[b].step = "trim")
    OBVIOUS
  <2> HIDE DEF S
  <2> QED BY <2>1, <2>2
<1>7. \A b \in LogProcesses : <<b, p>> \notin R /\ <<p, b>> \notin R
  <2>1. record[p].step # "trim"
    OBVIOUS
  <2> QED BY <1>1, <1>2, <2>1 DEF Ordered
<1>8. \A r \in LogProcesses : record[r].step = "trim" => Since(Q, r) = Since(R, r) \cup {p} /\ p \notin Since(R, r)
  <2> TAKE r \in LogProcesses
  <2>1. p \notin Since(R, r) <=> <<p, r>> \notin R
    BY DEF Since
  <2>2. \A a \in LogProcesses : <<a, r>> \in R => a \in Trimming
    BY <1>1 DEF Ordered
  <2> QED BY <1>2, <1>6, <2>1, <2>2 DEF Since
<1>9. Within(log, Trimming, Faults)'
  <2>1. Within(log, Trimming, Faults)
    BY DEF LogInv
  <2>2. Within(log \cup {inserted + 1}, Trimming \cup {p}, Faults)
    BY <1>2, <1>3, <1>4, <2>1, WithinInsert
  <2> QED BY <1>2, <1>3, <2>2 DEF Within
<1>10. ASSUME NEW r \in LogProcesses, record'[r].step = "trim"
       PROVE  Within(log' \ record'[r].doomed, Since(Q, r), Faults)
  <2>1. r # p /\ record'[r] = record[r] /\ record[r].step = "trim"
    BY <1>2, <1>10
  <2>2. Within(log \ record[r].doomed, Since(R, r), Faults)
    BY <1>1, <2>1 DEF Ordered
  <2>3. Since(R, r) \cup {p} \subseteq Since(Q, r) /\ p \notin Since(R, r)
    BY <1>8, <2>1
  <2>4. log' \ record[r].doomed \subseteq (log \ record[r].doomed) \cup {inserted + 1}
    OBVIOUS
  <2>5. IsFiniteSet(log \ record[r].doomed) /\ IsFiniteSet(Since(R, r)) /\ IsFiniteSet(Since(Q, r))
    BY <1>4
  <2>6. Within(log' \ record[r].doomed, Since(Q, r), Faults)
    <3>1. /\ Within((log \ record[r].doomed) \cup {inserted + 1}, Since(R, r) \cup {p}, Faults)
          /\ IsFiniteSet((log \ record[r].doomed) \cup {inserted + 1})
      BY <1>3, <2>2, <2>3, <2>5, WithinInsert
    <3>2. Faults <= Faults
      BY <1>3
    <3> QED BY <1>3, <2>3, <2>4, <2>5, <3>1, <3>2, WithinFewer
  <2> QED BY <2>1, <2>6
<1>11. Ordered(Q)'
  <2>1. \A r \in LogProcesses : (record[r].step = "trim" => Within(log \ record[r].doomed, Since(Q, r), Faults))'
    BY <1>3, <1>10 DEF Since, Within
  <2>2. \A r, q \in LogProcesses : <<q, r>> \in Q =>
           r # q /\ q \in Trimming' /\ record'[r].step = "trim"
    BY <1>1, <1>2, <1>6, <1>7 DEF Ordered
  <2>3. \A a, q, r \in LogProcesses : <<q, a>> \in Q /\ <<a, r>> \in Q => <<q, r>> \in Q
    <3> TAKE a, q, r \in LogProcesses
    <3>1. \A b \in LogProcesses : <<a, b>> \in R => record[b].step = "trim"
      BY <1>1 DEF Ordered
    <3>2. <<q, a>> \in R /\ <<a, r>> \in R => <<q, r>> \in R
      BY <1>1 DEF Ordered
    <3>3. record[p].step # "trim"
      OBVIOUS
    <3>4. CASE a = p
      BY <1>6, <1>7, <3>4
    <3>5. CASE a # p
      BY <1>6, <3>1, <3>2, <3>5
    <3> QED BY <3>4, <3>5
  <2> QED BY <2>1, <2>2, <2>3 DEF Ordered
<1> QED BY <1>6, <1>9, <1>11 DEF KeepsBound, Relations

\* A process inserts its entry, but is told of a failure.
LEMMA InsertFails ==
    ASSUME LogInv, LogShape', NEW p \in LogProcesses, record[p].step = "insert",
           log' = log \cup {inserted + 1}, LogFault,
           record' = [record EXCEPT ![p] = IdleTask]
    PROVE  KeepsBound
<1>1. PICK R \in Relations : Ordered(R)
  BY DEF LogInv
<1>2. /\ p \notin Trimming /\ Trimming' = Trimming
      /\ \A r \in LogProcesses : record'[r].step = "trim" <=> record[r].step = "trim"
      /\ \A r \in LogProcesses : record'[r].step = "trim" => record'[r] = record[r]
  BY DEF Trimming, LogInv, LogShape, IdleTask
<1>3. Faults \in Int /\ Faults' \in Int /\ Faults + 1 <= Faults'
  <2>1. logFaultsLeft \in Nat /\ logFaultsLeft' = logFaultsLeft - 1 /\ LogFaults \in Nat
    BY LogAssumption DEF LogInv, LogShape, LogFault
  <2>2. Faults \in Int /\ Faults' = Faults + 1
    BY <2>1 DEF Faults
  <2> QED BY <2>2
<1>4. /\ IsFiniteSet(Trimming) /\ IsFiniteSet(log) /\ \A D : IsFiniteSet(log \ D)
      /\ \A S, r : IsFiniteSet(Since(S, r))
  <2>1. IsFiniteSet(log \ {}) /\ log \ {} = log
    BY LogFinite DEF LogInv
  <2> QED BY <2>1, LogFinite DEF LogInv
<1>5. Within(log, Trimming, Faults)'
  <2>1. Within(log, Trimming, Faults)
    BY DEF LogInv
  <2>2. Within(log', Trimming, Faults')
    BY <1>3, <1>4, <2>1, WithinFault
  <2> QED BY <1>2, <2>2 DEF Within
<1>6. ASSUME NEW r \in LogProcesses, record'[r].step = "trim"
       PROVE  Within(log' \ record'[r].doomed, Since(R, r), Faults')
  <2>1. record'[r] = record[r] /\ record[r].step = "trim"
    BY <1>2, <1>6
  <2>2. Within(log \ record[r].doomed, Since(R, r), Faults)
    BY <1>1, <2>1 DEF Ordered
  <2>3. log' \ record[r].doomed \subseteq (log \ record[r].doomed) \cup {inserted + 1}
    OBVIOUS
  <2>4. IsFiniteSet(log \ record[r].doomed) /\ IsFiniteSet(Since(R, r))
    BY <1>4
  <2>5. Within(log' \ record[r].doomed, Since(R, r), Faults')
    BY <1>3, <2>2, <2>3, <2>4, WithinFault
  <2> QED BY <2>1, <2>5
<1>7. Ordered(R)'
  <2>1. \A r \in LogProcesses : (record[r].step = "trim" => Within(log \ record[r].doomed, Since(R, r), Faults))'
    BY <1>6 DEF Since, Within
  <2> QED BY <1>1, <1>2, <2>1 DEF Ordered
<1> QED BY <1>5, <1>7 DEF KeepsBound, Relations

\* A process reads the log: what it is about to delete leaves Cap entries.
LEMMA RereadKeeps ==
    ASSUME LogInv, LogShape', NEW p \in LogProcesses, record[p].step = "reread",
           UNCHANGED <<log, logFaultsLeft>>,
           record' = [record EXCEPT ![p] = [step |-> "trim", doomed |-> Beyond(log)]]
    PROVE  KeepsBound
<1>1. PICK R \in Relations : Ordered(R)
  BY DEF LogInv
<1>2. /\ Trimming' = Trimming
      /\ record'[p] = [step |-> "trim", doomed |-> Beyond(log)]
      /\ \A r \in LogProcesses \ {p} : record'[r] = record[r]
  BY DEF Trimming, LogInv, LogShape
<1>3. Faults' = Faults /\ log' = log /\ Faults \in Int /\ Faults >= 0
  <2>1. logFaultsLeft \in 0 .. LogFaults /\ LogFaults \in Nat
    BY LogAssumption DEF LogInv, LogShape
  <2> QED BY <2>1 DEF Faults
<1>4. Within(log, Trimming, Faults)'
  BY <1>2, <1>3 DEF Within, LogInv
<1>5. Within(log \ Beyond(log), Since(R, p), Faults)
  <2>1. inserted \in Nat /\ log \in SUBSET (1 .. inserted)
    BY DEF LogInv, LogShape
  <2>2. Cardinality(log \ Beyond(log)) <= Cap
    BY <2>1, CapHolds
  <2>3. Cardinality(log \ Beyond(log)) \in Nat /\ Cardinality(Since(R, p)) \in Nat
    BY LogFinite, FS_CardinalityType DEF LogInv
  <2> QED BY <1>3, <2>2, <2>3, LogAssumption DEF Within
<1>6. \A r \in LogProcesses : record'[r].step = "trim" => Within(log \ record'[r].doomed, Since(R, r), Faults)
  BY <1>1, <1>2, <1>5 DEF Ordered
<1>7. Ordered(R)'
  <2>1. \A r \in LogProcesses : (record[r].step = "trim" => Within(log \ record[r].doomed, Since(R, r), Faults))'
    BY <1>3, <1>6 DEF Since, Within
  <2> QED BY <1>1, <1>2, <2>1 DEF Ordered
<1> QED BY <1>4, <1>7 DEF KeepsBound, Relations

LEMMA LogStep == LogInv /\ [LogNext]_logVars => LogInv'
<1> SUFFICES ASSUME LogInv, [LogNext]_logVars PROVE LogInv'
  OBVIOUS
<1>1. CASE UNCHANGED logVars
  <2>1. KeepsBound
    BY <1>1, OrderedStays DEF logVars, KeepsBound
  <2>2. LogShape' /\ DoomedOld'
    BY <1>1 DEF logVars, LogInv, LogShape, DoomedOld
  <2> QED BY <2>1, <2>2 DEF LogInv, KeepsBound
<1>2. CASE LogNext
  <2>1. LogShape' /\ DoomedOld'
    BY <1>2, LogShapeKept, DoomedOldKept DEF LogInv
  <2>2. KeepsBound
    <3>0. record \in [LogProcesses -> [step : {"idle", "insert", "reread", "trim"}, doomed : SUBSET Nat]]
      BY DEF LogInv, LogShape
    <3>1. ASSUME NEW q \in LogProcesses, Commit(q) PROVE KeepsBound
      BY <3>1, OrderedStays DEF Commit, KeepsBound
    <3>2. ASSUME NEW q \in LogProcesses, StartRecord(q) PROVE KeepsBound
      <4>1. CASE record' = [record EXCEPT ![q].step = "insert"] /\ UNCHANGED logFaultsLeft
        <5>1. /\ record[q].step = "idle" /\ record'[q].step = "insert" /\ log' = log
              /\ \A r \in LogProcesses \ {q} : record'[r] = record[r]
          BY <3>0, <3>2, <4>1 DEF StartRecord, QueueFree
        <5>2. q \notin Trimming
          BY <5>1 DEF Trimming
        <5> QED BY <2>1, <4>1, <5>1, <5>2, EndKeeps DEF KeepsBound
      <4>2. CASE LogFault /\ UNCHANGED record
        <5>1. /\ record'[q].step = "idle" /\ log' = log /\ LogFault
              /\ \A r \in LogProcesses \ {q} : record'[r] = record[r]
          BY <3>2, <4>2 DEF StartRecord, QueueFree
        <5> QED BY <2>1, <5>1, EndKeeps DEF KeepsBound
      <4> QED BY <3>2, <4>1, <4>2 DEF StartRecord
    <3>3. ASSUME NEW q \in LogProcesses, InsertEntry(q) PROVE KeepsBound
      <4>0. record[q].step = "insert"
        BY <3>3 DEF InsertEntry
      <4>1. CASE /\ log' = log \cup {inserted + 1}
                 /\ record' = [record EXCEPT ![q].step = "reread"] /\ UNCHANGED logFaultsLeft
        BY <2>1, <4>0, <4>1, InsertKeeps
      <4>2. CASE /\ log' = log \cup {inserted + 1}
                 /\ LogFault /\ record' = [record EXCEPT ![q] = IdleTask]
        BY <2>1, <4>0, <4>2, InsertFails
      <4>3. CASE LogFault /\ record' = [record EXCEPT ![q] = IdleTask] /\ UNCHANGED log
        <5>1. record'[q].step = "idle" /\ \A r \in LogProcesses \ {q} : record'[r] = record[r]
          BY <3>0, <4>3 DEF IdleTask
        <5> QED BY <2>1, <4>3, <5>1, EndKeeps DEF KeepsBound
      <4> QED BY <3>3, <4>1, <4>2, <4>3 DEF InsertEntry
    <3>4. ASSUME NEW q \in LogProcesses, Reread(q) PROVE KeepsBound
      <4>0. record[q].step = "reread" /\ log' = log
        BY <3>4 DEF Reread
      <4>1. CASE /\ record' = [record EXCEPT ![q] = [step |-> "trim", doomed |-> Beyond(log)]]
                 /\ UNCHANGED logFaultsLeft
        BY <2>1, <4>0, <4>1, RereadKeeps
      <4>2. CASE LogFault /\ record' = [record EXCEPT ![q] = IdleTask]
        <5>1. record'[q].step = "idle" /\ \A r \in LogProcesses \ {q} : record'[r] = record[r]
          BY <3>0, <4>2 DEF IdleTask
        <5> QED BY <2>1, <4>0, <4>2, <5>1, EndKeeps DEF KeepsBound
      <4> QED BY <3>4, <4>1, <4>2 DEF Reread
    <3>5. ASSUME NEW q \in LogProcesses, Trim(q) PROVE KeepsBound
      <4>1. ASSUME NEW b \in record[q].doomed, DeleteOne(b),
                   record' = [record EXCEPT ![q].doomed = @ \ {b}]
            PROVE  KeepsBound
        <5>1. \A p \in LogProcesses : /\ record'[p].step = record[p].step
                                      /\ record[p].doomed \ {b} \subseteq record'[p].doomed
          BY <3>0, <4>1
        <5> QED BY <2>1, <4>1, <5>1, DeletionKeeps DEF KeepsBound
      <4>2. CASE record[q].doomed = {} /\ record' = [record EXCEPT ![q] = IdleTask]
                 /\ UNCHANGED <<log, logFaultsLeft>>
        <5>1. record'[q].step = "idle" /\ \A r \in LogProcesses \ {q} : record'[r] = record[r]
          BY <3>0, <4>2 DEF IdleTask
        <5>2. record[q].step = "trim"
          BY <3>5 DEF Trim
        <5> QED BY <2>1, <4>2, <5>1, <5>2, EndKeeps DEF KeepsBound
      <4> QED BY <3>5, <4>1, <4>2 DEF Trim
    <3>6. ASSUME NEW q \in LogProcesses, ProcessDies(q) PROVE KeepsBound
      <4>1. /\ record'[q].step = "idle" /\ \A r \in LogProcesses \ {q} : record'[r] = record[r]
            /\ LogFault /\ log' = log
        BY <3>0, <3>6 DEF ProcessDies, IdleTask
      <4> QED BY <2>1, <4>1, EndKeeps DEF KeepsBound
    <3>7. ASSUME StartTend \/ TendReads PROVE KeepsBound
      BY <3>7, OrderedStays DEF StartTend, TendReads, KeepsBound
    <3>8. ASSUME TendDeletes PROVE KeepsBound
      <4>1. record' = record
        BY <3>8 DEF TendDeletes
      <4>2. ASSUME NEW b \in tend.doomed, DeleteOne(b) PROVE KeepsBound
        <5>1. \A p \in LogProcesses : /\ record'[p].step = record[p].step
                                      /\ record[p].doomed \ {b} \subseteq record'[p].doomed
          BY <4>1
        <5> QED BY <2>1, <4>2, <5>1, DeletionKeeps DEF KeepsBound
      <4>3. CASE UNCHANGED <<log, logFaultsLeft>>
        BY <4>1, <4>3, OrderedStays DEF KeepsBound
      <4> QED BY <3>8, <4>2, <4>3 DEF TendDeletes
    <3> QED BY <1>2, <3>1, <3>2, <3>3, <3>4, <3>5, <3>6, <3>7, <3>8 DEF LogNext
  <2> QED BY <2>1, <2>2 DEF LogInv, KeepsBound
<1> QED BY <1>1, <1>2

\* A step deletes none of the newest entries.
LEMMA NewestStay == LogInv /\ NewestKept /\ [LogNext]_logVars => NewestKept'
<1> SUFFICES ASSUME LogInv, NewestKept, [LogNext]_logVars PROVE NewestKept'
  OBVIOUS
<1>0. inserted \in Nat /\ cleared \in Nat /\ Cap \in Nat /\ DoomedOld
  BY LogAssumption DEF LogInv, LogShape
<1>1. CASE /\ UNCHANGED <<log, inserted>> /\ (cleared' = cleared \/ cleared' = inserted)
  BY <1>0, <1>1 DEF NewestKept
<1>2. CASE /\ log' = log \cup {inserted + 1} /\ inserted' = inserted + 1 /\ UNCHANGED cleared
  BY <1>0, <1>2 DEF NewestKept
<1>3. ASSUME NEW b, log' = log \ {b}, UNCHANGED <<inserted, cleared>>,
             b <= inserted - Cap \/ b <= cleared
      PROVE  NewestKept'
  <2> SUFFICES ASSUME NEW n \in 1 .. inserted, n > inserted - Cap, n > cleared PROVE n \in log'
    BY <1>3 DEF NewestKept
  <2>1. n \in log
    BY DEF NewestKept
  <2>2. n # b
    BY <1>0, <1>3
  <2> QED BY <1>3, <2>1, <2>2
<1>4. ASSUME NEW q \in LogProcesses, Trim(q) PROVE NewestKept'
  <2>1. UNCHANGED <<inserted, cleared>>
    BY <1>4 DEF Trim
  <2>2. ASSUME NEW b \in record[q].doomed, DeleteOne(b) PROVE NewestKept'
    <3>1. b <= inserted - Cap
      BY <1>0 DEF DoomedOld
    <3> QED BY <1>1, <1>3, <2>1, <2>2, <3>1 DEF DeleteOne
  <2> QED BY <1>1, <1>4, <2>1, <2>2 DEF Trim
<1>5. ASSUME TendDeletes PROVE NewestKept'
  <2>1. UNCHANGED <<inserted, cleared>>
    BY <1>5 DEF TendDeletes
  <2>2. ASSUME NEW b \in tend.doomed, DeleteOne(b) PROVE NewestKept'
    <3>1. b <= inserted - Cap \/ b <= cleared
      BY <1>0 DEF DoomedOld
    <3> QED BY <1>1, <1>3, <2>1, <2>2, <3>1 DEF DeleteOne
  <2> QED BY <1>1, <1>5, <2>1, <2>2 DEF TendDeletes
<1>6. ASSUME NEW q \in LogProcesses,
             Commit(q) \/ StartRecord(q) \/ InsertEntry(q) \/ Reread(q) \/ ProcessDies(q)
      PROVE  NewestKept'
  BY <1>1, <1>2, <1>6 DEF Commit, StartRecord, InsertEntry, Reread, ProcessDies
<1>7. CASE StartTend \/ TendReads \/ UNCHANGED logVars
  BY <1>1, <1>7 DEF StartTend, TendReads, logVars
<1> QED BY <1>4, <1>5, <1>6, <1>7 DEF LogNext

\* However records, saves and clears of any number of processes interleave, and whatever
\* fails, the newest entries up to the cap stay on the page, and the log outgrows its cap only
\* by the entries still being trimmed and one for each failure (recordCommit,
\* trimCommitLogBlocks, doCheckpoint).
THEOREM LogStaysKept == LogSpec => []LogKept
<1>1. LogInit => LogInv /\ NewestKept
  <2>1. LogInit => NewestKept
    BY DEF LogInit, NewestKept
  <2> QED BY <2>1, LogInitInv
<1>2. (LogInv /\ NewestKept) /\ [LogNext]_logVars => (LogInv /\ NewestKept)'
  BY LogStep, NewestStay
<1>3. LogInv /\ NewestKept => LogKept
  <2> SUFFICES ASSUME LogInv, NewestKept PROVE LogKept
    OBVIOUS
  <2>1. Cardinality(Trimming) \in Nat /\ logFaultsLeft \in Int /\ LogFaults \in Int /\ Cap \in Int
    BY LogFinite, FS_CardinalityType, LogAssumption DEF LogInv, LogShape
  <2>2. Cardinality(log) <= Cap + Cardinality(Trimming) + (LogFaults - logFaultsLeft)
    BY DEF LogInv, Within, Faults
  <2>3. Cap + Cardinality(Trimming) + (LogFaults - logFaultsLeft) = Cap + Cardinality(Trimming) + LogFaults - logFaultsLeft
    BY <2>1
  <2> QED BY <2>2, <2>3 DEF LogKept, LogBounded
<1> QED BY <1>1, <1>2, <1>3, PTL DEF LogSpec

-----------------------------------------------------------------------------
(* The branch.                                                             *)

\* The branch's commits: each has a parent before it and a text for every path.
BranchShape ==
    /\ commits \in Seq(Range(commits))
    /\ \A i \in DOMAIN commits : commits[i].parent \in 0 .. (i - 1) /\ DOMAIN commits[i].tree = Paths
    /\ head \in DOMAIN commits
    /\ tips \subseteq DOMAIN commits
    /\ DOMAIN write = Writers
    /\ \A c \in Writers :
        /\ DOMAIN write[c] = {"at", "ask", "read", "base", "built", "answer"}
        /\ write[c].at # "idle" => write[c].ask \in WriteRequests /\ (write[c].at # "done" => ~Rejected(write[c].ask))
        /\ write[c].at \in {"build", "patch"} => write[c].base \in DOMAIN commits
        /\ write[c].at = "patch" => write[c].built \in DOMAIN commits

\* What Faithful says of a request and the trees before and after its commit.
FaithfulTo(ask, before, after) ==
    LET named == IF ask.kind = "push" THEN {ask.files[f].path : f \in DOMAIN ask.files}
                 ELSE IF ask.kind = "rename" THEN {ask.path, ask.to} ELSE {ask.path}
    IN  /\ \A p \in Paths \ named : after[p] = before[p]
        /\ ~Refused(ask, before)
        /\ ask.kind = "edit" => after[ask.path] = Edited(before[ask.path], ask.edits).text
        /\ ask.kind = "rename" => after[ask.to] = before[ask.path]

\* What a single-file request accepts of the text at its path.
Accepts(ask, text) ==
    CASE ask.kind = "create" -> text = Missing
      [] ask.kind = "edit" ->
            text # Missing /\ Edited(text, ask.edits).clean /\ Edited(text, ask.edits).text # text
      [] ask.kind = "delete" -> text # Missing
      [] OTHER -> TRUE

\* A call writes only what the files it read did not refuse.
ReadySound ==
    \A c \in Writers :
        /\ write[c].at = "put" => OneFile(write[c].ask) /\ Accepts(write[c].ask, write[c].read)
        /\ write[c].at = "build" =>
                ~OneFile(write[c].ask) /\ ~Refused(write[c].ask, commits[write[c].base].tree)

\* Every commit of a call, on the branch or not, is a faithful change of the one it is built on,
\* and the call has made it.
CommitsFaithful ==
    \A i \in DOMAIN commits : commits[i].by \in Writers =>
        /\ write[commits[i].by].at \in {"patch", "done"}
        /\ commits[i].parent \in DOMAIN commits
        /\ Faithful(i)

\* No tip leaves the branch, and what is reported was on it.
TipsStay ==
    /\ tips \subseteq HistoryOf(head)
    /\ \A c \in Writers : write[c].answer # NoCommit => write[c].answer \in tips

BranchInv == BranchShape /\ ReadySound /\ CommitsFaithful /\ TipsStay

-----------------------------------------------------------------------------
(* Lemmas about the history of a commit.                                   *)

\* A commit is in its own history, and brings its ancestors' with it.
LEMMA HistoryReflexive == \A c \in DOMAIN commits : c \in HistoryOf(c)
  BY DEF HistoryOf

LEMMA HistoryTransitive == \A c, d : d \in HistoryOf(c) => HistoryOf(d) \subseteq HistoryOf(c)
  BY DEF HistoryOf

\* A commit appended to the others.
Appends(new) ==
    /\ DOMAIN commits' = DOMAIN commits \cup {NewCommit} /\ NewCommit \notin DOMAIN commits
    /\ commits'[NewCommit] = new
    /\ \A i \in DOMAIN commits : commits'[i] = commits[i]

LEMMA AppendAppends ==
    ASSUME BranchShape, NEW new, commits' = Append(commits, new)
    PROVE  /\ Appends(new) /\ NewCommit \in Nat \ {0}
           /\ \A i \in DOMAIN commits : i \in Nat /\ i # 0 /\ i < NewCommit
           /\ (commits \in Seq(Range(commits)))'
<1> DEFINE All == Range(commits) \cup {new}
<1>1. commits \in Seq(All) /\ new \in All
  <2>1. Range(commits) \subseteq All /\ new \in All
    OBVIOUS
  <2>2. Seq(Range(commits)) \subseteq Seq(All)
    <3> HIDE DEF All
    <3> QED BY <2>1, SeqMonotonic
  <2>3. commits \in Seq(Range(commits))
    BY DEF BranchShape
  <2> HIDE DEF All
  <2> QED BY <2>1, <2>2, <2>3
<1>2. /\ commits' \in Seq(All) /\ Len(commits') = Len(commits) + 1
      /\ commits'[Len(commits) + 1] = new
      /\ \A i \in 1 .. Len(commits) : commits'[i] = commits[i]
  <2> HIDE DEF All
  <2> QED BY <1>1, AppendProperties
<1>3. /\ Len(commits) \in Nat /\ DOMAIN commits = 1 .. Len(commits)
      /\ DOMAIN commits' = 1 .. Len(commits')
  <2> HIDE DEF All
  <2> QED BY <1>1, <1>2, LenProperties
<1>4. Appends(new)
  <2>1. NewCommit = Len(commits) + 1
    BY DEF NewCommit
  <2>2. DOMAIN commits' = DOMAIN commits \cup {NewCommit} /\ NewCommit \notin DOMAIN commits
    <3> HIDE DEF All
    <3> QED BY <1>2, <1>3, <2>1
  <2> HIDE DEF All
  <2> QED BY <1>2, <1>3, <2>1, <2>2 DEF Appends
<1>5. NewCommit \in Nat \ {0} /\ \A i \in DOMAIN commits : i \in Nat /\ i # 0 /\ i < NewCommit
  <2> HIDE DEF All
  <2> QED BY <1>3 DEF NewCommit
<1>6. (commits \in Seq(Range(commits)))'
  <2> HIDE DEF All
  <2> QED BY <1>2, SeqOfRange
<1> QED BY <1>4, <1>5, <1>6

\* A later commit changes no history; it has its parent's.
LEMMA HistoryGrows ==
    ASSUME BranchShape, NEW new, Appends(new)
    PROVE  \A c \in DOMAIN commits : HistoryOf(c) \subseteq HistoryOf(c)'
<1> SUFFICES ASSUME NEW c \in DOMAIN commits, NEW i \in HistoryOf(c),
                    NEW S \in SUBSET DOMAIN commits', c \in S, HoldsParents(S)'
             PROVE  i \in S
  BY DEF HistoryOf, Appends
<1> DEFINE T == S \cap DOMAIN commits
<1>1. HoldsParents(T)
  <2> SUFFICES ASSUME NEW j \in T PROVE commits[j].parent \in T \cup {NoCommit}
    BY DEF HoldsParents
  <2>1. commits'[j] = commits[j]
    BY DEF Appends
  <2>2. commits[j].parent \in S \cup {NoCommit}
    BY <2>1 DEF HoldsParents
  <2>3. commits[j].parent \in DOMAIN commits \cup {NoCommit}
    <3>1. commits[j].parent \in 0 .. (j - 1) /\ j \in DOMAIN commits
      BY DEF BranchShape
    <3>2. DOMAIN commits = 1 .. Len(commits) /\ Len(commits) \in Nat
      BY LenProperties DEF BranchShape
    <3> QED BY <3>1, <3>2 DEF NoCommit
  <2> QED BY <2>2, <2>3
<1>2. T \in SUBSET DOMAIN commits /\ c \in T
  OBVIOUS
<1> QED BY <1>1, <1>2 DEF HistoryOf

LEMMA HistoryOfChild ==
    ASSUME BranchShape, NEW new, Appends(new), new.parent \in DOMAIN commits, NEW n, n = NewCommit
    PROVE  /\ HistoryOf(new.parent) \subseteq HistoryOf(n)'
           /\ n \in HistoryOf(n)'
<1>1. n \in HistoryOf(n)'
  BY DEF HistoryOf, Appends
<1>2. new.parent # NoCommit
  <2>1. DOMAIN commits = 1 .. Len(commits) /\ Len(commits) \in Nat
    BY LenProperties DEF BranchShape
  <2> QED BY <2>1 DEF NoCommit
<1>3. new.parent \in HistoryOf(n)'
  <2> SUFFICES ASSUME NEW S \in SUBSET DOMAIN commits', n \in S, HoldsParents(S)'
               PROVE  new.parent \in S
    BY DEF HistoryOf, Appends
  <2>1. commits'[n].parent \in S \cup {NoCommit}
    BY DEF HoldsParents
  <2> QED BY <1>2, <2>1 DEF Appends
<1>4. HistoryOf(new.parent)' \subseteq HistoryOf(n)'
  BY <1>3 DEF HistoryOf
<1>5. HistoryOf(new.parent) \subseteq HistoryOf(new.parent)'
  BY HistoryGrows
<1> QED BY <1>1, <1>4, <1>5

-----------------------------------------------------------------------------
\* A single-file request is refused by the text at its path alone.
LEMMA AcceptsAtPath ==
    ASSUME NEW ask \in WriteRequests, OneFile(ask), NEW tree, Accepts(ask, tree[ask.path])
    PROVE  ~Refused(ask, tree)
  BY DEF OneFile, Accepts, Refused, DeletesFile

LEMMA RefusedAtPath ==
    ASSUME NEW ask \in WriteRequests, OneFile(ask), NEW tree, ~Refused(ask, tree)
    PROVE  Accepts(ask, tree[ask.path])
  BY DEF OneFile, Accepts, Refused, DeletesFile

LEMMA BranchInitInv == BranchInit => BranchInv
<1> SUFFICES ASSUME BranchInit PROVE BranchInv
  OBVIOUS
<1> DEFINE first == [parent |-> NoCommit, tree |-> FirstTree, by |-> "start"]
<1>1. /\ commits = <<first>> /\ commits \in Seq({first}) /\ DOMAIN commits = {1} /\ commits[1] = first
  BY DEF BranchInit
<1>2. commits \in Seq(Range(commits))
  <2> HIDE DEF first
  <2> QED BY <1>1, SeqOfRange
<1>3. DOMAIN FirstTree = Paths /\ "start" \notin Writers
  BY BranchAssumption DEF Trees
<1>4. BranchShape
  BY <1>1, <1>2, <1>3 DEF BranchInit, BranchShape, NoCommit
<1>5. ReadySound /\ CommitsFaithful
  BY <1>1, <1>3 DEF BranchInit, ReadySound, CommitsFaithful
<1>6. TipsStay
  BY <1>1, HistoryReflexive DEF BranchInit, TipsStay
<1> QED BY <1>4, <1>5, <1>6 DEF BranchInv

\* What a step of the call c that makes no commit leaves of the faith in those made.
LEMMA FaithfulStays ==
    ASSUME BranchShape, CommitsFaithful, UNCHANGED commits,
           \A c \in Writers : write[c].at \in {"patch", "done"} =>
                /\ write'[c].at \in {"patch", "done"} /\ write'[c].ask = write[c].ask
    PROVE  CommitsFaithful'
<1> SUFFICES ASSUME NEW i \in DOMAIN commits, commits[i].by \in Writers
             PROVE  write'[commits[i].by].at \in {"patch", "done"} /\ Faithful(i)'
                    /\ commits[i].parent \in DOMAIN commits
  BY DEF CommitsFaithful
<1>1. /\ write[commits[i].by].at \in {"patch", "done"} /\ Faithful(i)
      /\ commits[i].parent \in DOMAIN commits
  BY DEF CommitsFaithful
<1>2. write'[commits[i].by].at \in {"patch", "done"} /\ write'[commits[i].by].ask = write[commits[i].by].ask
  BY <1>1
<1>3. Faithful(i) <=> FaithfulTo(write[commits[i].by].ask, commits[commits[i].parent].tree, commits[i].tree)
  BY DEF Faithful, FaithfulTo
<1>4. Faithful(i)' <=> FaithfulTo(write'[commits'[i].by].ask, commits'[commits'[i].parent].tree, commits'[i].tree)
  BY DEF Faithful, FaithfulTo
<1> QED BY <1>1, <1>2, <1>3, <1>4

\* A commit by someone else, or a faithful one by a call that is then done with it.
LEMMA FaithfulGrows ==
    ASSUME BranchShape, CommitsFaithful, NEW new, Appends(new),
           NEW n, n = NewCommit, new.parent \in DOMAIN commits,
           \A c \in Writers : write[c].at \in {"patch", "done"} \/ (new.by = c) =>
                /\ write'[c].at \in {"patch", "done"} /\ write'[c].ask = write[c].ask,
           new.by \in Writers => Faithful(n)'
    PROVE  CommitsFaithful'
<1> SUFFICES ASSUME NEW i \in DOMAIN commits', commits'[i].by \in Writers
             PROVE  write'[commits'[i].by].at \in {"patch", "done"} /\ Faithful(i)'
                    /\ commits'[i].parent \in DOMAIN commits'
  BY DEF CommitsFaithful
<1>1. CASE i = n
  <2>1. commits'[i] = new
    BY <1>1 DEF Appends
  <2>2. commits'[i].parent \in DOMAIN commits'
    BY <2>1 DEF Appends
  <2> QED BY <1>1, <2>1, <2>2
<1>2. CASE i \in DOMAIN commits
  <2>1. commits'[i] = commits[i]
    BY <1>2 DEF Appends
  <2>2. /\ write[commits[i].by].at \in {"patch", "done"} /\ Faithful(i)
        /\ commits[i].parent \in DOMAIN commits
    BY <1>2, <2>1 DEF CommitsFaithful
  <2>3. write'[commits[i].by].at \in {"patch", "done"} /\ write'[commits[i].by].ask = write[commits[i].by].ask
    BY <2>1, <2>2
  <2>4. commits'[commits[i].parent] = commits[commits[i].parent]
    BY <2>2 DEF Appends
  <2>5. Faithful(i)'
    <3>1. Faithful(i) <=> FaithfulTo(write[commits[i].by].ask, commits[commits[i].parent].tree, commits[i].tree)
      BY DEF Faithful, FaithfulTo
    <3>2. Faithful(i)' <=> FaithfulTo(write'[commits'[i].by].ask, commits'[commits'[i].parent].tree, commits'[i].tree)
      BY DEF Faithful, FaithfulTo
    <3> QED BY <2>1, <2>2, <2>3, <2>4, <3>1, <3>2
  <2>6. commits'[i].parent \in DOMAIN commits'
    BY <2>1, <2>2 DEF Appends
  <2> QED BY <2>1, <2>3, <2>5, <2>6
<1> QED BY <1>1, <1>2 DEF Appends

\* A contents request that finds the text it read makes a faithful change.
LEMMA PutFaithful ==
    ASSUME NEW ask \in WriteRequests, OneFile(ask), NEW tree, DOMAIN tree = Paths,
           Accepts(ask, tree[ask.path])
    PROVE  FaithfulTo(ask, tree, [tree EXCEPT ![ask.path] = Written(ask, tree[ask.path])])
<1> DEFINE after == [tree EXCEPT ![ask.path] = Written(ask, tree[ask.path])]
<1>1. ask.path \in Paths /\ ask.kind \in {"create", "edit", "overwrite", "delete"}
  BY BranchAssumption DEF OneFile
<1>2. after[ask.path] = Written(ask, tree[ask.path]) /\ \A p \in Paths \ {ask.path} : after[p] = tree[p]
  BY <1>1
<1>3. ~Refused(ask, tree)
  BY AcceptsAtPath
<1>4. ask.kind = "edit" => Written(ask, tree[ask.path]) = Edited(tree[ask.path], ask.edits).text
  BY DEF Written, DeletesFile
<1> HIDE DEF after
<1>5. FaithfulTo(ask, tree, after)
  BY <1>1, <1>2, <1>3, <1>4 DEF FaithfulTo
<1> QED BY <1>5 DEF after

\* So does a commit of several paths, compared with the commit it is built on.
LEMMA BuildFaithful ==
    ASSUME NEW ask \in WriteRequests, ~OneFile(ask), ~Rejected(ask), NEW tree, DOMAIN tree = Paths,
           ~Refused(ask, tree)
    PROVE  FaithfulTo(ask, tree, BuiltOn(tree, ask)) /\ DOMAIN BuiltOn(tree, ask) = Paths
<1>1. CASE ask.kind = "rename"
  <2>1. ask.path \in Paths /\ ask.to \in Paths /\ ask.path # ask.to
    BY <1>1, BranchAssumption DEF Rejected
  <2>2. BuiltOn(tree, ask) = [tree EXCEPT ![ask.to] = tree[ask.path], ![ask.path] = Missing]
    BY <1>1 DEF BuiltOn
  <2> DEFINE after == BuiltOn(tree, ask)
  <2>3. /\ after[ask.to] = tree[ask.path] /\ \A p \in Paths \ {ask.path, ask.to} : after[p] = tree[p]
        /\ DOMAIN after = Paths
    BY <2>1, <2>2
  <2> HIDE DEF after
  <2>4. FaithfulTo(ask, tree, after)
    BY <1>1, <2>3 DEF FaithfulTo
  <2> QED BY <2>3, <2>4 DEF after
<1>2. CASE ask.kind = "push"
  <2> DEFINE after == BuiltOn(tree, ask)
  <2>1. \A p \in Paths : (~\E f \in DOMAIN ask.files : ask.files[f].path = p) => after[p] = tree[p]
    BY <1>2 DEF BuiltOn
  <2>2. DOMAIN after = Paths
    BY <1>2 DEF BuiltOn
  <2> HIDE DEF after
  <2>3. FaithfulTo(ask, tree, after)
    BY <1>2, <2>1 DEF FaithfulTo
  <2> QED BY <2>2, <2>3 DEF after
<1> QED BY <1>1, <1>2, BranchAssumption DEF OneFile

-----------------------------------------------------------------------------
\* The branch moves to a commit of whose history its head is.
LEMMA TipsMove ==
    ASSUME BranchShape, TipsStay, NEW n, n \in DOMAIN commits', head' = n, tips' = tips \cup {n},
           HistoryOf(head) \subseteq HistoryOf(n)',
           \A c \in Writers : write'[c].answer \in {write[c].answer, n, NoCommit}
    PROVE  TipsStay'
<1>1. n \in HistoryOf(n)'
  BY DEF HistoryOf
<1>2. tips' \subseteq HistoryOf(n)'
  BY <1>1 DEF TipsStay
<1>3. HistoryOf(head)' = HistoryOf(n)'
  BY DEF HistoryOf
<1>4. \A c \in Writers : write'[c].answer # NoCommit => write'[c].answer \in tips'
  BY DEF TipsStay
<1> QED BY <1>2, <1>3, <1>4 DEF TipsStay

LEMMA TipsRest ==
    ASSUME BranchShape, TipsStay, UNCHANGED <<head, tips>>,
           UNCHANGED commits \/ (\E new : Appends(new)),
           \A c \in Writers : write'[c].answer \in {write[c].answer, NoCommit}
    PROVE  TipsStay'
<1>1. HistoryOf(head) \subseteq HistoryOf(head)'
  <2>1. CASE UNCHANGED commits
    BY <2>1 DEF HistoryOf, HoldsParents
  <2>2. ASSUME NEW new, Appends(new) PROVE HistoryOf(head) \subseteq HistoryOf(head)'
    <3>1. PICK c \in DOMAIN commits : c = head
      BY DEF BranchShape
    <3>2. HistoryOf(c) \subseteq HistoryOf(c)'
      BY <2>2, HistoryGrows
    <3>3. HistoryOf(head) = HistoryOf(c) /\ HistoryOf(head)' = HistoryOf(c)'
      BY <3>1 DEF HistoryOf
    <3> QED BY <3>2, <3>3
  <2> QED BY <2>1, <2>2
<1> QED BY <1>1 DEF TipsStay

\* A step of one call that makes no commit and moves no branch.
LEMMA CallStep ==
    ASSUME BranchInv, NEW c \in Writers, NEW rec, UNCHANGED <<commits, head, tips>>,
           write' = [write EXCEPT ![c] = rec],
           DOMAIN rec = {"at", "ask", "read", "base", "built", "answer"},
           rec.answer = write[c].answer,
           write[c].at \in {"patch", "done"} => rec.at \in {"patch", "done"} /\ rec.ask = write[c].ask,
           rec.at # "idle" => rec.ask \in WriteRequests /\ (rec.at # "done" => ~Rejected(rec.ask)),
           rec.at \in {"build", "patch"} => rec.base \in DOMAIN commits,
           rec.at = "patch" => rec.built \in DOMAIN commits,
           rec.at = "put" => OneFile(rec.ask) /\ Accepts(rec.ask, rec.read),
           rec.at = "build" => ~OneFile(rec.ask) /\ ~Refused(rec.ask, commits[rec.base].tree)
    PROVE  BranchInv'
<1>1. DOMAIN write = Writers /\ write'[c] = rec /\ \A d \in Writers \ {c} : write'[d] = write[d]
  BY DEF BranchInv, BranchShape
<1>2. BranchShape'
  BY <1>1 DEF BranchInv, BranchShape
<1>3. ReadySound'
  BY <1>1 DEF BranchInv, ReadySound
<1>4. CommitsFaithful'
  <2>1. \A d \in Writers : write[d].at \in {"patch", "done"} =>
                /\ write'[d].at \in {"patch", "done"} /\ write'[d].ask = write[d].ask
    BY <1>1
  <2> QED BY <2>1, FaithfulStays DEF BranchInv
<1>5. TipsStay'
  <2>1. \A d \in Writers : write'[d].answer = write[d].answer
    BY <1>1
  <2> QED BY <2>1, TipsRest DEF BranchInv
<1> QED BY <1>2, <1>3, <1>4, <1>5 DEF BranchInv

\* A commit is appended by a call or by someone else; the branch moves to it or stays.
LEMMA CommitStep ==
    ASSUME BranchInv, NEW new, commits' = Append(commits, new), NEW n, n = NewCommit,
           new.parent \in DOMAIN commits, DOMAIN new.tree = Paths,
           \/ new.parent = head /\ head' = n /\ tips' = tips \cup {n}
           \/ UNCHANGED <<head, tips>>,
           DOMAIN write' = Writers,
           \A c \in Writers :
                \/ write'[c] = write[c] /\ new.by # c
                \/ /\ DOMAIN write'[c] = {"at", "ask", "read", "base", "built", "answer"}
                   /\ write'[c].at \in {"patch", "done"} /\ write'[c].ask = write[c].ask
                   /\ write'[c].ask \in WriteRequests /\ ~Rejected(write'[c].ask)
                   /\ write'[c].at = "patch" => write'[c].base \in DOMAIN commits /\ write'[c].built = n
                   /\ write'[c].answer \in {write[c].answer, NoCommit} \cup (tips' \ tips),
           new.by \in Writers => FaithfulTo(write[new.by].ask, commits[new.parent].tree, new.tree)
    PROVE  BranchInv'
<1>1. /\ Appends(new) /\ n \in Nat \ {0} /\ (commits \in Seq(Range(commits)))'
      /\ \A i \in DOMAIN commits : i \in Nat /\ i # 0 /\ i < n
  BY AppendAppends DEF BranchInv
<1>2. /\ DOMAIN commits' = DOMAIN commits \cup {n} /\ n \notin DOMAIN commits
      /\ commits'[n] = new /\ \A i \in DOMAIN commits : commits'[i] = commits[i]
  BY <1>1 DEF Appends
<1>3. \A i \in DOMAIN commits' : commits'[i].parent \in 0 .. (i - 1) /\ DOMAIN commits'[i].tree = Paths
  <2>1. new.parent \in 0 .. (n - 1)
    BY <1>1
  <2> QED BY <1>2, <2>1 DEF BranchInv, BranchShape
<1>4. BranchShape'
  <2>1. head' \in DOMAIN commits' /\ tips' \subseteq DOMAIN commits'
    BY <1>2 DEF BranchInv, BranchShape
  <2>2. ASSUME NEW c \in Writers
        PROVE  /\ DOMAIN write'[c] = {"at", "ask", "read", "base", "built", "answer"}
               /\ write'[c].at # "idle" => write'[c].ask \in WriteRequests /\ (write'[c].at # "done" => ~Rejected(write'[c].ask))
               /\ write'[c].at \in {"build", "patch"} => write'[c].base \in DOMAIN commits'
               /\ write'[c].at = "patch" => write'[c].built \in DOMAIN commits'
    <3>1. CASE write'[c] = write[c]
      BY <1>2, <3>1 DEF BranchInv, BranchShape
    <3>2. CASE write'[c] # write[c]
      BY <1>2, <3>2
    <3> QED BY <3>1, <3>2
  <2> QED BY <1>1, <1>3, <2>1, <2>2 DEF BranchShape
<1>5. ReadySound'
  <2>1. ASSUME NEW c \in Writers
        PROVE  /\ write'[c].at = "put" => OneFile(write'[c].ask) /\ Accepts(write'[c].ask, write'[c].read)
               /\ write'[c].at = "build" =>
                     ~OneFile(write'[c].ask) /\ ~Refused(write'[c].ask, commits'[write'[c].base].tree)
    <3>1. CASE write'[c] = write[c]
      <4>1. write[c].at = "build" => commits'[write[c].base] = commits[write[c].base]
        BY <1>2 DEF BranchInv, BranchShape
      <4> QED BY <3>1, <4>1 DEF BranchInv, ReadySound
    <3>2. CASE write'[c].at \in {"patch", "done"}
      BY <3>2
    <3> QED BY <3>1, <3>2
  <2> QED BY <2>1 DEF ReadySound
<1>6. CommitsFaithful'
  <2>1. \A c \in Writers : write[c].at \in {"patch", "done"} \/ (new.by = c) =>
                /\ write'[c].at \in {"patch", "done"} /\ write'[c].ask = write[c].ask
    OBVIOUS
  <2>2. ASSUME new.by \in Writers PROVE Faithful(n)'
    <3>1. Faithful(n)' <=> FaithfulTo(write'[commits'[n].by].ask, commits'[commits'[n].parent].tree, commits'[n].tree)
      BY DEF Faithful, FaithfulTo
    <3>2. write'[new.by].ask = write[new.by].ask
      BY <2>1, <2>2
    <3>3. commits'[new.parent] = commits[new.parent]
      BY <1>2
    <3> QED BY <1>2, <2>2, <3>1, <3>2, <3>3
  <2> QED BY <1>1, <2>1, <2>2, FaithfulGrows DEF BranchInv
<1>7. TipsStay'
  <2>1. CASE new.parent = head /\ head' = n /\ tips' = tips \cup {n}
    <3>1. HistoryOf(new.parent) \subseteq HistoryOf(n)'
      BY <1>1, HistoryOfChild DEF BranchInv
    <3>2. HistoryOf(head) \subseteq HistoryOf(n)'
      BY <2>1, <3>1
    <3>3. \A c \in Writers : write'[c].answer \in {write[c].answer, n, NoCommit}
      BY <2>1
    <3> QED BY <1>2, <2>1, <3>2, <3>3, TipsMove DEF BranchInv
  <2>2. CASE UNCHANGED <<head, tips>>
    <3>1. \A c \in Writers : write'[c].answer \in {write[c].answer, NoCommit}
      BY <2>2
    <3> QED BY <1>1, <2>2, <3>1, TipsRest DEF BranchInv
  <2> QED BY <2>1, <2>2
<1> QED BY <1>4, <1>5, <1>6, <1>7 DEF BranchInv

LEMMA BranchStep == BranchInv /\ [BranchNext]_branchVars => BranchInv'
<1> SUFFICES ASSUME BranchInv, [BranchNext]_branchVars PROVE BranchInv'
  OBVIOUS
<1>0. /\ DOMAIN write = Writers
      /\ \A c \in Writers : DOMAIN write[c] = {"at", "ask", "read", "base", "built", "answer"}
      /\ head \in DOMAIN commits /\ DOMAIN HeadTree = Paths
      /\ \A i \in DOMAIN commits : DOMAIN commits[i].tree = Paths
  BY DEF BranchInv, BranchShape, HeadTree
<1>1. CASE UNCHANGED branchVars
  <2>1. BranchShape' /\ ReadySound'
    BY <1>1 DEF BranchInv, BranchShape, ReadySound, branchVars
  <2>2. CommitsFaithful'
    BY <1>1, FaithfulStays DEF BranchInv, branchVars
  <2>3. TipsStay'
    BY <1>1, TipsRest DEF BranchInv, branchVars
  <2> QED BY <2>1, <2>2, <2>3 DEF BranchInv
<1>2. CASE OtherCommit
  <2>1. PICK e \in OtherEdits : commits' = Append(commits, [parent |-> head, by |-> "other", tree |-> [HeadTree EXCEPT ![e.path] = e.text]])
    BY <1>2 DEF OtherCommit
  <2> DEFINE new == [parent |-> head, by |-> "other", tree |-> [HeadTree EXCEPT ![e.path] = e.text]]
  <2>2. new.parent = head /\ DOMAIN new.tree = Paths /\ new.by \notin Writers
    BY <1>0, BranchAssumption
  <2>3. PICK n : n = NewCommit
    OBVIOUS
  <2>4. head' = n /\ tips' = tips \cup {n} /\ write' = write
    BY <1>2, <2>3 DEF OtherCommit, Lands
  <2>5. commits' = Append(commits, new)
    BY <2>1
  <2>6. \A c \in Writers : new.by # c
    BY <2>2
  <2> HIDE DEF new
  <2> QED BY <1>0, <2>2, <2>3, <2>4, <2>5, <2>6, CommitStep
<1>3. ASSUME NEW c \in Writers, AskWrite(c) PROVE BranchInv'
  <2>1. PICK ask \in WriteRequests :
           write' = [write EXCEPT ![c].ask = ask, ![c].at = IF Rejected(ask) THEN "done" ELSE "read"]
    BY <1>3 DEF AskWrite
  <2> DEFINE rec == [write[c] EXCEPT !.ask = ask, !.at = IF Rejected(ask) THEN "done" ELSE "read"]
  <2>2. write' = [write EXCEPT ![c] = rec]
    BY <1>0, <2>1
  <2>3. /\ DOMAIN rec = {"at", "ask", "read", "base", "built", "answer"} /\ rec.answer = write[c].answer
        /\ rec.ask = ask /\ rec.at = IF Rejected(ask) THEN "done" ELSE "read"
    BY <1>0
  <2>4. write[c].at = "idle" /\ UNCHANGED <<commits, head, tips>>
    BY <1>3 DEF AskWrite
  <2> HIDE DEF rec
  <2> QED BY <2>2, <2>3, <2>4, CallStep
<1>4. ASSUME NEW c \in Writers, ReadBranch(c) PROVE BranchInv'
  <2> DEFINE ask == write[c].ask
             rec == [write[c] EXCEPT !.at = IF Refused(ask, HeadTree) THEN "done"
                                            ELSE IF OneFile(ask) THEN "put" ELSE "build",
                                     !.read = IF OneFile(ask) THEN HeadTree[ask.path] ELSE Missing,
                                     !.base = head]
  <2>1. write' = [write EXCEPT ![c] = rec]
    BY <1>0, <1>4 DEF ReadBranch
  <2>2. write[c].at = "read" /\ UNCHANGED <<commits, head, tips>>
    BY <1>4 DEF ReadBranch
  <2>3. /\ DOMAIN rec = {"at", "ask", "read", "base", "built", "answer"} /\ rec.answer = write[c].answer
        /\ rec.ask = ask /\ rec.base = head
        /\ rec.at = (IF Refused(ask, HeadTree) THEN "done" ELSE IF OneFile(ask) THEN "put" ELSE "build")
        /\ rec.read = IF OneFile(ask) THEN HeadTree[ask.path] ELSE Missing
    BY <1>0
  <2>4. ask \in WriteRequests /\ ~Rejected(ask)
    BY <2>2 DEF BranchInv, BranchShape
  <2>5. commits[rec.base].tree = HeadTree /\ rec.base \in DOMAIN commits
    BY <1>0, <2>3 DEF HeadTree
  <2> HIDE DEF rec, ask
  <2>6. rec.at = "put" => OneFile(rec.ask) /\ Accepts(rec.ask, rec.read)
    BY <2>3, <2>4, RefusedAtPath
  <2>7. rec.at = "build" => ~OneFile(rec.ask) /\ ~Refused(rec.ask, commits[rec.base].tree)
    BY <2>3, <2>5
  <2>8. rec.at # "patch"
    BY <2>3
  <2>9. /\ write[c].at \in {"patch", "done"} => rec.at \in {"patch", "done"} /\ rec.ask = write[c].ask
        /\ rec.at # "idle" => rec.ask \in WriteRequests /\ (rec.at # "done" => ~Rejected(rec.ask))
    BY <2>2, <2>3, <2>4
  <2> QED BY <2>1, <2>2, <2>3, <2>5, <2>6, <2>7, <2>8, <2>9, CallStep
<1>5. ASSUME NEW c \in Writers, FailWrite(c) PROVE BranchInv'
  <2> DEFINE rec == [write[c] EXCEPT !.at = "done"]
  <2>1. write' = [write EXCEPT ![c] = rec]
    BY <1>0, <1>5 DEF FailWrite
  <2>2. /\ DOMAIN rec = {"at", "ask", "read", "base", "built", "answer"} /\ rec.answer = write[c].answer
        /\ rec.ask = write[c].ask /\ rec.at = "done"
    BY <1>0
  <2>3. write[c].ask \in WriteRequests /\ UNCHANGED <<commits, head, tips>>
    BY <1>5 DEF FailWrite, BranchInv, BranchShape
  <2> HIDE DEF rec
  <2> QED BY <2>1, <2>2, <2>3, CallStep
<1>6. ASSUME NEW c \in Writers, Put(c) PROVE BranchInv'
  <2> DEFINE ask == write[c].ask
             new == [parent |-> head, by |-> c,
                     tree |-> [HeadTree EXCEPT ![ask.path] = Written(ask, write[c].read)]]
  <2>0. /\ write[c].at = "put" /\ ask \in WriteRequests /\ ~Rejected(ask)
        /\ OneFile(ask) /\ Accepts(ask, write[c].read)
    BY <1>6 DEF Put, BranchInv, BranchShape, ReadySound
  <2>1. CASE HeadTree[ask.path] = Sha(c)
    <3>1. PICK heard \in {TRUE, writeLeft.fault = 0} :
             /\ commits' = Append(commits, new)
             /\ Lands(NewCommit)
             /\ write' = [write EXCEPT ![c].at = "done", ![c].answer = IF heard THEN NewCommit ELSE NoCommit]
      BY <1>6, <2>1 DEF Put
    <3>2. PICK n : n = NewCommit
      OBVIOUS
    <3>3. head' = n /\ tips' = tips \cup {n}
      BY <3>1, <3>2 DEF Lands
    <3>4. /\ new.parent = head /\ DOMAIN new.tree = Paths /\ new.by = c
      BY <1>0
    <3>5. FaithfulTo(ask, HeadTree, new.tree)
      <4>1. HeadTree[ask.path] = write[c].read
        BY <2>1 DEF Sha
      <4>2. new.tree = [HeadTree EXCEPT ![ask.path] = Written(ask, HeadTree[ask.path])]
        BY <4>1
      <4>3. DOMAIN HeadTree = Paths /\ Accepts(ask, HeadTree[ask.path])
        BY <1>0, <2>0, <4>1
      <4>4. FaithfulTo(ask, HeadTree, [HeadTree EXCEPT ![ask.path] = Written(ask, HeadTree[ask.path])])
        <5> HIDE DEF ask
        <5> QED BY <2>0, <4>3, PutFaithful
      <4> HIDE DEF new
      <4> QED BY <4>2, <4>4
    <3>6. commits[new.parent].tree = HeadTree
      BY <3>4 DEF HeadTree
    <3>7. /\ DOMAIN write' = Writers
          /\ \A d \in Writers \ {c} : write'[d] = write[d]
          /\ DOMAIN write'[c] = {"at", "ask", "read", "base", "built", "answer"}
          /\ write'[c].at = "done" /\ write'[c].ask = ask
          /\ write'[c].answer \in {n, NoCommit}
      BY <1>0, <3>1, <3>2
    <3>8. n \notin tips
      <4>1. \A new2 : commits' = Append(commits, new2) => n \notin DOMAIN commits
        BY <3>2, AppendAppends DEF BranchInv, Appends
      <4> QED BY <3>1, <4>1 DEF BranchInv, BranchShape
    <3>9. \A d \in Writers :
             \/ write'[d] = write[d] /\ new.by # d
             \/ /\ DOMAIN write'[d] = {"at", "ask", "read", "base", "built", "answer"}
                /\ write'[d].at \in {"patch", "done"} /\ write'[d].ask = write[d].ask
                /\ write'[d].ask \in WriteRequests /\ ~Rejected(write'[d].ask)
                /\ write'[d].at = "patch" => write'[d].base \in DOMAIN commits /\ write'[d].built = n
                /\ write'[d].answer \in {write[d].answer, NoCommit} \cup (tips' \ tips)
      BY <2>0, <3>3, <3>4, <3>7, <3>8
    <3>10. commits' = Append(commits, new)
      BY <3>1
    <3>11. FaithfulTo(write[new.by].ask, commits[new.parent].tree, new.tree)
      BY <3>4, <3>5, <3>6
    <3> HIDE DEF ask, new
    <3> QED BY <1>0, <3>2, <3>3, <3>4, <3>7, <3>9, <3>10, <3>11, CommitStep
  <2>2. CASE HeadTree[ask.path] # Sha(c)
    <3> DEFINE rec == [write[c] EXCEPT !.at = "done"]
    <3>1. write' = [write EXCEPT ![c] = rec] /\ UNCHANGED <<commits, head, tips>>
      BY <1>0, <1>6, <2>2 DEF Put
    <3>2. /\ DOMAIN rec = {"at", "ask", "read", "base", "built", "answer"} /\ rec.answer = write[c].answer
          /\ rec.ask = write[c].ask /\ rec.at = "done"
      BY <1>0
    <3> HIDE DEF rec
    <3> QED BY <2>0, <3>1, <3>2, CallStep
  <2> QED BY <2>1, <2>2
<1>7. ASSUME NEW c \in Writers, Build(c) PROVE BranchInv'
  <2> DEFINE ask == write[c].ask
             base == write[c].base
             new == [parent |-> base, by |-> c, tree |-> BuiltOn(commits[base].tree, ask)]
  <2>0. /\ write[c].at = "build" /\ ask \in WriteRequests /\ ~Rejected(ask) /\ base \in DOMAIN commits
        /\ ~OneFile(ask) /\ ~Refused(ask, commits[base].tree)
    BY <1>7 DEF Build, BranchInv, BranchShape, ReadySound
  <2>1. PICK n : n = NewCommit
    OBVIOUS
  <2>2. /\ commits' = Append(commits, new) /\ UNCHANGED <<head, tips>>
        /\ write' = [write EXCEPT ![c].at = "patch", ![c].built = n]
    BY <1>7, <2>1 DEF Build
  <2>3. FaithfulTo(ask, commits[base].tree, BuiltOn(commits[base].tree, ask)) /\ DOMAIN BuiltOn(commits[base].tree, ask) = Paths
    <3>1. DOMAIN commits[base].tree = Paths
      BY <1>0, <2>0
    <3> HIDE DEF ask, base
    <3> QED BY <2>0, <3>1, BuildFaithful
  <2>4. new.parent = base /\ new.by = c /\ new.tree = BuiltOn(commits[base].tree, ask)
    OBVIOUS
  <2>5. /\ DOMAIN write' = Writers
        /\ \A d \in Writers \ {c} : write'[d] = write[d]
        /\ DOMAIN write'[c] = {"at", "ask", "read", "base", "built", "answer"}
        /\ write'[c].at = "patch" /\ write'[c].ask = ask /\ write'[c].base = base
        /\ write'[c].built = n /\ write'[c].answer = write[c].answer
    BY <1>0, <2>2
  <2>6. \A d \in Writers :
             \/ write'[d] = write[d] /\ new.by # d
             \/ /\ DOMAIN write'[d] = {"at", "ask", "read", "base", "built", "answer"}
                /\ write'[d].at \in {"patch", "done"} /\ write'[d].ask = write[d].ask
                /\ write'[d].ask \in WriteRequests /\ ~Rejected(write'[d].ask)
                /\ write'[d].at = "patch" => write'[d].base \in DOMAIN commits /\ write'[d].built = n
                /\ write'[d].answer \in {write[d].answer, NoCommit} \cup (tips' \ tips)
    BY <2>0, <2>4, <2>5
  <2>7. commits' = Append(commits, new) /\ UNCHANGED <<head, tips>>
    BY <2>2
  <2>8. FaithfulTo(write[new.by].ask, commits[new.parent].tree, new.tree) /\ DOMAIN new.tree = Paths
        /\ new.parent \in DOMAIN commits
    BY <2>0, <2>3, <2>4
  <2> HIDE DEF ask, new, base
  <2> QED BY <2>1, <2>5, <2>6, <2>7, <2>8, CommitStep
<1>8. ASSUME NEW c \in Writers, Patch(c) PROVE BranchInv'
  <2>0. /\ write[c].at = "patch" /\ write[c].ask \in WriteRequests /\ write[c].built \in DOMAIN commits
        /\ UNCHANGED commits
    BY <1>8 DEF Patch, BranchInv, BranchShape
  <2>1. CASE head \in HistoryOf(write[c].built)
    <3>1. PICK n \in DOMAIN commits : n = write[c].built
      BY <2>0
    <3>2. PICK heard \in {TRUE, writeLeft.fault = 0} :
             /\ Lands(n)
             /\ write' = [write EXCEPT ![c].at = "done", ![c].answer = IF heard THEN n ELSE NoCommit]
      BY <1>8, <2>1, <3>1 DEF Patch
    <3>3. head' = n /\ tips' = tips \cup {n}
      BY <3>2 DEF Lands
    <3>4. /\ DOMAIN write' = Writers
          /\ \A d \in Writers \ {c} : write'[d] = write[d]
          /\ DOMAIN write'[c] = {"at", "ask", "read", "base", "built", "answer"}
          /\ write'[c].at = "done" /\ write'[c].ask = write[c].ask
          /\ write'[c].answer \in {n, NoCommit}
      BY <1>0, <3>2
    <3>5. BranchShape'
      BY <2>0, <3>1, <3>3, <3>4 DEF BranchInv, BranchShape
    <3>6. ReadySound'
      BY <2>0, <3>4 DEF BranchInv, ReadySound
    <3>7. CommitsFaithful'
      <4>1. \A d \in Writers : write[d].at \in {"patch", "done"} =>
                /\ write'[d].at \in {"patch", "done"} /\ write'[d].ask = write[d].ask
        BY <3>4
      <4> QED BY <2>0, <4>1, FaithfulStays DEF BranchInv
    <3>8. TipsStay'
      <4>1. HistoryOf(head) \subseteq HistoryOf(n)
        BY <2>1, <3>1, HistoryTransitive
      <4>2. HistoryOf(n)' = HistoryOf(n)
        BY <2>0 DEF HistoryOf, HoldsParents
      <4>3. \A d \in Writers : write'[d].answer \in {write[d].answer, n, NoCommit}
        BY <3>4
      <4> QED BY <2>0, <3>1, <3>3, <4>1, <4>2, <4>3, TipsMove DEF BranchInv
    <3> QED BY <3>5, <3>6, <3>7, <3>8 DEF BranchInv
  <2>2. CASE head \notin HistoryOf(write[c].built)
    <3> DEFINE rec == [write[c] EXCEPT !.at = "done"]
    <3>1. write' = [write EXCEPT ![c] = rec] /\ UNCHANGED <<commits, head, tips>>
      BY <1>0, <1>8, <2>2 DEF Patch
    <3>2. /\ DOMAIN rec = {"at", "ask", "read", "base", "built", "answer"} /\ rec.answer = write[c].answer
          /\ rec.ask = write[c].ask /\ rec.at = "done"
      BY <1>0
    <3> HIDE DEF rec
    <3> QED BY <2>0, <3>1, <3>2, CallStep
  <2> QED BY <2>1, <2>2
<1> QED BY <1>1, <1>2, <1>3, <1>4, <1>5, <1>6, <1>7, <1>8 DEF BranchNext

\* Whatever tool calls and other people commit meanwhile, and whichever answers are lost: no
\* commit that was on the branch leaves it, a commit that is reported is on it, and each call's
\* commit is a faithful change of the one it is built on (connectors/github/files.js).
THEOREM BranchStaysSound == BranchSpec => []BranchSound
<1>1. BranchInv => BranchSound
  <2> SUFFICES ASSUME BranchInv PROVE BranchSound
    OBVIOUS
  <2>1. tips \subseteq HistoryOf(head)
    BY DEF BranchInv, TipsStay
  <2>2. \A c \in Writers : write[c].answer # NoCommit => write[c].answer \in HistoryOf(head)
    BY <2>1 DEF BranchInv, TipsStay
  <2>3. \A i \in tips : commits[i].by \in Writers => Faithful(i)
    BY DEF BranchInv, BranchShape, CommitsFaithful
  <2> QED BY <2>1, <2>2, <2>3 DEF BranchSound
<1> QED BY <1>1, BranchInitInv, BranchStep, PTL DEF BranchSpec
=============================================================================
