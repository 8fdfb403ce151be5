----------------------------- MODULE CommitLog -----------------------------
(***************************************************************************)
(* The commit log kept on the checkpoint-latest page, between its marker   *)
(* block and the checkpoint's start marker (recordCommit,                  *)
(* trimCommitLogBlocks in src/connectors/notion/commit_log.js; the save    *)
(* backstop and clear_log of doCheckpoint in                               *)
(* src/connectors/notion/tools.js).                                        *)
(*                                                                         *)
(* Every commit made through the server inserts an entry on top and then   *)
(* deletes what a fresh read shows beyond the cap.  Records of one process *)
(* are queued; other processes, a save and a clear_log interleave.         *)
(***************************************************************************)
EXTENDS Integers, FiniteSets

CONSTANTS
    LogProcesses,   \* server instances
    Cap,            \* COMMIT_LOG_MAX_ENTRIES
    MaxCommits,     \* bound: commits recorded
    MaxTends,       \* bound: saves and clears
    LogFaults       \* bound: failed requests and crashes

ASSUME LogAssumption ==
    /\ IsFiniteSet(LogProcesses)
    /\ Cap \in Nat \ {0} /\ MaxCommits \in Nat /\ MaxTends \in Nat /\ LogFaults \in Nat

VARIABLES
    log,            \* entries on the page, numbered as they were inserted: newest on top
    inserted,       \* entries ever inserted
    queued,         \* process -> commits waiting in its queue
    record,         \* process -> the record at the head of its queue
    tend,           \* the checkpoint call that trims or clears
    cleared,        \* entries a clear_log has seen
    commitsLeft, tendsLeft, logFaultsLeft

logVars == <<log, inserted, queued, record, tend, cleared, commitsLeft, tendsLeft, logFaultsLeft>>

IdleTask == [step |-> "idle", doomed |-> {}]
Tasks == [step : {"idle", "insert", "reread", "trim", "list", "clear"}, doomed : SUBSET (1 .. MaxCommits)]

LogTypeOK ==
    /\ log \subseteq 1 .. MaxCommits
    /\ inserted \in 0 .. MaxCommits /\ cleared \in 0 .. MaxCommits
    /\ queued \in [LogProcesses -> Nat]
    /\ record \in [LogProcesses -> Tasks] /\ tend \in Tasks
    /\ commitsLeft \in Nat /\ tendsLeft \in Nat /\ logFaultsLeft \in Nat

LogInit ==
    /\ log = {} /\ inserted = 0 /\ cleared = 0
    /\ queued = [q \in LogProcesses |-> 0]
    /\ record = [q \in LogProcesses |-> IdleTask]
    /\ tend = IdleTask
    /\ commitsLeft = MaxCommits /\ tendsLeft = MaxTends /\ logFaultsLeft = LogFaults

LogFault == logFaultsLeft > 0 /\ logFaultsLeft' = logFaultsLeft - 1

\* trimCommitLogBlocks: what lies beyond the newest Cap entries of the blocks it was given.
DroppedTop(s) == {b \in s : Cardinality({x \in s : x < b}) >= Cap}
Beyond(s) == {b \in s : Cardinality({x \in s : x > b}) >= Cap}

\* One block deleted; a failed deletion is noted and the others go on; 404 counts as removed.
DeleteOne(b) ==
    \/ log' = log \ {b} /\ UNCHANGED logFaultsLeft
    \/ LogFault /\ UNCHANGED log

-----------------------------------------------------------------------------
\* A commit lands on GitHub and its record is queued.
Commit(q) ==
    /\ commitsLeft > 0
    /\ commitsLeft' = commitsLeft - 1
    /\ queued' = [queued EXCEPT ![q] = @ + 1]
    /\ UNCHANGED <<log, inserted, record, tend, cleared, tendsLeft, logFaultsLeft>>

\* recordQueue: the next record starts when the one before has ended; it looks for the
\* page and its marker, and a failure drops the entry.
EmptyStarts(q) == record[q].step = "idle"
QueueFree(q) == queued[q] > 0 /\ record[q].step = "idle"

StartRecord(q) ==
    /\ QueueFree(q)
    /\ queued' = [queued EXCEPT ![q] = @ - 1]
    /\ \/ record' = [record EXCEPT ![q].step = "insert"] /\ UNCHANGED logFaultsLeft
       \/ LogFault /\ UNCHANGED record
    /\ UNCHANGED <<log, inserted, tend, cleared, commitsLeft, tendsLeft>>

\* PATCH after the marker; after an error, applied or not, nothing is trimmed.
InsertEntry(q) ==
    /\ record[q].step = "insert"
    /\ \/ /\ log' = log \cup {inserted + 1} /\ inserted' = inserted + 1
          /\ \/ record' = [record EXCEPT ![q].step = "reread"] /\ UNCHANGED logFaultsLeft
             \/ LogFault /\ record' = [record EXCEPT ![q] = IdleTask]
       \/ LogFault /\ record' = [record EXCEPT ![q] = IdleTask] /\ UNCHANGED <<log, inserted>>
    /\ UNCHANGED <<queued, tend, cleared, commitsLeft, tendsLeft>>

Reread(q) ==
    /\ record[q].step = "reread"
    /\ \/ record' = [record EXCEPT ![q] = [step |-> "trim", doomed |-> Beyond(log)]] /\ UNCHANGED logFaultsLeft
       \/ LogFault /\ record' = [record EXCEPT ![q] = IdleTask]
    /\ UNCHANGED <<log, inserted, queued, tend, cleared, commitsLeft, tendsLeft>>

Trim(q) ==
    /\ record[q].step = "trim"
    /\ \/ \E b \in record[q].doomed : DeleteOne(b) /\ record' = [record EXCEPT ![q].doomed = @ \ {b}]
       \/ record[q].doomed = {} /\ record' = [record EXCEPT ![q] = IdleTask] /\ UNCHANGED <<log, logFaultsLeft>>
    /\ UNCHANGED <<inserted, queued, tend, cleared, commitsLeft, tendsLeft>>

\* A process dies: its queue and its record are gone.
ProcessDies(q) ==
    /\ record[q].step # "idle" \/ queued[q] > 0
    /\ LogFault
    /\ record' = [record EXCEPT ![q] = IdleTask]
    /\ queued' = [queued EXCEPT ![q] = 0]
    /\ UNCHANGED <<log, inserted, tend, cleared, commitsLeft, tendsLeft>>

-----------------------------------------------------------------------------
\* A checkpoint save trims as a backstop; clear_log deletes every entry it has read.
StartTend ==
    /\ tend.step = "idle" /\ tendsLeft > 0 /\ tendsLeft' = tendsLeft - 1
    /\ \E step \in {"reread", "list"} : tend' = [IdleTask EXCEPT !.step = step]
    /\ UNCHANGED <<log, inserted, queued, record, cleared, commitsLeft, logFaultsLeft>>

TendReads ==
    /\ \/ /\ tend.step = "reread"
          /\ tend' = [step |-> "trim", doomed |-> Beyond(log)] /\ UNCHANGED cleared
       \/ /\ tend.step = "list"
          /\ tend' = [step |-> "clear", doomed |-> log] /\ cleared' = inserted
    /\ UNCHANGED <<log, inserted, queued, record, commitsLeft, tendsLeft, logFaultsLeft>>

TendDeletes ==
    /\ tend.step \in {"trim", "clear"}
    /\ \/ \E b \in tend.doomed : DeleteOne(b) /\ tend' = [tend EXCEPT !.doomed = @ \ {b}]
       \/ tend.doomed = {} /\ tend' = IdleTask /\ UNCHANGED <<log, logFaultsLeft>>
    /\ UNCHANGED <<inserted, queued, record, cleared, commitsLeft, tendsLeft>>

LogNext ==
    \/ \E q \in LogProcesses :
          Commit(q) \/ StartRecord(q) \/ InsertEntry(q) \/ Reread(q) \/ Trim(q) \/ ProcessDies(q)
    \/ StartTend \/ TendReads \/ TendDeletes

LogSpec == LogInit /\ [][LogNext]_logVars

-----------------------------------------------------------------------------
(* Properties.                                                             *)

Trimming == {q \in LogProcesses : record[q].step \in {"reread", "trim"}}

\* The log outgrows its cap only by the entries whose record is still trimming and by one
\* for each failure: never by more records in one process, which are queued, and a stale
\* read of one process or call leaves nothing behind for good.
LogBounded ==
    Cardinality(log) <= Cap + Cardinality(Trimming) + LogFaults - logFaultsLeft

\* However records, saves and clears interleave, the newest Cap entries inserted since the
\* last clear_log read the page are on it: no trim works from a stale read to the point of
\* deleting a new entry.
NewestKept ==
    \A n \in 1 .. inserted : n > inserted - Cap /\ n > cleared => n \in log

\* The log keeps what is new and little else.
LogKept == LogBounded /\ NewestKept
=============================================================================
