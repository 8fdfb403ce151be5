------------------------ MODULE DesignerLoop_proofs ------------------------
(***************************************************************************)
(* Theorems about DesignerLoop, for any number of files, steps and calls   *)
(* of a step: what a run was told it wrote is in its record, and the cache *)
(* of a run is behind none of the run's own commits, but those of a write  *)
(* whose answer was lost after the read.                                   *)
(***************************************************************************)
EXTENDS DesignerLoop, NaturalsInduction, WellFoundedInduction, TLAPS

\* None, which stands for no run, is none of the records of a run.
NoneIsNoRun == DOMAIN None # {"state", "step", "cap", "pc", "own", "overtaken"}

\* The record of a run: its fields, and the two that the theorems are about.
IsState(s) ==
    /\ DOMAIN s = {"stepsDone", "known", "stale", "mine", "counts", "repeats",
                   "validated", "written"}
    /\ s.mine \in [Paths -> Nat]
    /\ s.written \in SUBSET Paths

\* A version the run made is on the branch, and its file is in the list.
IsBacked(s) == \A p \in Paths : s.mine[p] <= files[p] /\ (s.mine[p] > 0 => p \in s.written)

Shape ==
    /\ files \in [Paths -> FileVersions]
    /\ design # None =>
        /\ DOMAIN design = {"state", "step", "cap", "pc", "own", "overtaken"}
        /\ IsState(design.state)
        /\ design.own \in [Paths -> Nat]
    /\ saved # None => IsState(saved)
    /\ reply # None => DOMAIN reply = {"failed", "steps", "written", "kept"}
    /\ \A i \in DOMAIN inFlight :
        /\ design # None
        /\ DOMAIN inFlight[i] = {"call", "repeat", "cached", "answer", "result"}
        /\ inFlight[i].call.path \in Paths

\* A write of the step that was answered is in the list already.
AnswersBacked ==
    \A i \in DOMAIN inFlight :
        (inFlight[i].call.op = "write_file" /\ inFlight[i].answer = "ok") =>
            /\ inFlight[i].call.path \in design.state.written
            /\ inFlight[i].result \in 1..files[inFlight[i].call.path]

\* The run's own commits, answered or not, are on the branch.
OwnBacked == design # None => \A p \in Paths : design.own[p] <= files[p]

CacheBacked ==
    /\ design = None => DOMAIN cache = {}
    /\ design # None =>
        \A p \in Paths : (ReadOf(p) \in DOMAIN cache /\ p \notin design.overtaken) =>
            cache[ReadOf(p)] \in {0} \cup design.own[p]..MaxFileVersion

\* A process at work has told nobody yet where the run stopped.
NotYetReplied == design # None => (reply = None \/ ~reply.kept)

DesignInv ==
    /\ Shape
    /\ design # None => IsBacked(design.state)
    /\ saved # None => IsBacked(saved)
    /\ AnswersBacked
    /\ OwnBacked
    /\ CacheBacked
    /\ NotYetReplied
    /\ ResumesWhereItStopped

-----------------------------------------------------------------------------
\* A set of versions that is not empty has a newest one, and Newest chooses it.
LEMMA NewestExists ==
    ASSUME NEW n \in Nat, NEW S \in SUBSET (1..n), S # {}
    PROVE  Newest(S) \in S
<1> DEFINE R == OpToRel(<, Nat)
           T == {n - v : v \in S}
<1>1. IsWellFoundedOn(R, Nat)
  BY NatLessThanWellFounded
<1>2. T \subseteq Nat /\ T # {}
  <2>1. ASSUME NEW v \in S PROVE n - v \in Nat
    OBVIOUS
  <2>2. PICK v \in S : TRUE
    OBVIOUS
  <2>3. n - v \in T
    BY <2>2
  <2> HIDE DEF R
  <2> QED BY <2>1, <2>3
<1>3. PICK x \in T : \A y \in T : ~(<<y, x>> \in R)
  <2> HIDE DEF R, T
  <2> QED BY <1>1, <1>2, WFMin
<1>4. \A y \in T : ~(y < x)
  BY <1>2, <1>3 DEF OpToRel
<1>5. PICK v \in S : x = n - v
  BY <1>3
<1>6. \A w \in S : w <= v
  <2> TAKE w \in S
  <2>1. n - w \in T
    OBVIOUS
  <2>2. ~(n - w < n - v)
    <3> HIDE DEF R, T
    <3> QED BY <1>4, <1>5, <2>1
  <2>3. n \in Nat /\ v \in Nat /\ w \in Nat
    OBVIOUS
  <2> HIDE DEF R, T
  <2> QED BY <2>2, <2>3
<1> QED BY <1>5, <1>6 DEF Newest

-----------------------------------------------------------------------------
\* Nothing is answered, cached or saved at first.
LEMMA DesignInitInv == DesignInit => DesignInv
  BY DesignAssumption
     DEF DesignInit, DesignInv, Shape, AnswersBacked, OwnBacked, CacheBacked, NotYetReplied,
         ResumesWhereItStopped, FileVersions

LEMMA StartKeeps == ASSUME DesignInv, StartDesign PROVE DesignInv'
<1> USE DesignAssumption DEF DesignInv, Shape, FileVersions, StartDesign, DesignAt, Fresh
<1>1. Shape'
  BY DEF IsState
<1>2. (design # None => IsBacked(design.state))'
  BY DEF IsState, IsBacked
<1>3. (saved # None => IsBacked(saved))'
  BY DEF IsState, IsBacked
<1>4. AnswersBacked'
  BY DEF AnswersBacked
<1>5. OwnBacked' /\ CacheBacked'
  BY DEF IsState, IsBacked, OwnBacked, CacheBacked
<1>6. NotYetReplied'
  BY DEF NotYetReplied
<1>7. ResumesWhereItStopped'
  BY DEF NotYetReplied, ResumesWhereItStopped
<1> QED BY <1>1, <1>2, <1>3, <1>4, <1>5, <1>6, <1>7 DEF DesignInv

LEMMA ResumeKeeps == ASSUME DesignInv, ResumeDesign PROVE DesignInv'
<1> USE DesignAssumption DEF DesignInv, Shape, FileVersions, ResumeDesign, DesignAt, Replied
<1>1. Shape'
  BY DEF IsState
<1>2. (design # None => IsBacked(design.state))'
  BY DEF IsState, IsBacked
<1>3. (saved # None => IsBacked(saved))'
  BY DEF IsState, IsBacked
<1>4. AnswersBacked'
  BY DEF AnswersBacked
<1>5. OwnBacked' /\ CacheBacked'
  BY DEF IsState, IsBacked, OwnBacked, CacheBacked
<1>6. NotYetReplied'
  BY DEF NotYetReplied
<1>7. ResumesWhereItStopped'
  BY DEF NotYetReplied, ResumesWhereItStopped
<1> QED BY <1>1, <1>2, <1>3, <1>4, <1>5, <1>6, <1>7 DEF DesignInv

LEMMA StopKeeps == ASSUME DesignInv, StopEarly PROVE DesignInv'
<1> USE DesignAssumption DEF DesignInv, Shape, FileVersions, StopEarly, Return, SaveAs, Replied
<1>1. Shape'
  BY DEF IsState
<1>2. (design # None => IsBacked(design.state))'
  BY DEF IsState, IsBacked
<1>3. (saved # None => IsBacked(saved))'
  BY DEF IsState, IsBacked
<1>4. AnswersBacked'
  BY DEF AnswersBacked
<1>5. OwnBacked' /\ CacheBacked'
  BY DEF IsState, IsBacked, OwnBacked, CacheBacked
<1>6. NotYetReplied'
  BY DEF NotYetReplied
<1>7. ResumesWhereItStopped'
  BY DEF NotYetReplied, ResumesWhereItStopped
<1> QED BY <1>1, <1>2, <1>3, <1>4, <1>5, <1>6, <1>7 DEF DesignInv

LEMMA AnswerKeeps == ASSUME DesignInv, Answer PROVE DesignInv'
<1> USE DesignAssumption DEF DesignInv, Shape, FileVersions, Answer, Return, SaveAs, Replied
<1>1. Shape'
  BY DEF IsState
<1>2. (design # None => IsBacked(design.state))'
  BY DEF IsState, IsBacked
<1>3. (saved # None => IsBacked(saved))'
  BY DEF IsState, IsBacked
<1>4. AnswersBacked'
  BY DEF AnswersBacked
<1>5. OwnBacked' /\ CacheBacked'
  BY DEF IsState, IsBacked, OwnBacked, CacheBacked
<1>6. NotYetReplied'
  BY DEF NotYetReplied
<1>7. ResumesWhereItStopped'
  BY DEF NotYetReplied, ResumesWhereItStopped
<1> QED BY <1>1, <1>2, <1>3, <1>4, <1>5, <1>6, <1>7 DEF DesignInv

LEMMA KilledKeeps == ASSUME DesignInv, Killed PROVE DesignInv'
<1> USE DesignAssumption DEF DesignInv, Shape, FileVersions, Killed
<1>1. Shape'
  BY DEF IsState
<1>2. (design # None => IsBacked(design.state))'
  BY DEF IsState, IsBacked
<1>3. (saved # None => IsBacked(saved))'
  BY DEF IsState, IsBacked
<1>4. AnswersBacked'
  BY DEF AnswersBacked
<1>5. OwnBacked' /\ CacheBacked'
  BY DEF IsState, IsBacked, OwnBacked, CacheBacked
<1>6. NotYetReplied'
  BY DEF NotYetReplied
<1>7. ResumesWhereItStopped'
  BY DEF NotYetReplied, ResumesWhereItStopped
<1> QED BY <1>1, <1>2, <1>3, <1>4, <1>5, <1>6, <1>7 DEF DesignInv

LEMMA ExpiryKeeps == ASSUME DesignInv, CheckpointExpires PROVE DesignInv'
<1> USE DesignAssumption DEF DesignInv, Shape, FileVersions, CheckpointExpires
<1>1. Shape'
  BY DEF IsState
<1>2. (design # None => IsBacked(design.state))'
  BY DEF IsState, IsBacked
<1>3. (saved # None => IsBacked(saved))'
  BY DEF IsState, IsBacked
<1>4. AnswersBacked'
  BY DEF AnswersBacked
<1>5. OwnBacked' /\ CacheBacked'
  BY DEF IsState, IsBacked, OwnBacked, CacheBacked
<1>6. NotYetReplied'
  BY DEF NotYetReplied
<1>7. ResumesWhereItStopped'
  BY DEF NotYetReplied, ResumesWhereItStopped
<1> QED BY <1>1, <1>2, <1>3, <1>4, <1>5, <1>6, <1>7 DEF DesignInv

LEMMA CommitKeeps == ASSUME DesignInv, CommittedByOther PROVE DesignInv'
<1> USE DesignAssumption DEF DesignInv, Shape, FileVersions, CommittedByOther
<1>1. Shape'
  BY DEF IsState
<1>2. (design # None => IsBacked(design.state))'
  BY DEF IsState, IsBacked
<1>3. (saved # None => IsBacked(saved))'
  BY DEF IsState, IsBacked
<1>4. AnswersBacked'
  BY DEF AnswersBacked
<1>5. OwnBacked' /\ CacheBacked'
  BY DEF IsState, IsBacked, OwnBacked, CacheBacked
<1>6. NotYetReplied'
  BY DEF NotYetReplied
<1>7. ResumesWhereItStopped'
  BY DEF NotYetReplied, ResumesWhereItStopped
<1> QED BY <1>1, <1>2, <1>3, <1>4, <1>5, <1>6, <1>7 DEF DesignInv

\* What an answer to a call changes in the step: the answer and the result of that call.
LEMMA AnsweredOne ==
    ASSUME Shape, NEW i \in DOMAIN inFlight, NEW answer, NEW result, Answered(i, answer, result)
    PROVE  /\ DOMAIN inFlight' = DOMAIN inFlight
           /\ \A j \in DOMAIN inFlight :
                /\ DOMAIN inFlight'[j] = {"call", "repeat", "cached", "answer", "result"}
                /\ inFlight'[j].call = inFlight[j].call
                /\ j # i => inFlight'[j] = inFlight[j]
           /\ inFlight'[i].answer = answer /\ inFlight'[i].result = result
  BY DEF Answered, Shape

LEMMA CallsKeep == ASSUME NoneIsNoRun, DesignInv, MakeCalls PROVE DesignInv'
<1>1. PICK n \in 1..MaxCalls : \E calls \in [1..n -> PossibleCalls] :
            inFlight' = [i \in 1..n |-> Entry(calls, i)]
  BY DEF MakeCalls
<1>2. PICK calls \in [1..n -> PossibleCalls] : inFlight' = [i \in 1..n |-> Entry(calls, i)]
  BY <1>1
<1>3. DOMAIN inFlight' = 1..n /\ \A i \in 1..n : inFlight'[i] = Entry(calls, i)
  BY <1>2
<1>4. \A i \in 1..n : calls[i].path \in Paths
  BY <1>2 DEF PossibleCalls, Signature
<1>5. \A i \in 1..n :
        /\ DOMAIN inFlight'[i] = {"call", "repeat", "cached", "answer", "result"}
        /\ inFlight'[i].call = calls[i]
        /\ calls[i].op = "write_file" => inFlight'[i].answer = "waiting"
  <2> TAKE i \in 1..n
  <2>1. inFlight'[i] = Entry(calls, i)
    BY <1>3
  <2> QED BY <2>1 DEF Entry, ServedFromCache, Cacheable
<1>6. /\ design # None
      /\ UNCHANGED <<files, cache, saved, reply>>
      /\ \E counts : design' = [design EXCEPT !.pc = "calls", !.state.counts = counts]
  BY DEF MakeCalls
<1>7. PICK counts : design' = [design EXCEPT !.pc = "calls", !.state.counts = counts]
  BY <1>6
<1>8. /\ DOMAIN design' = {"state", "step", "cap", "pc", "own", "overtaken"}
      /\ DOMAIN design'.state = DOMAIN design.state
      /\ design'.state.mine = design.state.mine
      /\ design'.state.written = design.state.written
      /\ design'.own = design.own /\ design'.overtaken = design.overtaken
  BY <1>6, <1>7 DEF DesignInv, Shape, IsState
<1>a. Shape'
  BY <1>3, <1>4, <1>5, <1>6, <1>8 DEF DesignInv, Shape, IsState, NoneIsNoRun
<1>b. (design # None => IsBacked(design.state))' /\ (saved # None => IsBacked(saved))'
  BY <1>6, <1>8 DEF DesignInv, IsBacked
<1>c. AnswersBacked'
  BY <1>3, <1>5 DEF AnswersBacked
<1>d. OwnBacked' /\ CacheBacked'
  BY <1>6, <1>8 DEF DesignInv, OwnBacked, CacheBacked, NoneIsNoRun
<1>e. NotYetReplied' /\ ResumesWhereItStopped'
  BY <1>6 DEF DesignInv, NotYetReplied, ResumesWhereItStopped
<1> QED BY <1>a, <1>b, <1>c, <1>d, <1>e DEF DesignInv

LEMMA ReadKeeps == ASSUME DesignInv, NEW i \in 1..MaxCalls, ReadDone(i) PROVE DesignInv'
<1>1. PICK v \in {files[inFlight[i].call.path], 0} : Answered(i, "ok", v) /\ Cached(i, v)
  BY DEF ReadDone
<1>2. /\ i \in DOMAIN inFlight /\ inFlight[i].call.op = "read_file"
      /\ UNCHANGED <<files, design, saved, reply>>
  BY DEF ReadDone, Waiting
<1>3. /\ DOMAIN inFlight' = DOMAIN inFlight
      /\ \A j \in DOMAIN inFlight :
            /\ DOMAIN inFlight'[j] = {"call", "repeat", "cached", "answer", "result"}
            /\ inFlight'[j].call = inFlight[j].call
            /\ j # i => inFlight'[j] = inFlight[j]
  BY <1>1, <1>2, AnsweredOne DEF DesignInv
<1>a. Shape'
  BY <1>2, <1>3 DEF DesignInv, Shape, IsState
<1>b. (design # None => IsBacked(design.state))' /\ (saved # None => IsBacked(saved))'
  BY <1>2 DEF DesignInv, IsBacked
<1>c. AnswersBacked'
  BY <1>2, <1>3 DEF DesignInv, AnswersBacked
<1>d. CacheBacked'
  <2>1. design # None
    BY <1>2 DEF DesignInv, Shape
  <2>2. SUFFICES ASSUME NEW p \in Paths, ReadOf(p) \in DOMAIN cache', p \notin design.overtaken
        PROVE cache'[ReadOf(p)] \in {0} \cup design.own[p]..MaxFileVersion
    BY <1>2, <2>1 DEF CacheBacked
  <2> DEFINE s == ReadOf(p)
  <2>3. CASE s = inFlight[i].call
    <3>1. p = inFlight[i].call.path
      BY <2>3 DEF ReadOf, Signature
    <3>2. cache'[s] = v
      BY <1>1, <2>2, <2>3 DEF Cached
    <3>3. design.own[p] <= files[p] /\ files[p] \in 0..MaxFileVersion /\ design.own[p] \in Nat
      BY <2>1 DEF DesignInv, OwnBacked, Shape, FileVersions
    <3> QED BY <1>1, <3>1, <3>2, <3>3, DesignAssumption
  <2>4. CASE s # inFlight[i].call
    <3>1. s \in DOMAIN cache /\ cache'[s] = cache[s]
      BY <1>1, <2>2, <2>4 DEF Cached
    <3> QED BY <2>1, <2>2, <3>1 DEF DesignInv, CacheBacked
  <2> QED BY <2>3, <2>4
<1>f. OwnBacked'
  BY <1>2 DEF DesignInv, OwnBacked
<1>e. NotYetReplied' /\ ResumesWhereItStopped'
  BY <1>2 DEF DesignInv, NotYetReplied, ResumesWhereItStopped
<1> QED BY <1>a, <1>b, <1>c, <1>d, <1>e, <1>f DEF DesignInv

\* What a write that was taken changes: the file's version, and the list of what was written.
LEMMA Written ==
    ASSUME DesignInv, NEW p \in Paths, design # None,
           files' = [files EXCEPT ![p] = @ + 1], files[p] < MaxFileVersion
    PROVE  /\ files' \in [Paths -> FileVersions]
           /\ files'[p] = files[p] + 1
           /\ \A q \in Paths : files[q] \in Nat /\ files'[q] \in Nat /\ files[q] <= files'[q]
  BY DesignAssumption DEF DesignInv, Shape, FileVersions

LEMMA WriteKeeps == ASSUME NoneIsNoRun, DesignInv, NEW i \in 1..MaxCalls, WriteDone(i) PROVE DesignInv'
<1> DEFINE call == inFlight[i].call
<1>1. /\ i \in DOMAIN inFlight /\ call.op = "write_file"
      /\ UNCHANGED <<cache, saved, reply>>
      /\ design # None /\ call.path \in Paths
  BY DEF WriteDone, Waiting, DesignInv, Shape
<1>2. CASE Accepted(call)
  <2>1. /\ files[call.path] < MaxFileVersion
        /\ files' = [files EXCEPT ![call.path] = @ + 1]
        /\ Answered(i, "ok", files[call.path] + 1)
        /\ design' = [design EXCEPT !.state.written = @ \cup {call.path}]
    BY <1>2 DEF WriteDone
  <2>2. /\ files' \in [Paths -> FileVersions]
        /\ files'[call.path] = files[call.path] + 1
        /\ \A q \in Paths : files[q] \in Nat /\ files'[q] \in Nat /\ files[q] <= files'[q]
    <3> HIDE DEF call
    <3> QED BY <1>1, <2>1, Written
  <2>3. /\ DOMAIN inFlight' = DOMAIN inFlight
        /\ \A j \in DOMAIN inFlight :
              /\ DOMAIN inFlight'[j] = {"call", "repeat", "cached", "answer", "result"}
              /\ inFlight'[j].call = inFlight[j].call
              /\ j # i => inFlight'[j] = inFlight[j]
        /\ inFlight'[i].answer = "ok" /\ inFlight'[i].result = files[call.path] + 1
    BY <1>1, <2>1, AnsweredOne DEF DesignInv
  <2>4. /\ DOMAIN design' = {"state", "step", "cap", "pc", "own", "overtaken"}
        /\ DOMAIN design'.state = DOMAIN design.state
        /\ design'.state.mine = design.state.mine
        /\ design'.state.written = design.state.written \cup {call.path}
        /\ design'.own = design.own /\ design'.overtaken = design.overtaken
    BY <1>1, <2>1 DEF DesignInv, Shape, IsState
  <2>5. design.state.mine \in [Paths -> Nat] /\ (saved # None => saved.mine \in [Paths -> Nat])
    BY <1>1 DEF DesignInv, Shape, IsState
  <2>a. Shape'
    <3>1. IsState(design.state) => IsState(design'.state)
      BY <1>1, <2>4 DEF IsState
    <3>2. \A j \in DOMAIN inFlight' :
            /\ design' # None
            /\ DOMAIN inFlight'[j] = {"call", "repeat", "cached", "answer", "result"}
            /\ inFlight'[j].call.path \in Paths
      BY <1>1, <2>3, <2>4 DEF DesignInv, Shape, NoneIsNoRun
    <3> QED BY <1>1, <2>2, <2>4, <3>1, <3>2 DEF DesignInv, Shape, IsState
  <2>b. (design # None => IsBacked(design.state))' /\ (saved # None => IsBacked(saved))'
    BY <1>1, <2>2, <2>4, <2>5 DEF DesignInv, IsBacked
  <2>c. AnswersBacked'
    BY <1>1, <2>2, <2>3, <2>4 DEF DesignInv, AnswersBacked, Shape
  <2>d. CacheBacked'
    BY <1>1, <2>4 DEF DesignInv, CacheBacked, NoneIsNoRun
  <2>f. OwnBacked'
    BY <1>1, <2>2, <2>4 DEF DesignInv, Shape, OwnBacked
  <2>e. NotYetReplied' /\ ResumesWhereItStopped'
    BY <1>1 DEF DesignInv, NotYetReplied, ResumesWhereItStopped
  <2> QED BY <2>a, <2>b, <2>c, <2>d, <2>e, <2>f DEF DesignInv
<1>3. CASE ~Accepted(call)
  <2>1. Answered(i, "conflict", 0) /\ UNCHANGED <<files, design>>
    BY <1>3 DEF WriteDone
  <2>3. /\ DOMAIN inFlight' = DOMAIN inFlight
        /\ \A j \in DOMAIN inFlight :
              /\ DOMAIN inFlight'[j] = {"call", "repeat", "cached", "answer", "result"}
              /\ inFlight'[j].call = inFlight[j].call
              /\ j # i => inFlight'[j] = inFlight[j]
        /\ inFlight'[i].answer = "conflict"
    BY <1>1, <2>1, AnsweredOne DEF DesignInv
  <2>a. Shape'
    BY <1>1, <2>1, <2>3 DEF DesignInv, Shape, IsState
  <2>b. (design # None => IsBacked(design.state))' /\ (saved # None => IsBacked(saved))'
    BY <1>1, <2>1 DEF DesignInv, IsBacked
  <2>c. AnswersBacked'
    BY <1>1, <2>1, <2>3 DEF DesignInv, AnswersBacked
  <2>d. OwnBacked' /\ CacheBacked'
    BY <1>1, <2>1 DEF DesignInv, OwnBacked, CacheBacked
  <2>e. NotYetReplied' /\ ResumesWhereItStopped'
    BY <1>1, <2>1 DEF DesignInv, NotYetReplied, ResumesWhereItStopped
  <2> QED BY <2>a, <2>b, <2>c, <2>d, <2>e DEF DesignInv
<1> QED BY <1>2, <1>3

LEMMA LostKeeps == ASSUME NoneIsNoRun, DesignInv, NEW i \in 1..MaxCalls, WriteAnswerLost(i) PROVE DesignInv'
<1> DEFINE call == inFlight[i].call
           old == IF ReadOf(call.path) \in DOMAIN cache THEN design.overtaken \cup {call.path}
                  ELSE design.overtaken
<1>1. /\ i \in DOMAIN inFlight
      /\ UNCHANGED <<cache, saved, reply>>
      /\ design # None /\ call.path \in Paths
      /\ files[call.path] < MaxFileVersion
      /\ files' = [files EXCEPT ![call.path] = @ + 1]
      /\ Answered(i, "failed", 0)
  BY DEF WriteAnswerLost, Waiting, DesignInv, Shape
<1>2. /\ files' \in [Paths -> FileVersions]
      /\ files'[call.path] = files[call.path] + 1
      /\ \A q \in Paths : files[q] \in Nat /\ files'[q] \in Nat /\ files[q] <= files'[q]
  <2> HIDE DEF call
  <2> QED BY <1>1, Written
<1>3. /\ DOMAIN inFlight' = DOMAIN inFlight
      /\ \A j \in DOMAIN inFlight :
            /\ DOMAIN inFlight'[j] = {"call", "repeat", "cached", "answer", "result"}
            /\ inFlight'[j].call = inFlight[j].call
            /\ j # i => inFlight'[j] = inFlight[j]
      /\ inFlight'[i].answer = "failed"
  BY <1>1, AnsweredOne DEF DesignInv
<1>4. /\ DOMAIN design' = {"state", "step", "cap", "pc", "own", "overtaken"}
      /\ design'.state = design.state
      /\ design'.own = [design.own EXCEPT ![call.path] = files[call.path] + 1]
      /\ design'.overtaken = old
  BY <1>1 DEF WriteAnswerLost, DesignInv, Shape
<1>5. /\ design.state.mine \in [Paths -> Nat] /\ (saved # None => saved.mine \in [Paths -> Nat])
      /\ design.own \in [Paths -> Nat] /\ design' # None
  BY <1>1, <1>4 DEF DesignInv, Shape, IsState, NoneIsNoRun
<1>6. design'.own \in [Paths -> Nat]
  <2> HIDE DEF call, old
  <2> QED BY <1>1, <1>2, <1>4, <1>5
<1>a. Shape'
  <2> HIDE DEF old
  <2> QED BY <1>1, <1>2, <1>3, <1>4, <1>5, <1>6 DEF DesignInv, Shape, IsState
<1>b. (design # None => IsBacked(design.state))' /\ (saved # None => IsBacked(saved))'
  <2> HIDE DEF old
  <2> QED BY <1>1, <1>2, <1>4, <1>5 DEF DesignInv, IsBacked
<1>c. AnswersBacked'
  <2> HIDE DEF old
  <2> QED BY <1>1, <1>2, <1>3, <1>4 DEF DesignInv, AnswersBacked, Shape
<1>d. OwnBacked'
  <2> HIDE DEF call, old
  <2> QED BY <1>1, <1>2, <1>4, <1>5 DEF DesignInv, OwnBacked
<1>f. CacheBacked'
  <2>1. SUFFICES ASSUME NEW p \in Paths, ReadOf(p) \in DOMAIN cache', p \notin design'.overtaken
        PROVE  cache'[ReadOf(p)] \in {0} \cup design'.own[p]..MaxFileVersion
    BY <1>5 DEF CacheBacked
  <2>2. p # call.path /\ p \notin design.overtaken
    BY <1>1, <1>4, <2>1
  <2>3. design'.own[p] = design.own[p]
    <3> HIDE DEF call, old
    <3> QED BY <1>4, <1>5, <2>2
  <2> QED BY <1>1, <2>1, <2>2, <2>3 DEF DesignInv, CacheBacked
<1>e. NotYetReplied' /\ ResumesWhereItStopped'
  BY <1>1 DEF DesignInv, NotYetReplied, ResumesWhereItStopped
<1> QED BY <1>a, <1>b, <1>c, <1>d, <1>e, <1>f DEF DesignInv

LEMMA ValidateKeeps == ASSUME NoneIsNoRun, DesignInv, NEW i \in 1..MaxCalls, ValidateDone(i) PROVE DesignInv'
<1> DEFINE p == inFlight[i].call.path
<1>1. /\ i \in DOMAIN inFlight /\ inFlight[i].call.op = "validate"
      /\ UNCHANGED <<files, saved, reply>>
      /\ design # None /\ p \in Paths
  BY DEF ValidateDone, Waiting, DesignInv, Shape
<1>2. PICK verdict : Answered(i, "ok", verdict) /\ Cached(i, verdict)
  BY DEF ValidateDone
<1>3. PICK n : design' = [design EXCEPT !.state.validated[p] = n]
  BY DEF ValidateDone
<1>4. /\ DOMAIN inFlight' = DOMAIN inFlight
      /\ \A j \in DOMAIN inFlight :
            /\ DOMAIN inFlight'[j] = {"call", "repeat", "cached", "answer", "result"}
            /\ inFlight'[j].call = inFlight[j].call
            /\ j # i => inFlight'[j] = inFlight[j]
  BY <1>1, <1>2, AnsweredOne DEF DesignInv
<1>5. /\ DOMAIN design' = {"state", "step", "cap", "pc", "own", "overtaken"}
      /\ DOMAIN design'.state = DOMAIN design.state
      /\ design'.state.mine = design.state.mine
      /\ design'.state.written = design.state.written
      /\ design'.own = design.own /\ design'.overtaken = design.overtaken
  BY <1>1, <1>3 DEF DesignInv, Shape, IsState
<1>a. Shape'
  <2>1. IsState(design.state) => IsState(design'.state)
    BY <1>1, <1>5 DEF IsState
  <2>2. \A j \in DOMAIN inFlight' :
          /\ design' # None
          /\ DOMAIN inFlight'[j] = {"call", "repeat", "cached", "answer", "result"}
          /\ inFlight'[j].call.path \in Paths
    BY <1>1, <1>4, <1>5 DEF DesignInv, Shape, NoneIsNoRun
  <2> QED BY <1>1, <1>5, <2>1, <2>2 DEF DesignInv, Shape, IsState
<1>b. (design # None => IsBacked(design.state))' /\ (saved # None => IsBacked(saved))'
  BY <1>1, <1>5 DEF DesignInv, IsBacked
<1>c. AnswersBacked'
  BY <1>1, <1>4, <1>5 DEF DesignInv, AnswersBacked
<1>d. CacheBacked'
  <2>1. \A q \in Paths : LET s == ReadOf(q)
                         IN s \in DOMAIN cache' => s \in DOMAIN cache /\ cache'[s] = cache[s]
    BY <1>1, <1>2 DEF Cached, ReadOf, Signature
  <2> QED BY <1>1, <1>5, <2>1 DEF DesignInv, CacheBacked, NoneIsNoRun
<1>f. OwnBacked'
  BY <1>1, <1>5 DEF DesignInv, OwnBacked
<1>e. NotYetReplied' /\ ResumesWhereItStopped'
  BY <1>1 DEF DesignInv, NotYetReplied, ResumesWhereItStopped
<1> QED BY <1>a, <1>b, <1>c, <1>d, <1>e, <1>f DEF DesignInv

\* The versions that calls of a step have made of a file are on the branch.
LEMMA LandedOnBranch ==
    ASSUME DesignInv, NEW p \in Paths, design # None
    PROVE  /\ Landed(p) \subseteq 1..files[p] /\ files[p] \in Nat
           /\ Landed(p) # {} => p \in design.state.written
<1>1. ASSUME NEW i \in Results("write_file", p), inFlight[i].answer = "ok"
      PROVE  inFlight[i].result \in 1..files[p] /\ p \in design.state.written
  BY <1>1 DEF Results, DesignInv, AnswersBacked
<1>2. files[p] \in Nat
  BY DesignAssumption DEF DesignInv, Shape, FileVersions
<1> QED BY <1>1, <1>2 DEF Landed

LEMMA FinishKeeps == ASSUME NoneIsNoRun, DesignInv, FinishStep PROVE DesignInv'
<1> DEFINE s == StateAfter
           o == [p \in Paths |-> IF p \in WrittenNow THEN Newest(Landed(p)) ELSE design.own[p]]
<1>1. /\ design # None
      /\ cache' = [c \in DOMAIN cache \ Invalidated |-> cache[c]]
      /\ design' = [design EXCEPT !.state = s, !.step = @ + 1, !.pc = "ask", !.own = o,
                                  !.overtaken = @ \ WrittenNow]
      /\ saved' = s \/ saved' = saved
      /\ inFlight' = << >>
      /\ UNCHANGED <<files, reply>>
  <2>1. /\ design # None
        /\ cache' = [c \in DOMAIN cache \ Invalidated |-> cache[c]]
        /\ saved' = s \/ saved' = saved
        /\ inFlight' = << >>
        /\ UNCHANGED <<files, reply>>
    BY DEF FinishStep, SaveAs
  <2>2. DOMAIN design = {"state", "step", "cap", "pc", "own", "overtaken"}
    BY <2>1 DEF DesignInv, Shape
  <2>3. design' = [design EXCEPT !.state = s, !.step = @ + 1, !.pc = "ask", !.own = o,
                                !.overtaken = @ \ WrittenNow]
    BY <2>2 DEF FinishStep
  <2> QED BY <2>1, <2>3
<1>2. IsState(design.state) /\ IsBacked(design.state) /\ design.own \in [Paths -> Nat]
  BY <1>1 DEF DesignInv, Shape
<1>3. /\ DOMAIN s = DOMAIN design.state
      /\ s.written = design.state.written
      /\ s.mine = [p \in Paths |-> IF p \in WrittenNow THEN Newest(Landed(p)) ELSE design.state.mine[p]]
  BY <1>2 DEF StateAfter, IsState
<1>4. ASSUME NEW p \in Paths
      PROVE  /\ s.mine[p] \in Nat /\ s.mine[p] <= files[p]
             /\ s.mine[p] > 0 => p \in s.written
             /\ o[p] \in Nat /\ o[p] <= files[p]
  <2>1. CASE p \in WrittenNow
    <3>1. /\ Landed(p) # {} /\ Landed(p) \subseteq 1..files[p] /\ files[p] \in Nat
          /\ p \in design.state.written
      BY <1>1, <2>1, LandedOnBranch DEF WrittenNow
    <3>2. Newest(Landed(p)) \in 1..files[p]
      BY <3>1, NewestExists
    <3>3. s.mine[p] = Newest(Landed(p)) /\ o[p] = Newest(Landed(p)) /\ s.written = design.state.written
      BY <1>3, <2>1
    <3> HIDE DEF s, o
    <3> QED BY <3>1, <3>2, <3>3
  <2>2. CASE p \notin WrittenNow
    <3>1. s.mine[p] = design.state.mine[p] /\ o[p] = design.own[p] /\ s.written = design.state.written
      BY <1>3, <2>2
    <3>2. design.own[p] <= files[p]
      BY <1>1 DEF DesignInv, OwnBacked
    <3> HIDE DEF s, o
    <3> QED BY <1>2, <3>1, <3>2 DEF IsState, IsBacked
  <2> QED BY <2>1, <2>2
<1>4a. o \in [Paths -> Nat]
  <2>1. o = [p \in Paths |-> o[p]]
    OBVIOUS
  <2> HIDE DEF o
  <2> QED BY <1>4, <2>1
<1>4b. ASSUME NEW p \in Paths, p \notin WrittenNow PROVE o[p] = design.own[p]
  BY <1>4b
<1> HIDE DEF s, o
<1>5. IsState(s) /\ IsBacked(s)
  <2>1. s.mine \in [Paths -> Nat]
    <3>1. s.mine = [p \in Paths |-> s.mine[p]]
      BY <1>3
    <3> QED BY <1>4, <3>1
  <2> QED BY <1>2, <1>3, <1>4, <2>1 DEF IsState, IsBacked
<1>6. DOMAIN inFlight' = {}
  BY <1>1
<1>7. /\ design' # None /\ design'.state = s
      /\ DOMAIN design' = {"state", "step", "cap", "pc", "own", "overtaken"}
      /\ design'.own = o /\ design'.overtaken = design.overtaken \ WrittenNow
  BY <1>1 DEF DesignInv, Shape, NoneIsNoRun
<1>a. Shape'
  BY <1>1, <1>5, <1>6, <1>7, <1>4a DEF DesignInv, Shape, IsState
<1>b. (design # None => IsBacked(design.state))' /\ (saved # None => IsBacked(saved))'
  BY <1>1, <1>5, <1>7 DEF DesignInv, IsBacked
<1>c. AnswersBacked'
  BY <1>6 DEF AnswersBacked
<1>d. CacheBacked'
  <2>1. SUFFICES ASSUME NEW p \in Paths, ReadOf(p) \in DOMAIN cache', p \notin design'.overtaken
        PROVE  cache'[ReadOf(p)] \in {0} \cup o[p]..MaxFileVersion
    BY <1>7 DEF CacheBacked
  <2> DEFINE sig == ReadOf(p)
  <2>2. sig \in DOMAIN cache /\ sig \notin Invalidated /\ cache'[sig] = cache[sig]
    BY <1>1, <2>1
  <2>3. p \notin WrittenNow
    BY <2>2 DEF Invalidated
  <2>4. p \notin design.overtaken /\ o[p] = design.own[p]
    BY <1>7, <1>4b, <2>1, <2>3
  <2> QED BY <1>1, <2>2, <2>4 DEF DesignInv, CacheBacked
<1>f. OwnBacked'
  BY <1>1, <1>4, <1>7 DEF OwnBacked
<1>e. NotYetReplied' /\ ResumesWhereItStopped'
  BY <1>1 DEF DesignInv, NotYetReplied, ResumesWhereItStopped
<1> QED BY <1>a, <1>b, <1>c, <1>d, <1>e, <1>f DEF DesignInv

-----------------------------------------------------------------------------
\* The invariant holds of every behaviour.
THEOREM DesignInvariant == ASSUME NoneIsNoRun PROVE DesignSpec => []DesignInv
<1>1. ASSUME DesignInv, [DesignNext]_designVars PROVE DesignInv'
  <2>1. CASE UNCHANGED designVars
    BY <1>1, <2>1
       DEF designVars, DesignInv, Shape, IsState, IsBacked, AnswersBacked, OwnBacked, CacheBacked,
           NotYetReplied, ResumesWhereItStopped
  <2>2. CASE DesignNext
    BY <1>1, <2>2, StartKeeps, ResumeKeeps, StopKeeps, AnswerKeeps, CallsKeep, FinishKeeps, ReadKeeps,
       WriteKeeps, LostKeeps, ValidateKeeps, KilledKeeps, ExpiryKeeps, CommitKeeps
       DEF DesignNext
  <2> QED BY <1>1, <2>1, <2>2
<1> QED BY <1>1, DesignInitInv, PTL DEF DesignSpec

\* Whatever stops a run, the list of its checkpoint names every file the run had been told it
\* wrote when the checkpoint was saved, and the checkpoint a failed call leaves is at the step
\* that call reports.
THEOREM DesignIsKept == ASSUME NoneIsNoRun PROVE DesignSpec => []DesignKept
<1>1. DesignInv => DesignKept
  BY DEF DesignInv, IsBacked, DesignKept, WritesReported
<1> QED BY <1>1, DesignInvariant, PTL

\* Between the steps of a run no cached read is older than the run's own last commit, whether its
\* answer came back or not, however the calls of the step before were answered and whoever else
\* commits; but for a read that was cached before a commit whose answer was lost.
THEOREM CacheIsFresh == ASSUME NoneIsNoRun PROVE DesignSpec => []CacheKeepsUp
<1>1. DesignInv => CacheKeepsUp
  BY DEF DesignInv, CacheBacked, CacheKeepsUp
<1> QED BY <1>1, DesignInvariant, PTL
=============================================================================
