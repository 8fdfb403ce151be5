------------------------ MODULE CheckpointNotes_proofs ------------------------
(***************************************************************************)
(* A text the checkpoint tool says it saved stays readable under a key,    *)
(* for any number of keys, pages, texts, calls, failed requests and        *)
(* crashes, and whichever keys share a page.                               *)
(*                                                                         *)
(* The inductive invariant says what a call knows at each of its steps:    *)
(* the notes that its next request may take away are in the text it        *)
(* carries, until that text is read under the other key; and the page it   *)
(* copied from is not the page it copied to.                               *)
(***************************************************************************)
EXTENDS CheckpointNotes, FiniteSetTheorems, TLAPS

-----------------------------------------------------------------------------
(* The invariant.                                                          *)

NoteOps == {"none", "save", "append", "edit", "park", "unpark"}
SaveSteps == {"find", "make", "row", "insert", "delete", "stamp"}
ParkSteps == {"same", "blank"}
RetireSteps == {"retire", "dropPage", "dropRow"}
Steps == {"read"} \cup SaveSteps \cup ParkSteps \cup RetireSteps
PageOrNone == NotePages \cup {NoNotePage}
NotePage == [state : {"none", "live", "archived"}, range : SUBSET SUBSET Texts]
NotesSession ==
    [op : NoteOps, step : Steps, key : NoteKeys, to : NoteKeys, page : PageOrNone, text : SUBSET Texts,
     source : PageOrNone, dropped : SUBSET Texts, old : SUBSET SUBSET Texts]

PagesTyped == index \in [NoteKeys -> PageOrNone] /\ notePages \in [NotePages -> NotePage]
NotesTyped ==
    /\ PagesTyped
    /\ session \in NotesSession
    /\ kept \subseteq Texts /\ used \in 0 .. MaxTexts
    /\ opsLeft \in 0 .. MaxOps /\ notesFaultsLeft \in 0 .. NoteFaults
    /\ indexFailed \in BOOLEAN

\* A row names a page that was made.
RowsNamePages == \A k \in NoteKeys : index[k] # NoNotePage => notePages[index[k]].state # "none"

\* What a load of the key k shows.
On(k) == TextOn(index[k])
Carries(s) == s.op \in {"park", "unpark"}

\* Which call makes which steps, for which keys.
Shape(s) ==
    /\ s.op = "none" => s = IdleSession
    /\ s.op = "park" => s.key # s.to
    /\ s.op = "unpark" => s.key \in Others /\ s.to = Latest
    /\ s.step \in ParkSteps => s.op = "park"
    /\ s.step \in RetireSteps => s.op = "unpark"

\* What a call in the state s knows of the pages it is about to change, when the texts K are kept: those
\* that would be lost are in its text, and the page it copies from goes only when its text is read elsewhere.
Knows(s, K) ==
    /\ s.step = "read" => K \cap On(s.to) \subseteq On(s.key)
    /\ s.step = "find" => K \cap On(s.to) \subseteq s.text
    /\ s.step \in {"make", "row"} => On(s.to) = {} /\ LivePage(s.to) = NoNotePage
    /\ s.step = "row" => s.page \in NotePages /\ notePages[s.page].state = "live"
    /\ s.step \in {"insert", "delete", "stamp"} => s.page \in NotePages /\ s.page = LivePage(s.to)
    /\ s.step \in {"insert", "delete"} => K \cap TextOn(s.page) \subseteq s.text
    /\ s.step \in {"row", "delete", "stamp"} => s.text \subseteq TextOn(s.page)
    /\ Carries(s) /\ s.step \notin {"read", "dropRow"} =>
         s.source \in NotePages /\ s.source = LivePage(s.key) /\ TextOn(s.source) \subseteq s.text
    /\ s.step = "dropRow" => On(s.key) \subseteq s.text
    /\ s.step \in ParkSteps \cup RetireSteps => s.text \subseteq On(s.to)
    /\ s.step \in {"blank", "dropPage", "dropRow"} => index[s.to] # index[s.key]
    /\ s.step = "dropPage" => s.page = s.source

NotesInv ==
    /\ NotesTyped
    /\ ~indexFailed => RowsNamePages /\ Shape(session) /\ Knows(session, kept) /\ kept \subseteq Readable

-----------------------------------------------------------------------------
(* What the keys show, and what a step has to leave.                       *)

\* A page whose state or notes are replaced: what it shows then, and that the others stay.
LEMMA PageSet ==
    ASSUME PagesTyped, NEW p \in NotePages, NEW R \in SUBSET SUBSET Texts,
           notePages' = [notePages EXCEPT ![p].range = R]
    PROVE  /\ notePages' \in [NotePages -> NotePage]
           /\ \A q \in NotePages : notePages'[q].state = notePages[q].state
           /\ \A q \in PageOrNone \ {p} : TextOn(q)' = TextOn(q)
           /\ TextOn(p)' = IF notePages[p].state = "live" THEN UNION R ELSE {}
<1>1. notePages' = [notePages EXCEPT ![p] = [notePages[p] EXCEPT !.range = R]]
  BY DEF PagesTyped
<1>2. notePages[p] \in NotePage
  BY DEF PagesTyped
<1>3. [notePages[p] EXCEPT !.range = R] = [state |-> notePages[p].state, range |-> R]
  BY <1>2 DEF NotePage
<1>4. /\ notePages'[p] = [state |-> notePages[p].state, range |-> R]
      /\ \A q \in NotePages \ {p} : notePages'[q] = notePages[q]
      /\ notePages' \in [NotePages -> NotePage]
  BY <1>1, <1>2, <1>3 DEF PagesTyped, NotePage
<1>5. \A q \in PageOrNone \ {p} : TextOn(q)' = TextOn(q)
  BY <1>4 DEF TextOn, PageOrNone
<1>6. p # NoNotePage
  BY DEF NotePages, NoNotePage
<1>7. notePages'[p].state = notePages[p].state /\ notePages'[p].range = R
  BY <1>4
<1>8. TextOn(p)' = IF notePages[p].state = "live" THEN UNION R ELSE {}
  BY <1>6, <1>7 DEF TextOn
<1> QED BY <1>4, <1>5, <1>7, <1>8

\* A load looks at the page behind the row, and an archived page shows nothing.
LEMMA LiveText ==
    ASSUME PagesTyped, NEW k \in NoteKeys
    PROVE  /\ On(k) = TextOn(LivePage(k)) /\ LivePage(k) \in PageOrNone
           /\ LivePage(k) # NoNotePage =>
                LivePage(k) = index[k] /\ LivePage(k) \in NotePages /\ notePages[LivePage(k)].state = "live"
           /\ LivePage(k) = NoNotePage => On(k) = {}
           /\ On(k) \subseteq Texts
<1>1. index[k] \in PageOrNone /\ (index[k] # NoNotePage => index[k] \in NotePages)
  BY DEF PagesTyped, PageOrNone
<1>2. \A p \in NotePages : notePages[p].range \subseteq SUBSET Texts
  BY DEF PagesTyped, NotePage
<1> QED BY <1>1, <1>2 DEF On, TextOn, LivePage, PageOrNone

\* A request that fails uses up one of the faults.
LEMMA Faulted == ASSUME NotesTyped, Fails \/ Works PROVE notesFaultsLeft' \in 0 .. NoteFaults
  BY NotesAssumption DEF NotesTyped, Fails, Works

\* No call knows nothing and has nothing to lose.
LEMMA IdleFacts ==
    /\ IdleSession \in NotesSession /\ Shape(IdleSession)
    /\ IdleSession.op = "none" /\ IdleSession.step = "read" /\ IdleSession.key = IdleSession.to
    /\ \A K : Knows(IdleSession, K)
<1>1. /\ IdleSession \in NotesSession
      /\ IdleSession.op = "none" /\ IdleSession.step = "read" /\ IdleSession.key = IdleSession.to
  BY DEF IdleSession, NotesSession, NoteKeys, PageOrNone, NoteOps, Steps
<1>2. Shape(IdleSession) /\ \A K : Knows(IdleSession, K)
  BY <1>1 DEF Shape, Knows, ParkSteps, RetireSteps, Carries
<1> QED BY <1>1, <1>2

LEMMA IdleKnows == ASSUME NEW K PROVE Knows(IdleSession, K)'
  BY IdleFacts DEF Knows, ParkSteps, RetireSteps, Carries

\* The invariant of the state after a step, from what the step leaves the call r and the texts K.
LEMMA Lands ==
    ASSUME NEW r \in NotesSession, NEW K \in SUBSET Texts, session' = r, kept' = K, PagesTyped',
           used' \in 0 .. MaxTexts, opsLeft' \in 0 .. MaxOps, notesFaultsLeft' \in 0 .. NoteFaults,
           indexFailed' \in BOOLEAN,
           ~indexFailed' => RowsNamePages' /\ Shape(r) /\ Knows(r, K)' /\ K \subseteq Readable'
    PROVE  NotesInv'
<1>1. NotesTyped'
  BY DEF NotesTyped
<1>2. Shape(r) => Shape(session)'
  BY DEF Shape
<1>3. Knows(r, K)' => Knows(session, kept)'
  BY DEF Knows, On, LivePage, TextOn, Carries
<1>4. ~indexFailed' => (kept \subseteq Readable)'
  OBVIOUS
<1> QED BY <1>1, <1>2, <1>3, <1>4 DEF NotesInv

\* A step that changes no page and no row.
LEMMA Stays ==
    ASSUME NotesInv, NEW r \in NotesSession, NEW K \in SUBSET Texts, session' = r, kept' = K, K \subseteq kept,
           UNCHANGED <<index, notePages, indexFailed>>,
           used' \in 0 .. MaxTexts, opsLeft' \in 0 .. MaxOps, notesFaultsLeft' \in 0 .. NoteFaults,
           ~indexFailed => Shape(r) /\ Knows(r, K)
    PROVE  NotesInv'
<1>1. PagesTyped' /\ indexFailed' \in BOOLEAN
  BY DEF NotesInv, NotesTyped, PagesTyped
<1>2. RowsNamePages' <=> RowsNamePages
  BY DEF RowsNamePages
<1>3. Readable' = Readable
  BY DEF Readable, TextOn
<1>4. Knows(r, K)' <=> Knows(r, K)
  BY DEF Knows, On, LivePage, TextOn
<1> QED BY <1>1, <1>2, <1>3, <1>4, Lands DEF NotesInv

\* A call that ends with no page and no row changed.
LEMMA Stops ==
    ASSUME NotesInv, session' = IdleSession, UNCHANGED <<index, notePages, kept, used, opsLeft, indexFailed>>,
           Fails \/ Works
    PROVE  NotesInv'
<1>1. NotesTyped
  BY DEF NotesInv
<1> QED BY <1>1, Stays, IdleFacts, Faulted DEF NotesTyped

\* The updates of a call's record, field by field.
LEMMA SetOne ==
    ASSUME NEW s \in NotesSession
    PROVE  /\ \A st \in Steps : [s EXCEPT !.step = st] \in NotesSession
           /\ \A op \in NoteOps : [s EXCEPT !.op = op] \in NotesSession
           /\ \A k \in NoteKeys : [s EXCEPT !.key = k] \in NotesSession /\ [s EXCEPT !.to = k] \in NotesSession
           /\ \A t \in SUBSET Texts :
                [s EXCEPT !.text = t] \in NotesSession /\ [s EXCEPT !.dropped = t] \in NotesSession
           /\ \A p \in PageOrNone :
                [s EXCEPT !.page = p] \in NotesSession /\ [s EXCEPT !.source = p] \in NotesSession
           /\ \A o \in SUBSET SUBSET Texts : [s EXCEPT !.old = o] \in NotesSession
  BY DEF NotesSession

\* The updates of a call's record, as the actions write them.
Goes(s, st) == [s EXCEPT !.step = st]
Reads(s, t, p, d) == [s EXCEPT !.step = "find", !.text = t, !.source = p, !.dropped = d]
Finds(s, st, p, o) == [s EXCEPT !.step = st, !.page = p, !.old = o]
Saves(op, st, k, to, t) == [IdleSession EXCEPT !.op = op, !.step = st, !.key = k, !.to = to, !.text = t]
Moves(op, k, to) == [IdleSession EXCEPT !.op = op, !.key = k, !.to = to]
Asks(op, k, to, t) == [IdleSession EXCEPT !.op = op, !.key = k, !.to = to, !.text = t]
Places(s, st, p) == [s EXCEPT !.step = st, !.page = p]
Placed(s, st, p) == [s EXCEPT !.page = p, !.step = st]

LEMMA GoTyped ==
    ASSUME NEW s \in NotesSession, NEW st \in Steps, NEW r, r = Goes(s, st)
    PROVE  /\ r \in NotesSession /\ r.op = s.op /\ r.step = st /\ r.key = s.key /\ r.to = s.to
           /\ r.page = s.page /\ r.text = s.text /\ r.source = s.source
<1>1. r \in NotesSession
  BY SetOne DEF Goes
<1> QED BY <1>1 DEF NotesSession, Goes

LEMMA SaveTyped ==
    ASSUME NEW s \in NotesSession, NEW t \in SUBSET Texts, NEW p \in PageOrNone, NEW d \in SUBSET Texts, NEW r,
           r = Reads(s, t, p, d)
    PROVE  /\ r \in NotesSession /\ r.op = s.op /\ r.step = "find" /\ r.key = s.key /\ r.to = s.to
           /\ r.text = t /\ r.source = p
<1> DEFINE a == [s EXCEPT !.step = "find"]
           b == [a EXCEPT !.text = t]
           c == [b EXCEPT !.source = p]
<1>1. a \in NotesSession
  BY SetOne DEF Steps, SaveSteps
<1>2. b \in NotesSession
  <2> HIDE DEF a
  <2> QED BY <1>1, SetOne
<1>3. c \in NotesSession
  <2> HIDE DEF b
  <2> QED BY <1>2, SetOne
<1>4. [c EXCEPT !.dropped = d] \in NotesSession
  <2> HIDE DEF c
  <2> QED BY <1>3, SetOne
<1>5. r \in NotesSession
  BY <1>4, Zenon DEF Reads
<1>6. /\ r.op = s.op /\ r.step = "find" /\ r.key = s.key /\ r.to = s.to
      /\ r.text = t /\ r.source = p
  BY DEF NotesSession, Reads
<1> QED BY <1>5, <1>6

LEMMA PageTyped ==
    ASSUME NEW s \in NotesSession, NEW st \in Steps, NEW p \in PageOrNone, NEW o \in SUBSET SUBSET Texts, NEW r,
           r = Finds(s, st, p, o)
    PROVE  /\ r \in NotesSession /\ r.op = s.op /\ r.step = st /\ r.key = s.key /\ r.to = s.to
           /\ r.page = p /\ r.text = s.text /\ r.source = s.source
<1> DEFINE a == [s EXCEPT !.step = st]
           b == [a EXCEPT !.page = p]
<1>1. a \in NotesSession
  BY SetOne
<1>2. b \in NotesSession
  <2> HIDE DEF a
  <2> QED BY <1>1, SetOne
<1>3. [b EXCEPT !.old = o] \in NotesSession
  <2> HIDE DEF b
  <2> QED BY <1>2, SetOne
<1>4. r \in NotesSession
  BY <1>3, Zenon DEF Finds
<1>5. /\ r.op = s.op /\ r.step = st /\ r.key = s.key /\ r.to = s.to
      /\ r.page = p /\ r.text = s.text /\ r.source = s.source
  BY DEF NotesSession, Finds
<1> QED BY <1>4, <1>5

LEMMA PageSetTyped ==
    ASSUME NEW s \in NotesSession, NEW st \in Steps, NEW p \in PageOrNone, NEW r,
           r = Places(s, st, p) \/ r = Placed(s, st, p)
    PROVE  /\ r \in NotesSession /\ r.op = s.op /\ r.step = st /\ r.key = s.key /\ r.to = s.to
           /\ r.page = p /\ r.text = s.text /\ r.source = s.source
<1> DEFINE a == [s EXCEPT !.step = st]
           b == [s EXCEPT !.page = p]
<1>1. a \in NotesSession /\ b \in NotesSession
  BY SetOne
<1>2. [a EXCEPT !.page = p] \in NotesSession
  <2> HIDE DEF a
  <2> QED BY <1>1, SetOne
<1>3. [b EXCEPT !.step = st] \in NotesSession
  <2> HIDE DEF b
  <2> QED BY <1>1, SetOne
<1>4. r \in NotesSession
  BY <1>2, <1>3, Zenon DEF Places, Placed
<1>5. /\ r.op = s.op /\ r.step = st /\ r.key = s.key /\ r.to = s.to
      /\ r.page = p /\ r.text = s.text /\ r.source = s.source
  BY DEF NotesSession, Places, Placed
<1> QED BY <1>4, <1>5

LEMMA CallTyped ==
    ASSUME NEW op \in NoteOps, NEW st \in Steps, NEW k \in NoteKeys, NEW to \in NoteKeys, NEW t \in SUBSET Texts,
           NEW r, r = Saves(op, st, k, to, t)
    PROVE  /\ r \in NotesSession /\ r.op = op /\ r.step = st /\ r.key = k /\ r.to = to /\ r.text = t
<1> DEFINE a == [IdleSession EXCEPT !.op = op]
           b == [a EXCEPT !.step = st]
           c == [b EXCEPT !.key = k]
           d == [c EXCEPT !.to = to]
<1>1. a \in NotesSession
  BY SetOne, IdleFacts
<1>2. b \in NotesSession
  <2> HIDE DEF a
  <2> QED BY <1>1, SetOne
<1>3. c \in NotesSession
  <2> HIDE DEF b
  <2> QED BY <1>2, SetOne
<1>4. d \in NotesSession
  <2> HIDE DEF c
  <2> QED BY <1>3, SetOne
<1>5. [d EXCEPT !.text = t] \in NotesSession
  <2> HIDE DEF d
  <2> QED BY <1>4, SetOne
<1>6. r \in NotesSession
  BY <1>5, Zenon DEF Saves
<1>7. r.op = op /\ r.step = st /\ r.key = k /\ r.to = to /\ r.text = t
  BY DEF IdleSession, Saves
<1> QED BY <1>6, <1>7

LEMMA MoveTyped ==
    ASSUME NEW op \in NoteOps, NEW k \in NoteKeys, NEW to \in NoteKeys,
           NEW r, r = Moves(op, k, to)
    PROVE  r \in NotesSession /\ r.op = op /\ r.step = "read" /\ r.key = k /\ r.to = to
<1> DEFINE a == [IdleSession EXCEPT !.op = op]
           b == [a EXCEPT !.key = k]
<1>1. a \in NotesSession
  BY SetOne, IdleFacts
<1>2. b \in NotesSession
  <2> HIDE DEF a
  <2> QED BY <1>1, SetOne
<1>3. [b EXCEPT !.to = to] \in NotesSession
  <2> HIDE DEF b
  <2> QED BY <1>2, SetOne
<1>4. r \in NotesSession
  BY <1>3, Zenon DEF Moves
<1>5. r.op = op /\ r.step = "read" /\ r.key = k /\ r.to = to
  BY DEF IdleSession, Moves
<1> QED BY <1>4, <1>5

LEMMA AskTyped ==
    ASSUME NEW op \in NoteOps, NEW k \in NoteKeys, NEW to \in NoteKeys, NEW t \in SUBSET Texts,
           NEW r, r = Asks(op, k, to, t)
    PROVE  r \in NotesSession /\ r.op = op /\ r.step = "read" /\ r.key = k /\ r.to = to
<1>1. Moves(op, k, to) \in NotesSession
  BY MoveTyped
<1>2. [Moves(op, k, to) EXCEPT !.text = t] \in NotesSession
  BY <1>1, SetOne
<1>3. r \in NotesSession
  BY <1>2, Zenon DEF Asks, Moves
<1>4. r.op = op /\ r.step = "read" /\ r.key = k /\ r.to = to
  BY DEF IdleSession, Asks
<1> QED BY <1>3, <1>4

-----------------------------------------------------------------------------
(* A call begins, reads and finds its page: no page changes.               *)

\* A call that starts: a save knows that nothing it would lose is kept, another call that its key holds it.
LEMMA Starts ==
    ASSUME NotesInv, UNCHANGED <<index, notePages, notesFaultsLeft, indexFailed>>,
           opsLeft' \in 0 .. MaxOps, used' \in 0 .. MaxTexts, NEW K \in SUBSET kept, kept' = K,
           NEW r \in NotesSession, session' = r, r.op # "none", r.step \in {"read", "find"},
           r.op = "park" => r.key # r.to, r.op = "unpark" => r.key \in Others /\ r.to = Latest,
           r.step = "find" => r.op = "save" /\ K \cap On(r.to) = {},
           r.step = "read" => K \cap On(r.to) \subseteq On(r.key)
    PROVE  NotesInv'
<1>1. Shape(r)
  BY DEF Shape, ParkSteps, RetireSteps
<1>2. Knows(r, K)
  <2>1. CASE r.step = "read"
    BY <2>1 DEF Knows, ParkSteps, RetireSteps
  <2>2. CASE r.step = "find"
    <3>1. ~Carries(r) /\ K \cap On(r.to) \subseteq r.text
      BY <2>2 DEF Carries
    <3> QED BY <2>2, <3>1 DEF Knows, ParkSteps, RetireSteps
  <2> QED BY <2>1, <2>2
<1>3. K \in SUBSET Texts /\ K \subseteq kept
  BY DEF NotesInv, NotesTyped
<1>4. notesFaultsLeft' \in 0 .. NoteFaults
  BY DEF NotesInv, NotesTyped
<1>5. UNCHANGED <<index, notePages, indexFailed>>
  OBVIOUS
<1> QED BY <1>1, <1>2, <1>3, <1>4, <1>5, Stays

\* A call gives up what it was asked to replace, and nothing else.
LEMMA BeginSafe == ASSUME NotesInv, BeginNotes PROVE NotesInv'
<1>0. /\ UNCHANGED <<index, notePages, notesFaultsLeft, indexFailed>>
      /\ opsLeft > 0 /\ opsLeft' = opsLeft - 1
  BY Zenon DEF BeginNotes
<1>1. /\ UNCHANGED <<index, notePages, notesFaultsLeft, indexFailed>>
      /\ opsLeft' \in 0 .. MaxOps
  BY <1>0, NotesAssumption DEF NotesInv, NotesTyped
<1>2. /\ \A t \in Texts : used' = t => used' \in 0 .. MaxTexts
      /\ UNCHANGED used => used' \in 0 .. MaxTexts
  BY NotesAssumption DEF NotesInv, NotesTyped, Texts
<1>3. \A k \in NoteKeys : TextOn(LivePage(k)) = On(k)
  BY LiveText DEF NotesInv, NotesTyped
<1>4. CASE \E k \in NoteKeys : LET t == used + 1 IN
             /\ t \in Texts /\ used' = t
             /\ session' = [IdleSession EXCEPT !.op = "save", !.step = "find", !.key = k, !.to = k, !.text = {t}]
             /\ kept' = kept \ TextOn(LivePage(k))
  <2>1. PICK k \in NoteKeys, t \in Texts :
             /\ used' = t
             /\ session' = [IdleSession EXCEPT !.op = "save", !.step = "find", !.key = k, !.to = k, !.text = {t}]
             /\ kept' = kept \ TextOn(LivePage(k))
    BY <1>4
  <2>2. PICK K : K = kept'
    OBVIOUS
  <2>3. K \in SUBSET kept /\ K \cap On(k) = {} /\ {t} \in SUBSET Texts
    BY <1>3, <2>1, <2>2
  <2>4. "save" \in NoteOps /\ "find" \in Steps
    BY DEF NoteOps, Steps, SaveSteps
  <2>5. PICK r : r = session'
    OBVIOUS
  <2>6. r = Saves("save", "find", k, k, {t})
    BY <2>1, <2>5, Zenon DEF Saves
  <2>7. r \in NotesSession /\ r.op = "save" /\ r.step = "find" /\ r.key = k /\ r.to = k /\ r.text = {t}
    BY <2>3, <2>4, <2>6, CallTyped
  <2> QED BY <1>1, <1>2, <2>2, <2>1, <2>3, <2>5, <2>7, Starts
<1>5. CASE \E k \in NoteKeys, op \in {"append", "edit"} : LET t == used + 1 IN
             /\ t \in Texts /\ used' = t
             /\ session' = [IdleSession EXCEPT !.op = op, !.key = k, !.to = k, !.text = {t}]
             /\ UNCHANGED kept
  <2>1. PICK k \in NoteKeys, op \in {"append", "edit"}, t \in Texts : used' = t /\
             session' = [IdleSession EXCEPT !.op = op, !.key = k, !.to = k, !.text = {t}] /\ kept' = kept
    BY <1>5
  <2>2. PICK r : r = session'
    OBVIOUS
  <2>3. PICK K : K = kept'
    OBVIOUS
  <2>4. K \in SUBSET kept /\ {t} \in SUBSET Texts /\ op \in NoteOps
    BY <2>1, <2>3 DEF NoteOps
  <2>5. r = Asks(op, k, k, {t})
    BY <2>1, <2>2, Zenon DEF Asks
  <2>6. r \in NotesSession /\ r.op = op /\ r.step = "read" /\ r.key = k /\ r.to = k
    BY <2>4, <2>5, AskTyped
  <2>7. r.op \notin {"none", "park", "unpark"}
    BY <2>6
  <2> QED BY <1>1, <1>2, <2>1, <2>2, <2>3, <2>4, <2>6, <2>7, Starts
<1>6. CASE \E k \in NoteKeys : \E to \in NoteKeys \ {k} :
             /\ session' = [IdleSession EXCEPT !.op = "park", !.key = k, !.to = to]
             /\ kept' = (kept \ TextOn(LivePage(to))) \cup (kept \cap TextOn(LivePage(k)))
             /\ UNCHANGED used
  <2>1. PICK k \in NoteKeys, to \in NoteKeys :
             /\ to # k
             /\ session' = [IdleSession EXCEPT !.op = "park", !.key = k, !.to = to]
             /\ kept' = (kept \ TextOn(LivePage(to))) \cup (kept \cap TextOn(LivePage(k)))
             /\ UNCHANGED used
    BY <1>6
  <2>2. PICK r : r = session'
    OBVIOUS
  <2>3. PICK K : K = kept'
    OBVIOUS
  <2>4. K \in SUBSET kept /\ K \cap On(to) \subseteq On(k)
    BY <1>3, <2>1, <2>3
  <2>5. r = Moves("park", k, to) /\ "park" \in NoteOps
    BY <2>1, <2>2, Zenon DEF NoteOps, Moves
  <2>6. r \in NotesSession /\ r.op = "park" /\ r.step = "read" /\ r.key = k /\ r.to = to
    BY <2>5, MoveTyped
  <2> QED BY <1>1, <1>2, <2>1, <2>2, <2>3, <2>4, <2>6, Starts
<1>7. CASE \E k \in Others :
             /\ session' = [IdleSession EXCEPT !.op = "unpark", !.key = k, !.to = Latest]
             /\ kept' = (kept \ TextOn(LivePage(Latest))) \cup (kept \cap TextOn(LivePage(k)))
             /\ UNCHANGED used
  <2>1. PICK k \in Others :
             /\ session' = [IdleSession EXCEPT !.op = "unpark", !.key = k, !.to = Latest]
             /\ kept' = (kept \ TextOn(LivePage(Latest))) \cup (kept \cap TextOn(LivePage(k)))
             /\ UNCHANGED used
    BY <1>7
  <2>2. PICK r : r = session'
    OBVIOUS
  <2>3. PICK K : K = kept'
    OBVIOUS
  <2>4. k \in NoteKeys /\ Latest \in NoteKeys
    BY DEF NoteKeys
  <2>5. K \in SUBSET kept /\ K \cap On(Latest) \subseteq On(k)
    BY <1>3, <2>1, <2>3, <2>4
  <2>6. r = Moves("unpark", k, Latest) /\ "unpark" \in NoteOps
    BY <2>1, <2>2, Zenon DEF NoteOps, Moves
  <2>7. r \in NotesSession /\ r.op = "unpark" /\ r.step = "read" /\ r.key = k /\ r.to = Latest
    BY <2>4, <2>6, MoveTyped
  <2> QED BY <1>1, <1>2, <2>1, <2>2, <2>3, <2>5, <2>7, Starts
<1> QED BY <1>4, <1>5, <1>6, <1>7 DEF BeginNotes

\* What the running call s is and knows.
LEMMA Running ==
    ASSUME NotesInv, NEW s, s = session
    PROVE  /\ s \in NotesSession /\ NotesTyped /\ PagesTyped
           /\ s.key \in NoteKeys /\ s.to \in NoteKeys /\ s.text \subseteq Texts /\ s.page \in PageOrNone
           /\ ~indexFailed => RowsNamePages /\ Shape(s) /\ Knows(s, kept) /\ kept \subseteq Readable
<1>1. s \in NotesSession /\ NotesTyped /\ PagesTyped
  BY DEF NotesInv, NotesTyped
<1>2. s.key \in NoteKeys /\ s.to \in NoteKeys /\ s.text \subseteq Texts /\ s.page \in PageOrNone
  BY <1>1 DEF NotesSession
<1> QED BY <1>1, <1>2 DEF NotesInv

\* What is read goes into the text to save, but for what an edit replaces.
LEMMA ReadSafe == ASSUME NotesInv, ReadNotes PROVE NotesInv'
<1>1. PICK s : s = session
  OBVIOUS
<1>2. /\ s \in NotesSession /\ NotesTyped /\ PagesTyped /\ s.key \in NoteKeys /\ s.to \in NoteKeys
      /\ s.text \subseteq Texts
      /\ ~indexFailed => RowsNamePages /\ Shape(s) /\ Knows(s, kept) /\ kept \subseteq Readable
  BY <1>1, Running
<1>3. UNCHANGED <<index, notePages, used, opsLeft, indexFailed>> /\ s.step = "read" /\ s.op # "none"
  BY <1>1 DEF ReadNotes, SessionAt
<1>4. CASE session' = IdleSession /\ kept' = kept /\ (Fails \/ Works)
  BY <1>3, <1>4, Stops
<1>5. PICK p : p = LivePage(s.key)
  OBVIOUS
<1>6. ASSUME p # NoNotePage, Works, NEW t \in SUBSET Texts, NEW d \in SUBSET Texts,
             session' = [session EXCEPT !.step = "find", !.text = t, !.source = p, !.dropped = d],
             kept' = kept \ d, (kept \ d) \cap TextOn(p) \subseteq t, Carries(s) => TextOn(p) \subseteq t
      PROVE  NotesInv'
  <2>1. p \in NotePages /\ On(s.key) = TextOn(p) /\ p \in PageOrNone
    BY <1>2, <1>5, <1>6, LiveText
  <2>2. PICK r : r = session'
    OBVIOUS
  <2>3. r = Reads(s, t, p, d)
    BY <1>1, <1>6, <2>2, Zenon DEF Reads
  <2>4. /\ r \in NotesSession /\ r.op = s.op /\ r.step = "find" /\ r.key = s.key /\ r.to = s.to
        /\ r.text = t /\ r.source = p
    BY <1>2, <1>6, <2>1, <2>3, SaveTyped
  <2>5. PICK K : K = kept \ d
    OBVIOUS
  <2>6. K \in SUBSET Texts /\ K \subseteq kept /\ kept' = K
    BY <1>2, <1>6, <2>5 DEF NotesTyped
  <2>7. Shape(s) => Shape(r)
    BY <1>3, <2>4 DEF Shape, ParkSteps, RetireSteps
  <2>8. Knows(s, kept) => K \cap On(r.to) \subseteq t
    BY <1>3, <1>6, <2>1, <2>4, <2>5 DEF Knows
  <2>9. Knows(s, kept) => Knows(r, K)
    BY <1>5, <1>6, <2>1, <2>4, <2>8 DEF Knows, ParkSteps, RetireSteps, Carries
  <2>10. used' \in 0 .. MaxTexts /\ opsLeft' \in 0 .. MaxOps /\ notesFaultsLeft' \in 0 .. NoteFaults
    BY <1>2, <1>3, <1>6, Faulted DEF NotesTyped
  <2> QED BY <1>2, <1>3, <2>2, <2>4, <2>6, <2>7, <2>9, <2>10, Stays
<1>7. TextOn(p) \subseteq Texts
  BY <1>2, <1>5, LiveText
<1>8. CASE Works /\ p = NoNotePage
  <2>1. session' = IdleSession /\ kept' = kept
    BY <1>1, <1>5, <1>8, NotesAssumption DEF ReadNotes, Works, Aborts, Fails, EndSession, NotesInv, NotesTyped
  <2> QED BY <1>4, <1>8, <2>1
<1>9. CASE Works /\ p # NoNotePage
  <2>1. \/ /\ session.op = "append" /\ kept' = kept
           /\ session' = [session EXCEPT !.step = "find", !.text = TextOn(p) \cup session.text,
                                         !.source = p, !.dropped = {}]
        \/ /\ session.op \in {"park", "unpark"} /\ kept' = kept
           /\ session' = [session EXCEPT !.step = "find", !.text = TextOn(p), !.source = p, !.dropped = {}]
        \/ session' = IdleSession /\ kept' = kept
        \/ /\ session.op = "edit"
           /\ \E x \in TextOn(p) :
                 /\ session' = [session EXCEPT !.step = "find", !.text = (TextOn(p) \ {x}) \cup session.text,
                                               !.source = p, !.dropped = {x}]
                 /\ kept' = kept \ {x}
    BY <1>1, <1>5, <1>9 DEF ReadNotes, Aborts, EndSession
  <2>2. CASE session.op = "append" /\ kept' = kept
           /\ session' = [session EXCEPT !.step = "find", !.text = TextOn(p) \cup session.text,
                                         !.source = p, !.dropped = {}]
    <3>1. TextOn(p) \cup session.text \in SUBSET Texts /\ {} \in SUBSET Texts /\ kept' = kept \ {}
          /\ (kept \ {}) \cap TextOn(p) \subseteq TextOn(p) \cup session.text
          /\ TextOn(p) \subseteq TextOn(p) \cup session.text
      BY <1>1, <1>2, <1>7, <2>2
    <3> QED BY <1>6, <1>9, <2>2, <3>1
  <2>3. CASE session.op \in {"park", "unpark"} /\ kept' = kept
           /\ session' = [session EXCEPT !.step = "find", !.text = TextOn(p), !.source = p, !.dropped = {}]
    <3>1. TextOn(p) \in SUBSET Texts /\ {} \in SUBSET Texts /\ kept' = kept \ {}
          /\ (kept \ {}) \cap TextOn(p) \subseteq TextOn(p)
      BY <1>7, <2>3
    <3> QED BY <1>6, <1>9, <2>3, <3>1
  <2>4. CASE session' = IdleSession /\ kept' = kept
    BY <1>4, <1>9, <2>4
  <2>5. ASSUME session.op = "edit", NEW x \in TextOn(p), kept' = kept \ {x},
               session' = [session EXCEPT !.step = "find", !.text = (TextOn(p) \ {x}) \cup session.text,
                                          !.source = p, !.dropped = {x}]
        PROVE  NotesInv'
    <3>1. (TextOn(p) \ {x}) \cup session.text \in SUBSET Texts /\ {x} \in SUBSET Texts
          /\ (kept \ {x}) \cap TextOn(p) \subseteq (TextOn(p) \ {x}) \cup session.text
      BY <1>1, <1>2, <1>7
    <3>2. ~Carries(s)
      BY <1>1, <2>5 DEF Carries
    <3> QED BY <1>6, <1>9, <2>5, <3>1, <3>2
  <2> QED BY <2>1, <2>2, <2>3, <2>4, <2>5
<1>10. CASE Aborts /\ kept' = kept
  BY <1>4, <1>10 DEF Aborts, EndSession
<1> QED BY <1>8, <1>9, <1>10 DEF ReadNotes

\* A page that is found is replaced, another is made: the key shows nothing then.
LEMMA FindSafe == ASSUME NotesInv, FindKey PROVE NotesInv'
<1>1. PICK s : s = session
  OBVIOUS
<1>2. /\ s \in NotesSession /\ NotesTyped /\ PagesTyped /\ s.key \in NoteKeys /\ s.to \in NoteKeys
      /\ s.text \subseteq Texts
      /\ ~indexFailed => RowsNamePages /\ Shape(s) /\ Knows(s, kept) /\ kept \subseteq Readable
  BY <1>1, Running
<1>3. UNCHANGED <<index, notePages, kept, used, opsLeft, indexFailed>> /\ s.step = "find" /\ s.op # "none"
  BY <1>1, Zenon DEF FindKey, SessionAt
<1>4. CASE Aborts
  BY <1>3, <1>4, Stops DEF Aborts, EndSession
<1>5. ASSUME Works, NEW p, p = LivePage(s.to), NEW o, o = IF p = NoNotePage THEN {} ELSE notePages[p].range,
             NEW st, st = IF p = NoNotePage THEN "make" ELSE "insert",
             session' = [session EXCEPT !.step = st, !.page = p, !.old = o]
      PROVE  NotesInv'
  <2>1. p \in PageOrNone /\ On(s.to) = TextOn(p) /\ (p # NoNotePage => p \in NotePages)
        /\ (p = NoNotePage => On(s.to) = {})
    BY <1>2, <1>5, LiveText
  <2>2. o \in SUBSET SUBSET Texts
    BY <1>2, <1>5, <2>1 DEF PagesTyped, NotePage
  <2>3. PICK r : r = session'
    OBVIOUS
  <2>4. r = Finds(s, st, p, o) /\ st \in Steps
    BY <1>1, <1>5, <2>3, Zenon DEF Finds, Steps, SaveSteps
  <2>5. /\ r \in NotesSession /\ r.op = s.op /\ r.step = st /\ r.key = s.key /\ r.to = s.to
        /\ r.page = p /\ r.text = s.text /\ r.source = s.source
    BY <1>2, <2>1, <2>2, <2>4, PageTyped
  <2>6. Shape(s) => Shape(r)
    BY <1>3, <1>5, <2>5 DEF Shape, ParkSteps, RetireSteps
  <2>7. Knows(s, kept) => Knows(r, kept)
    <3>1. CASE p = NoNotePage
      BY <1>3, <1>5, <2>1, <2>5, <3>1 DEF Knows, ParkSteps, RetireSteps, Carries
    <3>2. CASE p # NoNotePage
      BY <1>3, <1>5, <2>1, <2>5, <3>2 DEF Knows, ParkSteps, RetireSteps, Carries
    <3> QED BY <3>1, <3>2
  <2>8. kept \in SUBSET Texts /\ used' \in 0 .. MaxTexts /\ opsLeft' \in 0 .. MaxOps
        /\ notesFaultsLeft' \in 0 .. NoteFaults
    BY <1>2, <1>3, <1>5, Faulted DEF NotesTyped
  <2> QED BY <1>2, <1>3, <2>3, <2>5, <2>6, <2>7, <2>8, Stays
<1>6. CASE Works /\ session' = [session EXCEPT !.step = IF LivePage(session.to) = NoNotePage THEN "make" ELSE "insert",
                                               !.page = LivePage(session.to),
                                               !.old = IF LivePage(session.to) = NoNotePage THEN {}
                                                       ELSE notePages[LivePage(session.to)].range]
  <2>1. PICK p, st, o : /\ p = LivePage(session.to)
                        /\ st = IF LivePage(session.to) = NoNotePage THEN "make" ELSE "insert"
                        /\ o = IF LivePage(session.to) = NoNotePage THEN {}
                               ELSE notePages[LivePage(session.to)].range
    OBVIOUS
  <2>2. session' = [session EXCEPT !.step = st, !.page = p, !.old = o]
    BY <1>6, <2>1, Zenon
  <2>3. p = LivePage(s.to)
    BY <1>1, <2>1
  <2> QED BY <1>5, <1>6, <2>1, <2>2, <2>3
<1> QED BY <1>4, <1>6 DEF FindKey

\* A park goes on to blank only if the two keys name different pages.
LEMMA CheckSafe == ASSUME NotesInv, CheckShared PROVE NotesInv'
<1>1. PICK s : s = session
  OBVIOUS
<1>2. /\ s \in NotesSession /\ NotesTyped /\ PagesTyped /\ s.key \in NoteKeys /\ s.to \in NoteKeys
      /\ ~indexFailed => RowsNamePages /\ Shape(s) /\ Knows(s, kept) /\ kept \subseteq Readable
  BY <1>1, Running
<1>3. UNCHANGED <<index, notePages, kept, used, opsLeft, indexFailed>> /\ s.step = "same" /\ s.op # "none"
  BY <1>1, Zenon DEF CheckShared, SessionAt
<1>4. CASE Fails \/ Works
  <2>1. CASE session' = IdleSession
    BY <1>3, <1>4, <2>1, Stops
  <2>2. CASE ~ParkShares /\ session' = [session EXCEPT !.step = "blank"]
    <3>1. PICK r : r = session'
      OBVIOUS
    <3>2. r = Goes(s, "blank") /\ "blank" \in Steps
      BY <1>1, <2>2, <3>1, Zenon DEF Goes, Steps, ParkSteps
    <3>3. /\ r \in NotesSession /\ r.op = s.op /\ r.step = "blank" /\ r.key = s.key /\ r.to = s.to
          /\ r.page = s.page /\ r.text = s.text /\ r.source = s.source
      BY <1>2, <3>2, GoTyped
    <3>4. Shape(s) => Shape(r)
      BY <1>3, <3>3 DEF Shape, ParkSteps, RetireSteps
    <3>5. LivePage(s.to) # s.source
      BY <1>1, <2>2 DEF ParkShares
    <3>6. Knows(s, kept) /\ Shape(s) => index[r.to] # index[r.key]
      BY <1>3, <3>3, <3>5 DEF Knows, Shape, ParkSteps, Carries, LivePage
    <3>7. Knows(s, kept) /\ Shape(s) => Knows(r, kept)
      BY <1>3, <3>3, <3>6 DEF Knows, ParkSteps, RetireSteps, Carries
    <3>8. kept \in SUBSET Texts /\ used' \in 0 .. MaxTexts /\ opsLeft' \in 0 .. MaxOps
          /\ notesFaultsLeft' \in 0 .. NoteFaults
      BY <1>2, <1>3, <1>4, Faulted DEF NotesTyped
    <3> QED BY <1>2, <1>3, <3>1, <3>3, <3>4, <3>7, <3>8, Stays
  <2> QED BY <1>4, <2>1, <2>2 DEF CheckShared, Aborts, EndSession, SessionGoto
<1> QED BY <1>4 DEF CheckShared, Aborts

\* An unpark retires a page only if the key it restored names another.
LEMMA RetireSafe == ASSUME NotesInv, Retire PROVE NotesInv'
<1>1. PICK s, p : s = session /\ p = LivePage(s.key)
  OBVIOUS
<1>2. /\ s \in NotesSession /\ NotesTyped /\ PagesTyped /\ s.key \in NoteKeys /\ s.to \in NoteKeys
      /\ ~indexFailed => RowsNamePages /\ Shape(s) /\ Knows(s, kept) /\ kept \subseteq Readable
  BY <1>1, Running
<1>3. UNCHANGED <<index, notePages, kept, used, opsLeft, indexFailed>> /\ s.step = "retire" /\ s.op # "none"
  BY <1>1, Zenon DEF Retire, SessionAt
<1>4. CASE session' = IdleSession /\ (Fails \/ Works)
  BY <1>3, <1>4, Stops
<1>5. ASSUME Works, p # NoNotePage, LivePage(Latest) # p, NEW st \in {"dropPage", "dropRow"},
             session' = [session EXCEPT !.page = p, !.step = st]
      PROVE  NotesInv'
  <2>1. p \in PageOrNone /\ On(s.key) = TextOn(p) /\ p = index[s.key]
    BY <1>1, <1>2, <1>5, LiveText
  <2>2. PICK r : r = session'
    OBVIOUS
  <2>3. r = Placed(s, st, p) /\ st \in Steps
    BY <1>1, <1>5, <2>2, Zenon DEF Placed, Steps, RetireSteps
  <2>4. /\ r \in NotesSession /\ r.op = s.op /\ r.step = st /\ r.key = s.key /\ r.to = s.to
        /\ r.page = p /\ r.text = s.text /\ r.source = s.source
    BY <1>2, <2>1, <2>3, PageSetTyped
  <2>5. Shape(s) => Shape(r) /\ s.op = "unpark" /\ s.to = Latest
    BY <1>3, <1>5, <2>4 DEF Shape, ParkSteps, RetireSteps
  <2>6. Shape(s) => index[r.to] # index[r.key]
    BY <1>1, <1>5, <2>1, <2>4, <2>5 DEF LivePage
  <2>7. Knows(s, kept) /\ Shape(s) => Knows(r, kept)
    BY <1>1, <1>3, <1>5, <2>1, <2>4, <2>5, <2>6 DEF Knows, ParkSteps, RetireSteps, Carries
  <2>8. kept \in SUBSET Texts /\ used' \in 0 .. MaxTexts /\ opsLeft' \in 0 .. MaxOps
        /\ notesFaultsLeft' \in 0 .. NoteFaults
    BY <1>2, <1>3, <1>5, Faulted DEF NotesTyped
  <2> QED BY <1>2, <1>3, <2>2, <2>4, <2>5, <2>7, <2>8, Stays
<1>6. \/ session' = IdleSession /\ (Fails \/ Works)
      \/ /\ Works /\ LivePage(session.key) # NoNotePage /\ LivePage(Latest) # LivePage(session.key)
         /\ \E st \in {"dropPage", "dropRow"} :
              session' = [session EXCEPT !.page = LivePage(session.key), !.step = st]
  <2>1. CASE Aborts
    BY <2>1 DEF Aborts, EndSession
  <2>2. CASE Works /\ (LivePage(session.key) = NoNotePage \/ LivePage(Latest) = LivePage(session.key))
    <3>1. session' = IdleSession \/ Aborts
      BY <2>2, Zenon DEF Retire, EndSession
    <3> QED BY <2>1, <2>2, <3>1
  <2>3. CASE Works /\ LivePage(session.key) # NoNotePage /\ LivePage(Latest) # LivePage(session.key)
    <3>1. PICK st : st = IF {k \in NoteKeys \ {session.key} : index[k] = LivePage(session.key)} = {}
                         THEN "dropPage" ELSE "dropRow"
      OBVIOUS
    <3>2. session' = [session EXCEPT !.page = LivePage(session.key), !.step = st] \/ Aborts
      BY <2>3, <3>1, Zenon DEF Retire
    <3>3. st \in {"dropPage", "dropRow"}
      BY <3>1
    <3> QED BY <2>1, <2>3, <3>2, <3>3, Zenon
  <2>4. Works \/ Aborts
    BY Zenon DEF Retire
  <2> QED BY <2>1, <2>2, <2>3, <2>4
<1>7. ASSUME NEW st \in {"dropPage", "dropRow"},
             session' = [session EXCEPT !.page = LivePage(session.key), !.step = st]
      PROVE  session' = [session EXCEPT !.page = p, !.step = st]
  BY <1>1, <1>7, Zenon
<1>8. p = LivePage(session.key)
  BY <1>1
<1> QED BY <1>4, <1>5, <1>6, <1>7, <1>8

-----------------------------------------------------------------------------
(* A save: pages and rows change, and what a key shows.                    *)

\* A save that is over: the call is parked, brought back or done.
LEMMA AfterTyped ==
    ASSUME NEW s \in NotesSession, NEW r, s.op # "none", s = session, r = session', AfterSave
    PROVE  /\ r \in NotesSession /\ kept' = kept \cup s.text
           /\ \/ r = IdleSession
              \/ /\ r.op = s.op /\ r.key = s.key /\ r.to = s.to /\ r.page = s.page /\ r.text = s.text
                 /\ r.source = s.source
                 /\ (r.step = "same" /\ r.op = "park") \/ (r.step = "retire" /\ r.op = "unpark")
<1>1. kept' = kept \cup s.text
  BY DEF AfterSave
<1>2. \/ r = IdleSession
      \/ r = Goes(s, "same") /\ s.op = "park"
      \/ r = Goes(s, "retire") /\ s.op = "unpark"
  BY Zenon DEF AfterSave, Goes
<1>3. "same" \in Steps /\ "retire" \in Steps
  BY DEF Steps, ParkSteps, RetireSteps
<1>4. CASE r = IdleSession
  BY <1>1, <1>4, IdleFacts
<1>5. CASE r = Goes(s, "same") /\ s.op = "park"
  <2>1. PICK st \in Steps : st = "same"
    BY <1>3
  <2>2. /\ r \in NotesSession /\ r.op = s.op /\ r.step = st /\ r.key = s.key /\ r.to = s.to
        /\ r.page = s.page /\ r.text = s.text /\ r.source = s.source
    BY <1>5, <2>1, GoTyped
  <2>3. r.step = "same" /\ r.op = "park"
    BY <1>5, <2>1, <2>2
  <2> QED BY <1>1, <2>2, <2>3
<1>6. CASE r = Goes(s, "retire") /\ s.op = "unpark"
  <2>1. PICK st \in Steps : st = "retire"
    BY <1>3
  <2>2. /\ r \in NotesSession /\ r.op = s.op /\ r.step = st /\ r.key = s.key /\ r.to = s.to
        /\ r.page = s.page /\ r.text = s.text /\ r.source = s.source
    BY <1>6, <2>1, GoTyped
  <2>3. r.step = "retire" /\ r.op = "unpark"
    BY <1>6, <2>1, <2>2
  <2> QED BY <1>1, <2>2, <2>3
<1> QED BY <1>2, <1>4, <1>5, <1>6

\* The call r after its save: what was saved under its key is read there.
LEMMA AfterKnows ==
    ASSUME NEW s, NEW r, Shape(s), s.op # "none",
           \/ r = IdleSession
           \/ /\ r.op = s.op /\ r.key = s.key /\ r.to = s.to /\ r.page = s.page /\ r.text = s.text
              /\ r.source = s.source
              /\ (r.step = "same" /\ r.op = "park") \/ (r.step = "retire" /\ r.op = "unpark")
    PROVE  Shape(r)
  BY IdleFacts DEF Shape, ParkSteps, RetireSteps

\* A page that is made: no row names it yet.
LEMMA NewPage ==
    ASSUME PagesTyped, RowsNamePages, NEW p \in NotePages, notePages[p].state = "none", NEW R \in SUBSET SUBSET Texts,
           notePages' = [notePages EXCEPT ![p] = [state |-> "live", range |-> R]], UNCHANGED index
    PROVE  /\ \A q \in NotePages \ {p} : notePages'[q] = notePages[q]
           /\ \A k \in NoteKeys : On(k)' = On(k) /\ LivePage(k)' = LivePage(k)
           /\ \A q \in NotePages \ {p} : TextOn(q)' = TextOn(q)
           /\ TextOn(p)' = UNION R /\ notePages'[p].state = "live"
           /\ Readable' = Readable /\ RowsNamePages'
<1>1. /\ \A q \in NotePages \ {p} : notePages'[q] = notePages[q]
      /\ notePages'[p].state = "live" /\ notePages'[p].range = R
  BY DEF PagesTyped
<1>2. \A k \in NoteKeys : index[k] # p /\ index[k] \in PageOrNone /\ index'[k] = index[k]
  BY DEF PagesTyped, RowsNamePages, NoNotePage, NotePages
<1>3. \A k \in NoteKeys : notePages'[index[k]] = notePages[index[k]] \/ index[k] = NoNotePage
  BY <1>1, <1>2 DEF PageOrNone
<1>4. \A k \in NoteKeys : On(k)' = On(k) /\ LivePage(k)' = LivePage(k)
  BY <1>2, <1>3 DEF On, TextOn, LivePage
<1>5. \A q \in NotePages \ {p} : TextOn(q)' = TextOn(q)
  BY <1>1 DEF TextOn
<1>6. p # NoNotePage
  BY DEF NotePages, NoNotePage
<1>7. TextOn(p)' = UNION R
  BY <1>1, <1>6 DEF TextOn
<1>8. Readable' = Readable
  BY <1>4 DEF Readable, On
<1>9. RowsNamePages'
  BY <1>2, <1>3 DEF RowsNamePages
<1> QED BY <1>1, <1>4, <1>5, <1>7, <1>8, <1>9

LEMMA NewPageTyped ==
    ASSUME PagesTyped, NEW p \in NotePages, NEW R \in SUBSET SUBSET Texts,
           notePages' = [notePages EXCEPT ![p] = [state |-> "live", range |-> R]], UNCHANGED index
    PROVE  PagesTyped'
<1>1. [state |-> "live", range |-> R] \in NotePage
  BY DEF NotePage
<1> QED BY <1>1 DEF PagesTyped

\* Notes replaced on a page: what every key shows then.
LEMMA NewRange ==
    ASSUME PagesTyped, NEW p \in NotePages, NEW R \in SUBSET SUBSET Texts,
           notePages' = [notePages EXCEPT ![p].range = R], UNCHANGED index
    PROVE  /\ PagesTyped' /\ (RowsNamePages => RowsNamePages')
           /\ \A k \in NoteKeys : LivePage(k)' = LivePage(k)
           /\ \A k \in NoteKeys : index[k] # p => On(k)' = On(k)
           /\ \A k \in NoteKeys : index[k] = p => On(k)' = TextOn(p)' /\ On(k) = TextOn(p)
           /\ \A q \in PageOrNone \ {p} : TextOn(q)' = TextOn(q)
           /\ TextOn(p)' = IF notePages[p].state = "live" THEN UNION R ELSE {}
<1>1. /\ notePages' \in [NotePages -> NotePage]
      /\ \A q \in NotePages : notePages'[q].state = notePages[q].state
      /\ \A q \in PageOrNone \ {p} : TextOn(q)' = TextOn(q)
      /\ TextOn(p)' = IF notePages[p].state = "live" THEN UNION R ELSE {}
  BY PageSet
<1>2. index' = index /\ \A k \in NoteKeys : index[k] \in PageOrNone
  BY DEF PagesTyped
<1>3. PagesTyped' /\ (RowsNamePages => RowsNamePages')
  BY <1>1, <1>2 DEF PagesTyped, RowsNamePages, PageOrNone
<1>4. \A k \in NoteKeys : LivePage(k)' = LivePage(k)
  BY <1>1, <1>2 DEF LivePage, PageOrNone
<1>5. \A k \in NoteKeys : index[k] # p => On(k)' = On(k)
  BY <1>1, <1>2 DEF On, TextOn
<1>6. \A k \in NoteKeys : index[k] = p => On(k)' = TextOn(p)' /\ On(k) = TextOn(p)
  BY <1>2 DEF On, TextOn
<1> QED BY <1>1, <1>3, <1>4, <1>5, <1>6

\* Notes that stay readable: each key shows what it showed, but for texts another key shows.
LEMMA StillRead ==
    ASSUME NEW K, K \subseteq Readable, \A k \in NoteKeys : K \cap On(k) \subseteq Readable'
    PROVE  K \subseteq Readable'
<1>1. Readable = UNION {On(k) : k \in NoteKeys}
  BY DEF Readable, On
<1> QED BY <1>1

\* What a key shows is readable.
LEMMA OnRead ==
    ASSUME NEW k \in NoteKeys PROVE On(k)' \subseteq Readable' /\ On(k) \subseteq Readable
  BY DEF Readable, On

\* No row names the new page, whether or not the call lives to write one.
LEMMA MakeSafe == ASSUME NotesInv, MakePage PROVE NotesInv'
<1>1. PICK s : s = session
  OBVIOUS
<1>2. /\ s \in NotesSession /\ NotesTyped /\ PagesTyped /\ s.key \in NoteKeys /\ s.to \in NoteKeys
      /\ s.text \subseteq Texts
      /\ ~indexFailed => RowsNamePages /\ Shape(s) /\ Knows(s, kept) /\ kept \subseteq Readable
  BY <1>1, Running
<1>3. UNCHANGED <<index, kept, used, opsLeft, indexFailed>> /\ s.step = "make" /\ s.op # "none"
  BY <1>1, Zenon DEF MakePage, SessionAt
<1>4. CASE UNCHANGED notePages /\ session' = IdleSession /\ (Fails \/ Works)
  BY <1>3, <1>4, Stops
<1>5. ASSUME NEW p \in NotePages, notePages[p].state = "none", Fails \/ Works,
             notePages' = [notePages EXCEPT ![p] = [state |-> "live", range |-> {session.text}]],
             session' = [session EXCEPT !.step = "row", !.page = p] \/ session' = IdleSession
      PROVE  NotesInv'
  <2>1. PICK r, R : r = session' /\ R = {session.text}
    OBVIOUS
  <2>2. R \in SUBSET SUBSET Texts /\ UNION R = s.text
    BY <1>1, <1>2, <2>1
  <2>3. notePages' = [notePages EXCEPT ![p] = [state |-> "live", range |-> R]] /\ index' = index
    BY <1>3, <1>5, <2>1
  <2>4. PagesTyped'
    BY <1>2, <2>2, <2>3, NewPageTyped
  <2>5. r = Places(s, "row", p) \/ r = IdleSession
    BY <1>1, <1>5, <2>1, Zenon DEF Places
  <2>6. "row" \in Steps /\ p \in PageOrNone
    BY DEF Steps, SaveSteps, PageOrNone
  <2>7. \/ r = IdleSession
        \/ /\ r \in NotesSession /\ r.op = s.op /\ r.step = "row" /\ r.key = s.key /\ r.to = s.to
           /\ r.page = p /\ r.text = s.text /\ r.source = s.source
    BY <1>2, <2>5, <2>6, PageSetTyped
  <2>8. r \in NotesSession
    BY <2>7, IdleFacts
  <2>9. ASSUME ~indexFailed PROVE RowsNamePages' /\ Shape(r) /\ Knows(r, kept)' /\ kept' \subseteq Readable'
    <3>1. RowsNamePages /\ Shape(s) /\ Knows(s, kept) /\ kept \subseteq Readable
      BY <1>2, <2>9
    <3>2. /\ \A k \in NoteKeys : On(k)' = On(k) /\ LivePage(k)' = LivePage(k)
          /\ \A q \in NotePages \ {p} : TextOn(q)' = TextOn(q)
          /\ TextOn(p)' = UNION R /\ notePages'[p].state = "live"
          /\ Readable' = Readable /\ RowsNamePages'
      BY <1>2, <1>5, <2>2, <2>3, <3>1, NewPage
    <3>3. CASE r = IdleSession
      BY <1>3, <3>1, <3>2, <3>3, IdleFacts, IdleKnows
    <3>4. CASE /\ r \in NotesSession /\ r.op = s.op /\ r.step = "row" /\ r.key = s.key /\ r.to = s.to
               /\ r.page = p /\ r.text = s.text /\ r.source = s.source
      <4>1. Shape(r)
        BY <1>3, <3>1, <3>4 DEF Shape, ParkSteps, RetireSteps
      <4>2. Carries(s) => /\ s.source \in NotePages \ {p} /\ s.source = LivePage(s.key)
                          /\ TextOn(s.source) \subseteq s.text
        <5>1. Carries(s) => s.source \in NotePages /\ s.source = LivePage(s.key) /\ TextOn(s.source) \subseteq s.text
          BY <1>3, <3>1 DEF Knows
        <5>2. s.source \in NotePages /\ s.source = LivePage(s.key) => notePages[s.source].state = "live"
          BY <1>2, LiveText DEF NotePages, NoNotePage
        <5> QED BY <1>5, <5>1, <5>2
      <4>3. On(s.to) = {} /\ LivePage(s.to) = NoNotePage
        BY <1>3, <3>1 DEF Knows
      <4>4. Carries(r) <=> Carries(s)
        BY <3>4 DEF Carries
      <4>5. Carries(r) => r.source \in NotePages /\ r.source = LivePage(r.key)' /\ TextOn(r.source)' \subseteq r.text
        BY <1>2, <3>2, <3>4, <4>2, <4>4
      <4>6. On(r.to)' = {} /\ LivePage(r.to)' = NoNotePage
        BY <1>2, <3>2, <3>4, <4>3
      <4>7. r.text \subseteq TextOn(r.page)' /\ notePages'[r.page].state = "live"
        BY <2>2, <3>2, <3>4
      <4>8. Carries(r)' <=> Carries(r)
        BY DEF Carries
      <4>9. Knows(r, kept)'
        BY <3>4, <4>5, <4>6, <4>7, <4>8 DEF Knows, ParkSteps, RetireSteps
      <4> QED BY <1>3, <3>1, <3>2, <4>1, <4>9
    <3> QED BY <2>7, <3>3, <3>4
  <2>10. PICK K : K = kept
    OBVIOUS
  <2>11. Knows(r, kept)' => Knows(r, K)'
    BY <1>3, <2>10 DEF Knows
  <2>12. /\ K \in SUBSET Texts /\ kept' = K /\ used' \in 0 .. MaxTexts /\ opsLeft' \in 0 .. MaxOps
         /\ notesFaultsLeft' \in 0 .. NoteFaults /\ indexFailed' \in BOOLEAN /\ indexFailed' = indexFailed
    BY <1>2, <1>3, <1>5, <2>10, Faulted DEF NotesTyped
  <2> QED BY <2>1, <2>4, <2>8, <2>9, <2>11, <2>12, Lands
<1>6. \/ UNCHANGED notePages /\ session' = IdleSession /\ (Fails \/ Works)
      \/ \E p \in NotePages :
            /\ notePages[p].state = "none" /\ (Fails \/ Works)
            /\ notePages' = [notePages EXCEPT ![p] = [state |-> "live", range |-> {session.text}]]
            /\ session' = [session EXCEPT !.step = "row", !.page = p] \/ session' = IdleSession
  BY Zenon DEF MakePage, Aborts, EndSession
<1> QED BY <1>4, <1>5, <1>6

\* A save that is over, whichever step wrote the notes: they are read under its key, and all that was
\* readable still is.
LEMMA SavedSafe ==
    ASSUME NotesInv, NEW s, s = session, s.op # "none", AfterSave, PagesTyped', UNCHANGED <<used, opsLeft>>,
           Fails \/ Works, indexFailed' \in BOOLEAN,
           ~indexFailed' =>
              /\ ~indexFailed /\ RowsNamePages' /\ Readable \subseteq Readable' /\ s.text \subseteq On(s.to)'
              /\ Carries(s) => /\ s.source \in NotePages /\ s.source = LivePage(s.key)'
                               /\ TextOn(s.source)' \subseteq s.text
    PROVE  NotesInv'
<1>1. /\ s \in NotesSession /\ NotesTyped /\ s.to \in NoteKeys /\ s.text \subseteq Texts
      /\ ~indexFailed => Shape(s) /\ Knows(s, kept) /\ kept \subseteq Readable
  BY Running
<1>2. PICK r, K : r = session' /\ K = kept'
  OBVIOUS
<1>3. /\ r \in NotesSession /\ kept' = kept \cup s.text
      /\ \/ r = IdleSession
         \/ /\ r.op = s.op /\ r.key = s.key /\ r.to = s.to /\ r.page = s.page /\ r.text = s.text
            /\ r.source = s.source
            /\ (r.step = "same" /\ r.op = "park") \/ (r.step = "retire" /\ r.op = "unpark")
  BY <1>1, <1>2, AfterTyped
<1>4. /\ K \in SUBSET Texts /\ used' \in 0 .. MaxTexts /\ opsLeft' \in 0 .. MaxOps
      /\ notesFaultsLeft' \in 0 .. NoteFaults
  BY <1>1, <1>2, <1>3, Faulted DEF NotesTyped
<1>5. ASSUME ~indexFailed' PROVE RowsNamePages' /\ Shape(r) /\ Knows(r, K)' /\ K \subseteq Readable'
  <2>1. Shape(s) /\ kept \subseteq Readable /\ RowsNamePages'
    BY <1>1, <1>5
  <2>2. Shape(r)
    BY <1>3, <2>1, AfterKnows
  <2>3. On(s.to)' \subseteq Readable'
    BY <1>1, OnRead
  <2>4. K \subseteq Readable'
    BY <1>2, <1>3, <1>5, <2>1, <2>3
  <2>5. CASE r = IdleSession
    BY <2>1, <2>2, <2>4, <2>5, IdleKnows
  <2>6. CASE /\ r.op = s.op /\ r.key = s.key /\ r.to = s.to /\ r.page = s.page /\ r.text = s.text
             /\ r.source = s.source
             /\ (r.step = "same" /\ r.op = "park") \/ (r.step = "retire" /\ r.op = "unpark")
    <3>1. r.step \in {"same", "retire"} /\ Carries(r) /\ Carries(s)
      BY <2>6 DEF Carries
    <3>2. On(r.to)' = On(s.to)' /\ LivePage(r.key)' = LivePage(s.key)' /\ TextOn(r.source)' = TextOn(s.source)'
      BY <2>6
    <3>3. /\ r.text \subseteq On(r.to)' /\ r.source \in NotePages /\ r.source = LivePage(r.key)'
          /\ TextOn(r.source)' \subseteq r.text
      BY <1>5, <2>6, <3>1, <3>2
    <3>4. Knows(r, K)'
      BY <3>1, <3>3 DEF Knows, ParkSteps, RetireSteps
    <3> QED BY <2>1, <2>2, <2>4, <3>4
  <2> QED BY <1>3, <2>5, <2>6
<1> QED BY <1>2, <1>3, <1>4, <1>5, Lands

\* The row of a key that showed nothing comes to name the new page.
LEMMA RowSafe == ASSUME NotesInv, WriteRow PROVE NotesInv'
<1>1. PICK s : s = session
  OBVIOUS
<1>2. /\ s \in NotesSession /\ NotesTyped /\ PagesTyped /\ s.key \in NoteKeys /\ s.to \in NoteKeys
      /\ s.text \subseteq Texts /\ s.page \in PageOrNone
      /\ ~indexFailed => RowsNamePages /\ Shape(s) /\ Knows(s, kept) /\ kept \subseteq Readable
  BY <1>1, Running
<1>3. /\ UNCHANGED <<notePages, used, opsLeft>> /\ s.step = "row" /\ s.op # "none" /\ AfterSave /\ (Fails \/ Works)
  BY <1>1, Zenon DEF WriteRow, SessionAt
<1>4. \/ index' = [index EXCEPT ![s.to] = s.page] /\ indexFailed' = indexFailed
      \/ indexFailed' = TRUE /\ index' = index
  BY <1>1, Zenon DEF WriteRow
<1>5. indexFailed' \in BOOLEAN
  BY <1>2, <1>4 DEF NotesTyped
<1>6. PagesTyped'
  BY <1>2, <1>3, <1>4 DEF PagesTyped
<1>7. ASSUME ~indexFailed'
      PROVE  /\ ~indexFailed /\ RowsNamePages' /\ Readable \subseteq Readable' /\ s.text \subseteq On(s.to)'
             /\ Carries(s) => /\ s.source \in NotePages /\ s.source = LivePage(s.key)'
                              /\ TextOn(s.source)' \subseteq s.text
  <2>1. index' = [index EXCEPT ![s.to] = s.page] /\ ~indexFailed
    BY <1>4, <1>7
  <2>2. RowsNamePages /\ Shape(s) /\ Knows(s, kept)
    BY <1>2, <2>1
  <2>3. index'[s.to] = s.page /\ \A k \in NoteKeys \ {s.to} : index'[k] = index[k]
    BY <1>2, <2>1 DEF PagesTyped
  <2>4. /\ On(s.to) = {} /\ s.page \in NotePages /\ notePages[s.page].state = "live"
        /\ s.text \subseteq TextOn(s.page)
        /\ Carries(s) => /\ s.source \in NotePages /\ s.source = LivePage(s.key)
                         /\ TextOn(s.source) \subseteq s.text
    BY <1>3, <2>2 DEF Knows
  <2>5. RowsNamePages'
    BY <1>3, <2>2, <2>3, <2>4 DEF RowsNamePages
  <2>6. On(s.to)' = TextOn(s.page)
    BY <1>3, <2>3 DEF On, TextOn
  <2>7. \A k \in NoteKeys \ {s.to} : On(k)' = On(k) /\ LivePage(k)' = LivePage(k)
    BY <1>3, <2>3 DEF On, TextOn, LivePage
  <2>8. \A k \in NoteKeys : On(k) \subseteq On(k)'
    BY <2>4, <2>7
  <2>9. Readable \subseteq Readable'
    BY <2>8 DEF Readable, On
  <2>10. Carries(s) => s.key # s.to
    BY <1>2, <2>2, NotesAssumption DEF Carries, Shape
  <2>11. TextOn(s.source)' = TextOn(s.source)
    BY <1>3 DEF TextOn
  <2> QED BY <1>2, <2>1, <2>4, <2>5, <2>6, <2>7, <2>9, <2>10, <2>11
<1> QED BY <1>1, <1>3, <1>5, <1>6, <1>7, SavedSafe

\* The timestamp ends a save over an old page.
LEMMA StampSafe == ASSUME NotesInv, StampNotes PROVE NotesInv'
<1>1. PICK s : s = session
  OBVIOUS
<1>2. /\ s \in NotesSession /\ NotesTyped /\ PagesTyped /\ s.key \in NoteKeys /\ s.to \in NoteKeys
      /\ ~indexFailed => RowsNamePages /\ Shape(s) /\ Knows(s, kept) /\ kept \subseteq Readable
  BY <1>1, Running
<1>3. UNCHANGED <<index, notePages, used, opsLeft, indexFailed>> /\ s.step = "stamp" /\ s.op # "none"
  BY <1>1, Zenon DEF StampNotes, SessionAt
<1>4. CASE Aborts /\ UNCHANGED kept
  BY <1>3, <1>4, Stops DEF Aborts, EndSession
<1>5. CASE Works /\ AfterSave
  <2>1. PagesTyped' /\ indexFailed' \in BOOLEAN
    BY <1>2, <1>3 DEF PagesTyped, NotesTyped
  <2>2. ASSUME ~indexFailed'
        PROVE  /\ ~indexFailed /\ RowsNamePages' /\ Readable \subseteq Readable' /\ s.text \subseteq On(s.to)'
               /\ Carries(s) => /\ s.source \in NotePages /\ s.source = LivePage(s.key)'
                                /\ TextOn(s.source)' \subseteq s.text
    <3>1. ~indexFailed /\ RowsNamePages /\ Shape(s) /\ Knows(s, kept)
      BY <1>2, <1>3, <2>2
    <3>2. /\ s.page = LivePage(s.to) /\ s.text \subseteq TextOn(s.page)
          /\ Carries(s) => /\ s.source \in NotePages /\ s.source = LivePage(s.key)
                           /\ TextOn(s.source) \subseteq s.text
      BY <1>3, <3>1 DEF Knows
    <3>3. On(s.to) = TextOn(s.page)
      BY <1>2, <3>2, LiveText
    <3>4. /\ On(s.to)' = On(s.to) /\ LivePage(s.key)' = LivePage(s.key) /\ TextOn(s.source)' = TextOn(s.source)
      BY <1>3 DEF On, TextOn, LivePage
    <3>5. RowsNamePages' /\ Readable' = Readable
      BY <1>3, <3>1 DEF RowsNamePages, Readable, TextOn
    <3> QED BY <3>1, <3>2, <3>3, <3>4, <3>5
  <2> QED BY <1>1, <1>3, <1>5, <2>1, <2>2, SavedSafe
<1> QED BY <1>4, <1>5 DEF StampNotes

\* A call on a live page: which keys show it.
LEMMA OnPage ==
    ASSUME PagesTyped, NEW k \in NoteKeys, NEW p \in NotePages, p = LivePage(k)
    PROVE  index[k] = p /\ notePages[p].state = "live" /\ On(k) = TextOn(p)
  BY LiveText DEF NotePages, NoNotePage

Ranged(p, R) == [notePages EXCEPT ![p].range = R]

\* The notes on the page of the call's key are replaced by its text and some of those that were there.
LEMMA SwapSafe ==
    ASSUME NotesInv, NEW s, s = session, s.step \in {"insert", "delete"}, s.op # "none",
           NEW R \in SUBSET SUBSET Texts, notePages' = Ranged(s.page, R),
           UNCHANGED <<index, kept, used, opsLeft, indexFailed>>, Fails \/ Works,
           NEW r \in NotesSession, session' = r,
           ~indexFailed => s.text \subseteq UNION R /\ UNION R \subseteq TextOn(s.page) \cup s.text,
           \/ r = IdleSession
           \/ /\ r.op = s.op /\ r.key = s.key /\ r.to = s.to /\ r.page = s.page /\ r.text = s.text
              /\ r.source = s.source
              /\ r.step = "stamp" \/ (r.step = "delete" /\ s.step = "insert")
    PROVE  NotesInv'
<1>1. /\ s \in NotesSession /\ NotesTyped /\ PagesTyped /\ s.key \in NoteKeys /\ s.to \in NoteKeys
      /\ s.text \subseteq Texts /\ s.page \in PageOrNone
      /\ ~indexFailed => RowsNamePages /\ Shape(s) /\ Knows(s, kept) /\ kept \subseteq Readable
  BY Running
<1>2. PICK K : K = kept'
  OBVIOUS
<1>3. /\ K = kept /\ K \in SUBSET Texts /\ used' \in 0 .. MaxTexts /\ opsLeft' \in 0 .. MaxOps
      /\ notesFaultsLeft' \in 0 .. NoteFaults /\ indexFailed' \in BOOLEAN /\ indexFailed' = indexFailed
  BY <1>1, <1>2, Faulted DEF NotesTyped
<1>4. PagesTyped'
  <2>1. CASE s.page \in NotePages
    BY <1>1, <2>1, NewRange DEF Ranged
  <2>2. CASE s.page \notin NotePages
    BY <1>1, <2>2 DEF PagesTyped, Ranged
  <2> QED BY <2>1, <2>2
<1>5. ASSUME ~indexFailed PROVE RowsNamePages' /\ Shape(r) /\ Knows(r, K)' /\ K \subseteq Readable'
  <2>1. RowsNamePages /\ Shape(s) /\ Knows(s, kept) /\ kept \subseteq Readable
    BY <1>1, <1>5
  <2>2. PICK p : p = s.page
    OBVIOUS
  <2>3. /\ p \in NotePages /\ p = LivePage(s.to) /\ kept \cap TextOn(p) \subseteq s.text
        /\ Carries(s) => /\ s.source \in NotePages /\ s.source = LivePage(s.key)
                         /\ TextOn(s.source) \subseteq s.text
    BY <2>1, <2>2 DEF Knows
  <2>4. index[s.to] = p /\ notePages[p].state = "live" /\ On(s.to) = TextOn(p)
    BY <1>1, <2>3, OnPage
  <2>5. notePages' = [notePages EXCEPT ![p].range = R] /\ index' = index
    BY <2>2 DEF Ranged
  <2>6. /\ RowsNamePages'
        /\ \A k \in NoteKeys : LivePage(k)' = LivePage(k)
        /\ \A k \in NoteKeys : index[k] # p => On(k)' = On(k)
        /\ \A k \in NoteKeys : index[k] = p => On(k)' = TextOn(p)' /\ On(k) = TextOn(p)
        /\ \A q \in PageOrNone \ {p} : TextOn(q)' = TextOn(q)
        /\ TextOn(p)' = UNION R
    BY <1>1, <2>1, <2>3, <2>4, <2>5, NewRange
  <2>7. TextOn(p)' \subseteq TextOn(p) \cup s.text /\ s.text \subseteq TextOn(p)'
    BY <1>5, <2>2, <2>6
  <2>8. \A k \in NoteKeys : On(k)' \subseteq Readable'
    BY OnRead
  <2>9. \A k \in NoteKeys : K \cap On(k) \subseteq Readable'
    <3>1. ASSUME NEW k \in NoteKeys PROVE K \cap On(k) \subseteq On(k)'
      BY <1>3, <2>3, <2>6, <2>7
    <3> QED BY <2>8, <3>1
  <2>10. K \subseteq Readable'
    BY <1>3, <2>1, <2>9, StillRead
  <2>11. CASE r = IdleSession
    BY <2>6, <2>10, <2>11, IdleFacts, IdleKnows
  <2>12. CASE /\ r.op = s.op /\ r.key = s.key /\ r.to = s.to /\ r.page = s.page /\ r.text = s.text
              /\ r.source = s.source
              /\ r.step = "stamp" \/ (r.step = "delete" /\ s.step = "insert")
    <3>1. Shape(r)
      BY <2>1, <2>12 DEF Shape, ParkSteps, RetireSteps
    <3>2. /\ r.page = p /\ LivePage(r.to)' = LivePage(s.to)' /\ LivePage(r.key)' = LivePage(s.key)'
          /\ TextOn(r.page)' = TextOn(p)' /\ TextOn(r.source)' = TextOn(s.source)'
      BY <2>2, <2>12
    <3>3. r.page \in NotePages /\ r.page = LivePage(r.to)' /\ r.text \subseteq TextOn(r.page)'
      BY <1>1, <2>3, <2>6, <2>7, <2>12, <3>2
    <3>4. K \cap TextOn(r.page)' \subseteq r.text
      BY <1>3, <2>3, <2>7, <2>12, <3>2
    <3>5. Carries(r) => /\ r.source \in NotePages /\ r.source = LivePage(r.key)' /\ TextOn(r.source)' \subseteq r.text
      <4>1. Carries(r) <=> Carries(s)
        BY <2>12 DEF Carries
      <4>2. Carries(s) => TextOn(s.source)' \subseteq s.text
        BY <2>3, <2>6, <2>7 DEF PageOrNone
      <4> QED BY <1>1, <2>3, <2>6, <2>12, <3>2, <4>1, <4>2
    <3>6. Carries(r)' <=> Carries(r)
      BY DEF Carries
    <3>7. Knows(r, K)'
      BY <2>12, <3>3, <3>4, <3>5, <3>6 DEF Knows, ParkSteps, RetireSteps
    <3> QED BY <2>6, <2>10, <3>1, <3>7
  <2> QED BY <2>11, <2>12
<1> QED BY <1>2, <1>3, <1>4, <1>5, Lands

\* The new notes come before the old ones go.
LEMMA InsertSafe == ASSUME NotesInv, InsertNotes PROVE NotesInv'
<1>1. PICK s, r, R : s = session /\ r = session' /\ R = notePages[session.page].range \cup {session.text}
  OBVIOUS
<1>2. /\ s \in NotesSession /\ NotesTyped /\ PagesTyped /\ s.text \subseteq Texts /\ s.page \in PageOrNone
      /\ ~indexFailed => RowsNamePages /\ Shape(s) /\ Knows(s, kept) /\ kept \subseteq Readable
  BY <1>1, Running
<1>3. UNCHANGED <<index, kept, used, opsLeft, indexFailed>> /\ s.step = "insert" /\ s.op # "none"
  BY <1>1, Zenon DEF InsertNotes, SessionAt
<1>4. CASE Aborts /\ UNCHANGED notePages
  BY <1>3, <1>4, Stops DEF Aborts, EndSession
<1>5. CASE /\ Works /\ session' = [session EXCEPT !.step = "delete"]
           /\ notePages' = [notePages EXCEPT ![session.page].range = notePages[session.page].range \cup {session.text}]
  <2>1. r = Goes(s, "delete") /\ "delete" \in Steps
    BY <1>1, <1>5, Zenon DEF Goes, Steps, SaveSteps
  <2>2. /\ r \in NotesSession /\ r.op = s.op /\ r.step = "delete" /\ r.key = s.key /\ r.to = s.to
        /\ r.page = s.page /\ r.text = s.text /\ r.source = s.source
    BY <1>2, <2>1, GoTyped
  <2>3. notePages' = Ranged(s.page, R)
    BY <1>1, <1>5, Zenon DEF Ranged
  <2>4. CASE s.page \in NotePages
    <3>1. R \in SUBSET SUBSET Texts
      BY <1>1, <1>2, <2>4 DEF PagesTyped, NotePage
    <3>2. ~indexFailed => s.text \subseteq UNION R /\ UNION R \subseteq TextOn(s.page) \cup s.text
      <4>1. s.text \subseteq UNION R /\ UNION R = (UNION notePages[s.page].range) \cup s.text
        BY <1>1
      <4>2. ~indexFailed => notePages[s.page].state = "live" /\ s.page # NoNotePage
        <5>1. ~indexFailed => s.page = LivePage(s.to)
          BY <1>2, <1>3 DEF Knows
        <5>2. s.to \in NoteKeys
          BY <1>1, Running
        <5> QED BY <1>2, <2>4, <5>1, <5>2, OnPage DEF NotePages, NoNotePage
      <4>3. ~indexFailed => TextOn(s.page) = UNION notePages[s.page].range
        BY <4>2 DEF TextOn
      <4> QED BY <4>1, <4>3
    <3>3. s = session /\ session' = r /\ s.step \in {"insert", "delete"} /\ (Fails \/ Works)
      BY <1>1, <1>3, <1>5
    <3> QED BY <1>3, <2>2, <2>3, <3>1, <3>2, <3>3, SwapSafe
  <2>5. CASE s.page \notin NotePages
    <3>1. notePages' = notePages
      BY <1>2, <2>3, <2>5 DEF PagesTyped, Ranged
    <3>2. indexFailed
      BY <1>2, <1>3, <2>5 DEF Knows
    <3>3. kept \in SUBSET Texts /\ used' \in 0 .. MaxTexts /\ opsLeft' \in 0 .. MaxOps
          /\ notesFaultsLeft' \in 0 .. NoteFaults
      BY <1>2, <1>3, <1>5, Faulted DEF NotesTyped
    <3> QED BY <1>1, <1>3, <2>2, <3>1, <3>2, <3>3, Stays
  <2> QED BY <2>4, <2>5
<1>6. \/ Aborts /\ UNCHANGED notePages
      \/ /\ Works /\ session' = [session EXCEPT !.step = "delete"]
         /\ notePages' = [notePages EXCEPT ![session.page].range = notePages[session.page].range \cup {session.text}]
  BY Zenon DEF InsertNotes, SessionGoto
<1> QED BY <1>4, <1>5, <1>6

\* The old notes go, all or some of them.
LEMMA DeleteSafe == ASSUME NotesInv, DeleteNotes PROVE NotesInv'
<1>1. PICK s, r : s = session /\ r = session'
  OBVIOUS
<1>2. /\ s \in NotesSession /\ NotesTyped /\ PagesTyped /\ s.text \subseteq Texts /\ s.page \in PageOrNone
      /\ s.to \in NoteKeys
      /\ ~indexFailed => RowsNamePages /\ Shape(s) /\ Knows(s, kept) /\ kept \subseteq Readable
  BY <1>1, Running
<1>3. UNCHANGED <<index, kept, used, opsLeft, indexFailed>> /\ s.step = "delete" /\ s.op # "none"
  BY <1>1, Zenon DEF DeleteNotes, SessionAt
<1>4. ASSUME NEW gone, notePages' = [notePages EXCEPT ![s.page].range = (notePages[s.page].range \ gone) \cup {s.text}],
             Fails \/ Works, r = Goes(s, "stamp") \/ r = IdleSession
      PROVE  NotesInv'
  <2>1. PICK R : R = (notePages[s.page].range \ gone) \cup {s.text}
    OBVIOUS
  <2>2. notePages' = Ranged(s.page, R)
    BY <1>4, <2>1, Zenon DEF Ranged
  <2>3. "stamp" \in Steps
    BY DEF Steps, SaveSteps
  <2>4. \/ r = IdleSession
        \/ /\ r \in NotesSession /\ r.op = s.op /\ r.step = "stamp" /\ r.key = s.key /\ r.to = s.to
           /\ r.page = s.page /\ r.text = s.text /\ r.source = s.source
    BY <1>2, <1>4, <2>3, GoTyped
  <2>5. r \in NotesSession
    BY <2>4, IdleFacts
  <2>6. CASE s.page \in NotePages
    <3>1. R \in SUBSET SUBSET Texts
      BY <1>2, <2>1, <2>6 DEF PagesTyped, NotePage
    <3>2. ~indexFailed => s.text \subseteq UNION R /\ UNION R \subseteq TextOn(s.page) \cup s.text
      <4>1. s.text \subseteq UNION R /\ UNION R \subseteq (UNION notePages[s.page].range) \cup s.text
        BY <2>1
      <4>2. ~indexFailed => notePages[s.page].state = "live" /\ s.page # NoNotePage
        <5>1. ~indexFailed => s.page = LivePage(s.to)
          BY <1>2, <1>3 DEF Knows
        <5> QED BY <1>2, <2>6, <5>1, OnPage DEF NotePages, NoNotePage
      <4>3. ~indexFailed => TextOn(s.page) = UNION notePages[s.page].range
        BY <4>2 DEF TextOn
      <4> QED BY <4>1, <4>3
    <3>3. s = session /\ session' = r /\ s.step \in {"insert", "delete"} /\ (Fails \/ Works)
      BY <1>1, <1>3, <1>4
    <3> QED BY <1>3, <2>2, <2>4, <2>5, <3>1, <3>2, <3>3, SwapSafe
  <2>7. CASE s.page \notin NotePages
    <3>1. notePages' = notePages
      BY <1>2, <2>2, <2>7 DEF PagesTyped, Ranged
    <3>2. indexFailed
      BY <1>2, <1>3, <2>7 DEF Knows
    <3>3. kept \in SUBSET Texts /\ used' \in 0 .. MaxTexts /\ opsLeft' \in 0 .. MaxOps
          /\ notesFaultsLeft' \in 0 .. NoteFaults
      BY <1>2, <1>3, <1>4, Faulted DEF NotesTyped
    <3> QED BY <1>1, <1>3, <2>5, <3>1, <3>2, <3>3, Stays
  <2> QED BY <2>6, <2>7
<1>5. \E gone :
         /\ notePages' = [notePages EXCEPT ![s.page].range = (notePages[s.page].range \ gone) \cup {s.text}]
         /\ (Works /\ session' = [session EXCEPT !.step = "stamp"]) \/ (Fails /\ session' = IdleSession)
  BY <1>1, Zenon DEF DeleteNotes, SessionGoto, Aborts, EndSession
<1>6. /\ session' = [session EXCEPT !.step = "stamp"] => r = Goes(s, "stamp")
      /\ session' = IdleSession => r = IdleSession
  BY <1>1, Zenon DEF Goes
<1> QED BY <1>4, <1>5, <1>6

-----------------------------------------------------------------------------
(* What was copied goes.                                                   *)

\* The notes a call copied go from their page, whole or in part: they are read under the other key.
LEMMA CopySafe ==
    ASSUME NotesInv, NEW s, s = session, s.op # "none", NEW X,
           UNCHANGED <<kept, used, opsLeft, indexFailed>>, Fails \/ Works,
           NEW r \in NotesSession, session' = r, PagesTyped',
           ~indexFailed =>
              /\ RowsNamePages' /\ Shape(r) /\ Knows(r, kept)'
              /\ kept \cap X \subseteq s.text /\ s.text \subseteq On(s.to) /\ On(s.to)' = On(s.to)
              /\ \A k \in NoteKeys : On(k)' = On(k) \/ On(k) \subseteq X
    PROVE  NotesInv'
<1>1. /\ s \in NotesSession /\ NotesTyped /\ s.to \in NoteKeys
      /\ ~indexFailed => kept \subseteq Readable
  BY Running
<1>2. PICK K : K = kept
  OBVIOUS
<1>3. /\ K \in SUBSET Texts /\ kept' = K /\ used' \in 0 .. MaxTexts /\ opsLeft' \in 0 .. MaxOps
      /\ notesFaultsLeft' \in 0 .. NoteFaults /\ indexFailed' \in BOOLEAN /\ indexFailed' = indexFailed
  BY <1>1, <1>2, Faulted DEF NotesTyped
<1>4. ASSUME ~indexFailed PROVE RowsNamePages' /\ Shape(r) /\ Knows(r, K)' /\ K \subseteq Readable'
  <2>1. Knows(r, K)'
    BY <1>2, <1>3, <1>4 DEF Knows
  <2>2. \A k \in NoteKeys : On(k)' \subseteq Readable'
    BY OnRead
  <2>3. \A k \in NoteKeys : K \cap On(k) \subseteq Readable'
    <3>1. ASSUME NEW k \in NoteKeys PROVE K \cap On(k) \subseteq On(k)' \cup On(s.to)'
      BY <1>2, <1>4
    <3> QED BY <1>1, <2>2, <3>1
  <2>4. K \subseteq Readable'
    BY <1>1, <1>2, <1>4, <2>3, StillRead
  <2> QED BY <1>4, <2>1, <2>4
<1> QED BY <1>3, <1>4, Lands

\* The parked notes leave their first page, all or some of them.
LEMMA BlankSafe == ASSUME NotesInv, BlankSource PROVE NotesInv'
<1>1. PICK s : s = session
  OBVIOUS
<1>2. /\ s \in NotesSession /\ NotesTyped /\ PagesTyped /\ s.key \in NoteKeys /\ s.to \in NoteKeys
      /\ ~indexFailed => RowsNamePages /\ Shape(s) /\ Knows(s, kept) /\ kept \subseteq Readable
  BY <1>1, Running
<1>3. UNCHANGED <<index, kept, used, opsLeft, indexFailed>> /\ s.step = "blank" /\ s.op # "none"
  BY <1>1, Zenon DEF BlankSource, SessionAt
<1>4. PICK R \in SUBSET notePages[s.source].range :
         /\ Fails \/ Works
         /\ notePages' = [notePages EXCEPT ![s.source].range = R] /\ session' = IdleSession
  <2>1. CASE Works /\ notePages' = [notePages EXCEPT ![s.source].range = {}] /\ session' = IdleSession
    <3>1. {} \in SUBSET notePages[s.source].range
      OBVIOUS
    <3> QED BY <2>1, <3>1, Zenon
  <2>2. CASE Fails /\ session' = IdleSession /\ \E left \in SUBSET notePages[s.source].range :
                        notePages' = [notePages EXCEPT ![s.source].range = left]
    BY <2>2, Zenon
  <2> QED BY <1>1, <2>1, <2>2, Zenon DEF BlankSource, Aborts, EndSession
<1>5. CASE s.source \notin NotePages
  <2>1. notePages' = notePages
    BY <1>2, <1>4, <1>5 DEF PagesTyped
  <2> QED BY <1>3, <1>4, <2>1, Stops
<1>6. CASE s.source \in NotePages
  <2>1. R \in SUBSET SUBSET Texts
    BY <1>2, <1>4, <1>6 DEF PagesTyped, NotePage
  <2>2. /\ PagesTyped' /\ (RowsNamePages => RowsNamePages')
        /\ \A k \in NoteKeys : index[k] # s.source => On(k)' = On(k)
        /\ \A k \in NoteKeys : index[k] = s.source => On(k) = TextOn(s.source)
    BY <1>2, <1>3, <1>4, <1>6, <2>1, NewRange
  <2>3. ASSUME ~indexFailed
        PROVE  /\ kept \cap TextOn(s.source) \subseteq s.text /\ s.text \subseteq On(s.to) /\ On(s.to)' = On(s.to)
               /\ \A k \in NoteKeys : On(k)' = On(k) \/ On(k) \subseteq TextOn(s.source)
    <3>1. Shape(s) /\ Knows(s, kept)
      BY <1>2, <2>3
    <3>2. Carries(s)
      BY <1>3, <3>1 DEF Shape, ParkSteps, Carries
    <3>3. /\ s.source = LivePage(s.key) /\ TextOn(s.source) \subseteq s.text /\ s.text \subseteq On(s.to)
          /\ index[s.to] # index[s.key]
      BY <1>3, <3>1, <3>2 DEF Knows, ParkSteps
    <3>4. index[s.key] = s.source
      BY <1>2, <1>6, <3>3, OnPage
    <3> QED BY <1>2, <2>2, <3>3, <3>4
  <2>4. Shape(IdleSession) /\ Knows(IdleSession, kept)' /\ IdleSession \in NotesSession
    BY IdleFacts, IdleKnows
  <2>5. PICK X, r : X = TextOn(s.source) /\ r = IdleSession
    OBVIOUS
  <2>6. Shape(r) /\ Knows(r, kept)' /\ session' = r /\ r \in NotesSession
    BY <1>4, <2>4, <2>5, IdleKnows
  <2> QED BY <1>1, <1>2, <1>3, <1>4, <1>6, <2>2, <2>3, <2>5, <2>6, CopySafe
<1> QED BY <1>5, <1>6

\* The restored notes' page is archived.
LEMMA ArchivePageSafe == ASSUME NotesInv, ArchivePage PROVE NotesInv'
<1>1. PICK s, r : s = session /\ r = session'
  OBVIOUS
<1>2. /\ s \in NotesSession /\ NotesTyped /\ PagesTyped /\ s.key \in NoteKeys /\ s.to \in NoteKeys
      /\ s.page \in PageOrNone
      /\ ~indexFailed => RowsNamePages /\ Shape(s) /\ Knows(s, kept) /\ kept \subseteq Readable
  BY <1>1, Running
<1>3. UNCHANGED <<index, kept, used, opsLeft, indexFailed>> /\ s.step = "dropPage" /\ s.op # "none"
  BY <1>1, Zenon DEF ArchivePage, SessionAt
<1>4. CASE Aborts /\ UNCHANGED notePages
  BY <1>3, <1>4, Stops DEF Aborts, EndSession
<1>5. CASE /\ Works /\ session' = [session EXCEPT !.step = "dropRow"]
           /\ notePages' = [notePages EXCEPT ![session.page].state = "archived"]
  <2>1. r = Goes(s, "dropRow") /\ "dropRow" \in Steps
    BY <1>1, <1>5, Zenon DEF Goes, Steps, RetireSteps
  <2>2. /\ r \in NotesSession /\ r.op = s.op /\ r.step = "dropRow" /\ r.key = s.key /\ r.to = s.to
        /\ r.page = s.page /\ r.text = s.text /\ r.source = s.source
    BY <1>2, <2>1, GoTyped
  <2>3. PICK p : p = s.page
    OBVIOUS
  <2>4. notePages' = [notePages EXCEPT ![p].state = "archived"]
    BY <1>1, <1>5, <2>3
  <2>5. /\ PagesTyped'
        /\ \A q \in NotePages \ {p} : notePages'[q] = notePages[q]
        /\ p \in NotePages => notePages'[p].state = "archived"
    BY <1>2, <1>3, <2>4 DEF PagesTyped, NotePage
  <2>6. ASSUME ~indexFailed
        PROVE  /\ RowsNamePages' /\ Shape(r) /\ Knows(r, kept)'
               /\ kept \cap TextOn(p) \subseteq s.text /\ s.text \subseteq On(s.to) /\ On(s.to)' = On(s.to)
               /\ \A k \in NoteKeys : On(k)' = On(k) \/ On(k) \subseteq TextOn(p)
    <3>1. RowsNamePages /\ Shape(s) /\ Knows(s, kept)
      BY <1>2, <2>6
    <3>2. Shape(r) /\ Carries(s)
      BY <1>3, <2>2, <3>1 DEF Shape, ParkSteps, RetireSteps, Carries
    <3>3. /\ p \in NotePages /\ p = LivePage(s.key) /\ TextOn(p) \subseteq s.text /\ s.text \subseteq On(s.to)
          /\ index[s.to] # index[s.key]
      BY <1>3, <2>3, <3>1, <3>2 DEF Knows, RetireSteps
    <3>4. index[s.key] = p
      BY <1>2, <3>3, OnPage
    <3>5. RowsNamePages'
      BY <1>2, <1>3, <2>5, <3>1, <3>3 DEF RowsNamePages, PagesTyped, PageOrNone
    <3>6. \A k \in NoteKeys : index[k] # p => On(k)' = On(k)
      BY <1>2, <1>3, <2>5 DEF On, TextOn, PagesTyped, PageOrNone
    <3>7. \A k \in NoteKeys : index[k] = p => On(k) = TextOn(p)
      BY DEF On
    <3>8. On(s.key)' = {}
      BY <1>3, <2>5, <3>3, <3>4 DEF On, TextOn
    <3>9. On(s.to)' = On(s.to)
      BY <1>2, <3>3, <3>4, <3>6
    <3>10. /\ On(r.key)' \subseteq r.text /\ r.text \subseteq On(r.to)' /\ index'[r.to] # index'[r.key]
      BY <1>3, <2>2, <3>3, <3>8, <3>9
    <3>11. Knows(r, kept)'
      BY <2>2, <3>10 DEF Knows, ParkSteps, RetireSteps
    <3> QED BY <3>2, <3>3, <3>5, <3>6, <3>7, <3>9, <3>11
  <2>7. PICK X : X = TextOn(p)
    OBVIOUS
  <2>8. s = session /\ session' = r /\ (Fails \/ Works)
    BY <1>1, <1>5
  <2> QED BY <1>3, <2>2, <2>5, <2>6, <2>7, <2>8, CopySafe
<1> QED BY <1>4, <1>5, Zenon DEF ArchivePage, SessionGoto

\* And the row that named it, or that shared it with another key.
LEMMA ArchiveRowSafe == ASSUME NotesInv, ArchiveRow PROVE NotesInv'
<1>1. PICK s : s = session
  OBVIOUS
<1>2. /\ s \in NotesSession /\ NotesTyped /\ PagesTyped /\ s.key \in NoteKeys /\ s.to \in NoteKeys
      /\ ~indexFailed => RowsNamePages /\ Shape(s) /\ Knows(s, kept) /\ kept \subseteq Readable
  BY <1>1, Running
<1>3. UNCHANGED <<notePages, kept, used, opsLeft, indexFailed>> /\ s.step = "dropRow" /\ s.op # "none"
  BY <1>1, Zenon DEF ArchiveRow, SessionAt
<1>4. CASE Aborts /\ UNCHANGED index
  BY <1>3, <1>4, Stops DEF Aborts, EndSession
<1>5. CASE Works /\ index' = [index EXCEPT ![s.key] = NoNotePage] /\ session' = IdleSession
  <2>1. /\ PagesTyped' /\ index'[s.key] = NoNotePage
        /\ \A k \in NoteKeys \ {s.key} : index'[k] = index[k]
    BY <1>2, <1>3, <1>5 DEF PagesTyped, PageOrNone
  <2>2. \A k \in NoteKeys \ {s.key} : On(k)' = On(k)
    BY <1>3, <2>1 DEF On, TextOn
  <2>3. ASSUME ~indexFailed
        PROVE  /\ RowsNamePages'
               /\ kept \cap On(s.key) \subseteq s.text /\ s.text \subseteq On(s.to) /\ On(s.to)' = On(s.to)
               /\ \A k \in NoteKeys : On(k)' = On(k) \/ On(k) \subseteq On(s.key)
    <3>1. RowsNamePages /\ Shape(s) /\ Knows(s, kept)
      BY <1>2, <2>3
    <3>2. On(s.key) \subseteq s.text /\ s.text \subseteq On(s.to) /\ index[s.to] # index[s.key]
      BY <1>3, <3>1 DEF Knows, RetireSteps
    <3>3. RowsNamePages'
      BY <1>3, <2>1, <3>1 DEF RowsNamePages
    <3>4. s.to # s.key
      BY <3>2
    <3> QED BY <1>2, <2>2, <3>2, <3>3, <3>4
  <2>4. PICK X, r : X = On(s.key) /\ r = IdleSession
    OBVIOUS
  <2>5. s = session /\ session' = r /\ r \in NotesSession /\ Shape(r) /\ Knows(r, kept)' /\ (Fails \/ Works)
    BY <1>1, <1>5, <2>4, IdleFacts, IdleKnows
  <2> QED BY <1>3, <2>1, <2>3, <2>4, <2>5, CopySafe
<1>6. \/ Aborts /\ UNCHANGED index
      \/ Works /\ index' = [index EXCEPT ![s.key] = NoNotePage] /\ session' = IdleSession
  BY <1>1, Zenon DEF ArchiveRow, EndSession
<1> QED BY <1>4, <1>5, <1>6

\* At first every key shows what its page holds.
LEMMA NotesStart == ASSUME NotesInit PROVE NotesInv
<1> DEFINE named == {p \in NotePages : \E k \in NoteKeys : index[k] = p}
<1>1. /\ index \in [NoteKeys -> PageOrNone]
      /\ notePages = [p \in NotePages |->
             IF p \in named THEN [state |-> "live", range |-> {{p}}] ELSE [state |-> "none", range |-> {}]]
      /\ used = Cardinality(named) /\ kept = Readable /\ session = IdleSession
      /\ opsLeft = MaxOps /\ notesFaultsLeft = NoteFaults /\ indexFailed = FALSE
  BY DEF NotesInit, PageOrNone
<1>2. NotePages \subseteq Texts
  BY NotesAssumption DEF NotePages, Texts
<1>3. \A p \in NotePages :
         /\ {{p}} \in SUBSET SUBSET Texts
         /\ [state |-> "live", range |-> {{p}}] \in NotePage
         /\ [state |-> "none", range |-> {}] \in NotePage
  BY <1>2 DEF NotePage
<1>4. PagesTyped
  BY <1>1, <1>3 DEF PagesTyped
<1>5. used \in 0 .. MaxTexts
  <2>1. IsFiniteSet(NotePages) /\ Cardinality(NotePages) = MaxNotePages
    BY NotesAssumption, FS_Interval DEF NotePages
  <2>2. named \subseteq NotePages
    OBVIOUS
  <2>3. Cardinality(named) <= MaxNotePages /\ Cardinality(named) \in Nat
    BY <2>1, <2>2, FS_Subset, FS_CardinalityType
  <2> QED BY <1>1, <2>3, NotesAssumption
<1>6. \A k \in NoteKeys : On(k) \subseteq Texts
  BY <1>4, LiveText
<1>7. Readable \subseteq Texts
  BY <1>6 DEF Readable, On
<1>8. NotesTyped
  <2>1. /\ kept = Readable /\ session = IdleSession /\ opsLeft = MaxOps /\ notesFaultsLeft = NoteFaults
        /\ indexFailed = FALSE
    BY <1>1
  <2>2. opsLeft \in 0 .. MaxOps /\ notesFaultsLeft \in 0 .. NoteFaults
    <3>1. opsLeft = MaxOps /\ notesFaultsLeft = NoteFaults
      BY <2>1
    <3> QED BY <3>1, NotesAssumption
  <2>3. session \in NotesSession
    BY <2>1, IdleFacts
  <2>4. indexFailed \in BOOLEAN
    BY <2>1
  <2> HIDE DEF named
  <2> QED BY <1>4, <1>5, <1>7, <2>1, <2>2, <2>3, <2>4 DEF NotesTyped
<1>9. RowsNamePages
  BY <1>1 DEF RowsNamePages, PageOrNone
<1> QED BY <1>1, <1>8, <1>9, IdleFacts DEF NotesInv

\* What every call knows of the notes it would lose: the invariant of the checkpoint notes.
THEOREM NotesInvariant == NotesSpec => []NotesInv
<1>1. NotesInv /\ [NotesNext]_noteVars => NotesInv'
  <2> SUFFICES ASSUME NotesInv, [NotesNext]_noteVars PROVE NotesInv'
    OBVIOUS
  <2>1. CASE NotesNext
    <3>1. CASE SessionDies
      BY <3>1, Stops DEF SessionDies, Aborts, EndSession
    <3> QED BY <2>1, <3>1, BeginSafe, ReadSafe, FindSafe, MakeSafe, RowSafe, InsertSafe, DeleteSafe, StampSafe,
               CheckSafe, BlankSafe, RetireSafe, ArchivePageSafe, ArchiveRowSafe, Zenon DEF NotesNext
  <2>2. CASE UNCHANGED noteVars
    <3>1. PICK s, K : s = session /\ K = kept
      OBVIOUS
    <3>2. /\ s \in NotesSession /\ NotesTyped
          /\ ~indexFailed => Shape(s) /\ Knows(s, kept)
      BY <3>1, Running
    <3>3. /\ session' = s /\ kept' = K /\ K \in SUBSET Texts /\ K \subseteq kept
          /\ UNCHANGED <<index, notePages, indexFailed>> /\ used' \in 0 .. MaxTexts
          /\ opsLeft' \in 0 .. MaxOps /\ notesFaultsLeft' \in 0 .. NoteFaults
          /\ ~indexFailed => Shape(s) /\ Knows(s, K)
      BY <2>2, <3>1, <3>2 DEF noteVars, NotesTyped
    <3> QED BY <3>2, <3>3, Stays
  <2> QED BY <2>1, <2>2
<1> QED BY <1>1, NotesStart, PTL DEF NotesSpec

\* A text the user was told is saved stays readable until the user asks for it to be replaced, through saves,
\* parks, restores, edits and appends, a failed request or a crash after any request and shared pages, as long
\* as every index row could be written (doCheckpoint, retireParkedKey).
THEOREM SavedStays == NotesSpec => []SavedTextReadable
<1>1. NotesInv => SavedTextReadable
  BY DEF NotesInv, SavedTextReadable
<1> QED BY <1>1, NotesInvariant, PTL

\* A call has one of the operations and steps of the tool, for keys there are, and the counts keep their bounds.
THEOREM NotesAreTyped == NotesSpec => []NotesTypeOK
<1>1. NotesInv => NotesTypeOK
  <2> SUFFICES ASSUME NotesInv PROVE NotesTypeOK
    OBVIOUS
  <2>1. NotesTyped
    BY DEF NotesInv
  <2>2. /\ index \in [NoteKeys -> NotePages \cup {NoNotePage}]
        /\ \A p \in NotePages : /\ notePages[p].state \in {"none", "live", "archived"}
                                /\ notePages[p].range \subseteq SUBSET Texts
    BY <2>1 DEF NotesTyped, PagesTyped, PageOrNone, NotePage
  <2>3. /\ session.op \in NoteOps /\ session.step \in Steps
        /\ session.key \in NoteKeys /\ session.to \in NoteKeys
    BY <2>1 DEF NotesTyped, NotesSession
  <2> QED BY <2>1, <2>2, <2>3
          DEF NotesTypeOK, NotesTyped, NoteOps, Steps, SaveSteps, ParkSteps, RetireSteps
<1> QED BY <1>1, NotesInvariant, PTL

===============================================================================
