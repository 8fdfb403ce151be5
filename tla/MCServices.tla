----------------------------- MODULE MCServices -----------------------------
(***************************************************************************)
(* The services the connectors rest on, side by side: the repository map's *)
(* scan worker, the walk over models and keys, and the pacing of requests. *)
(* They share no state, so a behaviour moves one of them, chosen at the    *)
(* start, and the others stay as they began.                               *)
(***************************************************************************)
EXTENDS ScanJobs, KeyCascade, RequestQueue, TLC

CONSTANTS
    Services,           \* the services the run is about
    main, lib, copy     \* files of the repository

ASSUME ServicesAssumption == Services \subseteq {"scan", "cascade", "queue"}

VARIABLE moving         \* the service that moves

servicesVars == <<scanVars, cascadeVars, queueVars, moving>>

\* A service that does not move starts in one state only.
ServicesInit ==
    /\ moving \in Services
    /\ moving # "scan" => head = "t1" /\ scanLeft = CHOOSE b \in ScanBudgets : TRUE
    /\ ScanInit
    /\ moving # "cascade" => provider = "glm" /\ turn = 0
    /\ CascadeInit
    /\ moving # "queue" => upstream = "github"
    /\ QueueInit

ScanMoves == moving = "scan" /\ ScanNext /\ UNCHANGED <<cascadeVars, queueVars, moving>>
CascadeMoves == moving = "cascade" /\ CascadeNext /\ UNCHANGED <<scanVars, queueVars, moving>>
QueueMoves == moving = "queue" /\ QueueNext /\ UNCHANGED <<scanVars, cascadeVars, moving>>

ServicesNext == ScanMoves \/ CascadeMoves \/ QueueMoves

ServicesSpec == ServicesInit /\ [][ServicesNext]_servicesVars /\ ScanFairness

-----------------------------------------------------------------------------
AllServices == {"scan", "cascade", "queue"}

\* main calls n, and n of a value k, and imports lib; lib and copy both define n.  Lib is edited,
\* so that its n is a method that calls itself, or removed.
CallOfN == [on |-> None, name |-> "n"]
CallOn(receiver) == [on |-> receiver, name |-> "n"]
DefOfN == [name |-> "n", class |-> None]
MethodN == [name |-> "n", class |-> "K"]
Texts == [m1 |-> [defs |-> {}, calls |-> {CallOfN, CallOn("k")}, imports |-> {lib}],
          l1 |-> [defs |-> {DefOfN}, calls |-> {}, imports |-> {}],
          l2 |-> [defs |-> {MethodN}, calls |-> {CallOn(Self)}, imports |-> {}],
          c1 |-> [defs |-> {DefOfN}, calls |-> {}, imports |-> {}]]
Commits == {"t1", "t2", "t3"}
CommitTree == [t1 |-> (main :> "m1" @@ lib :> "l1" @@ copy :> "c1"),
               t2 |-> (main :> "m1" @@ lib :> "l2" @@ copy :> "c1"),
               t3 |-> (main :> "m1" @@ lib :> None @@ copy :> "c1")]

NoTrouble == [push |-> 1, fault |-> 0, crash |-> 0, embed |-> 0]
Troubles == {[NoTrouble EXCEPT !.fault = 1], [NoTrouble EXCEPT !.crash = 1],
             [NoTrouble EXCEPT !.embed = 1]}

Clients == {"gemini", "glm", "groq", "bai", "exa", "embed"}

\* The state of the service that moves is well typed.
ServicesTypeOK ==
    CASE moving = "scan" -> ScanTypeOK
      [] moving = "cascade" -> CascadeTypeOK
      [] moving = "queue" -> QueueTypeOK

\* What scans leave: the index has the content of the commit scanned last, and every edge its
\* target.
IndexHealed == IndexTrue /\ EdgesHealed

\* What the clients promise: a call that fails has left no model and key untried that might have
\* served it, and paced requests go out one by one, are not held up by a failed one and are
\* not carried out twice.
CallsSound == WalkHonest /\ QueueSound
=============================================================================
