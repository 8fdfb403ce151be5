---------------------------- MODULE RunLifecycle ----------------------------
(***************************************************************************)
(* What a caller of delegate_agent is promised about one run id: the run   *)
(* is created with no step taken, takes its steps one at a time, and ends  *)
(* once, with an answer or as given up.  After its end nothing but the     *)
(* expiry of the record touches it.  AgentChain implements this.           *)
(***************************************************************************)
EXTENDS Naturals

VARIABLES
    status,     \* "none": no record (not seeded yet, or expired)
    steps       \* completed steps on record

run == <<status, steps>>

RunInit == status = "none" /\ steps = 0

Seed == status = "none" /\ status' = "running" /\ steps' = 0

TakeStep ==
    /\ status = "running"
    /\ steps' = steps + 1
    /\ UNCHANGED status

\* The answering step is counted; the hard step cap ends a run without one.
Finish ==
    /\ status = "running"
    /\ status' = "done"
    /\ steps' \in {steps, steps + 1}

GiveUp ==
    /\ status = "running"
    /\ status' = "failed"
    /\ UNCHANGED steps

Expire == status' = "none" /\ steps' = 0

RunNext == Seed \/ TakeStep \/ Finish \/ GiveUp \/ Expire

RunSpec == RunInit /\ [][RunNext]_run
=============================================================================
