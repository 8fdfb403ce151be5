---------------------------- MODULE MCAgentChain ----------------------------
(***************************************************************************)
(* Small instances of AgentChain: which hazards strike, and how often.     *)
(***************************************************************************)
EXTENDS AgentChain, TLC

NoHazard == [h \in Hazards |-> 0]

\* Every message is handled by exactly one process; calls fail, processes die.
SerialBudget ==
    [NoHazard EXCEPT !["kill"] = 2, !["load"] = 1, !["save"] = 1,
                     !["publish"] = 1, !["outage"] = 1]
\* QStash repeats itself and loses responses, and the record may expire.
DeliveryBudget ==
    [NoHazard EXCEPT !["duplicate"] = 1, !["disconnect"] = 1,
                     !["expire"] = 1]
\* QStash loses responses but delivers nothing twice.
LostResponseBudget == [NoHazard EXCEPT !["disconnect"] = 1, !["lostack"] = 1]
\* The chain breaks at any point and callers push it on.
StallBudget == [NoHazard EXCEPT !["kill"] = 1, !["publish"] = 1]

Symmetric == Permutations(MessageIds) \cup Permutations(Invocations)
=============================================================================
