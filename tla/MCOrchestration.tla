--------------------------- MODULE MCOrchestration ---------------------------
(* What a host does with several runs, on one small instance each: the     *)
(* workflow scheduler, task chains, repository closeout, decision          *)
(* checkpoints, and the supervised commands under them all.  They share no *)
(* state the models speak of, so a behaviour follows one of them.          *)
EXTENDS MCWorkflow, Chain, Closeout, Decisions, Command

CONSTANTS a, b, r1, r2, h1, h2, c1

VARIABLE part

orchestration == <<vars, chains, closeout, decisions, supervisedCall, part>>

(* Task plans: the first task depends on the other, and a cycle, which is  *)
(* no plan.                                                                *)
Tasks == 1..2
Plans == {[t \in Tasks |-> IF t = 1 THEN {2} ELSE {}],
          [t \in Tasks |-> {1 + (t % 2)}]}

(* The components a behaviour does not follow start in one fixed state.    *)
(* What a command reads does not change what its result says, so that it   *)
(* is given no input here.                                                 *)
OrchestrationInit ==
    /\ part \in {"workflow", "chain", "closeout", "decisions", "command"}
    /\ Init /\ ChainInit /\ CloseoutInit /\ DecisionsInit /\ CommandInit
    /\ part = "workflow" \/ snapshot = Graph("task", {}, {1}, {2}, {1})
    /\ part = "decisions" \/ (draft = a /\ policy = CHOOSE p \in Policies : TRUE)
    /\ ~asked.input
    /\ part = "command" \/ (~asked.deadline /\ stubborn = {} /\ kin = "none")

OrchestrationNext ==
    \/ part = "workflow" /\ Next
       /\ UNCHANGED <<chains, closeout, decisions, supervisedCall, part>>
    \/ part = "chain" /\ ChainNext
       /\ UNCHANGED <<vars, closeout, decisions, supervisedCall, part>>
    \/ part = "closeout" /\ CloseoutNext
       /\ UNCHANGED <<vars, chains, decisions, supervisedCall, part>>
    \/ part = "decisions" /\ DecisionsNext
       /\ UNCHANGED <<vars, chains, closeout, supervisedCall, part>>
    \/ part = "command" /\ CommandNext
       /\ UNCHANGED <<vars, chains, closeout, decisions, part>>

OrchestrationSpec == OrchestrationInit /\ [][OrchestrationNext]_orchestration
=============================================================================
