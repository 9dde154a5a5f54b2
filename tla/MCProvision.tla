----------------------------- MODULE MCProvision -----------------------------
(* How a run comes to have a worker, on one small instance each: a         *)
(* prepared run directory with a leased name, the contract written into    *)
(* it, an external run bound to a host, and a delegated ticket with its    *)
(* worktree.  They share no state the models speak of, so a behaviour      *)
(* follows one of them.                                                    *)
EXTENDS Preparation, ExternalWorker, LaunchContract, Delegation, TLC

CONSTANTS i1, i2, a, b, c1, c2, c3, h1, h2, m1, m2

VARIABLE part

provision == <<preparation, external, launch, delegation, part>>

Interchangeable ==
    Permutations({i1, i2}) \cup Permutations({a, b}) \cup Permutations({c1, c2, c3})

(* The components a behaviour does not follow start in one fixed state.    *)
Init ==
    /\ part \in {"preparation", "external", "launch", "delegation"}
    /\ PreparationInit /\ ExternalInit /\ LaunchInit /\ DelegationInit
    /\ part = "launch" \/ given = CHOOSE g \in Request : TRUE

Next ==
    \/ part = "preparation" /\ PreparationNext
       /\ UNCHANGED <<external, launch, delegation, part>>
    \/ part = "external" /\ ExternalNext
       /\ UNCHANGED <<preparation, launch, delegation, part>>
    \/ part = "launch" /\ LaunchNext
       /\ UNCHANGED <<preparation, external, delegation, part>>
    \/ part = "delegation" /\ DelegationNext
       /\ UNCHANGED <<preparation, external, launch, part>>

Spec == Init /\ [][Next]_provision
=============================================================================
