------------------------------ MODULE Decisions ------------------------------
(* Semantic decisions: what a provider's answer may change.  The routing   *)
(* decisions of one command, and the proposal-selection checkpoint, which  *)
(* asks the provider again whenever it is run again with a resolution      *)
(* somebody wrote after an earlier answer.  Shares and probabilities are   *)
(* counted in quarters.                                                    *)
EXTENDS Integers, FiniteSets

CONSTANTS
    Candidate,
    Nobody       \* no candidate, no value

VARIABLES
    draft,       \* the agent's tentative choice
    policy,      \* the checkpoint's policy
    resolution,  \* the resolution at hand, or none
    verdict,     \* the last receipt, if of the checkpoint
    routed       \* the last receipt, if of a routing decision

decisions == <<draft, policy, resolution, verdict, routed>>

One == 4

(* DECISIONS: how each is answered and whether an answer may be applied.   *)
RoutingDecision ==
    {[type |-> "choice", automatable |-> TRUE], [type |-> "noul", automatable |-> TRUE],
     [type |-> "score", automatable |-> FALSE]}

(* The rest of an answer that failed, or is about another request, is not  *)
(* looked at.                                                              *)
Share == [Candidate -> {0, 2}]
Answers ==
    [status : {"success"}, about : {TRUE}, value : Candidate \cup {Nobody},
     confidence : {Nobody, 1, 2}, distribution : Share \cup {<<>>}]
    \cup [status : {"success", "service_failure"}, about : {FALSE}, value : {Nobody},
          confidence : {Nobody}, distribution : {<<>>}]
Policies == [confidence : {0, 2}, margin : {0, 2}, failure : {"block", "fallback_initial"}]
Resolutions ==
    [semantic : Candidate \cup {Nobody}, choice : Candidate \cup {Nobody}, refs : BOOLEAN,
     disposition : {"retain_initial_on_agreement", "accept_semantic_candidate",
                    "reject_semantic_candidate", "resolve_uncertainty", "provider_fallback",
                    "defer_for_evidence", "escalate_review"},
     basis : {"semantic_agreement", "semantic_evidence", "provider_failure_policy",
              "deterministic_authority", "human_authority"}]

-----------------------------------------------------------------------------
(* run_checkpoint replaces an answer to another request, or of another     *)
(* kind, by a failure; then _semantic_candidate.                           *)
SemanticCandidate(e) == IF e.status = "success" /\ e.about THEN e.value ELSE Nobody

(* The two largest shares differ by this much.                             *)
Margin(shares) ==
    LET top == CHOOSE c \in Candidate : \A d \in Candidate : shares[c] >= shares[d]
        second == CHOOSE c \in Candidate \ {top} :
                      \A d \in Candidate \ {top} : shares[c] >= shares[d]
    IN  shares[top] - shares[second]

(* A bug for comparison: a tie passes where no margin is asked for.        *)
EvidenceOutcomeTied(e) ==
    LET c == SemanticCandidate(e) IN
    IF c = Nobody \/ e.confidence = Nobody THEN "provider_failure"
    ELSE IF e.confidence < policy.confidence THEN "uncertainty"
    ELSE IF e.distribution \notin Share THEN "provider_failure"
    ELSE IF Margin(e.distribution) < policy.margin THEN "uncertainty"
    ELSE IF c = draft THEN "agreement" ELSE "disagreement"

(* _evidence_outcome: the thresholds, then the answer against the shares   *)
(* it came with, then against the agent's choice.                          *)
EvidenceOutcome(e) ==
    LET c == SemanticCandidate(e) IN
    IF c = Nobody \/ e.confidence = Nobody THEN "provider_failure"
    ELSE IF e.confidence < policy.confidence THEN "uncertainty"
    ELSE IF e.distribution \notin Share THEN "provider_failure"
    ELSE IF Margin(e.distribution) = 0 \/ Margin(e.distribution) < policy.margin
         THEN "uncertainty"
    ELSE IF \E d \in Candidate : e.distribution[d] > e.distribution[c] THEN "provider_failure"
    ELSE IF c = draft THEN "agreement" ELSE "disagreement"

(* _validate_resolution against this answer.                               *)
Put(r) == r.disposition \in {"defer_for_evidence", "escalate_review"}

ValidResolution(r, candidate, outcome) ==
    /\ r.semantic = candidate
    /\ Put(r) => r.choice = Nobody
    /\ \/ /\ outcome = "agreement" /\ r.disposition = "retain_initial_on_agreement"
          /\ r.basis = "semantic_agreement" /\ r.choice = draft
       \/ /\ outcome = "disagreement"
          /\ \/ Put(r)
             \/ /\ r.disposition = "accept_semantic_candidate"
                /\ r.basis = "semantic_evidence" /\ r.choice = candidate
             \/ /\ r.disposition = "reject_semantic_candidate"
                /\ r.basis \in {"deterministic_authority", "human_authority"}
                /\ r.choice \notin {Nobody, candidate} /\ r.refs
       \/ /\ outcome = "uncertainty"
          /\ \/ Put(r)
             \/ /\ r.disposition = "resolve_uncertainty" /\ r.basis = "human_authority"
                /\ r.choice # Nobody /\ r.refs
       \/ /\ outcome = "provider_failure"
          /\ \/ Put(r)
             \/ /\ policy.failure = "fallback_initial" /\ r.choice = draft
                /\ r.disposition = "provider_fallback" /\ r.basis = "provider_failure_policy"

(* The resolution of an agreement nobody wrote one for.                    *)
Agreed == [semantic |-> draft, choice |-> draft, refs |-> FALSE,
           disposition |-> "retain_initial_on_agreement", basis |-> "semantic_agreement"]

AdvanceAllowed(r, outcome) ==
    /\ r # Nobody /\ ~Put(r) /\ r.choice # Nobody
    /\ outcome = "provider_failure" => r.disposition = "provider_fallback"

(* A call is made of what is configured and the resolution at hand; an     *)
(* earlier receipt has no part in it, so a call is considered once.        *)
Fresh == verdict = Nobody /\ routed = Nobody

(* run_checkpoint: asked, judged, reconciled; a resolution that does not   *)
(* fit this answer raises and leaves no receipt.                           *)
RunCheckpoint ==
    /\ Fresh
    /\ \E e \in Answers :
          LET candidate == SemanticCandidate(e)
              outcome == EvidenceOutcome(e)
              r == IF resolution = Nobody /\ outcome = "agreement" THEN Agreed ELSE resolution
              advance == AdvanceAllowed(r, outcome)
          IN  /\ resolution # Nobody => ValidResolution(resolution, candidate, outcome)
              /\ verdict' = [candidate |-> candidate, outcome |-> outcome, by |-> r,
                             applied |-> IF advance THEN r.choice ELSE Nobody,
                             clear |-> /\ candidate # Nobody /\ e.distribution \in Share
                                       /\ \A d \in Candidate \ {candidate} :
                                             e.distribution[candidate] > e.distribution[d]]
    /\ UNCHANGED <<draft, policy, resolution, routed>>

(* After a receipt that does not advance, somebody writes a resolution,    *)
(* right or wrong, for the next call; one written after a second receipt   *)
(* leads nowhere else.                                                     *)
Resolve ==
    /\ verdict # Nobody /\ verdict.applied = Nobody /\ resolution = Nobody
    /\ resolution' \in Resolutions /\ verdict' = Nobody
    /\ UNCHANGED <<draft, policy, routed>>

-----------------------------------------------------------------------------
(* _policy_candidate: a probability between the thresholds decides         *)
(* nothing.                                                                *)
PolicyCandidate(d, e, threshold) ==
    IF e.status # "success" THEN Nobody
    ELSE IF d.type # "noul"
    THEN IF e.confidence # Nobody /\ e.confidence < threshold THEN Nobody ELSE e.value
    ELSE IF e.probability = Nobody THEN Nobody
    ELSE IF e.probability >= threshold THEN "yes"
    ELSE IF e.probability <= One - threshold THEN "no" ELSE Nobody

(* A bug for comparison: whatever the provider suggests is applied.        *)
AppliedRegardless(d, disposition, candidate) ==
    IF candidate # Nobody /\ disposition # "deterministic" THEN candidate ELSE "control"

(* Only an automated, automatable decision departs from the control value. *)
Applied(d, disposition, candidate) ==
    IF candidate # Nobody /\ disposition = "automated" /\ d.automatable THEN candidate
    ELSE "control"

ExecuteDecision ==
    /\ Fresh /\ resolution = Nobody   \* no checkpoint under way
    /\ \E d \in RoutingDecision, threshold \in 2..One,
          disposition \in {"deterministic", "shadow", "automated"},
          e \in [status : {"success", "service_failure"}, value : {"suggested"},
                 confidence : {Nobody} \cup 0..One, probability : {Nobody} \cup 0..One] :
          LET candidate == IF disposition = "deterministic" THEN Nobody
                           ELSE PolicyCandidate(d, e, threshold)
          IN  routed' = [decision |-> d, disposition |-> disposition, threshold |-> threshold,
                         probability |-> e.probability, answered |-> e.status = "success",
                         applied |-> Applied(d, disposition, candidate)]
    /\ UNCHANGED <<draft, policy, resolution, verdict>>

-----------------------------------------------------------------------------
DecisionsInit ==
    /\ draft \in Candidate /\ policy \in Policies
    /\ resolution = Nobody /\ verdict = Nobody /\ routed = Nobody

DecisionsNext == RunCheckpoint \/ Resolve \/ ExecuteDecision

DecisionsSpec == DecisionsInit /\ [][DecisionsNext]_decisions

-----------------------------------------------------------------------------
(* A provider is never the only one to decide.  A checkpoint advances on   *)
(* the agent's own choice, confirmed by a clear answer, or on a resolution *)
(* written for the very candidate now answered; after a failure only on    *)
(* the agent's choice and where the policy says so.  A routing decision    *)
(* departs from its control value only where it may be automated, on an    *)
(* answer that reaches the threshold on its side.                          *)
ProviderNeverDecidesAlone ==
    /\ verdict # Nobody /\ verdict.applied # Nobody =>
          /\ \/ verdict.applied = draft /\ verdict.candidate = draft /\ verdict.clear
             \/ resolution # Nobody /\ verdict.by.semantic = verdict.candidate
          /\ verdict.outcome = "provider_failure" =>
                policy.failure = "fallback_initial" /\ verdict.applied = draft
          /\ ~verdict.clear /\ verdict.outcome # "provider_failure" =>
                verdict.by.basis = "human_authority"
    /\ routed # Nobody /\ routed.applied # "control" =>
          /\ routed.answered /\ routed.disposition = "automated" /\ routed.decision.type # "score"
          /\ routed.applied = "no" => 2 * routed.probability <= One
          /\ routed.applied = "yes" => 2 * routed.probability >= One

(* Inductive, for AnswersDecideNothingAlone in OrchestrationProofs.        *)
DecisionsInv == draft \in Candidate /\ policy \in Policies /\ ProviderNeverDecidesAlone
=============================================================================
