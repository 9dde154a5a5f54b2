--------------------------- MODULE ProvisionProofs ---------------------------
(***************************************************************************)
(* Proofs about the components of MCProvision, each on its own and for any *)
(* number of runs, commands, hosts and edits.                              *)
(***************************************************************************)
EXTENDS Preparation, Delegation, ExternalWorker, LaunchContract, TLAPS

(* No worktree, no run, no command.                                        *)
LEMMA DelegationInitInv == DelegationInit => DelegationInv
  <1> SUFFICES ASSUME DelegationInit PROVE DelegationInv
    OBVIOUS
  <1>1. DelegationTypeOK
    BY DEF DelegationInit, DelegationTypeOK, NotDelegated
  <1>2. OneOwner /\ WorktreeNotShared
    BY DEF DelegationInit, OneOwner, Owner, WorktreeNotShared, NotCalled, NotDelegated
  <1> QED
    BY <1>1, <1>2 DEF DelegationInv

(* The steps of a command that only look, and those that give up.          *)
LEMMA DelegatorLooks ==
  ASSUME DelegationInv, NEW c \in Delegator,
         \/ \E r \in DelegatedRun, in \in Inputs : Delegate(c, r, in)
         \/ CheckDestination(c) \/ MatchExisting(c) \/ KillDelegator(c)
  PROVE  DelegationInv'
  <1> USE DEF Doing, Continue, Return
  <1>1. UNCHANGED <<destination, creations, pulled, delegated>>
    BY DEF Delegate, CheckDestination, MatchExisting, KillDelegator
  <1>2. DelegationTypeOK' /\ (\A d \in Delegator : Owner(d)' => Owner(d))
    <2>1. ASSUME NEW r \in DelegatedRun, NEW in \in Inputs, Delegate(c, r, in)
          PROVE  DelegationTypeOK' /\ (\A d \in Delegator : Owner(d)' => Owner(d))
      BY <1>1, <2>1 DEF Delegate, DelegationInv, DelegationTypeOK, Owner, NotCalled
    <2>2. CASE CheckDestination(c)
      BY <1>1, <2>2 DEF CheckDestination, DelegationInv, DelegationTypeOK, Owner, NotCalled
    <2>3. CASE MatchExisting(c)
      BY <1>1, <2>3 DEF MatchExisting, DelegationInv, DelegationTypeOK, Owner, NotCalled
    <2>4. CASE KillDelegator(c)
      BY <1>1, <2>4 DEF KillDelegator, DelegationInv, DelegationTypeOK, Owner, NotCalled
    <2> QED
      BY <2>1, <2>2, <2>3, <2>4
  <1> QED
    BY <1>1, <1>2 DEF DelegationInv, OneOwner, WorktreeNotShared

(* git worktree add makes the one owner; preparing the run ends that.      *)
LEMMA DelegatorActs ==
  ASSUME DelegationInv, NEW c \in Delegator,
         AddWorktree(c) \/ PrepareDelegated(c) \/ StartDelegated(c)
  PROVE  DelegationInv'
  <1> USE DEF Doing, Continue, Return, Update
  <1>1. CASE AddWorktree(c)
    <2>1. DelegationTypeOK'
      <3>1. \/ destination' = destination /\ creations' = creations
            \/ /\ destination' = [there |-> TRUE, branch |-> TRUE, creation |-> creations + 1]
               /\ creations' = creations + 1
        BY <1>1 DEF AddWorktree
      <3>2. creations + 1 \in Nat
        BY DEF DelegationInv, DelegationTypeOK
      <3>3. destination' \in [there : BOOLEAN, branch : BOOLEAN, creation : Nat]
            /\ creations' \in Nat
        <4>1. CASE destination' = destination /\ creations' = creations
          BY <4>1 DEF DelegationInv, DelegationTypeOK
        <4>2. [there |-> TRUE, branch |-> TRUE, creation |-> creations + 1]
                 \in [there : BOOLEAN, branch : BOOLEAN, creation : Nat]
          BY <3>2
        <4> QED
          BY <3>1, <3>2, <4>1, <4>2
      <3> QED
        BY <1>1, <3>3 DEF AddWorktree, DelegationInv, DelegationTypeOK, NotCalled
    <2>2. OneOwner'
      BY <1>1 DEF AddWorktree, DelegationInv, DelegationTypeOK, OneOwner, Owner, NotCalled
    <2>3. WorktreeNotShared'
      BY <1>1 DEF AddWorktree, DelegationInv, WorktreeNotShared
    <2> QED
      BY <2>1, <2>2, <2>3 DEF DelegationInv
  <1>2. CASE PrepareDelegated(c)
    <2>1. DelegationTypeOK'
      BY <1>2 DEF PrepareDelegated, DelegationInv, DelegationTypeOK, NotCalled, NotDelegated
    <2>2. OneOwner'
      <3>1. UNCHANGED <<destination, creations, pulled>>
        BY <1>2 DEF PrepareDelegated
      <3>2. /\ ~Owner(c)'
            /\ \A d \in Delegator : Owner(d)' => Owner(d)
        BY <1>2 DEF PrepareDelegated, DelegationInv, DelegationTypeOK, Owner, NotCalled,
                    NotDelegated
      <3>3. \/ delegated' = delegated
            \/ Owner(c) /\ \A r \in DelegatedRun :
                               \/ delegated'[r] = delegated[r]
                               \/ delegated'[r].bound \in {0, destination.creation}
        <4> DEFINE me == delegator[c].run
        <4>1. \/ delegated' = delegated
              \/ /\ Doing(c, "prepare") /\ delegated[me].dir = "none"
                 /\ \/ delegated' = [delegated EXCEPT ![me] =
                          [dir |-> "prepared", inputs |-> delegator[c].inputs,
                           bound |-> destination.creation]]
                    \/ delegated' = [delegated EXCEPT ![me] =
                          [dir |-> "partial", inputs |-> {}, bound |-> 0]]
          BY <1>2 DEF PrepareDelegated, NotDelegated
        <4> QED
          BY <4>1 DEF DelegationInv, DelegationTypeOK, Owner
      <3>4. \A r \in DelegatedRun : delegated'[r].bound <= creations
        BY <3>3 DEF DelegationInv, DelegationTypeOK, OneOwner
      <3> QED
        BY <3>1, <3>2, <3>3, <3>4 DEF DelegationInv, DelegationTypeOK, OneOwner
    <2>3. WorktreeNotShared'
      <3> DEFINE me == delegator[c].run
      <3>1. CASE delegated' = delegated
        BY <1>2, <3>1 DEF PrepareDelegated, DelegationInv, WorktreeNotShared
      <3>2. CASE /\ Doing(c, "prepare") /\ delegated[me].dir = "none"
                 /\ delegated' = [delegated EXCEPT ![me] =
                          [dir |-> "prepared", inputs |-> delegator[c].inputs,
                           bound |-> destination.creation]]
        <4>1. Owner(c) /\ pulled' = pulled
          BY <1>2, <3>2 DEF PrepareDelegated, Owner
        <4>2. ~pulled => \A r \in DelegatedRun : delegated[r].bound # destination.creation
          BY <4>1 DEF DelegationInv, OneOwner
        <4> QED
          BY <3>2, <4>1, <4>2 DEF DelegationInv, DelegationTypeOK, WorktreeNotShared
      <3>3. CASE delegated' = [delegated EXCEPT ![me] =
                                  [dir |-> "partial", inputs |-> {}, bound |-> 0]]
        <4>1. pulled' = pulled
          BY <1>2 DEF PrepareDelegated
        <4> QED
          BY <3>3, <4>1 DEF DelegationInv, DelegationTypeOK, WorktreeNotShared
      <3> QED
        BY <1>2, <3>1, <3>2, <3>3 DEF PrepareDelegated, NotDelegated
    <2> QED
      BY <2>1, <2>2, <2>3 DEF DelegationInv
  <1>3. CASE StartDelegated(c)
    <2>1. DelegationTypeOK'
      BY <1>3 DEF StartDelegated, DelegationInv, DelegationTypeOK, NotCalled
    <2>2. OneOwner'
      <3>1. /\ UNCHANGED <<destination, creations, pulled>>
            /\ \A r \in DelegatedRun : /\ delegated'[r].bound = delegated[r].bound
                                       /\ delegated'[r].dir = "none" => delegated[r].dir = "none"
        BY <1>3 DEF StartDelegated, DelegationInv, DelegationTypeOK
      <3>2. \A d \in Delegator : delegator'[d] = delegator[d] \/ delegator'[d] = NotCalled
        BY <1>3 DEF StartDelegated, DelegationInv, DelegationTypeOK
      <3>3. \A d \in Delegator : Owner(d)' => Owner(d)
        <4>1. \A d \in Delegator : delegator[d].step \in {"match", "prepare"} =>
                                     delegator[d].run \in DelegatedRun
          BY DEF DelegationInv, DelegationTypeOK, NotCalled
        <4>2. NotCalled.step \notin {"match", "prepare"}
          BY DEF NotCalled
        <4>3. ASSUME NEW d \in Delegator, Owner(d)' PROVE Owner(d)
          <5>1. delegator'[d] = delegator[d]
            BY <3>2, <4>2, <4>3 DEF Owner
          <5> QED
            BY <3>1, <4>1, <4>3, <5>1 DEF Owner
        <4> QED
          BY <4>3
      <3>4. OneOwner
        BY DEF DelegationInv
      <3>5. /\ destination'.creation <= creations'
            /\ \A r \in DelegatedRun : delegated'[r].bound <= creations'
        BY <3>1, <3>4 DEF OneOwner
      <3>6. ASSUME ~pulled', NEW d \in Delegator, Owner(d)'
            PROVE  /\ destination'.there
                   /\ \A r \in DelegatedRun : delegated'[r].bound # destination'.creation
                   /\ \A e \in Delegator : Owner(e)' => e = d
        BY <3>1, <3>3, <3>4, <3>6 DEF OneOwner
      <3> QED
        BY <3>5, <3>6 DEF OneOwner
    <2>3. WorktreeNotShared'
      BY <1>3 DEF StartDelegated, DelegationInv, DelegationTypeOK, WorktreeNotShared
    <2> QED
      BY <2>1, <2>2, <2>3 DEF DelegationInv
  <1> QED
    BY <1>1, <1>2, <1>3

(* However delegations of one ticket race, die and are repeated, no        *)
(* worktree becomes the workdir of two runs, for any number of commands    *)
(* and runs, unless one is removed under a command that counts on it       *)
(* (delegation.py and worktrees.py take no common lock).                   *)
THEOREM WorktreesNotShared == DelegationSpec => []WorktreeNotShared
  <1>1. DelegationInv /\ [DelegationNext]_delegation => DelegationInv'
    <2> SUFFICES ASSUME DelegationInv, [DelegationNext]_delegation PROVE DelegationInv'
      OBVIOUS
    <2>1. CASE RemoveWorktree
      <3>1. DelegationTypeOK'
        BY <2>1 DEF RemoveWorktree, DelegationInv, DelegationTypeOK
      <3> QED
        BY <2>1, <3>1 DEF RemoveWorktree, DelegationInv, DelegationTypeOK, OneOwner, Owner,
                          WorktreeNotShared
    <2>2. CASE UNCHANGED delegation
      BY <2>2 DEF delegation, DelegationInv, DelegationTypeOK, OneOwner, Owner,
                  WorktreeNotShared
    <2> QED
      BY <2>1, <2>2, DelegatorLooks, DelegatorActs DEF DelegationNext
  <1>2. DelegationInv => WorktreeNotShared
    BY DEF DelegationInv
  <1> QED
    BY DelegationInitInv, <1>1, <1>2, PTL DEF DelegationSpec

-----------------------------------------------------------------------------
(* Nobody bound, nothing in progress.                                      *)
LEMMA ExternalInitInv == ExternalInit => ExternalInv
  <1> SUFFICES ASSUME ExternalInit PROVE ExternalInv
    OBVIOUS
  <1> USE ExternalAssumption DEF ExternalAssumption
  <1>1. ExternalTypeOK
    <2>1. workerId \in BOOLEAN /\ dispatched \in BOOLEAN /\ raced \in BOOLEAN
      BY DEF ExternalInit
    <2>2. op \in [Command -> [kind : Kinds, generation : 0..MaxGeneration, step : Steps]
                                \cup {Idle}]
      BY DEF ExternalInit
    <2>3. 0 \in 0..MaxGeneration /\ projection \in [Generation -> {"none", "open", "pending", "retired"}]
      BY DEF ExternalInit
    <2> QED
      BY <2>1, <2>2, <2>3 DEF ExternalInit, ExternalTypeOK
  <1>2. DeliveryUnderCurrentBinding /\ HostActsOnRecord /\ CheckedStillHolds
    BY DEF ExternalInit, DeliveryUnderCurrentBinding, HostActsOnRecord, CheckedStillHolds, Idle, Bound
  <1> QED
    BY <1>1, <1>2 DEF ExternalInv, ExternalSafe

(* bind and unbind wait for the gate, so that no report is between its     *)
(* check and its record.                                                   *)
LEMMA BindingKeepsInv ==
  ASSUME ExternalInv, (\E h \in Host : BindHost(h)) \/ UnbindHost
  PROVE  ExternalInv'
  <1> USE ExternalAssumption DEF ExternalAssumption, host
  <1>1. /\ gate = Nobody
        /\ UNCHANGED <<execution, workerId, exitGeneration, gate, op, deliveries, dispatched,
                       raced, projection, closed>>
    BY DEF BindHost, UnbindHost
  <1>2. ExternalTypeOK'
    BY <1>1 DEF BindHost, UnbindHost, ExternalInv, ExternalSafe, ExternalTypeOK
  <1>3. \A c \in Command : op[c].kind # "report"
    BY <1>1 DEF ExternalInv, CheckedStillHolds
  <1>4. (Bound => generation \in Generation)'
    BY <1>2 DEF BindHost, UnbindHost, ExternalInv, ExternalSafe, ExternalTypeOK, Bound,
                Generation
  <1> QED
    BY <1>1, <1>2, <1>3, <1>4 DEF ExternalInv, ExternalSafe, DeliveryUnderCurrentBinding,
                                  HostActsOnRecord, CheckedStillHolds

(* start, retire and finalize: only a start that did not see a retirement  *)
(* takes a run back from its end.                                          *)
LEMMA ExecutionKeepsInv ==
  ASSUME ExternalInv,
         \/ FinalizeExternal
         \/ \E c \in Command : \/ \E g \in Generation : StartCheck(c, g)
                               \/ StartTransition(c) \/ StartAppend(c)
                               \/ RetireCheck(c) \/ RetireTransition(c) \/ RetireAppend(c)
  PROVE  ExternalInv'
  <1> USE ExternalAssumption
      DEF ExternalAssumption, host, binding, Going, Enter, Proceed, Leave, AppendEvent
  <1>1. UNCHANGED <<binding, exitGeneration, gate, deliveries, dispatched, host>>
        /\ (workerId => workerId')
    BY DEF FinalizeExternal, StartCheck, StartTransition, StartAppend, RetireCheck,
           RetireTransition, RetireAppend
  <1>2. ExternalTypeOK'
    <2> USE DEF ExternalInv, ExternalSafe, ExternalTypeOK
    <2>1. execution' \in {"prepared", "running"} \cup Ended
      BY DEF FinalizeExternal, StartCheck, StartTransition, StartAppend, RetireCheck,
             RetireTransition, RetireAppend, Ended
    <2>2. workerId' \in BOOLEAN /\ raced' \in BOOLEAN
      BY DEF FinalizeExternal, StartCheck, StartTransition, StartAppend, RetireCheck,
             RetireTransition, RetireAppend
    <2>3. op' \in [Command -> [kind : Kinds, generation : 0..MaxGeneration, step : Steps]
                                 \cup {Idle}]
      <3>1. CASE FinalizeExternal
        BY <3>1 DEF FinalizeExternal
      <3>2. ASSUME NEW c \in Command, NEW g \in Generation, StartCheck(c, g)
            PROVE  op' \in [Command -> [kind : Kinds, generation : 0..MaxGeneration,
                                        step : Steps] \cup {Idle}]
        BY <3>2 DEF StartCheck, Kinds, Steps, Generation
      <3>3. ASSUME NEW c \in Command, StartTransition(c) \/ RetireTransition(c)
            PROVE  op' \in [Command -> [kind : Kinds, generation : 0..MaxGeneration,
                                        step : Steps] \cup {Idle}]
        <4>1. op[c] # Idle
          BY <3>3 DEF StartTransition, RetireTransition, Idle
        <4>2. [op[c] EXCEPT !.step = "valid"]
                 \in [kind : Kinds, generation : 0..MaxGeneration, step : Steps]
          BY <4>1 DEF Steps
        <4> QED
          BY <3>3, <4>2 DEF StartTransition, RetireTransition
      <3>4. ASSUME NEW c \in Command, StartAppend(c) \/ RetireAppend(c)
            PROVE  op' \in [Command -> [kind : Kinds, generation : 0..MaxGeneration,
                                        step : Steps] \cup {Idle}]
        BY <3>4 DEF StartAppend, RetireAppend
      <3>5. ASSUME NEW c \in Command, RetireCheck(c)
            PROVE  op' \in [Command -> [kind : Kinds, generation : 0..MaxGeneration,
                                        step : Steps] \cup {Idle}]
        BY <3>5 DEF RetireCheck, Kinds, Steps
      <3> QED
        BY <3>1, <3>2, <3>3, <3>4, <3>5
    <2> QED
      BY <1>1, <2>1, <2>2, <2>3
  <1>3. execution \in Ended \/ raced => execution' \in Ended \/ raced'
    BY DEF FinalizeExternal, StartCheck, StartTransition, StartAppend, RetireCheck,
           RetireTransition, RetireAppend, Ended
  <1>4. \A d \in Command :
          op'[d] = op[d] \/ op'[d] = Idle \/ op'[d].kind \in {"start", "retire"}
    BY DEF FinalizeExternal, StartCheck, StartTransition, StartAppend, RetireCheck,
           RetireTransition, RetireAppend, ExternalInv, ExternalSafe, ExternalTypeOK, Idle
  <1>5. CheckedStillHolds'
    BY <1>1, <1>3, <1>4 DEF ExternalInv, CheckedStillHolds, Authorized, Bound, Idle
  <1> QED
    BY <1>1, <1>2, <1>3, <1>5 DEF ExternalInv, ExternalSafe, DeliveryUnderCurrentBinding,
                                  HostActsOnRecord

(* report_delivery holds the gate from its check to its record.            *)
LEMMA ReportKeepsInv ==
  ASSUME ExternalInv, NEW c \in Command,
         (\E g \in Generation : ReportCheck(c, g)) \/ ReportRecord(c) \/ KillCommand(c)
  PROVE  ExternalInv'
  <1> USE ExternalAssumption
      DEF ExternalAssumption, host, binding, Going, Enter, Proceed, Leave, Authorized, Bound
  <1>1. ASSUME NEW g \in Generation, ReportCheck(c, g) PROVE ExternalInv'
    <2>1. op' \in [Command -> [kind : Kinds, generation : 0..MaxGeneration, step : Steps]
                                 \cup {Idle}]
      BY <1>1 DEF ReportCheck, ExternalInv, ExternalSafe, ExternalTypeOK, Kinds, Steps,
                  Generation
    <2>2. ExternalTypeOK'
      BY <1>1, <2>1 DEF ReportCheck, ExternalInv, ExternalSafe, ExternalTypeOK
    <2>3. \A d \in Command : op[d].kind # "report"
      BY <1>1 DEF ReportCheck, ExternalInv, CheckedStillHolds
    <2>4. CheckedStillHolds'
      BY <1>1, <2>3 DEF ReportCheck, ExternalInv, ExternalSafe, ExternalTypeOK,
                        CheckedStillHolds
    <2> QED
      BY <1>1, <2>2, <2>4 DEF ReportCheck, ExternalInv, ExternalSafe,
                              DeliveryUnderCurrentBinding, HostActsOnRecord
  <1>2. CASE ReportRecord(c)
    <2> DEFINE g == op[c].generation
    <2>1. g = generation /\ Bound /\ g \in Generation /\ gate = c
      BY <1>2 DEF ReportRecord, ExternalInv, CheckedStillHolds
    <2>2. deliveries' = deliveries \cup {[reported |-> g, current |-> g]}
      BY <1>2, <2>1 DEF ReportRecord
    <2>3. ExternalTypeOK'
      BY <1>2, <2>1, <2>2 DEF ReportRecord, ExternalInv, ExternalSafe, ExternalTypeOK,
                              Generation
    <2>4. \A d \in Command : d # c => op[d].kind # "report"
      BY <2>1 DEF ExternalInv, CheckedStillHolds
    <2>5. CheckedStillHolds'
      BY <1>2, <2>4 DEF ReportRecord, ExternalInv, ExternalSafe, ExternalTypeOK,
                        CheckedStillHolds, Idle
    <2> QED
      BY <1>2, <2>2, <2>3, <2>5 DEF ReportRecord, ExternalInv, ExternalSafe,
                                    DeliveryUnderCurrentBinding, HostActsOnRecord
  <1>3. CASE KillCommand(c)
    <2>1. ExternalTypeOK'
      BY <1>3 DEF KillCommand, ExternalInv, ExternalSafe, ExternalTypeOK
    <2>2. CheckedStillHolds'
      BY <1>3 DEF KillCommand, ExternalInv, ExternalSafe, ExternalTypeOK, CheckedStillHolds,
                  Idle
    <2> QED
      BY <1>3, <2>1, <2>2 DEF KillCommand, ExternalInv, ExternalSafe,
                              DeliveryUnderCurrentBinding, HostActsOnRecord
  <1> QED
    BY <1>1, <1>2, <1>3

(* Dispatch, the exit record and the host's projection.                    *)
LEMMA HostKeepsInv ==
  ASSUME ExternalInv,
         \/ Register
         \/ \E c \in Command : \/ \E g \in Generation : ExitCheck(c, g)
                               \/ DispatchCheck(c) \/ Dispatch(c) \/ ExitLook(c)
                               \/ ExitWrite(c) \/ ReconcileIntent(c) \/ ReconcileClose(c)
                               \/ ReconcileRetired(c)
  PROVE  ExternalInv'
  <1> USE ExternalAssumption
      DEF ExternalAssumption, host, binding, Going, Enter, Proceed, Leave, Authorized, Bound,
          ExternalInv, ExternalSafe, ExternalTypeOK, DeliveryUnderCurrentBinding,
          HostActsOnRecord, CheckedStillHolds
  <1>1. CASE Register
    BY <1>1 DEF Register
  <1>2. ASSUME NEW c \in Command, NEW g \in Generation, ExitCheck(c, g) PROVE ExternalInv'
    <2>1. ExternalTypeOK'
      BY <1>2 DEF ExitCheck, Kinds, Steps, Generation
    <2> QED
      BY <1>2, <2>1 DEF ExitCheck
  <1>3. ASSUME NEW c \in Command, DispatchCheck(c) PROVE ExternalInv'
    <2>1. ExternalTypeOK'
      BY <1>3 DEF DispatchCheck, Kinds, Steps
    <2> QED
      BY <1>3, <2>1 DEF DispatchCheck
  <1>4. ASSUME NEW c \in Command, Dispatch(c) PROVE ExternalInv'
    BY <1>4 DEF Dispatch, Idle
  <1>5. ASSUME NEW c \in Command, ExitLook(c) PROVE ExternalInv'
    <2>1. op[c] # Idle
      BY <1>5 DEF ExitLook, Idle
    <2>2. [op[c] EXCEPT !.step = "absent"]
             \in [kind : Kinds, generation : 0..MaxGeneration, step : Steps]
      BY <2>1 DEF Steps
    <2>3. ExternalTypeOK'
      BY <1>5, <2>2 DEF ExitLook
    <2> QED
      BY <1>5, <2>3 DEF ExitLook, Idle
  <1>6. ASSUME NEW c \in Command, ExitWrite(c) PROVE ExternalInv'
    BY <1>6 DEF ExitWrite, Idle, Generation
  <1>7. ASSUME NEW c \in Command, ReconcileIntent(c) PROVE ExternalInv'
    <2>1. generation \in Generation
      BY <1>7 DEF ReconcileIntent
    <2>2. ExternalTypeOK'
      BY <1>7, <2>1 DEF ReconcileIntent, Kinds, Steps, Generation
    <2> QED
      BY <1>7, <2>1, <2>2 DEF ReconcileIntent
  <1>8. ASSUME NEW c \in Command, ReconcileClose(c) PROVE ExternalInv'
    <2>1. op[c] # Idle /\ op[c].generation \in Generation
      BY <1>8 DEF ReconcileClose, Idle
    <2>2. [op[c] EXCEPT !.step = "valid"]
             \in [kind : Kinds, generation : 0..MaxGeneration, step : Steps]
      BY <2>1 DEF Steps
    <2>3. ExternalTypeOK'
      BY <1>8, <2>1, <2>2 DEF ReconcileClose
    <2> QED
      BY <1>8, <2>3 DEF ReconcileClose, Idle
  <1>9. ASSUME NEW c \in Command, ReconcileRetired(c) PROVE ExternalInv'
    BY <1>9 DEF ReconcileRetired, Idle
  <1> QED
    BY <1>1, <1>2, <1>3, <1>4, <1>5, <1>6, <1>7, <1>8, <1>9

(* For any number of hosts, commands and bindings: a delivery is recorded  *)
(* only under the binding it was made for, no terminal of a run that still *)
(* goes on is closed and nothing is dispatched before a recorded start,    *)
(* apart from a start that raced a retirement (external_bindings.py,       *)
(* external_host_projection.py and run_lifecycle.py).                      *)
THEOREM ExternalIsSafe == ExternalSpec => []ExternalSafe
  <1>1. ExternalInv /\ [ExternalNext]_external => ExternalInv'
    <2>1. CASE UNCHANGED external
      BY <2>1 DEF external, host, binding, ExternalInv, ExternalSafe, ExternalTypeOK,
                  DeliveryUnderCurrentBinding, HostActsOnRecord, CheckedStillHolds,
                  Authorized, Bound
    <2> QED
      BY <2>1, BindingKeepsInv, ExecutionKeepsInv, ReportKeepsInv, HostKeepsInv
      DEF ExternalNext, CommandStep
  <1>2. ExternalInv => ExternalSafe
    BY DEF ExternalInv
  <1> QED
    BY ExternalInitInv, <1>1, <1>2, PTL DEF ExternalSpec

-----------------------------------------------------------------------------
(* Nothing is written yet.                                                 *)
LEMMA LaunchInitInv == LaunchInit => LaunchInv
  <1> USE DEF ContractWritten, EvaluationWritten, ProvenanceWritten, CompletionWritten,
              BaselineWritten, LaunchPromptWritten, ExecutionBound, JobBound, LaunchSteps
  <1> QED
    BY DEF LaunchInit, LaunchInv, LaunchShape, JobArtifacts, LaunchArtifacts,
           ProvenanceArtifact, EvaluationArtifact, ContractArtifact

(* Each step of the preparation, whatever was edited before it.            *)
LEMMA PrepareKeepsInv == LaunchInv /\ PrepareLaunch => LaunchInv'
  <1> SUFFICES ASSUME LaunchInv, PrepareLaunch PROVE LaunchInv'
    OBVIOUS
  <1> USE DEF ContractWritten, EvaluationWritten, ProvenanceWritten, CompletionWritten,
              BaselineWritten, LaunchPromptWritten, ExecutionBound, JobBound, LaunchSteps,
              LaunchInv, LaunchShape, JobArtifacts, LaunchArtifacts, ProvenanceArtifact,
              EvaluationArtifact, ContractArtifact, Request, File, Given, IfGiven, At, Put,
              GoOn
  <1>1. CASE ReadPrompt
    BY <1>1 DEF ReadPrompt
  <1>2. CASE ResolveJob
    BY <1>2 DEF ResolveJob
  <1>3. CASE TakeSnapshot
    BY <1>3 DEF TakeSnapshot
  <1>4. CASE WriteJobBinding
    BY <1>4 DEF WriteJobBinding
  <1>5. CASE BindExecution
    BY <1>5 DEF BindExecution
  <1>6. CASE PrepareWorker
    BY <1>6 DEF PrepareWorker
  <1>7. CASE CopyPrompt
    BY <1>7 DEF CopyPrompt
  <1>8. CASE WriteLaunchPrompt
    BY <1>8 DEF WriteLaunchPrompt
  <1>9. CASE WriteSourceBaseline
    BY <1>9 DEF WriteSourceBaseline
  <1>10. CASE WriteCompletion
    BY <1>10 DEF WriteCompletion
  <1>11. CASE WriteProvenance
    BY <1>11 DEF WriteProvenance
  <1>12. CASE BindInputs
    BY <1>12 DEF BindInputs
  <1>13. CASE PrepareEvaluation
    BY <1>13 DEF PrepareEvaluation
  <1>14. CASE WriteContract
    BY <1>14 DEF WriteContract
  <1>15. CASE PublishStatus
    BY <1>15 DEF PublishStatus
  <1> QED
    BY <1>1, <1>2, <1>3, <1>4, <1>5, <1>6, <1>7, <1>8, <1>9, <1>10, <1>11, <1>12, <1>13, <1>14, <1>15 DEF PrepareLaunch

(* A preparation that raises, a repaired status, a start and an edit.      *)
LEMMA LaunchKeepsInv ==
  LaunchInv /\ (PreparationRaises \/ RepairStatus \/ StartWorker \/ \E s \in Source : EditSource(s))
    => LaunchInv'
  <1> SUFFICES ASSUME LaunchInv,
                      \/ PreparationRaises \/ RepairStatus \/ StartWorker
                      \/ \E s \in Source : EditSource(s)
               PROVE  LaunchInv'
    OBVIOUS
  <1> USE DEF ContractWritten, EvaluationWritten, ProvenanceWritten, CompletionWritten,
              BaselineWritten, LaunchPromptWritten, ExecutionBound, JobBound, LaunchSteps,
              LaunchInv, LaunchShape, JobArtifacts, LaunchArtifacts, ProvenanceArtifact,
              EvaluationArtifact, ContractArtifact, File, Given, IfGiven, At, Put, GoOn
  <1>1. CASE PreparationRaises
    BY <1>1 DEF PreparationRaises
  <1>2. CASE RepairStatus
    BY <1>2 DEF RepairStatus
  <1>3. CASE StartWorker
    BY <1>3 DEF StartWorker, ContractReadable
  <1>4. CASE \E s \in Source : EditSource(s)
    BY <1>4 DEF EditSource
  <1> QED
    BY <1>1, <1>2, <1>3, <1>4

(* However often and whenever prompt, job, pack, evaluation and worktree   *)
(* are edited, the artifacts of a prepared run agree with each other and   *)
(* its worker starts on what the contract binds (agent_runs.py, _prepare,  *)
(* and the checks of runner.py).                                           *)
THEOREM ContractsBindTheRuns == LaunchSpec => []ContractBindsTheRun
  <1>1. LaunchInv /\ [LaunchNext]_launch => LaunchInv'
    <2>1. CASE UNCHANGED launch
      BY <2>1 DEF launch, LaunchInv, LaunchShape, JobArtifacts, LaunchArtifacts,
                  ProvenanceArtifact, EvaluationArtifact, ContractArtifact, Given
    <2> QED
      BY <2>1, PrepareKeepsInv, LaunchKeepsInv DEF LaunchNext
  <1>2. LaunchInv => ContractBindsTheRun
    <2> USE DEF ContractWritten, EvaluationWritten, ProvenanceWritten, CompletionWritten,
                BaselineWritten, LaunchPromptWritten, ExecutionBound, JobBound
    <2> QED
      BY DEF LaunchInv, LaunchShape, JobArtifacts, LaunchArtifacts, ProvenanceArtifact,
             EvaluationArtifact, ContractArtifact, ContractBindsTheRun, Given, Request
  <1> QED
    BY LaunchInitInv, <1>1, <1>2, PTL DEF LaunchSpec

-----------------------------------------------------------------------------
(* Preparation                                                             *)

(* No directory, no lease and no call.                                     *)
LEMMA PreparationInitInv == PreparationInit => PreparationInv
  <1> SUFFICES ASSUME PreparationInit PROVE PreparationInv
    OBVIOUS
  <1> USE DEF PreparationInit, InProgress, NoRequest, NothingSeen
  <1>1. PreparationTypeOK /\ CallsTyped
    BY DEF PreparationTypeOK, CallsTyped, CallStep, DirState, LifeState
  <1>2. NamesExclusive /\ LeasesHaveOwners
    BY DEF NamesExclusive, LeasesHaveOwners, Active
  <1>3. CallsApart /\ CallsFresh /\ ClaimsHeld /\ LeasesOfCalls
    BY DEF CallsApart, CallsFresh, ClaimsHeld, LeasesOfCalls
  <1> QED
    BY <1>1, <1>2, <1>3 DEF PreparationInv, PreparationSafe

(* Where no run becomes active or takes another name, and each call that   *)
(* holds its claim keeps it, names stay exclusive and claims held.         *)
LEMMA ClaimsKept ==
  ASSUME PreparationInv, overlap \subseteq overlap',
         \A s \in Run : Active(s)' => Active(s) /\ nameOf'[s] = nameOf[s],
         \A c \in Call : pc'[c] \in {"handoff", "publish"} =>
             /\ pc[c] \in {"handoff", "publish"}
             /\ claimed'[c] = claimed[c] /\ req'[c] = req[c],
         \A c \in Call, n \in Name :
             (pc'[c] \in {"handoff", "publish"} /\ claimed[c] = {n}
              /\ req[c].run \notin overlap /\ HoldsClaim(c, n)) => lease'[n] = lease[n]
  PROVE  NamesExclusive' /\ ClaimsHeld'
  <1>1. NamesExclusive'
    BY DEF PreparationInv, PreparationSafe, NamesExclusive
  <1>2. ClaimsHeld'
    <2> SUFFICES ASSUME NEW c \in Call, pc'[c] \in {"handoff", "publish"}
                 PROVE  \E n \in Name : /\ claimed'[c] = {n}
                                        /\ req'[c].run \in overlap' \/ HoldsClaim(c, n)'
      BY DEF ClaimsHeld
    <2>1. PICK n \in Name : /\ claimed[c] = {n}
                            /\ req[c].run \in overlap \/ HoldsClaim(c, n)
      BY DEF PreparationInv, ClaimsHeld
    <2>2. ASSUME req[c].run \notin overlap PROVE HoldsClaim(c, n)'
      <3>1. HoldsClaim(c, n) /\ lease'[n] = lease[n] /\ req'[c] = req[c]
        BY <2>1, <2>2
      <3>2. NameFree(n, req[c].run)'
        BY <3>1 DEF HoldsClaim, NameFree
      <3> QED
        BY <3>1, <3>2 DEF HoldsClaim
    <2> QED
      BY <2>1, <2>2
  <1> QED
    BY <1>1, <1>2

(* A call that goes on with its work keeps the leases and the requests.    *)
LEMMA WorkKeeps ==
  ASSUME PreparationInv, NEW c \in Call, pc[c] \in InProgress,
         NEW step \in InProgress, pc' = [pc EXCEPT ![c] = step],
         UNCHANGED <<lease, req, sampled, overlap>>,
         \A n \in Name :
            (lease[n] # None /\ life[lease[n].run] # "none" /\ life'[lease[n].run] = "none") =>
               \/ lease[n].run \in overlap
               \/ pc[lease[n].call] \in InProgress \cup {"killed"}
  PROVE  CallsApart' /\ LeasesHaveOwners' /\ LeasesOfCalls'
  <1>1. \A d \in Call : /\ pc'[d] \in InProgress <=> pc[d] \in InProgress
                        /\ pc'[d] = "killed" <=> pc[d] = "killed"
                        /\ pc'[d] = "idle" <=> pc[d] = "idle"
    BY DEF PreparationInv, PreparationSafe, PreparationTypeOK, InProgress
  <1>2. CallsApart'
    BY <1>1 DEF PreparationInv, CallsApart
  <1>3. \A n \in Name : lease[n] # None => lease[n].call \in Call
    BY DEF PreparationInv, PreparationSafe, PreparationTypeOK, Lease
  <1>4. LeasesHaveOwners'
    BY <1>1, <1>3 DEF PreparationInv, PreparationSafe, LeasesHaveOwners
  <1>5. LeasesOfCalls'
    BY <1>1, <1>3 DEF PreparationInv, LeasesOfCalls, LeaseOfCall
  <1> QED
    BY <1>2, <1>4, <1>5

(* prepare and restart begin: whoever works on the run id already makes it *)
(* one that overlaps.                                                      *)
LEMMA BeginKeepsInv ==
  ASSUME PreparationInv, NEW c \in Call, NEW r \in Run, NEW m \in Name \cup {None},
         Begin(c, r, m)
  PROVE  PreparationInv'
  <1> USE DEF Become, files
  <1>1. /\ pc[c] = "idle" /\ pc' = [pc EXCEPT ![c] = "preflight"]
        /\ UNCHANGED <<dir, life, nameOf, workerGone, lease, claimed>>
        /\ req' = [req EXCEPT ![c] = [run |-> r, name |-> m]]
        /\ sampled' = [sampled EXCEPT ![c] = [dir |-> dir[r] # "absent",
                                              handoff |-> HasHandoff(r)]]
        /\ overlap' \in {overlap, overlap \cup {r}}
        /\ (\E d \in Call : pc[d] \in InProgress /\ req[d].run = r) => r \in overlap'
    BY DEF Begin
  <1>2. /\ req'[c].run = r /\ sampled'[c].dir = (dir[r] # "absent")
        /\ \A d \in Call : d # c => /\ req'[d] = req[d] /\ sampled'[d] = sampled[d]
                                    /\ pc'[d] = pc[d]
        /\ pc'[c] = "preflight"
    BY <1>1 DEF PreparationInv, CallsTyped, PreparationSafe, PreparationTypeOK
  <1>3. PreparationTypeOK' /\ CallsTyped'
    BY <1>1 DEF PreparationInv, PreparationSafe, PreparationTypeOK, CallsTyped, CallStep,
                InProgress, HasHandoff
  <1>4. NamesExclusive' /\ ClaimsHeld'
    BY <1>1, <1>2, ClaimsKept DEF Active
  <1>5. CallsApart' /\ CallsFresh'
    BY <1>1, <1>2 DEF PreparationInv, CallsApart, CallsFresh, InProgress
  <1>6. \A n \in Name : lease[n] # None => /\ lease[n].call \in Call \ {c}
                                           /\ lease[n].run \in Run
    BY <1>1 DEF PreparationInv, PreparationSafe, PreparationTypeOK, LeasesOfCalls,
                LeaseOfCall, Lease
  <1>7. LeasesHaveOwners'
    BY <1>1, <1>2, <1>6 DEF PreparationInv, PreparationSafe, LeasesHaveOwners
  <1>8. LeasesOfCalls'
    <2> SUFFICES ASSUME NEW n \in Name, lease[n] # None
                 PROVE  LeaseOfCall(n)'
      BY <1>1 DEF LeasesOfCalls
    <2>1. /\ pc'[lease[n].call] = pc[lease[n].call]
          /\ req'[lease[n].call] = req[lease[n].call]
          /\ LeaseOfCall(n)
      BY <1>2, <1>6 DEF PreparationInv, LeasesOfCalls
    <2>2. ASSUME NEW d \in Call, pc'[d] \in InProgress, ~sampled'[d].dir,
                 req'[d].run = lease[n].run, req'[d].run \notin overlap'
          PROVE  lease[n].call = d \/ pc[lease[n].call] = "killed"
      <3>1. CASE d = c
        <4>1. life[r] = "none" /\ r = lease[n].run /\ r \notin overlap
          BY <1>1, <1>2, <2>2, <3>1 DEF PreparationInv, PreparationSafe, PreparationTypeOK
        <4>2. pc[lease[n].call] \in InProgress \cup {"killed"}
          BY <4>1 DEF PreparationInv, PreparationSafe, LeasesHaveOwners
        <4>3. pc[lease[n].call] \notin InProgress
          BY <1>1, <1>2, <1>6, <2>1, <2>2, <3>1, <4>1 DEF LeaseOfCall
        <4> QED
          BY <4>2, <4>3
      <3>2. CASE d # c
        BY <1>1, <1>2, <2>1, <2>2, <3>2 DEF LeaseOfCall
      <3> QED
        BY <3>1, <3>2
    <2> QED
      BY <1>1, <2>1, <2>2 DEF LeaseOfCall
  <1> QED
    BY <1>3, <1>4, <1>5, <1>7, <1>8 DEF PreparationInv, PreparationSafe

(* The steps of a call up to the claim of a name, and those that fail.     *)
LEMMA PreparingKeepsInv ==
  ASSUME PreparationInv, NEW c \in Call,
         \/ PreflightRefuses(c) \/ MakeDirectory(c) \/ ClaimFails(c)
         \/ CreateHandoff(c) \/ PrepareRaises(c)
  PROVE  PreparationInv'
  <1> USE DEF Become, files
  <1>1. PICK step \in InProgress : pc' = [pc EXCEPT ![c] = step]
    BY DEF PreflightRefuses, MakeDirectory, ClaimFails, CreateHandoff, PrepareRaises,
           InProgress, PreparationInv, PreparationSafe, PreparationTypeOK
  <1>2. /\ pc[c] \in InProgress /\ pc[c] \in CallStep
        /\ UNCHANGED <<nameOf, workerGone, lease, req, sampled, overlap>>
    BY DEF PreflightRefuses, MakeDirectory, ClaimFails, CreateHandoff, PrepareRaises,
           InProgress, PreparationInv, PreparationSafe, PreparationTypeOK
  <1>3. req[c].run \in Run
    BY <1>2 DEF PreparationInv, CallsApart
  <1>4. /\ PreparationTypeOK' /\ CallsTyped'
        /\ \A s \in Run : life'[s] # life[s] => /\ s = req[c].run /\ pc[c] = "preflight"
                                                /\ life[s] = "none" /\ life'[s] = "ended"
    <2> USE DEF PreparationInv, PreparationSafe, PreparationTypeOK, CallsTyped, CallStep, 
                InProgress
    <2>1. CASE PreflightRefuses(c)
      <3> DEFINE r == req[c].run
      <3>1. pc[c] = "preflight" /\ pc' = [pc EXCEPT ![c] = "undo"] /\ UNCHANGED claimed
        BY <2>1 DEF PreflightRefuses
      <3>2. CASE dir[r] \in {"absent", "empty"}
        <4>1. dir' = [dir EXCEPT ![r] = "preflight"] /\ life' = [life EXCEPT ![r] = "ended"]
          BY <2>1, <3>2 DEF PreflightRefuses
        <4>2. life[r] = "none"
          BY <1>3, <3>2
        <4> HIDE DEF r
        <4> QED
          BY <1>2, <1>3, <3>1, <4>1, <4>2 DEF DirState, LifeState, r
      <3>3. CASE dir[r] \notin {"absent", "empty"}
        <4>1. UNCHANGED <<dir, life>>
          BY <2>1, <3>3 DEF PreflightRefuses
        <4> QED
          BY <1>2, <3>1, <4>1
      <3> QED
        BY <3>2, <3>3
    <2>2. CASE MakeDirectory(c)
      BY <1>2, <1>3, <2>2 DEF MakeDirectory, DirState
    <2>3. CASE ClaimFails(c)
      <3>1. PICK n \in Name : claimed' \in {claimed, [claimed EXCEPT ![c] = claimed[c] \cup {n}]}
        BY <2>3 DEF ClaimFails
      <3>2. claimed' \in [Call -> SUBSET Name] /\ UNCHANGED <<dir, life>>
        BY <2>3, <3>1 DEF ClaimFails
      <3> QED
        BY <1>1, <1>2, <3>2
    <2>4. CASE CreateHandoff(c)
      BY <1>2, <1>3, <2>4 DEF CreateHandoff, WithArtifacts, DirState
    <2>5. CASE PrepareRaises(c)
      BY <1>2, <1>3, <2>5 DEF PrepareRaises
    <2> QED
      BY <2>1, <2>2, <2>3, <2>4, <2>5
  <1>5. \A s \in Run : Active(s)' => Active(s)
    BY <1>2, <1>4 DEF Active
  <1>6. /\ \A d \in Call : pc'[d] \in {"handoff", "publish"} =>
               pc[d] \in {"handoff", "publish"} /\ claimed'[d] = claimed[d]
        /\ \A d \in Call : pc'[d] \in {"claim", "handoff", "publish"} =>
               \/ pc[d] \in {"claim", "handoff", "publish"}
               \/ d = c /\ life[req[c].run] = "none" /\ life' = life
    <2> USE DEF PreparationInv, PreparationSafe, PreparationTypeOK, CallsTyped
    <2>1. CASE PreflightRefuses(c)
      BY <2>1 DEF PreflightRefuses
    <2>2. CASE MakeDirectory(c)
      BY <1>3, <2>2 DEF MakeDirectory
    <2>3. CASE ClaimFails(c)
      BY <2>3 DEF ClaimFails
    <2>4. CASE CreateHandoff(c)
      BY <2>4 DEF CreateHandoff
    <2>5. CASE PrepareRaises(c)
      BY <2>5 DEF PrepareRaises
    <2> QED
      BY <2>1, <2>2, <2>3, <2>4, <2>5
  <1>7. NamesExclusive' /\ ClaimsHeld'
    BY <1>2, <1>5, <1>6, ClaimsKept
  <1>8. \A n \in Name : lease[n] # None => lease[n].run \in Run
    BY DEF PreparationInv, PreparationSafe, PreparationTypeOK, Lease
  <1>9. CallsApart' /\ LeasesHaveOwners' /\ LeasesOfCalls'
    BY <1>1, <1>2, <1>4, <1>8, WorkKeeps
  <1>10. CallsFresh'
    <2> SUFFICES ASSUME NEW d \in Call, pc'[d] \in {"claim", "handoff", "publish"}
                 PROVE  req[d].run \in overlap \/ life'[req[d].run] = "none"
      BY <1>2 DEF CallsFresh
    <2>1. CASE pc[d] \in {"claim", "handoff", "publish"}
      <3>1. req[d].run \in Run /\ (req[d].run \in overlap \/ life[req[d].run] = "none")
        BY <2>1 DEF PreparationInv, CallsFresh, CallsApart, InProgress
      <3>2. (life'[req[d].run] # life[req[d].run]) => req[d].run \in overlap
        BY <1>2, <1>4, <2>1, <3>1 DEF PreparationInv, CallsApart, InProgress
      <3> QED
        BY <3>1, <3>2
    <2>2. CASE d = c /\ life[req[c].run] = "none" /\ life' = life
      BY <2>2
    <2> QED
      BY <1>6, <2>1, <2>2
  <1> QED
    BY <1>4, <1>7, <1>9, <1>10 DEF PreparationInv, PreparationSafe

(* A name that claim_agent_name does not find in use: no call that still   *)
(* prepares its run holds the lease that this one takes.                   *)
LEMMA ClaimNameKeepsInv ==
  ASSUME PreparationInv, NEW c \in Call, ClaimName(c)
  PROVE  PreparationInv'
  <1> USE DEF Become, files
  <1> DEFINE r == req[c].run
  <1>1. PICK n \in Name :
          /\ pc[c] = "claim" /\ pc' = [pc EXCEPT ![c] = "handoff"]
          /\ ~NameInUse(n, r)
          /\ lease' = [lease EXCEPT ![n] = [run |-> r, call |-> c, name |-> n]]
          /\ claimed' = [claimed EXCEPT ![c] = {n}]
          /\ UNCHANGED <<dir, life, nameOf, workerGone, req, sampled, overlap>>
    BY DEF ClaimName
  <1>2. r \in Run /\ (r \in overlap \/ life[r] = "none")
    BY <1>1 DEF PreparationInv, CallsApart, CallsFresh, InProgress
  <1>3. [run |-> r, call |-> c, name |-> n] \in Lease
    BY <1>2 DEF Lease
  <1>4. PreparationTypeOK' /\ CallsTyped'
    BY <1>1, <1>3 DEF PreparationInv, PreparationSafe, PreparationTypeOK, CallsTyped, CallStep,
                      InProgress
  <1>5. /\ lease'[n] # None /\ lease'[n].run = r /\ lease'[n].call = c
        /\ \A m \in Name : m # n => lease'[m] = lease[m]
        /\ \A d \in Call : d # c => pc'[d] = pc[d] /\ claimed'[d] = claimed[d]
        /\ pc'[c] = "handoff" /\ claimed'[c] = {n}
    <2>1. lease'[n] = [run |-> r, call |-> c, name |-> n]
      BY <1>1 DEF PreparationInv, PreparationSafe, PreparationTypeOK
    <2>2. lease'[n] # None
      BY <1>3, <2>1, PreparationAssumption
    <2> QED
      BY <1>1, <2>1, <2>2 DEF PreparationInv, PreparationSafe, PreparationTypeOK, CallsTyped
  <1>6. /\ \A d \in Call : /\ pc'[d] \in InProgress <=> pc[d] \in InProgress
                           /\ pc'[d] = "killed" <=> pc[d] = "killed"
                           /\ pc'[d] = "idle" <=> pc[d] = "idle"
        /\ pc[c] \in InProgress
    BY <1>1, <1>5 DEF InProgress
  <1>7. NamesExclusive'
    BY <1>1 DEF PreparationInv, PreparationSafe, NamesExclusive, Active
  <1>8. ClaimsHeld'
    <2> SUFFICES ASSUME NEW d \in Call, pc'[d] \in {"handoff", "publish"}
                 PROVE  \E m \in Name : /\ claimed'[d] = {m}
                                        /\ req'[d].run \in overlap' \/ HoldsClaim(d, m)'
      BY DEF ClaimsHeld
    <2>1. \A s \in Run : Active(s)' <=> Active(s)
      BY <1>1 DEF Active
    <2>2. CASE d = c
      <3>1. \A s \in Run \ (overlap \cup {r}) : Active(s) => nameOf[s] # n
        BY <1>1 DEF NameInUse, Owners
      <3> QED
        BY <1>1, <1>5, <2>1, <2>2, <3>1 DEF HoldsClaim, NameFree
    <2>3. CASE d # c
      <3>1. PICK m \in Name : claimed[d] = {m} /\ (req[d].run \in overlap \/ HoldsClaim(d, m))
        BY <1>5, <2>3 DEF PreparationInv, ClaimsHeld
      <3>2. ASSUME req[d].run \notin overlap PROVE m # n
        <4>1. /\ HoldsClaim(d, m) /\ pc[d] \in {"handoff", "publish"}
              /\ pc[d] \in InProgress /\ life[req[d].run] = "none"
          BY <1>5, <2>3, <3>1, <3>2 DEF PreparationInv, CallsFresh, InProgress
        <4>2. req[d].run # r
          BY <1>6, <2>3, <3>2, <4>1 DEF PreparationInv, CallsApart
        <4> QED
          BY <1>1, <4>1, <4>2 DEF NameInUse, HoldsClaim
      <3> QED
        BY <1>1, <1>5, <2>1, <2>3, <3>1, <3>2 DEF HoldsClaim, NameFree
    <2> QED
      BY <2>2, <2>3
  <1>9. CallsApart' /\ CallsFresh'
    BY <1>1, <1>5, <1>6 DEF PreparationInv, CallsApart, CallsFresh
  <1>10. \A m \in Name : lease[m] # None => lease[m].call \in Call
    BY DEF PreparationInv, PreparationSafe, PreparationTypeOK, Lease
  <1>11. LeasesHaveOwners'
    BY <1>1, <1>5, <1>6, <1>10 DEF PreparationInv, PreparationSafe, LeasesHaveOwners
  <1>12. LeasesOfCalls'
    <2> SUFFICES ASSUME NEW m \in Name, lease'[m] # None
                 PROVE  LeaseOfCall(m)'
      BY DEF LeasesOfCalls
    <2>1. CASE m = n
      BY <1>1, <1>5, <1>6, <2>1 DEF PreparationInv, CallsApart, LeaseOfCall
    <2>2. CASE m # n
      BY <1>1, <1>5, <1>6, <1>10, <2>2 DEF PreparationInv, LeasesOfCalls, LeaseOfCall
    <2> QED
      BY <2>1, <2>2
  <1> QED
    BY <1>4, <1>7, <1>8, <1>9, <1>11, <1>12 DEF PreparationInv, PreparationSafe

(* The run exists, under the name the call has claimed: no other active    *)
(* run has it, and no other call holds its lease.                          *)
LEMMA PublishKeepsInv ==
  ASSUME PreparationInv, NEW c \in Call, PublishRun(c)
  PROVE  PreparationInv'
  <1> USE DEF Become, files
  <1> DEFINE r == req[c].run
  <1>1. /\ pc[c] = "publish" /\ r \in Run
        /\ UNCHANGED <<workerGone, lease, req, sampled, claimed, overlap>>
    BY DEF PublishRun, PreparationInv, CallsApart, InProgress
  <1>2. PICK n \in Name : claimed[c] = {n} /\ (r \in overlap \/ HoldsClaim(c, n))
    BY <1>1 DEF PreparationInv, ClaimsHeld
  <1>3. (CHOOSE m \in claimed[c] : TRUE) = n
    BY <1>2
  <1>4. CASE life[r] # "none"
    <2>1. pc' = [pc EXCEPT ![c] = "undo"] /\ UNCHANGED <<dir, life, nameOf, workerGone>>
      BY <1>4 DEF PublishRun
    <2>2. PreparationTypeOK' /\ CallsTyped'
      BY <1>1, <2>1 DEF PreparationInv, PreparationSafe, PreparationTypeOK, CallsTyped,
                        CallStep, InProgress
    <2>3. NamesExclusive' /\ ClaimsHeld'
      BY <1>1, <2>1, ClaimsKept DEF Active, PreparationInv, PreparationSafe, PreparationTypeOK
    <2>4. CallsApart' /\ LeasesHaveOwners' /\ LeasesOfCalls'
      BY <1>1, <2>1, WorkKeeps DEF InProgress
    <2>5. CallsFresh'
      BY <1>1, <2>1 DEF PreparationInv, PreparationSafe, PreparationTypeOK, CallsFresh
    <2> QED
      BY <2>2, <2>3, <2>4, <2>5 DEF PreparationInv, PreparationSafe
  <1>5. CASE life[r] = "none"
    <2>1. /\ pc' = [pc EXCEPT ![c] = "runner"]
          /\ dir' = [dir EXCEPT ![r] = "published"]
          /\ life' = [life EXCEPT ![r] = "prepared"]
          /\ nameOf' = [nameOf EXCEPT ![r] = n]
      BY <1>3, <1>5 DEF PublishRun
    <2>2. PreparationTypeOK' /\ CallsTyped'
      BY <1>1, <2>1 DEF PreparationInv, PreparationSafe, PreparationTypeOK, CallsTyped,
                        CallStep, InProgress, DirState, LifeState
    <2>3. /\ \A s \in Run : s # r => (Active(s)' <=> Active(s)) /\ nameOf'[s] = nameOf[s]
          /\ nameOf'[r] = n
      BY <1>1, <2>1 DEF Active, PreparationInv, PreparationSafe, PreparationTypeOK
    <2>4. NamesExclusive'
      <3> SUFFICES ASSUME NEW s \in Run, NEW t \in Run, s # t, Active(s)', Active(t)',
                          nameOf'[s] = nameOf'[t], s \notin overlap, t \notin overlap
                   PROVE  FALSE
        BY <1>1 DEF NamesExclusive
      <3>1. CASE s = r
        BY <1>2, <2>3, <3>1 DEF HoldsClaim, NameFree
      <3>2. CASE t = r
        BY <1>2, <2>3, <3>2 DEF HoldsClaim, NameFree
      <3>3. CASE s # r /\ t # r
        BY <2>3, <3>3 DEF PreparationInv, PreparationSafe, NamesExclusive
      <3> QED
        BY <3>1, <3>2, <3>3
    <2>5. ClaimsHeld'
      <3> SUFFICES ASSUME NEW d \in Call, pc'[d] \in {"handoff", "publish"}
                   PROVE  \E m \in Name : /\ claimed'[d] = {m}
                                          /\ req'[d].run \in overlap' \/ HoldsClaim(d, m)'
        BY DEF ClaimsHeld
      <3>1. d # c /\ pc[d] \in {"handoff", "publish"}
        BY <2>1 DEF PreparationInv, PreparationSafe, PreparationTypeOK
      <3>2. PICK m \in Name : claimed[d] = {m} /\ (req[d].run \in overlap \/ HoldsClaim(d, m))
        BY <3>1 DEF PreparationInv, ClaimsHeld
      <3>3. ASSUME req[d].run \notin overlap PROVE NameFree(m, req[d].run)'
        <4>1. HoldsClaim(d, m) /\ req[d].run # r
          BY <1>1, <3>1, <3>2, <3>3 DEF PreparationInv, CallsApart, InProgress
        <4>2. r \notin overlap => n # m
          BY <1>2, <3>1, <4>1 DEF HoldsClaim
        <4> QED
          BY <1>1, <2>3, <4>1, <4>2 DEF HoldsClaim, NameFree
      <3> QED
        BY <1>1, <3>2, <3>3 DEF HoldsClaim
    <2>6. CallsApart' /\ LeasesHaveOwners' /\ LeasesOfCalls'
      <3>1. \A s \in Run : life'[s] = "none" => life[s] = "none"
        BY <1>5, <2>1 DEF PreparationInv, PreparationSafe, PreparationTypeOK
      <3>2. \A m \in Name : lease[m] # None => lease[m].run \in Run
        BY DEF PreparationInv, PreparationSafe, PreparationTypeOK, Lease
      <3> QED
        BY <1>1, <2>1, <3>1, <3>2, WorkKeeps DEF InProgress
    <2>7. CallsFresh'
      <3> SUFFICES ASSUME NEW d \in Call, pc'[d] \in {"claim", "handoff", "publish"}
                   PROVE  req[d].run \in overlap \/ life'[req[d].run] = "none"
        BY <1>1 DEF CallsFresh
      <3>1. d # c /\ pc[d] \in {"claim", "handoff", "publish"}
        BY <2>1 DEF PreparationInv, PreparationSafe, PreparationTypeOK
      <3>2. req[d].run = r => r \in overlap
        BY <1>1, <3>1 DEF PreparationInv, CallsApart, InProgress
      <3>3. req[d].run \in Run /\ (req[d].run \in overlap \/ life[req[d].run] = "none")
        BY <3>1 DEF PreparationInv, CallsApart, CallsFresh, InProgress
      <3> QED
        BY <2>1, <3>2, <3>3 DEF PreparationInv, PreparationSafe, PreparationTypeOK
    <2> QED
      BY <2>2, <2>4, <2>5, <2>6, <2>7 DEF PreparationInv, PreparationSafe
  <1> QED
    BY <1>4, <1>5

(* A call that ends, done or killed, may take leases of its run with it;   *)
(* one it leaves is of a run that exists or of a dead process.             *)
LEMMA EndKeepsInv ==
  ASSUME PreparationInv, NEW c \in Call, pc[c] \in InProgress,
         NEW step \in {"done", "killed"}, Finish(c, step), PreparationTypeOK',
         UNCHANGED <<life, nameOf, workerGone, overlap>>,
         \A n \in Name : lease'[n] # None =>
             /\ lease'[n] = lease[n]
             /\ lease[n].call = c => \/ step = "killed" \/ life[lease[n].run] # "none"
                                     \/ lease[n].run \in overlap,
         \A n \in Name : lease'[n] # lease[n] => lease[n].run = req[c].run
  PROVE  PreparationInv'
  <1>1. /\ pc' = [pc EXCEPT ![c] = step] /\ req' = [req EXCEPT ![c] = NoRequest]
        /\ sampled' = [sampled EXCEPT ![c] = NothingSeen]
        /\ claimed' = [claimed EXCEPT ![c] = {}]
    BY DEF Finish, Become
  <1>2. CallsTyped'
    BY <1>1 DEF PreparationInv, CallsTyped, NoRequest, NothingSeen
  <1>3. /\ pc'[c] = step /\ pc'[c] \notin InProgress /\ pc'[c] # "idle"
        /\ \A d \in Call : d # c => /\ pc'[d] = pc[d] /\ req'[d] = req[d]
                                    /\ sampled'[d] = sampled[d] /\ claimed'[d] = claimed[d]
    BY <1>1 DEF PreparationInv, PreparationSafe, PreparationTypeOK, CallsTyped, InProgress
  <1>4. CallsApart' /\ CallsFresh'
    BY <1>3 DEF PreparationInv, CallsApart, CallsFresh, InProgress
  <1>5. NamesExclusive' /\ ClaimsHeld'
    <2>1. ASSUME NEW d \in Call, NEW n \in Name, pc'[d] \in {"handoff", "publish"},
                 req[d].run \notin overlap, HoldsClaim(d, n)
          PROVE  lease'[n] = lease[n]
      <3>1. d # c /\ pc[d] \in InProgress
        BY <1>3, <2>1 DEF InProgress
      <3>2. lease[n].run = req[d].run /\ req[d].run # req[c].run
        BY <2>1, <3>1 DEF PreparationInv, CallsApart, HoldsClaim
      <3> QED
        BY <3>2
    <2>2. \A d \in Call : pc'[d] \in {"handoff", "publish"} => d # c
      BY <1>3 DEF InProgress
    <2>3. \A s \in Run : Active(s)' <=> Active(s)
      BY DEF Active
    <2> QED
      BY <1>3, <2>1, <2>2, <2>3, ClaimsKept
  <1>6. \A n \in Name : lease[n] # None => lease[n].call \in Call /\ LeaseOfCall(n)
    BY DEF PreparationInv, PreparationSafe, PreparationTypeOK, LeasesOfCalls, Lease
  <1>7. LeasesHaveOwners'
    BY <1>3, <1>6 DEF PreparationInv, PreparationSafe, LeasesHaveOwners
  <1>8. LeasesOfCalls'
    <2> SUFFICES ASSUME NEW n \in Name, lease'[n] # None
                 PROVE  LeaseOfCall(n)'
      BY DEF LeasesOfCalls
    <2>1. lease'[n] = lease[n] /\ lease[n].call \in Call /\ LeaseOfCall(n)
      BY <1>6
    <2>2. CASE lease[n].call # c
      BY <1>3, <2>1, <2>2 DEF LeaseOfCall
    <2>3. CASE lease[n].call = c
      <3>1. req[c].run = lease[n].run
        BY <2>1, <2>3 DEF LeaseOfCall
      <3>2. \A d \in Call : (pc'[d] \in InProgress /\ req'[d].run = lease[n].run)
                               => req'[d].run \in overlap
        BY <1>3, <3>1 DEF PreparationInv, CallsApart
      <3> QED
        BY <1>3, <2>1, <2>3, <3>2 DEF LeaseOfCall
    <2> QED
      BY <2>2, <2>3
  <1> QED
    BY <1>2, <1>4, <1>5, <1>7, <1>8 DEF PreparationInv, PreparationSafe

(* The last step of a prepare, its release of the leases, and a kill.      *)
LEMMA EndingKeepsInv ==
  ASSUME PreparationInv, NEW c \in Call, WriteRunner(c) \/ UndoLease(c) \/ KillCall(c)
  PROVE  PreparationInv'
  <1> USE DEF files
  <1> DEFINE r == req[c].run
  <1>1. /\ pc[c] \in InProgress /\ r \in Run
        /\ UNCHANGED <<life, nameOf, workerGone, overlap>>
    BY DEF WriteRunner, UndoLease, KillCall, PreparationInv, CallsApart, InProgress
  <1>2. CASE WriteRunner(c)
    <2>1. UNCHANGED lease
      BY <1>2 DEF WriteRunner
    <2>2. CASE life[r] = "none"
      <3>1. /\ pc' = [pc EXCEPT ![c] = "undo"] /\ pc[c] = "runner"
            /\ UNCHANGED <<dir, req, sampled, claimed>>
        BY <1>2, <2>2 DEF WriteRunner, Become
      <3>2. PreparationTypeOK' /\ CallsTyped'
        BY <1>1, <2>1, <3>1 DEF PreparationInv, PreparationSafe, PreparationTypeOK, CallsTyped,
                                CallStep, InProgress
      <3>3. NamesExclusive' /\ ClaimsHeld'
        BY <1>1, <2>1, <3>1, ClaimsKept DEF Active, PreparationInv, PreparationSafe,
                                            PreparationTypeOK
      <3>4. CallsApart' /\ LeasesHaveOwners' /\ LeasesOfCalls'
        BY <1>1, <2>1, <3>1, WorkKeeps DEF InProgress
      <3>5. CallsFresh'
        BY <1>1, <3>1 DEF PreparationInv, PreparationSafe, PreparationTypeOK, CallsFresh
      <3> QED
        BY <3>2, <3>3, <3>4, <3>5 DEF PreparationInv, PreparationSafe
    <2>3. CASE life[r] # "none"
      <3>1. Finish(c, "done") /\ dir' = [dir EXCEPT ![r] = "ready"]
        BY <1>2, <2>3 DEF WriteRunner
      <3>2. PreparationTypeOK'
        BY <1>1, <2>1, <3>1 DEF PreparationInv, PreparationSafe, PreparationTypeOK, Finish,
                                Become, CallStep, InProgress, DirState, CallsTyped
      <3>3. \A n \in Name : (lease[n] # None /\ lease[n].call = c) => lease[n].run = r
        BY <1>1 DEF PreparationInv, LeasesOfCalls, LeaseOfCall
      <3> QED
        BY <1>1, <2>1, <2>3, <3>1, <3>2, <3>3, EndKeepsInv
    <2> QED
      BY <2>2, <2>3
  <1>3. CASE UndoLease(c)
    <2>1. Finish(c, "done") /\ UNCHANGED dir
      BY <1>3 DEF UndoLease
    <2>2. \A n \in Name : /\ lease'[n] # None => lease'[n] = lease[n] /\ lease[n].run # r
                          /\ lease'[n] # lease[n] => lease[n].run = r
                          /\ lease'[n] \in {lease[n], None}
      BY <1>3 DEF UndoLease
    <2>3. lease' \in [Name -> Lease \cup {None}]
      BY <1>3 DEF UndoLease, PreparationInv, PreparationSafe, PreparationTypeOK
    <2>4. PreparationTypeOK'
      BY <1>1, <2>1, <2>3 DEF PreparationInv, PreparationSafe, PreparationTypeOK, Finish,
                              Become, CallStep, CallsTyped
    <2>5. \A n \in Name : (lease[n] # None /\ lease[n].call = c) => lease[n].run = r
      BY <1>1 DEF PreparationInv, LeasesOfCalls, LeaseOfCall
    <2> QED
      BY <1>1, <2>1, <2>2, <2>4, <2>5, EndKeepsInv
  <1>4. CASE KillCall(c)
    <2>1. Finish(c, "killed") /\ UNCHANGED <<dir, lease>>
      BY <1>4 DEF KillCall
    <2>2. PreparationTypeOK'
      BY <1>1, <2>1 DEF PreparationInv, PreparationSafe, PreparationTypeOK, Finish,
                        Become, CallStep, CallsTyped
    <2> QED
      BY <1>1, <2>1, <2>2, EndKeepsInv
  <1> QED
    BY <1>2, <1>3, <1>4

(* A rollback removes a run only where the call saw no directory when it   *)
(* began: every lease of that run is then its own or of a killed call.     *)
LEMMA UndoFilesKeepsInv ==
  ASSUME PreparationInv, NEW c \in Call, UndoFiles(c)
  PROVE  PreparationInv'
  <1> DEFINE r == req[c].run
  <1>1. /\ pc[c] = "undo" /\ pc' = [pc EXCEPT ![c] = "release"] /\ r \in Run
        /\ UNCHANGED <<lease, req, sampled, claimed, overlap>>
    BY DEF UndoFiles, Become, PreparationInv, CallsApart, InProgress
  <1>2. /\ \A s \in Run \ {r} : life'[s] = life[s] /\ nameOf'[s] = nameOf[s]
                                /\ workerGone'[s] = workerGone[s] /\ dir'[s] = dir[s]
        /\ \/ life'[r] = life[r] /\ nameOf'[r] = nameOf[r] /\ workerGone'[r] = workerGone[r]
           \/ life'[r] = "none" /\ ~sampled[c].dir
    BY <1>1 DEF UndoFiles, PreparationInv, PreparationSafe, PreparationTypeOK
  <1>3. PreparationTypeOK' /\ CallsTyped'
    <2>1. /\ dir' \in [Run -> DirState] /\ life' \in [Run -> LifeState]
          /\ nameOf' \in [Run -> Name \cup {None}] /\ workerGone' \in [Run -> BOOLEAN]
      BY <1>1 DEF UndoFiles, PreparationInv, PreparationSafe, PreparationTypeOK, DirState,
                  LifeState
    <2>2. life'[r] # "none" => dir'[r] \in {"preflight", "published", "ready"}
      BY <1>1 DEF UndoFiles, PreparationInv, PreparationSafe, PreparationTypeOK
    <2>3. pc' \in [Call -> CallStep]
      BY <1>1 DEF PreparationInv, PreparationSafe, PreparationTypeOK, CallStep, InProgress
    <2> QED
      BY <1>1, <1>2, <2>1, <2>2, <2>3 DEF PreparationInv, PreparationSafe, PreparationTypeOK,
                                          CallsTyped
  <1>4. \A s \in Run : Active(s)' => Active(s) /\ nameOf'[s] = nameOf[s]
    BY <1>2 DEF Active
  <1>5. NamesExclusive' /\ ClaimsHeld'
    BY <1>1, <1>4, ClaimsKept DEF PreparationInv, PreparationSafe, PreparationTypeOK
  <1>6. CallsApart' /\ LeasesHaveOwners' /\ LeasesOfCalls'
    <2>1. ASSUME NEW n \in Name, lease[n] # None, life[lease[n].run] # "none",
                 life'[lease[n].run] = "none"
          PROVE  \/ lease[n].run \in overlap
                 \/ pc[lease[n].call] \in InProgress \cup {"killed"}
      <3>1. lease[n].run \in Run /\ LeaseOfCall(n)
        BY <2>1 DEF PreparationInv, PreparationSafe, PreparationTypeOK, LeasesOfCalls, Lease
      <3>2. lease[n].run = r /\ ~sampled[c].dir
        BY <1>2, <2>1, <3>1
      <3> QED
        BY <1>1, <3>1, <3>2 DEF LeaseOfCall, InProgress
    <2> QED
      BY <1>1, <2>1, WorkKeeps DEF InProgress
  <1>7. CallsFresh'
    <2> SUFFICES ASSUME NEW d \in Call, pc'[d] \in {"claim", "handoff", "publish"}
                 PROVE  req[d].run \in overlap \/ life'[req[d].run] = "none"
      BY <1>1 DEF CallsFresh
    <2>1. d # c /\ pc[d] \in {"claim", "handoff", "publish"}
      BY <1>1 DEF PreparationInv, PreparationSafe, PreparationTypeOK
    <2>2. req[d].run \in Run /\ (req[d].run \in overlap \/ life[req[d].run] = "none")
      BY <2>1 DEF PreparationInv, CallsApart, CallsFresh, InProgress
    <2> QED
      BY <1>2, <2>2
  <1> QED
    BY <1>3, <1>5, <1>6, <1>7 DEF PreparationInv, PreparationSafe

(* A published run starts, loses its worker, ends and is retired: no call  *)
(* that holds a claim works on a run that exists.                          *)
LEMMA RunsKeepInv ==
  ASSUME PreparationInv, NEW r \in Run,
         StartRun(r) \/ ObserveRun(r) \/ EndRun(r) \/ RetireRun(r) \/ RetireRelease(r)
  PROVE  PreparationInv'
  <1>1. /\ UNCHANGED <<dir, nameOf, pc, req, sampled, claimed, overlap>>
        /\ life[r] # "none"
    BY DEF StartRun, ObserveRun, EndRun, RetireRun, RetireRelease, calls, files
  <1>2. /\ life' \in [Run -> LifeState] /\ workerGone' \in [Run -> BOOLEAN]
        /\ lease' \in [Name -> Lease \cup {None}]
        /\ \A s \in Run : life'[s] = "none" <=> life[s] = "none"
        /\ \A s \in Run : Active(s)' => Active(s)
        /\ \A n \in Name : lease'[n] = lease[n] \/ (lease'[n] = None /\ lease[n].run = r)
    <2> USE DEF PreparationInv, PreparationSafe, PreparationTypeOK, LifeState, Active
    <2>1. CASE StartRun(r)
      BY <2>1 DEF StartRun
    <2>2. CASE ObserveRun(r)
      BY <2>2 DEF ObserveRun
    <2>3. CASE EndRun(r)
      BY <2>3 DEF EndRun
    <2>4. CASE RetireRun(r)
      BY <2>4 DEF RetireRun
    <2>5. CASE RetireRelease(r)
      BY <2>5 DEF RetireRelease, files
    <2> QED
      BY <2>1, <2>2, <2>3, <2>4, <2>5
  <1>3. PreparationTypeOK' /\ CallsTyped'
    BY <1>1, <1>2 DEF PreparationInv, PreparationSafe, PreparationTypeOK, CallsTyped
  <1>4. CallsApart' /\ CallsFresh'
    BY <1>1, <1>2 DEF PreparationInv, CallsApart, CallsFresh, InProgress
  <1>5. NamesExclusive' /\ ClaimsHeld'
    <2>1. ASSUME NEW c \in Call, NEW n \in Name, pc[c] \in {"handoff", "publish"},
                 req[c].run \notin overlap, HoldsClaim(c, n)
          PROVE  lease'[n] = lease[n]
      BY <1>1, <1>2, <2>1 DEF PreparationInv, CallsFresh, HoldsClaim
    <2> QED
      BY <1>1, <1>2, <2>1, ClaimsKept
  <1>6. \A n \in Name : lease[n] # None => lease[n].run \in Run
    BY DEF PreparationInv, PreparationSafe, PreparationTypeOK, Lease
  <1>7. LeasesHaveOwners' /\ LeasesOfCalls'
    BY <1>1, <1>2, <1>6 DEF PreparationInv, PreparationSafe, LeasesHaveOwners, LeasesOfCalls,
                            LeaseOfCall
  <1> QED
    BY <1>3, <1>4, <1>5, <1>7 DEF PreparationInv, PreparationSafe

(* However prepares, restarts, retirements and kills interleave, a worker  *)
(* name belongs to one active run, two prepares of one run id at once      *)
(* excepted, and no lease leaks (agent_runs.py, prepare and its rollback;  *)
(* agent_identity.py, claim_agent_name and release_agent_name).            *)
THEOREM PreparationIsSafe == PreparationSpec => []PreparationSafe
  <1>1. PreparationInv /\ [PreparationNext]_preparation => PreparationInv'
    <2> SUFFICES ASSUME PreparationInv, [PreparationNext]_preparation
                 PROVE  PreparationInv'
      OBVIOUS
    <2>1. CASE UNCHANGED preparation
      BY <2>1 DEF preparation, files, calls, PreparationInv, PreparationSafe, PreparationTypeOK,
                  NamesExclusive, LeasesHaveOwners, Active, CallsTyped, CallsApart, CallsFresh,
                  ClaimsHeld, HoldsClaim, NameFree, LeasesOfCalls, LeaseOfCall
    <2>2. ASSUME NEW c \in Call, BeginPrepare(c) PROVE PreparationInv'
      <3>1. PICK i \in Id, n \in Name \cup {None} : Begin(c, <<i, 0>>, n)
        BY <2>2 DEF BeginPrepare
      <3>2. <<i, 0>> \in Run
        BY PreparationAssumption DEF Run
      <3> QED
        BY <3>1, <3>2, BeginKeepsInv
    <2>3. ASSUME NEW c \in Call, BeginRestart(c) PROVE PreparationInv'
      <3>1. PICK i \in Id, k \in 1..MaxRetry : Begin(c, <<i, k>>, nameOf[<<i, 0>>])
        BY <2>3 DEF BeginRestart
      <3>2. <<i, 0>> \in Run /\ <<i, k>> \in Run
        BY PreparationAssumption DEF Run
      <3>3. nameOf[<<i, 0>>] \in Name \cup {None}
        BY <3>2 DEF PreparationInv, PreparationSafe, PreparationTypeOK
      <3> QED
        BY <3>1, <3>2, <3>3, BeginKeepsInv
    <2>4. ASSUME NEW c \in Call, PrepareStep(c) \/ KillCall(c) PROVE PreparationInv'
      BY <2>4, PreparingKeepsInv, ClaimNameKeepsInv, PublishKeepsInv, EndingKeepsInv,
         UndoFilesKeepsInv DEF PrepareStep
    <2> QED
      BY <2>1, <2>2, <2>3, <2>4, RunsKeepInv DEF PreparationNext
  <1>2. PreparationInv => PreparationSafe
    BY DEF PreparationInv
  <1> QED
    BY PreparationInitInv, <1>1, <1>2, PTL DEF PreparationSpec
=============================================================================
