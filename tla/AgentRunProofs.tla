--------------------------- MODULE AgentRunProofs ---------------------------
(***************************************************************************)
(* Proofs about AgentRun for any number of start, interrupt, terminate,    *)
(* finalize and steer calls, runners, faults and kills.                    *)
(***************************************************************************)
EXTENDS AgentRun, TLAPS

(* The status of record is an execution status.                            *)
LEMMA AuthorityType ==
  ASSUME IndInv
  PROVE  Authority \in EXECUTION_STATUSES
  BY NoneAssumption DEF NoneAssumption, IndInv, TypeOK, FilesTypeOK, CallInv,
     Authority, execution_state, FinalStatus

(* A recorded exit stays on record, so a zero exit is never forgotten.     *)
LEMMA ZeroExitStable ==
  ASSUME IndInv, NEW r \in Runner, executor[r] = "running",
         \A q \in Runner \ {r} : exit'[q] = exit[q]
  PROVE  ZeroExit => ZeroExit'
  BY DEF IndInv, ExecutorInv, ZeroExit

(* A prepared run that nobody has touched satisfies the invariant.         *)
LEMMA InitIndInv == Init => IndInv
  <1> SUFFICES ASSUME Init PROVE IndInv
    OBVIOUS
  <1> USE ProcAssumption, NoneAssumption DEF ProcAssumption, NoneAssumption,
          Init, Proc, Caller
  <1>1. FilesTypeOK
    <2>1. events \in Seq(EXECUTION_STATUSES) /\ Len(events) > 0
      BY DEF EXECUTION_STATUSES
    <2>2. projection \in Projection
      BY DEF Projection, EXECUTION_STATUSES
    <2> QED
      BY <2>1, <2>2 DEF FilesTypeOK, Evidence
  <1>2. ProcsTypeOK
    BY DEF ProcsTypeOK
  <1>3. CallsTypeOK
    BY DEF CallsTypeOK, Label, Return, Projection, Observation,
           EXECUTION_STATUSES
  <1>4. SealLockInv /\ CallInv
    BY DEF SealLockInv, CallInv
  <1>5. ExecutorInv /\ SuccessInv
    BY DEF ExecutorInv, BeforeSpawn, SuccessInv
  <1> QED
    BY <1>1, <1>2, <1>3, <1>4, <1>5 DEF IndInv, TypeOK

(* transition_execution_path preserves the invariant at each of its steps. *)
LEMMA TransitionStepInd ==
  ASSUME IndInv, NEW p \in Proc,
         TransitionStep(p)
  PROVE  IndInv'
  <1> USE ProcAssumption, NoneAssumption, AuthorityType
      DEF ProcAssumption, NoneAssumption, IndInv, Caller, Proc
  <1> USE DEF TypeOK, CallsTypeOK, Goto, fileVars, procVars, callVars
  <1>1. CASE TransitionSealed(p)
    <2> USE <1>1 DEF TransitionSealed, RaiseLabel
    <2>1. TypeOK'
      BY DEF FilesTypeOK, ProcsTypeOK, Label, Return
    <2>2. SealLockInv' /\ CallInv'
      BY DEF SealLockInv, CallInv
    <2>3. ExecutorInv' /\ SuccessInv'
      BY DEF ExecutorInv, BeforeSpawn, Return, FilesTypeOK, SuccessInv,
         ZeroExit
    <2> QED
      BY <2>1, <2>2, <2>3
  <1>2. CASE TransitionCheck(p)
    <2> USE <1>2 DEF TransitionCheck, RaiseLabel
    <2>1. TypeOK'
      BY DEF FilesTypeOK, ProcsTypeOK, Label, Return
    <2>2. SealLockInv' /\ CallInv'
      BY DEF SealLockInv, CallInv
    <2>3. ExecutorInv' /\ SuccessInv'
      BY DEF ExecutorInv, BeforeSpawn, Return, FilesTypeOK, SuccessInv,
         ZeroExit
    <2> QED
      BY <2>1, <2>2, <2>3
  <1>3. CASE AppendEvent(p)
    <2> USE <1>3 DEF AppendEvent
    <2>1. FilesTypeOK'
      BY DEF FilesTypeOK, CallInv
    <2>2. ProcsTypeOK'
      BY DEF ProcsTypeOK
    <2>3. CallsTypeOK'
      BY DEF Label
    <2>4. SealLockInv' /\ CallInv'
      BY DEF SealLockInv, CallInv
    <2>5. ExecutorInv' /\ SuccessInv'
      BY DEF ExecutorInv, BeforeSpawn, Return, FilesTypeOK, SuccessInv,
         ZeroExit
    <2> QED
      BY <2>1, <2>2, <2>3, <2>4, <2>5
  <1>4. CASE ReadProjection(p)
    <2> USE <1>4 DEF ReadProjection
    <2>1. TypeOK'
      BY DEF FilesTypeOK, ProcsTypeOK, Label, Return, Projection
    <2>2. SealLockInv' /\ CallInv'
      BY DEF SealLockInv, CallInv
    <2>3. ExecutorInv' /\ SuccessInv'
      BY DEF ExecutorInv, BeforeSpawn, Return, FilesTypeOK, SuccessInv,
         ZeroExit
    <2> QED
      BY <2>1, <2>2, <2>3
  <1>5. CASE WriteProjection(p)
    <2> USE <1>5 DEF WriteProjection, Updated
    <2>1. TypeOK'
      BY DEF FilesTypeOK, Projection, ProcsTypeOK, Label, Return
    <2>2. SealLockInv' /\ CallInv'
      BY DEF SealLockInv, Return, CallInv
    <2>3. ExecutorInv' /\ SuccessInv'
      BY DEF ExecutorInv, BeforeSpawn, Return, SuccessInv, ZeroExit
    <2> QED
      BY <2>1, <2>2, <2>3
  <1> QED
    BY <1>1, <1>2, <1>3, <1>4, <1>5 DEF TransitionStep

(* So does the terminal pipeline, in a runner or in a finalizer.           *)
LEMMA PipelineStepInd ==
  ASSUME IndInv, NEW p \in Proc,
         PipelineStep(p)
  PROVE  IndInv'
  <1> USE ProcAssumption, NoneAssumption, AuthorityType
      DEF ProcAssumption, NoneAssumption, IndInv, Caller, Proc
  <1> USE DEF TypeOK, CallsTypeOK, Goto, fileVars, procVars, callVars
  <1>1. CASE Collect(p)
    <2> USE <1>1 DEF Collect, TerminalStatus
    <2>1. TypeOK'
      BY DEF FilesTypeOK, Evidence, ProcsTypeOK, Label, Return,
         EXECUTION_STATUSES
    <2>2. SealLockInv' /\ CallInv'
      BY DEF SealLockInv, CallInv, Label, EXECUTION_STATUSES
    <2>3. ExecutorInv' /\ SuccessInv'
      BY DEF ExecutorInv, BeforeSpawn, Return, FilesTypeOK, SuccessInv,
         ZeroExit
    <2> QED
      BY <2>1, <2>2, <2>3
  <1>2. CASE WriteFinalStatus(p)
    <2> USE <1>2 DEF WriteFinalStatus
    <2>1. FilesTypeOK'
      <3>1. finalStatus' \in FinalStatus
        BY DEF CallInv, FinalStatus
      <3> QED
        BY <3>1 DEF TypeOK, FilesTypeOK
    <2>2. ProcsTypeOK'
      BY DEF ProcsTypeOK
    <2>3. CallsTypeOK'
      BY DEF Label
    <2>4. SealLockInv'
      BY DEF SealLockInv
    <2>5. CallInv'
      <3>1. finalStatus' \in FinalStatus
        BY DEF CallInv, FinalStatus
      <3> QED
        BY <3>1 DEF CallInv
    <2>6. ExecutorInv' /\ SuccessInv'
      BY DEF ExecutorInv, BeforeSpawn, Return, FilesTypeOK, SuccessInv,
         ZeroExit
    <2> QED
      BY <2>1, <2>2, <2>3, <2>4, <2>5, <2>6
  <1>3. CASE SealDigest(p)
    <2> USE <1>3 DEF SealDigest
    <2>1. FilesTypeOK'
      BY DEF FilesTypeOK
    <2>2. ProcsTypeOK'
      BY DEF ProcsTypeOK
    <2>3. CallsTypeOK'
      <3>1. snap'[p] \in Seal
        BY DEF FilesTypeOK, CallInv, Seal
      <3> QED
        BY <3>1 DEF Label
    <2>4. SealLockInv'
      BY DEF SealLockInv
    <2>5. CallInv'
      <3>1. snap'[p] \in Seal
        BY DEF FilesTypeOK, CallInv, Seal
      <3> QED
        BY <3>1 DEF CallInv
    <2>6. ExecutorInv'
      BY DEF ExecutorInv, BeforeSpawn, Return
    <2>7. SuccessInv'
      <3>1. finalStatus # None /\ snap'[p].final = finalStatus
        BY DEF CallInv
      <3> QED
        BY <3>1 DEF SuccessInv, ZeroExit
    <2> QED
      BY <2>1, <2>2, <2>3, <2>4, <2>5, <2>6, <2>7
  <1>4. CASE SealRefused(p)
    <2> USE <1>4 DEF SealRefused, CallTransition, RaiseLabel
    <2>1. TypeOK'
      BY DEF FilesTypeOK, ProcsTypeOK, Label, Return, EXECUTION_STATUSES
    <2>2. SealLockInv' /\ CallInv'
      BY DEF SealLockInv, CallInv, Label, EXECUTION_STATUSES
    <2>3. ExecutorInv' /\ SuccessInv'
      BY DEF ExecutorInv, BeforeSpawn, Return, FilesTypeOK, SuccessInv,
         ZeroExit
    <2> QED
      BY <2>1, <2>2, <2>3
  <1>5. CASE WriteReceipt(p)
    <2> USE <1>5 DEF WriteReceipt, CallTransition
    <2>1. TypeOK'
      BY DEF FilesTypeOK, ProcsTypeOK, Label, Return, EXECUTION_STATUSES
    <2>2. SealLockInv' /\ CallInv'
      BY DEF SealLockInv, CallInv
    <2>3. ExecutorInv' /\ SuccessInv'
      BY DEF ExecutorInv, BeforeSpawn, Return, FilesTypeOK, SuccessInv,
         ZeroExit
    <2> QED
      BY <2>1, <2>2, <2>3
  <1>6. CASE MakeReadOnly(p)
    <2> USE <1>6 DEF MakeReadOnly
    <2>1. TypeOK'
      BY DEF FilesTypeOK, ProcsTypeOK, Label, Return, EXECUTION_STATUSES
    <2>2. SealLockInv' /\ CallInv'
      BY DEF SealLockInv, CallInv
    <2>3. ExecutorInv' /\ SuccessInv'
      BY DEF ExecutorInv, BeforeSpawn, Return, FilesTypeOK, SuccessInv,
         ZeroExit
    <2> QED
      BY <2>1, <2>2, <2>3
  <1> QED
    BY <1>1, <1>2, <1>3, <1>4, <1>5, <1>6 DEF PipelineStep

(* The steps of the runner itself, and the end of its executor.            *)
LEMMA RunnerOwnStepInd ==
  ASSUME IndInv, NEW p \in Runner,
         \/ RunnerLaunch(p) \/ SpawnExecutor(p) \/ SpawnFails(p)
         \/ InstallHandlers(p) \/ Heartbeat(p) \/ Timeout(p)
         \/ NoticeExit(p) \/ WriteProcessResult(p) \/ ExecutorExits(p)
  PROVE  IndInv'
  <1> USE ProcAssumption, NoneAssumption, AuthorityType
      DEF ProcAssumption, NoneAssumption, IndInv, Caller, Proc
  <1> USE DEF TypeOK, CallsTypeOK, Goto, fileVars, procVars, callVars
  <1>1. CASE RunnerLaunch(p)
    <2> USE <1>1 DEF RunnerLaunch, CallTransition
    <2>1. TypeOK'
      BY DEF FilesTypeOK, ProcsTypeOK, Label, Return, EXECUTION_STATUSES
    <2>2. SealLockInv' /\ CallInv'
      BY DEF SealLockInv, CallInv, Label, EXECUTION_STATUSES
    <2>3. ExecutorInv' /\ SuccessInv'
      BY DEF ExecutorInv, BeforeSpawn, Return, FilesTypeOK, SuccessInv,
         ZeroExit
    <2> QED
      BY <2>1, <2>2, <2>3
  <1>2. CASE SpawnExecutor(p)
    <2> USE <1>2 DEF SpawnExecutor
    <2>1. TypeOK'
      BY DEF FilesTypeOK, ProcsTypeOK, Label, Return
    <2>2. SealLockInv' /\ CallInv'
      BY DEF SealLockInv, CallInv
    <2>3. ExecutorInv' /\ SuccessInv'
      BY DEF ProcsTypeOK, ExecutorInv, BeforeSpawn, Return, FilesTypeOK,
         SuccessInv, ZeroExit
    <2> QED
      BY <2>1, <2>2, <2>3
  <1>3. CASE SpawnFails(p)
    <2> USE <1>3 DEF SpawnFails
    <2>1. TypeOK'
      BY DEF FilesTypeOK, Result, Codes, ProcsTypeOK, Label, Return,
         Observation, ExecutorResult
    <2>2. SealLockInv' /\ CallInv'
      BY DEF SealLockInv, CallInv
    <2>3. ExecutorInv' /\ SuccessInv'
      BY DEF ExecutorInv, BeforeSpawn, Return, FilesTypeOK, SuccessInv,
         ZeroExit
    <2> QED
      BY <2>1, <2>2, <2>3
  <1>4. CASE InstallHandlers(p)
    <2> USE <1>4 DEF InstallHandlers
    <2>1. TypeOK'
      BY DEF FilesTypeOK, ProcsTypeOK, Label, Return
    <2>2. SealLockInv' /\ CallInv'
      BY DEF FilesTypeOK, SealLockInv, Return, CallInv
    <2>3. ExecutorInv' /\ SuccessInv'
      BY DEF ProcsTypeOK, ExecutorInv, BeforeSpawn, Return, FilesTypeOK,
         SuccessInv, ZeroExit
    <2> QED
      BY <2>1, <2>2, <2>3
  <1>5. CASE Heartbeat(p)
    <2> USE <1>5 DEF Heartbeat
    <2>1. TypeOK'
      BY DEF FilesTypeOK, Evidence, ProcsTypeOK, Label, Return
    <2>2. SealLockInv' /\ CallInv'
      BY DEF SealLockInv, CallInv
    <2>3. ExecutorInv' /\ SuccessInv'
      BY DEF ExecutorInv, BeforeSpawn, Return, FilesTypeOK, SuccessInv,
         ZeroExit
    <2> QED
      BY <2>1, <2>2, <2>3
  <1>6. CASE Timeout(p)
    <2> USE <1>6 DEF Timeout
    <2>1. TypeOK'
      BY DEF FilesTypeOK, ProcsTypeOK, Result, Codes, Label, Return
    <2>2. SealLockInv' /\ CallInv'
      BY DEF SealLockInv, CallInv
    <2>3. ExecutorInv'
      <3>1. PICK c \in Codes : exit' = [exit EXCEPT ![p] = [code |-> c, timedOut |-> TRUE]]
        BY DEF Codes
      <3>2. [code |-> c, timedOut |-> TRUE] \in Result
        BY DEF Result
      <3> QED
        BY <3>1, <3>2 DEF ProcsTypeOK, ExecutorInv, BeforeSpawn
    <2>4. SuccessInv'
      <3>1. \A r \in Runner \ {p} : exit'[r] = exit[r]
        BY DEF ProcsTypeOK
      <3>2. ZeroExit => ZeroExit'
        BY <3>1, ZeroExitStable
      <3> QED
        BY <3>2 DEF SuccessInv
    <2> QED
      BY <2>1, <2>2, <2>3, <2>4
  <1>7. CASE NoticeExit(p)
    <2> USE <1>7 DEF NoticeExit
    <2>1. TypeOK'
      BY DEF FilesTypeOK, ProcsTypeOK, Label, Return
    <2>2. SealLockInv' /\ CallInv'
      BY DEF SealLockInv, CallInv
    <2>3. ExecutorInv' /\ SuccessInv'
      BY DEF ProcsTypeOK, ExecutorInv, BeforeSpawn, Return, FilesTypeOK,
         SuccessInv, ZeroExit
    <2> QED
      BY <2>1, <2>2, <2>3
  <1>8. CASE WriteProcessResult(p)
    <2> USE <1>8 DEF WriteProcessResult, RunnerResult
    <2>1. TypeOK'
      BY DEF FilesTypeOK, ProcsTypeOK, Label, Return, Observation,
         ExecutorResult
    <2>2. SealLockInv' /\ CallInv'
      BY DEF SealLockInv, CallInv
    <2>3. ExecutorInv'
      BY DEF ExecutorInv, BeforeSpawn, Return
    <2>4. SuccessInv'
      <3>1. exit[p] # None
        BY DEF ExecutorInv
      <3>2. exit[p].code = "zero" => ZeroExit
        BY <3>1 DEF ZeroExit
      <3>3. RunnerResult(exit[p]) = "completed" => ZeroExit
        BY <3>2
      <3> QED
        BY <3>2, <3>3 DEF SuccessInv, ZeroExit
    <2> QED
      BY <2>1, <2>2, <2>3, <2>4
  <1>9. CASE ExecutorExits(p)
    <2> USE <1>9 DEF ExecutorExits
    <2>1. TypeOK'
      BY DEF FilesTypeOK, ProcsTypeOK, Result, Codes
    <2>2. SealLockInv' /\ CallInv'
      BY DEF SealLockInv, CallInv, Return
    <2>3. ExecutorInv'
      <3>1. PICK c \in Codes : exit' = [exit EXCEPT ![p] = [code |-> c, timedOut |-> FALSE]]
        BY DEF Codes
      <3>2. [code |-> c, timedOut |-> FALSE] \in Result
        BY DEF Result
      <3> QED
        BY <3>1, <3>2 DEF ProcsTypeOK, ExecutorInv, BeforeSpawn
    <2>4. SuccessInv'
      <3>1. \A r \in Runner \ {p} : exit'[r] = exit[r]
        BY DEF ProcsTypeOK
      <3>2. ZeroExit => ZeroExit'
        BY <3>1, ZeroExitStable
      <3> QED
        BY <3>2 DEF SuccessInv
    <2> QED
      BY <2>1, <2>2, <2>3, <2>4
  <1> QED
    BY <1>1, <1>2, <1>3, <1>4, <1>5, <1>6, <1>7, <1>8, <1>9

(* The decision of finalize_run before it enters the pipeline.             *)
LEMMA FinalizeStepInd ==
  ASSUME IndInv, NEW p \in Finalizer,
         FinalizeStep(p)
  PROVE  IndInv'
  <1> USE ProcAssumption, NoneAssumption, AuthorityType
      DEF ProcAssumption, NoneAssumption, IndInv, Caller, Proc
  <1> USE DEF TypeOK, CallsTypeOK, Goto, fileVars, procVars, callVars
  <1>1. CASE FinalizeBegin(p)
    <2> USE <1>1 DEF FinalizeBegin, Synchronize, RaiseLabel
    <2>1. FilesTypeOK'
      BY DEF FilesTypeOK
    <2>2. ProcsTypeOK'
      BY DEF ProcsTypeOK
    <2>3. CallsTypeOK'
      BY DEF FilesTypeOK, Label, Return, EXECUTION_STATUSES, Projection,
         Observation, ExecutorResult, Result, Codes, ProcsTypeOK
    <2>4. SealLockInv' /\ CallInv'
      BY DEF SealLockInv, CallInv
    <2>5. ExecutorInv' /\ SuccessInv'
      BY DEF ExecutorInv, BeforeSpawn, Return, FilesTypeOK, SuccessInv,
         ZeroExit
    <2> QED
      BY <2>1, <2>2, <2>3, <2>4, <2>5
  <1>2. CASE AlreadyFinalized(p)
    <2> USE <1>2 DEF AlreadyFinalized
    <2>1. TypeOK'
      BY DEF FilesTypeOK, ProcsTypeOK, Label, Return
    <2>2. SealLockInv' /\ CallInv'
      BY DEF SealLockInv, CallInv
    <2>3. ExecutorInv' /\ SuccessInv'
      BY DEF ExecutorInv, BeforeSpawn, Return, FilesTypeOK, SuccessInv,
         ZeroExit
    <2> QED
      BY <2>1, <2>2, <2>3
  <1>3. CASE SampleProcesses(p)
    <2> USE <1>3 DEF SampleProcesses
    <2>1. TypeOK'
      BY DEF FilesTypeOK, ProcsTypeOK, Label, Return
    <2>2. SealLockInv' /\ CallInv'
      BY DEF SealLockInv, CallInv
    <2>3. ExecutorInv' /\ SuccessInv'
      BY DEF ExecutorInv, BeforeSpawn, Return, FilesTypeOK, SuccessInv,
         ZeroExit
    <2> QED
      BY <2>1, <2>2, <2>3
  <1>4. CASE FinalizeRefused(p)
    <2> USE <1>4 DEF FinalizeRefused
    <2>1. TypeOK'
      BY DEF FilesTypeOK, ProcsTypeOK, Label, Return
    <2>2. SealLockInv' /\ CallInv'
      BY DEF SealLockInv, CallInv
    <2>3. ExecutorInv' /\ SuccessInv'
      BY DEF ExecutorInv, BeforeSpawn, Return, FilesTypeOK, SuccessInv,
         ZeroExit
    <2> QED
      BY <2>1, <2>2, <2>3
  <1>5. CASE FinalizeProceeds(p)
    <2> USE <1>5 DEF FinalizeProceeds, RecoveryResult
    <2>1. FilesTypeOK'
      BY DEF FilesTypeOK
    <2>2. ProcsTypeOK'
      BY DEF ProcsTypeOK
    <2>3. CallsTypeOK'
      <3>1. obs' \in [Proc -> Observation]
        BY DEF Observation, ExecutorResult
      <3> QED
        BY <3>1 DEF Label
    <2>4. SealLockInv' /\ CallInv'
      BY DEF SealLockInv, CallInv
    <2>5. ExecutorInv' /\ SuccessInv'
      BY DEF ExecutorInv, BeforeSpawn, Return, FilesTypeOK, SuccessInv,
         ZeroExit
    <2> QED
      BY <2>1, <2>2, <2>3, <2>4, <2>5
  <1>6. CASE ConvergeWait(p)
    <2> USE <1>6 DEF ConvergeWait, RecoveryResult
    <2>1. TypeOK'
      BY DEF FilesTypeOK, ProcsTypeOK, Label, Return, Observation,
         ExecutorResult, Result, Codes
    <2>2. SealLockInv' /\ CallInv'
      BY DEF SealLockInv, CallInv
    <2>3. ExecutorInv' /\ SuccessInv'
      BY DEF ExecutorInv, BeforeSpawn, Return, FilesTypeOK, SuccessInv,
         ZeroExit
    <2> QED
      BY <2>1, <2>2, <2>3
  <1>7. CASE ConvergePoll(p)
    <2> USE <1>7 DEF ConvergePoll, Synchronize, RaiseLabel
    <2>1. TypeOK'
      BY DEF FilesTypeOK, ProcsTypeOK, Label, Return, EXECUTION_STATUSES,
         Projection
    <2>2. SealLockInv' /\ CallInv'
      BY DEF SealLockInv, CallInv
    <2>3. ExecutorInv' /\ SuccessInv'
      BY DEF ExecutorInv, BeforeSpawn, Return, FilesTypeOK, SuccessInv,
         ZeroExit
    <2> QED
      BY <2>1, <2>2, <2>3
  <1>8. CASE ConvergeRunnerGone(p)
    <2> USE <1>8 DEF ConvergeRunnerGone
    <2>1. TypeOK'
      BY DEF FilesTypeOK, ProcsTypeOK, Label, Return
    <2>2. SealLockInv' /\ CallInv'
      BY DEF SealLockInv, CallInv
    <2>3. ExecutorInv' /\ SuccessInv'
      BY DEF ExecutorInv, BeforeSpawn, Return, FilesTypeOK, SuccessInv,
         ZeroExit
    <2> QED
      BY <2>1, <2>2, <2>3
  <1>9. CASE ConvergeAgain(p)
    <2> USE <1>9 DEF ConvergeAgain
    <2>1. FilesTypeOK'
      BY DEF FilesTypeOK
    <2>2. ProcsTypeOK'
      BY DEF ProcsTypeOK
    <2>3. CallsTypeOK'
      <3>1. pc' \in [Proc -> Label]
        BY DEF Label
      <3> QED
        BY <3>1 DEF TypeOK, CallsTypeOK
    <2>4. SealLockInv' /\ CallInv'
      BY DEF SealLockInv, CallInv
    <2>5. ExecutorInv' /\ SuccessInv'
      BY DEF ExecutorInv, BeforeSpawn, Return, FilesTypeOK, SuccessInv,
         ZeroExit
    <2> QED
      BY <2>1, <2>2, <2>3, <2>4, <2>5
  <1>10. CASE FinalizeEnd(p)
    <2> USE <1>10 DEF FinalizeEnd
    <2>1. TypeOK'
      BY DEF FilesTypeOK, ProcsTypeOK, Label, Return
    <2>2. SealLockInv' /\ CallInv'
      BY DEF SealLockInv, CallInv
    <2>3. ExecutorInv' /\ SuccessInv'
      BY DEF ExecutorInv, BeforeSpawn, Return, FilesTypeOK, SuccessInv,
         ZeroExit
    <2> QED
      BY <2>1, <2>2, <2>3
  <1> QED
    BY <1>1, <1>2, <1>3, <1>4, <1>5, <1>6, <1>7, <1>8, <1>9, <1>10 DEF
       FinalizeStep

(* interrupt and terminate; a signal may end a runner that holds seal.lock. *)
LEMMA ControlStepInd ==
  ASSUME IndInv, NEW p \in Caller,
         ControlStep(p)
  PROVE  IndInv'
  <1> USE ProcAssumption, NoneAssumption, AuthorityType
      DEF ProcAssumption, NoneAssumption, IndInv, Caller, Proc
  <1> USE DEF TypeOK, CallsTypeOK, Goto, fileVars, procVars, callVars
  <1>1. CASE Interrupt(p)
    <2> USE <1>1 DEF Interrupt, SignalAndGoto, Alive, Gone
    <2>1. TypeOK'
      BY DEF FilesTypeOK, ProcsTypeOK, Label, Return, EXECUTION_STATUSES
    <2>2. SealLockInv' /\ CallInv'
      BY DEF SealLockInv, CallInv, Label, EXECUTION_STATUSES
    <2>3. ExecutorInv' /\ SuccessInv'
      BY DEF ExecutorInv, BeforeSpawn, Return, FilesTypeOK, SuccessInv,
         ZeroExit
    <2> QED
      BY <2>1, <2>2, <2>3
  <1>2. CASE ControlOnTerminal(p)
    <2> USE <1>2 DEF ControlOnTerminal
    <2>1. TypeOK'
      BY DEF FilesTypeOK, ProcsTypeOK, Label, Return
    <2>2. SealLockInv' /\ CallInv'
      BY DEF SealLockInv, CallInv
    <2>3. ExecutorInv' /\ SuccessInv'
      BY DEF ExecutorInv, BeforeSpawn, Return, FilesTypeOK, SuccessInv,
         ZeroExit
    <2> QED
      BY <2>1, <2>2, <2>3
  <1>3. CASE TerminateInt(p)
    <2> USE <1>3 DEF TerminateInt, SignalAndGoto, Alive, Gone
    <2>1. TypeOK'
      BY DEF FilesTypeOK, ProcsTypeOK, Label, Return
    <2>2. SealLockInv' /\ CallInv'
      BY DEF SealLockInv, CallInv
    <2>3. ExecutorInv' /\ SuccessInv'
      BY DEF ExecutorInv, BeforeSpawn, Return, FilesTypeOK, SuccessInv,
         ZeroExit
    <2> QED
      BY <2>1, <2>2, <2>3
  <1>4. CASE WorkerGone(p)
    <2> USE <1>4 DEF WorkerGone
    <2>1. TypeOK'
      BY DEF FilesTypeOK, ProcsTypeOK, Label, Return
    <2>2. SealLockInv' /\ CallInv'
      BY DEF SealLockInv, CallInv
    <2>3. ExecutorInv' /\ SuccessInv'
      BY DEF ExecutorInv, BeforeSpawn, Return, FilesTypeOK, SuccessInv,
         ZeroExit
    <2> QED
      BY <2>1, <2>2, <2>3
  <1>5. CASE TerminateTerm(p)
    <2> USE <1>5 DEF TerminateTerm, SignalAndGoto, Alive, Gone
    <2>1. TypeOK'
      BY DEF FilesTypeOK, ProcsTypeOK, Label, Return
    <2>2. SealLockInv' /\ CallInv'
      BY DEF SealLockInv, CallInv
    <2>3. ExecutorInv' /\ SuccessInv'
      BY DEF ExecutorInv, BeforeSpawn, Return, FilesTypeOK, SuccessInv,
         ZeroExit
    <2> QED
      BY <2>1, <2>2, <2>3
  <1>6. CASE TerminateKill(p)
    <2> USE <1>6 DEF TerminateKill, Alive, Gone
    <2>1. TypeOK'
      BY DEF FilesTypeOK, ProcsTypeOK, Label, Return
    <2>2. SealLockInv' /\ CallInv'
      BY DEF SealLockInv, CallInv
    <2>3. ExecutorInv' /\ SuccessInv'
      BY DEF ExecutorInv, BeforeSpawn, Return, FilesTypeOK, SuccessInv,
         ZeroExit
    <2> QED
      BY <2>1, <2>2, <2>3
  <1>7. CASE TerminateProject(p)
    <2> USE <1>7 DEF TerminateProject, CallTransition, Synchronize, RaiseLabel
    <2>1. FilesTypeOK'
      BY DEF FilesTypeOK
    <2>2. ProcsTypeOK'
      BY DEF ProcsTypeOK
    <2>3. CallsTypeOK'
      <3>1. CASE CallTransition(p, "terminated", "done") /\ UNCHANGED buf
        BY <3>1 DEF Label, Return, EXECUTION_STATUSES
      <3>2. CASE Synchronize(p, "done")
        BY <3>2 DEF FilesTypeOK, Label, Return
      <3> QED
        BY <3>1, <3>2
    <2>4. SealLockInv'
      BY DEF SealLockInv
    <2>5. CallInv'
      <3>1. CASE CallTransition(p, "terminated", "done") /\ UNCHANGED buf
        BY <3>1 DEF CallInv, EXECUTION_STATUSES
      <3>2. CASE Synchronize(p, "done")
        BY <3>2 DEF CallInv
      <3> QED
        BY <3>1, <3>2
    <2>6. ExecutorInv'
      <3>1. CASE CallTransition(p, "terminated", "done") /\ UNCHANGED buf
        BY <3>1 DEF ProcsTypeOK, ExecutorInv, BeforeSpawn
      <3>2. CASE Synchronize(p, "done")
        BY <3>2 DEF ProcsTypeOK, ExecutorInv, BeforeSpawn
      <3> QED
        BY <3>1, <3>2
    <2>7. SuccessInv'
      BY DEF SuccessInv, ZeroExit
    <2> QED
      BY <2>1, <2>2, <2>3, <2>4, <2>5, <2>6, <2>7
  <1> QED
    BY <1>1, <1>2, <1>3, <1>4, <1>5, <1>6, <1>7 DEF ControlStep

(* The beginning of every command, start, the evidence writers, and a kill. *)
LEMMA CommandStepInd ==
  ASSUME IndInv, NEW p \in Proc,
         \/ Begin(p)
         \/ p \in Starter /\ (StartSpawn(p) \/ StartRefused(p))
         \/ p \in Operator /\ (ActiveCheck(p) \/ AppendEvidence(p))
         \/ p \in Killable /\ Kill(p)
  PROVE  IndInv'
  <1> USE ProcAssumption, NoneAssumption, AuthorityType
      DEF ProcAssumption, NoneAssumption, IndInv, Caller, Proc
  <1> USE DEF TypeOK, CallsTypeOK, Goto, fileVars, procVars, callVars
  <1>1. CASE Begin(p)
    <2> USE <1>1 DEF Begin, Synchronize, RaiseLabel, AfterSync
    <2>1. FilesTypeOK'
      BY DEF FilesTypeOK
    <2>2. ProcsTypeOK'
      BY DEF ProcsTypeOK
    <2>3. CallsTypeOK'
      BY DEF FilesTypeOK, Label, Return, EXECUTION_STATUSES, Projection
    <2>4. SealLockInv' /\ CallInv'
      BY DEF SealLockInv, CallInv
    <2>5. ExecutorInv' /\ SuccessInv'
      BY DEF ExecutorInv, BeforeSpawn, Return, FilesTypeOK, SuccessInv,
         ZeroExit
    <2> QED
      BY <2>1, <2>2, <2>3, <2>4, <2>5
  <1>2. CASE p \in Starter /\ StartSpawn(p)
    <2> USE <1>2 DEF StartSpawn
    <2>1. FilesTypeOK'
      BY DEF FilesTypeOK
    <2>2. ProcsTypeOK'
      BY DEF ProcsTypeOK
    <2>3. CallsTypeOK'
      <3>1. PICK r \in Runner :
                /\ mine' = [mine EXCEPT ![p] = r]
                /\ pc' = [pc EXCEPT ![p] = "transition", ![r] = "launch"]
        OBVIOUS
      <3>2. mine' \in [Starter -> Runner \cup {None}]
        BY <3>1
      <3>3. pc' \in [Proc -> Label]
        BY <3>1 DEF Label
      <3> QED
        BY <3>2, <3>3 DEF Return, EXECUTION_STATUSES
    <2>4. SealLockInv' /\ CallInv'
      BY DEF SealLockInv, CallInv, Label, EXECUTION_STATUSES
    <2>5. ExecutorInv' /\ SuccessInv'
      BY DEF ExecutorInv, BeforeSpawn, Return, FilesTypeOK, SuccessInv,
         ZeroExit
    <2> QED
      BY <2>1, <2>2, <2>3, <2>4, <2>5
  <1>3. CASE p \in Starter /\ StartRefused(p)
    <2> USE <1>3 DEF StartRefused
    <2>1. TypeOK'
      BY DEF FilesTypeOK, ProcsTypeOK, Label, Return
    <2>2. SealLockInv' /\ CallInv'
      BY DEF SealLockInv, CallInv
    <2>3. ExecutorInv' /\ SuccessInv'
      BY DEF ExecutorInv, BeforeSpawn, Return, FilesTypeOK, SuccessInv,
         ZeroExit
    <2> QED
      BY <2>1, <2>2, <2>3
  <1>4. CASE p \in Operator /\ ActiveCheck(p)
    <2> USE <1>4 DEF ActiveCheck
    <2>1. TypeOK'
      BY DEF FilesTypeOK, ProcsTypeOK, Label, Return
    <2>2. SealLockInv' /\ CallInv'
      BY DEF SealLockInv, CallInv
    <2>3. ExecutorInv' /\ SuccessInv'
      BY DEF ExecutorInv, BeforeSpawn, Return, FilesTypeOK, SuccessInv,
         ZeroExit
    <2> QED
      BY <2>1, <2>2, <2>3
  <1>5. CASE p \in Operator /\ AppendEvidence(p)
    <2> USE <1>5 DEF AppendEvidence
    <2>1. TypeOK'
      BY DEF FilesTypeOK, Evidence, ProcsTypeOK, Label, Return
    <2>2. SealLockInv' /\ CallInv'
      BY DEF SealLockInv, CallInv
    <2>3. ExecutorInv' /\ SuccessInv'
      BY DEF ExecutorInv, BeforeSpawn, Return, FilesTypeOK, SuccessInv,
         ZeroExit
    <2> QED
      BY <2>1, <2>2, <2>3
  <1>6. CASE p \in Killable /\ Kill(p)
    <2> USE <1>6 DEF Kill, RaiseLabel
    <2>1. TypeOK'
      BY DEF FilesTypeOK, ProcsTypeOK, Label, Return
    <2>2. SealLockInv' /\ CallInv'
      BY DEF SealLockInv, CallInv
    <2>3. ExecutorInv' /\ SuccessInv'
      BY DEF ExecutorInv, BeforeSpawn, Return, FilesTypeOK, SuccessInv,
         ZeroExit
    <2> QED
      BY <2>1, <2>2, <2>3
  <1> QED
    BY <1>1, <1>2, <1>3, <1>4, <1>5, <1>6

(* Steps that leave every variable alone.                                 *)
LEMMA StutterInd ==
  ASSUME IndInv, UNCHANGED vars
  PROVE  IndInv'
  BY DEF IndInv, vars, fileVars, procVars, callVars, TypeOK, FilesTypeOK,
     ProcsTypeOK, CallsTypeOK, SealLockInv, CallInv, ExecutorInv, BeforeSpawn,
     SuccessInv, ZeroExit

(* The invariant is inductive.                                             *)
LEMMA NextIndInv == IndInv /\ [Next]_vars => IndInv'
  <1> SUFFICES ASSUME IndInv, [Next]_vars PROVE IndInv'
    OBVIOUS
  <1> USE DEF Proc
  <1>1. ASSUME NEW r \in Runner, RunnerStep(r) PROVE IndInv'
    BY <1>1, TransitionStepInd, PipelineStepInd, RunnerOwnStepInd DEF RunnerStep
  <1>2. ASSUME NEW r \in Runner, ExecutorExits(r) PROVE IndInv'
    BY <1>2, RunnerOwnStepInd
  <1>3. ASSUME NEW p \in Caller, CallerStep(p) PROVE IndInv'
    BY <1>3, TransitionStepInd, PipelineStepInd, FinalizeStepInd,
       ControlStepInd, CommandStepInd DEF CallerStep
  <1>4. ASSUME NEW p \in Killable, Kill(p) PROVE IndInv'
    BY <1>4, CommandStepInd, ProcAssumption DEF ProcAssumption, Caller
  <1>5. CASE UNCHANGED vars
    BY <1>5, StutterInd
  <1> QED
    BY <1>1, <1>2, <1>3, <1>4, <1>5 DEF Next

(* The invariant holds throughout every behaviour of the run.              *)
THEOREM AgentRunInvariant == Spec => []IndInv
  <1> QED
    BY InitIndInv, NextIndInv, PTL DEF Spec

(* Files, processes and calls always have the values their schemas allow.  *)
THEOREM AgentRunTypeOK == Spec => []TypeOK
  <1>1. IndInv => TypeOK
    BY DEF IndInv
  <1> QED
    BY <1>1, AgentRunInvariant, PTL

(* However many runners and finalizers race or are killed, only a run some *)
(* executor of which returned zero is sealed as completed.                 *)
THEOREM AgentRunNoFabricatedSuccess == Spec => []NoFabricatedSuccess
  <1>1. IndInv => NoFabricatedSuccess
    BY DEF IndInv, SuccessInv, ZeroExit, NoFabricatedSuccess
  <1> QED
    BY <1>1, AgentRunInvariant, PTL

(* WriteReceipt is the only step that changes the receipt, and it runs     *)
(* under seal.lock, while there is none.                                   *)
LEMMA ReceiptChanges ==
  ASSUME IndInv, [Next]_vars, receipt' # receipt
  PROVE  receipt = None
  <1> USE ProcAssumption, NoneAssumption DEF ProcAssumption, Proc, Caller
  <1> USE DEF fileVars, procVars, callVars
  <1>1. CASE \E p \in Proc : WriteReceipt(p)
    BY <1>1 DEF WriteReceipt, IndInv, SealLockInv
  <1>2. ASSUME NEW p \in Proc, TransitionStep(p) PROVE FALSE
    BY <1>2 DEF TransitionStep, TransitionSealed, TransitionCheck, AppendEvent,
       ReadProjection, WriteProjection
  <1>3. ASSUME NEW p \in Proc, PipelineStep(p), ~WriteReceipt(p) PROVE FALSE
    BY <1>3 DEF PipelineStep, Collect, WriteFinalStatus, SealDigest,
       SealRefused, MakeReadOnly
  <1>4. ASSUME NEW r \in Runner, RunnerStep(r) \/ ExecutorExits(r)
        PROVE  receipt = None
    BY <1>1, <1>2, <1>3, <1>4 DEF RunnerStep, RunnerLaunch, SpawnExecutor,
       SpawnFails, InstallHandlers, Heartbeat, Timeout, NoticeExit,
       WriteProcessResult, ExecutorExits
  <1>5. ASSUME NEW p \in Finalizer, FinalizeStep(p) PROVE FALSE
    BY <1>5 DEF FinalizeStep, FinalizeBegin, AlreadyFinalized,
       SampleProcesses, FinalizeRefused, FinalizeProceeds, ConvergeWait,
       ConvergePoll, ConvergeRunnerGone, ConvergeAgain, FinalizeEnd
  <1>6. ASSUME NEW p \in Caller, ControlStep(p) PROVE FALSE
    BY <1>6 DEF ControlStep, Interrupt, ControlOnTerminal, TerminateInt,
       WorkerGone, TerminateTerm, TerminateKill, TerminateProject,
       SignalAndGoto
  <1>7. ASSUME NEW p \in Caller, CallerStep(p) PROVE receipt = None
    BY <1>1, <1>2, <1>3, <1>5, <1>6, <1>7 DEF CallerStep, Begin, StartSpawn,
       StartRefused, ActiveCheck, AppendEvidence
  <1>8. ASSUME NEW p \in Killable, Kill(p) PROVE FALSE
    BY <1>8 DEF Kill
  <1>9. ~UNCHANGED vars
    BY DEF vars
  <1> QED
    BY <1>4, <1>7, <1>8, <1>9 DEF Next

(* The receipt is written once: a second seal is always refused.           *)
THEOREM AgentRunReceiptOnce == Spec => ReceiptWrittenOnce
  <1>1. IndInv /\ [Next]_vars => [receipt # None => receipt' = receipt]_vars
    BY ReceiptChanges
  <1> QED
    BY <1>1, AgentRunInvariant, PTL DEF Spec, ReceiptWrittenOnce

(* Whoever reads a verified seal twice reads the same outcome, although    *)
(* final-status.json may have been overwritten in between.                 *)
THEOREM AgentRunOutcomeStable == Spec => SealedOutcomeStable
  <1>1. IndInv /\ [Next]_vars
          => [ (receipt # None /\ SealVerifies) /\ SealVerifies'
                 => Authority' = Authority ]_vars
    <2> SUFFICES ASSUME IndInv, [Next]_vars, receipt # None, SealVerifies,
                        SealVerifies'
                 PROVE  Authority' = Authority
      OBVIOUS
    <2>1. receipt' = receipt
      BY ReceiptChanges
    <2> QED
      BY <2>1 DEF SealVerifies, Authority
  <1> QED
    BY <1>1, AgentRunInvariant, PTL DEF Spec, SealedOutcomeStable

-----------------------------------------------------------------------------
(* Recovery beside one runner.                                             *)

(* The only runner is the one that beats.                                  *)
LEMMA TheRunner ==
  ASSUME RecoveryInv, NEW r \in Runner
  PROVE  /\ heartbeat # None => heartbeat = r
         /\ \A q \in Runner : q = r
  BY DEF RecoveryInv, SoloRun, IndInv, TypeOK, FilesTypeOK

(* A process is a runner, a finalizer, an operator call or a start call.   *)
LEMMA Kinds ==
  /\ Proc = Starter \cup Operator \cup Finalizer \cup Runner
  /\ Starter \cap (Operator \cup Finalizer \cup Runner) = {} /\ Finalizer \cap Runner = {}
  /\ Operator \cap (Finalizer \cup Runner) = {}
  /\ Killable \subseteq Runner \cup Finalizer /\ Caller = Starter \cup Operator \cup Finalizer
  BY ProcAssumption DEF ProcAssumption, Proc, Caller

(* A finalizer at work is the only one.                                    *)
LEMMA OneFinalizer ==
  ASSUME RecoveryInv, NEW f \in Finalizer, NEW g \in Finalizer,
         pc[f] # "idle", pc[g] # "idle"
  PROVE  f = g
  BY DEF RecoveryInv, FinalizerInv

(* A step of p that touches no file recovery depends on and brings p no    *)
(* nearer to writing one.                                                  *)
Harmless(p) ==
    /\ UNCHANGED <<heartbeat, procResult, evidence, finalStatus, receipt, finLock,
                   executor, sample, snap>>
    /\ \A q \in Proc : q # p => pc'[q] = pc[q] /\ kont'[q] = kont[q]
    /\ pc'[p] \notin {"decide", "receipt"}
    /\ InPipeline(p)' => InPipeline(p)
    /\ p \in Runner => /\ Writing(p)' => Writing(p)
                       /\ BeforeSpawn(p)' => BeforeSpawn(p)
                       /\ Alive(p)' => Alive(p)
    /\ p \in Finalizer => /\ pc[p] # "idle"
                          /\ (pc'[p] \in {"converge", "polled"} \/ kont'[p] = "polled")
                                => procResult # None

LEMMA HarmlessSteps ==
  ASSUME RecoveryInv, NEW p \in Proc, Harmless(p)
  PROVE  FinalizerInv' /\ SpawnedInv' /\ IntactInv'
  <1> USE Kinds
  <1>1. \A r \in Runner : /\ BeforeSpawn(r)' => BeforeSpawn(r)
                          /\ Alive(r)' => Alive(r)
                          /\ Writing(r)' => Writing(r)
    BY DEF Harmless, BeforeSpawn, Alive, Writing, InPipeline
  <1>2. \A f \in Finalizer : Writing(f)' => Writing(f)
    BY DEF Harmless, Writing, InPipeline
  <1>3. (RunnerGone => RunnerGone') /\ (NoExecutor => NoExecutor')
    BY <1>1 DEF Harmless, RunnerGone, NoExecutor
  <1>4. FinalizerInv'
    <2> SUFFICES ASSUME NEW f \in Finalizer
                 PROVE  /\ pc'[f] # "idle" => finLock' = f /\ heartbeat' # None
                        /\ pc'[f] = "decide" =>
                              /\ ~sample'[f].runner => RunnerGone' /\ receipt' = None
                              /\ ~sample'[f].executor => NoExecutor'
                        /\ (pc'[f] \in {"converge", "polled"} \/ kont'[f] = "polled")
                              => procResult' # None
                        /\ InPipeline(f)' => RunnerGone' /\ NoExecutor'
      BY DEF FinalizerInv
    <2>1. CASE f = p
      BY <1>3, <2>1 DEF Harmless, RecoveryInv, FinalizerInv
    <2>2. CASE f # p
      BY <1>3, <2>2 DEF Harmless, RecoveryInv, FinalizerInv, InPipeline
    <2> QED
      BY <2>1, <2>2
  <1>5. SpawnedInv'
    BY <1>1, <1>3 DEF Harmless, RecoveryInv, SpawnedInv
  <1>6. IntactInv'
    <2>1. receipt' # None => (Quiet' => SealVerifies') /\ \A q \in Runner \cup Finalizer : ~Writing(q)'
      BY <1>1, <1>2 DEF Harmless, RecoveryInv, IntactInv, Quiet, SealVerifies
    <2>2. ASSUME NEW q \in Runner \cup Finalizer, pc'[q] = "receipt", Quiet'
          PROVE  snap'[q] = [final |-> finalStatus', evidence |-> evidence']
      BY <2>2 DEF Harmless, RecoveryInv, IntactInv, Quiet
    <2> QED
      BY <2>1, <2>2 DEF IntactInv
  <1> QED
    BY <1>4, <1>5, <1>6

(* Transitions and projection updates.                                     *)
LEMMA TransitionHarmless ==
  ASSUME RecoveryInv, NEW p \in Proc, TransitionStep(p)
  PROVE  Harmless(p)
  <1> USE DEF Harmless, fileVars, procVars, Goto, RaiseLabel, InPipeline, Writing,
              BeforeSpawn, Alive, Gone
  <1>1. pc \in [Proc -> Label] /\ kont \in [Proc -> Return]
    BY DEF RecoveryInv, IndInv, TypeOK, CallsTypeOK
  <1>2. p \in Finalizer => (kont[p] = "polled" => procResult # None)
    BY DEF RecoveryInv, FinalizerInv
  <1>3. CASE TransitionSealed(p)
    BY <1>1, <1>2, <1>3 DEF TransitionSealed
  <1>4. CASE TransitionCheck(p)
    BY <1>1, <1>2, <1>4 DEF TransitionCheck
  <1>5. CASE AppendEvent(p)
    BY <1>1, <1>2, <1>5 DEF AppendEvent
  <1>6. CASE ReadProjection(p)
    BY <1>1, <1>2, <1>6 DEF ReadProjection
  <1>7. CASE WriteProjection(p)
    BY <1>1, <1>2, <1>7 DEF WriteProjection, Return
  <1> QED
    BY <1>3, <1>4, <1>5, <1>6, <1>7 DEF TransitionStep

(* Steps of the runner that change neither its executor nor a file.        *)
LEMMA RunnerHarmless ==
  ASSUME RecoveryInv, NEW r \in Runner,
         \/ RunnerLaunch(r) \/ InstallHandlers(r) \/ NoticeExit(r)
         \/ SealRefused(r) \/ MakeReadOnly(r) \/ Kill(r)
  PROVE  Harmless(r)
  <1> USE DEF Harmless, fileVars, procVars, Goto, RaiseLabel, CallTransition, InPipeline,
              Writing, BeforeSpawn, Alive, Gone
  <1>1. pc \in [Proc -> Label] /\ kont \in [Proc -> Return] /\ r \in Proc /\ r \notin Finalizer
    BY Kinds DEF RecoveryInv, IndInv, TypeOK, CallsTypeOK
  <1>2. CASE RunnerLaunch(r)
    BY <1>1, <1>2 DEF RunnerLaunch
  <1>3. CASE InstallHandlers(r) \/ NoticeExit(r)
    BY <1>1, <1>3 DEF InstallHandlers, NoticeExit
  <1>4. CASE SealRefused(r)
    BY <1>1, <1>4 DEF SealRefused
  <1>5. CASE MakeReadOnly(r)
    BY <1>1, <1>5 DEF MakeReadOnly
  <1>6. CASE Kill(r)
    BY <1>1, <1>6 DEF Kill
  <1> QED
    BY <1>2, <1>3, <1>4, <1>5, <1>6

(* Steps of a finalizer that decide nothing.                               *)
LEMMA FinalizerHarmless ==
  ASSUME RecoveryInv, NEW f \in Finalizer,
         \/ AlreadyFinalized(f) \/ FinalizeRefused(f) \/ ConvergeWait(f)
         \/ ConvergePoll(f) \/ ConvergeAgain(f)
         \/ SealRefused(f) \/ MakeReadOnly(f) \/ Kill(f)
  PROVE  Harmless(f)
  <1> USE DEF Harmless, fileVars, procVars, Goto, RaiseLabel, CallTransition, InPipeline
  <1>1. pc \in [Proc -> Label] /\ kont \in [Proc -> Return] /\ f \in Proc /\ f \notin Runner
    BY Kinds DEF RecoveryInv, IndInv, TypeOK, CallsTypeOK
  <1>2. (kont[f] = "polled" \/ pc[f] \in {"converge", "polled"}) => procResult # None
    BY DEF RecoveryInv, FinalizerInv
  <1>3. CASE AlreadyFinalized(f) \/ FinalizeRefused(f)
    BY <1>1, <1>2, <1>3 DEF AlreadyFinalized, FinalizeRefused
  <1>4. CASE ConvergeWait(f)
    BY <1>1, <1>2, <1>4 DEF ConvergeWait
  <1>5. CASE ConvergePoll(f)
    BY <1>1, <1>2, <1>5 DEF ConvergePoll, Synchronize
  <1>6. CASE ConvergeAgain(f)
    BY <1>1, <1>2, <1>6 DEF ConvergeAgain
  <1>7. CASE SealRefused(f)
    BY <1>1, <1>2, <1>7 DEF SealRefused
  <1>8. CASE MakeReadOnly(f)
    BY <1>1, <1>2, <1>8 DEF MakeReadOnly
  <1>9. CASE Kill(f)
    BY <1>1, <1>2, <1>9 DEF Kill
  <1> QED
    BY <1>3, <1>4, <1>5, <1>6, <1>7, <1>8, <1>9

(* A start call that spawns nothing.                                       *)
LEMMA StarterHarmless ==
  ASSUME RecoveryInv, NEW s \in Starter, Begin(s) \/ StartRefused(s)
  PROVE  Harmless(s)
  <1> USE DEF Harmless, fileVars, procVars, Goto, RaiseLabel, InPipeline
  <1>1. /\ pc \in [Proc -> Label] /\ kont \in [Proc -> Return]
        /\ s \in Proc /\ s \notin Runner /\ s \notin Finalizer
    BY Kinds DEF RecoveryInv, IndInv, TypeOK, CallsTypeOK
  <1>2. CASE Begin(s)
    BY <1>1, <1>2 DEF Begin, Synchronize, AfterSync
  <1>3. CASE StartRefused(s)
    BY <1>1, <1>3 DEF StartRefused
  <1> QED
    BY <1>2, <1>3

(* While the runner lives no finalizer is in the pipeline, and the one     *)
(* that has sampled it knows that it lives.                                *)
LEMMA AliveKeepsOut ==
  ASSUME RecoveryInv, NEW r \in Runner, Alive(r), NEW f \in Finalizer
  PROVE  ~InPipeline(f) /\ (pc[f] = "decide" => sample[f].runner)
  BY DEF RecoveryInv, FinalizerInv, RunnerGone

LEMMA RunnerActs ==
  ASSUME RecoveryInv, NEW r \in Runner, Alive(r), UNCHANGED <<finLock, sample>>,
         \A q \in Proc : q # r => pc'[q] = pc[q] /\ kont'[q] = kont[q] /\ snap'[q] = snap[q],
         heartbeat # None => heartbeat' # None /\ (NoExecutor => NoExecutor'),
         procResult # None => procResult' # None,
         receipt' # None => (Quiet' => SealVerifies') /\ ~Writing(r)',
         pc'[r] = "receipt" /\ Quiet' => snap'[r] = [final |-> finalStatus', evidence |-> evidence']
  PROVE  FinalizerInv' /\ IntactInv'
  <1>1. \A q \in Runner : q = r
    BY TheRunner
  <1>2. /\ r \notin Finalizer /\ r \in Proc
        /\ \A f \in Finalizer : f \in Proc /\ f \notin Runner
    BY Kinds
  <1>3. \A f \in Finalizer : ~InPipeline(f)' /\ ~Writing(f)' /\ pc'[f] # "receipt"
    BY <1>2, AliveKeepsOut DEF InPipeline, Writing
  <1>4. FinalizerInv'
    <2> SUFFICES ASSUME NEW f \in Finalizer
                 PROVE  /\ pc[f] # "idle" => finLock = f /\ heartbeat' # None
                        /\ pc[f] = "decide" => /\ sample[f].runner
                                               /\ ~sample[f].executor => NoExecutor'
                        /\ (pc[f] \in {"converge", "polled"} \/ kont[f] = "polled")
                              => procResult' # None
      BY <1>2, <1>3 DEF FinalizerInv
    <2> QED
      BY AliveKeepsOut DEF RecoveryInv, FinalizerInv
  <1>5. IntactInv'
    BY <1>1, <1>3 DEF IntactInv
  <1> QED
    BY <1>4, <1>5

(* The steps of the runner that change its executor or a file.             *)
LEMMA RunnerWorks ==
  ASSUME RecoveryInv, NEW r \in Runner,
         \/ SpawnExecutor(r) \/ SpawnFails(r) \/ Heartbeat(r) \/ Timeout(r)
         \/ WriteProcessResult(r) \/ Collect(r) \/ WriteFinalStatus(r)
         \/ SealDigest(r) \/ WriteReceipt(r)
  PROVE  FinalizerInv' /\ SpawnedInv' /\ IntactInv'
  <1>1. /\ pc \in [Proc -> Label] /\ kont \in [Proc -> Return] /\ r \in Proc
        /\ executor \in [Runner -> {"none", "running", "exited"}]
        /\ exit \in [Runner -> Result \cup {None}] /\ snap \in [Proc -> Seal \cup {None}]
    BY Kinds DEF RecoveryInv, IndInv, TypeOK, CallsTypeOK, ProcsTypeOK
  <1>2. \A q \in Runner : q = r
    BY TheRunner
  <1>3. Alive(r) /\ Writing(r)
    BY DEF SpawnExecutor, SpawnFails, Heartbeat, Timeout, WriteProcessResult, Collect,
           WriteFinalStatus, SealDigest, WriteReceipt, Alive, Gone, Writing, InPipeline,
           BeforeSpawn
  <1>4. receipt = None
    BY <1>3 DEF RecoveryInv, IntactInv
  <1>5. BeforeSpawn(r) => heartbeat = None /\ procResult = None
    BY DEF RecoveryInv, SpawnedInv
  <1>6. procResult # None => NoExecutor
    BY DEF RecoveryInv, SpawnedInv
  <1>7. CASE SpawnExecutor(r)
    <2>1. /\ BeforeSpawn(r) /\ receipt' = None /\ pc'[r] = "spawned"
          /\ UNCHANGED <<finLock, sample, heartbeat, procResult>>
          /\ \A q \in Proc : q # r => pc'[q] = pc[q] /\ kont'[q] = kont[q] /\ snap'[q] = snap[q]
      BY <1>1, <1>4, <1>7 DEF SpawnExecutor, Goto, fileVars, BeforeSpawn
    <2>2. FinalizerInv' /\ IntactInv'
      BY <1>3, <1>5, <2>1, RunnerActs
    <2>3. SpawnedInv'
      BY <1>5, <2>1 DEF SpawnedInv
    <2> QED
      BY <2>2, <2>3
  <1>8. CASE SpawnFails(r)
    <2>1. /\ BeforeSpawn(r) /\ receipt' = None /\ pc'[r] = "collect"
          /\ UNCHANGED <<finLock, sample, heartbeat, executor>>
          /\ \A q \in Proc : q # r => pc'[q] = pc[q] /\ kont'[q] = kont[q] /\ snap'[q] = snap[q]
      BY <1>1, <1>4, <1>8 DEF SpawnFails, Goto, procVars, BeforeSpawn
    <2>2. FinalizerInv' /\ IntactInv'
      BY <1>3, <1>5, <2>1, RunnerActs
    <2>3. executor[r] = "none"
      BY <2>1 DEF RecoveryInv, IndInv, ExecutorInv
    <2>4. SpawnedInv'
      BY <1>2, <1>5, <2>1, <2>3 DEF SpawnedInv, NoExecutor, BeforeSpawn
    <2> QED
      BY <2>2, <2>4
  <1>9. CASE Heartbeat(r)
    <2>1. /\ heartbeat' = r /\ receipt' = None /\ pc'[r] = "loop"
          /\ UNCHANGED <<finLock, sample, procResult, executor>>
          /\ \A q \in Proc : q # r => pc'[q] = pc[q] /\ kont'[q] = kont[q] /\ snap'[q] = snap[q]
      BY <1>1, <1>4, <1>9 DEF Heartbeat, Goto, procVars
    <2>2. r # None
      BY <1>1, ProcAssumption DEF ProcAssumption
    <2>3. FinalizerInv' /\ IntactInv'
      BY <1>3, <2>1, <2>2, RunnerActs DEF NoExecutor
    <2>4. SpawnedInv'
      BY <1>2, <1>6, <2>1 DEF SpawnedInv, NoExecutor, BeforeSpawn
    <2> QED
      BY <2>3, <2>4
  <1>10. CASE Timeout(r)
    <2>1. /\ executor'[r] = "exited" /\ receipt' = None /\ pc'[r] = "result"
          /\ UNCHANGED <<finLock, sample, procResult, heartbeat>>
          /\ \A q \in Proc : q # r => pc'[q] = pc[q] /\ kont'[q] = kont[q] /\ snap'[q] = snap[q]
      BY <1>1, <1>4, <1>10 DEF Timeout, Goto, fileVars
    <2>2. NoExecutor'
      BY <1>2, <2>1 DEF NoExecutor
    <2>3. FinalizerInv' /\ IntactInv'
      BY <1>3, <2>1, <2>2, RunnerActs
    <2>4. SpawnedInv'
      BY <1>2, <2>1, <2>2 DEF SpawnedInv, BeforeSpawn
    <2> QED
      BY <2>3, <2>4
  <1>11. CASE WriteProcessResult(r)
    <2>1. /\ procResult' = exit[r] /\ receipt' = None /\ pc'[r] = "collect" /\ pc[r] = "result"
          /\ UNCHANGED <<finLock, sample, executor, heartbeat>>
          /\ \A q \in Proc : q # r => pc'[q] = pc[q] /\ kont'[q] = kont[q] /\ snap'[q] = snap[q]
      BY <1>1, <1>4, <1>11 DEF WriteProcessResult, Goto, procVars
    <2>2. executor[r] = "exited" /\ exit[r] # None
      BY <2>1 DEF RecoveryInv, IndInv, ExecutorInv
    <2>3. NoExecutor'
      BY <1>2, <2>1, <2>2 DEF NoExecutor
    <2>4. FinalizerInv' /\ IntactInv'
      BY <1>3, <2>1, <2>2, <2>3, RunnerActs
    <2>5. SpawnedInv'
      BY <1>2, <2>1, <2>3 DEF SpawnedInv, BeforeSpawn
    <2> QED
      BY <2>4, <2>5
  <1>12. CASE Collect(r) \/ WriteFinalStatus(r)
    <2>1. /\ receipt' = None /\ pc'[r] \in {"final", "seal"}
          /\ UNCHANGED <<finLock, sample, executor, heartbeat, procResult>>
          /\ \A q \in Proc : q # r => pc'[q] = pc[q] /\ kont'[q] = kont[q] /\ snap'[q] = snap[q]
      BY <1>1, <1>4, <1>12 DEF Collect, WriteFinalStatus, Goto, procVars
    <2>2. FinalizerInv' /\ IntactInv'
      BY <1>3, <2>1, RunnerActs DEF NoExecutor
    <2>3. SpawnedInv'
      BY <1>2, <1>6, <2>1 DEF SpawnedInv, BeforeSpawn, NoExecutor
    <2> QED
      BY <2>2, <2>3
  <1>13. CASE SealDigest(r)
    <2>1. /\ receipt' = None /\ pc'[r] = "receipt"
          /\ snap'[r] = [final |-> finalStatus', evidence |-> evidence']
          /\ UNCHANGED <<finLock, sample, executor, heartbeat, procResult>>
          /\ \A q \in Proc : q # r => pc'[q] = pc[q] /\ kont'[q] = kont[q] /\ snap'[q] = snap[q]
      BY <1>1, <1>4, <1>13 DEF SealDigest, Goto, procVars
    <2>2. FinalizerInv' /\ IntactInv'
      BY <1>3, <2>1, RunnerActs DEF NoExecutor
    <2>3. SpawnedInv'
      BY <1>2, <1>6, <2>1 DEF SpawnedInv, BeforeSpawn, NoExecutor
    <2> QED
      BY <2>2, <2>3
  <1>14. CASE WriteReceipt(r)
    <2>1. /\ pc[r] = "receipt" /\ receipt' = snap[r]
          /\ pc'[r] = "transition" /\ kont'[r] = "readonly"
          /\ UNCHANGED <<finLock, sample, executor, heartbeat, procResult, finalStatus, evidence>>
          /\ \A q \in Proc : q # r => pc'[q] = pc[q] /\ kont'[q] = kont[q] /\ snap'[q] = snap[q]
      BY <1>1, <1>14 DEF WriteReceipt, CallTransition, Goto, procVars
    <2>2. Quiet => snap[r] = [final |-> finalStatus, evidence |-> evidence]
      BY <2>1 DEF RecoveryInv, IntactInv
    <2>3. (Quiet' => SealVerifies') /\ ~Writing(r)'
      BY <2>1, <2>2 DEF Quiet, SealVerifies, Writing, InPipeline, BeforeSpawn
    <2>4. FinalizerInv' /\ IntactInv'
      BY <1>3, <2>1, <2>3, RunnerActs DEF NoExecutor
    <2>5. SpawnedInv'
      BY <1>2, <1>6, <2>1 DEF SpawnedInv, BeforeSpawn, NoExecutor
    <2> QED
      BY <2>4, <2>5
  <1> QED
    BY <1>7, <1>8, <1>9, <1>10, <1>11, <1>12, <1>13, <1>14

(* A runner that is gone after a heartbeat writes nothing any more.        *)
LEMMA GoneForGood ==
  ASSUME RecoveryInv, heartbeat # None, RunnerGone, NEW r \in Runner
  PROVE  ~Writing(r) /\ pc[r] # "receipt"
  BY DEF RecoveryInv, SpawnedInv, RunnerGone, Alive, Gone, Writing, InPipeline, BeforeSpawn

LEMMA FinalizerActs ==
  ASSUME RecoveryInv, NEW f \in Finalizer, pc[f] # "idle",
         UNCHANGED <<finLock, heartbeat, procResult, executor>>,
         \A q \in Proc : q # f => pc'[q] = pc[q] /\ kont'[q] = kont[q] /\ snap'[q] = snap[q],
         \A g \in Finalizer : g # f => sample'[g] = sample[g],
         pc'[f] = "decide" => /\ ~sample'[f].runner => RunnerGone /\ receipt' = None
                              /\ ~sample'[f].executor => NoExecutor,
         (pc'[f] \in {"converge", "polled"} \/ kont'[f] = "polled") => procResult # None,
         InPipeline(f)' => RunnerGone /\ NoExecutor,
         \/ UNCHANGED <<receipt, finalStatus, evidence>>
         \/ receipt = None /\ RunnerGone,
         receipt' # None => (Quiet' => SealVerifies') /\ ~InPipeline(f)',
         pc'[f] = "receipt" /\ Quiet' => snap'[f] = [final |-> finalStatus', evidence |-> evidence']
  PROVE  FinalizerInv' /\ SpawnedInv' /\ IntactInv'
  <1>1. /\ f \notin Runner /\ f \in Proc
        /\ \A q \in Runner \cup Finalizer : q \in Proc
        /\ \A g \in Finalizer : g \notin Runner
    BY Kinds
  <1>2. heartbeat # None /\ \A g \in Finalizer : g # f => pc[g] = "idle"
    BY OneFinalizer DEF RecoveryInv, FinalizerInv
  <1>3. \A r \in Runner : /\ BeforeSpawn(r)' <=> BeforeSpawn(r)
                          /\ Alive(r)' <=> Alive(r)
                          /\ Writing(r)' <=> Writing(r)
    BY <1>1 DEF BeforeSpawn, Alive, Writing, InPipeline
  <1>4. (RunnerGone => RunnerGone') /\ (NoExecutor => NoExecutor')
    BY <1>3 DEF RunnerGone, NoExecutor
  <1>5. FinalizerInv'
    <2> SUFFICES ASSUME NEW g \in Finalizer
                 PROVE  /\ pc'[g] # "idle" => finLock' = g /\ heartbeat' # None
                        /\ pc'[g] = "decide" =>
                              /\ ~sample'[g].runner => RunnerGone' /\ receipt' = None
                              /\ ~sample'[g].executor => NoExecutor'
                        /\ (pc'[g] \in {"converge", "polled"} \/ kont'[g] = "polled")
                              => procResult' # None
                        /\ InPipeline(g)' => RunnerGone' /\ NoExecutor'
      BY DEF FinalizerInv
    <2>1. CASE g = f
      <3>1. finLock = f
        BY DEF RecoveryInv, FinalizerInv
      <3> QED
        BY <1>2, <1>4, <2>1, <3>1
    <2>2. CASE g # f
      <3>1. pc'[g] = "idle" /\ (kont[g] = "polled" => procResult # None) /\ kont'[g] = kont[g]
        BY <1>1, <1>2, <2>2 DEF RecoveryInv, FinalizerInv
      <3> QED
        BY <3>1 DEF InPipeline
    <2> QED
      BY <2>1, <2>2
  <1>6. SpawnedInv'
    BY <1>3, <1>4 DEF RecoveryInv, SpawnedInv
  <1>7. IntactInv'
    <2>1. ASSUME NEW q \in Runner \cup Finalizer, receipt' # None
          PROVE  ~Writing(q)'
      <3>1. CASE q \in Runner
        <4>1. CASE UNCHANGED <<receipt, finalStatus, evidence>>
          BY <1>3, <2>1, <3>1, <4>1 DEF RecoveryInv, IntactInv
        <4>2. CASE receipt = None /\ RunnerGone
          BY <1>2, <1>3, <3>1, <4>2, GoneForGood
        <4> QED
          BY <4>1, <4>2
      <3>2. CASE q = f
        BY <1>1, <2>1, <3>2 DEF Writing
      <3>3. CASE q \in Finalizer /\ q # f
        BY <1>1, <1>2, <3>3 DEF Writing, InPipeline
      <3> QED
        BY <3>1, <3>2, <3>3
    <2>2. ASSUME NEW q \in Runner \cup Finalizer, pc'[q] = "receipt", Quiet'
          PROVE  snap'[q] = [final |-> finalStatus', evidence |-> evidence']
      <3>1. CASE q = f
        BY <2>2, <3>1
      <3>2. CASE q # f
        <4>1. pc[q] = "receipt" /\ q \in Runner
          BY <1>1, <1>2, <2>2, <3>2
        <4>2. ~RunnerGone
          BY <4>1 DEF RunnerGone, Alive, Gone
        <4>3. UNCHANGED <<receipt, finalStatus, evidence>> /\ snap'[q] = snap[q]
          BY <1>1, <3>2, <4>2
        <4> QED
          BY <2>2, <4>1, <4>3 DEF RecoveryInv, IntactInv, Quiet
      <3> QED
        BY <3>1, <3>2
    <2> QED
      BY <2>1, <2>2 DEF IntactInv
  <1> QED
    BY <1>5, <1>6, <1>7

(* What a finalizer does once it has sampled the processes.                *)
LEMMA FinalizerWorks ==
  ASSUME RecoveryInv, NEW f \in Finalizer,
         \/ SampleProcesses(f) \/ FinalizeProceeds(f) \/ ConvergeRunnerGone(f)
         \/ Collect(f) \/ WriteFinalStatus(f) \/ SealDigest(f) \/ WriteReceipt(f)
  PROVE  FinalizerInv' /\ SpawnedInv' /\ IntactInv'
  <1>1. /\ pc \in [Proc -> Label] /\ kont \in [Proc -> Return] /\ f \in Proc
        /\ sample \in [Finalizer -> [runner : BOOLEAN, executor : BOOLEAN]]
        /\ snap \in [Proc -> Seal \cup {None}]
    BY Kinds DEF RecoveryInv, IndInv, TypeOK, CallsTypeOK
  <1>2. pc[f] # "idle"
    BY DEF SampleProcesses, FinalizeProceeds, ConvergeRunnerGone, Collect,
           WriteFinalStatus, SealDigest, WriteReceipt
  <1>3. heartbeat # None /\ (kont[f] = "polled" => procResult # None)
        /\ (pc[f] = "polled" => procResult # None)
    BY <1>2 DEF RecoveryInv, FinalizerInv
  <1>4. procResult # None => NoExecutor
    BY DEF RecoveryInv, SpawnedInv
  <1>5. InPipeline(f) => RunnerGone /\ NoExecutor /\ receipt = None
    <2>1. InPipeline(f) => Writing(f)
      BY DEF Writing
    <2> QED
      BY <2>1 DEF RecoveryInv, FinalizerInv, IntactInv
  <1>6. SealVerifies' <=> (receipt'.final = finalStatus' /\ receipt'.evidence = evidence')
    BY DEF SealVerifies
  <1>7. CASE SampleProcesses(f)
    <2>1. /\ pc'[f] = "decide" /\ kont'[f] = kont[f] /\ receipt = None
          /\ UNCHANGED <<finLock, heartbeat, procResult, executor, receipt, finalStatus, evidence>>
          /\ \A q \in Proc : q # f => pc'[q] = pc[q] /\ kont'[q] = kont[q] /\ snap'[q] = snap[q]
          /\ \A g \in Finalizer : g # f => sample'[g] = sample[g]
          /\ sample'[f] = [runner |-> heartbeat # None /\ Alive(heartbeat),
                           executor |-> heartbeat # None /\ executor[heartbeat] = "running"]
      BY <1>1, <1>7 DEF SampleProcesses, Goto, fileVars, procVars
    <2>2. /\ ~sample'[f].runner => ~Alive(heartbeat)
          /\ ~sample'[f].executor => executor[heartbeat] # "running"
      <3> DEFINE Living == heartbeat # None /\ Alive(heartbeat)
                 Going == heartbeat # None /\ executor[heartbeat] = "running"
      <3>1. sample'[f] = [runner |-> Living, executor |-> Going]
        BY <2>1
      <3>2. (~Living => ~Alive(heartbeat)) /\ (~Going => executor[heartbeat] # "running")
        BY <1>3
      <3> HIDE DEF Living, Going
      <3>3. sample'[f].runner = Living /\ sample'[f].executor = Going
        BY <3>1
      <3>4. (~sample'[f].runner => ~Living) /\ (~sample'[f].executor => ~Going)
        BY <3>3, Zenon
      <3> QED
        BY <3>2, <3>4, Zenon
    <2>3. \A r \in Runner : heartbeat = r
      BY <1>3, TheRunner
    <2>4. (~sample'[f].runner => RunnerGone) /\ (~sample'[f].executor => NoExecutor)
      BY <2>2, <2>3 DEF RunnerGone, NoExecutor
    <2>5. ~InPipeline(f)'
      BY <2>1 DEF InPipeline
    <2> QED
      BY <1>2, <1>3, <2>1, <2>4, <2>5, FinalizerActs
  <1>8. CASE FinalizeProceeds(f) \/ ConvergeRunnerGone(f)
    <2>1. /\ pc'[f] = "collect" /\ kont'[f] = kont[f]
          /\ UNCHANGED <<finLock, heartbeat, procResult, executor, receipt, finalStatus, evidence>>
          /\ \A q \in Proc : q # f => pc'[q] = pc[q] /\ kont'[q] = kont[q] /\ snap'[q] = snap[q]
          /\ \A g \in Finalizer : g # f => sample'[g] = sample[g]
      BY <1>1, <1>8 DEF FinalizeProceeds, ConvergeRunnerGone, Goto, fileVars, procVars
    <2>2. RunnerGone /\ NoExecutor /\ receipt = None
      <3>1. CASE FinalizeProceeds(f)
        <4>1. /\ pc[f] = "decide" /\ ~sample[f].runner
              /\ procResult = None => ~sample[f].executor
          BY <3>1 DEF FinalizeProceeds
        <4> QED
          BY <1>4, <4>1 DEF RecoveryInv, FinalizerInv
      <3>2. CASE ConvergeRunnerGone(f)
        <4>1. pc[f] = "polled" /\ receipt = None /\ ~Alive(heartbeat)
          BY <3>2 DEF ConvergeRunnerGone
        <4>2. \A r \in Runner : heartbeat = r
          BY <1>3, TheRunner
        <4> QED
          BY <1>3, <1>4, <4>1, <4>2 DEF RunnerGone
      <3> QED
        BY <1>8, <3>1, <3>2
    <2> QED
      BY <1>2, <1>3, <2>1, <2>2, FinalizerActs
  <1>9. CASE Collect(f) \/ WriteFinalStatus(f)
    <2>1. /\ pc'[f] \in {"final", "seal"} /\ kont'[f] = kont[f] /\ InPipeline(f)
          /\ UNCHANGED <<finLock, heartbeat, procResult, executor, receipt>>
          /\ \A q \in Proc : q # f => pc'[q] = pc[q] /\ kont'[q] = kont[q] /\ snap'[q] = snap[q]
          /\ \A g \in Finalizer : g # f => sample'[g] = sample[g]
      BY <1>1, <1>9 DEF Collect, WriteFinalStatus, Goto, procVars, InPipeline
    <2> QED
      BY <1>2, <1>3, <1>5, <2>1, FinalizerActs
  <1>10. CASE SealDigest(f)
    <2>1. /\ pc'[f] = "receipt" /\ kont'[f] = kont[f] /\ InPipeline(f)
          /\ snap'[f] = [final |-> finalStatus', evidence |-> evidence']
          /\ UNCHANGED <<finLock, heartbeat, procResult, executor, receipt>>
          /\ \A q \in Proc : q # f => pc'[q] = pc[q] /\ kont'[q] = kont[q] /\ snap'[q] = snap[q]
          /\ \A g \in Finalizer : g # f => sample'[g] = sample[g]
      BY <1>1, <1>10 DEF SealDigest, Goto, procVars, InPipeline
    <2> QED
      BY <1>2, <1>3, <1>5, <2>1, FinalizerActs
  <1>11. CASE WriteReceipt(f)
    <2>1. /\ pc[f] = "receipt" /\ receipt' = snap[f] /\ InPipeline(f)
          /\ pc'[f] = "transition" /\ kont'[f] = "readonly"
          /\ UNCHANGED <<finLock, heartbeat, procResult, executor, finalStatus, evidence>>
          /\ \A q \in Proc : q # f => pc'[q] = pc[q] /\ kont'[q] = kont[q] /\ snap'[q] = snap[q]
          /\ \A g \in Finalizer : g # f => sample'[g] = sample[g]
      BY <1>1, <1>11 DEF WriteReceipt, CallTransition, Goto, procVars, InPipeline
    <2>2. Quiet => snap[f] = [final |-> finalStatus, evidence |-> evidence]
      BY <2>1 DEF RecoveryInv, IntactInv
    <2>3. (Quiet' => SealVerifies') /\ ~InPipeline(f)'
      BY <2>1, <2>2 DEF Quiet, SealVerifies, InPipeline
    <2> QED
      BY <1>2, <1>5, <2>1, <2>3, FinalizerActs
  <1> QED
    BY <1>7, <1>8, <1>9, <1>10, <1>11

(* Taking and releasing finalization.lock.                                 *)
LEMMA FinalizerLocks ==
  ASSUME RecoveryInv, NEW f \in Finalizer, FinalizeBegin(f) \/ FinalizeEnd(f)
  PROVE  FinalizerInv' /\ SpawnedInv' /\ IntactInv'
  <1>1. /\ pc \in [Proc -> Label] /\ kont \in [Proc -> Return] /\ f \in Proc /\ f \notin Runner
        /\ None \notin Finalizer /\ finLock \in Finalizer \cup {None}
        /\ \A q \in Runner \cup Finalizer : q \in Proc
        /\ \A g \in Finalizer : g \notin Runner
    BY Kinds, ProcAssumption DEF ProcAssumption, RecoveryInv, IndInv, TypeOK, CallsTypeOK,
       FilesTypeOK
  <1>2. /\ UNCHANGED <<heartbeat, procResult, executor, receipt, finalStatus, evidence, snap, sample>>
        /\ pc'[f] \in {"idle", "raised", "sealedCheck", "readProjection"}
        /\ \A q \in Proc : q # f => pc'[q] = pc[q] /\ kont'[q] = kont[q]
        /\ kont'[f] = kont[f] \/ kont'[f] = "sealedCheck"
    BY <1>1 DEF FinalizeBegin, FinalizeEnd, Synchronize, Goto, RaiseLabel, procVars
  <1>3. /\ \A g \in Finalizer : g # f => pc[g] = "idle"
        /\ pc'[f] # "idle" => finLock' = f /\ heartbeat # None
    <2>1. CASE FinalizeBegin(f)
      <3>1. finLock = None /\ finLock' = f /\ heartbeat # None
        BY <2>1 DEF FinalizeBegin, RecoveryInv, SoloRun
      <3> QED
        BY <1>1, <3>1 DEF RecoveryInv, FinalizerInv
    <2>2. CASE FinalizeEnd(f)
      <3>1. pc[f] # "idle" /\ pc'[f] = "idle"
        BY <1>1, <2>2 DEF FinalizeEnd, Goto
      <3> QED
        BY <3>1, OneFinalizer
    <2> QED
      BY <2>1, <2>2
  <1>4. FinalizerInv'
    <2> SUFFICES ASSUME NEW g \in Finalizer
                 PROVE  /\ pc'[g] # "idle" => finLock' = g /\ heartbeat' # None
                        /\ pc'[g] # "decide" /\ ~InPipeline(g)'
                        /\ (pc'[g] \in {"converge", "polled"} \/ kont'[g] = "polled")
                              => procResult' # None
      BY DEF FinalizerInv
    <2>1. kont[g] = "polled" => procResult # None
      BY DEF RecoveryInv, FinalizerInv
    <2>2. CASE g = f
      BY <1>2, <1>3, <2>1, <2>2 DEF InPipeline
    <2>3. CASE g # f
      BY <1>1, <1>2, <1>3, <2>1, <2>3 DEF InPipeline
    <2> QED
      BY <2>2, <2>3
  <1>5. \A r \in Runner : (BeforeSpawn(r)' <=> BeforeSpawn(r)) /\ (Writing(r)' <=> Writing(r))
    BY <1>1, <1>2 DEF BeforeSpawn, Writing, InPipeline
  <1>6. SpawnedInv'
    BY <1>2, <1>5 DEF RecoveryInv, SpawnedInv, NoExecutor
  <1>7. \A g \in Finalizer : ~Writing(g)' /\ pc'[g] # "receipt"
    BY <1>1, <1>2, <1>3 DEF Writing, InPipeline
  <1>8. IntactInv'
    <2>1. receipt' # None => (Quiet' => SealVerifies') /\ \A q \in Runner \cup Finalizer : ~Writing(q)'
      BY <1>2, <1>5, <1>7 DEF RecoveryInv, IntactInv, Quiet, SealVerifies
    <2>2. \A q \in Runner \cup Finalizer :
            pc'[q] = "receipt" /\ Quiet' => snap'[q] = [final |-> finalStatus', evidence |-> evidence']
      BY <1>1, <1>2, <1>7 DEF RecoveryInv, IntactInv, Quiet
    <2> QED
      BY <2>1, <2>2 DEF IntactInv
  <1> QED
    BY <1>4, <1>6, <1>8

(* An executor may end at any time, also after its runner.                 *)
LEMMA ExecutorEnds ==
  ASSUME RecoveryInv, NEW r \in Runner, ExecutorExits(r)
  PROVE  FinalizerInv' /\ SpawnedInv' /\ IntactInv'
  <1>1. /\ UNCHANGED <<pc, kont, heartbeat, procResult, receipt, finalStatus, evidence, finLock>>
        /\ UNCHANGED <<sample, snap>> /\ executor' = [executor EXCEPT ![r] = "exited"]
    BY DEF ExecutorExits, fileVars, callVars
  <1>2. executor \in [Runner -> {"none", "running", "exited"}]
    BY DEF RecoveryInv, IndInv, TypeOK, ProcsTypeOK
  <1>3. (NoExecutor => NoExecutor') /\ (RunnerGone => RunnerGone')
    BY <1>1, <1>2 DEF NoExecutor, RunnerGone, Alive
  <1>4. FinalizerInv'
    BY <1>1, <1>3 DEF RecoveryInv, FinalizerInv, InPipeline
  <1>5. SpawnedInv'
    BY <1>1, <1>3 DEF RecoveryInv, SpawnedInv, BeforeSpawn
  <1>6. IntactInv'
    BY <1>1 DEF RecoveryInv, IntactInv, Quiet, SealVerifies, Writing, InPipeline, BeforeSpawn
  <1> QED
    BY <1>4, <1>5, <1>6

(* The runner is born before any heartbeat, so no finalizer is at work.    *)
LEMMA RunnerSpawned ==
  ASSUME RecoveryInv, NEW s \in Starter, StartSpawn(s)
  PROVE  FinalizerInv' /\ SpawnedInv' /\ IntactInv'
  <1>1. PICK r \in Runner :
          /\ pc[r] = "unborn" /\ kont' = [kont EXCEPT ![s] = "done"]
          /\ pc' = [pc EXCEPT ![s] = "transition", ![r] = "launch"]
    BY DEF StartSpawn
  <1>2. /\ UNCHANGED <<heartbeat, procResult, receipt, finalStatus, evidence, finLock>>
        /\ UNCHANGED <<sample, snap, executor>>
    BY DEF StartSpawn, fileVars, procVars
  <1>3. /\ s \notin Runner /\ s \notin Finalizer /\ r \notin Finalizer /\ s \in Proc /\ r \in Proc
        /\ \A f \in Finalizer : f \in Proc /\ f \notin Runner
        /\ pc \in [Proc -> Label] /\ kont \in [Proc -> Return] /\ \A q \in Runner : q = r
    BY Kinds, TheRunner DEF RecoveryInv, IndInv, TypeOK, CallsTypeOK
  <1>4. BeforeSpawn(r) /\ Writing(r)
    BY <1>1 DEF BeforeSpawn, Writing
  <1>5. heartbeat = None /\ procResult = None /\ receipt = None
    BY <1>4 DEF RecoveryInv, SpawnedInv, IntactInv
  <1>6. \A f \in Finalizer : pc'[f] = "idle" /\ kont'[f] = kont[f]
    BY <1>1, <1>3, <1>5 DEF RecoveryInv, FinalizerInv
  <1>7. FinalizerInv'
    BY <1>2, <1>6 DEF RecoveryInv, FinalizerInv, InPipeline
  <1>8. SpawnedInv'
    BY <1>2, <1>5 DEF SpawnedInv
  <1>9. pc'[r] = "launch"
    BY <1>1, <1>3
  <1>10. IntactInv'
    BY <1>2, <1>3, <1>5, <1>6, <1>9 DEF IntactInv
  <1> QED
    BY <1>7, <1>8, <1>10

(* An operator call: a runner it ends stays ended, and what it appends is  *)
(* a message.                                                              *)
LEMMA OperatorActs ==
  ASSUME RecoveryInv, NEW o \in Operator,
         UNCHANGED <<heartbeat, procResult, finalStatus, receipt, finLock, executor, sample, snap>>,
         \A f \in Finalizer : pc'[f] = pc[f] /\ kont'[f] = kont[f],
         \A r \in Runner : pc'[r] \in {pc[r], "dead"} /\ (pc'[r] # pc[r] => Alive(r)),
         \A r \in Runner : kont'[r] = kont[r],
         evidence' = evidence \/ ~Quiet'
  PROVE  FinalizerInv' /\ SpawnedInv' /\ IntactInv'
  <1>1. \A r \in Runner : /\ BeforeSpawn(r)' => BeforeSpawn(r)
                          /\ Alive(r)' => Alive(r)
                          /\ Writing(r)' => Writing(r)
    BY DEF BeforeSpawn, Alive, Gone, Writing, InPipeline
  <1>2. \A f \in Finalizer : Writing(f)' => Writing(f)
    BY Kinds DEF Writing, InPipeline
  <1>3. (RunnerGone => RunnerGone') /\ (NoExecutor => NoExecutor')
    BY <1>1 DEF RunnerGone, NoExecutor
  <1>4. FinalizerInv'
    BY <1>3 DEF RecoveryInv, FinalizerInv, InPipeline
  <1>5. SpawnedInv'
    BY <1>1, <1>3 DEF RecoveryInv, SpawnedInv
  <1>6. IntactInv'
    <2>1. receipt' # None => (Quiet' => SealVerifies') /\ \A q \in Runner \cup Finalizer : ~Writing(q)'
      BY <1>1, <1>2 DEF RecoveryInv, IntactInv, Quiet, SealVerifies
    <2>2. ASSUME NEW q \in Runner \cup Finalizer, pc'[q] = "receipt", Quiet'
          PROVE  snap'[q] = [final |-> finalStatus', evidence |-> evidence']
      BY <2>2 DEF RecoveryInv, IntactInv, Quiet
    <2> QED
      BY <2>1, <2>2 DEF IntactInv
  <1> QED
    BY <1>4, <1>5, <1>6

LEMMA OperatorWorks ==
  ASSUME RecoveryInv, NEW o \in Operator,
         Begin(o) \/ ControlStep(o) \/ ActiveCheck(o) \/ AppendEvidence(o)
  PROVE  FinalizerInv' /\ SpawnedInv' /\ IntactInv'
  <1>1. /\ pc \in [Proc -> Label] /\ kont \in [Proc -> Return] /\ o \in Proc
        /\ \A q \in Runner \cup Finalizer : q \in Proc /\ q # o
        /\ \A f \in Finalizer : f \notin Runner
    BY Kinds DEF RecoveryInv, IndInv, TypeOK, CallsTypeOK
  <1> DEFINE Moved == \A q \in Runner \cup Finalizer : pc'[q] = pc[q] /\ kont'[q] = kont[q]
  <1>2. ASSUME Moved, UNCHANGED <<heartbeat, procResult, finalStatus, receipt, finLock,
                                  executor, sample, snap>>,
               evidence' = evidence \/ ~Quiet'
        PROVE  FinalizerInv' /\ SpawnedInv' /\ IntactInv'
    BY <1>2, OperatorActs
  <1>3. CASE Begin(o) \/ TerminateProject(o)
    BY <1>1, <1>2, <1>3 DEF Begin, TerminateProject, Synchronize, CallTransition, RaiseLabel,
       Goto, fileVars, procVars
  <1>4. CASE ControlOnTerminal(o) \/ WorkerGone(o) \/ ActiveCheck(o)
    BY <1>1, <1>2, <1>4 DEF ControlOnTerminal, WorkerGone, ActiveCheck, Goto, fileVars, procVars
  <1>5. CASE AppendEvidence(o)
    <2>1. evidence' = evidence \/ <<o, "message">> \in evidence'
      BY <1>5 DEF AppendEvidence
    <2>2. evidence' = evidence \/ ~Quiet'
      BY <2>1 DEF Quiet
    <2> QED
      BY <1>1, <1>2, <1>5, <2>2 DEF AppendEvidence, Goto, procVars
  <1>6. CASE Interrupt(o) \/ TerminateInt(o) \/ TerminateTerm(o)
    <2>1. PICK w, k : SignalAndGoto(o, w, k)
      BY <1>6 DEF Interrupt, TerminateInt, TerminateTerm
    <2>2. \A q \in Proc : q # o => pc'[q] = pc[q] \/ (q = w /\ Alive(w) /\ pc'[q] = "dead")
      BY <2>1 DEF SignalAndGoto
    <2>3. \A f \in Finalizer : pc'[f] = pc[f]
      BY <1>1, <2>2 DEF Alive
    <2>4. \A r \in Runner : pc'[r] \in {pc[r], "dead"} /\ (pc'[r] # pc[r] => Alive(r))
      BY <1>1, <2>2
    <2>5. UNCHANGED <<heartbeat, procResult, finalStatus, receipt, finLock, executor, evidence>>
      BY <2>1 DEF SignalAndGoto
    <2>6. UNCHANGED <<sample, snap>> /\ \A q \in Runner \cup Finalizer : kont'[q] = kont[q]
      BY <1>1, <1>6 DEF Interrupt, TerminateInt, TerminateTerm
    <2> QED
      BY <2>3, <2>4, <2>5, <2>6, OperatorActs
  <1>7. CASE TerminateKill(o)
    <2>1. /\ Alive(buf[o].worker)
          /\ pc' = [pc EXCEPT ![o] = "terminateProject", ![buf[o].worker] = "dead"]
          /\ UNCHANGED <<heartbeat, procResult, finalStatus, receipt, finLock, executor, evidence,
                         kont, sample, snap>>
      BY <1>7 DEF TerminateKill, procVars
    <2>2. \A q \in Proc : q # o => pc'[q] = IF q = buf[o].worker THEN "dead" ELSE pc[q]
      BY <1>1, <2>1
    <2>3. \A f \in Finalizer : pc'[f] = pc[f]
      BY <1>1, <2>1, <2>2 DEF Alive
    <2>4. \A r \in Runner : pc'[r] \in {pc[r], "dead"} /\ (pc'[r] # pc[r] => Alive(r))
      BY <1>1, <2>1, <2>2
    <2> QED
      BY <2>1, <2>3, <2>4, OperatorActs
  <1> QED
    BY <1>3, <1>4, <1>5, <1>6, <1>7 DEF ControlStep

LEMMA RecoveryInit == SoloRun /\ Init => RecoveryInv
  <1> SUFFICES ASSUME SoloRun, Init PROVE RecoveryInv
    OBVIOUS
  <1>1. IndInv
    BY InitIndInv
  <1>2. FinalizerInv
    BY ProcAssumption DEF ProcAssumption, Init, Proc, Caller, FinalizerInv, InPipeline
  <1>3. SpawnedInv
    BY DEF Init, SpawnedInv
  <1>4. IntactInv
    BY ProcAssumption DEF ProcAssumption, Init, Proc, Caller, IntactInv
  <1> QED
    BY <1>1, <1>2, <1>3, <1>4 DEF RecoveryInv

LEMMA RecoveryStutters ==
  ASSUME RecoveryInv, UNCHANGED vars
  PROVE  FinalizerInv' /\ SpawnedInv' /\ IntactInv'
  <1>1. UNCHANGED <<pc, kont, heartbeat, procResult, receipt, finalStatus, evidence, finLock,
                    sample, snap, executor>>
    BY DEF vars, fileVars, procVars, callVars
  <1> QED
    BY <1>1 DEF RecoveryInv, FinalizerInv, SpawnedInv, IntactInv, NoExecutor, RunnerGone, Alive,
       Quiet, SealVerifies, Writing, InPipeline, BeforeSpawn

LEMMA RecoveryStep == RecoveryInv /\ [Next]_vars => RecoveryInv'
  <1> SUFFICES ASSUME RecoveryInv, [Next]_vars PROVE RecoveryInv'
    OBVIOUS
  <1>1. SoloRun' /\ IndInv'
    BY NextIndInv DEF RecoveryInv, SoloRun
  <1> DEFINE Goal == FinalizerInv' /\ SpawnedInv' /\ IntactInv'
  <1>2. ASSUME NEW r \in Runner, RunnerStep(r) \/ ExecutorExits(r) PROVE Goal
    <2>1. r \in Proc
      BY Kinds
    <2> QED
      BY <1>2, <2>1, ExecutorEnds, RunnerWorks, RunnerHarmless, TransitionHarmless, HarmlessSteps
      DEF RunnerStep, PipelineStep
  <1>3. ASSUME NEW s \in Starter, CallerStep(s) PROVE Goal
    <2>1. s \in Proc /\ s \notin Finalizer /\ s \notin Operator
      BY Kinds
    <2> QED
      BY <1>3, <2>1, RunnerSpawned, StarterHarmless, TransitionHarmless, HarmlessSteps
      DEF CallerStep
  <1>4. ASSUME NEW f \in Finalizer, CallerStep(f) PROVE Goal
    <2>1. f \in Proc /\ f \notin Starter /\ f \notin Operator /\ ~Begin(f)
      BY Kinds DEF Begin
    <2> QED
      BY <1>4, <2>1, FinalizerWorks, FinalizerLocks, FinalizerHarmless, TransitionHarmless,
         HarmlessSteps
      DEF CallerStep, FinalizeStep, PipelineStep
  <1>5. ASSUME NEW p \in Killable, Kill(p) PROVE Goal
    <2>1. p \in Proc /\ p \in Runner \cup Finalizer
      BY Kinds
    <2> QED
      BY <1>5, <2>1, RunnerHarmless, FinalizerHarmless, HarmlessSteps
  <1>6. ASSUME NEW o \in Operator, CallerStep(o) PROVE Goal
    <2>1. o \in Proc /\ o \notin Starter /\ o \notin Finalizer
      BY Kinds
    <2> QED
      BY <1>6, <2>1, OperatorWorks, TransitionHarmless, HarmlessSteps DEF CallerStep
  <1>7. ASSUME UNCHANGED vars PROVE Goal
    BY <1>7, RecoveryStutters
  <1>8. Goal
    <2> HIDE DEF Goal
    <2> QED
      BY <1>2, <1>3, <1>4, <1>5, <1>6, <1>7, Kinds DEF Next
  <1> QED
    BY <1>1, <1>8 DEF RecoveryInv

(* What finalizers have seen still holds, and sealed files have no writer. *)
THEOREM RecoveryInvHolds == SoloRun /\ Spec => []RecoveryInv
  BY RecoveryInit, RecoveryStep, PTL DEF Spec

(* finalize_run "refuses to race an alive runner or executor": with any    *)
(* number of start, finalize, interrupt, terminate and steer calls, kills  *)
(* at every step, spawn failures, time-outs and failed seals, as long as   *)
(* there is one runner and no finalize comes before the first heartbeat.   *)
THEOREM FinalizersRefuseToRace == SoloRun /\ Spec => []FinalizerRefusesToRace
  <1>1. RecoveryInv => FinalizerRefusesToRace
    BY DEF RecoveryInv, FinalizerInv, RunnerGone, NoExecutor, FinalizerRefusesToRace
  <1> QED
    BY <1>1, RecoveryInvHolds, PTL

(* The receipt describes the artifacts from the moment it exists, through  *)
(* the same calls and failures, as long as no operator appended a message  *)
(* (steer and the supervisor's samples check that the run is active, and   *)
(* append to a journal that may be digested in between).                   *)
THEOREM QuietSealIsIntact == SoloRun /\ Spec => [](Quiet => SealIntact)
  <1>1. RecoveryInv => (Quiet => SealIntact)
    BY DEF RecoveryInv, IntactInv, SealIntact
  <1> QED
    BY <1>1, RecoveryInvHolds, PTL

(* Both together, without operators: the instance of the recovery run.     *)
THEOREM RecoveryIsSafe == SoloRun /\ Operator = {} /\ Spec => []RecoverySafe
  <1> SUFFICES ASSUME Operator = {} PROVE SoloRun /\ Spec => []RecoverySafe
    OBVIOUS
  <1>1. Quiet
    BY DEF Quiet
  <1>2. RecoveryInv => RecoverySafe
    BY <1>1 DEF RecoveryInv, FinalizerInv, IntactInv, RunnerGone, NoExecutor, RecoverySafe,
       SealIntact, FinalizerRefusesToRace
  <1> QED
    BY <1>2, RecoveryInvHolds, PTL
=============================================================================
