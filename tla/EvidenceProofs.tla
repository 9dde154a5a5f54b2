--------------------------- MODULE EvidenceProofs ---------------------------
(***************************************************************************)
(* Proofs about the components of MCEvidence, each on its own and for any  *)
(* number of processes, messages and attempts.                             *)
(***************************************************************************)
EXTENDS Cursors, Supervision, Completion, Index, Inbox, Hierarchy, FiniteSetTheorems, TLAPS

(* reconstruct_cursor stops at the first message without evidence: all of  *)
(* the messages up to the rebuilt number have evidence.                    *)
LEMMA ContiguousPrefixBacked ==
  ASSUME NEW s \in SUBSET (1..MaxSource)
  PROVE  /\ ContiguousPrefix(s) \in 0..MaxSource
         /\ 1..ContiguousPrefix(s) \subseteq s
  <1> DEFINE D == {n \in s : 1..n \subseteq s}
             k == Cardinality(D)
  <1>1. IsFiniteSet(1..MaxSource) /\ Cardinality(1..MaxSource) = MaxSource
    BY FS_Interval, CursorsAssumption DEF CursorsAssumption
  <1>2. D \in SUBSET (1..MaxSource)
    OBVIOUS
  <1>3. IsFiniteSet(D) /\ k <= MaxSource
    <2> HIDE DEF D
    <2> QED
      BY <1>1, <1>2, FS_Subset
  <1>4. k \in Nat
    BY <1>3, FS_CardinalityType
  <1>5. ASSUME NEW m \in 1..k, m \notin D PROVE FALSE
    <2>1. \A n \in D : \A i \in 1..n : i \in D
      BY <1>2
    <2>2. D \in SUBSET (1..(m - 1))
      BY <1>2, <1>4, <1>5, <2>1
    <2>3. IsFiniteSet(1..(m - 1)) /\ Cardinality(1..(m - 1)) = m - 1
      <3>1. m - 1 \in Int /\ m \in Nat /\ m >= 1
        BY <1>4
      <3> HIDE DEF k
      <3> QED
        BY <3>1, FS_Interval
    <2>4. k <= m - 1
      <3> HIDE DEF D
      <3> QED
        BY <2>2, <2>3, FS_Subset
    <2> QED
      BY <2>4, <1>4
  <1>6. 1..k \subseteq s
    BY <1>5
  <1> QED
    BY <1>3, <1>4, <1>6, CursorsAssumption DEF ContiguousPrefix, CursorsAssumption

(* Nothing processed, nothing locked.                                      *)
LEMMA CursorsInitInv == CursorsInit => CursorsInv
  BY CursorsAssumption
  DEF CursorsAssumption, CursorsInit, CursorsInv, CursorsSafe, CursorsTypeOK, EffectsInOrder,
      LockedCursor, NumbersBacked, ConsumerIdle, ConsumerStep, Corrupt, At

(* process: the lock covers the look at the cursor, the effect and the     *)
(* move of the cursor.                                                     *)
LEMMA ProcessKeepsInv ==
  ASSUME CursorsInv, NEW p \in Consumer,
         ProcessBegin(p) \/ CommitEffect(p) \/ AdvanceCursor(p) \/ KeepEvidence(p)
  PROVE  CursorsInv'
  <1> USE CursorsAssumption
      DEF CursorsAssumption, CursorsInv, CursorsSafe, CursorsTypeOK, EffectsInOrder,
          LockedCursor, NumbersBacked, ConsumerStep, Corrupt, At, Take
  <1>1. CASE ProcessBegin(p)
    BY <1>1 DEF ProcessBegin
  <1>2. CASE CommitEffect(p)
    <2> USE <1>2 DEF CommitEffect
    <2>1. effects' = effects \cup {position + 1} /\ position + 1 \in 1..MaxSource
      OBVIOUS
    <2>2. \A n \in effects' : 1..n \subseteq effects'
      <3>1. 1..(position + 1) \subseteq effects'
        BY <2>1
      <3> QED
        BY <2>1, <3>1
    <2>3. EffectsInOrder' /\ CursorsTypeOK'
      BY <2>1, <2>2
    <2>4. LockedCursor' /\ NumbersBacked'
      BY <2>1
    <2> QED
      BY <2>3, <2>4
  <1>3. CASE AdvanceCursor(p)
    BY <1>3 DEF AdvanceCursor
  <1>4. CASE KeepEvidence(p)
    <2>1. CursorsTypeOK' /\ EffectsInOrder'
      <3>1. kept' \subseteq effects
        BY <1>4 DEF KeepEvidence
      <3>2. consumer' \in [Consumer -> [step : ConsumerStep, n : 0..MaxSource]]
        BY <1>4 DEF KeepEvidence
      <3> QED
        BY <1>4, <3>1, <3>2 DEF KeepEvidence
    <2>2. LockedCursor' /\ NumbersBacked'
      BY <1>4 DEF KeepEvidence
    <2> QED
      BY <2>1, <2>2
  <1> QED
    BY <1>1, <1>2, <1>3, <1>4

(* compare_and_update by a caller that read the cursor and committed the   *)
(* effect outside the lock.                                                *)
LEMMA CompareKeepsInv ==
  ASSUME CursorsInv, NEW p \in Consumer,
         ReadCursor(p) \/ CommitOutside(p) \/ CompareAndUpdate(p)
  PROVE  CursorsInv'
  <1> USE CursorsAssumption
      DEF CursorsAssumption, CursorsInv, CursorsSafe, CursorsTypeOK, EffectsInOrder,
          LockedCursor, NumbersBacked, ConsumerStep, Corrupt, At, Take
  <1>1. CASE ReadCursor(p)
    BY <1>1 DEF ReadCursor
  <1>2. CASE CommitOutside(p)
    <2> DEFINE m == consumer[p].n + 1
    <2> USE <1>2 DEF CommitOutside
    <2>1. effects' = effects \cup {m} /\ m \in 1..MaxSource /\ 1..(m - 1) \subseteq effects
      OBVIOUS
    <2>2. 1..m \subseteq effects'
      BY <2>1
    <2>3. EffectsInOrder' /\ CursorsTypeOK'
      BY <2>1, <2>2
    <2>4. LockedCursor' /\ NumbersBacked'
      BY <2>1
    <2> QED
      BY <2>3, <2>4
  <1>3. CASE CompareAndUpdate(p)
    <2> USE <1>3 DEF CompareAndUpdate
    <2>1. position' # Corrupt => 1..position' \subseteq effects
      OBVIOUS
    <2>2. CursorsTypeOK' /\ EffectsInOrder'
      BY <2>1
    <2>3. LockedCursor' /\ NumbersBacked'
      OBVIOUS
    <2> QED
      BY <2>2, <2>3
  <1> QED
    BY <1>1, <1>2, <1>3

(* read_or_reconstruct, a kill and a corruption.                           *)
LEMMA RebuildKeepsInv ==
  ASSUME CursorsInv,
         \/ \E p \in Consumer : Rebuild(p) \/ Reconstruct(p) \/ KillConsumer(p)
         \/ CorruptCursor
  PROVE  CursorsInv'
  <1> USE CursorsAssumption
      DEF CursorsAssumption, CursorsInv, CursorsSafe, CursorsTypeOK, EffectsInOrder,
          LockedCursor, NumbersBacked, ConsumerStep, Corrupt, At, Take
  <1>1. ASSUME NEW p \in Consumer, Rebuild(p) PROVE CursorsInv'
    <2> DEFINE n == ContiguousPrefix(kept)
    <2>1. n \in 0..MaxSource /\ 1..n \subseteq kept
      <3>1. kept \in SUBSET (1..MaxSource)
        OBVIOUS
      <3> QED
        BY <3>1, ContiguousPrefixBacked
    <2> HIDE DEF n
    <2>2. consumer' = [consumer EXCEPT ![p] = [step |-> "rebuild", n |-> n]]
      BY <1>1 DEF Rebuild, n
    <2> QED
      BY <1>1, <2>1, <2>2 DEF Rebuild
  <1>2. ASSUME NEW p \in Consumer, Reconstruct(p) PROVE CursorsInv'
    BY <1>2 DEF Reconstruct
  <1>3. ASSUME NEW p \in Consumer, KillConsumer(p) PROVE CursorsInv'
    BY <1>3 DEF KillConsumer
  <1>4. CASE CorruptCursor
    BY <1>4 DEF CorruptCursor
  <1> QED
    BY <1>1, <1>2, <1>3, <1>4

(* However many consumers with one binding process, compare, rebuild and   *)
(* are killed, effects follow the order of the journal and no cursor gets  *)
(* ahead of them, so that no message is skipped (consumer_cursors.py:      *)
(* process, compare_and_update and read_or_reconstruct).                   *)
THEOREM CursorsAreSafe == CursorsSpec => []CursorsSafe
  <1>1. CursorsInv /\ [CursorsNext]_cursors => CursorsInv'
    <2>1. CASE UNCHANGED cursors
      BY <2>1 DEF cursors, CursorsInv, CursorsSafe, CursorsTypeOK, EffectsInOrder,
                  LockedCursor, NumbersBacked, At
    <2> QED
      BY <2>1, ProcessKeepsInv, CompareKeepsInv, RebuildKeepsInv DEF CursorsNext
  <1>2. CursorsInv => CursorsSafe
    BY DEF CursorsInv
  <1> QED
    BY CursorsInitInv, <1>1, <1>2, PTL DEF CursorsSpec

-----------------------------------------------------------------------------
(* How the supervisors at a step change when one of them moves.            *)
LEMMA MovedSupervisor ==
  ASSUME SupervisionTypeOK, NEW s \in Supervisor, NEW to \in SupervisorStep, Goto(s, to),
         NEW step
  PROVE  /\ IsFiniteSet(Doing(step)) /\ Cardinality(Doing(step)) \in Nat
         /\ Cardinality(Doing(step)') =
               IF supervisor[s] = step THEN IF to = step THEN Cardinality(Doing(step))
                                            ELSE Cardinality(Doing(step)) - 1
               ELSE IF to = step THEN Cardinality(Doing(step)) + 1
               ELSE Cardinality(Doing(step))
  <1> DEFINE D == Doing(step)
             E == Doing(step)'
  <1>1. IsFiniteSet(D) /\ Cardinality(D) \in Nat
    <2>1. D \in SUBSET Supervisor
      BY DEF Doing
    <2> HIDE DEF D
    <2> QED
      BY <2>1, FS_Subset, FS_CardinalityType, SupervisionAssumption DEF SupervisionAssumption
  <1>2. E = IF to = step THEN D \cup {s} ELSE D \ {s}
    BY DEF Doing, Goto, SupervisionTypeOK
  <1>3. s \in D <=> supervisor[s] = step
    BY DEF Doing
  <1> HIDE DEF D, E
  <1>4. Cardinality(D \cup {s}) = IF s \in D THEN Cardinality(D) ELSE Cardinality(D) + 1
    BY <1>1, FS_AddElement
  <1>5. Cardinality(D \ {s}) = IF s \in D THEN Cardinality(D) - 1 ELSE Cardinality(D)
    BY <1>1, FS_RemoveElement
  <1>6. Cardinality(E) = IF supervisor[s] = step THEN IF to = step THEN Cardinality(D)
                                                      ELSE Cardinality(D) - 1
                         ELSE IF to = step THEN Cardinality(D) + 1 ELSE Cardinality(D)
    BY <1>2, <1>3, <1>4, <1>5
  <1> QED
    BY <1>1, <1>6 DEF D, E

(* Two groups of supervisors without a common member.                      *)
LEMMA TwoGroups ==
  ASSUME NEW D, NEW E, D \subseteq Supervisor, E \subseteq Supervisor, D \cap E = {}
  PROVE  /\ Cardinality(D) \in Nat /\ Cardinality(E) \in Nat
         /\ Cardinality(Supervisor) \in Nat \ {0}
         /\ Cardinality(D) + Cardinality(E) <= Cardinality(Supervisor)
  <1>1. D \in SUBSET Supervisor /\ E \in SUBSET Supervisor
    OBVIOUS
  <1> USE SupervisionAssumption DEF SupervisionAssumption
  <1>2. IsFiniteSet(D) /\ IsFiniteSet(E)
    BY <1>1, FS_Subset
  <1>3. Cardinality(D \cup E) = Cardinality(D) + Cardinality(E) - 0
    BY <1>1, <1>2, FS_Union, FS_EmptySet
  <1>4. D \cup E \in SUBSET Supervisor
    BY <1>1
  <1>5. Cardinality(D \cup E) <= Cardinality(Supervisor)
    BY <1>4, FS_Subset
  <1>6. Cardinality(D) \in Nat /\ Cardinality(E) \in Nat /\ Cardinality(Supervisor) \in Nat
    BY <1>2, FS_CardinalityType
  <1>7. Cardinality(Supervisor) # 0
    BY FS_EmptySet
  <1> QED
    BY <1>3, <1>5, <1>6, <1>7

(* Nothing sent, nothing recorded.                                         *)
LEMMA SupervisionInitInv == SupervisionInit => SupervisionInv
  <1> SUFFICES ASSUME SupervisionInit PROVE SupervisionInv
    OBVIOUS
  <1>1. SupervisionTypeOK /\ steers \in Nat /\ supervisorKills \in Nat
    <2>1. {runner, executor, stale, healthFull} \subseteq BOOLEAN
      BY Zenon DEF SupervisionInit
    <2>2. 0 \in 0..MaxEvents
      BY SupervisionAssumption DEF SupervisionAssumption
    <2> QED
      BY <2>1, <2>2 DEF SupervisionInit, SupervisionTypeOK, Rule, Category, SupervisorStep
  <1>2. Doing("probe") = {} /\ Doing("interrupt") = {} /\ status = "running"
    BY DEF SupervisionInit, Doing
  <1>3. ProbesAccounted
    <2>1. Cardinality(Doing("probe")) = 0
      BY <1>2, FS_EmptySet
    <2>2. /\ Cardinality(Doing("record_probe")) \in Nat
          /\ Cardinality(Supervisor) \in Nat \ {0}
      <3>1. /\ Doing("probe") \subseteq Supervisor /\ Doing("record_probe") \subseteq Supervisor
            /\ Doing("probe") \cap Doing("record_probe") = {}
        BY DEF Doing
      <3> QED
        BY <3>1, TwoGroups
    <2> QED
      BY <2>1, <2>2, SupervisionAssumption
      DEF SupervisionAssumption, SupervisionInit, ProbesAccounted, Rule
  <1> QED
    BY <1>1, <1>2, <1>3 DEF SupervisionInv

(* A supervisor that goes on without probing, sending or recording.        *)
LEMMA QuietSupervisor ==
  ASSUME SupervisionInv, NEW s \in Supervisor, NEW to \in SupervisorStep \ {"probe"},
         Goto(s, to), supervisor[s] # "record_probe", to # "record_probe",
         UNCHANGED <<remedies, steers, supervisorKills>>
  PROVE  ProbesAccounted'
  <1>1. Cardinality(Doing("record_probe")') = Cardinality(Doing("record_probe"))
    BY MovedSupervisor DEF SupervisionInv
  <1>2. /\ Cardinality(Doing("probe")) \in Nat /\ Cardinality(Doing("probe")') \in Int
        /\ Cardinality(Doing("probe")') <= Cardinality(Doing("probe"))
    BY MovedSupervisor DEF SupervisionInv
  <1>3. Cardinality(Doing("record_probe")) \in Nat /\ Cardinality(Supervisor) \in Nat
    <2>1. /\ Doing("probe") \subseteq Supervisor /\ Doing("record_probe") \subseteq Supervisor
          /\ Doing("probe") \cap Doing("record_probe") = {}
      BY DEF Doing
    <2> QED
      BY <2>1, TwoGroups
  <1> QED
    BY <1>1, <1>2, <1>3, SupervisionAssumption
    DEF SupervisionAssumption, SupervisionInv, ProbesAccounted, Recorded

(* A run that is looked at, diagnosed, finalized or interrupted.           *)
LEMMA LookKeepsInv ==
  ASSUME SupervisionInv, NEW s \in Supervisor,
         Sample(s) \/ Observe(s) \/ Finalize(s) \/ InterruptRun(s)
  PROVE  SupervisionInv'
  <1>1. CASE Sample(s)
    <2>1. SupervisionTypeOK'
      BY <1>1 DEF Sample, SupervisionInv, SupervisionTypeOK, PermissionAfter, SampleAfter,
                  ProcessSample, SupervisorStep, Goto, run
    <2>2. ProbesAccounted'
      BY <1>1, QuietSupervisor DEF Sample, SupervisorStep
    <2> QED
      BY <1>1, <2>1, <2>2 DEF Sample, SupervisionInv, SupervisionTypeOK, Doing, Goto, run
  <1>2. CASE Observe(s)
    <2>1. PICK pressure \in BOOLEAN, to \in {"missing", "stalled", "idle"} :
            /\ supervisor[s] = "sampled" /\ Goto(s, to)
            /\ incident' = IncidentAfter(Diagnose(ObservedState, pressure))
            /\ UNCHANGED <<run, permission, sample, healthFull, remedies, steers,
                           supervisorKills>>
      BY <1>2 DEF Observe
    <2>2. SupervisionTypeOK'
      BY <2>1 DEF SupervisionInv, SupervisionTypeOK, IncidentAfter, Diagnose, Category,
                  SupervisorStep, Goto, run
    <2>3. ProbesAccounted'
      BY <2>1, QuietSupervisor DEF SupervisorStep
    <2> QED
      BY <2>1, <2>2, <2>3 DEF SupervisionInv, SupervisionTypeOK, Doing, Goto, run
  <1>3. CASE Finalize(s)
    <2>1. SupervisionTypeOK'
      BY <1>3 DEF Finalize, SupervisionInv, SupervisionTypeOK, SupervisorStep, Goto, evidence
    <2>2. ProbesAccounted'
      BY <1>3, QuietSupervisor DEF Finalize, SupervisorStep, evidence
    <2> QED
      BY <1>3, <2>1, <2>2 DEF Finalize, SupervisionInv, SupervisionTypeOK, Doing, Goto,
                              evidence
  <1>4. CASE InterruptRun(s)
    <2>1. SupervisionTypeOK'
      BY <1>4 DEF InterruptRun, SupervisionInv, SupervisionTypeOK, SupervisorStep, Goto,
                  evidence
    <2>2. ProbesAccounted'
      BY <1>4, QuietSupervisor DEF InterruptRun, SupervisorStep, evidence
    <2> QED
      BY <1>4, <2>1, <2>2 DEF InterruptRun, SupervisionInv, SupervisionTypeOK, Doing, Goto,
                              evidence
  <1> QED
    BY <1>1, <1>2, <1>3, <1>4

(* _apply_remediation counts and then acts: at that moment every other     *)
(* supervisor may be between its own count and its record, and none of     *)
(* them is counted.                                                        *)
LEMMA CountKeepsInv ==
  ASSUME SupervisionInv, NEW s \in Supervisor, CountRemedies(s)
  PROVE  SupervisionInv'
  <1>1. PICK to \in {"probe", "interrupt", "idle"} :
          /\ Goto(s, to)
          /\ to = "probe" => remedies["probe"] < MaxAttempts
          /\ to = "interrupt" => ~(remedies["probe"] < MaxAttempts)
    BY DEF CountRemedies
  <1>2. SupervisionTypeOK'
    BY <1>1 DEF CountRemedies, SupervisionInv, SupervisionTypeOK, SupervisorStep, Goto, run,
                evidence
  <1>3. ProbesAccounted'
    <2>1. CASE to # "probe"
      BY <1>1, <2>1, QuietSupervisor DEF CountRemedies, SupervisorStep, evidence
    <2>2. CASE to = "probe"
      <3>2. /\ Cardinality(Doing("record_probe")') = Cardinality(Doing("record_probe"))
            /\ Cardinality(Doing("record_probe")) \in Nat
        BY <1>1, <2>2, MovedSupervisor DEF CountRemedies, SupervisionInv, SupervisorStep
      <3>3. /\ Cardinality(Doing("probe")') \in Nat /\ Cardinality(Supervisor) \in Nat \ {0}
            /\ Cardinality(Doing("probe")') + Cardinality(Doing("record_probe")')
                  <= Cardinality(Supervisor)
        <4> DEFINE P == Doing("probe")'
                   Q == Doing("record_probe")'
        <4>1. P \subseteq Supervisor /\ Q \subseteq Supervisor /\ P \cap Q = {}
          BY DEF Doing
        <4> HIDE DEF P, Q
        <4>2. /\ Cardinality(P) \in Nat /\ Cardinality(Supervisor) \in Nat \ {0}
              /\ Cardinality(P) + Cardinality(Q) <= Cardinality(Supervisor)
          BY <4>1, TwoGroups
        <4> QED
          BY <4>2 DEF P, Q
      <3>4. remedies["probe"] \in Nat /\ remedies["interrupt"] \in Nat
        BY SupervisionAssumption
        DEF SupervisionAssumption, SupervisionInv, SupervisionTypeOK, Rule
      <3> QED
        BY <1>1, <2>2, <3>2, <3>3, <3>4, SupervisionAssumption
        DEF SupervisionAssumption, CountRemedies, SupervisionInv, ProbesAccounted, Recorded,
            evidence
    <2> QED
      BY <2>1, <2>2
  <1> QED
    BY <1>1, <1>2, <1>3, SupervisionAssumption
    DEF SupervisionAssumption, CountRemedies, SupervisionInv, SupervisionTypeOK, Rule, Doing,
        Goto, run, evidence

(* A probe moves its sender from the one side of the account to the other, *)
(* and its record or a kill closes the account.                            *)
LEMMA ProbeKeepsInv ==
  ASSUME SupervisionInv, NEW s \in Supervisor,
         Probe(s) \/ KillSupervisor(s) \/ \E r \in Rule : RecordRemediation(s, r)
  PROVE  SupervisionInv'
  <1> DEFINE P == Cardinality(Doing("probe"))
             Q == Cardinality(Doing("record_probe"))
             N == Cardinality(Supervisor)
  <1>1. P \in Nat /\ Q \in Nat /\ N \in Nat /\ {MaxAttempts, MaxEvents} \subseteq Nat
    <2>1. /\ Doing("probe") \subseteq Supervisor /\ Doing("record_probe") \subseteq Supervisor
          /\ Doing("probe") \cap Doing("record_probe") = {}
      BY DEF Doing
    <2> QED
      BY <2>1, TwoGroups, SupervisionAssumption DEF SupervisionAssumption
  <1>2. remedies["probe"] \in Nat /\ remedies["interrupt"] \in Nat
    BY <1>1 DEF SupervisionInv, SupervisionTypeOK, Rule
  <1>3. CASE Probe(s)
    <2>1. P' = P - 1 /\ Q' = Q + 1
      BY <1>3, MovedSupervisor DEF Probe, SupervisionInv, SupervisorStep
    <2>2. SupervisionTypeOK' /\ steers' \in Nat
      <3>1. {runner, executor, stale, healthFull}' \subseteq BOOLEAN
        BY <1>3 DEF Probe, SupervisionInv, SupervisionTypeOK, evidence
      <3>2. steers' \in Nat
        BY <1>3 DEF Probe, SupervisionInv
      <3>3. supervisor' \in [Supervisor -> SupervisorStep]
        BY <1>3 DEF Probe, SupervisionInv, SupervisionTypeOK, SupervisorStep, Goto
      <3> QED
        BY <1>3, <3>1, <3>2, <3>3 DEF Probe, SupervisionInv, SupervisionTypeOK, evidence
    <2> HIDE DEF P, Q, N
    <2>3. steers' \in {steers, steers + 1} /\ remedies' = remedies
          /\ supervisorKills' = supervisorKills
      BY <1>3 DEF Probe, evidence
    <2>4. Recorded < MaxEvents =>
            /\ steers' <= remedies["probe"] + Q' + supervisorKills
            /\ steers' + P' <= MaxAttempts + (N - 1) + supervisorKills
      BY <1>1, <1>2, <2>1, <2>3 DEF SupervisionInv, ProbesAccounted, P, Q, N
    <2>5. ProbesAccounted'
      BY <2>3, <2>4 DEF ProbesAccounted, Recorded, P, Q, N
    <2> QED
      BY <1>3, <2>2, <2>5 DEF Probe, SupervisionInv, SupervisionTypeOK, Doing, Goto, evidence
  <1>4. CASE KillSupervisor(s)
    <2>1. P' \in {P, P - 1} /\ Q' \in {Q, Q - 1} /\ (P' = P \/ Q' = Q)
      BY <1>4, MovedSupervisor DEF KillSupervisor, SupervisionInv, SupervisorStep
    <2>2. SupervisionTypeOK' /\ supervisorKills' \in Nat
      BY <1>4 DEF KillSupervisor, SupervisionInv, SupervisionTypeOK, SupervisorStep, Goto,
                  run, evidence
    <2> HIDE DEF P, Q, N
    <2>3. steers' = steers /\ remedies' = remedies /\ supervisorKills' = supervisorKills + 1
      BY <1>4 DEF KillSupervisor, evidence
    <2>4. Recorded < MaxEvents =>
            /\ steers <= remedies["probe"] + Q' + (supervisorKills + 1)
            /\ steers + P' <= MaxAttempts + (N - 1) + (supervisorKills + 1)
      BY <1>1, <1>2, <2>1 DEF SupervisionInv, ProbesAccounted, P, Q, N
    <2>5. ProbesAccounted'
      BY <2>3, <2>4 DEF ProbesAccounted, Recorded, P, Q, N
    <2> QED
      BY <1>4, <2>2, <2>5 DEF KillSupervisor, SupervisionInv, SupervisionTypeOK, Doing, Goto,
                              run, evidence
  <1>5. ASSUME NEW r \in Rule, RecordRemediation(s, r) PROVE SupervisionInv'
    <2>1. /\ P' = P
          /\ Q' = IF r = "probe" THEN Q - 1 ELSE Q
      BY <1>5, MovedSupervisor
      DEF RecordRemediation, RecordStep, Rule, SupervisionInv, SupervisorStep
    <2>2. SupervisionTypeOK'
      <3>1. remedies' \in [Rule -> 0..MaxEvents]
        BY <1>1, <1>5 DEF RecordRemediation, SupervisionInv, SupervisionTypeOK, Rule
      <3> QED
        BY <1>5, <3>1 DEF RecordRemediation, SupervisionInv, SupervisionTypeOK,
                          SupervisorStep, Goto, run
    <2>3. /\ steers' = steers /\ supervisorKills' = supervisorKills /\ status' = status
          /\ Recorded < MaxEvents => remedies' = [remedies EXCEPT ![r] = @ + 1]
          /\ Recorded >= MaxEvents => remedies' = remedies
      BY <1>1, <1>2, <1>5 DEF RecordRemediation, Recorded, run
    <2> HIDE DEF P, Q, N
    <2>4. ProbesAccounted'
      <3>1. CASE Recorded < MaxEvents
        <4>1. remedies'["probe"] = IF r = "probe" THEN remedies["probe"] + 1
                                   ELSE remedies["probe"]
          BY <2>3, <3>1 DEF Rule, SupervisionInv, SupervisionTypeOK
        <4>2. /\ steers <= remedies'["probe"] + Q' + supervisorKills
              /\ steers + P' <= MaxAttempts + (N - 1) + supervisorKills
          BY <1>1, <1>2, <2>1, <3>1, <4>1 DEF SupervisionInv, ProbesAccounted, P, Q, N
        <4> QED
          BY <2>3, <4>2 DEF ProbesAccounted, Recorded, P, Q, N
      <3>2. CASE Recorded >= MaxEvents
        BY <1>1, <1>2, <2>3, <3>2 DEF ProbesAccounted, Recorded
      <3> QED
        BY <1>1, <1>2, <3>1, <3>2 DEF Recorded
    <2>5. remedies'["probe"] \in Nat /\ remedies'["probe"] >= remedies["probe"]
      BY <1>1, <1>2, <1>5 DEF RecordRemediation, Rule, SupervisionInv, SupervisionTypeOK
    <2>6. Doing("interrupt")' \subseteq Doing("interrupt")
      BY <1>5 DEF RecordRemediation, Doing, Goto, SupervisionInv, SupervisionTypeOK
    <2> QED
      BY <1>1, <1>2, <2>2, <2>3, <2>4, <2>5, <2>6 DEF SupervisionInv
  <1> QED
    BY <1>3, <1>4, <1>5

(* The run itself and time: the supervisors and their record stay.         *)
LEMMA RunKeepsInv ==
  ASSUME SupervisionInv,
         Executes \/ TimePasses \/ ExecutorExits \/ RunnerDies \/ RunnerEndsRun
  PROVE  SupervisionInv'
  <1>1. /\ UNCHANGED <<evidence, supervisor, steers, supervisorKills>>
        /\ status' = status \/ status' = "ended"
    BY DEF Executes, TimePasses, ExecutorExits, RunnerDies, RunnerEndsRun
  <1>2. SupervisionTypeOK'
    BY DEF Executes, TimePasses, ExecutorExits, RunnerDies, RunnerEndsRun, SupervisionInv,
           SupervisionTypeOK, evidence
  <1> QED
    BY <1>1, <1>2 DEF SupervisionInv, ProbesAccounted, Recorded, Doing, evidence

(* Supervisors take no lock and count only what is recorded.  A stalled    *)
(* run is nevertheless probed at most once more than configured for each   *)
(* other supervisor and each kill, for any number of both, and is          *)
(* interrupted only after the probes are used up (supervisor.py,           *)
(* _apply_remediation).                                                    *)
THEOREM SupervisionIsSafe == SupervisionSpec => []SupervisionSafe
  <1>1. SupervisionInv /\ [SupervisionNext]_supervision => SupervisionInv'
    <2>1. CASE UNCHANGED supervision
      BY <2>1 DEF supervision, run, evidence, SupervisionInv, SupervisionTypeOK,
                  ProbesAccounted, Recorded, Doing
    <2> QED
      BY <2>1, LookKeepsInv, CountKeepsInv, ProbeKeepsInv, RunKeepsInv
      DEF SupervisionNext, Supervise
  <1>2. SupervisionInv => SupervisionSafe
    <2> SUFFICES ASSUME SupervisionInv PROVE SupervisionSafe
      OBVIOUS
    <2>1. Cardinality(Doing("probe")) \in Nat /\ Cardinality(Supervisor) \in Nat
      <3>1. /\ Doing("probe") \subseteq Supervisor /\ {} \subseteq Supervisor
            /\ Doing("probe") \cap {} = {}
        BY DEF Doing
      <3> QED
        BY <3>1, TwoGroups
    <2> QED
      BY <2>1, SupervisionAssumption
      DEF SupervisionAssumption, SupervisionInv, SupervisionSafe, RemediationBounded,
          ProbesAccounted, Recorded
  <1> QED
    BY SupervisionInitInv, <1>1, <1>2, PTL DEF SupervisionSpec

-----------------------------------------------------------------------------
(* The worker's completion.                                                *)

(* A record names a tree on which the command passed, or one that was      *)
(* edited under it.                                                        *)
Sound(at) == at[2] \in passing \/ at \in raced
SoundRecord(c) == c # Nothing /\ c.ok => Sound(c.at)

WorkerType == [step : {"idle", "run", "record", "verified", "complete", "close"},
               finish : BOOLEAN, ok : BOOLEAN, ran : 0..MaxTree, seen : SUBSET CacheEntry]
DraftType == [open : BOOLEAN, claim : Outcome, tests : Outcome, command : Record \cup {Nothing}]

LEMMA CompletionInitInv == CompletionInit => CompletionInv
  <1> SUFFICES ASSUME CompletionInit PROVE CompletionInv
    OBVIOUS
  <1>1. NewDraft \in DraftType
    BY DEF NewDraft, DraftType, Outcome
  <1>2. AtRest \in WorkerType
    BY CompletionAssumption DEF AtRest, WorkerType, CompletionAssumption
  <1>3. CompletionTypeOK
    BY <1>1, CompletionAssumption DEF CompletionInit, CompletionTypeOK, DraftType, CompletionAssumption
  <1>4. VerificationTruthful /\ CompletionRestsOnEvidence /\ VerifierHonest
    BY DEF CompletionInit, VerificationTruthful, CompletionRestsOnEvidence, VerifierHonest, AtRest,
           NewDraft
  <1> QED
    BY <1>2, <1>3, <1>4 DEF CompletionInit, CompletionInv, CompletionSafe, WorkerType

(* What a step may leave behind: records that are sound, in drafts and     *)
(* caches of runs that still run.                                          *)
LEMMA RecordsKept ==
  ASSUME CompletionInv, UNCHANGED passing, raced \subseteq raced', raced' \subseteq Fingerprints,
         head' \in 0..MaxTree, tree' \in 0..MaxTree,
         draft' \in [Worker -> DraftType], handoff' \in [Worker -> Claimed \cup {Nothing}],
         cache' \in [Worker -> CacheEntry \cup {Nothing}], shared' \subseteq CacheEntry,
         worker' \in [Worker -> WorkerType],
         phase' \in [Worker -> {"running", "exited", "sealed"}],
         collection' \in [Worker -> {"none", "missing", "invalid", "valid"}],
         \A e \in shared' : e \in shared \/ Sound(e.at)',
         \A r \in Worker :
            /\ \/ cache'[r] = cache[r]
               \/ /\ phase[r] = "running" /\ (cache'[r] # Nothing => Sound(cache[r].at)')
                  /\ cache'[r] # Nothing /\ cache'[r].src # r =>
                        /\ phase[cache'[r].src] = "sealed" /\ cache[cache'[r].src] # Nothing
                        /\ cache[cache'[r].src].at = cache'[r].at
            /\ draft'[r].command = draft[r].command \/ SoundRecord(draft[r].command)'
            /\ handoff'[r] # handoff[r] =>
                  handoff'[r].command = draft[r].command /\ phase[r] = "running"
            /\ phase[r] = "sealed" => phase'[r] = "sealed"
            /\ collection'[r] # collection[r] => phase'[r] = "sealed"
            /\ collection'[r] = "valid" =>
                  \/ collection[r] = "valid"
                  \/ handoff'[r] # Nothing /\ Substantive(handoff[r])'
            /\ worker'[r].seen \subseteq worker[r].seen \/ worker'[r].seen \subseteq shared
            /\ worker'[r].step = "record" /\ worker'[r].ok =>
                  worker'[r].ran \in passing \/ worker'[r] = worker[r]
  PROVE  CompletionInv'
  <1>0. /\ CompletionTypeOK /\ VerificationTruthful /\ CompletionRestsOnEvidence /\ VerifierHonest
        /\ \A r \in Worker : collection[r] = "valid" => phase[r] = "sealed"
    BY DEF CompletionInv, CompletionSafe
  <1>1. CompletionTypeOK'
    BY <1>0 DEF CompletionTypeOK, DraftType
  <1>2. \A at : Sound(at) => Sound(at)'
    BY DEF Sound
  <1>3. VerificationTruthful'
    <2>1. \A e \in shared' : Sound(e.at)'
      BY <1>0, <1>2 DEF VerificationTruthful, Sound
    <2>2. ASSUME NEW r \in Worker
          PROVE  /\ cache'[r] # Nothing => Sound(cache[r].at)'
                 /\ SoundRecord(draft[r].command)'
                 /\ handoff'[r] # Nothing => SoundRecord(handoff[r].command)'
      BY <1>0, <1>2 DEF VerificationTruthful, Sound, SoundRecord
    <2> QED
      BY <2>1, <2>2 DEF VerificationTruthful, Sound, SoundRecord
  <1>4. CompletionRestsOnEvidence'
    <2> SUFFICES ASSUME NEW r \in Worker
                 PROVE  /\ cache'[r] # Nothing /\ cache'[r].src # r =>
                            /\ phase'[cache'[r].src] = "sealed"
                            /\ cache'[cache'[r].src] # Nothing
                            /\ cache'[cache'[r].src].at = cache'[r].at
                        /\ collection'[r] = "valid" /\ handoff'[r].result = "completed" =>
                             handoff'[r].claim = "pass" /\ handoff'[r].tests = "pass"
                               /\ handoff'[r].command.ok
      BY DEF CompletionRestsOnEvidence
    <2>1. ASSUME cache'[r] # Nothing, cache'[r].src # r
          PROVE  /\ phase'[cache'[r].src] = "sealed"
                 /\ cache'[cache'[r].src] # Nothing
                 /\ cache'[cache'[r].src].at = cache'[r].at
      <3> DEFINE s == cache'[r].src
      <3>1. s \in Worker
        BY <2>1 DEF CacheEntry
      <3>2. phase[s] = "sealed" /\ cache[s] # Nothing /\ cache[s].at = cache'[r].at
        BY <1>0, <2>1 DEF CompletionRestsOnEvidence
      <3>3. cache'[s] = cache[s] /\ phase'[s] = "sealed"
        BY <3>1, <3>2
      <3> QED
        BY <3>2, <3>3
    <2>2. ASSUME collection'[r] = "valid", handoff'[r].result = "completed"
          PROVE  handoff'[r].claim = "pass" /\ handoff'[r].tests = "pass" /\ handoff'[r].command.ok
      <3>1. CASE collection[r] = "valid"
        BY <1>0, <2>2, <3>1 DEF CompletionRestsOnEvidence
      <3>2. CASE Substantive(handoff[r])'
        BY <2>2, <3>2 DEF Substantive
      <3> QED
        BY <2>2, <3>1, <3>2
    <2> QED
      BY <2>1, <2>2
  <1>5. VerifierHonest'
    <2> SUFFICES ASSUME NEW r \in Worker
                 PROVE  /\ worker'[r].seen \subseteq CacheEntry
                        /\ \A e \in worker'[r].seen : Sound(e.at)'
                        /\ worker'[r].step = "record" /\ worker'[r].ok => worker'[r].ran \in passing'
      BY DEF VerifierHonest, Sound
    <2>1. worker'[r].seen \subseteq CacheEntry
      BY DEF WorkerType
    <2>2. \A e \in worker'[r].seen : Sound(e.at)
      BY <1>0 DEF VerifierHonest, VerificationTruthful, Sound
    <2>3. worker'[r].step = "record" /\ worker'[r].ok => worker'[r].ran \in passing
      BY <1>0 DEF VerifierHonest
    <2> QED
      BY <1>2, <2>1, <2>2, <2>3 DEF Sound
  <1>6. \A r \in Worker : collection'[r] = "valid" => phase'[r] = "sealed"
    BY <1>0
  <1> QED
    BY <1>1, <1>3, <1>4, <1>5, <1>6 DEF CompletionInv, CompletionSafe, WorkerType

(* What a worker's call holds when it is begun or goes on.                 *)
LEMMA WorkerMoves ==
  /\ AtRest \in WorkerType /\ AtRest.seen = {} /\ AtRest.step = "idle"
  /\ \A ok \in BOOLEAN :
        LET w == [AtRest EXCEPT !.step = "verified", !.finish = TRUE, !.ok = ok]
        IN  w \in WorkerType /\ w.seen = {} /\ w.step = "verified"
  /\ \A step \in {"complete", "close"} :
        LET w == [AtRest EXCEPT !.step = step]
        IN  w \in WorkerType /\ w.seen = {} /\ w.step = step
  <1>1. AtRest \in WorkerType
    BY CompletionAssumption DEF AtRest, WorkerType, CompletionAssumption
  <1>2. AtRest.seen = {} /\ AtRest.step = "idle"
    BY DEF AtRest
  <1>3. ASSUME NEW ok \in BOOLEAN
        PROVE  LET w == [AtRest EXCEPT !.step = "verified", !.finish = TRUE, !.ok = ok]
               IN  w \in WorkerType /\ w.seen = {} /\ w.step = "verified"
    BY <1>1, <1>2 DEF WorkerType
  <1>4. ASSUME NEW step \in {"complete", "close"}
        PROVE  LET w == [AtRest EXCEPT !.step = step]
               IN  w \in WorkerType /\ w.seen = {} /\ w.step = step
    BY <1>1, <1>2 DEF WorkerType
  <1> QED
    BY <1>1, <1>2, <1>3, <1>4

(* The steps that leave the caches alone.                                  *)
LEMMA ReportingKeepsRecords ==
  ASSUME CompletionInv, NEW r \in Worker,
         \/ RecordCriterion(r) \/ VerifyBegin(r) \/ VerifyRun(r) \/ FinishCriteria(r)
         \/ Complete(r) \/ CompleteRefused(r) \/ CloseDraft(r)
         \/ CollectCompletion(r) \/ WorkerExit(r)
  PROVE  CompletionInv'
  <1>0. /\ CompletionTypeOK /\ draft \in [Worker -> DraftType] /\ worker \in [Worker -> WorkerType]
        /\ handoff \in [Worker -> Claimed \cup {Nothing}]
        /\ shared \subseteq CacheEntry /\ cache \in [Worker -> CacheEntry \cup {Nothing}]
        /\ AtRest \in WorkerType /\ AtRest.seen = {} /\ AtRest.step = "idle"
    BY CompletionAssumption
    DEF CompletionInv, CompletionSafe, CompletionTypeOK, DraftType, WorkerType, AtRest,
        CompletionAssumption
  <1>1. CASE RecordCriterion(r)
    <2>1. draft' \in [Worker -> DraftType]
      BY <1>0, <1>1 DEF RecordCriterion, DraftType, Outcome
    <2>2. \A q \in Worker : draft'[q].command = draft[q].command
      BY <1>0, <1>1 DEF RecordCriterion, DraftType
    <2> QED
      BY <1>0, <1>1, <2>1, <2>2, RecordsKept DEF RecordCriterion, CompletionTypeOK
  <1>2. CASE VerifyBegin(r)
    <2>0. PICK w \in WorkerType : /\ worker' = [worker EXCEPT ![r] = w]
                                  /\ w.seen = shared /\ w.step = "run"
      <3>1. PICK f \in BOOLEAN :
               worker' = [worker EXCEPT ![r] = [AtRest EXCEPT !.step = "run", !.finish = f,
                                                              !.seen = shared]]
        BY <1>2 DEF VerifyBegin
      <3> DEFINE w == [AtRest EXCEPT !.step = "run", !.finish = f, !.seen = shared]
      <3>2. w \in WorkerType /\ w.seen = shared /\ w.step = "run"
        BY <1>0 DEF WorkerType
      <3> HIDE DEF w
      <3> QED
        BY <3>1, <3>2 DEF w
    <2>1. worker' \in [Worker -> WorkerType]
      BY <1>0, <2>0
    <2>2. \A q \in Worker : worker'[q] = worker[q]
                           \/ (worker'[q].seen = shared /\ worker'[q].step = "run")
      BY <1>0, <2>0
    <2> QED
      BY <1>0, <1>2, <2>1, <2>2, RecordsKept DEF VerifyBegin, CompletionTypeOK
  <1>3. CASE VerifyRun(r)
    <2>0. PICK w \in WorkerType : /\ worker' = [worker EXCEPT ![r] = w]
                                  /\ w.seen = worker[r].seen /\ (w.ok => w.ran \in passing)
      <3> DEFINE w == [worker[r] EXCEPT !.step = "record", !.ran = tree, !.ok = tree \in passing]
      <3>1. worker' = [worker EXCEPT ![r] = w]
        BY <1>0, <1>3 DEF VerifyRun
      <3>2. (tree \in passing) \in BOOLEAN /\ tree \in 0..MaxTree /\ worker[r] \in WorkerType
        BY <1>0 DEF CompletionTypeOK
      <3>3. w \in WorkerType /\ w.seen = worker[r].seen /\ w.ran = tree /\ (w.ok => tree \in passing)
        <4>1. ASSUME NEW ok \in BOOLEAN, ok => tree \in passing
              PROVE  LET v == [worker[r] EXCEPT !.step = "record", !.ran = tree, !.ok = ok]
                     IN  v \in WorkerType /\ v.seen = worker[r].seen /\ v.ran = tree
                         /\ (v.ok => tree \in passing)
          BY <3>2, <4>1 DEF WorkerType
        <4> QED
          BY <3>2, <4>1
      <3> HIDE DEF w
      <3> QED
        BY <3>1, <3>3
    <2>1. worker' \in [Worker -> WorkerType]
      BY <1>0, <2>0
    <2>2. \A q \in Worker : worker'[q] = worker[q]
               \/ (worker'[q].seen = worker[q].seen /\ (worker'[q].ok => worker'[q].ran \in passing))
      BY <1>0, <2>0
    <2> QED
      BY <1>0, <1>3, <2>1, <2>2, RecordsKept DEF VerifyRun, CompletionTypeOK
  <1>4. CASE FinishCriteria(r)
    <2>0. PICK w \in WorkerType : /\ worker' = [worker EXCEPT ![r] = w]
                                  /\ w.seen = {} /\ w.step # "record"
      BY <1>0, <1>4, WorkerMoves DEF FinishCriteria
    <2>1. draft' \in [Worker -> DraftType] /\ worker' \in [Worker -> WorkerType]
      <3>1. PICK v \in {"pass", "fail"} : draft' = [draft EXCEPT ![r].tests = v]
        BY <1>4 DEF FinishCriteria
      <3>2. draft' \in [Worker -> DraftType]
        BY <1>0, <3>1 DEF DraftType, Outcome
      <3> QED
        BY <1>0, <2>0, <3>2
    <2>2. /\ \A q \in Worker : draft'[q].command = draft[q].command
          /\ \A q \in Worker : worker'[q] = worker[q]
                                \/ (worker'[q].seen = {} /\ worker'[q].step # "record")
      BY <1>0, <1>4, <2>0 DEF FinishCriteria, DraftType
    <2> QED
      BY <1>0, <1>4, <2>1, <2>2, RecordsKept DEF FinishCriteria, CompletionTypeOK
  <1>5. CASE Complete(r)
    <2>1. PICK result \in {"completed", "partial"} :
             handoff' = [handoff EXCEPT ![r] = Completed(r, result)]
      BY <1>5 DEF Complete
    <2>2. Completed(r, result) \in Claimed /\ Completed(r, result).command = draft[r].command
      BY <1>0 DEF Completed, Claimed, DraftType, CompletionTypeOK
    <2>0. PICK w \in WorkerType : /\ worker' = [worker EXCEPT ![r] = w]
                                  /\ w.seen = {} /\ w.step # "record"
      BY <1>0, <1>5, WorkerMoves DEF Complete
    <2>3. handoff' \in [Worker -> Claimed \cup {Nothing}] /\ worker' \in [Worker -> WorkerType]
      BY <1>0, <2>0, <2>1, <2>2
    <2>4. \A q \in Worker : worker'[q] = worker[q]
                           \/ (worker'[q].seen = {} /\ worker'[q].step # "record")
      BY <1>0, <2>0
    <2>5. phase[r] = "running"
      BY <1>5 DEF Complete, Context
    <2> QED
      BY <1>0, <1>5, <2>1, <2>2, <2>3, <2>4, <2>5, RecordsKept DEF Complete, CompletionTypeOK
  <1>6. CASE CompleteRefused(r) \/ CloseDraft(r)
    <2>1. draft' \in [Worker -> DraftType] /\ worker' \in [Worker -> WorkerType]
      <3>1. [draft[r] EXCEPT !.open = FALSE] \in DraftType
        BY <1>0 DEF DraftType
      <3>2. draft' = draft \/ draft' = [draft EXCEPT ![r] = [draft[r] EXCEPT !.open = FALSE]]
        BY <1>6 DEF CompleteRefused, CloseDraft
      <3>3. draft' \in [Worker -> DraftType]
        BY <1>0, <3>1, <3>2
      <3>4. worker' = [worker EXCEPT ![r] = AtRest]
        BY <1>6 DEF CompleteRefused, CloseDraft
      <3> QED
        BY <1>0, <3>3, <3>4
    <2>2. /\ \A q \in Worker : draft'[q].command = draft[q].command
          /\ \A q \in Worker : worker'[q] = worker[q] \/ worker'[q] = AtRest
      BY <1>0, <1>6 DEF CompleteRefused, CloseDraft, DraftType
    <2> QED
      BY <1>0, <1>6, <2>1, <2>2, RecordsKept DEF CompleteRefused, CloseDraft, CompletionTypeOK
  <1>7. CASE CollectCompletion(r)
    <2>1. /\ phase' \in [Worker -> {"running", "exited", "sealed"}]
          /\ collection' \in [Worker -> {"none", "missing", "invalid", "valid"}]
      BY <1>0, <1>7 DEF CollectCompletion, CompletionTypeOK
    <2>2. \A q \in Worker :
             /\ phase[q] = "sealed" => phase'[q] = "sealed"
             /\ collection'[q] = collection[q] \/ phase'[q] = "sealed"
             /\ collection'[q] = "valid" =>
                  collection[q] = "valid" \/ (handoff[q] # Nothing /\ Substantive(handoff[q]))
      BY <1>0, <1>7 DEF CollectCompletion, CompletionTypeOK
    <2>3. UNCHANGED handoff
      BY <1>7 DEF CollectCompletion
    <2>4. \A q \in Worker : Substantive(handoff[q]) => Substantive(handoff[q])'
      BY <2>3 DEF Substantive
    <2> QED
      BY <1>0, <1>7, <2>1, <2>2, <2>3, <2>4, RecordsKept DEF CollectCompletion, CompletionTypeOK
  <1>8. CASE WorkerExit(r)
    <2>1. /\ phase' \in [Worker -> {"running", "exited", "sealed"}]
          /\ worker' \in [Worker -> WorkerType]
      BY <1>0, <1>8 DEF WorkerExit, CompletionTypeOK
    <2>2. \A q \in Worker : /\ phase[q] = "sealed" => phase'[q] = "sealed"
                            /\ worker'[q] = worker[q] \/ worker'[q] = AtRest
      BY <1>0, <1>8 DEF WorkerExit, CompletionTypeOK
    <2> QED
      BY <1>0, <1>8, <2>1, <2>2, RecordsKept DEF WorkerExit, CompletionTypeOK
  <1> QED
    BY <1>1, <1>2, <1>3, <1>4, <1>5, <1>6, <1>7, <1>8

(* verify_command: a success that is taken over is of the very tree, and   *)
(* one that is recorded was seen on it unless it was edited meanwhile.     *)
LEMMA VerifyingKeepsRecords ==
  ASSUME CompletionInv, NEW r \in Worker, VerifyReuse(r) \/ VerifyRecord(r)
  PROVE  CompletionInv'
  <1>0. /\ CompletionTypeOK /\ draft \in [Worker -> DraftType] /\ worker \in [Worker -> WorkerType]
        /\ shared \subseteq CacheEntry /\ cache \in [Worker -> CacheEntry \cup {Nothing}]
        /\ AtRest \in WorkerType /\ AtRest.seen = {} /\ AtRest.step = "idle"
        /\ VerificationTruthful /\ VerifierHonest
        /\ Fingerprint \in Fingerprints /\ Fingerprint[2] = tree
    BY CompletionAssumption
    DEF CompletionInv, CompletionSafe, CompletionTypeOK, DraftType, WorkerType, AtRest,
        CompletionAssumption, Fingerprint, Fingerprints
  <1>1. \A ok \in BOOLEAN :
           /\ WithCommand(r, ok) \in [Worker -> DraftType]
           /\ \A q \in Worker : WithCommand(r, ok)[q].command =
                                   IF q = r THEN [ok |-> ok, at |-> Fingerprint]
                                   ELSE draft[q].command
    <2> TAKE ok \in BOOLEAN
    <2>1. [ok |-> ok, at |-> Fingerprint] \in Record
      BY <1>0 DEF Record
    <2> QED
      BY <1>0, <2>1 DEF WithCommand, DraftType
  <1>2. CASE VerifyReuse(r)
    <2>1. PICK e \in Reusable(r) : cache' = [cache EXCEPT ![r] = e]
      BY <1>2 DEF VerifyReuse
    <2>2. /\ e \in CacheEntry /\ e.at = Fingerprint /\ CacheEntryReusable(r, e)
          /\ e \in shared \/ (cache[r] # Nothing /\ e = cache[r])
      BY <1>0, <2>1 DEF Reusable
    <2>3. Sound(e.at)
      BY <1>0, <2>2 DEF VerificationTruthful, Sound
    <2>4. draft' = WithCommand(r, TRUE) /\ UNCHANGED <<passing, raced>> /\ phase[r] = "running"
      BY <1>2 DEF VerifyReuse, Context
    <2>5. /\ \A q \in Worker : draft'[q].command = draft[q].command \/ SoundRecord(draft[q].command)'
          /\ draft' \in [Worker -> DraftType]
      <3>1. draft'[r].command = [ok |-> TRUE, at |-> Fingerprint]
        BY <1>1, <2>4
      <3>2. SoundRecord(draft[r].command)'
        <4>1. Fingerprint[2] \in passing' \/ Fingerprint \in raced'
          BY <2>2, <2>3, <2>4 DEF Sound
        <4> QED
          BY <3>1, <4>1 DEF SoundRecord, Sound
      <3> QED
        BY <1>1, <2>4, <3>2
    <2>6. /\ cache' \in [Worker -> CacheEntry \cup {Nothing}]
          /\ \A q \in Worker \ {r} : cache'[q] = cache[q]
          /\ cache'[r] = e
      BY <1>0, <2>1, <2>2
    <2>7. Sound(cache[r].at)'
      BY <2>3, <2>4, <2>6 DEF Sound
    <2>8. e.src # r => phase[e.src] = "sealed" /\ cache[e.src] # Nothing /\ cache[e.src].at = e.at
      BY <2>2 DEF CacheEntryReusable
    <2>9. /\ worker' \in [Worker -> WorkerType]
          /\ \A q \in Worker : worker'[q] = worker[q]
                               \/ (worker'[q].seen = {} /\ worker'[q].step # "record")
      <3>1. PICK w \in WorkerType : /\ worker' = [worker EXCEPT ![r] = w]
                                    /\ w.seen = {} /\ w.step # "record"
        BY <1>0, <1>2, WorkerMoves DEF VerifyReuse
      <3> QED
        BY <1>0, <3>1
    <2> QED
      BY <1>0, <1>2, <2>4, <2>5, <2>6, <2>7, <2>8, <2>9, RecordsKept DEF VerifyReuse, CompletionTypeOK
  <1>3. CASE VerifyRecord(r)
    <2> DEFINE w == worker[r]
               entry == [at |-> Fingerprint, src |-> r]
    <2>1. /\ w.ok \in BOOLEAN /\ w.ran \in 0..MaxTree /\ w.seen \subseteq CacheEntry
          /\ w.step = "record" /\ phase[r] = "running"
          /\ entry \in CacheEntry /\ entry.src = r /\ entry.at = Fingerprint
      BY <1>0, <1>3 DEF VerifyRecord, Context, WorkerType, CacheEntry
    <2>2. /\ draft' = WithCommand(r, w.ok)
          /\ cache' = [cache EXCEPT ![r] = IF w.ok THEN entry ELSE Nothing]
          /\ shared' = IF w.ok THEN {e \in w.seen : e.at # Fingerprint} \cup {entry} ELSE shared
          /\ raced' = IF w.ran # tree THEN raced \cup {Fingerprint} ELSE raced
          /\ UNCHANGED <<head, tree, passing, handoff, phase, collection>>
      BY <1>3 DEF VerifyRecord
    <2>3. /\ worker' \in [Worker -> WorkerType]
          /\ \A q \in Worker : worker'[q] = worker[q]
                               \/ (worker'[q].seen = {} /\ worker'[q].step # "record")
      BY <1>0, <1>3 DEF VerifyRecord, WorkerType, AtRest
    <2> HIDE DEF w, entry
    <2>4. raced \subseteq raced' /\ raced' \subseteq Fingerprints
      BY <1>0, <2>2 DEF CompletionTypeOK
    <2>5. w.ok => Fingerprint[2] \in passing' \/ Fingerprint \in raced'
      BY <1>0, <2>1, <2>2 DEF VerifierHonest, w
    <2>6. \A e \in shared' : e \in shared \/ Sound(e.at)'
      <3>1. \A e \in w.seen : e.at[2] \in passing' \/ e.at \in raced'
        BY <1>0, <2>2, <2>4 DEF VerifierHonest, w
      <3> QED
        BY <2>1, <2>2, <2>5, <3>1 DEF Sound
    <2>7. /\ draft' \in [Worker -> DraftType]
          /\ \A q \in Worker : draft'[q].command = draft[q].command \/ SoundRecord(draft[q].command)'
      <3>1. draft'[r].command = [ok |-> w.ok, at |-> Fingerprint]
        BY <1>1, <2>1, <2>2
      <3>2. SoundRecord(draft[r].command)'
        BY <2>5, <3>1 DEF SoundRecord, Sound
      <3> QED
        BY <1>1, <2>1, <2>2, <3>2
    <2>8. /\ cache' \in [Worker -> CacheEntry \cup {Nothing}] /\ shared' \subseteq CacheEntry
          /\ \A q \in Worker \ {r} : cache'[q] = cache[q]
          /\ cache'[r] # Nothing => cache'[r] = entry /\ w.ok
      BY <1>0, <2>1, <2>2
    <2>9. cache'[r] # Nothing => Sound(cache[r].at)' /\ cache'[r].src = r
      BY <2>1, <2>5, <2>8 DEF Sound
    <2> QED
      BY <1>0, <2>1, <2>2, <2>3, <2>4, <2>6, <2>7, <2>8, <2>9, RecordsKept DEF CompletionTypeOK
  <1> QED
    BY <1>2, <1>3

(* However the runs on one checkout edit, commit, verify, reuse each       *)
(* other's cached results and overwrite the shared cache, a success on     *)
(* record was a success of the command on the tree it names, unless it was *)
(* edited under the command; and a completion collect_completion calls     *)
(* valid claims no more than its records (worker_completion.py).           *)
THEOREM CompletionsAreSafe == CompletionSpec => []CompletionSafe
  <1>1. CompletionInv /\ [CompletionNext]_completion => CompletionInv'
    <2> SUFFICES ASSUME CompletionInv, [CompletionNext]_completion PROVE CompletionInv'
      OBVIOUS
    <2>1. CASE Edit \/ Commit
      <3>1. head' \in 0..MaxTree /\ tree' \in 0..MaxTree
        BY <2>1, CompletionAssumption
        DEF Edit, Commit, CompletionInv, CompletionSafe, CompletionTypeOK, CompletionAssumption
      <3> QED
        BY <2>1, <3>1, RecordsKept DEF Edit, Commit, CompletionInv, CompletionSafe,
           CompletionTypeOK, DraftType, WorkerType
    <2>2. CASE UNCHANGED completion
      BY <2>2, RecordsKept DEF completion, CompletionInv, CompletionSafe,
         CompletionTypeOK, DraftType, WorkerType
    <2> QED
      BY <2>1, <2>2, ReportingKeepsRecords, VerifyingKeepsRecords DEF CompletionNext
  <1>2. CompletionInv => CompletionSafe
    BY DEF CompletionInv
  <1> QED
    BY CompletionInitInv, <1>1, <1>2, PTL DEF CompletionSpec

-----------------------------------------------------------------------------
(* The index.                                                              *)

(* What a run directory is, and what its fingerprint is.                   *)
LEMMA RunDirectories ==
  ASSUME IndexShape, NEW r \in IndexedRun
  PROVE  /\ rundir[r].place \in Place /\ rundir[r].version \in 1..MaxVersion
         /\ rundir[r].version \in Nat
         /\ rundir[r].sealed \in BOOLEAN /\ rundir[r].unsafe \in BOOLEAN
         /\ rows[r] # NoRow => rows[r] \in Row
         /\ \A p \in Place : TakenOf(r, p, <<>>) => TakenOf(r, p, SourceFingerprint(r, p))
         /\ <<rundir[r].version, rundir[r].unsafe>> # <<>>
  <1>1. /\ rundir[r].place \in Place /\ rundir[r].version \in 1..MaxVersion
        /\ rundir[r].sealed \in BOOLEAN /\ rundir[r].unsafe \in BOOLEAN
        /\ rows[r] # NoRow => rows[r] \in Row
    BY DEF IndexShape
  <1>2. rundir[r].version \in Nat
    BY <1>1, IndexAssumption DEF IndexAssumption
  <1>3. ASSUME NEW p \in Place, TakenOf(r, p, <<>>)
        PROVE  TakenOf(r, p, SourceFingerprint(r, p))
    <2>1. CASE rundir[r].place # p
      BY <1>3, <2>1 DEF SourceFingerprint
    <2>2. CASE rundir[r].place = p
      <3> DEFINE x == <<rundir[r].version, rundir[r].unsafe>>
      <3>1. SourceFingerprint(r, p) = x /\ x \in Prints /\ x[1] = rundir[r].version
        BY <1>1, <2>2 DEF SourceFingerprint, Prints
      <3> QED
        BY <1>2, <1>3, <3>1 DEF TakenOf
    <2> QED
      BY <2>1, <2>2
  <1> QED
    BY <1>1, <1>2, <1>3

LEMMA IndexInitInv == IndexInit => IndexInv
  <1> SUFFICES ASSUME IndexInit PROVE IndexInv
    OBVIOUS
  <1>1. 1 \in 1..MaxVersion
    BY IndexAssumption DEF IndexAssumption
  <1>2. Idle \in Pass /\ Idle.step = "idle"
    BY DEF Idle, Pass, Prints
  <1>4. IndexTypeOK /\ IndexShape
    BY <1>1, <1>2, IndexAssumption DEF IndexInit, IndexTypeOK, IndexShape, Place, IndexAssumption
  <1>3. RowsTrue /\ \A i \in Indexer : PassKnows(i)
    BY DEF IndexInit, RowsTrue, PassKnows, Idle
  <1> QED
    BY <1>3, <1>4 DEF IndexInv

(* A row that is written: of a version the directory has had, and true if  *)
(* the directory still has it.                                             *)
LEMMA RowIsTrue ==
  ASSUME IndexShape, NEW r \in IndexedRun, NEW p, NEW print, TakenOf(r, p, print)
  PROVE  LET row == RowOf(r, p, print)
         IN  /\ row \in Row /\ row.place = p /\ row.print = print
             /\ (row.state = "current" /\ p = rundir[r].place) =>
                   row.content = rundir[r].version /\ ~Raises(r, p)
  <1>1. p \in Place /\ print \in Prints /\ rundir[r].version \in 1..MaxVersion
    BY RunDirectories DEF TakenOf
  <1>2. Evidence(r, p) \in 0..MaxVersion /\ 0 \in 0..MaxVersion
    BY <1>1, IndexAssumption DEF Evidence, IndexAssumption
  <1>3. CASE Raises(r, p)
    BY <1>1, <1>2, <1>3 DEF RowOf, ErrorRow, Row
  <1>4. CASE ~Raises(r, p)
    BY <1>1, <1>2, <1>4 DEF RowOf, IndexRun, Row, Evidence
  <1> QED
    BY <1>3, <1>4

(* Only the holder of the writer lock is under way.                        *)
LEMMA OneIndexer ==
  ASSUME IndexTypeOK, NEW i \in Indexer, NEW j \in Indexer,
         indexer[i].step # "idle", indexer[j].step # "idle"
  PROVE  i = j
  BY DEF IndexTypeOK

(* A pass that is skipped over, for the rows it has to look at.            *)
LEMMA UpToDateIsRebuilt ==
  ASSUME IndexShape, RowsTrue, NEW i \in Indexer, NEW r \in IndexedRun,
         UpToDate(i, r, rundir[r].place)
  PROVE  Rebuilt(r)
  <1> DEFINE p == rundir[r].place
             x == <<rundir[r].version, rundir[r].unsafe>>
  <1>1. /\ rows[r] \in Row /\ rows[r] # NoRow /\ rows[r].state = "current" /\ rows[r].place = p
        /\ rows[r].print = x /\ SourceFingerprint(r, p) = x
    BY RunDirectories DEF UpToDate, SourceFingerprint
  <1>2. x # <<>> /\ x[1] = rundir[r].version
    BY RunDirectories
  <1>3. rows[r].content = rundir[r].version /\ ~Raises(r, p)
    BY <1>1, <1>2 DEF RowsTrue
  <1> HIDE DEF x
  <1>4. rows[r] = [state |-> "current", place |-> p, print |-> x, content |-> rundir[r].version]
    BY <1>1, <1>3 DEF Row
  <1> QED
    BY <1>1, <1>3, <1>4 DEF Rebuilt, RowOf, IndexRun, Evidence

(* A step of the one indexer that is under way.                            *)
LEMMA PassMoves ==
  ASSUME IndexInv, NEW i \in Indexer, indexer[i].step # "idle" \/ writerLock = NoRow,
         NEW me \in Pass, me.step # "idle", me.step = "read" => me.run \in IndexedRun,
         indexer' = [indexer EXCEPT ![i] = me], writerLock' = i, UNCHANGED rundir,
         rows' \in [IndexedRun -> Row \cup {NoRow}], RowsTrue', PassKnows(i)'
  PROVE  IndexInv'
  <1>1. indexer \in [Indexer -> Pass] /\ indexer'[i] = me
    BY DEF IndexInv, IndexShape
  <1>2. IndexShape'
    BY <1>1 DEF IndexInv, IndexShape
  <1>3. ASSUME NEW j \in Indexer \ {i} PROVE indexer'[j] = indexer[j] /\ indexer[j].step = "idle"
    BY <1>1, OneIndexer, IndexAssumption DEF IndexInv, IndexTypeOK, IndexAssumption
  <1>4. IndexTypeOK'
    BY <1>1, <1>3 DEF IndexInv, IndexTypeOK
  <1>5. ASSUME NEW j \in Indexer \ {i} PROVE PassKnows(j)'
    <2>1. \A d \in indexer[j].todo : TakenOf(d[1], d[2], <<>>)
      BY DEF IndexInv, PassKnows
    <2>2. \A d \in indexer'[j].todo : TakenOf(d[1], d[2], <<>>)'
      BY <1>3, <2>1 DEF TakenOf
    <2> QED
      BY <1>3, <2>2 DEF PassKnows
  <1> QED
    BY <1>2, <1>4, <1>5 DEF IndexInv

(* Nothing but the rows changes, and they only lose some.                  *)
LEMMA RowsRemoved ==
  ASSUME IndexShape, RowsTrue, UNCHANGED rundir, rows' \in [IndexedRun -> Row \cup {NoRow}],
         \A r \in IndexedRun : rows'[r] \in {rows[r], NoRow}
  PROVE  RowsTrue'
  <1> SUFFICES ASSUME NEW r \in IndexedRun, rows'[r] # NoRow
               PROVE  /\ TakenOf(r, rows[r].place, rows[r].print)'
                      /\ (/\ rows'[r].state = "current" /\ rows'[r].place = rundir'[r].place
                          /\ rows'[r].print # <<>> /\ rows'[r].print[1] = rundir'[r].version) =>
                             rows'[r].content = rundir'[r].version /\ ~Raises(r, rundir[r].place)'
    BY DEF RowsTrue
  <1>1. rows'[r] = rows[r] /\ rows[r] # NoRow
    OBVIOUS
  <1> QED
    BY <1>1 DEF RowsTrue, TakenOf, Raises

LEMMA BeginSyncKeeps ==
  ASSUME IndexInv, NEW i \in Indexer, BeginSync(i)
  PROVE  IndexInv'
  <1>1. PICK only \in SUBSET IndexedRun, archived \in BOOLEAN, force \in BOOLEAN :
           indexer' = [indexer EXCEPT ![i] = [Idle EXCEPT !.step = "discover", !.only = only,
                                                          !.archived = archived, !.force = force]]
    BY DEF BeginSync, Become
  <1> DEFINE me == [Idle EXCEPT !.step = "discover", !.only = only,
                                !.archived = archived, !.force = force]
  <1>2. me \in Pass /\ me.step = "discover" /\ me.todo = {}
    BY DEF Idle, Pass, Prints
  <1> HIDE DEF me
  <1>3. indexer'[i] = me
    BY <1>1 DEF IndexInv, IndexShape, me
  <1>4. PassKnows(i)'
    BY <1>2, <1>3 DEF PassKnows
  <1>5. /\ rows' \in [IndexedRun -> Row \cup {NoRow}] /\ UNCHANGED rundir
        /\ \A r \in IndexedRun : rows'[r] \in {rows[r], NoRow}
    BY DEF BeginSync, IndexInv, IndexShape
  <1>6. RowsTrue'
    BY <1>5, RowsRemoved DEF IndexInv
  <1> QED
    BY <1>1, <1>2, <1>4, <1>5, <1>6, PassMoves DEF BeginSync, me

LEMMA DiscoverKeeps ==
  ASSUME IndexInv, NEW i \in Indexer, Discover(i)
  PROVE  IndexInv'
  <1> DEFINE was == indexer[i]
             found == {d \in Discovered(was.archived) : d[1] \in was.only}
             me == [was EXCEPT !.step = "next", !.found = {d[1] : d \in found}, !.todo = found]
  <1>0. IndexShape /\ was \in Pass
    BY DEF IndexInv, IndexShape
  <1>1. \A d \in found : /\ d[1] \in IndexedRun /\ d[2] = rundir[d[1]].place /\ d[2] \in Place
                         /\ d \in IndexedRun \X Place
    BY <1>0, RunDirectories DEF Discovered
  <1>2. was.archived /\ was.only = IndexedRun =>
           \A r \in IndexedRun : <<r, rundir[r].place>> \in found
    BY <1>0, RunDirectories DEF Discovered, Place
  <1> DEFINE names == {d[1] : d \in found}
  <1>3. names \subseteq IndexedRun /\ found \subseteq IndexedRun \X Place
    BY <1>1
  <1>4. was.archived /\ was.only = IndexedRun => names = IndexedRun
    <2>1. \A r : <<r, rundir[r].place>> \in found => r \in names
      <3> TAKE r
      <3>1. <<r, rundir[r].place>>[1] = r
        OBVIOUS
      <3> HIDE DEF found
      <3> QED
        BY <3>1
    <2> QED
      BY <1>2, <1>3, <2>1
  <1> HIDE DEF found, names
  <1>5. me = [was EXCEPT !.step = "next", !.found = names, !.todo = found]
    BY DEF names
  <1> HIDE DEF me, was
  <1>6. /\ me \in Pass /\ me.step = "next" /\ me.found = names /\ me.todo = found
        /\ me.only = was.only /\ me.archived = was.archived
    BY <1>0, <1>3, <1>5 DEF Pass
  <1>7. indexer' = [indexer EXCEPT ![i] = me] /\ UNCHANGED <<rundir, rows, writerLock, steady>>
    BY DEF Discover, Become, found, me, was
  <1>8. indexer'[i] = me
    BY <1>0, <1>7 DEF IndexShape
  <1>9. PassKnows(i)'
    <2>1. \A d \in found : TakenOf(d[1], d[2], <<>>)'
      BY <1>1, <1>7 DEF TakenOf, Prints
    <2> QED
      BY <1>1, <1>2, <1>4, <1>6, <1>7, <1>8, <2>1 DEF PassKnows
  <1>10. RowsTrue' /\ rows' \in [IndexedRun -> Row \cup {NoRow}]
    BY <1>0, <1>7, RowsRemoved DEF IndexInv, IndexShape
  <1>11. indexer[i].step # "idle" /\ writerLock' = i
    BY <1>7 DEF Discover, InStep, IndexInv, IndexTypeOK
  <1> QED
    BY <1>6, <1>7, <1>9, <1>10, <1>11, PassMoves

LEMMA FingerprintedKeeps ==
  ASSUME IndexInv, NEW i \in Indexer, Fingerprinted(i)
  PROVE  IndexInv'
  <1> DEFINE was == indexer[i]
  <1>0. IndexShape /\ RowsTrue /\ was \in Pass /\ PassKnows(i) /\ was.step = "next"
    BY DEF IndexInv, IndexShape, Fingerprinted, InStep
  <1>1. PICK d \in was.todo :
          Become(i, IF UpToDate(i, d[1], d[2]) THEN [was EXCEPT !.todo = @ \ {d}]
                    ELSE [was EXCEPT !.todo = @ \ {d}, !.step = "read", !.run = d[1],
                                     !.place = d[2], !.print = SourceFingerprint(d[1], d[2])])
    BY DEF Fingerprinted
  <1>2. UNCHANGED <<rundir, rows, writerLock, steady>>
    BY DEF Fingerprinted
  <1>3. /\ was.todo \subseteq IndexedRun \X Place /\ d[1] \in IndexedRun /\ d[2] \in Place
        /\ d = <<d[1], d[2]>>
    BY <1>0 DEF Pass
  <1>4. TakenOf(d[1], d[2], <<>>) /\ TakenOf(d[1], d[2], SourceFingerprint(d[1], d[2]))
    BY <1>0, <1>3, RunDirectories DEF PassKnows
  <1>5. RowsTrue' /\ rows' \in [IndexedRun -> Row \cup {NoRow}]
    BY <1>0, <1>2, RowsRemoved DEF IndexShape
  <1>6. indexer[i].step # "idle" /\ writerLock' = i
    BY <1>0, <1>2 DEF IndexInv, IndexTypeOK
  <1>7. /\ \A e \in was.todo : TakenOf(e[1], e[2], <<>>)'
        /\ TakenOf(d[1], d[2], SourceFingerprint(d[1], d[2]))'
    BY <1>0, <1>2, <1>4 DEF PassKnows, TakenOf, SourceFingerprint
  <1>8. \A r : Rebuilt(r) => Rebuilt(r)'
    BY <1>2 DEF Rebuilt, RowOf, Raises, ErrorRow, IndexRun, Evidence, SourceFingerprint
  <1> DEFINE All == steady /\ was.only = IndexedRun /\ was.archived
  <1>9. All => /\ was.found = IndexedRun
               /\ \A e \in was.todo : e[2] = rundir[e[1]].place
               /\ \A r \in IndexedRun : Rebuilt(r) \/ <<r, rundir[r].place>> \in was.todo
    BY <1>0 DEF PassKnows
  <1>10. CASE UpToDate(i, d[1], d[2])
    <2> DEFINE me == [was EXCEPT !.todo = @ \ {d}]
    <2>1. /\ me \in Pass /\ me.step = "next" /\ me.todo = was.todo \ {d} /\ me.only = was.only
          /\ me.archived = was.archived /\ me.found = was.found
      BY <1>0 DEF Pass
    <2>2. indexer' = [indexer EXCEPT ![i] = me]
      BY <1>1, <1>10 DEF Become
    <2> HIDE DEF me
    <2>3. indexer'[i] = me
      BY <1>0, <2>2 DEF IndexShape
    <2>4. All => Rebuilt(d[1])
      BY <1>0, <1>3, <1>9, <1>10, UpToDateIsRebuilt
    <2>5. All => \A r \in IndexedRun : Rebuilt(r) \/ <<r, rundir[r].place>> \in me.todo
      BY <1>3, <1>9, <2>1, <2>4
    <2>6. PassKnows(i)'
      BY <1>2, <1>7, <1>8, <1>9, <2>1, <2>3, <2>5 DEF PassKnows
    <2> QED
      BY <1>2, <1>5, <1>6, <2>1, <2>2, <2>6, PassMoves
  <1>11. CASE ~UpToDate(i, d[1], d[2])
    <2> DEFINE x == SourceFingerprint(d[1], d[2])
               me == [was EXCEPT !.todo = @ \ {d}, !.step = "read", !.run = d[1],
                                 !.place = d[2], !.print = x]
    <2>0. x \in Prints /\ x' = x
      BY <1>2, <1>4 DEF TakenOf, SourceFingerprint
    <2>1. indexer' = [indexer EXCEPT ![i] = me]
      BY <1>1, <1>11 DEF Become
    <2> HIDE DEF x
    <2>2. /\ me \in Pass /\ me.step = "read" /\ me.todo = was.todo \ {d} /\ me.only = was.only
          /\ me.archived = was.archived /\ me.found = was.found /\ me.run = d[1]
          /\ me.place = d[2] /\ me.print = x
      BY <1>0, <1>3, <2>0 DEF Pass
    <2> HIDE DEF me
    <2>3. indexer'[i] = me
      BY <1>0, <2>1 DEF IndexShape
    <2>4. All => /\ d[2] = rundir[d[1]].place
                 /\ \A r \in IndexedRun :
                       Rebuilt(r) \/ <<r, rundir[r].place>> \in me.todo \/ r = d[1]
      BY <1>3, <1>9, <2>2
    <2>5. PassKnows(i)'
      <3>1. TakenOf(indexer[i].run, indexer[i].place, indexer[i].print)'
        BY <1>7, <2>0, <2>2, <2>3 DEF x
      <3>2. SourceFingerprint(indexer[i].run, indexer[i].place)' = x
        BY <2>0, <2>2, <2>3 DEF x
      <3> QED
        BY <1>2, <1>7, <1>8, <1>9, <2>2, <2>3, <2>4, <3>1, <3>2 DEF PassKnows
    <2> QED
      BY <1>2, <1>3, <1>5, <1>6, <2>1, <2>2, <2>5, PassMoves
  <1> QED
    BY <1>10, <1>11

LEMMA IndexOneKeeps ==
  ASSUME IndexInv, NEW i \in Indexer, IndexOne(i)
  PROVE  IndexInv'
  <1> DEFINE was == indexer[i]
             me == [was EXCEPT !.step = "next", !.run = NoRow, !.place = NoRow, !.print = <<>>]
             row == RowOf(was.run, was.place, was.print)
  <1>0. IndexShape /\ RowsTrue /\ was \in Pass /\ PassKnows(i) /\ was.step = "read"
        /\ was.run \in IndexedRun
    BY DEF IndexInv, IndexShape, IndexOne, InStep
  <1>1. /\ rows' = [rows EXCEPT ![was.run] = row] /\ indexer' = [indexer EXCEPT ![i] = me]
        /\ UNCHANGED <<rundir, writerLock, steady>>
    BY DEF IndexOne, Become
  <1>2. /\ me \in Pass /\ me.step = "next" /\ me.todo = was.todo /\ me.only = was.only
        /\ me.archived = was.archived /\ me.found = was.found
    BY <1>0 DEF Pass, Prints
  <1>3. TakenOf(was.run, was.place, was.print)
    BY <1>0 DEF PassKnows
  <1>4. /\ row \in Row /\ row.place = was.place /\ row.print = was.print
        /\ (row.state = "current" /\ was.place = rundir[was.run].place) =>
              row.content = rundir[was.run].version /\ ~Raises(was.run, was.place)
    BY <1>0, <1>3, RowIsTrue
  <1> DEFINE r0 == was.run
  <1> HIDE DEF row, me
  <1>5. /\ rows' \in [IndexedRun -> Row \cup {NoRow}] /\ rows'[r0] = row
        /\ \A r \in IndexedRun \ {r0} : rows'[r] = rows[r]
    BY <1>0, <1>1, <1>4 DEF IndexShape
  <1>6. RowsTrue'
    <2> SUFFICES ASSUME NEW r \in IndexedRun, rows'[r] # NoRow
                 PROVE  /\ TakenOf(r, rows[r].place, rows[r].print)'
                        /\ (/\ rows'[r].state = "current" /\ rows'[r].place = rundir'[r].place
                            /\ rows'[r].print # <<>> /\ rows'[r].print[1] = rundir'[r].version) =>
                               rows'[r].content = rundir'[r].version /\ ~Raises(r, rundir[r].place)'
      BY DEF RowsTrue
    <2>1. CASE r # r0
      BY <1>0, <1>1, <1>5, <2>1 DEF RowsTrue, TakenOf, Raises
    <2>2. CASE r = r0
      <3>1. rows'[r] = row /\ rundir' = rundir
        BY <1>1, <1>5, <2>2
      <3>2. TakenOf(r, rows[r].place, rows[r].print)'
        BY <1>3, <1>4, <2>2, <3>1 DEF TakenOf
      <3>3. ASSUME row.state = "current", row.place = rundir[r].place
            PROVE  row.content = rundir[r].version /\ ~Raises(r, rundir[r].place)
        BY <1>4, <2>2, <3>3
      <3> QED
        BY <3>1, <3>2, <3>3 DEF Raises
    <2> QED
      BY <2>1, <2>2
  <1>7. indexer'[i] = me
    BY <1>0, <1>1 DEF IndexShape
  <1>8. PassKnows(i)'
    <2>1. \A e \in was.todo : TakenOf(e[1], e[2], <<>>)'
      BY <1>0, <1>1 DEF PassKnows, TakenOf
    <2> DEFINE All == steady /\ was.only = IndexedRun /\ was.archived
    <2>2. All => /\ was.found = IndexedRun
                 /\ \A e \in was.todo : e[2] = rundir[e[1]].place
                 /\ was.place = rundir[r0].place
                 /\ was.print = SourceFingerprint(r0, was.place)
                 /\ \A r \in IndexedRun :
                       Rebuilt(r) \/ <<r, rundir[r].place>> \in was.todo \/ r = r0
      BY <1>0 DEF PassKnows
    <2>3. \A r \in IndexedRun \ {r0} : Rebuilt(r) => Rebuilt(r)'
      BY <1>1, <1>5 DEF Rebuilt, RowOf, Raises, ErrorRow, IndexRun, Evidence, SourceFingerprint
    <2>4. All => rows'[r0] = RowOf(r0, rundir[r0].place, SourceFingerprint(r0, rundir[r0].place))
      BY <1>5, <2>2 DEF row
    <2>5. All => \A r \in IndexedRun : Rebuilt(r)' \/ <<r, rundir[r].place>> \in was.todo
      <3>1. ASSUME All, NEW r \in IndexedRun, r = r0 PROVE Rebuilt(r)'
        BY <1>1, <2>4, <3>1
        DEF Rebuilt, RowOf, Raises, ErrorRow, IndexRun, Evidence, SourceFingerprint
      <3> QED
        BY <2>2, <2>3, <3>1
    <2> QED
      BY <1>1, <1>2, <1>7, <2>1, <2>2, <2>5 DEF PassKnows
  <1>9. indexer[i].step # "idle" /\ writerLock' = i
    BY <1>0, <1>1 DEF IndexInv, IndexTypeOK
  <1> QED
    BY <1>1, <1>2, <1>5, <1>6, <1>8, <1>9, PassMoves

LEMMA PruneStaleKeeps ==
  ASSUME IndexInv, NEW i \in Indexer, PruneStale(i)
  PROVE  IndexInv'
  <1> DEFINE was == indexer[i]
             me == [was EXCEPT !.step = "done"]
  <1>0. IndexShape /\ RowsTrue /\ was \in Pass /\ PassKnows(i) /\ was.step = "next" /\ was.todo = {}
    BY DEF IndexInv, IndexShape, PruneStale, InStep
  <1>1. /\ rows' = [r \in IndexedRun |->
                      IF was.only = IndexedRun /\ r \notin was.found THEN NoRow ELSE rows[r]]
        /\ indexer' = [indexer EXCEPT ![i] = me]
        /\ UNCHANGED <<rundir, writerLock, steady>>
    BY DEF PruneStale, Become
  <1>2. /\ me \in Pass /\ me.step = "done" /\ me.todo = {} /\ me.only = was.only
        /\ me.archived = was.archived /\ me.found = was.found
    BY <1>0 DEF Pass
  <1> HIDE DEF me
  <1>3. /\ rows' \in [IndexedRun -> Row \cup {NoRow}]
        /\ \A r \in IndexedRun : rows'[r] \in {rows[r], NoRow}
    BY <1>0, <1>1 DEF IndexShape
  <1>4. RowsTrue'
    BY <1>0, <1>1, <1>3, RowsRemoved
  <1>5. indexer'[i] = me
    BY <1>0, <1>1 DEF IndexShape
  <1>6. PassKnows(i)'
    <2> DEFINE All == steady /\ was.only = IndexedRun /\ was.archived
    <2>1. All => was.found = IndexedRun /\ \A r \in IndexedRun : Rebuilt(r)
      BY <1>0 DEF PassKnows
    <2>2. All => \A r \in IndexedRun : Rebuilt(r)'
      BY <1>1, <2>1 DEF Rebuilt, RowOf, Raises, ErrorRow, IndexRun, Evidence, SourceFingerprint
    <2> QED
      BY <1>1, <1>2, <1>5, <2>1, <2>2 DEF PassKnows
  <1>7. indexer[i].step # "idle" /\ writerLock' = i
    BY <1>0, <1>1 DEF IndexInv, IndexTypeOK
  <1> QED
    BY <1>1, <1>2, <1>3, <1>4, <1>6, <1>7, PassMoves

(* A pass that ends or is killed, and a database that is removed.          *)
LEMMA EndKeeps ==
  ASSUME IndexInv, RemoveDatabase \/ \E i \in Indexer : EndSync(i) \/ KillIndexer(i)
  PROVE  IndexInv'
  <1>0. Idle \in Pass /\ Idle.step = "idle" /\ Idle.todo = {}
    BY DEF Idle, Pass, Prints
  <1>1. IndexShape /\ RowsTrue /\ IndexTypeOK /\ \A i \in Indexer : PassKnows(i)
    BY DEF IndexInv
  <1>2. /\ UNCHANGED rundir /\ rows' \in [IndexedRun -> Row \cup {NoRow}]
        /\ \A r \in IndexedRun : rows'[r] \in {rows[r], NoRow}
        /\ writerLock' = NoRow
    BY <1>1 DEF RemoveDatabase, EndSync, KillIndexer, IndexShape
  <1>3. RowsTrue'
    BY <1>1, <1>2, RowsRemoved
  <1>4. /\ indexer' \in [Indexer -> Pass]
        /\ \A j \in Indexer : indexer'[j].step = "idle" /\ indexer'[j].todo \subseteq indexer[j].todo
    <2>1. CASE RemoveDatabase
      <3>1. \A j \in Indexer : indexer[j].step = "idle"
        BY <1>1, <2>1, IndexAssumption DEF RemoveDatabase, IndexTypeOK, IndexAssumption
      <3> QED
        BY <1>1, <2>1, <3>1 DEF RemoveDatabase, IndexShape
    <2>2. ASSUME NEW i \in Indexer, EndSync(i) \/ KillIndexer(i)
          PROVE  /\ indexer' \in [Indexer -> Pass]
                 /\ \A j \in Indexer : indexer'[j].step = "idle"
                                       /\ indexer'[j].todo \subseteq indexer[j].todo
      <3>1. indexer[i].step # "idle" /\ indexer' = [indexer EXCEPT ![i] = Idle]
        BY <2>2 DEF EndSync, KillIndexer, InStep, Become
      <3>2. \A j \in Indexer \ {i} : indexer[j].step = "idle"
        BY <1>1, <3>1, OneIndexer
      <3> QED
        BY <1>0, <1>1, <3>1, <3>2 DEF IndexShape
    <2> QED
      BY <2>1, <2>2
  <1>5. IndexShape'
    BY <1>1, <1>2, <1>4 DEF IndexShape
  <1>6. IndexTypeOK'
    BY <1>1, <1>2, <1>4, IndexAssumption DEF IndexTypeOK, IndexAssumption
  <1>7. ASSUME NEW j \in Indexer PROVE PassKnows(j)'
    <2>1. \A d \in indexer'[j].todo : TakenOf(d[1], d[2], <<>>)'
      BY <1>1, <1>2, <1>4 DEF PassKnows, TakenOf
    <2> QED
      BY <1>4, <2>1 DEF PassKnows
  <1> QED
    BY <1>3, <1>5, <1>6, <1>7 DEF IndexInv

(* A write makes every fingerprint of the run an old one, and a move makes *)
(* every row of the run one of another place.                              *)
LEMMA EvidenceMoves ==
  ASSUME IndexInv, NEW r0 \in IndexedRun, WriteEvidence(r0) \/ MoveRun(r0)
  PROVE  IndexInv'
  <1>1. IndexShape /\ RowsTrue /\ IndexTypeOK /\ \A i \in Indexer : PassKnows(i)
    BY DEF IndexInv
  <1>2. /\ steady' = FALSE /\ UNCHANGED <<rows, writerLock, indexer>>
        /\ rundir[r0].place = "active"
    BY DEF WriteEvidence, MoveRun, Touch
  <1> DEFINE Dir == [place : Place, version : 1..MaxVersion, sealed : BOOLEAN, unsafe : BOOLEAN]
  <1>3. rundir \in [IndexedRun -> Dir] /\ rundir[r0] \in Dir /\ rundir[r0].version \in Nat
    BY <1>1, RunDirectories DEF IndexShape
  <1>4. PICK d \in Dir : /\ rundir' = [rundir EXCEPT ![r0] = d]
                         /\ d.version >= rundir[r0].version
                         /\ d.version > rundir[r0].version \/ d.place = "archive"
    <2>1. CASE WriteEvidence(r0)
      <3> DEFINE v == rundir[r0].version
      <3>1. v + 1 \in 1..MaxVersion /\ v \in Nat
        BY <1>3, <2>1, IndexAssumption DEF WriteEvidence, IndexAssumption
      <3> DEFINE d1 == [rundir[r0] EXCEPT !.version = v + 1]
                 d2 == [rundir[r0] EXCEPT !.version = v + 1, !.unsafe = ~rundir[r0].unsafe]
                 d3 == [rundir[r0] EXCEPT !.version = v + 1, !.sealed = TRUE]
      <3>2. \E d \in {d1, d2, d3} : rundir' = [rundir EXCEPT ![r0] = d]
        BY <2>1 DEF WriteEvidence, Touch
      <3>3. \A d \in {d1, d2, d3} : d \in Dir /\ d.version = v + 1
        BY <1>3, <3>1
      <3> HIDE DEF d1, d2, d3, Dir
      <3>4. v + 1 >= v /\ v + 1 > v
        BY <3>1
      <3> QED
        BY <3>2, <3>3, <3>4
    <2>2. CASE MoveRun(r0)
      <3> DEFINE d == [rundir[r0] EXCEPT !.place = "archive"]
      <3>1. d \in Dir /\ d.version = rundir[r0].version /\ d.place = "archive"
        BY <1>3 DEF Place
      <3>2. rundir' = [rundir EXCEPT ![r0] = d]
        BY <2>2 DEF MoveRun, Touch
      <3>3. d.version >= rundir[r0].version
        BY <1>3, <3>1
      <3> HIDE DEF d, Dir
      <3> QED
        BY <3>1, <3>2, <3>3
    <2> QED
      BY <2>1, <2>2
  <1>5. /\ rundir' \in [IndexedRun -> Dir] /\ rundir'[r0] = d
        /\ \A r \in IndexedRun \ {r0} : rundir'[r] = rundir[r]
    BY <1>3, <1>4
  <1>6. d.version \in Nat /\ d.version \in 1..MaxVersion
    BY IndexAssumption DEF IndexAssumption
  <1>7. IndexShape' /\ IndexTypeOK'
    BY <1>1, <1>2, <1>5 DEF IndexShape, IndexTypeOK
  <1>8. \A r \in IndexedRun : \A p, x : TakenOf(r, p, x) => TakenOf(r, p, x)'
    <2> SUFFICES ASSUME NEW r \in IndexedRun, NEW p, NEW x, TakenOf(r, p, x)
                 PROVE  TakenOf(r, p, x)'
      OBVIOUS
    <2>1. x # <<>> => x[1] \in Nat /\ x[1] <= rundir[r].version
      BY IndexAssumption DEF TakenOf, Prints, IndexAssumption
    <2>2. CASE r = r0
      <3>1. p # "archive"
        BY <1>2, <2>2 DEF TakenOf
      <3>2. x # <<>> => x[1] <= d.version
        BY <1>3, <1>4, <1>6, <2>1, <2>2
      <3> QED
        BY <1>5, <2>2, <3>1, <3>2 DEF TakenOf
    <2>3. CASE r # r0
      BY <1>5, <2>3 DEF TakenOf
    <2> QED
      BY <2>2, <2>3
  <1>9. RowsTrue'
    <2> SUFFICES ASSUME NEW r \in IndexedRun, rows[r] # NoRow
                 PROVE  /\ TakenOf(r, rows[r].place, rows[r].print)'
                        /\ (/\ rows[r].state = "current" /\ rows[r].place = rundir'[r].place
                            /\ rows[r].print # <<>> /\ rows[r].print[1] = rundir'[r].version) =>
                               rows[r].content = rundir'[r].version /\ ~Raises(r, rundir[r].place)'
      BY <1>2 DEF RowsTrue
    <2>1. TakenOf(r, rows[r].place, rows[r].print)
      BY <1>1 DEF RowsTrue
    <2>2. TakenOf(r, rows[r].place, rows[r].print)'
      <3>1. \A p, x : TakenOf(r, p, x) => TakenOf(r, p, x)'
        BY <1>8
      <3> QED
        BY <1>2, <2>1, <3>1 DEF TakenOf
    <2>3. CASE r = r0
      <3>1. rows[r].place # "archive"
        BY <1>2, <2>1, <2>3 DEF TakenOf
      <3>2. rows[r].print # <<>> => rows[r].print[1] <= rundir[r].version /\ rows[r].print[1] \in Nat
        BY <2>1, IndexAssumption DEF TakenOf, Prints, IndexAssumption
      <3>3. ~(rows[r].place = d.place /\ rows[r].print # <<>> /\ rows[r].print[1] = d.version)
        BY <1>3, <1>4, <1>6, <2>3, <3>1, <3>2
      <3> QED
        BY <1>5, <2>2, <2>3, <3>3
    <2>4. CASE r # r0
      BY <1>1, <1>5, <2>2, <2>4 DEF RowsTrue, Raises
    <2> QED
      BY <2>3, <2>4
  <1>10. ASSUME NEW i \in Indexer PROVE PassKnows(i)'
    <2>1. /\ indexer[i].step = "read" =>
               /\ TakenOf(indexer[i].run, indexer[i].place, indexer[i].print)
               /\ indexer[i].run \in IndexedRun
          /\ \A e \in indexer[i].todo : TakenOf(e[1], e[2], <<>>) /\ e[1] \in IndexedRun
      BY <1>1 DEF PassKnows, IndexShape, Pass
    <2>2. /\ indexer[i].step = "read" =>
               TakenOf(indexer[i].run, indexer[i].place, indexer[i].print)'
          /\ \A e \in indexer[i].todo : TakenOf(e[1], e[2], <<>>)'
      <3>1. \A e \in indexer[i].todo : TakenOf(e[1], e[2], <<>>)'
        BY <1>8, <2>1
      <3>2. ASSUME NEW r \in IndexedRun, NEW p, NEW x, TakenOf(r, p, x),
                   r = indexer[i].run, p = indexer[i].place, x = indexer[i].print
            PROVE  TakenOf(indexer[i].run, indexer[i].place, indexer[i].print)'
        BY <1>2, <1>8, <3>2 DEF TakenOf
      <3> QED
        BY <2>1, <3>1, <3>2
    <2> QED
      BY <1>2, <2>2 DEF PassKnows
  <1> QED
    BY <1>7, <1>9, <1>10 DEF IndexInv

(* sync_index and rebuild_index read run directories nobody holds still,   *)
(* and may be killed.  An index that index_status calls current            *)
(* nevertheless holds what every directory holds, and a pass over          *)
(* everything that nobody wrote under leaves what a rebuild leaves, for    *)
(* any number of runs, indexers and writes (index_store.py).               *)
THEOREM IndexIsSafe == IndexSpec => []IndexSafe
  <1>1. IndexInv /\ [IndexNext]_index => IndexInv'
    <2> SUFFICES ASSUME IndexInv, [IndexNext]_index PROVE IndexInv'
      OBVIOUS
    <2>1. CASE UNCHANGED index
      <3>1. IndexTypeOK' /\ IndexShape' /\ RowsTrue'
        BY <2>1 DEF index, IndexInv, IndexTypeOK, IndexShape, RowsTrue, TakenOf, Raises
      <3>2. \A i \in Indexer : PassKnows(i)'
        BY <2>1 DEF index, IndexInv, PassKnows, TakenOf, Rebuilt, RowOf, Raises, ErrorRow, IndexRun,
                    Evidence, SourceFingerprint
      <3> QED
        BY <3>1, <3>2 DEF IndexInv
    <2> QED
      BY <2>1, BeginSyncKeeps, DiscoverKeeps, FingerprintedKeeps, IndexOneKeeps, PruneStaleKeeps,
         EndKeeps, EvidenceMoves DEF IndexNext
  <1>2. IndexInv => IndexSafe
    <2> SUFFICES ASSUME IndexInv PROVE IndexSafe
      OBVIOUS
    <2>1. CurrentMeansCurrent
      <3> SUFFICES ASSUME Freshness = "current", NEW r \in IndexedRun
                   PROVE  rows[r].content = rundir[r].version
        BY DEF CurrentMeansCurrent
      <3>1. /\ rows[r] # NoRow /\ rows[r].state = "current" /\ rows[r].place = rundir[r].place
            /\ rows[r].print = SourceFingerprint(r, rundir[r].place)
        BY DEF Freshness
      <3>2. rows[r].print = <<rundir[r].version, rundir[r].unsafe>>
        BY <3>1 DEF SourceFingerprint
      <3>3. rows[r].print # <<>> /\ rows[r].print[1] = rundir[r].version
        BY <3>2
      <3> QED
        BY <3>1, <3>3 DEF IndexInv, RowsTrue
    <2>2. SyncEqualsRebuild
      BY DEF IndexInv, PassKnows, SyncEqualsRebuild, InStep, Rebuilt
    <2> QED
      BY <2>1, <2>2 DEF IndexInv, IndexSafe
  <1> QED
    BY IndexInitInv, <1>1, <1>2, PTL DEF IndexSpec

-----------------------------------------------------------------------------
(* What the source messages are: a child and a place in its script.        *)
LEMMA SourceMessageFacts ==
  /\ \A m \in SourceMessage : m.child \in Child /\ m.n \in 1..Len(Script[m.child])
                              /\ m = Msg(m.child, m.n)
  /\ \A c \in Child : \A n \in 1..Len(Script[c]) :
        Msg(c, n) \in SourceMessage /\ Msg(c, n).child = c /\ Msg(c, n).n = n
  <1>1. \A c \in Child : DOMAIN Script[c] = 1..Len(Script[c]) /\ Len(Script[c]) \in Nat
    BY InboxAssumption
  <1>2. ASSUME NEW m \in SourceMessage
        PROVE  m.child \in Child /\ m.n \in 1..Len(Script[m.child]) /\ m = Msg(m.child, m.n)
    <2>1. PICK c \in Child : m \in [child : {c}, n : DOMAIN Script[c]]
      BY DEF SourceMessage
    <2> QED
      BY <1>1, <2>1 DEF Msg
  <1>3. ASSUME NEW c \in Child, NEW n \in 1..Len(Script[c])
        PROVE  Msg(c, n) \in SourceMessage /\ Msg(c, n).child = c /\ Msg(c, n).n = n
    BY <1>1, <1>3 DEF SourceMessage, Msg
  <1> QED
    BY <1>2, <1>3

(* Journals and inbox only grow: what was imported stays so.               *)
LEMMA InboxGrows ==
  ASSUME SourcesOK, NEW c \in Child, NEW n \in Nat, n <= Len(source[c]), ImportedTo(c, n),
         \A k \in 1..Len(source[c]) : source'[c][k] = source[c][k],
         \A k \in Nat : Imported(c, k) => Imported(c, k)'
  PROVE  ImportedTo(c, n)'
  <1>1. Len(source[c]) \in Nat
    BY DEF SourcesOK
  <1> QED
    BY <1>1 DEF ImportedTo

(* import_message: a message all of whose predecessors are in the inbox is *)
(* added after them, or is there already.                                  *)
LEMMA ImportKeeps ==
  ASSUME InboxInv, NEW c \in Child, NEW n \in 1..Len(source[c]), ImportedTo(c, n - 1),
         source[c][n] \in EventKind, inbox' = WithMessage(c, n), UNCHANGED source
  PROVE  /\ inbox' \in Seq(SourceMessage) /\ InboxOnceInOrder' /\ NoGaps'
         /\ \A d \in Child, k \in Nat : Imported(d, k) => Imported(d, k)'
         /\ ImportedTo(c, n)'
  <1>1. /\ source \in [Child -> Seq(Kind)] /\ n \in 1..Len(Script[c]) /\ n \in Nat
        /\ inbox \in Seq(SourceMessage) /\ Len(source[c]) \in Nat
    BY InboxAssumption DEF InboxInv, InboxSafe, InboxTypeOK, SourcesOK
  <1>2. CASE Imported(c, n)
    <2>1. UNCHANGED inbox
      BY <1>2 DEF WithMessage
    <2>2. ImportedTo(c, n)
      BY <1>1, <1>2 DEF ImportedTo
    <2> QED
      BY <1>1, <2>1, <2>2 DEF InboxInv, InboxSafe, InboxOnceInOrder, NoGaps, ImportedTo, Imported
  <1>3. CASE ~Imported(c, n)
    <2> DEFINE m == Msg(c, n)
    <2>1. inbox' = Append(inbox, m) /\ m \in SourceMessage /\ m.child = c /\ m.n = n
      BY <1>1, <1>3, SourceMessageFacts DEF WithMessage
    <2>2. /\ inbox' \in Seq(SourceMessage) /\ Len(inbox') = Len(inbox) + 1
          /\ Len(inbox) \in Nat /\ inbox'[Len(inbox) + 1] = m
          /\ \A i \in 1..Len(inbox) : inbox'[i] = inbox[i]
      <3> HIDE DEF m
      <3> QED
        BY <1>1, <2>1
    <2>3. \A d \in Child, k \in Nat : Imported(d, k) => Imported(d, k)'
      BY <2>2 DEF Imported, Contains
    <2>4. Imported(c, n)'
      BY <2>2 DEF Imported, Contains
    <2>5. ImportedTo(c, n)'
      BY <1>1, <2>3, <2>4 DEF ImportedTo
    <2>6. \A i \in 1..Len(inbox) : /\ inbox[i].child \in Child /\ inbox[i].n \in Nat
                                   /\ inbox[i].n <= Len(source[inbox[i].child])
                                   /\ ImportedTo(inbox[i].child, inbox[i].n)
                                   /\ inbox[i] = Msg(inbox[i].child, inbox[i].n)
      <3>1. ASSUME NEW i \in 1..Len(inbox)
            PROVE  inbox[i] \in SourceMessage
        BY <1>1
      <3>2. ASSUME NEW i \in 1..Len(inbox)
            PROVE  inbox[i].child \in Child /\ inbox[i].n \in 1..Len(Script[inbox[i].child])
                   /\ Len(Script[inbox[i].child]) \in Nat
                   /\ inbox[i] = Msg(inbox[i].child, inbox[i].n)
        <4>1. inbox[i].child \in Child /\ inbox[i].n \in 1..Len(Script[inbox[i].child])
              /\ inbox[i] = Msg(inbox[i].child, inbox[i].n)
          BY <3>1, <3>2, SourceMessageFacts
        <4> QED
          BY <4>1, InboxAssumption
      <3> QED
        BY <3>2 DEF InboxInv, NoGaps
    <2>7. \A i \in 1..Len(inbox) : inbox[i].child = c => inbox[i].n < n
      <3> SUFFICES ASSUME NEW i \in 1..Len(inbox), inbox[i].child = c
                   PROVE  inbox[i].n < n
        OBVIOUS
      <3>1. inbox[i].n >= n => Imported(c, n)
        BY <1>1, <2>6 DEF ImportedTo
      <3> QED
        BY <1>1, <1>3, <2>6, <3>1
    <2>8. InboxOnceInOrder'
      <3> SUFFICES ASSUME NEW i \in 1..(Len(inbox) + 1), NEW j \in 1..(Len(inbox) + 1), i < j,
                          inbox'[i].child = inbox'[j].child
                   PROVE  inbox'[i].n < inbox'[j].n
        BY <2>2 DEF InboxOnceInOrder
      <3>1. CASE j = Len(inbox) + 1
        BY <2>1, <2>2, <2>7, <3>1
      <3>2. CASE j # Len(inbox) + 1
        <4>1. i \in 1..Len(inbox) /\ j \in 1..Len(inbox)
          BY <2>2, <3>2
        <4>2. inbox'[i] = inbox[i] /\ inbox'[j] = inbox[j]
          BY <2>2, <4>1
        <4> QED
          BY <4>1, <4>2 DEF InboxInv, InboxSafe, InboxOnceInOrder
      <3> QED
        BY <3>1, <3>2
    <2>9. NoGaps'
      <3> SUFFICES ASSUME NEW i \in 1..(Len(inbox) + 1)
                   PROVE  (/\ inbox[i].n <= Len(source[inbox[i].child])
                           /\ ImportedTo(inbox[i].child, inbox[i].n))'
        BY <2>2 DEF NoGaps
      <3>1. CASE i = Len(inbox) + 1
        BY <1>1, <2>1, <2>2, <2>5, <3>1 DEF ImportedTo
      <3>2. CASE i # Len(inbox) + 1
        <4>1. i \in 1..Len(inbox) /\ inbox'[i] = inbox[i]
          BY <2>2, <3>2
        <4>2. PICK d \in Child, k \in Nat : /\ inbox[i].child = d /\ inbox[i].n = k
                                             /\ k <= Len(source[d]) /\ ImportedTo(d, k)
          BY <2>6, <4>1
        <4>3. ImportedTo(d, k)'
          BY <2>3, <4>2 DEF ImportedTo
        <4> QED
          BY <4>1, <4>2, <4>3 DEF ImportedTo
      <3> QED
        BY <3>1, <3>2
    <2> QED
      BY <2>2, <2>3, <2>5, <2>8, <2>9
  <1> QED
    BY <1>2, <1>3

(* What others do leaves an import and a replay as they are.               *)
LEMMA ReadersKept ==
  ASSUME InboxInv, SourcesOK',
         \A c \in Child : /\ Len(source[c]) <= Len(source'[c])
                          /\ \A k \in 1..Len(source[c]) : source'[c][k] = source[c][k],
         \A c \in Child, k \in Nat : Imported(c, k) => Imported(c, k)'
  PROVE  /\ \A c \in Child, n \in Nat :
               (n <= Len(source[c]) /\ ImportedTo(c, n)) => ImportedTo(c, n)'
         /\ UNCHANGED importing => ImportOK'
         /\ UNCHANGED <<watch, cursor>> => ReplayOK'
  <1>1. \A c \in Child : Len(source[c]) \in Nat /\ Len(source'[c]) \in Nat
    BY DEF InboxInv, SourcesOK
  <1>2. \A c \in Child, n \in Nat :
            (n <= Len(source[c]) /\ ImportedTo(c, n)) => ImportedTo(c, n)'
    BY <1>1, InboxGrows DEF InboxInv
  <1>3. ASSUME UNCHANGED importing, importing \notin {NoImport, Over}
        PROVE  ImportOK'
    <2>1. PICK c \in Child, n \in Nat :
              /\ importing.child = c /\ importing.next - 1 = n /\ n <= Len(source[c])
              /\ ImportedTo(c, n) /\ importing.upto \in Nat /\ importing.upto <= Len(source[c])
      <3>1. ImportOK /\ importing.child \in Child
        BY <1>3 DEF InboxInv, ImportOK
      <3> QED
        BY <1>1, <1>3, <3>1 DEF ImportOK
    <2>2. ImportedTo(c, n)' /\ importing.upto <= Len(source'[c])
      BY <1>1, <1>2, <2>1
    <2> QED
      BY <1>3, <2>1, <2>2 DEF InboxInv, ImportOK
  <1>4. UNCHANGED importing => ImportOK'
    BY <1>3 DEF ImportOK
  <1>5. ASSUME UNCHANGED <<watch, cursor>> PROVE ReplayOK'
    <2>1. \A c \in Child : cursor[c] \in Nat
      BY DEF InboxInv, InboxSafe, InboxTypeOK
    <2>2. ASSUME watch.step = "cursor"
          PROVE  \E c \in Child : /\ watch.children[watch.last] = c
                                  /\ cursor[c] < watch.upto[c] /\ ImportedTo(c, cursor[c] + 1)'
      <3>1. PICK c \in Child : /\ watch.children[watch.last] = c
                               /\ cursor[c] < watch.upto[c] /\ ImportedTo(c, cursor[c] + 1)
        BY <2>2 DEF InboxInv, ReplayOK
      <3>2. PICK n \in Nat : n = cursor[c] + 1 /\ n <= Len(source[c])
        BY <1>1, <2>1, <2>2, <3>1 DEF InboxInv, ReplayOK
      <3>3. ImportedTo(c, n)'
        BY <1>2, <3>1, <3>2
      <3> QED
        BY <1>5, <3>1, <3>2, <3>3 DEF ImportedTo
    <2>3. watch.step \in {"serve", "cursor"} => \A c \in Child : watch.upto[c] <= Len(source'[c])
      BY <1>1 DEF InboxInv, ReplayOK
    <2> QED
      BY <1>5, <2>2, <2>3 DEF InboxInv, ReplayOK
  <1> QED
    BY <1>2, <1>4, <1>5

(* Steps that change neither journal nor inbox nor cursor.                 *)
LEMMA InboxFilesKept ==
  ASSUME InboxInv, UNCHANGED <<source, inbox, cursor>>,
         sealed' \in [Child -> BOOLEAN], RegistryOK(registry)'
  PROVE  /\ InboxSafe' /\ SourcesOK' /\ NoGaps'
         /\ \A c \in Child, n \in Nat : ImportedTo(c, n) => ImportedTo(c, n)'
         /\ UNCHANGED importing => ImportOK'
         /\ UNCHANGED watch => ReplayOK'
  <1>1. SourcesOK' /\ \A c \in Child : Len(source[c]) \in Nat
    BY DEF InboxInv, SourcesOK
  <1>2. \A c, k : Imported(c, k)' <=> Imported(c, k)
    BY DEF Imported
  <1>3. \A c \in Child, n \in Nat : ImportedTo(c, n) => ImportedTo(c, n)'
    BY <1>2 DEF ImportedTo
  <1>4. InboxTypeOK'
    BY DEF InboxInv, InboxSafe, InboxTypeOK, RegistryOK
  <1>5. CursorNeverSkips' /\ InboxOnceInOrder'
    BY <1>2 DEF InboxInv, InboxSafe, CursorNeverSkips, InboxOnceInOrder
  <1>6. NoGaps'
    BY <1>2 DEF InboxInv, NoGaps, ImportedTo
  <1>7. (UNCHANGED importing => ImportOK') /\ (UNCHANGED watch => ReplayOK')
    BY <1>1, <1>2, ReadersKept
  <1> QED
    BY <1>1, <1>3, <1>4, <1>5, <1>6, <1>7 DEF InboxSafe

(* register_child and unregister_child: what they write keeps the order of *)
(* the registry and names a child once, though it may undo another edit.   *)
LEMMA EditorKeepsInv ==
  ASSUME InboxInv, NEW e \in Editor,
         \/ \E c \in Child : \/ RegisterRead(e, c)
                             \/ \E s \in {"completed", "abandoned"} : UnregisterRead(e, c, s)
         \/ WriteRegistry(e)
  PROVE  InboxInv'
  <1>1. UNCHANGED <<source, sealed, inbox, cursor, watch, importing>>
    BY DEF RegisterRead, UnregisterRead, WriteRegistry, inboxFiles
  <1>2. /\ RegistryOK(registry)' /\ DOMAIN edit' = Editor
        /\ \A f \in Editor : edit'[f] \notin {NoEdit, Over} => RegistryOK(edit[f])'
    <2>1. ASSUME NEW c \in Child, RegisterRead(e, c)
          PROVE  /\ RegistryOK(registry)' /\ DOMAIN edit' = Editor
                 /\ \A f \in Editor : edit'[f] \notin {NoEdit, Over} => RegistryOK(edit[f])'
      <3> DEFINE new == [list |-> Append(registry.list, c),
                         state |-> [registry.state EXCEPT ![c] = "active"]]
      <3>1. UNCHANGED registry /\ edit' = [edit EXCEPT ![e] = new] /\ registry.state[c] = "none"
        BY <2>1 DEF RegisterRead, inboxFiles
      <3>2. RegistryOK(new)
        <4>1. /\ registry.list \in Seq(Child) /\ registry.state \in [Child -> ChildState]
              /\ \A i, j \in 1..Len(registry.list) : registry.list[i] = registry.list[j] => i = j
              /\ \A i \in 1..Len(registry.list) : registry.state[registry.list[i]] # "none"
          BY DEF InboxInv, RegistryOK, IsInjective
        <4>2. /\ new.list \in Seq(Child) /\ new.state \in [Child -> ChildState]
              /\ new \in [list : Seq(Child), state : [Child -> ChildState]]
          BY <4>1 DEF ChildState
        <4>3. IsInjective(new.list)
          BY <3>1, <4>1 DEF IsInjective
        <4>4. \A i \in 1..Len(new.list) : new.state[new.list[i]] # "none"
          BY <4>1
        <4> QED
          BY <4>2, <4>3, <4>4 DEF RegistryOK
      <3> HIDE DEF new
      <3>3. DOMAIN edit' = Editor /\ \A f \in Editor : edit'[f] \in {edit[f], new}
        BY <3>1 DEF InboxInv
      <3> QED
        BY <3>1, <3>2, <3>3 DEF InboxInv, RegistryOK
    <2>2. ASSUME NEW c \in Child, NEW s \in {"completed", "abandoned"}, UnregisterRead(e, c, s)
          PROVE  /\ RegistryOK(registry)' /\ DOMAIN edit' = Editor
                 /\ \A f \in Editor : edit'[f] \notin {NoEdit, Over} => RegistryOK(edit[f])'
      <3> DEFINE new == [registry EXCEPT !.state[c] = s]
      <3>1. UNCHANGED registry /\ edit' = [edit EXCEPT ![e] = new]
        BY <2>2 DEF UnregisterRead, inboxFiles
      <3>2. RegistryOK(new)
        <4>1. /\ registry \in [list : Seq(Child), state : [Child -> ChildState]]
              /\ IsInjective(registry.list)
              /\ \A i \in 1..Len(registry.list) : registry.state[registry.list[i]] # "none"
          BY DEF InboxInv, RegistryOK
        <4>2. /\ new \in [list : Seq(Child), state : [Child -> ChildState]]
              /\ new.list = registry.list /\ new.state = [registry.state EXCEPT ![c] = s]
          BY <4>1 DEF ChildState
        <4>3. \A i \in 1..Len(registry.list) : registry.list[i] \in Child
          BY <4>1
        <4>4. \A i \in 1..Len(new.list) : new.state[new.list[i]] # "none"
          BY <4>1, <4>2, <4>3
        <4> QED
          BY <4>1, <4>2, <4>4 DEF RegistryOK
      <3> HIDE DEF new
      <3>3. DOMAIN edit' = Editor /\ \A f \in Editor : edit'[f] \in {edit[f], new}
        BY <3>1 DEF InboxInv
      <3> QED
        BY <3>1, <3>2, <3>3 DEF InboxInv, RegistryOK
    <2>3. ASSUME WriteRegistry(e)
          PROVE  /\ RegistryOK(registry)' /\ DOMAIN edit' = Editor
                 /\ \A f \in Editor : edit'[f] \notin {NoEdit, Over} => RegistryOK(edit[f])'
      <3>1. /\ edit[e] \notin {NoEdit, Over} /\ registry' = edit[e]
            /\ edit' = [edit EXCEPT ![e] = Over]
        BY <2>3 DEF WriteRegistry
      <3>2. DOMAIN edit' = Editor /\ \A f \in Editor : edit'[f] \in {edit[f], Over}
        BY <3>1 DEF InboxInv
      <3> QED
        BY <3>1, <3>2 DEF InboxInv, RegistryOK
    <2> QED
      BY <2>1, <2>2, <2>3
  <1>3. sealed' \in [Child -> BOOLEAN]
    BY <1>1 DEF InboxInv, InboxSafe, InboxTypeOK
  <1> QED
    BY <1>1, <1>2, <1>3, InboxFilesKept DEF InboxInv

(* The watch starts, replays and is killed; a run is sealed.               *)
LEMMA WatchKeepsInv ==
  ASSUME InboxInv,
         \/ \E c \in Child : ImportBegin(c) \/ Seal(c)
         \/ StartWatch \/ BeginReplay \/ EndReplay \/ KillWatch
  PROVE  InboxInv'
  <1>1. UNCHANGED <<registry, source, inbox, cursor, edit>>
    BY DEF ImportBegin, Seal, StartWatch, BeginReplay, EndReplay, KillWatch, inboxFiles
  <1>2. sealed' \in [Child -> BOOLEAN]
    BY DEF ImportBegin, Seal, StartWatch, BeginReplay, EndReplay, KillWatch, inboxFiles,
           InboxInv, InboxSafe, InboxTypeOK
  <1>3. /\ RegistryOK(registry)' /\ DOMAIN edit' = Editor
        /\ \A e \in Editor : edit'[e] \notin {NoEdit, Over} => RegistryOK(edit[e])'
    BY <1>1 DEF InboxInv, RegistryOK
  <1>4. /\ InboxSafe' /\ SourcesOK' /\ NoGaps'
        /\ UNCHANGED importing => ImportOK'
        /\ UNCHANGED watch => ReplayOK'
    BY <1>1, <1>2, <1>3, InboxFilesKept
  <1>5. \A c \in Child : Len(source[c]) \in Nat
    BY DEF InboxInv, SourcesOK
  <1>6. ImportOK'
    <2>1. ASSUME NEW c \in Child, ImportBegin(c) PROVE ImportOK'
      <3> DEFINE new == [child |-> c, next |-> 1, upto |-> Len(source[c])]
      <3>1. importing' = new
        BY <2>1 DEF ImportBegin
      <3>2. /\ new \in [child : Child, next : Nat \ {0}, upto : Nat]
            /\ new.upto = Len(source[c]) /\ new.next = 1 /\ new.child = c
        BY <1>5
      <3> HIDE DEF new
      <3>3. ImportedTo(importing.child, importing.next - 1)'
        BY <3>1, <3>2 DEF ImportedTo
      <3> QED
        BY <1>1, <1>5, <3>1, <3>2, <3>3 DEF ImportOK
    <2>2. ASSUME \/ \E c \in Child : Seal(c)
                 \/ StartWatch \/ BeginReplay \/ EndReplay \/ KillWatch
          PROVE  UNCHANGED importing
      BY <2>2 DEF Seal, StartWatch, BeginReplay, EndReplay, KillWatch
    <2> QED
      BY <1>4, <2>1, <2>2
  <1>7. ReplayOK'
    <2>1. CASE BeginReplay
      <3>1. PICK children, start :
              watch' = [step |-> "serve",
                        children |-> SubSeq(children, start + 1, Len(children))
                                     \o SubSeq(children, 1, start),
                        last |-> 0, total |-> 0, at |-> cursor,
                        upto |-> [c \in Child |-> Len(source[c])],
                        done |-> [c \in Child |-> 0]]
        BY <2>1 DEF BeginReplay
      <3>2. /\ watch'.step = "serve" /\ watch'.at = cursor
            /\ watch'.upto = [c \in Child |-> Len(source[c])]
            /\ DOMAIN watch' = {"step", "children", "last", "total", "at", "upto", "done"}
        BY <3>1
      <3> QED
        BY <1>1, <1>5, <3>2 DEF ReplayOK
    <2>2. ASSUME StartWatch \/ EndReplay \/ KillWatch
          PROVE  watch' \in {NoWatch, Between}
      BY <2>2 DEF StartWatch, EndReplay, KillWatch
    <2>3. ASSUME \E c \in Child : ImportBegin(c) \/ Seal(c)
          PROVE  UNCHANGED watch
      BY <2>3 DEF ImportBegin, Seal
    <2>4. watch' \in {NoWatch, Between} => ReplayOK'
      BY DEF ReplayOK, NoWatch, Between
    <2> QED
      BY <1>4, <2>1, <2>2, <2>3, <2>4
  <1> QED
    BY <1>3, <1>4, <1>6, <1>7 DEF InboxInv

(* A child posts its next message.                                         *)
LEMMA PostKeepsInv ==
  ASSUME InboxInv, NEW c \in Child, Post(c)
  PROVE  InboxInv'
  <1>1. /\ UNCHANGED <<registry, sealed, inbox, cursor, edit, watch, importing>>
        /\ Len(source[c]) < Len(Script[c])
        /\ source' = [source EXCEPT ![c] = SubSeq(Script[c], 1, Len(source[c]) + 1)]
    BY DEF Post
  <1>2. /\ source \in [Child -> Seq(Kind)] /\ Script[c] \in Seq(Kind)
        /\ Len(source[c]) \in Nat /\ Len(Script[c]) \in Nat
    BY InboxAssumption DEF InboxInv, SourcesOK
  <1>3. PICK s : s = SubSeq(Script[c], 1, Len(source[c]) + 1)
    OBVIOUS
  <1>4. /\ s \in Seq(Kind) /\ Len(s) = Len(source[c]) + 1
        /\ \A k \in 1..(Len(source[c]) + 1) : s[k] = Script[c][k]
    BY <1>1, <1>2, <1>3
  <1>5. source'[c] = s /\ \A d \in Child : d # c => source'[d] = source[d]
    BY <1>1, <1>2, <1>3
  <1>6. SourcesOK'
    BY <1>1, <1>2, <1>3, <1>4, <1>5 DEF InboxInv, SourcesOK
  <1>7. \A d \in Child : /\ Len(source[d]) \in Nat /\ Len(source'[d]) \in Nat
                         /\ Len(source[d]) <= Len(source'[d])
                         /\ \A k \in 1..Len(source[d]) : source'[d][k] = source[d][k]
    BY <1>2, <1>4, <1>5 DEF InboxInv, SourcesOK
  <1>8. \A d, k : Imported(d, k)' <=> Imported(d, k)
    BY <1>1 DEF Imported
  <1>9. /\ \A d \in Child, n \in Nat :
              (n <= Len(source[d]) /\ ImportedTo(d, n)) => ImportedTo(d, n)'
        /\ ImportOK' /\ ReplayOK'
    BY <1>1, <1>6, <1>7, <1>8, ReadersKept
  <1>10. InboxSafe'
    <2>1. InboxTypeOK'
      BY <1>1, <1>6, <1>7 DEF InboxInv, InboxSafe, InboxTypeOK, SourcesOK
    <2>2. CursorNeverSkips'
      <3> SUFFICES ASSUME NEW d \in Child, NEW k \in 1..cursor[d], source'[d][k] \in EventKind
                   PROVE  Imported(d, k)
        BY <1>1, <1>8 DEF CursorNeverSkips
      <3>1. cursor[d] \in Nat /\ cursor[d] <= Len(source[d])
        BY DEF InboxInv, InboxSafe, InboxTypeOK
      <3>2. source'[d][k] = source[d][k]
        BY <1>7, <3>1
      <3> QED
        BY <3>2 DEF InboxInv, InboxSafe, CursorNeverSkips
    <2>3. InboxOnceInOrder'
      BY <1>1 DEF InboxInv, InboxSafe, InboxOnceInOrder
    <2> QED
      BY <2>1, <2>2, <2>3 DEF InboxSafe
  <1>11. NoGaps'
    <2> SUFFICES ASSUME NEW i \in 1..Len(inbox)
                 PROVE  (/\ inbox[i].n <= Len(source[inbox[i].child])
                         /\ ImportedTo(inbox[i].child, inbox[i].n))'
      BY <1>1 DEF NoGaps
    <2>1. inbox[i] \in SourceMessage
      BY DEF InboxInv, InboxSafe, InboxTypeOK
    <2>2. PICK d \in Child, k \in Nat : inbox[i].child = d /\ inbox[i].n = k
      <3>1. inbox[i].child \in Child /\ inbox[i].n \in 1..Len(Script[inbox[i].child])
        BY <2>1, SourceMessageFacts
      <3> QED
        BY <3>1, InboxAssumption
    <2>3. k <= Len(source[d]) /\ ImportedTo(d, k)
      BY <2>2 DEF InboxInv, NoGaps
    <2>4. k <= Len(source'[d]) /\ ImportedTo(d, k)'
      BY <1>7, <1>9, <2>2, <2>3
    <2> QED
      BY <1>1, <2>2, <2>4 DEF ImportedTo
  <1>12. /\ RegistryOK(registry)' /\ DOMAIN edit' = Editor
         /\ \A e \in Editor : edit'[e] \notin {NoEdit, Over} => RegistryOK(edit[e])'
    BY <1>1 DEF InboxInv, RegistryOK
  <1> QED
    BY <1>6, <1>9, <1>10, <1>11, <1>12 DEF InboxInv

(* One message is imported, by a replay or by the command.                 *)
LEMMA InboxImportKeeps ==
  ASSUME InboxInv, NEW c \in Child, NEW n \in 1..Len(source[c]), ImportedTo(c, n - 1),
         \/ source[c][n] \notin EventKind /\ UNCHANGED inbox
         \/ source[c][n] \in EventKind /\ inbox' = WithMessage(c, n),
         UNCHANGED <<registry, edit, source, sealed, cursor>>
  PROVE  /\ InboxSafe' /\ SourcesOK' /\ NoGaps' /\ RegistryOK(registry)' /\ DOMAIN edit' = Editor
         /\ \A e \in Editor : edit'[e] \notin {NoEdit, Over} => RegistryOK(edit[e])'
         /\ ImportedTo(c, n)'
         /\ UNCHANGED importing => ImportOK'
         /\ UNCHANGED watch => ReplayOK'
  <1>1. /\ RegistryOK(registry)' /\ DOMAIN edit' = Editor
        /\ \A e \in Editor : edit'[e] \notin {NoEdit, Over} => RegistryOK(edit[e])'
    BY DEF InboxInv, RegistryOK
  <1>2. n \in Nat /\ SourcesOK' /\ \A d \in Child : Len(source[d]) \in Nat
    BY DEF InboxInv, SourcesOK
  <1>3. /\ inbox' \in Seq(SourceMessage) /\ InboxOnceInOrder' /\ NoGaps'
        /\ \A d \in Child, k \in Nat : Imported(d, k) => Imported(d, k)'
        /\ ImportedTo(c, n)'
    <2>1. CASE source[c][n] \in EventKind /\ inbox' = WithMessage(c, n)
      BY <2>1, ImportKeeps
    <2>2. CASE source[c][n] \notin EventKind /\ UNCHANGED inbox
      <3>1. \A d, k : Imported(d, k)' <=> Imported(d, k)
        BY <2>2 DEF Imported
      <3>2. ImportedTo(c, n)'
        BY <1>2, <2>2, <3>1 DEF ImportedTo
      <3>3. inbox' \in Seq(SourceMessage) /\ InboxOnceInOrder'
        BY <2>2 DEF InboxInv, InboxSafe, InboxTypeOK, InboxOnceInOrder
      <3>4. NoGaps'
        BY <2>2, <3>1 DEF InboxInv, NoGaps, ImportedTo
      <3> QED
        BY <3>1, <3>2, <3>3, <3>4
    <2> QED
      BY <2>1, <2>2
  <1>4. CursorNeverSkips'
    BY <1>3 DEF InboxInv, InboxSafe, InboxTypeOK, CursorNeverSkips
  <1>5. InboxTypeOK'
    BY <1>3 DEF InboxInv, InboxSafe, InboxTypeOK
  <1>6. (UNCHANGED importing => ImportOK') /\ (UNCHANGED watch => ReplayOK')
    BY <1>2, <1>3, ReadersKept
  <1> QED
    BY <1>1, <1>2, <1>3, <1>4, <1>5, <1>6 DEF InboxSafe

(* import_registered goes on, or is over.                                  *)
LEMMA ImportStepKeepsInv ==
  ASSUME InboxInv, ImportStep
  PROVE  InboxInv'
  <1> DEFINE c == importing.child
             n == importing.next
             on == [importing EXCEPT !.next = n + 1]
  <1>1. /\ importing \notin {NoImport, Over}
        /\ UNCHANGED <<registry, edit, source, sealed, cursor, watch>>
    BY DEF ImportStep
  <1>2. /\ importing \in [child : Child, next : Nat \ {0}, upto : Nat]
        /\ importing.upto <= Len(source[c]) /\ n <= importing.upto + 1
        /\ ImportedTo(c, n - 1) /\ Len(source[c]) \in Nat
    BY <1>1 DEF InboxInv, ImportOK, SourcesOK
  <1>3. CASE importing' = Over /\ UNCHANGED inbox
    <2>1. sealed' \in [Child -> BOOLEAN] /\ RegistryOK(registry)'
      BY <1>1 DEF InboxInv, InboxSafe, InboxTypeOK, RegistryOK
    <2>2. ImportOK'
      BY <1>3 DEF ImportOK
    <2>3. InboxSafe' /\ SourcesOK' /\ NoGaps' /\ ReplayOK'
      BY <1>1, <1>3, <2>1, InboxFilesKept
    <2>4. \A e \in Editor : edit'[e] \notin {NoEdit, Over} => RegistryOK(edit[e])'
      BY <1>1 DEF InboxInv, RegistryOK
    <2> QED
      BY <1>1, <2>1, <2>2, <2>3, <2>4 DEF InboxInv
  <1>4. CASE /\ n <= importing.upto /\ importing' = on
             /\ \/ source[c][n] \notin EventKind /\ UNCHANGED inbox
                \/ source[c][n] \in EventKind /\ inbox' = WithMessage(c, n)
    <2>1. c \in Child /\ n \in 1..Len(source[c]) /\ n \in Nat
      BY <1>2, <1>4
    <2>2. PICK d \in Child, k \in Nat : d = c /\ k = n
      BY <2>1
    <2>3. ImportedTo(d, k - 1) /\ k \in 1..Len(source[d])
      BY <1>2, <2>1, <2>2
    <2>4. /\ InboxSafe' /\ SourcesOK' /\ NoGaps' /\ RegistryOK(registry)' /\ DOMAIN edit' = Editor
          /\ \A e \in Editor : edit'[e] \notin {NoEdit, Over} => RegistryOK(edit[e])'
          /\ ImportedTo(d, k)' /\ ReplayOK'
      BY <1>1, <1>4, <2>2, <2>3, InboxImportKeeps
    <2>5. /\ importing' \in [child : Child, next : Nat \ {0}, upto : Nat]
          /\ importing'.child = d /\ importing'.next = k + 1
          /\ importing'.upto = importing.upto
      BY <1>2, <1>4, <2>1, <2>2
    <2>6. importing'.next - 1 = k
      BY <2>5
    <2>7. ImportedTo(importing.child, importing.next - 1)'
      BY <2>4, <2>5, <2>6
    <2>8. ImportOK'
      BY <1>1, <1>2, <1>4, <2>2, <2>5, <2>7 DEF ImportOK
    <2> QED
      BY <2>4, <2>8 DEF InboxInv
  <1> QED
    BY <1>2, <1>3, <1>4 DEF ImportStep

(* The replay serves a child: what it imports comes right after what the   *)
(* cursor has passed.                                                      *)
LEMMA ServeChildKeepsInv ==
  ASSUME InboxInv, ServeChild
  PROVE  InboxInv'
  <1>1. PICK i \in DOMAIN watch.children, c \in Child :
          /\ watch.step = "serve" /\ watch.children[i] = c /\ NextTurn(i)
          /\ \/ /\ watch' = [watch EXCEPT !.step = "cursor", !.last = i]
                /\ \/ source[c][watch.at[c] + 1] \notin EventKind /\ UNCHANGED inbox
                   \/ /\ source[c][watch.at[c] + 1] \in EventKind
                      /\ inbox' = WithMessage(c, watch.at[c] + 1)
             \/ watch' = Between /\ UNCHANGED inbox
    BY DEF ServeChild
  <1>2. UNCHANGED <<registry, source, sealed, cursor, edit, importing>>
    BY DEF ServeChild
  <1>3. /\ DOMAIN watch = {"step", "children", "last", "total", "at", "upto", "done"}
        /\ watch.at = cursor /\ watch.upto \in [Child -> Nat]
        /\ \A d \in Child : watch.upto[d] <= Len(source[d])
    BY <1>1 DEF InboxInv, ReplayOK
  <1>4. cursor[c] \in Nat /\ Len(source[c]) \in Nat /\ cursor[c] < watch.upto[c]
    BY <1>1, <1>3 DEF InboxInv, InboxSafe, InboxTypeOK, SourcesOK, NextTurn, Serviceable
  <1>5. PICK n \in 1..Len(source[c]) : n = cursor[c] + 1 /\ n - 1 = cursor[c]
    BY <1>3, <1>4
  <1>6. ImportedTo(c, n - 1)
    BY <1>5 DEF InboxInv, InboxSafe, CursorNeverSkips, ImportedTo
  <1>7. CASE watch' = Between /\ UNCHANGED inbox
    <2>1. sealed' \in [Child -> BOOLEAN] /\ RegistryOK(registry)'
      BY <1>2 DEF InboxInv, InboxSafe, InboxTypeOK, RegistryOK
    <2>2. ReplayOK'
      BY <1>7 DEF ReplayOK, Between
    <2>3. InboxSafe' /\ SourcesOK' /\ NoGaps' /\ ImportOK'
      BY <1>2, <1>7, <2>1, InboxFilesKept
    <2>4. \A e \in Editor : edit'[e] \notin {NoEdit, Over} => RegistryOK(edit[e])'
      BY <1>2 DEF InboxInv, RegistryOK
    <2> QED
      BY <1>2, <2>1, <2>2, <2>3, <2>4 DEF InboxInv
  <1>8. CASE /\ watch' = [watch EXCEPT !.step = "cursor", !.last = i]
             /\ \/ source[c][n] \notin EventKind /\ UNCHANGED inbox
                \/ source[c][n] \in EventKind /\ inbox' = WithMessage(c, n)
    <2>1. /\ InboxSafe' /\ SourcesOK' /\ NoGaps' /\ RegistryOK(registry)' /\ DOMAIN edit' = Editor
          /\ \A e \in Editor : edit'[e] \notin {NoEdit, Over} => RegistryOK(edit[e])'
          /\ ImportedTo(c, n)' /\ ImportOK'
      BY <1>2, <1>6, <1>8, InboxImportKeeps
    <2>2. /\ watch'.step = "cursor" /\ watch'.last = i /\ watch'.children = watch.children
          /\ watch'.at = watch.at /\ watch'.upto = watch.upto /\ DOMAIN watch' = DOMAIN watch
      BY <1>3, <1>8
    <2>3. ImportedTo(c, cursor[c] + 1)'
      BY <1>2, <1>5, <2>1
    <2>4. ReplayOK'
      BY <1>1, <1>2, <1>3, <1>4, <2>2, <2>3 DEF ReplayOK
    <2> QED
      BY <2>1, <2>4 DEF InboxInv
  <1> QED
    BY <1>1, <1>3, <1>5, <1>7, <1>8

(* The cursor passes the message that was just imported.                   *)
LEMMA WriteCursorKeepsInv ==
  ASSUME InboxInv, WriteCursor
  PROVE  InboxInv'
  <1>1. PICK c \in Child : /\ watch.children[watch.last] = c
                           /\ cursor[c] < watch.upto[c] /\ ImportedTo(c, cursor[c] + 1)
    BY DEF InboxInv, ReplayOK, WriteCursor
  <1>2. /\ watch.step = "cursor"
        /\ DOMAIN watch = {"step", "children", "last", "total", "at", "upto", "done"}
        /\ watch.at = cursor /\ watch.upto \in [Child -> Nat]
        /\ \A d \in Child : watch.upto[d] <= Len(source[d])
    BY DEF InboxInv, ReplayOK, WriteCursor
  <1>3. /\ cursor' = [cursor EXCEPT ![c] = cursor[c] + 1]
        /\ watch' = [watch EXCEPT !.step = "serve", !.total = @ + 1,
                                  !.at[c] = cursor[c] + 1, !.done[c] = @ + 1]
        /\ UNCHANGED <<registry, source, sealed, inbox, edit, importing>>
    BY <1>1, <1>2 DEF WriteCursor
  <1>4. cursor \in [Child -> Nat] /\ Len(source[c]) \in Nat /\ cursor[c] + 1 <= Len(source[c])
    BY <1>1, <1>2 DEF InboxInv, InboxSafe, InboxTypeOK, SourcesOK
  <1>5. /\ cursor' \in [Child -> Nat] /\ cursor'[c] = cursor[c] + 1
        /\ \A d \in Child : d # c => cursor'[d] = cursor[d]
    BY <1>3, <1>4
  <1>6. \A d, k : Imported(d, k)' <=> Imported(d, k)
    BY <1>3 DEF Imported
  <1>7. InboxSafe'
    <2>1. InboxTypeOK'
      BY <1>3, <1>4, <1>5 DEF InboxInv, InboxSafe, InboxTypeOK
    <2>2. CursorNeverSkips'
      BY <1>1, <1>3, <1>5, <1>6 DEF InboxInv, InboxSafe, CursorNeverSkips, ImportedTo
    <2>3. InboxOnceInOrder'
      BY <1>3 DEF InboxInv, InboxSafe, InboxOnceInOrder
    <2> QED
      BY <2>1, <2>2, <2>3 DEF InboxSafe
  <1>8. SourcesOK' /\ NoGaps'
    BY <1>3, <1>6 DEF InboxInv, SourcesOK, NoGaps, ImportedTo
  <1>9. ImportOK'
    BY <1>3, <1>6 DEF InboxInv, ImportOK, ImportedTo
  <1>10. ReplayOK'
    <2>1. /\ watch'.step = "serve" /\ watch'.at = [watch.at EXCEPT ![c] = cursor[c] + 1]
          /\ watch'.upto = watch.upto /\ DOMAIN watch' = DOMAIN watch
      BY <1>2, <1>3
    <2> QED
      BY <1>2, <1>3, <2>1 DEF ReplayOK
  <1>11. /\ RegistryOK(registry)' /\ DOMAIN edit' = Editor
         /\ \A e \in Editor : edit'[e] \notin {NoEdit, Over} => RegistryOK(edit[e])'
    BY <1>3 DEF InboxInv, RegistryOK
  <1> QED
    BY <1>7, <1>8, <1>9, <1>10, <1>11 DEF InboxInv

(* An empty inbox of an orchestrator with one child.                       *)
LEMMA InboxInitInv == InboxInit => InboxInv
  <1> SUFFICES ASSUME InboxInit PROVE InboxInv
    OBVIOUS
  <1>1. /\ registry.list = <<First>>
        /\ registry.state = [c \in Child |-> IF c = First THEN "active" ELSE "none"]
        /\ registry \in [list : Seq(Child), state : [Child -> ChildState]]
    BY InboxAssumption DEF InboxInit, ChildState
  <1>2. RegistryOK(registry)
    BY <1>1, InboxAssumption DEF RegistryOK, IsInjective
  <1>3. InboxSafe
    BY <1>2 DEF InboxInit, InboxSafe, InboxTypeOK, RegistryOK, CursorNeverSkips, InboxOnceInOrder
  <1>4. SourcesOK /\ NoGaps
    BY InboxAssumption DEF InboxInit, SourcesOK, NoGaps
  <1>5. ImportOK /\ ReplayOK
    BY DEF InboxInit, ImportOK, ReplayOK, NoWatch
  <1> QED
    BY <1>2, <1>3, <1>4, <1>5 DEF InboxInit, InboxInv

(* However the watch is killed between an import and its cursor, edits of  *)
(* the registry overwrite each other and a command imports by hand: no     *)
(* message that a cursor has passed is missing from the inbox, none is in  *)
(* it twice and those of a child are in order (orchestrator_inbox.py,      *)
(* replay_registered and import_message).                                  *)
THEOREM InboxIsSafe == InboxSpec => []InboxSafe
  <1>1. InboxInv /\ [InboxNext]_inboxVars => InboxInv'
    <2> SUFFICES ASSUME InboxInv, [InboxNext]_inboxVars
                 PROVE  InboxInv'
      OBVIOUS
    <2>1. CASE UNCHANGED inboxVars
      <3>1. UNCHANGED <<registry, source, sealed, inbox, cursor, edit, watch, importing>>
        BY <2>1 DEF inboxVars, inboxFiles
      <3>2. sealed' \in [Child -> BOOLEAN] /\ RegistryOK(registry)'
        BY <3>1 DEF InboxInv, InboxSafe, InboxTypeOK, RegistryOK
      <3>3. \A e \in Editor : edit'[e] \notin {NoEdit, Over} => RegistryOK(edit[e])'
        BY <3>1 DEF InboxInv, RegistryOK
      <3>4. InboxSafe' /\ SourcesOK' /\ NoGaps' /\ ImportOK' /\ ReplayOK'
        BY <3>1, <3>2, InboxFilesKept
      <3> QED
        BY <3>1, <3>2, <3>3, <3>4 DEF InboxInv
    <2> QED
      BY <2>1, EditorKeepsInv, WatchKeepsInv, PostKeepsInv, ImportStepKeepsInv,
         ServeChildKeepsInv, WriteCursorKeepsInv DEF InboxNext, WatchStep
  <1>2. InboxInv => InboxSafe
    BY DEF InboxInv
  <1> QED
    BY InboxInitInv, <1>1, <1>2, PTL DEF InboxSpec
-----------------------------------------------------------------------------
(* Hierarchy.                                                              *)

(* What a step does to the clerks and the files: c alone moves, and comes  *)
(* to a write only from a look that found no file; or c writes.            *)
Touches(c) ==
    /\ DOMAIN clerk' = Clerk /\ DOMAIN clerk'[c] = {"step", "todo", "content"}
    /\ \A d \in Clerk \ {c} : clerk'[d] = clerk[d]

Moves(c) ==
    /\ Touches(c) /\ UNCHANGED files
    /\ clerk'[c].step = "write" => files[Head(clerk'[c].todo)] = NoFile

Writes(c) ==
    /\ Touches(c) /\ clerk[c].step = "write" /\ clerk'[c].step = "confirm"
    /\ \E x : files' = [files EXCEPT ![Head(clerk[c].todo)] = x]

LEMMA ClerkMoves ==
  ASSUME HierarchyShape, HierarchyStep
  PROVE  UNCHANGED <<files, clerk>> \/ \E c \in Clerk : Moves(c) \/ Writes(c)
  <1>1. CASE \E t \in Team : AppendRecord(t)
    BY <1>1 DEF AppendRecord
  <1>2. ASSUME NEW c \in Clerk,
               \/ \E s \in ContractSet : InstallContractSet(c, s)
               \/ LookAtFile(c) \/ WriteFile(c) \/ ConfirmFile(c)
               \/ \E t \in Team : CreateTeamReceipt(c, t)
               \/ DigestJournal(c) \/ CreateRootReceipt(c) \/ CollectTeam(c) \/ SealRoot(c)
               \/ KillClerk(c)
        PROVE  Moves(c) \/ Writes(c)
    <2> DEFINE me == clerk[c]
    <2> USE DEF HierarchyShape, Moves, Touches, Busy
    <2>3. Leave(c) /\ UNCHANGED files => Moves(c)
      BY DEF Leave, Off
    <2>5. NextFile(c) /\ UNCHANGED files => Moves(c)
      BY <2>3 DEF NextFile
    <2>7. CASE \E s \in ContractSet : InstallContractSet(c, s)
      BY <2>7 DEF InstallContractSet
    <2>8. CASE LookAtFile(c)
      <3>1. UNCHANGED files
        BY <2>8 DEF LookAtFile
      <3>2. \/ files[Head(me.todo)] = NoFile /\ clerk' = [clerk EXCEPT ![c].step = "write"]
            \/ NextFile(c) \/ Leave(c)
        BY <2>8 DEF LookAtFile
      <3> QED
        BY <2>3, <2>5, <3>1, <3>2
    <2>9. CASE WriteFile(c)
      BY <2>9 DEF WriteFile, Writes
    <2>10. CASE ConfirmFile(c)
      BY <2>3, <2>5, <2>10 DEF ConfirmFile
    <2>11. CASE \E t \in Team : CreateTeamReceipt(c, t)
      BY <2>11 DEF CreateTeamReceipt
    <2>12. CASE DigestJournal(c)
      BY <2>12 DEF DigestJournal
    <2>13. CASE CreateRootReceipt(c)
      BY <2>13 DEF CreateRootReceipt
    <2>14. CASE CollectTeam(c)
      BY <2>3, <2>14 DEF CollectTeam
    <2>15. CASE SealRoot(c)
      BY <2>3, <2>15 DEF SealRoot
    <2>16. CASE KillClerk(c)
      BY <2>3, <2>16 DEF KillClerk
    <2> QED
      BY <1>2, <2>7, <2>8, <2>9, <2>10, <2>11, <2>12, <2>13, <2>14, <2>15, <2>16, Zenon
  <1> QED
    BY <1>1, <1>2 DEF HierarchyStep

LEMMA ShapeInit == HierarchyInit => HierarchyShape
  <1> SUFFICES ASSUME HierarchyInit PROVE HierarchyShape
    OBVIOUS
  <1>1. DOMAIN files = File
    BY DEF HierarchyInit, InstalledFiles
  <1>2. DOMAIN clerk = Clerk /\ \A c \in Clerk : DOMAIN clerk[c] = {"step", "todo", "content"}
    BY DEF HierarchyInit, Off
  <1>3. honoured = [sets |-> honoured.sets, roots |-> honoured.roots]
    BY DEF HierarchyInit
  <1> QED
    BY <1>1, <1>2, <1>3 DEF HierarchyShape

LEMMA ShapeNext == HierarchyShape /\ [HierarchyNext]_hierarchy => HierarchyShape'
  <1> SUFFICES ASSUME HierarchyShape, [HierarchyNext]_hierarchy PROVE HierarchyShape'
    OBVIOUS
  <1>1. CASE UNCHANGED hierarchy
    BY <1>1 DEF HierarchyShape, hierarchy
  <1>2. CASE HierarchyNext
    <2>1. UNCHANGED <<files, clerk>> \/ \E c \in Clerk : Moves(c) \/ Writes(c)
      BY <1>2, ClerkMoves DEF HierarchyNext
    <2>2. /\ DOMAIN files' = File /\ DOMAIN clerk' = Clerk
          /\ \A c \in Clerk : DOMAIN clerk'[c] = {"step", "todo", "content"}
      BY <2>1 DEF HierarchyShape, Moves, Writes, Touches
    <2>3. honoured' = [sets |-> honoured'.sets, roots |-> honoured'.roots]
      BY <1>2 DEF HierarchyNext, Honour, HierarchyShape
    <2> QED
      BY <2>2, <2>3 DEF HierarchyShape
  <1> QED
    BY <1>1, <1>2

(* An installed contract set of which no file is about to be written is    *)
(* there for good, whatever any number of clerks install, seal or leave    *)
(* undone.                                                                 *)
THEOREM ContractSetStays == HierarchySpec => [][SettledSetStays]_hierarchy
  <1>1. ASSUME HierarchyShape, HierarchyNext PROVE SettledSetStays
    <2> SUFFICES ASSUME Settled PROVE Settled' /\ \A f \in SetFile : files'[f] = files[f]
      BY DEF SettledSetStays
    <2>1. SetFile \subseteq File /\ \A f \in SetFile : files[f] # NoFile
      BY DEF SetFile, File, Settled, ReadContractSet
    <2>2. UNCHANGED <<files, clerk>> \/ \E c \in Clerk : Moves(c) \/ Writes(c)
      BY <1>1, ClerkMoves DEF HierarchyNext
    <2>3. \A f \in SetFile : files'[f] = files[f]
      BY <1>1, <2>1, <2>2 DEF HierarchyShape, Moves, Writes, Touches, Settled, Busy
    <2>4. \A c \in Clerk : Busy(c, "write")' => Head(clerk'[c].todo) \notin SetFile
      BY <1>1, <2>1, <2>2 DEF HierarchyShape, Moves, Writes, Touches, Settled, Busy
    <2>5. ReadContractSet'
      <3>1. /\ files'[HierarchyFile] = files[HierarchyFile]
            /\ files'[ManifestFile] = files[ManifestFile]
            /\ \A t \in Team : files'[<<"contract", t>>] = files[<<"contract", t>>]
        BY <2>3 DEF SetFile
      <3> QED
        BY <3>1 DEF Settled, ReadContractSet, Narrowed
    <2> QED
      BY <2>3, <2>4, <2>5 DEF Settled
  <1>2. HierarchyShape /\ [HierarchyNext]_hierarchy => [SettledSetStays]_hierarchy
    BY <1>1
  <1> QED
    BY <1>2, ShapeInit, ShapeNext, PTL DEF HierarchySpec

(* Under Unraced a file that is there is never replaced.                   *)
LEMMA UnracedFilesStay ==
  ASSUME HierarchyInv, Unraced, HierarchyStep
  PROVE  /\ \A f \in {ManifestFile, RootFile} : files[f] # NoFile => files'[f] = files[f]
         /\ StillMissing'
  <1>1. HierarchyShape /\ StillMissing /\ {ManifestFile, RootFile} \subseteq File
    BY DEF HierarchyInv, File
  <1>2. UNCHANGED <<files, clerk>> \/ \E c \in Clerk : Moves(c) \/ Writes(c)
    BY <1>1, ClerkMoves
  <1>3. CASE UNCHANGED <<files, clerk>>
    BY <1>1, <1>3 DEF StillMissing, Busy
  <1>4. ASSUME NEW c \in Clerk, Moves(c)
        PROVE  UNCHANGED files /\ StillMissing'
    BY <1>1, <1>4 DEF StillMissing, Busy, Moves, Touches
  <1>5. ASSUME NEW c \in Clerk, Writes(c)
        PROVE  /\ \A f \in {ManifestFile, RootFile} : files[f] # NoFile => files'[f] = files[f]
               /\ StillMissing'
    <2> DEFINE f == Head(clerk[c].todo)
    <2>1. \A g \in File : g # f => files'[g] = files[g]
      BY <1>1, <1>5 DEF Writes, HierarchyShape
    <2>2. f \in {ManifestFile, RootFile} => files[f] = NoFile
      BY <1>1, <1>5 DEF StillMissing, Writes, Busy
    <2>3. ASSUME NEW d \in Clerk, NEW g \in {ManifestFile, RootFile}, Busy(d, "write")',
                 Head(clerk'[d].todo) = g
          PROVE  files'[g] = NoFile
      <3>1. d # c /\ clerk'[d] = clerk[d]
        BY <1>5, <2>3 DEF Writes, Touches, Busy
      <3>2. g # f
        BY <1>5, <2>3, <3>1 DEF Unraced, OneWriter, Writes, Busy
      <3> QED
        BY <1>1, <2>1, <2>3, <3>1, <3>2 DEF StillMissing, Busy
    <2> QED
      BY <1>1, <2>1, <2>2, <2>3 DEF StillMissing
  <1> QED
    BY <1>2, <1>3, <1>4, <1>5

LEMMA HierarchyInvInit == HierarchyInit => HierarchyInv
  <1> SUFFICES ASSUME HierarchyInit PROVE HierarchyInv
    OBVIOUS
  <1>1. StillMissing
    BY DEF HierarchyInit, StillMissing, Off, Busy
  <1>2. HonouredThere
    BY DEF HierarchyInit, HonouredThere, ReadContractSet
  <1> QED
    BY <1>1, <1>2, ShapeInit DEF HierarchyInv

LEMMA HierarchyInvNext == HierarchyInv /\ Unraced /\ [HierarchyNext]_hierarchy => HierarchyInv'
  <1> SUFFICES ASSUME HierarchyInv, Unraced, [HierarchyNext]_hierarchy PROVE HierarchyInv'
    OBVIOUS
  <1>1. HierarchyShape'
    BY ShapeNext DEF HierarchyInv
  <1>2. CASE UNCHANGED hierarchy
    <2>1. StillMissing' /\ HonouredThere'
      BY <1>2 DEF HierarchyInv, StillMissing, HonouredThere, Busy, hierarchy
    <2> QED
      BY <1>1, <2>1 DEF HierarchyInv
  <1>3. CASE HierarchyNext
    <2>1. /\ \A f \in {ManifestFile, RootFile} : files[f] # NoFile => files'[f] = files[f]
          /\ StillMissing'
      BY <1>3, UnracedFilesStay DEF HierarchyNext
    <2>2. \A s \in honoured.sets : s = files'[ManifestFile] /\ s # NoFile
      BY <2>1 DEF HierarchyInv, HonouredThere
    <2>3. \A root \in honoured.roots : root = files'[RootFile] /\ root # NoFile
      BY <2>1 DEF HierarchyInv, HonouredThere
    <2>4. CASE UNCHANGED honoured
      <3>1. HonouredThere'
        BY <2>2, <2>3, <2>4 DEF HierarchyInv, HonouredThere
      <3> QED
        BY <1>1, <2>1, <3>1 DEF HierarchyInv
    <2>5. CASE ~UNCHANGED honoured
      <3>1. /\ honoured'.sets = honoured.sets \cup (IF ReadContractSet' THEN {files'[ManifestFile]} ELSE {})
            /\ honoured'.roots = honoured.roots \cup (IF VerifyRootReceipt' THEN {files'[RootFile]} ELSE {})
        BY <1>3, <2>5 DEF HierarchyNext, Honour
      <3>2. ReadContractSet' => files'[ManifestFile] # NoFile
        BY DEF ReadContractSet
      <3>3. ASSUME VerifyRootReceipt'
            PROVE  /\ files'[RootFile] # NoFile /\ ReadContractSet'
                   /\ files'[RootFile].set = files'[ManifestFile]
                   /\ AggregateWithin(files[RootFile].receipts, files[RootFile].set)'
                   /\ Disjoint(files[RootFile].receipts)'
        BY <3>3 DEF VerifyRootReceipt
      <3>4. \A s \in honoured'.sets : s = files'[ManifestFile] /\ s # NoFile
        BY <2>2, <3>1, <3>2
      <3>5. ASSUME NEW root \in honoured'.roots
            PROVE  /\ root = files'[RootFile] /\ root # NoFile /\ root.set \in honoured'.sets
                   /\ AggregateWithin(root.receipts, root.set) /\ Disjoint(root.receipts)
        <4>1. CASE root \in honoured.roots
          BY <2>3, <3>1, <4>1 DEF HierarchyInv, HonouredThere
        <4>2. CASE root \notin honoured.roots
          <5>1. root = files'[RootFile] /\ VerifyRootReceipt'
            BY <3>1, <3>5, <4>2
          <5> QED
            BY <3>1, <3>3, <5>1 DEF AggregateWithin, Disjoint, Used
        <4> QED
          BY <4>1, <4>2
      <3>6. HonouredThere'
        BY <3>4, <3>5 DEF HonouredThere, AggregateWithin, Disjoint, Used
      <3> QED
        BY <1>1, <2>1, <3>6 DEF HierarchyInv
    <2> QED
      BY <2>4, <2>5
  <1> QED
    BY <1>2, <1>3

LEMMA HierarchyInvSafe == HierarchyInv => HierarchySafe
  <1> SUFFICES ASSUME HierarchyInv PROVE HierarchySafe
    OBVIOUS
  <1>1. ASSUME NEW S, NEW x, \A y \in S : y = x PROVE Cardinality(S) <= 1
    <2>1. S \in SUBSET {x}
      BY <1>1
    <2>2. IsFiniteSet({x}) /\ Cardinality({x}) = 1
      BY FS_Singleton
    <2> QED
      BY <2>1, <2>2, FS_Subset
  <1>2. Cardinality(honoured.sets) <= 1 /\ Cardinality(honoured.roots) <= 1
    <2>1. \A y \in honoured.sets : y = files[ManifestFile]
      BY DEF HierarchyInv, HonouredThere
    <2>2. \A y \in honoured.roots : y = files[RootFile]
      BY DEF HierarchyInv, HonouredThere
    <2> QED
      BY <1>1, <2>1, <2>2
  <1>3. \A root \in honoured.roots :
          /\ root.set \in honoured.sets
          /\ Used(root.receipts) <= Hierarchies[Contract[root.set].hierarchy].seconds
          /\ \A t, u \in Team :
                t # u => root.receipts[t].evidence \cap root.receipts[u].evidence = {}
    BY DEF HierarchyInv, HonouredThere, AggregateWithin, Disjoint
  <1> QED
    BY <1>2, <1>3 DEF HierarchySafe, ContractSetForGood, RootReceiptForGood

(* Any number of clerks may race, die and come back with other inputs: as  *)
(* long as no two are between the look and the write of the manifest, or   *)
(* of the root receipt, at once, one contract set and one root receipt are *)
(* ever honoured, the receipt within its budget.                           *)
THEOREM UnracedHierarchyIsSafe == HierarchySpec /\ []Unraced => []HierarchySafe
  <1>1. HierarchyInit => HierarchyInv
    BY HierarchyInvInit
  <1>2. HierarchyInv /\ Unraced /\ [HierarchyNext]_hierarchy => HierarchyInv'
    BY HierarchyInvNext
  <1>3. HierarchyInv => HierarchySafe
    BY HierarchyInvSafe
  <1> QED
    BY <1>1, <1>2, <1>3, PTL DEF HierarchySpec
=============================================================================
