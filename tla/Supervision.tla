----------------------------- MODULE Supervision -----------------------------
(* supervise_once on one headless run, by supervisors that run side by     *)
(* side without a lock: permission evidence, health sample, observation,   *)
(* diagnosis, finalization of a lost process, and the bounded remediation  *)
(* of a stalled one.                                                       *)
EXTENDS Naturals, FiniteSets

CONSTANTS
    Supervisor,
    MaxAttempts,        \* max_remediation_attempts
    MaxEvents,          \* events that fit into remediation-events.jsonl
    MaxSupervisorKill,  \* bound on the kills of a supervisor
    InterruptStalled    \* the interrupt_stalled option

ASSUME SupervisionAssumption ==
    /\ IsFiniteSet(Supervisor) /\ Supervisor # {}
    /\ {MaxAttempts, MaxEvents, MaxSupervisorKill} \subseteq Nat

VARIABLES
    status,     \* execution state of the run
    runner,     \* the runner process lives
    executor,   \* the executor process lives
    prompt,     \* what the tail of the executor's output asks for
    stale,      \* no semantic progress for longer than the threshold
    permission, \* state of the last permission event
    sample,     \* executor.alive of the last stored health sample
    healthFull, \* run-health-samples.jsonl is full
    incident,   \* category of the last incident event
    remedies,   \* remediation events of each rule
    supervisor, \* step of each supervisor
    steers,     \* history: probes that were sent
    supervisorKills

run == <<status, runner, executor, prompt, stale>>
evidence == <<permission, sample, healthFull, incident, remedies>>
supervision == <<run, evidence, supervisor, steers, supervisorKills>>

Rule == {"probe", "interrupt"}
Category == {"none", "permission_wait", "process_alive_no_progress",
             "process_missing", "resource_pressure"}
SupervisorStep == {"idle", "sampled", "missing", "stalled", "probe", "interrupt",
                   "record_probe", "record_interrupt"}
RecordStep == [probe |-> "record_probe", interrupt |-> "record_interrupt"]
MaxSteers == MaxAttempts + Cardinality(Supervisor) + MaxSupervisorKill

Goto(s, step) == supervisor' = [supervisor EXCEPT ![s] = step]

-----------------------------------------------------------------------------
(* A bug for comparison: only the stored sample tells that a process is    *)
(* gone.                                                                   *)
ObservedStateSampled ==
    IF status = "ended" THEN "ended"
    ELSE IF permission = "pending" THEN "blocked_permission"
    ELSE IF sample = "dead" THEN "orphaned"
    ELSE IF status = "running" /\ stale THEN "possibly_stalled"
    ELSE "running"

(* observe: a pending permission comes before the loss of the process.     *)
ObservedState ==
    IF status = "ended" THEN "ended"
    ELSE IF permission = "pending" THEN "blocked_permission"
    ELSE IF ~runner \/ sample = "dead" THEN "orphaned"
    ELSE IF status = "running" /\ stale THEN "possibly_stalled"
    ELSE "running"

(* diagnose_observation.                                                   *)
Diagnose(observed, pressure) ==
    IF permission = "pending" THEN "permission_wait"
    ELSE IF observed = "possibly_stalled" THEN "process_alive_no_progress"
    ELSE IF observed = "orphaned" THEN "process_missing"
    ELSE IF sample = "dead" /\ observed \in {"running", "blocked_permission"}
    THEN "process_missing"
    ELSE IF pressure THEN "resource_pressure"
    ELSE "none"

(* record_permission_event: no signal in the output records nothing, so    *)
(* the last state stands.                                                  *)
PermissionAfter == IF prompt = "none" THEN permission ELSE prompt

(* process_sample, and the sample a full journal does not store.           *)
ProcessSample == IF executor THEN "alive" ELSE "dead"
SampleAfter == IF healthFull THEN sample ELSE ProcessSample

(* record_incident; the evidence holds the age of the last progress, so an *)
(* incident hardly ever repeats the one before it.                         *)
IncidentAfter(category) == IF category = "none" THEN incident ELSE category

(* The run is looked at unless it has ended.                               *)
Sample(s) ==
    /\ supervisor[s] = "idle" /\ status # "ended"
    /\ permission' = PermissionAfter /\ sample' = SampleAfter
    /\ Goto(s, "sampled")
    /\ UNCHANGED <<run, healthFull, incident, remedies, steers, supervisorKills>>

Observe(s) ==
    \E pressure \in BOOLEAN :
        LET category == Diagnose(ObservedState, pressure)
        IN  /\ supervisor[s] = "sampled"
            /\ incident' = IncidentAfter(category)
            /\ Goto(s, CASE category = "process_missing" -> "missing"
                         [] category = "process_alive_no_progress" -> "stalled"
                         [] OTHER -> "idle")
            /\ UNCHANGED <<run, permission, sample, healthFull, remedies, steers,
                           supervisorKills>>

(* finalize_run refuses while the runner lives.                            *)
Finalize(s) ==
    /\ supervisor[s] = "missing" /\ Goto(s, "idle")
    /\ status' = IF runner THEN status ELSE "ended"
    /\ UNCHANGED <<runner, executor, prompt, stale, evidence, steers, supervisorKills>>

-----------------------------------------------------------------------------
(* A bug for comparison: probes that were sent are not counted.            *)
CountRemediesInterrupts(s) ==
    /\ supervisor[s] = "stalled"
    /\ Goto(s, IF remedies["interrupt"] < MaxAttempts THEN "probe"
                 ELSE IF InterruptStalled /\ remedies["interrupt"] < MaxAttempts
                 THEN "interrupt" ELSE "idle")
    /\ UNCHANGED <<run, evidence, steers, supervisorKills>>

(* _apply_remediation counts the recorded events, then acts.               *)
CountRemedies(s) ==
    /\ supervisor[s] = "stalled"
    /\ Goto(s, IF remedies["probe"] < MaxAttempts THEN "probe"
                 ELSE IF InterruptStalled /\ remedies["interrupt"] < MaxAttempts
                 THEN "interrupt" ELSE "idle")
    /\ UNCHANGED <<run, evidence, steers, supervisorKills>>

(* A probe is a message in the run's own journals: it counts as progress.  *)
(* It may be refused.                                                      *)
Probe(s) ==
    /\ supervisor[s] = "probe" /\ Goto(s, "record_probe")
    /\ \/ steers < MaxSteers /\ steers' = steers + 1 /\ stale' = FALSE
       \/ UNCHANGED <<steers, stale>>
    /\ UNCHANGED <<status, runner, executor, prompt, evidence, supervisorKills>>

InterruptRun(s) ==
    /\ supervisor[s] = "interrupt" /\ Goto(s, "record_interrupt")
    /\ status' = IF status = "running" /\ runner THEN "interruption_requested" ELSE status
    /\ UNCHANGED <<runner, executor, prompt, stale, evidence, steers, supervisorKills>>

(* record_remediation does not notice that the journal is full.            *)
RecordRemediation(s, rule) ==
    /\ supervisor[s] = RecordStep[rule] /\ Goto(s, "idle")
    /\ remedies' = IF remedies["probe"] + remedies["interrupt"] < MaxEvents
                   THEN [remedies EXCEPT ![rule] = @ + 1] ELSE remedies
    /\ UNCHANGED <<run, permission, sample, healthFull, incident, steers, supervisorKills>>

KillSupervisor(s) ==
    /\ supervisor[s] # "idle" /\ supervisorKills < MaxSupervisorKill
    /\ supervisorKills' = supervisorKills + 1 /\ Goto(s, "idle")
    /\ UNCHANGED <<run, evidence, steers>>

-----------------------------------------------------------------------------
(* The run itself.                                                         *)
Executes ==
    /\ executor
    /\ \E p \in {"none", "pending", "denied"} : prompt' = p
    /\ stale' = FALSE
    /\ UNCHANGED <<status, runner, executor, evidence, supervisor, steers, supervisorKills>>

TimePasses ==
    /\ ~stale /\ stale' = TRUE
    /\ UNCHANGED <<status, runner, executor, prompt, evidence, supervisor, steers,
                   supervisorKills>>

ExecutorExits ==
    /\ executor /\ executor' = FALSE
    /\ UNCHANGED <<status, runner, prompt, stale, evidence, supervisor, steers,
                   supervisorKills>>

RunnerDies ==
    /\ runner /\ runner' = FALSE /\ executor' = FALSE
    /\ UNCHANGED <<status, prompt, stale, evidence, supervisor, steers, supervisorKills>>

RunnerEndsRun ==
    /\ runner /\ ~executor /\ runner' = FALSE /\ status' = "ended"
    /\ UNCHANGED <<executor, prompt, stale, evidence, supervisor, steers, supervisorKills>>

-----------------------------------------------------------------------------
SupervisionInit ==
    /\ status = "running" /\ runner = TRUE /\ executor = TRUE
    /\ prompt = "none" /\ stale = FALSE /\ permission = "none" /\ sample = "none"
    /\ healthFull \in BOOLEAN /\ incident = "none"
    /\ remedies = [r \in Rule |-> 0]
    /\ supervisor = [s \in Supervisor |-> "idle"]
    /\ steers = 0 /\ supervisorKills = 0

Supervise(s) ==
    \/ Sample(s) \/ Observe(s) \/ Finalize(s) \/ CountRemedies(s) \/ Probe(s)
    \/ InterruptRun(s) \/ \E r \in Rule : RecordRemediation(s, r)

SupervisionNext ==
    \/ \E s \in Supervisor : Supervise(s) \/ KillSupervisor(s)
    \/ Executes \/ TimePasses \/ ExecutorExits \/ RunnerDies \/ RunnerEndsRun

SupervisionSpec == SupervisionInit /\ [][SupervisionNext]_supervision

-----------------------------------------------------------------------------
SupervisionTypeOK ==
    /\ status \in {"running", "interruption_requested", "ended"}
    /\ {runner, executor, stale, healthFull} \subseteq BOOLEAN
    /\ {prompt, permission} \subseteq {"none", "pending", "denied"}
    /\ sample \in {"none", "alive", "dead"} /\ incident \in Category
    /\ remedies \in [Rule -> 0..MaxEvents]
    /\ supervisor \in [Supervisor -> SupervisorStep]

(* The probes a stalled run receives stay bounded by the configured number *)
(* of attempts: one more for each other supervisor that counted at the     *)
(* same time, one for each supervisor that was killed before it recorded   *)
(* its probe, and no bound at all once the journal is full.  Nobody is     *)
(* interrupted before the probes are used up.                              *)
RemediationBounded ==
    /\ remedies["probe"] + remedies["interrupt"] < MaxEvents =>
          steers <= MaxAttempts + (Cardinality(Supervisor) - 1) + supervisorKills
    /\ status = "interruption_requested" => remedies["probe"] >= MaxAttempts

(* A run whose processes are gone is finalized in the end, unless the last *)
(* permission event says pending: nothing ever takes that back, and it     *)
(* hides the loss of the process.                                          *)
LostRunFinalized ==
    ~runner ~> (status = "ended" \/ permission = "pending")

(* The safety of supervision.                                              *)
SupervisionSafe == SupervisionTypeOK /\ RemediationBounded

-----------------------------------------------------------------------------
(* The inductive invariant behind SupervisionIsSafe in EvidenceProofs.     *)

Doing(step) == {s \in Supervisor : supervisor[s] = step}
Recorded == remedies["probe"] + remedies["interrupt"]

(* While the journal takes events, a probe that was sent is recorded,      *)
(* about to be, or lost with a supervisor that was killed; and whoever is  *)
(* about to probe has counted less than the allowed attempts.              *)
ProbesAccounted ==
    Recorded < MaxEvents =>
        /\ steers <= remedies["probe"] + Cardinality(Doing("record_probe")) + supervisorKills
        /\ steers + Cardinality(Doing("probe"))
              <= MaxAttempts + (Cardinality(Supervisor) - 1) + supervisorKills

SupervisionInv ==
    /\ SupervisionTypeOK /\ steers \in Nat /\ supervisorKills \in Nat
    /\ ProbesAccounted
    /\ status = "interruption_requested" \/ Doing("interrupt") # {}
          => remedies["probe"] >= MaxAttempts
=============================================================================
