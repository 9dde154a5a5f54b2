------------------------------ MODULE AgentRun ------------------------------
(***************************************************************************)
(* One headless Agent Run: its execution journal, its mutable status       *)
(* projection, the runner and executor processes, the operator's controls, *)
(* recovery finalization, and the sealing of terminal evidence.            *)
(*                                                                         *)
(* Every command is a process of its own that shares only files with the   *)
(* others, so each step below is one file operation (or one check made on  *)
(* a consistent read) and steps of different processes interleave freely.  *)
(* There is no lock around a transition: journal, projection and seal are  *)
(* read, decided on and written in separate steps, as in the code.         *)
(***************************************************************************)
EXTENDS Naturals, Sequences, FiniteSets

CONSTANTS
    Starter,      \* agent-run start calls
    Runner,       \* detached runner processes a start call may spawn
    Operator,     \* calls of interrupt, of terminate, or of a command that
                  \* appends evidence (steer, a supervisor's sample)
    Finalizer,    \* agent-run finalize callers (operator or supervisor)
    Code,         \* kinds of return code the executor may end with
    Fault,        \* which faults may happen, see below
    Killable,     \* runners and finalizers that may die at any step
    None          \* no process, no file

Codes == {"zero", "error", "exit130", "signal"}

(* "spawn": the executor cannot be started;  "seal": a required artifact   *)
(* is missing;  "timeout": the wall budget expires;  "early": finalize is  *)
(* called before any heartbeat was written.                                *)
Faults == {"spawn", "seal", "timeout", "early"}

Caller == Starter \cup Operator \cup Finalizer
Proc == Caller \cup Runner

ASSUME ProcAssumption ==
    /\ Code \subseteq Codes
    /\ Fault \subseteq Faults
    /\ Killable \subseteq Runner \cup Finalizer
    /\ None \notin Proc
    /\ Runner \cap Caller = {}
    /\ Starter \cap (Operator \cup Finalizer) = {}
    /\ Operator \cap Finalizer = {}

VARIABLES
    events,       \* execution events of events.jsonl: the statuses, in order
    projection,   \* status.json: execution status and recorded worker pid
    heartbeat,    \* heartbeat.json: the runner (and its executor), or None
    procResult,   \* process-result.json, or None
    evidence,     \* contents of the other sealed artifacts and journals
    finalStatus,  \* final-status.json, or None
    receipt,      \* final-receipt.json: digests of both, or None
    readOnly,     \* make_read_only has run
    sealLock,     \* holder of seal.lock
    finLock,      \* holder of finalization.lock
    executor,     \* per runner: "none", "running" or "exited"
    exit,         \* per runner: how its executor ended, or None
    signalled,    \* per runner: a signal was forwarded to its executor
    pc, kont,     \* where a process is, and where its current call returns
    tgt,          \* the status the process is writing
    buf,          \* what the process last read of the projection
    mine,         \* the runner a start call spawned
    obs,          \* executor result (or observation) of a terminal pipeline
    sample,       \* finalizer's liveness samples
    snap          \* digests a sealer computed

fileVars == <<events, projection, heartbeat, procResult, evidence,
              finalStatus, receipt, readOnly, sealLock, finLock>>
procVars == <<executor, exit, signalled>>
callVars == <<pc, kont, tgt, buf, mine, obs, sample, snap>>
vars == <<fileVars, procVars, callVars>>

-----------------------------------------------------------------------------
(* run_lifecycle.py: statuses and the allowed transitions.                 *)
EXECUTION_STATUSES ==
    {"prepared", "running", "interruption_requested", "completed", "failed",
     "interrupted", "terminated", "retired"}

TERMINAL_STATUSES ==
    {"completed", "failed", "interrupted", "terminated", "retired"}

ALLOWED_TRANSITIONS ==
    [s \in EXECUTION_STATUSES |->
        CASE s = "prepared" -> {"running", "interruption_requested",
                                "terminated", "retired", "failed"}
          [] s = "running" -> {"interruption_requested", "completed",
                               "failed", "interrupted", "terminated"}
          [] s = "interruption_requested" -> {"completed", "failed",
                                              "interrupted", "terminated"}
          [] OTHER -> {}]

ValidTransition(prior, new) == new = prior \/ new \in ALLOWED_TRANSITIONS[prior]

Result == [code : Codes, timedOut : BOOLEAN]
ExecutorResult == {"completed", "failed", "interrupted", "lost"}
FinalStatus == [status : EXECUTION_STATUSES, by : Proc]

execution_state == events[Len(events)]

(* A bug for comparison: verification forgets the digest of final-         *)
(* status.json.                                                            *)
SealVerifiesEvidence == receipt.evidence = evidence

(* verify_seal_details: every sealed artifact still has its sealed digest. *)
SealVerifies == receipt.final = finalStatus /\ receipt.evidence = evidence

(* authoritative_execution_status raises when the seal does not verify.    *)
AuthorityReadable == receipt # None => SealVerifies
Authority == IF receipt # None THEN finalStatus.status ELSE execution_state

-----------------------------------------------------------------------------
Init ==
    /\ events = <<"prepared">>
    /\ projection = [status |-> "prepared", worker |-> None]
    /\ heartbeat = None /\ procResult = None
    /\ evidence = {} /\ finalStatus = None /\ receipt = None
    /\ readOnly = FALSE /\ sealLock = None /\ finLock = None
    /\ executor = [r \in Runner |-> "none"]
    /\ exit = [r \in Runner |-> None]
    /\ signalled = [r \in Runner |-> FALSE]
    /\ pc = [p \in Proc |-> IF p \in Runner THEN "unborn" ELSE "idle"]
    /\ kont = [p \in Proc |-> "done"]
    /\ tgt = [p \in Proc |-> "prepared"]
    /\ buf = [p \in Proc |-> projection]
    /\ mine = [s \in Starter |-> None]
    /\ obs = [p \in Proc |-> "unknown"]
    /\ sample = [f \in Finalizer |-> [runner |-> FALSE, executor |-> FALSE]]
    /\ snap = [p \in Proc |-> None]

Gone == {"unborn", "dead", "done"}
Alive(r) == r \in Runner /\ pc[r] \notin Gone

Goto(p, label) == pc' = [pc EXCEPT ![p] = label]

(* A call raises: a runner process ends, a command returns an error.       *)
RaiseLabel(p) == IF p \in Runner THEN "dead" ELSE "raised"

(* Start transition_execution_path(status), to continue at label k.        *)
CallTransition(p, status, k) ==
    /\ tgt' = [tgt EXCEPT ![p] = status]
    /\ kont' = [kont EXCEPT ![p] = k]
    /\ Goto(p, "transition")

-----------------------------------------------------------------------------
(* transition_execution_path, in the steps at which it touches files.      *)

(* A receipt exists: no event; the caller must agree with the sealed       *)
(* outcome and may only refresh the projection.                            *)
TransitionSealed(p) ==
    /\ pc[p] = "transition"
    /\ receipt # None
    /\ Goto(p, IF SealVerifies /\ tgt[p] = finalStatus.status
               THEN "readProjection" ELSE RaiseLabel(p))
    /\ UNCHANGED <<fileVars, procVars, kont, tgt, buf, mine, obs, sample, snap>>

TransitionCheck(p) ==
    /\ pc[p] = "transition"
    /\ receipt = None
    /\ Goto(p, IF tgt[p] = execution_state THEN "readProjection"
               ELSE IF ValidTransition(execution_state, tgt[p])
               THEN "appendEvent" ELSE RaiseLabel(p))
    /\ UNCHANGED <<fileVars, procVars, kont, tgt, buf, mine, obs, sample, snap>>

(* append_lifecycle_event: locked, but the prior state is not re-read.     *)
AppendEvent(p) ==
    /\ pc[p] = "appendEvent"
    /\ events' = Append(events, tgt[p])
    /\ Goto(p, "readProjection")
    /\ UNCHANGED <<projection, heartbeat, procResult, evidence, finalStatus,
                   receipt, readOnly, sealLock, finLock, procVars, kont, tgt,
                   buf, mine, obs, sample, snap>>

(* _update_projection_path_unchecked: an unlocked read-modify-write.       *)
ReadProjection(p) ==
    /\ pc[p] = "readProjection"
    /\ buf' = [buf EXCEPT ![p] = projection]
    /\ Goto(p, "writeProjection")
    /\ UNCHANGED <<fileVars, procVars, kont, tgt, mine, obs, sample, snap>>

Updated(p) ==
    [status |-> IF tgt[p] = None THEN buf[p].status ELSE tgt[p],
     worker |-> IF p \in Starter /\ mine[p] # None THEN mine[p]
                ELSE buf[p].worker]

WriteProjection(p) ==
    /\ pc[p] = "writeProjection"
    /\ projection' = Updated(p)
    /\ Goto(p, kont[p])
    /\ UNCHANGED <<events, heartbeat, procResult, evidence, finalStatus,
                   receipt, readOnly, sealLock, finLock, procVars, kont, tgt,
                   buf, mine, obs, sample, snap>>

TransitionStep(p) ==
    \/ TransitionSealed(p) \/ TransitionCheck(p) \/ AppendEvent(p)
    \/ ReadProjection(p) \/ WriteProjection(p)

-----------------------------------------------------------------------------
(* Every command begins with synchronize_projection.                       *)
AfterSync(p) ==
    CASE p \in Starter -> {"startCheck"}
      [] p \in Operator -> {"interruptCheck", "terminateCheck", "activeCheck"}
      [] p \in Finalizer -> {"sealedCheck"}

Synchronize(p, k) ==
    /\ buf' = [buf EXCEPT ![p] = projection]
    /\ tgt' = [tgt EXCEPT ![p] = Authority]
    /\ kont' = [kont EXCEPT ![p] = k]
    /\ Goto(p, IF ~AuthorityReadable THEN RaiseLabel(p)
               ELSE IF projection.status = Authority THEN k
               ELSE "readProjection")

Begin(p) ==
    /\ p \in Caller \ Finalizer
    /\ pc[p] = "idle"
    /\ \E k \in AfterSync(p) : Synchronize(p, k)
    /\ UNCHANGED <<fileVars, procVars, mine, obs, sample, snap>>

-----------------------------------------------------------------------------
(* start: the runner is spawned before "running" and its pid are recorded. *)
StartSpawn(s) ==
    /\ pc[s] = "startCheck"
    /\ AuthorityReadable /\ Authority = "prepared"
    /\ \E r \in Runner :
         /\ pc[r] = "unborn"
         /\ mine' = [mine EXCEPT ![s] = r]
         /\ tgt' = [tgt EXCEPT ![s] = "running"]
         /\ kont' = [kont EXCEPT ![s] = "done"]
         /\ pc' = [pc EXCEPT ![s] = "transition", ![r] = "launch"]
    /\ UNCHANGED <<fileVars, procVars, buf, obs, sample, snap>>

StartRefused(s) ==
    /\ pc[s] = "startCheck"
    /\ ~(AuthorityReadable /\ Authority = "prepared")
    /\ Goto(s, "raised")
    /\ UNCHANGED <<fileVars, procVars, kont, tgt, buf, mine, obs, sample, snap>>

-----------------------------------------------------------------------------
(* runner.execute                                                          *)
RunnerLaunch(r) ==
    /\ pc[r] = "launch"
    /\ CallTransition(r, "running", "spawn")
    /\ UNCHANGED <<fileVars, procVars, buf, mine, obs, sample, snap>>

SpawnExecutor(r) ==
    /\ pc[r] = "spawn"
    /\ executor' = [executor EXCEPT ![r] = "running"]
    /\ Goto(r, "spawned")
    /\ UNCHANGED <<fileVars, exit, signalled, kont, tgt, buf, mine, obs, sample, snap>>

(* The prompt is written, then SIGINT and SIGTERM are forwarded.           *)
InstallHandlers(r) ==
    /\ pc[r] = "spawned"
    /\ Goto(r, "firstBeat")
    /\ UNCHANGED <<fileVars, procVars, kont, tgt, buf, mine, obs, sample, snap>>

(* The spawn error path writes a process result without any heartbeat.     *)
SpawnFails(r) ==
    /\ "spawn" \in Fault
    /\ pc[r] = "spawn"
    /\ procResult' = [code |-> "error", timedOut |-> FALSE]
    /\ obs' = [obs EXCEPT ![r] = "failed"]
    /\ Goto(r, "collect")
    /\ UNCHANGED <<events, projection, heartbeat, evidence, finalStatus,
                   receipt, readOnly, sealLock, finLock, procVars, kont, tgt,
                   buf, mine, sample, snap>>

(* Heartbeat and health sample of the supervision loop.                    *)
Heartbeat(r) ==
    /\ pc[r] \in {"firstBeat", "loop"}
    /\ heartbeat' = r
    /\ evidence' = evidence \cup {<<r, "health">>}
    /\ Goto(r, "loop")
    /\ UNCHANGED <<events, projection, procResult, finalStatus, receipt,
                   readOnly, sealLock, finLock, procVars, kont, tgt, buf,
                   mine, obs, sample, snap>>

(* The wall budget expires: the executor is cancelled, and may end anyhow. *)
Timeout(r) ==
    /\ "timeout" \in Fault
    /\ pc[r] = "loop"
    /\ executor[r] = "running"
    /\ executor' = [executor EXCEPT ![r] = "exited"]
    /\ \E c \in Code :
         exit' = [exit EXCEPT ![r] = [code |-> c, timedOut |-> TRUE]]
    /\ Goto(r, "result")
    /\ UNCHANGED <<fileVars, signalled, kont, tgt, buf, mine, obs, sample, snap>>

NoticeExit(r) ==
    /\ pc[r] = "loop"
    /\ executor[r] # "running"
    /\ Goto(r, "result")
    /\ UNCHANGED <<fileVars, procVars, kont, tgt, buf, mine, obs, sample, snap>>

(* How the runner classifies the exit it saw.                              *)
RunnerResult(res) ==
    IF res.timedOut THEN "failed"
    ELSE CASE res.code = "zero" -> "completed"
           [] res.code \in {"exit130", "signal"} -> "interrupted"
           [] OTHER -> "failed"

WriteProcessResult(r) ==
    /\ pc[r] = "result"
    /\ procResult' = exit[r]
    /\ obs' = [obs EXCEPT ![r] = RunnerResult(exit[r])]
    /\ Goto(r, "collect")
    /\ UNCHANGED <<events, projection, heartbeat, evidence, finalStatus,
                   receipt, readOnly, sealLock, finLock, procVars, kont, tgt,
                   buf, mine, sample, snap>>

-----------------------------------------------------------------------------
(* finalize_terminal_run, shared by runners and finalizers.                *)

(* A bug for comparison: the executor result is ignored when the           *)
(* completion is valid.                                                    *)
TerminalStatusByCompletion(result, completion, errors) ==
    CASE completion = "valid" /\ ~errors -> "completed"
      [] result = "interrupted" -> "interrupted"
      [] OTHER -> "failed"

(* derive_terminal_outcome: success needs a valid completion and no error. *)
TerminalStatus(result, completion, errors) ==
    CASE result = "completed" /\ completion = "valid" /\ ~errors -> "completed"
      [] result = "interrupted" -> "interrupted"
      [] OTHER -> "failed"

(* Collection of completion, task result, scope, patch, provider evidence  *)
(* and incidents rewrites sealed artifacts before the outcome is derived.  *)
Collect(p) ==
    /\ pc[p] = "collect"
    /\ \E completion \in {"valid", "invalid", "missing"}, errors \in BOOLEAN :
         tgt' = [tgt EXCEPT ![p] = TerminalStatus(obs[p], completion, errors)]
    /\ evidence' = evidence \cup {<<p, "collection">>}
    /\ Goto(p, "final")
    /\ UNCHANGED <<events, projection, heartbeat, procResult, finalStatus,
                   receipt, readOnly, sealLock, finLock, procVars, kont, buf,
                   mine, obs, sample, snap>>

WriteFinalStatus(p) ==
    /\ pc[p] = "final"
    /\ finalStatus' = [status |-> tgt[p], by |-> p]
    /\ Goto(p, "seal")
    /\ UNCHANGED <<events, projection, heartbeat, procResult, evidence,
                   receipt, readOnly, sealLock, finLock, procVars, kont, tgt,
                   buf, mine, obs, sample, snap>>

(* A bug for comparison: seal_run does not refuse a run that has a         *)
(* receipt.                                                                *)
SealDigestAgain(p) ==
    /\ pc[p] = "seal"
    /\ sealLock = None
    /\ sealLock' = p
    /\ snap' = [snap EXCEPT ![p] = [final |-> finalStatus, evidence |-> evidence]]
    /\ Goto(p, "receipt")
    /\ UNCHANGED <<events, projection, heartbeat, procResult, evidence,
                   finalStatus, receipt, readOnly, finLock, procVars, kont,
                   tgt, buf, mine, obs, sample>>

(* seal_run: digests and receipt are written under seal.lock.              *)
SealDigest(p) ==
    /\ pc[p] = "seal"
    /\ sealLock = None
    /\ receipt = None
    /\ sealLock' = p
    /\ snap' = [snap EXCEPT ![p] = [final |-> finalStatus, evidence |-> evidence]]
    /\ Goto(p, "receipt")
    /\ UNCHANGED <<events, projection, heartbeat, procResult, evidence,
                   finalStatus, receipt, readOnly, finLock, procVars, kont,
                   tgt, buf, mine, obs, sample>>

(* Already sealed, or a required artifact is missing: record "failed",     *)
(* then raise.                                                             *)
SealRefused(p) ==
    /\ pc[p] = "seal"
    /\ sealLock = None
    /\ receipt # None \/ "seal" \in Fault
    /\ CallTransition(p, "failed", RaiseLabel(p))
    /\ UNCHANGED <<fileVars, procVars, buf, mine, obs, sample, snap>>

WriteReceipt(p) ==
    /\ pc[p] = "receipt"
    /\ receipt' = snap[p]
    /\ sealLock' = None
    /\ CallTransition(p, tgt[p], "readonly")
    /\ UNCHANGED <<events, projection, heartbeat, procResult, evidence,
                   finalStatus, readOnly, finLock, procVars, buf, mine, obs,
                   sample, snap>>

(* Then the evaluation attempt updates the projection, but not its status. *)
MakeReadOnly(p) ==
    /\ pc[p] = "readonly"
    /\ readOnly' = TRUE
    /\ tgt' = [tgt EXCEPT ![p] = None]
    /\ kont' = [kont EXCEPT ![p] = "done"]
    /\ Goto(p, "readProjection")
    /\ UNCHANGED <<events, projection, heartbeat, procResult, evidence,
                   finalStatus, receipt, sealLock, finLock, procVars, buf,
                   mine, obs, sample, snap>>

PipelineStep(p) ==
    \/ Collect(p) \/ WriteFinalStatus(p) \/ SealDigest(p) \/ SealRefused(p)
    \/ WriteReceipt(p) \/ MakeReadOnly(p)

-----------------------------------------------------------------------------
(* finalize_run                                                            *)

(* observe(): orphaned means active, and the recorded worker is dead.      *)
Orphaned ==
    /\ Authority \in {"running", "interruption_requested"}
    /\ projection.worker # None
    /\ ~Alive(projection.worker)

FinalizeBegin(f) ==
    /\ pc[f] = "idle"
    /\ finLock = None
    /\ "early" \in Fault \/ heartbeat # None
    /\ obs' = [obs EXCEPT ![f] = IF Orphaned THEN "orphaned" ELSE "unknown"]
    /\ Synchronize(f, "sealedCheck")
    /\ finLock' = f
    /\ UNCHANGED <<events, projection, heartbeat, procResult, evidence,
                   finalStatus, receipt, readOnly, sealLock, procVars, mine,
                   sample, snap>>

AlreadyFinalized(f) ==
    /\ pc[f] \in {"sealedCheck", "polled"}
    /\ receipt # None
    /\ Goto(f, IF SealVerifies THEN "done" ELSE "raised")
    /\ UNCHANGED <<fileVars, procVars, kont, tgt, buf, mine, obs, sample, snap>>

(* A bug for comparison: the pids of the heartbeat are not sampled.        *)
SampleNothing(f) ==
    /\ pc[f] = "sealedCheck"
    /\ receipt = None
    /\ sample' = [sample EXCEPT ![f] = [runner |-> FALSE, executor |-> FALSE]]
    /\ Goto(f, "decide")
    /\ UNCHANGED <<fileVars, procVars, kont, tgt, buf, mine, obs, snap>>

(* The heartbeat is read, and both pids sampled ...                        *)
SampleProcesses(f) ==
    /\ pc[f] = "sealedCheck"
    /\ receipt = None
    /\ sample' = [sample EXCEPT ![f] =
          [runner |-> heartbeat # None /\ Alive(heartbeat),
           executor |-> heartbeat # None /\ executor[heartbeat] = "running"]]
    /\ Goto(f, "decide")
    /\ UNCHANGED <<fileVars, procVars, kont, tgt, buf, mine, obs, snap>>

(* ... before process-result.json is looked for.                           *)
FinalizeRefused(f) ==
    /\ pc[f] = "decide"
    /\ procResult = None
    /\ sample[f].runner \/ sample[f].executor \/ obs[f] # "orphaned"
    /\ Goto(f, "raised")
    /\ UNCHANGED <<fileVars, procVars, kont, tgt, buf, mine, obs, sample, snap>>

(* How recovery classifies a recorded process result.                      *)
RecoveryResult(res) ==
    CASE res.code = "zero" -> "completed"
      [] res.code = "exit130" -> "interrupted"
      [] OTHER -> "failed"

(* A bug for comparison: an orphan observation is demanded with a process  *)
(* result too.                                                             *)
FinalizeProceedsOrphaned(f) ==
    /\ pc[f] = "decide"
    /\ ~sample[f].runner /\ ~sample[f].executor
    /\ obs[f] = "orphaned"
    /\ obs' = [obs EXCEPT ![f] = IF procResult # None
                                 THEN RecoveryResult(procResult) ELSE "lost"]
    /\ Goto(f, "collect")
    /\ UNCHANGED <<fileVars, procVars, kont, tgt, buf, mine, sample, snap>>

FinalizeProceeds(f) ==
    /\ pc[f] = "decide"
    /\ IF procResult # None
       THEN /\ ~sample[f].runner
            /\ obs' = [obs EXCEPT ![f] = RecoveryResult(procResult)]
       ELSE /\ ~sample[f].runner /\ ~sample[f].executor
            /\ obs[f] = "orphaned"
            /\ obs' = [obs EXCEPT ![f] = "lost"]
    /\ Goto(f, "collect")
    /\ UNCHANGED <<fileVars, procVars, kont, tgt, buf, mine, sample, snap>>

(* Bounded wait for a live runner that already has a process result.       *)
ConvergeWait(f) ==
    /\ pc[f] = "decide"
    /\ procResult # None /\ sample[f].runner
    /\ obs' = [obs EXCEPT ![f] = RecoveryResult(procResult)]
    /\ Goto(f, "converge")
    /\ UNCHANGED <<fileVars, procVars, kont, tgt, buf, mine, sample, snap>>

(* Each poll synchronizes the projection before it looks for the receipt.  *)
ConvergePoll(f) ==
    /\ pc[f] = "converge"
    /\ Synchronize(f, "polled")
    /\ UNCHANGED <<fileVars, procVars, mine, obs, sample, snap>>

ConvergeRunnerGone(f) ==
    /\ pc[f] = "polled"
    /\ receipt = None
    /\ ~Alive(heartbeat)
    /\ Goto(f, "collect")
    /\ UNCHANGED <<fileVars, procVars, kont, tgt, buf, mine, obs, sample, snap>>

(* The runner is still alive: poll again, or give up at the deadline.      *)
ConvergeAgain(f) ==
    /\ pc[f] = "polled"
    /\ receipt = None
    /\ Alive(heartbeat)
    /\ Goto(f, "converge") \/ Goto(f, "done")
    /\ UNCHANGED <<fileVars, procVars, kont, tgt, buf, mine, obs, sample, snap>>

(* A bug for comparison: an exception leaves finalization.lock held.       *)
FinalizeEndLocked(f) ==
    /\ pc[f] \in {"done", "raised"}
    /\ finLock' = IF finLock = f /\ pc[f] = "done" THEN None ELSE finLock
    /\ Goto(f, "idle")
    /\ UNCHANGED <<events, projection, heartbeat, procResult, evidence,
                   finalStatus, receipt, readOnly, sealLock, procVars, kont,
                   tgt, buf, mine, obs, sample, snap>>

(* The call is over; the operator or the supervisor may call again.        *)
FinalizeEnd(f) ==
    /\ pc[f] \in {"done", "raised"}
    /\ finLock' = IF finLock = f THEN None ELSE finLock
    /\ Goto(f, "idle")
    /\ UNCHANGED <<events, projection, heartbeat, procResult, evidence,
                   finalStatus, receipt, readOnly, sealLock, procVars, kont,
                   tgt, buf, mine, obs, sample, snap>>

FinalizeStep(f) ==
    \/ FinalizeBegin(f) \/ AlreadyFinalized(f) \/ SampleProcesses(f)
    \/ FinalizeRefused(f) \/ FinalizeProceeds(f) \/ ConvergeWait(f)
    \/ ConvergePoll(f) \/ ConvergeRunnerGone(f) \/ ConvergeAgain(f)
    \/ FinalizeEnd(f)

-----------------------------------------------------------------------------
(* Signals.  Until the runner has installed its handlers, or if it never   *)
(* started an executor, SIGINT and SIGTERM end it; afterwards they are     *)
(* forwarded to the executor, which lives in a session of its own.         *)
(* The caller moves to k, and worker w receives SIGINT or SIGTERM.         *)
SignalAndGoto(p, w, k) ==
    LET dies == Alive(w) /\ (executor[w] = "none" \/ pc[w] = "spawned") IN
    /\ pc' = [q \in Proc |-> IF q = p THEN k
                             ELSE IF q = w /\ dies THEN "dead" ELSE pc[q]]
    /\ sealLock' = IF dies /\ sealLock = w THEN None ELSE sealLock
    /\ signalled' = [r \in Runner |->
          \/ signalled[r]
          \/ r = w /\ Alive(w) /\ ~dies /\ executor[r] = "running"]
    /\ UNCHANGED <<events, projection, heartbeat, procResult, evidence,
                   finalStatus, receipt, readOnly, finLock, executor, exit>>

(* interrupt                                                               *)
Interrupt(i) ==
    /\ pc[i] = "interruptCheck"
    /\ AuthorityReadable /\ Authority \notin TERMINAL_STATUSES
    /\ SignalAndGoto(i, buf[i].worker, "transition")
    /\ tgt' = [tgt EXCEPT ![i] = "interruption_requested"]
    /\ kont' = [kont EXCEPT ![i] = "done"]
    /\ UNCHANGED <<buf, mine, obs, sample, snap>>

(* interrupt and terminate return the projection of a terminal run.        *)
ControlOnTerminal(p) ==
    /\ pc[p] \in {"interruptCheck", "terminateCheck"}
    /\ ~AuthorityReadable \/ Authority \in TERMINAL_STATUSES
    /\ Goto(p, IF AuthorityReadable THEN "done" ELSE "raised")
    /\ UNCHANGED <<fileVars, procVars, kont, tgt, buf, mine, obs, sample, snap>>

(* terminate: SIGINT, grace, SIGTERM, grace, SIGKILL of the worker group.  *)
TerminateInt(t) ==
    /\ pc[t] = "terminateCheck"
    /\ AuthorityReadable /\ Authority \notin TERMINAL_STATUSES
    /\ SignalAndGoto(t, buf[t].worker, "grace")
    /\ UNCHANGED <<kont, tgt, buf, mine, obs, sample, snap>>

WorkerGone(t) ==
    /\ pc[t] \in {"grace", "termGrace"}
    /\ ~Alive(buf[t].worker)
    /\ Goto(t, "terminateProject")
    /\ UNCHANGED <<fileVars, procVars, kont, tgt, buf, mine, obs, sample, snap>>

TerminateTerm(t) ==
    /\ pc[t] = "grace"
    /\ Alive(buf[t].worker)
    /\ SignalAndGoto(t, buf[t].worker, "termGrace")
    /\ UNCHANGED <<kont, tgt, buf, mine, obs, sample, snap>>

TerminateKill(t) ==
    /\ pc[t] = "termGrace"
    /\ Alive(buf[t].worker)
    /\ pc' = [pc EXCEPT ![t] = "terminateProject", ![buf[t].worker] = "dead"]
    /\ sealLock' = IF sealLock = buf[t].worker THEN None ELSE sealLock
    /\ UNCHANGED <<events, projection, heartbeat, procResult, evidence,
                   finalStatus, receipt, readOnly, finLock, procVars, kont,
                   tgt, buf, mine, obs, sample, snap>>

(* A bug for comparison: terminate only refreshes the projection.          *)
TerminateProjectSync(t) ==
    /\ pc[t] = "terminateProject"
    /\ Synchronize(t, "done")
    /\ UNCHANGED <<fileVars, procVars, mine, obs, sample, snap>>

TerminateProject(t) ==
    /\ pc[t] = "terminateProject"
    /\ IF AuthorityReadable /\ Authority \notin TERMINAL_STATUSES
       THEN CallTransition(t, "terminated", "done") /\ UNCHANGED buf
       ELSE Synchronize(t, "done")
    /\ UNCHANGED <<fileVars, procVars, mine, obs, sample, snap>>

ControlStep(p) ==
    \/ Interrupt(p) \/ ControlOnTerminal(p) \/ TerminateInt(p)
    \/ WorkerGone(p) \/ TerminateTerm(p) \/ TerminateKill(p)
    \/ TerminateProject(p)

-----------------------------------------------------------------------------
(* steer, and the supervisor's health samples and incidents: the run is    *)
(* checked to be active, then a journal that gets sealed is appended to.   *)
ActiveCheck(a) ==
    /\ pc[a] = "activeCheck"
    /\ Goto(a, IF AuthorityReadable /\ Authority \notin TERMINAL_STATUSES
               THEN "appendEvidence" ELSE "raised")
    /\ UNCHANGED <<fileVars, procVars, kont, tgt, buf, mine, obs, sample, snap>>

AppendEvidence(a) ==
    /\ pc[a] = "appendEvidence"
    /\ evidence' = IF readOnly THEN evidence
                   ELSE evidence \cup {<<a, "message">>}
    /\ Goto(a, IF readOnly THEN "raised" ELSE "done")
    /\ UNCHANGED <<events, projection, heartbeat, procResult, finalStatus,
                   receipt, readOnly, sealLock, finLock, procVars, kont, tgt,
                   buf, mine, obs, sample, snap>>

-----------------------------------------------------------------------------
(* The environment.                                                        *)
ExecutorExits(r) ==
    /\ executor[r] = "running"
    /\ executor' = [executor EXCEPT ![r] = "exited"]
    /\ \E c \in IF signalled[r] THEN Code ELSE Code \ {"exit130", "signal"} :
         exit' = [exit EXCEPT ![r] = [code |-> c, timedOut |-> FALSE]]
    /\ UNCHANGED <<fileVars, signalled, callVars>>

Kill(p) ==
    /\ pc[p] \notin {"unborn", "idle", "dead", "raised", "done"}
    /\ Goto(p, RaiseLabel(p))
    /\ sealLock' = IF sealLock = p THEN None ELSE sealLock
    /\ UNCHANGED <<events, projection, heartbeat, procResult, evidence,
                   finalStatus, receipt, readOnly, finLock, procVars, kont,
                   tgt, buf, mine, obs, sample, snap>>

-----------------------------------------------------------------------------
RunnerStep(r) ==
    \/ RunnerLaunch(r) \/ SpawnExecutor(r) \/ SpawnFails(r)
    \/ InstallHandlers(r) \/ Heartbeat(r) \/ Timeout(r) \/ NoticeExit(r)
    \/ WriteProcessResult(r) \/ TransitionStep(r) \/ PipelineStep(r)

CallerStep(p) ==
    \/ Begin(p)
    \/ p \in Starter /\ (StartSpawn(p) \/ StartRefused(p))
    \/ p \in Operator /\ (ControlStep(p) \/ ActiveCheck(p) \/ AppendEvidence(p))
    \/ p \in Finalizer /\ (FinalizeStep(p) \/ PipelineStep(p))
    \/ TransitionStep(p)

Next ==
    \/ \E r \in Runner : RunnerStep(r) \/ ExecutorExits(r)
    \/ \E p \in Caller : CallerStep(p)
    \/ \E p \in Killable : Kill(p)

Spec == Init /\ [][Next]_vars

(* A live process executes its next step, an executor ends, and whoever    *)
(* calls finalize keeps calling it (the supervisor's loop does).           *)
FairSpec ==
    /\ Spec
    /\ \A r \in Runner : WF_vars(RunnerStep(r)) /\ WF_vars(ExecutorExits(r))
    /\ \A p \in Caller : WF_vars(CallerStep(p))

-----------------------------------------------------------------------------
Label ==
    {"unborn", "idle", "launch", "spawn", "spawned", "firstBeat", "loop",
     "result",
     "collect", "final", "seal", "receipt", "readonly", "done", "dead",
     "raised", "transition", "appendEvent", "readProjection",
     "writeProjection", "startCheck", "interruptCheck", "terminateCheck",
     "sealedCheck", "activeCheck", "decide", "converge", "polled", "grace",
     "termGrace", "terminateProject", "appendEvidence"}

(* Where a transition or a projection update may return to.                *)
Return == {"spawn", "readonly", "done", "dead", "raised", "startCheck",
           "interruptCheck", "terminateCheck", "sealedCheck", "activeCheck",
           "polled"}

Projection == [status : EXECUTION_STATUSES, worker : Runner \cup {None}]
Evidence == SUBSET (Proc \X {"health", "collection", "message"})
Observation == ExecutorResult \cup {"unknown", "orphaned"}
Seal == [final : FinalStatus, evidence : Evidence]

(* None stands for an absent file or value: it is none of the contents.    *)
ASSUME NoneAssumption ==
    /\ None \notin EXECUTION_STATUSES
    /\ None \notin Result
    /\ None \notin FinalStatus
    /\ None \notin Seal

FilesTypeOK ==
    /\ events \in Seq(EXECUTION_STATUSES) /\ Len(events) > 0
    /\ projection \in Projection
    /\ heartbeat \in Runner \cup {None}
    /\ procResult \in Result \cup {None}
    /\ evidence \in Evidence
    /\ finalStatus \in FinalStatus \cup {None}
    /\ receipt \in Seal \cup {None}
    /\ readOnly \in BOOLEAN
    /\ sealLock \in Proc \cup {None}
    /\ finLock \in Finalizer \cup {None}

ProcsTypeOK ==
    /\ executor \in [Runner -> {"none", "running", "exited"}]
    /\ exit \in [Runner -> Result \cup {None}]
    /\ signalled \in [Runner -> BOOLEAN]

CallsTypeOK ==
    /\ pc \in [Proc -> Label]
    /\ kont \in [Proc -> Return]
    /\ tgt \in [Proc -> EXECUTION_STATUSES \cup {None}]
    /\ buf \in [Proc -> Projection]
    /\ mine \in [Starter -> Runner \cup {None}]
    /\ obs \in [Proc -> Observation]
    /\ sample \in [Finalizer -> [runner : BOOLEAN, executor : BOOLEAN]]
    /\ snap \in [Proc -> Seal \cup {None}]

(* Files, processes and calls have the values their schemas allow.         *)
TypeOK == FilesTypeOK /\ ProcsTypeOK /\ CallsTypeOK

(* The receipt is written once: whoever seals second is refused, even when *)
(* it is the recovery of a pipeline that was killed.                       *)
ReceiptWrittenOnce == [][receipt # None => receipt' = receipt]_vars

(* Nobody can read two different sealed outcomes: a late pipeline may      *)
(* overwrite final-status.json, but then the seal no longer verifies.      *)
SealedOutcomeStable ==
    [][ (receipt # None /\ SealVerifies) /\ SealVerifies'
          => Authority' = Authority ]_vars

(* A run is sealed as completed only if an executor returned zero: recovery*)
(* never turns a missing or failed exit into success.                      *)
NoFabricatedSuccess ==
    receipt # None /\ receipt.final.status = "completed" =>
        \E r \in Runner : exit[r] # None /\ exit[r].code = "zero"

(* The sealed artifacts are the ones the receipt lists, from the moment    *)
(* the receipt exists.                                                     *)
SealIntact == receipt # None => SealVerifies

(* finalize_run "refuses to race an alive runner or executor".             *)
InPipeline(f) == pc[f] \in {"collect", "final", "seal", "receipt"}
FinalizerRefusesToRace ==
    \A f \in Finalizer, r \in Runner :
        InPipeline(f) => ~Alive(r) /\ executor[r] # "running"

(* The safety of recovery.                                                 *)
RecoverySafe == SealIntact /\ FinalizerRefusesToRace

(* A durable process result always leads to a sealed run: if the runner    *)
(* dies anywhere in its terminal pipeline, recovery takes over and seals.  *)
EventuallySealed == procResult # None ~> receipt # None

(* A run whose runner died without a process result is sealed as lost, as  *)
(* soon as its executor is gone and its worker pid is on record.           *)
OrphanEventuallySealed ==
    (/\ \A s \in Starter : pc[s] = "done"
     /\ heartbeat # None /\ projection.worker # None) ~> receipt # None

(* Recovery: whatever the runner left behind is sealed in the end.         *)
SealedInTheEnd == EventuallySealed /\ OrphanEventuallySealed

(* terminate always settles the run, whatever the runner is doing.         *)
TerminateSettles ==
    \A t \in Operator :
        pc[t] = "terminateCheck" ~> Authority \in TERMINAL_STATUSES
-----------------------------------------------------------------------------
(* The inductive invariant behind the theorems of AgentRunProofs.          *)

(* Only the process about to write the receipt holds seal.lock, and while  *)
(* it does there is no receipt.                                            *)
SealLockInv ==
    /\ \A p \in Proc : pc[p] = "receipt" <=> sealLock = p
    /\ sealLock # None => receipt = None

(* What a process is about to write exists.                                *)
CallInv ==
    /\ receipt # None => finalStatus # None
    /\ \A p \in Proc :
         /\ pc[p] \in {"transition", "appendEvent", "final", "seal", "receipt"}
               => tgt[p] # None
         /\ pc[p] \in {"seal", "receipt"} => finalStatus # None
         /\ pc[p] = "receipt" => snap[p] # None

(* An executor is started once, by a runner that has not run one.          *)
BeforeSpawn(r) ==
    \/ pc[r] \in {"unborn", "launch", "spawn"}
    \/ /\ pc[r] \in {"transition", "appendEvent", "readProjection",
                      "writeProjection"}
       /\ kont[r] = "spawn"

ExecutorInv ==
    \A r \in Runner :
        /\ executor[r] = "exited" <=> exit[r] # None
        /\ BeforeSpawn(r) => executor[r] = "none"
        /\ pc[r] \in {"spawned", "firstBeat", "loop"} => executor[r] # "none"
        /\ pc[r] = "result" => executor[r] = "exited"

ZeroExit == \E r \in Runner : exit[r] # None /\ exit[r].code = "zero"

(* A claim of success, wherever it is held, goes back to a zero exit.      *)
SuccessInv ==
    /\ procResult # None /\ procResult.code = "zero" => ZeroExit
    /\ finalStatus # None /\ finalStatus.status = "completed" => ZeroExit
    /\ receipt # None /\ receipt.final.status = "completed" => ZeroExit
    /\ \A p \in Proc :
         /\ obs[p] = "completed" => ZeroExit
         /\ pc[p] = "final" /\ tgt[p] = "completed" => ZeroExit
         /\ snap[p] # None /\ snap[p].final.status = "completed" => ZeroExit

IndInv == TypeOK /\ SealLockInv /\ CallInv /\ ExecutorInv /\ SuccessInv

-----------------------------------------------------------------------------
(* The inductive invariant behind RecoverySafe.  It needs one runner and no*)
(* finalize before the first heartbeat; a seal stays intact only as long as*)
(* no steer or health sample appends a message.  Without any of these the  *)
(* code does race (section 4 of the README).                               *)
SoloRun == (\A r, q \in Runner : r = q) /\ "early" \notin Fault
Quiet == \A o \in Operator : <<o, "message">> \notin evidence

RunnerGone == \A r \in Runner : ~Alive(r)
NoExecutor == \A r \in Runner : executor[r] # "running"

(* What the finalizer with the lock has seen still holds.                  *)
FinalizerInv ==
    \A f \in Finalizer :
        /\ pc[f] # "idle" => finLock = f /\ heartbeat # None
        /\ pc[f] = "decide" => /\ ~sample[f].runner => RunnerGone /\ receipt = None
                               /\ ~sample[f].executor => NoExecutor
        /\ (pc[f] \in {"converge", "polled"} \/ kont[f] = "polled") => procResult # None
        /\ InPipeline(f) => RunnerGone /\ NoExecutor

(* A heartbeat and a process result come from a runner past its spawn.     *)
SpawnedInv ==
    /\ heartbeat # None => \A r \in Runner : ~BeforeSpawn(r)
    /\ procResult # None => NoExecutor /\ \A r \in Runner : ~BeforeSpawn(r)

(* Nobody can write what is sealed: neither the sealed files once there is *)
(* a receipt, nor anything under the hands of the process that seals.      *)
Writing(p) ==
    \/ InPipeline(p)
    \/ p \in Runner /\ (BeforeSpawn(p) \/ pc[p] \in {"spawned", "firstBeat", "loop", "result"})

IntactInv ==
    /\ receipt # None => /\ Quiet => SealVerifies
                         /\ \A p \in Runner \cup Finalizer : ~Writing(p)
    /\ \A p \in Runner \cup Finalizer :
          pc[p] = "receipt" /\ Quiet => snap[p] = [final |-> finalStatus, evidence |-> evidence]

RecoveryInv == SoloRun /\ IndInv /\ FinalizerInv /\ SpawnedInv /\ IntactInv
=============================================================================
