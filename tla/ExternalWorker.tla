--------------------------- MODULE ExternalWorker ---------------------------
(* An external agent run: the binding journal that says which host worker  *)
(* owns it, the commands a host authorizes with a binding generation, the  *)
(* retirement of a run nobody took, and the host's own projection of the   *)
(* terminals it has to close.  The binding gate is held by bind, unbind    *)
(* and report_delivery only; every other command checks first and acts     *)
(* later.                                                                  *)
EXTENDS Naturals, FiniteSets

CONSTANTS
    Host,           \* external workers
    Command,        \* command processes in progress
    MaxGeneration,  \* bound on the bindings
    MaxDelivery,    \* bound on the delivery reports
    Nobody

ASSUME ExternalAssumption == MaxGeneration \in Nat /\ Nobody \notin Command \cup Host

VARIABLES
    execution,      \* execution state in events.jsonl
    workerId,       \* status.json carries the worker id of the binding
    generation,     \* generation of the last binding
    boundTo,        \* the host worker bound now, or Nobody
    exitGeneration, \* generation in external-worker-exit.json, 0: no file
    gate,           \* holder of external-worker-binding.lock
    op,             \* what each command does: kind, generation, step
    deliveries,     \* history: generation reported, generation bound then
    dispatched,     \* history: the runner spawned the model process
    raced,          \* history: a start was appended after the retirement
    projection,     \* the host's record of each generation
    closed          \* the terminals the host has closed, by generation

binding == <<generation, boundTo>>
host == <<projection, closed>>
external == <<execution, workerId, binding, exitGeneration, gate, op,
              deliveries, dispatched, raced, host>>

Generation == 1..MaxGeneration
Ended == {"completed", "retired"}
Idle == [kind |-> "idle", generation |-> 0, step |-> "none"]
Kinds == {"start", "retire", "exit", "report", "dispatch", "reconcile"}
Steps == {"checked", "valid", "absent", "closing"}

Bound == boundTo # Nobody
Going(c, kind, step) == op[c].kind = kind /\ op[c].step = step
Enter(c, kind, g, step) ==
    op' = [op EXCEPT ![c] = [kind |-> kind, generation |-> g, step |-> step]]
Proceed(c, step) == op' = [op EXCEPT ![c].step = step]
Leave(c) == op' = [op EXCEPT ![c] = Idle]

(* _require_generation: bound, and the generation is not stale.            *)
Authorized(g) == Bound /\ g = generation

-----------------------------------------------------------------------------
(* A bug for comparison: bind does not wait for the gate.                  *)
BindUngated(h) ==
    /\ boundTo # h /\ generation < MaxGeneration
    /\ boundTo' = h /\ generation' = generation + 1
    /\ UNCHANGED <<execution, workerId, exitGeneration, gate, op, deliveries,
                   dispatched, raced, host>>

(* bind: a new generation, unless this host is bound already.              *)
BindHost(h) ==
    /\ gate = Nobody /\ boundTo # h /\ generation < MaxGeneration
    /\ boundTo' = h /\ generation' = generation + 1
    /\ UNCHANGED <<execution, workerId, exitGeneration, gate, op, deliveries,
                   dispatched, raced, host>>

UnbindHost ==
    /\ gate = Nobody /\ Bound
    /\ boundTo' = Nobody
    /\ UNCHANGED <<execution, workerId, generation, exitGeneration, gate, op,
                   deliveries, dispatched, raced, host>>

-----------------------------------------------------------------------------
(* The state an event leads to; a sealed outcome is authoritative.         *)
AppendEvent(new) ==
    execution' = IF execution = "completed" THEN "completed" ELSE new

(* start: generation and state are checked, the transition checks the      *)
(* state again, and the event is appended.                                 *)
StartCheck(c, g) ==
    /\ op[c] = Idle /\ Authorized(g) /\ execution \in {"prepared", "running"}
    /\ Enter(c, "start", g, "checked")
    /\ UNCHANGED <<execution, workerId, binding, exitGeneration, gate, deliveries,
                   dispatched, raced, host>>

StartTransition(c) ==
    /\ Going(c, "start", "checked")
    /\ IF execution = "prepared" THEN Proceed(c, "valid") ELSE Leave(c)
    /\ UNCHANGED <<execution, workerId, binding, exitGeneration, gate, deliveries,
                   dispatched, raced, host>>

StartAppend(c) ==
    /\ Going(c, "start", "valid")
    /\ AppendEvent("running") /\ workerId' = TRUE
    /\ raced' = (raced \/ execution = "retired") /\ Leave(c)
    /\ UNCHANGED <<binding, exitGeneration, gate, deliveries, dispatched, host>>

(* retire_external_agent: prepared and unbound when looked at.             *)
RetireCheck(c) ==
    /\ op[c] = Idle /\ execution = "prepared" /\ ~Bound
    /\ Enter(c, "retire", 0, "checked")
    /\ UNCHANGED <<execution, workerId, binding, exitGeneration, gate, deliveries,
                   dispatched, raced, host>>

RetireTransition(c) ==
    /\ Going(c, "retire", "checked")
    /\ IF execution = "prepared" THEN Proceed(c, "valid") ELSE Leave(c)
    /\ UNCHANGED <<execution, workerId, binding, exitGeneration, gate, deliveries,
                   dispatched, raced, host>>

RetireAppend(c) ==
    /\ Going(c, "retire", "valid")
    /\ AppendEvent("retired") /\ Leave(c)
    /\ UNCHANGED <<workerId, binding, exitGeneration, gate, deliveries, dispatched,
                   raced, host>>

-----------------------------------------------------------------------------
(* report_delivery: the gate is taken, the generation checked, the report  *)
(* recorded, the gate given back.                                          *)
ReportCheck(c, g) ==
    /\ op[c] = Idle /\ gate = Nobody /\ Authorized(g)
    /\ Cardinality(deliveries) < MaxDelivery
    /\ Enter(c, "report", g, "checked") /\ gate' = c
    /\ UNCHANGED <<execution, workerId, binding, exitGeneration, deliveries,
                   dispatched, raced, host>>

ReportRecord(c) ==
    /\ Going(c, "report", "checked")
    /\ deliveries' = deliveries \cup
          {[reported |-> op[c].generation, current |-> IF Bound THEN generation ELSE 0]}
    /\ gate' = Nobody /\ Leave(c)
    /\ UNCHANGED <<execution, workerId, binding, exitGeneration, dispatched, raced,
                   host>>

(* require_dispatch_ready, then the runner spawns the model process.       *)
DispatchCheck(c) ==
    /\ op[c] = Idle /\ Bound /\ execution = "running" /\ workerId
    /\ Enter(c, "dispatch", generation, "checked")
    /\ UNCHANGED <<execution, workerId, binding, exitGeneration, gate, deliveries,
                   dispatched, raced, host>>

Dispatch(c) ==
    /\ Going(c, "dispatch", "checked")
    /\ dispatched' = TRUE /\ Leave(c)
    /\ UNCHANGED <<execution, workerId, binding, exitGeneration, gate, deliveries,
                   raced, host>>

(* external_exit: generation and state, then whether a record exists, then *)
(* the write.  A record of another generation refuses this one for good.   *)
ExitCheck(c, g) ==
    /\ op[c] = Idle /\ Authorized(g) /\ execution = "running"
    /\ Enter(c, "exit", g, "checked")
    /\ UNCHANGED <<execution, workerId, binding, exitGeneration, gate, deliveries,
                   dispatched, raced, host>>

ExitLook(c) ==
    /\ Going(c, "exit", "checked")
    /\ IF exitGeneration = 0 THEN Proceed(c, "absent") ELSE Leave(c)
    /\ UNCHANGED <<execution, workerId, binding, exitGeneration, gate, deliveries,
                   dispatched, raced, host>>

ExitWrite(c) ==
    /\ Going(c, "exit", "absent")
    /\ exitGeneration' = op[c].generation /\ Leave(c)
    /\ UNCHANGED <<execution, workerId, binding, gate, deliveries, dispatched,
                   raced, host>>

(* finalize_run of an external run: the exit record stands in for a        *)
(* process result, whatever its generation.                                *)
FinalizeExternal ==
    /\ execution = "running" /\ exitGeneration # 0
    /\ execution' = "completed"
    /\ UNCHANGED <<workerId, binding, exitGeneration, gate, op, deliveries,
                   dispatched, raced, host>>

-----------------------------------------------------------------------------
(* ExternalHostProjection, in the host.                                    *)

Register ==
    /\ Bound /\ projection[generation] = "none"
    /\ projection' = [projection EXCEPT ![generation] = "open"]
    /\ UNCHANGED <<execution, workerId, binding, exitGeneration, gate, op,
                   deliveries, dispatched, raced, closed>>

(* A bug for comparison: any status but prepared counts as an end.         *)
ReconcileIntentStarted(c) ==
    /\ op[c] = Idle /\ Bound /\ execution # "prepared"
    /\ projection[generation] \in {"open", "pending"}
    /\ projection' = [projection EXCEPT ![generation] = "pending"]
    /\ Enter(c, "reconcile", generation, "closing")
    /\ UNCHANGED <<execution, workerId, binding, exitGeneration, gate, deliveries,
                   dispatched, raced, closed>>

(* The first half of reconcile: a bound, registered generation of a run    *)
(* that has ended; the intent is recorded before anything is closed.       *)
ReconcileIntent(c) ==
    /\ op[c] = Idle /\ Bound /\ execution \in Ended
    /\ projection[generation] \in {"open", "pending"}
    /\ projection' = [projection EXCEPT ![generation] = "pending"]
    /\ Enter(c, "reconcile", generation, "closing")
    /\ UNCHANGED <<execution, workerId, binding, exitGeneration, gate, deliveries,
                   dispatched, raced, closed>>

(* close may raise; then the projection stays pending.                     *)
ReconcileClose(c) ==
    /\ Going(c, "reconcile", "closing")
    /\ \/ closed' = closed \cup {op[c].generation} /\ Proceed(c, "valid")
       \/ Leave(c) /\ UNCHANGED closed
    /\ UNCHANGED <<execution, workerId, binding, exitGeneration, gate, deliveries,
                   dispatched, raced, projection>>

ReconcileRetired(c) ==
    /\ Going(c, "reconcile", "valid")
    /\ projection' = [projection EXCEPT ![op[c].generation] = "retired"]
    /\ Leave(c)
    /\ UNCHANGED <<execution, workerId, binding, exitGeneration, gate, deliveries,
                   dispatched, raced, closed>>

(* A command dies; the kernel gives its lock back.                         *)
KillCommand(c) ==
    /\ op[c] # Idle /\ Leave(c)
    /\ gate' = IF gate = c THEN Nobody ELSE gate
    /\ UNCHANGED <<execution, workerId, binding, exitGeneration, deliveries,
                   dispatched, raced, host>>

-----------------------------------------------------------------------------
ExternalInit ==
    /\ execution = "prepared" /\ workerId = FALSE
    /\ generation = 0 /\ boundTo = Nobody /\ exitGeneration = 0
    /\ gate = Nobody /\ op = [c \in Command |-> Idle]
    /\ deliveries = {} /\ dispatched = FALSE /\ raced = FALSE
    /\ projection = [g \in Generation |-> "none"] /\ closed = {}

CommandStep(c) ==
    \/ \E g \in Generation : StartCheck(c, g) \/ ReportCheck(c, g) \/ ExitCheck(c, g)
    \/ StartTransition(c) \/ StartAppend(c)
    \/ RetireCheck(c) \/ RetireTransition(c) \/ RetireAppend(c)
    \/ ReportRecord(c) \/ DispatchCheck(c) \/ Dispatch(c)
    \/ ExitLook(c) \/ ExitWrite(c)
    \/ ReconcileIntent(c) \/ ReconcileClose(c) \/ ReconcileRetired(c)
    \/ KillCommand(c)

ExternalNext ==
    \/ \E h \in Host : BindHost(h)
    \/ UnbindHost \/ FinalizeExternal \/ Register
    \/ \E c \in Command : CommandStep(c)

ExternalSpec == ExternalInit /\ [][ExternalNext]_external

-----------------------------------------------------------------------------
ExternalTypeOK ==
    /\ execution \in {"prepared", "running"} \cup Ended
    /\ workerId \in BOOLEAN /\ dispatched \in BOOLEAN /\ raced \in BOOLEAN
    /\ generation \in 0..MaxGeneration /\ boundTo \in Host \cup {Nobody}
    /\ exitGeneration \in 0..MaxGeneration
    /\ gate \in Command \cup {Nobody}
    /\ op \in [Command -> [kind : Kinds, generation : 0..MaxGeneration, step : Steps]
                            \cup {Idle}]
    /\ deliveries \subseteq [reported : Generation, current : 0..MaxGeneration]
    /\ projection \in [Generation -> {"none", "open", "pending", "retired"}]
    /\ closed \subseteq Generation

(* A host that was replaced or unbound records no delivery any more: each  *)
(* report in the steering journal was made under the binding of its        *)
(* generation, whatever bind, unbind or kill came between.                 *)
DeliveryUnderCurrentBinding ==
    \A d \in deliveries : d.reported = d.current

(* The host closes no terminal of a run that still goes on, and no model   *)
(* process is dispatched before a bound host recorded a start.  A start    *)
(* that is appended after a retirement it did not see is the exception     *)
(* (run_lifecycle.py:135).                                                 *)
HostActsOnRecord ==
    /\ closed # {} => execution \in Ended \/ raced
    /\ dispatched => workerId

(* The safety of external workers: only the bound host reports, and hosts  *)
(* act on what the run recorded.                                           *)
ExternalSafe == ExternalTypeOK /\ DeliveryUnderCurrentBinding /\ HostActsOnRecord

-----------------------------------------------------------------------------
(* The inductive invariant behind ExternalIsSafe in ProvisionProofs: what  *)
(* a command found when it checked, and that still holds when it acts.     *)
CheckedStillHolds ==
    /\ Bound => generation \in Generation
    /\ \A c \in Command :
        /\ op[c].kind = "report" => gate = c /\ Authorized(op[c].generation)
        /\ op[c].kind = "dispatch" => workerId
        /\ op[c].kind = "reconcile" => execution \in Ended \/ raced
        /\ op[c].kind \in {"report", "exit", "reconcile"} => op[c].generation \in Generation

ExternalInv == ExternalSafe /\ CheckedStillHolds
=============================================================================
