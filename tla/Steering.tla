------------------------------ MODULE Steering ------------------------------
(***************************************************************************)
(* Steering requests and their delivery: the message log, the delivery     *)
(* journal, the inbox files of a cooperative executor, and the intents its *)
(* child commands write for the runner to consume.                         *)
(*                                                                         *)
(* steer and acknowledge are commands of their own; the runner polls,      *)
(* drains intents and delivers requests in a loop until the executor has   *)
(* exited, and once more afterwards.  Both logs are journals, so an append *)
(* with its checks is one step (see Journal); a check made before the      *)
(* append, outside the lock, is a step of its own.                         *)
(***************************************************************************)
EXTENDS Naturals, Sequences, FiniteSets

CONSTANTS
    Steer,       \* steer calls, and the message each one persists
    HostAck,     \* agent-run acknowledge calls on the host
    ChildAck,    \* acknowledge calls of the executor, through the bridge
    Host,        \* external host calls: fetch a pending request and report
    Adapters,    \* adapters the run's steering policy may name
    Killable,    \* calls that may be killed at any step
    RunnerDies,  \* may the runner be killed?
    InboxFails,  \* may publishing an inbox file fail?
    None

SUPPORTED_ADAPTERS == {"unsupported", "control-file-v1", "external-host-v1"}
ACK_TERMINAL_OUTCOMES == {"applied", "rejected", "expired"}
DELIVERY_STOP_OUTCOMES == ACK_TERMINAL_OUTCOMES \cup {"unsupported", "failed"}
OUTCOMES == {"queued", "delivered"} \cup DELIVERY_STOP_OUTCOMES
AckOutcome == {"applied", "rejected"}
Disposition == {"applied", "duplicate", "stale", "tooLate", "conflict"}

MaxAttempt == 2   \* bound on the attempt number a host reports

Call == Steer \cup HostAck \cup ChildAck \cup Host

ASSUME CallAssumption ==
    /\ Adapters \subseteq SUPPORTED_ADAPTERS
    /\ Killable \subseteq Call
    /\ RunnerDies \in BOOLEAN /\ InboxFails \in BOOLEAN
    /\ None \notin Steer /\ None \notin Disposition
    /\ Steer \cap (HostAck \cup ChildAck \cup Host) = {}
    /\ HostAck \cap (ChildAck \cup Host) = {}
    /\ ChildAck \cap Host = {}

VARIABLES
    messages,   \* messages.jsonl: kind, and the steer request it is about
    delivery,   \* steering-delivery.jsonl: request, outcome, attempt
    inbox,      \* requests published in the executor's steering inbox
    intents,    \* intent files in the control bridge
    handled,    \* control-intents.jsonl: what the runner did with each
    adapter,    \* the adapter named when the run was prepared
    late,       \* requests whose deadline has elapsed
    executor,   \* "running" or "exited"
    sealed,     \* the run is terminal
    pc, arg,    \* per call: where it is; the request and outcome it is about
    rpc,        \* where the runner is
    phase,      \* "loop", or "final" once the exit has been observed
    active,     \* the last poll found the executor running
    queue,      \* intents of this drain still to be looked at
    todo,       \* requests of this delivery pass: their places in the log
    cur         \* the intent being applied

logVars == <<messages, delivery, inbox, intents, handled>>
envVars == <<adapter, late, executor, sealed>>
callVars == <<pc, arg>>
runnerVars == <<rpc, phase, active, queue, todo, cur>>
vars == <<logVars, envVars, callVars, runnerVars>>

-----------------------------------------------------------------------------
Persisted(m) == \E i \in 1..Len(messages) :
                    messages[i].kind = "steer" /\ messages[i].of = m

Acknowledged(m) == \E i \in 1..Len(messages) :
                    messages[i].kind = "ack" /\ messages[i].of = m

(* append_message; an ack must follow its steer and be the only one.       *)
Message(kind, m) == messages' = Append(messages, [kind |-> kind, of |-> m])
(* A bug for comparison: an acknowledged request may be acknowledged       *)
(* again.                                                                  *)
AckAllowedAgain(m) == Persisted(m)
AckAllowed(m) == Persisted(m) /\ ~Acknowledged(m)

EventsOf(m) == {i \in 1..Len(delivery) : delivery[i].of = m}
HasOutcome(m, S) == \E i \in EventsOf(m) : delivery[i].outcome \in S

(* current_delivery: the outcome of the latest event, or None.             *)
Current(m) ==
    IF EventsOf(m) = {} THEN None
    ELSE delivery[CHOOSE i \in EventsOf(m) :
                     \A j \in EventsOf(m) : j <= i].outcome

(* A bug for comparison: an acknowledgement is recorded over terminal      *)
(* evidence.                                                               *)
SupersededByStop(m, outcome, attempt) ==
    \/ HasOutcome(m, DELIVERY_STOP_OUTCOMES) /\ outcome \notin AckOutcome
    \/ \E i \in EventsOf(m) : /\ delivery[i].outcome = outcome
                              /\ delivery[i].attempt = attempt

(* append_delivery_event: terminal evidence, a stop (unless acknowledged), *)
(* and an event already recorded are returned instead of appended to.      *)
Superseded(m, outcome, attempt) ==
    \/ HasOutcome(m, ACK_TERMINAL_OUTCOMES)
    \/ HasOutcome(m, DELIVERY_STOP_OUTCOMES) /\ outcome \notin AckOutcome
    \/ \E i \in EventsOf(m) : /\ delivery[i].outcome = outcome
                              /\ delivery[i].attempt = attempt

RecordDelivery(m, outcome, attempt) ==
    delivery' = IF Superseded(m, outcome, attempt) THEN delivery
                ELSE Append(delivery, [of |-> m, outcome |-> outcome,
                                       attempt |-> attempt])

-----------------------------------------------------------------------------
Init ==
    /\ messages = <<>> /\ delivery = <<>> /\ inbox = {} /\ intents = {}
    /\ handled = <<>>
    /\ adapter \in Adapters
    /\ late = {} /\ executor = "running" /\ sealed = FALSE
    /\ pc = [c \in Call |-> "idle"]
    /\ arg = [c \in Call |-> None]
    /\ rpc = "poll" /\ phase = "loop" /\ active = TRUE
    /\ queue = {} /\ todo = {} /\ cur = None

Goto(c, label) == pc' = [pc EXCEPT ![c] = label]

-----------------------------------------------------------------------------
(* steer: the request is persisted first, then queue_request.              *)
SteerPersist(s) ==
    /\ pc[s] = "idle" /\ ~sealed
    /\ Goto(s, "append")
    /\ UNCHANGED <<logVars, envVars, arg, runnerVars>>

SteerAppend(s) ==
    /\ pc[s] = "append"
    /\ Message("steer", s)
    /\ Goto(s, "queueCheck")
    /\ UNCHANGED <<delivery, inbox, intents, handled, envVars, arg, runnerVars>>

(* The runner may have delivered the request already.                      *)
QueueCheck(s) ==
    /\ pc[s] = "queueCheck"
    /\ Goto(s, IF Current(s) = None THEN "queue" ELSE "done")
    /\ UNCHANGED <<logVars, envVars, arg, runnerVars>>

QueueAppend(s) ==
    /\ pc[s] = "queue"
    /\ RecordDelivery(s, "queued", 0)
    /\ Goto(s, IF adapter = "unsupported" THEN "queueUnsupported" ELSE "done")
    /\ UNCHANGED <<messages, inbox, intents, handled, envVars, arg, runnerVars>>

QueueUnsupported(s) ==
    /\ pc[s] = "queueUnsupported"
    /\ RecordDelivery(s, "unsupported", 0)
    /\ Goto(s, "done")
    /\ UNCHANGED <<messages, inbox, intents, handled, envVars, arg, runnerVars>>

SteerStep(s) ==
    \/ SteerPersist(s) \/ SteerAppend(s) \/ QueueCheck(s) \/ QueueAppend(s)
    \/ QueueUnsupported(s)

-----------------------------------------------------------------------------
(* acknowledge on the host.                                                *)
AckBegin(h) ==
    /\ pc[h] = "idle" /\ ~sealed
    /\ \E m \in Steer, o \in AckOutcome :
         /\ Persisted(m)
         /\ arg' = [arg EXCEPT ![h] = [of |-> m, outcome |-> o]]
    /\ Goto(h, "check")
    /\ UNCHANGED <<logVars, envVars, runnerVars>>

(* A bug for comparison: the outcome is recorded before its message is     *)
(* appended.                                                               *)
AckCheckRecords(h) ==
    /\ pc[h] = "check"
    /\ RecordDelivery(arg[h].of, arg[h].outcome, 1)
    /\ Goto(h, "append")
    /\ UNCHANGED <<messages, inbox, intents, handled, envVars, arg, runnerVars>>

AckCheck(h) ==
    /\ pc[h] = "check"
    /\ Goto(h, IF Current(arg[h].of) \in ACK_TERMINAL_OUTCOMES
               THEN "done" ELSE "append")
    /\ UNCHANGED <<logVars, envVars, arg, runnerVars>>

AckAppend(h) ==
    /\ pc[h] = "append"
    /\ IF AckAllowed(arg[h].of)
       THEN Message("ack", arg[h].of) /\ Goto(h, "record")
       ELSE Goto(h, "done") /\ UNCHANGED messages
    /\ UNCHANGED <<delivery, inbox, intents, handled, envVars, arg, runnerVars>>

(* record_acknowledgement, whatever it finds; the caller is told o.        *)
AckRecord(h) ==
    /\ pc[h] = "record"
    /\ RecordDelivery(arg[h].of, arg[h].outcome, 1)
    /\ Goto(h, "reported")
    /\ UNCHANGED <<messages, inbox, intents, handled, envVars, arg, runnerVars>>

AckStep(h) == AckBegin(h) \/ AckCheck(h) \/ AckAppend(h) \/ AckRecord(h)

-----------------------------------------------------------------------------
(* write_control_intent, in the executor: the next sequence is computed    *)
(* from the directory, then the file is written.  An intent acknowledges a *)
(* request or reports progress.                                            *)
Allocated == {i.sequence : i \in intents}
NextSequence == CHOOSE n \in 1..Cardinality(intents) + 1 :
                    /\ \A k \in Allocated : k < n
                    /\ n = 1 \/ n - 1 \in Allocated

(* The executor knows a request from its inbox or from the external host.  *)
Heard(m) == m \in inbox \/ (adapter = "external-host-v1" /\ Persisted(m))

IntentAllocate(c) ==
    /\ pc[c] = "idle" /\ executor = "running"
    /\ \E m \in {s \in Steer : Heard(s)} \cup {None},
          o \in AckOutcome \cup {"progress"} :
         /\ m = None <=> o = "progress"
         /\ arg' = [arg EXCEPT ![c] = [of |-> m, outcome |-> o,
                                       sequence |-> NextSequence, call |-> c]]
    /\ Goto(c, "write")
    /\ UNCHANGED <<logVars, envVars, runnerVars>>

IntentWrite(c) ==
    /\ pc[c] = "write" /\ executor = "running"
    /\ intents' = intents \cup {arg[c]}
    /\ arg' = [arg EXCEPT ![c] = None]
    /\ Goto(c, "done")
    /\ UNCHANGED <<messages, delivery, inbox, handled, envVars, runnerVars>>

-----------------------------------------------------------------------------
(* An external host: pending_external_deliveries, then the report of one   *)
(* delivery by record_external_delivery.                                   *)
HostFetch(h) ==
    /\ adapter = "external-host-v1"
    /\ pc[h] = "idle"
    /\ \E m \in Steer :
         /\ Persisted(m) /\ Current(m) \in {None, "queued"}
         /\ arg' = [arg EXCEPT ![h] = [of |-> m, outcome |-> "delivered"]]
    /\ Goto(h, "report")
    /\ UNCHANGED <<logVars, envVars, runnerVars>>

HostReport(h) ==
    /\ pc[h] = "report"
    /\ \E o \in {"delivered", "failed"}, a \in 1..MaxAttempt :
         RecordDelivery(arg[h].of, o, a)
    /\ Goto(h, "done")
    /\ UNCHANGED <<messages, inbox, intents, handled, envVars, arg, runnerVars>>

-----------------------------------------------------------------------------
(* The runner.  Each turn of its loop polls the executor, drains the       *)
(* bridge, and delivers; after the exit it drains and delivers once more.  *)
Poll ==
    /\ rpc = "poll"
    /\ active' = (executor = "running")
    /\ rpc' = "drain"
    /\ UNCHANGED <<logVars, envVars, callVars, phase, queue, todo, cur>>

HandledCalls == {handled[i].call : i \in 1..Len(handled)}
LastSequence ==
    IF handled = <<>> THEN 0
    ELSE CHOOSE n \in {handled[i].sequence : i \in 1..Len(handled)} :
             \A i \in 1..Len(handled) : handled[i].sequence <= n

DrainList ==
    /\ rpc = "drain"
    /\ queue' = {i \in intents : i.call \notin HandledCalls}
    /\ rpc' = "drainEach"
    /\ UNCHANGED <<logVars, envVars, callVars, phase, active, todo, cur>>

Lowest(i) == i \in queue /\ \A j \in queue : i.sequence <= j.sequence

Handle(i, outcome) ==
    handled' = Append(handled, [call |-> i.call, sequence |-> i.sequence,
                                outcome |-> outcome])

(* A bug for comparison: the sequence of an intent is not looked at.       *)
RefusalUnordered(i) ==
    IF ~active THEN "tooLate"
    ELSE IF Current(i.of) \in ACK_TERMINAL_OUTCOMES \ {i.outcome}
         THEN "conflict"
    ELSE None

(* Why an intent is refused: a sequence out of order, a late arrival, or   *)
(* other terminal evidence.                                                *)
Refusal(i) ==
    IF i.sequence # LastSequence + 1 THEN "stale"
    ELSE IF ~active THEN "tooLate"
    ELSE IF Current(i.of) \in ACK_TERMINAL_OUTCOMES \ {i.outcome}
         THEN "conflict"
    ELSE None

(* A refusal is reported by an error message and recorded.                 *)
DrainRefuse(i) ==
    /\ rpc = "drainEach" /\ Lowest(i)
    /\ Refusal(i) # None
    /\ Message("error", i.of)
    /\ Handle(i, Refusal(i))
    /\ queue' = queue \ {i}
    /\ UNCHANGED <<delivery, inbox, intents, envVars, callVars, rpc, phase,
                   active, todo, cur>>

DrainProgress(i) ==
    /\ rpc = "drainEach" /\ Lowest(i)
    /\ Refusal(i) = None
    /\ i.of = None
    /\ Message("progress", None)
    /\ Handle(i, "applied")
    /\ queue' = queue \ {i}
    /\ UNCHANGED <<delivery, inbox, intents, envVars, callVars, rpc, phase,
                   active, todo, cur>>

DrainDuplicate(i) ==
    /\ rpc = "drainEach" /\ Lowest(i)
    /\ Refusal(i) = None
    /\ i.of # None /\ Current(i.of) = i.outcome
    /\ Handle(i, "duplicate")
    /\ queue' = queue \ {i}
    /\ UNCHANGED <<messages, delivery, inbox, intents, envVars, callVars, rpc,
                   phase, active, todo, cur>>

DrainAccept(i) ==
    /\ rpc = "drainEach" /\ Lowest(i)
    /\ Refusal(i) = None
    /\ i.of # None /\ Current(i.of) # i.outcome
    /\ cur' = i
    /\ queue' = queue \ {i}
    /\ rpc' = "drainAppend"
    /\ UNCHANGED <<logVars, envVars, callVars, phase, active, todo>>

DrainAppend ==
    /\ rpc = "drainAppend"
    /\ IF AckAllowed(cur.of)
       THEN /\ Message("ack", cur.of)
            /\ rpc' = "drainRecord"
            /\ UNCHANGED <<handled, cur>>
       ELSE /\ Message("error", cur.of)
            /\ Handle(cur, "conflict")
            /\ rpc' = "drainEach" /\ cur' = None
    /\ UNCHANGED <<delivery, inbox, intents, envVars, callVars, phase, active,
                   queue, todo>>

DrainRecord ==
    /\ rpc = "drainRecord"
    /\ RecordDelivery(cur.of, cur.outcome, 1)
    /\ Handle(cur, "applied")
    /\ rpc' = "drainEach" /\ cur' = None
    /\ UNCHANGED <<messages, inbox, intents, envVars, callVars, phase, active,
                   queue, todo>>

(* Not active: leave the loop, and drain once more as inactive.            *)
DrainDone ==
    /\ rpc = "drainEach" /\ queue = {}
    /\ IF phase = "loop" /\ ~active
       THEN rpc' = "drain" /\ phase' = "final"
       ELSE rpc' = "deliver" /\ UNCHANGED phase
    /\ UNCHANGED <<logVars, envVars, callVars, active, queue, todo, cur>>

-----------------------------------------------------------------------------
(* deliver_pending works on one snapshot of both logs.                     *)
Undelivered(msg) ==
    msg.kind = "steer"
    /\ ~HasOutcome(msg.of, DELIVERY_STOP_OUTCOMES \cup {"delivered"})

DeliverList ==
    /\ rpc = "deliver"
    /\ todo' = {i \in 1..Len(messages) : Undelivered(messages[i])}
    /\ rpc' = "deliverEach"
    /\ UNCHANGED <<logVars, envVars, callVars, phase, active, queue, cur>>

Deliverable == rpc = "deliverEach" /\ todo # {} /\ adapter # "unsupported"
First == CHOOSE i \in todo : \A j \in todo : i <= j
Subject == messages[First].of

(* An unsupported adapter only has queue_request called again.             *)
DeliverUnsupported ==
    /\ rpc = "deliverEach" /\ todo # {} /\ adapter = "unsupported"
    /\ IF Current(Subject) = None
       THEN rpc' = "deliverQueue" /\ UNCHANGED todo
       ELSE todo' = todo \ {First} /\ UNCHANGED rpc
    /\ UNCHANGED <<logVars, envVars, callVars, phase, active, queue, cur>>

DeliverQueued ==
    /\ rpc = "deliverQueue"
    /\ RecordDelivery(Subject, "queued", 0)
    /\ rpc' = "deliverStop"
    /\ UNCHANGED <<messages, inbox, intents, handled, envVars, callVars, phase,
                   active, queue, todo, cur>>

DeliverStop ==
    /\ rpc = "deliverStop"
    /\ RecordDelivery(Subject, "unsupported", 0)
    /\ todo' = todo \ {First}
    /\ rpc' = "deliverEach"
    /\ UNCHANGED <<messages, inbox, intents, handled, envVars, callVars, phase,
                   active, queue, cur>>

DeliverExpired ==
    /\ Deliverable
    /\ Subject \in late
    /\ RecordDelivery(Subject, "expired", 0)
    /\ todo' = todo \ {First}
    /\ UNCHANGED <<messages, inbox, intents, handled, envVars, callVars, rpc,
                   phase, active, queue, cur>>

(* A bug for comparison: a request that comes too late leaves no           *)
(* evidence.                                                               *)
DeliverInactiveSkips ==
    /\ Deliverable
    /\ Subject \notin late /\ ~active
    /\ todo' = todo \ {First}
    /\ UNCHANGED <<logVars, envVars, callVars, rpc, phase, active, queue, cur>>

DeliverInactive ==
    /\ Deliverable
    /\ Subject \notin late /\ ~active
    /\ RecordDelivery(Subject, "failed", 0)
    /\ todo' = todo \ {First}
    /\ UNCHANGED <<messages, inbox, intents, handled, envVars, callVars, rpc,
                   phase, active, queue, cur>>

DeliverExternal ==
    /\ Deliverable
    /\ Subject \notin late /\ active
    /\ adapter = "external-host-v1"
    /\ todo' = todo \ {First}
    /\ UNCHANGED <<logVars, envVars, callVars, rpc, phase, active, queue, cur>>

Publish ==
    /\ Deliverable
    /\ Subject \notin late /\ active
    /\ adapter = "control-file-v1"
    /\ inbox' = inbox \cup {Subject}
    /\ rpc' = "deliverRecord"
    /\ UNCHANGED <<messages, delivery, intents, handled, envVars, callVars,
                   phase, active, queue, todo, cur>>

(* A bug for comparison: a failed publication is recorded as delivered.    *)
PublishFailsSilently ==
    /\ InboxFails
    /\ Deliverable
    /\ Subject \notin late /\ active
    /\ adapter = "control-file-v1"
    /\ RecordDelivery(Subject, "delivered", 1)
    /\ todo' = todo \ {First}
    /\ UNCHANGED <<messages, inbox, intents, handled, envVars, callVars, rpc,
                   phase, active, queue, cur>>

PublishFails ==
    /\ InboxFails
    /\ Deliverable
    /\ Subject \notin late /\ active
    /\ adapter = "control-file-v1"
    /\ RecordDelivery(Subject, "failed", 1)
    /\ todo' = todo \ {First}
    /\ UNCHANGED <<messages, inbox, intents, handled, envVars, callVars, rpc,
                   phase, active, queue, cur>>

DeliverRecord ==
    /\ rpc = "deliverRecord"
    /\ RecordDelivery(Subject, "delivered", 1)
    /\ todo' = todo \ {First}
    /\ rpc' = "deliverEach"
    /\ UNCHANGED <<messages, inbox, intents, handled, envVars, callVars, phase,
                   active, queue, cur>>

(* The wait at the end of a turn returns at once when the executor exits.  *)
TurnEnds ==
    /\ rpc = "deliverEach" /\ todo = {}
    /\ IF phase = "final"
       THEN rpc' = "seal" /\ UNCHANGED <<phase, active>>
       ELSE IF executor = "exited"
       THEN rpc' = "drain" /\ phase' = "final" /\ active' = FALSE
       ELSE rpc' = "poll" /\ UNCHANGED <<phase, active>>
    /\ UNCHANGED <<logVars, envVars, callVars, queue, todo, cur>>

SealRun ==
    /\ rpc = "seal"
    /\ sealed' = TRUE
    /\ rpc' = "done"
    /\ UNCHANGED <<logVars, adapter, late, executor, callVars, phase, active, queue,
                   todo, cur>>

DrainStep ==
    \/ DrainList \/ DrainAppend \/ DrainRecord \/ DrainDone
    \/ \E i \in queue : \/ DrainRefuse(i) \/ DrainProgress(i)
                        \/ DrainDuplicate(i) \/ DrainAccept(i)

DeliverStep ==
    \/ DeliverList \/ DeliverUnsupported \/ DeliverQueued \/ DeliverStop
    \/ DeliverExpired \/ DeliverInactive \/ DeliverExternal \/ Publish \/ PublishFails
    \/ DeliverRecord

RunnerStep == Poll \/ DrainStep \/ DeliverStep \/ TurnEnds \/ SealRun

-----------------------------------------------------------------------------
(* The environment.                                                        *)
ExecutorExits ==
    /\ executor = "running"
    /\ executor' = "exited"
    /\ UNCHANGED <<logVars, adapter, late, sealed, callVars, runnerVars>>

DeadlinePasses(m) ==
    /\ Persisted(m) /\ m \notin late
    /\ late' = late \cup {m}
    /\ UNCHANGED <<logVars, adapter, executor, sealed, callVars, runnerVars>>

Kill(c) ==
    /\ pc[c] \notin {"idle", "done", "reported", "dead"}
    /\ Goto(c, "dead")
    /\ UNCHANGED <<logVars, envVars, arg, runnerVars>>

(* The run of a killed runner is sealed by recovery, which delivers nothing.*)
RunnerKilled ==
    /\ RunnerDies /\ rpc \notin {"done", "dead"}
    /\ rpc' = "dead"
    /\ sealed' = TRUE
    /\ UNCHANGED <<logVars, adapter, late, executor, callVars, phase, active, queue,
                   todo, cur>>

Next ==
    \/ \E s \in Steer : SteerStep(s) \/ DeadlinePasses(s)
    \/ \E h \in HostAck : AckStep(h)
    \/ \E c \in ChildAck : IntentAllocate(c) \/ IntentWrite(c)
    \/ \E h \in Host : HostFetch(h) \/ HostReport(h)
    \/ RunnerStep
    \/ ExecutorExits
    \/ \E c \in Killable : Kill(c)
    \/ RunnerKilled

Spec == Init /\ [][Next]_vars

(* The runner and the steer commands keep taking their steps.              *)
FairSpec ==
    /\ Spec
    /\ WF_vars(RunnerStep)
    /\ \A s \in Steer : WF_vars(SteerStep(s))

-----------------------------------------------------------------------------
Intent == [of : Steer \cup {None}, outcome : AckOutcome \cup {"progress"},
           sequence : Nat, call : ChildAck]
Target == [of : Steer, outcome : OUTCOMES]

(* Logs, files and calls hold what their schemas allow.                    *)
TypeOK ==
    /\ messages \in Seq([kind : {"steer", "ack", "error", "progress"},
                         of : Steer \cup {None}])
    /\ delivery \in Seq([of : Steer, outcome : OUTCOMES, attempt : 0..MaxAttempt])
    /\ inbox \subseteq Steer /\ intents \subseteq Intent /\ late \subseteq Steer
    /\ handled \in Seq([call : ChildAck, sequence : Nat, outcome : Disposition])
    /\ adapter \in Adapters
    /\ executor \in {"running", "exited"} /\ sealed \in BOOLEAN
    /\ pc \in [Call -> {"idle", "append", "queueCheck", "queue", "check",
                        "queueUnsupported", "record", "write", "report",
                        "reported", "done", "dead"}]
    /\ arg \in [Call -> Target \cup Intent \cup {None}]
    /\ rpc \in {"poll", "drain", "drainEach", "drainAppend", "drainRecord",
                "deliver", "deliverEach", "deliverQueue", "deliverStop",
                "deliverRecord", "seal", "done", "dead"}
    /\ phase \in {"loop", "final"} /\ active \in BOOLEAN
    /\ queue \subseteq Intent /\ cur \in Intent \cup {None}
    /\ todo \subseteq {i \in 1..Len(messages) : messages[i].kind = "steer"}

(* "applied", "rejected" and "expired" end the history of a request, and   *)
(* only an acknowledgement may follow a delivery that was stopped: the     *)
(* check under the journal's lock holds against every racing writer.       *)
HardTerminalLast ==
    \A i, j \in 1..Len(delivery) :
        i < j /\ delivery[i].of = delivery[j].of =>
            /\ delivery[i].outcome \notin ACK_TERMINAL_OUTCOMES
            /\ delivery[i].outcome \in DELIVERY_STOP_OUTCOMES
                 => delivery[j].outcome \in AckOutcome

(* Delivery is not acknowledgement: a request is recorded as applied or    *)
(* rejected only once its correlated ack is in the message log.            *)
DispositionHasAck ==
    \A m \in Steer : HasOutcome(m, AckOutcome) => Acknowledged(m)

(* At most one ack per request, and after it, whoever acknowledges.        *)
OneAckPerSteer ==
    \A j \in 1..Len(messages) : messages[j].kind = "ack" =>
        /\ \E i \in 1..j - 1 : messages[i] = [kind |-> "steer",
                                              of |-> messages[j].of]
        /\ \A i \in 1..j - 1 : messages[i] # messages[j]

(* The two logs agree on acknowledgements.                                 *)
AcksRecordedOnce == TypeOK /\ DispositionHasAck /\ OneAckPerSteer

(* "delivered" is recorded only for a request the executor can read, even  *)
(* when the runner dies between publishing and recording.                  *)
DeliveredWasPublished ==
    adapter = "control-file-v1" =>
        \A m \in Steer : HasOutcome(m, {"delivered"}) => m \in inbox

(* The bridge applies each intent at most once and in sequence order.      *)
IntentsAppliedInOrder ==
    \A i, j \in 1..Len(handled) : i < j =>
        /\ handled[i].call # handled[j].call
        /\ handled[j].outcome = "applied" => handled[i].sequence < handled[j].sequence

(* A request persisted while the loop runs is delivered, or its delivery   *)
(* is ended by evidence of why not, unless the runner is killed.  An       *)
(* external host owes nothing before the executor exits; without an        *)
(* adapter, queue_request must not be killed between its two records.      *)
Settled(m) == HasOutcome(m, DELIVERY_STOP_OUTCOMES \cup {"delivered"})
EverySteerSettles ==
    \A m \in Steer :
        (/\ Persisted(m) /\ rpc = "poll"
         /\ adapter = "external-host-v1" => executor = "exited")
            ~> \/ Settled(m) \/ rpc = "dead"
               \/ adapter = "unsupported" /\ pc[m] = "dead"

-----------------------------------------------------------------------------
(* The inductive invariant behind the theorems of SteeringProofs.          *)

(* What a call is about, as long as it is under way.                       *)
CallsKnown ==
    /\ \A i \in 1..Len(messages) : messages[i].kind = "steer" => messages[i].of \in Steer
    /\ \A h \in HostAck :
          /\ pc[h] \in {"check", "append", "record"} =>
                arg[h].of \in Steer /\ arg[h].outcome \in AckOutcome
          /\ pc[h] = "record" => Acknowledged(arg[h].of)
    /\ \A h \in Host : pc[h] = "report" =>
          arg[h].of \in Steer /\ adapter = "external-host-v1"

(* The sequences of the intents have no gaps, not even for an intent whose *)
(* number was computed and its file not yet written; a call writes once.   *)
WellNumbered(i, below) ==
    /\ i \in Intent /\ i.sequence >= 1 /\ 1..below \subseteq Allocated
    /\ i.of # None => i.outcome \in AckOutcome

IntentsNumbered ==
    /\ IsFiniteSet(intents)
    /\ \A i \in intents : WellNumbered(i, i.sequence) /\ pc[i.call] = "done"
    /\ \A i, j \in intents : i.call = j.call => i = j
    /\ \A c \in ChildAck : pc[c] = "write" =>
          WellNumbered(arg[c], arg[c].sequence - 1) /\ arg[c].call = c

(* What the runner has yet to handle; its latest sequence exists.          *)
RunnerKnows ==
    /\ queue \subseteq intents /\ \A i \in queue : i.call \notin HandledCalls
    /\ handled # <<>> => \E k \in 1..Len(handled) :
                            \A i \in 1..Len(handled) : handled[i].sequence <= handled[k].sequence
    /\ rpc \in {"drainAppend", "drainRecord"} =>
          /\ cur \in intents \ queue /\ cur.of # None /\ cur.call \notin HandledCalls
          /\ \A i \in 1..Len(handled) : handled[i].sequence < cur.sequence
    /\ rpc = "drainRecord" => Acknowledged(cur.of)
    /\ rpc \in {"deliverQueue", "deliverStop", "deliverRecord"} => todo # {}
    /\ rpc = "deliverRecord" => Subject \in inbox

SteeringInv ==
    /\ AcksRecordedOnce /\ HardTerminalLast /\ DeliveredWasPublished /\ IntentsAppliedInOrder
    /\ CallsKnown /\ IntentsNumbered /\ RunnerKnows
=============================================================================
