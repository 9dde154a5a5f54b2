------------------------------ MODULE Workflow ------------------------------
(* A workflow run: the snapshot, the event journal that scheduler passes   *)
(* and retries append to under workflow.lock, the child runs they launch,  *)
(* the review dispositions approval nodes wait for, and the workflow       *)
(* receipt.  Replaying the journal is a left fold, so the model keeps its  *)
(* value: "status" is what the events recorded so far reconstruct, and     *)
(* "poisoned" says that an event was appended which a replay refuses, after *)
(* which every reader raises.                                              *)
EXTENDS Integers, FiniteSets, FiniteSetsExt

CONSTANTS
    Node,           \* node ids, in the order in which the code sorts them
    Snapshots,      \* the workflow graphs considered
    MaxParallelism, \* max_parallelism of the scheduler
    MaxAttempt,     \* bound on the attempts of a node
    MaxRetried,     \* bound on the nodes that are retried
    MaxReview,      \* bound on the review receipts of one child run
    Fault,          \* which of "kill", "lose", "archive" may happen
    None

ASSUME WorkflowAssumption ==
    /\ Node \subseteq Nat /\ IsFiniteSet(Node)
    /\ MaxParallelism \in Nat \ {0}
    /\ MaxAttempt \in Nat \ {0} /\ MaxRetried \in Nat /\ MaxReview \in Nat
    /\ None \notin Nat

VARIABLES
    snapshot,   \* workflow-snapshot.json
    started,    \* whether that file exists
    status,     \* what reconstruct_workflow_status returns
    events,     \* number of records in workflow-events.jsonl
    poisoned,   \* whether a replay of the journal raises
    receipt,    \* workflow-receipt.json
    run,        \* run[n][k]: the directory of the child of node n, attempt k
    disposition,\* its last review receipt
    section,    \* what the holder of workflow.lock is doing
    todo,       \* nodes the current phase of a pass has still to visit
    thread,     \* step of the _execute thread of each node
    launches,   \* history: how often each child was started whose directory
                \* is still in place
    killed,     \* history: a command was killed while it held the lock
    retriedUnbound  \* history: a retry of a node that never had a child

journal == <<status, events, poisoned>>
children == <<run, disposition, launches>>
command == <<section, todo, thread>>
history == <<killed, retriedUnbound>>
vars == <<snapshot, started, journal, receipt, children, command, history>>

Attempt == 1..MaxAttempt
NodeState == {"blocked", "eligible", "running", "completed", "failed",
              "recoverable"}
Sealed == {"completed", "incomplete", "unverifiable"}
RunState == {"none", "dir", "prepared", "started", "archived"} \cup Sealed
Action == {"reviewed", "accepted", "rejected", "force-accepted"}
Disposition == [action : Action, sequence : 1..MaxReview]
NodeStatus == [state : NodeState, attempt : 0..MaxAttempt,
               prerequisite : BOOLEAN, approval : 0..MaxReview]
Step == {"none", "resolve", "check", "prepare", "start", "enrich", "observe"}
Phase == {"running", "blocked", "approvals", "reblocked", "bind", "execute"}

-----------------------------------------------------------------------------
(* The snapshot.                                                           *)

(* normalize_snapshot and _validate_node: two kinds of node, known         *)
(* dependencies, no cycle, an approval depends on its subject.             *)
ValidSnapshot(s) ==
    /\ \A n \in Node : s.kind[n] \in {"task", "approval"} /\ s.deps[n] \subseteq Node
    /\ \E rank \in [Node -> 1..Cardinality(Node)] :
          \A n \in Node : \A d \in s.deps[n] : rank[d] < rank[n]
    /\ \A n \in Node : s.kind[n] = "approval" => s.subject[n] \in s.deps[n]

IsTask(n) == snapshot.kind[n] = "task"
Deps(n) == snapshot.deps[n]

(* _ancestor_nodes: everything n depends on, directly or not.              *)
Ancestors(n) ==
    {m \in Node :
        \A S \in SUBSET Node :
            (Deps(n) \subseteq S /\ \A d \in S : Deps(d) \subseteq S) => m \in S}

(* initial_status.                                                         *)
InitialStatus(s) ==
    [n \in Node |->
        [state |-> IF s.deps[n] = {} THEN "eligible" ELSE "blocked",
         attempt |-> 0, prerequisite |-> FALSE, approval |-> 0]]

State(n) == status[n].state
Child(n) == run[n][status[n].attempt]

-----------------------------------------------------------------------------
(* The journal.                                                            *)

ALLOWED_TRANSITIONS ==
    [blocked     |-> {"eligible", "failed"},
     eligible    |-> {"running", "completed", "failed", "recoverable"},
     running     |-> {"completed", "failed", "recoverable"},
     completed   |-> {},
     failed      |-> {"blocked", "eligible"},
     recoverable |-> {"eligible"}]

(* The checks of _transition_summary when a transition is replayed.        *)
Replays(n, previous, next) ==
    /\ State(n) = previous
    /\ next \in ALLOWED_TRANSITIONS[previous]
    /\ (IsTask(n) /\ (\/ next \in {"running", "completed"}
                      \/ next = "failed" /\ previous # "blocked"))
          => status[n].attempt # 0
    /\ (previous = "blocked" /\ next = "eligible")
          => \A d \in Deps(n) : State(d) = "completed"
    /\ (previous \in {"failed", "recoverable"} /\ next = "eligible")
          => status[n].attempt >= 2

(* The checks of a node-bound event when it is replayed.                   *)
BindingReplays(n, attempt, retryOf) ==
    /\ State(n) \notin {"blocked", "running", "completed"}
    /\ IF status[n].attempt = 0
       THEN State(n) = "eligible" /\ attempt = 1 /\ retryOf = None
       ELSE /\ State(n) \in {"failed", "recoverable"}
            /\ attempt = status[n].attempt + 1
            /\ retryOf = status[n].attempt

(* append_workflow_event does not replay; the next reader does.            *)
AppendEvent(ok, new) ==
    /\ events' = events + 1
    /\ poisoned' = (poisoned \/ ~ok)
    /\ status' = IF ok /\ ~poisoned THEN new ELSE status

(* record_workflow_transition, with the reason's prefix and the digest of  *)
(* the approval in its details.                                            *)
RecordWith(n, previous, next, prerequisite, approval) ==
    AppendEvent(Replays(n, previous, next),
           [status EXCEPT ![n].state = next,
                          ![n].prerequisite = prerequisite,
                          ![n].approval = IF approval = 0 THEN @ ELSE approval])

Record(n, previous, next) == RecordWith(n, previous, next, FALSE, 0)

(* record_workflow_binding.                                                *)
RecordBinding(n, attempt, retryOf) ==
    AppendEvent(BindingReplays(n, attempt, retryOf),
           [status EXCEPT ![n].attempt = attempt])

-----------------------------------------------------------------------------
(* The children, as the scheduler sees their directories.                  *)

(* _child_run_exists: provenance or a receipt; a sealed run that does not  *)
(* verify still has its provenance.                                        *)
Exists(n, k) == run[n][k] \in {"prepared", "started"} \cup Sealed

(* A bug for comparison: any sealed child counts as success.               *)
OutcomeSealed(n) ==
    CASE Child(n) \in {"completed", "incomplete"} -> "completed"
      [] Child(n) = "unverifiable" -> "failed"
      [] Child(n) \in {"none", "dir", "archived"} -> "recoverable"
      [] OTHER -> "running"

(* _terminal_child_outcome and what _reconcile_running does with it: the   *)
(* state a running node goes to.                                           *)
Outcome(n) ==
    CASE Child(n) = "completed" -> "completed"
      [] Child(n) \in {"incomplete", "unverifiable"} -> "failed"
      [] Child(n) \in {"none", "dir", "archived"} -> "recoverable"
      [] OTHER -> "running"

(* The current child of an approval's subject.                             *)
Subject(n) == <<snapshot.subject[n], status[snapshot.subject[n]].attempt>>
SubjectRun(n) == run[Subject(n)[1]][Subject(n)[2]]
Disposed(n) == disposition[Subject(n)[1]][Subject(n)[2]]

(* What _reconcile_approvals makes of an eligible approval node: a subject *)
(* without a run (another approval) and evidence that does not verify fail *)
(* it, and so does every action but "accepted".                            *)
SubjectSealed(n) ==
    Subject(n)[2] # 0 /\ SubjectRun(n) \in {"completed", "incomplete"}

Verdict(n) ==
    IF ~SubjectSealed(n) THEN "failed"
    ELSE IF Disposed(n) = None \/ Disposed(n).action = "reviewed" THEN "eligible"
    ELSE IF Disposed(n).action = "accepted" THEN "completed" ELSE "failed"

VerdictReceipt(n) == IF SubjectSealed(n) THEN Disposed(n).sequence ELSE 0

Eligible(n) == State(n) = "eligible" /\ \A d \in Deps(n) : State(d) = "completed"

(* A bug for comparison: the nodes that already run are not counted.       *)
CapacityOfPass == MaxParallelism

(* plan_launches: eligible tasks in id order, up to the free capacity.     *)
Capacity ==
    LET running == Cardinality({n \in Node : State(n) = "running"})
    IN IF MaxParallelism > running THEN MaxParallelism - running ELSE 0
PlanLaunches ==
    LET ready == {n \in Node : IsTask(n) /\ Eligible(n)}
    IN {n \in ready : Cardinality({m \in ready : m < n}) < Capacity}

-----------------------------------------------------------------------------
(* The commands.  Each holds workflow.lock from its first to its last step;*)
(* a call that waits for the lock has no state of its own.                 *)

(* WorkflowService.start up to its first unlock: the snapshot is installed *)
(* atomically, the empty journal follows.                                  *)
Start ==
    /\ section = "free" /\ ~started
    /\ started' = TRUE
    /\ UNCHANGED <<snapshot, journal, receipt, children, command, history>>

(* launch_eligible, called by start and by resume.                         *)
BeginPass ==
    /\ section = "free" /\ started /\ ~poisoned
    /\ section' = "running" /\ todo' = Node
    /\ UNCHANGED <<snapshot, started, journal, receipt, children, thread, history>>

NextPhase ==
    /\ section \in Phase \ {"execute"} /\ todo = {}
    /\ \/ section = "running"   /\ section' = "blocked"   /\ todo' = Node
       \/ section = "blocked"   /\ section' = "approvals" /\ todo' = Node
       \/ section = "approvals" /\ section' = "reblocked" /\ todo' = Node
       \/ section = "reblocked" /\ section' = "bind"      /\ todo' = PlanLaunches
       \/ section = "bind"      /\ section' = "execute"   /\ todo' = {}
    /\ UNCHANGED <<snapshot, started, journal, receipt, children, thread, history>>

Visit(n, phase) ==
    /\ section = phase /\ todo # {} /\ n = Min(todo)
    /\ todo' = todo \ {n}
    /\ UNCHANGED <<snapshot, started, receipt, children, section, thread, history>>

ReconcileRunning(n) ==
    /\ Visit(n, "running")
    /\ IF State(n) = "running" /\ Outcome(n) # "running"
       THEN Record(n, "running", Outcome(n))
       ELSE UNCHANGED journal

(* _reconcile_blocked: reopen a node that failed only for a prerequisite   *)
(* that is no longer failed, then propagate failure or success.            *)
FailedDeps(n) == {d \in Deps(n) : State(d) = "failed"}
ReconcileBlocked(n) ==
    /\ Visit(n, section) /\ section \in {"blocked", "reblocked"}
    /\ LET reopen == State(n) = "failed" /\ status[n].prerequisite
                         /\ FailedDeps(n) = {}
           ready  == \A d \in Deps(n) : State(d) = "completed"
       IN \/ reopen /\ ~ready /\ Record(n, "failed", "blocked")
          \/ /\ reopen /\ ready
             /\ events' = events + 2
             /\ status' = [status EXCEPT ![n].state = "eligible",
                                         ![n].prerequisite = FALSE]
             /\ UNCHANGED poisoned
          \/ State(n) = "blocked" /\ FailedDeps(n) # {}
                /\ RecordWith(n, "blocked", "failed", TRUE, 0)
          \/ State(n) = "blocked" /\ ready /\ Record(n, "blocked", "eligible")
          \/ /\ ~reopen
             /\ State(n) = "blocked" => FailedDeps(n) = {} /\ ~ready
             /\ UNCHANGED journal

ReconcileApprovals(n) ==
    /\ Visit(n, "approvals")
    /\ IF ~IsTask(n) /\ Eligible(n) /\ Verdict(n) # "eligible"
       THEN RecordWith(n, "eligible", Verdict(n), FALSE, VerdictReceipt(n))
       ELSE UNCHANGED journal

(* A bug for comparison: every launch binds, also after a killed pass.     *)
BindAlways(n) ==
    /\ section = "bind" /\ todo # {} /\ n = Min(todo)
    /\ todo' = todo \ {n}
    /\ thread' = [thread EXCEPT ![n] = "resolve"]
    /\ RecordBinding(n, 1, None)
    /\ UNCHANGED <<snapshot, started, receipt, children, section, history>>

(* _bind for a launch: a binding that a killed pass left behind is reused. *)
Bind(n) ==
    /\ section = "bind" /\ todo # {} /\ n = Min(todo)
    /\ todo' = todo \ {n}
    /\ thread' = [thread EXCEPT ![n] = "resolve"]
    /\ IF status[n].attempt = 0 THEN RecordBinding(n, 1, None)
                                ELSE UNCHANGED journal
    /\ UNCHANGED <<snapshot, started, receipt, children, section, history>>

(* A bug for comparison: a node in any state may be retried.               *)
RetryBindAny(n) ==
    /\ section = "free" /\ started /\ ~poisoned
    /\ IsTask(n)
    /\ status[n].attempt < MaxAttempt
    /\ Cardinality({m \in Node : status[m].attempt > 1}) < MaxRetried
    /\ RecordBinding(n, status[n].attempt + 1, status[n].attempt)
    /\ section' = "retry" /\ todo' = {n}
    /\ retriedUnbound' = (retriedUnbound \/ status[n].attempt = 0)
    /\ UNCHANGED <<snapshot, started, receipt, children, thread, killed>>

(* _bind for a retry: the binding, then the transition that reopens the    *)
(* node.  A node that failed for its prerequisites has no run to retry: it *)
(* is bound as attempt 1 of "None".                                        *)
RetryBind(n) ==
    /\ section = "free" /\ started /\ ~poisoned
    /\ IsTask(n) /\ State(n) \in {"failed", "recoverable"}
    /\ status[n].attempt < MaxAttempt
    /\ Cardinality({m \in Node : status[m].attempt > 1}) < MaxRetried
    /\ RecordBinding(n, status[n].attempt + 1, status[n].attempt)
    /\ section' = "retry" /\ todo' = {n}
    /\ retriedUnbound' = (retriedUnbound \/ status[n].attempt = 0)
    /\ UNCHANGED <<snapshot, started, receipt, children, thread, killed>>

RetryReopen(n) ==
    /\ section = "retry" /\ todo = {n}
    /\ Record(n, State(n), "eligible")
    /\ section' = "execute" /\ todo' = {}
    /\ thread' = [thread EXCEPT ![n] = "resolve"]
    /\ UNCHANGED <<snapshot, started, receipt, children, history>>

-----------------------------------------------------------------------------
(* _execute, one thread per planned node.                                  *)

At(n, step) == section = "execute" /\ thread[n] = step
Go(n, step) == thread' = [thread EXCEPT ![n] = step]
Execution == <<snapshot, started, receipt, section, todo, history>>

(* resolve_node_inputs: a source that is no completed predecessor, or whose*)
(* sealed result lacks the value, fails the node.                          *)
ResolveInputs(n) ==
    /\ At(n, "resolve") /\ ~poisoned
    /\ LET sources == snapshot.inputs[n]
           usable == \A m \in sources : m \in Ancestors(n) /\ State(m) = "completed"
       IN \/ usable /\ Go(n, "check") /\ UNCHANGED journal
          \/ sources # {} /\ Go(n, "none") /\ Record(n, "eligible", "failed")
    /\ UNCHANGED <<Execution, children>>

(* The status read at the top of _execute raises on a poisoned journal.    *)
StatusRaises(n) ==
    /\ At(n, "resolve") /\ poisoned
    /\ Go(n, "none")
    /\ UNCHANGED <<Execution, children, journal>>

(* A child that exists is not launched again; nothing is recorded.         *)
CheckChild(n) ==
    /\ At(n, "check")
    /\ Go(n, IF Exists(n, status[n].attempt) THEN "none" ELSE "prepare")
    /\ UNCHANGED <<Execution, children, journal>>

SetRun(n, k, s) == run' = [run EXCEPT ![n][k] = s]

(* prepare_agent_run refuses a directory that is not empty.                *)
PrepareChild(n) ==
    /\ At(n, "prepare") /\ Child(n) \in {"none", "archived"}
    /\ SetRun(n, status[n].attempt, "prepared")
    /\ disposition' = [disposition EXCEPT ![n][status[n].attempt] = None]
    /\ Go(n, "start")
    /\ UNCHANGED <<Execution, journal, launches>>

StartChild(n) ==
    /\ At(n, "start")
    /\ SetRun(n, status[n].attempt, "started")
    /\ launches' = [launches EXCEPT ![n][status[n].attempt] = @ + 1]
    /\ Go(n, "enrich")
    /\ UNCHANGED <<Execution, journal, disposition>>

(* update_provenance; a child that sealed first keeps what it has.         *)
Enrich(n) ==
    /\ At(n, "enrich")
    /\ Go(n, "observe")
    /\ UNCHANGED <<Execution, children, journal>>

(* Any exception of _launch: prepare rolls its directory back, later steps *)
(* leave a child behind.                                                   *)
LaunchRaises(n) ==
    /\ \/ At(n, "prepare") \/ At(n, "start")
       \/ At(n, "enrich") /\ Child(n) = "started"
    /\ Record(n, "eligible",
              IF Exists(n, status[n].attempt) THEN "recoverable" ELSE "failed")
    /\ Go(n, "none")
    /\ UNCHANGED <<Execution, children>>

ObserveChild(n) ==
    /\ At(n, "observe")
    /\ Record(n, "eligible",
              IF Exists(n, status[n].attempt) THEN "running" ELSE "recoverable")
    /\ Go(n, "none")
    /\ UNCHANGED <<Execution, children>>

(* The pool is drained; the projections written last are copies of status. *)
EndPass ==
    /\ section = "execute" /\ \A n \in Node : thread[n] = "none"
    /\ section' = "free"
    /\ UNCHANGED <<snapshot, started, journal, receipt, children, todo, thread, history>>

-----------------------------------------------------------------------------
(* The workflow receipt.                                                   *)

(* _task_receipt and _approval_receipt_digest accept the node.             *)
NodeVerifies(n) ==
    IF IsTask(n)
    THEN \/ status[n].attempt = 0 /\ State(n) # "completed"
         \/ status[n].attempt # 0 /\ Child(n) \in {"completed", "incomplete"}
         \/ /\ status[n].attempt # 0 /\ State(n) # "completed"
            /\ Child(n) \notin Sealed
    ELSE \/ status[n].approval = 0 /\ State(n) # "completed"
         \/ /\ status[n].approval # 0 /\ SubjectSealed(n) /\ Disposed(n) # None
            /\ Disposed(n).sequence = status[n].approval
            /\ Disposed(n).action =
                  IF State(n) = "completed" THEN "accepted" ELSE "rejected"

(* _build_workflow_receipt_unlocked does not raise.                        *)
Buildable ==
    /\ ~poisoned
    /\ \A n \in Node : State(n) \in {"completed", "failed"} /\ NodeVerifies(n)

ChildDigest(n) ==
    IF IsTask(n) /\ status[n].attempt # 0 /\ Child(n) \in Sealed THEN Child(n) ELSE "none"
Receipt ==
    [events |-> events, nodes |-> status, child |-> [n \in Node |-> ChildDigest(n)]]

(* seal_workflow; an existing receipt is only verified.                    *)
SealWorkflow ==
    /\ section = "free" /\ started /\ receipt = None /\ Buildable
    /\ receipt' = Receipt
    /\ UNCHANGED <<snapshot, started, journal, children, command, history>>

(* _verify_workflow_receipt_unlocked.                                      *)
Verifies == Buildable /\ receipt = Receipt

-----------------------------------------------------------------------------
(* The environment: children, reviewers, the archive, kills.               *)

ChildSeals(n, k) ==
    /\ run[n][k] = "started"
    /\ \E outcome \in Sealed : SetRun(n, k, outcome)
    /\ UNCHANGED <<snapshot, started, journal, receipt, disposition, launches,
                   command, history>>

(* One completed record or force_accept call on a sealed child that an     *)
(* approval node waits for.                                                *)
Review(n, k) ==
    LET d == disposition[n][k]
        prior == IF d = None THEN "none" ELSE d.action
        sequence == IF d = None THEN 1 ELSE d.sequence + 1
    IN  /\ \E m \in Node : ~IsTask(m) /\ snapshot.subject[m] = n
        /\ run[n][k] \in {"completed", "incomplete"} /\ sequence <= MaxReview
        /\ \E a \in Action :
              /\ \/ a = "reviewed" /\ prior \in {"none", "rejected"}
                 \/ a = "accepted" /\ prior = "reviewed" /\ run[n][k] = "completed"
                 \/ a = "rejected" /\ prior \in {"none", "reviewed", "rejected"}
                 \/ a = "force-accepted" /\ prior \notin {"accepted", "force-accepted"}
              /\ disposition' = [disposition EXCEPT ![n][k] =
                                    [action |-> a, sequence |-> sequence]]
        /\ UNCHANGED <<snapshot, started, journal, receipt, run, launches,
                       command, history>>

(* archive_runs moves an accepted, completed run out of the runs directory.*)
Archive(n, k) ==
    /\ "archive" \in Fault
    /\ run[n][k] = "completed" /\ disposition[n][k] # None
    /\ disposition[n][k].action = "accepted"
    /\ SetRun(n, k, "archived")
    /\ launches' = [launches EXCEPT ![n][k] = 0]
    /\ UNCHANGED <<snapshot, started, journal, receipt, disposition, command,
                   history>>

(* Somebody removes the directory of a run that never sealed.              *)
Lose(n, k) ==
    /\ "lose" \in Fault /\ run[n][k] = "started"
    /\ SetRun(n, k, "none")
    /\ launches' = [launches EXCEPT ![n][k] = 0]
    /\ UNCHANGED <<snapshot, started, journal, receipt, disposition, command,
                   history>>

(* The holder of the lock dies; a death inside prepare may leave a         *)
(* directory without provenance.                                           *)
Kill ==
    /\ "kill" \in Fault /\ section # "free" /\ ~killed
    /\ section' = "free" /\ todo' = {} /\ killed' = TRUE
    /\ thread' = [n \in Node |-> "none"]
    /\ \E S \in SUBSET {n \in Node : thread[n] = "prepare" /\ Child(n) # "dir"} :
          run' = [n \in Node |->
                    IF n \in S THEN [run[n] EXCEPT ![status[n].attempt] = "dir"]
                    ELSE run[n]]
    /\ UNCHANGED <<snapshot, started, journal, receipt, disposition, launches,
                   retriedUnbound>>

-----------------------------------------------------------------------------
Init ==
    /\ snapshot \in {s \in Snapshots : ValidSnapshot(s)}
    /\ started = FALSE
    /\ status = InitialStatus(snapshot)
    /\ events = 0 /\ poisoned = FALSE
    /\ receipt = None
    /\ run = [n \in Node |-> [k \in Attempt |-> "none"]]
    /\ disposition = [n \in Node |-> [k \in Attempt |-> None]]
    /\ launches = [n \in Node |-> [k \in Attempt |-> 0]]
    /\ section = "free" /\ todo = {}
    /\ thread = [n \in Node |-> "none"]
    /\ killed = FALSE /\ retriedUnbound = FALSE

Pass ==
    \/ NextPhase \/ EndPass
    \/ \E n \in Node :
          \/ ReconcileRunning(n) \/ ReconcileBlocked(n) \/ ReconcileApprovals(n)
          \/ Bind(n) \/ RetryReopen(n)
          \/ ResolveInputs(n) \/ StatusRaises(n) \/ CheckChild(n)
          \/ PrepareChild(n) \/ StartChild(n) \/ Enrich(n)
          \/ LaunchRaises(n) \/ ObserveChild(n)

Next ==
    \/ Start \/ BeginPass \/ Pass \/ SealWorkflow \/ Kill
    \/ \E n \in Node : RetryBind(n)
    \/ \E n \in Node, k \in Attempt :
          ChildSeals(n, k) \/ Review(n, k) \/ Archive(n, k) \/ Lose(n, k)

Spec == Init /\ [][Next]_vars

(* The holder of the lock goes on, children end, and somebody starts the   *)
(* workflow and keeps calling resume.                                      *)
Fairness ==
    /\ WF_vars(Start) /\ WF_vars(BeginPass) /\ WF_vars(Pass)
    /\ \A n \in Node, k \in Attempt : WF_vars(ChildSeals(n, k))
FairSpec == Spec /\ Fairness

-----------------------------------------------------------------------------
WorkflowTypeOK ==
    /\ snapshot \in Snapshots /\ started \in BOOLEAN
    /\ status \in [Node -> NodeStatus] /\ events \in Nat /\ poisoned \in BOOLEAN
    /\ run \in [Node -> [Attempt -> RunState]]
    /\ disposition \in [Node -> [Attempt -> Disposition \cup {None}]]
    /\ section \in {"free", "retry"} \cup Phase
    /\ todo \subseteq Node /\ thread \in [Node -> Step]
    /\ launches \in [Node -> [Attempt -> Nat]]
    /\ killed \in BOOLEAN /\ retriedUnbound \in BOOLEAN
    /\ receipt # None => receipt.nodes \in [Node -> NodeStatus]

(* No kill, launch failure, lost child or order of passes makes the journal*)
(* unreadable: the one way is to retry a node that failed for its          *)
(* prerequisites and so never had a run (_bind, scheduler.py:646).         *)
JournalReplayable == poisoned => retriedUnbound

(* Launch discipline: through every kill a child run is started at most    *)
(* once, and only when everything its node depends on has completed; and   *)
(* as long as nobody retries a node, no more nodes run than max_parallelism *)
(* allows.                                                                 *)
LaunchDiscipline ==
    /\ \A n \in Node, k \in Attempt :
          /\ launches[n][k] <= 1
          /\ launches[n][k] > 0 => \A d \in Deps(n) : State(d) = "completed"
    /\ (\A n \in Node : status[n].attempt <= 1)
          => Cardinality({n \in Node : State(n) = "running"}) <= MaxParallelism

(* A completed node stands on evidence: its own sealed and valid child, or *)
(* an accepted review of its subject.                                      *)
CompletedOnEvidence ==
    \A n \in Node :
        State(n) = "completed" =>
            IF IsTask(n) THEN Child(n) \in {"completed", "archived"}
            ELSE /\ SubjectRun(n) \in {"completed", "archived"}
                 /\ Disposed(n).action = "accepted"
                 /\ Disposed(n).sequence = status[n].approval

(* A receipt of a completed workflow verifies for good, unless the archive *)
(* takes one of its children away.                                         *)
CompletedReceiptVerifies ==
    (/\ receipt # None /\ \A n \in Node : receipt.nodes[n].state = "completed"
     /\ \A n \in Node : IsTask(n) => Child(n) # "archived")
       => Verifies

(* What the scheduler and the workflow receipt say stands on evidence.     *)
WorkflowEvidence == WorkflowTypeOK /\ CompletedOnEvidence /\ CompletedReceiptVerifies

(* Restart-safe (scheduler.py:97, README.md:73): a child that was started  *)
(* and has ended is reconciled by later passes, also when the pass that    *)
(* started it died.                                                        *)
RestartSafe ==
    \A n \in Node :
        (status[n].attempt = 1 /\ State(n) = "eligible" /\ run[n][1] \in Sealed)
           ~> State(n) # "eligible"

-----------------------------------------------------------------------------
(* The inductive invariant behind the theorems of WorkflowProofs.          *)

Bound(n) == status[n].attempt # 0
DepsDone(n) == \A d \in Deps(n) : State(d) = "completed"

(* How the fields of a node's status fit: only tasks have runs, a node     *)
(* that waits or failed for its prerequisites has none, and whatever is on *)
(* its way has completed predecessors.                                     *)
NodeFits(n) ==
    /\ (Bound(n) \/ State(n) \in {"running", "recoverable"}) => IsTask(n)
    /\ (IsTask(n) /\ State(n) \in {"running", "completed", "recoverable"}) => Bound(n)
    /\ (State(n) = "blocked" \/ status[n].prerequisite) => ~Bound(n)
    /\ status[n].prerequisite => State(n) = "failed"
    /\ (Bound(n) \/ State(n) \in {"eligible", "running", "completed", "recoverable"})
          => DepsDone(n)

StatusFits == ValidSnapshot(snapshot) /\ \A n \in Node : NodeFits(n)

(* What the holder of the lock is at: a launch is of a bound, eligible     *)
(* task; a poisoned journal stops everything but the end of that retry.    *)
LockFits ==
    /\ section \notin {"bind", "execute"} => \A n \in Node : thread[n] = "none"
    /\ section = "bind" => \A n \in todo : IsTask(n) /\ State(n) = "eligible"
    /\ \A n \in Node : (section = "retry" /\ todo = {n}) =>
          IsTask(n) /\ (~poisoned => /\ State(n) \in {"failed", "recoverable"}
                                     /\ status[n].attempt >= 2)
    /\ \A n \in Node : (thread[n] # "none" /\ ~poisoned) =>
          IsTask(n) /\ Bound(n) /\ State(n) = "eligible"
    /\ poisoned => /\ retriedUnbound /\ section \in {"free", "retry", "execute"}
                   /\ \A n \in Node : thread[n] \in {"none", "resolve"}
    /\ \A n \in Node :
          /\ thread[n] = "prepare" => Child(n) \in {"none", "dir", "archived"}
          /\ thread[n] = "start" => Child(n) = "prepared"

(* A child that was started is there until it is archived or lost, and a   *)
(* review is of a child that is sealed.                                    *)
RunFits(n, k) ==
    /\ launches[n][k] <= 1
    /\ launches[n][k] > 0 => Bound(n)
    /\ run[n][k] \in {"none", "dir", "prepared", "archived"} => launches[n][k] = 0
    /\ disposition[n][k] # None =>
          /\ run[n][k] \in {"completed", "incomplete", "archived", "dir"}
          /\ disposition[n][k].action = "accepted" => run[n][k] # "incomplete"

RunsFit == \A n \in Node, k \in Attempt : RunFits(n, k)

(* The nodes that run or will, before anybody else can plan.               *)
Occupied ==
    {n \in Node : \/ State(n) = "running"
                  \/ ~poisoned /\ (thread[n] # "none" \/ (section = "bind" /\ n \in todo))}

WithinCapacity ==
    (\A n \in Node : status[n].attempt <= 1) => Cardinality(Occupied) <= MaxParallelism

Evidenced(n) ==
    IF IsTask(n) THEN Child(n) \in {"completed", "archived"}
    ELSE /\ Subject(n)[2] # 0 /\ SubjectRun(n) \in {"completed", "archived"}
         /\ Disposed(n) # None /\ Disposed(n).action = "accepted"
         /\ Disposed(n).sequence = status[n].approval

CompletedEvidenced == \A n \in Node : State(n) = "completed" => Evidenced(n)

(* The receipt of a completed workflow is the one that would be built now. *)
ReceiptCurrent ==
    (receipt # None /\ \A n \in Node : receipt.nodes[n].state = "completed") =>
        /\ ~poisoned
        /\ receipt = [events |-> events, nodes |-> status,
                      child |-> [n \in Node |-> IF IsTask(n) THEN "completed" ELSE "none"]]

WorkflowInv ==
    /\ WorkflowTypeOK /\ StatusFits /\ LockFits /\ RunsFit /\ WithinCapacity
    /\ CompletedEvidenced /\ ReceiptCurrent
=============================================================================
