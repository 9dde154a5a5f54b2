-------------------------------- MODULE Chain --------------------------------
(* Task chains: the host integrates the accepted runs of a plan's tasks    *)
(* one after another, each task executed on the result of the ones before  *)
(* it; and the integration of two independently accepted runs.  A revision *)
(* is the sequence of the runs whose commits it contains.                  *)
EXTENDS Naturals, FiniteSets, Sequences, SequencesExt

CONSTANTS
    Task,          \* the identities, naturals: the code sorts them
    Dependencies,  \* the predecessor maps that may be asked for
    ChainRun,
    Host,          \* concurrent host commands
    NoChain

ASSUME TaskAssumption ==
    /\ Task \subseteq Nat /\ IsFiniteSet(Task)
    /\ \A deps \in Dependencies : DOMAIN deps \subseteq Task
    /\ NoChain \notin Host

VARIABLES
    chain,     \* the chain's directory: plan, reservations, integrations
    taskRun,   \* the agent runs
    chainLock,
    host       \* what each host command is doing

chains == <<chain, taskRun, chainLock, host>>

Pair == 0                          \* the output of a two-run integration
Final == Cardinality(Task) + 1     \* the output of the combined acceptance
AttemptId == Pair..Final

NoAttempt == [status |-> "none", inputs |-> <<>>, kept |-> <<>>, head |-> <<>>]
NoRun == [state |-> "none", baseline |-> <<>>, head |-> <<>>, prior |-> <<>>,
          review |-> "none", clean |-> TRUE, chained |-> FALSE]
Waiting == [step |-> "idle", output |-> Pair, runs |-> <<>>, record |-> NoAttempt]

AtStep(h, step) == host[h].step = step
GoTo(h, step) == host' = [host EXCEPT ![h].step = step]
Finish(h) == /\ host' = [host EXCEPT ![h] = Waiting]
             /\ chainLock' = IF chainLock = h THEN NoChain ELSE chainLock
ToRun(r, x) == taskRun' = [taskRun EXCEPT ![r] = x]

-----------------------------------------------------------------------------
(* A bug for comparison: the tasks in the order of their names.            *)
OrderTasksByName(deps) == SetToSortSeq(DOMAIN deps, <)

(* order_tasks: Kahn's order, always the least ready task; empty when a    *)
(* predecessor is missing or the map is cyclic.                            *)
Ready(deps, done) == {t \in DOMAIN deps \ done : deps[t] \subseteq done}
LeastTask(S) == CHOOSE t \in S : \A u \in S : t <= u

TakeReady(deps, taken) ==
    IF Ready(deps, Range(taken)) = {} THEN taken
    ELSE Append(taken, LeastTask(Ready(deps, Range(taken))))

Taken(deps) ==
    LET taken[n \in 0..Cardinality(DOMAIN deps)] ==
            IF n = 0 THEN <<>> ELSE TakeReady(deps, taken[n - 1])
    IN  taken

OrderTasks(deps) ==
    LET ids == DOMAIN deps
        order == Taken(deps)[Cardinality(ids)]
    IN  IF \/ \E t \in ids : t \in deps[t] \/ ~(deps[t] \subseteq ids)
           \/ Len(order) # Cardinality(ids)
        THEN <<>> ELSE order

(* _accepted_run: sealed, completed, last reviewed and accepted at its one *)
(* commit on its baseline, the worktree still there, clean and at it.      *)
AcceptedRun(r) ==
    /\ taskRun[r].state = "sealed" /\ taskRun[r].review = "accepted" /\ taskRun[r].clean
    /\ taskRun[r].head = Append(taskRun[r].baseline, r)

Input(r) == [run |-> r, baseline |-> taskRun[r].baseline, head |-> taskRun[r].head]

(* validate_prefix: every task was bound to the integration of the tasks   *)
(* before it, as that one was.                                             *)
ValidatePrefix(inputs) ==
    \A i \in 1..Len(inputs) :
        LET slot == chain.reserved[i] IN
        /\ i <= Len(chain.reserved)
        /\ slot.run = inputs[i].run /\ taskRun[slot.run].chained
        /\ inputs[i].baseline = slot.baseline
        /\ slot.baseline = IF i = 1 THEN <<>> ELSE inputs[i - 1].head
        /\ slot.prior = SubSeq(inputs, 1, i - 1)

(* The inputs integrate requires of one another.                           *)
ValidInputs(output, inputs) ==
    /\ Cardinality(Range(inputs)) = Len(inputs)
    /\ IF output = Pair
       THEN /\ Len(inputs) = 2 /\ inputs[1].baseline = inputs[2].baseline
            /\ inputs[1].head # inputs[2].head
            /\ \A i \in 1..2 : ~taskRun[inputs[i].run].chained
       ELSE ValidatePrefix(inputs) /\ (output = Final => Len(inputs) = Len(chain.order))

(* The result: a chain's heads fast-forward one to the next, the           *)
(* commits of two independent runs are picked one after the other.         *)
CombinedHead(output, inputs) ==
    IF output = Pair THEN inputs[1].baseline \o [i \in 1..2 |-> inputs[i].run]
    ELSE inputs[Len(inputs)].head

(* A bug for comparison: a receipt's word is taken for the evidence.       *)
VerifyIntegrationHash(a) == a.status \in {"success", "rejected"}

(* verify_integration of an attempt's directory: the receipt is there, and *)
(* when it says success every input was archived as accepted, with its     *)
(* commit, and replays to the head.                                        *)
VerifyIntegration(a) ==
    \/ a.status = "rejected"
    \/ /\ a.status = "success"
       /\ \A i \in DOMAIN a.kept : a.kept[i].accepted /\ a.kept[i].head = a.inputs[i].head

-----------------------------------------------------------------------------
(* _state: the leading integrations that succeeded; anything else found in *)
(* the directory makes every operation, status included, refuse.           *)
Prefix == Cardinality({i \in 1..Len(chain.order) :
                          \A j \in 1..i : chain.attempt[j].status = "success"})

StateValid ==
    /\ chain.dir = "planned"
    /\ \A i \in 1..Len(chain.order) :
          chain.attempt[i].status # "none" =>
              /\ i <= Len(chain.reserved) /\ VerifyIntegration(chain.attempt[i])
              /\ chain.attempt[i].status = "success"
    /\ \A i \in 1..Len(chain.reserved) :
          /\ i > 1 => i - 1 <= Prefix /\ chain.reserved[i].prior = chain.attempt[i - 1].inputs
          /\ \A j \in 1..Len(chain.reserved) :
                i # j => chain.reserved[i].run # chain.reserved[j].run
    /\ chain.attempt[Final].status # "none" =>
          /\ VerifyIntegration(chain.attempt[Final])
          /\ chain.attempt[Final].status = "success" /\ Prefix = Len(chain.order)

(* create: the plan is checked, then its directory made, then its file.    *)
Create(h) ==
    /\ AtStep(h, "idle") /\ chain.dir = "none"
    /\ \E deps \in Dependencies :
          /\ OrderTasks(deps) # <<>>
          /\ chain' = [chain EXCEPT !.dir = "made", !.deps = deps, !.order = OrderTasks(deps)]
    /\ GoTo(h, "plan")
    /\ UNCHANGED <<taskRun, chainLock>>

WritePlan(h) ==
    /\ AtStep(h, "plan")
    /\ chain' = [chain EXCEPT !.dir = "planned"] /\ Finish(h)
    /\ UNCHANGED taskRun

(* operate, under the chain's exclusive lock.  A refusal changes nothing.  *)
Operable(h) ==
    /\ AtStep(h, "idle") /\ chainLock = NoChain
    /\ StateValid /\ chain.attempt[Final].status = "none"
    /\ \A i \in 1..Len(chain.reserved) : i <= Prefix => AcceptedRun(chain.reserved[i].run)

PrepareTask(h, r) ==
    /\ Operable(h) /\ Prefix < Len(chain.order) /\ Len(chain.reserved) = Prefix
    /\ taskRun[r].state = "none"
    /\ <<"task", Prefix + 1>> \notin chain.worktrees
    /\ host' = [host EXCEPT ![h] = [Waiting EXCEPT !.step = "reserve", !.runs = <<r>>]]
    /\ chainLock' = h
    /\ UNCHANGED <<chain, taskRun>>

(* The reservation is written before anything else.                        *)
Reserve(h) ==
    LET i == Len(chain.reserved) + 1
        last == IF Prefix = 0 THEN NoAttempt ELSE chain.attempt[Prefix]
    IN  /\ AtStep(h, "reserve")
        /\ chain' = [chain EXCEPT !.reserved = Append(@,
              [task |-> chain.order[Prefix + 1], run |-> Head(host[h].runs),
               baseline |-> last.head, prior |-> last.inputs])]
        /\ GoTo(h, "worktree")
        /\ UNCHANGED <<taskRun, chainLock>>

AddWorktree(h) ==
    /\ AtStep(h, "worktree")
    /\ chain' = [chain EXCEPT !.worktrees = @ \cup {<<"task", Len(chain.reserved)>>}]
    /\ GoTo(h, "prepare")
    /\ UNCHANGED <<taskRun, chainLock>>

(* agent_runs.prepare; it may refuse, and the reservation stays.           *)
PrepareRun(h) ==
    LET slot == Last(chain.reserved) IN
    /\ AtStep(h, "prepare") /\ Finish(h)
    /\ \/ /\ taskRun[slot.run].state = "none"
          /\ ToRun(slot.run, [NoRun EXCEPT !.state = "prepared", !.baseline = slot.baseline,
                                        !.prior = slot.prior, !.chained = TRUE])
       \/ UNCHANGED taskRun
    /\ UNCHANGED chain

(* advance and accept: the runs are checked, then integrated.              *)
BeginIntegrate(h, output, runs) ==
    host' = [host EXCEPT ![h] = [Waiting EXCEPT !.step = "output", !.output = output,
                                                !.runs = runs]]

Advance(h) ==
    LET i == Prefix + 1 IN
    /\ Operable(h) /\ Len(chain.reserved) = i /\ AcceptedRun(chain.reserved[i].run)
    /\ BeginIntegrate(h, i, [k \in 1..i |-> chain.reserved[k].run])
    /\ chainLock' = h
    /\ UNCHANGED <<chain, taskRun>>

Accept(h) ==
    /\ Operable(h) /\ chain.order # <<>> /\ Prefix = Len(chain.order)
    /\ BeginIntegrate(h, Final, [k \in 1..Prefix |-> chain.reserved[k].run])
    /\ chainLock' = h
    /\ UNCHANGED <<chain, taskRun>>

(* integrate of two runs takes no lock.                                    *)
IntegratePair(h, r, s) ==
    /\ AtStep(h, "idle") /\ r # s
    /\ taskRun[r].state # "none" /\ taskRun[s].state # "none"
    /\ BeginIntegrate(h, Pair, <<r, s>>)
    /\ UNCHANGED <<chain, taskRun, chainLock>>

-----------------------------------------------------------------------------
(* integrate.  The output directory admits one attempt, whatever became of *)
(* it: a repeated request returns its success and is refused otherwise.    *)
MakeOutput(h) ==
    LET o == host[h].output IN
    /\ AtStep(h, "output")
    /\ IF chain.attempt[o].status = "none"
       THEN /\ chain' = [chain EXCEPT !.attempt[o].status = "partial"]
            /\ GoTo(h, "validate") /\ UNCHANGED chainLock
       ELSE UNCHANGED chain /\ Finish(h)
    /\ UNCHANGED taskRun

(* The repository may be dirty or in the middle of something.              *)
Reject(h) == host' = [host EXCEPT ![h].step = "rejected"]

Validate(h) ==
    LET me == host[h]
        inputs == [i \in DOMAIN me.runs |-> Input(me.runs[i])]
    IN  /\ AtStep(h, "validate")
        /\ \/ Reject(h)
           \/ /\ \A i \in DOMAIN me.runs : AcceptedRun(me.runs[i])
              /\ ValidInputs(me.output, inputs)
              /\ host' = [host EXCEPT ![h].step = "archive", ![h].record.inputs = inputs]
        /\ UNCHANGED <<chain, taskRun, chainLock>>

(* Each input is copied as it is by then: its lifecycle receipts, and the  *)
(* bundle of its worktree's head.                                          *)
ArchiveInput(h) ==
    LET me == host[h]
        r == me.runs[Len(me.record.kept) + 1]
    IN  /\ AtStep(h, "archive")
        /\ IF Len(me.record.kept) = Len(me.runs) THEN GoTo(h, "apply")
           ELSE host' = [host EXCEPT ![h].record.kept = Append(@,
                    [accepted |-> taskRun[r].review = "accepted",
                     head |-> IF taskRun[r].clean THEN taskRun[r].head ELSE NoChain])]
        /\ UNCHANGED <<chain, taskRun, chainLock>>

(* The worktree, the commits and the combined acceptance commands, any of  *)
(* which may fail: then the worktree goes again.                           *)
Apply(h) ==
    LET me == host[h] IN
    /\ AtStep(h, "apply")
    /\ \/ /\ <<"integrated", me.output>> \notin chain.worktrees
          /\ chain' = [chain EXCEPT !.worktrees = @ \cup {<<"integrated", me.output>>}]
          /\ host' = [host EXCEPT ![h].step = "succeeded",
                          ![h].record.head = CombinedHead(me.output, me.record.inputs)]
       \/ Reject(h) /\ UNCHANGED chain
    /\ UNCHANGED <<taskRun, chainLock>>

WriteReceipt(h) ==
    LET me == host[h]
        status == IF me.step = "succeeded" THEN "success" ELSE "rejected"
    IN  /\ me.step \in {"succeeded", "rejected"}
        /\ chain' = [chain EXCEPT !.attempt[me.output] = [me.record EXCEPT !.status = status]]
        /\ Finish(h)
        /\ UNCHANGED taskRun

KillHost(h) ==
    /\ ~AtStep(h, "idle") /\ Finish(h)
    /\ UNCHANGED <<chain, taskRun>>

-----------------------------------------------------------------------------
(* A run of an imported task prepared on its own, outside any chain.       *)
PrepareAlone(r) ==
    /\ taskRun[r].state = "none"
    /\ ToRun(r, [NoRun EXCEPT !.state = "prepared"])
    /\ UNCHANGED <<chain, chainLock, host>>

(* validate_launch: the host starts a bound run while the worktree is as   *)
(* bound and every predecessor's acceptance still stands.                  *)
Launch(r) ==
    /\ taskRun[r].state = "prepared" /\ taskRun[r].clean
    /\ \A i \in DOMAIN taskRun[r].prior :
          LET p == taskRun[r].prior[i] IN
          taskRun[p.run].review = "accepted" /\ taskRun[p.run].head = p.head
    /\ ToRun(r, [taskRun[r] EXCEPT !.state = "running"])
    /\ UNCHANGED <<chain, chainLock, host>>

(* The worker commits once, or not as asked, and its run is sealed.        *)
Complete(r) ==
    /\ taskRun[r].state = "running"
    /\ \E n \in 0..1 :
          ToRun(r, [taskRun[r] EXCEPT !.state = "sealed",
                        !.head = taskRun[r].baseline \o [i \in 1..n |-> r]])
    /\ UNCHANGED <<chain, chainLock, host>>

(* Review accepts a sealed run; a later rejection withdraws it.            *)
ReviewRun(r) ==
    /\ taskRun[r].state = "sealed"
    /\ \/ taskRun[r].review = "none" /\ ToRun(r, [taskRun[r] EXCEPT !.review = "accepted"])
       \/ taskRun[r].review = "accepted" /\ ToRun(r, [taskRun[r] EXCEPT !.review = "rejected"])
    /\ UNCHANGED <<chain, chainLock, host>>

(* Somebody works in a task's worktree after it was sealed.                *)
DisturbWorktree(r) ==
    /\ taskRun[r].state = "sealed" /\ taskRun[r].clean
    /\ ToRun(r, [taskRun[r] EXCEPT !.clean = FALSE])
    /\ UNCHANGED <<chain, chainLock, host>>

-----------------------------------------------------------------------------
ChainInit ==
    /\ chain = [dir |-> "none", deps |-> <<>>, order |-> <<>>, reserved |-> <<>>,
                attempt |-> [i \in AttemptId |-> NoAttempt], worktrees |-> {}]
    /\ taskRun = [r \in ChainRun |-> NoRun]
    /\ chainLock = NoChain /\ host = [h \in Host |-> Waiting]

ChainNext ==
    \/ \E h \in Host :
          \/ Create(h) \/ WritePlan(h) \/ Reserve(h) \/ AddWorktree(h) \/ PrepareRun(h)
          \/ Advance(h) \/ Accept(h) \/ MakeOutput(h) \/ Validate(h) \/ ArchiveInput(h)
          \/ Apply(h) \/ WriteReceipt(h) \/ KillHost(h)
          \/ \E r \in ChainRun : PrepareTask(h, r)
          \/ \E r, s \in ChainRun : IntegratePair(h, r, s)
    \/ \E r \in ChainRun : PrepareAlone(r) \/ Launch(r) \/ Complete(r) \/ ReviewRun(r) \/ DisturbWorktree(r)

ChainSpec == ChainInit /\ [][ChainNext]_chains

-----------------------------------------------------------------------------
ChainTypeOK ==
    /\ chain.dir \in {"none", "made", "planned"}
    /\ \A i \in AttemptId : chain.attempt[i].status \in {"none", "partial", "rejected", "success"}
    /\ chainLock \in Host \cup {NoChain}

RunsTo(n) == [j \in 1..n |-> chain.reserved[j].run]
TasksOf(o) == IF o = Final THEN Len(chain.order) ELSE o
Before(i) == {chain.order[j] : j \in 1..(i - 1)}

(* Whatever was killed, rejected or withdrawn: a task is reserved once, on *)
(* the result of exactly the tasks before it in the plan's order, and a    *)
(* task comes after its predecessors.                                      *)
TasksBuildOnEachOther ==
    \A i \in 1..Len(chain.reserved) :
        /\ chain.reserved[i].task = chain.order[i]
        /\ chain.reserved[i].baseline = RunsTo(i - 1)
        /\ chain.deps[chain.order[i]] \subseteq Before(i)

(* An integration the chain goes on from, or hands out as its combined     *)
(* acceptance, holds one accepted commit of every task up to it, and kept  *)
(* the evidence of each; it stays so when an acceptance is withdrawn.      *)
IntegrationHoldsItsTasks ==
    StateValid =>
        \A i \in 1..Final :
            LET last == chain.attempt[i] IN
            last.status = "success" =>
                /\ last.head = RunsTo(TasksOf(i))
                /\ \A j \in 1..TasksOf(i) :
                      last.kept[j].accepted /\ last.kept[j].head = last.inputs[j].head

(* The safety of chains: every task and every integration builds on the    *)
(* ones before it.                                                         *)
ChainSafe == ChainTypeOK /\ TasksBuildOnEachOther /\ IntegrationHoldsItsTasks

-----------------------------------------------------------------------------
(* The inductive invariant behind ChainSafe: the types of the files and    *)
(* commands;                                                               *)
RunInput == [run : ChainRun, baseline : Seq(ChainRun), head : Seq(ChainRun)]
KeptInput == [accepted : BOOLEAN, head : Seq(ChainRun) \cup {NoChain}]
ChainAttempt == [status : {"none", "partial", "rejected", "success"}, inputs : Seq(RunInput),
                 kept : Seq(KeptInput), head : Seq(ChainRun)]
Slot == [task : Task, run : ChainRun, baseline : Seq(ChainRun), prior : Seq(RunInput)]
HostStep == {"idle", "plan", "reserve", "worktree", "prepare", "output", "validate", "archive",
             "apply", "succeeded", "rejected"}
ChainFiles == [dir : {"none", "made", "planned"}, deps : Dependencies \cup {<<>>},
               order : Seq(Task), reserved : Seq(Slot), attempt : [AttemptId -> ChainAttempt],
               worktrees : SUBSET ({"task", "integrated"} \X Nat)]
TaskRunState == [state : {"none", "prepared", "running", "sealed"}, baseline : Seq(ChainRun),
                 head : Seq(ChainRun), prior : Seq(RunInput),
                 review : {"none", "accepted", "rejected"}, clean : BOOLEAN, chained : BOOLEAN]
HostState == [step : HostStep, output : AttemptId, runs : Seq(ChainRun), record : ChainAttempt]

ChainTyped ==
    /\ chain \in ChainFiles /\ taskRun \in [ChainRun -> TaskRunState]
    /\ chainLock \in Host \cup {NoChain} /\ host \in [Host -> HostState]

(* the plan, which nothing precedes and which is a topological order;      *)
PlanOrdered ==
    /\ Len(chain.order) < Final
    /\ \A i \in 1..Len(chain.order) : chain.deps[chain.order[i]] \subseteq Before(i)
    /\ chain.dir = "none" => /\ chain.order = <<>> /\ chain.reserved = <<>>
                            /\ \A i \in 1..Final : chain.attempt[i].status = "none"
    /\ Len(chain.reserved) <= Len(chain.order)

(* what was reserved and integrated, also where readers refuse the chain;  *)
AttemptsHold ==
    \A o \in 1..Final : chain.attempt[o].status = "success" =>
        /\ TasksOf(o) <= Len(chain.reserved)
        /\ chain.attempt[o].head = RunsTo(TasksOf(o))
        /\ Len(chain.attempt[o].kept) = TasksOf(o)

(* and what a command knows at each step of its own.                       *)
HostKnows(h) ==
    LET me == host[h] IN
    /\ me.step \in {"reserve", "worktree", "prepare"} \/ me.output # Pair => chainLock = h
    /\ me.step = "reserve" => /\ Len(chain.reserved) = Prefix /\ Prefix < Len(chain.order)
                              /\ Len(me.runs) = 1
    /\ me.step \in {"worktree", "prepare"} => chain.reserved # <<>>
    /\ me.step \in {"output", "validate"} => me.record.kept = <<>>
    /\ me.step = "archive" => Len(me.record.kept) <= Len(me.runs)
    /\ me.output = Pair /\ me.step \in {"archive", "apply"} => Len(me.record.inputs) = 2
    /\ me.output # Pair =>
          /\ TasksOf(me.output) \in 1..Len(chain.reserved) /\ me.runs = RunsTo(TasksOf(me.output))
          /\ me.step \in {"archive", "apply"} =>
                /\ Len(me.record.inputs) = TasksOf(me.output)
                /\ me.record.inputs[TasksOf(me.output)].head = RunsTo(TasksOf(me.output))
          /\ me.step \in {"apply", "succeeded"} => Len(me.record.kept) = TasksOf(me.output)
          /\ me.step = "succeeded" => me.record.head = RunsTo(TasksOf(me.output))

ChainInv ==
    /\ ChainTyped /\ PlanOrdered /\ TasksBuildOnEachOther /\ AttemptsHold
    /\ \A h \in Host : HostKnows(h)
=============================================================================
