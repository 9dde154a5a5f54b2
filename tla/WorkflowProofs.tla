--------------------------- MODULE WorkflowProofs ---------------------------
(***************************************************************************)
(* Proofs about Workflow, for any graph, parallelism, number of attempts   *)
(* and reviews, and any mixture of kills, lost and archived children.      *)
(***************************************************************************)
EXTENDS Workflow, FiniteSetTheorems, WellFoundedInduction, TLAPS

(* A nonempty set of naturals has a least element.                         *)
LEMMA NatLeast ==
  ASSUME NEW S \in SUBSET Nat, S # {}
  PROVE  \E x \in S : \A y \in S : x <= y
  <1> DEFINE R == OpToRel(<, Nat)
  <1>1. IsWellFoundedOn(R, Nat)
    BY NatLessThanWellFounded
  <1>2. \A x, y \in Nat : y < x => <<y, x>> \in R
    BY DEF OpToRel
  <1> HIDE DEF R
  <1>3. PICK x \in S : \A y \in S : ~(<<y, x>> \in R)
    BY <1>1, WFMin
  <1>4. \A y \in S : x \in Nat /\ y \in Nat /\ ~(y < x)
    BY <1>2, <1>3
  <1> QED
    BY <1>3, <1>4

(* The node a phase visits next is one of those it has still to visit.     *)
LEMMA MinIsMember ==
  ASSUME NEW S \in SUBSET Node, S # {}
  PROVE  Min(S) \in S
  <1>1. \E x \in S : \A y \in S : x <= y
    BY NatLeast, WorkflowAssumption
  <1> QED
    BY <1>1 DEF Min

(* A finite nonempty set of naturals has a greatest element: the one with  *)
(* the fewest above it.                                                    *)
LEMMA NatGreatest ==
  ASSUME NEW S \in SUBSET Nat, IsFiniteSet(S), S # {}
  PROVE  \E x \in S : \A y \in S : y <= x
  <1> DEFINE Above(x) == {y \in S : x < y}
             above(x) == Cardinality(Above(x))
             C == {above(x) : x \in S}
  <1>1. \A x \in S : IsFiniteSet(Above(x)) /\ above(x) \in Nat
    <2> TAKE x \in S
    <2>1. Above(x) \in SUBSET S
      OBVIOUS
    <2> HIDE DEF Above
    <2> QED
      BY <2>1, FS_Subset, FS_CardinalityType
  <1>2. PICK c \in C : \A d \in C : c <= d
    <2>1. C \in SUBSET Nat /\ C # {}
      BY <1>1
    <2> HIDE DEF C
    <2> QED
      BY <2>1, NatLeast
  <1>3. PICK x \in S : c = above(x)
    OBVIOUS
  <1>4. ASSUME NEW y \in S, x < y PROVE FALSE
    <2>1. Above(y) \in SUBSET Above(x) /\ y \in Above(x) /\ y \notin Above(y)
      <3>1. x \in Nat /\ y \in Nat /\ \A z \in S : z \in Nat
        OBVIOUS
      <3>2. \A z \in S : y < z => x < z
        BY <1>4, <3>1
      <3>3. ~(y < y)
        BY <3>1
      <3> QED
        BY <1>4, <3>2, <3>3
    <2>2. above(x) <= above(y)
      BY <1>2, <1>3
    <2>3. IsFiniteSet(Above(x)) /\ IsFiniteSet(Above(y)) /\ above(x) \in Nat /\ above(y) \in Nat
      BY <1>1
    <2> HIDE DEF Above
    <2>4. above(y) <= above(x) /\ (above(x) = above(y) => Above(x) = Above(y))
      BY <2>1, <2>3, FS_Subset
    <2>5. above(x) = above(y)
      <3> HIDE DEF above
      <3> QED
        BY <2>2, <2>3, <2>4
    <2> QED
      BY <2>1, <2>4, <2>5
  <1>5. \A y \in S : y <= x
    BY <1>4
  <1> QED
    BY <1>5

(* The members of a finite set with fewer than c below them are at most c. *)
LEMMA FirstOnes ==
  ASSUME NEW S \in SUBSET Nat, IsFiniteSet(S), NEW c \in Nat, NEW P \in SUBSET S,
         \A n \in P : Cardinality({m \in S : m < n}) < c
  PROVE  IsFiniteSet(P) /\ Cardinality(P) <= c
  <1>1. IsFiniteSet(P) /\ Cardinality(P) \in Nat
    BY FS_Subset, FS_CardinalityType
  <1>2. CASE P = {}
    BY <1>2, FS_EmptySet
  <1>3. CASE P # {}
    <2>1. PICK x \in P : \A y \in P : y <= x
      BY <1>1, <1>3, NatGreatest
    <2> DEFINE B == {m \in S : m < x}
    <2>2. (P \ {x}) \in SUBSET B /\ B \in SUBSET S
      BY <2>1
    <2>3. Cardinality(B) < c
      BY <2>1
    <2> HIDE DEF B
    <2>4. IsFiniteSet(B) /\ Cardinality(B) \in Nat
      BY <2>2, FS_Subset, FS_CardinalityType
    <2>5. Cardinality(P \ {x}) <= Cardinality(B)
      BY <2>2, <2>4, FS_Subset
    <2>6. Cardinality(P \ {x}) = Cardinality(P) - 1
      BY <1>1, <2>1, FS_RemoveElement
    <2> QED
      BY <1>1, <2>3, <2>4, <2>5, <2>6
  <1> QED
    BY <1>1, <1>2, <1>3

-----------------------------------------------------------------------------
(* What a step may do to each part of the invariant.                       *)

(* An event that a replay accepts moves one node.                          *)
LEMMA RecordMoves ==
  ASSUME WorkflowTypeOK, ~poisoned, NEW n \in Node, NEW p, NEW q \in NodeState,
         NEW prereq \in BOOLEAN, NEW seq \in 0..MaxReview,
         RecordWith(n, p, q, prereq, seq), Replays(n, p, q)
  PROVE  /\ status' \in [Node -> NodeStatus] /\ events' \in Nat /\ poisoned' = FALSE
         /\ status'[n].state = q /\ status'[n].attempt = status[n].attempt
         /\ status'[n].prerequisite = prereq
         /\ seq # 0 => status'[n].approval = seq
         /\ \A m \in Node : m # n => status'[m] = status[m]
  <1> DEFINE new == [status[n] EXCEPT !.state = q, !.prerequisite = prereq,
                                      !.approval = IF seq = 0 THEN @ ELSE seq]
  <1>1. status[n] \in NodeStatus
    BY DEF WorkflowTypeOK
  <1>2. /\ new \in NodeStatus /\ new.state = q /\ new.attempt = status[n].attempt
        /\ new.prerequisite = prereq /\ (seq # 0 => new.approval = seq)
    BY <1>1 DEF NodeStatus
  <1>3. /\ events' = events + 1 /\ poisoned' = (poisoned \/ ~Replays(n, p, q))
        /\ status' = [status EXCEPT ![n] = new]
    BY DEF RecordWith, AppendEvent
  <1> HIDE DEF new
  <1> QED
    BY <1>2, <1>3 DEF WorkflowTypeOK

(* A transition keeps the statuses fitting: predecessors stay completed.   *)
LEMMA TransitionFits ==
  ASSUME WorkflowInv, UNCHANGED snapshot, NEW n \in Node, NEW q \in NodeState,
         status'[n].state = q, status'[n].attempt = status[n].attempt,
         \A m \in Node : m # n => status'[m] = status[m],
         State(n) # "completed",
         q \in {"running", "recoverable"} => IsTask(n) /\ Bound(n),
         q = "completed" => (IsTask(n) => Bound(n)),
         q = "blocked" => ~Bound(n),
         status'[n].prerequisite => q = "failed" /\ ~Bound(n),
         q \in {"eligible", "running", "completed", "recoverable"} => DepsDone(n)
  PROVE  StatusFits'
  <1>1. \A m \in Node : /\ State(m) = "completed" => State(m)' = "completed"
                        /\ Bound(m)' <=> Bound(m)
                        /\ IsTask(m)' <=> IsTask(m)
                        /\ Deps(m)' = Deps(m) /\ Deps(m) \subseteq Node
    BY DEF State, Bound, IsTask, Deps, WorkflowInv, StatusFits, ValidSnapshot
  <1>2. \A m \in Node : DepsDone(m) => DepsDone(m)'
    BY <1>1 DEF DepsDone
  <1>3. ASSUME NEW m \in Node PROVE NodeFits(m)'
    <2>1. NodeFits(m)
      BY DEF WorkflowInv, StatusFits
    <2>2. CASE m = n
      BY <1>1, <1>2, <2>1, <2>2 DEF NodeFits, State
    <2>3. CASE m # n
      <3>1. State(m)' = State(m) /\ status'[m].prerequisite = status[m].prerequisite
        BY <2>3 DEF State
      <3> QED
        BY <1>1, <1>2, <2>1, <3>1 DEF NodeFits
    <2> QED
      BY <2>2, <2>3
  <1>4. ValidSnapshot(snapshot)'
    BY DEF WorkflowInv, StatusFits, ValidSnapshot
  <1> QED
    BY <1>3, <1>4 DEF StatusFits

(* A completed node keeps its status and its evidence, which the archive   *)
(* may move; a node that completes has evidence.                           *)
LEMMA EvidenceKept ==
  ASSUME WorkflowInv, UNCHANGED snapshot,
         \A m \in Node : State(m) = "completed" => status'[m] = status[m],
         \A m \in Node : (State(m) = "completed" /\ Bound(m)) =>
             /\ (/\ disposition[m][status[m].attempt] # None
                 /\ disposition[m][status[m].attempt].action = "accepted")
                   => disposition'[m][status[m].attempt] = disposition[m][status[m].attempt]
             /\ \/ run'[m][status[m].attempt] = run[m][status[m].attempt]
                \/ /\ run[m][status[m].attempt] = "completed"
                   /\ run'[m][status[m].attempt] = "archived",
         \A m \in Node : State(m)' = "completed" => (State(m) = "completed" \/ Evidenced(m)')
  PROVE  CompletedEvidenced'
  <1> SUFFICES ASSUME NEW n \in Node, State(n) = "completed"
               PROVE  Evidenced(n)'
    BY DEF CompletedEvidenced
  <1>1. Evidenced(n) /\ NodeFits(n)
    BY DEF WorkflowInv, CompletedEvidenced, StatusFits
  <1>2. IsTask(n)' <=> IsTask(n)
    BY DEF IsTask
  <1>3. CASE IsTask(n)
    <2>1. Bound(n) /\ Child(n) \in {"completed", "archived"}
      BY <1>1, <1>3 DEF Evidenced, NodeFits
    <2> QED
      BY <1>2, <1>3, <2>1 DEF Evidenced, Child
  <1>4. CASE ~IsTask(n)
    <2> DEFINE s == snapshot.subject[n]
    <2>1. s \in Deps(n) /\ s \in Node
      BY <1>4 DEF WorkflowInv, StatusFits, ValidSnapshot, IsTask, Deps
    <2>2. State(s) = "completed"
      BY <1>1, <2>1 DEF NodeFits, DepsDone
    <2>3. Bound(s)
      BY <1>1, <1>4 DEF Evidenced, Subject, Bound
    <2>4. Subject(n)' = Subject(n) /\ status'[n] = status[n] /\ Disposed(n)' = Disposed(n)
      <3>1. Subject(n) = <<s, status[s].attempt>> /\ Subject(n)' = <<s, status[s].attempt>>
        BY <2>1, <2>2 DEF Subject
      <3>2. /\ Disposed(n) = disposition[s][status[s].attempt]
            /\ Disposed(n)' = disposition'[s][status[s].attempt]
        BY <3>1 DEF Disposed
      <3>3. Disposed(n) # None /\ Disposed(n).action = "accepted"
        BY <1>1, <1>4 DEF Evidenced
      <3>4. Disposed(n)' = Disposed(n)
        BY <2>1, <2>2, <2>3, <3>2, <3>3
      <3> QED
        BY <3>1, <3>4
    <2>5. SubjectRun(n)' \in {"completed", "archived"}
      BY <1>1, <1>4, <2>1, <2>2, <2>3, <2>4 DEF Evidenced, SubjectRun, Subject
    <2> QED
      BY <1>1, <1>2, <1>4, <2>4, <2>5 DEF Evidenced
  <1> QED
    BY <1>3, <1>4

(* The receipt of a completed workflow stays current as long as a step     *)
(* that finds every node completed records nothing.                        *)
LEMMA ReceiptKept ==
  ASSUME WorkflowInv, UNCHANGED <<snapshot, receipt>>,
         (\A m \in Node : State(m) = "completed") => UNCHANGED journal
  PROVE  ReceiptCurrent'
  <1> SUFFICES ASSUME receipt # None, \A n \in Node : receipt.nodes[n].state = "completed"
               PROVE  /\ ~poisoned'
                      /\ receipt = [events |-> events', nodes |-> status',
                           child |-> [n \in Node |-> IF IsTask(n)' THEN "completed" ELSE "none"]]
    BY DEF ReceiptCurrent
  <1>1. /\ ~poisoned
        /\ receipt = [events |-> events, nodes |-> status,
                 child |-> [n \in Node |-> IF IsTask(n) THEN "completed" ELSE "none"]]
    BY DEF WorkflowInv, ReceiptCurrent
  <1>2. \A m \in Node : State(m) = "completed"
    <2>1. receipt.nodes = status
      BY <1>1
    <2> QED
      BY <2>1 DEF State
  <1>3. UNCHANGED <<status, events, poisoned>>
    BY <1>2 DEF journal
  <1> QED
    BY <1>1, <1>3 DEF IsTask

(* No more nodes run or will.                                              *)
LEMMA CapacityKept ==
  ASSUME WorkflowInv, Occupied' \subseteq Occupied,
         \A n \in Node : status'[n].attempt <= 1 => status[n].attempt <= 1
  PROVE  WithinCapacity'
  <1>1. Occupied \in SUBSET Node
    BY DEF Occupied
  <1>2. IsFiniteSet(Occupied) /\ Cardinality(Occupied) \in Nat
    BY <1>1, FS_Subset, FS_CardinalityType, WorkflowAssumption
  <1>3. IsFiniteSet(Occupied') /\ Cardinality(Occupied') <= Cardinality(Occupied)
        /\ Cardinality(Occupied') \in Nat
    BY <1>2, FS_Subset, FS_CardinalityType
  <1> QED
    BY <1>2, <1>3, WorkflowAssumption DEF WithinCapacity, WorkflowInv

(* The runs stay fitting where nobody touches them and no binding is lost. *)
LEMMA RunsKept ==
  ASSUME WorkflowInv, UNCHANGED <<run, disposition, launches>>,
         \A n \in Node : Bound(n) => Bound(n)'
  PROVE  RunsFit'
  <1> SUFFICES ASSUME NEW n \in Node, NEW k \in Attempt PROVE RunFits(n, k)'
    BY DEF RunsFit
  <1>1. RunFits(n, k)
    BY DEF WorkflowInv, RunsFit
  <1> QED
    BY <1>1 DEF RunFits

(* What no action but Init sets: a node's status has its four fields.      *)
LEMMA StatusTyped ==
  ASSUME WorkflowTypeOK, NEW n \in Node
  PROVE  /\ status[n] \in NodeStatus /\ State(n) \in NodeState
         /\ status[n].attempt \in 0..MaxAttempt /\ status[n].prerequisite \in BOOLEAN
         /\ status[n].approval \in 0..MaxReview
         /\ Bound(n) => status[n].attempt \in Attempt
  <1>1. status[n] \in NodeStatus
    BY DEF WorkflowTypeOK
  <1> QED
    BY <1>1, WorkflowAssumption DEF NodeStatus, State, Bound, Attempt

(* A transition that a replay accepts keeps everything but the lock and    *)
(* the capacity, which depend on where it is recorded.                     *)
LEMMA Moved ==
  ASSUME WorkflowInv, ~poisoned,
         UNCHANGED <<snapshot, receipt, run, disposition, launches>>,
         NEW n \in Node, NEW p \in NodeState, NEW q \in NodeState,
         NEW prereq \in BOOLEAN, NEW seq \in 0..MaxReview,
         RecordWith(n, p, q, prereq, seq), State(n) = p, q \in ALLOWED_TRANSITIONS[p],
         (IsTask(n) /\ (q \in {"running", "completed"} \/ (q = "failed" /\ p # "blocked")))
            => Bound(n),
         q \in {"running", "recoverable"} => IsTask(n) /\ Bound(n),
         q = "blocked" => ~Bound(n),
         prereq => (q = "failed" /\ ~Bound(n)),
         q \in {"eligible", "running", "completed", "recoverable"} => DepsDone(n),
         (p \in {"failed", "recoverable"} /\ q = "eligible") => status[n].attempt >= 2,
         q = "completed" => Evidenced(n)'
  PROVE  /\ status' \in [Node -> NodeStatus] /\ events' \in Nat /\ poisoned' = FALSE
         /\ State(n)' = q /\ status'[n].attempt = status[n].attempt
         /\ \A m \in Node : m # n => status'[m] = status[m]
         /\ StatusFits' /\ RunsFit' /\ CompletedEvidenced' /\ ReceiptCurrent'
  <1>1. Replays(n, p, q)
    BY DEF Replays, Bound, DepsDone
  <1>2. /\ status' \in [Node -> NodeStatus] /\ events' \in Nat /\ poisoned' = FALSE
        /\ status'[n].state = q /\ status'[n].attempt = status[n].attempt
        /\ status'[n].prerequisite = prereq
        /\ \A m \in Node : m # n => status'[m] = status[m]
    BY <1>1, RecordMoves DEF WorkflowInv
  <1>3. State(n) # "completed"
    BY DEF ALLOWED_TRANSITIONS
  <1>4. StatusFits'
    BY <1>2, <1>3, TransitionFits
  <1>5. \A m \in Node : Bound(m) => Bound(m)'
    BY <1>2 DEF Bound
  <1>6. RunsFit'
    BY <1>5, RunsKept
  <1>7. CompletedEvidenced'
    <2>1. \A m \in Node : State(m) = "completed" => status'[m] = status[m]
      BY <1>2, <1>3
    <2>2. \A m \in Node : State(m)' = "completed" => (State(m) = "completed" \/ Evidenced(m)')
      BY <1>2 DEF State
    <2> QED
      BY <2>1, <2>2, EvidenceKept
  <1>8. ReceiptCurrent'
    BY <1>3, ReceiptKept
  <1> QED
    BY <1>2, <1>4, <1>6, <1>7, <1>8 DEF State

(* A step that leaves snapshot, journal and receipt alone.                 *)
LEMMA JournalKept ==
  ASSUME WorkflowInv, UNCHANGED <<snapshot, journal, receipt>>
  PROVE  /\ StatusFits' /\ ReceiptCurrent'
         /\ UNCHANGED <<status, events, poisoned>>
  <1>1. UNCHANGED <<status, events, poisoned>>
    BY DEF journal
  <1>2. ReceiptCurrent'
    BY ReceiptKept
  <1>3. StatusFits'
    <2>1. ValidSnapshot(snapshot)'
      BY DEF WorkflowInv, StatusFits, ValidSnapshot
    <2>2. ASSUME NEW n \in Node PROVE NodeFits(n)'
      BY <1>1 DEF WorkflowInv, StatusFits, NodeFits, Bound, State, IsTask, DepsDone, Deps
    <2> QED
      BY <2>1, <2>2 DEF StatusFits
  <1> QED
    BY <1>1, <1>2, <1>3

(* ... and the children too.                                               *)
LEMMA ChildrenKept ==
  ASSUME WorkflowInv, UNCHANGED <<snapshot, journal, receipt, children>>
  PROVE  StatusFits' /\ ReceiptCurrent' /\ RunsFit' /\ CompletedEvidenced'
  <1>1. StatusFits' /\ ReceiptCurrent' /\ UNCHANGED <<status, events, poisoned>>
    BY JournalKept
  <1>2. UNCHANGED <<run, disposition, launches>>
    BY DEF children
  <1>3. RunsFit'
    BY <1>1, <1>2, RunsKept DEF Bound
  <1>4. CompletedEvidenced'
    BY <1>1, <1>2, EvidenceKept DEF State
  <1> QED
    BY <1>1, <1>3, <1>4

(* In a phase that only reconciles, nothing is being launched and the      *)
(* journal is readable.                                                    *)
Reconciling == section \in {"running", "blocked", "approvals", "reblocked"}

LEMMA ReconcileLocks ==
  ASSUME WorkflowInv, Reconciling, UNCHANGED <<section, thread>>, poisoned' = FALSE
  PROVE  ~poisoned /\ LockFits'
  <1>1. ~poisoned /\ \A n \in Node : thread[n] = "none"
    BY DEF WorkflowInv, LockFits, Reconciling
  <1> QED
    BY <1>1 DEF LockFits, Reconciling

LEMMA ReconcileCapacity ==
  ASSUME WorkflowInv, Reconciling, UNCHANGED <<section, thread>>, poisoned' = FALSE,
         \A m \in Node : State(m)' = "running" => State(m) = "running",
         \A m \in Node : status'[m].attempt = status[m].attempt
  PROVE  WithinCapacity'
  <1>1. \A n \in Node : thread[n] = "none"
    BY DEF WorkflowInv, LockFits, Reconciling
  <1>2. Occupied' \subseteq Occupied
    BY <1>1 DEF Occupied, Reconciling
  <1> QED
    BY <1>2, CapacityKept

-----------------------------------------------------------------------------
(* The phases of a pass.                                                   *)

LEMMA VisitTyped ==
  ASSUME WorkflowInv, NEW n \in Node, NEW phase, Visit(n, phase),
         status' \in [Node -> NodeStatus], events' \in Nat, poisoned' = FALSE
  PROVE  /\ WorkflowTypeOK' /\ UNCHANGED <<snapshot, receipt, section, thread>>
         /\ UNCHANGED <<run, disposition, launches>> /\ UNCHANGED children
  <1>1. /\ UNCHANGED <<snapshot, started, receipt, section, thread>>
        /\ UNCHANGED <<run, disposition, launches>> /\ UNCHANGED <<killed, retriedUnbound>>
        /\ todo' = todo \ {n}
    BY DEF Visit, children, history
  <1>2. WorkflowTypeOK'
    BY <1>1 DEF WorkflowInv, WorkflowTypeOK
  <1> QED
    BY <1>1, <1>2 DEF children

(* A visit that records nothing.                                           *)
LEMMA VisitIdle ==
  ASSUME WorkflowInv, NEW n \in Node, Visit(n, section), Reconciling, UNCHANGED journal
  PROVE  WorkflowInv'
  <1>1. UNCHANGED <<status, events, poisoned>>
    BY DEF journal
  <1>2. poisoned = FALSE
    BY DEF WorkflowInv, WorkflowTypeOK, LockFits, Reconciling
  <1>3. /\ WorkflowTypeOK' /\ UNCHANGED <<snapshot, receipt, section, thread>>
        /\ UNCHANGED children
    BY <1>1, <1>2, VisitTyped DEF WorkflowInv, WorkflowTypeOK
  <1>4. StatusFits' /\ ReceiptCurrent' /\ RunsFit' /\ CompletedEvidenced'
    BY <1>3, ChildrenKept
  <1>5. LockFits' /\ WithinCapacity'
    BY <1>1, <1>2, <1>3, ReconcileLocks, ReconcileCapacity DEF State
  <1> QED
    BY <1>3, <1>4, <1>5 DEF WorkflowInv

(* A visit that records a transition, but none to "running".               *)
LEMMA VisitMoves ==
  ASSUME WorkflowInv, NEW n \in Node, Visit(n, section), Reconciling,
         NEW p \in NodeState, NEW q \in NodeState \ {"running"},
         NEW prereq \in BOOLEAN, NEW seq \in 0..MaxReview,
         RecordWith(n, p, q, prereq, seq), State(n) = p, q \in ALLOWED_TRANSITIONS[p],
         (IsTask(n) /\ (q = "completed" \/ (q = "failed" /\ p # "blocked"))) => Bound(n),
         q = "recoverable" => IsTask(n) /\ Bound(n),
         q = "blocked" => ~Bound(n),
         prereq => (q = "failed" /\ ~Bound(n)),
         q \in {"eligible", "completed", "recoverable"} => DepsDone(n),
         ~(p \in {"failed", "recoverable"} /\ q = "eligible"),
         q = "completed" => Evidenced(n)'
  PROVE  WorkflowInv'
  <1>1. ~poisoned
    BY DEF WorkflowInv, LockFits, Reconciling
  <1>2. UNCHANGED <<snapshot, receipt, run, disposition, launches, section, thread>>
    BY DEF Visit, children
  <1>3. /\ status' \in [Node -> NodeStatus] /\ events' \in Nat /\ poisoned' = FALSE
        /\ State(n)' = q /\ status'[n].attempt = status[n].attempt
        /\ \A m \in Node : m # n => status'[m] = status[m]
        /\ StatusFits' /\ RunsFit' /\ CompletedEvidenced' /\ ReceiptCurrent'
    BY <1>1, <1>2, Moved
  <1>4. WorkflowTypeOK'
    BY <1>3, VisitTyped
  <1>5. /\ \A m \in Node : State(m)' = "running" => State(m) = "running"
        /\ \A m \in Node : status'[m].attempt = status[m].attempt
    BY <1>3 DEF State
  <1>6. LockFits' /\ WithinCapacity'
    BY <1>2, <1>3, <1>5, ReconcileLocks, ReconcileCapacity
  <1> QED
    BY <1>3, <1>4, <1>6 DEF WorkflowInv

LEMMA ReconcileRunningInv ==
  ASSUME WorkflowInv, NEW n \in Node, ReconcileRunning(n)
  PROVE  WorkflowInv'
  <1>1. Visit(n, section) /\ Reconciling /\ section = "running"
    BY DEF ReconcileRunning, Visit, Reconciling
  <1>2. CASE ~(State(n) = "running" /\ Outcome(n) # "running")
    BY <1>1, <1>2, VisitIdle DEF ReconcileRunning
  <1>3. CASE State(n) = "running" /\ Outcome(n) # "running"
    <2> DEFINE q == Outcome(n)
    <2>1. /\ q \in {"completed", "failed", "recoverable"}
          /\ q = "completed" => Child(n) = "completed"
      BY <1>3 DEF Outcome
    <2>2. RecordWith(n, "running", q, FALSE, 0)
      BY <1>3 DEF ReconcileRunning, Record
    <2>3. NodeFits(n)
      BY DEF WorkflowInv, StatusFits
    <2>4. IsTask(n) /\ Bound(n) /\ DepsDone(n)
      BY <1>3, <2>3 DEF NodeFits
    <2>5. 0 \in 0..MaxReview /\ FALSE \in BOOLEAN /\ q \in NodeState \ {"running"} /\ "running" \in NodeState
      BY <2>1, WorkflowAssumption DEF NodeState
    <2>6. q \in ALLOWED_TRANSITIONS["running"]
      BY <2>1 DEF ALLOWED_TRANSITIONS
    <2>7. q = "completed" => Evidenced(n)'
      <3>1. ~poisoned
        BY <1>1 DEF WorkflowInv, LockFits
      <3>2. Replays(n, "running", q)
        BY <1>3, <2>4, <2>6 DEF Replays, Bound
      <3>3. status'[n].attempt = status[n].attempt
        BY <2>2, <2>5, <3>1, <3>2, RecordMoves DEF WorkflowInv
      <3>4. UNCHANGED <<run, snapshot>>
        BY <1>1 DEF Visit, children
      <3> QED
        BY <2>1, <2>4, <3>3, <3>4 DEF Evidenced, IsTask, Child
    <2> HIDE DEF q
    <2> QED
      BY <1>1, <1>3, <2>1, <2>2, <2>4, <2>5, <2>6, <2>7, VisitMoves
  <1> QED
    BY <1>2, <1>3

LEMMA ReconcileBlockedInv ==
  ASSUME WorkflowInv, NEW n \in Node, ReconcileBlocked(n)
  PROVE  WorkflowInv'
  <1> DEFINE reopen == State(n) = "failed" /\ status[n].prerequisite /\ FailedDeps(n) = {}
             ready  == \A d \in Deps(n) : State(d) = "completed"
  <1>1. Visit(n, section) /\ Reconciling
    BY DEF ReconcileBlocked, Reconciling
  <1>2. NodeFits(n)
    BY DEF WorkflowInv, StatusFits
  <1>3. /\ 0 \in 0..MaxReview /\ {TRUE, FALSE} \subseteq BOOLEAN
        /\ {"blocked", "failed", "eligible"} \subseteq NodeState \ {"running"}
    BY WorkflowAssumption DEF NodeState
  <1>4. /\ "blocked" \in ALLOWED_TRANSITIONS["failed"]
        /\ {"failed", "eligible"} \subseteq ALLOWED_TRANSITIONS["blocked"]
    BY DEF ALLOWED_TRANSITIONS
  <1>5. CASE reopen /\ ~ready /\ Record(n, "failed", "blocked")
    <2>1. RecordWith(n, "failed", "blocked", FALSE, 0) /\ ~Bound(n) /\ State(n) = "failed"
      BY <1>2, <1>5 DEF Record, NodeFits
    <2> QED
      BY <1>1, <1>3, <1>4, <2>1, VisitMoves
  <1>6. CASE /\ reopen /\ ready
             /\ events' = events + 2
             /\ status' = [status EXCEPT ![n].state = "eligible",
                                         ![n].prerequisite = FALSE]
             /\ UNCHANGED poisoned
    <2> DEFINE new == [status[n] EXCEPT !.state = "eligible", !.prerequisite = FALSE]
    <2>1. status[n] \in NodeStatus
      BY StatusTyped DEF WorkflowInv
    <2>2. /\ new \in NodeStatus /\ new.state = "eligible" /\ new.attempt = status[n].attempt
          /\ new.prerequisite = FALSE
      BY <1>3, <2>1 DEF NodeStatus
    <2>3. status' = [status EXCEPT ![n] = new]
      BY <1>6
    <2> HIDE DEF new
    <2>a. events' \in Nat
      BY <1>6 DEF WorkflowInv, WorkflowTypeOK
    <2>4. /\ status' \in [Node -> NodeStatus]
          /\ State(n)' = "eligible" /\ status'[n].attempt = status[n].attempt
          /\ status'[n].prerequisite = FALSE
          /\ \A m \in Node : m # n => status'[m] = status[m]
      BY <2>2, <2>3 DEF WorkflowInv, WorkflowTypeOK, State
    <2>5. poisoned' = FALSE
      BY <1>1, <1>6 DEF WorkflowInv, WorkflowTypeOK, LockFits, Reconciling
    <2>6. WorkflowTypeOK' /\ UNCHANGED <<snapshot, receipt, section, thread>>
          /\ UNCHANGED <<run, disposition, launches>>
      BY <1>1, <2>a, <2>4, <2>5, VisitTyped
    <2>7. State(n) = "failed" /\ DepsDone(n)
      BY <1>6 DEF DepsDone
    <2>8. StatusFits'
      BY <1>3, <2>4, <2>6, <2>7, TransitionFits DEF State
    <2>9. \A m \in Node : status'[m].attempt = status[m].attempt
      BY <2>4
    <2>10. RunsFit'
      BY <2>6, <2>9, RunsKept DEF Bound
    <2>11. /\ \A m \in Node : State(m) = "completed" => status'[m] = status[m]
           /\ \A m \in Node : State(m)' = "completed" => State(m) = "completed"
           /\ \A m \in Node : State(m)' = "running" => State(m) = "running"
      BY <2>4, <2>7 DEF State
    <2>12. CompletedEvidenced'
      BY <2>6, <2>11, EvidenceKept
    <2>13. ReceiptCurrent'
      BY <2>6, <2>7, ReceiptKept
    <2>14. LockFits' /\ WithinCapacity'
      BY <1>1, <2>5, <2>6, <2>9, <2>11, ReconcileLocks, ReconcileCapacity
    <2> QED
      BY <2>6, <2>8, <2>10, <2>12, <2>13, <2>14 DEF WorkflowInv
  <1>7. CASE /\ State(n) = "blocked" /\ FailedDeps(n) # {}
             /\ RecordWith(n, "blocked", "failed", TRUE, 0)
    <2>1. ~Bound(n)
      BY <1>2, <1>7 DEF NodeFits
    <2> QED
      BY <1>1, <1>3, <1>4, <1>7, <2>1, VisitMoves
  <1>8. CASE State(n) = "blocked" /\ ready /\ Record(n, "blocked", "eligible")
    <2>1. RecordWith(n, "blocked", "eligible", FALSE, 0) /\ DepsDone(n)
      BY <1>8 DEF Record, DepsDone
    <2> QED
      BY <1>1, <1>3, <1>4, <1>8, <2>1, VisitMoves
  <1>9. CASE UNCHANGED journal
    BY <1>1, <1>9, VisitIdle
  <1> QED
    BY <1>5, <1>6, <1>7, <1>8, <1>9 DEF ReconcileBlocked

LEMMA ReconcileApprovalsInv ==
  ASSUME WorkflowInv, NEW n \in Node, ReconcileApprovals(n)
  PROVE  WorkflowInv'
  <1>1. Visit(n, section) /\ Reconciling /\ section = "approvals"
    BY DEF ReconcileApprovals, Visit, Reconciling
  <1>2. CASE ~(~IsTask(n) /\ Eligible(n) /\ Verdict(n) # "eligible")
    BY <1>1, <1>2, VisitIdle DEF ReconcileApprovals
  <1>3. CASE ~IsTask(n) /\ Eligible(n) /\ Verdict(n) # "eligible"
    <2> DEFINE s == snapshot.subject[n]
               k == status[s].attempt
               d == disposition[s][k]
               q == Verdict(n)
               seq == VerdictReceipt(n)
    <2>1. State(n) = "eligible" /\ DepsDone(n)
      BY <1>3 DEF Eligible, DepsDone
    <2>2. s \in Node /\ State(s) = "completed" /\ s # n
      BY <1>3, <2>1 DEF WorkflowInv, StatusFits, ValidSnapshot, IsTask, Deps, DepsDone
    <2>3. /\ Subject(n) = <<s, k>> /\ Disposed(n) = d /\ SubjectRun(n) = run[s][k]
      BY DEF Subject, Disposed, SubjectRun
    <2>4. ASSUME SubjectSealed(n)
          PROVE  k \in Attempt /\ d \in Disposition /\ run[s][k] \in {"completed", "incomplete"}
      <3>1. k # 0 /\ run[s][k] \in {"completed", "incomplete"}
        BY <2>3, <2>4 DEF SubjectSealed
      <3>2. k \in Attempt
        BY <2>2, <3>1, StatusTyped DEF WorkflowInv, Bound
      <3>3. d \in Disposition \cup {None}
        BY <2>2, <3>2 DEF WorkflowInv, WorkflowTypeOK
      <3>4. d # None
        BY <1>3, <2>3, <2>4 DEF Verdict
      <3> QED
        BY <3>1, <3>2, <3>3, <3>4
    <2>5. q \in {"failed", "completed"}
      BY <1>3 DEF Verdict
    <2>6. seq \in 0..MaxReview /\ (SubjectSealed(n) => seq # 0 /\ seq = d.sequence)
      <3>1. CASE SubjectSealed(n)
        <4>1. d \in Disposition /\ seq = d.sequence
          BY <2>3, <2>4, <3>1 DEF VerdictReceipt
        <4>2. d.sequence \in 1..MaxReview
          BY <4>1 DEF Disposition
        <4> HIDE DEF seq, d
        <4> QED
          BY <4>1, <4>2, WorkflowAssumption DEF WorkflowAssumption
      <3>2. CASE ~SubjectSealed(n)
        BY <3>2, WorkflowAssumption DEF VerdictReceipt
      <3> QED
        BY <3>1, <3>2
    <2>7. RecordWith(n, "eligible", q, FALSE, seq)
      BY <1>3 DEF ReconcileApprovals
    <2>8. q \in ALLOWED_TRANSITIONS["eligible"] /\ q \in NodeState \ {"running"} /\ "eligible" \in NodeState
      BY <2>5 DEF ALLOWED_TRANSITIONS, NodeState
    <2>9. q = "completed" => Evidenced(n)'
      <3> SUFFICES ASSUME q = "completed" PROVE Evidenced(n)'
        OBVIOUS
      <3>1. ~poisoned /\ UNCHANGED <<run, disposition, snapshot>>
        BY <1>1 DEF WorkflowInv, LockFits, Visit, children
      <3>2. Replays(n, "eligible", q)
        BY <1>3, <2>1, <2>5, <2>8 DEF Replays
      <3>3. SubjectSealed(n) /\ d.action = "accepted"
        BY <2>3 DEF Verdict
      <3>4. status'[n].approval = seq /\ status'[s] = status[s]
        <4>1. /\ seq # 0 => status'[n].approval = seq
              /\ \A m \in Node : m # n => status'[m] = status[m]
          <5> HIDE DEF q, seq
          <5> QED
            BY <2>6, <2>7, <2>8, <3>1, <3>2, RecordMoves DEF WorkflowInv
        <4> QED
          BY <2>2, <2>6, <3>3, <4>1
      <3>5. RunFits(s, k) /\ d \in Disposition
        BY <2>2, <2>4, <3>3 DEF WorkflowInv, RunsFit
      <3>6. d # None /\ run[s][k] = "completed" /\ k # 0
        <4>1. d # None
          BY <1>3, <2>3, <3>3 DEF Verdict
        <4>2. run[s][k] = "completed"
          BY <2>4, <3>3, <3>5, <4>1 DEF RunFits
        <4>3. k # 0
          BY <2>3, <3>3 DEF SubjectSealed
        <4> QED
          BY <4>1, <4>2, <4>3
      <3>7. /\ Subject(n)' = <<s, k>> /\ Disposed(n)' = d /\ SubjectRun(n)' = run[s][k]
            /\ ~IsTask(n)'
        BY <1>3, <3>1, <3>4 DEF Subject, Disposed, SubjectRun, IsTask
      <3>8. d.action = "accepted" /\ d.sequence = status'[n].approval
        BY <2>6, <3>3, <3>4
      <3> HIDE DEF q, seq, d, k, s
      <3> QED
        BY <3>6, <3>7, <3>8 DEF Evidenced
    <2> HIDE DEF q, seq
    <2> QED
      BY <1>1, <1>3, <2>1, <2>5, <2>6, <2>7, <2>8, <2>9, VisitMoves
  <1> QED
    BY <1>2, <1>3

LEMMA BeginPassInv ==
  ASSUME WorkflowInv, BeginPass
  PROVE  WorkflowInv'
  <1>1. /\ section = "free" /\ ~poisoned /\ section' = "running" /\ todo' = Node
        /\ UNCHANGED <<snapshot, started, journal, receipt, children, thread, history>>
    BY DEF BeginPass
  <1>2. StatusFits' /\ ReceiptCurrent' /\ RunsFit' /\ CompletedEvidenced'
    BY <1>1, ChildrenKept
  <1>3. UNCHANGED <<status, events, poisoned, run, disposition, launches, killed, retriedUnbound>>
    BY <1>1 DEF journal, children, history
  <1>4. WorkflowTypeOK'
    BY <1>1, <1>3 DEF WorkflowInv, WorkflowTypeOK, Phase
  <1>5. \A n \in Node : thread[n] = "none"
    BY <1>1 DEF WorkflowInv, LockFits
  <1>6. LockFits'
    BY <1>1, <1>3, <1>5 DEF LockFits
  <1>7. Occupied' \subseteq Occupied
    BY <1>1, <1>3, <1>5 DEF Occupied, State
  <1>8. WithinCapacity'
    BY <1>3, <1>7, CapacityKept
  <1> QED
    BY <1>2, <1>4, <1>6, <1>8 DEF WorkflowInv

(* plan_launches leaves room for the nodes that run.                       *)
LEMMA PlanFits ==
  ASSUME WorkflowInv
  PROVE  /\ PlanLaunches \subseteq Node /\ IsFiniteSet(PlanLaunches)
         /\ Cardinality(PlanLaunches) <= Capacity
         /\ \A n \in PlanLaunches : IsTask(n) /\ State(n) = "eligible"
  <1> DEFINE ready == {n \in Node : IsTask(n) /\ Eligible(n)}
             running == {n \in Node : State(n) = "running"}
  <1>1. IsFiniteSet(ready) /\ ready \in SUBSET Nat
    <2>1. ready \in SUBSET Node
      OBVIOUS
    <2> HIDE DEF ready
    <2> QED
      BY <2>1, FS_Subset, WorkflowAssumption
  <1>2. Cardinality(running) \in Nat
    <2>1. running \in SUBSET Node
      OBVIOUS
    <2> HIDE DEF running
    <2> QED
      BY <2>1, FS_Subset, FS_CardinalityType, WorkflowAssumption
  <1>3. Capacity \in Nat
    <2>1. Capacity = IF MaxParallelism > Cardinality(running)
                     THEN MaxParallelism - Cardinality(running) ELSE 0
      BY DEF Capacity
    <2> HIDE DEF running
    <2> QED
      BY <1>2, <2>1, WorkflowAssumption
  <1>4. PlanLaunches = {n \in ready : Cardinality({m \in ready : m < n}) < Capacity}
    BY DEF PlanLaunches
  <1>5. \A n \in ready : n \in Node /\ IsTask(n) /\ State(n) = "eligible"
    BY DEF Eligible
  <1> HIDE DEF ready
  <1>6. PlanLaunches \in SUBSET ready
        /\ \A n \in PlanLaunches : Cardinality({m \in ready : m < n}) < Capacity
    BY <1>4
  <1>7. IsFiniteSet(PlanLaunches) /\ Cardinality(PlanLaunches) <= Capacity
    BY <1>1, <1>3, <1>6, FirstOnes
  <1> QED
    BY <1>5, <1>6, <1>7

LEMMA NextPhaseInv ==
  ASSUME WorkflowInv, NextPhase
  PROVE  WorkflowInv'
  <1>1. /\ section \in Phase \ {"execute"} /\ todo = {}
        /\ UNCHANGED <<snapshot, started, journal, receipt, children, thread, history>>
    BY DEF NextPhase
  <1>2. StatusFits' /\ ReceiptCurrent' /\ RunsFit' /\ CompletedEvidenced'
    BY <1>1, ChildrenKept
  <1>3. UNCHANGED <<status, events, poisoned, run, disposition, launches, killed, retriedUnbound>>
    BY <1>1 DEF journal, children, history
  <1>4. PlanLaunches \subseteq Node /\ \A n \in PlanLaunches : IsTask(n) /\ State(n) = "eligible"
    BY PlanFits
  <1>5. ~poisoned
    BY <1>1 DEF WorkflowInv, LockFits, Phase
  <1>6. WorkflowTypeOK'
    <2>1. section' \in Phase /\ todo' \subseteq Node
      BY <1>4 DEF NextPhase, Phase
    <2> QED
      BY <1>1, <1>3, <2>1 DEF WorkflowInv, WorkflowTypeOK
  <1>7. CASE section = "bind"
    <2>1. section' = "execute" /\ todo' = {}
      BY <1>7 DEF NextPhase
    <2>2. LockFits'
      BY <1>1, <1>3, <1>5, <1>7, <2>1 DEF WorkflowInv, LockFits, Bound, State, IsTask, Child
    <2>3. Occupied' \subseteq Occupied
      BY <1>1, <1>3, <2>1 DEF Occupied, State
    <2>4. WithinCapacity'
      BY <1>3, <2>3, CapacityKept
    <2> QED
      BY <1>2, <1>6, <2>2, <2>4 DEF WorkflowInv
  <1>8. CASE section # "bind"
    <2>1. \A n \in Node : thread[n] = "none"
      BY <1>1, <1>8 DEF WorkflowInv, LockFits, Phase
    <2>2. CASE section # "reblocked"
      <3>1. section' \in {"blocked", "approvals", "reblocked"}
        BY <1>8, <2>2 DEF NextPhase
      <3>2. LockFits'
        BY <1>1, <1>3, <1>5, <2>1, <3>1 DEF LockFits
      <3>3. Occupied' \subseteq Occupied
        BY <1>1, <1>3, <2>1, <3>1 DEF Occupied, State
      <3>4. WithinCapacity'
        BY <1>3, <3>3, CapacityKept
      <3> QED
        BY <1>2, <1>6, <3>2, <3>4 DEF WorkflowInv
    <2>3. CASE section = "reblocked"
      <3>1. section' = "bind" /\ todo' = PlanLaunches
        BY <2>3 DEF NextPhase
      <3>2. LockFits'
        BY <1>1, <1>3, <1>4, <1>5, <2>1, <3>1 DEF LockFits, IsTask, State
      <3>3. WithinCapacity'
        <4> DEFINE running == {n \in Node : State(n) = "running"}
        <4>1. running \in SUBSET Node /\ running \in SUBSET Occupied /\ Occupied \in SUBSET Node
          BY DEF Occupied
        <4>2. Occupied' = running \cup PlanLaunches
          BY <1>1, <1>3, <1>4, <1>5, <2>1, <3>1 DEF Occupied, State
        <4>3. Capacity = IF MaxParallelism > Cardinality(running)
                         THEN MaxParallelism - Cardinality(running) ELSE 0
          BY DEF Capacity
        <4> HIDE DEF running
        <4>4. /\ IsFiniteSet(running) /\ Cardinality(running) \in Nat
              /\ IsFiniteSet(Occupied) /\ Cardinality(Occupied) \in Nat
              /\ Cardinality(running) <= Cardinality(Occupied)
          BY <4>1, FS_Subset, FS_CardinalityType, WorkflowAssumption
        <4>5. /\ IsFiniteSet(PlanLaunches) /\ Cardinality(PlanLaunches) \in Nat
              /\ Cardinality(PlanLaunches) <= Capacity
          BY PlanFits, FS_CardinalityType
        <4>6. /\ Cardinality(running \cup PlanLaunches)
                   = Cardinality(running) + Cardinality(PlanLaunches)
                        - Cardinality(running \cap PlanLaunches)
              /\ Cardinality(running \cap PlanLaunches) \in Nat
          BY <4>4, <4>5, FS_Union, FS_Intersection, FS_CardinalityType
        <4>7. ASSUME \A n \in Node : status[n].attempt <= 1
              PROVE  Cardinality(running) <= MaxParallelism
          BY <4>4, <4>7, WorkflowAssumption DEF WorkflowInv, WithinCapacity
        <4>8. ASSUME \A n \in Node : status[n].attempt <= 1
              PROVE  Cardinality(running \cup PlanLaunches) <= MaxParallelism
          BY <4>3, <4>4, <4>5, <4>6, <4>7, <4>8, WorkflowAssumption
        <4> QED
          BY <1>3, <4>2, <4>8 DEF WithinCapacity
      <3> QED
        BY <1>2, <1>6, <3>2, <3>3 DEF WorkflowInv
    <2> QED
      BY <2>2, <2>3
  <1> QED
    BY <1>7, <1>8

LEMMA EndPassInv ==
  ASSUME WorkflowInv, EndPass
  PROVE  WorkflowInv'
  <1>1. /\ section = "execute" /\ section' = "free" /\ \A n \in Node : thread[n] = "none"
        /\ UNCHANGED <<snapshot, started, journal, receipt, children, todo, thread, history>>
    BY DEF EndPass
  <1>2. StatusFits' /\ ReceiptCurrent' /\ RunsFit' /\ CompletedEvidenced'
    BY <1>1, ChildrenKept
  <1>3. UNCHANGED <<status, events, poisoned, run, disposition, launches, killed, retriedUnbound>>
    BY <1>1 DEF journal, children, history
  <1>4. WorkflowTypeOK'
    BY <1>1, <1>3 DEF WorkflowInv, WorkflowTypeOK
  <1>5. LockFits'
    BY <1>1, <1>3 DEF WorkflowInv, LockFits
  <1>6. Occupied' \subseteq Occupied
    BY <1>1, <1>3 DEF Occupied, State
  <1>7. WithinCapacity'
    BY <1>3, <1>6, CapacityKept
  <1> QED
    BY <1>2, <1>4, <1>5, <1>7 DEF WorkflowInv

LEMMA StartInv ==
  ASSUME WorkflowInv, Start
  PROVE  WorkflowInv'
  <1>1. started' = TRUE /\ UNCHANGED <<snapshot, journal, receipt, children, command, history>>
    BY DEF Start
  <1>2. StatusFits' /\ ReceiptCurrent' /\ RunsFit' /\ CompletedEvidenced'
    BY <1>1, ChildrenKept
  <1>3. UNCHANGED <<status, events, poisoned, run, disposition, launches, killed, retriedUnbound,
                    section, todo, thread>>
    BY <1>1 DEF journal, children, history, command
  <1>4. WorkflowTypeOK'
    BY <1>1, <1>3 DEF WorkflowInv, WorkflowTypeOK
  <1>5. LockFits'
    BY <1>1, <1>3 DEF WorkflowInv, LockFits, Bound, State, IsTask, Child
  <1>6. Occupied' \subseteq Occupied
    BY <1>1, <1>3 DEF Occupied, State
  <1>7. WithinCapacity'
    BY <1>3, <1>6, CapacityKept
  <1> QED
    BY <1>2, <1>4, <1>5, <1>7 DEF WorkflowInv

-----------------------------------------------------------------------------
(* Bindings and retries.                                                   *)

(* A binding that a replay accepts gives one node its next attempt.        *)
LEMMA BindingMoves ==
  ASSUME WorkflowInv, ~poisoned,
         UNCHANGED <<snapshot, receipt, run, disposition, launches>>,
         NEW n \in Node, NEW a \in Attempt, NEW r,
         RecordBinding(n, a, r), BindingReplays(n, a, r),
         IsTask(n), ~status[n].prerequisite, DepsDone(n)
  PROVE  /\ status' \in [Node -> NodeStatus] /\ events' \in Nat /\ poisoned' = FALSE
         /\ State(n)' = State(n) /\ status'[n].attempt = a
         /\ \A m \in Node : m # n => status'[m] = status[m]
         /\ StatusFits' /\ RunsFit' /\ CompletedEvidenced' /\ ReceiptCurrent'
  <1> DEFINE new == [status[n] EXCEPT !.attempt = a]
  <1>1. status[n] \in NodeStatus
    BY StatusTyped DEF WorkflowInv
  <1>2. a \in 0..MaxAttempt /\ a # 0
    BY WorkflowAssumption DEF Attempt
  <1>3. /\ new \in NodeStatus /\ new.state = status[n].state /\ new.attempt = a
        /\ new.prerequisite = status[n].prerequisite
    BY <1>1, <1>2 DEF NodeStatus
  <1>4. /\ events' = events + 1 /\ poisoned' = (poisoned \/ ~BindingReplays(n, a, r))
        /\ status' = [status EXCEPT ![n] = new]
    BY DEF RecordBinding, AppendEvent
  <1> HIDE DEF new
  <1>5. /\ status' \in [Node -> NodeStatus] /\ events' \in Nat /\ poisoned' = FALSE
        /\ State(n)' = State(n) /\ status'[n].attempt = a
        /\ status'[n].prerequisite = status[n].prerequisite
        /\ \A m \in Node : m # n => status'[m] = status[m]
    BY <1>3, <1>4 DEF WorkflowInv, WorkflowTypeOK, State
  <1>6. State(n) \notin {"blocked", "running", "completed"}
    BY DEF BindingReplays
  <1>7. StatusFits'
    <2>1. \A m \in Node : /\ State(m)' = State(m) /\ (IsTask(m)' <=> IsTask(m))
                          /\ Deps(m)' = Deps(m) /\ Deps(m) \subseteq Node
      BY <1>5 DEF State, IsTask, Deps, WorkflowInv, StatusFits, ValidSnapshot
    <2>2. \A m \in Node : DepsDone(m) => DepsDone(m)'
      BY <2>1 DEF DepsDone
    <2>3. ASSUME NEW m \in Node PROVE NodeFits(m)'
      <3>1. NodeFits(m)
        BY DEF WorkflowInv, StatusFits
      <3>2. CASE m = n
        BY <1>2, <1>5, <1>6, <2>1, <2>2, <3>1, <3>2 DEF NodeFits, Bound
      <3>3. CASE m # n
        <4>1. (Bound(m)' <=> Bound(m)) /\ status'[m].prerequisite = status[m].prerequisite
          BY <1>5, <3>3 DEF Bound
        <4> QED
          BY <2>1, <2>2, <3>1, <4>1 DEF NodeFits
      <3> QED
        BY <3>2, <3>3
    <2>4. ValidSnapshot(snapshot)'
      BY DEF WorkflowInv, StatusFits, ValidSnapshot
    <2> QED
      BY <2>3, <2>4 DEF StatusFits
  <1>8. \A m \in Node : Bound(m) => Bound(m)'
    BY <1>2, <1>5 DEF Bound
  <1>9. RunsFit'
    BY <1>8, RunsKept
  <1>10. CompletedEvidenced'
    <2>1. \A m \in Node : State(m) = "completed" => status'[m] = status[m]
      BY <1>5, <1>6
    <2>2. \A m \in Node : State(m)' = "completed" => State(m) = "completed"
      BY <1>5 DEF State
    <2> QED
      BY <2>1, <2>2, EvidenceKept
  <1>11. ReceiptCurrent'
    BY <1>6, ReceiptKept
  <1> QED
    BY <1>5, <1>7, <1>9, <1>10, <1>11

LEMMA BindInv ==
  ASSUME WorkflowInv, NEW n \in Node, Bind(n)
  PROVE  WorkflowInv'
  <1>1. /\ section = "bind" /\ todo # {} /\ n = Min(todo) /\ todo' = todo \ {n}
        /\ thread' = [thread EXCEPT ![n] = "resolve"]
        /\ UNCHANGED <<snapshot, started, receipt, section, killed, retriedUnbound>>
        /\ UNCHANGED <<run, disposition, launches>>
    BY DEF Bind, children, history
  <1>2. n \in todo
    BY <1>1, MinIsMember DEF WorkflowInv, WorkflowTypeOK
  <1>3. poisoned = FALSE /\ IsTask(n) /\ State(n) = "eligible"
    BY <1>1, <1>2 DEF WorkflowInv, LockFits, WorkflowTypeOK
  <1>4. ~status[n].prerequisite /\ DepsDone(n)
    BY <1>3 DEF WorkflowInv, StatusFits, NodeFits
  <1>5. /\ status' \in [Node -> NodeStatus] /\ events' \in Nat /\ poisoned' = FALSE
        /\ State(n)' = State(n) /\ Bound(n)'
        /\ status'[n].attempt <= 1 => status[n].attempt <= 1
        /\ \A m \in Node : m # n => status'[m] = status[m]
        /\ StatusFits' /\ RunsFit' /\ CompletedEvidenced' /\ ReceiptCurrent'
    <2>1. CASE status[n].attempt = 0
      <3>1. RecordBinding(n, 1, None) /\ 1 \in Attempt
        BY <2>1, WorkflowAssumption DEF Bind, Attempt
      <3>2. BindingReplays(n, 1, None)
        BY <1>3, <2>1 DEF BindingReplays
      <3>3. /\ status' \in [Node -> NodeStatus] /\ events' \in Nat /\ poisoned' = FALSE
            /\ State(n)' = State(n) /\ status'[n].attempt = 1
            /\ \A m \in Node : m # n => status'[m] = status[m]
            /\ StatusFits' /\ RunsFit' /\ CompletedEvidenced' /\ ReceiptCurrent'
        BY <1>1, <1>3, <1>4, <3>1, <3>2, BindingMoves
      <3> QED
        BY <2>1, <3>3 DEF Bound
    <2>2. CASE status[n].attempt # 0
      <3>1. UNCHANGED journal /\ UNCHANGED children
        BY <2>2 DEF Bind
      <3>2. UNCHANGED <<status, events, poisoned>>
        BY <3>1 DEF journal
      <3>3. StatusFits' /\ RunsFit' /\ CompletedEvidenced' /\ ReceiptCurrent'
        BY <1>1, <3>1, ChildrenKept
      <3> QED
        BY <1>3, <2>2, <3>2, <3>3 DEF Bound, State, WorkflowInv, WorkflowTypeOK
    <2> QED
      BY <2>1, <2>2
  <1>6. WorkflowTypeOK'
    BY <1>1, <1>5 DEF WorkflowInv, WorkflowTypeOK, Step
  <1>7. /\ thread'[n] = "resolve" /\ \A m \in Node : m # n => thread'[m] = thread[m]
        /\ \A m \in Node : State(m)' = State(m) /\ (IsTask(m)' <=> IsTask(m))
        /\ \A m \in Node : m # n => (Bound(m)' <=> Bound(m)) /\ Child(m)' = Child(m)
    BY <1>1, <1>5 DEF WorkflowInv, WorkflowTypeOK, State, IsTask, Bound, Child
  <1>8. LockFits'
    <2>1. \A m \in todo' : m \in Node /\ IsTask(m)' /\ State(m)' = "eligible"
      BY <1>1, <1>7 DEF WorkflowInv, WorkflowTypeOK, LockFits
    <2>2. ASSUME NEW m \in Node, thread'[m] # "none"
          PROVE  IsTask(m)' /\ Bound(m)' /\ State(m)' = "eligible"
      <3>1. CASE m = n
        BY <1>3, <1>5, <1>7, <3>1
      <3>2. CASE m # n
        BY <1>3, <1>7, <2>2, <3>2 DEF WorkflowInv, LockFits
      <3> QED
        BY <3>1, <3>2
    <2>3. ASSUME NEW m \in Node
          PROVE  /\ thread'[m] = "prepare" => Child(m)' \in {"none", "dir", "archived"}
                 /\ thread'[m] = "start" => Child(m)' = "prepared"
      <3>1. CASE m = n
        BY <1>7, <3>1
      <3>2. CASE m # n
        BY <1>7, <3>2 DEF WorkflowInv, LockFits
      <3> QED
        BY <3>1, <3>2
    <2> QED
      BY <1>1, <1>5, <2>1, <2>2, <2>3 DEF LockFits
  <1>9. Occupied' \subseteq Occupied
    BY <1>1, <1>2, <1>3, <1>7 DEF Occupied
  <1>10. WithinCapacity'
    BY <1>5, <1>9, CapacityKept
  <1> QED
    BY <1>5, <1>6, <1>8, <1>10 DEF WorkflowInv

LEMMA RetryBindInv ==
  ASSUME WorkflowInv, NEW n \in Node, RetryBind(n)
  PROVE  WorkflowInv'
  <1> DEFINE a == status[n].attempt
  <1>1. /\ section = "free" /\ ~poisoned /\ IsTask(n) /\ State(n) \in {"failed", "recoverable"}
        /\ a < MaxAttempt /\ RecordBinding(n, a + 1, a)
        /\ section' = "retry" /\ todo' = {n} /\ retriedUnbound' = (retriedUnbound \/ a = 0)
        /\ UNCHANGED <<snapshot, started, receipt, thread, killed>>
        /\ UNCHANGED <<run, disposition, launches>>
    BY DEF RetryBind, children
  <1>2. a \in 0..MaxAttempt
    BY StatusTyped DEF WorkflowInv
  <1>3. NodeFits(n)
    BY DEF WorkflowInv, StatusFits
  <1>4. \A m \in Node : thread[m] = "none"
    BY <1>1 DEF WorkflowInv, LockFits
  <1>5. CASE a = 0
    <2>1. ~BindingReplays(n, a + 1, a)
      BY <1>1, <1>5 DEF BindingReplays
    <2>2. events' = events + 1 /\ poisoned' = TRUE /\ status' = status
      BY <1>1, <2>1 DEF RecordBinding, AppendEvent
    <2>3. WorkflowTypeOK'
      BY <1>1, <2>2 DEF WorkflowInv, WorkflowTypeOK
    <2>4. StatusFits'
      BY <1>1, <2>2 DEF WorkflowInv, StatusFits, ValidSnapshot, NodeFits, Bound, State,
                        IsTask, DepsDone, Deps
    <2>5. RunsFit'
      BY <1>1, <2>2, RunsKept DEF Bound
    <2>6. CompletedEvidenced'
      BY <1>1, <2>2, EvidenceKept DEF State
    <2>7. ReceiptCurrent'
      BY <1>1, ReceiptKept
    <2>8. LockFits'
      BY <1>1, <1>4, <1>5, <2>2 DEF LockFits, IsTask
    <2>9. Occupied' \subseteq Occupied
      BY <2>2 DEF Occupied, State
    <2>10. WithinCapacity'
      BY <2>2, <2>9, CapacityKept
    <2> QED
      BY <2>3, <2>4, <2>5, <2>6, <2>7, <2>8, <2>10 DEF WorkflowInv
  <1>6. CASE a # 0
    <2>1. ~status[n].prerequisite /\ DepsDone(n)
      BY <1>3, <1>6 DEF NodeFits, Bound
    <2>2. a + 1 \in Attempt /\ a + 1 >= 2
      BY <1>1, <1>2, <1>6, WorkflowAssumption DEF Attempt
    <2>3. BindingReplays(n, a + 1, a)
      BY <1>1, <1>6 DEF BindingReplays
    <2>4. /\ status' \in [Node -> NodeStatus] /\ events' \in Nat /\ poisoned' = FALSE
          /\ State(n)' = State(n) /\ status'[n].attempt = a + 1
          /\ \A m \in Node : m # n => status'[m] = status[m]
          /\ StatusFits' /\ RunsFit' /\ CompletedEvidenced' /\ ReceiptCurrent'
      <3> HIDE DEF a
      <3> QED
        BY <1>1, <2>1, <2>2, <2>3, BindingMoves
    <2>5. WorkflowTypeOK'
      BY <1>1, <2>4 DEF WorkflowInv, WorkflowTypeOK
    <2>6. LockFits'
      BY <1>1, <1>4, <2>2, <2>4 DEF LockFits, IsTask
    <2>7. Occupied' \subseteq Occupied
      BY <1>1, <1>4, <2>4 DEF Occupied, State
    <2>8. \A m \in Node : status'[m].attempt <= 1 => status[m].attempt <= 1
      <3>1. ~(a + 1 <= 1)
        BY <1>2, <1>6, WorkflowAssumption
      <3> QED
        BY <2>4, <3>1
    <2>9. WithinCapacity'
      BY <2>7, <2>8, CapacityKept
    <2> QED
      BY <2>4, <2>5, <2>6, <2>9 DEF WorkflowInv
  <1> QED
    BY <1>5, <1>6

LEMMA RetryReopenInv ==
  ASSUME WorkflowInv, NEW n \in Node, RetryReopen(n)
  PROVE  WorkflowInv'
  <1>1. /\ section = "retry" /\ todo = {n} /\ RecordWith(n, State(n), "eligible", FALSE, 0)
        /\ section' = "execute" /\ todo' = {}
        /\ thread' = [thread EXCEPT ![n] = "resolve"]
        /\ UNCHANGED <<snapshot, started, receipt, killed, retriedUnbound>>
        /\ UNCHANGED <<run, disposition, launches>>
    BY DEF RetryReopen, children, history, Record
  <1>2. IsTask(n) /\ (~poisoned => State(n) \in {"failed", "recoverable"} /\ status[n].attempt >= 2)
    BY <1>1 DEF WorkflowInv, LockFits
  <1>3. /\ \A m \in Node : thread[m] = "none"
        /\ \A m \in Node : thread'[m] = IF m = n THEN "resolve" ELSE "none"
    BY <1>1 DEF WorkflowInv, LockFits, WorkflowTypeOK
  <1>4. CASE poisoned
    <2>1. events' = events + 1 /\ poisoned' = TRUE /\ status' = status
      BY <1>1, <1>4 DEF RecordWith, AppendEvent
    <2>2. WorkflowTypeOK'
      BY <1>1, <2>1 DEF WorkflowInv, WorkflowTypeOK, Step, Phase
    <2>3. StatusFits'
      BY <1>1, <2>1 DEF WorkflowInv, StatusFits, ValidSnapshot, NodeFits, Bound, State,
                        IsTask, DepsDone, Deps
    <2>4. RunsFit'
      BY <1>1, <2>1, RunsKept DEF Bound
    <2>5. CompletedEvidenced'
      BY <1>1, <2>1, EvidenceKept DEF State
    <2>6. ReceiptCurrent'
      BY <1>1, <1>4 DEF WorkflowInv, ReceiptCurrent
    <2>7. LockFits'
      BY <1>1, <1>3, <1>4, <2>1 DEF WorkflowInv, LockFits
    <2>8. Occupied' \subseteq Occupied
      BY <2>1 DEF Occupied, State
    <2>9. WithinCapacity'
      BY <2>1, <2>8, CapacityKept
    <2> QED
      BY <2>2, <2>3, <2>4, <2>5, <2>6, <2>7, <2>9 DEF WorkflowInv
  <1>5. CASE ~poisoned
    <2> DEFINE p == State(n)
    <2>1. p \in {"failed", "recoverable"} /\ status[n].attempt >= 2
      BY <1>2, <1>5
    <2>2. /\ p \in NodeState /\ "eligible" \in NodeState /\ FALSE \in BOOLEAN
          /\ 0 \in 0..MaxReview /\ "eligible" \in ALLOWED_TRANSITIONS[p]
      BY <2>1, WorkflowAssumption DEF NodeState, ALLOWED_TRANSITIONS
    <2>3. Bound(n) /\ DepsDone(n)
      BY <2>1, StatusTyped DEF WorkflowInv, StatusFits, NodeFits, Bound
    <2>4. /\ status' \in [Node -> NodeStatus] /\ events' \in Nat /\ poisoned' = FALSE
          /\ State(n)' = "eligible" /\ status'[n].attempt = status[n].attempt
          /\ \A m \in Node : m # n => status'[m] = status[m]
          /\ StatusFits' /\ RunsFit' /\ CompletedEvidenced' /\ ReceiptCurrent'
      BY <1>1, <1>5, <2>1, <2>2, <2>3, Moved
    <2>5. WorkflowTypeOK'
      BY <1>1, <2>4 DEF WorkflowInv, WorkflowTypeOK, Step, Phase
    <2>6. LockFits'
      BY <1>1, <1>2, <1>3, <2>3, <2>4 DEF LockFits, IsTask, Bound
    <2>7. WithinCapacity'
      <3>1. ~(status'[n].attempt <= 1)
        BY <2>1, <2>4, StatusTyped DEF WorkflowInv
      <3> QED
        BY <3>1 DEF WithinCapacity
    <2> QED
      BY <2>4, <2>5, <2>6, <2>7 DEF WorkflowInv
  <1> QED
    BY <1>4, <1>5

-----------------------------------------------------------------------------
(* The threads of _execute.                                                *)

(* The thread of a node is at a bound, eligible task.                      *)
LEMMA ThreadOf ==
  ASSUME WorkflowInv, ~poisoned, NEW n \in Node, thread[n] # "none"
  PROVE  /\ IsTask(n) /\ Bound(n) /\ State(n) = "eligible" /\ DepsDone(n)
         /\ status[n].attempt \in Attempt
  BY StatusTyped DEF WorkflowInv, LockFits, StatusFits, NodeFits

(* A thread goes on without touching other nodes.                          *)
LEMMA ThreadSteps ==
  ASSUME WorkflowInv, ~poisoned, poisoned' = FALSE, UNCHANGED <<snapshot, section, todo>>,
         NEW n \in Node, section = "execute", thread[n] # "none",
         NEW t \in Step, Go(n, t),
         \A m \in Node : m # n => status'[m] = status[m] /\ run'[m] = run[m],
         status'[n].attempt = status[n].attempt,
         t # "none" => State(n)' = State(n),
         t = "prepare" => Child(n)' \in {"none", "dir", "archived"},
         t = "start" => Child(n)' = "prepared"
  PROVE  LockFits' /\ WithinCapacity'
  <1>1. thread'[n] = t /\ \A m \in Node : m # n => thread'[m] = thread[m]
    BY DEF Go, WorkflowInv, WorkflowTypeOK
  <1>2. IsTask(n) /\ Bound(n) /\ State(n) = "eligible"
    BY ThreadOf
  <1>3. \A m \in Node : /\ IsTask(m)' <=> IsTask(m)
                        /\ Bound(m)' <=> Bound(m)
                        /\ m # n => State(m)' = State(m) /\ Child(m)' = Child(m)
    BY DEF IsTask, Bound, State, Child
  <1>4. LockFits'
    <2>1. ASSUME NEW m \in Node, thread'[m] # "none"
          PROVE  IsTask(m)' /\ Bound(m)' /\ State(m)' = "eligible"
      <3>1. CASE m = n
        BY <1>1, <1>2, <1>3, <2>1, <3>1
      <3>2. CASE m # n
        BY <1>1, <1>3, <2>1, <3>2 DEF WorkflowInv, LockFits
      <3> QED
        BY <3>1, <3>2
    <2>2. ASSUME NEW m \in Node
          PROVE  /\ thread'[m] = "prepare" => Child(m)' \in {"none", "dir", "archived"}
                 /\ thread'[m] = "start" => Child(m)' = "prepared"
      <3>1. CASE m = n
        BY <1>1, <3>1
      <3>2. CASE m # n
        BY <1>1, <1>3, <3>2 DEF WorkflowInv, LockFits
      <3> QED
        BY <3>1, <3>2
    <2> QED
      BY <2>1, <2>2 DEF LockFits
  <1>5. Occupied' \subseteq Occupied
    BY <1>1, <1>3 DEF Occupied
  <1>6. WithinCapacity'
    BY <1>5, CapacityKept
  <1> QED
    BY <1>4, <1>6

(* A thread's step that records nothing and leaves the children alone.     *)
LEMMA ThreadIdles ==
  ASSUME WorkflowInv, ~poisoned, NEW n \in Node, section = "execute", thread[n] # "none",
         NEW t \in Step, Go(n, t), UNCHANGED <<Execution, children, journal>>,
         t = "prepare" => Child(n) \in {"none", "dir", "archived"}, t # "start"
  PROVE  WorkflowInv'
  <1>1. /\ UNCHANGED <<snapshot, started, receipt, section, todo, killed, retriedUnbound>>
        /\ UNCHANGED <<status, events, poisoned>> /\ UNCHANGED <<run, disposition, launches>>
        /\ UNCHANGED <<children, journal>> /\ poisoned = FALSE
    BY DEF Execution, children, journal, history, WorkflowInv, WorkflowTypeOK
  <1>2. StatusFits' /\ ReceiptCurrent' /\ RunsFit' /\ CompletedEvidenced'
    BY <1>1, ChildrenKept
  <1>3. WorkflowTypeOK'
    BY <1>1 DEF WorkflowInv, WorkflowTypeOK, Go
  <1>4. State(n)' = State(n) /\ Child(n)' = Child(n)
    BY <1>1 DEF State, Child
  <1>5. LockFits' /\ WithinCapacity'
    BY <1>1, <1>4, ThreadSteps
  <1> QED
    BY <1>2, <1>3, <1>5 DEF WorkflowInv

(* A thread ends with a transition of its node.                            *)
LEMMA ThreadRecords ==
  ASSUME WorkflowInv, ~poisoned, NEW n \in Node, section = "execute", thread[n] # "none",
         NEW q \in {"failed", "recoverable", "running"},
         Record(n, "eligible", q), Go(n, "none"), UNCHANGED <<Execution, children>>
  PROVE  WorkflowInv'
  <1>1. /\ UNCHANGED <<snapshot, started, receipt, section, todo, killed, retriedUnbound>>
        /\ UNCHANGED <<run, disposition, launches>>
    BY DEF Execution, children, history
  <1>2. IsTask(n) /\ Bound(n) /\ State(n) = "eligible" /\ DepsDone(n)
    BY ThreadOf
  <1>3. /\ "eligible" \in NodeState /\ q \in NodeState /\ FALSE \in BOOLEAN
        /\ 0 \in 0..MaxReview /\ q \in ALLOWED_TRANSITIONS["eligible"] /\ "none" \in Step
    BY WorkflowAssumption DEF NodeState, ALLOWED_TRANSITIONS, Step
  <1>4. RecordWith(n, "eligible", q, FALSE, 0)
    BY DEF Record
  <1>5. /\ status' \in [Node -> NodeStatus] /\ events' \in Nat /\ poisoned' = FALSE
        /\ State(n)' = q /\ status'[n].attempt = status[n].attempt
        /\ \A m \in Node : m # n => status'[m] = status[m]
        /\ StatusFits' /\ RunsFit' /\ CompletedEvidenced' /\ ReceiptCurrent'
    BY <1>1, <1>2, <1>3, <1>4, Moved
  <1>6. WorkflowTypeOK'
    BY <1>1, <1>3, <1>5 DEF WorkflowInv, WorkflowTypeOK, Go
  <1>7. LockFits' /\ WithinCapacity'
    BY <1>1, <1>3, <1>5, ThreadSteps
  <1> QED
    BY <1>5, <1>6, <1>7 DEF WorkflowInv

(* Steps that touch the directory of one child.                            *)
OnlyAt(n, k) ==
    \A m \in Node, j \in Attempt : (m # n \/ j # k) =>
        /\ run'[m][j] = run[m][j] /\ disposition'[m][j] = disposition[m][j]
        /\ launches'[m][j] = launches[m][j]

LEMMA RunsFitAt ==
  ASSUME WorkflowInv, NEW n \in Node, NEW k \in Attempt, OnlyAt(n, k),
         UNCHANGED <<snapshot, status>>, RunFits(n, k)'
  PROVE  RunsFit'
  <1> SUFFICES ASSUME NEW m \in Node, NEW j \in Attempt, m # n \/ j # k PROVE RunFits(m, j)'
    BY DEF RunsFit
  <1>1. RunFits(m, j)
    BY DEF WorkflowInv, RunsFit
  <1> QED
    BY <1>1 DEF RunFits, OnlyAt, Bound

LEMMA SetRunAt ==
  ASSUME WorkflowTypeOK, NEW n \in Node, NEW k \in Attempt, NEW s \in RunState,
         SetRun(n, k, s)
  PROVE  /\ run' \in [Node -> [Attempt -> RunState]] /\ run'[n][k] = s
         /\ \A m \in Node, j \in Attempt : (m # n \/ j # k) => run'[m][j] = run[m][j]
         /\ \A m \in Node : m # n => run'[m] = run[m]
  BY DEF WorkflowTypeOK, SetRun

LEMMA ResolveInputsInv ==
  ASSUME WorkflowInv, NEW n \in Node, ResolveInputs(n)
  PROVE  WorkflowInv'
  <1>1. section = "execute" /\ thread[n] # "none" /\ ~poisoned
    BY DEF ResolveInputs, At
  <1>2. CASE Go(n, "check") /\ UNCHANGED journal
    <2>1. UNCHANGED <<Execution, children, journal>> /\ "check" \in Step
      BY <1>2 DEF ResolveInputs, Step
    <2> QED
      BY <1>1, <1>2, <2>1, ThreadIdles
  <1>3. CASE Go(n, "none") /\ Record(n, "eligible", "failed")
    BY <1>1, <1>3, ThreadRecords DEF ResolveInputs
  <1> QED
    BY <1>2, <1>3 DEF ResolveInputs

LEMMA StatusRaisesInv ==
  ASSUME WorkflowInv, NEW n \in Node, StatusRaises(n)
  PROVE  WorkflowInv'
  <1>1. /\ section = "execute" /\ poisoned /\ thread' = [thread EXCEPT ![n] = "none"]
        /\ UNCHANGED <<snapshot, started, receipt, section, todo, killed, retriedUnbound>>
        /\ UNCHANGED <<status, events, poisoned>> /\ UNCHANGED <<run, disposition, launches>>
        /\ UNCHANGED <<children, journal>>
    BY DEF StatusRaises, At, Go, Execution, children, journal, history
  <1>2. StatusFits' /\ ReceiptCurrent' /\ RunsFit' /\ CompletedEvidenced'
    BY <1>1, ChildrenKept
  <1>3. WorkflowTypeOK'
    BY <1>1 DEF WorkflowInv, WorkflowTypeOK, Step
  <1>4. \A m \in Node : thread'[m] \in {"none", "resolve"}
    BY <1>1 DEF WorkflowInv, LockFits, WorkflowTypeOK
  <1>5. LockFits'
    BY <1>1, <1>4 DEF WorkflowInv, LockFits
  <1>6. Occupied' \subseteq Occupied
    BY <1>1 DEF Occupied, State
  <1>7. WithinCapacity'
    BY <1>1, <1>6, CapacityKept
  <1> QED
    BY <1>2, <1>3, <1>5, <1>7 DEF WorkflowInv

(* A poisoned journal lets no thread past the read of the status.          *)
LEMMA ThreadReads ==
  ASSUME WorkflowInv, NEW n \in Node, thread[n] \notin {"none", "resolve"}
  PROVE  ~poisoned
  BY DEF WorkflowInv, LockFits

LEMMA CheckChildInv ==
  ASSUME WorkflowInv, NEW n \in Node, CheckChild(n)
  PROVE  WorkflowInv'
  <1> DEFINE t == IF Exists(n, status[n].attempt) THEN "none" ELSE "prepare"
  <1>1. /\ section = "execute" /\ thread[n] = "check" /\ Go(n, t)
        /\ UNCHANGED <<Execution, children, journal>>
    BY DEF CheckChild, At
  <1>2. ~poisoned
    BY <1>1, ThreadReads
  <1>3. t \in Step /\ t # "start"
    BY DEF Step
  <1>4. t = "prepare" => Child(n) \in {"none", "dir", "archived"}
    <2>1. status[n].attempt \in Attempt
      BY <1>1, <1>2, ThreadOf
    <2>2. Child(n) \in RunState
      BY <2>1 DEF WorkflowInv, WorkflowTypeOK, Child
    <2> QED
      BY <2>2 DEF Exists, Child, RunState
  <1> HIDE DEF t
  <1> QED
    BY <1>1, <1>2, <1>3, <1>4, ThreadIdles

LEMMA EnrichInv ==
  ASSUME WorkflowInv, NEW n \in Node, Enrich(n)
  PROVE  WorkflowInv'
  <1>1. /\ section = "execute" /\ thread[n] = "enrich" /\ Go(n, "observe")
        /\ UNCHANGED <<Execution, children, journal>> /\ "observe" \in Step
    BY DEF Enrich, At, Step
  <1>2. ~poisoned
    BY <1>1, ThreadReads
  <1> QED
    BY <1>1, <1>2, ThreadIdles

LEMMA LaunchRaisesInv ==
  ASSUME WorkflowInv, NEW n \in Node, LaunchRaises(n)
  PROVE  WorkflowInv'
  <1> DEFINE q == IF Exists(n, status[n].attempt) THEN "recoverable" ELSE "failed"
  <1>1. /\ section = "execute" /\ thread[n] \in {"prepare", "start", "enrich"}
        /\ Record(n, "eligible", q) /\ Go(n, "none") /\ UNCHANGED <<Execution, children>>
    BY DEF LaunchRaises, At
  <1>2. ~poisoned
    BY <1>1, ThreadReads
  <1>3. q \in {"failed", "recoverable", "running"}
    OBVIOUS
  <1> HIDE DEF q
  <1> QED
    BY <1>1, <1>2, <1>3, ThreadRecords

LEMMA ObserveChildInv ==
  ASSUME WorkflowInv, NEW n \in Node, ObserveChild(n)
  PROVE  WorkflowInv'
  <1> DEFINE q == IF Exists(n, status[n].attempt) THEN "running" ELSE "recoverable"
  <1>1. /\ section = "execute" /\ thread[n] = "observe"
        /\ Record(n, "eligible", q) /\ Go(n, "none") /\ UNCHANGED <<Execution, children>>
    BY DEF ObserveChild, At
  <1>2. ~poisoned
    BY <1>1, ThreadReads
  <1>3. q \in {"failed", "recoverable", "running"}
    OBVIOUS
  <1> HIDE DEF q
  <1> QED
    BY <1>1, <1>2, <1>3, ThreadRecords

LEMMA PrepareChildInv ==
  ASSUME WorkflowInv, NEW n \in Node, PrepareChild(n)
  PROVE  WorkflowInv'
  <1>a. section = "execute" /\ thread[n] = "prepare"
    BY DEF PrepareChild, At
  <1>2. ~poisoned
    BY <1>a, ThreadReads
  <1>b. PICK k \in Attempt : k = status[n].attempt
    BY <1>a, <1>2, ThreadOf
  <1>1. /\ section = "execute" /\ thread[n] = "prepare" /\ Child(n) \in {"none", "archived"}
        /\ SetRun(n, k, "prepared") /\ disposition' = [disposition EXCEPT ![n][k] = None]
        /\ Go(n, "start")
        /\ UNCHANGED <<snapshot, started, receipt, section, todo, killed, retriedUnbound>>
        /\ UNCHANGED <<status, events, poisoned>> /\ UNCHANGED <<journal, launches>>
    BY <1>b DEF PrepareChild, At, Execution, journal, history
  <1>3. /\ IsTask(n) /\ Bound(n) /\ State(n) = "eligible"
    BY <1>1, <1>2, ThreadOf
  <1>4. /\ run' \in [Node -> [Attempt -> RunState]] /\ run'[n][k] = "prepared"
        /\ \A m \in Node, j \in Attempt : (m # n \/ j # k) => run'[m][j] = run[m][j]
        /\ \A m \in Node : m # n => run'[m] = run[m]
    BY <1>1, <1>3, SetRunAt DEF WorkflowInv, RunState
  <1>5. /\ disposition' \in [Node -> [Attempt -> Disposition \cup {None}]]
        /\ disposition'[n][k] = None
        /\ \A m \in Node, j \in Attempt : (m # n \/ j # k) => disposition'[m][j] = disposition[m][j]
        /\ \A m \in Node : m # n => disposition'[m] = disposition[m]
    BY <1>1, <1>3 DEF WorkflowInv, WorkflowTypeOK
  <1>6. WorkflowTypeOK'
    BY <1>1, <1>4, <1>5 DEF WorkflowInv, WorkflowTypeOK, Go, Step
  <1>7. StatusFits' /\ ReceiptCurrent'
    BY <1>1, JournalKept
  <1>8. RunsFit'
    <2>1. RunFits(n, k) /\ run[n][k] \in {"none", "archived"}
      BY <1>b, <1>1, <1>3 DEF WorkflowInv, RunsFit, Child
    <2>2. RunFits(n, k)'
      BY <1>1, <1>4, <1>5, <2>1 DEF RunFits, Bound
    <2>3. OnlyAt(n, k)
      BY <1>1, <1>4, <1>5 DEF OnlyAt
    <2> QED
      BY <1>1, <1>3, <2>2, <2>3, RunsFitAt
  <1>9. CompletedEvidenced'
    <2>1. \A m \in Node : State(m) = "completed" => m # n
      BY <1>3
    <2> QED
      BY <1>1, <1>4, <1>5, <2>1, EvidenceKept DEF State
  <1>10. LockFits' /\ WithinCapacity'
    <2>1. Child(n)' = "prepared" /\ State(n)' = State(n) /\ poisoned' = FALSE /\ "start" \in Step
      BY <1>b, <1>1, <1>2, <1>4 DEF Child, State, WorkflowInv, WorkflowTypeOK, Step
    <2> QED
      BY <1>1, <1>2, <1>4, <2>1, ThreadSteps
  <1> QED
    BY <1>6, <1>7, <1>8, <1>9, <1>10 DEF WorkflowInv

LEMMA StartChildInv ==
  ASSUME WorkflowInv, NEW n \in Node, StartChild(n)
  PROVE  WorkflowInv'
  <1>a. section = "execute" /\ thread[n] = "start"
    BY DEF StartChild, At
  <1>2. ~poisoned
    BY <1>a, ThreadReads
  <1>b. PICK k \in Attempt : k = status[n].attempt
    BY <1>a, <1>2, ThreadOf
  <1>1. /\ section = "execute" /\ thread[n] = "start"
        /\ SetRun(n, k, "started") /\ launches' = [launches EXCEPT ![n][k] = @ + 1]
        /\ Go(n, "enrich")
        /\ UNCHANGED <<snapshot, started, receipt, section, todo, killed, retriedUnbound>>
        /\ UNCHANGED <<status, events, poisoned>> /\ UNCHANGED <<journal, disposition>>
    BY <1>b DEF StartChild, At, Execution, journal, history
  <1>3. IsTask(n) /\ Bound(n) /\ State(n) = "eligible"
    BY <1>1, <1>2, ThreadOf
  <1>4. run[n][k] = "prepared"
    BY <1>b, <1>1 DEF WorkflowInv, LockFits, Child
  <1>5. /\ run' \in [Node -> [Attempt -> RunState]] /\ run'[n][k] = "started"
        /\ \A m \in Node, j \in Attempt : (m # n \/ j # k) => run'[m][j] = run[m][j]
        /\ \A m \in Node : m # n => run'[m] = run[m]
    BY <1>1, <1>3, SetRunAt DEF WorkflowInv, RunState
  <1>6. /\ launches' \in [Node -> [Attempt -> Nat]]
        /\ launches'[n][k] = launches[n][k] + 1
        /\ \A m \in Node, j \in Attempt : (m # n \/ j # k) => launches'[m][j] = launches[m][j]
    BY <1>1, <1>3 DEF WorkflowInv, WorkflowTypeOK
  <1>7. WorkflowTypeOK'
    BY <1>1, <1>5, <1>6 DEF WorkflowInv, WorkflowTypeOK, Go, Step
  <1>8. StatusFits' /\ ReceiptCurrent'
    BY <1>1, JournalKept
  <1>9. RunsFit'
    <2>1. launches[n][k] = 0 /\ disposition[n][k] = None
      BY <1>3, <1>4 DEF WorkflowInv, RunsFit, RunFits
    <2>2. RunFits(n, k)'
      BY <1>1, <1>3, <1>5, <1>6, <2>1 DEF RunFits, Bound
    <2>3. OnlyAt(n, k)
      BY <1>1, <1>5, <1>6 DEF OnlyAt
    <2> QED
      BY <1>1, <1>3, <2>2, <2>3, RunsFitAt
  <1>10. CompletedEvidenced'
    <2>1. \A m \in Node : State(m) = "completed" => m # n
      BY <1>3
    <2> QED
      BY <1>1, <1>5, <2>1, EvidenceKept DEF State
  <1>11. LockFits' /\ WithinCapacity'
    <2>1. State(n)' = State(n) /\ poisoned' = FALSE /\ "enrich" \in Step
      BY <1>1, <1>2 DEF State, WorkflowInv, WorkflowTypeOK, Step
    <2> QED
      BY <1>1, <1>2, <1>5, <2>1, ThreadSteps
  <1> QED
    BY <1>7, <1>8, <1>9, <1>10, <1>11 DEF WorkflowInv

-----------------------------------------------------------------------------
(* The receipt, the environment, the kill.                                 *)

(* A completed task's child is completed or archived.                      *)
LEMMA CompletedChild ==
  ASSUME WorkflowInv, NEW m \in Node, State(m) = "completed", Bound(m)
  PROVE  run[m][status[m].attempt] \in {"completed", "archived"}
  <1>1. IsTask(m) /\ Evidenced(m)
    BY DEF WorkflowInv, StatusFits, NodeFits, CompletedEvidenced
  <1> QED
    BY <1>1 DEF Evidenced, Child

(* The lock's part of the invariant where only children change.            *)
LEMMA LocksKept ==
  ASSUME WorkflowInv,
         UNCHANGED <<snapshot, status, poisoned, section, todo, thread, retriedUnbound>>,
         \A m \in Node : /\ thread[m] = "prepare" => Child(m)' \in {"none", "dir", "archived"}
                         /\ thread[m] = "start" => Child(m)' = "prepared"
  PROVE  LockFits'
  <1>1. LockFits
    BY DEF WorkflowInv
  <1>2. \A n \in todo : n \in Node
    BY DEF WorkflowInv, WorkflowTypeOK
  <1>3. section' = "bind" => \A n \in todo' : IsTask(n)' /\ State(n)' = "eligible"
    BY <1>1, <1>2 DEF LockFits, IsTask, State
  <1>4. \A n \in Node : (section' = "retry" /\ todo' = {n}) =>
          IsTask(n)' /\ (~poisoned' => /\ State(n)' \in {"failed", "recoverable"}
                                      /\ status'[n].attempt >= 2)
    BY <1>1 DEF LockFits, IsTask, State
  <1>5. \A n \in Node : (thread'[n] # "none" /\ ~poisoned') =>
          IsTask(n)' /\ Bound(n)' /\ State(n)' = "eligible"
    BY <1>1 DEF LockFits, IsTask, State, Bound
  <1> QED
    BY <1>1, <1>3, <1>4, <1>5 DEF LockFits

LEMMA SealWorkflowInv ==
  ASSUME WorkflowInv, SealWorkflow
  PROVE  WorkflowInv'
  <1>1. /\ receipt' = Receipt /\ Buildable
        /\ UNCHANGED <<snapshot, started, journal, children, command, history>>
        /\ UNCHANGED <<status, events, poisoned>> /\ UNCHANGED <<run, disposition, launches>>
        /\ UNCHANGED <<section, todo, thread>> /\ UNCHANGED <<killed, retriedUnbound>>
    BY DEF SealWorkflow, journal, children, command, history
  <1>2. receipt'.nodes = status
    BY <1>1 DEF Receipt
  <1>3. WorkflowTypeOK'
    BY <1>1, <1>2 DEF WorkflowInv, WorkflowTypeOK
  <1>4. \A n \in Node : /\ State(n)' = State(n) /\ (IsTask(n)' <=> IsTask(n))
                        /\ (Bound(n)' <=> Bound(n)) /\ (DepsDone(n)' <=> DepsDone(n))
                        /\ Child(n)' = Child(n)
    BY <1>1 DEF State, IsTask, Bound, DepsDone, Deps, Child
  <1>5. StatusFits'
    BY <1>1, <1>4 DEF WorkflowInv, StatusFits, NodeFits, ValidSnapshot
  <1>6. LockFits'
    BY <1>1, <1>4, LocksKept DEF WorkflowInv, LockFits
  <1>7. RunsFit'
    BY <1>1, <1>4, RunsKept
  <1>8. CompletedEvidenced'
    BY <1>1, <1>4, EvidenceKept
  <1>9. Occupied' \subseteq Occupied
    BY <1>1, <1>4 DEF Occupied
  <1>10. WithinCapacity'
    BY <1>1, <1>9, CapacityKept
  <1>11. ReceiptCurrent'
    <2> SUFFICES ASSUME \A n \in Node : receipt'.nodes[n].state = "completed"
                 PROVE  /\ ~poisoned'
                        /\ receipt' = [events |-> events', nodes |-> status',
                              child |-> [n \in Node |-> IF IsTask(n)' THEN "completed" ELSE "none"]]
      BY DEF ReceiptCurrent
    <2>1. \A n \in Node : State(n) = "completed"
      BY <1>2 DEF State
    <2>2. ASSUME NEW n \in Node
          PROVE  ChildDigest(n) = IF IsTask(n)' THEN "completed" ELSE "none"
      <3>1. CASE IsTask(n)
        <4>1. NodeVerifies(n) /\ Bound(n)
          BY <1>1, <2>1, <3>1 DEF Buildable, WorkflowInv, StatusFits, NodeFits
        <4>2. Child(n) \in {"completed", "incomplete"}
          BY <2>1, <3>1, <4>1 DEF NodeVerifies
        <4>3. Child(n) \in {"completed", "archived"}
          BY <2>1, <4>1, CompletedChild DEF Child
        <4> QED
          BY <1>4, <3>1, <4>1, <4>2, <4>3 DEF ChildDigest, Bound, Sealed
      <3>2. CASE ~IsTask(n)
        BY <1>4, <3>2 DEF ChildDigest
      <3> QED
        BY <3>1, <3>2
    <2>3. [n \in Node |-> ChildDigest(n)]
             = [n \in Node |-> IF IsTask(n)' THEN "completed" ELSE "none"]
      BY <2>2
    <2>4. ~poisoned
      BY <1>1 DEF Buildable
    <2> QED
      BY <1>1, <2>3, <2>4 DEF Receipt
  <1> QED
    BY <1>3, <1>5, <1>6, <1>7, <1>8, <1>10, <1>11 DEF WorkflowInv

(* What the environment does to the directory of one child: nobody is      *)
(* preparing or starting it, and evidence stays or is archived.            *)
LEMMA OutsideSteps ==
  ASSUME WorkflowInv, NEW n \in Node, NEW k \in Attempt, OnlyAt(n, k),
         UNCHANGED <<snapshot, started, journal, receipt, command, history>>,
         run' \in [Node -> [Attempt -> RunState]],
         disposition' \in [Node -> [Attempt -> Disposition \cup {None}]],
         launches' \in [Node -> [Attempt -> Nat]],
         RunFits(n, k)',
         run[n][k] \in {"started", "completed", "incomplete"},
         \/ run'[n][k] = run[n][k]
         \/ run[n][k] = "started"
         \/ run[n][k] = "completed" /\ run'[n][k] = "archived",
         (disposition[n][k] # None /\ disposition[n][k].action = "accepted")
            => disposition'[n][k] = disposition[n][k]
  PROVE  WorkflowInv'
  <1>1. UNCHANGED <<status, events, poisoned, section, todo, thread, killed, retriedUnbound>>
    BY DEF journal, command, history
  <1>2. WorkflowTypeOK'
    BY <1>1 DEF WorkflowInv, WorkflowTypeOK
  <1>3. StatusFits' /\ ReceiptCurrent'
    BY JournalKept
  <1>4. RunsFit'
    BY <1>1, RunsFitAt
  <1>5. \A m \in Node : /\ State(m)' = State(m) /\ (IsTask(m)' <=> IsTask(m))
                        /\ (Bound(m)' <=> Bound(m))
    BY <1>1 DEF State, IsTask, Bound
  <1>6. ASSUME NEW m \in Node
        PROVE  /\ thread'[m] = "prepare" => Child(m)' \in {"none", "dir", "archived"}
               /\ thread'[m] = "start" => Child(m)' = "prepared"
    <2>1. /\ thread[m] = "prepare" => Child(m) \in {"none", "dir", "archived"}
          /\ thread[m] = "start" => Child(m) = "prepared"
      BY DEF WorkflowInv, LockFits
    <2>2. CASE thread[m] \in {"prepare", "start"}
      <3>1. status[m].attempt \in Attempt
        BY <2>2, ThreadReads, ThreadOf
      <3>2. m # n \/ status[m].attempt # k
        BY <2>1, <2>2 DEF Child
      <3>3. Child(m)' = Child(m)
        BY <1>1, <3>1, <3>2 DEF Child, OnlyAt
      <3> QED
        BY <1>1, <2>1, <3>3
    <2>3. CASE thread[m] \notin {"prepare", "start"}
      BY <1>1, <2>3
    <2> QED
      BY <2>2, <2>3
  <1>7. LockFits'
    BY <1>1, <1>6, LocksKept
  <1>8. Occupied' \subseteq Occupied
    BY <1>1, <1>5 DEF Occupied
  <1>9. WithinCapacity'
    BY <1>1, <1>8, CapacityKept
  <1>10. CompletedEvidenced'
    <2>1. ASSUME NEW m \in Node, State(m) = "completed", Bound(m)
          PROVE  /\ (/\ disposition[m][status[m].attempt] # None
                     /\ disposition[m][status[m].attempt].action = "accepted")
                       => disposition'[m][status[m].attempt] = disposition[m][status[m].attempt]
                 /\ \/ run'[m][status[m].attempt] = run[m][status[m].attempt]
                    \/ /\ run[m][status[m].attempt] = "completed"
                       /\ run'[m][status[m].attempt] = "archived"
      <3>1. status[m].attempt \in Attempt
        BY <2>1, StatusTyped DEF WorkflowInv
      <3>2. run[m][status[m].attempt] \in {"completed", "archived"}
        BY <2>1, CompletedChild
      <3>3. CASE m = n /\ status[m].attempt = k
        BY <3>2, <3>3
      <3>4. CASE m # n \/ status[m].attempt # k
        BY <3>1, <3>4 DEF OnlyAt
      <3> QED
        BY <3>3, <3>4
    <2> QED
      BY <1>1, <1>5, <2>1, EvidenceKept
  <1> QED
    BY <1>2, <1>3, <1>4, <1>7, <1>9, <1>10 DEF WorkflowInv

LEMMA ChildSealsInv ==
  ASSUME WorkflowInv, NEW n \in Node, NEW k \in Attempt, ChildSeals(n, k)
  PROVE  WorkflowInv'
  <1>1. /\ run[n][k] = "started"
        /\ UNCHANGED <<snapshot, started, journal, receipt, disposition, launches,
                       command, history>>
    BY DEF ChildSeals
  <1>2. PICK outcome \in Sealed : SetRun(n, k, outcome)
    BY DEF ChildSeals
  <1>3. /\ run' \in [Node -> [Attempt -> RunState]] /\ run'[n][k] = outcome
        /\ \A m \in Node, j \in Attempt : (m # n \/ j # k) => run'[m][j] = run[m][j]
    <2>1. WorkflowTypeOK /\ outcome \in RunState
      BY DEF WorkflowInv, RunState
    <2> QED
      BY <1>2, <2>1, SetRunAt
  <1>4. OnlyAt(n, k)
    BY <1>1, <1>3 DEF OnlyAt
  <1>5. RunFits(n, k)'
    <2>1. RunFits(n, k)
      BY DEF WorkflowInv, RunsFit
    <2> QED
      BY <1>1, <1>3, <2>1 DEF RunFits, Sealed, Bound, journal
  <1> QED
    BY <1>1, <1>3, <1>4, <1>5, OutsideSteps DEF WorkflowInv, WorkflowTypeOK

LEMMA ReviewInv ==
  ASSUME WorkflowInv, NEW n \in Node, NEW k \in Attempt, Review(n, k)
  PROVE  WorkflowInv'
  <1> DEFINE d == disposition[n][k]
             prior == IF d = None THEN "none" ELSE d.action
             sequence == IF d = None THEN 1 ELSE d.sequence + 1
  <1>1. /\ run[n][k] \in {"completed", "incomplete"} /\ sequence <= MaxReview
        /\ UNCHANGED <<snapshot, started, journal, receipt, run, launches, command, history>>
    BY DEF Review
  <1>2. PICK a \in Action :
          /\ \/ a = "reviewed" /\ prior \in {"none", "rejected"}
             \/ a = "accepted" /\ prior = "reviewed" /\ run[n][k] = "completed"
             \/ a = "rejected" /\ prior \in {"none", "reviewed", "rejected"}
             \/ a = "force-accepted" /\ prior \notin {"accepted", "force-accepted"}
          /\ disposition' = [disposition EXCEPT ![n][k] = [action |-> a, sequence |-> sequence]]
    BY DEF Review
  <1>3. d \in Disposition \cup {None} /\ RunFits(n, k)
    BY DEF WorkflowInv, WorkflowTypeOK, RunsFit
  <1>4. sequence \in 1..MaxReview
    BY <1>1, <1>3, WorkflowAssumption DEF Disposition
  <1> DEFINE new == [action |-> a, sequence |-> sequence]
  <1>5. new \in Disposition /\ new.action = a
    BY <1>4 DEF Disposition
  <1>6. /\ disposition' \in [Node -> [Attempt -> Disposition \cup {None}]]
        /\ disposition'[n][k] = new
        /\ \A m \in Node, j \in Attempt : (m # n \/ j # k) => disposition'[m][j] = disposition[m][j]
    <2>1. disposition' = [disposition EXCEPT ![n][k] = new]
      BY <1>2
    <2> HIDE DEF new
    <2> QED
      BY <1>5, <2>1 DEF WorkflowInv, WorkflowTypeOK
  <1>7. OnlyAt(n, k)
    BY <1>1, <1>6 DEF OnlyAt
  <1>8. a = "accepted" => run[n][k] = "completed"
    BY <1>2
  <1>9. RunFits(n, k)'
    <2> HIDE DEF new
    <2> QED
      BY <1>1, <1>3, <1>5, <1>6, <1>8 DEF RunFits, Bound, journal
  <1>10. ~(d # None /\ d.action = "accepted")
    BY <1>2
  <1>11. run' \in [Node -> [Attempt -> RunState]] /\ launches' \in [Node -> [Attempt -> Nat]]
    BY <1>1 DEF WorkflowInv, WorkflowTypeOK
  <1> QED
    BY <1>1, <1>6, <1>7, <1>9, <1>10, <1>11, OutsideSteps

LEMMA ArchiveInv ==
  ASSUME WorkflowInv, NEW n \in Node, NEW k \in Attempt, Archive(n, k)
  PROVE  WorkflowInv'
  <1>1. /\ run[n][k] = "completed" /\ SetRun(n, k, "archived")
        /\ launches' = [launches EXCEPT ![n][k] = 0]
        /\ UNCHANGED <<snapshot, started, journal, receipt, disposition, command, history>>
    BY DEF Archive
  <1>2. /\ run' \in [Node -> [Attempt -> RunState]] /\ run'[n][k] = "archived"
        /\ \A m \in Node, j \in Attempt : (m # n \/ j # k) => run'[m][j] = run[m][j]
    BY <1>1, SetRunAt DEF WorkflowInv, RunState
  <1>3. /\ launches' \in [Node -> [Attempt -> Nat]] /\ launches'[n][k] = 0
        /\ \A m \in Node, j \in Attempt : (m # n \/ j # k) => launches'[m][j] = launches[m][j]
    <2>1. launches' = [launches EXCEPT ![n][k] = 0]
      BY <1>1
    <2> QED
      BY <2>1 DEF WorkflowInv, WorkflowTypeOK
  <1>4. OnlyAt(n, k)
    BY <1>1, <1>2, <1>3 DEF OnlyAt
  <1>5. RunFits(n, k)'
    BY <1>1, <1>2, <1>3 DEF RunFits
  <1>6. disposition' \in [Node -> [Attempt -> Disposition \cup {None}]]
    BY <1>1 DEF WorkflowInv, WorkflowTypeOK
  <1> QED
    BY <1>1, <1>2, <1>3, <1>4, <1>5, <1>6, OutsideSteps

LEMMA LoseInv ==
  ASSUME WorkflowInv, NEW n \in Node, NEW k \in Attempt, Lose(n, k)
  PROVE  WorkflowInv'
  <1>1. /\ run[n][k] = "started" /\ SetRun(n, k, "none")
        /\ launches' = [launches EXCEPT ![n][k] = 0]
        /\ UNCHANGED <<snapshot, started, journal, receipt, disposition, command, history>>
    BY DEF Lose
  <1>2. /\ run' \in [Node -> [Attempt -> RunState]] /\ run'[n][k] = "none"
        /\ \A m \in Node, j \in Attempt : (m # n \/ j # k) => run'[m][j] = run[m][j]
    BY <1>1, SetRunAt DEF WorkflowInv, RunState
  <1>3. /\ launches' \in [Node -> [Attempt -> Nat]] /\ launches'[n][k] = 0
        /\ \A m \in Node, j \in Attempt : (m # n \/ j # k) => launches'[m][j] = launches[m][j]
    <2>1. launches' = [launches EXCEPT ![n][k] = 0]
      BY <1>1
    <2> QED
      BY <2>1 DEF WorkflowInv, WorkflowTypeOK
  <1>4. OnlyAt(n, k)
    BY <1>1, <1>2, <1>3 DEF OnlyAt
  <1>5. RunFits(n, k)'
    <2>1. disposition[n][k] = None
      BY <1>1 DEF WorkflowInv, RunsFit, RunFits
    <2> QED
      BY <1>1, <1>2, <1>3, <2>1 DEF RunFits
  <1>6. disposition' \in [Node -> [Attempt -> Disposition \cup {None}]]
    BY <1>1 DEF WorkflowInv, WorkflowTypeOK
  <1> QED
    BY <1>1, <1>2, <1>3, <1>4, <1>5, <1>6, OutsideSteps

LEMMA KillInv ==
  ASSUME WorkflowInv, Kill
  PROVE  WorkflowInv'
  <1>1. /\ section' = "free" /\ todo' = {} /\ killed' = TRUE
        /\ thread' = [n \in Node |-> "none"]
        /\ UNCHANGED <<snapshot, started, journal, receipt, disposition, launches, retriedUnbound>>
        /\ UNCHANGED <<status, events, poisoned>>
    BY DEF Kill, journal
  <1>2. PICK S \in SUBSET {n \in Node : thread[n] = "prepare" /\ Child(n) # "dir"} :
          run' = [n \in Node |->
                    IF n \in S THEN [run[n] EXCEPT ![status[n].attempt] = "dir"]
                    ELSE run[n]]
    BY DEF Kill
  <1>3. ASSUME NEW n \in S
        PROVE  /\ n \in Node /\ status[n].attempt \in Attempt /\ State(n) = "eligible"
               /\ Child(n) \in {"none", "archived"}
    <2>1. n \in Node /\ thread[n] = "prepare" /\ Child(n) # "dir"
      BY <1>2, <1>3
    <2>2. ~poisoned
      BY <2>1, ThreadReads
    <2> QED
      BY <2>1, <2>2, ThreadOf DEF WorkflowInv, LockFits
  <1>4. /\ run' \in [Node -> [Attempt -> RunState]]
        /\ \A n \in Node : n \notin S => run'[n] = run[n]
        /\ \A n \in S, j \in Attempt :
              run'[n][j] = IF j = status[n].attempt THEN "dir" ELSE run[n][j]
    BY <1>2, <1>3 DEF WorkflowInv, WorkflowTypeOK, RunState
  <1>5. WorkflowTypeOK'
    BY <1>1, <1>4 DEF WorkflowInv, WorkflowTypeOK, Step
  <1>6. StatusFits' /\ ReceiptCurrent'
    BY <1>1, JournalKept
  <1>7. LockFits'
    BY <1>1 DEF WorkflowInv, LockFits
  <1>8. Occupied' \subseteq Occupied
    BY <1>1 DEF Occupied, State
  <1>9. WithinCapacity'
    BY <1>1, <1>8, CapacityKept
  <1>10. RunsFit'
    <2> SUFFICES ASSUME NEW n \in Node, NEW j \in Attempt PROVE RunFits(n, j)'
      BY DEF RunsFit
    <2>1. RunFits(n, j)
      BY DEF WorkflowInv, RunsFit
    <2>2. run'[n][j] = run[n][j] \/ (run'[n][j] = "dir" /\ run[n][j] \in {"none", "archived"})
      BY <1>3, <1>4 DEF Child
    <2> QED
      BY <1>1, <2>1, <2>2 DEF RunFits, Bound
  <1>11. CompletedEvidenced'
    <2>1. \A m \in Node : State(m) = "completed" => run'[m] = run[m]
      BY <1>3, <1>4
    <2> QED
      BY <1>1, <2>1, EvidenceKept DEF State
  <1> QED
    BY <1>5, <1>6, <1>7, <1>9, <1>10, <1>11 DEF WorkflowInv

-----------------------------------------------------------------------------
LEMMA InitInv == Init => WorkflowInv
  <1> SUFFICES ASSUME Init PROVE WorkflowInv
    OBVIOUS
  <1>1. /\ snapshot \in Snapshots /\ ValidSnapshot(snapshot) /\ started = FALSE
        /\ status = InitialStatus(snapshot) /\ events = 0 /\ poisoned = FALSE
        /\ receipt = None
        /\ run = [n \in Node |-> [k \in Attempt |-> "none"]]
        /\ disposition = [n \in Node |-> [k \in Attempt |-> None]]
        /\ launches = [n \in Node |-> [k \in Attempt |-> 0]]
        /\ section = "free" /\ todo = {} /\ thread = [n \in Node |-> "none"]
        /\ killed = FALSE /\ retriedUnbound = FALSE
    BY DEF Init
  <1>2. ASSUME NEW n \in Node
        PROVE  /\ status[n] \in NodeStatus /\ status[n].attempt = 0
               /\ status[n].prerequisite = FALSE
               /\ State(n) = IF Deps(n) = {} THEN "eligible" ELSE "blocked"
    <2> DEFINE s(m) == [state |-> IF snapshot.deps[m] = {} THEN "eligible" ELSE "blocked",
                        attempt |-> 0, prerequisite |-> FALSE, approval |-> 0]
    <2>1. status[n] = s(n)
      BY <1>1 DEF InitialStatus
    <2>2. /\ s(n) \in NodeStatus /\ s(n).attempt = 0 /\ s(n).prerequisite = FALSE
          /\ s(n).state = IF snapshot.deps[n] = {} THEN "eligible" ELSE "blocked"
      BY WorkflowAssumption DEF NodeStatus, NodeState
    <2> HIDE DEF s
    <2> QED
      BY <2>1, <2>2 DEF State, Deps
  <1>3. status \in [Node -> NodeStatus]
    <2>1. DOMAIN status = Node /\ status = [n \in Node |-> status[n]]
      BY <1>1 DEF InitialStatus
    <2> QED
      BY <1>2, <2>1
  <1>4. WorkflowTypeOK
    BY <1>1, <1>3 DEF WorkflowTypeOK, RunState, Step
  <1>5. StatusFits
    BY <1>1, <1>2 DEF StatusFits, NodeFits, Bound, DepsDone
  <1>6. LockFits
    BY <1>1 DEF LockFits
  <1>7. RunsFit
    BY <1>1 DEF RunsFit, RunFits
  <1>8. WithinCapacity
    <2>1. Occupied = {}
      BY <1>1, <1>2 DEF Occupied
    <2> QED
      BY <2>1, FS_EmptySet, WorkflowAssumption DEF WithinCapacity
  <1>9. CompletedEvidenced
    BY <1>2 DEF CompletedEvidenced
  <1>10. ReceiptCurrent
    BY <1>1 DEF ReceiptCurrent
  <1> QED
    BY <1>4, <1>5, <1>6, <1>7, <1>8, <1>9, <1>10 DEF WorkflowInv

LEMMA StutterInv ==
  ASSUME WorkflowInv, UNCHANGED vars
  PROVE  WorkflowInv'
  <1>1. UNCHANGED <<snapshot, started, journal, receipt, children, command, history>>
    BY DEF vars
  <1>2. StatusFits' /\ ReceiptCurrent' /\ RunsFit' /\ CompletedEvidenced'
    BY <1>1, ChildrenKept
  <1>3. UNCHANGED <<status, events, poisoned, run, disposition, launches, killed, retriedUnbound,
                    section, todo, thread>>
    BY <1>1 DEF journal, children, history, command
  <1>4. WorkflowTypeOK'
    BY <1>1, <1>3 DEF WorkflowInv, WorkflowTypeOK
  <1>5. LockFits'
    BY <1>1, <1>3 DEF WorkflowInv, LockFits, Bound, State, IsTask, Child
  <1>6. Occupied' \subseteq Occupied
    BY <1>1, <1>3 DEF Occupied, State
  <1>7. WithinCapacity'
    BY <1>3, <1>6, CapacityKept
  <1> QED
    BY <1>2, <1>4, <1>5, <1>7 DEF WorkflowInv

LEMMA StepInv == WorkflowInv /\ [Next]_vars => WorkflowInv'
  <1> SUFFICES ASSUME WorkflowInv, [Next]_vars PROVE WorkflowInv'
    OBVIOUS
  <1>1. CASE UNCHANGED vars
    BY <1>1, StutterInv
  <1>2. CASE Start \/ BeginPass \/ SealWorkflow \/ Kill
    BY <1>2, StartInv, BeginPassInv, SealWorkflowInv, KillInv
  <1>3. CASE NextPhase \/ EndPass
    BY <1>3, NextPhaseInv, EndPassInv
  <1>4. ASSUME NEW n \in Node,
               \/ ReconcileRunning(n) \/ ReconcileBlocked(n) \/ ReconcileApprovals(n)
               \/ Bind(n) \/ RetryReopen(n) \/ RetryBind(n)
        PROVE  WorkflowInv'
    BY <1>4, ReconcileRunningInv, ReconcileBlockedInv, ReconcileApprovalsInv, BindInv,
       RetryReopenInv, RetryBindInv
  <1>5. ASSUME NEW n \in Node,
               \/ ResolveInputs(n) \/ StatusRaises(n) \/ CheckChild(n)
               \/ PrepareChild(n) \/ StartChild(n) \/ Enrich(n)
               \/ LaunchRaises(n) \/ ObserveChild(n)
        PROVE  WorkflowInv'
    BY <1>5, ResolveInputsInv, StatusRaisesInv, CheckChildInv, PrepareChildInv,
       StartChildInv, EnrichInv, LaunchRaisesInv, ObserveChildInv
  <1>6. ASSUME NEW n \in Node, NEW k \in Attempt,
               ChildSeals(n, k) \/ Review(n, k) \/ Archive(n, k) \/ Lose(n, k)
        PROVE  WorkflowInv'
    BY <1>6, ChildSealsInv, ReviewInv, ArchiveInv, LoseInv
  <1> QED
    BY <1>1, <1>2, <1>3, <1>4, <1>5, <1>6 DEF Next, Pass

(* The invariant holds throughout every run of a workflow.                 *)
THEOREM WorkflowInvHolds == Spec => []WorkflowInv
  BY InitInv, StepInv, PTL DEF Spec

(* Whatever kills, launch failures, lost children and orders of passes     *)
(* come, the journal of a workflow of any shape can be replayed, unless a  *)
(* retry of a node without a run was recorded (_bind, scheduler.py).       *)
THEOREM JournalStaysReplayable == Spec => []JournalReplayable
  <1>1. WorkflowInv => JournalReplayable
    BY DEF WorkflowInv, LockFits, JournalReplayable
  <1> QED
    BY <1>1, WorkflowInvHolds, PTL

(* _execute starts a child at most once, with completed predecessors only, *)
(* and passes keep within max_parallelism as long as nothing is retried.   *)
THEOREM LaunchesAreDisciplined == Spec => []LaunchDiscipline
  <1>1. WorkflowInv => LaunchDiscipline
    <2> SUFFICES ASSUME WorkflowInv PROVE LaunchDiscipline
      OBVIOUS
    <2>1. ASSUME NEW n \in Node, NEW k \in Attempt
          PROVE  /\ launches[n][k] <= 1
                 /\ launches[n][k] > 0 => \A d \in Deps(n) : State(d) = "completed"
      BY DEF WorkflowInv, RunsFit, RunFits, StatusFits, NodeFits, DepsDone
    <2>2. ASSUME \A n \in Node : status[n].attempt <= 1
          PROVE  Cardinality({n \in Node : State(n) = "running"}) <= MaxParallelism
      <3> DEFINE running == {n \in Node : State(n) = "running"}
      <3>1. running \in SUBSET Occupied /\ Occupied \in SUBSET Node
        BY DEF Occupied
      <3>2. Cardinality(Occupied) <= MaxParallelism
        BY <2>2 DEF WorkflowInv, WithinCapacity
      <3> HIDE DEF running
      <3>3. /\ IsFiniteSet(Occupied) /\ Cardinality(Occupied) \in Nat
            /\ Cardinality(running) <= Cardinality(Occupied) /\ Cardinality(running) \in Nat
        BY <3>1, FS_Subset, FS_CardinalityType, WorkflowAssumption
      <3>4. Cardinality(running) <= MaxParallelism
        BY <3>2, <3>3, WorkflowAssumption
      <3> QED
        BY <3>4 DEF running
    <2> QED
      BY <2>1, <2>2 DEF LaunchDiscipline
  <1> QED
    BY <1>1, WorkflowInvHolds, PTL

(* A completed node stands on a sealed child or an accepted review, and the *)
(* receipt of a completed workflow verifies as long as no child it names is *)
(* archived (reconcile_workflow, seal_workflow, verify_workflow_receipt).  *)
THEOREM WorkflowStandsOnEvidence == Spec => []WorkflowEvidence
  <1>1. WorkflowInv => WorkflowEvidence
    <2> SUFFICES ASSUME WorkflowInv PROVE WorkflowEvidence
      OBVIOUS
    <2>1. CompletedOnEvidence
      BY DEF WorkflowInv, CompletedEvidenced, Evidenced, CompletedOnEvidence
    <2>2. CompletedReceiptVerifies
      <3> SUFFICES ASSUME receipt # None,
                          \A n \in Node : receipt.nodes[n].state = "completed",
                          \A n \in Node : IsTask(n) => Child(n) # "archived"
                   PROVE  Verifies
        BY DEF CompletedReceiptVerifies
      <3>1. /\ ~poisoned
            /\ receipt = [events |-> events, nodes |-> status,
                     child |-> [n \in Node |-> IF IsTask(n) THEN "completed" ELSE "none"]]
        BY DEF WorkflowInv, ReceiptCurrent
      <3>2. \A n \in Node : State(n) = "completed"
        <4>1. receipt.nodes = status
          BY <3>1
        <4> QED
          BY <4>1 DEF State
      <3>3. ASSUME NEW n \in Node, Bound(n) PROVE IsTask(n) /\ Child(n) = "completed"
        <4>1. IsTask(n)
          BY <3>3 DEF WorkflowInv, StatusFits, NodeFits
        <4> QED
          BY <3>2, <3>3, <4>1, CompletedChild DEF Child
      <3>4. \A n \in Node : IsTask(n) => Bound(n)
        BY <3>2 DEF WorkflowInv, StatusFits, NodeFits
      <3>5. ASSUME NEW n \in Node PROVE NodeVerifies(n)
        <4>1. CASE IsTask(n)
          BY <3>3, <3>4, <4>1 DEF NodeVerifies, Bound
        <4>2. CASE ~IsTask(n)
          <5> DEFINE s == snapshot.subject[n]
          <5>1. s \in Node
            BY <4>2 DEF WorkflowInv, StatusFits, ValidSnapshot, IsTask
          <5>2. Evidenced(n)
            BY <3>2 DEF WorkflowInv, CompletedEvidenced
          <5>3. Bound(s)
            BY <4>2, <5>2 DEF Evidenced, Subject, Bound
          <5>4. SubjectRun(n) = "completed"
            BY <3>3, <5>1, <5>3 DEF SubjectRun, Subject, Child
          <5>5. SubjectSealed(n)
            BY <4>2, <5>2, <5>4 DEF SubjectSealed, Evidenced
          <5>6. Disposed(n) \in Disposition
            <6>1. status[s].attempt \in Attempt
              BY <5>1, <5>3, StatusTyped DEF WorkflowInv
            <6>2. Disposed(n) \in Disposition \cup {None}
              BY <5>1, <6>1 DEF WorkflowInv, WorkflowTypeOK, Disposed, Subject
            <6> QED
              BY <4>2, <5>2, <6>2 DEF Evidenced
          <5>7. status[n].approval # 0
            BY <4>2, <5>2, <5>6, WorkflowAssumption DEF Evidenced, Disposition
          <5> QED
            BY <3>2, <4>2, <5>2, <5>5, <5>7 DEF NodeVerifies, Evidenced
        <4> QED
          BY <4>1, <4>2
      <3>6. Buildable
        BY <3>1, <3>2, <3>5 DEF Buildable
      <3>7. \A n \in Node : ChildDigest(n) = IF IsTask(n) THEN "completed" ELSE "none"
        BY <3>3, <3>4 DEF ChildDigest, Bound, Sealed
      <3>8. receipt = Receipt
        BY <3>1, <3>7 DEF Receipt
      <3> QED
        BY <3>6, <3>8 DEF Verifies
    <2> QED
      BY <2>1, <2>2 DEF WorkflowEvidence, WorkflowInv
  <1> QED
    BY <1>1, WorkflowInvHolds, PTL
=============================================================================
