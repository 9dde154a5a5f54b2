--------------------------- MODULE ReviewLifecycle ---------------------------
(***************************************************************************)
(* Review, acceptance and rejection of one sealed Agent Run: the directory *)
(* of immutable lifecycle receipts, the force-accept override, and the     *)
(* disposition that readers reconstruct from both.                         *)
(*                                                                         *)
(* No lock orders the calls.  A receipt's name is its sequence and action, *)
(* and O_EXCL makes creating one name atomic; everything else a call       *)
(* checks may be out of date when it writes.  There is no fairness: a call *)
(* that is killed is one that takes no further step.  The review event     *)
(* appended after a receipt is read by nothing here and is left out.       *)
(***************************************************************************)
EXTENDS Naturals, FiniteSets

CONSTANTS
    Call,         \* calls of record (review, accept, reject) and force_accept
    Score,        \* score sets the evaluation of the run may produce
    Passing,      \* those whose verdict is "pass"
    None

Data == {"torn", "whole"}   \* what of a file's content is there
Override == [by : Call, data : Data]

ASSUME ReviewAssumption ==
    /\ IsFiniteSet(Call)
    /\ Passing \subseteq Score /\ None \notin Score \cup Override

LIFECYCLE_ACTIONS == {"reviewed", "accepted", "rejected"}

VARIABLES
    sealed,       \* facts of the sealed run the gates look at
    score,        \* scores/score-set.json: a score set, or None
    receipts,     \* files of receipts/
    override,     \* force-accept-receipt.json, or None
    disposition,  \* disposition field of the status projection
    pc,           \* per call: the next step
    op,           \* per call: action, and whether the actor is independent
    read,         \* per call: the score set it read
    seq           \* per call: sequence of the receipt it creates

runVars == <<sealed, score>>
fileVars == <<receipts, override, disposition>>
vars == <<runVars, fileVars, pc, op, read, seq>>

(* reviewable: completed, with a valid task result where one is required;  *)
(* acceptable: valid completion, policy not failed, tier on record;        *)
(* evaluated: a score set is required;  risk: "job" asks for a review      *)
(* independent of the executor, "high" for an independent acceptance too.  *)
(* A fact that no check gets to is fixed.                                  *)
SealedRun ==
    {f \in [reviewable : BOOLEAN, acceptable : BOOLEAN, evaluated : BOOLEAN,
            risk : {"low", "job", "high"}] :
        /\ ~f.reviewable => ~f.acceptable /\ ~f.evaluated
        /\ ~f.acceptable => f.risk = "low"}
Receipt == [seq : Nat, action : LIFECYCLE_ACTIONS, score : Score \cup {None},
            independent : BOOLEAN, by : Call, data : Data]

-----------------------------------------------------------------------------
(* lifecycle_receipts: the chain, when every file is complete and the      *)
(* sorted names count 1, 2, 3...                                           *)
Numbered(n) == {r.seq : r \in receipts} = 1..n
Readable ==
    /\ \A r \in receipts : r.data = "whole"
    /\ \A r, q \in receipts : r.seq = q.seq => r = q
    /\ \E n \in 0..Cardinality(receipts) : Numbered(n)

Length == CHOOSE n \in 0..Cardinality(receipts) : Numbered(n)
ReceiptAt(k) == CHOOSE r \in receipts : r.seq = k
Prior == IF receipts = {} THEN None ELSE ReceiptAt(Length).action

(* A bug for comparison: an acceptance is not compared with the receipt    *)
(* before it.                                                              *)
UnconfirmedLast == receipts # {}

(* An acceptance at the end of the chain counts only right after a review  *)
(* of the same score set.                                                  *)
ConfirmedLast ==
    /\ Length > 1
    /\ ReceiptAt(Length - 1).action = "reviewed"
    /\ ReceiptAt(Length - 1).score = ReceiptAt(Length).score

(* lifecycle_disposition: the override first, then the chain.              *)
lifecycle_disposition ==
    IF override # None
    THEN IF override.data = "whole" THEN "force-accepted" ELSE "raises"
    ELSE IF ~Readable \/ (Prior = "accepted" /\ ~ConfirmedLast) THEN "raises"
    ELSE Prior

is_approved == lifecycle_disposition \in {"accepted", "force-accepted"}

-----------------------------------------------------------------------------
Init ==
    /\ sealed \in SealedRun
    /\ score \in Score \cup {None}
    /\ receipts = {} /\ override = None
    /\ disposition = None
    /\ pc = [c \in Call |-> "idle"]
    /\ op = [c \in Call |-> [action |-> "reviewed", independent |-> FALSE]]
    /\ read = [c \in Call |-> None]
    /\ seq = [c \in Call |-> 0]

Goto(c, label) == pc' = [pc EXCEPT ![c] = label]
Raise(c) == Goto(c, "raised")

(* record: the seal, the final status and the score set are read first.    *)
RecordBegin(c) ==
    /\ pc[c] = "idle"
    /\ \E a \in LIFECYCLE_ACTIONS, i \in BOOLEAN :
         op' = [op EXCEPT ![c] = [action |-> a, independent |-> i]]
    /\ read' = [read EXCEPT ![c] = score]
    /\ Goto(c, IF sealed.reviewable /\ (sealed.evaluated => score # None)
               THEN "chain" ELSE "raised")
    /\ UNCHANGED <<runVars, fileVars, seq>>

(* _require_allowed_prior.                                                 *)
AllowedPrior(action) ==
    CASE action = "reviewed" -> {None, "rejected"}
      [] action = "accepted" -> {"reviewed"}
      [] action = "rejected" -> {None, "reviewed", "rejected"}

(* _check_acceptance_gates against the review that ends the chain.         *)
AcceptanceGates(c, review) ==
    /\ read[c] # None => read[c] \in Passing
    /\ review.score = read[c]
    /\ sealed.risk # "low" => review.independent
    /\ sealed.risk = "high" => op[c].independent
    /\ sealed.acceptable

ReadChain(c) ==
    /\ pc[c] = "chain"
    /\ IF /\ Readable
          /\ Prior \in AllowedPrior(op[c].action)
          /\ op[c].action = "accepted" => AcceptanceGates(c, ReceiptAt(Length))
       THEN Goto(c, "sequence")
       ELSE Raise(c)
    /\ UNCHANGED <<runVars, fileVars, op, read, seq>>

(* _append_receipt counts the chain again, without looking at its end.     *)
NextSequence(c) ==
    /\ pc[c] = "sequence"
    /\ IF Readable
       THEN seq' = [seq EXCEPT ![c] = Length + 1] /\ Goto(c, "create")
       ELSE Raise(c) /\ UNCHANGED seq
    /\ UNCHANGED <<runVars, fileVars, op, read>>

NewReceipt(c, data) ==
    [seq |-> seq[c], action |-> op[c].action, score |-> read[c],
     independent |-> op[c].independent, by |-> c, data |-> data]

SameName(c) == {r \in receipts : r.seq = seq[c] /\ r.action = op[c].action}

(* A bug for comparison: an existing receipt of the same name is           *)
(* replaced.                                                               *)
CreateReplaces(c) ==
    /\ pc[c] = "create"
    /\ receipts' = (receipts \ SameName(c)) \cup {NewReceipt(c, "torn")}
    /\ Goto(c, "write")
    /\ UNCHANGED <<runVars, override, disposition, op, read, seq>>

(* O_CREAT | O_EXCL.                                                       *)
Create(c) ==
    /\ pc[c] = "create"
    /\ IF SameName(c) = {}
       THEN /\ receipts' = receipts \cup {NewReceipt(c, "torn")}
            /\ Goto(c, "write")
       ELSE Raise(c) /\ UNCHANGED receipts
    /\ UNCHANGED <<runVars, override, disposition, op, read, seq>>

Write(c) ==
    /\ pc[c] = "write"
    /\ receipts' = (receipts \ {NewReceipt(c, "torn")})
                     \cup {NewReceipt(c, "whole")}
    /\ Goto(c, "project")
    /\ UNCHANGED <<runVars, override, disposition, op, read, seq>>

-----------------------------------------------------------------------------
(* force_accept needs no review, but no acceptance either.                 *)
ForceBegin(c) ==
    /\ pc[c] = "idle"
    /\ op' = [op EXCEPT ![c].action = "force-accepted"]
    /\ Goto(c, IF override = None THEN "forceChain" ELSE "raised")
    /\ UNCHANGED <<runVars, fileVars, read, seq>>

ForceCheck(c) ==
    /\ pc[c] = "forceChain"
    /\ Goto(c, IF Readable /\ Prior # "accepted" THEN "override" ELSE "raised")
    /\ UNCHANGED <<runVars, fileVars, op, read, seq>>

(* A bug for comparison: an existing override is replaced.                 *)
ForceCreateReplaces(c) ==
    /\ pc[c] = "override"
    /\ override' = [by |-> c, data |-> "torn"]
    /\ Goto(c, "forceWrite")
    /\ UNCHANGED <<runVars, receipts, disposition, op, read, seq>>

ForceCreate(c) ==
    /\ pc[c] = "override"
    /\ IF override = None
       THEN override' = [by |-> c, data |-> "torn"] /\ Goto(c, "forceWrite")
       ELSE Raise(c) /\ UNCHANGED override
    /\ UNCHANGED <<runVars, receipts, disposition, op, read, seq>>

ForceWrite(c) ==
    /\ pc[c] = "forceWrite"
    /\ override' = [override EXCEPT !.data = "whole"]
    /\ Goto(c, "project")
    /\ UNCHANGED <<runVars, receipts, disposition, op, read, seq>>

-----------------------------------------------------------------------------
(* Both end by updating the projection.                                    *)
UpdateProjection(c) ==
    /\ pc[c] = "project"
    /\ disposition' = op[c].action
    /\ Goto(c, "done")
    /\ UNCHANGED <<runVars, receipts, override, op, read, seq>>

(* eval score replaces the score set.                                      *)
Rescore ==
    /\ score' \in Score
    /\ UNCHANGED <<sealed, fileVars, pc, op, read, seq>>

Step(c) ==
    \/ RecordBegin(c) \/ ReadChain(c) \/ NextSequence(c) \/ Create(c)
    \/ Write(c)
    \/ ForceBegin(c) \/ ForceCheck(c) \/ ForceCreate(c) \/ ForceWrite(c)
    \/ UpdateProjection(c)

Next ==
    \/ \E c \in Call : Step(c)
    \/ Rescore

Spec == Init /\ [][Next]_vars

-----------------------------------------------------------------------------
Action == LIFECYCLE_ACTIONS \cup {"force-accepted"}

(* Files and calls hold what their schemas allow.                          *)
TypeOK ==
    /\ sealed \in SealedRun /\ score \in Score \cup {None}
    /\ receipts \subseteq Receipt
    /\ override \in Override \cup {None}
    /\ disposition \in Action \cup {None}
    /\ pc \in [Call -> {"idle", "chain", "sequence", "create", "write",
                        "forceChain", "override", "forceWrite", "project",
                        "done", "raised"}]
    /\ op \in [Call -> [action : Action, independent : BOOLEAN]]
    /\ read \in [Call -> Score \cup {None}]
    /\ seq \in [Call -> Nat]

(* A reader never sees history rewritten: a complete receipt stays as it   *)
(* is, and one that is completed later counts only at the end of the chain,*)
(* although its sequence was computed before other calls wrote theirs.     *)
HistoryOnlyGrows ==
    [][/\ {r \in receipts : r.data = "whole"} \subseteq receipts'
       /\ Readable' => \A r \in receipts, q \in receipts' \ receipts :
                          r.data = "whole" => r.seq < q.seq]_vars

(* A call that went on after writing its receipt has it in the directory,  *)
(* complete and as it wrote it, however many calls raced for its name.     *)
RecordedForGood ==
    \A c \in Call : pc[c] \in {"project", "done"} =>
        IF op[c].action = "force-accepted"
        THEN override = [by |-> c, data |-> "whole"]
        ELSE NewReceipt(c, "whole") \in receipts

(* An acceptance in force rests on a review right before it, of the same   *)
(* score set, which passed; in a high-risk run someone else than the       *)
(* executor accepted.  Racing calls can put an acceptance after a          *)
(* rejection, but no reader takes it for one.                              *)
ApprovalRestsOnReview ==
    lifecycle_disposition = "accepted" =>
        LET a == ReceiptAt(Length)
        IN  /\ Length > 1
            /\ \E r \in receipts : /\ r.seq = Length - 1
                                   /\ r.action = "reviewed" /\ r.score = a.score
            /\ a.score # None => a.score \in Passing
            /\ sealed.risk = "high" => a.independent
            /\ sealed.reviewable /\ sealed.acceptable
            /\ sealed.evaluated => a.score # None

-----------------------------------------------------------------------------
(* The inductive invariant behind the theorems of ReviewLifecycleProofs.   *)

Recording == {"chain", "sequence", "create", "write"}
Forcing == {"forceChain", "override", "forceWrite"}

(* A call keeps to its own half of the protocol.                           *)
OpInv ==
    \A c \in Call :
        /\ pc[c] \in Recording => op[c].action \in LIFECYCLE_ACTIONS
        /\ pc[c] \in Forcing => op[c].action = "force-accepted"

(* Each receipt is what its author wrote, each torn one still being written*)
(* and each override held by one author.                                   *)
AuthorInv ==
    /\ \A r \in receipts :
         /\ r = NewReceipt(r.by, r.data)
         /\ pc[r.by] \in IF r.data = "whole" THEN {"project", "done"}
                         ELSE {"write"}
    /\ \A c \in Call :
         /\ pc[c] = "write" => NewReceipt(c, "torn") \in receipts
         /\ pc[c] = "forceWrite" => override = [by |-> c, data |-> "torn"]

(* Sequences have no gap, and only a torn receipt without a rival for its  *)
(* sequence is the last one.                                               *)
Rival(r) == \E q \in receipts : q.by # r.by /\ q.seq = r.seq
Present(k) == \E q \in receipts : q.seq = k
SequenceInv ==
    /\ \A r \in receipts : r.seq > 0 /\ \A k \in 1..r.seq - 1 : Present(k)
    /\ \A c \in Call : pc[c] = "create" =>
                          seq[c] > 0 /\ \A k \in 1..seq[c] - 1 : Present(k)
    /\ \A t \in receipts : t.data = "torn" => Rival(t) \/
         /\ \A r \in receipts : r.seq <= t.seq
         /\ \A d \in Call : pc[d] = "create" => seq[d] <= t.seq

IndInv ==
    /\ TypeOK /\ IsFiniteSet(receipts)
    /\ OpInv /\ AuthorInv /\ RecordedForGood /\ SequenceInv

(* What record checked of the sealed run and of the score set it read is   *)
(* true of the receipt it writes: the run is sealed, and the call keeps    *)
(* the score set it read though the one on disk may be replaced.           *)
GateInv ==
    \A c \in Call :
        /\ pc[c] \in Recording \cup {"project", "done"} /\ op[c].action \in LIFECYCLE_ACTIONS =>
              sealed.reviewable /\ (sealed.evaluated => read[c] # None)
        /\ pc[c] \in (Recording \ {"chain"}) \cup {"project", "done"} /\ op[c].action = "accepted" =>
              /\ read[c] # None => read[c] \in Passing
              /\ sealed.risk = "high" => op[c].independent
              /\ sealed.acceptable
==============================================================================
