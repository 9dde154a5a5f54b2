------------------------ MODULE ReviewLifecycleProofs ------------------------
(***************************************************************************)
(* Proofs about ReviewLifecycle for any number of calls and score sets.    *)
(***************************************************************************)
EXTENDS ReviewLifecycle, FiniteSetTheorems, TLAPS

(* A readable directory holds the sequences 1 to Length and no other.      *)
LEMMA LengthType ==
  ASSUME IsFiniteSet(receipts), Readable
  PROVE  Length \in Nat /\ Numbered(Length)
  <1>1. Cardinality(receipts) \in Nat
    BY FS_CardinalityType
  <1>2. \E n \in 0..Cardinality(receipts) : Numbered(n)
    BY DEF Readable
  <1>3. Length \in 0..Cardinality(receipts) /\ Numbered(Length)
    BY <1>2 DEF Length
  <1> QED
    BY <1>1, <1>3

(* In a readable directory the next sequence is new, and has no gap below. *)
LEMMA NextSequenceFresh ==
  ASSUME TypeOK, IsFiniteSet(receipts), Readable
  PROVE  /\ \A r \in receipts : r.seq <= Length
         /\ \A k \in 1..Length : Present(k)
  <1>1. Length \in Nat /\ {r.seq : r \in receipts} = 1..Length
    BY LengthType DEF Numbered
  <1>2. ASSUME NEW r \in receipts PROVE r.seq <= Length
    BY <1>1
  <1>3. ASSUME NEW k \in 1..Length PROVE Present(k)
    BY <1>1, <1>3 DEF Present
  <1> QED
    BY <1>2, <1>3

(* A sealed run nobody has reviewed satisfies the invariant.               *)
LEMMA InitIndInv == Init => IndInv
  <1> SUFFICES ASSUME Init PROVE IndInv
    OBVIOUS
  <1>1. TypeOK
    BY DEF Init, TypeOK, Action, LIFECYCLE_ACTIONS
  <1>2. IsFiniteSet(receipts)
    BY FS_EmptySet DEF Init
  <1>3. OpInv /\ AuthorInv /\ RecordedForGood /\ SequenceInv
    BY DEF Init, OpInv, Recording, Forcing, AuthorInv, RecordedForGood,
           SequenceInv
  <1> QED
    BY <1>1, <1>2, <1>3 DEF IndInv

(* Steps that leave the files and the sequences alone.                     *)
LEMMA QuietStepInd ==
  ASSUME IndInv, NEW c \in Call,
         \/ RecordBegin(c) \/ ReadChain(c) \/ NextSequence(c) \/ ForceBegin(c)
         \/ ForceCheck(c) \/ ForceCreate(c) \/ ForceWrite(c)
         \/ UpdateProjection(c)
  PROVE  IndInv'
  <1> USE ReviewAssumption DEF ReviewAssumption, IndInv
  <1> USE DEF runVars, fileVars, Goto, Raise
  <1>1. CASE RecordBegin(c)
    <2> USE <1>1 DEF RecordBegin
    <2>1. TypeOK' /\ IsFiniteSet(receipts')
      BY DEF TypeOK, Action
    <2>2. OpInv'
      BY DEF TypeOK, OpInv, Recording, Forcing
    <2>3. AuthorInv' /\ RecordedForGood'
      BY DEF TypeOK, Receipt, AuthorInv, RecordedForGood, NewReceipt
    <2>4. SequenceInv'
      BY DEF TypeOK, Receipt, SequenceInv, Rival, Present
    <2> QED
      BY <2>1, <2>2, <2>3, <2>4
  <1>2. CASE ReadChain(c)
    <2> USE <1>2 DEF ReadChain
    <2>1. TypeOK' /\ IsFiniteSet(receipts')
      BY DEF TypeOK, Action
    <2>2. OpInv'
      BY DEF TypeOK, OpInv, Recording, Forcing
    <2>3. AuthorInv' /\ RecordedForGood'
      BY DEF TypeOK, Receipt, AuthorInv, RecordedForGood, NewReceipt
    <2>4. SequenceInv'
      BY DEF TypeOK, Receipt, SequenceInv, Rival, Present
    <2> QED
      BY <2>1, <2>2, <2>3, <2>4
  <1>3. CASE NextSequence(c)
    <2> USE <1>3 DEF NextSequence
    <2>1. TypeOK' /\ IsFiniteSet(receipts')
      BY LengthType DEF TypeOK
    <2>2. OpInv'
      BY DEF TypeOK, OpInv, Recording, Forcing
    <2>3. \A d \in Call, x \in Data :
              d # c => NewReceipt(d, x)' = NewReceipt(d, x)
      BY DEF TypeOK, NewReceipt
    <2>4. \A r \in receipts : r.by \in Call \ {c} /\ r.data \in Data
      BY DEF TypeOK, Receipt, AuthorInv
    <2>5. AuthorInv'
      BY <2>3, <2>4 DEF TypeOK, AuthorInv, Data
    <2>6. RecordedForGood'
      BY <2>3 DEF TypeOK, RecordedForGood, Data
    <2>7. SequenceInv'
      BY NextSequenceFresh, LengthType DEF TypeOK, Receipt, SequenceInv, Rival,
         Present, Readable
    <2> QED
      BY <2>1, <2>2, <2>5, <2>6, <2>7
  <1>4. CASE ForceBegin(c)
    <2> USE <1>4 DEF ForceBegin
    <2>1. TypeOK' /\ IsFiniteSet(receipts')
      BY DEF TypeOK, Action
    <2>2. OpInv'
      BY DEF TypeOK, OpInv, Recording, Forcing
    <2>3. AuthorInv' /\ RecordedForGood'
      BY DEF TypeOK, Receipt, AuthorInv, RecordedForGood, NewReceipt
    <2>4. SequenceInv'
      BY DEF TypeOK, Receipt, SequenceInv, Rival, Present
    <2> QED
      BY <2>1, <2>2, <2>3, <2>4
  <1>5. CASE ForceCheck(c)
    <2> USE <1>5 DEF ForceCheck
    <2>1. TypeOK' /\ IsFiniteSet(receipts')
      BY DEF TypeOK, Action
    <2>2. OpInv'
      BY DEF TypeOK, OpInv, Recording, Forcing
    <2>3. AuthorInv' /\ RecordedForGood'
      BY DEF TypeOK, Receipt, AuthorInv, RecordedForGood, NewReceipt
    <2>4. SequenceInv'
      BY DEF TypeOK, Receipt, SequenceInv, Rival, Present
    <2> QED
      BY <2>1, <2>2, <2>3, <2>4
  <1>6. CASE ForceCreate(c)
    <2> USE <1>6 DEF ForceCreate
    <2>0. \A x \in Data : [by |-> c, data |-> x] \in Override
      BY DEF Override
    <2>1. override' \in Override \cup {None}
      BY <2>0 DEF TypeOK, Data
    <2>2. TypeOK' /\ IsFiniteSet(receipts')
      BY <2>1 DEF TypeOK
    <2>3. OpInv'
      BY DEF TypeOK, OpInv, Recording, Forcing
    <2>4. \A d \in Call, x \in Data : NewReceipt(d, x)' = NewReceipt(d, x)
      BY DEF NewReceipt
    <2>5. \A d \in Call \ {c} : /\ pc'[d] = pc[d]
                                 /\ [by |-> d, data |-> "torn"]
                                      # [by |-> c, data |-> "torn"]
      BY DEF TypeOK
    <2>6. \A d \in Call, x \in Data : [by |-> d, data |-> x] # None
      BY DEF Override
    <2>7. AuthorInv'
      <3>1. /\ UNCHANGED receipts
            /\ \A d \in Call : pc'[d] # pc[d] =>
                  d = c /\ pc[d] \notin {"write", "project", "done"} /\ pc'[d] # "write"
        BY <2>5 DEF TypeOK
      <3>2. \A r \in receipts : r.by \in Call /\ r.data \in Data
        BY DEF TypeOK, Receipt
      <3>3. \A r \in receipts : /\ r = NewReceipt(r.by, r.data)'
                                /\ pc'[r.by] = pc[r.by]
        BY <2>4, <3>1, <3>2 DEF AuthorInv
      <3>4. \A d \in Call : pc'[d] = "write" => NewReceipt(d, "torn")' \in receipts
        BY <2>4, <3>1 DEF AuthorInv, Data
      <3>5. \A d \in Call : pc'[d] = "forceWrite" => override' = [by |-> d, data |-> "torn"]
        BY <2>5, <2>6 DEF TypeOK, AuthorInv, Data
      <3> QED
        BY <3>1, <3>3, <3>4, <3>5 DEF AuthorInv
    <2>8. RecordedForGood'
      BY <2>4, <2>5, <2>6 DEF TypeOK, AuthorInv, RecordedForGood, Data, OpInv,
         Forcing
    <2>9. SequenceInv'
      BY DEF TypeOK, Receipt, SequenceInv, Rival, Present
    <2> QED
      BY <2>2, <2>3, <2>7, <2>8, <2>9
  <1>7. CASE ForceWrite(c)
    <2> USE <1>7 DEF ForceWrite
    <2>0. \A x \in Data : [by |-> c, data |-> x] \in Override
      BY DEF Override
    <2>1. override' \in Override \cup {None}
      BY <2>0 DEF TypeOK, AuthorInv, Data
    <2>2. TypeOK' /\ IsFiniteSet(receipts')
      BY <2>1 DEF TypeOK
    <2>3. OpInv'
      BY DEF TypeOK, OpInv, Recording, Forcing
    <2>4. \A d \in Call, x \in Data : NewReceipt(d, x)' = NewReceipt(d, x)
      BY DEF NewReceipt
    <2>5. \A d \in Call \ {c} : /\ pc'[d] = pc[d]
                                 /\ [by |-> d, data |-> "torn"]
                                      # [by |-> c, data |-> "torn"]
      BY DEF TypeOK
    <2>6. \A d \in Call, x \in Data : [by |-> d, data |-> x] # None
      BY DEF Override
    <2>7. AuthorInv'
      BY <2>4, <2>5, <2>6 DEF TypeOK, Receipt, AuthorInv, Data
    <2>8. RecordedForGood'
      BY <2>4, <2>5, <2>6 DEF TypeOK, AuthorInv, RecordedForGood, Data, OpInv,
         Forcing
    <2>9. SequenceInv'
      BY DEF TypeOK, Receipt, SequenceInv, Rival, Present
    <2> QED
      BY <2>2, <2>3, <2>7, <2>8, <2>9
  <1>8. CASE UpdateProjection(c)
    <2> USE <1>8 DEF UpdateProjection
    <2>1. TypeOK' /\ IsFiniteSet(receipts')
      BY DEF TypeOK, Action
    <2>2. OpInv'
      BY DEF TypeOK, OpInv, Recording, Forcing
    <2>3. AuthorInv' /\ RecordedForGood'
      BY DEF TypeOK, Receipt, AuthorInv, RecordedForGood, NewReceipt
    <2>4. SequenceInv'
      BY DEF TypeOK, Receipt, SequenceInv, Rival, Present
    <2> QED
      BY <2>1, <2>2, <2>3, <2>4
  <1> QED
    BY <1>1, <1>2, <1>3, <1>4, <1>5, <1>6, <1>7, <1>8

(* O_EXCL: a receipt that is created has a name of its own; its sequence   *)
(* is the last one, or taken under another action.                         *)
LEMMA CreateInd ==
  ASSUME IndInv, NEW c \in Call, Create(c)
  PROVE  IndInv'
  <1> USE ReviewAssumption DEF ReviewAssumption, IndInv
  <1> USE DEF runVars, fileVars, Goto, Raise
  <1> DEFINE t == NewReceipt(c, "torn")
  <1>1. CASE SameName(c) # {}
    <2> USE <1>1 DEF Create
    <2>1. TypeOK' /\ IsFiniteSet(receipts')
      BY DEF TypeOK
    <2>2. OpInv'
      BY DEF TypeOK, OpInv, Recording, Forcing
    <2>3. AuthorInv' /\ RecordedForGood'
      BY DEF TypeOK, Receipt, AuthorInv, RecordedForGood, NewReceipt
    <2>4. SequenceInv'
      BY DEF TypeOK, Receipt, SequenceInv, Rival, Present
    <2> QED
      BY <2>1, <2>2, <2>3, <2>4
  <1>2. CASE SameName(c) = {}
    <2> USE <1>2 DEF Create
    <2>0. receipts' = receipts \cup {t} /\ pc[c] = "create"
          /\ pc' = [pc EXCEPT ![c] = "write"]
          /\ UNCHANGED <<runVars, override, disposition, op, read, seq>>
      OBVIOUS
    <2> HIDE <1>2 DEF Create
    <2>a. t \in Receipt /\ t.by = c /\ t.seq = seq[c] /\ t.data = "torn"
      BY <2>0 DEF TypeOK, OpInv, Recording, Receipt, NewReceipt, Data
    <2>b. \A r \in receipts : r.by # c /\ r.seq \in Nat
      BY <2>0 DEF AuthorInv, TypeOK, Receipt
    <2>1. TypeOK' /\ IsFiniteSet(receipts')
      BY <2>0, <2>a, FS_AddElement DEF TypeOK
    <2>2. OpInv'
      BY <2>0 DEF TypeOK, OpInv, Recording, Forcing
    <2>3. AuthorInv' /\ RecordedForGood'
      BY <2>0, <2>a, <2>b DEF TypeOK, Receipt, AuthorInv, RecordedForGood,
         NewReceipt
    <2>4. SequenceInv'
      <3>1. \A k : Present(k) => Present(k)'
        BY <2>0 DEF Present
      <3>2. \A r \in receipts : Rival(r) => Rival(r)'
        BY <2>0 DEF Rival
      <3>3. /\ \A r \in receipts' :
                   r.seq > 0 /\ \A k \in 1..r.seq - 1 : Present(k)'
            /\ \A d \in Call : pc'[d] = "create" =>
                   seq'[d] > 0 /\ \A k \in 1..seq'[d] - 1 : Present(k)'
        BY <2>0, <2>a, <3>1 DEF SequenceInv, TypeOK
      <3>4. ASSUME NEW r \in receipts, r.data = "torn", ~Rival(r)'
            PROVE  /\ \A q \in receipts' : q.seq <= r.seq
                   /\ \A d \in Call : pc'[d] = "create" => seq'[d] <= r.seq
        BY <2>0, <2>a, <3>2, <3>4 DEF SequenceInv, TypeOK
      <3>5. CASE Present(seq[c])
        <4>1. \E x \in receipts' : x.by # t.by /\ x.seq = t.seq
          <5>1. PICK q \in receipts : q.seq = seq[c]
            BY <3>5 DEF Present
          <5>2. q \in receipts' /\ q.by # t.by /\ q.seq = t.seq
            BY <2>0, <2>a, <2>b, <5>1
          <5> QED
            BY <5>2
        <4>2. ASSUME NEW r \in receipts', r.data = "torn", ~Rival(r)'
              PROVE  r \in receipts
          BY <2>0, <4>1, <4>2 DEF Rival
        <4> QED
          BY <3>3, <3>4, <4>2 DEF SequenceInv
      <3>6. CASE ~Present(seq[c])
        <4>1. ASSUME NEW r \in receipts PROVE r.seq <= t.seq
          <5>1. r.seq \in Nat /\ seq[c] \in Nat
            BY DEF TypeOK, Receipt
          <5>2. ~(seq[c] < r.seq)
            BY <2>0, <3>6, <5>1 DEF SequenceInv
          <5> QED
            BY <2>a, <5>1, <5>2
        <4>2. ASSUME NEW d \in Call, pc'[d] = "create" PROVE seq'[d] <= t.seq
          <5>1. seq[d] \in Nat /\ seq[c] \in Nat /\ pc[d] = "create"
            BY <2>0, <4>2 DEF TypeOK
          <5>2. ~(seq[c] < seq[d])
            BY <2>0, <3>6, <5>1 DEF SequenceInv
          <5> QED
            BY <2>0, <2>a, <5>1, <5>2
        <4> QED
          BY <2>0, <2>a, <3>3, <3>4, <4>1, <4>2 DEF SequenceInv, TypeOK
      <3> QED
        BY <3>5, <3>6
    <2> QED
      BY <2>1, <2>2, <2>3, <2>4
  <1> QED
    BY <1>1, <1>2

(* Completing a receipt changes neither its name nor its author.           *)
LEMMA WriteInd ==
  ASSUME IndInv, NEW c \in Call, Write(c)
  PROVE  IndInv'
  <1> USE ReviewAssumption DEF ReviewAssumption, IndInv
  <1> USE DEF runVars, fileVars, Goto
  <1> DEFINE t == NewReceipt(c, "torn")
             w == NewReceipt(c, "whole")
  <1>0. /\ receipts' = (receipts \ {t}) \cup {w} /\ pc[c] = "write"
        /\ pc' = [pc EXCEPT ![c] = "project"]
        /\ UNCHANGED <<runVars, override, disposition, op, read, seq>>
    BY DEF Write
  <1>a. /\ t \in receipts /\ t.by = c /\ t.seq = seq[c] /\ t.data = "torn"
        /\ w \in Receipt /\ w.by = c /\ w.seq = seq[c] /\ w.data = "whole"
    BY <1>0 DEF AuthorInv, TypeOK, OpInv, Recording, Receipt, NewReceipt, Data
  <1>b. \A r \in receipts : r # t => r.by # c
    BY <1>0 DEF AuthorInv, TypeOK, Receipt, Data
  <1>1. TypeOK' /\ IsFiniteSet(receipts')
    BY <1>0, <1>a, FS_AddElement, FS_RemoveElement DEF TypeOK
  <1>2. OpInv'
    BY <1>0 DEF TypeOK, OpInv, Recording, Forcing
  <1>3. AuthorInv' /\ RecordedForGood'
    BY <1>0, <1>a, <1>b DEF TypeOK, Receipt, AuthorInv, RecordedForGood,
       NewReceipt, OpInv, Recording, LIFECYCLE_ACTIONS
  <1>4. SequenceInv'
    <2>1. \A k : Present(k) => Present(k)'
      BY <1>0, <1>a DEF Present
    <2>2. \A r \in receipts : Rival(r) => Rival(r)'
      BY <1>0, <1>a DEF Rival
    <2> QED
      BY <1>0, <1>a, <2>1, <2>2 DEF SequenceInv, TypeOK
  <1> QED
    BY <1>1, <1>2, <1>3, <1>4

(* Every step of every call preserves the invariant.                       *)
LEMMA NextIndInv == IndInv /\ [Next]_vars => IndInv'
  <1> SUFFICES ASSUME IndInv, [Next]_vars PROVE IndInv'
    OBVIOUS
  <1>1. CASE Rescore \/ UNCHANGED vars
    <2> USE <1>1 DEF Rescore, vars, runVars, fileVars
    <2>1. TypeOK' /\ IsFiniteSet(receipts') /\ OpInv'
      BY DEF IndInv, TypeOK, OpInv
    <2>2. AuthorInv' /\ RecordedForGood' /\ SequenceInv'
      BY DEF IndInv, AuthorInv, RecordedForGood, NewReceipt, SequenceInv, Rival,
             Present
    <2> QED
      BY <2>1, <2>2 DEF IndInv
  <1> QED
    BY <1>1, QuietStepInd, CreateInd, WriteInd DEF Next, Step

(* The invariant holds in every reachable state.                           *)
THEOREM ReviewInvariant == Spec => []IndInv
  <1> QED
    BY InitIndInv, NextIndInv, PTL DEF Spec

(* Receipts, override and calls keep their types, for any number of calls. *)
THEOREM ReviewTypeOK == Spec => []TypeOK
  <1>1. IndInv => TypeOK
    BY DEF IndInv
  <1> QED
    BY <1>1, ReviewInvariant, PTL

(* What a call has recorded stays recorded, whoever races it for the name. *)
THEOREM ReviewRecordedForGood == Spec => []RecordedForGood
  <1>1. IndInv => RecordedForGood
    BY DEF IndInv
  <1> QED
    BY <1>1, ReviewInvariant, PTL

(* Complete receipts are immutable, and one completed later only extends   *)
(* the chain a reader accepts.                                             *)
THEOREM ReviewHistory == Spec => HistoryOnlyGrows
  <1> DEFINE Grows ==
        /\ {r \in receipts : r.data = "whole"} \subseteq receipts'
        /\ Readable' => \A r \in receipts, q \in receipts' \ receipts :
                           r.data = "whole" => r.seq < q.seq
  <1>1. IndInv /\ [Next]_vars => [Grows]_vars
    <2> SUFFICES ASSUME IndInv, [Next]_vars PROVE Grows
      OBVIOUS
    <2>1. CASE UNCHANGED receipts
      BY <2>1
    <2>2. ASSUME NEW c \in Call, Create(c), receipts' # receipts PROVE Grows
      <3>1. receipts' = receipts \cup {NewReceipt(c, "torn")}
        BY <2>2 DEF Create
      <3>2. ~Readable'
        <4>1. NewReceipt(c, "torn") \in receipts'
          BY <3>1
        <4>2. NewReceipt(c, "torn").data = "torn"
          BY DEF NewReceipt
        <4> QED
          BY <4>1, <4>2 DEF Readable
      <3> QED
        BY <3>1, <3>2
    <2>3. ASSUME NEW c \in Call, Write(c) PROVE Grows
      <3> DEFINE t == NewReceipt(c, "torn")
                 w == NewReceipt(c, "whole")
      <3>1. receipts' = (receipts \ {t}) \cup {w} /\ t \in receipts
        BY <2>3 DEF Write, IndInv, AuthorInv
      <3>2. t.data = "torn" /\ t.by = c /\ t.seq = seq[c] /\ w.seq = seq[c]
            /\ seq[c] \in Nat
        BY DEF NewReceipt, IndInv, TypeOK
      <3>3. ASSUME Readable', NEW r \in receipts, r.data = "whole"
            PROVE  r.seq < seq[c]
        <4>1. r \in receipts' /\ w \in receipts'
          BY <3>1, <3>2, <3>3
        <4>2. r # w
          BY <2>3, <3>3 DEF Write, IndInv, AuthorInv, NewReceipt
        <4>3. r.seq # seq[c] /\ r.seq \in Nat
          BY <3>2, <3>3, <4>1, <4>2 DEF Readable, IndInv, TypeOK, Receipt
        <4>4. ~Rival(t)
          <5> SUFFICES ASSUME NEW q \in receipts, q.by # c, q.seq = seq[c]
                       PROVE  FALSE
            BY <3>2 DEF Rival
          <5>1. q \in receipts' /\ q # w
            BY <3>1, <3>2 DEF NewReceipt
          <5> QED
            BY <3>2, <3>3, <4>1, <5>1 DEF Readable
        <4> QED
          BY <3>1, <3>2, <3>3, <4>3, <4>4 DEF IndInv, SequenceInv
      <3> QED
        BY <3>1, <3>2, <3>3
    <2>4. CASE ~UNCHANGED receipts
      <3>1. PICK c \in Call : Create(c) \/ Write(c)
        BY <2>4 DEF Next, Step, Rescore, vars, fileVars, RecordBegin, ReadChain,
           NextSequence, ForceBegin, ForceCheck, ForceCreate, ForceWrite,
           UpdateProjection
      <3> QED
        BY <2>2, <2>3, <2>4, <3>1
    <2> QED
      BY <2>1, <2>4
  <1> QED
    BY <1>1, ReviewInvariant, PTL DEF Spec, HistoryOnlyGrows

(* The gates a receipt has passed.                                         *)
LEMMA NextGateInv == IndInv /\ GateInv /\ [Next]_vars => GateInv'
  <1> SUFFICES ASSUME IndInv, GateInv, [Next]_vars PROVE GateInv'
    OBVIOUS
  <1> USE DEF runVars, fileVars, Goto, Raise, Recording, Forcing
  <1>1. CASE Rescore \/ UNCHANGED vars
    BY <1>1 DEF Rescore, vars, GateInv
  <1>2. ASSUME NEW c \in Call, Step(c) PROVE GateInv'
    <2>0. TypeOK /\ OpInv
      BY DEF IndInv
    <2>1. CASE RecordBegin(c)
      <3>1. \A d \in Call \ {c} : pc'[d] = pc[d] /\ op'[d] = op[d] /\ read'[d] = read[d]
        BY <2>0, <2>1 DEF RecordBegin, TypeOK
      <3>2. /\ pc'[c] \in {"chain", "raised"} /\ read'[c] = score
            /\ pc'[c] = "chain" => sealed.reviewable /\ (sealed.evaluated => score # None)
        BY <2>0, <2>1 DEF RecordBegin, TypeOK
      <3>3. UNCHANGED sealed
        BY <2>1 DEF RecordBegin
      <3> QED
        BY <3>1, <3>2, <3>3 DEF GateInv
    <2>2. CASE ReadChain(c)
      BY <2>0, <2>2 DEF ReadChain, AcceptanceGates, GateInv, TypeOK
    <2>3. CASE NextSequence(c) \/ Create(c) \/ Write(c)
      BY <2>0, <2>3 DEF NextSequence, Create, Write, GateInv, TypeOK
    <2>4. CASE ForceBegin(c) \/ ForceCheck(c) \/ ForceCreate(c)
      BY <2>0, <2>4 DEF ForceBegin, ForceCheck, ForceCreate, GateInv, TypeOK
    <2>5. CASE ForceWrite(c)
      BY <2>0, <2>5 DEF ForceWrite, OpInv, GateInv, TypeOK, LIFECYCLE_ACTIONS
    <2>6. CASE UpdateProjection(c)
      BY <2>0, <2>6 DEF UpdateProjection, GateInv, TypeOK
    <2> QED
      BY <1>2, <2>1, <2>2, <2>3, <2>4, <2>5, <2>6 DEF Step
  <1> QED
    BY <1>1, <1>2 DEF Next

(* A reader who takes the run for accepted has a review of the same score  *)
(* set before the acceptance, and the acceptance passed every gate.        *)
LEMMA GatesMakeApproval == IndInv /\ GateInv => ApprovalRestsOnReview
  <1> SUFFICES ASSUME IndInv, GateInv, lifecycle_disposition = "accepted"
               PROVE  ApprovalRestsOnReview
    BY DEF ApprovalRestsOnReview
  <1>1. Readable /\ Prior = "accepted" /\ ConfirmedLast
    BY DEF lifecycle_disposition
  <1>2. Length \in Nat /\ Length > 1 /\ {r.seq : r \in receipts} = 1..Length
    BY <1>1, LengthType DEF IndInv, ConfirmedLast, Numbered
  <1> DEFINE a == ReceiptAt(Length)
             b == ReceiptAt(Length - 1)
  <1>3. \A k \in 1..Length : ReceiptAt(k) \in receipts /\ ReceiptAt(k).seq = k
    <2> TAKE k \in 1..Length
    <2>1. \E r \in receipts : r.seq = k
      BY <1>2
    <2> QED
      BY <2>1 DEF ReceiptAt
  <1>4. a \in receipts /\ b \in receipts /\ b.seq = Length - 1
    BY <1>2, <1>3
  <1>5. a.action = "accepted" /\ b.action = "reviewed" /\ b.score = a.score
    <2>1. receipts # {}
      BY <1>4
    <2> QED
      BY <1>1, <2>1 DEF Prior, ConfirmedLast
  <1> HIDE DEF a, b
  <1>6. a.by \in Call /\ a = NewReceipt(a.by, a.data) /\ pc[a.by] \in {"project", "done"}
    BY <1>1, <1>4 DEF IndInv, TypeOK, Receipt, AuthorInv, Readable
  <1> DEFINE c == a.by
  <1>7. a.score = read[c] /\ op[c].action = "accepted" /\ a.independent = op[c].independent
    BY <1>5, <1>6 DEF NewReceipt
  <1> HIDE DEF c
  <1>8. /\ sealed.reviewable /\ (sealed.evaluated => read[c] # None)
        /\ read[c] # None => read[c] \in Passing
        /\ sealed.risk = "high" => op[c].independent
        /\ sealed.acceptable
    BY <1>6, <1>7 DEF GateInv, LIFECYCLE_ACTIONS, c
  <1> QED
    BY <1>2, <1>4, <1>5, <1>7, <1>8 DEF ApprovalRestsOnReview, a

(* However reviews, acceptances, rejections and rescoring race, a run that *)
(* lifecycle_disposition calls accepted was reviewed right before, over    *)
(* the same passing score set, and met _check_acceptance_gates.            *)
THEOREM ApprovalsRestOnReviews == Spec => []ApprovalRestsOnReview
  <1>1. Init => GateInv
    BY DEF Init, GateInv, Recording
  <1> QED
    BY <1>1, ReviewInvariant, NextGateInv, GatesMakeApproval, PTL DEF Spec
==============================================================================
