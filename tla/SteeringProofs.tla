--------------------------- MODULE SteeringProofs ---------------------------
(* Proofs about Steering, for any number of requests, acknowledgements,    *)
(* intents and hosts, and whoever is killed: the delivery journal ends     *)
(* with terminal evidence, agrees with the message log and with the inbox, *)
(* and the bridge applies intents once and in order.                       *)
EXTENDS Steering, FiniteSetTheorems, WellFoundedInduction, TLAPS

MessageRecord == [kind : {"steer", "ack", "error", "progress"}, of : Steer \cup {None}]
DeliveryRecord == [of : Steer, outcome : OUTCOMES, attempt : 0..MaxAttempt]
HandledRecord == [call : ChildAck, sequence : Nat, outcome : Disposition]

-----------------------------------------------------------------------------
(* The operators.                                                          *)

(* What is in the logs, entry by entry.                                    *)
LEMMA LogsTyped ==
  ASSUME TypeOK
  PROVE  /\ messages \in Seq(MessageRecord) /\ delivery \in Seq(DeliveryRecord)
         /\ handled \in Seq(HandledRecord)
         /\ Len(messages) \in Nat /\ Len(delivery) \in Nat /\ Len(handled) \in Nat
         /\ \A i \in 1..Len(messages) : messages[i] \in MessageRecord
         /\ \A i \in 1..Len(delivery) : delivery[i] \in DeliveryRecord
         /\ \A i \in 1..Len(handled) : handled[i] \in HandledRecord
  <1>1. /\ messages \in Seq(MessageRecord) /\ delivery \in Seq(DeliveryRecord)
        /\ handled \in Seq(HandledRecord)
    BY DEF TypeOK, MessageRecord, DeliveryRecord, HandledRecord
  <1> QED
    BY <1>1

(* An entry at the end of a log.                                           *)
LEMMA Appended ==
  ASSUME NEW S, NEW log \in Seq(S), NEW x \in S
  PROVE  /\ Append(log, x) \in Seq(S) /\ Len(Append(log, x)) = Len(log) + 1
         /\ \A i \in 1..Len(log) : Append(log, x)[i] = log[i]
         /\ Append(log, x)[Len(log) + 1] = x
  OBVIOUS

(* A set of log positions that is not empty has a first one.               *)
LEMMA HasLeast ==
  ASSUME NEW T \in SUBSET Nat, T # {}
  PROVE  \E x \in T : \A y \in T : x <= y
  <1> DEFINE R == OpToRel(<, Nat)
  <1>1. IsWellFoundedOn(R, Nat)
    BY NatLessThanWellFounded
  <1>2. \A x, y \in Nat : y < x => <<y, x>> \in R
    BY DEF OpToRel
  <1> HIDE DEF R
  <1>3. PICK x \in T : \A y \in T : ~(<<y, x>> \in R)
    BY <1>1, WFMin
  <1>4. \A y \in T : x <= y
    <2> TAKE y \in T
    <2>1. x \in Nat /\ y \in Nat /\ ~(y < x)
      BY <1>2, <1>3
    <2> QED
      BY <2>1
  <1> QED
    BY <1>4

(* So deliver_pending looks at a request of this pass.                     *)
LEMMA FirstIsPending ==
  ASSUME TypeOK, CallsKnown, todo # {}
  PROVE  First \in todo /\ First \in 1..Len(messages) /\ Subject \in Steer
  <1>1. todo \in SUBSET Nat /\ Len(messages) \in Nat
    BY DEF TypeOK
  <1>2. \E i \in todo : \A j \in todo : i <= j
    BY <1>1, HasLeast
  <1>3. First \in todo
    BY <1>2 DEF First
  <1> QED
    BY <1>3 DEF TypeOK, CallsKnown, Subject

(* The next sequence exists: the sequences of the intents are exactly the  *)
(* first numbers, so that one more than their number is free.              *)
LEMMA NextSequenceExists ==
  ASSUME IntentsNumbered
  PROVE  NextSequence \in Nat /\ NextSequence >= 1 /\ 1..(NextSequence - 1) \subseteq Allocated
  <1> DEFINE A == Allocated
             k == Cardinality(A)
             f == [i \in intents |-> i.sequence]
  <1>1. A \in SUBSET Nat /\ \A n \in A : n >= 1 /\ 1..n \subseteq A
    BY DEF IntentsNumbered, WellNumbered, Allocated, Intent
  <1>2. f \in Surjection(intents, A)
    BY DEF Surjection, Allocated
  <1>3. IsFiniteSet(A) /\ k <= Cardinality(intents)
    <2> HIDE DEF f, A
    <2> QED
      BY <1>2, FS_Surjection DEF IntentsNumbered
  <1>4. k \in Nat /\ Cardinality(intents) \in Nat
    BY <1>3, FS_CardinalityType DEF IntentsNumbered
  <1> HIDE DEF A, k
  <1>5. \A n \in A : n <= k
    <2> SUFFICES ASSUME NEW n \in A PROVE n <= k
      OBVIOUS
    <2>1. n \in Nat /\ n >= 1 /\ (1..n) \in SUBSET A
      BY <1>1
    <2>2. Cardinality(1..n) = n
      BY <2>1, FS_Interval
    <2> QED
      BY <1>3, <2>1, <2>2, FS_Subset DEF k
  <1>6. \A n \in 1..k : n \in A
    <2> SUFFICES ASSUME NEW n \in 1..k, n \notin A PROVE FALSE
      OBVIOUS
    <2>1. n \in Nat /\ n - 1 \in Int /\ n >= 1 /\ n <= k
      BY <1>4
    <2>2. A \in SUBSET (1..(n - 1))
      BY <1>1, <2>1
    <2>3. IsFiniteSet(1..(n - 1)) /\ Cardinality(1..(n - 1)) = n - 1
      BY <2>1, FS_Interval
    <2>4. k <= n - 1
      BY <2>2, <2>3, FS_Subset DEF k
    <2> QED
      BY <1>4, <2>1, <2>4
  <1> DEFINE Next1(n) == (\A m \in A : m < n) /\ (n = 1 \/ n - 1 \in A)
  <1>7. k + 1 \in 1..Cardinality(intents) + 1 /\ Next1(k + 1)
    BY <1>1, <1>3, <1>4, <1>5, <1>6
  <1>8. NextSequence = CHOOSE n \in 1..Cardinality(intents) + 1 : Next1(n)
    BY DEF NextSequence, A
  <1>9. NextSequence \in 1..Cardinality(intents) + 1 /\ Next1(NextSequence)
    <2> HIDE DEF Next1
    <2> QED
      BY <1>7, <1>8
  <1> QED
    BY <1>1, <1>4, <1>9 DEF A

(* The last sequence is the largest that was handled.                      *)
LEMMA LastIsLargest ==
  ASSUME TypeOK, RunnerKnows
  PROVE  LastSequence \in Nat /\ \A i \in 1..Len(handled) : handled[i].sequence <= LastSequence
  <1>1. CASE handled = <<>>
    BY <1>1 DEF LastSequence
  <1>2. CASE handled # <<>>
    <2> DEFINE S == {handled[i].sequence : i \in 1..Len(handled)}
               Largest(n) == \A i \in 1..Len(handled) : handled[i].sequence <= n
    <2>1. LastSequence = CHOOSE n \in S : Largest(n)
      BY <1>2 DEF LastSequence
    <2>2. \E n \in S : Largest(n)
      BY <1>2 DEF RunnerKnows
    <2>3. LastSequence \in S /\ Largest(LastSequence)
      <3> HIDE DEF S, Largest
      <3> QED
        BY <2>1, <2>2
    <2>4. S \subseteq Nat
      BY LogsTyped DEF HandledRecord
    <2> QED
      BY <2>3, <2>4
  <1> QED
    BY <1>1, <1>2

-----------------------------------------------------------------------------
(* What becomes of the logs when one of them is appended to.               *)

(* append_message, whoever calls it.                                       *)
LEMMA MessageKeepsLog ==
  ASSUME TypeOK, OneAckPerSteer, CallsKnown,
         NEW kind \in {"steer", "ack", "error", "progress"}, NEW m \in Steer \cup {None},
         kind = "steer" => m \in Steer, kind = "ack" => AckAllowed(m), Message(kind, m)
  PROVE  /\ messages' \in Seq(MessageRecord) /\ Len(messages') = Len(messages) + 1
         /\ \A i \in 1..Len(messages) : messages'[i] = messages[i]
         /\ OneAckPerSteer'
         /\ \A i \in 1..Len(messages') : messages'[i].kind = "steer" => messages'[i].of \in Steer
         /\ \A n : Acknowledged(n) => Acknowledged(n)'
         /\ kind = "ack" => Acknowledged(m)'
  <1> DEFINE x == [kind |-> kind, of |-> m]
             L == Len(messages)
  <1>1. x \in MessageRecord
    BY DEF MessageRecord
  <1>2. x.kind = kind /\ x.of = m
    OBVIOUS
  <1>3. messages \in Seq(MessageRecord) /\ L \in Nat /\ \A i \in 1..L : messages[i] \in MessageRecord
    BY LogsTyped
  <1>4. messages' = Append(messages, x)
    BY DEF Message
  <1> HIDE DEF x
  <1>5. /\ messages' \in Seq(MessageRecord) /\ Len(messages') = L + 1
        /\ \A i \in 1..L : messages'[i] = messages[i]
        /\ messages'[L + 1] = x
    BY <1>1, <1>3, <1>4, Appended
  <1> HIDE DEF L
  <1>6. \A n : Acknowledged(n) => Acknowledged(n)'
    BY <1>3, <1>5 DEF Acknowledged, L
  <1>7. kind = "ack" => Acknowledged(m)'
    BY <1>2, <1>3, <1>5 DEF Acknowledged
  <1>8. \A i \in 1..Len(messages') : messages'[i].kind = "steer" => messages'[i].of \in Steer
    <2> SUFFICES ASSUME NEW i \in 1..L + 1, messages'[i].kind = "steer"
                 PROVE  messages'[i].of \in Steer
      BY <1>5
    <2>1. CASE i = L + 1
      BY <1>2, <1>5, <2>1
    <2>2. CASE i \in 1..L
      BY <1>5, <2>2 DEF CallsKnown, L
    <2> QED
      BY <1>3, <2>1, <2>2
  <1>9. OneAckPerSteer'
    <2> SUFFICES ASSUME NEW j \in 1..L + 1, messages'[j].kind = "ack"
                 PROVE  /\ \E i \in 1..j - 1 :
                              messages'[i] = [kind |-> "steer", of |-> messages'[j].of]
                        /\ \A i \in 1..j - 1 : messages'[i] # messages'[j]
      BY <1>5 DEF OneAckPerSteer
    <2>1. CASE j \in 1..L
      <3>1. /\ \E i \in 1..j - 1 : messages[i] = [kind |-> "steer", of |-> messages[j].of]
            /\ \A i \in 1..j - 1 : messages[i] # messages[j]
        BY <1>5, <2>1 DEF OneAckPerSteer, L
      <3>2. \A i \in 1..j - 1 : i \in 1..L
        BY <1>3, <2>1
      <3> QED
        BY <1>5, <2>1, <3>1, <3>2
    <2>2. CASE j = L + 1
      <3>1. kind = "ack" /\ messages'[j].of = m /\ messages'[j] = x
        BY <1>2, <1>5, <2>2
      <3>2. PICK i \in 1..L : messages[i].kind = "steer" /\ messages[i].of = m
        BY <3>1 DEF AckAllowed, Persisted, L
      <3>3. messages[i] = [kind |-> "steer", of |-> m]
        BY <1>3, <3>2 DEF MessageRecord
      <3>4. \A n \in 1..L : messages[n] # x
        BY <1>2, <3>1 DEF AckAllowed, Acknowledged, L
      <3>5. j - 1 = L
        BY <1>3, <2>2
      <3> QED
        BY <1>5, <3>1, <3>3, <3>4, <3>5
    <2> QED
      BY <1>3, <2>1, <2>2
  <1> QED
    BY <1>5, <1>6, <1>7, <1>8, <1>9 DEF L

(* append_delivery_event, whoever calls it.                                *)
LEMMA RecordKeepsJournal ==
  ASSUME TypeOK, HardTerminalLast, NEW m \in Steer, NEW outcome \in OUTCOMES,
         NEW attempt \in 0..MaxAttempt, RecordDelivery(m, outcome, attempt)
  PROVE  /\ delivery' \in Seq(DeliveryRecord) /\ HardTerminalLast'
         /\ \A n, S : HasOutcome(n, S)' => HasOutcome(n, S) \/ (n = m /\ outcome \in S)
  <1> DEFINE x == [of |-> m, outcome |-> outcome, attempt |-> attempt]
             L == Len(delivery)
  <1>1. x \in DeliveryRecord /\ x.of = m /\ x.outcome = outcome
    BY DEF DeliveryRecord
  <1>2. delivery \in Seq(DeliveryRecord) /\ L \in Nat
    BY LogsTyped
  <1>3. delivery' = delivery \/ (~Superseded(m, outcome, attempt) /\ delivery' = Append(delivery, x))
    BY DEF RecordDelivery
  <1> HIDE DEF x
  <1>4. CASE delivery' = delivery
    BY <1>2, <1>4 DEF HardTerminalLast, HasOutcome, EventsOf
  <1>5. CASE ~Superseded(m, outcome, attempt) /\ delivery' = Append(delivery, x)
    <2>1. /\ delivery' \in Seq(DeliveryRecord) /\ Len(delivery') = L + 1
          /\ \A i \in 1..L : delivery'[i] = delivery[i]
          /\ delivery'[L + 1] = x
      BY <1>1, <1>2, <1>5, Appended
    <2> HIDE DEF L
    <2>2. \A n, S : HasOutcome(n, S)' => HasOutcome(n, S) \/ (n = m /\ outcome \in S)
      BY <1>1, <1>2, <2>1 DEF HasOutcome, EventsOf, L
    <2>3. HardTerminalLast'
      <3> SUFFICES ASSUME NEW i \in 1..L + 1, NEW j \in 1..L + 1, i < j,
                          delivery'[i].of = delivery'[j].of
                   PROVE  /\ delivery'[i].outcome \notin ACK_TERMINAL_OUTCOMES
                          /\ delivery'[i].outcome \in DELIVERY_STOP_OUTCOMES
                               => delivery'[j].outcome \in AckOutcome
        BY <2>1 DEF HardTerminalLast
      <3>1. i \in 1..L /\ delivery'[i] = delivery[i]
        BY <1>2, <2>1
      <3>2. CASE j \in 1..L
        BY <2>1, <3>1, <3>2 DEF HardTerminalLast, L
      <3>3. CASE j = L + 1
        <4>1. delivery[i].of = m /\ delivery'[j].outcome = outcome
          BY <1>1, <2>1, <3>1, <3>3
        <4> QED
          BY <1>5, <3>1, <4>1 DEF Superseded, HasOutcome, EventsOf, L
      <3> QED
        BY <1>2, <3>2, <3>3
    <2> QED
      BY <2>1, <2>2, <2>3
  <1> QED
    BY <1>3, <1>4, <1>5

(* append to the record of handled intents: a call it does not have yet,   *)
(* and applied only past every sequence it has.                            *)
LEMMA HandleKeepsOrder ==
  ASSUME TypeOK, IntentsAppliedInOrder, RunnerKnows, NEW i \in Intent, NEW outcome \in Disposition,
         i.call \notin HandledCalls, Handle(i, outcome),
         outcome = "applied" => \A k \in 1..Len(handled) : handled[k].sequence < i.sequence
  PROVE  /\ handled' \in Seq(HandledRecord) /\ IntentsAppliedInOrder'
         /\ HandledCalls' = HandledCalls \cup {i.call}
         /\ \E k \in 1..Len(handled') :
               \A n \in 1..Len(handled') : handled'[n].sequence <= handled'[k].sequence
  <1> DEFINE x == [call |-> i.call, sequence |-> i.sequence, outcome |-> outcome]
             L == Len(handled)
  <1>1. /\ x \in HandledRecord /\ x.call = i.call /\ x.sequence = i.sequence
        /\ x.outcome = outcome /\ i.sequence \in Nat
    BY DEF HandledRecord, Intent
  <1>2. /\ handled \in Seq(HandledRecord) /\ L \in Nat
        /\ \A k \in 1..L : handled[k].sequence \in Nat
    BY LogsTyped DEF HandledRecord
  <1>3. handled' = Append(handled, x)
    BY DEF Handle
  <1> HIDE DEF x
  <1>4. /\ handled' \in Seq(HandledRecord) /\ Len(handled') = L + 1
        /\ \A k \in 1..L : handled'[k] = handled[k]
        /\ handled'[L + 1] = x
    BY <1>1, <1>2, <1>3, Appended
  <1>5. \A k \in 1..L : handled[k].call # i.call
    BY DEF HandledCalls
  <1>6. handled # <<>> => \E k \in 1..L : \A n \in 1..L : handled[n].sequence <= handled[k].sequence
    BY DEF RunnerKnows
  <1>7. handled = <<>> => L = 0
    OBVIOUS
  <1> HIDE DEF L
  <1>8. IntentsAppliedInOrder'
    <2> SUFFICES ASSUME NEW p \in 1..L + 1, NEW q \in 1..L + 1, p < q
                 PROVE  /\ handled'[p].call # handled'[q].call
                        /\ handled'[q].outcome = "applied"
                             => handled'[p].sequence < handled'[q].sequence
      BY <1>4 DEF IntentsAppliedInOrder
    <2>1. p \in 1..L /\ handled'[p] = handled[p]
      BY <1>2, <1>4
    <2>2. CASE q \in 1..L
      BY <1>4, <2>1, <2>2 DEF IntentsAppliedInOrder, L
    <2>3. CASE q = L + 1
      BY <1>1, <1>4, <1>5, <2>1, <2>3 DEF L
    <2> QED
      BY <1>2, <2>2, <2>3
  <1>9. HandledCalls' = HandledCalls \cup {i.call}
    <2>1. \A c : c \in HandledCalls' <=> c \in HandledCalls \cup {i.call}
      BY <1>1, <1>2, <1>4 DEF HandledCalls, L
    <2> QED
      BY <2>1
  <1>10. \E k \in 1..L + 1 : \A n \in 1..L + 1 : handled'[n].sequence <= handled'[k].sequence
    <2>1. CASE handled = <<>>
      BY <1>1, <1>4, <1>7, <2>1
    <2>2. CASE handled # <<>>
      <3>1. PICK k \in 1..L : \A n \in 1..L : handled[n].sequence <= handled[k].sequence
        BY <1>6, <2>2
      <3>2. \A n \in 1..L + 1 : \/ n \in 1..L /\ handled'[n].sequence = handled[n].sequence
                                \/ n = L + 1 /\ handled'[n].sequence = i.sequence
        BY <1>1, <1>2, <1>4
      <3>3. k \in 1..L + 1 /\ L + 1 \in 1..L + 1 /\ handled[k].sequence \in Nat
        BY <1>2
      <3>4. CASE handled[k].sequence >= i.sequence
        <4>1. \A n \in 1..L + 1 : handled'[n].sequence <= handled'[k].sequence
          BY <1>4, <3>1, <3>2, <3>4
        <4> QED
          BY <3>3, <4>1
      <3>5. CASE handled[k].sequence < i.sequence
        <4>1. \A n \in 1..L + 1 : handled'[n].sequence <= handled'[L + 1].sequence
          <5> TAKE n \in 1..L + 1
          <5>1. CASE n = L + 1
            BY <1>1, <1>4, <5>1
          <5>2. CASE n \in 1..L
            BY <1>1, <1>2, <1>4, <3>1, <3>3, <3>5, <5>2
          <5>3. n = L + 1 \/ n \in 1..L
            BY <1>2
          <5> QED
            BY <5>1, <5>2, <5>3, Zenon
        <4> QED
          BY <3>3, <4>1
      <3>6. handled[k].sequence >= i.sequence \/ handled[k].sequence < i.sequence
        BY <1>1, <3>3
      <3> QED
        BY <3>4, <3>5, <3>6
    <2> QED
      BY <2>1, <2>2
  <1> QED
    BY <1>4, <1>8, <1>9, <1>10

-----------------------------------------------------------------------------
(* What a step does to the logs, the inbox and the intents: one append at  *)
(* most to each, and for a reason.                                         *)
LogEffect ==
    /\ \/ UNCHANGED messages
       \/ \E kind \in {"steer", "ack", "error", "progress"}, m \in Steer \cup {None} :
             /\ Message(kind, m)
             /\ kind = "steer" => m \in Steer
             /\ kind = "ack" => AckAllowed(m)
    /\ \/ UNCHANGED delivery
       \/ \E m \in Steer, o \in OUTCOMES, a \in 0..MaxAttempt :
             /\ RecordDelivery(m, o, a)
             /\ o \in AckOutcome => Acknowledged(m)
             /\ o = "delivered" /\ adapter = "control-file-v1" => m \in inbox
    /\ \/ UNCHANGED handled
       \/ \E i \in intents, o \in Disposition :
             /\ Handle(i, o) /\ i.call \notin HandledCalls
             /\ o = "applied" => \A k \in 1..Len(handled) : handled[k].sequence < i.sequence
    /\ UNCHANGED adapter /\ inbox \subseteq inbox' /\ inbox' \subseteq Steer
    /\ intents \subseteq intents'

LEMMA CallEffects ==
  ASSUME SteeringInv,
         \/ \E s \in Steer : SteerStep(s) \/ DeadlinePasses(s)
         \/ \E h \in HostAck : AckStep(h)
         \/ \E c \in ChildAck : IntentAllocate(c) \/ IntentWrite(c)
         \/ \E h \in Host : HostFetch(h) \/ HostReport(h)
         \/ ExecutorExits
         \/ \E c \in Killable : Kill(c)
         \/ RunnerKilled
  PROVE  LogEffect
  <1> USE DEF LogEffect, logVars, envVars
  <1>0. inbox \subseteq Steer
    BY DEF SteeringInv, AcksRecordedOnce, TypeOK
  <1>1. ASSUME NEW s \in Steer, SteerStep(s) PROVE LogEffect
    <2>1. CASE SteerPersist(s) \/ QueueCheck(s)
      BY <1>0, <2>1 DEF SteerPersist, QueueCheck
    <2>2. CASE SteerAppend(s)
      BY <1>0, <2>2 DEF SteerAppend
    <2>3. CASE QueueAppend(s)
      BY <1>0, <2>3 DEF QueueAppend, OUTCOMES, AckOutcome, MaxAttempt
    <2>4. CASE QueueUnsupported(s)
      BY <1>0, <2>4 DEF QueueUnsupported, OUTCOMES, DELIVERY_STOP_OUTCOMES, AckOutcome, MaxAttempt
    <2> QED
      BY <1>1, <2>1, <2>2, <2>3, <2>4 DEF SteerStep
  <1>2. ASSUME NEW h \in HostAck, AckStep(h) PROVE LogEffect
    <2>1. CASE AckBegin(h) \/ AckCheck(h)
      BY <1>0, <2>1 DEF AckBegin, AckCheck
    <2>2. CASE AckAppend(h)
      BY <1>0, <2>2 DEF AckAppend, SteeringInv, CallsKnown
    <2>3. CASE AckRecord(h)
      BY <1>0, <2>3
      DEF AckRecord, SteeringInv, CallsKnown, OUTCOMES, DELIVERY_STOP_OUTCOMES,
          ACK_TERMINAL_OUTCOMES, AckOutcome, MaxAttempt
    <2> QED
      BY <1>2, <2>1, <2>2, <2>3 DEF AckStep
  <1>3. ASSUME NEW c \in ChildAck, IntentAllocate(c) \/ IntentWrite(c) PROVE LogEffect
    BY <1>0, <1>3 DEF IntentAllocate, IntentWrite
  <1>4. ASSUME NEW h \in Host, HostFetch(h) \/ HostReport(h) PROVE LogEffect
    <2>1. CASE HostFetch(h)
      BY <1>0, <2>1 DEF HostFetch
    <2>2. CASE HostReport(h)
      BY <1>0, <2>2
      DEF HostReport, SteeringInv, CallsKnown, OUTCOMES, DELIVERY_STOP_OUTCOMES, AckOutcome,
          MaxAttempt
    <2> QED
      BY <1>4, <2>1, <2>2
  <1>5. ASSUME NEW s \in Steer, DeadlinePasses(s) PROVE LogEffect
    BY <1>0, <1>5 DEF DeadlinePasses
  <1>6. ASSUME ExecutorExits \/ RunnerKilled \/ \E c \in Killable : Kill(c) PROVE LogEffect
    BY <1>0, <1>6 DEF ExecutorExits, RunnerKilled, Kill
  <1> QED
    BY <1>1, <1>2, <1>3, <1>4, <1>5, <1>6

LEMMA RunnerEffects ==
  ASSUME SteeringInv, RunnerStep
  PROVE  LogEffect
  <1> USE DEF LogEffect, logVars, envVars
  <1>0. inbox \subseteq Steer /\ TypeOK /\ CallsKnown /\ RunnerKnows /\ IntentsNumbered
    BY DEF SteeringInv, AcksRecordedOnce, TypeOK
  <1>1. CASE Poll \/ DrainList \/ DrainDone \/ TurnEnds \/ SealRun \/ DeliverList
             \/ DeliverUnsupported \/ DeliverExternal
    BY <1>0, <1>1 DEF Poll, DrainList, DrainDone, TurnEnds, SealRun, DeliverList,
                      DeliverUnsupported, DeliverExternal
  <1>2. ASSUME NEW i \in queue,
               DrainRefuse(i) \/ DrainProgress(i) \/ DrainDuplicate(i) \/ DrainAccept(i)
        PROVE  LogEffect
    <2>1. i \in intents /\ i \in Intent /\ i.of \in Steer \cup {None} /\ i.call \notin HandledCalls
          /\ i.sequence \in Nat
      BY <1>0 DEF RunnerKnows, IntentsNumbered, WellNumbered, Intent
    <2>2. CASE DrainRefuse(i)
      <3>1. Refusal(i) \in Disposition /\ Refusal(i) # "applied"
        BY <2>2 DEF DrainRefuse, Refusal, Disposition
      <3> QED
        BY <1>0, <2>1, <2>2, <3>1 DEF DrainRefuse
    <2>3. CASE DrainProgress(i)
      <3>1. i.sequence = LastSequence + 1
        BY <2>3, CallAssumption DEF DrainProgress, Refusal, Disposition, CallAssumption
      <3>2. \A k \in 1..Len(handled) : handled[k].sequence < i.sequence
        BY <1>0, <3>1, LastIsLargest, LogsTyped DEF HandledRecord
      <3> QED
        BY <1>0, <2>1, <2>3, <3>2 DEF DrainProgress, Disposition
    <2>4. CASE DrainDuplicate(i)
      BY <1>0, <2>1, <2>4 DEF DrainDuplicate, Disposition
    <2>5. CASE DrainAccept(i)
      BY <1>0, <2>5 DEF DrainAccept
    <2> QED
      BY <1>2, <2>2, <2>3, <2>4, <2>5
  <1>3. CASE DrainAppend \/ DrainRecord
    <2>1. /\ cur \in intents /\ cur.call \notin HandledCalls /\ cur.of \in Steer
          /\ cur.outcome \in AckOutcome
          /\ \A k \in 1..Len(handled) : handled[k].sequence < cur.sequence
      BY <1>0, <1>3 DEF DrainAppend, DrainRecord, RunnerKnows, IntentsNumbered, WellNumbered, Intent
    <2>2. CASE DrainAppend
      BY <1>0, <2>1, <2>2 DEF DrainAppend, Disposition
    <2>3. CASE DrainRecord
      <3>1. Acknowledged(cur.of)
        BY <1>0, <2>3 DEF DrainRecord, RunnerKnows
      <3> QED
        BY <1>0, <2>1, <2>3, <3>1
        DEF DrainRecord, Disposition, OUTCOMES, DELIVERY_STOP_OUTCOMES, ACK_TERMINAL_OUTCOMES,
            AckOutcome, MaxAttempt
    <2> QED
      BY <1>3, <2>2, <2>3
  <1>4. CASE DeliverQueued \/ DeliverStop \/ DeliverExpired \/ DeliverInactive \/ Publish
             \/ PublishFails \/ DeliverRecord
    <2> USE DEF OUTCOMES, DELIVERY_STOP_OUTCOMES, ACK_TERMINAL_OUTCOMES, AckOutcome, MaxAttempt
    <2>1. Subject \in Steer
      <3>1. todo # {}
        BY <1>0, <1>4 DEF DeliverQueued, DeliverStop, DeliverExpired, DeliverInactive, Publish,
                          PublishFails, DeliverRecord, Deliverable, RunnerKnows
      <3> QED
        BY <1>0, <3>1, FirstIsPending
    <2>2. CASE DeliverQueued \/ DeliverStop
      BY <1>0, <2>1, <2>2 DEF DeliverQueued, DeliverStop
    <2>3. CASE DeliverExpired \/ DeliverInactive \/ PublishFails
      BY <1>0, <2>1, <2>3 DEF DeliverExpired, DeliverInactive, PublishFails
    <2>4. CASE Publish
      BY <1>0, <2>1, <2>4 DEF Publish
    <2>5. CASE DeliverRecord
      BY <1>0, <2>1, <2>5 DEF DeliverRecord, RunnerKnows
    <2> QED
      BY <1>4, <2>2, <2>3, <2>4, <2>5
  <1> QED
    BY <1>1, <1>2, <1>3, <1>4 DEF RunnerStep, DrainStep, DeliverStep

(* So the logs stay in order and in agreement, whatever the step.          *)
LEMMA LogsKept ==
  ASSUME SteeringInv, LogEffect
  PROVE  /\ messages' \in Seq(MessageRecord) /\ delivery' \in Seq(DeliveryRecord)
         /\ handled' \in Seq(HandledRecord)
         /\ Len(messages') \in Nat /\ Len(messages) <= Len(messages')
         /\ \A i \in 1..Len(messages) : messages'[i] = messages[i]
         /\ \A i \in 1..Len(messages') : messages'[i].kind = "steer" => messages'[i].of \in Steer
         /\ \A n : Acknowledged(n) => Acknowledged(n)'
         /\ OneAckPerSteer' /\ DispositionHasAck' /\ HardTerminalLast' /\ DeliveredWasPublished'
         /\ IntentsAppliedInOrder'
         /\ handled' # <<>> => \E k \in 1..Len(handled') :
               \A n \in 1..Len(handled') : handled'[n].sequence <= handled'[k].sequence
  <1>0. TypeOK /\ CallsKnown /\ OneAckPerSteer /\ HardTerminalLast /\ DispositionHasAck
        /\ DeliveredWasPublished /\ IntentsAppliedInOrder /\ RunnerKnows /\ IntentsNumbered
    BY DEF SteeringInv, AcksRecordedOnce
  <1> DEFINE MessagesKept ==
               /\ messages' \in Seq(MessageRecord)
               /\ Len(messages') \in Nat /\ Len(messages) <= Len(messages')
               /\ \A i \in 1..Len(messages) : messages'[i] = messages[i]
               /\ \A i \in 1..Len(messages') :
                     messages'[i].kind = "steer" => messages'[i].of \in Steer
               /\ \A n : Acknowledged(n) => Acknowledged(n)'
               /\ OneAckPerSteer'
             DeliveryKept ==
               /\ delivery' \in Seq(DeliveryRecord) /\ HardTerminalLast'
               /\ \A n : HasOutcome(n, AckOutcome)' => HasOutcome(n, AckOutcome) \/ Acknowledged(n)
               /\ adapter = "control-file-v1" =>
                     \A n : HasOutcome(n, {"delivered"})' =>
                              HasOutcome(n, {"delivered"}) \/ n \in inbox
  <1>1. MessagesKept
    <2>1. CASE UNCHANGED messages
      <3>1. messages \in Seq(MessageRecord) /\ Len(messages) \in Nat
        BY <1>0, LogsTyped
      <3>2. OneAckPerSteer' /\ \A n : Acknowledged(n) => Acknowledged(n)'
        BY <1>0, <2>1 DEF OneAckPerSteer, Acknowledged
      <3> QED
        BY <1>0, <2>1, <3>1, <3>2 DEF CallsKnown
    <2>2. ASSUME NEW kind \in {"steer", "ack", "error", "progress"}, NEW m \in Steer \cup {None},
                 Message(kind, m), kind = "steer" => m \in Steer, kind = "ack" => AckAllowed(m)
          PROVE  MessagesKept
      BY <1>0, <2>2, LogsTyped, MessageKeepsLog
    <2> QED
      BY <2>1, <2>2 DEF LogEffect
  <1>2. DeliveryKept
    <2>1. CASE UNCHANGED delivery
      BY <1>0, <2>1, LogsTyped DEF HardTerminalLast, HasOutcome, EventsOf
    <2>2. ASSUME NEW m \in Steer, NEW o \in OUTCOMES, NEW at \in 0..MaxAttempt,
                 RecordDelivery(m, o, at), o \in AckOutcome => Acknowledged(m),
                 o = "delivered" /\ adapter = "control-file-v1" => m \in inbox
          PROVE  DeliveryKept
      <3>1. /\ delivery' \in Seq(DeliveryRecord) /\ HardTerminalLast'
            /\ \A n, S : HasOutcome(n, S)' => HasOutcome(n, S) \/ (n = m /\ o \in S)
        BY <1>0, <2>2, RecordKeepsJournal
      <3>2. \A n : HasOutcome(n, AckOutcome)' => HasOutcome(n, AckOutcome) \/ Acknowledged(n)
        BY <2>2, <3>1
      <3>3. \A n : HasOutcome(n, {"delivered"})' =>
                     HasOutcome(n, {"delivered"}) \/ (n = m /\ o = "delivered")
        BY <3>1
      <3> QED
        BY <2>2, <3>1, <3>2, <3>3
    <2> QED
      BY <2>1, <2>2 DEF LogEffect
  <1>3. DispositionHasAck' /\ DeliveredWasPublished'
    BY <1>0, <1>1, <1>2 DEF LogEffect, DispositionHasAck, DeliveredWasPublished
  <1>4. /\ handled' \in Seq(HandledRecord) /\ IntentsAppliedInOrder'
        /\ handled' # <<>> => \E k \in 1..Len(handled') :
              \A n \in 1..Len(handled') : handled'[n].sequence <= handled'[k].sequence
    <2>1. CASE UNCHANGED handled
      BY <1>0, <2>1, LogsTyped DEF IntentsAppliedInOrder, RunnerKnows
    <2>2. ASSUME NEW i \in intents, NEW o \in Disposition, Handle(i, o), i.call \notin HandledCalls,
                 o = "applied" => \A k \in 1..Len(handled) : handled[k].sequence < i.sequence
          PROVE  /\ handled' \in Seq(HandledRecord) /\ IntentsAppliedInOrder'
                 /\ \E k \in 1..Len(handled') :
                       \A n \in 1..Len(handled') : handled'[n].sequence <= handled'[k].sequence
      <3>1. i \in Intent
        BY <1>0 DEF IntentsNumbered, WellNumbered
      <3> QED
        BY <1>0, <2>2, <3>1, HandleKeepsOrder
    <2> QED
      BY <2>1, <2>2 DEF LogEffect
  <1> QED
    BY <1>1, <1>2, <1>3, <1>4

-----------------------------------------------------------------------------
(* The calls.                                                              *)

PcType == {"idle", "append", "queueCheck", "queue", "check", "queueUnsupported", "record", "write",
           "report", "reported", "done", "dead"}

(* A step moves one call, and leaves the intents alone.                    *)
LEMMA OneCallMoves ==
  ASSUME SteeringInv, LogEffect, UNCHANGED intents, NEW c,
         \A d \in Call \ {c} : pc'[d] = pc[d] /\ arg'[d] = arg[d],
         c \in HostAck =>
            /\ pc'[c] \in {"check", "append", "record"} =>
                  arg'[c].of \in Steer /\ arg'[c].outcome \in AckOutcome
            /\ pc'[c] = "record" => Acknowledged(arg[c].of)',
         c \in Host => (pc'[c] = "report" =>
                            arg'[c].of \in Steer /\ adapter = "external-host-v1"),
         c \in ChildAck =>
            /\ pc[c] # "done"
            /\ pc'[c] = "write" =>
                  WellNumbered(arg'[c], arg'[c].sequence - 1) /\ arg'[c].call = c
  PROVE  CallsKnown' /\ IntentsNumbered'
  <1>1. /\ CallsKnown /\ IntentsNumbered
        /\ \A i \in 1..Len(messages') : messages'[i].kind = "steer" => messages'[i].of \in Steer
        /\ \A n : Acknowledged(n) => Acknowledged(n)'
        /\ UNCHANGED adapter
    BY LogsKept DEF SteeringInv, LogEffect
  <1>2. ASSUME NEW h \in HostAck
        PROVE  /\ pc'[h] \in {"check", "append", "record"} =>
                     arg'[h].of \in Steer /\ arg'[h].outcome \in AckOutcome
               /\ pc'[h] = "record" => Acknowledged(arg[h].of)'
    <2>1. CASE h = c
      BY <2>1
    <2>2. CASE h # c
      <3>1. pc'[h] = pc[h] /\ arg'[h] = arg[h]
        BY <2>2 DEF Call
      <3>2. Acknowledged(arg[h].of) => Acknowledged(arg[h].of)'
        BY <1>1, <3>1 DEF Acknowledged
      <3> QED
        BY <1>1, <3>1, <3>2 DEF CallsKnown
    <2> QED
      BY <2>1, <2>2
  <1>3. ASSUME NEW h \in Host, pc'[h] = "report"
        PROVE  arg'[h].of \in Steer /\ adapter' = "external-host-v1"
    BY <1>1, <1>3 DEF CallsKnown, Call
  <1>4. CallsKnown'
    BY <1>1, <1>2, <1>3 DEF CallsKnown
  <1>5. Allocated' = Allocated /\ \A i, n : WellNumbered(i, n) => WellNumbered(i, n)'
    BY DEF WellNumbered, Allocated
  <1>6. ASSUME NEW d \in ChildAck, pc'[d] = "write"
        PROVE  (WellNumbered(arg[d], arg[d].sequence - 1) /\ arg[d].call = d)'
    <2>1. WellNumbered(arg'[d], arg'[d].sequence - 1) /\ arg'[d].call = d
      <3>1. CASE d = c
        <4>1. c \in ChildAck /\ pc'[c] = "write"
          BY <1>6, <3>1
        <4>2. WellNumbered(arg'[c], arg'[c].sequence - 1) /\ arg'[c].call = c
          BY <4>1
        <4> QED
          BY <3>1, <4>2
      <3>2. CASE d # c
        <4>1. pc'[d] = pc[d] /\ arg'[d] = arg[d]
          BY <3>2 DEF Call
        <4> QED
          BY <1>1, <1>6, <4>1 DEF IntentsNumbered
      <3> QED
        BY <3>1, <3>2
    <2> QED
      BY <2>1 DEF WellNumbered, Allocated
  <1>7. ASSUME NEW i \in intents'
        PROVE  (WellNumbered(i, i.sequence) /\ pc[i.call] = "done")'
    <2>1. WellNumbered(i, i.sequence) /\ pc[i.call] = "done" /\ i.call \in ChildAck
      BY <1>1, <1>7 DEF IntentsNumbered, WellNumbered, Intent
    <2>2. pc'[i.call] = pc[i.call]
      <3>1. c \in ChildAck => pc[c] # "done"
        OBVIOUS
      <3>2. i.call # c
        BY <2>1, <3>1
      <3> QED
        BY <2>1, <3>2 DEF Call
    <2>3. WellNumbered(i, i.sequence)'
      BY <2>1 DEF WellNumbered, Allocated
    <2> QED
      BY <2>1, <2>2, <2>3
  <1>8. IsFiniteSet(intents') /\ \A i, j \in intents' : i.call = j.call => i = j
    BY <1>1 DEF IntentsNumbered
  <1> QED
    BY <1>4, <1>6, <1>7, <1>8 DEF IntentsNumbered

(* The steps of calls, the writing of an intent apart.                     *)
LEMMA CallsKept ==
  ASSUME SteeringInv, LogEffect,
         \/ \E s \in Steer : SteerStep(s)
         \/ \E h \in HostAck : AckStep(h)
         \/ \E c \in ChildAck : IntentAllocate(c)
         \/ \E h \in Host : HostFetch(h) \/ HostReport(h)
         \/ \E c \in Killable : Kill(c)
  PROVE  CallsKnown' /\ IntentsNumbered'
  <1>1. pc \in [Call -> PcType] /\ arg \in [Call -> Target \cup Intent \cup {None}]
    BY DEF SteeringInv, AcksRecordedOnce, TypeOK, PcType
  <1>2. CallsKnown /\ IntentsNumbered
    BY DEF SteeringInv
  <1> USE CallAssumption DEF CallAssumption, Call, Goto, logVars
  <1>3. ASSUME NEW s \in Steer, SteerStep(s) PROVE CallsKnown' /\ IntentsNumbered'
    <2>1. UNCHANGED intents /\ \A d \in Call \ {s} : pc'[d] = pc[d] /\ arg'[d] = arg[d]
      BY <1>1, <1>3 DEF SteerStep, SteerPersist, SteerAppend, QueueCheck, QueueAppend,
                        QueueUnsupported
    <2>2. s \notin HostAck /\ s \notin Host /\ s \notin ChildAck
      OBVIOUS
    <2> QED
      BY <2>1, <2>2, OneCallMoves
  <1>4. ASSUME NEW h \in HostAck, AckStep(h) PROVE CallsKnown' /\ IntentsNumbered'
    <2>1. UNCHANGED intents /\ \A d \in Call \ {h} : pc'[d] = pc[d] /\ arg'[d] = arg[d]
      BY <1>1, <1>4 DEF AckStep, AckBegin, AckCheck, AckAppend, AckRecord
    <2>2. h \notin Host /\ h \notin ChildAck
      OBVIOUS
    <2>3. /\ pc'[h] \in {"check", "append", "record"} =>
                arg'[h].of \in Steer /\ arg'[h].outcome \in AckOutcome
          /\ pc'[h] = "record" => Acknowledged(arg[h].of)'
      <3>1. CASE AckBegin(h)
        BY <1>1, <3>1 DEF AckBegin
      <3>2. CASE AckCheck(h)
        BY <1>1, <1>2, <3>2 DEF AckCheck, CallsKnown
      <3>3. CASE AckAppend(h)
        <4>1. arg'[h] = arg[h] /\ arg[h].of \in Steer /\ arg[h].outcome \in AckOutcome
          BY <1>2, <3>3 DEF AckAppend, CallsKnown
        <4>2. pc'[h] = "record" => AckAllowed(arg[h].of) /\ Message("ack", arg[h].of)
          BY <1>1, <3>3 DEF AckAppend
        <4>3. AckAllowed(arg[h].of) /\ Message("ack", arg[h].of) => Acknowledged(arg[h].of)'
          <5>1. TypeOK /\ OneAckPerSteer
            BY DEF SteeringInv, AcksRecordedOnce
          <5> DEFINE m == arg[h].of
          <5> HIDE DEF m
          <5>2. ASSUME AckAllowed(m), Message("ack", m)
                PROVE  \E i \in 1..Len(messages') : messages'[i].kind = "ack" /\ messages'[i].of = m
            BY <1>2, <4>1, <5>1, <5>2, MessageKeepsLog DEF m, Acknowledged
          <5> QED
            BY <4>1, <5>2 DEF m, Acknowledged
        <4> QED
          BY <4>1, <4>2, <4>3
      <3>4. CASE AckRecord(h)
        BY <1>1, <3>4 DEF AckRecord
      <3> QED
        BY <1>4, <3>1, <3>2, <3>3, <3>4 DEF AckStep
    <2> QED
      BY <2>1, <2>2, <2>3, OneCallMoves
  <1>5. ASSUME NEW c \in ChildAck, IntentAllocate(c) PROVE CallsKnown' /\ IntentsNumbered'
    <2>1. UNCHANGED intents /\ \A d \in Call \ {c} : pc'[d] = pc[d] /\ arg'[d] = arg[d]
      BY <1>1, <1>5 DEF IntentAllocate
    <2>2. c \notin Host /\ c \notin HostAck /\ pc[c] # "done"
      BY <1>5 DEF IntentAllocate
    <2>3. PICK m \in Steer \cup {None}, o \in AckOutcome \cup {"progress"} :
             /\ m = None <=> o = "progress"
             /\ arg' = [arg EXCEPT ![c] = [of |-> m, outcome |-> o,
                                          sequence |-> NextSequence, call |-> c]]
      BY <1>5 DEF IntentAllocate
    <2> DEFINE i == [of |-> m, outcome |-> o, sequence |-> NextSequence, call |-> c]
    <2>4. arg'[c] = i
      BY <1>1, <2>3
    <2>5. NextSequence \in Nat /\ NextSequence >= 1 /\ 1..(NextSequence - 1) \subseteq Allocated
      BY <1>2, NextSequenceExists
    <2>6. i \in Intent /\ i.sequence = NextSequence /\ i.of = m /\ i.outcome = o /\ i.call = c
      BY <2>5 DEF Intent
    <2> HIDE DEF i
    <2>7. WellNumbered(i, i.sequence - 1) /\ i.call = c
      BY <2>3, <2>5, <2>6 DEF WellNumbered
    <2> QED
      BY <2>1, <2>2, <2>4, <2>7, OneCallMoves
  <1>6. ASSUME NEW h \in Host, HostFetch(h) \/ HostReport(h) PROVE CallsKnown' /\ IntentsNumbered'
    <2>1. UNCHANGED intents /\ \A d \in Call \ {h} : pc'[d] = pc[d] /\ arg'[d] = arg[d]
      BY <1>1, <1>6 DEF HostFetch, HostReport
    <2>2. h \notin HostAck /\ h \notin ChildAck
      OBVIOUS
    <2>3. pc'[h] = "report" => arg'[h].of \in Steer /\ adapter = "external-host-v1"
      BY <1>1, <1>6 DEF HostFetch, HostReport
    <2> QED
      BY <2>1, <2>2, <2>3, OneCallMoves
  <1>7. ASSUME NEW c \in Killable, Kill(c) PROVE CallsKnown' /\ IntentsNumbered'
    <2>1. UNCHANGED intents /\ \A d \in Call \ {c} : pc'[d] = pc[d] /\ arg'[d] = arg[d]
      BY <1>1, <1>7 DEF Kill
    <2>2. pc'[c] = "dead" /\ pc[c] # "done"
      BY <1>1, <1>7 DEF Kill
    <2> QED
      BY <2>1, <2>2, OneCallMoves
  <1> QED
    BY <1>3, <1>4, <1>5, <1>6, <1>7

(* A written intent: the number under which it is written is one past      *)
(* those below it.                                                         *)
LEMMA IntentKept ==
  ASSUME SteeringInv, LogEffect, NEW c \in ChildAck, IntentWrite(c)
  PROVE  CallsKnown' /\ IntentsNumbered'
  <1>1. pc \in [Call -> PcType] /\ arg \in [Call -> Target \cup Intent \cup {None}]
    BY DEF SteeringInv, AcksRecordedOnce, TypeOK, PcType
  <1>2. CallsKnown /\ IntentsNumbered
    BY DEF SteeringInv
  <1>3. /\ intents' = intents \cup {arg[c]} /\ UNCHANGED <<messages, adapter>>
        /\ \A d \in Call \ {c} : pc'[d] = pc[d] /\ arg'[d] = arg[d]
        /\ pc[c] = "write" /\ pc'[c] = "done"
    BY <1>1 DEF IntentWrite, Goto, envVars, Call
  <1>4. c \notin Host /\ c \notin HostAck
    BY CallAssumption DEF CallAssumption
  <1>5. CallsKnown'
    <2>1. \A d \in HostAck \cup Host : pc'[d] = pc[d] /\ arg'[d] = arg[d]
      BY <1>3, <1>4 DEF Call
    <2> QED
      BY <1>2, <1>3, <2>1 DEF CallsKnown, Acknowledged
  <1>6. /\ WellNumbered(arg[c], arg[c].sequence - 1) /\ arg[c].call = c
        /\ arg[c].sequence \in Nat /\ arg[c].sequence >= 1
    BY <1>2, <1>3 DEF IntentsNumbered, WellNumbered, Intent
  <1>7. Allocated \subseteq Allocated' /\ arg[c].sequence \in Allocated'
    BY <1>3 DEF Allocated
  <1>8. 1..arg[c].sequence \subseteq Allocated'
    <2> SUFFICES ASSUME NEW n \in 1..arg[c].sequence PROVE n \in Allocated'
      OBVIOUS
    <2>1. CASE n = arg[c].sequence
      BY <1>7, <2>1
    <2>2. CASE n \in 1..(arg[c].sequence - 1)
      BY <1>6, <1>7, <2>2 DEF WellNumbered
    <2> QED
      BY <1>6, <2>1, <2>2
  <1>9. \A i \in intents : i.call # c /\ i.call \in ChildAck /\ pc'[i.call] = "done"
    BY <1>2, <1>3 DEF IntentsNumbered, WellNumbered, Intent, Call
  <1>10. \A i \in intents' : (WellNumbered(i, i.sequence) /\ pc[i.call] = "done")'
    <2> SUFFICES ASSUME NEW i \in intents'
                 PROVE  WellNumbered(i, i.sequence)' /\ pc'[i.call] = "done"
      OBVIOUS
    <2>1. CASE i \in intents
      BY <1>2, <1>7, <1>9, <2>1 DEF IntentsNumbered, WellNumbered
    <2>2. CASE i = arg[c]
      BY <1>3, <1>6, <1>8, <2>2 DEF WellNumbered
    <2> QED
      BY <1>3, <2>1, <2>2
  <1>11. \A i, j \in intents' : i.call = j.call => i = j
    BY <1>2, <1>3, <1>6, <1>9 DEF IntentsNumbered
  <1>12. IsFiniteSet(intents')
    BY <1>2, <1>3, FS_AddElement DEF IntentsNumbered
  <1>13. ASSUME NEW d \in ChildAck, pc'[d] = "write"
         PROVE  (WellNumbered(arg[d], arg[d].sequence - 1) /\ arg[d].call = d)'
    <2>1. pc'[d] = pc[d] /\ arg'[d] = arg[d]
      BY <1>3, <1>13 DEF Call
    <2>2. WellNumbered(arg[d], arg[d].sequence - 1) /\ arg[d].call = d
      BY <1>2, <1>13, <2>1 DEF IntentsNumbered
    <2> QED
      BY <1>7, <2>1, <2>2 DEF WellNumbered
  <1> QED
    BY <1>5, <1>10, <1>11, <1>12, <1>13 DEF IntentsNumbered

(* A step of the runner or of the environment moves no call.               *)
LEMMA NoCallMoves ==
  ASSUME SteeringInv, LogEffect, UNCHANGED <<pc, arg, intents>>
  PROVE  CallsKnown' /\ IntentsNumbered'
  <1>1. /\ CallsKnown /\ IntentsNumbered
        /\ \A i \in 1..Len(messages') : messages'[i].kind = "steer" => messages'[i].of \in Steer
        /\ \A n : Acknowledged(n) => Acknowledged(n)'
        /\ UNCHANGED adapter
    BY LogsKept DEF SteeringInv, LogEffect
  <1>2. CallsKnown'
    BY <1>1 DEF CallsKnown, Acknowledged
  <1>3. IntentsNumbered'
    BY <1>1 DEF IntentsNumbered, WellNumbered, Allocated
  <1> QED
    BY <1>2, <1>3

-----------------------------------------------------------------------------
(* The runner.                                                             *)

(* The first request of the pass stays the same while the log grows.       *)
LEMMA SubjectStays ==
  ASSUME SteeringInv, LogEffect, UNCHANGED todo, todo # {}
  PROVE  Subject' = Subject
  <1>1. First \in 1..Len(messages)
    BY FirstIsPending DEF SteeringInv, AcksRecordedOnce
  <1>2. First' = First
    BY DEF First
  <1> QED
    BY <1>1, <1>2, LogsKept DEF Subject

(* A step of somebody else.                                                *)
LEMMA RunnerUndisturbed ==
  ASSUME SteeringInv, LogEffect, UNCHANGED <<queue, todo, cur, handled>>,
         rpc' \in {rpc, "dead"}
  PROVE  RunnerKnows'
  <1>1. RunnerKnows /\ \A n : Acknowledged(n) => Acknowledged(n)'
    BY LogsKept DEF SteeringInv
  <1>2. HandledCalls' = HandledCalls /\ inbox \subseteq inbox' /\ intents \subseteq intents'
    BY DEF HandledCalls, LogEffect
  <1>3. rpc' = "drainRecord" => Acknowledged(cur.of)'
    BY <1>1 DEF RunnerKnows, Acknowledged
  <1>4. rpc' = "deliverRecord" => Subject' \in inbox'
    BY <1>1, <1>2, SubjectStays DEF RunnerKnows
  <1> QED
    BY <1>1, <1>2, <1>3, <1>4 DEF RunnerKnows

(* Handling an intent adds its call and no other.                          *)
LEMMA HandledGrows ==
  ASSUME TypeOK, NEW i, NEW o, Handle(i, o)
  PROVE  \A c \in HandledCalls' : c \in HandledCalls \cup {i.call}
  <1>1. handled \in Seq(HandledRecord)
    BY LogsTyped
  <1>2. /\ Len(handled) \in Nat /\ Len(handled') = Len(handled) + 1
        /\ \A k \in 1..Len(handled) : handled'[k] = handled[k]
        /\ handled'[Len(handled) + 1].call = i.call
    BY <1>1 DEF Handle
  <1> QED
    BY <1>2 DEF HandledCalls

(* Reading the bridge.                                                     *)
LEMMA DrainKnows ==
  ASSUME SteeringInv, LogEffect, Poll \/ DrainStep
  PROVE  RunnerKnows'
  <1>0. /\ TypeOK /\ RunnerKnows /\ IntentsNumbered
        /\ \A n : Acknowledged(n) => Acknowledged(n)'
        /\ handled' # <<>> => \E k \in 1..Len(handled') :
              \A n \in 1..Len(handled') : handled'[n].sequence <= handled'[k].sequence
    BY LogsKept DEF SteeringInv, AcksRecordedOnce
  <1>h. UNCHANGED handled => HandledCalls' = HandledCalls
    BY DEF HandledCalls
  <1> USE DEF logVars
  <1>1. CASE Poll \/ DrainDone
    BY <1>0, <1>1, <1>h DEF Poll, DrainDone, RunnerKnows
  <1>2. CASE DrainList
    BY <1>0, <1>2, <1>h DEF DrainList, RunnerKnows
  <1>3. ASSUME NEW i \in queue, DrainRefuse(i) \/ DrainProgress(i) \/ DrainDuplicate(i)
        PROVE  RunnerKnows'
    <2>1. \E o : Handle(i, o)
      BY <1>3 DEF DrainRefuse, DrainProgress, DrainDuplicate
    <2>2. \A c \in HandledCalls' : c \in HandledCalls \cup {i.call}
      BY <1>0, <2>1, HandledGrows
    <2>3. rpc' = "drainEach" /\ queue' = queue \ {i} /\ UNCHANGED intents
      BY <1>3 DEF DrainRefuse, DrainProgress, DrainDuplicate
    <2>4. \A j \in queue' : j \in intents /\ j.call \notin HandledCalls'
      BY <1>0, <2>2, <2>3 DEF RunnerKnows, IntentsNumbered
    <2> QED
      BY <1>0, <2>3, <2>4 DEF RunnerKnows
  <1>4. ASSUME NEW i \in queue, DrainAccept(i) PROVE RunnerKnows'
    <2>1. i \in intents /\ i.call \notin HandledCalls /\ i.sequence \in Nat
      BY <1>0 DEF RunnerKnows, IntentsNumbered, WellNumbered, Intent
    <2>2. i.sequence = LastSequence + 1
      BY <1>4, CallAssumption DEF DrainAccept, Refusal, Disposition, CallAssumption
    <2>3. \A k \in 1..Len(handled) : handled[k].sequence < i.sequence
      BY <1>0, <2>2, LastIsLargest, LogsTyped DEF HandledRecord
    <2> QED
      BY <1>0, <1>4, <1>h, <2>1, <2>3 DEF DrainAccept, RunnerKnows
  <1>5. CASE DrainAppend
    <2>1. /\ cur \in intents \ queue /\ cur.of # None /\ cur.call \notin HandledCalls
          /\ \A k \in 1..Len(handled) : handled[k].sequence < cur.sequence
      BY <1>0, <1>5 DEF DrainAppend, RunnerKnows
    <2>2. UNCHANGED <<queue, intents>>
      BY <1>5 DEF DrainAppend
    <2>3. CASE AckAllowed(cur.of)
      <3>1. rpc' = "drainRecord" /\ UNCHANGED <<handled, cur>> /\ Message("ack", cur.of)
        BY <1>5, <2>3 DEF DrainAppend
      <3>2. Acknowledged(cur.of)'
        <4> DEFINE m == cur.of
        <4>1. m \in Steer \cup {None}
          BY <1>0, <2>1 DEF IntentsNumbered, WellNumbered, Intent
        <4>2. TypeOK /\ OneAckPerSteer /\ CallsKnown
          BY DEF SteeringInv, AcksRecordedOnce
        <4> HIDE DEF m
        <4>3. \E k \in 1..Len(messages') : messages'[k].kind = "ack" /\ messages'[k].of = m
          BY <2>3, <3>1, <4>1, <4>2, MessageKeepsLog DEF m, Acknowledged
        <4> QED
          BY <3>1, <4>3 DEF m, Acknowledged
      <3> QED
        BY <1>0, <1>h, <2>1, <2>2, <3>1, <3>2 DEF RunnerKnows
    <2>4. CASE ~AckAllowed(cur.of)
      <3>1. rpc' = "drainEach" /\ Handle(cur, "conflict")
        BY <1>5, <2>4 DEF DrainAppend
      <3>2. \A c \in HandledCalls' : c \in HandledCalls \cup {cur.call}
        BY <1>0, <3>1, HandledGrows
      <3> QED
        BY <1>0, <2>1, <2>2, <3>1, <3>2 DEF RunnerKnows, IntentsNumbered
    <2> QED
      BY <2>3, <2>4
  <1>6. CASE DrainRecord
    <2>1. /\ rpc' = "drainEach" /\ Handle(cur, "applied") /\ UNCHANGED <<queue, intents>>
          /\ cur \in intents \ queue
      BY <1>0, <1>6 DEF DrainRecord, RunnerKnows
    <2>2. \A c \in HandledCalls' : c \in HandledCalls \cup {cur.call}
      BY <1>0, <2>1, HandledGrows
    <2> QED
      BY <1>0, <2>1, <2>2 DEF RunnerKnows, IntentsNumbered
  <1> QED
    BY <1>1, <1>2, <1>3, <1>4, <1>5, <1>6 DEF DrainStep

(* Delivering.                                                             *)
LEMMA DeliverKnows ==
  ASSUME SteeringInv, LogEffect, DeliverStep \/ TurnEnds \/ SealRun
  PROVE  RunnerKnows'
  <1>0. TypeOK /\ RunnerKnows
    BY DEF SteeringInv, AcksRecordedOnce
  <1> USE DEF logVars
  <1>1. UNCHANGED <<handled, intents, queue>> /\ HandledCalls' = HandledCalls
    BY DEF DeliverStep, TurnEnds, SealRun, DeliverList, DeliverUnsupported, DeliverQueued,
           DeliverStop, DeliverExpired, DeliverInactive, DeliverExternal, Publish, PublishFails,
           DeliverRecord, HandledCalls
  <1>2. CASE rpc' \in {"deliver", "deliverEach", "poll", "drain", "seal", "done"}
    BY <1>0, <1>1, <1>2 DEF RunnerKnows
  <1>3. CASE DeliverUnsupported \/ DeliverQueued
    <2>1. (todo' # {} /\ rpc' \in {"deliverQueue", "deliverStop"}) \/ rpc' = "deliverEach"
      BY <1>0, <1>3 DEF DeliverUnsupported, DeliverQueued, RunnerKnows
    <2> QED
      BY <1>0, <1>1, <2>1 DEF RunnerKnows
  <1>4. CASE Publish
    <2>1. /\ rpc' = "deliverRecord" /\ todo # {} /\ UNCHANGED <<todo, messages>>
          /\ Subject \in inbox'
      BY <1>4 DEF Publish, Deliverable
    <2>2. Subject' = Subject
      BY <2>1 DEF Subject, First
    <2> QED
      BY <1>0, <1>1, <2>1, <2>2 DEF RunnerKnows
  <1>5. ~(DeliverUnsupported \/ DeliverQueued \/ Publish) =>
           rpc' \in {"deliver", "deliverEach", "poll", "drain", "seal", "done"}
    BY DEF DeliverStep, TurnEnds, SealRun, DeliverList, DeliverStop, DeliverExpired,
           DeliverInactive, DeliverExternal, PublishFails, DeliverRecord, Deliverable
  <1> QED
    BY <1>2, <1>3, <1>4, <1>5

-----------------------------------------------------------------------------
(* The schemas.  The logs apart, each part of the state is written by few. *)
RpcType == {"poll", "drain", "drainEach", "drainAppend", "drainRecord", "deliver", "deliverEach",
            "deliverQueue", "deliverStop", "deliverRecord", "seal", "done", "dead"}

(* Of the calls: pc and arg; they leave the rest alone.                    *)
LEMMA CallTypes ==
  ASSUME SteeringInv,
         \/ \E s \in Steer : SteerStep(s)
         \/ \E h \in HostAck : AckStep(h)
         \/ \E c \in ChildAck : IntentAllocate(c) \/ IntentWrite(c)
         \/ \E h \in Host : HostFetch(h) \/ HostReport(h)
  PROVE  /\ pc' \in [Call -> PcType] /\ arg' \in [Call -> Target \cup Intent \cup {None}]
         /\ UNCHANGED <<late, executor, sealed, runnerVars>>
  <1>0. pc \in [Call -> PcType] /\ arg \in [Call -> Target \cup Intent \cup {None}]
    BY DEF SteeringInv, AcksRecordedOnce, TypeOK, PcType
  <1> USE DEF envVars, Goto
  <1>1. ASSUME NEW s \in Steer, SteerStep(s)
        PROVE  pc' \in [Call -> PcType] /\ UNCHANGED <<arg, late, executor, sealed, runnerVars>>
    BY <1>0, <1>1 DEF SteerStep, SteerPersist, SteerAppend, QueueCheck, QueueAppend,
                      QueueUnsupported, PcType
  <1>2. ASSUME NEW h \in HostAck, AckStep(h)
        PROVE  /\ pc' \in [Call -> PcType] /\ arg' \in [Call -> Target \cup Intent \cup {None}]
               /\ UNCHANGED <<late, executor, sealed, runnerVars>>
    <2>1. pc' \in [Call -> PcType] /\ UNCHANGED <<late, executor, sealed, runnerVars>>
      BY <1>0, <1>2 DEF AckStep, AckBegin, AckCheck, AckAppend, AckRecord, PcType
    <2>2. \/ UNCHANGED arg
          \/ \E m \in Steer, o \in AckOutcome : arg' = [arg EXCEPT ![h] = [of |-> m, outcome |-> o]]
      BY <1>2 DEF AckStep, AckBegin, AckCheck, AckAppend, AckRecord
    <2>3. \A m \in Steer, o \in AckOutcome : [of |-> m, outcome |-> o] \in Target
      BY DEF Target, OUTCOMES, DELIVERY_STOP_OUTCOMES, ACK_TERMINAL_OUTCOMES, AckOutcome
    <2> QED
      BY <1>0, <2>1, <2>2, <2>3
  <1>3. ASSUME NEW c \in ChildAck, IntentAllocate(c) \/ IntentWrite(c)
        PROVE  /\ pc' \in [Call -> PcType] /\ arg' \in [Call -> Target \cup Intent \cup {None}]
               /\ UNCHANGED <<late, executor, sealed, runnerVars>>
    <2>1. pc' \in [Call -> PcType] /\ UNCHANGED <<late, executor, sealed, runnerVars>>
      BY <1>0, <1>3 DEF IntentAllocate, IntentWrite, PcType
    <2>2. \/ arg' = [arg EXCEPT ![c] = None]
          \/ \E m \in Steer \cup {None}, o \in AckOutcome \cup {"progress"} :
                arg' = [arg EXCEPT ![c] = [of |-> m, outcome |-> o,
                                           sequence |-> NextSequence, call |-> c]]
      BY <1>3 DEF IntentAllocate, IntentWrite
    <2>3. NextSequence \in Nat
      BY NextSequenceExists DEF SteeringInv
    <2>4. \A m \in Steer \cup {None}, o \in AckOutcome \cup {"progress"} :
             [of |-> m, outcome |-> o, sequence |-> NextSequence, call |-> c] \in Intent
      BY <2>3 DEF Intent
    <2> QED
      BY <1>0, <2>1, <2>2, <2>4
  <1>4. ASSUME NEW h \in Host, HostFetch(h) \/ HostReport(h)
        PROVE  /\ pc' \in [Call -> PcType] /\ arg' \in [Call -> Target \cup Intent \cup {None}]
               /\ UNCHANGED <<late, executor, sealed, runnerVars>>
    <2>1. pc' \in [Call -> PcType] /\ UNCHANGED <<late, executor, sealed, runnerVars>>
      BY <1>0, <1>4 DEF HostFetch, HostReport, PcType
    <2>2. \/ UNCHANGED arg
          \/ \E m \in Steer : arg' = [arg EXCEPT ![h] = [of |-> m, outcome |-> "delivered"]]
      BY <1>4 DEF HostFetch, HostReport
    <2>3. \A m \in Steer : [of |-> m, outcome |-> "delivered"] \in Target
      BY DEF Target, OUTCOMES
    <2> QED
      BY <1>0, <2>1, <2>2, <2>3
  <1> QED
    BY <1>0, <1>1, <1>2, <1>3, <1>4

(* Of the runner: its own variables and the seal.                          *)
LEMMA RunnerTypes ==
  ASSUME SteeringInv, RunnerStep
  PROVE  /\ UNCHANGED <<pc, arg, intents, late, executor>> /\ sealed' \in BOOLEAN
         /\ rpc' \in RpcType /\ phase' \in {"loop", "final"} /\ active' \in BOOLEAN
         /\ cur' \in Intent \cup {None}
         /\ todo' \subseteq {i \in 1..Len(messages) : messages[i].kind = "steer"}
  <1>0. TypeOK /\ RunnerKnows /\ IntentsNumbered
    BY DEF SteeringInv, AcksRecordedOnce
  <1> USE DEF envVars, callVars, logVars, RpcType
  <1>1. CASE Poll \/ TurnEnds \/ SealRun
    BY <1>0, <1>1 DEF Poll, TurnEnds, SealRun, TypeOK
  <1>2. CASE DrainList \/ DrainDone \/ DrainRecord
    BY <1>0, <1>2 DEF DrainList, DrainDone, DrainRecord, TypeOK
  <1>3. CASE DrainAppend
    BY <1>0, <1>3 DEF DrainAppend, TypeOK
  <1>4. ASSUME NEW i \in queue, DrainRefuse(i) \/ DrainProgress(i) \/ DrainDuplicate(i)
        PROVE  UNCHANGED <<pc, arg, intents, late, executor, sealed, rpc, phase, active, cur, todo>>
    BY <1>4 DEF DrainRefuse, DrainProgress, DrainDuplicate
  <1>5. ASSUME NEW i \in queue, DrainAccept(i)
        PROVE  /\ UNCHANGED <<pc, arg, intents, late, executor, sealed, phase, active, todo>>
               /\ rpc' \in RpcType /\ cur' \in Intent
    BY <1>0, <1>5 DEF DrainAccept, TypeOK
  <1>6. CASE DeliverList
    BY <1>0, <1>6 DEF DeliverList, Undelivered, TypeOK
  <1>7. CASE DeliverStep /\ ~DeliverList
    <2>1. /\ UNCHANGED <<pc, arg, intents, late, executor, sealed, phase, active, cur>>
          /\ todo' \subseteq todo
      BY <1>7 DEF DeliverStep, DeliverUnsupported, DeliverQueued, DeliverStop, DeliverExpired,
                  DeliverInactive, DeliverExternal, Publish, PublishFails, DeliverRecord
    <2>2. rpc' \in RpcType
      BY <1>0, <1>7 DEF DeliverStep, DeliverUnsupported, DeliverQueued, DeliverStop, DeliverExpired,
                  DeliverInactive, DeliverExternal, Publish, PublishFails, DeliverRecord, TypeOK
    <2> QED
      BY <1>0, <2>1, <2>2 DEF TypeOK
  <1> QED
    BY <1>0, <1>1, <1>2, <1>3, <1>4, <1>5, <1>6, <1>7 DEF RunnerStep, DrainStep, TypeOK

LEMMA TypesKept ==
  ASSUME SteeringInv, Next, LogEffect, IntentsNumbered', RunnerKnows'
  PROVE  TypeOK'
  <1>0. TypeOK
    BY DEF SteeringInv, AcksRecordedOnce
  <1>1. /\ messages' \in Seq([kind : {"steer", "ack", "error", "progress"},
                              of : Steer \cup {None}])
        /\ delivery' \in Seq([of : Steer, outcome : OUTCOMES, attempt : 0..MaxAttempt])
        /\ handled' \in Seq([call : ChildAck, sequence : Nat, outcome : Disposition])
    BY LogsKept DEF MessageRecord, DeliveryRecord, HandledRecord
  <1>2. inbox' \subseteq Steer /\ adapter' \in Adapters
    BY <1>0 DEF LogEffect, TypeOK
  <1>3. intents' \subseteq Intent
    BY DEF IntentsNumbered, WellNumbered
  <1>4. queue' \subseteq Intent
    BY <1>3 DEF RunnerKnows
  <1>5. \A T : T \subseteq {i \in 1..Len(messages) : messages[i].kind = "steer"} =>
              T \subseteq {i \in 1..Len(messages') : messages'[i].kind = "steer"}
    <2>1. Len(messages) \in Nat
      BY <1>0, LogsTyped
    <2> QED
      BY <2>1, LogsKept
  <1>6. ASSUME \/ \E s \in Steer : SteerStep(s)
               \/ \E h \in HostAck : AckStep(h)
               \/ \E c \in ChildAck : IntentAllocate(c) \/ IntentWrite(c)
               \/ \E h \in Host : HostFetch(h) \/ HostReport(h)
        PROVE  TypeOK'
    <2>1. /\ pc' \in [Call -> PcType] /\ arg' \in [Call -> Target \cup Intent \cup {None}]
          /\ UNCHANGED <<late, executor, sealed, runnerVars>>
      BY <1>6, CallTypes
    <2> QED
      BY <1>0, <1>1, <1>2, <1>3, <1>4, <1>5, <2>1 DEF TypeOK, PcType, runnerVars
  <1>7. CASE RunnerStep
    <2>1. /\ UNCHANGED <<pc, arg, intents, late, executor>> /\ sealed' \in BOOLEAN
          /\ rpc' \in RpcType /\ phase' \in {"loop", "final"} /\ active' \in BOOLEAN
          /\ cur' \in Intent \cup {None}
          /\ todo' \subseteq {i \in 1..Len(messages) : messages[i].kind = "steer"}
      BY <1>7, RunnerTypes
    <2> QED
      BY <1>0, <1>1, <1>2, <1>3, <1>4, <1>5, <2>1 DEF TypeOK, RpcType
  <1>8. ASSUME \/ \E s \in Steer : DeadlinePasses(s)
               \/ ExecutorExits \/ RunnerKilled
               \/ \E c \in Killable : Kill(c)
        PROVE  TypeOK'
    <2>1. /\ late' \subseteq Steer /\ executor' \in {"running", "exited"} /\ sealed' \in BOOLEAN
          /\ pc' \in [Call -> PcType] /\ rpc' \in RpcType
          /\ UNCHANGED <<arg, phase, active, todo, cur>>
      BY <1>0, <1>8 DEF DeadlinePasses, ExecutorExits, RunnerKilled, Kill, Goto, TypeOK, PcType,
                        RpcType, callVars, runnerVars, envVars
    <2> QED
      BY <1>0, <1>1, <1>2, <1>3, <1>4, <1>5, <2>1 DEF TypeOK, PcType, RpcType
  <1> QED
    BY <1>6, <1>7, <1>8 DEF Next

-----------------------------------------------------------------------------
(* The invariant.                                                          *)
LEMMA SteeringStarts == Init => SteeringInv
  <1> SUFFICES ASSUME Init PROVE SteeringInv
    OBVIOUS
  <1>1. TypeOK
    <2>1. pc \in [Call -> PcType] /\ arg \in [Call -> Target \cup Intent \cup {None}]
      BY DEF Init, PcType
    <2>2. messages = <<>> /\ delivery = <<>> /\ handled = <<>>
      BY DEF Init
    <2>3. /\ messages \in Seq([kind : {"steer", "ack", "error", "progress"}, of : Steer \cup {None}])
          /\ delivery \in Seq([of : Steer, outcome : OUTCOMES, attempt : 0..MaxAttempt])
          /\ handled \in Seq([call : ChildAck, sequence : Nat, outcome : Disposition])
      BY <2>2
    <2> QED
      BY <2>1, <2>3 DEF Init, TypeOK, PcType
  <1>2. DispositionHasAck /\ OneAckPerSteer /\ HardTerminalLast /\ DeliveredWasPublished
        /\ IntentsAppliedInOrder
    BY DEF Init, DispositionHasAck, OneAckPerSteer, HardTerminalLast, DeliveredWasPublished,
           IntentsAppliedInOrder, HasOutcome, EventsOf
  <1>3. CallsKnown
    BY DEF Init, CallsKnown, Call
  <1>4. IntentsNumbered
    <2>1. IsFiniteSet(intents)
      BY FS_EmptySet DEF Init
    <2> QED
      BY <2>1 DEF Init, IntentsNumbered, Call
  <1>5. RunnerKnows
    BY DEF Init, RunnerKnows
  <1> QED
    BY <1>1, <1>2, <1>3, <1>4, <1>5 DEF SteeringInv, AcksRecordedOnce

LEMMA SteeringSteps == SteeringInv /\ [Next]_vars => SteeringInv'
  <1> SUFFICES ASSUME SteeringInv, [Next]_vars PROVE SteeringInv'
    OBVIOUS
  <1>1. CASE UNCHANGED vars
    <2> USE <1>1 DEF vars, logVars, envVars, callVars, runnerVars
    <2>1. TypeOK' /\ HardTerminalLast' /\ IntentsAppliedInOrder' /\ OneAckPerSteer'
      BY DEF SteeringInv, AcksRecordedOnce, TypeOK, HardTerminalLast, IntentsAppliedInOrder,
             OneAckPerSteer
    <2>2. DispositionHasAck' /\ DeliveredWasPublished'
      BY DEF SteeringInv, AcksRecordedOnce, DispositionHasAck, DeliveredWasPublished, HasOutcome,
             EventsOf, Acknowledged
    <2>3. CallsKnown'
      BY DEF SteeringInv, CallsKnown, Acknowledged
    <2>4. IntentsNumbered'
      BY DEF SteeringInv, IntentsNumbered, WellNumbered, Allocated
    <2>5. RunnerKnows'
      BY DEF SteeringInv, RunnerKnows, HandledCalls, Acknowledged, Subject, First
    <2> QED
      BY <2>1, <2>2, <2>3, <2>4, <2>5 DEF SteeringInv, AcksRecordedOnce
  <1>2. CASE Next
    <2>1. LogEffect
      BY <1>2, CallEffects, RunnerEffects DEF Next
    <2>2. ASSUME \/ \E s \in Steer : SteerStep(s)
                 \/ \E h \in HostAck : AckStep(h)
                 \/ \E c \in ChildAck : IntentAllocate(c) \/ IntentWrite(c)
                 \/ \E h \in Host : HostFetch(h) \/ HostReport(h)
          PROVE  CallsKnown' /\ IntentsNumbered' /\ RunnerKnows'
      <3>1. CallsKnown' /\ IntentsNumbered'
        BY <2>1, <2>2, CallsKept, IntentKept
      <3>2. UNCHANGED <<queue, todo, cur, rpc>>
        BY <2>2, CallTypes DEF runnerVars
      <3>3. UNCHANGED handled
        BY <2>2 DEF SteerStep, SteerPersist, SteerAppend, QueueCheck, QueueAppend,
                    QueueUnsupported, AckStep, AckBegin, AckCheck, AckAppend, AckRecord,
                    IntentAllocate, IntentWrite, HostFetch, HostReport, logVars
      <3> QED
        BY <2>1, <3>1, <3>2, <3>3, RunnerUndisturbed
    <2>3. ASSUME RunnerStep PROVE CallsKnown' /\ IntentsNumbered' /\ RunnerKnows'
      <3>1. CallsKnown' /\ IntentsNumbered'
        BY <2>1, <2>3, RunnerTypes, NoCallMoves
      <3>2. RunnerKnows'
        BY <2>1, <2>3, DrainKnows, DeliverKnows DEF RunnerStep
      <3> QED
        BY <3>1, <3>2
    <2>4. ASSUME NEW c \in Killable, Kill(c)
          PROVE  CallsKnown' /\ IntentsNumbered' /\ RunnerKnows'
      <3>1. CallsKnown' /\ IntentsNumbered'
        BY <2>1, <2>4, CallsKept
      <3>2. UNCHANGED <<queue, todo, cur, rpc, handled>>
        BY <2>4 DEF Kill, runnerVars, logVars
      <3> QED
        BY <2>1, <3>1, <3>2, RunnerUndisturbed
    <2>5. ASSUME ExecutorExits \/ RunnerKilled \/ \E s \in Steer : DeadlinePasses(s)
          PROVE  CallsKnown' /\ IntentsNumbered' /\ RunnerKnows'
      <3>1. UNCHANGED <<pc, arg, intents, queue, todo, cur, handled>> /\ rpc' \in {rpc, "dead"}
        BY <2>5 DEF ExecutorExits, RunnerKilled, DeadlinePasses, callVars, runnerVars, logVars
      <3> QED
        BY <2>1, <3>1, NoCallMoves, RunnerUndisturbed
    <2>6. CallsKnown' /\ IntentsNumbered' /\ RunnerKnows'
      BY <1>2, <2>2, <2>3, <2>4, <2>5 DEF Next
    <2>7. TypeOK'
      BY <1>2, <2>1, <2>6, TypesKept
    <2>8. OneAckPerSteer' /\ DispositionHasAck' /\ HardTerminalLast' /\ DeliveredWasPublished'
          /\ IntentsAppliedInOrder'
      BY <2>1, LogsKept
    <2> QED
      BY <2>6, <2>7, <2>8 DEF SteeringInv, AcksRecordedOnce
  <1> QED
    BY <1>1, <1>2

(* The invariant of the steering machinery holds of every behaviour of     *)
(* steer, acknowledge, the bridge, the hosts and the runner.               *)
THEOREM SteeringInvHolds == Spec => []SteeringInv
  BY SteeringStarts, SteeringSteps, PTL DEF Spec

(* record_acknowledgement and the drain of the bridge may race on one      *)
(* request: the message log has one ack for it, after it, and the delivery *)
(* journal says applied or rejected only of a request that has one.        *)
THEOREM AcksAreRecordedOnce == Spec => []AcksRecordedOnce
  <1>1. SteeringInv => AcksRecordedOnce
    BY DEF SteeringInv
  <1> QED
    BY <1>1, SteeringInvHolds, PTL

(* append_delivery_event, called by steer, acknowledge, the host and the   *)
(* runner at once, appends nothing after terminal evidence, and nothing    *)
(* but an acknowledgement after a stop.                                    *)
THEOREM TerminalEvidenceIsLast == Spec => []HardTerminalLast
  <1>1. SteeringInv => HardTerminalLast
    BY DEF SteeringInv
  <1> QED
    BY <1>1, SteeringInvHolds, PTL

(* deliver_pending records "delivered" only of a request whose inbox file  *)
(* is published, whenever the runner is killed.                            *)
THEOREM DeliveredIsPublished == Spec => []DeliveredWasPublished
  <1>1. SteeringInv => DeliveredWasPublished
    BY DEF SteeringInv
  <1> QED
    BY <1>1, SteeringInvHolds, PTL

(* The bridge handles an intent once, and applies it only past every       *)
(* sequence it has handled, though two calls of the executor may compute   *)
(* the same sequence for their files.                                      *)
THEOREM IntentsApplyInOrder == Spec => []IntentsAppliedInOrder
  <1>1. SteeringInv => IntentsAppliedInOrder
    BY DEF SteeringInv
  <1> QED
    BY <1>1, SteeringInvHolds, PTL
=============================================================================
