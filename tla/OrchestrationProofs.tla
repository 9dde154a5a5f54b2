------------------------- MODULE OrchestrationProofs -------------------------
(* Proofs about what a host does with several runs: a supervised command   *)
(* (Command) tells the truth about its child, a closeout receipt           *)
(* (Closeout) claims only what the remote held, no provider's answer       *)
(* (Decisions) decides alone, and the tasks of a chain (Chain) build on    *)
(* each other.                                                             *)
EXTENDS Command, Closeout, Decisions, Chain, FiniteSetTheorems, WellFoundedInduction, TLAPS

-----------------------------------------------------------------------------
(* Command.                                                                *)

LEMMA CommandInitInv == CommandInit => CommandInv
  <1> SUFFICES ASSUME CommandInit PROVE CommandInv
    OBVIOUS
  <1> USE DEF CommandInit, Ended, NotYet, Calling
  <1>1. CommandShape
    BY DEF CommandShape
  <1>2. ExitObserved /\ NothingLeftUnread
    BY DEF ExitObserved, NothingLeftUnread
  <1> QED
    BY <1>1, <1>2 DEF CommandInv

(* The loop itself.                                                        *)
LEMMA SupervisedKeepsInv ==
  ASSUME CommandInv, Supervised \/ Interrupt
  PROVE  CommandInv'
  <1> USE DEF CommandInv, CommandShape, ExitObserved, NothingLeftUnread, Ended, NotYet, Calling,
              world
  <1>1. CASE Spawn
    <2>1. CommandShape'
      BY <1>1 DEF Spawn
    <2>2. ExitObserved'
      BY <1>1 DEF Spawn
    <2>3. NothingLeftUnread'
      BY <1>1 DEF Spawn
    <2> QED
      BY <2>1, <2>2, <2>3
  <1>2. CASE Poll
    BY <1>2 DEF Poll
  <1>3. CASE Deadline
    <2>1. /\ child' = IF ~pass.ended /\ pass.late THEN ChildAfter("KILL") ELSE child
          /\ elapsed' = IF ~pass.ended /\ pass.late THEN 0 ELSE elapsed
          /\ outcome' = IF ~pass.ended /\ pass.late THEN "timeout" ELSE outcome
          /\ callStep = "deadline" /\ callStep' = "escalate"
          /\ UNCHANGED <<pipe, wrote, got, late, reading>>
      BY <1>3 DEF Deadline
    <2>2. pass' = IF ~pass.ended /\ pass.late
                  THEN [ended |-> TRUE, late |-> pass.late, elapsed |-> 0] ELSE pass
      BY <1>3 DEF Deadline
    <2>3. /\ pass' \in [ended : BOOLEAN, late : BOOLEAN, elapsed : {NotYet} \cup 0..3]
          /\ pass'.ended => pass.ended \/ pass.late
          /\ pass'.elapsed \in 1..3 => pass.elapsed \in 1..3
      BY <2>2
    <2>4. child' \in Ended \/ UNCHANGED <<child, elapsed, pass>>
      BY <2>1, <2>2 DEF ChildAfter
    <2>5. CommandShape'
      BY <2>1, <2>3 DEF ChildAfter
    <2>6. ExitObserved' /\ NothingLeftUnread'
      BY <2>1, <2>3, <2>4
    <2> QED
      BY <2>5, <2>6
  <1>4. CASE Escalate
    BY <1>4 DEF Escalate
  <1>5. CASE Select
    <2>1. CommandShape'
      <3>1. \/ got' = got
            \/ got' = [child |-> got.child + 1, all |-> got.all + 1, cut |-> got.cut]
            \/ got' = [child |-> got.child, all |-> got.all + 1, cut |-> got.cut]
            \/ got' = [child |-> got.child, all |-> got.all, cut |-> TRUE]
        BY <1>5 DEF Select, Retained
      <3>2. got' \in [child : Nat, all : Nat, cut : BOOLEAN]
        <4>1. CASE got' = [child |-> got.child, all |-> got.all, cut |-> TRUE]
          BY <4>1
        <4> QED
          BY <3>1, <4>1
      <3>3. reading' \in BOOLEAN
        BY <1>5 DEF Select
      <3>4. /\ callStep = "select" /\ callStep' = "poll" /\ pipe' \in {"empty", "child", "kin"}
            /\ UNCHANGED <<child, wrote, late, elapsed, pass, outcome>>
        BY <1>5 DEF Select
      <3> QED
        BY <3>2, <3>3, <3>4
    <2>2. ExitObserved'
      BY <1>5 DEF Select, Retained, Held
    <2>3. NothingLeftUnread'
      BY <1>5 DEF Select, Retained, Held
    <2> QED
      BY <2>1, <2>2, <2>3
  <1>6. CASE Interrupt
    BY <1>6 DEF Interrupt, ChildAfter
  <1> QED
    BY <1>1, <1>2, <1>3, <1>4, <1>5, <1>6 DEF Supervised

(* Child, descendant and clock.                                            *)
LEMMA WorldKeepsInv ==
  ASSUME CommandInv,
         \/ Calling /\ (Write("child") \/ Write("kin") \/ ReadInput \/ ChildExits \/ KinExits)
         \/ DeadlinePasses \/ ClockTicks
  PROVE  CommandInv'
  <1> USE DEF CommandInv, CommandShape, ExitObserved, NothingLeftUnread, Ended, NotYet, Calling,
              world
  <1>1. CASE Write("child")
    <2>1. CommandShape'
      <3>1. wrote' = [child |-> wrote.child + 1, all |-> wrote.all + 1]
        BY <1>1 DEF Write
      <3> QED
        BY <1>1, <3>1 DEF Write
    <2>2. ExitObserved'
      BY <1>1 DEF Write
    <2>3. NothingLeftUnread'
      BY <1>1 DEF Write
    <2> QED
      BY <2>1, <2>2, <2>3
  <1>2. CASE Write("kin")
    <2>1. CommandShape'
      <3>1. wrote' = [child |-> wrote.child, all |-> wrote.all + 1]
        BY <1>2 DEF Write
      <3> QED
        BY <1>2, <3>1 DEF Write
    <2>2. ExitObserved'
      BY <1>2 DEF Write
    <2>3. NothingLeftUnread'
      BY <1>2 DEF Write
    <2> QED
      BY <2>1, <2>2, <2>3
  <1>3. CASE ReadInput \/ ChildExits \/ KinExits
    BY <1>3 DEF ReadInput, ChildExits, KinExits
  <1>4. CASE DeadlinePasses \/ ClockTicks
    <2>1. CommandShape'
      <3>1. elapsed' \in {NotYet} \cup 0..3
        BY <1>4 DEF DeadlinePasses, ClockTicks
      <3>2. late' \in BOOLEAN /\ UNCHANGED <<child, pipe, wrote, got, reading, pass, outcome, callStep>>
        BY <1>4 DEF DeadlinePasses, ClockTicks
      <3> QED
        BY <3>1, <3>2
    <2>2. ExitObserved'
      BY <1>4 DEF DeadlinePasses, ClockTicks
    <2>3. NothingLeftUnread'
      BY <1>4 DEF DeadlinePasses, ClockTicks
    <2> QED
      BY <2>1, <2>2, <2>3
  <1> QED
    BY <1>1, <1>2, <1>3, <1>4

(* Whatever child and descendants write, keep open or ignore, and however  *)
(* exit, deadline and interrupt fall: the result of process.run says       *)
(* completed only of a child that exited with 0, and has all the child     *)
(* wrote unless it says that it was cut.                                   *)
THEOREM CommandsAreTruthful == CommandSpec => []CommandResultTruthful
  <1>1. CommandInv /\ [CommandNext]_supervisedCall => CommandInv'
    <2>1. CASE UNCHANGED supervisedCall
      BY <2>1 DEF supervisedCall, CommandInv, CommandShape, ExitObserved, NothingLeftUnread,
                  Calling
    <2> QED
      BY <2>1, SupervisedKeepsInv, WorldKeepsInv DEF CommandNext
  <1>2. CommandInv => CommandResultTruthful
    BY DEF CommandInv, CommandShape, ExitObserved, NothingLeftUnread, CommandResultTruthful,
           ResultCategory, Ended, Calling
  <1> QED
    BY CommandInitInv, <1>1, <1>2, PTL DEF CommandSpec

-----------------------------------------------------------------------------
(* Closeout.                                                               *)

LEMMA CloseoutInitInv == CloseoutInit => CloseoutInv
  <1> SUFFICES ASSUME CloseoutInit PROVE CloseoutInv
    OBVIOUS
  <1>1. CloserShape
    BY DEF CloseoutInit, CloserShape, ReceiptShape, NoReceipt
  <1>2. RemoteWatched /\ ClaimsSeen
    BY DEF CloseoutInit, RemoteWatched, ClaimsSeen, CloseoutClaimsHeld, NoReceipt
  <1> QED
    BY <1>1, <1>2 DEF CloseoutInv

(* A step that changes neither the remote nor the receipt written, and of  *)
(* one closer not the head nor what it has seen.                           *)
LEMMA ReceiptStep ==
  ASSUME CloseoutInv, NEW c \in Closer, closer[c].step # "idle", NEW step, NEW r,
         CloserStep(c, step, r), UNCHANGED <<remote, closed>>,
         ReceiptShape(r), r.head = closer[c].receipt.head,
         r.pushed = "succeeded-verified" => closer[c].seen["target"],
         r.merged => closer[c].seen["main"]
  PROVE  CloseoutInv'
  <1> USE DEF CloseoutInv
  <1>1. /\ closer' = [d \in Closer |-> closer'[d]]
        /\ closer'[c] = [step |-> step, seen |-> closer[c].seen, receipt |-> r]
        /\ \A d \in Closer : d # c => closer'[d] = closer[d]
    BY DEF CloserStep, CloserShape
  <1>2. CloserShape'
    BY <1>1 DEF CloserShape, ReceiptShape
  <1>3. RemoteWatched'
    BY <1>1 DEF RemoteWatched
  <1>4. ClaimsSeen'
    BY <1>1 DEF ClaimsSeen, CloseoutClaimsHeld
  <1> QED
    BY <1>2, <1>3, <1>4

(* The steps that read: the head, the status, the remote before.           *)
LEMMA ReadersKeepInv ==
  ASSUME CloseoutInv, NEW c \in Closer,
         CaptureHead(c) \/ CaptureStatus(c) \/ Fetch(c) \/ ReadBefore(c)
  PROVE  CloseoutInv'
  <1> DEFINE r == closer[c].receipt
  <1>1. ReceiptShape(r) /\ (r.pushed = "succeeded-verified" => closer[c].seen["target"])
                        /\ (r.merged => closer[c].seen["main"])
    BY DEF CloseoutInv, CloserShape, ClaimsSeen
  <1>3. CASE CaptureStatus(c)
    <2> DEFINE q == [r EXCEPT !.state = CommitState(worktree.dirty)]
    <2>1. ReceiptShape(q) /\ q.head = r.head /\ q.pushed = r.pushed /\ q.merged = r.merged
      BY <1>1 DEF ReceiptShape, NoReceipt
    <2> QED
      BY <1>1, <1>3, <2>1, ReceiptStep DEF CaptureStatus, Closing
  <1>4. CASE Fetch(c)
    <2>1. \A o \in {"succeeded", "failed"} :
             LET q == [r EXCEPT !.fetched = o]
             IN  ReceiptShape(q) /\ q.head = r.head /\ q.pushed = r.pushed /\ q.merged = r.merged
      BY <1>1 DEF ReceiptShape, NoReceipt
    <2>2. CASE CloserStep(c, "before", r)
      BY <1>1, <1>4, <2>2, ReceiptStep DEF Fetch, Closing
    <2>3. CASE \E o \in {"succeeded", "failed"} : CloserStep(c, "before", [r EXCEPT !.fetched = o])
      BY <1>1, <1>4, <2>1, <2>3, ReceiptStep DEF Fetch, Closing
    <2> QED
      BY <1>4, <2>2, <2>3 DEF Fetch
  <1>5. CASE ReadBefore(c)
    <2>1. PICK v, s, t : CloserStep(c, "push", [r EXCEPT !.beforeState = s, !.after = v,
                                                       !.afterState = s, !.comparison = t])
      BY <1>5 DEF ReadBefore
    <2> DEFINE q == [r EXCEPT !.beforeState = s, !.after = v, !.afterState = s, !.comparison = t]
    <2>2. ReceiptShape(q) /\ q.head = r.head /\ q.pushed = r.pushed /\ q.merged = r.merged
      BY <1>1 DEF ReceiptShape, NoReceipt
    <2> HIDE DEF q
    <2> QED
      BY <1>1, <1>5, <2>1, <2>2, ReceiptStep DEF ReadBefore, Closing, q
  <1>6. CASE CaptureHead(c)
    <2>1. PICK fetch, push, merge \in BOOLEAN :
             closer' = [closer EXCEPT ![c] =
              [step |-> "status", seen |-> Seen(worktree.head, remote),
               receipt |-> [NoReceipt EXCEPT !.fetch = fetch, !.push = push,
                                !.merge = merge, !.head = worktree.head]]]
      BY <1>6 DEF CaptureHead
    <2> DEFINE q == [NoReceipt EXCEPT !.fetch = fetch, !.push = push, !.merge = merge,
                                      !.head = worktree.head]
    <2>0. ReceiptShape(q) /\ q.head = worktree.head /\ q.pushed = "not-attempted"
          /\ q.merged = FALSE
      BY DEF ReceiptShape, NoReceipt
    <2> HIDE DEF q
    <2>2. UNCHANGED <<remote, closed>>
      BY <1>6 DEF CaptureHead
    <2>3. CloserShape'
      BY <2>0, <2>1, <2>2 DEF CloseoutInv, CloserShape, ReceiptShape, q
    <2>4. RemoteWatched'
      BY <2>0, <2>1, <2>2 DEF CloseoutInv, CloserShape, RemoteWatched, Seen, q
    <2>5. ClaimsSeen'
      BY <2>0, <2>1, <2>2 DEF CloseoutInv, CloserShape, ClaimsSeen, CloseoutClaimsHeld, q
    <2> QED
      BY <2>3, <2>4, <2>5 DEF CloseoutInv
  <1> QED
    BY <1>3, <1>4, <1>5, <1>6

(* The remote changes under every closer, and one of them may note the     *)
(* result of its push.                                                     *)
LEMMA RemoteStep ==
  ASSUME CloseoutInv, UNCHANGED closed,
         remote' = [b \in Branch |-> remote'[b]],
         closer' = [d \in Closer |-> closer'[d]],
         \A d \in Closer :
            /\ closer'[d] = [step |-> closer'[d].step, receipt |-> closer'[d].receipt,
                             seen |-> Watch(d, Seen(closer[d].receipt.head, remote'))]
            /\ closer[d].step = "idle" => closer'[d].step = "idle"
            /\ ReceiptShape(closer'[d].receipt)
            /\ closer'[d].receipt.head = closer[d].receipt.head
            /\ closer'[d].receipt.merged = closer[d].receipt.merged
            /\ closer'[d].receipt.pushed \in {closer[d].receipt.pushed, "succeeded-unverified",
                                             "failed"}
  PROVE  CloseoutInv'
  <1>1. CloserShape'
    BY DEF CloserShape
  <1>2. \A d \in Closer :
           /\ \/ closer[d].seen["target"]
              \/ remote'["target"] = closer[d].receipt.head
              => closer'[d].seen["target"]
           /\ \/ closer[d].seen["main"]
              \/ Ancestor(closer[d].receipt.head, remote'["main"])
              => closer'[d].seen["main"]
    <2> TAKE d \in Closer
    <2> DEFINE now == Seen(closer[d].receipt.head, remote')
    <2>1. /\ remote'["target"] = closer[d].receipt.head => now["target"]
          /\ Ancestor(closer[d].receipt.head, remote'["main"]) => now["main"]
      BY DEF Seen
    <2> HIDE DEF now
    <2>2. closer'[d].seen = Watch(d, now)
      BY DEF now
    <2>3. /\ closer'[d].seen["target"] = (closer[d].seen["target"] \/ now["target"])
          /\ closer'[d].seen["main"] = (closer[d].seen["main"] \/ now["main"])
      BY <2>2 DEF Watch
    <2> QED
      BY <2>1, <2>3
  <1>3. RemoteWatched'
    BY <1>2 DEF RemoteWatched
  <1>4. ClaimsSeen'
    BY <1>2 DEF CloseoutInv, ClaimsSeen, CloseoutClaimsHeld
  <1> QED
    BY <1>1, <1>3, <1>4 DEF CloseoutInv

(* The push, and the steps that read the remote afterwards and write.      *)
LEMMA PushKeepsInv ==
  ASSUME CloseoutInv, NEW c \in Closer, Push(c)
  PROVE  CloseoutInv'
  <1> DEFINE r == closer[c].receipt
             Pushed(result) ==
               /\ remote' = [remote EXCEPT !["target"] = worktree.head]
               /\ closer' = [d \in Closer |->
                     LET mine == [closer[d] EXCEPT
                                    !.seen = Watch(d, Seen(closer[d].receipt.head, remote'))]
                     IN  IF d # c THEN mine
                         ELSE [mine EXCEPT !.step = "after", !.receipt.pushed = result]]
  <1>1. /\ ReceiptShape(r) /\ (r.pushed = "succeeded-verified" => closer[c].seen["target"])
        /\ (r.merged => closer[c].seen["main"])
        /\ closer[c].step # "idle" /\ UNCHANGED closed
    BY DEF CloseoutInv, CloserShape, ClaimsSeen, Push, Closing
  <1>2. \/ \E result \in {"succeeded-unverified", "failed"} : Pushed(result)
        \/ CloserStep(c, "after", [r EXCEPT !.pushed = "failed"]) /\ UNCHANGED remote
        \/ CloserStep(c, "integration", r) /\ UNCHANGED remote
    BY DEF Push
  <1>3. CASE CloserStep(c, "after", [r EXCEPT !.pushed = "failed"]) /\ UNCHANGED remote
    <2> DEFINE q == [r EXCEPT !.pushed = "failed"]
    <2>1. ReceiptShape(q) /\ q.head = r.head /\ q.pushed = "failed" /\ q.merged = r.merged
      BY <1>1 DEF ReceiptShape, NoReceipt
    <2> QED
      BY <1>1, <1>3, <2>1, ReceiptStep
  <1>4. CASE CloserStep(c, "integration", r) /\ UNCHANGED remote
    BY <1>1, <1>4, ReceiptStep
  <1>5. ASSUME NEW result \in {"succeeded-unverified", "failed"}, Pushed(result)
        PROVE  CloseoutInv'
    <2> DEFINE now(d) == Watch(d, Seen(closer[d].receipt.head, remote'))
               q == [r EXCEPT !.pushed = result]
    <2>1. ReceiptShape(q) /\ q.head = r.head /\ q.pushed = result /\ q.merged = r.merged
      BY <1>1 DEF ReceiptShape, NoReceipt
    <2>2. remote' = [b \in Branch |-> remote'[b]]
      BY <1>5 DEF CloseoutInv, CloserShape
    <2>3. closer' = [d \in Closer |-> closer'[d]]
      BY <1>5
    <2> HIDE DEF now, q
    <2>4. ASSUME NEW d \in Closer, d # c
          PROVE  closer'[d] = [step |-> closer[d].step, receipt |-> closer[d].receipt,
                               seen |-> now(d)]
      <3>1. closer'[d] = [closer[d] EXCEPT !.seen = now(d)]
        BY <1>5, <2>4 DEF now
      <3> QED
        BY <3>1 DEF CloseoutInv, CloserShape
    <2>5. closer'[c] = [step |-> "after", receipt |-> q, seen |-> now(c)]
      <3>1. closer'[c] = [[closer[c] EXCEPT !.seen = now(c)]
                            EXCEPT !.step = "after", !.receipt.pushed = result]
        BY <1>5 DEF now
      <3>2. [closer[c] EXCEPT !.seen = now(c)]
              = [step |-> closer[c].step, seen |-> now(c), receipt |-> r]
        BY DEF CloseoutInv, CloserShape
      <3> QED
        BY <3>1, <3>2 DEF q
    <2>6. ASSUME NEW d \in Closer
          PROVE  /\ closer'[d] = [step |-> closer'[d].step, receipt |-> closer'[d].receipt,
                                  seen |-> now(d)]
                 /\ closer[d].step = "idle" => closer'[d].step = "idle"
                 /\ ReceiptShape(closer'[d].receipt)
                 /\ closer'[d].receipt.head = closer[d].receipt.head
                 /\ closer'[d].receipt.merged = closer[d].receipt.merged
                 /\ closer'[d].receipt.pushed \in {closer[d].receipt.pushed,
                                                  "succeeded-unverified", "failed"}
      <3>1. CASE d = c
        BY <1>1, <2>1, <2>5, <3>1
      <3>2. CASE d # c
        <4>1. closer'[d] = [step |-> closer[d].step, receipt |-> closer[d].receipt,
                            seen |-> now(d)]
          BY <2>4, <3>2
        <4>2. ReceiptShape(closer[d].receipt)
          BY DEF CloseoutInv, CloserShape
        <4> QED
          BY <4>1, <4>2
      <3> QED
        BY <3>1, <3>2
    <2> QED
      BY <1>1, <2>2, <2>3, <2>6, RemoteStep DEF now
  <1> QED
    BY <1>2, <1>3, <1>4, <1>5

LEMMA ClaimsKeepInv ==
  ASSUME CloseoutInv, NEW c \in Closer, ReadAfter(c) \/ ReadIntegration(c) \/ WriteCloseout(c)
  PROVE  CloseoutInv'
  <1> DEFINE r == closer[c].receipt
  <1>1. /\ ReceiptShape(r) /\ (r.pushed = "succeeded-verified" => closer[c].seen["target"])
        /\ (r.merged => closer[c].seen["main"])
    BY DEF CloseoutInv, CloserShape, ClaimsSeen
  <1>2. closer[c].step # "idle"
    BY DEF ReadAfter, ReadIntegration, WriteCloseout, Closing
  <1>3. /\ remote["target"] = r.head => closer[c].seen["target"]
        /\ Ancestor(r.head, remote["main"]) => closer[c].seen["main"]
    BY <1>2 DEF CloseoutInv, RemoteWatched
  <1>4. CASE ReadAfter(c)
    <2>1. PICK seen \in LsRemote("target") :
             LET q == [r EXCEPT !.after = seen.value, !.afterState = seen.state]
             IN  CloserStep(c, "integration", [q EXCEPT !.pushed = PushResult(q)])
      BY <1>4 DEF ReadAfter
    <2> DEFINE q == [r EXCEPT !.after = seen.value, !.afterState = seen.state]
               p == [q EXCEPT !.pushed = PushResult(q)]
    <2>2. /\ ReceiptShape(q) /\ q.head = r.head /\ q.pushed = r.pushed /\ q.merged = r.merged
          /\ q.after = seen.value /\ q.afterState = seen.state
      BY <1>1 DEF ReceiptShape, NoReceipt
    <2> HIDE DEF q
    <2>3. ReceiptShape(p) /\ p.head = r.head /\ p.pushed = PushResult(q) /\ p.merged = r.merged
      BY <2>2 DEF ReceiptShape, NoReceipt
    <2> HIDE DEF p
    <2>4. p.pushed = "succeeded-verified" => closer[c].seen["target"]
      BY <1>1, <1>3, <2>2, <2>3 DEF PushResult, LsRemote
    <2>5. UNCHANGED <<remote, closed>> /\ CloserStep(c, "integration", p)
      BY <1>4, <2>1 DEF ReadAfter, p, q
    <2> QED
      BY <1>1, <1>2, <2>3, <2>4, <2>5, ReceiptStep
  <1>5. CASE ReadIntegration(c)
    <2>1. UNCHANGED <<remote, closed>>
      BY <1>5 DEF ReadIntegration
    <2>2. CASE CloserStep(c, "write", r)
      BY <1>1, <1>2, <2>1, <2>2, ReceiptStep
    <2>3. CASE CloserStep(c, "write", [r EXCEPT !.integrated = "cached-unverified"])
      <3> DEFINE q == [r EXCEPT !.integrated = "cached-unverified"]
      <3>1. ReceiptShape(q) /\ q.head = r.head /\ q.pushed = r.pushed /\ q.merged = r.merged
        BY <1>1 DEF ReceiptShape, NoReceipt
      <3> QED
        BY <1>1, <1>2, <2>1, <2>3, <3>1, ReceiptStep
    <2>4. ASSUME NEW seen \in LsRemote("main"),
                 CloserStep(c, "write", [r EXCEPT !.merged = MergedVerified(r, seen),
                                                  !.integrated = seen.state])
          PROVE  CloseoutInv'
      <3> DEFINE q == [r EXCEPT !.merged = MergedVerified(r, seen), !.integrated = seen.state]
      <3>1. /\ ReceiptShape(q) /\ q.head = r.head /\ q.pushed = r.pushed
            /\ q.merged = MergedVerified(r, seen)
        BY <1>1 DEF ReceiptShape, NoReceipt
      <3>2. MergedVerified(r, seen) => closer[c].seen["main"]
        BY <1>3 DEF MergedVerified, LsRemote
      <3> HIDE DEF q
      <3> QED
        BY <1>1, <1>2, <2>1, <2>4, <3>1, <3>2, ReceiptStep DEF q
    <2> QED
      BY <1>5, <2>2, <2>3, <2>4 DEF ReadIntegration
  <1>6. CASE WriteCloseout(c)
    <2>1. /\ closer' = [closer EXCEPT ![c] = [step |-> "idle", seen |-> Unseen,
                                             receipt |-> NoReceipt]]
          /\ UNCHANGED remote
      BY <1>6 DEF WriteCloseout
    <2>2. NoReceipt.pushed = "not-attempted" /\ NoReceipt.merged = FALSE /\ ReceiptShape(NoReceipt)
      BY DEF NoReceipt, ReceiptShape
    <2>3. CloserShape'
      BY <2>1, <2>2 DEF CloseoutInv, CloserShape, ReceiptShape
    <2>4. RemoteWatched'
      BY <2>1 DEF CloseoutInv, CloserShape, RemoteWatched
    <2>5. CloseoutClaimsHeld'
      <3>1. CASE closed' = closed
        BY <3>1 DEF CloseoutInv, ClaimsSeen, CloseoutClaimsHeld
      <3>2. CASE closed' = [committed |-> r.state # "source-dirty",
                            pushed |-> r.pushed = "succeeded-verified", merged |-> r.merged,
                            seen |-> closer[c].seen]
        BY <1>1, <3>2 DEF CloseoutClaimsHeld
      <3> QED
        BY <1>6, <3>1, <3>2 DEF WriteCloseout
    <2>6. ClaimsSeen'
      BY <2>1, <2>2, <2>5 DEF CloseoutInv, CloserShape, ClaimsSeen
    <2> QED
      BY <2>3, <2>4, <2>6 DEF CloseoutInv
  <1> QED
    BY <1>4, <1>5, <1>6

(* What others do to worktree and remote.                                  *)
LEMMA OthersKeepInv ==
  ASSUME CloseoutInv, EditLocally \/ CommitLocally \/ OthersPush
  PROVE  CloseoutInv'
  <1>1. CASE UNCHANGED <<remote, closer, closed>>
    BY <1>1 DEF CloseoutInv, CloserShape, RemoteWatched, ClaimsSeen, CloseoutClaimsHeld
  <1>2. ASSUME NEW branch \in Branch, NEW v, SetRemote(branch, v)
        PROVE  CloseoutInv'
    <2> DEFINE now(d) == Watch(d, Seen(closer[d].receipt.head, remote'))
    <2>1. /\ remote' = [b \in Branch |-> remote'[b]] /\ UNCHANGED closed
          /\ closer' = [d \in Closer |-> closer'[d]]
      BY <1>2 DEF SetRemote, Change, CloseoutInv, CloserShape
    <2>2. ASSUME NEW d \in Closer
          PROVE  /\ closer'[d] = [step |-> closer[d].step, receipt |-> closer[d].receipt,
                                  seen |-> now(d)]
                 /\ ReceiptShape(closer[d].receipt)
      <3> HIDE DEF now
      <3>1. closer'[d] = [closer[d] EXCEPT !.seen = now(d)]
        BY <1>2 DEF SetRemote, now
      <3> QED
        BY <3>1 DEF CloseoutInv, CloserShape
    <2> HIDE DEF now
    <2>3. ASSUME NEW d \in Closer
          PROVE  /\ closer'[d] = [step |-> closer'[d].step, receipt |-> closer'[d].receipt,
                                  seen |-> now(d)]
                 /\ closer[d].step = "idle" => closer'[d].step = "idle"
                 /\ ReceiptShape(closer'[d].receipt)
                 /\ closer'[d].receipt.head = closer[d].receipt.head
                 /\ closer'[d].receipt.merged = closer[d].receipt.merged
                 /\ closer'[d].receipt.pushed \in {closer[d].receipt.pushed,
                                                  "succeeded-unverified", "failed"}
      <3>1. /\ closer'[d] = [step |-> closer[d].step, receipt |-> closer[d].receipt,
                             seen |-> now(d)]
            /\ ReceiptShape(closer[d].receipt)
        BY <2>2
      <3>2. closer'[d].step = closer[d].step /\ closer'[d].receipt = closer[d].receipt
        BY <3>1
      <3> QED
        BY <3>1, <3>2
    <2> QED
      BY <2>1, <2>3, RemoteStep DEF now
  <1>3. EditLocally \/ CommitLocally => UNCHANGED <<remote, closer, closed>>
    BY DEF EditLocally, CommitLocally, Change
  <1>4. OthersPush => \E branch \in Branch : \E v : SetRemote(branch, v)
    BY DEF OthersPush, Branch
  <1> QED
    BY <1>1, <1>2, <1>3, <1>4

(* Whatever is committed locally, pushed, merged or taken back by others,  *)
(* and whatever answers of the remote are lost between the commands of     *)
(* create_repository_closeout: the receipt at the output claims a push or  *)
(* a merge only if the remote has held the captured head, or contained it. *)
THEOREM CloseoutsClaimWhatHeld == CloseoutSpec => []CloseoutClaimsHeld
  <1>1. CloseoutInv /\ [CloseoutNext]_closeout => CloseoutInv'
    <2>1. CASE UNCHANGED closeout
      BY <2>1 DEF closeout, CloseoutInv, CloserShape, RemoteWatched, ClaimsSeen,
                  CloseoutClaimsHeld
    <2> QED
      BY <2>1, ReadersKeepInv, PushKeepsInv, ClaimsKeepInv, OthersKeepInv DEF CloseoutNext
  <1>2. CloseoutInv => CloseoutClaimsHeld
    BY DEF CloseoutInv, ClaimsSeen
  <1> QED
    BY CloseoutInitInv, <1>1, <1>2, PTL DEF CloseoutSpec

-----------------------------------------------------------------------------
(* Decisions.                                                              *)

(* A candidate nobody is above, where the two largest shares differ, is    *)
(* above everybody else, however many candidates there are.                *)
LEMMA MarginMakesClear ==
  ASSUME NEW shares \in Share, NEW c \in Candidate, Margin(shares) # 0,
         ~\E d \in Candidate : shares[d] > shares[c]
  PROVE  \A d \in Candidate \ {c} : shares[c] > shares[d]
  <1> DEFINE IsTop(t) == \A d \in Candidate : shares[t] >= shares[d]
             top == CHOOSE t \in Candidate : IsTop(t)
             IsSecond(t) == \A d \in Candidate \ {top} : shares[t] >= shares[d]
             second == CHOOSE t \in Candidate \ {top} : IsSecond(t)
  <1>1. \A d \in Candidate : shares[d] \in {0, 2} /\ shares[c] >= shares[d]
    BY DEF Share
  <1>2. top \in Candidate /\ IsTop(top)
    <2>1. IsTop(c)
      BY <1>1
    <2> HIDE DEF IsTop
    <2> QED
      BY <2>1
  <1>3. Margin(shares) = shares[top] - shares[second]
    BY DEF Margin
  <1> SUFFICES ASSUME NEW d \in Candidate \ {c}, ~(shares[c] > shares[d])
               PROVE  FALSE
    OBVIOUS
  <1> HIDE DEF top
  <1>4. PICK other \in Candidate \ {top} : shares[other] = shares[c]
    BY <1>1, <1>2
  <1>5. second \in Candidate \ {top} /\ IsSecond(second)
    <2>1. IsSecond(other)
      BY <1>1, <1>4
    <2> HIDE DEF IsSecond
    <2> QED
      BY <2>1
  <1> HIDE DEF second
  <1> QED
    BY <1>1, <1>2, <1>3, <1>4, <1>5

(* What an answer that agrees or disagrees has shown.                      *)
LEMMA EvidenceIsClear ==
  ASSUME NEW e \in Answers, EvidenceOutcome(e) \in {"agreement", "disagreement"}
  PROVE  /\ SemanticCandidate(e) \in Candidate /\ SemanticCandidate(e) # Nobody
         /\ e.distribution \in Share
         /\ \A d \in Candidate \ {SemanticCandidate(e)} :
               e.distribution[SemanticCandidate(e)] > e.distribution[d]
         /\ EvidenceOutcome(e) = "agreement" <=> SemanticCandidate(e) = draft
  <1> DEFINE c == SemanticCandidate(e)
  <1>1. c = Nobody \/ c \in Candidate
    BY DEF SemanticCandidate, Answers
  <1> HIDE DEF c
  <1>2. /\ c # Nobody /\ e.distribution \in Share /\ Margin(e.distribution) # 0
        /\ ~\E d \in Candidate : e.distribution[d] > e.distribution[c]
        /\ EvidenceOutcome(e) = "agreement" <=> c = draft
    BY DEF EvidenceOutcome, c
  <1>3. \A d \in Candidate \ {c} : e.distribution[c] > e.distribution[d]
    BY <1>1, <1>2, MarginMakesClear
  <1> QED
    BY <1>1, <1>2, <1>3 DEF c

LEMMA CheckpointKeepsInv ==
  ASSUME DecisionsInv, RunCheckpoint
  PROVE  DecisionsInv'
  <1>1. PICK e \in Answers :
          LET candidate == SemanticCandidate(e)
              out == EvidenceOutcome(e)
              r == IF resolution = Nobody /\ out = "agreement" THEN Agreed ELSE resolution
              advance == AdvanceAllowed(r, out)
          IN  /\ resolution # Nobody => ValidResolution(resolution, candidate, out)
              /\ verdict' = [candidate |-> candidate, outcome |-> out, by |-> r,
                             applied |-> IF advance THEN r.choice ELSE Nobody,
                             clear |-> /\ candidate # Nobody /\ e.distribution \in Share
                                       /\ \A d \in Candidate \ {candidate} :
                                             e.distribution[candidate] > e.distribution[d]]
    BY DEF RunCheckpoint
  <1> DEFINE candidate == SemanticCandidate(e)
             out == EvidenceOutcome(e)
             r == IF resolution = Nobody /\ out = "agreement" THEN Agreed ELSE resolution
             clear == /\ candidate # Nobody /\ e.distribution \in Share
                      /\ \A d \in Candidate \ {candidate} :
                            e.distribution[candidate] > e.distribution[d]
  <1>2. out \in {"agreement", "disagreement"} => clear /\ (out = "agreement" => candidate = draft)
    BY EvidenceIsClear
  <1>3. out \in {"agreement", "disagreement", "uncertainty", "provider_failure"}
    BY DEF EvidenceOutcome
  <1>4. UNCHANGED <<draft, policy, resolution, routed>>
    BY DEF RunCheckpoint
  <1>5. /\ verdict'.candidate = candidate /\ verdict'.outcome = out /\ verdict'.by = r
        /\ verdict'.clear <=> clear
        /\ verdict'.applied # Nobody => AdvanceAllowed(r, out) /\ verdict'.applied = r.choice
    BY <1>1
  <1>6. resolution # Nobody => ValidResolution(resolution, candidate, out)
    BY <1>1
  <1> HIDE DEF candidate, out, clear
  <1>7. ASSUME verdict'.applied # Nobody
        PROVE  /\ \/ verdict'.applied = draft /\ candidate = draft /\ clear
                  \/ resolution # Nobody /\ r.semantic = candidate
               /\ out = "provider_failure" =>
                     policy.failure = "fallback_initial" /\ verdict'.applied = draft
               /\ ~clear /\ out # "provider_failure" => r.basis = "human_authority"
    <2>1. AdvanceAllowed(r, out) /\ verdict'.applied = r.choice
      BY <1>5, <1>7
    <2>2. CASE resolution = Nobody
      <3>1. out = "agreement" /\ r = Agreed
        BY <2>1, <2>2 DEF AdvanceAllowed
      <3>2. r.choice = draft
        BY <3>1 DEF Agreed
      <3> QED
        BY <1>2, <2>1, <3>1, <3>2
    <2>3. CASE resolution # Nobody
      <3>1. r = resolution
        BY <2>3
      <3>2. ValidResolution(r, candidate, out) /\ ~Put(r)
        BY <1>6, <2>1, <2>3, <3>1 DEF AdvanceAllowed
      <3> HIDE DEF r
      <3> QED
        BY <1>2, <1>3, <2>1, <2>3, <3>2 DEF ValidResolution
    <2> QED
      BY <2>2, <2>3
  <1> HIDE DEF r
  <1>8. ProviderNeverDecidesAlone'
    BY <1>4, <1>5, <1>7 DEF DecisionsInv, ProviderNeverDecidesAlone
  <1> QED
    BY <1>4, <1>8 DEF DecisionsInv

LEMMA ExecuteKeepsInv ==
  ASSUME DecisionsInv, ExecuteDecision
  PROVE  DecisionsInv'
  <1>1. PICK d \in RoutingDecision, threshold \in 2..One,
             disposition \in {"deterministic", "shadow", "automated"},
             e \in [status : {"success", "service_failure"}, value : {"suggested"},
                    confidence : {Nobody} \cup 0..One, probability : {Nobody} \cup 0..One] :
          LET candidate == IF disposition = "deterministic" THEN Nobody
                           ELSE PolicyCandidate(d, e, threshold)
          IN  routed' = [decision |-> d, disposition |-> disposition, threshold |-> threshold,
                         probability |-> e.probability, answered |-> e.status = "success",
                         applied |-> Applied(d, disposition, candidate)]
    BY DEF ExecuteDecision
  <1> DEFINE candidate == IF disposition = "deterministic" THEN Nobody
                          ELSE PolicyCandidate(d, e, threshold)
             applied == Applied(d, disposition, candidate)
  <1>2. /\ routed'.decision = d /\ routed'.disposition = disposition
        /\ routed'.probability = e.probability /\ routed'.applied = applied
        /\ routed'.answered <=> e.status = "success"
    BY <1>1
  <1>3. ASSUME applied # "control"
        PROVE  /\ disposition = "automated" /\ d.automatable /\ e.status = "success"
               /\ applied = PolicyCandidate(d, e, threshold) /\ applied # Nobody
    BY <1>3 DEF Applied, PolicyCandidate
  <1>4. d.automatable => d.type # "score"
    BY DEF RoutingDecision
  <1>5. ASSUME applied # "control"
        PROVE  /\ applied = "no" => 2 * e.probability <= One
               /\ applied = "yes" => 2 * e.probability >= One
    <2>1. applied = PolicyCandidate(d, e, threshold) /\ applied # Nobody
      BY <1>3, <1>5
    <2> HIDE DEF applied
    <2>2. ASSUME applied \in {"no", "yes"}
          PROVE  /\ e.probability \in 0..One
                 /\ applied = "no" => e.probability <= One - threshold
                 /\ applied = "yes" => e.probability >= threshold
      BY <2>1, <2>2 DEF PolicyCandidate, One
    <2> QED
      BY <2>2 DEF One
  <1>6. UNCHANGED <<draft, policy, resolution, verdict>>
    BY DEF ExecuteDecision
  <1> HIDE DEF applied
  <1>7. ProviderNeverDecidesAlone'
    BY <1>2, <1>3, <1>4, <1>5, <1>6 DEF DecisionsInv, ProviderNeverDecidesAlone
  <1> QED
    BY <1>6, <1>7 DEF DecisionsInv

(* For any set of candidates and every answer, policy and resolution: a    *)
(* checkpoint advances on the agent's own choice clearly confirmed or on a *)
(* resolution written for this candidate, and a routing decision departs   *)
(* from its control value only as far as it is automated (run_checkpoint,  *)
(* execute_decision).                                                      *)
THEOREM AnswersDecideNothingAlone == DecisionsSpec => []ProviderNeverDecidesAlone
  <1>1. DecisionsInit => DecisionsInv
    BY DEF DecisionsInit, DecisionsInv, ProviderNeverDecidesAlone
  <1>2. DecisionsInv /\ [DecisionsNext]_decisions => DecisionsInv'
    <2>1. CASE UNCHANGED decisions
      BY <2>1 DEF decisions, DecisionsInv, ProviderNeverDecidesAlone
    <2>2. CASE DecisionsInv /\ Resolve
      BY <2>2 DEF Resolve, DecisionsInv, ProviderNeverDecidesAlone
    <2> QED
      BY <2>1, <2>2, CheckpointKeepsInv, ExecuteKeepsInv DEF DecisionsNext
  <1>3. DecisionsInv => ProviderNeverDecidesAlone
    BY DEF DecisionsInv
  <1> QED
    BY <1>1, <1>2, <1>3, PTL DEF DecisionsSpec
-----------------------------------------------------------------------------
(* Chain.                                                                  *)

(* A nonempty set of naturals has a least element.                         *)
LEMMA LeastNatural ==
  ASSUME NEW S \in SUBSET Nat, S # {}
  PROVE  \E x \in S : \A y \in S : x <= y
  <1> DEFINE R == OpToRel(<, Nat)
  <1>1. IsWellFoundedOn(R, Nat)
    BY NatLessThanWellFounded
  <1>2. \A x, y \in Nat : y < x => <<y, x>> \in R
    BY DEF OpToRel
  <1> HIDE DEF R
  <1>3. PICK x \in S : \A y \in S : ~(<<y, x>> \in R)
    BY <1>1, WFMin
  <1>4. \A y \in S : x \in Nat /\ y \in Nat /\ ~(y < x)
    BY <1>2, <1>3
  <1> QED
    BY <1>3, <1>4

(* The recursive function of order_tasks is defined: there are sequences   *)
(* of every length that satisfy its equations.                             *)
LEMMA TakenDefined ==
  ASSUME NEW deps, NEW K \in Nat, K = Cardinality(DOMAIN deps)
  PROVE  \A n \in 0..K : Taken(deps)[n] =
            IF n = 0 THEN <<>> ELSE TakeReady(deps, Taken(deps)[n - 1])
  <1> DEFINE Follows(g, n) ==
               \A i \in 0..n : g[i] = IF i = 0 THEN <<>> ELSE TakeReady(deps, g[i - 1])
             Bad == {n \in 0..K : ~\E g : Follows(g, n)}
  <1>1. Bad = {}
    <2> SUFFICES ASSUME Bad # {} PROVE FALSE
      OBVIOUS
    <2>1. PICK m \in Bad : \A k \in Bad : m <= k
      <3>1. Bad \in SUBSET Nat
        OBVIOUS
      <3> HIDE DEF Bad
      <3> QED
        BY <3>1, LeastNatural
    <2>2. m \in 0..K /\ ~\E g : Follows(g, m)
      OBVIOUS
    <2>3. CASE m = 0
      <3>1. Follows([i \in 0..0 |-> <<>>], 0)
        OBVIOUS
      <3> QED
        BY <2>2, <2>3, <3>1
    <2>4. CASE m > 0
      <3>1. m - 1 \in 0..K /\ m - 1 \notin Bad
        <4>1. m - 1 \in 0..K /\ ~(m <= m - 1)
          BY <2>2, <2>4
        <4> QED
          BY <2>1, <4>1, Zenon
      <3>2. PICK g : Follows(g, m - 1)
        BY <3>1
      <3> DEFINE h == [i \in 0..m |-> IF i < m THEN g[i] ELSE TakeReady(deps, g[m - 1])]
      <3>3. ASSUME NEW i \in 0..m
            PROVE  h[i] = IF i = 0 THEN <<>> ELSE TakeReady(deps, h[i - 1])
        <4>1. CASE i < m
          <5>1. i \in 0..(m - 1) /\ h[i] = g[i]
            BY <2>2, <4>1
          <5>2. i # 0 => h[i - 1] = g[i - 1]
            BY <2>2, <4>1
          <5> QED
            BY <3>2, <5>1, <5>2
        <4>2. CASE i = m
          <5>1. h[i] = TakeReady(deps, g[m - 1]) /\ h[m - 1] = g[m - 1]
            BY <2>2, <2>4, <4>2
          <5> QED
            BY <2>4, <4>2, <5>1
        <4> QED
          BY <2>2, <4>1, <4>2
      <3> QED
        BY <2>2, <3>3
    <2> QED
      BY <2>2, <2>3, <2>4
  <1>2. PICK g : Follows(g, K)
    BY <1>1
  <1> DEFINE Eq(f) == f = [n \in 0..K |-> IF n = 0 THEN <<>> ELSE TakeReady(deps, f[n - 1])]
  <1>3. Eq([n \in 0..K |-> g[n]])
    BY <1>2
  <1>4. Taken(deps) = CHOOSE f : Eq(f)
    BY DEF Taken
  <1>5. Eq(Taken(deps))
    BY <1>3, <1>4
  <1> QED
    BY <1>5

(* One more ready task keeps predecessors before their successors.         *)
Sorted(deps, s) ==
    /\ s \in Seq(Task)
    /\ \A i \in 1..Len(s) : deps[s[i]] \subseteq {s[j] : j \in 1..(i - 1)}

LEMMA TakeReadySorts ==
  ASSUME NEW deps \in Dependencies, NEW s, Sorted(deps, s)
  PROVE  Sorted(deps, TakeReady(deps, s))
  <1> DEFINE R == Ready(deps, Range(s))
             t == LeastTask(R)
  <1>1. CASE R = {}
    BY <1>1 DEF TakeReady
  <1>2. CASE R # {}
    <2>1. R \in SUBSET Nat /\ R \subseteq Task
      BY TaskAssumption DEF TaskAssumption, Ready
    <2>2. t \in R
      <3> HIDE DEF R
      <3> QED
        BY <1>2, <2>1, LeastNatural DEF LeastTask
    <2>3. t \in Task /\ deps[t] \subseteq Range(s)
      BY <2>1, <2>2 DEF Ready
    <2>4. TakeReady(deps, s) = Append(s, t)
      BY <1>2 DEF TakeReady
    <2> HIDE DEF R, t
    <2>5. s \in Seq(Task) /\ Range(s) = {s[j] : j \in 1..Len(s)}
      BY DEF Sorted, Range
    <2> DEFINE u == Append(s, t)
    <2>6. /\ u \in Seq(Task) /\ Len(u) = Len(s) + 1
          /\ u[Len(s) + 1] = t /\ \A i \in 1..Len(s) : u[i] = s[i]
      BY <2>3, <2>5
    <2>7. ASSUME NEW i \in 1..Len(u)
          PROVE  deps[u[i]] \subseteq {u[j] : j \in 1..(i - 1)}
      <3>1. \A j \in 1..(i - 1) : j \in 1..Len(s) /\ u[j] = s[j]
        BY <2>5, <2>6
      <3>2. {u[j] : j \in 1..(i - 1)} = {s[j] : j \in 1..(i - 1)}
        BY <3>1
      <3>3. CASE i \in 1..Len(s)
        BY <2>6, <3>2, <3>3 DEF Sorted
      <3>4. CASE i = Len(s) + 1
        <4>1. 1..(i - 1) = 1..Len(s)
          BY <2>5, <3>4
        <4> QED
          BY <2>3, <2>5, <2>6, <3>2, <3>4, <4>1
      <3> QED
        BY <2>5, <2>6, <3>3, <3>4
    <2>8. TakeReady(deps, s) = u
      BY <2>4
    <2> HIDE DEF u
    <2>9. Sorted(deps, u)
      BY <2>6, <2>7 DEF Sorted
    <2> QED
      BY <2>8, <2>9
  <1> QED
    BY <1>1, <1>2

(* order_tasks returns tasks, at most all of them, each after its          *)
(* predecessors.                                                           *)
LEMMA OrderIsTopological ==
  ASSUME NEW deps \in Dependencies, OrderTasks(deps) # <<>>
  PROVE  Sorted(deps, OrderTasks(deps)) /\ Len(OrderTasks(deps)) < Final
  <1> DEFINE K == Cardinality(DOMAIN deps)
  <1>1. /\ DOMAIN deps \subseteq Task /\ IsFiniteSet(Task)
        /\ K \in Nat /\ Cardinality(Task) \in Nat /\ K <= Cardinality(Task)
    BY TaskAssumption, FS_Subset, FS_CardinalityType DEF TaskAssumption
  <1>2. OrderTasks(deps) = Taken(deps)[K] /\ Len(Taken(deps)[K]) = K
    BY DEF OrderTasks
  <1> HIDE DEF K
  <1>3. \A n \in 0..K : Taken(deps)[n] =
            IF n = 0 THEN <<>> ELSE TakeReady(deps, Taken(deps)[n - 1])
    BY <1>1, TakenDefined DEF K
  <1> DEFINE Bad == {n \in 0..K : ~Sorted(deps, Taken(deps)[n])}
  <1>4. Bad = {}
    <2> SUFFICES ASSUME Bad # {} PROVE FALSE
      OBVIOUS
    <2>1. PICK m \in Bad : \A k \in Bad : m <= k
      <3>1. Bad \in SUBSET Nat
        BY <1>1
      <3> HIDE DEF Bad
      <3> QED
        BY <3>1, LeastNatural
    <2>2. m \in 0..K /\ ~Sorted(deps, Taken(deps)[m])
      OBVIOUS
    <2>3. CASE m = 0
      <3>1. Sorted(deps, <<>>)
        BY DEF Sorted
      <3> QED
        BY <1>3, <2>2, <2>3, <3>1
    <2>4. CASE m > 0
      <3>1. m - 1 \in 0..K /\ ~(m <= m - 1)
        BY <1>1, <2>2, <2>4
      <3>2. m - 1 \notin Bad
        BY <2>1, <3>1, Zenon
      <3>3. Sorted(deps, Taken(deps)[m - 1])
        BY <3>1, <3>2
      <3>4. Sorted(deps, TakeReady(deps, Taken(deps)[m - 1]))
        BY <3>3, TakeReadySorts
      <3> QED
        BY <1>3, <2>2, <2>4, <3>4
    <2> QED
      BY <1>1, <2>2, <2>3, <2>4
  <1>5. Sorted(deps, Taken(deps)[K])
    BY <1>1, <1>4
  <1> QED
    BY <1>1, <1>2, <1>5 DEF Final

(* The integrations _state counts did succeed.                             *)
LEMMA PrefixSucceeded ==
  ASSUME ChainTyped
  PROVE  /\ Prefix \in 0..Len(chain.order)
         /\ \A j \in 1..Prefix : chain.attempt[j].status = "success"
  <1> DEFINE N == Len(chain.order)
             D == {i \in 1..N : \A j \in 1..i : chain.attempt[j].status = "success"}
             k == Cardinality(D)
  <1>1. N \in Nat
    BY DEF ChainTyped, ChainFiles
  <1>2. IsFiniteSet(1..N) /\ Cardinality(1..N) = N
    <2> HIDE DEF N
    <2> QED
      BY <1>1, FS_Interval
  <1>3. D \in SUBSET (1..N)
    OBVIOUS
  <1>4. IsFiniteSet(D) /\ k <= N
    <2> HIDE DEF D
    <2> QED
      BY <1>2, <1>3, FS_Subset
  <1>5. k \in Nat
    BY <1>4, FS_CardinalityType
  <1>6. ASSUME NEW m \in 1..k, m \notin D PROVE FALSE
    <2>1. \A n \in D : \A i \in 1..n : i \in D
      BY <1>1
    <2>2. D \in SUBSET (1..(m - 1))
      <3> HIDE DEF D
      <3> QED
        BY <1>1, <1>3, <1>5, <1>6, <2>1
    <2>3. IsFiniteSet(1..(m - 1)) /\ Cardinality(1..(m - 1)) = m - 1
      <3>1. m - 1 \in Int /\ m \in Nat /\ m >= 1
        BY <1>5
      <3> HIDE DEF k
      <3> QED
        BY <3>1, FS_Interval
    <2>4. k <= m - 1
      <3> HIDE DEF D
      <3> QED
        BY <2>2, <2>3, FS_Subset
    <2> QED
      BY <2>4, <1>5
  <1>7. \A m \in 1..k : chain.attempt[m].status = "success"
    <2> SUFFICES ASSUME NEW m \in 1..k PROVE chain.attempt[m].status = "success"
      OBVIOUS
    <2>1. m \in D /\ m \in Nat /\ m >= 1
      BY <1>5, <1>6
    <2> HIDE DEF k
    <2> QED
      BY <2>1
  <1> QED
    BY <1>1, <1>4, <1>5, <1>7 DEF Prefix

LEMMA NoRunTyped == NoRun \in TaskRunState
  <1>1. <<>> \in Seq(ChainRun) /\ <<>> \in Seq(RunInput)
    OBVIOUS
  <1> QED
    BY <1>1 DEF NoRun, TaskRunState

(* The runs keep their types.                                              *)
LEMMA RunsTyped ==
  ASSUME ChainTyped, NEW r \in ChainRun,
         PrepareAlone(r) \/ Launch(r) \/ Complete(r) \/ ReviewRun(r) \/ DisturbWorktree(r)
  PROVE  ChainTyped' /\ UNCHANGED <<chain, chainLock, host>>
  <1>1. PICK x : taskRun' = [taskRun EXCEPT ![r] = x] /\ x \in TaskRunState
    <2>1. taskRun[r] \in TaskRunState
      BY DEF ChainTyped
    <2>2. CASE PrepareAlone(r)
      <3>1. [NoRun EXCEPT !.state = "prepared"] \in TaskRunState
        BY NoRunTyped DEF TaskRunState
      <3> QED
        BY <2>2, <3>1 DEF PrepareAlone, ToRun
    <2>3. CASE Launch(r)
      <3>1. [taskRun[r] EXCEPT !.state = "running"] \in TaskRunState
        BY <2>1 DEF TaskRunState
      <3> QED
        BY <2>3, <3>1 DEF Launch, ToRun
    <2>4. CASE Complete(r)
      <3>1. PICK n \in 0..1 :
              taskRun' = [taskRun EXCEPT ![r] = [taskRun[r] EXCEPT !.state = "sealed",
                              !.head = taskRun[r].baseline \o [i \in 1..n |-> r]]]
        BY <2>4 DEF Complete, ToRun
      <3>2. [i \in 1..n |-> r] \in Seq(ChainRun)
        OBVIOUS
      <3>3. taskRun[r].baseline \o [i \in 1..n |-> r] \in Seq(ChainRun)
        BY <2>1, <3>2 DEF TaskRunState
      <3>4. [taskRun[r] EXCEPT !.state = "sealed",
                 !.head = taskRun[r].baseline \o [i \in 1..n |-> r]] \in TaskRunState
        BY <2>1, <3>3 DEF TaskRunState
      <3> QED
        BY <3>1, <3>4
    <2>5. CASE ReviewRun(r)
      <3>1. /\ [taskRun[r] EXCEPT !.review = "accepted"] \in TaskRunState
            /\ [taskRun[r] EXCEPT !.review = "rejected"] \in TaskRunState
        BY <2>1 DEF TaskRunState
      <3> QED
        BY <2>5, <3>1 DEF ReviewRun, ToRun
    <2>6. CASE DisturbWorktree(r)
      <3>1. [taskRun[r] EXCEPT !.clean = FALSE] \in TaskRunState
        BY <2>1 DEF TaskRunState
      <3> QED
        BY <2>6, <3>1 DEF DisturbWorktree, ToRun
    <2> QED
      BY <2>2, <2>3, <2>4, <2>5, <2>6
  <1>2. UNCHANGED <<chain, chainLock, host>>
    BY DEF PrepareAlone, Launch, Complete, ReviewRun, DisturbWorktree
  <1> QED
    BY <1>1, <1>2 DEF ChainTyped

LEMMA WaitingTyped ==
  /\ Final \in Nat /\ Final > 0 /\ AttemptId = 0..Final /\ Pair = 0
  /\ NoAttempt \in ChainAttempt /\ Waiting \in HostState
  <1>1. Cardinality(Task) \in Nat
    BY TaskAssumption, FS_CardinalityType DEF TaskAssumption
  <1>2. Final \in Nat /\ Final > 0 /\ AttemptId = 0..Final /\ Pair = 0 /\ Pair \in AttemptId
    BY <1>1 DEF Final, AttemptId, Pair
  <1>3. <<>> \in Seq(ChainRun) /\ <<>> \in Seq(RunInput) /\ <<>> \in Seq(KeptInput)
    OBVIOUS
  <1>4. NoAttempt \in ChainAttempt
    BY <1>3 DEF NoAttempt, ChainAttempt
  <1>5. Waiting \in HostState
    BY <1>2, <1>3, <1>4 DEF Waiting, HostState, HostStep
  <1> QED
    BY <1>2, <1>4, <1>5

LEMMA GoToMoves ==
  ASSUME ChainTyped, NEW h \in Host, NEW s \in HostStep, GoTo(h, s)
  PROVE  /\ host' = [host EXCEPT ![h] = [host[h] EXCEPT !.step = s]]
         /\ [host[h] EXCEPT !.step = s] \in HostState
  BY DEF ChainTyped, GoTo, HostState

LEMMA FinishMoves ==
  ASSUME ChainInv, NEW h \in Host, Finish(h)
  PROVE  /\ host' = [host EXCEPT ![h] = Waiting] /\ Waiting \in HostState
         /\ chainLock' = IF chainLock = h THEN NoChain ELSE chainLock
  BY WaitingTyped DEF Finish

(* A command that waits knows nothing.                                     *)
LEMMA WaitingKnows ==
  ASSUME NEW h \in Host, host'[h] = Waiting
  PROVE  HostKnows(h)'
  BY DEF HostKnows, Waiting

(* What the command with the lock knows no other command can change.       *)
LEMMA OthersKnow ==
  ASSUME ChainInv, NEW g \in Host, host'[g] = host[g],
         chainLock = g => /\ chainLock' = g /\ chain'.reserved = chain.reserved
                          /\ chain'.order = chain.order /\ Prefix' = Prefix
  PROVE  HostKnows(g)'
  <1>1. HostKnows(g)
    BY DEF ChainInv
  <1>2. CASE chainLock = g
    <2>1. \A n : RunsTo(n)' = RunsTo(n) /\ TasksOf(n)' = TasksOf(n)
      BY <1>2 DEF RunsTo, TasksOf
    <2> QED
      BY <1>1, <1>2, <2>1 DEF HostKnows
  <1>3. CASE chainLock # g
    BY <1>1, <1>3 DEF HostKnows
  <1> QED
    BY <1>2, <1>3

(* A step of h that leaves plan, reservations and attempts alone.          *)
LEMMA HostActs ==
  ASSUME ChainInv, NEW h \in Host, NEW x \in HostState, host' = [host EXCEPT ![h] = x],
         chain' \in ChainFiles, taskRun' \in [ChainRun -> TaskRunState],
         chain'.dir = "none" => chain.dir = "none",
         chain'.deps = chain.deps, chain'.order = chain.order, chain'.reserved = chain.reserved,
         chain'.attempt = chain.attempt,
         chainLock' = chainLock \/ (chainLock \in {NoChain, h} /\ chainLock' \in {NoChain, h}),
         HostKnows(h)'
  PROVE  ChainInv'
  <1>1. ChainTyped'
    BY DEF ChainInv, ChainTyped
  <1>2. /\ Prefix' = Prefix
        /\ \A n : RunsTo(n)' = RunsTo(n) /\ TasksOf(n)' = TasksOf(n) /\ Before(n)' = Before(n)
    BY DEF Prefix, RunsTo, TasksOf, Before
  <1>3. PlanOrdered'
    BY <1>2 DEF ChainInv, PlanOrdered
  <1>4. TasksBuildOnEachOther'
    BY <1>2 DEF ChainInv, TasksBuildOnEachOther
  <1>5. AttemptsHold'
    BY <1>2 DEF ChainInv, AttemptsHold
  <1>6. ASSUME NEW g \in Host PROVE HostKnows(g)'
    <2>1. CASE g = h
      BY <2>1
    <2>2. CASE g # h
      <3>1. host'[g] = host[g]
        BY <2>2 DEF ChainInv, ChainTyped
      <3>2. chainLock = g => chainLock' = g
        BY <2>2, TaskAssumption DEF TaskAssumption
      <3> QED
        BY <1>2, <3>1, <3>2, OthersKnow
    <2> QED
      BY <2>1, <2>2
  <1> QED
    BY <1>1, <1>3, <1>4, <1>5, <1>6 DEF ChainInv

(* Preparing a task.                                                       *)
LEMMA PrepareKeepsInv ==
  ASSUME ChainInv, NEW h \in Host,
         (\E r \in ChainRun : PrepareTask(h, r)) \/ AddWorktree(h) \/ PrepareRun(h)
  PROVE  ChainInv'
  <1>1. /\ ChainTyped /\ HostKnows(h) /\ h # NoChain
        /\ chain \in ChainFiles /\ taskRun \in [ChainRun -> TaskRunState]
        /\ host \in [Host -> HostState]
    BY TaskAssumption DEF ChainInv, ChainTyped, TaskAssumption
  <1>2. ASSUME NEW r \in ChainRun, PrepareTask(h, r) PROVE ChainInv'
    <2> DEFINE x == [Waiting EXCEPT !.step = "reserve", !.runs = <<r>>]
    <2>1. x \in HostState /\ x.step = "reserve" /\ x.output = Pair /\ Len(x.runs) = 1
      <3>1. <<r>> \in Seq(ChainRun) /\ Len(<<r>>) = 1 /\ Waiting.output = Pair
        BY DEF Waiting
      <3> QED
        BY <3>1, WaitingTyped DEF HostState, HostStep
    <2>2. /\ host' = [host EXCEPT ![h] = x] /\ UNCHANGED <<chain, taskRun>>
          /\ chainLock = NoChain /\ chainLock' = h
          /\ Len(chain.reserved) = Prefix /\ Prefix < Len(chain.order)
      BY <1>2 DEF PrepareTask, Operable
    <2>3. host'[h] = x /\ Prefix' = Prefix
      BY <1>1, <2>2 DEF Prefix
    <2> HIDE DEF x
    <2>4. HostKnows(h)'
      BY <2>1, <2>2, <2>3 DEF HostKnows
    <2> QED
      BY <1>1, <2>1, <2>2, <2>4, HostActs
  <1>3. CASE AddWorktree(h)
    <2> DEFINE x == [host[h] EXCEPT !.step = "prepare"]
    <2>1. host' = [host EXCEPT ![h] = x] /\ x \in HostState
      BY <1>1, <1>3, GoToMoves DEF AddWorktree, HostStep
    <2>2. /\ chain' = [chain EXCEPT !.worktrees = @ \cup {<<"task", Len(chain.reserved)>>}]
          /\ UNCHANGED <<taskRun, chainLock>> /\ host[h].step = "worktree"
      BY <1>3 DEF AddWorktree, AtStep
    <2>3. /\ chain' \in ChainFiles
          /\ chain'.dir = chain.dir /\ chain'.deps = chain.deps /\ chain'.order = chain.order
          /\ chain'.reserved = chain.reserved /\ chain'.attempt = chain.attempt
      <3>1. chain.worktrees \cup {<<"task", Len(chain.reserved)>>}
              \in SUBSET ({"task", "integrated"} \X Nat)
        BY <1>1 DEF ChainFiles
      <3> QED
        BY <1>1, <2>2, <3>1 DEF ChainFiles
    <2>4. host'[h] = x /\ x.step = "prepare" /\ x.output = host[h].output /\ x.runs = host[h].runs
      BY <1>1, <2>1 DEF HostState
    <2>5. \A n : RunsTo(n)' = RunsTo(n) /\ TasksOf(n)' = TasksOf(n)
      BY <2>3 DEF RunsTo, TasksOf
    <2>6. HostKnows(h)'
      BY <1>1, <2>2, <2>3, <2>4, <2>5 DEF HostKnows
    <2> HIDE DEF x
    <2> QED
      BY <1>1, <2>1, <2>2, <2>3, <2>6, HostActs
  <1>4. CASE PrepareRun(h)
    <2> DEFINE slot == chain.reserved[Len(chain.reserved)]
    <2>1. host[h].step = "prepare" /\ Finish(h) /\ chain' = chain
      BY <1>4 DEF PrepareRun, AtStep
    <2>2. slot \in Slot
      BY <1>1, <2>1 DEF ChainFiles, HostKnows
    <2> DEFINE y == [NoRun EXCEPT !.state = "prepared", !.baseline = slot.baseline,
                                  !.prior = slot.prior, !.chained = TRUE]
    <2>3. taskRun' = taskRun \/ taskRun' = [taskRun EXCEPT ![slot.run] = y]
      BY <1>4 DEF PrepareRun, Last, ToRun
    <2>4. y \in TaskRunState
      BY <2>2, NoRunTyped DEF TaskRunState, Slot
    <2>5. taskRun' \in [ChainRun -> TaskRunState]
      <3> HIDE DEF y
      <3> QED
        BY <1>1, <2>2, <2>3, <2>4 DEF Slot
    <2>6. /\ host' = [host EXCEPT ![h] = Waiting] /\ Waiting \in HostState
          /\ chainLock' = IF chainLock = h THEN NoChain ELSE chainLock
      BY <2>1, FinishMoves
    <2>7. HostKnows(h)'
      BY <1>1, <2>6, WaitingKnows
    <2> QED
      BY <1>1, <2>1, <2>5, <2>6, <2>7, HostActs
  <1> QED
    BY <1>2, <1>3, <1>4

LEMMA RunsToTyped ==
  ASSUME ChainTyped, NEW n \in 0..Len(chain.reserved)
  PROVE  RunsTo(n) \in Seq(ChainRun) /\ Len(RunsTo(n)) = n
  <1>1. chain.reserved \in Seq(Slot)
    BY DEF ChainTyped, ChainFiles
  <1>2. \A j \in 1..n : chain.reserved[j] \in Slot
    BY <1>1
  <1>3. n \in Nat /\ \A j \in 1..n : chain.reserved[j].run \in ChainRun
    BY <1>1, <1>2 DEF Slot
  <1> QED
    BY <1>3 DEF RunsTo

LEMMA BeginIntegrates ==
  ASSUME ChainInv, NEW h \in Host, NEW o \in AttemptId, NEW runs \in Seq(ChainRun),
         BeginIntegrate(h, o, runs), UNCHANGED <<chain, taskRun>>,
         \/ o = Pair /\ UNCHANGED chainLock
         \/ /\ chainLock = NoChain /\ chainLock' = h
            /\ TasksOf(o) \in 1..Len(chain.reserved) /\ runs = RunsTo(TasksOf(o))
  PROVE  ChainInv'
  <1> DEFINE x == [Waiting EXCEPT !.step = "output", !.output = o, !.runs = runs]
  <1>1. /\ x \in HostState /\ x.step = "output" /\ x.output = o /\ x.runs = runs
        /\ x.record = NoAttempt
    <2>1. Waiting.record = NoAttempt
      BY DEF Waiting
    <2> QED
      BY <2>1, WaitingTyped DEF HostState, HostStep
  <1>2. NoAttempt.kept = <<>>
    BY DEF NoAttempt
  <1>3. host' = [host EXCEPT ![h] = x]
    BY DEF BeginIntegrate
  <1> HIDE DEF x
  <1>4. host'[h] = x /\ chain \in ChainFiles /\ taskRun \in [ChainRun -> TaskRunState]
    BY <1>3 DEF ChainInv, ChainTyped
  <1>5. \A n : RunsTo(n)' = RunsTo(n) /\ TasksOf(n)' = TasksOf(n)
    BY DEF RunsTo, TasksOf
  <1>6. HostKnows(h)'
    BY <1>1, <1>2, <1>4, <1>5 DEF HostKnows
  <1> QED
    BY <1>1, <1>3, <1>4, <1>6, HostActs

LEMMA IntegrateKeepsInv ==
  ASSUME ChainInv, NEW h \in Host,
         Advance(h) \/ Accept(h) \/ (\E r, s \in ChainRun : IntegratePair(h, r, s))
  PROVE  ChainInv'
  <1>1. /\ ChainTyped /\ chain \in ChainFiles /\ PlanOrdered /\ AttemptsHold
        /\ Final \in Nat /\ AttemptId = 0..Final /\ Pair = 0
    BY WaitingTyped DEF ChainInv, ChainTyped
  <1>2. /\ Len(chain.reserved) \in Nat /\ Len(chain.order) \in Nat
        /\ Len(chain.reserved) <= Len(chain.order) /\ Len(chain.order) < Final
    BY <1>1 DEF ChainFiles, PlanOrdered
  <1>7. \A n \in 0..Len(chain.reserved) : RunsTo(n) \in Seq(ChainRun)
    BY <1>1, RunsToTyped
  <1>3. /\ Prefix \in 0..Len(chain.order)
        /\ \A j \in 1..Prefix : chain.attempt[j].status = "success"
    BY <1>1, PrefixSucceeded
  <1>4. CASE Advance(h)
    <2>1. /\ chainLock = NoChain /\ chainLock' = h /\ UNCHANGED <<chain, taskRun>>
          /\ Len(chain.reserved) = Prefix + 1
          /\ BeginIntegrate(h, Prefix + 1, RunsTo(Prefix + 1))
      BY <1>4 DEF Advance, Operable, RunsTo
    <2>2. TasksOf(Prefix + 1) = Prefix + 1
      BY <1>2, <1>3, <2>1 DEF TasksOf
    <2>3. /\ Prefix + 1 \in AttemptId /\ Prefix + 1 \in 1..Len(chain.reserved)
          /\ Prefix + 1 \in 0..Len(chain.reserved)
      BY <1>1, <1>2, <1>3, <2>1
    <2>4. RunsTo(Prefix + 1) \in Seq(ChainRun)
      BY <1>7, <2>3
    <2> QED
      BY <2>1, <2>2, <2>3, <2>4, BeginIntegrates
  <1>5. CASE Accept(h)
    <2>1. /\ chainLock = NoChain /\ chainLock' = h /\ UNCHANGED <<chain, taskRun>>
          /\ chain.order # <<>> /\ Prefix = Len(chain.order)
          /\ BeginIntegrate(h, Final, RunsTo(Prefix))
      BY <1>5 DEF Accept, Operable, RunsTo
    <2>2. TasksOf(Final) = Prefix /\ TasksOf(Prefix) = Prefix /\ Prefix > 0
      BY <1>1, <1>2, <1>3, <2>1 DEF TasksOf, ChainFiles
    <2>3. Prefix \in 1..Len(chain.reserved)
      BY <1>1, <1>2, <1>3, <2>1, <2>2 DEF AttemptsHold
    <2>4. RunsTo(Prefix) \in Seq(ChainRun) /\ Final \in AttemptId
      BY <1>1, <1>7, <2>3
    <2> QED
      BY <2>1, <2>2, <2>3, <2>4, BeginIntegrates
  <1>6. ASSUME NEW r \in ChainRun, NEW s \in ChainRun, IntegratePair(h, r, s) PROVE ChainInv'
    <2>1. BeginIntegrate(h, Pair, <<r, s>>) /\ UNCHANGED <<chain, taskRun, chainLock>>
      BY <1>6 DEF IntegratePair
    <2>2. <<r, s>> \in Seq(ChainRun) /\ Pair \in AttemptId
      BY <1>1
    <2> QED
      BY <2>1, <2>2, BeginIntegrates
  <1> QED
    BY <1>4, <1>5, <1>6

(* The checks and copies of an integration.                                *)
LEMMA StepsKnow ==
  ASSUME ChainInv, NEW h \in Host, NEW x \in HostState, host' = [host EXCEPT ![h] = x],
         UNCHANGED <<chain, taskRun, chainLock>>, x.output = host[h].output,
         x.runs = host[h].runs,
         x.step \in {"archive", "apply", "rejected"},
         host[h].step \in {"validate", "archive", "apply"},
         x.step = "archive" => Len(x.record.kept) <= Len(x.runs),
         x.output = Pair /\ x.step \in {"archive", "apply"} => Len(x.record.inputs) = 2,
         x.output # Pair /\ x.step \in {"archive", "apply"} =>
             /\ Len(x.record.inputs) = TasksOf(x.output)
             /\ x.record.inputs[TasksOf(x.output)].head = RunsTo(TasksOf(x.output)),
         x.output # Pair /\ x.step = "apply" => Len(x.record.kept) = TasksOf(x.output)
  PROVE  ChainInv'
  <1>1. /\ host'[h] = x /\ HostKnows(h)
        /\ chain \in ChainFiles /\ taskRun \in [ChainRun -> TaskRunState]
    BY DEF ChainInv, ChainTyped
  <1>2. \A n : RunsTo(n)' = RunsTo(n) /\ TasksOf(n)' = TasksOf(n)
    BY DEF RunsTo, TasksOf
  <1>3. HostKnows(h)'
    BY <1>1, <1>2 DEF HostKnows
  <1> QED
    BY <1>1, <1>3, HostActs

LEMMA RunsToNext ==
  ASSUME ChainTyped, NEW n \in 1..Len(chain.reserved)
  PROVE  Append(RunsTo(n - 1), chain.reserved[n].run) = RunsTo(n)
  <1>1. chain.reserved \in Seq(Slot)
    BY DEF ChainTyped, ChainFiles
  <1>2. n \in Nat /\ n >= 1 /\ n <= Len(chain.reserved) /\ n - 1 \in 0..Len(chain.reserved)
        /\ n \in 0..Len(chain.reserved)
    BY <1>1
  <1>3. /\ RunsTo(n - 1) \in Seq(ChainRun) /\ Len(RunsTo(n - 1)) = n - 1
        /\ RunsTo(n) \in Seq(ChainRun) /\ Len(RunsTo(n)) = n
    BY <1>2, RunsToTyped
  <1>4. chain.reserved[n].run \in ChainRun
    <2>1. chain.reserved[n] \in Slot
      BY <1>1
    <2> QED
      BY <2>1 DEF Slot
  <1> DEFINE u == Append(RunsTo(n - 1), chain.reserved[n].run)
  <1>5. u \in Seq(ChainRun) /\ Len(u) = n
    BY <1>2, <1>3, <1>4
  <1>6. ASSUME NEW i \in 1..n PROVE u[i] = RunsTo(n)[i]
    <2>1. RunsTo(n)[i] = chain.reserved[i].run
      BY DEF RunsTo
    <2>2. CASE i < n
      <3>1. i \in 1..(n - 1)
        BY <1>2, <2>2
      <3>2. RunsTo(n - 1)[i] = chain.reserved[i].run
        BY <3>1 DEF RunsTo
      <3> QED
        BY <1>2, <1>3, <1>4, <2>1, <3>1, <3>2
    <2>3. CASE i = n
      BY <1>2, <1>3, <1>4, <2>1, <2>3
    <2>4. i < n \/ i = n
      BY <1>2
    <2> QED
      BY <2>2, <2>3, <2>4, Zenon
  <1> HIDE DEF u
  <1>7. u = RunsTo(n)
    BY <1>2, <1>3, <1>5, <1>6
  <1> QED
    BY <1>7 DEF u

LEMMA ValidateKeepsInv ==
  ASSUME ChainInv, NEW h \in Host, Validate(h)
  PROVE  ChainInv'
  <1> DEFINE me == host[h]
             inputs == [i \in DOMAIN me.runs |-> Input(me.runs[i])]
             N == TasksOf(me.output)
  <1>1. /\ ChainTyped /\ chain \in ChainFiles /\ taskRun \in [ChainRun -> TaskRunState]
        /\ host \in [Host -> HostState] /\ me \in HostState /\ HostKnows(h)
        /\ TasksBuildOnEachOther
    BY DEF ChainInv, ChainTyped
  <1>2. me.step = "validate" /\ UNCHANGED <<chain, taskRun, chainLock>>
    BY DEF Validate, AtStep
  <1>3. CASE Reject(h)
    <2> DEFINE x == [me EXCEPT !.step = "rejected"]
    <2>1. /\ x \in HostState /\ x.step = "rejected" /\ x.output = me.output /\ x.runs = me.runs
      BY <1>1 DEF HostState, HostStep
    <2>2. host' = [host EXCEPT ![h] = x]
      BY <1>1, <1>3 DEF Reject, HostState
    <2> HIDE DEF x
    <2> QED
      BY <1>2, <2>1, <2>2, StepsKnow
  <1>4. CASE ~Reject(h)
    <2>1. /\ \A i \in DOMAIN me.runs : AcceptedRun(me.runs[i])
          /\ ValidInputs(me.output, inputs)
          /\ host' = [host EXCEPT ![h].step = "archive", ![h].record.inputs = inputs]
      BY <1>4 DEF Validate
    <2>2. me.runs \in Seq(ChainRun) /\ me.record \in ChainAttempt /\ me.output \in AttemptId
      BY <1>1 DEF HostState
    <2>3. /\ inputs \in Seq(RunInput) /\ Len(inputs) = Len(me.runs)
          /\ \A i \in 1..Len(me.runs) : inputs[i] = Input(me.runs[i])
      <3>1. DOMAIN me.runs = 1..Len(me.runs) /\ Len(me.runs) \in Nat
        BY <2>2
      <3>2. \A r \in ChainRun : Input(r) \in RunInput
        BY <1>1 DEF Input, RunInput, TaskRunState
      <3>3. \A i \in 1..Len(me.runs) : me.runs[i] \in ChainRun
        BY <2>2
      <3> QED
        BY <3>1, <3>2, <3>3
    <2> DEFINE rec == [me.record EXCEPT !.inputs = inputs]
               x == [me EXCEPT !.step = "archive", !.record = rec]
    <2>4. rec \in ChainAttempt /\ rec.inputs = inputs /\ rec.kept = me.record.kept
      BY <2>2, <2>3 DEF ChainAttempt
    <2>5. host' = [host EXCEPT ![h] = x]
      BY <1>1, <2>1 DEF HostState
    <2> HIDE DEF rec
    <2>6. /\ x \in HostState /\ x.step = "archive" /\ x.output = me.output /\ x.runs = me.runs
          /\ x.record = rec
      BY <1>1, <2>4 DEF HostState, HostStep
    <2>7. me.record.kept = <<>> /\ Len(x.record.kept) <= Len(x.runs)
      BY <1>1, <1>2, <2>2, <2>4, <2>6 DEF HostKnows
    <2>8. ASSUME me.output # Pair
          PROVE  Len(inputs) = N /\ inputs[N].head = RunsTo(N)
      <3>1. N \in 1..Len(chain.reserved) /\ me.runs = RunsTo(N)
        BY <1>1, <2>8 DEF HostKnows
      <3>2. chain.reserved \in Seq(Slot) /\ N \in Nat /\ N \in 0..Len(chain.reserved) /\ N >= 1
        BY <1>1, <3>1 DEF ChainFiles
      <3>3. Len(me.runs) = N /\ N \in 1..Len(inputs)
        BY <1>1, <2>3, <3>1, <3>2, RunsToTyped
      <3> DEFINE r == chain.reserved[N].run
      <3>4. me.runs[N] = r /\ inputs[N] = Input(r) /\ AcceptedRun(r)
        <4>1. RunsTo(N)[N] = r
          BY <3>1, <3>2 DEF RunsTo
        <4> QED
          BY <2>1, <2>2, <2>3, <3>1, <3>3, <4>1
      <3>5. inputs[N].baseline = chain.reserved[N].baseline
        <4>1. ValidatePrefix(inputs)
          BY <2>1, <2>8 DEF ValidInputs
        <4> HIDE DEF inputs, N
        <4> QED
          BY <3>3, <4>1 DEF ValidatePrefix
      <3>6. inputs[N].head = Append(inputs[N].baseline, r)
        <4> HIDE DEF inputs, N, r
        <4> QED
          BY <3>4 DEF AcceptedRun, Input
      <3>7. chain.reserved[N].baseline = RunsTo(N - 1)
        <4> HIDE DEF N
        <4> QED
          BY <1>1, <3>1 DEF TasksBuildOnEachOther
      <3>8. Append(RunsTo(N - 1), r) = RunsTo(N)
        <4> HIDE DEF N
        <4> QED
          BY <1>1, <3>1, RunsToNext
      <3> QED
        BY <2>3, <3>3, <3>5, <3>6, <3>7, <3>8
    <2>9. me.output = Pair => Len(inputs) = 2
      BY <2>1 DEF ValidInputs
    <2> HIDE DEF x, inputs
    <2> QED
      BY <1>2, <2>4, <2>5, <2>6, <2>7, <2>8, <2>9, StepsKnow
  <1> QED
    BY <1>3, <1>4

LEMMA ArchiveKeepsInv ==
  ASSUME ChainInv, NEW h \in Host, ArchiveInput(h)
  PROVE  ChainInv'
  <1> DEFINE me == host[h]
             kept == me.record.kept
             r == me.runs[Len(kept) + 1]
  <1>1. /\ ChainTyped /\ taskRun \in [ChainRun -> TaskRunState]
        /\ host \in [Host -> HostState] /\ me \in HostState /\ HostKnows(h)
    BY DEF ChainInv, ChainTyped
  <1>2. me.step = "archive" /\ UNCHANGED <<chain, taskRun, chainLock>>
    BY DEF ArchiveInput, AtStep
  <1>3. /\ me.runs \in Seq(ChainRun) /\ me.record \in ChainAttempt /\ kept \in Seq(KeptInput)
        /\ Len(kept) \in Nat /\ Len(me.runs) \in Nat /\ Len(kept) <= Len(me.runs)
    BY <1>1, <1>2 DEF HostState, ChainAttempt, HostKnows
  <1>4. me.output # Pair => Len(me.runs) = TasksOf(me.output)
    BY <1>1, RunsToTyped DEF HostKnows
  <1>5. CASE Len(kept) = Len(me.runs)
    <2> DEFINE x == [me EXCEPT !.step = "apply"]
    <2>1. host' = [host EXCEPT ![h] = x] /\ x \in HostState
      BY <1>1, <1>5, GoToMoves DEF ArchiveInput, HostStep
    <2>2. x.step = "apply" /\ x.output = me.output /\ x.runs = me.runs /\ x.record = me.record
      BY <1>1 DEF HostState
    <2> HIDE DEF x
    <2>3. x.output = Pair => Len(x.record.inputs) = 2
      BY <1>1, <1>2, <2>2 DEF HostKnows
    <2>4. x.output # Pair =>
             /\ Len(x.record.inputs) = TasksOf(x.output)
             /\ x.record.inputs[TasksOf(x.output)].head = RunsTo(TasksOf(x.output))
             /\ Len(x.record.kept) = TasksOf(x.output)
      BY <1>1, <1>2, <1>4, <1>5, <2>2 DEF HostKnows
    <2> QED
      BY <1>2, <2>1, <2>2, <2>3, <2>4, StepsKnow
  <1>6. CASE Len(kept) # Len(me.runs)
    <2> DEFINE acc == taskRun[r].review = "accepted"
               k == [accepted |-> acc,
                     head |-> IF taskRun[r].clean THEN taskRun[r].head ELSE NoChain]
               rec == [me.record EXCEPT !.kept = Append(kept, k)]
               x == [me EXCEPT !.record = rec]
    <2>1. host' = [host EXCEPT ![h] = x]
      BY <1>1, <1>6 DEF ArchiveInput, HostState
    <2>2. r \in ChainRun
      <3>1. Len(kept) + 1 \in 1..Len(me.runs)
        BY <1>3, <1>6
      <3> QED
        BY <1>3, <3>1
    <2>3. k \in KeptInput
      <3>1. taskRun[r].head \in Seq(ChainRun)
        BY <1>1, <2>2 DEF TaskRunState
      <3>2. (IF taskRun[r].clean THEN taskRun[r].head ELSE NoChain) \in Seq(ChainRun) \cup {NoChain}
        BY <3>1
      <3>3. acc \in BOOLEAN
        OBVIOUS
      <3> HIDE DEF acc
      <3> QED
        BY <3>2, <3>3 DEF KeptInput
    <2> HIDE DEF k
    <2>4. Append(kept, k) \in Seq(KeptInput) /\ Len(Append(kept, k)) <= Len(me.runs)
      BY <1>3, <1>6, <2>3
    <2>5. rec \in ChainAttempt /\ rec.kept = Append(kept, k) /\ rec.inputs = me.record.inputs
      BY <1>3, <2>4 DEF ChainAttempt
    <2> HIDE DEF rec
    <2>6. /\ x \in HostState /\ x.step = "archive" /\ x.output = me.output /\ x.runs = me.runs
          /\ x.record = rec
      BY <1>1, <1>2, <2>5 DEF HostState
    <2> HIDE DEF x
    <2>7. Len(x.record.kept) <= Len(x.runs)
      BY <2>4, <2>5, <2>6
    <2>8. x.output = Pair => Len(x.record.inputs) = 2
      BY <1>1, <1>2, <2>5, <2>6 DEF HostKnows
    <2>9. x.output # Pair =>
             /\ Len(x.record.inputs) = TasksOf(x.output)
             /\ x.record.inputs[TasksOf(x.output)].head = RunsTo(TasksOf(x.output))
      BY <1>1, <1>2, <2>5, <2>6 DEF HostKnows
    <2> QED
      BY <1>2, <2>1, <2>6, <2>7, <2>8, <2>9, StepsKnow
  <1> QED
    BY <1>5, <1>6

LEMMA ApplyKeepsInv ==
  ASSUME ChainInv, NEW h \in Host, Apply(h)
  PROVE  ChainInv'
  <1> DEFINE me == host[h]
             N == TasksOf(me.output)
  <1>1. /\ ChainTyped /\ chain \in ChainFiles /\ taskRun \in [ChainRun -> TaskRunState]
        /\ host \in [Host -> HostState] /\ me \in HostState /\ HostKnows(h)
    BY DEF ChainInv, ChainTyped
  <1>2. me.step = "apply" /\ UNCHANGED <<taskRun, chainLock>>
    BY DEF Apply, AtStep
  <1>3. CASE Reject(h) /\ UNCHANGED chain
    <2> DEFINE x == [me EXCEPT !.step = "rejected"]
    <2>1. /\ x \in HostState /\ x.step = "rejected" /\ x.output = me.output /\ x.runs = me.runs
      BY <1>1 DEF HostState, HostStep
    <2>2. host' = [host EXCEPT ![h] = x]
      BY <1>1, <1>3 DEF Reject, HostState
    <2> HIDE DEF x
    <2> QED
      BY <1>2, <1>3, <2>1, <2>2, StepsKnow
  <1>4. CASE ~(Reject(h) /\ UNCHANGED chain)
    <2> DEFINE out == CombinedHead(me.output, me.record.inputs)
               rec == [me.record EXCEPT !.head = out]
               x == [me EXCEPT !.step = "succeeded", !.record = rec]
    <2>1. /\ chain' = [chain EXCEPT !.worktrees = @ \cup {<<"integrated", me.output>>}]
          /\ host' = [host EXCEPT ![h].step = "succeeded", ![h].record.head = out]
      BY <1>4 DEF Apply
    <2>2. /\ me.record \in ChainAttempt /\ me.record.inputs \in Seq(RunInput)
          /\ me.output \in AttemptId /\ me.output \in Nat
      BY <1>1, WaitingTyped DEF HostState, ChainAttempt
    <2>3. out \in Seq(ChainRun) /\ (me.output # Pair => out = RunsTo(N))
      <3>1. CASE me.output = Pair
        <4>1. Len(me.record.inputs) = 2
          BY <1>1, <1>2, <3>1 DEF HostKnows
        <4>2. \A i \in 1..2 : me.record.inputs[i] \in RunInput
          BY <2>2, <4>1
        <4>3. /\ me.record.inputs[1].baseline \in Seq(ChainRun)
              /\ \A i \in 1..2 : me.record.inputs[i].run \in ChainRun
          BY <4>2 DEF RunInput
        <4>4. [i \in 1..2 |-> me.record.inputs[i].run] \in Seq(ChainRun)
          BY <4>3
        <4> QED
          BY <3>1, <4>3, <4>4 DEF CombinedHead
      <3>2. CASE me.output # Pair
        <4>1. /\ Len(me.record.inputs) = N /\ me.record.inputs[N].head = RunsTo(N)
              /\ N \in 1..Len(chain.reserved)
          BY <1>1, <1>2, <3>2 DEF HostKnows
        <4>2. N \in 0..Len(chain.reserved)
          BY <4>1
        <4>3. RunsTo(N) \in Seq(ChainRun)
          BY <1>1, <4>2, RunsToTyped
        <4> QED
          BY <3>2, <4>1, <4>3 DEF CombinedHead
      <3> QED
        BY <3>1, <3>2
    <2>4. host' = [host EXCEPT ![h] = x]
      BY <1>1, <2>1 DEF HostState
    <2> HIDE DEF out
    <2>5. rec \in ChainAttempt /\ rec.head = out /\ rec.kept = me.record.kept
      BY <2>2, <2>3 DEF ChainAttempt
    <2> HIDE DEF rec
    <2>6. /\ x \in HostState /\ x.step = "succeeded" /\ x.output = me.output /\ x.runs = me.runs
          /\ x.record = rec
      BY <1>1, <2>5 DEF HostState, HostStep
    <2> HIDE DEF x
    <2>7. /\ chain' \in ChainFiles
          /\ chain'.dir = chain.dir /\ chain'.deps = chain.deps /\ chain'.order = chain.order
          /\ chain'.reserved = chain.reserved /\ chain'.attempt = chain.attempt
      <3>1. chain.worktrees \cup {<<"integrated", me.output>>}
              \in SUBSET ({"task", "integrated"} \X Nat)
        BY <1>1, <2>2 DEF ChainFiles
      <3> QED
        BY <1>1, <2>1, <3>1 DEF ChainFiles
    <2>8. host'[h] = x /\ \A n : RunsTo(n)' = RunsTo(n) /\ TasksOf(n)' = TasksOf(n)
      BY <1>1, <2>4, <2>7 DEF RunsTo, TasksOf
    <2>9. me.output # Pair =>
             /\ chainLock' = h /\ N \in 1..Len(chain'.reserved) /\ me.runs = RunsTo(N)
             /\ Len(me.record.kept) = N
      BY <1>1, <1>2, <2>7 DEF HostKnows
    <2>10. HostKnows(h)'
      BY <2>3, <2>5, <2>6, <2>8, <2>9 DEF HostKnows
    <2> QED
      BY <1>1, <1>2, <2>4, <2>6, <2>7, <2>10, HostActs
  <1> QED
    BY <1>3, <1>4

LEMMA KillKeepsInv ==
  ASSUME ChainInv, NEW h \in Host, KillHost(h)
  PROVE  ChainInv'
  <1>1. Finish(h) /\ UNCHANGED <<chain, taskRun>>
    BY DEF KillHost
  <1>2. /\ chain \in ChainFiles /\ taskRun \in [ChainRun -> TaskRunState]
        /\ host \in [Host -> HostState]
    BY DEF ChainInv, ChainTyped
  <1>3. /\ host' = [host EXCEPT ![h] = Waiting] /\ Waiting \in HostState
        /\ chainLock' = IF chainLock = h THEN NoChain ELSE chainLock
    BY <1>1, FinishMoves
  <1>4. HostKnows(h)'
    BY <1>2, <1>3, WaitingKnows
  <1> QED
    BY <1>1, <1>2, <1>3, <1>4, HostActs

(* A step of h that changes its integration's directory.                   *)
LEMMA AttemptActs ==
  ASSUME ChainInv, NEW h \in Host, NEW x \in HostState, host' = [host EXCEPT ![h] = x],
         NEW a \in ChainAttempt, NEW o \in AttemptId, o = host[h].output,
         chain' = [chain EXCEPT !.attempt[o] = a], UNCHANGED taskRun,
         chainLock' = chainLock \/ (chainLock = h /\ chainLock' = NoChain),
         o # Pair /\ a.status = "success" =>
             a.head = RunsTo(TasksOf(o)) /\ Len(a.kept) = TasksOf(o),
         HostKnows(h)'
  PROVE  ChainInv'
  <1>1. /\ ChainTyped /\ chain \in ChainFiles /\ taskRun \in [ChainRun -> TaskRunState]
        /\ host \in [Host -> HostState] /\ HostKnows(h) /\ chain.attempt \in [AttemptId -> ChainAttempt]
        /\ chainLock \in Host \cup {NoChain}
    BY DEF ChainInv, ChainTyped, ChainFiles
  <1>2. /\ chain'.attempt = [chain.attempt EXCEPT ![o] = a]
        /\ chain'.dir = chain.dir /\ chain'.deps = chain.deps /\ chain'.order = chain.order
        /\ chain'.reserved = chain.reserved /\ chain'.worktrees = chain.worktrees
        /\ chain' \in ChainFiles
    BY <1>1 DEF ChainFiles
  <1>3. Final \in Nat /\ AttemptId = 0..Final /\ Pair = 0
    BY WaitingTyped
  <1>4. \A i \in 1..Final : i # o => chain'.attempt[i] = chain.attempt[i]
    BY <1>1, <1>2, <1>3
  <1>5. \A n : RunsTo(n)' = RunsTo(n) /\ TasksOf(n)' = TasksOf(n) /\ Before(n)' = Before(n)
    BY <1>2 DEF RunsTo, TasksOf, Before
  <1>6. o # Pair => /\ chainLock = h /\ TasksOf(o) \in 1..Len(chain.reserved)
                    /\ TasksOf(o) <= Len(chain.reserved) /\ chain.reserved # <<>>
    BY <1>1 DEF HostKnows, ChainFiles
  <1>7. ChainTyped'
    BY <1>1, <1>2, TaskAssumption DEF ChainTyped, TaskAssumption
  <1>8. PlanOrdered'
    <2>1. PlanOrdered
      BY DEF ChainInv
    <2>2. chain.dir = "none" => \A i \in 1..Final : chain'.attempt[i].status = "none"
      BY <1>3, <1>4, <1>6, <2>1 DEF PlanOrdered
    <2> QED
      BY <1>2, <1>5, <2>1, <2>2 DEF PlanOrdered
  <1>9. TasksBuildOnEachOther'
    BY <1>2, <1>5 DEF ChainInv, TasksBuildOnEachOther
  <1>10. AttemptsHold'
    <2> SUFFICES ASSUME NEW i \in 1..Final, chain'.attempt[i].status = "success"
                 PROVE  /\ TasksOf(i) <= Len(chain'.reserved)
                        /\ chain'.attempt[i].head = RunsTo(TasksOf(i))
                        /\ Len(chain'.attempt[i].kept) = TasksOf(i)
      BY <1>5 DEF AttemptsHold
    <2>1. CASE i = o
      <3>1. chain'.attempt[i] = a /\ o # Pair
        BY <1>1, <1>2, <1>3, <2>1
      <3> QED
        BY <1>2, <1>6, <2>1, <3>1
    <2>2. CASE i # o
      BY <1>2, <1>4, <2>2 DEF ChainInv, AttemptsHold
    <2> QED
      BY <2>1, <2>2
  <1>11. ASSUME NEW g \in Host PROVE HostKnows(g)'
    <2>1. CASE g = h
      BY <2>1
    <2>2. CASE g # h
      <3>1. host'[g] = host[g]
        BY <1>1, <2>2
      <3>2. chainLock = g => chainLock' = g /\ o = Pair
        BY <1>6, <2>2
      <3>3. o = Pair => Prefix' = Prefix
        <4> SUFFICES ASSUME o = Pair PROVE Prefix' = Prefix
          OBVIOUS
        <4>1. Len(chain.order) < Final /\ Len(chain.order) \in Nat
          BY <1>1 DEF ChainInv, PlanOrdered, ChainFiles
        <4>2. \A i \in 1..Len(chain.order) : \A j \in 1..i : chain'.attempt[j] = chain.attempt[j]
          BY <1>3, <1>4, <4>1
        <4> DEFINE D == {i \in 1..Len(chain.order) :
                            \A j \in 1..i : chain.attempt[j].status = "success"}
                   E == {i \in 1..Len(chain.order) :
                            \A j \in 1..i : chain'.attempt[j].status = "success"}
        <4>3. D = E
          BY <4>2
        <4> QED
          BY <1>2, <4>3 DEF Prefix
      <3> QED
        BY <1>2, <3>1, <3>2, <3>3, OthersKnow
    <2> QED
      BY <2>1, <2>2
  <1> QED
    BY <1>7, <1>8, <1>9, <1>10, <1>11 DEF ChainInv

LEMMA OutputKeepsInv ==
  ASSUME ChainInv, NEW h \in Host, MakeOutput(h)
  PROVE  ChainInv'
  <1> DEFINE me == host[h]
             o == me.output
  <1>1. /\ ChainTyped /\ chain \in ChainFiles /\ taskRun \in [ChainRun -> TaskRunState]
        /\ host \in [Host -> HostState] /\ me \in HostState /\ HostKnows(h)
        /\ chain.attempt \in [AttemptId -> ChainAttempt]
    BY DEF ChainInv, ChainTyped, ChainFiles
  <1>2. me.step = "output" /\ UNCHANGED taskRun /\ o \in AttemptId
    BY <1>1 DEF MakeOutput, AtStep, HostState
  <1>3. CASE chain.attempt[o].status = "none"
    <2> DEFINE x == [me EXCEPT !.step = "validate"]
               a == [chain.attempt[o] EXCEPT !.status = "partial"]
    <2>1. GoTo(h, "validate") /\ UNCHANGED chainLock
          /\ chain' = [chain EXCEPT !.attempt[o].status = "partial"]
      BY <1>3 DEF MakeOutput
    <2>2. host' = [host EXCEPT ![h] = x] /\ x \in HostState
      BY <1>1, <2>1, GoToMoves DEF HostStep
    <2>3. /\ x.step = "validate" /\ x.output = o /\ x.runs = me.runs /\ x.record = me.record
          /\ host'[h] = x
      BY <1>1, <2>2 DEF HostState
    <2>4. a \in ChainAttempt /\ a.status = "partial"
      BY <1>1, <1>2 DEF ChainAttempt
    <2>5. chain' = [chain EXCEPT !.attempt[o] = a] /\ chain'.reserved = chain.reserved
          /\ chain'.order = chain.order
      BY <1>1, <2>1 DEF ChainFiles
    <2>6. \A n : RunsTo(n)' = RunsTo(n) /\ TasksOf(n)' = TasksOf(n)
      BY <2>5 DEF RunsTo, TasksOf
    <2> HIDE DEF x, a
    <2>7. HostKnows(h)'
      BY <1>1, <1>2, <2>1, <2>3, <2>5, <2>6 DEF HostKnows
    <2> QED
      BY <1>2, <2>1, <2>2, <2>4, <2>5, <2>7, AttemptActs
  <1>4. CASE chain.attempt[o].status # "none"
    <2>1. UNCHANGED chain /\ Finish(h)
      BY <1>4 DEF MakeOutput
    <2>2. /\ host' = [host EXCEPT ![h] = Waiting] /\ Waiting \in HostState
          /\ chainLock' = IF chainLock = h THEN NoChain ELSE chainLock
      BY <2>1, FinishMoves
    <2>3. HostKnows(h)'
      BY <1>1, <2>2, WaitingKnows
    <2> QED
      BY <1>1, <1>2, <2>1, <2>2, <2>3, HostActs
  <1> QED
    BY <1>3, <1>4

LEMMA ReceiptKeepsInv ==
  ASSUME ChainInv, NEW h \in Host, WriteReceipt(h)
  PROVE  ChainInv'
  <1> DEFINE me == host[h]
             o == me.output
             status == IF me.step = "succeeded" THEN "success" ELSE "rejected"
             a == [me.record EXCEPT !.status = status]
  <1>1. host \in [Host -> HostState] /\ me \in HostState /\ HostKnows(h)
    BY DEF ChainInv, ChainTyped
  <1>2. /\ chain' = [chain EXCEPT !.attempt[o] = a] /\ Finish(h) /\ UNCHANGED taskRun
        /\ me.step \in {"succeeded", "rejected"}
    BY DEF WriteReceipt
  <1>3. o \in AttemptId /\ me.record \in ChainAttempt
    BY <1>1 DEF HostState
  <1>4. /\ a \in ChainAttempt /\ a.status = status
        /\ a.head = me.record.head /\ a.kept = me.record.kept
    BY <1>3 DEF ChainAttempt
  <1>5. o # Pair /\ a.status = "success" =>
             a.head = RunsTo(TasksOf(o)) /\ Len(a.kept) = TasksOf(o)
    BY <1>1, <1>4 DEF HostKnows
  <1>6. /\ host' = [host EXCEPT ![h] = Waiting] /\ Waiting \in HostState
        /\ chainLock' = IF chainLock = h THEN NoChain ELSE chainLock
    BY <1>2, FinishMoves
  <1>7. HostKnows(h)'
    BY <1>1, <1>6, WaitingKnows
  <1> HIDE DEF a
  <1> QED
    BY <1>2, <1>3, <1>4, <1>5, <1>6, <1>7, AttemptActs

(* create: the plan is the first thing written.                            *)
LEMMA CreateKeepsInv ==
  ASSUME ChainInv, NEW h \in Host, Create(h)
  PROVE  ChainInv'
  <1>1. /\ ChainTyped /\ chain \in ChainFiles /\ taskRun \in [ChainRun -> TaskRunState]
        /\ host \in [Host -> HostState] /\ PlanOrdered /\ chain.dir = "none"
        /\ host[h].step = "idle" /\ UNCHANGED <<taskRun, chainLock>> /\ GoTo(h, "plan")
    BY DEF ChainInv, ChainTyped, Create, AtStep
  <1>2. PICK deps \in Dependencies :
          /\ OrderTasks(deps) # <<>>
          /\ chain' = [chain EXCEPT !.dir = "made", !.deps = deps, !.order = OrderTasks(deps)]
    BY DEF Create
  <1> DEFINE order == OrderTasks(deps)
  <1>3. Sorted(deps, order) /\ Len(order) < Final
    BY <1>2, OrderIsTopological
  <1> HIDE DEF order
  <1>4. /\ chain'.dir = "made" /\ chain'.deps = deps /\ chain'.order = order
        /\ chain'.reserved = chain.reserved /\ chain'.attempt = chain.attempt
        /\ chain' \in ChainFiles
    BY <1>1, <1>2, <1>3 DEF ChainFiles, Sorted, order
  <1>5. chain.reserved = <<>> /\ chain.order = <<>> /\ Len(chain.reserved) = 0
        /\ \A i \in 1..Final : chain.attempt[i].status = "none"
    BY <1>1 DEF PlanOrdered
  <1> DEFINE x == [host[h] EXCEPT !.step = "plan"]
  <1>6. host' = [host EXCEPT ![h] = x] /\ x \in HostState
    BY <1>1, GoToMoves DEF HostStep
  <1>7. x.step = "plan" /\ x.output = host[h].output
    BY <1>1 DEF HostState
  <1>8. ChainTyped'
    BY <1>1, <1>4, <1>6 DEF ChainTyped
  <1>9. PlanOrdered'
    <2>1. order \in Seq(Task) /\ Len(order) \in Nat
      BY <1>3 DEF Sorted
    <2>2. \A i \in 1..Len(order) : deps[order[i]] \subseteq {order[j] : j \in 1..(i - 1)}
      BY <1>3 DEF Sorted
    <2> QED
      BY <1>3, <1>4, <1>5, <2>1, <2>2 DEF PlanOrdered, Before
  <1>10. TasksBuildOnEachOther'
    BY <1>4, <1>5 DEF TasksBuildOnEachOther
  <1>11. AttemptsHold'
    BY <1>4, <1>5 DEF AttemptsHold
  <1>12. ASSUME NEW g \in Host PROVE HostKnows(g)'
    <2>1. Prefix \in 0..0
      BY <1>1, <1>5, PrefixSucceeded
    <2>2. /\ HostKnows(g)
          /\ host[g].output = Pair /\ host[g].step \notin {"reserve", "worktree", "prepare"}
      BY <1>5, <2>1 DEF ChainInv, HostKnows
    <2>3. CASE g = h
      <3>1. host'[g] = x
        BY <1>1, <1>6, <2>3
      <3> HIDE DEF x
      <3> QED
        BY <1>7, <2>2, <2>3, <3>1 DEF HostKnows
    <2>4. CASE g # h
      <3>1. host'[g] = host[g]
        BY <1>1, <1>6, <2>4
      <3> QED
        BY <2>2, <3>1 DEF HostKnows
    <2> QED
      BY <2>3, <2>4
  <1> QED
    BY <1>8, <1>9, <1>10, <1>11, <1>12 DEF ChainInv

LEMMA WritePlanKeepsInv ==
  ASSUME ChainInv, NEW h \in Host, WritePlan(h)
  PROVE  ChainInv'
  <1>1. chain' = [chain EXCEPT !.dir = "planned"] /\ Finish(h) /\ UNCHANGED taskRun
    BY DEF WritePlan
  <1>2. /\ chain \in ChainFiles /\ taskRun \in [ChainRun -> TaskRunState]
        /\ host \in [Host -> HostState]
    BY DEF ChainInv, ChainTyped
  <1>3. /\ chain' \in ChainFiles /\ chain'.dir = "planned"
        /\ chain'.deps = chain.deps /\ chain'.order = chain.order
        /\ chain'.reserved = chain.reserved /\ chain'.attempt = chain.attempt
    BY <1>1, <1>2 DEF ChainFiles
  <1>4. /\ host' = [host EXCEPT ![h] = Waiting] /\ Waiting \in HostState
        /\ chainLock' = IF chainLock = h THEN NoChain ELSE chainLock
    BY <1>1, FinishMoves
  <1>5. HostKnows(h)'
    BY <1>2, <1>4, WaitingKnows
  <1> QED
    BY <1>1, <1>2, <1>3, <1>4, <1>5, HostActs

(* A task is reserved on the head of the integration before it, which      *)
(* holds exactly the tasks before it.                                      *)
LEMMA ReserveKeepsInv ==
  ASSUME ChainInv, NEW h \in Host, Reserve(h)
  PROVE  ChainInv'
  <1> DEFINE n == Len(chain.reserved)
             last == IF Prefix = 0 THEN NoAttempt ELSE chain.attempt[Prefix]
             slot == [task |-> chain.order[Prefix + 1], run |-> Head(host[h].runs),
                      baseline |-> last.head, prior |-> last.inputs]
             x == [host[h] EXCEPT !.step = "worktree"]
  <1>1. /\ ChainTyped /\ chain \in ChainFiles /\ taskRun \in [ChainRun -> TaskRunState]
        /\ host \in [Host -> HostState] /\ host[h] \in HostState /\ HostKnows(h)
        /\ PlanOrdered /\ TasksBuildOnEachOther /\ AttemptsHold
        /\ Final \in Nat /\ AttemptId = 0..Final /\ Pair = 0
    BY WaitingTyped DEF ChainInv, ChainTyped
  <1>2. /\ host[h].step = "reserve" /\ UNCHANGED <<taskRun, chainLock>> /\ GoTo(h, "worktree")
        /\ chain' = [chain EXCEPT !.reserved = Append(chain.reserved, slot)]
    BY <1>1 DEF Reserve, AtStep, ChainFiles
  <1>3. /\ chain.reserved \in Seq(Slot) /\ chain.order \in Seq(Task) /\ n \in Nat
        /\ chain.attempt \in [AttemptId -> ChainAttempt] /\ Len(chain.order) \in Nat
        /\ host[h].runs \in Seq(ChainRun) /\ Len(chain.order) < Final
    BY <1>1 DEF ChainFiles, HostState, PlanOrdered
  <1>4. chainLock = h /\ n = Prefix /\ Prefix < Len(chain.order) /\ Len(host[h].runs) = 1
    BY <1>1, <1>2 DEF HostKnows
  <1>5. last \in ChainAttempt /\ last.head = RunsTo(n)
    <2>1. CASE Prefix = 0
      <3>1. NoAttempt.head = <<>> /\ RunsTo(0) = <<>>
        BY DEF NoAttempt, RunsTo
      <3> QED
        BY <1>4, <2>1, <3>1, WaitingTyped
    <2>2. CASE Prefix # 0
      <3>1. Prefix \in 1..Prefix /\ Prefix \in 1..Final /\ Prefix \in AttemptId /\ Prefix # Final
        BY <1>1, <1>3, <1>4, <2>2
      <3>2. chain.attempt[Prefix].status = "success"
        BY <1>1, <3>1, PrefixSucceeded
      <3>3. TasksOf(Prefix) = Prefix
        BY <3>1 DEF TasksOf
      <3>4. chain.attempt[Prefix].head = RunsTo(Prefix)
        BY <1>1, <3>1, <3>2, <3>3 DEF AttemptsHold
      <3> QED
        BY <1>3, <1>4, <2>2, <3>1, <3>4
    <2> QED
      BY <2>1, <2>2
  <1> HIDE DEF last
  <1>6. /\ slot \in Slot /\ slot.task = chain.order[n + 1] /\ slot.baseline = RunsTo(n)
    <2>1. chain.order[Prefix + 1] \in Task
      BY <1>3, <1>4
    <2>2. Head(host[h].runs) \in ChainRun
      BY <1>3, <1>4
    <2> QED
      BY <1>4, <1>5, <2>1, <2>2 DEF Slot, ChainAttempt
  <1> HIDE DEF slot
  <1>7. /\ chain'.reserved = Append(chain.reserved, slot)
        /\ chain'.reserved \in Seq(Slot) /\ Len(chain'.reserved) = n + 1
        /\ chain'.reserved[n + 1] = slot
        /\ \A i \in 1..n : chain'.reserved[i] = chain.reserved[i]
    <2>1. chain'.reserved = Append(chain.reserved, slot)
      BY <1>1, <1>2 DEF ChainFiles
    <2> QED
      BY <1>3, <1>6, <2>1
  <1>8. /\ chain' \in ChainFiles /\ chain'.dir = chain.dir /\ chain'.deps = chain.deps
        /\ chain'.order = chain.order /\ chain'.attempt = chain.attempt
    <2>1. Append(chain.reserved, slot) \in Seq(Slot)
      BY <1>3, <1>6
    <2> QED
      BY <1>1, <1>2, <2>1 DEF ChainFiles
  <1>9. /\ \A k : TasksOf(k)' = TasksOf(k) /\ Before(k)' = Before(k)
        /\ \A k \in 0..n : RunsTo(k)' = RunsTo(k)
    <2>1. \A k : TasksOf(k)' = TasksOf(k) /\ Before(k)' = Before(k)
      BY <1>8 DEF TasksOf, Before
    <2>2. ASSUME NEW k \in 0..n PROVE RunsTo(k)' = RunsTo(k)
      <3>1. \A j \in 1..k : chain'.reserved[j].run = chain.reserved[j].run
        BY <1>3, <1>7
      <3> QED
        BY <3>1 DEF RunsTo
    <2> QED
      BY <2>1, <2>2
  <1>10. host' = [host EXCEPT ![h] = x] /\ x \in HostState
    BY <1>1, <1>2, GoToMoves DEF HostStep
  <1>11. /\ x.step = "worktree" /\ x.output = host[h].output /\ x.runs = host[h].runs
         /\ host'[h] = x
    BY <1>1, <1>10 DEF HostState
  <1>12. ChainTyped'
    BY <1>1, <1>2, <1>8, <1>10 DEF ChainTyped
  <1> HIDE DEF x
  <1>13. PlanOrdered'
    <2>1. chain.order # <<>> /\ chain.dir # "none"
      BY <1>1, <1>3, <1>4 DEF PlanOrdered
    <2>2. Len(chain'.reserved) <= Len(chain'.order)
      BY <1>3, <1>4, <1>7, <1>8
    <2> QED
      BY <1>1, <1>8, <1>9, <2>1, <2>2 DEF PlanOrdered
  <1>14. TasksBuildOnEachOther'
    <2> SUFFICES ASSUME NEW i \in 1..(n + 1)
                 PROVE  /\ chain'.reserved[i].task = chain.order[i]
                        /\ chain'.reserved[i].baseline = RunsTo(i - 1)
                        /\ chain.deps[chain.order[i]] \subseteq Before(i)
      <3>1. \A i \in 1..(n + 1) : RunsTo(i - 1)' = RunsTo(i - 1)
        BY <1>3, <1>9
      <3> QED
        BY <1>7, <1>8, <1>9, <3>1 DEF TasksBuildOnEachOther
    <2>1. CASE i \in 1..n
      BY <1>1, <1>7, <2>1 DEF TasksBuildOnEachOther
    <2>2. CASE i = n + 1
      <3>1. i - 1 = n /\ i \in 1..Len(chain.order)
        BY <1>3, <1>4, <2>2
      <3> QED
        BY <1>1, <1>6, <1>7, <2>2, <3>1 DEF PlanOrdered
    <2>3. i \in 1..n \/ i = n + 1
      BY <1>3
    <2> QED
      BY <2>1, <2>2, <2>3, Zenon
  <1>15. AttemptsHold'
    <2> SUFFICES ASSUME NEW o \in 1..Final, chain.attempt[o].status = "success"
                 PROVE  /\ TasksOf(o) <= n + 1
                        /\ chain.attempt[o].head = RunsTo(TasksOf(o))'
                        /\ Len(chain.attempt[o].kept) = TasksOf(o)
      BY <1>7, <1>8, <1>9 DEF AttemptsHold
    <2>1. /\ TasksOf(o) <= n /\ chain.attempt[o].head = RunsTo(TasksOf(o))
          /\ Len(chain.attempt[o].kept) = TasksOf(o)
      BY <1>1 DEF AttemptsHold
    <2>2. TasksOf(o) \in Nat
      BY <1>1, <1>3 DEF TasksOf
    <2> QED
      BY <1>3, <1>9, <2>1, <2>2
  <1>16. ASSUME NEW g \in Host PROVE HostKnows(g)'
    <2>1. CASE g = h
      <3>1. chain'.reserved # <<>>
        BY <1>3, <1>7
      <3>2. PICK o : o = x.output
        OBVIOUS
      <3>3. ASSUME o # Pair
            PROVE  /\ TasksOf(o)' \in 1..Len(chain'.reserved)
                   /\ x.runs = RunsTo(TasksOf(o))'
        <4>1. PICK k : k = TasksOf(o)
          OBVIOUS
        <4>2. k \in 1..n /\ x.runs = RunsTo(k)
          BY <1>1, <1>11, <3>2, <3>3, <4>1 DEF HostKnows
        <4>3. k \in 0..n /\ k \in 1..(n + 1) /\ TasksOf(o)' = k
          BY <1>3, <1>9, <4>1, <4>2
        <4> QED
          BY <1>7, <1>9, <4>2, <4>3
      <3>4. host'[h].step = "worktree" /\ host'[h].output = o /\ host'[h].runs = x.runs
        BY <1>11, <3>2
      <3> QED
        BY <1>2, <1>4, <2>1, <3>1, <3>3, <3>4 DEF HostKnows
    <2>2. CASE g # h
      <3>1. host'[g] = host[g]
        BY <1>1, <1>10, <2>2
      <3> QED
        BY <1>4, <2>2, <3>1, OthersKnow
    <2> QED
      BY <2>1, <2>2
  <1> QED
    BY <1>12, <1>13, <1>14, <1>15, <1>16 DEF ChainInv

(* The runs' own steps.                                                    *)
LEMMA RunsKeepInv ==
  ASSUME ChainInv, ChainTyped', UNCHANGED <<chain, chainLock, host>>
  PROVE  ChainInv'
  <1>1. /\ Prefix' = Prefix
        /\ \A n : RunsTo(n)' = RunsTo(n) /\ TasksOf(n)' = TasksOf(n) /\ Before(n)' = Before(n)
    BY DEF Prefix, RunsTo, TasksOf, Before
  <1>2. ASSUME NEW g \in Host PROVE HostKnows(g)'
    BY <1>1, OthersKnow
  <1>3. PlanOrdered' /\ TasksBuildOnEachOther'
    BY <1>1 DEF ChainInv, PlanOrdered, TasksBuildOnEachOther
  <1>4. AttemptsHold'
    BY <1>1 DEF ChainInv, AttemptsHold
  <1> QED
    BY <1>2, <1>3, <1>4 DEF ChainInv

LEMMA ChainInvInit == ChainInit => ChainInv
  <1> SUFFICES ASSUME ChainInit PROVE ChainInv
    OBVIOUS
  <1>1. /\ Final \in Nat /\ Final > 0 /\ AttemptId = 0..Final /\ Pair = 0
        /\ NoAttempt \in ChainAttempt /\ Waiting \in HostState /\ NoRun \in TaskRunState
    BY WaitingTyped, NoRunTyped
  <1>2. /\ chain.dir = "none" /\ chain.order = <<>> /\ chain.reserved = <<>>
        /\ \A i \in 1..Final : chain.attempt[i].status = "none"
        /\ Len(chain.order) = 0 /\ Len(chain.reserved) = 0
    BY <1>1 DEF ChainInit, NoAttempt
  <1>3. ChainTyped
    <2>1. <<>> \in Seq(Task) /\ <<>> \in Seq(Slot) /\ [i \in AttemptId |-> NoAttempt] \in [AttemptId -> ChainAttempt]
      BY <1>1
    <2>2. chain \in ChainFiles
      BY <2>1 DEF ChainInit, ChainFiles
    <2> QED
      BY <1>1, <2>2 DEF ChainInit, ChainTyped
  <1>4. PlanOrdered /\ TasksBuildOnEachOther /\ AttemptsHold
    BY <1>1, <1>2 DEF PlanOrdered, TasksBuildOnEachOther, AttemptsHold
  <1>5. ASSUME NEW h \in Host PROVE HostKnows(h)
    BY DEF ChainInit, HostKnows, Waiting
  <1> QED
    BY <1>3, <1>4, <1>5 DEF ChainInv

LEMMA ChainInvNext == ChainInv /\ [ChainNext]_chains => ChainInv'
  <1> SUFFICES ASSUME ChainInv, [ChainNext]_chains PROVE ChainInv'
    OBVIOUS
  <1>1. CASE UNCHANGED chains
    <2>1. UNCHANGED <<chain, chainLock, host>> /\ UNCHANGED taskRun
      BY <1>1 DEF chains
    <2>2. ChainTyped'
      BY <2>1 DEF ChainInv, ChainTyped
    <2> QED
      BY <2>1, <2>2, RunsKeepInv
  <1>2. ASSUME NEW r \in ChainRun,
               PrepareAlone(r) \/ Launch(r) \/ Complete(r) \/ ReviewRun(r) \/ DisturbWorktree(r)
        PROVE  ChainInv'
    <2>1. ChainTyped
      BY DEF ChainInv
    <2> QED
      BY <1>2, <2>1, RunsTyped, RunsKeepInv
  <1>3. ASSUME NEW h \in Host,
               \/ Create(h) \/ WritePlan(h) \/ Reserve(h) \/ AddWorktree(h) \/ PrepareRun(h)
               \/ Advance(h) \/ Accept(h) \/ MakeOutput(h) \/ Validate(h) \/ ArchiveInput(h)
               \/ Apply(h) \/ WriteReceipt(h) \/ KillHost(h)
               \/ \E r \in ChainRun : PrepareTask(h, r)
               \/ \E r, s \in ChainRun : IntegratePair(h, r, s)
        PROVE  ChainInv'
    BY <1>3, CreateKeepsInv, WritePlanKeepsInv, ReserveKeepsInv, PrepareKeepsInv,
       IntegrateKeepsInv, OutputKeepsInv, ValidateKeepsInv, ArchiveKeepsInv, ApplyKeepsInv,
       ReceiptKeepsInv, KillKeepsInv
  <1> QED
    BY <1>1, <1>2, <1>3 DEF ChainNext

(* The integrations that count kept an accepted input of every task.       *)
LEMMA ChainInvSafe == ChainInv => ChainSafe
  <1> SUFFICES ASSUME ChainInv PROVE ChainSafe
    OBVIOUS
  <1>1. /\ chain \in ChainFiles /\ chain.attempt \in [AttemptId -> ChainAttempt] /\ AttemptsHold
        /\ Final \in Nat /\ AttemptId = 0..Final /\ Pair = 0 /\ Len(chain.order) \in Nat
        /\ Len(chain.order) < Final
    BY WaitingTyped DEF ChainInv, ChainTyped, ChainFiles, PlanOrdered
  <1>2. ChainTypeOK
    BY DEF ChainTypeOK, ChainInv, ChainTyped, ChainFiles, ChainAttempt
  <1>3. IntegrationHoldsItsTasks
    <2> SUFFICES ASSUME StateValid, NEW i \in 1..Final, chain.attempt[i].status = "success"
                 PROVE  /\ chain.attempt[i].head = RunsTo(TasksOf(i))
                        /\ \A j \in 1..TasksOf(i) :
                              /\ chain.attempt[i].kept[j].accepted
                              /\ chain.attempt[i].kept[j].head = chain.attempt[i].inputs[j].head
      BY DEF IntegrationHoldsItsTasks
    <2>1. chain.attempt[i].head = RunsTo(TasksOf(i)) /\ Len(chain.attempt[i].kept) = TasksOf(i)
      BY <1>1 DEF AttemptsHold
    <2>2. chain.attempt[i] \in ChainAttempt
      BY <1>1
    <2>3. DOMAIN chain.attempt[i].kept = 1..TasksOf(i)
      BY <2>1, <2>2 DEF ChainAttempt
    <2>4. CASE VerifyIntegration(chain.attempt[i])
      BY <2>1, <2>3, <2>4 DEF VerifyIntegration
    <2>5. i \in 1..Len(chain.order) \/ i = Final
      <3> SUFFICES ASSUME i # Final PROVE i \in 1..Len(chain.order)
        OBVIOUS
      <3>1. i <= Len(chain.reserved)
        BY <1>1 DEF AttemptsHold, TasksOf
      <3>2. Len(chain.reserved) <= Len(chain.order) /\ Len(chain.reserved) \in Nat
        BY <1>1 DEF ChainInv, PlanOrdered, ChainFiles
      <3> QED
        BY <1>1, <3>1, <3>2
    <2> QED
      BY <2>4, <2>5 DEF StateValid
  <1> QED
    BY <1>2, <1>3 DEF ChainInv, ChainSafe

(* Chains keep their promise whatever is killed, rejected, withdrawn or    *)
(* disturbed: every task is reserved once, after its predecessors, on the  *)
(* result of exactly the tasks before it in the plan; and an integration   *)
(* the chain goes on from holds one accepted commit of each of its tasks.  *)
THEOREM ChainsBuildOnEachOther == ChainSpec => []ChainSafe
  <1>1. ChainInit => ChainInv
    BY ChainInvInit
  <1>2. ChainInv /\ [ChainNext]_chains => ChainInv'
    BY ChainInvNext
  <1>3. ChainInv => ChainSafe
    BY ChainInvSafe
  <1> QED
    BY <1>1, <1>2, <1>3, PTL DEF ChainSpec
=============================================================================
