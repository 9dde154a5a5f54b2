------------------------------ MODULE Command -------------------------------
(* One supervised command (process.run): a child, a descendant it may      *)
(* leave behind, the pipes to them, the deadline, and the loop that drains *)
(* the pipes and ends what will not end.  A chunk is what one read drains  *)
(* and what a pipe holds.                                                  *)
EXTENDS Naturals

CONSTANTS
    MaxChunk,   \* bound on the output of child and descendant
    Limit       \* chunks of output that are retained

VARIABLES
    asked,      \* the request: has it a deadline, input for the child
    child,      \* "none", "running", or how it ended
    stubborn,   \* which of child and descendant ignore SIGTERM
    kin,        \* the descendant: in the group, away in its own session, or not
    keeps,      \* the pipes the descendant holds open
    pipe,       \* who wrote what is in the output pipe
    wrote,      \* chunks written by the child, and by both
    got,        \* chunks of the child retained, chunks retained, truncated
    input,      \* is input still to be written, is there room for it
    late,       \* the deadline has passed
    elapsed,    \* since the exit was observed: 0, 0.2 s, the grace, the end
    signalled,  \* what the loop has sent after the exit
    reading,    \* is the output still registered
    pass,       \* what this pass of the loop saw at its top
    outcome,    \* timed out, cancelled
    callStep

supervisedCall == <<asked, child, stubborn, kin, keeps, pipe, wrote, got, input, late,
             elapsed, signalled, reading, pass, outcome, callStep>>
world == <<asked, stubborn, keeps>>

Ended == {"zero", "nonzero", "signal"}
NotYet == 0 - 1
Calling == callStep \in {"poll", "deadline", "escalate", "select"}

-----------------------------------------------------------------------------
(* killpg: the members of the group that do not survive the signal.        *)
ChildAfter(sig) ==
    IF child = "running" /\ (sig = "KILL" \/ "child" \notin stubborn) THEN "signal" ELSE child
KinAfter(sig) ==
    IF kin = "group" /\ (sig = "KILL" \/ "kin" \notin stubborn) THEN "none" ELSE kin

(* Who has the other end of a pipe open.                                   *)
Held(end) == child = "running" \/ (kin # "none" /\ end \in keeps)

(* spawn: it may fail, which is a result of its own; otherwise the pipes   *)
(* are registered, the input only if there is some.                        *)
Spawn ==
    /\ callStep = "spawn"
    /\ \/ callStep' = "failed" /\ UNCHANGED <<child, elapsed>>
       \/ callStep' = "poll" /\ child' = "running" /\ elapsed' = NotYet
    /\ UNCHANGED <<world, kin, pipe, wrote, got, input, late, signalled, reading, pass, outcome>>

(* The top of the loop: the time, then poll.                               *)
Poll ==
    LET seen == IF child \in Ended /\ elapsed = NotYet THEN 0 ELSE elapsed IN
    /\ callStep = "poll" /\ callStep' = "deadline"
    /\ elapsed' = seen
    /\ pass' = [ended |-> child \in Ended, late |-> late, elapsed |-> seen]
    /\ UNCHANGED <<world, child, kin, pipe, wrote, got, input, late, signalled, reading, outcome>>

(* The deadline: SIGTERM to the group, the grace, SIGKILL if the child is  *)
(* still there.                                                            *)
Deadline ==
    /\ callStep = "deadline" /\ callStep' = "escalate"
    /\ IF ~pass.ended /\ pass.late
       THEN /\ outcome' = "timeout"
            /\ elapsed' = 0 /\ pass' = [pass EXCEPT !.ended = TRUE, !.elapsed = 0]
            /\ child' = ChildAfter("KILL")
            /\ kin' = IF ChildAfter("TERM") = "running" THEN KinAfter("KILL") ELSE KinAfter("TERM")
       ELSE UNCHANGED <<outcome, elapsed, pass, child, kin>>
    /\ UNCHANGED <<world, pipe, wrote, got, input, late, signalled, reading>>

(* A bug for comparison: a child that has exited has no more output.       *)
EscalateAtOnce ==
    /\ callStep = "escalate"
    /\ reading' = (reading /\ ~pass.ended)
    /\ callStep' = IF pass.ended /\ input = "done" THEN "returned" ELSE "select"
    /\ UNCHANGED <<world, child, kin, pipe, wrote, got, input, late, elapsed, signalled,
                   pass, outcome>>

(* A bug for comparison: the wait for descendants has no end.              *)
EscalateForEver ==
    LET open == pass.ended /\ reading
        term == open /\ pass.elapsed >= 1 /\ signalled = "nothing"
        kill == open /\ pass.elapsed >= 2 /\ signalled # "KILL"
    IN  /\ callStep = "escalate"
        /\ kin' = IF kill THEN KinAfter("KILL") ELSE IF term THEN KinAfter("TERM") ELSE kin
        /\ signalled' = IF kill THEN "KILL" ELSE IF term THEN "TERM" ELSE signalled
        /\ callStep' = IF pass.ended /\ ~reading /\ input = "done" THEN "returned" ELSE "select"
        /\ UNCHANGED <<world, child, pipe, wrote, got, input, late, elapsed, pass, outcome,
                       reading>>

(* Descendants that keep the output open are terminated, killed and        *)
(* finally given up; the loop ends when nothing is registered any more.    *)
Escalate ==
    LET open == pass.ended /\ reading
        term == open /\ pass.elapsed >= 1 /\ signalled = "nothing"
        kill == open /\ pass.elapsed >= 2 /\ signalled # "KILL"
    IN  /\ callStep = "escalate"
        /\ kin' = IF kill THEN KinAfter("KILL") ELSE IF term THEN KinAfter("TERM") ELSE kin
        /\ signalled' = IF kill THEN "KILL" ELSE IF term THEN "TERM" ELSE signalled
        /\ reading' = (reading /\ ~(open /\ pass.elapsed = 3))
        /\ callStep' = IF pass.ended /\ ~reading' /\ input = "done" THEN "returned" ELSE "select"
        /\ UNCHANGED <<world, child, pipe, wrote, got, input, late, elapsed, pass, outcome>>

(* _retain: what fits the limit.                                           *)
Retained ==
    IF got.all < Limit
    THEN [got EXCEPT !.all = @ + 1, !.child = IF pipe = "child" THEN @ + 1 ELSE @]
    ELSE [got EXCEPT !.cut = TRUE]

(* One select: a chunk or the end of the output, and room for the input or *)
(* nobody to read it.                                                      *)
Select ==
    /\ callStep = "select" /\ callStep' = "poll"
    /\ IF reading /\ pipe # "empty" THEN got' = Retained /\ pipe' = "empty" /\ UNCHANGED reading
       ELSE /\ reading' = (reading /\ Held("output"))
            /\ UNCHANGED <<got, pipe>>
    /\ input' = IF input = "room" \/ ~Held("input") THEN "done" ELSE input
    /\ UNCHANGED <<world, child, kin, wrote, late, elapsed, signalled, pass, outcome>>

(* KeyboardInterrupt anywhere in the loop: the same end, and it is raised. *)
Interrupt ==
    /\ Calling /\ callStep' = "raised" /\ outcome' = "cancelled"
    /\ child' = ChildAfter("KILL")
    /\ kin' = IF ChildAfter("TERM") = "running" THEN KinAfter("KILL") ELSE KinAfter("TERM")
    /\ UNCHANGED <<world, pipe, wrote, got, input, late, elapsed, signalled, reading, pass>>

-----------------------------------------------------------------------------
(* What child and descendant do while the call lasts, and the clock.       *)
Write(who) ==
    /\ wrote.all < MaxChunk /\ pipe = "empty"
    /\ \/ who = "child" /\ child = "running"
       \/ who = "kin" /\ kin # "none" /\ "output" \in keeps
    /\ pipe' = who
    /\ wrote' = [wrote EXCEPT !.all = @ + 1, !.child = IF who = "child" THEN @ + 1 ELSE @]
    /\ UNCHANGED <<world, child, kin, got, input, late, elapsed, signalled, reading, pass,
                   outcome, callStep>>

ReadInput ==
    /\ Held("input") /\ input = "full" /\ input' = "room"
    /\ UNCHANGED <<world, child, kin, pipe, wrote, got, late, elapsed, signalled, reading,
                   pass, outcome, callStep>>

ChildExits ==
    /\ child = "running" /\ child' \in {"zero", "nonzero"}
    /\ UNCHANGED <<world, kin, pipe, wrote, got, input, late, elapsed, signalled, reading,
                   pass, outcome, callStep>>

KinExits ==
    /\ kin # "none" /\ kin' = "none"
    /\ UNCHANGED <<world, child, pipe, wrote, got, input, late, elapsed, signalled, reading,
                   pass, outcome, callStep>>

DeadlinePasses ==
    /\ Calling /\ asked.deadline /\ ~late /\ late' = TRUE
    /\ UNCHANGED <<world, child, kin, pipe, wrote, got, input, elapsed, signalled, reading,
                   pass, outcome, callStep>>

ClockTicks ==
    /\ Calling /\ elapsed \in 0..2 /\ elapsed' = elapsed + 1
    /\ UNCHANGED <<world, child, kin, pipe, wrote, got, input, late, signalled, reading,
                   pass, outcome, callStep>>

-----------------------------------------------------------------------------
CommandInit ==
    /\ asked \in [deadline : BOOLEAN, input : BOOLEAN]
    /\ kin \in {"none", "group", "away"}
    /\ stubborn \in SUBSET (IF kin = "group" THEN {"child", "kin"} ELSE {"child"})
    /\ keeps \in IF kin = "none" THEN {{}} ELSE SUBSET {"output", "input"}
    /\ child = "none" /\ pipe = "empty" /\ wrote = [child |-> 0, all |-> 0]
    /\ got = [child |-> 0, all |-> 0, cut |-> FALSE]
    /\ input = IF asked.input THEN "full" ELSE "done"
    /\ late = FALSE /\ elapsed = NotYet /\ signalled = "nothing" /\ reading = TRUE
    /\ pass = [ended |-> FALSE, late |-> FALSE, elapsed |-> NotYet]
    /\ outcome = "none" /\ callStep = "spawn"

Supervised == Spawn \/ Poll \/ Deadline \/ Escalate \/ Select

CommandNext ==
    \/ Supervised \/ Interrupt
    \/ Calling /\ (Write("child") \/ Write("kin") \/ ReadInput \/ ChildExits \/ KinExits)
    \/ DeadlinePasses \/ ClockTicks

(* The loop runs and the clock advances; child and descendant owe nothing. *)
CommandFairness == WF_supervisedCall(Supervised) /\ WF_supervisedCall(DeadlinePasses) /\ WF_supervisedCall(ClockTicks)

CommandSpec == CommandInit /\ [][CommandNext]_supervisedCall /\ CommandFairness

-----------------------------------------------------------------------------
(* ManagedProcess.result.                                                  *)
ResultCategory == IF outcome # "none" THEN outcome
            ELSE IF child = "zero" THEN "completed" ELSE child

(* Whoever keeps the pipes open or floods them, and however the deadline   *)
(* races the exit: a result that says completed is of a child that exited  *)
(* with 0 and was not signalled, and unless the result says it was cut,    *)
(* the output has all the child wrote.                                     *)
CommandResultTruthful ==
    callStep = "returned" =>
        /\ ResultCategory = "completed" => child = "zero"
        /\ ~got.cut => got.child = wrote.child

(* The child has exited and the output is done with, but a descendant that *)
(* keeps the other end of the input and does not read holds up the loop.   *)
HeldUpByInput == child \in Ended /\ ~reading /\ input = "full" /\ Held("input")

(* A call with a deadline returns, whatever child and descendants do, save *)
(* for a descendant that sits on the input: nothing ends that wait.        *)
CommandReturns ==
    asked.deadline ~> (callStep \in {"returned", "failed", "raised"} \/ HeldUpByInput)
-----------------------------------------------------------------------------
(* The inductive invariant behind CommandsAreTruthful in                   *)
(* OrchestrationProofs.                                                    *)

CommandShape ==
    /\ child \in {"none", "running"} \cup Ended
    /\ (Calling => child # "none") /\ (callStep = "spawn" => child = "none")
    /\ pipe \in {"empty", "child", "kin"} /\ reading \in BOOLEAN /\ late \in BOOLEAN
    /\ wrote \in [child : Nat, all : Nat] /\ got \in [child : Nat, all : Nat, cut : BOOLEAN]
    /\ elapsed \in {NotYet} \cup 0..3
    /\ pass \in [ended : BOOLEAN, late : BOOLEAN, elapsed : {NotYet} \cup 0..3]
    /\ outcome \in {"none", "timeout", "cancelled"}
    /\ callStep \in {"spawn", "poll", "deadline", "escalate", "select", "returned", "failed",
                     "raised"}

(* The exit is observed after it happened, and a whole pass after it has   *)
(* been observed the pipe holds nothing of the child's: one read drains it.*)
ExitObserved ==
    /\ elapsed # NotYet => child \in Ended
    /\ pass.ended => child \in Ended
    /\ pass.elapsed \in 1..3 => child \in Ended /\ pipe # "child"
    /\ callStep = "poll" /\ elapsed # NotYet => pipe # "child"

(* What is given up has nothing of the child's left in it.                 *)
NothingLeftUnread ==
    /\ ~reading => child \in Ended /\ pipe # "child"
    /\ callStep = "returned" => ~reading
    /\ ~got.cut => wrote.child = IF pipe = "child" THEN got.child + 1 ELSE got.child

CommandInv == CommandShape /\ ExitObserved /\ NothingLeftUnread
=============================================================================
