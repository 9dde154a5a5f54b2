----------------------------- MODULE MCOversight -----------------------------
(* What must go on by itself, on one small instance each: the inbox with   *)
(* its watch, the supervisors of a run, and the loop around a supervised   *)
(* command.  They share no state the models speak of, so a behaviour       *)
(* follows one of them.                                                    *)
EXTENDS Inbox, Supervision, Command

CONSTANTS a, b, e1, s1

VARIABLE part

oversight == <<inboxVars, supervision, supervisedCall, part>>

(* One child is about to complete, one has a message that is not           *)
(* delivered.                                                              *)
Messages ==
    [c \in Child |-> IF c = a THEN <<"progress", "task_complete">>
                     ELSE <<"steer", "progress">>]

(* The components a behaviour does not follow start in one fixed state; a  *)
(* command without a deadline need not return.                             *)
OversightInit ==
    /\ part \in {"inbox", "supervision", "command"}
    /\ InboxInit /\ SupervisionInit /\ CommandInit
    /\ part = "supervision" \/ ~healthFull
    /\ \/ part = "command" /\ asked.deadline
       \/ part # "command" /\ ~asked.deadline /\ ~asked.input /\ stubborn = {} /\ kin = "none"

InInbox(action) == part = "inbox" /\ action /\ UNCHANGED <<supervision, supervisedCall, part>>
InSupervision(action) ==
    part = "supervision" /\ action /\ UNCHANGED <<inboxVars, supervisedCall, part>>
InCommand(action) == part = "command" /\ action /\ UNCHANGED <<inboxVars, supervision, part>>

OversightNext == InInbox(InboxNext) \/ InSupervision(SupervisionNext) \/ InCommand(CommandNext)

(* The watch and the supervisors run until they are killed, and are        *)
(* started again; the loop around a command runs and the clock advances,   *)
(* while its child and descendants owe nothing.                            *)
OversightFairness ==
    /\ WF_oversight(InInbox(WatchStep))
    /\ \A s \in Supervisor : WF_oversight(InSupervision(Supervise(s)))
    /\ WF_oversight(InCommand(Supervised))
    /\ WF_oversight(InCommand(DeadlinePasses)) /\ WF_oversight(InCommand(ClockTicks))

OversightSpec == OversightInit /\ [][OversightNext]_oversight /\ OversightFairness
=============================================================================
