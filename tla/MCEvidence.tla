----------------------------- MODULE MCEvidence -----------------------------
(* What is made of a run's evidence while it grows, on one small instance  *)
(* each: the worker's completion claim, the cursors of those who read a    *)
(* journal, the inbox that collects journals, the supervisors, the index,  *)
(* and the contracts and receipts of a hierarchy.  They share no state the *)
(* models speak of, so a behaviour follows one of them.                    *)
EXTENDS Completion, Cursors, Inbox, Supervision, Index, Hierarchy, TLC

CONSTANTS r1, r2, p1, p2, a, b

VARIABLE part

parts == <<completion, cursors, inboxVars, supervision, index, hierarchy, part>>

(* Two children of an inbox: one is about to complete, one has a message   *)
(* that is not delivered.                                                  *)
Messages ==
    [c \in Child |-> IF c = a THEN <<"progress", "task_complete">>
                     ELSE <<"steer", "progress">>]

(* Three contract sets: the third asks for a model its hierarchy does not  *)
(* allow.  Two teams may use more together than the hierarchy has.         *)
Contracts ==
    [s \in {"first", "second", "wide"} |->
        [hierarchy |-> IF s = "wide" THEN "other" ELSE "same", seconds |-> 2,
         models |-> IF s = "wide" THEN {"m", "n"} ELSE {"m"}]]
Authority == [h \in {"same", "other"} |-> [seconds |-> 3, models |-> {"m"}]]

(* Runs are interchangeable, and so are the processes.                     *)
Interchangeable == Permutations({r1, r2}) \cup Permutations({p1, p2})

(* The components a behaviour does not follow start in one fixed state;    *)
(* the tests pass until the edit.                                          *)
EvidenceInit ==
    /\ part \in {"completion", "cursors", "inbox", "supervision", "index", "hierarchy"}
    /\ CompletionInit /\ CursorsInit /\ InboxInit
    /\ SupervisionInit /\ IndexInit /\ HierarchyInit
    /\ passing = {0}
    /\ part = "supervision" \/ ~healthFull
    /\ \/ files = [f \in File |-> NoFile]
       \/ part = "hierarchy" /\ files = InstalledFiles("first")

EvidenceNext ==
    \/ part = "completion" /\ CompletionNext
       /\ UNCHANGED <<cursors, inboxVars, supervision, index, hierarchy, part>>
    \/ part = "cursors" /\ CursorsNext
       /\ UNCHANGED <<completion, inboxVars, supervision, index, hierarchy, part>>
    \/ part = "inbox" /\ InboxNext
       /\ UNCHANGED <<completion, cursors, supervision, index, hierarchy, part>>
    \/ part = "supervision" /\ SupervisionNext
       /\ UNCHANGED <<completion, cursors, inboxVars, index, hierarchy, part>>
    \/ part = "index" /\ IndexNext
       /\ UNCHANGED <<completion, cursors, inboxVars, supervision, hierarchy, part>>
    \/ part = "hierarchy" /\ HierarchyNext
       /\ UNCHANGED <<completion, cursors, inboxVars, supervision, index, part>>

EvidenceSpec == EvidenceInit /\ [][EvidenceNext]_parts
=============================================================================
