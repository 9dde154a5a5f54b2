------------------------------ MODULE Delegation -----------------------------
(* delegate: a worktree for a ticket, an agent run prepared in it and a    *)
(* headless start, as one command that may be killed and repeated, beside  *)
(* the commands that remove worktrees.  The preparation of one run and its *)
(* start are single steps here; Preparation and AgentRun have theirs.      *)
EXTENDS Naturals

CONSTANTS
    DelegatedRun,  \* agent run IDs, all for one ticket and so one destination
    Delegator,     \* concurrent delegate commands
    Inputs,        \* prompt, role and worker mode of a command
    MaxCreation    \* bound on the worktrees created at the destination

VARIABLES
    destination,   \* is the directory there, is its branch, which creation it is
    creations,
    pulled,        \* was a worktree removed before its command had used it
    delegated,     \* each run: its directory, the inputs and worktree bound
    delegator      \* each command's step, run and inputs

delegation == <<destination, creations, pulled, delegated, delegator>>

NotDelegated == [dir |-> "none", inputs |-> {}, bound |-> 0]
NotCalled == [step |-> "idle", run |-> {}, inputs |-> {}]

Doing(c, step) == delegator[c].step = step
Continue(c, step) == delegator' = [delegator EXCEPT ![c].step = step]
Return(c) == delegator' = [delegator EXCEPT ![c] = NotCalled]
Update(r, x) == delegated' = [delegated EXCEPT ![r] = x]

-----------------------------------------------------------------------------
(* The run is there already, or a worktree comes first.  A directory       *)
(* without a contract, or one whose worktree is gone, is refused.          *)
Delegate(c, r, in) ==
    LET d == delegated[r].dir IN
    /\ Doing(c, "idle")
    /\ d # "partial" /\ (d # "none" => destination.there)
    /\ delegator' = [delegator EXCEPT ![c] =
          [step |-> IF d = "none" THEN "check" ELSE "match", run |-> r, inputs |-> in]]
    /\ UNCHANGED <<destination, creations, pulled, delegated>>

(* worktrees.create: a clean source, no such directory, no such branch.    *)
CheckDestination(c) ==
    /\ Doing(c, "check")
    /\ \/ ~destination.there /\ ~destination.branch /\ Continue(c, "add")
       \/ Return(c)
    /\ UNCHANGED <<destination, creations, pulled, delegated>>

(* A bug for comparison: the worktree is added over an existing one.       *)
AddWorktreeForced(c) ==
    /\ Doing(c, "add") /\ creations < MaxCreation
    /\ destination' = [there |-> TRUE, branch |-> TRUE,
                       creation |-> IF destination.there THEN destination.creation
                                    ELSE creations + 1]
    /\ creations' = creations + 1 /\ Continue(c, "match")
    /\ UNCHANGED <<pulled, delegated>>

(* git worktree add -b, which refuses what another command just made.      *)
AddWorktree(c) ==
    /\ Doing(c, "add") /\ creations < MaxCreation
    /\ IF destination.there \/ destination.branch
       THEN Return(c) /\ UNCHANGED <<destination, creations>>
       ELSE /\ destination' = [there |-> TRUE, branch |-> TRUE, creation |-> creations + 1]
            /\ creations' = creations + 1 /\ Continue(c, "match")
    /\ UNCHANGED <<pulled, delegated>>

(* _matching_existing_run: reused when its recorded inputs are these, and  *)
(* started if nobody did.                                                  *)
MatchExisting(c) ==
    LET d == delegated[delegator[c].run] IN
    /\ Doing(c, "match")
    /\ CASE d.dir = "none" -> Continue(c, "prepare")
         [] d.dir = "partial" -> Return(c)
         [] OTHER -> IF d.inputs # delegator[c].inputs THEN Return(c)
                     ELSE IF d.dir = "prepared" THEN Continue(c, "start") ELSE Return(c)
    /\ UNCHANGED <<destination, creations, pulled, delegated>>

(* agent_runs.prepare: refused and undone, or the run is bound to the      *)
(* selected worktree; killed, it leaves part of a directory.               *)
PrepareDelegated(c) ==
    LET me == delegator[c] IN
    /\ Doing(c, "prepare")
    /\ \/ /\ delegated[me.run].dir = "none" /\ destination.there
          /\ Update(me.run, [dir |-> "prepared", inputs |-> me.inputs,
                             bound |-> destination.creation])
          /\ Continue(c, "start")
       \/ /\ delegated[me.run].dir = "none"
          /\ Update(me.run, [NotDelegated EXCEPT !.dir = "partial"]) /\ Return(c)
       \/ UNCHANGED delegated /\ Return(c)
    /\ UNCHANGED <<destination, creations, pulled>>

(* Headless: started, and only from prepared.  An external run waits for   *)
(* its host.                                                               *)
StartDelegated(c) ==
    LET d == delegated[delegator[c].run] IN
    /\ Doing(c, "start") /\ Return(c)
    /\ IF delegator[c].inputs = "headless" /\ d.dir = "prepared"
       THEN Update(delegator[c].run, [d EXCEPT !.dir = "running"])
       ELSE UNCHANGED delegated
    /\ UNCHANGED <<destination, creations, pulled>>

KillDelegator(c) ==
    /\ ~Doing(c, "idle") /\ Return(c)
    /\ UNCHANGED <<destination, creations, pulled, delegated>>

(* worktrees.remove: the directory, and the branch when asked to.          *)
RemoveWorktree ==
    /\ destination.there
    /\ \E branch \in BOOLEAN :
          destination' = [destination EXCEPT !.there = FALSE, !.branch = ~branch]
    /\ pulled' = (pulled \/ \E c \in Delegator : delegator[c].step \in {"match", "prepare"})
    /\ UNCHANGED <<creations, delegated, delegator>>

-----------------------------------------------------------------------------
DelegationInit ==
    /\ destination = [there |-> FALSE, branch |-> FALSE, creation |-> 0] /\ creations = 0
    /\ pulled = FALSE
    /\ delegated = [r \in DelegatedRun |-> NotDelegated]
    /\ delegator = [c \in Delegator |-> NotCalled]

DelegationNext ==
    \/ \E c \in Delegator :
          \/ \E r \in DelegatedRun, in \in Inputs : Delegate(c, r, in)
          \/ CheckDestination(c) \/ AddWorktree(c) \/ MatchExisting(c)
          \/ PrepareDelegated(c) \/ StartDelegated(c) \/ KillDelegator(c)
    \/ RemoveWorktree

DelegationSpec == DelegationInit /\ [][DelegationNext]_delegation

-----------------------------------------------------------------------------
(* However often delegations of one ticket are killed, repeated or race    *)
(* each other: a worktree that was created becomes the workdir of at most  *)
(* one run, unless somebody removed one that a command was still about to  *)
(* use.                                                                    *)
WorktreeNotShared ==
    ~pulled =>
        \A r, s \in DelegatedRun :
            r # s /\ delegated[r].bound # 0 => delegated[r].bound # delegated[s].bound

-----------------------------------------------------------------------------
(* The inductive invariant behind WorktreesNotShared in ProvisionProofs.   *)

DelegationTypeOK ==
    /\ destination \in [there : BOOLEAN, branch : BOOLEAN, creation : Nat]
    /\ creations \in Nat /\ pulled \in BOOLEAN
    /\ delegated \in [DelegatedRun -> [dir : {"none", "partial", "prepared", "running"},
                                       inputs : Inputs \cup {{}}, bound : Nat]]
    /\ delegator \in [Delegator ->
           [step : {"check", "add", "match", "prepare", "start"}, run : DelegatedRun,
            inputs : Inputs] \cup {NotCalled}]

(* A command that is about to prepare a run which has no directory yet: it *)
(* has just added the worktree.                                            *)
Owner(c) ==
    delegator[c].step \in {"match", "prepare"} /\ delegated[delegator[c].run].dir = "none"

(* No worktree is numbered before its creation, and unless one was pulled  *)
(* away there is one owner at a time, of a worktree nobody is bound to.    *)
OneOwner ==
    /\ destination.creation <= creations
    /\ \A r \in DelegatedRun : delegated[r].bound <= creations
    /\ ~pulled =>
          \A c \in Delegator : Owner(c) =>
              /\ destination.there
              /\ \A r \in DelegatedRun : delegated[r].bound # destination.creation
              /\ \A d \in Delegator : Owner(d) => d = c

DelegationInv == DelegationTypeOK /\ OneOwner /\ WorktreeNotShared
=============================================================================
