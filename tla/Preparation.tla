---------------------------- MODULE Preparation -----------------------------
(* Preparing agent runs: the run directory a prepare call builds and rolls *)
(* back, the agent-name lease it claims, what makes a name free again, and *)
(* restart and retirement.  A run is <<id, k>>: k = 0 is the original, the *)
(* others are the ids next_retry_id gives to its retries.                  *)
EXTENDS Naturals, FiniteSets

CONSTANTS
    Id,         \* run ids somebody asks for
    MaxRetry,   \* bound on the retries of a run
    Name,       \* agent names
    Call,       \* prepare and restart calls
    MaxAtOnce,  \* bound on the calls in progress at a time
    None

Run == Id \X (0..MaxRetry)
Lease == [run : Run, call : Call, name : Name]

ASSUME PreparationAssumption == MaxRetry \in Nat /\ None \notin Lease

VARIABLES
    dir,        \* the run directory
    life,       \* the execution state its events.jsonl records
    nameOf,     \* agent_name in status.json
    workerGone, \* status.json says worker_alive = false
    lease,      \* agent-name-leases/<name>.json: run and calling process
    pc, req,    \* step and request of each call
    sampled,    \* what the call saw when it began: directory, handoff
    claimed,    \* names the call found in use
    overlap     \* history: run ids that two calls have prepared at a time

files == <<dir, life, nameOf, workerGone>>
calls == <<pc, req, sampled, claimed>>
preparation == <<files, lease, calls, overlap>>

DirState == {"absent", "empty", "partial", "preflight", "published", "ready"}
LifeState == {"none", "prepared", "running", "ended", "retired"}
InProgress == {"preflight", "claim", "handoff", "publish", "runner",
               "undo", "release"}
CallStep == InProgress \cup {"idle", "done", "killed"}
NoRequest == [run |-> None, name |-> None]
NothingSeen == [dir |-> FALSE, handoff |-> FALSE]

HasHandoff(r) == dir[r] \in {"partial", "published", "ready"}
Become(c, step) == pc' = [pc EXCEPT ![c] = step]

(* The call is over: what it kept in its variables is gone.                *)
Finish(c, step) ==
    /\ Become(c, step)
    /\ req' = [req EXCEPT ![c] = NoRequest]
    /\ sampled' = [sampled EXCEPT ![c] = NothingSeen]
    /\ claimed' = [claimed EXCEPT ![c] = {}]

-----------------------------------------------------------------------------
(* status_agent_active: a prepared run holds its name, and a running one   *)
(* until somebody has seen its worker dead.                                *)
Active(r) == life[r] = "prepared" \/ (life[r] = "running" /\ ~workerGone[r])

(* _active_name_owners.                                                    *)
Owners(n, except) == {r \in Run \ {except} : nameOf[r] = n /\ Active(r)}

(* A bug for comparison: a lease counts only once its run has a status.    *)
NameInUsePublished(n, r) ==
    \/ Owners(n, r) # {}
    \/ /\ lease[n] # None /\ lease[n].run # r
       /\ nameOf[lease[n].run] # None /\ Active(lease[n].run)

(* The checks of claim_agent_name: active runs, then the lease, which      *)
(* counts while its run is active, or while its process lives if the run   *)
(* has no status yet.                                                      *)
NameInUse(n, r) ==
    \/ Owners(n, r) # {}
    \/ /\ lease[n] # None /\ lease[n].run # r
       /\ IF life[lease[n].run] # "none" THEN Active(lease[n].run)
          ELSE pc[lease[n].call] \in InProgress

-----------------------------------------------------------------------------
(* The first id next_retry_id does not find among the statuses.            *)
NextRetry(i, k) ==
    /\ k \in 1..MaxRetry /\ life[<<i, k>>] = "none"
    /\ \A j \in 1..(k - 1) : life[<<i, j>>] # "none"

Begin(c, r, n) ==
    /\ pc[c] = "idle"
    /\ Cardinality({d \in Call : pc[d] \in InProgress}) < MaxAtOnce
    /\ req' = [req EXCEPT ![c] = [run |-> r, name |-> n]]
    /\ sampled' = [sampled EXCEPT ![c] = [dir |-> dir[r] # "absent",
                                          handoff |-> HasHandoff(r)]]
    /\ overlap' = IF \E d \in Call : pc[d] \in InProgress /\ req[d].run = r
                  THEN overlap \cup {r} ELSE overlap
    /\ Become(c, "preflight")
    /\ UNCHANGED <<files, lease, claimed>>

(* prepare, for a requested name or for an automatic one (None).           *)
BeginPrepare(c) ==
    \E i \in Id, n \in Name \cup {None} : Begin(c, <<i, 0>>, n)

(* restart of a run that has ended: the same name, the next free id.       *)
BeginRestart(c) ==
    \E i \in Id, k \in 1..MaxRetry :
        /\ life[<<i, 0>>] \in {"ended", "retired"} /\ nameOf[<<i, 0>>] # None
        /\ NextRetry(i, k)
        /\ Begin(c, <<i, k>>, nameOf[<<i, 0>>])

(* Prerequisites that are not accepted leave a failed run behind as        *)
(* evidence, unless the directory already holds something.                 *)
PreflightRefuses(c) ==
    LET r == req[c].run
    IN  /\ pc[c] = "preflight" /\ Become(c, "undo")
        /\ IF dir[r] \in {"absent", "empty"}
           THEN /\ dir' = [dir EXCEPT ![r] = "preflight"]
                /\ life' = [life EXCEPT ![r] = "ended"]
           ELSE UNCHANGED <<dir, life>>
        /\ UNCHANGED <<nameOf, workerGone, lease, req, sampled, claimed, overlap>>

(* Accepted prerequisites change nothing; then a directory that is not     *)
(* empty is refused.                                                       *)
MakeDirectory(c) ==
    LET r == req[c].run
    IN  /\ pc[c] = "preflight"
        /\ IF dir[r] \in {"absent", "empty"}
           THEN Become(c, "claim") /\ dir' = [dir EXCEPT ![r] = "empty"]
           ELSE Become(c, "undo") /\ UNCHANGED dir
        /\ UNCHANGED <<life, nameOf, workerGone, lease, req, sampled,
                       claimed, overlap>>

(* The name claim_agent_name is called with: the requested one, or one     *)
(* that resolve_agent_identity finds free.                                 *)
Candidate(c, n) ==
    IF req[c].name # None THEN n = req[c].name
    ELSE n \notin claimed[c] /\ Owners(n, None) = {}

ClaimName(c) ==
    \E n \in Name :
        /\ pc[c] = "claim" /\ Candidate(c, n) /\ ~NameInUse(n, req[c].run)
        /\ lease' = [lease EXCEPT ![n] = [run |-> req[c].run, call |-> c, name |-> n]]
        /\ claimed' = [claimed EXCEPT ![c] = {n}]
        /\ Become(c, "handoff")
        /\ UNCHANGED <<files, req, sampled, overlap>>

(* A requested name in use raises; an automatic one is tried no more.      *)
ClaimFails(c) ==
    \E n \in Name :
        /\ pc[c] = "claim" /\ Candidate(c, n) /\ NameInUse(n, req[c].run)
        /\ IF req[c].name # None THEN Become(c, "undo") /\ UNCHANGED claimed
           ELSE claimed' = [claimed EXCEPT ![c] = @ \cup {n}] /\ UNCHANGED pc
        /\ UNCHANGED <<files, lease, req, sampled, overlap>>

(* Prompt, command, templates, baseline, provenance, contract: files that  *)
(* nobody else reads yet; writing one makes its parents, so a directory    *)
(* that was removed meanwhile comes back.                                  *)
WithArtifacts(d) == IF d \in {"absent", "empty"} THEN "partial" ELSE d

(* _create_handoff_dir refuses an existing one.                            *)
CreateHandoff(c) ==
    LET r == req[c].run
    IN  /\ pc[c] = "handoff"
        /\ IF HasHandoff(r) THEN Become(c, "undo") /\ UNCHANGED dir
           ELSE Become(c, "publish") /\ dir' = [dir EXCEPT ![r] = WithArtifacts(@)]
        /\ UNCHANGED <<life, nameOf, workerGone, lease, req, sampled,
                       claimed, overlap>>

(* initialize_execution makes the run exist.                               *)
PublishRun(c) ==
    LET r == req[c].run
    IN  /\ pc[c] = "publish"
        /\ IF life[r] # "none" THEN Become(c, "undo") /\ UNCHANGED files
           ELSE /\ Become(c, "runner")
                /\ dir' = [dir EXCEPT ![r] = "published"]
                /\ life' = [life EXCEPT ![r] = "prepared"]
                /\ nameOf' = [nameOf EXCEPT ![r] = CHOOSE n \in claimed[c] : TRUE]
                /\ UNCHANGED workerGone
        /\ UNCHANGED <<lease, req, sampled, claimed, overlap>>

(* The agent context, the runner script and its path in status.json; an    *)
(* update of a status that is gone raises.                                 *)
WriteRunner(c) ==
    LET r == req[c].run
    IN  /\ pc[c] = "runner"
        /\ IF life[r] = "none"
           THEN Become(c, "undo") /\ UNCHANGED <<dir, req, sampled, claimed>>
           ELSE Finish(c, "done") /\ dir' = [dir EXCEPT ![r] = "ready"]
        /\ UNCHANGED <<life, nameOf, workerGone, lease, overlap>>

(* Anything else that raises on the way.                                   *)
PrepareRaises(c) ==
    /\ pc[c] \in {"claim", "handoff", "publish", "runner"} /\ Become(c, "undo")
    /\ UNCHANGED <<files, lease, req, sampled, claimed, overlap>>

(* The rollback of prepare: what did not exist when the call began is      *)
(* removed, whoever made it, except a preflight record.                    *)
UndoFiles(c) ==
    LET r == req[c].run
        remove == ~sampled[c].dir /\ dir[r] \notin {"absent", "preflight"}
        gut == ~remove /\ ~sampled[c].handoff /\ HasHandoff(r)
    IN  /\ pc[c] = "undo" /\ Become(c, "release")
        /\ dir' = [dir EXCEPT ![r] = IF remove THEN "absent"
                                     ELSE IF gut /\ @ = "partial" THEN "empty" ELSE @]
        /\ life' = [life EXCEPT ![r] = IF remove THEN "none" ELSE @]
        /\ nameOf' = [nameOf EXCEPT ![r] = IF remove THEN None ELSE @]
        /\ workerGone' = [workerGone EXCEPT ![r] = IF remove THEN FALSE ELSE @]
        /\ UNCHANGED <<lease, req, sampled, claimed, overlap>>

(* A bug for comparison: only the requested name is released.              *)
UndoLeaseRequested(c) ==
    /\ pc[c] = "release" /\ Finish(c, "done")
    /\ lease' = [n \in Name |->
                    IF n = req[c].name /\ lease[n] # None
                       /\ lease[n].run = req[c].run THEN None ELSE lease[n]]
    /\ UNCHANGED <<files, overlap>>

(* release_agent_name without a name: every lease of this run id.          *)
UndoLease(c) ==
    /\ pc[c] = "release" /\ Finish(c, "done")
    /\ lease' = [n \in Name |->
                    IF lease[n] # None /\ lease[n].run = req[c].run
                    THEN None ELSE lease[n]]
    /\ UNCHANGED <<files, overlap>>

KillCall(c) ==
    /\ pc[c] \in InProgress /\ Finish(c, "killed")
    /\ UNCHANGED <<files, lease, overlap>>

-----------------------------------------------------------------------------
(* What happens to a published run.                                        *)

(* start needs the runner_path, the last thing prepare records.            *)
StartRun(r) ==
    /\ life[r] = "prepared" /\ dir[r] = "ready"
    /\ life' = [life EXCEPT ![r] = "running"]
    /\ UNCHANGED <<dir, nameOf, workerGone, lease, calls, overlap>>

(* The worker of a running run has died; observe persists worker_alive.    *)
ObserveRun(r) ==
    /\ life[r] = "running"
    /\ workerGone' = [workerGone EXCEPT ![r] = TRUE]
    /\ UNCHANGED <<dir, life, nameOf, lease, calls, overlap>>

(* The terminal pipeline, run by the worker or by finalize.                *)
EndRun(r) ==
    /\ life[r] = "running"
    /\ life' = [life EXCEPT ![r] = "ended"]
    /\ UNCHANGED <<dir, nameOf, workerGone, lease, calls, overlap>>

(* retire_external_agent of an unbound prepared run: the transition, and   *)
(* then, or in a later call that finds it recorded, the release.           *)
RetireRun(r) ==
    /\ life[r] = "prepared"
    /\ life' = [life EXCEPT ![r] = "retired"]
    /\ workerGone' = [workerGone EXCEPT ![r] = TRUE]
    /\ UNCHANGED <<dir, nameOf, lease, calls, overlap>>

RetireRelease(r) ==
    /\ life[r] = "retired"
    /\ lease[nameOf[r]] # None /\ lease[nameOf[r]].run = r
    /\ lease' = [lease EXCEPT ![nameOf[r]] = None]
    /\ UNCHANGED <<files, calls, overlap>>

-----------------------------------------------------------------------------
PreparationInit ==
    /\ dir = [r \in Run |-> "absent"]
    /\ life = [r \in Run |-> "none"]
    /\ nameOf = [r \in Run |-> None]
    /\ workerGone = [r \in Run |-> FALSE]
    /\ lease = [n \in Name |-> None]
    /\ pc = [c \in Call |-> "idle"]
    /\ req = [c \in Call |-> NoRequest]
    /\ sampled = [c \in Call |-> NothingSeen]
    /\ claimed = [c \in Call |-> {}]
    /\ overlap = {}

PrepareStep(c) ==
    \/ PreflightRefuses(c) \/ MakeDirectory(c)
    \/ ClaimName(c) \/ ClaimFails(c) \/ CreateHandoff(c)
    \/ PublishRun(c) \/ WriteRunner(c) \/ PrepareRaises(c) \/ UndoFiles(c) \/ UndoLease(c)

PreparationNext ==
    \/ \E c \in Call : BeginPrepare(c) \/ BeginRestart(c) \/ PrepareStep(c)
                       \/ KillCall(c)
    \/ \E r \in Run : StartRun(r) \/ ObserveRun(r) \/ EndRun(r)
                      \/ RetireRun(r) \/ RetireRelease(r)

PreparationSpec == PreparationInit /\ [][PreparationNext]_preparation

-----------------------------------------------------------------------------
PreparationTypeOK ==
    /\ dir \in [Run -> DirState] /\ life \in [Run -> LifeState]
    /\ nameOf \in [Run -> Name \cup {None}]
    /\ workerGone \in [Run -> BOOLEAN]
    /\ lease \in [Name -> Lease \cup {None}]
    /\ pc \in [Call -> CallStep]
    /\ \A c \in Call : claimed[c] \subseteq Name
    /\ overlap \subseteq Run
    /\ \A r \in Run : life[r] # "none" => dir[r] \in {"preflight", "published", "ready"}

(* A logical worker name belongs to one active run at a time, through      *)
(* killed prepares, automatic and requested names, restarts and            *)
(* retirement.  The one way around it are two prepares of the same run id  *)
(* at once: either may take over the other's lease or roll back its        *)
(* directory and lease (agent_runs.py:1041).                               *)
NamesExclusive ==
    \A r, s \in Run :
        (r # s /\ Active(r) /\ Active(s) /\ nameOf[r] = nameOf[s])
            => {r, s} \cap overlap # {}

(* No lease leaks: it belongs to a published run, to a call in progress or *)
(* to one that was killed, whose dead process makes it reclaimable.        *)
LeasesHaveOwners ==
    \A n \in Name :
        lease[n] # None =>
            \/ life[lease[n].run] # "none" \/ lease[n].run \in overlap
            \/ pc[lease[n].call] \in InProgress \cup {"killed"}

(* The safety of preparation: names are exclusive, and no lease leaks.     *)
PreparationSafe == PreparationTypeOK /\ NamesExclusive /\ LeasesHaveOwners

-----------------------------------------------------------------------------
(* The inductive invariant behind the theorem of ProvisionProofs.          *)

CallsTyped ==
    /\ req \in [Call -> [run : Run \cup {None}, name : Name \cup {None}]]
    /\ sampled \in [Call -> [dir : BOOLEAN, handoff : BOOLEAN]]
    /\ claimed \in [Call -> SUBSET Name]

(* Only calls that overlap work on one run id.                             *)
CallsApart ==
    /\ \A c \in Call : pc[c] \in InProgress => req[c].run \in Run
    /\ \A c, d \in Call :
          (c # d /\ pc[c] \in InProgress /\ pc[d] \in InProgress
           /\ req[c].run = req[d].run) => req[c].run \in overlap

(* A call that has found the directory empty works on a run that does not  *)
(* exist yet.                                                              *)
CallsFresh ==
    \A c \in Call : pc[c] \in {"claim", "handoff", "publish"} =>
        (req[c].run \in overlap \/ life[req[c].run] = "none")

(* No active run but the call's own, and those that overlap, goes by n.    *)
NameFree(n, r) == \A s \in Run \ (overlap \cup {r}) : Active(s) => nameOf[s] # n

(* A call that has claimed a name holds its lease, and no active run goes  *)
(* by that name.                                                           *)
HoldsClaim(c, n) ==
    /\ lease[n] # None /\ lease[n].run = req[c].run /\ lease[n].call = c
    /\ NameFree(n, req[c].run)

ClaimsHeld ==
    \A c \in Call : pc[c] \in {"handoff", "publish"} =>
        \E n \in Name :
            claimed[c] = {n} /\ (req[c].run \in overlap \/ HoldsClaim(c, n))

(* A lease is one of the run its call works on; where a call began without *)
(* a directory, the other leases of the run are of killed calls.           *)
LeaseOfCall(n) ==
    /\ pc[lease[n].call] # "idle"
    /\ pc[lease[n].call] \in InProgress =>
          req[lease[n].call].run = lease[n].run
    /\ \A d \in Call :
          (pc[d] \in InProgress /\ ~sampled[d].dir
           /\ req[d].run = lease[n].run /\ req[d].run \notin overlap)
              => (lease[n].call = d \/ pc[lease[n].call] = "killed")

LeasesOfCalls == \A n \in Name : lease[n] # None => LeaseOfCall(n)

PreparationInv ==
    /\ PreparationSafe
    /\ CallsTyped /\ CallsApart /\ CallsFresh /\ ClaimsHeld /\ LeasesOfCalls
=============================================================================
