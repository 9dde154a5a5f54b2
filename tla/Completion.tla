------------------------------ MODULE Completion ------------------------------
(* The worker's completion protocol: a draft of criteria and command       *)
(* records, acceptance commands that are run or reused from a verification *)
(* cache, the published completion, and its collection by the host.  The   *)
(* runs of this model share one checkout, hence one shared cache, and any  *)
(* of them may edit or commit while another verifies.                      *)
(*                                                                         *)
(* A run declares two criteria: "tests", bound to its one acceptance       *)
(* command, and "claim", which only the worker can assert.                 *)
EXTENDS Naturals, FiniteSets

CONSTANTS
    Worker,    \* runs on the checkout
    MaxTree,   \* bound on the versions of the working tree
    Nothing

ASSUME CompletionAssumption == MaxTree \in Nat

VARIABLES
    head, tree,  \* the committed version, and the one in the working tree
    passing,     \* versions on which the acceptance command succeeds
    draft,       \* completion-draft.json of each run
    handoff,     \* completion.json in each run's handoff directory
    cache,       \* verification-cache.json of each run
    shared,      \* the checkout's verification cache
    phase,       \* how far each run got
    worker,      \* the protocol call each worker is in
    collection,  \* the host's collection receipt
    raced        \* fingerprints recorded for a command another one ran under

completion == <<head, tree, passing, draft, handoff, cache, shared, phase,
                worker, collection, raced>>

Fingerprints == (0..MaxTree) \X (0..MaxTree)
Outcome == {"none", "pass", "fail"}
Record == [ok : BOOLEAN, at : Fingerprints]
Claimed == [result : {"completed", "partial"}, head : 0..MaxTree,
            claim : Outcome, tests : Outcome, command : Record \cup {Nothing}]

(* _new_draft, which _load_draft gives while there is no draft file.       *)
NewDraft == [open |-> TRUE, claim |-> "none", tests |-> "none", command |-> Nothing]

AtRest == [step |-> "idle", finish |-> FALSE, ok |-> FALSE, ran |-> 0, seen |-> {}]

-----------------------------------------------------------------------------
(* _workspace_fingerprint: HEAD and the bytes of the working tree.         *)
Fingerprint == <<head, tree>>

(* _context: every operation needs a run that still runs; worker calls are *)
(* sequential within a run.                                                *)
Context(r, step) == phase[r] = "running" /\ worker[r].step = step

(* A bug for comparison: an entry of another run need not be sealed.       *)
CacheEntryReusableUnsealed(r, e) ==
    \/ e.src = r
    \/ cache[e.src] # Nothing /\ cache[e.src].at = e.at

(* _cache_entry_reusable: an entry of another run counts only when that    *)
(* run is sealed with the same entry in its own cache.                     *)
CacheEntryReusable(r, e) ==
    \/ e.src = r
    \/ phase[e.src] = "sealed" /\ cache[e.src] # Nothing /\ cache[e.src].at = e.at

(* A bug for comparison: the workspace fingerprint is not compared.        *)
ReusableAnyTree(r) ==
    {e \in shared \cup ({cache[r]} \ {Nothing}) : CacheEntryReusable(r, e)}

Reusable(r) ==
    {e \in shared \cup ({cache[r]} \ {Nothing}) :
        e.at = Fingerprint /\ CacheEntryReusable(r, e)}

WithCommand(r, ok) == [draft EXCEPT ![r].command = [ok |-> ok, at |-> Fingerprint]]

(* record_criterion, by the worker: the semantic criterion.                *)
RecordCriterion(r) ==
    /\ Context(r, "idle") /\ draft[r].open
    /\ \E v \in {"pass", "fail"} :
          /\ draft[r].claim # v
          /\ draft' = [draft EXCEPT ![r].claim = v]
    /\ UNCHANGED <<head, tree, passing, handoff, cache, shared, phase, worker, collection, raced>>

(* verify_command, alone or first in finish.  The draft and both caches    *)
(* are read, then a reusable success is recorded, or the command runs.     *)
VerifyReuse(r) ==
    /\ Context(r, "idle") /\ draft[r].open
    /\ \E e \in Reusable(r), finish \in BOOLEAN :
          /\ draft' = WithCommand(r, TRUE)
          /\ cache' = [cache EXCEPT ![r] = e]
          /\ worker' = [worker EXCEPT ![r] =
                IF finish THEN [AtRest EXCEPT !.step = "verified", !.finish = TRUE, !.ok = TRUE]
                ELSE AtRest]
    /\ UNCHANGED <<head, tree, passing, handoff, shared, phase, collection, raced>>

VerifyBegin(r) ==
    /\ Context(r, "idle") /\ draft[r].open /\ Reusable(r) = {}
    /\ \E finish \in BOOLEAN :
          worker' = [worker EXCEPT ![r] =
                [AtRest EXCEPT !.step = "run", !.finish = finish, !.seen = shared]]
    /\ UNCHANGED <<head, tree, passing, draft, handoff, cache, shared, phase, collection, raced>>

VerifyRun(r) ==
    /\ Context(r, "run")
    /\ worker' = [worker EXCEPT ![r].step = "record", ![r].ran = tree,
                                ![r].ok = tree \in passing]
    /\ UNCHANGED <<head, tree, passing, draft, handoff, cache, shared, phase, collection, raced>>

(* The fingerprint is taken after the command; the shared cache is written *)
(* from the copy read before it.                                           *)
VerifyRecord(r) ==
    LET w == worker[r]
        entry == [at |-> Fingerprint, src |-> r]
    IN  /\ Context(r, "record")
        /\ draft' = WithCommand(r, w.ok)
        /\ cache' = [cache EXCEPT ![r] = IF w.ok THEN entry ELSE Nothing]
        /\ shared' = IF w.ok THEN {e \in w.seen : e.at # Fingerprint} \cup {entry} ELSE shared
        /\ raced' = IF w.ran # tree THEN raced \cup {Fingerprint} ELSE raced
        /\ worker' = [worker EXCEPT ![r] =
              IF w.finish THEN [AtRest EXCEPT !.step = "verified", !.finish = TRUE, !.ok = w.ok]
              ELSE AtRest]
        /\ UNCHANGED <<head, tree, passing, handoff, phase, collection>>

(* finish after its commands: the criterion bound to them is recorded, a   *)
(* failure or a missing claim is returned to the worker for repair.        *)
FinishCriteria(r) ==
    LET w == worker[r] IN
    /\ Context(r, "verified")
    /\ draft' = [draft EXCEPT ![r].tests = IF w.ok THEN "pass" ELSE "fail"]
    /\ worker' = [worker EXCEPT ![r] =
          IF w.ok /\ draft[r].claim # "none" THEN [AtRest EXCEPT !.step = "complete"] ELSE AtRest]
    /\ UNCHANGED <<head, tree, passing, handoff, cache, shared, phase, collection, raced>>

-----------------------------------------------------------------------------
(* substantive_completion_errors is empty: a completed result has its      *)
(* criteria passed and its commands successful; any other result names     *)
(* what is unresolved, which the worker always can.                        *)
Substantive(v) ==
    v.result = "completed" =>
        v.claim = "pass" /\ v.tests = "pass" /\ v.command # Nothing /\ v.command.ok

Completed(r, result) ==
    [result |-> result, head |-> head, claim |-> draft[r].claim,
     tests |-> draft[r].tests, command |-> draft[r].command]

(* complete: every declared criterion is recorded, the generated value is  *)
(* valid, and completion.json is written before the draft is closed.       *)
Complete(r) ==
    \E result \in {"completed", "partial"} :
        /\ \/ Context(r, "complete") /\ result = "completed"
           \/ Context(r, "idle")
        /\ draft[r].open /\ draft[r].claim # "none" /\ draft[r].tests # "none"
        /\ Substantive(Completed(r, result))
        /\ handoff' = [handoff EXCEPT ![r] = Completed(r, result)]
        /\ worker' = [worker EXCEPT ![r] = [AtRest EXCEPT !.step = "close"]]
        /\ UNCHANGED <<head, tree, passing, draft, cache, shared, phase, collection, raced>>

(* What finish could not publish is reported to the worker.                *)
CompleteRefused(r) ==
    /\ Context(r, "complete") /\ ~Substantive(Completed(r, "completed"))
    /\ worker' = [worker EXCEPT ![r] = AtRest]
    /\ UNCHANGED <<head, tree, passing, draft, handoff, cache, shared, phase, collection, raced>>

CloseDraft(r) ==
    /\ Context(r, "close")
    /\ draft' = [draft EXCEPT ![r].open = FALSE]
    /\ worker' = [worker EXCEPT ![r] = AtRest]
    /\ UNCHANGED <<head, tree, passing, handoff, cache, shared, phase, collection, raced>>

-----------------------------------------------------------------------------
(* completion_revision_errors is empty.                                    *)
AtHead(v) == v.result = "completed" => v.head = head

(* collect_completion in the terminal pipeline, which then seals the run:  *)
(* missing, or invalid, or the canonical completion.                       *)
CollectCompletion(r) ==
    /\ phase[r] = "exited"
    /\ phase' = [phase EXCEPT ![r] = "sealed"]
    /\ collection' = [collection EXCEPT ![r] =
          IF handoff[r] = Nothing THEN "missing"
          ELSE IF Substantive(handoff[r]) /\ AtHead(handoff[r]) THEN "valid" ELSE "invalid"]
    /\ UNCHANGED <<head, tree, passing, draft, handoff, cache, shared, worker, raced>>

(* The worker exits, or is killed inside a call.                           *)
WorkerExit(r) ==
    /\ phase[r] = "running"
    /\ phase' = [phase EXCEPT ![r] = "exited"]
    /\ worker' = [worker EXCEPT ![r] = AtRest]
    /\ UNCHANGED <<head, tree, passing, draft, handoff, cache, shared, collection, raced>>

Edit ==
    /\ tree < MaxTree /\ tree' = tree + 1
    /\ \E r \in Worker : phase[r] = "running"
    /\ UNCHANGED <<head, passing, draft, handoff, cache, shared, phase, worker, collection, raced>>

Commit ==
    /\ head # tree /\ head' = tree
    /\ \E r \in Worker : phase[r] = "running"
    /\ UNCHANGED <<tree, passing, draft, handoff, cache, shared, phase, worker, collection, raced>>

-----------------------------------------------------------------------------
CompletionInit ==
    /\ head = 0 /\ tree = 0 /\ passing \in SUBSET (0..MaxTree)
    /\ draft = [r \in Worker |-> NewDraft]
    /\ handoff = [r \in Worker |-> Nothing] /\ cache = [r \in Worker |-> Nothing]
    /\ shared = {} /\ phase = [r \in Worker |-> "running"]
    /\ worker = [r \in Worker |-> AtRest] /\ collection = [r \in Worker |-> "none"]
    /\ raced = {}

CompletionNext ==
    \/ \E r \in Worker :
          \/ RecordCriterion(r) \/ VerifyReuse(r) \/ VerifyBegin(r) \/ VerifyRun(r)
          \/ VerifyRecord(r) \/ FinishCriteria(r) \/ Complete(r) \/ CompleteRefused(r)
          \/ CloseDraft(r) \/ CollectCompletion(r) \/ WorkerExit(r)
    \/ Edit \/ Commit

CompletionSpec == CompletionInit /\ [][CompletionNext]_completion

-----------------------------------------------------------------------------
CompletionTypeOK ==
    /\ head \in 0..MaxTree /\ tree \in 0..MaxTree /\ passing \subseteq 0..MaxTree
    /\ draft \in [Worker -> [open : BOOLEAN, claim : Outcome, tests : Outcome,
                             command : Record \cup {Nothing}]]
    /\ handoff \in [Worker -> Claimed \cup {Nothing}]
    /\ phase \in [Worker -> {"running", "exited", "sealed"}]
    /\ collection \in [Worker -> {"none", "missing", "invalid", "valid"}]
    /\ raced \subseteq Fingerprints

(* A success on record, in a draft, a published completion or a cache, is  *)
(* a success of the command on the very tree the record names: however     *)
(* runs on one checkout edit, commit, reuse and lose each other's cache    *)
(* entries.  The one exception is an edit under the running command.       *)
VerificationTruthful ==
    LET Sound(at) == at[2] \in passing \/ at \in raced
        SoundRecord(c) == c # Nothing /\ c.ok => Sound(c.at)
    IN  /\ \A e \in shared : Sound(e.at)
        /\ \A r \in Worker :
              /\ cache[r] # Nothing => Sound(cache[r].at)
              /\ SoundRecord(draft[r].command)
              /\ handoff[r] # Nothing => SoundRecord(handoff[r].command)

(* What a run took over from another rests on that run's sealed cache, and *)
(* a completion the host found valid claims success only with every        *)
(* criterion passed and its command successful.                            *)
CompletionRestsOnEvidence ==
    \A r \in Worker :
        /\ cache[r] # Nothing /\ cache[r].src # r =>
              /\ phase[cache[r].src] = "sealed"
              /\ cache[cache[r].src] # Nothing /\ cache[cache[r].src].at = cache[r].at
        /\ collection[r] = "valid" /\ handoff[r].result = "completed" =>
              handoff[r].claim = "pass" /\ handoff[r].tests = "pass" /\ handoff[r].command.ok

(* The safety of completion: records are true, and claims rest on them.    *)
CompletionSafe == CompletionTypeOK /\ VerificationTruthful /\ CompletionRestsOnEvidence

-----------------------------------------------------------------------------
(* The inductive invariant behind the theorem of EvidenceProofs.           *)
CacheEntry == [at : Fingerprints, src : Worker]

(* What a worker holds in its call: the shared cache as it was read, and a *)
(* result that was one of the tree the command ran on.                     *)
VerifierHonest ==
    \A r \in Worker :
        /\ worker[r].seen \subseteq CacheEntry
        /\ \A e \in worker[r].seen : e.at[2] \in passing \/ e.at \in raced
        /\ worker[r].step = "record" /\ worker[r].ok => worker[r].ran \in passing

CompletionInv ==
    /\ CompletionSafe /\ VerifierHonest
    /\ shared \subseteq CacheEntry /\ cache \in [Worker -> CacheEntry \cup {Nothing}]
    /\ worker \in [Worker -> [step : {"idle", "run", "record", "verified", "complete", "close"},
                              finish : BOOLEAN, ok : BOOLEAN, ran : 0..MaxTree,
                              seen : SUBSET CacheEntry]]
    /\ \A r \in Worker : collection[r] = "valid" => phase[r] = "sealed"
=============================================================================
