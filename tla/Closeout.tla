------------------------------- MODULE Closeout ------------------------------
(* Repository closeout: a receipt of what was committed, pushed and merged,*)
(* put together from separate Git commands while the worktree and the      *)
(* remote go on changing.  A revision is the sequence of its commits.      *)
EXTENDS Naturals, Sequences, SequencesExt

CONSTANTS
    Closer,      \* concurrent closeout commands with one output
    MaxChange,   \* bound on the changes made by others
    NoRevision

VARIABLES
    worktree,    \* the local repository: head, dirty paths, tracking refs
    remote,      \* the remote's branches
    changes,     \* how many changes others have made
    closer,      \* each command's step and the receipt it builds
    closed       \* the receipt at the output, once linked

closeout == <<worktree, remote, changes, closer, closed>>

Branch == {"target", "main"}
Ancestor(a, b) == IsPrefix(a, b)

NoReceipt ==
    [fetch |-> FALSE, push |-> FALSE, merge |-> FALSE, head |-> <<>>, state |-> "clean",
     fetched |-> "not-attempted", beforeState |-> "unverified", comparison |-> "no-upstream",
     pushed |-> "not-attempted", after |-> NoRevision, afterState |-> "unverified",
     merged |-> FALSE, integrated |-> "not-requested"]
Unseen == [target |-> FALSE, main |-> FALSE]

Closing(c, step) == closer[c].step = step
CloserStep(c, step, r) ==
    closer' = [closer EXCEPT ![c] = [step |-> step, seen |-> @.seen, receipt |-> r]]

(* For the property: has the remote, since the head was captured, held it  *)
(* and had it in its integration branch.                                   *)
Seen(head, branches) == [target |-> branches["target"] = head,
                         main |-> Ancestor(head, branches["main"])]
Watch(c, seen) == [b \in {"target", "main"} |-> closer[c].seen[b] \/ seen[b]]

(* Commits this repository can read: its own and those it has fetched.     *)
Readable(r) ==
    r # NoRevision /\ \/ Ancestor(r, worktree.head)
                      \/ \E b \in Branch : worktree.tracking[b] # NoRevision
                                           /\ Ancestor(r, worktree.tracking[b])

-----------------------------------------------------------------------------
(* A status entry is the set of the trees its paths lie in (two for a      *)
(* rename), and counts as the most serious of them.                        *)
Classify(entry) ==
    IF "source" \in entry THEN "source"
    ELSE IF "operational" \in entry THEN "operational" ELSE "disposable"

CommitState(dirty) ==
    IF \E e \in dirty : Classify(e) = "source" THEN "source-dirty"
    ELSE IF dirty # {} THEN "source-clean-operational-dirty" ELSE "clean"

(* _ahead_behind of two revisions.                                         *)
AheadBehind(head, other) ==
    IF other = NoRevision THEN "no-upstream"
    ELSE IF ~Readable(other) THEN "unverified"
    ELSE IF other = head THEN "equal"
    ELSE IF Ancestor(other, head) THEN "ahead"
    ELSE IF Ancestor(head, other) THEN "behind" ELSE "diverged"

(* _ls_remote: the branch as the remote has it now, or no answer.          *)
LsRemote(branch) == {[value |-> remote[branch], state |-> "verified"],
                     [value |-> NoRevision, state |-> "failed"]}

(* A push is verified by the remote naming the captured head afterwards.   *)
PushResult(r) ==
    IF r.pushed = "succeeded-unverified" /\ r.afterState = "verified" /\ r.after = r.head
    THEN "succeeded-verified" ELSE r.pushed

(* A bug for comparison: the ancestry test with its arguments exchanged.   *)
MergedVerifiedSwapped(r, seen) ==
    IF seen.state = "verified" /\ Readable(seen.value) THEN Ancestor(seen.value, r.head)
    ELSE FALSE

(* The integration branch contains the head, judged only on the remote's   *)
(* own answer and only when that revision can be read here.                *)
MergedVerified(r, seen) ==
    IF seen.state = "verified" /\ Readable(seen.value) THEN Ancestor(r.head, seen.value)
    ELSE FALSE

(* repository_closeout_semantic_errors: the claims follow from the rest.   *)
SemanticErrors(r) ==
    \/ (r.pushed = "succeeded-verified") # (r.push /\ r.pushed = "succeeded-verified"
                                            /\ r.afterState = "verified" /\ r.after = r.head)
    \/ r.fetch # (r.fetched # "not-attempted") \/ r.push # (r.pushed # "not-attempted")
    \/ ~r.fetch /\ ~r.push /\ r.beforeState = "verified"

-----------------------------------------------------------------------------
(* create_repository_closeout, command by command.                         *)
CaptureHead(c) ==
    /\ Closing(c, "idle")
    /\ \E fetch, push, merge \in BOOLEAN :
          closer' = [closer EXCEPT ![c] =
              [step |-> "status", seen |-> Seen(worktree.head, remote),
               receipt |-> [NoReceipt EXCEPT !.fetch = fetch, !.push = push,
                                !.merge = merge, !.head = worktree.head]]]
    /\ UNCHANGED <<worktree, remote, changes, closed>>

CaptureStatus(c) ==
    /\ Closing(c, "status")
    /\ CloserStep(c, "fetch", [closer[c].receipt EXCEPT !.state = CommitState(worktree.dirty)])
    /\ UNCHANGED <<worktree, remote, changes, closed>>

Fetch(c) ==
    LET r == closer[c].receipt IN
    /\ Closing(c, "fetch")
    /\ \/ /\ r.fetch
          /\ \/ /\ CloserStep(c, "before", [r EXCEPT !.fetched = "succeeded"])
                /\ worktree' = [worktree EXCEPT !.tracking = remote]
             \/ CloserStep(c, "before", [r EXCEPT !.fetched = "failed"]) /\ UNCHANGED worktree
       \/ ~r.fetch /\ CloserStep(c, "before", r) /\ UNCHANGED worktree
    /\ UNCHANGED <<remote, changes, closed>>

(* The remote before: asked when online, else the cached tracking ref.     *)
ReadBefore(c) ==
    LET r == closer[c].receipt
        cached == worktree.tracking["target"]
        Comparison(seen) ==
            LET with == IF r.fetched = "succeeded" THEN cached ELSE seen.value
                state == AheadBehind(r.head, with)
            IN  IF seen.state \in {"verified", "cached-unverified"} \/ state = "no-upstream"
                THEN state ELSE "unverified"
        Observed(seen) == [r EXCEPT !.beforeState = seen.state, !.after = seen.value,
                                    !.afterState = seen.state,
                                    !.comparison = Comparison(seen)]
    IN  /\ Closing(c, "before")
        /\ IF r.fetch \/ r.push
           THEN \E seen \in LsRemote("target") : CloserStep(c, "push", Observed(seen))
           ELSE CloserStep(c, "push", Observed(
                    [value |-> cached, state |-> IF cached = NoRevision THEN "unverified"
                                                 ELSE "cached-unverified"]))
        /\ UNCHANGED <<worktree, remote, changes, closed>>

(* git push HEAD: what the worktree holds by now, refused unless it        *)
(* extends the remote's branch.  An answer may be lost after the push.     *)
Push(c) ==
    LET r == closer[c].receipt
        Pushed(result) ==
            /\ Ancestor(remote["target"], worktree.head)
            /\ remote' = [remote EXCEPT !["target"] = worktree.head]
            /\ closer' = [d \in Closer |->
                  LET mine == [closer[d] EXCEPT !.seen = Watch(d, Seen(closer[d].receipt.head, remote'))]
                  IN  IF d # c THEN mine
                      ELSE [mine EXCEPT !.step = "after", !.receipt.pushed = result]]
    IN  /\ Closing(c, "push")
        /\ \/ /\ r.push /\ Pushed("succeeded-unverified")
              /\ worktree' = [worktree EXCEPT !.tracking["target"] = worktree.head]
           \/ r.push /\ Pushed("failed") /\ UNCHANGED worktree
           \/ /\ r.push /\ CloserStep(c, "after", [r EXCEPT !.pushed = "failed"])
              /\ UNCHANGED <<worktree, remote>>
           \/ ~r.push /\ CloserStep(c, "integration", r) /\ UNCHANGED <<worktree, remote>>
        /\ UNCHANGED <<changes, closed>>

ReadAfter(c) ==
    /\ Closing(c, "after")
    /\ \E seen \in LsRemote("target") :
          LET r == [closer[c].receipt EXCEPT !.after = seen.value, !.afterState = seen.state]
          IN  CloserStep(c, "integration", [r EXCEPT !.pushed = PushResult(r)])
    /\ UNCHANGED <<worktree, remote, changes, closed>>

ReadIntegration(c) ==
    LET r == closer[c].receipt IN
    /\ Closing(c, "integration")
    /\ \/ ~r.merge /\ CloserStep(c, "write", r)
       \/ /\ r.merge /\ (r.fetch \/ r.push)
          /\ \E seen \in LsRemote("main") :
                CloserStep(c, "write", [r EXCEPT !.merged = MergedVerified(r, seen),
                                           !.integrated = seen.state])
       \/ /\ r.merge /\ ~r.fetch /\ ~r.push
          /\ CloserStep(c, "write", [r EXCEPT !.integrated = "cached-unverified"])
    /\ UNCHANGED <<worktree, remote, changes, closed>>

(* The receipt is linked into place; the one already there stays.          *)
WriteCloseout(c) ==
    LET r == closer[c].receipt IN
    /\ Closing(c, "write")
    /\ closer' = [closer EXCEPT ![c] = [step |-> "idle", seen |-> Unseen, receipt |-> NoReceipt]]
    /\ closed' = IF closed = NoRevision /\ ~SemanticErrors(r)
                 THEN [committed |-> r.state # "source-dirty",
                       pushed |-> r.pushed = "succeeded-verified", merged |-> r.merged,
                       seen |-> closer[c].seen]
                 ELSE closed
    /\ UNCHANGED <<worktree, remote, changes>>

-----------------------------------------------------------------------------
(* Meanwhile the worktree is edited and committed to, and others push to   *)
(* the remote's branches, merge one into the other or take a push back.    *)
Change == changes < MaxChange /\ changes' = changes + 1 /\ UNCHANGED closed

EditLocally ==
    /\ Change
    /\ \E entry \in {{"operational"}, {"operational", "source"}} :
          worktree' = [worktree EXCEPT !.dirty = @ \cup {entry}]
    /\ UNCHANGED <<remote, closer>>

CommitLocally ==
    /\ Change
    /\ worktree' = [worktree EXCEPT !.dirty = {}, !.head = Append(@, "ours")]
    /\ UNCHANGED <<remote, closer>>

SetRemote(branch, r) ==
    /\ Change /\ remote' = [remote EXCEPT ![branch] = r]
    /\ closer' = [c \in Closer |->
          [closer[c] EXCEPT !.seen = Watch(c, Seen(closer[c].receipt.head, remote'))]]
    /\ UNCHANGED worktree

OthersPush ==
    \/ \E b \in Branch : SetRemote(b, Append(remote[b], "theirs"))
    \/ Ancestor(remote["main"], remote["target"]) /\ SetRemote("main", remote["target"])
    \/ remote["target"] # <<>> /\ SetRemote("target", Front(remote["target"]))

-----------------------------------------------------------------------------
CloseoutInit ==
    /\ worktree = [head |-> <<"ours">>, dirty |-> {},
                   tracking |-> [b \in Branch |-> NoRevision]]
    /\ remote = [b \in Branch |-> <<>>] /\ changes = 0
    /\ closer = [c \in Closer |-> [step |-> "idle", seen |-> Unseen, receipt |-> NoReceipt]]
    /\ closed = NoRevision

CloseoutNext ==
    \/ \E c \in Closer :
          \/ CaptureHead(c) \/ CaptureStatus(c) \/ Fetch(c) \/ ReadBefore(c) \/ Push(c)
          \/ ReadAfter(c) \/ ReadIntegration(c) \/ WriteCloseout(c)
    \/ EditLocally \/ CommitLocally \/ OthersPush

CloseoutSpec == CloseoutInit /\ [][CloseoutNext]_closeout

-----------------------------------------------------------------------------
(* A closeout receipt claims a push only when the remote, since the head   *)
(* was captured, held exactly that head, and a merge only when the         *)
(* integration branch contained it: whatever was committed locally, pushed *)
(* by others or lost between the commands the receipt is made of.          *)
CloseoutClaimsHeld ==
    closed # NoRevision => (closed.pushed => closed.seen.target) /\ (closed.merged => closed.seen.main)
-----------------------------------------------------------------------------
(* The inductive invariant behind CloseoutsClaimWhatHeld in                *)
(* OrchestrationProofs.                                                    *)

ReceiptShape(r) == r = [f \in DOMAIN NoReceipt |-> r[f]]

CloserShape ==
    /\ remote = [b \in Branch |-> remote[b]]
    /\ closer = [c \in Closer |-> closer[c]]
    /\ \A c \in Closer :
          /\ closer[c] = [step |-> closer[c].step, seen |-> closer[c].seen,
                          receipt |-> closer[c].receipt]
          /\ ReceiptShape(closer[c].receipt)

(* Nothing the remote holds while a receipt is put together goes unseen.   *)
RemoteWatched ==
    \A c \in Closer : closer[c].step # "idle" =>
        /\ remote["target"] = closer[c].receipt.head => closer[c].seen["target"]
        /\ Ancestor(closer[c].receipt.head, remote["main"]) => closer[c].seen["main"]

(* What the receipt under way and the one written claim has been seen.     *)
ClaimsSeen ==
    /\ \A c \in Closer :
          /\ closer[c].receipt.pushed = "succeeded-verified" => closer[c].seen["target"]
          /\ closer[c].receipt.merged => closer[c].seen["main"]
    /\ CloseoutClaimsHeld

CloseoutInv == CloserShape /\ RemoteWatched /\ ClaimsSeen
=============================================================================
