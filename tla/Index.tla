-------------------------------- MODULE Index --------------------------------
(* The rebuildable index: rows derived from run directories while runs are *)
(* written, sealed and archived.  Indexers exclude each other by the       *)
(* writer lock, not the writers of the evidence.                           *)
EXTENDS Naturals, FiniteSets

CONSTANTS
    IndexedRun,
    Indexer,
    MaxVersion,  \* bound on the writes to one run's evidence
    NoRow        \* also: no holder of the lock, no place

ASSUME IndexAssumption == MaxVersion \in Nat \ {0} /\ NoRow \notin Indexer

VARIABLES
    rundir,     \* each run directory: where it is, its version, its defects
    rows,       \* the runs table, with what each row was derived from
    exists,     \* is there a database file
    writerLock,
    indexer,    \* each indexer's step, its scope and the runs it still has to do
    steady      \* has no run changed since the lock was taken

index == <<rundir, rows, exists, writerLock, indexer, steady>>

Place == {"active", "archive"}
Idle == [step |-> "idle", only |-> {}, archived |-> TRUE, force |-> FALSE,
         found |-> {}, todo |-> {}, run |-> NoRow, place |-> NoRow, print |-> <<>>]

InStep(i, step) == indexer[i].step = step
Become(i, r) == indexer' = [indexer EXCEPT ![i] = r]

-----------------------------------------------------------------------------
(* discover_runs: the directories below the roots in scope.                *)
Discovered(archived) ==
    {<<r, rundir[r].place>> : r \in {q \in IndexedRun :
        rundir[q].place = "active" \/ (archived /\ rundir[q].place = "archive")}}

(* source_fingerprint of a run directory: names, sizes, times, inodes and  *)
(* modes of its artifacts.  A directory that moved away has none.          *)
SourceFingerprint(r, place) ==
    IF rundir[r].place = place THEN <<rundir[r].version, rundir[r].unsafe>> ELSE <<>>

(* What makes _index_run raise: a symbolic link among the artifacts, or a  *)
(* receipt, which it verifies with a function it does not import.          *)
Raises(r, place) ==
    rundir[r].place = place /\ (rundir[r].unsafe \/ rundir[r].sealed)

(* What it derives from the artifacts, each read from one descriptor; a    *)
(* directory that has moved away reads as one without evidence.            *)
Evidence(r, place) == IF rundir[r].place = place THEN rundir[r].version ELSE 0

(* A bug for comparison: the evidence is read first and fingerprinted      *)
(* afterwards.                                                             *)
IndexRunLate(r, place, print) ==
    [state |-> "current", place |-> place, print |-> SourceFingerprint(r, place),
     content |-> IF print = <<>> THEN 0 ELSE print[1]]

(* The row of a run, with the fingerprint taken before it was read.        *)
IndexRun(r, place, print) ==
    [state |-> "current", place |-> place, print |-> print, content |-> Evidence(r, place)]

ErrorRow(place, print) ==
    [state |-> "error", place |-> place, print |-> print, content |-> 0]

(* One transaction leaves the row or, after a rollback, the error.         *)
RowOf(r, place, print) ==
    IF Raises(r, place) THEN ErrorRow(place, print) ELSE IndexRun(r, place, print)

(* A bug for comparison: a current row is not compared with its source.    *)
UpToDateState(i, r, place) ==
    ~indexer[i].force /\ rows[r] # NoRow /\ rows[r].state = "current"

(* Already current: _sync_locked skips it unless it rebuilds.              *)
UpToDate(i, r, place) ==
    /\ ~indexer[i].force /\ rows[r] # NoRow
    /\ rows[r].print = SourceFingerprint(r, place)
    /\ rows[r].place = place /\ rows[r].state = "current"

-----------------------------------------------------------------------------
(* sync_index of everything or of one run, rebuild_index: under the lock a *)
(* full rebuild first removes the database.                                *)
BeginSync(i) ==
    /\ InStep(i, "idle") /\ writerLock = NoRow
    /\ writerLock' = i /\ steady' = TRUE
    /\ \E only \in SUBSET IndexedRun, archived \in BOOLEAN, force \in BOOLEAN :
          /\ Cardinality(only) \in {1, Cardinality(IndexedRun)}
          /\ Become(i, [Idle EXCEPT !.step = "discover", !.only = only,
                                    !.archived = archived, !.force = force])
          /\ rows' = IF force /\ only = IndexedRun THEN [r \in IndexedRun |-> NoRow] ELSE rows
    /\ exists' = TRUE
    /\ UNCHANGED rundir

Discover(i) ==
    LET me == indexer[i]
        found == {d \in Discovered(me.archived) : d[1] \in me.only}
    IN  /\ InStep(i, "discover")
        /\ Become(i, [me EXCEPT !.step = "next", !.found = {d[1] : d \in found}, !.todo = found])
        /\ UNCHANGED <<rundir, rows, exists, writerLock, steady>>

(* The next discovered run is fingerprinted and, unless current, read.     *)
Fingerprinted(i) ==
    LET me == indexer[i] IN
    /\ InStep(i, "next")
    /\ \E d \in me.todo :
          Become(i, IF UpToDate(i, d[1], d[2]) THEN [me EXCEPT !.todo = @ \ {d}]
                    ELSE [me EXCEPT !.todo = @ \ {d}, !.step = "read", !.run = d[1],
                                    !.place = d[2], !.print = SourceFingerprint(d[1], d[2])])
    /\ UNCHANGED <<rundir, rows, exists, writerLock, steady>>

IndexOne(i) ==
    LET me == indexer[i] IN
    /\ InStep(i, "read")
    /\ rows' = [rows EXCEPT ![me.run] = RowOf(me.run, me.place, me.print)]
    /\ Become(i, [me EXCEPT !.step = "next", !.run = NoRow, !.place = NoRow, !.print = <<>>])
    /\ UNCHANGED <<rundir, exists, writerLock, steady>>

(* A full pass removes the rows of runs it did not discover.               *)
PruneStale(i) ==
    LET me == indexer[i] IN
    /\ InStep(i, "next") /\ me.todo = {}
    /\ rows' = [r \in IndexedRun |->
          IF me.only = IndexedRun /\ r \notin me.found THEN NoRow ELSE rows[r]]
    /\ Become(i, [me EXCEPT !.step = "done"])
    /\ UNCHANGED <<rundir, exists, writerLock, steady>>

EndSync(i) ==
    /\ InStep(i, "done") /\ Become(i, Idle) /\ writerLock' = NoRow
    /\ UNCHANGED <<rundir, rows, exists, steady>>

(* Killed: transactions that were committed stay, the lock is released.    *)
KillIndexer(i) ==
    /\ ~InStep(i, "idle") /\ Become(i, Idle) /\ writerLock' = NoRow
    /\ UNCHANGED <<rundir, rows, exists, steady>>

-----------------------------------------------------------------------------
(* The evidence: written while it is not sealed, sealed, moved to the      *)
(* archive once sealed, and disturbed by a symbolic link.                  *)
Touch(r, s) ==
    /\ rundir' = [rundir EXCEPT ![r] = s] /\ steady' = FALSE
    /\ UNCHANGED <<rows, exists, writerLock, indexer>>

WriteEvidence(r) ==
    LET s == rundir[r] IN
    /\ s.place = "active" /\ ~s.sealed /\ s.version < MaxVersion
    /\ \/ Touch(r, [s EXCEPT !.version = @ + 1])
       \/ Touch(r, [s EXCEPT !.version = @ + 1, !.unsafe = ~@])
       \/ Touch(r, [s EXCEPT !.version = @ + 1, !.sealed = TRUE])

MoveRun(r) ==
    /\ rundir[r].place = "active" /\ rundir[r].sealed
    /\ Touch(r, [rundir[r] EXCEPT !.place = "archive"])

RemoveDatabase ==
    /\ exists /\ writerLock = NoRow
    /\ exists' = FALSE /\ rows' = [r \in IndexedRun |-> NoRow]
    /\ UNCHANGED <<rundir, writerLock, indexer, steady>>

-----------------------------------------------------------------------------
IndexInit ==
    /\ rundir = [r \in IndexedRun |-> [place |-> "active", version |-> 1,
                                       sealed |-> FALSE, unsafe |-> FALSE]]
    /\ rows = [r \in IndexedRun |-> NoRow] /\ exists = FALSE
    /\ writerLock = NoRow /\ indexer = [i \in Indexer |-> Idle] /\ steady = TRUE

IndexNext ==
    \/ \E i \in Indexer :
          \/ BeginSync(i) \/ Discover(i) \/ Fingerprinted(i) \/ IndexOne(i)
          \/ PruneStale(i) \/ EndSync(i) \/ KillIndexer(i)
    \/ \E r \in IndexedRun : WriteEvidence(r) \/ MoveRun(r)
    \/ RemoveDatabase

IndexSpec == IndexInit /\ [][IndexNext]_index

-----------------------------------------------------------------------------
IndexTypeOK ==
    /\ \A r \in IndexedRun : rundir[r].version \in 1..MaxVersion /\ rundir[r].place \in Place
    /\ writerLock \in Indexer \cup {NoRow}
    /\ \A i \in Indexer : indexer[i].step = "idle" <=> writerLock # i

(* index_status: a run counts as current when its row is and still matches *)
(* the directory, and every other run or row is stale.                     *)
Freshness ==
    LET Fresh(r) == /\ rows[r] # NoRow /\ rows[r].state = "current"
                    /\ rows[r].place = rundir[r].place
                    /\ rows[r].print = SourceFingerprint(r, rundir[r].place)
    IN  IF ~exists THEN "missing"
        ELSE IF \E r \in IndexedRun : rows[r] # NoRow /\ rows[r].state = "error" THEN "incomplete"
        ELSE IF \E r \in IndexedRun : ~Fresh(r) THEN "stale" ELSE "current"

(* An index that reports itself current holds, for every run, what its     *)
(* directory holds now: whatever was written, sealed or moved while it was *)
(* read, and whoever was killed while writing it.                          *)
CurrentMeansCurrent ==
    Freshness = "current" => \A r \in IndexedRun : rows[r].content = rundir[r].version

(* A full pass over everything during which nothing was written leaves the *)
(* index that a rebuild from nothing leaves.                               *)
SyncEqualsRebuild ==
    \A i \in Indexer :
        InStep(i, "done") /\ indexer[i].only = IndexedRun /\ indexer[i].archived /\ steady =>
            \A r \in IndexedRun :
                LET p == rundir[r].place IN rows[r] = RowOf(r, p, SourceFingerprint(r, p))

(* The safety of the index: what it calls current is, and a pass leaves    *)
(* what a rebuild would.                                                   *)
IndexSafe == IndexTypeOK /\ CurrentMeansCurrent /\ SyncEqualsRebuild

-----------------------------------------------------------------------------
(* The inductive invariant behind the theorem of EvidenceProofs.           *)
Prints == ((1..MaxVersion) \X BOOLEAN) \cup {<<>>}
Row == [state : {"current", "error"}, place : Place, print : Prints, content : 0..MaxVersion]
Pass == [step : {"idle", "discover", "next", "read", "done"}, only : SUBSET IndexedRun,
         archived : BOOLEAN, force : BOOLEAN, found : SUBSET IndexedRun,
         todo : SUBSET (IndexedRun \X Place), run : IndexedRun \cup {NoRow},
         place : Place \cup {NoRow}, print : Prints]

IndexShape ==
    /\ rundir \in [IndexedRun -> [place : Place, version : 1..MaxVersion,
                                  sealed : BOOLEAN, unsafe : BOOLEAN]]
    /\ rows \in [IndexedRun -> Row \cup {NoRow}]
    /\ indexer \in [Indexer -> Pass]
    /\ \A i \in Indexer : indexer[i].step = "read" => indexer[i].run \in IndexedRun

(* A fingerprint that was taken is of this version or an earlier one; only *)
(* a run that is there now was found in the archive.                       *)
TakenOf(r, place, print) ==
    /\ place \in Place /\ print \in Prints
    /\ print # <<>> => print[1] <= rundir[r].version
    /\ place = "archive" => rundir[r].place = "archive"

(* A row whose fingerprint is still the directory's was read from it.      *)
RowsTrue ==
    \A r \in IndexedRun :
        rows[r] # NoRow =>
            /\ TakenOf(r, rows[r].place, rows[r].print)
            /\ (/\ rows[r].state = "current" /\ rows[r].place = rundir[r].place
                /\ rows[r].print # <<>> /\ rows[r].print[1] = rundir[r].version) =>
                   rows[r].content = rundir[r].version /\ ~Raises(r, rundir[r].place)

(* What a pass over everything has done while nothing was written.         *)
Rebuilt(r) == rows[r] = RowOf(r, rundir[r].place, SourceFingerprint(r, rundir[r].place))
PassKnows(i) ==
    LET me == indexer[i] IN
    /\ me.step = "read" => TakenOf(me.run, me.place, me.print)
    /\ \A d \in me.todo : TakenOf(d[1], d[2], <<>>)
    /\ steady /\ me.only = IndexedRun /\ me.archived /\ me.step \in {"next", "read", "done"} =>
          /\ me.found = IndexedRun
          /\ me.step = "done" => me.todo = {}
          /\ \A d \in me.todo : d[2] = rundir[d[1]].place
          /\ me.step = "read" =>
                /\ me.place = rundir[me.run].place
                /\ me.print = SourceFingerprint(me.run, me.place)
          /\ \A r \in IndexedRun :
                \/ Rebuilt(r) \/ <<r, rundir[r].place>> \in me.todo
                \/ me.step = "read" /\ me.run = r

IndexInv == IndexTypeOK /\ IndexShape /\ RowsTrue /\ \A i \in Indexer : PassKnows(i)
=============================================================================
