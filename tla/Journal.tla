------------------------------ MODULE Journal ------------------------------
(***************************************************************************)
(* The hardened append-only JSONL journal of journal.py, on which every    *)
(* other durable record of the system is built.                            *)
(*                                                                         *)
(* Writers run transact_jsonl: open or create the file, take the exclusive *)
(* flock, read and decode the whole file, decide, append one line, fsync,  *)
(* unlock, and (only the call that created the file) fsync the parent      *)
(* directory.  A process can be killed between any two of these steps, and *)
(* the host can lose power: what was not fsynced may then be gone.         *)
(*                                                                         *)
(* A record is abstracted to its sequence number and the key its domain    *)
(* module deduplicates on; a partially written last line is `torn'.        *)
(***************************************************************************)
EXTENDS Naturals, Sequences, FiniteSets

CONSTANTS
    Writer,         \* processes that append
    Key,            \* what the records are about
    Idempotent,     \* keys whose transaction returns an existing record
    MaxRecords,     \* the max_records of the journal
    MaxCrashes,     \* bound on power failures
    NoWriter,       \* nobody holds the exclusive lock
    NoRecord        \* no record, or no key: nothing is being recorded

ASSUME ConstantsAssumption ==
    /\ Idempotent \subseteq Key
    /\ MaxRecords \in Nat
    /\ MaxCrashes \in Nat
    /\ NoWriter \notin Writer
    /\ NoRecord \notin Key \cup [sequence : Nat, key : Key]

VARIABLES
    exists,        \* the directory entry is visible
    entryDurable,  \* the directory entry survives a power failure
    lines,         \* the complete records in the file
    torn,          \* the file ends in an incomplete record
    synced,        \* how many records an fsync has made durable
    lock,          \* holder of the exclusive flock
    pc,            \* where each writer is in its call
    created,       \* the call created the file
    arg,           \* the key each call is to record
    rec,           \* the record the call appends or returns
    appended,      \* records whose appending call returned success, and
                   \* found the directory entry durable
    view,          \* the last snapshot a reader decoded
    crashes

fileVars == <<exists, entryDurable, lines, torn, synced>>
callVars == <<pc, created, arg, rec>>
vars == <<fileVars, lock, callVars, appended, view, crashes>>

Record == [sequence : Nat, key : Key]

Holding == {"read", "write", "rest", "fsync", "unlock", "unlockFailed",
            "unlockReplay"}
Label == Holding \cup
         {"idle", "lock", "close", "closeFailed", "closeReplay"}

TypeOK ==
    /\ exists \in BOOLEAN
    /\ entryDurable \in BOOLEAN
    /\ lines \in Seq(Record)
    /\ torn \in BOOLEAN
    /\ synced \in Nat
    /\ lock \in Writer \cup {NoWriter}
    /\ pc \in [Writer -> Label]
    /\ created \in [Writer -> BOOLEAN]
    /\ arg \in [Writer -> Key \cup {NoRecord}]
    /\ rec \in [Writer -> Record \cup {NoRecord}]
    /\ appended \subseteq Record
    /\ view \in Seq(Record)
    /\ crashes \in Nat

Init ==
    /\ exists = FALSE /\ entryDurable = FALSE
    /\ lines = <<>> /\ torn = FALSE /\ synced = 0
    /\ lock = NoWriter
    /\ pc = [w \in Writer |-> "idle"]
    /\ created = [w \in Writer |-> FALSE]
    /\ arg = [w \in Writer |-> NoRecord]
    /\ rec = [w \in Writer |-> NoRecord]
    /\ appended = {}
    /\ view = <<>>
    /\ crashes = 0

Goto(w, label) == pc' = [pc EXCEPT ![w] = label]

(* The call is over, by return, by exception or by death of the process.   *)
EndCall(w) ==
    /\ Goto(w, "idle")
    /\ created' = [created EXCEPT ![w] = FALSE]
    /\ arg' = [arg EXCEPT ![w] = NoRecord]
    /\ rec' = [rec EXCEPT ![w] = NoRecord]

-----------------------------------------------------------------------------
(* locked_file: the O_EXCL create decides which call is the creator.       *)
Open(w, k) ==
    /\ pc[w] = "idle"
    /\ exists' = TRUE
    /\ created' = [created EXCEPT ![w] = ~exists]
    /\ arg' = [arg EXCEPT ![w] = k]
    /\ Goto(w, "lock")
    /\ UNCHANGED <<entryDurable, lines, torn, synced, lock, rec, appended,
                   view, crashes>>

Acquire(w) ==
    /\ pc[w] = "lock"
    /\ lock = NoWriter
    /\ lock' = w
    /\ Goto(w, "read")
    /\ UNCHANGED <<fileVars, created, arg, rec, appended, view,
                   crashes>>

(* A bug for comparison: the strict tail check of decode_jsonl is          *)
(* dropped.                                                                *)
DecodableTornTail ==
    /\ \A i \in 1..Len(lines) : lines[i].sequence = i
    /\ Len(lines) <= MaxRecords

(* decode_jsonl accepts exactly the files made of complete records whose   *)
(* sequence field is their line number; it fails closed on anything else.  *)
Decodable ==
    /\ ~torn
    /\ \A i \in 1..Len(lines) : lines[i].sequence = i
    /\ Len(lines) <= MaxRecords

Existing(k) == {i \in 1..Len(lines) : lines[i].key = k}

(* The transaction callback and the capacity checks of transact_jsonl.     *)
DecodeFails(w) ==
    /\ pc[w] = "read"
    /\ ~Decodable
    /\ Goto(w, "unlockFailed")
    /\ UNCHANGED <<fileVars, lock, created, arg, rec, appended, view, crashes>>

ReturnExisting(w) ==
    /\ pc[w] = "read"
    /\ Decodable
    /\ arg[w] \in Idempotent
    /\ \E i \in Existing(arg[w]) : rec' = [rec EXCEPT ![w] = lines[i]]
    /\ Goto(w, "unlockReplay")
    /\ UNCHANGED <<fileVars, lock, created, arg, appended, view,
                   crashes>>

(* A bug for comparison: the transaction does not look for an existing     *)
(* record.                                                                 *)
NeedsAppendAlways(w) ==
    /\ pc[w] = "read"
    /\ Decodable

NeedsAppend(w) ==
    /\ pc[w] = "read"
    /\ Decodable
    /\ arg[w] \in Idempotent => Existing(arg[w]) = {}

CapacityError(w) ==
    /\ NeedsAppend(w)
    /\ Len(lines) + 1 > MaxRecords
    /\ Goto(w, "unlockFailed")
    /\ UNCHANGED <<fileVars, lock, created, arg, rec, appended, view, crashes>>

Decide(w) ==
    /\ NeedsAppend(w)
    /\ Len(lines) + 1 <= MaxRecords
    /\ rec' = [rec EXCEPT ![w] = [sequence |-> Len(lines) + 1,
                                  key |-> arg[w]]]
    /\ Goto(w, "write")
    /\ UNCHANGED <<fileVars, lock, created, arg, appended, view,
                   crashes>>

(* _write_all: os.write may accept only part of the line.                  *)
WritePart(w) ==
    /\ pc[w] = "write"
    /\ torn' = TRUE
    /\ Goto(w, "rest")
    /\ UNCHANGED <<exists, entryDurable, lines, synced, lock, created, arg,
                   rec, appended, view, crashes>>

(* A bug for comparison: the file is not opened with O_APPEND, the write   *)
(* starts at 0.                                                            *)
WriteAtStart(w) ==
    /\ pc[w] \in {"write", "rest"}
    /\ torn' = FALSE
    /\ lines' = <<rec[w]>>
    /\ Goto(w, "fsync")
    /\ UNCHANGED <<exists, entryDurable, synced, lock, created, arg, rec,
                   appended, view, crashes>>

WriteRest(w) ==
    /\ pc[w] \in {"write", "rest"}
    /\ torn' = FALSE
    /\ lines' = Append(lines, rec[w])
    /\ Goto(w, "fsync")
    /\ UNCHANGED <<exists, entryDurable, synced, lock, created, arg, rec,
                   appended, view, crashes>>

(* A short write or an I/O error raises; the written part stays.           *)
WriteFails(w) ==
    /\ pc[w] \in {"write", "rest", "fsync"}
    /\ Goto(w, "unlockFailed")
    /\ UNCHANGED <<fileVars, lock, created, arg, rec, appended, view, crashes>>

(* A bug for comparison: the fsync before the unlock is forgotten.         *)
FsyncForgotten(w) ==
    /\ pc[w] = "fsync"
    /\ Goto(w, "unlock")
    /\ UNCHANGED <<fileVars, lock, created, arg, rec, appended, view, crashes>>

(* On many file systems the fsync of a new file persists its entry, too.   *)
Fsync(w) ==
    /\ pc[w] = "fsync"
    /\ synced' = Len(lines)
    /\ entryDurable' \in {entryDurable, TRUE}
    /\ Goto(w, "unlock")
    /\ UNCHANGED <<exists, lines, torn, lock, created, arg,
                   rec, appended, view, crashes>>

AfterUnlock(label) ==
    CASE label = "unlock" -> "close"
      [] label = "unlockFailed" -> "closeFailed"
      [] label = "unlockReplay" -> "closeReplay"

(* A bug for comparison: an exception skips the unlock.                    *)
UnlockUnlessFailed(w) ==
    /\ pc[w] \in {"unlock", "unlockFailed", "unlockReplay"}
    /\ lock' = IF pc[w] = "unlockFailed" THEN lock ELSE NoWriter
    /\ Goto(w, AfterUnlock(pc[w]))
    /\ UNCHANGED <<fileVars, created, arg, rec, appended, view,
                   crashes>>

Unlock(w) ==
    /\ pc[w] \in {"unlock", "unlockFailed", "unlockReplay"}
    /\ lock' = NoWriter
    /\ Goto(w, AfterUnlock(pc[w]))
    /\ UNCHANGED <<fileVars, created, arg, rec, appended, view,
                   crashes>>

(* The finally clause of locked_file, after the unlock: only the creator   *)
(* fsyncs the file and its parent directory.                               *)
FinallyFsync(w) ==
    /\ IF created[w]
       THEN synced' = Len(lines) /\ entryDurable' = TRUE
       ELSE UNCHANGED <<synced, entryDurable>>
    /\ EndCall(w)
    /\ UNCHANGED <<exists, lines, torn, lock, view, crashes>>

ReturnAppended(w) ==
    /\ pc[w] = "close"
    /\ FinallyFsync(w)
    /\ appended' = IF entryDurable' THEN appended \cup {rec[w]} ELSE appended

ReturnReplayed(w) ==
    /\ pc[w] = "closeReplay"
    /\ FinallyFsync(w)
    /\ UNCHANGED appended

(* A bug for comparison: a failed write is swallowed and reported as an    *)
(* append.                                                                 *)
RaiseSwallowed(w) ==
    /\ pc[w] = "closeFailed"
    /\ FinallyFsync(w)
    /\ appended' = IF rec[w] = NoRecord \/ ~entryDurable' THEN appended
                   ELSE appended \cup {rec[w]}

Raise(w) ==
    /\ pc[w] = "closeFailed"
    /\ FinallyFsync(w)
    /\ UNCHANGED appended

-----------------------------------------------------------------------------
(* read_jsonl: a shared lock excludes writers for the whole read.          *)
Read ==
    /\ exists
    /\ lock = NoWriter
    /\ Decodable
    /\ view' = lines
    /\ UNCHANGED <<fileVars, lock, callVars, appended, crashes>>

-----------------------------------------------------------------------------
(* The environment: SIGKILL of one process, loss of power of the host.     *)
Kill(w) ==
    /\ pc[w] # "idle"
    /\ lock' = IF lock = w THEN NoWriter ELSE lock
    /\ EndCall(w)
    /\ UNCHANGED <<fileVars, appended, view, crashes>>

Reboot ==
    /\ crashes < MaxCrashes
    /\ crashes' = crashes + 1
    /\ lock' = NoWriter
    /\ pc' = [w \in Writer |-> "idle"]
    /\ created' = [w \in Writer |-> FALSE]
    /\ arg' = [w \in Writer |-> NoRecord]
    /\ rec' = [w \in Writer |-> NoRecord]
    /\ view' = <<>>
    /\ UNCHANGED appended

LosePower ==
    /\ exists
    /\ Reboot
    /\ \E k \in synced..Len(lines) :
         /\ lines' = SubSeq(lines, 1, k)
         /\ synced' = k
         /\ torn' \in IF k = Len(lines) /\ ~torn THEN {FALSE} ELSE BOOLEAN
    /\ entryDurable' = TRUE
    /\ UNCHANGED exists

LosePowerAndEntry ==
    /\ exists /\ ~entryDurable
    /\ Reboot
    /\ exists' = FALSE /\ lines' = <<>> /\ torn' = FALSE /\ synced' = 0
    /\ UNCHANGED entryDurable

-----------------------------------------------------------------------------
Step(w) ==
    \/ Acquire(w) \/ DecodeFails(w) \/ ReturnExisting(w) \/ CapacityError(w)
    \/ Decide(w) \/ WritePart(w) \/ WriteRest(w) \/ Fsync(w) \/ Unlock(w)
    \/ ReturnAppended(w) \/ ReturnReplayed(w) \/ Raise(w)

Next ==
    \/ \E w \in Writer : \/ \E k \in Key : Open(w, k)
                         \/ Step(w) \/ WriteFails(w) \/ Kill(w)
    \/ Read
    \/ LosePower
    \/ LosePowerAndEntry

Spec == Init /\ [][Next]_vars

(* A live process executes its next instruction; nothing obliges it to     *)
(* start another call, to fail, or to be killed.                           *)
FairSpec == Spec /\ \A w \in Writer : WF_vars(Step(w))

-----------------------------------------------------------------------------
(* Whatever is killed or torn, the complete lines of the journal are       *)
(* numbered 1, 2, 3, ...: the sequence computed under the lock is never    *)
(* taken twice (decode_jsonl would otherwise refuse the file forever).     *)
SequencesContiguous ==
    \A i \in 1..Len(lines) : lines[i].sequence = i

(* A caller of an idempotent transaction may be killed after its write and *)
(* retry: the journal still holds one record for the key.                  *)
IdempotentOnce ==
    \A i, j \in 1..Len(lines) :
        lines[i].key = lines[j].key /\ lines[i].key \in Idempotent => i = j

(* Complete writes and fsync durability: a record whose append returned    *)
(* with the directory entry durable is in the journal, at its own line,    *)
(* through every kill and every loss of power.                             *)
AppendedNeverLost ==
    \A r \in appended : /\ r.sequence \in 1..Len(lines)
                        /\ lines[r.sequence] = r

(* A reader's snapshot stays a prefix of the journal for as long as the    *)
(* host is up: nothing it decoded is rewritten or truncated afterwards.    *)
ReaderSawAPrefix ==
    /\ Len(view) <= Len(lines)
    /\ \A i \in 1..Len(view) : view[i] = lines[i]

(* Fail closed: once a call has left a torn tail behind, no later call     *)
(* adds a record after it; only losing the tail in a power failure ends it.*)
NothingAfterTornTail ==
    [][ torn /\ (\A w \in Writer : pc[w] # "rest") /\ crashes' = crashes
          => torn' /\ lines' = lines ]_vars

(* The lock is never kept by a call that cannot finish.                    *)
LockIsReleased == \A w \in Writer : lock = w ~> lock # w
-----------------------------------------------------------------------------
(* The promise to clients, with the file's records as the abstract log.    *)
Log == INSTANCE AppendOnlyLog WITH log <- lines, acked <- appended

(* The journal implements the append-only log: every step of every writer, *)
(* kill and power failure is a commit, an acknowledgement, a permitted loss*)
(* or invisible.                                                           *)
ImplementsLog == Log!LogSpec

-----------------------------------------------------------------------------
(* The inductive invariant behind the theorems of JournalProofs.           *)

(* Exactly the calls between the flock and the unlock hold the lock.       *)
LockHeld == \A w \in Writer : lock = w <=> pc[w] \in Holding

(* The record of a call describes the file as long as the call needs it.   *)
CallRecords ==
    \A w \in Writer :
        /\ pc[w] # "idle" => arg[w] \in Key
        /\ pc[w] \in {"write", "rest"} =>
              /\ rec[w] = [sequence |-> Len(lines) + 1, key |-> arg[w]]
              /\ Len(lines) + 1 <= MaxRecords
              /\ arg[w] \in Idempotent =>
                    \A i \in 1..Len(lines) : lines[i].key # arg[w]
        /\ pc[w] = "fsync" => Len(lines) > 0 /\ rec[w] = lines[Len(lines)]
        /\ pc[w] \in {"unlock", "close"} =>
              /\ rec[w] \in Record
              /\ rec[w].sequence \in 1..synced
              /\ lines[rec[w].sequence] = rec[w]
        /\ pc[w] \in {"unlockReplay", "closeReplay"} => rec[w] \in Record

(* An acknowledged append is not only in the file but fsynced, as is the   *)
(* directory entry.                                                        *)
AppendedSynced ==
    /\ \A r \in appended : r.sequence \in 1..synced /\ lines[r.sequence] = r
    /\ appended # {} => entryDurable

(* A call about to write found a file without a torn tail.                 *)
TailChecked == \A w \in Writer : pc[w] = "write" => ~torn

IndInv ==
    /\ TypeOK
    /\ LockHeld
    /\ SequencesContiguous
    /\ IdempotentOnce
    /\ synced <= Len(lines)
    /\ Len(lines) <= MaxRecords
    /\ CallRecords
    /\ AppendedSynced
    /\ ReaderSawAPrefix
=============================================================================
