--------------------------- MODULE JournalProofs ---------------------------
(***************************************************************************)
(* Proofs about Journal for every set of writers and keys, every capacity  *)
(* and every number of power failures.                                     *)
(***************************************************************************)
EXTENDS Journal, TLAPS

(* A line of the file is a record.                                         *)
LEMMA LineIsRecord ==
  ASSUME TypeOK, NEW i \in 1..Len(lines)
  PROVE  lines[i] \in Record
  <1>1. lines \in Seq(Record)
    BY DEF TypeOK
  <1> QED
    BY <1>1

(* The invariant holds of a journal that does not exist yet.               *)
LEMMA InitIndInv == Init => IndInv
  <1> SUFFICES ASSUME Init PROVE IndInv
    OBVIOUS
  <1> USE ConstantsAssumption DEF ConstantsAssumption, Init, Record
  <1>1. TypeOK
    <2>1. lines \in Seq(Record) /\ view \in Seq(Record)
      OBVIOUS
    <2>2. pc \in [Writer -> Label] /\ rec \in [Writer -> Record \cup {NoRecord}]
      BY DEF Label
    <2> QED
      BY <2>1, <2>2 DEF TypeOK
  <1>2. LockHeld
    BY DEF LockHeld, Holding
  <1>3. Len(lines) = 0 /\ Len(view) = 0
    OBVIOUS
  <1>4. SequencesContiguous /\ IdempotentOnce /\ ReaderSawAPrefix
    BY <1>3 DEF SequencesContiguous, IdempotentOnce, ReaderSawAPrefix
  <1>5. CallRecords /\ AppendedSynced
    BY DEF CallRecords, AppendedSynced
  <1> QED
    BY <1>1, <1>2, <1>3, <1>4, <1>5 DEF IndInv

(* Appending under the lock the record decided under the lock preserves    *)
(* everything said of the file.                                            *)
LEMMA WriteRestInd ==
  ASSUME IndInv, NEW w \in Writer, WriteRest(w)
  PROVE  IndInv'
  <1> USE ConstantsAssumption DEF ConstantsAssumption, Record
  <1>1. rec[w] = [sequence |-> Len(lines) + 1, key |-> arg[w]] /\ arg[w] \in Key
    BY DEF CallRecords, IndInv, WriteRest
  <1>2. rec[w] \in Record /\ lines' = Append(lines, rec[w])
    BY <1>1 DEF TypeOK, IndInv, WriteRest
  <1>3. /\ lines' \in Seq(Record)
        /\ Len(lines') = Len(lines) + 1
        /\ lines'[Len(lines) + 1] = rec[w]
        /\ \A i \in 1..Len(lines) : lines'[i] = lines[i]
        /\ Len(lines) \in Nat
    BY <1>2 DEF TypeOK, IndInv
  <1>4. TypeOK'
    BY <1>3 DEF TypeOK, IndInv, WriteRest, Goto, Label, Holding
  <1>5. LockHeld'
    BY DEF LockHeld, IndInv, WriteRest, Goto, Holding, TypeOK
  <1>6. \A v \in Writer \ {w} : pc[v] \notin Holding /\ pc'[v] = pc[v]
    BY DEF LockHeld, IndInv, WriteRest, Goto, Holding, TypeOK
  <1>7. SequencesContiguous'
    BY <1>1, <1>3 DEF SequencesContiguous, IndInv
  <1>8. IdempotentOnce'
    BY <1>1, <1>3 DEF IdempotentOnce, IndInv, CallRecords, WriteRest
  <1>9. CallRecords'
    <2> SUFFICES ASSUME NEW v \in Writer
                 PROVE  CallRecords!(v)'
      BY DEF CallRecords
    <2> QED
      BY <1>3, <1>6 DEF CallRecords, IndInv, WriteRest, Goto, TypeOK, Holding
  <1>10. synced' <= Len(lines') /\ AppendedSynced' /\ ReaderSawAPrefix'
    <2>1. synced' <= Len(lines') /\ AppendedSynced'
      BY <1>3 DEF AppendedSynced, IndInv, WriteRest, TypeOK
    <2>2. view' = view /\ view \in Seq(Record)
      BY DEF IndInv, WriteRest, TypeOK
    <2>3. Len(view) \in Nat /\ Len(view) <= Len(lines) /\ \A i \in 1..Len(view) : view[i] = lines[i]
      BY <2>2 DEF IndInv, ReaderSawAPrefix
    <2>4. ReaderSawAPrefix'
      BY <1>3, <2>2, <2>3 DEF ReaderSawAPrefix
    <2> QED
      BY <2>1, <2>4
  <1>11. Len(lines') <= MaxRecords
    BY <1>3 DEF CallRecords, IndInv, WriteRest
  <1> QED
    BY <1>4, <1>5, <1>7, <1>8, <1>9, <1>10, <1>11 DEF IndInv

(* A step that neither touches the file nor acknowledges anything only has *)
(* to keep the types, the lock and the records of the calls.               *)
LEMMA FileUnchanged ==
  ASSUME IndInv, UNCHANGED <<entryDurable, lines, synced, appended>>,
         ReaderSawAPrefix', TypeOK', LockHeld', CallRecords'
  PROVE  IndInv'
  BY DEF IndInv, SequencesContiguous, IdempotentOnce, AppendedSynced

(* A call moves one label on without touching the file.                    *)
LEMMA CallStepInd ==
  ASSUME IndInv, NEW w \in Writer,
         \/ \E k \in Key : Open(w, k)
         \/ Acquire(w) \/ DecodeFails(w) \/ ReturnExisting(w)
         \/ CapacityError(w) \/ Decide(w) \/ WritePart(w) \/ WriteFails(w)
         \/ Unlock(w) \/ Kill(w)
  PROVE  IndInv'
  <1> USE ConstantsAssumption DEF ConstantsAssumption, Record, IndInv
  <1> USE DEF fileVars, Goto, Holding, Label
  <1>a. /\ UNCHANGED <<entryDurable, lines, synced, appended, view, crashes>>
        /\ \A v \in Writer \ {w} : /\ pc'[v] = pc[v] /\ arg'[v] = arg[v]
                                   /\ rec'[v] = rec[v]
    BY DEF Open, Acquire, DecodeFails, ReturnExisting, CapacityError, Decide,
           WritePart, WriteFails, Unlock, Kill, EndCall, TypeOK, NeedsAppend
  <1>b. ReaderSawAPrefix'
    BY <1>a DEF ReaderSawAPrefix
  <1>c. \A v \in Writer \ {w} : CallRecords!(v)'
    BY <1>a DEF CallRecords
  <1>d. ASSUME CallRecords!(w)' PROVE CallRecords'
    BY <1>c, <1>d DEF CallRecords
  <1>1. CASE \E k \in Key : Open(w, k)
    <2>1. PICK k \in Key : Open(w, k)
      BY <1>1
    <2> USE <2>1 DEF Open
    <2>2. TypeOK'
      BY DEF TypeOK
    <2>3. LockHeld'
      BY DEF TypeOK, LockHeld
    <2>4. CallRecords!(w)'
      BY DEF TypeOK, CallRecords
    <2> QED
      BY <1>a, <1>b, <1>d, <2>2, <2>3, <2>4, FileUnchanged
  <1>2. CASE Acquire(w)
    <2> USE <1>2 DEF Acquire
    <2>2. TypeOK'
      BY DEF TypeOK
    <2>3. LockHeld'
      BY DEF TypeOK, LockHeld
    <2>4. CallRecords!(w)'
      BY DEF TypeOK, CallRecords
    <2> QED
      BY <1>a, <1>b, <1>d, <2>2, <2>3, <2>4, FileUnchanged
  <1>3. CASE DecodeFails(w) \/ CapacityError(w) \/ WriteFails(w)
    <2> USE <1>3 DEF DecodeFails, CapacityError, WriteFails, NeedsAppend
    <2>2. TypeOK'
      BY DEF TypeOK
    <2>3. LockHeld'
      BY DEF TypeOK, LockHeld
    <2>4. CallRecords!(w)'
      BY DEF TypeOK, CallRecords
    <2> QED
      BY <1>a, <1>b, <1>d, <2>2, <2>3, <2>4, FileUnchanged
  <1>4. CASE ReturnExisting(w)
    <2> USE <1>4 DEF ReturnExisting
    <2>1. PICK i \in 1..Len(lines) : rec' = [rec EXCEPT ![w] = lines[i]]
      BY DEF Existing
    <2>2. lines[i] \in Record
      BY LineIsRecord
    <2>3. TypeOK'
      BY <2>1, <2>2 DEF TypeOK
    <2>4. LockHeld'
      BY DEF TypeOK, LockHeld
    <2>5. CallRecords!(w)'
      BY <2>1, <2>2 DEF TypeOK, CallRecords
    <2> QED
      BY <1>a, <1>b, <1>d, <2>3, <2>4, <2>5, FileUnchanged
  <1>5. CASE Decide(w)
    <2> USE <1>5 DEF Decide, NeedsAppend
    <2>1. arg[w] \in Key /\ Len(lines) \in Nat
      BY DEF TypeOK, CallRecords
    <2>2. TypeOK'
      BY <2>1 DEF TypeOK
    <2>3. LockHeld'
      BY DEF TypeOK, LockHeld
    <2>4. CallRecords!(w)'
      BY <2>1, <1>a DEF TypeOK, CallRecords, Existing
    <2> QED
      BY <1>a, <1>b, <1>d, <2>2, <2>3, <2>4, FileUnchanged
  <1>6. CASE WritePart(w)
    <2> USE <1>6 DEF WritePart
    <2>2. TypeOK'
      BY DEF TypeOK
    <2>3. LockHeld'
      BY DEF TypeOK, LockHeld
    <2>4. CallRecords!(w)'
      BY DEF TypeOK, CallRecords
    <2> QED
      BY <1>a, <1>b, <1>d, <2>2, <2>3, <2>4, FileUnchanged
  <1>7. CASE Unlock(w)
    <2> USE <1>7 DEF Unlock, AfterUnlock
    <2>1. pc'[w] = AfterUnlock(pc[w])
      BY DEF TypeOK
    <2>2. TypeOK'
      BY DEF TypeOK
    <2>3. LockHeld'
      BY DEF TypeOK, LockHeld
    <2>4. CallRecords!(w)'
      BY <2>1 DEF TypeOK, CallRecords
    <2> QED
      BY <1>a, <1>b, <1>d, <2>2, <2>3, <2>4, FileUnchanged
  <1>8. CASE Kill(w)
    <2> USE <1>8 DEF Kill, EndCall
    <2>2. TypeOK'
      BY DEF TypeOK
    <2>3. LockHeld'
      BY DEF TypeOK, LockHeld
    <2>4. CallRecords!(w)'
      BY DEF TypeOK, CallRecords
    <2> QED
      BY <1>a, <1>b, <1>d, <2>2, <2>3, <2>4, FileUnchanged
  <1> QED
    BY <1>1, <1>2, <1>3, <1>4, <1>5, <1>6, <1>7, <1>8

(* The fsync of the appending call.                                        *)
LEMMA FsyncInd ==
  ASSUME IndInv, NEW w \in Writer, Fsync(w)
  PROVE  IndInv'
  <1> USE ConstantsAssumption DEF ConstantsAssumption, Record, IndInv
  <1> USE DEF Fsync, Goto, Holding, Label
  <1>1. Len(lines) \in Nat /\ synced \in Nat /\ synced' = Len(lines)
    BY DEF TypeOK
  <1>2. TypeOK' /\ LockHeld'
    BY <1>1 DEF TypeOK, LockHeld
  <1>3. \A v \in Writer \ {w} : pc'[v] = pc[v]
    BY DEF TypeOK
  <1>4. \A v \in Writer \ {w} : CallRecords!(v)'
    BY <1>1, <1>3 DEF CallRecords
  <1>5. CallRecords!(w)'
    <2>0. rec[w] = lines[Len(lines)] /\ Len(lines) > 0
      BY DEF CallRecords
    <2>1. rec[w] = lines[Len(lines)] /\ Len(lines) \in 1..Len(lines)
      BY <1>1, <2>0
    <2>2. rec[w].sequence = Len(lines)
      BY <2>1 DEF SequencesContiguous
    <2>3. rec[w] \in Record
      BY <2>1, LineIsRecord
    <2> QED
      BY <1>1, <2>1, <2>2, <2>3 DEF CallRecords, TypeOK
  <1>6. CallRecords'
    BY <1>4, <1>5 DEF CallRecords
  <1>7. AppendedSynced'
    <2>1. entryDurable => entryDurable'
      BY Zenon DEF Fsync
    <2>2. appended' = appended /\ lines' = lines
      OBVIOUS
    <2>3. \A r \in appended : r.sequence \in 1..Len(lines)
      BY <1>1 DEF AppendedSynced
    <2> QED
      BY <1>1, <2>1, <2>2, <2>3 DEF AppendedSynced
  <1> QED
    BY <1>1, <1>2, <1>6, <1>7
    DEF SequencesContiguous, IdempotentOnce, ReaderSawAPrefix

(* The end of a call, with the creator's fsync of file and directory.      *)
LEMMA ReturnInd ==
  ASSUME IndInv, NEW w \in Writer,
         ReturnAppended(w) \/ ReturnReplayed(w) \/ Raise(w)
  PROVE  IndInv'
  <1> USE ConstantsAssumption DEF ConstantsAssumption, Record, IndInv
  <1> USE DEF FinallyFsync, EndCall, Goto, Holding, Label
  <1>0. FinallyFsync(w) /\ pc[w] \in {"close", "closeReplay", "closeFailed"}
    BY DEF ReturnAppended, ReturnReplayed, Raise
  <1>1. /\ Len(lines) \in Nat /\ synced \in Nat /\ synced' \in Nat
        /\ synced <= synced' /\ synced' <= Len(lines)
        /\ UNCHANGED <<exists, lines, torn, lock, view, crashes>>
        /\ entryDurable' \in BOOLEAN
    <2>1. Len(lines) \in Nat /\ synced \in Nat /\ synced <= Len(lines)
      BY DEF TypeOK
    <2>2. CASE created[w]
      BY <1>0, <2>1, <2>2
    <2>3. CASE ~created[w]
      <3>1. UNCHANGED <<synced, entryDurable, exists, lines, torn, lock, view, crashes>>
        BY <1>0, <2>3
      <3>2. entryDurable' \in BOOLEAN
        BY <3>1, Zenon DEF TypeOK
      <3> QED
        BY <2>1, <3>1, <3>2
    <2> QED
      BY <2>2, <2>3
  <1>2. appended' \subseteq Record
    BY DEF ReturnAppended, ReturnReplayed, Raise, CallRecords, TypeOK
  <1>3. TypeOK'
    BY <1>0, <1>1, <1>2 DEF TypeOK
  <1>4. LockHeld'
    BY <1>0, <1>1 DEF TypeOK, LockHeld
  <1>5. CallRecords'
    <2>1. CallRecords!(w)'
      BY <1>0 DEF TypeOK, CallRecords
    <2>2. \A v \in Writer \ {w} : /\ pc'[v] = pc[v] /\ arg'[v] = arg[v]
                                 /\ rec'[v] = rec[v]
      BY <1>0 DEF TypeOK
    <2>3. ASSUME NEW v \in Writer \ {w} PROVE CallRecords!(v)'
      <3>1. pc'[v] = pc[v] /\ arg'[v] = arg[v] /\ rec'[v] = rec[v]
        BY <2>2
      <3>2. CallRecords!(v)
        BY DEF CallRecords
      <3> QED
        BY <1>1, <3>1, <3>2 DEF CallRecords
    <2> QED
      BY <2>1, <2>3 DEF CallRecords
  <1>6. AppendedSynced'
    <2>0. entryDurable => entryDurable'
      BY <1>0, Zenon
    <2>1. CASE pc[w] = "close"
      <3>1. /\ appended' \subseteq appended \cup {rec[w]}
            /\ appended' # appended => entryDurable'
        BY DEF ReturnAppended, ReturnReplayed, Raise
      <3>2. rec[w].sequence \in 1..synced /\ lines[rec[w].sequence] = rec[w]
        BY <2>1 DEF CallRecords
      <3> QED
        BY <1>1, <2>0, <3>1, <3>2 DEF AppendedSynced
    <2>2. CASE pc[w] # "close"
      <3>1. appended' = appended
        BY <2>2 DEF ReturnAppended, ReturnReplayed, Raise
      <3> QED
        BY <1>1, <2>0, <3>1 DEF AppendedSynced
    <2> QED
      BY <2>1, <2>2
  <1> QED
    BY <1>1, <1>3, <1>4, <1>5, <1>6
    DEF SequencesContiguous, IdempotentOnce, ReaderSawAPrefix

(* A reader decodes the file under the shared lock.                        *)
LEMMA ReadInd ==
  ASSUME IndInv, Read
  PROVE  IndInv'
  <1>1. UNCHANGED <<exists, entryDurable, lines, torn, synced, lock, pc,
                    created, arg, rec, appended, crashes>>
    BY DEF Read, fileVars, callVars
  <1>2. TypeOK'
    BY <1>1 DEF TypeOK, IndInv, Read
  <1>3. LockHeld' /\ CallRecords'
    BY <1>1 DEF IndInv, LockHeld, CallRecords
  <1>4. ReaderSawAPrefix'
    BY <1>1 DEF Read, ReaderSawAPrefix, TypeOK, IndInv
  <1> QED
    BY <1>1, <1>2, <1>3, <1>4, FileUnchanged

(* A power failure keeps the fsynced prefix, or (without help from the     *)
(* file system, and before the directory was fsynced) nothing.             *)
LEMMA PowerInd ==
  ASSUME IndInv, LosePower \/ LosePowerAndEntry
  PROVE  IndInv'
  <1> USE ConstantsAssumption DEF ConstantsAssumption, IndInv
  <1>1. Reboot
    BY DEF LosePower, LosePowerAndEntry
  <1>2. /\ lines \in Seq(Record) /\ Len(lines) \in Nat /\ synced \in Nat
        /\ crashes \in Nat
    BY DEF TypeOK
  <1>3. PICK k \in 0..Len(lines) :
           /\ lines' = SubSeq(lines, 1, k) /\ synced' = k
           /\ synced <= k \/ appended = {}
           /\ appended # {} => entryDurable'
    <2>1. CASE LosePower
      <3>1. PICK k \in synced..Len(lines) : /\ lines' = SubSeq(lines, 1, k)
                                          /\ synced' = k /\ entryDurable'
        BY <2>1 DEF LosePower
      <3>2. k \in 0..Len(lines) /\ synced <= k
        BY <1>2, <3>1
      <3> QED
        BY <3>1, <3>2
    <2>2. CASE LosePowerAndEntry
      <3>1. SubSeq(lines, 1, 0) = <<>> /\ 0 \in 0..Len(lines)
        BY <1>2
      <3>2. lines' = SubSeq(lines, 1, 0) /\ synced' = 0 /\ appended = {}
        BY <2>2, <3>1 DEF LosePowerAndEntry, AppendedSynced
      <3> QED
        BY <3>1, <3>2
    <2> QED
      BY <2>1, <2>2
  <1>3b. exists' \in BOOLEAN /\ entryDurable' \in BOOLEAN /\ torn' \in BOOLEAN
    <2>1. CASE LosePower
      BY <2>1, Zenon DEF LosePower, TypeOK
    <2>2. CASE LosePowerAndEntry
      BY <2>2, Zenon DEF LosePowerAndEntry, TypeOK
    <2> QED
      BY <2>1, <2>2
  <1>4. /\ lines' \in Seq(Record) /\ Len(lines') = k
        /\ \A i \in 1..k : lines'[i] = lines[i]
    BY <1>2, <1>3
  <1>5. view' = <<>> /\ view' \in Seq(Record) /\ Len(view') = 0
    BY <1>1 DEF Reboot
  <1>6. TypeOK'
    BY <1>1, <1>2, <1>3, <1>3b, <1>4, <1>5 DEF Reboot, TypeOK, Label
  <1>7. LockHeld' /\ CallRecords'
    BY <1>1 DEF Reboot, LockHeld, CallRecords, Holding
  <1>8. SequencesContiguous' /\ IdempotentOnce'
    <2>1. 1..k \subseteq 1..Len(lines) /\ 1..Len(lines') = 1..k
      BY <1>2, <1>4
    <2>2. SequencesContiguous'
      BY <1>4, <2>1 DEF SequencesContiguous
    <2>3. IdempotentOnce'
      BY <1>4, <2>1 DEF IdempotentOnce
    <2> QED
      BY <2>2, <2>3
  <1>9. AppendedSynced'
    BY <1>1, <1>2, <1>3, <1>4 DEF AppendedSynced, Reboot
  <1>10. ReaderSawAPrefix'
    BY <1>2, <1>3, <1>4, <1>5 DEF ReaderSawAPrefix
  <1> QED
    BY <1>2, <1>3, <1>4, <1>6, <1>7, <1>8, <1>9, <1>10

(* Every step preserves the invariant.                                     *)
LEMMA NextIndInv == IndInv /\ [Next]_vars => IndInv'
  <1> SUFFICES ASSUME IndInv, [Next]_vars PROVE IndInv'
    OBVIOUS
  <1>1. CASE UNCHANGED vars
    <2>1. TypeOK' /\ LockHeld' /\ CallRecords' /\ ReaderSawAPrefix'
      BY <1>1 DEF vars, fileVars, callVars, IndInv, TypeOK, LockHeld,
                  CallRecords, ReaderSawAPrefix
    <2> QED
      BY <1>1, <2>1, FileUnchanged DEF vars, fileVars
  <1>2. ASSUME NEW w \in Writer, (\E k \in Key : Open(w, k)) \/ Step(w)
                                 \/ WriteFails(w) \/ Kill(w)
        PROVE  IndInv'
    BY <1>2, CallStepInd, WriteRestInd, FsyncInd, ReturnInd DEF Step
  <1> QED
    BY <1>1, <1>2, ReadInd, PowerInd DEF Next

(* The state of the journal is always well typed.                          *)
THEOREM JournalTypeOK == Spec => []TypeOK
  <1>1. IndInv => TypeOK
    BY DEF IndInv
  <1> QED
    BY <1>1, InitIndInv, NextIndInv, PTL DEF Spec

(* The records of the journal are numbered by their line, whatever crashes.*)
THEOREM JournalContiguous == Spec => []SequencesContiguous
  <1>1. IndInv => SequencesContiguous
    BY DEF IndInv
  <1> QED
    BY <1>1, InitIndInv, NextIndInv, PTL DEF Spec

(* Retrying an idempotent transaction never duplicates its record.         *)
THEOREM JournalIdempotent == Spec => []IdempotentOnce
  <1>1. IndInv => IdempotentOnce
    BY DEF IndInv
  <1> QED
    BY <1>1, InitIndInv, NextIndInv, PTL DEF Spec

(* A record whose append returned survives kills and power failures.       *)
THEOREM JournalDurable == Spec => []AppendedNeverLost
  <1>1. IndInv => AppendedNeverLost
    <2> SUFFICES ASSUME IndInv, NEW r \in appended
                 PROVE  r.sequence \in 1..Len(lines) /\ lines[r.sequence] = r
      BY DEF AppendedNeverLost
    <2>1. Len(lines) \in Nat /\ synced \in Nat /\ synced <= Len(lines)
      BY DEF IndInv, TypeOK
    <2> QED
      BY <2>1 DEF IndInv, AppendedSynced
  <1> QED
    BY <1>1, InitIndInv, NextIndInv, PTL DEF Spec

(* What a reader decoded stays a prefix of the journal.                    *)
THEOREM JournalReaderPrefix == Spec => []ReaderSawAPrefix
  <1>1. IndInv => ReaderSawAPrefix
    BY DEF IndInv
  <1> QED
    BY <1>1, InitIndInv, NextIndInv, PTL DEF Spec

(* Only the holder of the lock writes, so no tail is torn under a call that*)
(* has checked it.                                                         *)
LEMMA TailCheckedInd == IndInv /\ TailChecked /\ [Next]_vars => TailChecked'
  <1> SUFFICES ASSUME IndInv, TailChecked, [Next]_vars PROVE TailChecked'
    OBVIOUS
  <1> USE ConstantsAssumption DEF ConstantsAssumption, IndInv, TypeOK,
          TailChecked, fileVars, callVars
  <1>1. ASSUME NEW w \in Writer, WritePart(w) PROVE TailChecked'
    <2>1. \A v \in Writer \ {w} : pc[v] # "write"
      BY <1>1 DEF WritePart, LockHeld, Holding
    <2> QED
      BY <1>1, <2>1 DEF WritePart, Goto
  <1>2. ASSUME NEW w \in Writer, Acquire(w) \/ DecodeFails(w)
                 \/ ReturnExisting(w) \/ CapacityError(w) \/ Decide(w)
        PROVE  TailChecked'
    BY <1>2 DEF Acquire, DecodeFails, ReturnExisting, CapacityError, Decide,
       NeedsAppend, Decodable, Goto
  <1>3. ASSUME NEW w \in Writer, WriteRest(w) \/ Fsync(w) \/ Unlock(w)
        PROVE  TailChecked'
    BY <1>3 DEF WriteRest, Fsync, Unlock, AfterUnlock, Goto
  <1>4. ASSUME NEW w \in Writer, ReturnAppended(w) \/ ReturnReplayed(w)
                 \/ Raise(w) \/ Kill(w)
        PROVE  TailChecked'
    BY <1>4 DEF ReturnAppended, ReturnReplayed, Raise, Kill, FinallyFsync,
       EndCall, Goto
  <1>5. ASSUME NEW w \in Writer, (\E k \in Key : Open(w, k)) \/ WriteFails(w)
        PROVE  TailChecked'
    BY <1>5 DEF Open, WriteFails, Goto
  <1>6. CASE LosePower \/ LosePowerAndEntry
    BY <1>6 DEF LosePower, LosePowerAndEntry, Reboot
  <1>7. CASE Read \/ UNCHANGED vars
    BY <1>7 DEF Read, vars
  <1> QED
    BY <1>1, <1>2, <1>3, <1>4, <1>5, <1>6, <1>7 DEF Next, Step

(* Fail closed: nothing is ever appended behind a torn tail.               *)
THEOREM JournalFailsClosed == Spec => NothingAfterTornTail
  <1>1. Init => TailChecked
    BY DEF Init, TailChecked
  <1>2. IndInv /\ TailChecked /\ [Next]_vars
          => [torn /\ (\A w \in Writer : pc[w] # "rest") /\ crashes' = crashes
                 => torn' /\ lines' = lines]_vars
    <2> SUFFICES ASSUME IndInv, TailChecked, Next, torn, crashes' = crashes,
                        \A w \in Writer : pc[w] # "rest"
                 PROVE  torn' /\ lines' = lines
      OBVIOUS
    <2>1. ~LosePower /\ ~LosePowerAndEntry
      BY DEF LosePower, LosePowerAndEntry, Reboot, IndInv, TypeOK
    <2>2. ASSUME NEW w \in Writer, (\E k \in Key : Open(w, k)) \/ Step(w)
                                   \/ WriteFails(w) \/ Kill(w)
          PROVE  torn' /\ lines' = lines
      BY <2>2 DEF TailChecked, Open, Step, WriteFails, Kill, Acquire,
         DecodeFails, ReturnExisting, CapacityError, NeedsAppend, Decide,
         WritePart, WriteRest, Fsync, Unlock, ReturnAppended, ReturnReplayed,
         Raise, FinallyFsync, fileVars
    <2> QED
      BY <2>1, <2>2 DEF Next, Read, fileVars
  <1> QED
    BY <1>1, <1>2, InitIndInv, NextIndInv, TailCheckedInd, PTL
    DEF Spec, NothingAfterTornTail

(* Every step of the journal is a step of the append-only log, or changes  *)
(* nothing a client of the log can see.                                    *)
LEMMA LogStep ==
  ASSUME IndInv, [Next]_vars
  PROVE  [Log!Change]_<<lines, appended>>
  <1> USE ConstantsAssumption DEF ConstantsAssumption
  <1>1. CASE UNCHANGED <<lines, appended>>
    BY <1>1
  <1>2. ASSUME NEW w \in Writer, WriteRest(w)
        PROVE  Log!Commit
    <2>1. /\ rec[w] = [sequence |-> Len(lines) + 1, key |-> arg[w]]
          /\ arg[w] \in Key /\ Len(lines) + 1 <= MaxRecords
      BY <1>2 DEF WriteRest, IndInv, CallRecords
    <2>2. Len(lines) \in Nat
      BY DEF IndInv, TypeOK
    <2> QED
      BY <1>2, <2>1, <2>2 DEF WriteRest, Log!Commit
  <1>3. ASSUME NEW w \in Writer, ReturnAppended(w)
        PROVE  Log!Acknowledge \/ UNCHANGED <<lines, appended>>
    <2>1. rec[w].sequence \in 1..synced /\ lines[rec[w].sequence] = rec[w]
      BY <1>3 DEF ReturnAppended, IndInv, CallRecords
    <2>2. rec[w].sequence \in 1..Len(lines)
      BY <2>1 DEF IndInv, TypeOK
    <2> QED
      BY <1>3, <2>1, <2>2 DEF ReturnAppended, FinallyFsync, Log!Acknowledge
  <1>4. CASE LosePower
    <2>1. PICK k \in synced..Len(lines) : lines' = SubSeq(lines, 1, k)
      BY <1>4 DEF LosePower
    <2>2. k \in 0..Len(lines) /\ synced <= k /\ synced \in Nat
      BY <2>1 DEF IndInv, TypeOK
    <2>3. \A r \in appended : r.sequence <= k
      BY <2>2 DEF IndInv, AppendedSynced
    <2>4. appended' = appended
      BY <1>4 DEF LosePower, Reboot
    <2>5. Log!Lose
      BY <2>1, <2>2, <2>3, <2>4 DEF Log!Lose
    <2> QED
      BY <2>5 DEF Log!Change
  <1>5. CASE LosePowerAndEntry
    <2>1. appended = {} /\ appended' = appended /\ lines' = <<>>
      BY <1>5 DEF LosePowerAndEntry, Reboot, IndInv, AppendedSynced
    <2>2. SubSeq(lines, 1, 0) = <<>> /\ 0 \in 0..Len(lines)
      BY DEF IndInv, TypeOK
    <2>3. Log!Lose
      BY <2>1, <2>2 DEF Log!Lose
    <2> QED
      BY <2>3 DEF Log!Change
  <1>6. ASSUME NEW w \in Writer,
               (\E k \in Key : Open(w, k)) \/ Step(w) \/ WriteFails(w) \/ Kill(w),
               ~WriteRest(w), ~ReturnAppended(w)
        PROVE  UNCHANGED <<lines, appended>>
    BY <1>6 DEF Open, Step, WriteFails, Kill, Acquire, DecodeFails,
       ReturnExisting, CapacityError, Decide, WritePart, Fsync, Unlock,
       ReturnReplayed, Raise, FinallyFsync, fileVars
  <1>7. Read \/ UNCHANGED vars => UNCHANGED <<lines, appended>>
    BY DEF Read, vars, fileVars
  <1> QED
    BY <1>1, <1>2, <1>3, <1>4, <1>5, <1>6, <1>7 DEF Next, Log!Change

(* The journal implements the append-only log.                             *)
THEOREM JournalImplementsLog == Spec => ImplementsLog
  <1>1. Init => Log!Start
    BY DEF Init, Log!Start
  <1>2. IndInv /\ [Next]_vars => [Log!Change]_<<lines, appended>>
    BY LogStep
  <1> QED
    BY <1>1, <1>2, InitIndInv, NextIndInv, PTL DEF Spec, ImplementsLog, Log!LogSpec
=============================================================================
