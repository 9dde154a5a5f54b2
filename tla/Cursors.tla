------------------------------- MODULE Cursors -------------------------------
(* A consumer's cursor over a source journal: the effect of a message is   *)
(* committed before the cursor moves, the cursor file may be corrupted,    *)
(* and it is rebuilt from the evidence the consumers kept.  Consumers are  *)
(* processes with the same binding that run side by side.                  *)
EXTENDS Naturals, FiniteSets

CONSTANTS
    Consumer,
    MaxSource,      \* messages in the source journal
    MaxCorruption,  \* bound on the corruptions of the cursor file
    Free

ASSUME CursorsAssumption == MaxSource \in Nat /\ Free \notin Consumer

VARIABLES
    position,   \* the cursor file: last committed sequence, or Corrupt
    effects,    \* messages whose effect the target has committed
    kept,       \* messages with disposition evidence
    cursorLock, \* holder of the cursor's lock
    consumer,   \* step of each consumer and the number it works with
    corruptions

cursors == <<position, effects, kept, cursorLock, consumer, corruptions>>

Corrupt == MaxSource + 1
ConsumerIdle == [step |-> "idle", n |-> 0]
ConsumerStep == {"idle", "locked", "committed", "keep", "read", "receipt", "rebuild"}

Take(p, step, n) == consumer' = [consumer EXCEPT ![p] = [step |-> step, n |-> n]]
At(p, step) == consumer[p].step = step

-----------------------------------------------------------------------------
(* process of message n.  Under the lock: a cursor that cannot be read     *)
(* raises, a message at or before it is done, one after the next raises.   *)
ProcessBegin(p) ==
    \E n \in 1..MaxSource :
        /\ At(p, "idle") /\ cursorLock = Free
        /\ position # Corrupt /\ n = position + 1
        /\ cursorLock' = p /\ Take(p, "locked", n)
        /\ UNCHANGED <<position, effects, kept, corruptions>>

CommitEffect(p) ==
    /\ At(p, "locked")
    /\ effects' = effects \cup {consumer[p].n}
    /\ Take(p, "committed", consumer[p].n)
    /\ UNCHANGED <<position, kept, cursorLock, corruptions>>

AdvanceCursor(p) ==
    /\ At(p, "committed")
    /\ position' = consumer[p].n /\ cursorLock' = Free
    /\ Take(p, "keep", consumer[p].n)
    /\ UNCHANGED <<effects, kept, corruptions>>

(* The caller keeps the disposition evidence that process returned.        *)
KeepEvidence(p) ==
    /\ At(p, "keep")
    /\ kept' = kept \cup {consumer[p].n} /\ Take(p, "idle", 0)
    /\ UNCHANGED <<position, effects, cursorLock, corruptions>>

-----------------------------------------------------------------------------
(* compare_and_update for a caller that read the cursor, committed the     *)
(* effect of the next message itself and then asks for the update.         *)
ReadCursor(p) ==
    /\ At(p, "idle") /\ cursorLock = Free /\ position < MaxSource
    /\ Take(p, "read", position)
    /\ UNCHANGED <<position, effects, kept, cursorLock, corruptions>>

CommitOutside(p) ==
    /\ At(p, "read")
    /\ effects' = effects \cup {consumer[p].n + 1}
    /\ Take(p, "receipt", consumer[p].n)
    /\ UNCHANGED <<position, kept, cursorLock, corruptions>>

(* A bug for comparison: the expected sequence is not compared.            *)
CompareAndUpdateBlind(p) ==
    /\ At(p, "receipt") /\ cursorLock = Free
    /\ position' = position + 1 /\ Take(p, "idle", 0)
    /\ UNCHANGED <<effects, kept, cursorLock, corruptions>>

CompareAndUpdate(p) ==
    /\ At(p, "receipt") /\ cursorLock = Free
    /\ position' = IF position = consumer[p].n THEN position + 1 ELSE position
    /\ Take(p, "idle", 0)
    /\ UNCHANGED <<effects, kept, cursorLock, corruptions>>

-----------------------------------------------------------------------------
(* reconstruct_cursor: the longest prefix with evidence.                   *)
ContiguousPrefix(s) == Cardinality({n \in s : 1..n \subseteq s})

(* read_or_reconstruct rebuilds before it takes the lock; then the rebuilt *)
(* cursor replaces one that is missing, corrupt or different.              *)
Rebuild(p) ==
    /\ At(p, "idle") /\ Take(p, "rebuild", ContiguousPrefix(kept))
    /\ UNCHANGED <<position, effects, kept, cursorLock, corruptions>>

Reconstruct(p) ==
    /\ At(p, "rebuild") /\ cursorLock = Free
    /\ position' = consumer[p].n /\ Take(p, "idle", 0)
    /\ UNCHANGED <<effects, kept, cursorLock, corruptions>>

KillConsumer(p) ==
    /\ ~At(p, "idle") /\ Take(p, "idle", 0)
    /\ cursorLock' = IF cursorLock = p THEN Free ELSE cursorLock
    /\ UNCHANGED <<position, effects, kept, corruptions>>

CorruptCursor ==
    /\ corruptions < MaxCorruption /\ cursorLock = Free
    /\ position' = Corrupt /\ corruptions' = corruptions + 1
    /\ UNCHANGED <<effects, kept, cursorLock, consumer>>

-----------------------------------------------------------------------------
CursorsInit ==
    /\ position = 0 /\ effects = {} /\ kept = {} /\ cursorLock = Free
    /\ consumer = [p \in Consumer |-> ConsumerIdle] /\ corruptions = 0

CursorsNext ==
    \/ \E p \in Consumer :
          \/ ProcessBegin(p) \/ CommitEffect(p) \/ AdvanceCursor(p) \/ KeepEvidence(p)
          \/ ReadCursor(p) \/ CommitOutside(p) \/ CompareAndUpdate(p)
          \/ Rebuild(p) \/ Reconstruct(p) \/ KillConsumer(p)
    \/ CorruptCursor

CursorsSpec == CursorsInit /\ [][CursorsNext]_cursors

-----------------------------------------------------------------------------
CursorsTypeOK ==
    /\ position \in 0..Corrupt /\ effects \subseteq 1..MaxSource /\ kept \subseteq effects
    /\ cursorLock \in Consumer \cup {Free}
    /\ consumer \in [Consumer -> [step : ConsumerStep, n : 0..MaxSource]]

(* Effects are committed in the order of the journal, and no cursor,       *)
(* written, compared or rebuilt, gets ahead of them, so that no message is *)
(* skipped: not by kills between effect and cursor, by lost evidence, by a *)
(* corrupt file or by a rebuilt cursor that another consumer overtook.     *)
EffectsInOrder ==
    /\ \A n \in effects : 1..n \subseteq effects
    /\ position # Corrupt => 1..position \subseteq effects

(* The safety of cursors.                                                  *)
CursorsSafe == CursorsTypeOK /\ EffectsInOrder

-----------------------------------------------------------------------------
(* The inductive invariant behind CursorsAreSafe in EvidenceProofs.        *)

(* Only the holder of the lock is between its look at the cursor and its   *)
(* write, so the cursor it looked at is still the one there.               *)
LockedCursor ==
    \A p \in Consumer :
        /\ At(p, "locked") \/ At(p, "committed") => cursorLock = p
        /\ At(p, "locked") => position # Corrupt /\ consumer[p].n = position + 1

(* Whatever number a consumer goes on with, the effects up to it are       *)
(* there, and so is that of the receipt it holds.                          *)
NumbersBacked ==
    \A p \in Consumer :
        /\ At(p, "committed") \/ At(p, "keep") => consumer[p].n \in effects
        /\ At(p, "read") \/ At(p, "rebuild") => 1..consumer[p].n \subseteq effects
        /\ At(p, "read") \/ At(p, "receipt") => consumer[p].n < MaxSource
        /\ At(p, "receipt") => consumer[p].n + 1 \in effects

CursorsInv == CursorsSafe /\ LockedCursor /\ NumbersBacked
=============================================================================
