--------------------------- MODULE AppendOnlyLog ---------------------------
(***************************************************************************)
(* What a journal promises its clients, without locks, files or processes: *)
(* a log that grows by one record at a time, and that a failure may only   *)
(* shorten down to the records already acknowledged to an appender.        *)
(***************************************************************************)
EXTENDS Naturals, Sequences

CONSTANTS Key, MaxRecords

VARIABLES log, acked

Entry == [sequence : Nat, key : Key]

Start == log = <<>> /\ acked = {}

(* One record is committed, numbered by its position.                      *)
Commit ==
    /\ Len(log) < MaxRecords
    /\ \E k \in Key :
         log' = Append(log, [sequence |-> Len(log) + 1, key |-> k])
    /\ UNCHANGED acked

(* An appender learns that its record is in the log.                       *)
Acknowledge ==
    /\ \E i \in 1..Len(log) : acked' = acked \cup {log[i]}
    /\ UNCHANGED log

(* A failure drops a suffix, but no acknowledged record.                   *)
Lose ==
    /\ \E k \in 0..Len(log) :
         /\ \A r \in acked : r.sequence <= k
         /\ log' = SubSeq(log, 1, k)
    /\ UNCHANGED acked

Change == Commit \/ Acknowledge \/ Lose

LogSpec == Start /\ [][Change]_<<log, acked>>
=============================================================================
