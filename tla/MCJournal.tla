----------------------------- MODULE MCJournal -----------------------------
(* Instances of Journal for TLC.                                           *)
EXTENDS Journal

CONSTANTS a, b, w1, w2

Writers == {w1, w2}
Keys == {a, b}
IdempotentKeys == {a}
=============================================================================
