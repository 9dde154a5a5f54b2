----------------------------- MODULE MCSteering -----------------------------
(* Instances of Steering for TLC.                                          *)
EXTENDS Steering, TLC

CONSTANTS m1, m2, h1, c1, c2, x1

(* The child's calls are interchangeable in a safety run.                  *)
Interchangeable == Permutations(ChildAck)
=============================================================================
