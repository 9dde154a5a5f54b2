-------------------------- MODULE MCReviewLifecycle --------------------------
(* Instances of ReviewLifecycle for TLC.                                   *)
EXTENDS ReviewLifecycle, TLC

CONSTANTS c1, c2, c3

(* Calls differ only in what they choose.           *)
Interchangeable == Permutations(Call)
==============================================================================
