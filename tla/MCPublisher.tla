---------------------------- MODULE MCPublisher ----------------------------
(* Publisher for TLC: its callers are interchangeable.                     *)
EXTENDS Publisher, TLC

CallerSymmetry == Permutations(Callers)
=============================================================================
