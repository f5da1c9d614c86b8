----------------------------- MODULE MCConsumer -----------------------------
(* Consumer for TLC: its replicas are interchangeable.                     *)
EXTENDS Consumer, TLC

ReplicaSymmetry == Permutations(Replicas)
=============================================================================
