----------------------------- MODULE MCMetrics -----------------------------
(* Metrics for TLC: keys with an id in them, and a mapper that redacts one *)
(* and has no name for the other.                                          *)
EXTENDS Metrics, TLC

MCKeys == {"order.1", "order.2"}

MCMappers ==
    {Identity, [k \in MCKeys |-> IF k = "order.1" THEN "" ELSE "order"]}

EmitterSymmetry == Permutations(Emitters)
=============================================================================
