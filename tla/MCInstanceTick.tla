--------------------------- MODULE MCInstanceTick ---------------------------
(* InstanceTick for TLC: the goroutines of an instance are interchangeable.  *)
EXTENDS InstanceTick, TLC

Symmetry == Permutations(Slot)
=============================================================================
