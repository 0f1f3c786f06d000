------------------------------ MODULE MCMemory ------------------------------
(* Instances of the memory store for TLC. *)
EXTENDS MemorySafety, TLC

Symmetric == Permutations(Adder)

=============================================================================
