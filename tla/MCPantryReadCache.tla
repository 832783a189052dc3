-------------------------- MODULE MCPantryReadCache --------------------------
(* PantryReadCache on small instances.                                      *)
EXTENDS PantryReadCache, TLC

(* Requests, processes and households are interchangeable.                  *)
Symmetry ==
    Permutations(Readers) \cup Permutations(Writers) \cup Permutations(Procs)
        \cup Permutations(Households)
=============================================================================
