-------------------------- MODULE MCSharedGovernance --------------------------
(* Small instances of SharedGovernance: the calls are interchangeable.        *)
EXTENDS SharedGovernance, TLC

CONSTANTS c1, c2, c3

Symmetry == Permutations(Calls)
===============================================================================
