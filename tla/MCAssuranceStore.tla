-------------------------- MODULE MCAssuranceStore --------------------------
(* Three workers over the same file; which of them does what is immaterial. *)
EXTENDS AssuranceStore

Symmetry == Permutations(Workers) \union Permutations(Fixtures)
=============================================================================
