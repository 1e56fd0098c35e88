-------------------------- MODULE MCFilterLineage --------------------------
(* Two evidences, so that a caller may reuse one lineage key for both. *)
EXTENDS FilterLineage, TLC

MCSymmetry == Permutations(Evidence) \cup Permutations(Inputs)
                \cup Permutations(LineageKeys)
=============================================================================
