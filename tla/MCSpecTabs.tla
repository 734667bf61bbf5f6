------------------------------ MODULE MCSpecTabs ------------------------------
(* Small instances of SpecTabs: one spec more than tabs. *)
EXTENDS SpecTabs, TLC

Symmetry == Permutations(Specs) \cup Permutations(Approvals)
==============================================================================
