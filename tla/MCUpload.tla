------------------------------- MODULE MCUpload -------------------------------
(* Small instances of Upload: a demo's document or another, and two demos. *)
EXTENDS Upload, TLC

CONSTANTS own, d1, d2, first, second, h1, h2, h3

MCDemoText == (first :> d1) @@ (second :> d2)

Symmetry == Permutations(Calls)
==============================================================================
