----------------------------- MODULE MCSpecGate ------------------------------
(* Small instances of SpecGate.  One document lists two servers; approvals *)
(* may edit the list; targets differ from the entries in case only.        *)
EXTENDS SpecGate, TLC

CONSTANTS a, b, c, x, r1, r2, r3, r4, i1, i2

MCNames == {a, b, c, x}

MCKind == (a :> "domain") @@ (b :> "domain") @@ (c :> "domain") @@ (x :> "literal")

Host(n) == [name |-> n, upper |-> FALSE, padded |-> FALSE]

Typed(n) == [name |-> n, upper |-> TRUE, padded |-> FALSE]

Padded(n) == [name |-> n, upper |-> FALSE, padded |-> TRUE]

MCDocuments == {{Typed(a), Host(c)}}

MCEdits == {{Typed(b)}, {Padded(c)}, {Host(b), Host(x)}}

MCTargets == {Host(a), Host(b)}

Symmetry == Permutations(Requests) \cup Permutations(Ids)
==============================================================================
