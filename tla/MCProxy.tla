------------------------------- MODULE MCProxy --------------------------------
(* A small instance of Proxy: one document of one server, an approval as it *)
(* is or with another host, and calls to both.                             *)
EXTENDS Proxy, TLC

CONSTANTS a, x, p, r1, r2, r3, r4, i1

MCNames == {a, x}

MCKind == (a :> "domain") @@ (x :> "literal")

MCLiteral == x :> p

Host(n) == [name |-> n, upper |-> FALSE, padded |-> FALSE]

MCDocuments == {{Host(x)}}

MCEdits == {{Host(a)}}

MCTargets == {Host(a), Host(x)}

Symmetry == Permutations(Requests)
==============================================================================
