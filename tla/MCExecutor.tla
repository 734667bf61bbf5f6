------------------------------ MODULE MCExecutor ------------------------------
(* Small instances of Executor: two domains, of which one is approved, a   *)
(* private literal address, and LOCALHOST in upper case, which only the    *)
(* look-up tells from a domain.                                            *)
EXTENDS Executor, TLC

CONSTANTS a, b, x, lo, p, q, c1, c2

MCNames == {a, b, x, lo}

MCKind == (a :> "domain") @@ (b :> "domain") @@ (x :> "literal") @@ (lo :> "localhost")

MCLiteral == x :> q

Host(n) == [name |-> n, upper |-> FALSE, padded |-> FALSE]

Typed(n) == [name |-> n, upper |-> TRUE, padded |-> FALSE]

MCInputs == {[host |-> Typed(a), list |-> {Host(a)}],
             [host |-> Host(b), list |-> {Host(a)}],
             [host |-> Host(x), list |-> {Host(x)}]}

MCRedirects == {Host(b), Host(x), Typed(lo)}
==============================================================================
