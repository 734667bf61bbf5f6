----------------------------- MODULE MCApiClient -----------------------------
(* Small instances of ApiClient: two open specs with an endpoint each,   *)
(* and something that is no URL.                                           *)
EXTENDS ApiClient, TLC

CONSTANTS s1, s2, u1, u2, bad

MCEndpoint == (s1 :> u1) @@ (s2 :> u2)
==============================================================================
