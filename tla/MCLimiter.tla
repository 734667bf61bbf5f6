------------------------------ MODULE MCLimiter ------------------------------
(* Limiter on two hosts, buckets of two tokens and a token every two ticks. *)
EXTENDS Limiter
==============================================================================
