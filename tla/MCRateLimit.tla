------------------------------ MODULE MCRateLimit ------------------------------
(* Instances of RateLimit for TLC. *)
EXTENDS RateLimit, TLC

\* The clock is set forward, or back, or back by a whole window.
JumpsBoth == {-2, -1, 1}
===============================================================================
