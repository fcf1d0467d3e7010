------------------------------- MODULE MCOverrun -------------------------------
(* Instances of Overrun for TLC. *)
EXTENDS Overrun, TLC
===============================================================================
