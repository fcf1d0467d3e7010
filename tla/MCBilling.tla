------------------------------- MODULE MCBilling -------------------------------
(* Instances of Billing for TLC. *)
EXTENDS Billing, TLC

PriceTable == [m \in {"dear", "cheap"} |->
  IF m = "dear" THEN [input |-> 2, output |-> 4] ELSE [input |-> 1, output |-> 2]]

Payload(m, e, x) == [model |-> m, estimate |-> e, max |-> x]

\* With a limit, without one, with a limit of zero and one below; a model
\* without a price.
PayloadsMixed ==
  {Payload("dear", 1, 1), Payload("cheap", 2, None),
   Payload("dear", 2, 0), Payload("cheap", 1, -1), Payload("new", 1, 1)}

\* Left out, below zero, and the counts that may be billed: with two of them the
\* prices of input and output tell apart which count is which.
CountsMixed == {None, -1, 1, 2}

Symmetry == Permutations(Requests)
===============================================================================
