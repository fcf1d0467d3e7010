-------------------------------- MODULE MCProxy --------------------------------
(* Instances of Proxy for TLC. *)
EXTENDS Proxy, TLC

\* One configured key; "other" is a key nobody configured.
KeysOne    == {"k", "other"}
CeilingOne == [k \in {"k"} |-> 5]

Offer(v, p, k, c, s) == [valid |-> v, priced |-> p, key |-> k, cost |-> c, stream |-> s]

\* A plain and a streamed request: two streams fit, or one of each, and never
\* two plain ones.
OffersSound == {Offer(TRUE, TRUE, "k", 3, FALSE), Offer(TRUE, TRUE, "k", 2, TRUE)}

\* The same, and every refusal.
OffersMixed == OffersSound \cup
  {Offer(FALSE, TRUE, "k", 1, FALSE), Offer(TRUE, FALSE, "k", 1, FALSE),
   Offer(TRUE, TRUE, "other", 1, FALSE)}

\* A cost below zero, one that leaves something, one above every reservation.
CostsMixed == {-1, 1, 4}

AllFaults == FaultKinds
===============================================================================
