-------------------------------- MODULE Billing --------------------------------
(***************************************************************************)
(* What requests cost: src/fusegrid/pricing.py, and the parts of           *)
(* src/fusegrid/proxy.py that turn a request into tokens to reserve and a  *)
(* usage block into tokens to charge, against what the upstream bills.     *)
(*                                                                         *)
(* The upstream bills the tokens it spends, as many as it likes: the body  *)
(* is forwarded as it came, and of what it may say about output only       *)
(* max_tokens is read.  A usage block says so, or leaves counts out, or    *)
(* counts below zero, or counts what is not billed; the answer may be lost.*)
(* Amounts are micro-dollars; prices are micro-dollars per token, which is *)
(* dollars per million tokens.  Rounding is the subject of Ledger.         *)
(***************************************************************************)
EXTENDS Money

CONSTANTS
  Price,       \* configured model -> its price per token
  Ceiling,     \* of the one budget
  Requests,    \* requests that may arrive
  Payloads,    \* their contents: model, estimate, max_tokens
  DefaultMax,  \* default_max_output_tokens
  Prompts,     \* tokens the upstream may count in a prompt
  Outputs,     \* tokens it may produce, whatever max_tokens says
  Counts,      \* what a usage block may say for either
  None         \* "not given", "not yet"

Prices == [input : Nat, output : Nat]
Tokens == [prompt : Nat, completion : Nat]
Blocks == [prompt : Counts, completion : Counts] \cup {None}

ASSUME BillingAssumption ==
  /\ \A m \in DOMAIN Price : Price[m] \in Prices
  /\ Ceiling \in Nat
  /\ IsFiniteSet(Requests)
  /\ \A q \in Payloads : q.estimate \in Nat /\ q.max \in Int \cup {None}
  /\ DefaultMax \in Nat
  /\ Prompts \subseteq Nat /\ Outputs \subseteq Nat
  /\ Counts \subseteq Int \cup {None}
  /\ None \notin Int /\ None \notin Payloads /\ None \notin Tokens
  /\ None \notin [prompt : Counts, completion : Counts]

VARIABLES
  held,     \* the store's number
  payload,  \* payload[r]: the contents of r, or None
  stage,    \* stage[r]: how far r is
  \* history
  spent,    \* spent[r]: the tokens the upstream spent on r and bills, or None
  told,     \* told[r]: the usage block r was settled from, or None
  charged   \* charged[r]: what the store goes on counting for r when it has ended

vars == <<held, payload, stage, spent, told, charged>>

-------------------------------------------------------------------------------
(* pricing.py *)

\* The output that is reserved for.
Limit(q) == IF q.max = None THEN DefaultMax ELSE q.max

\* Slip: output is reserved for at the price of input.
MaxCostMutInput(q) == q.estimate * Price[q.model].input + Limit(q) * Price[q.model].input

MaxCost(q) == q.estimate * Price[q.model].input + Limit(q) * Price[q.model].output

\* Slip: the two prices are swapped.
ActualCostMutSwapped(m, in, out) == in * Price[m].output + out * Price[m].input

ActualCost(m, in, out) == in * Price[m].input + out * Price[m].output

-------------------------------------------------------------------------------
(* Admission *)

Refuse(r, q) ==
  /\ stage[r] = "new"
  /\ payload' = [payload EXCEPT ![r] = q]
  /\ stage' = [stage EXCEPT ![r] = "refused"]
  /\ UNCHANGED <<held, spent, told, charged>>

\* max_tokens below zero is refused before anything is priced.
Counted(q) == q.max # None => q.max >= 0

RefuseCount(r, q) == ~Counted(q) /\ Refuse(r, q)

RefuseUnpriced(r, q) == Counted(q) /\ q.model \notin DOMAIN Price /\ Refuse(r, q)

RefuseBudget(r, q) ==
  /\ Counted(q) /\ q.model \in DOMAIN Price
  /\ held + MaxCost(q) > Ceiling
  /\ Refuse(r, q)

Admit(r, q) ==
  /\ stage[r] = "new"
  /\ Counted(q) /\ q.model \in DOMAIN Price
  /\ held + MaxCost(q) <= Ceiling
  /\ held' = held + MaxCost(q)
  /\ payload' = [payload EXCEPT ![r] = q]
  /\ stage' = [stage EXCEPT ![r] = "flying"]
  /\ UNCHANGED <<spent, told, charged>>

-------------------------------------------------------------------------------
(* The upstream, and how the request ends *)

\* What it bills.
Bill(m, t) == t.prompt * Price[m].input + t.completion * Price[m].output

\* What it may spend on a request.
Spends == [prompt : Prompts, completion : Outputs]

\* A count that is left out is zero.
OrZero(n) == IF n = None THEN 0 ELSE n

\* Without any count, or with one below zero, a block cannot be trusted.
Trusted(u) ==
  /\ u # None
  /\ u.prompt # None \/ u.completion # None
  /\ OrZero(u.prompt) >= 0 /\ OrZero(u.completion) >= 0

Reported(q, u) == ActualCost(q.model, OrZero(u.prompt), OrZero(u.completion))

\* Slip: what is reported is not compared with what was reserved.
ChargeMutUnclamped(q, u) == IF Trusted(u) THEN Reported(q, u) ELSE MaxCost(q)

\* _cost_from_usage, clamped to the reservation by the ledger.
Charge(q, u) == IF Trusted(u) THEN Least(Reported(q, u), MaxCost(q)) ELSE MaxCost(q)

\* The request ends so, and the store keeps c of its reservation.
End(r, how, t, u, c) ==
  /\ stage' = [stage EXCEPT ![r] = how]
  /\ spent' = [spent EXCEPT ![r] = t]
  /\ told' = [told EXCEPT ![r] = u]
  /\ charged' = [charged EXCEPT ![r] = c]
  /\ held' = held - (MaxCost(payload[r]) - c)
  /\ UNCHANGED payload

\* Settled from a usage block: the one of a plain answer, the first of a stream,
\* which need not count what the upstream bills in the end; or from none.
Serve(r) ==
  /\ stage[r] = "flying"
  /\ \E t \in Spends, u \in Blocks : End(r, "served", t, u, Charge(payload[r], u))

\* The upstream is not reached, or refuses: released, and nothing is billed.
Reject(r) == stage[r] = "flying" /\ End(r, "failed", None, None, 0)

\* Released although it is billed: the answer does not arrive, or breaks off
\* before a usage block, which is httpx.HTTPError all the same; the client leaves
\* at a chunk of a stream, the one with the usage block among them; or the
\* application sweeps a request under way.
ReleaseBilled(r) ==
  /\ stage[r] = "flying"
  /\ \E t \in Spends : End(r, "failed", t, None, 0)

\* The store goes on counting all of it, billed or not: no handler ends the
\* reservation, or settles in full what was cut off, or the store fails there.
Keep(r) ==
  /\ stage[r] = "flying"
  /\ \E t \in Spends \cup {None} : End(r, "kept", t, None, MaxCost(payload[r]))

\* The application sweeps a reservation that no handler has ended.
Sweep(r) == stage[r] = "kept" /\ End(r, "failed", spent[r], None, 0)

-------------------------------------------------------------------------------
Init ==
  /\ held = 0
  /\ payload = [r \in Requests |-> None]
  /\ stage = [r \in Requests |-> "new"]
  /\ spent = [r \in Requests |-> None]
  /\ told = [r \in Requests |-> None]
  /\ charged = [r \in Requests |-> 0]

Arrive(r) ==
  \E q \in Payloads : RefuseCount(r, q) \/ RefuseUnpriced(r, q) \/ RefuseBudget(r, q) \/ Admit(r, q)

Next == \E r \in Requests :
  Arrive(r) \/ Serve(r) \/ Reject(r) \/ ReleaseBilled(r) \/ Keep(r) \/ Sweep(r)

Spec == Init /\ [][Next]_vars

-------------------------------------------------------------------------------
(* Properties *)

\* The shape of the state; a request that was admitted has a price and counts
\* that are not negative, and is charged at most its reservation.
Admitted == {r \in Requests : stage[r] \in {"flying", "served", "failed", "kept"}}

TypeOK ==
  /\ held \in Nat
  /\ payload \in [Requests -> Payloads \cup {None}]
  /\ stage \in [Requests -> {"new", "refused", "flying", "served", "failed", "kept"}]
  /\ spent \in [Requests -> Tokens \cup {None}]
  /\ told \in [Requests -> Blocks]
  /\ charged \in [Requests -> Nat]
  /\ \A r \in Admitted :
       /\ payload[r] # None /\ payload[r].model \in DOMAIN Price /\ Counted(payload[r])
       /\ charged[r] <= MaxCost(payload[r])

Flying   == {r \in Requests : stage[r] = "flying"}
Billed   == {r \in Requests : spent[r] # None}
Bills    == [r \in Requests |-> IF r \in Billed
               THEN Bill(payload[r].model, spent[r]) ELSE 0]
Reserved == [r \in Requests |-> IF r \in Flying THEN MaxCost(payload[r]) ELSE 0]

\* Where a bill and a charge may part in this model: the prompt was estimated too
\* low; the upstream produced more than was reserved for (no max_tokens, or zero,
\* or n, or max_completion_tokens, or because it does); the block that settled
\* does not count what is billed (it leaves a count out, or it was not the last
\* one); the reservation was given back though the request is billed.
Exposed(r) ==
  LET t == spent[r]
      u == told[r]
  IN  \/ t.prompt > payload[r].estimate
      \/ t.completion > Limit(payload[r])
      \/ Trusted(u) /\ (OrZero(u.prompt) # t.prompt \/ OrZero(u.completion) # t.completion)
      \/ stage[r] = "failed"

\* In money the upstream really bills, the ceiling holds for all requests but
\* these, together with the reservations of those in flight: the prices, the
\* limit, the charge and what is given back agree (proxy.py:145-241).
BillsFit ==
  Total({r \in Billed : ~Exposed(r)}, Bills) + Total(Flying, Reserved) <= Ceiling

\* A request that is not exposed is charged what is billed, no less and no more,
\* or all it reserved when the upstream did not say (proxy.py:323-344).
ChargedAsBilled ==
  \A r \in Billed : ~Exposed(r) =>
    charged[r] = IF Trusted(told[r]) THEN Bills[r] ELSE MaxCost(payload[r])
===============================================================================
