-------------------------------- MODULE Budget --------------------------------
(***************************************************************************)
(* What a budget ledger promises, whoever implements it (the module        *)
(* docstring of src/fusegrid/ledger.py): for every key, at every instant,  *)
(*                                                                         *)
(*        committed + sum of the outstanding holds <= ceiling.             *)
(*                                                                         *)
(* A hold is taken only if it fits, and ends exactly once: charged with at *)
(* most its own amount, or refunded in full.  Amounts are micro-dollars.   *)
(***************************************************************************)
EXTENDS Money

CONSTANTS Keys,     \* names of budgets a caller may use
          Ids,      \* identifiers of holds
          Cap,      \* the ceiling of each configured key, in micro-dollars
          None      \* "no hold"

VARIABLES committed,  \* committed[k]: spend that is final
          hold        \* hold[i]: the hold i, or None

budgetVars == <<committed, hold>>

Holds == [key : Keys, amount : Nat]

HoldsOf(k)  == {i \in Ids : hold[i] # None /\ hold[i].key = k}
HoldAmount  == [i \in Ids |-> IF hold[i] = None THEN 0 ELSE hold[i].amount]

Used(k) == committed[k] + Total(HoldsOf(k), HoldAmount)

BudgetInit ==
  /\ committed = [k \in Keys |-> 0]
  /\ hold = [i \in Ids |-> None]

\* A hold that fits under the ceiling is taken.
Admit(i, k, a) ==
  /\ hold[i] = None
  /\ Used(k) + a <= Cap[k]
  /\ hold' = [hold EXCEPT ![i] = [key |-> k, amount |-> a]]
  /\ UNCHANGED committed

\* A hold ends with a charge of at most its amount; the rest is given back.
Charge(i, c) ==
  /\ hold[i] # None
  /\ c <= hold[i].amount
  /\ committed' = [committed EXCEPT ![hold[i].key] = @ + c]
  /\ hold' = [hold EXCEPT ![i] = None]

\* A hold ends with nothing charged.
Refund(i) ==
  /\ hold[i] # None
  /\ hold' = [hold EXCEPT ![i] = None]
  /\ UNCHANGED committed

\* All spend and all holds are forgotten together; no ceiling is touched.
Forget ==
  /\ committed' = [k \in Keys |-> 0]
  /\ hold' = [i \in Ids |-> None]

BudgetNext ==
  \/ \E i \in Ids, k \in DOMAIN Cap : \E a \in 0 .. Cap[k] : Admit(i, k, a)
  \/ \E i \in Ids : hold[i] # None /\ \E c \in 0 .. hold[i].amount : Charge(i, c)
  \/ \E i \in Ids : Refund(i)
  \/ Forget

BudgetSpec == BudgetInit /\ [][BudgetNext]_budgetVars
===============================================================================
