------------------------------- MODULE Replicas -------------------------------
(***************************************************************************)
(* Several processes, each with a Ledger (src/fusegrid/ledger.py) of its   *)
(* own, that share one RedisStore (src/fusegrid/store.py).                 *)
(*                                                                         *)
(* A process runs one call of its ledger at a time and is blocked while it *)
(* waits for Redis, so only what travels is split: a call begins with its  *)
(* local part and the command it sends; Redis executes the command, as one *)
(* indivisible step; the answer ends the call.  The connection may break   *)
(* before or after the command was executed, the client library may send   *)
(* it again, and the process may die at any moment and be started anew     *)
(* with an empty _open.                                                    *)
(*                                                                         *)
(* Amounts are micro-dollars.  An execution that comes after the process   *)
(* has given the call up is taken to come just before.                     *)
(***************************************************************************)
EXTENDS Money

CONSTANTS
  Keys,        \* configured budgets
  Ceiling,     \* key -> ceiling
  Ids,         \* identifiers of reservations
  Procs,       \* processes
  Amounts,     \* amounts of reserve
  Costs,       \* actual costs of settle, of either sign
  Losses,      \* a connection may break
  Crashes,     \* a process may die
  MaxTries,    \* times a command is executed: 1 unless the client repeats it
  None         \* "no reservation", "no call"

Reservation == [key : Keys, amount : Nat]

\* A call that waits for Redis: the reservation it is about, the amount its
\* command moves, how often the command was executed, how many executions
\* changed the counter, and what Redis answered last.
Calls == [op : {"reserve", "settle", "release"}, id : Ids, amount : Nat,
          tries : 0 .. MaxTries, done : Nat, reply : {"none", "yes", "no"}]

ASSUME ReplicasAssumption ==
  /\ IsFiniteSet(Ids)
  /\ IsFiniteSet(Procs)
  /\ Ceiling \in [Keys -> Nat]
  /\ Amounts \subseteq Nat
  /\ Costs \subseteq Int
  /\ Losses \in BOOLEAN /\ Crashes \in BOOLEAN
  /\ MaxTries \in Nat \ {0}
  /\ None \notin Reservation /\ None \notin Calls

VARIABLES
  held,     \* held[k]: the counter in Redis
  open,     \* open[p]: the keys of _open in process p
  res,      \* res[i]: the reservation i, or None
  call,     \* call[p]: the call of p that waits for Redis, or None
  \* history
  charged,  \* charged[k]: what settled requests were charged
  orphans,  \* open reservations of processes that died
  excess,   \* excess[k]: what repeated commands gave back a second time
  stranded  \* stranded[k]: holds in Redis that no process knows of

historyVars == <<charged, orphans, excess, stranded>>
vars == <<held, open, res, call, charged, orphans, excess, stranded>>

KeyOf(p) == res[call[p].id].key

-------------------------------------------------------------------------------
(* A call begins *)

Send(p, op, i, a) ==
  call' = [call EXCEPT ![p] = [op |-> op, id |-> i, amount |-> a,
                               tries |-> 0, done |-> 0, reply |-> "none"]]

\* reserve: nothing is recorded before Redis answers.
Reserve(p, k, a, i) ==
  /\ call[p] = None
  /\ res[i] = None
  /\ res' = [res EXCEPT ![i] = [key |-> k, amount |-> a]]
  /\ Send(p, "reserve", i, a)
  /\ UNCHANGED <<held, open, historyVars>>

\* Slips: a cost below zero is let in; the cost is not clamped from above.
ChargeMutSigned(i, c) == Least(c, res[i].amount)
ChargeMutUnclamped(i, c) == Greatest(0, c)

\* What a settle at cost c charges.
Charge(i, c) == Least(Greatest(0, c), res[i].amount)

\* Slip: settle gives the whole reservation back.
UnusedMutAll(i, c) == res[i].amount

\* What a settle at cost c gives back.
Unused(i, c) == res[i].amount - Charge(i, c)

\* settle: the id leaves _open.  When nothing is to be given back Redis is not
\* asked.
Settle(p, i, c) ==
  /\ call[p] = None
  /\ i \in open[p]
  /\ open' = [open EXCEPT ![p] = @ \ {i}]
  /\ charged' = [charged EXCEPT ![res[i].key] = @ + Charge(i, c)]
  /\ IF Unused(i, c) = 0 THEN UNCHANGED call ELSE Send(p, "settle", i, Unused(i, c))
  /\ UNCHANGED <<held, res, orphans, excess, stranded>>

\* release, and one turn of a sweep: the id leaves _open.
Release(p, i) ==
  /\ call[p] = None
  /\ i \in open[p]
  /\ open' = [open EXCEPT ![p] = @ \ {i}]
  /\ Send(p, "release", i, res[i].amount)
  /\ UNCHANGED <<held, res, historyVars>>

-------------------------------------------------------------------------------
(* Redis *)

\* Slip: the script compares the counter alone with the ceiling.
FitsMutForgetsAmount(p) == held[KeyOf(p)] < Ceiling[KeyOf(p)]

\* The test of RESERVE_LUA.
Fits(p) == held[KeyOf(p)] + call[p].amount <= Ceiling[KeyOf(p)]

\* A command of p is executed, for the first time or, after a lost answer, again.
Executed(p, changes, reply) ==
  /\ call[p].tries < MaxTries
  /\ call' = [call EXCEPT ![p].tries = @ + 1,
                          ![p].done = IF changes THEN @ + 1 ELSE @,
                          ![p].reply = reply]
  /\ UNCHANGED <<open, res, charged, orphans, stranded>>

\* RESERVE_LUA: a reserve that does not fit is answered no and changes nothing.
ExecuteReserve(p) ==
  /\ call[p] # None /\ call[p].op = "reserve"
  /\ IF Fits(p) THEN held' = [held EXCEPT ![KeyOf(p)] = @ + call[p].amount] ELSE UNCHANGED held
  /\ Executed(p, Fits(p), IF Fits(p) THEN "yes" ELSE "no")
  /\ UNCHANGED excess

\* INCRBY with a negative amount.  Nothing stops a second execution, nor the
\* counter from falling below zero.
ExecuteGiveBack(p) ==
  /\ call[p] # None /\ call[p].op # "reserve"
  /\ held' = [held EXCEPT ![KeyOf(p)] = @ - call[p].amount]
  /\ excess' = IF call[p].done = 0 THEN excess
               ELSE [excess EXCEPT ![KeyOf(p)] = @ + call[p].amount]
  /\ Executed(p, TRUE, "yes")

-------------------------------------------------------------------------------
(* A call ends *)

\* What a call that is abandoned leaves behind in the counter: what a reserve
\* took, or what a settle or release did not give back.
Left(p) == IF call[p].op = "reserve" THEN call[p].done * call[p].amount
           ELSE IF call[p].done = 0 THEN call[p].amount ELSE 0

Strand(p, a) == stranded' = [stranded EXCEPT ![KeyOf(p)] = @ + a]

\* The answer yes: an admitted reservation enters _open, once; the other calls
\* have nothing left to do.
Answered(p) ==
  /\ call[p] # None /\ call[p].reply = "yes"
  /\ call' = [call EXCEPT ![p] = None]
  /\ IF call[p].op = "reserve"
     THEN /\ open' = [open EXCEPT ![p] = @ \cup {call[p].id}]
          /\ Strand(p, Left(p) - call[p].amount)
     ELSE UNCHANGED <<open, stranded>>
  /\ UNCHANGED <<held, res, charged, orphans, excess>>

\* The answer no: the request is denied and forgotten.
Denied(p) ==
  /\ call[p] # None /\ call[p].reply = "no"
  /\ call' = [call EXCEPT ![p] = None]
  /\ res' = [res EXCEPT ![call[p].id] = None]
  /\ Strand(p, Left(p))
  /\ UNCHANGED <<held, open, charged, orphans, excess>>

\* No answer arrives: LedgerUnavailable.  A reserve is denied (its hold may be
\* in Redis all the same), a settle or release stays undone or is done.
Raises(p) ==
  /\ Losses
  /\ call[p] # None
  /\ call' = [call EXCEPT ![p] = None]
  /\ Strand(p, Left(p))
  /\ UNCHANGED <<held, open, res, charged, orphans, excess>>

\* The process dies; the one started in its place has an empty _open.  What
\* its requests had reserved the provider may bill or may have billed.
Crash(p) ==
  /\ Crashes
  /\ open' = [open EXCEPT ![p] = {}]
  /\ call' = [call EXCEPT ![p] = None]
  /\ orphans' = orphans \cup open[p]
  /\ IF call[p] = None THEN UNCHANGED stranded ELSE Strand(p, Left(p))
  /\ UNCHANGED <<held, res, charged, excess>>

-------------------------------------------------------------------------------
Init ==
  /\ held = [k \in Keys |-> 0]
  /\ open = [p \in Procs |-> {}]
  /\ res = [i \in Ids |-> None]
  /\ call = [p \in Procs |-> None]
  /\ charged = [k \in Keys |-> 0]
  /\ orphans = {}
  /\ excess = [k \in Keys |-> 0]
  /\ stranded = [k \in Keys |-> 0]

Begin(p) ==
  \E i \in Ids :
    \/ \E k \in Keys, a \in Amounts : Reserve(p, k, a, i)
    \/ \E c \in Costs : Settle(p, i, c)
    \/ Release(p, i)

Next ==
  \E p \in Procs :
    Begin(p) \/ ExecuteReserve(p) \/ ExecuteGiveBack(p)
    \/ Answered(p) \/ Denied(p) \/ Raises(p) \/ Crash(p)

Spec == Init /\ [][Next]_vars

-------------------------------------------------------------------------------
(* Properties *)

Asked(p) == {i \in Ids : call[p] # None /\ call[p].op = "reserve" /\ call[p].id = i}

\* The shape of the state.  No process has a reservation that another process
\* has or asks for, and nothing negative is ever charged.
TypeOK ==
  /\ held \in [Keys -> Int]
  /\ open \in [Procs -> SUBSET {i \in Ids : res[i] # None}]
  /\ res \in [Ids -> Reservation \cup {None}]
  /\ call \in [Procs -> Calls \cup {None}]
  /\ \A p \in Procs : call[p] # None => res[call[p].id] # None
  /\ charged \in [Keys -> Nat]
  /\ orphans \subseteq {i \in Ids : res[i] # None}
  /\ excess \in [Keys -> Nat]
  /\ stranded \in [Keys -> Nat]
  /\ \A p, q \in Procs : p # q => (open[p] \cup Asked(p)) \cap (open[q] \cup Asked(q)) = {}
  /\ \A p \in Procs : (open[p] \cup Asked(p)) \cap orphans = {}

Open      == UNION {open[p] : p \in Procs}
Live      == Open \cup orphans
Of(k, S)  == {i \in S : res[i].key = k}
Reserved  == [i \in Ids |-> IF res[i] = None THEN 0 ELSE res[i].amount]

\* The promise across processes: what was charged, what any process has
\* reserved, and what the provider may bill for requests whose process died fit
\* under the one ceiling, whatever connections break and processes die.  Only a
\* repeated give-back can break it, and by no more than it gave back twice.
CeilingHolds ==
  \A k \in Keys : charged[k] + Total(Of(k, Live), Reserved) <= Ceiling[k] + excess[k]

\* Claimed by the comment of RedisStore.settle of settles whose answer fails to
\* come: they over-charge, `the ceiling still holds'.
CeilingKept ==
  \A k \in Keys : charged[k] + Total(Of(k, Live), Reserved) <= Ceiling[k]

\* Calls for budget k that wait for Redis, and what the counter holds for each.
Waiting(k) == {p \in Procs : call[p] # None /\ KeyOf(p) = k}
Pending    == [p \in Procs |-> IF call[p] = None THEN 0 ELSE Left(p)]

\* The counter in Redis is, to the micro-dollar, what it stands for: charges,
\* reservations, calls under way, and what lost answers and deaths have
\* stranded there, less what was given back twice.  So `a failed settle
\* over-charges the budget rather than under-charging it', and no key starves
\* for another reason than the ones named.
HeldExact ==
  \A k \in Keys :
    held[k] + excess[k] =
      charged[k] + Total(Of(k, Live), Reserved) + Total(Waiting(k), Pending) + stranded[k]

-------------------------------------------------------------------------------
(* Together the processes implement one Budget. *)

AbstractHold == [i \in Ids |-> IF i \in Live THEN res[i] ELSE None]

Abstract == INSTANCE Budget
  WITH Cap <- Ceiling, committed <- charged, hold <- AbstractHold

\* Every step of every process is a step of the one budget or changes no hold
\* and no spend; a crash leaves the holds of its process in place.  This is so
\* until a command is executed twice.
Repeated == \E k \in Keys : excess[k] > 0

ImplementsBudget ==
  Abstract!BudgetInit /\ [][Repeated \/ Abstract!BudgetNext]_(Abstract!budgetVars)
===============================================================================
