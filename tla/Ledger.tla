-------------------------------- MODULE Ledger --------------------------------
(***************************************************************************)
(* src/fusegrid/ledger.py over the MemoryStore of src/fusegrid/store.py.   *)
(*                                                                         *)
(* A Ledger method is not one step.  It touches two pieces of state, the   *)
(* store's `_held' (under the store's own lock) and the ledger's `_open'   *)
(* (a plain dict, under no lock), one after the other, and a thread can be *)
(* preempted between them.  Each such piece is an action here:             *)
(*                                                                         *)
(*   reserve  store.reserve,          then  _open[id] = res                *)
(*   settle   _open.pop,              then  store.settle                   *)
(*   release  _open.pop,              then  store.release                  *)
(*   sweep    snapshot of _open, then for each stale reservation           *)
(*            _open.pop,              then  store.release                  *)
(*   reset    store.clear,            then  _open.clear                    *)
(*                                                                         *)
(* EventLoop says how the callers are scheduled: TRUE is the asyncio proxy *)
(* (no call awaits, so a call in progress excludes the others), FALSE is a *)
(* ledger shared by threads.  The reset is a `def' endpoint, which runs on *)
(* a worker thread, and excludes nothing in either case.  The store may    *)
(* become unreachable at any time (`fail'), also between the two halves of *)
(* a call.  Nothing in the repository calls sweep_expired: who does is     *)
(* left to the instance (Sweepers), and no sweep is ever assumed.          *)
(***************************************************************************)
EXTENDS Money

CONSTANTS
  Keys,        \* budget keys that callers name, configured or not
  Ceiling,     \* Ledger._ceilings: configured key -> ceiling, in nano-dollars
  Ids,         \* identifiers uuid4 can return
  Threads,     \* threads (or tasks) that call the ledger
  Sweepers,    \* those that call sweep_expired
  Resetters,   \* worker threads of /demo/reset: Store.clear, clear_reservations
  EventLoop,   \* calls exclude each other, but not a reset
  StoreFails,  \* the store may become unreachable
  Amounts,     \* amounts of reserve, in nano-dollars
  Actuals,     \* actual costs of settle, in nano-dollars
  None         \* "no reservation"

Reservation == [key : Keys, amount : Nat]

ASSUME LedgerAssumption ==
  /\ IsFiniteSet(Ids)
  /\ DOMAIN Ceiling \subseteq Keys
  /\ \A k \in DOMAIN Ceiling : Ceiling[k] \in Nat
  /\ Sweepers \subseteq Threads
  /\ Resetters \subseteq Threads
  /\ EventLoop \in BOOLEAN
  /\ StoreFails \in BOOLEAN
  /\ Amounts \subseteq Int
  /\ Actuals \subseteq Int
  /\ None \notin Ids
  /\ None \notin Reservation

\* The regimes in which the ledger keeps its promises to the letter: nothing
\* resets it, and its calls exclude each other or none of them sweeps.
Disciplined == Resetters = {} /\ (EventLoop \/ Sweepers = {})

VARIABLES
  \* MemoryStore
  held,       \* _held[k], in micro-dollars
  fail,       \* the `fail' hook: every operation of the store raises
  \* Ledger
  open,       \* the keys of _open
  res,        \* res[i]: the Reservation created with id i, or None
  old,        \* reservations older than max_age_seconds
  \* threads
  pc,         \* pc[t]: where t is in its call
  cur,        \* cur[t]: the id t works on, or None
  paid,       \* paid[t]: the actual cost t settles
  todo,       \* todo[t]: rest of the list `stale' of t's sweep
  answer,     \* what the last call that ended returned or raised
  \* history
  committed,  \* committed[k]: what settles have charged, in micro-dollars
  billed,     \* billed[k]: the same before conversion, in nano-dollars
  ended,      \* ids whose hold the store has given back, or forgotten
  forgotten,  \* ids whose hold a reset dropped while it was outstanding
  overtaken,  \* those of them whose reserve was half done at that moment
  excess      \* excess[k]: micro-dollars given back for holds that had ended

storeVars   == <<held, fail>>
threadVars  == <<pc, cur, paid, todo>>
historyVars == <<committed, billed, ended, forgotten, overtaken, excess>>
vars == <<held, fail, open, res, old, pc, cur, paid, todo, answer,
          committed, billed, ended, forgotten, overtaken, excess>>

-------------------------------------------------------------------------------
(* MemoryStore *)

Micros == [i \in Ids |-> IF res[i] = None THEN 0 ELSE ToMicros(res[i].amount)]

\* Slips: the test forgets the amount, or is strict.
FitsMutForgetsAmount(k, a) == held[k] < ToMicros(Ceiling[k])
FitsMutStrict(k, a) == held[k] + ToMicros(a) < ToMicros(Ceiling[k])

\* The test of reserve, under the lock.
Fits(k, a) == held[k] + ToMicros(a) <= ToMicros(Ceiling[k])

StoreReserve(k, a) == held' = [held EXCEPT ![k] = @ + ToMicros(a)]

\* Slip: settle gives the whole reservation back.
StoreSettleMutAsRelease(k, reserved, actual) ==
  held' = [held EXCEPT ![k] = Greatest(0, @ - ToMicros(reserved))]

StoreSettle(k, reserved, actual) ==
  held' = [held EXCEPT ![k] =
             Greatest(0, @ - (ToMicros(reserved) - ToMicros(actual)))]

StoreRelease(k, a) == held' = [held EXCEPT ![k] = Greatest(0, @ - ToMicros(a))]

StoreClear == held' = [k \in Keys |-> 0]

-------------------------------------------------------------------------------
(* Scheduling and answers *)

Idle(t) == pc[t] = "idle"

\* t may start a call.
Free(t) == Idle(t) /\ (EventLoop => \A u \in Threads \ Resetters : Idle(u))

Say(reason, k, a) == answer' = [reason |-> reason, key |-> k, amount |-> a]
Report(reason)    == Say(reason, None, 0)

\* t's call ends.
Return(t) ==
  /\ pc'   = [pc EXCEPT ![t] = "idle"]
  /\ cur'  = [cur EXCEPT ![t] = None]
  /\ paid' = [paid EXCEPT ![t] = 0]
  /\ todo' = [todo EXCEPT ![t] = {}]

\* t goes on at label l, with the reservation i.
Continue(t, l, i) ==
  /\ pc'  = [pc EXCEPT ![t] = l]
  /\ cur' = [cur EXCEPT ![t] = i]

-------------------------------------------------------------------------------
(* Ledger.reserve *)

\* No ceiling is configured, or the amount is negative: denied before the
\* store is asked.
ReserveRejected(t, k, a) ==
  /\ Free(t)
  /\ \/ k \notin DOMAIN Ceiling /\ Say("unknown_budget_key", k, a)
     \/ k \in DOMAIN Ceiling /\ a < 0 /\ Say("invalid_amount", k, a)
  /\ UNCHANGED <<storeVars, open, res, old, threadVars, historyVars>>

\* The store raises: LedgerUnavailable.
ReserveUnavailable(t, k, a) ==
  /\ Free(t)
  /\ k \in DOMAIN Ceiling /\ a >= 0 /\ fail
  /\ Say("unavailable", k, a)
  /\ UNCHANGED <<storeVars, open, res, old, threadVars, historyVars>>

ReserveDenied(t, k, a) ==
  /\ Free(t)
  /\ k \in DOMAIN Ceiling /\ a >= 0 /\ ~fail
  /\ ~Fits(k, a)
  /\ Say("budget_exceeded", k, a)
  /\ UNCHANGED <<storeVars, open, res, old, threadVars, historyVars>>

\* The store takes the hold; the reservation gets a fresh id.
ReserveStore(t, k, a, i) ==
  /\ Free(t)
  /\ k \in DOMAIN Ceiling /\ a >= 0 /\ ~fail
  /\ Fits(k, a)
  /\ StoreReserve(k, a)
  /\ res[i] = None
  /\ res' = [res EXCEPT ![i] = [key |-> k, amount |-> a]]
  /\ Continue(t, "reserve.open", i)
  /\ UNCHANGED <<fail, open, old, paid, todo, answer, historyVars>>

\* The reservation enters _open and is returned to the caller.
ReserveOpen(t) ==
  /\ pc[t] = "reserve.open"
  /\ open' = open \cup {cur[t]}
  /\ Say("admitted", res[cur[t]].key, res[cur[t]].amount)
  /\ Return(t)
  /\ UNCHANGED <<storeVars, res, old, historyVars>>

-------------------------------------------------------------------------------
(* Ledger.settle *)

\* Unknown or already ended: KeyError, nothing changes.
SettleUnknown(t, i) ==
  /\ Free(t)
  /\ i \notin open
  /\ Report("unknown_reservation")
  /\ UNCHANGED <<storeVars, open, res, old, threadVars, historyVars>>

\* Slips: the reservation is read and not popped; a negative cost is let in.
SettlePopMutReads(t, i, actual) ==
  /\ Free(t)
  /\ i \in open
  /\ Continue(t, "settle.store", i)
  /\ paid' = [paid EXCEPT ![t] = Greatest(0, actual)]
  /\ UNCHANGED <<storeVars, open, res, old, todo, answer, historyVars>>

SettlePopMutSigned(t, i, actual) ==
  /\ Free(t)
  /\ i \in open
  /\ open' = open \ {i}
  /\ Continue(t, "settle.store", i)
  /\ paid' = [paid EXCEPT ![t] = actual]
  /\ UNCHANGED <<storeVars, res, old, todo, answer, historyVars>>

\* The reservation leaves _open; a negative actual cost counts as zero.
SettlePop(t, i, actual) ==
  /\ Free(t)
  /\ i \in open
  /\ open' = open \ {i}
  /\ Continue(t, "settle.store", i)
  /\ paid' = [paid EXCEPT ![t] = Greatest(0, actual)]
  /\ UNCHANGED <<storeVars, res, old, todo, answer, historyVars>>

\* A store that raises leaves the hold where it is, and _open without it.
StoreRaises(t) ==
  /\ fail
  /\ Report("unavailable")
  /\ Return(t)
  /\ UNCHANGED <<storeVars, open, res, old, historyVars>>

\* Slip: no clamp.
ClampedMutNone(i, actual) == actual

\* The cost is clamped to the reservation, and the difference given back.
Clamped(i, actual) == Least(actual, res[i].amount)

\* The store takes the hold i off its number, for the first time or once more.
EndHold(i) ==
  /\ ended' = ended \cup {i}
  /\ excess' = IF i \in ended
               THEN [excess EXCEPT ![res[i].key] = @ + ToMicros(res[i].amount)]
               ELSE excess
  /\ UNCHANGED <<forgotten, overtaken>>

SettleApply(t) ==
  LET i == cur[t]
      k == res[i].key
      c == Clamped(i, paid[t])
  IN  /\ ~fail
      /\ StoreSettle(k, res[i].amount, c)
      /\ committed' = [committed EXCEPT ![k] = @ + ToMicros(c)]
      /\ billed' = [billed EXCEPT ![k] = @ + c]
      /\ EndHold(i)
      /\ Report("settled")
      /\ Return(t)
      /\ UNCHANGED <<fail, open, res, old>>

SettleStore(t) ==
  /\ pc[t] = "settle.store"
  /\ StoreRaises(t) \/ SettleApply(t)

-------------------------------------------------------------------------------
(* Ledger.release *)

ReleaseNothing(t, i) ==
  /\ Free(t)
  /\ i \notin open
  /\ Report("released")
  /\ UNCHANGED <<storeVars, open, res, old, threadVars, historyVars>>

ReleasePop(t, i) ==
  /\ Free(t)
  /\ i \in open
  /\ open' = open \ {i}
  /\ Continue(t, "release.store", i)
  /\ UNCHANGED <<storeVars, res, old, paid, todo, answer, historyVars>>

\* store.release of the reservation in hand.
GiveBack(t) ==
  /\ ~fail
  /\ StoreRelease(res[cur[t]].key, res[cur[t]].amount)
  /\ EndHold(cur[t])
  /\ UNCHANGED <<fail, open, res, old, committed, billed>>

ReleaseStore(t) ==
  /\ pc[t] = "release.store"
  /\ \/ StoreRaises(t)
     \/ GiveBack(t) /\ Report("released") /\ Return(t)

-------------------------------------------------------------------------------
(* Ledger.sweep_expired *)

SweepSnapshot(t) ==
  /\ Free(t)
  /\ t \in Sweepers
  /\ todo' = [todo EXCEPT ![t] = open \cap old]
  /\ Continue(t, "sweep.pop", None)
  /\ UNCHANGED <<storeVars, open, res, old, paid, answer, historyVars>>

\* Slip: the stale reservation stays in _open.
SweepPopMutKeeps(t) ==
  /\ pc[t] = "sweep.pop"
  /\ \E i \in todo[t] :
       /\ todo' = [todo EXCEPT ![t] = @ \ {i}]
       /\ Continue(t, "sweep.store", i)
  /\ UNCHANGED <<storeVars, open, res, old, paid, answer, historyVars>>

\* The next stale reservation is popped.  Whether it was still there is not
\* looked at: the result of pop(res.id, None) is dropped.
SweepPop(t) ==
  /\ pc[t] = "sweep.pop"
  /\ \E i \in todo[t] :
       /\ todo' = [todo EXCEPT ![t] = @ \ {i}]
       /\ open' = open \ {i}
       /\ Continue(t, "sweep.store", i)
  /\ UNCHANGED <<storeVars, res, old, paid, answer, historyVars>>

\* It is given back; a store that raises ends the sweep.
SweepStore(t) ==
  /\ pc[t] = "sweep.store"
  /\ \/ StoreRaises(t)
     \/ GiveBack(t) /\ Continue(t, "sweep.pop", None) /\ UNCHANGED <<paid, todo, answer>>

SweepDone(t) ==
  /\ pc[t] = "sweep.pop"
  /\ todo[t] = {}
  /\ Report("swept")
  /\ Return(t)
  /\ UNCHANGED <<storeVars, open, res, old, historyVars>>

-------------------------------------------------------------------------------
(* Store.clear and Ledger.clear_reservations, called as a pair by /demo/reset *)

InReserve == {cur[t] : t \in {u \in Threads : pc[u] = "reserve.open"}}

\* A worker thread: whatever the event loop does, it goes on doing.
ResetStore(t) ==
  /\ Idle(t)
  /\ StoreClear
  /\ committed' = [k \in Keys |-> 0]
  /\ billed' = [k \in Keys |-> 0]
  /\ excess' = [k \in Keys |-> 0]
  /\ ended' = {i \in Ids : res[i] # None}
  /\ forgotten' = forgotten \cup {i \in Ids \ ended : res[i] # None}
  /\ overtaken' = overtaken \cup InReserve
  /\ Continue(t, "reset.open", None)
  /\ UNCHANGED <<fail, open, res, old, paid, todo, answer>>

\* Slip: only the store is cleared.
ResetOpenMutKeeps(t) ==
  /\ pc[t] = "reset.open"
  /\ Report("reset")
  /\ Return(t)
  /\ UNCHANGED <<storeVars, open, res, old, historyVars>>

ResetOpen(t) ==
  /\ pc[t] = "reset.open"
  /\ open' = {}
  /\ Report("reset")
  /\ Return(t)
  /\ UNCHANGED <<storeVars, res, old, historyVars>>

-------------------------------------------------------------------------------
(* The environment *)

\* The store becomes unreachable, or comes back.
StoreFlips ==
  /\ StoreFails
  /\ fail' = ~fail
  /\ UNCHANGED <<held, open, res, old, threadVars, answer, historyVars>>

\* An open reservation passes max_age_seconds.
Age(i) ==
  /\ i \in open \ old
  /\ old' = old \cup {i}
  /\ UNCHANGED <<storeVars, open, res, threadVars, answer, historyVars>>

-------------------------------------------------------------------------------
Init ==
  /\ held = [k \in Keys |-> 0]
  /\ fail = FALSE
  /\ open = {}
  /\ res = [i \in Ids |-> None]
  /\ old = {}
  /\ pc = [t \in Threads |-> "idle"]
  /\ cur = [t \in Threads |-> None]
  /\ paid = [t \in Threads |-> 0]
  /\ todo = [t \in Threads |-> {}]
  /\ answer = [reason |-> "none", key |-> None, amount |-> 0]
  /\ committed = [k \in Keys |-> 0]
  /\ billed = [k \in Keys |-> 0]
  /\ ended = {} /\ forgotten = {} /\ overtaken = {}
  /\ excess = [k \in Keys |-> 0]

Reserve(t) ==
  \E k \in Keys, a \in Amounts :
    \/ ReserveRejected(t, k, a)
    \/ ReserveUnavailable(t, k, a)
    \/ ReserveDenied(t, k, a)
    \/ \E i \in Ids : ReserveStore(t, k, a, i)

\* Callers name ids they were given.
Settle(t) ==
  \E i \in Ids :
    /\ res[i] # None
    /\ SettleUnknown(t, i) \/ \E c \in Actuals : SettlePop(t, i, c)

Release(t) ==
  \E i \in Ids :
    /\ res[i] # None
    /\ ReleaseNothing(t, i) \/ ReleasePop(t, i)

\* The rest of a call that has started.
Finish(t) ==
  \/ ReserveOpen(t) \/ SettleStore(t) \/ ReleaseStore(t)
  \/ SweepPop(t) \/ SweepStore(t) \/ SweepDone(t)
  \/ ResetOpen(t)

Next ==
  \/ \E t \in Threads \ Resetters :
       Reserve(t) \/ Settle(t) \/ Release(t) \/ SweepSnapshot(t)
  \/ \E t \in Resetters : ResetStore(t)
  \/ \E t \in Threads : Finish(t)
  \/ StoreFlips
  \/ \E i \in Ids : Age(i)

Spec == Init /\ [][Next]_vars

-------------------------------------------------------------------------------
(* Properties *)

Labels == {"idle", "reserve.open", "settle.store", "release.store",
           "sweep.pop", "sweep.store", "reset.open"}

Answers == [reason : {"none", "unknown_budget_key", "invalid_amount", "unavailable",
                      "budget_exceeded", "admitted", "unknown_reservation",
                      "settled", "released", "swept", "reset"},
            key : Keys \cup {None}, amount : Int]

\* The shape of the state; in particular no amount held, reserved or charged
\* is ever negative, whatever amounts and costs callers pass.
TypeOK ==
  /\ held \in [Keys -> Nat]
  /\ fail \in BOOLEAN
  /\ open \subseteq Ids
  /\ res \in [Ids -> Reservation \cup {None}]
  /\ old \subseteq Ids
  /\ pc \in [Threads -> Labels]
  /\ cur \in [Threads -> Ids \cup {None}]
  /\ paid \in [Threads -> Nat]
  /\ todo \in [Threads -> SUBSET Ids]
  /\ answer \in Answers
  /\ committed \in [Keys -> Nat]
  /\ billed \in [Keys -> Nat]
  /\ ended \subseteq Ids
  /\ forgotten \subseteq Ids
  /\ overtaken \subseteq Ids
  /\ excess \in [Keys -> Nat]

\* Reservations of budget k that are open, and those whose hold the store has
\* not given back: open, in the hands of a call, or lost to a failed store.
OpenFor(k)     == {i \in open : res[i].key = k}
Outstanding(k) == {i \in Ids : res[i] # None /\ res[i].key = k /\ i \notin ended}

\* The invariant of the module docstring of ledger.py, at every instant and
\* between the two halves of every call:
\*     committed spend + sum(open reservations) <= ceiling.
CeilingHolds ==
  \A k \in DOMAIN Ceiling :
    committed[k] + Total(OpenFor(k), Micros) <= ToMicros(Ceiling[k])

\* The store's single number is exactly what was charged plus what is still
\* outstanding.  Below it the ceiling would leak; above it the key would
\* starve.  Nothing in the code ever computes the right-hand side.
HeldExact ==
  \A k \in Keys : held[k] = committed[k] + Total(Outstanding(k), Micros)

\* A reservation ends at most once: of all the settles, releases and sweeps
\* that race for an id only one reaches the store with it, and none does after
\* its hold was given back (`idempotent by removal').  Only a reset makes an
\* exception: it forgets holds behind the back of the calls that end them.
Finishing(t) == pc[t] \in {"settle.store", "release.store", "sweep.store"}

OneFinisher ==
  \A t \in Threads : Finishing(t) =>
    /\ cur[t] \notin ended \/ cur[t] \in forgotten
    /\ \A u \in Threads \ {t} : Finishing(u) => cur[u] # cur[t]

\* A request is refused for its budget only when money already charged, or
\* still outstanding, really leaves no room for it: releasing and settling
\* give back every micro-dollar, so legitimate requests are not denied.
Denied(k, a) ==
  /\ answer' # answer
  /\ answer' = [reason |-> "budget_exceeded", key |-> k, amount |-> a]

DenialJustified ==
  [][\A k \in DOMAIN Ceiling, a \in Amounts : Denied(k, a) =>
       committed[k] + Total(Outstanding(k), Micros) + ToMicros(a) > ToMicros(Ceiling[k])]_vars

\* In real money, rounding may let a budget be overspent, but by no more than
\* half a micro-dollar for the ceiling and for each reservation that ended.
EndedFor(k) == {i \in ended : res[i].key = k}

RealSpendBound ==
  \A k \in DOMAIN Ceiling :
    billed[k] <= Ceiling[k] + 500 * (Cardinality(EndedFor(k)) + 1)

\* With resets beside the calls, and whoever sweeps: the store's number is
\* never above what is charged and outstanding, so no key starves on money
\* nobody holds, and below it by no more than what was given back twice.
HeldBounded ==
  \A k \in Keys :
    LET used == committed[k] + Total(Outstanding(k), Micros)
    IN  held[k] <= used /\ used <= held[k] + excess[k]

\* Hence a budget is exceeded by no more than that.
CeilingWithinExcess ==
  \A k \in DOMAIN Ceiling :
    committed[k] + Total(Outstanding(k), Micros) <= ToMicros(Ceiling[k]) + excess[k]

\* Once a reset is through, a reservation the store has forgotten is still
\* open only if the reset overtook the reserve that made it.  (The comment of
\* MemoryStore.clear says its lock excludes that case too; the ledger enters
\* the reservation in _open after the lock is released.)
OnlyOvertakenForgotten ==
  (\A t \in Threads : pc[t] # "reset.open") => open \cap forgotten \subseteq overtaken

-------------------------------------------------------------------------------
(* Ledger implements Budget: a hold lasts until the store has given it back. *)

AbstractHold ==
  [i \in Ids |-> IF res[i] = None \/ i \in ended THEN None
                 ELSE [key |-> res[i].key, amount |-> ToMicros(res[i].amount)]]

Abstract == INSTANCE Budget
  WITH Cap  <- [k \in DOMAIN Ceiling |-> ToMicros(Ceiling[k])],
       hold <- AbstractHold

\* Every step of the ledger is a step of Budget or changes no hold and no spend.
ImplementsBudget == Abstract!BudgetSpec

\* With resets and sweeps at any moment: so is every step as long as no hold
\* has been given back a second time since the last reset.
Exact == \A k \in Keys : excess[k] = 0

ImplementsBudgetWhileExact ==
  Abstract!BudgetInit /\ [][Exact' => [Abstract!BudgetNext]_(Abstract!budgetVars)]_vars
===============================================================================
