--------------------------------- MODULE Demo ---------------------------------
(***************************************************************************)
(* The deployed application, src/api/index.py: several instances, each     *)
(* with a ledger of its own over the store that _build_store chose when    *)
(* the instance started, and POST /demo/reset.                             *)
(*                                                                         *)
(* The reset is a plain function, so it runs on a worker thread beside the *)
(* event loop of its instance and may be interrupted between any two calls *)
(* of the store; the ledger calls of one instance exclude each other, but  *)
(* each has a half in the store and a half in _open, and the reset may run *)
(* between the two.  A connection to Redis may break before a command is   *)
(* executed or after it, and the client library sends a command again      *)
(* whose answer is lost, also one that was executed (Replicas treats one   *)
(* call in more detail).                                                   *)
(*                                                                         *)
(* Amounts are micro-dollars.  The identifier of a request that is over is *)
(* used again.                                                             *)
(***************************************************************************)
EXTENDS Money

CONSTANTS
  Keys,        \* CEILINGS: the keys
  Ceiling,     \* and the ceilings
  Instances,   \* serverless instances
  Redis,       \* the store they share when they reach it
  Configured,  \* REDIS_URL is set
  Ids,         \* identifiers of reservations
  Amounts,     \* amounts of reserve
  Costs,       \* costs of settle, 0 for a release
  Resets,      \* requests to /demo/reset
  MaxTries,    \* times a command is executed: 1 unless the client repeats it
  MaxWaived,   \* bound: no give-back is repeated that takes waived above it
  None         \* "no reservation", "no reset"

\* A MemoryStore is named after its instance.
Stores == Instances \cup {Redis}

\* A reservation of a request that is under way: the instance and the store that
\* made it, and where it is: the store has it and _open not yet; in _open;
\* popped by a settle at this cost or by a release; given back, so many times,
\* with no answer yet; in no _open any more, although the request may be billed,
\* because of a reset or a death.
Reservation == [at : Instances, store : Stores, key : Keys, amount : Nat,
                state : {"taken", "open", "popped", "given", "escaped"},
                cost : Nat, tries : Nat]

\* A reset: its instance; whether it is between two keys, between the read and
\* the release of one, in a release that Redis has executed so many times
\* without an answer, or over; the keys to do; what it read, and the bills
\* behind that.
Task == [at : Instances, step : {"next", "release", "again", "done"}, todo : SUBSET Keys,
         key : Keys, read : Int, own : Nat, tries : Nat]

ASSUME DemoAssumption ==
  /\ Keys # {}
  /\ Ceiling \in [Keys -> Nat]
  /\ Redis \notin Instances
  /\ Configured \in BOOLEAN
  /\ IsFiniteSet(Ids)
  /\ IsFiniteSet(Resets)
  /\ Amounts \subseteq Nat
  /\ Costs \subseteq Nat
  /\ MaxTries \in Nat \ {0}
  /\ MaxWaived \in Nat
  /\ None \notin Reservation /\ None \notin Task
  /\ None \notin [key : Keys, amount : Nat]

VARIABLES
  kind,    \* kind[p]: the store of instance p, "redis" or "memory"; or "off"
  held,    \* held[s][k]: what store s counts for key k
  res,     \* res[i]: the reservation of the request i under way, or None
  task,    \* task[q]: how far the reset q is, or None
  \* history
  billed,  \* billed[s][k]: bills for requests on store s since the last reset
  waived   \* waived[s][k]: what store s gave back beyond bills and what was unused,
           \* because of a reset or of a command that was executed again

vars == <<kind, held, res, task, billed, waived>>

StoreOf(p) == IF kind[p] = "redis" THEN Redis ELSE p

\* Reservations that instance p holds in state st.
In(p, st) == {i \in Ids : res[i] # None /\ res[i].at = p /\ res[i].state = st}

\* No call of the ledger is under way on the event loop of p.
LoopFree(p) == \A st \in {"taken", "popped", "given"} : In(p, st) = {}

-------------------------------------------------------------------------------
(* Instances *)

\* _build_store: Redis if it is configured and answers, a store of its own else.
Start(p) ==
  /\ kind[p] = "off"
  /\ \E c \in IF Configured THEN {"redis", "memory"} ELSE {"memory"} :
       kind' = [kind EXCEPT ![p] = c]
  /\ UNCHANGED <<held, res, task, billed, waived>>

\* The instance ends, with its threads, its _open and its own store.  What its
\* requests had reserved in Redis and not given back stays there, and the
\* provider may bill it.
Crash(p) ==
  /\ kind[p] # "off"
  /\ kind' = [kind EXCEPT ![p] = "off"]
  /\ res' = [i \in Ids |->
       IF res[i] = None \/ res[i].at # p THEN res[i]
       ELSE IF res[i].store = Redis /\ res[i].state # "given"
       THEN [res[i] EXCEPT !.state = "escaped", !.cost = 0]
       ELSE None]
  /\ task' = [q \in Resets |->
       IF task[q] = None \/ task[q].at # p THEN task[q] ELSE [task[q] EXCEPT !.step = "done", !.read = 0]]
  /\ held' = [held EXCEPT ![p] = [k \in Keys |-> 0]]
  /\ billed' = [billed EXCEPT ![p] = [k \in Keys |-> 0]]
  /\ waived' = [waived EXCEPT ![p] = [k \in Keys |-> 0]]

-------------------------------------------------------------------------------
(* Requests *)

\* Slip: the amount is left out of the test.
FitsMutForgetsAmount(s, k, a) == held[s][k] < Ceiling[k]

Fits(s, k, a) == held[s][k] + a <= Ceiling[k]

\* reserve, the half in the store.
ReserveStore(p, k, a, i) ==
  /\ kind[p] # "off" /\ LoopFree(p)
  /\ res[i] = None
  /\ Fits(StoreOf(p), k, a)
  /\ held' = [held EXCEPT ![StoreOf(p)][k] = @ + a]
  /\ res' = [res EXCEPT ![i] = [at |-> p, store |-> StoreOf(p), key |-> k, amount |-> a,
                                state |-> "taken", cost |-> 0, tries |-> 0]]
  /\ UNCHANGED <<kind, task, billed, waived>>

\* reserve over Redis whose answer is lost: what it took stays there, of no
\* reservation.  The request is refused, or the script is sent again, which is a
\* ReserveStore or another loss.
ReserveLost(p, k, a) ==
  /\ kind[p] = "redis" /\ LoopFree(p)
  /\ Fits(Redis, k, a)
  /\ held' = [held EXCEPT ![Redis][k] = @ + a]
  /\ UNCHANGED <<kind, res, task, billed, waived>>

\* reserve, the half in _open.
ReserveOpen(p, i) ==
  /\ i \in In(p, "taken")
  /\ res' = [res EXCEPT ![i].state = "open"]
  /\ UNCHANGED <<kind, held, task, billed, waived>>

\* settle or release: the reservation leaves _open.
Pop(p, i, c) ==
  /\ LoopFree(p)
  /\ i \in In(p, "open")
  /\ res' = [res EXCEPT ![i].state = "popped", ![i].cost = Least(c, res[i].amount)]
  /\ UNCHANGED <<kind, held, task, billed, waived>>

\* Slip: the memory store has no max(0, ...) either.
LessMutUnclamped(s, n) == n

\* What is left of a count: a MemoryStore stops at zero, Redis does not.
Less(s, n) == IF s = Redis THEN n ELSE Greatest(0, n)

Bill(i, c) == billed' = [billed EXCEPT ![res[i].store][res[i].key] = @ + c]

Unused(i) == res[i].amount - res[i].cost

\* The store gives back what was reserved and is not charged.
Return(i) ==
  held' = [held EXCEPT ![res[i].store][res[i].key] = Less(res[i].store, @ - Unused(i))]

\* settle or release, the half in the store.
GiveBack(p, i) ==
  /\ i \in In(p, "popped")
  /\ Return(i)
  /\ Bill(i, res[i].cost)
  /\ res' = [res EXCEPT ![i] = None]
  /\ UNCHANGED <<kind, task, waived>>

\* A settle that gives nothing back sends Redis no command.
Sends(i) == res[i].store = Redis /\ Unused(i) > 0

\* Redis executes the command, the answer is lost, and the client sends it again.
GiveBackUnanswered(p, i) ==
  /\ i \in In(p, "popped") /\ Sends(i) /\ 1 < MaxTries
  /\ Return(i)
  /\ Bill(i, res[i].cost)
  /\ res' = [res EXCEPT ![i].state = "given", ![i].tries = 1]
  /\ UNCHANGED <<kind, task, waived>>

\* INCRBY is executed again, and gives back again.
GiveBackAgain(p, i) ==
  LET r == res[i]
  IN  /\ i \in In(p, "given")
      /\ r.tries < MaxTries
      /\ waived[r.store][r.key] + Unused(i) <= MaxWaived
      /\ Return(i)
      /\ waived' = [waived EXCEPT ![r.store][r.key] = @ + Unused(i)]
      /\ res' = [res EXCEPT ![i].tries = @ + 1]
      /\ UNCHANGED <<kind, task, billed>>

\* The answer arrives, or the client gives up: settle raises, which the proxy
\* suppresses.
GiveBackEnds(p, i) ==
  /\ i \in In(p, "given")
  /\ res' = [res EXCEPT ![i] = None]
  /\ UNCHANGED <<kind, held, task, billed, waived>>

\* No try was executed: settle raises, and the counter keeps the whole amount.
GiveBackFails(p, i) ==
  /\ i \in In(p, "popped") /\ Sends(i)
  /\ Bill(i, res[i].cost)
  /\ res' = [res EXCEPT ![i] = None]
  /\ UNCHANGED <<kind, held, task, waived>>

\* A request that a reset has cleared ends: settle raises KeyError, which the
\* proxy suppresses, and the provider bills all the same.
EndEscaped(i, c) ==
  /\ res[i] # None /\ res[i].state = "escaped"
  /\ Bill(i, Least(c, res[i].amount))
  /\ res' = [res EXCEPT ![i] = None]
  /\ UNCHANGED <<kind, held, task, waived>>

-------------------------------------------------------------------------------
(* POST /demo/reset *)

Begun(p, todo) == [at |-> p, step |-> "next", todo |-> todo,
                   key |-> CHOOSE k \in Keys : TRUE, read |-> 0, own |-> 0, tries |-> 0]

\* What a reset gives back beyond bills.
Beyond(count, own) == Greatest(0, count - own)

\* A MemoryStore has clear, which drops all counts at once.
ResetMemory(p, q) ==
  /\ kind[p] = "memory"
  /\ task[q] = None
  /\ task' = [task EXCEPT ![q] = Begun(p, {})]
  /\ held' = [held EXCEPT ![p] = [k \in Keys |-> 0]]
  /\ billed' = [billed EXCEPT ![p] = [k \in Keys |-> 0]]
  /\ waived' = [waived EXCEPT ![p] = [k \in Keys |-> @[k] + Beyond(held[p][k], billed[p][k])]]
  /\ UNCHANGED <<kind, res>>

\* A RedisStore has none: the reset goes through the keys.
ResetRedis(p, q) ==
  /\ kind[p] = "redis"
  /\ task[q] = None
  /\ task' = [task EXCEPT ![q] = Begun(p, Keys)]
  /\ UNCHANGED <<kind, held, res, billed, waived>>

At(q, s) == task[q] # None /\ task[q].step = s

\* spent(key): the bills that are behind it are on their way out.
ResetRead(q, k) ==
  /\ At(q, "next") /\ k \in task[q].todo
  /\ task' = [task EXCEPT ![q].step = "release", ![q].todo = @ \ {k}, ![q].key = k,
                          ![q].read = held[Redis][k], ![q].own = billed[Redis][k]]
  /\ billed' = [billed EXCEPT ![Redis][k] = 0]
  /\ UNCHANGED <<kind, held, res, waived>>

\* spent(key) raises: a warning, and the next key.
ResetSkip(q, k) ==
  /\ At(q, "next") /\ k \in task[q].todo
  /\ task' = [task EXCEPT ![q].todo = @ \ {k}]
  /\ UNCHANGED <<kind, held, res, billed, waived>>

\* On to the next key.
Released(q) == task' = [task EXCEPT ![q].step = "next", ![q].read = 0, ![q].own = 0,
                                    ![q].tries = 0]

\* Slip: the counter is set to zero, whatever was added to it since the read.
ResetReleaseMutZero(q) ==
  LET k == task[q].key
  IN  /\ At(q, "release")
      /\ held' = [held EXCEPT ![Redis][k] = 0]
      /\ waived' = [waived EXCEPT ![Redis][k] = @ + Beyond(task[q].read, task[q].own)]
      /\ Released(q)
      /\ UNCHANGED <<kind, res, billed>>

\* release(key, what was read), which Redis executes; it is not sent again.
ResetRelease(q) ==
  LET k == task[q].key
  IN  /\ At(q, "release")
      /\ held' = [held EXCEPT ![Redis][k] = @ - task[q].read]
      /\ waived' = [waived EXCEPT ![Redis][k] = @ + Beyond(task[q].read, task[q].own)]
      /\ Released(q)
      /\ UNCHANGED <<kind, res, billed>>

\* Redis executes the release, its answer is lost, and the client sends it again.
ResetUnanswered(q) ==
  LET k == task[q].key
  IN  /\ At(q, "release") /\ 1 < MaxTries
      /\ held' = [held EXCEPT ![Redis][k] = @ - task[q].read]
      /\ waived' = [waived EXCEPT ![Redis][k] = @ + Beyond(task[q].read, task[q].own)]
      /\ task' = [task EXCEPT ![q].step = "again", ![q].own = 0, ![q].tries = 1]
      /\ UNCHANGED <<kind, res, billed>>

\* The release is executed again, with nothing behind it any more.
ResetAgain(q) ==
  LET k == task[q].key
  IN  /\ At(q, "again") /\ task[q].tries < MaxTries
      /\ held' = [held EXCEPT ![Redis][k] = @ - task[q].read]
      /\ waived' = [waived EXCEPT ![Redis][k] = @ + Beyond(task[q].read, 0)]
      /\ task' = [task EXCEPT ![q].tries = @ + 1]
      /\ UNCHANGED <<kind, res, billed>>

\* The answer arrives, or the client gives up: a warning.
ResetAnswered(q) ==
  /\ At(q, "again")
  /\ Released(q)
  /\ UNCHANGED <<kind, held, res, billed, waived>>

\* release raises and was not executed: a warning, and the next key.
ResetFails(q) ==
  /\ At(q, "release")
  /\ billed' = [billed EXCEPT ![Redis][task[q].key] = @ + task[q].own]
  /\ Released(q)
  /\ UNCHANGED <<kind, held, res, waived>>

\* clear_reservations, for the reservations of this instance only.
ResetOpen(q) ==
  /\ At(q, "next") /\ task[q].todo = {}
  /\ task' = [task EXCEPT ![q].step = "done"]
  /\ res' = [i \in Ids |-> IF i \in In(task[q].at, "open")
                           THEN [res[i] EXCEPT !.state = "escaped"] ELSE res[i]]
  /\ UNCHANGED <<kind, held, billed, waived>>

-------------------------------------------------------------------------------
Init ==
  /\ kind = [p \in Instances |-> "off"]
  /\ held = [s \in Stores |-> [k \in Keys |-> 0]]
  /\ res = [i \in Ids |-> None]
  /\ task = [q \in Resets |-> None]
  /\ billed = [s \in Stores |-> [k \in Keys |-> 0]]
  /\ waived = [s \in Stores |-> [k \in Keys |-> 0]]

Request(p) ==
  \E i \in Ids :
    \/ \E k \in Keys, a \in Amounts : ReserveStore(p, k, a, i)
    \/ ReserveOpen(p, i)
    \/ \E c \in Costs : Pop(p, i, c)
    \/ GiveBack(p, i) \/ GiveBackUnanswered(p, i) \/ GiveBackAgain(p, i)
    \/ GiveBackEnds(p, i) \/ GiveBackFails(p, i)

Reset(q) ==
  \/ \E p \in Instances : ResetMemory(p, q) \/ ResetRedis(p, q)
  \/ \E k \in Keys : ResetRead(q, k) \/ ResetSkip(q, k)
  \/ ResetRelease(q) \/ ResetUnanswered(q) \/ ResetAgain(q) \/ ResetAnswered(q)
  \/ ResetFails(q) \/ ResetOpen(q)

Next ==
  \/ \E p \in Instances :
       \/ Start(p) \/ Crash(p) \/ Request(p)
       \/ \E k \in Keys, a \in Amounts : ReserveLost(p, k, a)
  \/ \E i \in Ids, c \in Costs : EndEscaped(i, c)
  \/ \E q \in Resets : Reset(q)

Spec == Init /\ [][Next]_vars

-------------------------------------------------------------------------------
(* Properties *)

\* The shape of the state; a MemoryStore never counts below zero, and an
\* instance that is off has nothing in its store and nothing under way.
TypeOK ==
  /\ kind \in [Instances -> {"off", "redis", "memory"}]
  /\ held \in [Stores -> [Keys -> Int]]
  /\ \A p \in Instances : held[p] \in [Keys -> Nat]
  /\ res \in [Ids -> Reservation \cup {None}]
  /\ task \in [Resets -> Task \cup {None}]
  /\ billed \in [Stores -> [Keys -> Nat]]
  /\ waived \in [Stores -> [Keys -> Nat]]
  /\ \A i \in Ids : res[i] # None /\ res[i].state # "escaped" =>
       kind[res[i].at] # "off" /\ res[i].store = StoreOf(res[i].at)

\* Reservations of requests that are under way, until they are given back.
Holding(i) == res[i] # None /\ res[i].state # "given"

\* What store s should count for key k: bills, those a reset has read and not
\* released yet, and the reservations of all requests that are under way.
Reserved(s, k) == [i \in Ids |->
  IF Holding(i) /\ res[i].store = s /\ res[i].key = k THEN res[i].amount ELSE 0]

Leaving(s, k) == [q \in Resets |->
  IF task[q] # None /\ s = Redis /\ task[q].key = k THEN task[q].own ELSE 0]

Booked(s, k) == billed[s][k] + Total(Ids, Reserved(s, k)) + Total(Resets, Leaving(s, k))

\* No bill and no reservation ever disappears from a store but through a reset
\* that gives it back or a give-back that Redis executes again, however resets,
\* requests, lost answers and deaths interleave: what is booked is on the counter,
\* but for what was waived in these two ways.
SpendVisible ==
  \A s \in Stores, k \in Keys : Booked(s, k) <= held[s][k] + waived[s][k]

\* The promise of each store: bills since the last reset and all requests under
\* way fit under the ceiling, but for what resets gave back while requests were
\* under way, and what resets, settles and releases gave back more than once.
CeilingWithinWaived ==
  \A s \in Stores, k \in Keys : Booked(s, k) <= Ceiling[k] + waived[s][k]

\* Claimed by the docstring of health: an instance that answers ok has tested
\* committed + open reservations <= ceiling.
HealthOk(p) == kind[p] = "redis" /\ \A k \in Keys : held[Redis][k] <= Ceiling[k]

HealthTells ==
  \A p \in Instances : HealthOk(p) =>
    \A k \in Keys : billed[Redis][k] + Total(Ids, Reserved(Redis, k)) <= Ceiling[k]

-------------------------------------------------------------------------------
(* Together the instances that reached Redis implement one Budget. *)

\* A request holds what it reserved in Redis until the provider bills it or does
\* not, also when a reset has cleared it or its instance is dead.
AbstractHold == [i \in Ids |->
  IF Holding(i) /\ res[i].store = Redis
  THEN [key |-> res[i].key, amount |-> res[i].amount] ELSE None]

Abstract == INSTANCE Budget
  WITH Cap <- Ceiling, committed <- billed[Redis], hold <- AbstractHold

NothingWaived == \A k \in Keys : waived[Redis][k] = 0

\* Whatever instances start, die or run beside each other and whatever answers are
\* lost, every step is a step of the one budget or changes no hold and no bill, but
\* for the steps of the resets themselves, and until a reset has given back more
\* than was billed or a command that gives back was executed twice.
ImplementsBudget ==
  /\ Abstract!BudgetInit
  /\ [][task' # task \/ ~NothingWaived \/ Abstract!BudgetNext]_(Abstract!budgetVars)
===============================================================================
