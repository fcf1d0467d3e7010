# fusegrid: a verification project

fusegrid is a proxy that stands in front of an LLM provider and keeps every
budget under its ceiling.  It prices a request, *reserves* its maximal cost,
calls the provider, and *settles* the reservation at the actual cost.  The
promise of the whole program is one line (`src/src/fusegrid/ledger.py:5`):

    committed + sum(open reservations) <= ceiling        for every budget, always

This directory holds TLA+ models of the code that must keep that promise, the
TLC runs that check them on small instances, and proofs, checked by TLAPS, that
the ledger keeps it for any number of threads, budgets and reservations, that the
handlers of the proxy keep it however they are interrupted, that replicas over one
Redis keep it together, and what the deployed application, the pricing, the rate
limiter and the benchmarks promise beside it.

## 1. Inventory

Paths are relative to the directory above this one; the repository is `src/`.

| component | state | operations | interacts with |
|---|---|---|---|
| **Ledger** `src/src/fusegrid/ledger.py` | `_ceilings` (fixed), `_open`: id -> Reservation, a plain dict under no lock | `reserve`, `settle`, `release`, `sweep_expired`, `clear_reservations` | calls the store; called by the proxy and the demo |
| **MemoryStore** `store.py:45-96` | `_held`: key -> integer micro-dollars, under a lock; the `fail` hook | `reserve`, `settle`, `release`, `spent`, `clear` | called by the ledger; `clear` by the demo |
| **RedisStore** `store.py:99-164` | one Redis counter per key, shared by replicas | the same by a Lua script and INCRBY; no `clear` | Redis over a connection that may time out |
| **Proxy** `proxy.py` | per request: the reservation id, the locals of the stream generator | `completions`, `_stream`, the parsing of usage | ledger, pricing, provider, client |
| **Pricing** `pricing.py` | a fixed table | `max_cost`, `actual_cost` | proxy |
| **Demo application** `src/api/index.py` | one store, one ledger, rate-limit windows `_hits` | choice of the store, rate limit, `/demo/overrun`, `/demo/reset`, stub provider | proxy, ledger, store |
| **Benchmarks** `src/bench/` | local | four patterns of budget code that overspend, and their replay on the ledger | ledger |

Where it is hard:

* *Two halves.*  A ledger method changes the store and `_open` one after the
  other.  A thread preempted in between exposes the state in between.
* *Who ends a reservation.*  The handler, the `except` clause, the `finally`
  block, the sweeper and the reset may all want to.
* *Suspension.*  A handler remembers its reservation across every await and
  every yield; there the client may leave, the provider fail, the server cancel.
* *Failure in the middle.*  The store may raise after the id has left `_open`.
* *Numbers.*  Dollars are floats, the store counts micro-dollars, and costs are
  clamped from both sides.

What makes each part correct:

* Ledger and MemoryStore: the promise; that the store's one number is exactly
  what was charged plus what is outstanding; that a reservation ends at most
  once; that a denial is justified; beside a reset, that nothing goes wrong but what
  is given back a second time.
* Proxy: every admitted request ends its reservation, once, on every path but three
  that are named; no request is upstream without a hold; what was served is charged.
* RedisStore and replicas: the promise across processes, with lost and duplicated
  commands and crashes; that what is lost is lost in the safe direction.
* Pricing: what is reserved covers every bill within the tokens that were reserved
  for, and what is charged is what is billed, where the provider says it.
* Demo: the promise of each store while resets, restarts and the fallback to memory
  go on; that nothing disappears but by a reset or a repeated command; the rate limit per window.
* Benchmarks and `/demo/overrun`: by how much each pattern overspends, and that the
  ledger admits what fits, to the last call.

## 2. Modules

| module | what it is |
|---|---|
| `Money` | amounts, `to_micros`, sums over sets |
| `Budget` | the abstract specification: admit what fits, charge at most the hold, refund, forget everything |
| `Ledger` | `ledger.py` over `MemoryStore`, at the level of threads |
| `Proxy` | the handlers of `proxy.py`, at the level of suspension points |
| `Replicas` | ledgers of several processes over one `RedisStore` |
| `Demo` | `api/index.py` deployed: instances that start, choose a store and die, and `/demo/reset` |
| `Billing` | `pricing.py` and the token counts of `proxy.py`, against the provider's bill |
| `RateLimit` | `_rate_limited` of `api/index.py` with a clock that may be set |
| `Overrun` | the bursts of `failopen.py`, `replay.py` and `/demo/overrun` |
| `MC...` | an instance of each for TLC |
| `MoneyProofs` | laws of rounding and of sums |
| `LedgerProofs`, `ProxyProofs`, `ReplicasProofs`, `DemoProofs`, `BillingProofs`, `RateLimitProofs`, `OverrunProofs` | the theorems about each of those modules |

The modules look at one system from several sides rather than at its parts in
isolation.  `Ledger` has threads and rounding; `Proxy`, `Replicas`, `Demo` and
`Billing` contain the ledger's calls in the form `Ledger` proves adequate, and each
adds the actors it is about: handlers and clients, processes and connections,
resets and restarts, and the provider.

**Money.**  A dollar amount is an integer number of nano-dollars, a thousandth of
what the store counts in, so rounding is visible and equations are exact.  The
binary representation of floats is abstracted.  `MCLedger` has two assumptions
that TLC evaluates: `to_micros` returns the nearest micro-dollar, and `Total` is
the sum of the community modules.

**Budget.**  Two variables, `committed` and `hold`, and four actions.  A reader
who trusts `Budget` and the refinement need not read the rest.

**Ledger.**  One action per piece of a method that nothing can interrupt:

| method | actions |
|---|---|
| `reserve` | `ReserveRejected`, `ReserveUnavailable`, `ReserveDenied`; or `ReserveStore` then `ReserveOpen` |
| `settle` | `SettleUnknown`; or `SettlePop` then `SettleStore` |
| `release` | `ReleaseNothing`; or `ReleasePop` then `ReleaseStore` |
| `sweep_expired` | `SweepSnapshot`, then `SweepPop` and `SweepStore` for each stale reservation, then `SweepDone` |
| `/demo/reset` | `ResetStore` (`Store.clear`), then `ResetOpen` (`clear_reservations`) |

`held`, `fail` are the store's, `open` (the keys of `_open`), `res` (the
Reservation objects) and `old` (which exceed `max_age_seconds`; the clock is not
modelled otherwise) the ledger's, `pc`, `cur`, `paid`, `todo` the threads'
locals.  `committed`, `billed`, `ended` are history that no code keeps, and so are
`forgotten` (holds a reset dropped while they were outstanding), `overtaken` (those of
them whose reserve was between its halves) and `excess` (what was given back for holds
that had ended already).  `EventLoop = TRUE` lets a call start only while no other call
runs, as on the proxy's event loop; `FALSE` is a ledger shared by threads.  `Resetters`
are worker threads, since `/demo/reset` is a `def` endpoint: they start at any moment,
between the halves of any call, and calls start between their halves.  `StoreFlips`
toggles the `fail` hook at any moment.  Abstracted: a fresh uuid is drawn with the store's
step; the `RuntimeError` of a sweep whose dict grows while it takes its snapshot
is a sweep that did not run; an actual cost of infinity is any cost above the
reservation.

**Proxy.**  A step is the code between two suspension points; ledger calls do not
await, so each is part of a step, with the three outcomes `Ledger` gives it on an
event loop (not open, store down after the pop, done).  `stage[r]` is where the
handler of `r` is suspended: `posting` (await client.post), `unstarted` (the
generator was handed to the server), `connecting`, `erroring` (aread of an error
body), `reading` (await of a chunk), `yielded`.  Parsing is modelled by what it
tells: a chunk is plain, has a usage block (with a cost, negative if it counts
tokens below zero, or without counts), overflows `int()`, or does not decode.
`Faults` selects what may go wrong; `proxy.py` alone has no `sweep`, an
application may add it.  `unencodable` is a body that `json.loads` reads and httpx
does not encode (NaN, a lone surrogate): the `ValueError` leaves `client.post` and
`client.stream` before their first await, so `AdmitUnsent` is part of the step that
reserves, and `StreamUnsent` of the one that starts the generator.  Three `Leaks` leave
a reservation behind a request: a generator that never ran, a plain body that cannot be
encoded, a plain response that cannot be costed.  `ServedIsCharged` says that a served
request is charged by a usage block it was sent, not by which: the code takes the
first.  Not modelled: cancellation of a *plain* handler, which
the server does only when the process shuts down and its ledger with it; requests
repeated by the client are new requests.

**Replicas.**  A process is blocked while it waits for Redis, so a call is split
where it travels: `Reserve`, `Settle`, `Release` do the local part and send a
command (`call[p]`); `ExecuteReserve` (the Lua script) and `ExecuteGiveBack`
(INCRBY) are Redis running it in one step; `Answered` and `Denied` end the call.
`Raises` is a connection that breaks, before or after the execution; `Crash` empties
`_open` and drops the call at any moment.  With `MaxTries = 2` the client library
executes a command again, as redis-py does by default when an answer times out (`api/index.py:100` builds the
client with its defaults); the library is external and only this is taken from it.  `charged` counts a settled
request when its ledger settles it, since the provider has billed it whether or not
Redis hears of it; `orphans` are the open reservations of dead processes, which the
provider may bill; `stranded` is what abandoned calls left in the counter, and
`excess` what repeated commands gave back twice.  With these two the counter is
accounted for to the micro-dollar, and the ceiling is promised with exactly the
amount `excess` as its exception.  A command that is executed after its process gave
it up is executed just before instead.  Not modelled here: sweeps (they are
releases), resets (`Demo`), rounding.

**Demo.**  An instance starts (`Start`) with Redis, or with a `MemoryStore` of its
own when Redis is not configured or not reached, and dies at any moment
(`Crash`).  Ledger calls of one instance exclude each other (`LoopFree`) but have
their two halves; the reset is a `def` endpoint, on a worker thread, and runs
between any two of them: `ResetMemory` is `clear`, and for Redis `ResetRead` and
`ResetRelease` are `spent(key)` and `release(key, ...)`, for one key after the other,
with `ResetSkip` and `ResetFails` where the `except` clause logs and goes on;
`ResetOpen` is `clear_reservations`.  A reservation that a reset or a death has taken
from its `_open` is `escaped`: its request goes on, its settle raises `KeyError`
(suppressed), and the provider bills it.  The client is that of `Replicas`: an answer
may be lost and the command executed again, up to `MaxTries` times, be it a reserve
(`ReserveLost`: a hold that nobody has), a settle or release (`GiveBackUnanswered`,
`GiveBackAgain`, `GiveBackEnds`), or the release of a reset (`ResetUnanswered`,
`ResetAgain`, `ResetAnswered`); or no try is executed (`GiveBackFails`, `ResetFails`).
`billed` are the bills since the last reset, of each store; `waived` is what resets
gave back beyond bills, which are the holds of requests under way and what two resets
both read, and what any command gave back when it was executed again.  `HealthOk` is
the verdict of `/health`.

**Billing.**  Tokens instead of costs: a request is admitted at `MaxCost`, and the
provider spends and bills any number of tokens.  The model does not let `max_tokens`
limit it: the body is forwarded as it came (`proxy.py:228`), with `n` or
`max_completion_tokens` in it, the proxy's own default is not sent, and the stub takes
`max_tokens: 0` for none.  A usage block is any pair of counts, each of which may be
left out or negative, or there is none; it need not be the bill, as the first block of
a stream settles and a later one is ignored (`proxy.py:291`).  A request ends settled
(`Serve`), given back and not billed (`Reject`), given back though billed
(`ReleaseBilled`: the answer is lost, the stream breaks off, the client leaves at a
chunk, the one with the usage block among them, or the application sweeps), or with its
whole reservation counted (`Keep`: settled in full, leaked, or kept by a store that
failed), which a sweep may still give back (`Sweep`).  `Exposed` says where a bill and
a charge may part *in this model*: a count beyond what was reserved for, a settling
block that is not the bill, a reservation given back; the two properties are about all
other requests.  It is assumed that the configured prices are the provider's, and
resets are left to `Demo` and `Ledger`.

**RateLimit.**  `real` is the time that passes and `Now` the wall clock the code
reads.  The deque of a client is the tail of its `log`, from `gone[c]` on, so that
the properties can speak of admitted requests that have left it.

**Overrun.**  A burst is described by a record: requests together or one after the
other, the test that admits them, whether the store is a hop away, fails, knows the
price.  The scheduler is that of asyncio: a task runs until it sleeps and wakes in
the order in which sleeps are due, up to `MaxLate` late.  Replays use the ledger
without a call; that threads of `scenario_race` may interleave inside `reserve` is
the subject of `Ledger`.

`Budget` is implemented by four modules: a hold lasts until the store has given it
back (`Ledger`), until the request is charged or given back (`Proxy`), until it has
left `_open`, by a call and not by a crash (`Replicas`; until a command is executed
twice), until the request of a reservation in Redis is over, whatever became of its
instance (`Demo`).  A reset beside other calls lets a hold be given back twice, in
`Ledger` by the store's clear and the call that ends it; there the refinement ends with
the first such step (`ImplementsBudgetWhileExact`).  A reset with Redis forgets holds and
spend at different moments, so `ImplementsBudget` of `Demo` excepts the steps of the
resets themselves, and ends with the first reset that gives back more than was billed or
the first command that gives back twice.

## 3. Runs

Deadlock is checked in the runs of `Ledger`, and off in the others, where every
request done, every id used or the time over is the normal end.

| run | checks | bounds |
|---|---|---|
| `threads` | `TypeOK`, `CeilingHolds`, `HeldExact`, `OneFinisher`, `RealSpendBound`, `DenialJustified`, `ImplementsBudget` | 2 threads, 3 reservations, a configured and an unknown key, amounts of -1, 2 and 3.4 micro-dollars under a ceiling of 5, costs negative, inside and above; no sweeper, no reset; store failing |
| `loop` | `CeilingWithinExcess`, `HeldBounded`, `OneFinisher`, `OnlyOvertakenForgotten`, `ImplementsBudgetWhileExact` | one thread that calls and sweeps, a reset on another thread at any moment, as often as it likes; 3 reservations of 2 under a ceiling of 3, cost 1; store failing |
| `proxy` | `TypeOK`, `CeilingHolds`, `HeldExact`, `InFlightBacked`, `ServedIsCharged`, `NoOrphans`, `EndsOnce`, `ImplementsBudget`, `EndsOrAwaitsClient` | 2 requests, plain or streamed, every refusal, costs negative, inside and above, 2 chunks, every fault |
| `replicas` | `TypeOK`, `CeilingHolds`, `HeldExact`, `ImplementsBudget` | 2 processes, 3 reservations, amounts 2 and 3 under 5, costs -1, 1 and 9; connections break, processes die, a command is executed up to twice |
| `demo` | `TypeOK`, `SpendVisible`, `CeilingWithinWaived`, `ImplementsBudget` | 2 instances, 2 requests under way (ids are used again), 1 reset, amount 2 under 3, costs 0 and 1; a command executed up to twice (`MaxTries`), repeated give-backs of up to 2 (`MaxWaived`) |
| `billing` | `TypeOK`, `BillsFit`, `ChargedAsBilled` | 3 requests; two priced models and one without; limits given, absent, 0 and -1; prompts below, at and above the estimate, outputs within and beyond every limit; counts left out, negative, right and wrong; ceiling 12 |
| `rate` | `TypeOK`, `AtMostMax`, `RefusalJustified` | 1 client (clients share nothing), at most 3 in a window of 2; time up to 6; the clock set forward, back and back by a window, up to 2 in all each way |
| `overrun` | `RaceFailsOpen`, `PostHocBound`, `NothingShows`, `EnforcedExact` | each of 10 bursts, of 5 requests at 2 under a ceiling of 7, where costs vary one at 2 and then long ones at 4; a task wakes up to 1 late |

Three reservations are enough for one that fits, one that does not and one that
takes the room a release makes; two threads or processes suffice for every race,
because a property relates at most two calls.  In `loop` a ceiling that one reservation
fills lets a third one in only when a hold was forgotten and given back again.  In `demo`
a second reset would be too much for TLC: a reset whose release is executed twice takes
off the same spend twice, as two that overlap do, and the theorems cover any number of
resets.  `MaxWaived` is a guard of `GiveBackAgain` alone, and 2 is one whole
reservation.  Two chunks are the least with which something follows the
usage block.  In `overrun` the ceiling is no multiple of a cost, and one cheap request
leaves room for one long one and a rest, so that both quotients of `Room` round.  A window of 2 with 3 requests makes both edges reachable, with the
clock set across them.

The other runs show where the code does not do what the repository says:

| run | property | what happens |
|---|---|---|
| `sweep_race` | `CeilingHolds` | `sweep_expired` ignores what `pop` returned (`ledger.py:203`): a reservation that a settle or release ended after the snapshot is given back twice, and the ceiling is exceeded |
| `proxy_vanish` | `DisconnectFrees` | the client leaves before the generator first runs: `finally` never runs |
| `replicas_retry` | `CeilingKept` | INCRBY is not idempotent: a settle or release executed twice gives back more than was held |
| `demo_health` | `HealthTells` | a reset with Redis gives back the hold of a request under way; another is admitted in its place, and `/health` answers ok while bills and reservations exceed the ceiling |

Met while modelling, and not runs of their own:

* `/demo/reset` runs on a worker thread: between the halves of a reserve
  (`ledger.py:159-160`) it leaves an open reservation the cleared store knows nothing
  of, although `store.py:91-93` says its lock prevents that; the call that ends it
  gives it back again.  `OnlyOvertakenForgotten` says that no other forgotten
  reservation stays open, `CeilingWithinExcess` and `HeldBounded` how much it may cost.
* A reserve between the two halves of a reset (`api/index.py:442` and `449`) loses its
  entry in `_open` and keeps its hold in the store: its settle raises `KeyError`, and the
  budget is smaller by its amount until the next reset.
* Nothing in the repository calls `sweep_expired`, although `README.md:148-149`,
  `ledger.py:106-108` and `195-198`, `docs/09-writeup.md:164` and `proxy.py:271` speak of
  leaks that the sweeper heals.  No property here assumes one.
* A chunk that ends inside a multi-byte character raises `UnicodeDecodeError`
  (`proxy.py:316`), which ends the stream, against `proxy.py:265` (fault `split`).
* What a dead process had reserved stays in Redis and is in nobody's `_open`, where
  `sweep_expired` would look, although `README.md:148-149` says it reclaims them.  In
  `Replicas` no action ever takes anything out of `orphans`.
* A store that raises in a sweep leaves a hold no later sweep can find;
  `ledger.py:195-198` promises that a leak heals.
* Two resets with Redis that both read before either releases give the same spend
  back twice, and so does one whose release is executed twice: the counter falls below
  zero, and stays there.
* A plain request whose JSON holds NaN or a lone surrogate is priced and reserved for;
  httpx raises while it encodes it, which is no `httpx.HTTPError` (`proxy.py:229`), and
  the reservation stays.  As a stream it is settled in full.  `proxy.py:215-216` says
  that any failure releases in full, because a request that never reached the provider
  was never billed.
* A settle above the reservation is clamped, and the rest is recorded, logged and
  returned nowhere; the comment at `ledger.py:177-179` says it is surfaced.
* A client that leaves while the generator awaits the provider shows as
  `CancelledError`, and is charged in full; `docs/03-architecture.md:65` asks for a
  release, which only a client that leaves at a yield gets.
* An infinite token count raises `OverflowError` (`proxy.py:339`) and orphans a
  plain request's reservation; it is one of the three `Leaks` of `Proxy`.
* A stream that reports usage twice is charged the first report (`proxy.py:291`);
  `proxy.py:265` and `docs/03-architecture.md:63` say the final one.  `ServedIsCharged`
  leaves open which, and `ChargedAsBilled` sets such a request aside.
* The provider is sent `n` and `max_completion_tokens` as they came, but only
  `max_tokens` is reserved for: `n: 2` may cost twice the output that was reserved.
* A client that leaves while the chunk with the usage block is yielded is released in
  full, although the block is there and the provider bills (`proxy.py:285`).
* Costs below half a micro-dollar count as nothing.  `RealSpendBound` says how
  much that can amount to; `store.py:26-36` says it is below any real price.
* A request whose answer is lost is released although the provider has billed it
  (`proxy.py:229`), and one whose usage block leaves out a count is charged as if it
  were zero (`proxy.py:338`); both are in `Exposed`.

**Fairness.**  Only `Proxy` states liveness.  Its `Fairness` is weak fairness of each
handler at an await of the provider (`Awaits`): the provider answers, or
`request_timeout_seconds` raises, and the server runs a generator on or closes it.  At a
yield the handler waits for its client, of which nothing is assumed: it may neither read
nor leave.  So `EndsOrAwaitsClient` says that a reservation ends, or leaks in one of the
three ways, or its handler stands at a yield; it holds with a store that never comes back
and without a sweeper.  That a stream has at most `MaxChunks` chunks does not help it: each
chunk passes a yield.  The other modules state safety only; `Ledger` in particular assumes
no sweeper, as nothing in the repository schedules one.

## 4. Proofs

Each module states what it assumes of its constants in one `ASSUME`, and TLC
evaluates it on every run: ids, threads, processes, requests and resets are finite
in number, ceilings and prices are natural numbers, costs integers (from
untrusted usage blocks, of either sign), and `None` is not one of the values it stands
beside.  Nothing else is assumed.

| theorem | module | says |
|---|---|---|
| `TypeCorrect`, `HeldBoundedTheorem`, `CeilingWithinExcessTheorem` | `LedgerProofs` | `TypeOK`, `HeldBounded`, `CeilingWithinExcess` always, whoever sweeps and resets |
| `DenialTheorem`, `BudgetWhileExactTheorem` | `LedgerProofs` | `DenialJustified`, `ImplementsBudgetWhileExact`, whoever sweeps and resets |
| `CeilingTheorem`, `HeldExactTheorem`, `OneFinisherTheorem`, `RealSpendTheorem` | `LedgerProofs` | where `Disciplined`: `CeilingHolds`, `HeldExact`, `OneFinisher`, `RealSpendBound` always |
| `LedgerImplementsBudget` | `LedgerProofs` | where `Disciplined`: `Spec => ImplementsBudget` |
| `TypeCorrect`, `CeilingTheorem`, `HeldExactTheorem` | `ProxyProofs` | `TypeOK`, `CeilingHolds`, `HeldExact` always |
| `InFlightBackedTheorem`, `ServedIsChargedTheorem`, `NoOrphansTheorem` | `ProxyProofs` | `InFlightBacked`, `ServedIsCharged`, `NoOrphans` always |
| `ProxyImplementsBudget`, `EndsOnceTheorem` | `ProxyProofs` | `Spec => ImplementsBudget`, `Spec => EndsOnce` |
| `TypeCorrect`, `HeldExactTheorem`, `CeilingTheorem` | `ReplicasProofs` | `TypeOK`, `HeldExact`, `CeilingHolds` always |
| `ReplicasImplementBudget` | `ReplicasProofs` | `Spec => ImplementsBudget` |
| `TypeCorrect`, `SpendVisibleTheorem`, `CeilingTheorem` | `DemoProofs` | `TypeOK`, `SpendVisible`, `CeilingWithinWaived` always |
| `DemoImplementsBudget` | `DemoProofs` | `Spec => ImplementsBudget` |
| `TypeCorrect`, `BillsFitTheorem`, `ChargedAsBilledTheorem` | `BillingProofs` | `TypeOK`, `BillsFit`, `ChargedAsBilled` always |
| `TypeCorrect`, `AtMostMaxTheorem`, `RefusalTheorem` | `RateLimitProofs` | `TypeOK`, `AtMostMax`, `RefusalJustified` always |
| `RaceTheorem`, `PostHocTheorem`, `NothingTheorem`, `EnforcedTheorem` | `OverrunProofs` | `RaceFailsOpen`, `PostHocBound`, `NothingShows`, `EnforcedExact` always |

Three of the runs that expect a violation come with theorems that say what it takes:
remove that one cause, and the claim of the repository holds for all constants.

| theorem | module | where | says |
|---|---|---|---|
| `DisconnectTheorem` | `ProxyProofs` | every generator runs (`"unstarted"` not in `Faults`) | `DisconnectFrees` always, with every other fault |
| `NothingLeaksTheorem` | `ProxyProofs` | and every body can be encoded and every response costed (nor `"unencodable"`, `"overflow"`) | no reservation outlives its request |
| `CeilingKeptTheorem` | `ReplicasProofs` | the client repeats nothing (`MaxTries = 1`) | `CeilingKept` always |
| `ReplicasImplementBudgetOnce` | `ReplicasProofs` | the same | `Spec => Abstract!BudgetSpec`, without exception |
| `HealthTheorem` | `DemoProofs` | everywhere | `[](NothingWaived => HealthTells)` |
| `HealthWithoutResets` | `DemoProofs` | nobody resets and the client repeats nothing (`Resets = {}`, `MaxTries = 1`) | `HealthTells` always |
| `DemoImplementsBudgetWithoutResets` | `DemoProofs` | the same | `Spec => Abstract!BudgetSpec`, without exception |

The fourth, `sweep_race`, is delimited by the hypothesis `Disciplined` below.

**Ledger.**  Five theorems hold in every regime, with any number of resets and sweeps
beside the calls; the others assume `Disciplined`: nobody resets, and calls exclude each
other or no thread sweeps.  That is as far as they can go: `sweep_race` is a
counterexample outside it, and a reset between the halves of a settle another.  The
invariant is `LedgerInv`:

* `BookInv`, in every regime: whoever has a reservation in hand has one that was made
  (`TypeInv`); the store's number misses what is committed and outstanding by no more
  than `excess` (`HeldBounded`) and never exceeds the ceiling, which only the test of
  `reserve` lets it approach (`HeldFits`).  `CeilingWithinExcess` follows; a refusal is
  justified because the number is never above what is used; and a reservation that is
  admitted while `excess` is zero fits the abstract budget too.
* `ControlInv`, where `Disciplined`, relates each thread to what it works on.  Whoever is
  about to call the store has a reservation that exists, is not in `_open` and was not
  given back; no two threads have the same one; what a sweep has still to do is open.
  `OneFinisher` follows, and that nothing is ever given back twice: `excess` is zero, and
  the bounds of `BookInv` become `HeldExact` and, as open reservations are outstanding,
  `CeilingHolds`.

None of the properties is inductive: `CeilingHolds` says nothing of reservations that
are in the hands of a call, so a later step could charge what it does not count.
`RealSpendTheorem` adds the error of one rounding, at most 500 nano-dollars, per
ended reservation.

**Proxy.**  `ProxyInv` has three parts.  `GoodInv` says of each request by itself how
its ledger entry and its handler agree: what was made is open until it ends
(`Booked`); where the handler is tells what it has (`Placed`); while it has not
settled, only a sweep or a failing store has ended its reservation, and no usage
block has been sent but the one in its hand (`Unsettled`); and who settled, settled
by a block that was sent (`Paid`).  `Unsettled` is what makes the rest inductive: of the
moment between a yield and the look into the chunk, where the client may leave, none
of the checked properties says that the block sent is the one in hand.  A step moves
one request (`Moves`) and leaves all others alone (`Same`), so there is one lemma per
way to go on.  `HeldIs` is the store's number as a sum of one share per request, and
`HeldFits` that it is under the ceiling; by `MoneyStep` a step admits, ends one
reservation, or moves no money, and `SharesApart` takes the sum apart into the two of
`HeldExact`.  In the refinement a reservation that a failing store has lost is still
held, which is what the store says too.  `EndsOnceTheorem` is about steps: whatever ends
a reservation finds it open, and `Booked` says that an open one has not ended.  `Causes`
adds to the invariant which fault each of the three leaks needs.

**Replicas.**  `Inv` has four parts.  `Basic` is the shape.  `Control` says who may
have what: live reservations exist, no two processes have one, a call is about a
reservation that exists, a *yes* means that the command was executed, and what a
reserve asks for nobody has yet, or the answer would count it twice.  `HeldFits`:
the counter itself never exceeds the ceiling, which only the script can raise.
`HeldIs` is `HeldExact` with both sums taken over all reservations and all processes,
of weights that are zero elsewhere, so that a step changes one weight of each.
`CeilingHolds` follows from the last two, because calls under way and stranded holds
are never negative.  The refinement is proved action by action; a step that needs an
argument is `Answered` of a reserve, where `HeldIs` with `excess` zero shows that the
reservation fits under what the abstract budget counts, although the counter may have
moved since the script was executed.  `Once` says that with one try a command that was
not sent has changed nothing, so nothing is ever given back twice.

**Demo.**  `SpendVisible` and `CeilingWithinWaived` are inductive together with
`TypeInv`, which adds to `TypeOK` that nobody is charged more than was reserved, that
a store is Redis or one's own, and that a reset between two keys has no bills in hand.
Each action changes at most one reservation or one reset (`Crash` and `ResetOpen`:
all those of one instance, whose weights they leave or whose store they empty), and
`HoldsUpdate` and `OutUpdate` say what that does to the sums.  In the refinement the
abstract budget does not see bills that a reset has in hand, so it uses no more of a
ceiling than is booked; that is on the counter by `SpendVisible` while nothing is waived,
and so what the script admits the budget admits (`ReserveMaps`).  `HealthTells` follows
from the same inequality.  A command that is executed again changes the counter and
`waived` by the same amount, so both inequalities survive it; `Once` says that without
resets and repetitions nothing is ever waived.

**Billing.**  The invariant adds to the properties that the store's number is what was
charged and what is in flight, and fits (`HeldIs`), and how far each request is
(`Tidy`).  The one fact about prices is `BillCovered`: within the estimate and the limit
a bill is at most `MaxCost`, by monotony of multiplication.  Of the provider nothing is
assumed but that it bills the two counts at the configured prices.

**RateLimit.**  The clock may be set, so stamps need not be in order; what is ordered
are the real times (`Ordered`), from which a stamp differs by no more than the clock
was set (`Stamped`), and what has left a deque is old to within that (`Expired`).

**Overrun.**  The invariant has a part for each property.  Requests start in order
(`InOrder`), one after the other where they are not sent together (`OneByOne`), and what
was billed is what those that are done cost (`BilledIsDone`).  `RaceInv`: the reads of a
gathered burst are all due at the same time and every call ends later, so while anybody
is still to decide nobody has written; tasks wake in the order in which they are due,
and how late they wake does not matter.  `PostHocInv`: the headroom a call has seen is
still there when it writes, as nobody else is in flight.  `EnforcedInv`: what is spent
only grows, so a denial stays justified, and a long request is never in while a cheap
one was refused; when all are over, `Filled` turns `what is in fits and one more would
not' into the two quotients of `Room`.  The lemmas on `Bill` count the two kinds of
requests in a set by the theorems on cardinality.

The sums everywhere are handled by the laws in `MoneyProofs` (an element added,
removed or changed, monotony), which follow from the theorems on cardinality because
`Total` counts a finite set.

Only model-checked: `EndsOrAwaitsClient`, since liveness under fairness is out of the
prover's reach, and `OnlyOvertakenForgotten`.  Every other property of a passing run is proved.

## 5. What is not modelled

* The package interface, the HTML pages, logging, error texts, the tests and the
  documents: no state, or none of fusegrid's.  The latency benchmark measures time.
* The binary representation of dollars (`Money`), and the estimate of a prompt's
  tokens from its text (`Billing`, where it may be too low).
* Cancellation of a plain handler, which happens when the server shuts down, and its
  ledger with it.
* Redis losing its data, or failing over to a replica that lacks the last commands:
  `src/` has no code for either.
