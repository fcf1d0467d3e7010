-------------------------------- MODULE Overrun --------------------------------
(***************************************************************************)
(* A burst of requests against one ceiling, under each of the patterns     *)
(* that src/bench/baseline/failopen.py measures, that                      *)
(* src/bench/enforce/replay.py replays on the ledger, and that GET         *)
(* /demo/overrun of src/api/index.py runs side by side.                    *)
(*                                                                         *)
(* An arm is one such burst.  Tasks of an event loop run until they sleep, *)
(* and wake in the order in which their sleeps are due, some time late.    *)
(* A hop to the store sleeps, unless it is the store in memory; so does    *)
(* the upstream call.                                                      *)
(***************************************************************************)
EXTENDS Money

CONSTANTS
  N,        \* requests in a burst
  Ceiling,
  Cost,     \* of a call
  Cheap,    \* requests of this cost before the long ones, where costs vary
  Dear,     \* cost of a long one
  Hop,      \* time to the store and back
  Call,     \* time of an upstream call
  MaxLate   \* bound on how late a task wakes

ASSUME OverrunAssumption ==
  /\ N \in Nat /\ Cheap \in Nat
  /\ Ceiling \in Nat /\ Cost \in Nat \ {0} /\ Dear \in Nat
  /\ Hop \in Nat /\ Call \in Nat \ {0} /\ MaxLate \in Nat
  /\ Cost <= Ceiling /\ Cost <= Dear

\* What distinguishes the arms: the requests are sent together or one after the
\* other; how a request is admitted: by room for its price, by any headroom, or
\* by a reservation; whether the store is a hop away; whether it fails writes;
\* whether the model has a price; whether costs vary; whether a call is made.
Arm(together, test, hop, fails, priced, varied, calls) ==
  [together |-> together, test |-> test, hop |-> hop, fails |-> fails,
   priced |-> priced, varied |-> varied, calls |-> calls]

CheckThenAct     == Arm(TRUE, "room", Hop, FALSE, TRUE, FALSE, TRUE)
PostHoc          == Arm(FALSE, "headroom", Hop, FALSE, TRUE, TRUE, TRUE)
BestEffort       == Arm(FALSE, "headroom", Hop, TRUE, TRUE, FALSE, TRUE)
Unpriced         == Arm(FALSE, "room", Hop, FALSE, FALSE, FALSE, TRUE)
OverrunPostHoc   == Arm(TRUE, "headroom", 0, FALSE, TRUE, FALSE, TRUE)
OverrunEnforced  == Arm(TRUE, "reserve", 0, FALSE, TRUE, FALSE, TRUE)
ReplayRace       == Arm(TRUE, "reserve", 0, FALSE, TRUE, FALSE, FALSE)
ReplayVariable   == Arm(FALSE, "reserve", 0, FALSE, TRUE, TRUE, FALSE)
ReplayDown       == Arm(FALSE, "reserve", 0, TRUE, TRUE, FALSE, FALSE)
ReplayUnpriced   == Arm(FALSE, "reserve", 0, FALSE, FALSE, FALSE, FALSE)

Arms == {CheckThenAct, PostHoc, BestEffort, Unpriced, OverrunPostHoc, OverrunEnforced,
         ReplayRace, ReplayVariable, ReplayDown, ReplayUnpriced}

VARIABLES
  arm,     \* the burst that runs
  now,     \* the time
  at,      \* at[i]: where request i is
  due,     \* due[i]: when its sleep ends
  spent,   \* what the store has recorded
  billed   \* what the provider bills

vars == <<arm, now, at, due, spent, billed>>

Bursts == 1 .. N

CostOf(i) == IF arm.varied /\ i > Cheap THEN Dear ELSE Cost

\* What the pattern takes a request to cost.
PriceOf(i) == IF arm.priced THEN CostOf(i) ELSE 0

Over == {"done", "denied"}

-------------------------------------------------------------------------------
Goes(i, l) == at' = [at EXCEPT ![i] = l]

Sleep(i, t, time) == due' = [due EXCEPT ![i] = t + time]

\* Slip: requests that are sent together wait for each other.
StartsMutOneByOne(i) ==
  /\ at[i] = "new"
  /\ \A j \in 1 .. i - 1 : at[j] \in Over

\* The next request starts: all of a gathered burst before anything wakes, else
\* when the one before it is over.
Starts(i) ==
  /\ at[i] = "new"
  /\ \A j \in 1 .. i - 1 : at[j] # "new" /\ (arm.together \/ at[j] \in Over)

\* Slip: the test of a reservation does not count the request itself.
FitsMutHeadroom(i) == spent < Ceiling

Fits(i) == spent + CostOf(i) <= Ceiling

\* reserve denies when the store is down; a model without a price is not even
\* reserved for.  A replay makes no call: it counts what was admitted.
ReserveOrDeny(i) ==
  /\ Starts(i) /\ arm.test = "reserve"
  /\ IF arm.fails \/ ~arm.priced \/ ~Fits(i)
     THEN Goes(i, "denied") /\ UNCHANGED <<due, spent, billed>>
     ELSE /\ spent' = spent + CostOf(i)
          /\ IF arm.calls THEN Goes(i, "call") /\ Sleep(i, now, Call) /\ UNCHANGED billed
             ELSE Goes(i, "done") /\ billed' = billed + CostOf(i) /\ UNCHANGED due
  /\ UNCHANGED <<arm, now>>

\* The other patterns read the counter, which may take a hop.
StartReading(i) ==
  /\ Starts(i) /\ arm.test # "reserve" /\ arm.hop > 0
  /\ Goes(i, "read") /\ Sleep(i, now, arm.hop)
  /\ UNCHANGED <<arm, now, spent, billed>>

Admits(i) == IF arm.test = "room" THEN spent + PriceOf(i) <= Ceiling ELSE spent < Ceiling

\* The decision on what was read, and the call.
Decide(i, t) ==
  IF Admits(i) THEN Goes(i, "call") /\ Sleep(i, t, Call)
               ELSE Goes(i, "denied") /\ UNCHANGED due

DecideAtOnce(i) ==
  /\ Starts(i) /\ arm.test # "reserve" /\ arm.hop = 0
  /\ Decide(i, now)
  /\ UNCHANGED <<arm, now, spent, billed>>

\* i sleeps, nobody's sleep ends earlier, and no task of a burst is yet to start.
Wakes(i, t) ==
  /\ at[i] \in {"read", "call", "write"}
  /\ \A j \in Bursts : at[j] \in {"read", "call", "write"} => due[i] <= due[j]
  /\ \A j \in Bursts : ~Starts(j)
  /\ t \in Greatest(now, due[i]) .. Greatest(now, due[i]) + MaxLate
  /\ now' = t

ReadEnds(i, t) ==
  /\ at[i] = "read" /\ Wakes(i, t)
  /\ Decide(i, t)
  /\ UNCHANGED <<arm, spent, billed>>

\* Slips: every call is recorded at the flat cost; a call whose write fails is
\* not billed.
RecordMutFlat(i) ==
  /\ spent' = IF arm.fails \/ ~arm.priced THEN spent ELSE spent + Cost
  /\ billed' = billed + CostOf(i)
RecordMutFailsRequest(i) ==
  /\ spent' = IF arm.fails THEN spent ELSE spent + PriceOf(i)
  /\ billed' = IF arm.fails THEN billed ELSE billed + CostOf(i)

\* The cost is written, unless that fails, which is swallowed; the provider
\* bills in any case.
Record(i) ==
  /\ spent' = IF arm.fails THEN spent ELSE spent + PriceOf(i)
  /\ billed' = billed + CostOf(i)

\* The call returns.  With a reservation it is settled at the same cost.
CallEnds(i, t) ==
  /\ at[i] = "call" /\ Wakes(i, t)
  /\ IF arm.test = "reserve"
     THEN Goes(i, "done") /\ billed' = billed + CostOf(i) /\ UNCHANGED <<due, spent>>
     ELSE IF arm.hop > 0
     THEN Goes(i, "write") /\ Sleep(i, t, arm.hop) /\ UNCHANGED <<spent, billed>>
     ELSE Goes(i, "done") /\ Record(i) /\ UNCHANGED due
  /\ UNCHANGED arm

WriteEnds(i, t) ==
  /\ at[i] = "write" /\ Wakes(i, t)
  /\ Record(i) /\ Goes(i, "done")
  /\ UNCHANGED <<arm, due>>

-------------------------------------------------------------------------------
Init ==
  /\ arm \in Arms
  /\ now = 0
  /\ at = [i \in Bursts |-> "new"]
  /\ due = [i \in Bursts |-> 0]
  /\ spent = 0
  /\ billed = 0

Times == 0 .. (2 * Hop + Call + 3 * MaxLate) * N

Next ==
  \E i \in Bursts :
    \/ ReserveOrDeny(i) \/ StartReading(i) \/ DecideAtOnce(i)
    \/ \E t \in Times : ReadEnds(i, t) \/ CallEnds(i, t) \/ WriteEnds(i, t)

Spec == Init /\ [][Next]_vars

-------------------------------------------------------------------------------
(* Properties *)

Ended   == \A i \in Bursts : at[i] \in Over
Allowed == Cardinality({i \in Bursts : at[i] \notin {"new", "read", "denied"}})

\* `Every concurrent request reads the same value before any of them has
\* written': however late tasks wake, a gathered burst that decides on what it
\* has read admits everything, and spends N times the cost.
RaceFailsOpen ==
  Ended /\ arm \in {CheckThenAct, OverrunPostHoc} => Allowed = N /\ billed = N * Cost

\* One after the other, the counter is exact but for the call in flight, so
\* post-hoc accounting overspends by less than one call, a long one.
PostHocBound ==
  arm = PostHoc => billed = spent /\ billed < Ceiling + Dear

\* Without a record, or with one of zero, everything is admitted and nothing of
\* it shows.
NothingShows ==
  arm \in {BestEffort, Unpriced} /\ Ended => Allowed = N /\ spent = 0 /\ billed = N * Cost

\* With reservations the burst is billed what the ceiling has room for, to the
\* last call, and nothing when the store is down or there is no price: first the
\* requests at the flat cost, then long ones if any room is left for them.
Flat == IF arm.varied THEN Least(N, Cheap) ELSE N

Room ==
  LET flat == Least(Flat, Ceiling \div Cost)
  IN  flat + Least(N - Flat, (Ceiling - flat * Cost) \div Dear)

EnforcedExact ==
  arm.test = "reserve" =>
    /\ billed <= spent /\ spent <= Ceiling
    /\ Ended => Allowed = IF arm.fails \/ ~arm.priced THEN 0 ELSE Room
===============================================================================
