------------------------------ MODULE DemoProofs ------------------------------
(***************************************************************************)
(* Theorems about Demo, for every number of instances, keys, reservations  *)
(* and resets, every ceiling and every amount, however often a command is  *)
(* executed.                                                               *)
(***************************************************************************)
EXTENDS Demo, MoneyProofs

-------------------------------------------------------------------------------
(* Type correctness *)

\* A request is never charged more than it reserved; a store is Redis or belongs
\* to its instance; a reset between two keys, or whose release was executed, has no
\* bills in hand.
Shape ==
  /\ \A i \in Ids : res[i] # None =>
       res[i].cost <= res[i].amount /\ res[i].store \in {Redis, res[i].at}
  /\ \A q \in Resets : At(q, "next") \/ At(q, "again") => task[q].own = 0

TypeInv == TypeOK /\ Shape

LEMMA TypeInit == Init => TypeInv
<1> SUFFICES ASSUME Init PROVE TypeInv  OBVIOUS
<1> USE DemoAssumption DEF Init
<1>1. TypeOK  BY DEF TypeOK, Stores
<1>2. Shape  BY DEF Shape, At
<1> QED  BY <1>1, <1>2 DEF TypeInv

\* A reservation has the fields of one.
LEMMA ReservationType ==
  ASSUME TypeOK, NEW i \in Ids, res[i] # None
  PROVE  /\ res[i] \in Reservation
         /\ res[i].at \in Instances /\ res[i].store \in Stores /\ res[i].key \in Keys
         /\ res[i].amount \in Nat /\ res[i].cost \in Nat
         /\ res[i].state \in {"taken", "open", "popped", "given", "escaped"}
         /\ res[i].tries \in Nat
<1>1. res[i] \in Reservation  BY DEF TypeOK
<1> QED  BY <1>1 DEF Reservation

LEMMA TaskType ==
  ASSUME TypeOK, NEW q \in Resets, task[q] # None
  PROVE  /\ task[q] \in Task
         /\ task[q].at \in Instances /\ task[q].todo \in SUBSET Keys /\ task[q].key \in Keys
         /\ task[q].read \in Int /\ task[q].own \in Nat /\ task[q].tries \in Nat
<1>1. task[q] \in Task  BY DEF TypeOK
<1> QED  BY <1>1 DEF Task

LEMMA StoreOfType ==
  ASSUME NEW p \in Instances
  PROVE  StoreOf(p) \in Stores
BY DEF StoreOf, Stores

LEMMA BegunType ==
  ASSUME NEW p \in Instances, NEW todo \in SUBSET Keys
  PROVE  Begun(p, todo) \in Task /\ Begun(p, todo) # None /\ Begun(p, todo).own = 0
<1>1. (CHOOSE k \in Keys : TRUE) \in Keys  BY DemoAssumption
<1>2. Begun(p, todo) \in Task  BY <1>1 DEF Begun, Task
<1> QED  BY <1>2, DemoAssumption DEF Begun

LEMMA StartType ==
  ASSUME TypeInv, NEW p \in Instances, Start(p)
  PROVE  TypeInv'
<1> USE DemoAssumption DEF TypeInv, Start
<1>1. kind' \in [Instances -> {"off", "redis", "memory"}]  BY DEF TypeOK
<1>2. \A i \in Ids : res[i] # None /\ res[i].state # "escaped" => res[i].at # p
  BY DEF TypeOK
<1>3. \A o \in Instances \ {p} : kind'[o] = kind[o]  BY DEF TypeOK
<1>4. \A i \in Ids : res[i] # None => res[i].at \in Instances  BY ReservationType
<1>5. TypeOK'  BY <1>1, <1>2, <1>3, <1>4 DEF TypeOK, StoreOf
<1>6. Shape'  BY DEF Shape, At
<1> QED  BY <1>5, <1>6

\* A reservation remains one when its instance dies, and when it only moves.
LEMMA ReservationDies ==
  ASSUME NEW r \in Reservation, NEW e, e = [r EXCEPT !.state = "escaped", !.cost = 0]
  PROVE  /\ e \in Reservation /\ e.at = r.at /\ e.store = r.store /\ e.key = r.key
         /\ e.amount = r.amount /\ e.state = "escaped" /\ e.cost = 0
BY DEF Reservation

LEMMA ReservationMoves ==
  ASSUME NEW r \in Reservation, NEW s \in {"open", "escaped"},
         NEW e, e = [r EXCEPT !.state = s]
  PROVE  /\ e \in Reservation /\ e.at = r.at /\ e.store = r.store /\ e.key = r.key
         /\ e.amount = r.amount /\ e.state = s /\ e.cost = r.cost
BY DEF Reservation

\* A reset that dies remains one.
LEMMA TaskDies ==
  ASSUME NEW t \in Task, NEW e, e = [t EXCEPT !.step = "done", !.read = 0]
  PROVE  e \in Task /\ e.key = t.key /\ e.own = t.own /\ e.step = "done"
<1>1. /\ t.at \in Instances /\ t.todo \in SUBSET Keys /\ t.key \in Keys
      /\ t.read \in Int /\ t.own \in Nat /\ t.tries \in Nat
      /\ t = [at |-> t.at, step |-> t.step, todo |-> t.todo, key |-> t.key,
              read |-> t.read, own |-> t.own, tries |-> t.tries]
  BY DEF Task
<1>2. e = [at |-> t.at, step |-> "done", todo |-> t.todo, key |-> t.key,
           read |-> 0, own |-> t.own, tries |-> t.tries]
  BY <1>1
<1> QED  BY <1>1, <1>2 DEF Task

\* How the death of instance p changes a reservation.
LEMMA CrashReservation ==
  ASSUME TypeInv, NEW p \in Instances, Crash(p), NEW i \in Ids, res'[i] # None
  PROVE  /\ res[i] # None /\ res'[i] \in Reservation
         /\ res'[i].at = res[i].at /\ res'[i].store = res[i].store
         /\ res'[i].key = res[i].key /\ res'[i].amount = res[i].amount
         /\ res'[i].cost <= res'[i].amount
         /\ res'[i].store # p
         /\ Holding(i) <=> res'[i].state # "given"
         /\ res'[i].state # "escaped" => res'[i] = res[i] /\ res[i].at # p
<1>1. res'[i] = IF res[i] = None \/ res[i].at # p THEN res[i]
                ELSE IF res[i].store = Redis /\ res[i].state # "given"
                THEN [res[i] EXCEPT !.state = "escaped", !.cost = 0]
                ELSE None
  BY Zenon DEF Crash
<1>2. res[i] # None  BY <1>1
<1>3. /\ res[i] \in Reservation /\ res[i].amount \in Nat
      /\ res[i].cost <= res[i].amount /\ res[i].store \in {Redis, res[i].at}
  BY <1>2, ReservationType DEF TypeInv, Shape
<1>4. Redis # p  BY DemoAssumption
<1>5. CASE res[i].at # p
  <2>1. res'[i] = res[i]  BY <1>1, <1>5
  <2> QED  BY <1>2, <1>3, <1>4, <1>5, <2>1 DEF Holding
<1>6. CASE res[i].at = p /\ res[i].store = Redis /\ res[i].state # "given"
  <2>1. res'[i] = [res[i] EXCEPT !.state = "escaped", !.cost = 0]  BY <1>1, <1>2, <1>6
  <2>2. /\ res'[i] \in Reservation
        /\ res'[i].at = res[i].at /\ res'[i].store = res[i].store
        /\ res'[i].key = res[i].key /\ res'[i].amount = res[i].amount
        /\ res'[i].state = "escaped" /\ res'[i].cost = 0
    BY <1>3, <2>1, ReservationDies
  <2> QED  BY <1>2, <1>3, <1>4, <1>6, <2>2 DEF Holding
<1> QED  BY <1>1, <1>2, <1>5, <1>6

\* How it changes a reset.
LEMMA CrashTask ==
  ASSUME TypeInv, NEW p \in Instances, Crash(p), NEW q \in Resets
  PROVE  /\ task'[q] \in Task \cup {None}
         /\ task'[q] = None <=> task[q] = None
         /\ task'[q] # None => task'[q].key = task[q].key /\ task'[q].own = task[q].own
         /\ At(q, "next")' \/ At(q, "again")' => At(q, "next") \/ At(q, "again")
<1>1. task'[q] = IF task[q] = None \/ task[q].at # p THEN task[q]
                 ELSE [task[q] EXCEPT !.step = "done", !.read = 0]
  BY Zenon DEF Crash
<1>2. task[q] \in Task \cup {None}  BY DEF TypeInv, TypeOK
<1>3. CASE task[q] = None \/ task[q].at # p  BY <1>1, <1>2, <1>3 DEF At
<1>4. CASE ~(task[q] = None \/ task[q].at # p)
  <2>1. task[q] \in Task  BY <1>2, <1>4
  <2>2. task'[q] = [task[q] EXCEPT !.step = "done", !.read = 0]  BY <1>1, <1>4
  <2>3. /\ task'[q] \in Task /\ task'[q].key = task[q].key /\ task'[q].own = task[q].own
        /\ task'[q].step = "done"
    BY <2>1, <2>2, TaskDies
  <2> QED  BY <1>4, <2>3, DemoAssumption DEF At
<1> QED  BY <1>3, <1>4

LEMMA CrashType ==
  ASSUME TypeInv, NEW p \in Instances, Crash(p)
  PROVE  TypeInv'
<1>0. TypeOK /\ Shape  BY DEF TypeInv
<1>1. kind' \in [Instances -> {"off", "redis", "memory"}]  BY <1>0 DEF TypeOK, Crash
<1>2. res' \in [Ids -> Reservation \cup {None}]
  <2>1. \A i \in Ids : res'[i] \in Reservation \cup {None}  BY CrashReservation
  <2>2. DOMAIN res' = Ids /\ res' = [i \in Ids |-> res'[i]]  BY DEF Crash
  <2> QED  BY <2>1, <2>2
<1>3. task' \in [Resets -> Task \cup {None}]
  <2>1. \A q \in Resets : task'[q] \in Task \cup {None}  BY CrashTask
  <2>2. DOMAIN task' = Resets /\ task' = [q \in Resets |-> task'[q]]  BY DEF Crash
  <2> QED  BY <2>1, <2>2
<1>4. /\ held' \in [Stores -> [Keys -> Int]] /\ \A o \in Instances : held'[o] \in [Keys -> Nat]
      /\ billed' \in [Stores -> [Keys -> Nat]] /\ waived' \in [Stores -> [Keys -> Nat]]
  <2>1. /\ held' = [held EXCEPT ![p] = [k \in Keys |-> 0]]
        /\ billed' = [billed EXCEPT ![p] = [k \in Keys |-> 0]]
        /\ waived' = [waived EXCEPT ![p] = [k \in Keys |-> 0]]
    BY DEF Crash
  <2>2. [k \in Keys |-> 0] \in [Keys -> Nat] /\ [k \in Keys |-> 0] \in [Keys -> Int]  OBVIOUS
  <2>3. p \in Stores /\ Instances \subseteq Stores  BY DEF Stores
  <2> QED  BY <1>0, <2>1, <2>2, <2>3 DEF TypeOK
<1>5. \A o \in Instances \ {p} : kind'[o] = kind[o]  BY <1>0 DEF TypeOK, Crash
<1>6. \A i \in Ids : res'[i] # None /\ res'[i].state # "escaped" =>
        kind'[res'[i].at] # "off" /\ res'[i].store = StoreOf(res[i].at)'
  <2> SUFFICES ASSUME NEW i \in Ids, res'[i] # None, res'[i].state # "escaped"
               PROVE  kind'[res'[i].at] # "off" /\ res'[i].store = StoreOf(res[i].at)'
    OBVIOUS
  <2>1. res[i] # None /\ res'[i] = res[i] /\ res[i].at # p  BY CrashReservation
  <2>2. res[i].at \in Instances \ {p}  BY <1>0, <2>1, ReservationType
  <2>3. kind'[res[i].at] = kind[res[i].at]  BY <1>5, <2>2
  <2>4. kind[res[i].at] # "off" /\ res[i].store = StoreOf(res[i].at)
    BY <1>0, <2>1 DEF TypeOK
  <2> QED  BY <2>1, <2>3, <2>4 DEF StoreOf
<1>7. TypeOK'  BY <1>1, <1>2, <1>3, <1>4, <1>6 DEF TypeOK
<1>8. Shape'
  <2>1. \A i \in Ids : res'[i] # None =>
          res'[i].cost <= res'[i].amount /\ res'[i].store \in {Redis, res'[i].at}
    BY <1>0, CrashReservation DEF Shape
  <2>2. \A q \in Resets : At(q, "next")' \/ At(q, "again")' => task'[q].own = 0
    BY <1>0, CrashTask DEF Shape, At
  <2> QED  BY <2>1, <2>2 DEF Shape
<1> QED  BY <1>7, <1>8 DEF TypeInv

\* What a request does, to its reservation i only.
LEMMA RequestType ==
  ASSUME TypeInv, NEW i \in Ids, NEW r \in Reservation \cup {None},
         res' = [res EXCEPT ![i] = r],
         r # None => /\ r.cost <= r.amount /\ r.store \in {Redis, r.at}
                     /\ r.state # "escaped" =>
                          kind[r.at] # "off" /\ r.store = StoreOf(r.at),
         held' \in [Stores -> [Keys -> Int]],
         \A o \in Instances : held'[o] \in [Keys -> Nat],
         billed' \in [Stores -> [Keys -> Nat]], waived' \in [Stores -> [Keys -> Nat]],
         UNCHANGED <<kind, task>>
  PROVE  TypeInv'
<1>0. TypeOK /\ Shape  BY DEF TypeInv
<1>1. res' \in [Ids -> Reservation \cup {None}]  BY <1>0 DEF TypeOK
<1>2. \A j \in Ids : res'[j] = IF j = i THEN r ELSE res[j]  BY <1>0 DEF TypeOK
<1>3. \A j \in Ids : res'[j] # None /\ res'[j].state # "escaped" =>
        kind[res'[j].at] # "off" /\ res'[j].store = StoreOf(res'[j].at)
  BY <1>0, <1>2 DEF TypeOK
<1>4. TypeOK'  BY <1>0, <1>1, <1>3 DEF TypeOK, StoreOf
<1>5. Shape'  BY <1>0, <1>2 DEF Shape, At
<1> QED  BY <1>4, <1>5 DEF TypeInv

\* One count changes.
LEMMA CountType ==
  ASSUME NEW f \in [Stores -> [Keys -> Nat]], NEW s \in Stores, NEW k \in Keys, NEW n \in Nat
  PROVE  /\ [f EXCEPT ![s][k] = n] \in [Stores -> [Keys -> Nat]]
         /\ \A t \in Stores, l \in Keys :
              [f EXCEPT ![s][k] = n][t][l] = IF t = s /\ l = k THEN n ELSE f[t][l]
OBVIOUS

LEMMA HeldType ==
  ASSUME TypeOK, NEW s \in Stores, NEW k \in Keys, NEW n \in Int, s # Redis => n \in Nat
  PROVE  LET h == [held EXCEPT ![s][k] = n]
         IN  /\ h \in [Stores -> [Keys -> Int]]
             /\ \A o \in Instances : h[o] \in [Keys -> Nat]
             /\ \A t \in Stores, l \in Keys : h[t][l] = IF t = s /\ l = k THEN n ELSE held[t][l]
<1> DEFINE h == [held EXCEPT ![s][k] = n]
<1>1. held \in [Stores -> [Keys -> Int]] /\ \A o \in Instances : held[o] \in [Keys -> Nat]
  BY DEF TypeOK
<1>2. h \in [Stores -> [Keys -> Int]]  BY <1>1
<1>3. \A t \in Stores, l \in Keys : h[t][l] = IF t = s /\ l = k THEN n ELSE held[t][l]
  BY <1>1
<1>4. \A o \in Instances : h[o] \in [Keys -> Nat]
  <2> SUFFICES ASSUME NEW o \in Instances PROVE h[o] \in [Keys -> Nat]  OBVIOUS
  <2>1. o \in Stores /\ o # Redis  BY DemoAssumption DEF Stores
  <2>2. h[o] \in [Keys -> Int]  BY <1>2, <2>1
  <2>3. \A l \in Keys : h[o][l] \in Nat  BY <1>1, <1>3, <2>1
  <2> HIDE DEF h
  <2> QED  BY <2>2, <2>3
<1> QED  BY <1>2, <1>3, <1>4

-------------------------------------------------------------------------------
(* Totals *)

Weight(r, s, k) ==
  IF r # None /\ r.state # "given" /\ r.store = s /\ r.key = k THEN r.amount ELSE 0
Load(q, s, k)   == IF q # None /\ s = Redis /\ q.key = k THEN q.own ELSE 0

Holds(s, k) == Total(Ids, Reserved(s, k))
Out(s, k)   == Total(Resets, Leaving(s, k))

LEMMA WeightType ==
  ASSUME NEW r \in Reservation \cup {None}, NEW s \in Stores, NEW k \in Keys
  PROVE  Weight(r, s, k) \in Nat
BY DEF Weight, Reservation

LEMMA LoadType ==
  ASSUME NEW q \in Task \cup {None}, NEW s \in Stores, NEW k \in Keys
  PROVE  Load(q, s, k) \in Nat
BY DEF Load, Task

LEMMA TotalsType ==
  ASSUME TypeOK, NEW s \in Stores, NEW k \in Keys
  PROVE  /\ \A i \in Ids : Reserved(s, k)[i] = Weight(res[i], s, k) /\ Reserved(s, k)[i] \in Nat
         /\ \A q \in Resets : Leaving(s, k)[q] = Load(task[q], s, k) /\ Leaving(s, k)[q] \in Nat
         /\ Holds(s, k) \in Nat /\ Out(s, k) \in Nat
         /\ billed[s][k] \in Nat /\ waived[s][k] \in Nat /\ held[s][k] \in Int
         /\ Booked(s, k) = billed[s][k] + Holds(s, k) + Out(s, k)
         /\ Ceiling[k] \in Nat
<1>1. \A i \in Ids : Reserved(s, k)[i] = Weight(res[i], s, k)  BY DEF Reserved, Weight, Holding
<1>2. \A q \in Resets : Leaving(s, k)[q] = Load(task[q], s, k)  BY DEF Leaving, Load
<1>3. \A i \in Ids : Weight(res[i], s, k) \in Nat  BY WeightType DEF TypeOK
<1>4. \A q \in Resets : Load(task[q], s, k) \in Nat  BY LoadType DEF TypeOK
<1>5. Holds(s, k) \in Nat  BY <1>1, <1>3, TotalType, DemoAssumption DEF Holds
<1>6. Out(s, k) \in Nat  BY <1>2, <1>4, TotalType, DemoAssumption DEF Out
<1>7. billed[s][k] \in Nat /\ waived[s][k] \in Nat /\ held[s][k] \in Int  BY DEF TypeOK
<1>8. Booked(s, k) = billed[s][k] + Holds(s, k) + Out(s, k)  BY DEF Booked, Holds, Out
<1>9. Ceiling[k] \in Nat  BY DemoAssumption
<1> QED  BY <1>1, <1>2, <1>3, <1>4, <1>5, <1>6, <1>7, <1>8, <1>9

\* One reservation changes, or none.
LEMMA HoldsUpdate ==
  ASSUME TypeOK, TypeOK', NEW i \in Ids, \A j \in Ids \ {i} : res'[j] = res[j],
         NEW s \in Stores, NEW k \in Keys
  PROVE  Holds(s, k)' = Holds(s, k) - Weight(res[i], s, k) + Weight(res'[i], s, k)
<1> DEFINE v == Reserved(s, k)
           w == Reserved(s, k)'
<1>1. \A j \in Ids : v[j] = Weight(res[j], s, k) /\ v[j] \in Nat  BY TotalsType
<1>2. \A j \in Ids : w[j] = Weight(res'[j], s, k)  BY DEF Reserved, Weight, Holding
<1>3. \A j \in Ids : w[j] \in Nat
  <2>1. \A j \in Ids : res'[j] \in Reservation \cup {None}  BY DEF TypeOK
  <2> QED  BY <1>2, <2>1, WeightType
<1>4. \A j \in Ids \ {i} : v[j] = w[j]  BY <1>1, <1>2
<1> HIDE DEF v, w
<1>5. Total(Ids, w) = Total(Ids, v) - v[i] + w[i]
  BY <1>1, <1>3, <1>4, TotalUpdate, DemoAssumption
<1> QED  BY <1>1, <1>2, <1>5 DEF Holds, v, w

LEMMA HoldsSame ==
  ASSUME NEW s \in Stores, NEW k \in Keys,
         \A i \in Ids : Weight(res'[i], s, k) = Weight(res[i], s, k)
  PROVE  Holds(s, k)' = Holds(s, k)
<1> DEFINE v == Reserved(s, k)
           w == Reserved(s, k)'
<1>1. \A i \in Ids : v[i] = w[i]  BY DEF Reserved, Weight, Holding
<1> HIDE DEF v, w
<1>2. Total(Ids, v) = Total(Ids, w)  BY <1>1, TotalSame
<1> QED  BY <1>2 DEF Holds, v, w

\* One reset changes, or none.
LEMMA OutUpdate ==
  ASSUME TypeOK, TypeOK', NEW q \in Resets, \A j \in Resets \ {q} : task'[j] = task[j],
         NEW s \in Stores, NEW k \in Keys
  PROVE  Out(s, k)' = Out(s, k) - Load(task[q], s, k) + Load(task'[q], s, k)
<1> DEFINE v == Leaving(s, k)
           w == Leaving(s, k)'
<1>1. \A j \in Resets : v[j] = Load(task[j], s, k) /\ v[j] \in Nat  BY TotalsType
<1>2. \A j \in Resets : w[j] = Load(task'[j], s, k)  BY DEF Leaving, Load
<1>3. \A j \in Resets : w[j] \in Nat
  <2>1. \A j \in Resets : task'[j] \in Task \cup {None}  BY DEF TypeOK
  <2> QED  BY <1>2, <2>1, LoadType
<1>4. \A j \in Resets \ {q} : v[j] = w[j]  BY <1>1, <1>2
<1> HIDE DEF v, w
<1>5. Total(Resets, w) = Total(Resets, v) - v[q] + w[q]
  BY <1>1, <1>3, <1>4, TotalUpdate, DemoAssumption
<1> QED  BY <1>1, <1>2, <1>5 DEF Out, v, w

LEMMA OutSame ==
  ASSUME NEW s \in Stores, NEW k \in Keys,
         \A q \in Resets : Load(task'[q], s, k) = Load(task[q], s, k)
  PROVE  Out(s, k)' = Out(s, k)
<1> DEFINE v == Leaving(s, k)
           w == Leaving(s, k)'
<1>1. \A q \in Resets : v[q] = w[q]  BY DEF Leaving, Load
<1> HIDE DEF v, w
<1>2. Total(Resets, v) = Total(Resets, w)  BY <1>1, TotalSame
<1> QED  BY <1>2 DEF Out, v, w

-------------------------------------------------------------------------------
(* Safety *)

Inv == TypeInv /\ SpendVisible /\ CeilingWithinWaived

LEMMA InvInit == Init => Inv
<1> SUFFICES ASSUME Init PROVE Inv  OBVIOUS
<1>1. TypeInv  BY TypeInit
<1>2. ASSUME NEW s \in Stores, NEW k \in Keys
      PROVE  /\ Booked(s, k) <= held[s][k] + waived[s][k]
             /\ Booked(s, k) <= Ceiling[k] + waived[s][k]
  <2>1. \A i \in Ids : Reserved(s, k)[i] = 0  BY DEF Init, Reserved, Holding
  <2>2. \A q \in Resets : Leaving(s, k)[q] = 0  BY DEF Init, Leaving
  <2>3. Total({}, Reserved(s, k)) = Total(Ids, Reserved(s, k))
    BY <2>1, TotalRestrict
  <2>4. Total({}, Leaving(s, k)) = Total(Resets, Leaving(s, k))
    BY <2>2, TotalRestrict
  <2>5. Holds(s, k) = 0 /\ Out(s, k) = 0  BY <2>3, <2>4, TotalEmpty DEF Holds, Out
  <2>6. billed[s][k] = 0 /\ held[s][k] = 0 /\ waived[s][k] = 0  BY DEF Init
  <2> QED  BY <1>1, <2>5, <2>6, TotalsType DEF TypeInv
<1> QED  BY <1>1, <1>2 DEF Inv, SpendVisible, CeilingWithinWaived

\* What a step must do to each count of each store.
Keeps(s, k) ==
  /\ Booked(s, k)' <= held'[s][k] + waived'[s][k]
  /\ Booked(s, k)' <= Ceiling[k] + waived'[s][k]

LEMMA InvKept ==
  ASSUME TypeInv', \A s \in Stores, k \in Keys : Keeps(s, k)
  PROVE  Inv'
BY DEF Inv, SpendVisible, CeilingWithinWaived, Keeps

\* What is true of each count before.
LEMMA InvHere ==
  ASSUME Inv, NEW s \in Stores, NEW k \in Keys
  PROVE  /\ Booked(s, k) <= held[s][k] + waived[s][k]
         /\ Booked(s, k) <= Ceiling[k] + waived[s][k]
BY DEF Inv, SpendVisible, CeilingWithinWaived

LEMMA StartStep ==
  ASSUME Inv, NEW p \in Instances, Start(p)
  PROVE  Inv'
<1>1. TypeInv'  BY StartType DEF Inv
<1>2. UNCHANGED <<held, res, task, billed, waived>>  BY DEF Start
<1>3. \A s \in Stores, k \in Keys : Booked(s, k)' = Booked(s, k)
  BY <1>2 DEF Booked, Reserved, Holding, Leaving
<1>4. \A s \in Stores, k \in Keys : Keeps(s, k)  BY <1>2, <1>3, InvHere DEF Keeps
<1> QED  BY <1>1, <1>4, InvKept

LEMMA CrashStep ==
  ASSUME Inv, NEW p \in Instances, Crash(p)
  PROVE  Inv'
<1>0. TypeInv /\ TypeInv' /\ TypeOK /\ TypeOK'  BY CrashType DEF Inv, TypeInv
<1>1. ASSUME NEW s \in Stores, NEW k \in Keys  PROVE  Keeps(s, k)
  <2>1. Out(s, k)' = Out(s, k)
    <3>1. \A q \in Resets : Load(task'[q], s, k) = Load(task[q], s, k)
      BY <1>0, CrashTask DEF Load
    <3> QED  BY <3>1, OutSame
  <2>2. CASE s = p
    <3>1. \A i \in Ids : Weight(res'[i], s, k) = 0
      BY <1>0, <2>2, CrashReservation DEF Weight
    <3>2. Holds(s, k)' = 0
      <4>1. \A i \in Ids : Reserved(s, k)'[i] = 0  BY <3>1 DEF Reserved, Weight, Holding
      <4>2. Total({}, Reserved(s, k)') = Total(Ids, Reserved(s, k)')
        BY <4>1, TotalRestrict
      <4> QED  BY <4>2, TotalEmpty DEF Holds
    <3>3. Out(s, k) = 0
      <4>1. s # Redis  BY <2>2, DemoAssumption
      <4>2. \A q \in Resets : Leaving(s, k)[q] = 0  BY <4>1 DEF Leaving
      <4>3. Total({}, Leaving(s, k)) = Total(Resets, Leaving(s, k))
        BY <4>2, TotalRestrict
      <4> QED  BY <4>3, TotalEmpty DEF Out
    <3>4. held'[s][k] = 0 /\ billed'[s][k] = 0 /\ waived'[s][k] = 0
      BY <1>0, <2>2 DEF Crash, TypeOK
    <3>5. Booked(s, k)' = billed'[s][k] + Holds(s, k)' + Out(s, k)'  BY DEF Booked, Holds, Out
    <3> QED  BY <1>0, <2>1, <3>2, <3>3, <3>4, <3>5, TotalsType DEF Keeps
  <2>3. CASE s # p
    <3>1. \A i \in Ids : Weight(res'[i], s, k) = Weight(res[i], s, k)
      <4> SUFFICES ASSUME NEW i \in Ids PROVE Weight(res'[i], s, k) = Weight(res[i], s, k)
        OBVIOUS
      <4>1. CASE res'[i] # None  BY <1>0, <4>1, CrashReservation DEF Weight, Holding
      <4>2. CASE res'[i] = None /\ res[i] # None
        <5>1. res'[i] = IF res[i] = None \/ res[i].at # p THEN res[i]
                        ELSE IF res[i].store = Redis /\ res[i].state # "given"
                        THEN [res[i] EXCEPT !.state = "escaped", !.cost = 0] ELSE None
          BY Zenon DEF Crash
        <5>2. res[i].at = p  BY <4>2, <5>1
        <5>3. res[i].store # Redis \/ res[i].state = "given"
          <6> SUFFICES ASSUME res[i].store = Redis, res[i].state # "given" PROVE FALSE
            OBVIOUS
          <6>1. res'[i] = [res[i] EXCEPT !.state = "escaped", !.cost = 0]  BY <4>2, <5>1, <5>2
          <6>2. res'[i] \in Reservation  BY <1>0, <4>2, <6>1, ReservationDies, ReservationType
          <6> QED  BY <4>2, <6>2, DemoAssumption
        <5>4. res[i].store = p \/ res[i].state = "given"
          BY <1>0, <4>2, <5>2, <5>3 DEF TypeInv, Shape
        <5> QED  BY <2>3, <4>2, <5>4 DEF Weight
      <4>3. CASE res'[i] = None /\ res[i] = None  BY <4>3
      <4> QED  BY <4>1, <4>2, <4>3
    <3>2. Holds(s, k)' = Holds(s, k)  BY <3>1, HoldsSame
    <3>3. /\ held'[s][k] = held[s][k] /\ billed'[s][k] = billed[s][k]
          /\ waived'[s][k] = waived[s][k]
      BY <1>0, <2>3 DEF Crash, TypeOK
    <3>4. Booked(s, k)' = Booked(s, k)
      BY <2>1, <3>2, <3>3 DEF Booked, Holds, Out
    <3> QED  BY <3>3, <3>4, InvHere DEF Keeps
  <2> QED  BY <2>2, <2>3
<1> QED  BY <1>0, <1>1, InvKept

\* A request changes what is booked by its reservation and its bill.
LEMMA RequestBooked ==
  ASSUME TypeOK, TypeOK', NEW i \in Ids, \A j \in Ids \ {i} : res'[j] = res[j],
         task' = task, NEW s \in Stores, NEW k \in Keys
  PROVE  Booked(s, k)' = billed'[s][k] + Holds(s, k) - Weight(res[i], s, k)
                           + Weight(res'[i], s, k) + Out(s, k)
<1>1. Holds(s, k)' = Holds(s, k) - Weight(res[i], s, k) + Weight(res'[i], s, k)
  BY HoldsUpdate
<1>2. Out(s, k)' = Out(s, k)
  <2>1. \A q \in Resets : Load(task'[q], s, k) = Load(task[q], s, k)  OBVIOUS
  <2> QED  BY <2>1, OutSame
<1>3. Booked(s, k)' = billed'[s][k] + Holds(s, k)' + Out(s, k)'  BY DEF Booked, Holds, Out
<1>4. Weight(res[i], s, k) \in Nat  BY WeightType DEF TypeOK
<1>5. res'[i] \in Reservation \cup {None}  BY DEF TypeOK
<1>6. Weight(res'[i], s, k) \in Nat  BY <1>5, WeightType
<1>7. billed'[s][k] \in Nat  BY DEF TypeOK
<1>8. Holds(s, k) \in Nat /\ Out(s, k) \in Nat  BY TotalsType
<1> QED  BY <1>1, <1>2, <1>3, <1>4, <1>6, <1>7, <1>8

LEMMA ReserveStoreStep ==
  ASSUME Inv, NEW p \in Instances, NEW k \in Keys, NEW a \in Amounts, NEW i \in Ids,
         ReserveStore(p, k, a, i)
  PROVE  Inv'
<1> DEFINE r == [at |-> p, store |-> StoreOf(p), key |-> k, amount |-> a,
                 state |-> "taken", cost |-> 0, tries |-> 0]
           t == StoreOf(p)
           n == held[t][k] + a
<1>0. TypeInv /\ TypeOK /\ Shape  BY DEF Inv, TypeInv
<1>1. /\ kind[p] # "off" /\ res[i] = None /\ held[t][k] + a <= Ceiling[k]
      /\ held' = [held EXCEPT ![t][k] = n] /\ res' = [res EXCEPT ![i] = r]
      /\ UNCHANGED <<kind, task, billed, waived>>
  BY DEF ReserveStore, Fits
<1>2. t \in Stores /\ a \in Nat  BY StoreOfType, DemoAssumption
<1>3. r \in Reservation  BY <1>2 DEF Reservation
<1>4. held[t][k] \in Int /\ (t # Redis => held[t][k] \in Nat)
  BY <1>0, <1>2 DEF TypeOK, Stores
<1>5. n \in Int /\ (t # Redis => n \in Nat)  BY <1>2, <1>4
<1>6. /\ held' \in [Stores -> [Keys -> Int]]
      /\ \A o \in Instances : held'[o] \in [Keys -> Nat]
      /\ \A s \in Stores, l \in Keys : held'[s][l] = IF s = t /\ l = k THEN n ELSE held[s][l]
  <2> HIDE DEF t, n
  <2> QED  BY <1>0, <1>1, <1>2, <1>5, HeldType
<1>7. r # None /\ r.state # "given" /\ r.cost <= r.amount /\ r.store \in {Redis, r.at}
      /\ kind[r.at] # "off" /\ r.store = StoreOf(r.at)
  BY <1>1, <1>2, <1>3, DemoAssumption DEF StoreOf
<1>8. TypeInv'
  <2>1. r \in Reservation \cup {None}  BY <1>3
  <2>2. billed' \in [Stores -> [Keys -> Nat]] /\ waived' \in [Stores -> [Keys -> Nat]]
    BY <1>0, <1>1 DEF TypeOK
  <2> HIDE DEF r, t, n
  <2> QED  BY <1>0, <1>1, <1>6, <1>7, <2>1, <2>2, RequestType
<1>9. ASSUME NEW s \in Stores, NEW l \in Keys  PROVE  Keeps(s, l)
  <2>1. res'[i] = r /\ \A j \in Ids \ {i} : res'[j] = res[j]  BY <1>0, <1>1 DEF TypeOK
  <2>2. Weight(res[i], s, l) = 0  BY <1>1 DEF Weight
  <2>3. Weight(res'[i], s, l) = IF s = t /\ l = k THEN a ELSE 0
    BY <1>7, <2>1 DEF Weight
  <2>4. Booked(s, l)' = billed[s][l] + Holds(s, l) - Weight(res[i], s, l)
                          + Weight(res'[i], s, l) + Out(s, l)
    BY <1>0, <1>1, <1>8, <2>1, RequestBooked DEF TypeInv
  <2>5. Booked(s, l)' = Booked(s, l) + IF s = t /\ l = k THEN a ELSE 0
    <3> HIDE DEF t
    <3> QED  BY <1>0, <1>2, <2>2, <2>3, <2>4, TotalsType
  <2>6. held'[s][l] = held[s][l] + IF s = t /\ l = k THEN a ELSE 0
    <3>1. CASE s = t /\ l = k  BY <1>6, <3>1
    <3>2. CASE ~(s = t /\ l = k)
      <4>1. held'[s][l] = held[s][l]  BY <1>6, <3>2
      <4> HIDE DEF t
      <4> QED  BY <1>0, <3>2, <4>1, TotalsType
    <3> QED  BY <3>1, <3>2
  <2>7. Booked(s, l) <= held[s][l] + waived[s][l] /\ Booked(s, l) <= Ceiling[l] + waived[s][l]
    BY InvHere
  <2>8. Booked(s, l) \in Nat /\ held[s][l] \in Int /\ waived[s][l] \in Nat /\ Ceiling[l] \in Nat
    BY <1>0, TotalsType
  <2>9. waived'[s][l] = waived[s][l]  BY <1>1
  <2>10. CASE s = t /\ l = k
    <3>1. Booked(s, l)' = Booked(s, l) + a /\ held'[s][l] = held[s][l] + a
      BY <2>5, <2>6, <2>10
    <3>2. held[s][l] + a <= Ceiling[l]  BY <1>1, <2>10
    <3> QED  BY <1>2, <2>7, <2>8, <2>9, <3>1, <3>2 DEF Keeps
  <2>11. CASE ~(s = t /\ l = k)
    <3>1. Booked(s, l)' = Booked(s, l) + 0 /\ held'[s][l] = held[s][l] + 0
      BY <2>5, <2>6, <2>11
    <3> QED  BY <2>7, <2>8, <2>9, <3>1 DEF Keeps
  <2> QED  BY <2>10, <2>11
<1> QED  BY <1>8, <1>9, InvKept

\* A request whose reservation only moves.
LEMMA MoveStep ==
  ASSUME Inv, NEW i \in Ids, res[i] # None, res[i].state # "escaped",
         NEW r \in Reservation, r.at = res[i].at, r.store = res[i].store, r.key = res[i].key,
         r.amount = res[i].amount, r.cost <= r.amount,
         r.state = "given" <=> res[i].state = "given",
         res' = [res EXCEPT ![i] = r], UNCHANGED <<kind, held, task, billed, waived>>
  PROVE  Inv'
<1>0. TypeInv /\ TypeOK /\ Shape  BY DEF Inv, TypeInv
<1>1. /\ kind[r.at] # "off" /\ r.store = StoreOf(r.at) /\ r.store \in {Redis, r.at}
  BY <1>0 DEF TypeOK, Shape
<1>2. TypeInv'
  <2>1. /\ held' \in [Stores -> [Keys -> Int]]
        /\ \A o \in Instances : held'[o] \in [Keys -> Nat]
        /\ billed' \in [Stores -> [Keys -> Nat]] /\ waived' \in [Stores -> [Keys -> Nat]]
    BY <1>0 DEF TypeOK
  <2> QED  BY <1>0, <1>1, <2>1, RequestType
<1>3. ASSUME NEW s \in Stores, NEW k \in Keys  PROVE  Keeps(s, k)
  <2>1. res'[i] = r /\ \A j \in Ids \ {i} : res'[j] = res[j]  BY <1>0 DEF TypeOK
  <2>2. r # None  BY DemoAssumption
  <2>3. Weight(res'[i], s, k) = Weight(res[i], s, k)  BY <2>1, <2>2 DEF Weight
  <2>4. \A j \in Ids : Weight(res'[j], s, k) = Weight(res[j], s, k)  BY <2>1, <2>3
  <2>5. Holds(s, k)' = Holds(s, k)  BY <2>4, HoldsSame
  <2>6. Out(s, k)' = Out(s, k)
    <3>1. \A q \in Resets : Load(task'[q], s, k) = Load(task[q], s, k)  OBVIOUS
    <3> QED  BY <3>1, OutSame
  <2>7. Booked(s, k)' = Booked(s, k)  BY <2>5, <2>6 DEF Booked, Holds, Out
  <2> QED  BY <2>7, InvHere DEF Keeps
<1> QED  BY <1>2, <1>3, InvKept

LEMMA ReserveOpenStep ==
  ASSUME Inv, NEW p \in Instances, NEW i \in Ids, ReserveOpen(p, i)
  PROVE  Inv'
<1> DEFINE r == [res[i] EXCEPT !.state = "open"]
<1>1. res[i] # None /\ res[i].state = "taken"  BY DEF ReserveOpen, In
<1>2. res' = [res EXCEPT ![i] = r] /\ UNCHANGED <<kind, held, task, billed, waived>>
  BY Zenon DEF ReserveOpen
<1>3. res[i] \in Reservation /\ res[i].cost <= res[i].amount
  BY <1>1, ReservationType DEF Inv, TypeInv, Shape
<1>4. /\ r \in Reservation /\ r.at = res[i].at /\ r.store = res[i].store /\ r.key = res[i].key
      /\ r.amount = res[i].amount /\ r.cost = res[i].cost /\ r.state = "open"
  BY <1>3, ReservationMoves
<1> HIDE DEF r
<1> QED  BY <1>1, <1>2, <1>3, <1>4, MoveStep

LEMMA PopStep ==
  ASSUME Inv, NEW p \in Instances, NEW i \in Ids, NEW c \in Costs, Pop(p, i, c)
  PROVE  Inv'
<1> DEFINE n == Least(c, res[i].amount)
           r == [res[i] EXCEPT !.state = "popped", !.cost = n]
<1>1. res[i] # None /\ res[i].state = "open"  BY DEF Pop, In
<1>2. res' = [res EXCEPT ![i] = r] /\ UNCHANGED <<kind, held, task, billed, waived>>
  BY DEF Pop
<1>3. res[i] \in Reservation /\ res[i].amount \in Nat
  BY <1>1, ReservationType DEF Inv, TypeInv
<1>4. n \in Nat /\ n <= res[i].amount  BY <1>3, DemoAssumption DEF Least
<1>5. /\ r \in Reservation /\ r.at = res[i].at /\ r.store = res[i].store /\ r.key = res[i].key
      /\ r.amount = res[i].amount /\ r.cost = n /\ r.state = "popped"
  <2> HIDE DEF n
  <2> QED  BY <1>3, <1>4 DEF Reservation
<1> HIDE DEF r, n
<1> QED  BY <1>1, <1>2, <1>4, <1>5, MoveStep

\* A reserve whose answer is lost: the counter is above what is booked.
LEMMA ReserveLostStep ==
  ASSUME Inv, NEW p \in Instances, NEW k \in Keys, NEW a \in Amounts, ReserveLost(p, k, a)
  PROVE  Inv'
<1> DEFINE n == held[Redis][k] + a
<1>0. TypeInv /\ TypeOK /\ Shape  BY DEF Inv, TypeInv
<1>1. held' = [held EXCEPT ![Redis][k] = n] /\ UNCHANGED <<kind, res, task, billed, waived>>
  BY DEF ReserveLost
<1>2. Redis \in Stores /\ a \in Nat  BY DemoAssumption DEF Stores
<1>3. n \in Int  BY <1>0, <1>2 DEF TypeOK
<1>4. /\ held' \in [Stores -> [Keys -> Int]]
      /\ \A o \in Instances : held'[o] \in [Keys -> Nat]
      /\ \A s \in Stores, l \in Keys :
           held'[s][l] = IF s = Redis /\ l = k THEN n ELSE held[s][l]
  <2> HIDE DEF n
  <2> QED  BY <1>0, <1>1, <1>2, <1>3, HeldType
<1>5. TypeInv'  BY <1>0, <1>1, <1>4 DEF TypeInv, TypeOK, Shape, At, StoreOf
<1>6. ASSUME NEW s \in Stores, NEW l \in Keys  PROVE  Keeps(s, l)
  <2>1. Booked(s, l)' = Booked(s, l)  BY <1>1 DEF Booked, Reserved, Holding, Leaving
  <2>2. held[s][l] <= held'[s][l] /\ held'[s][l] \in Int  BY <1>0, <1>2, <1>4, TotalsType
  <2>3. waived'[s][l] = waived[s][l]  BY <1>1
  <2>4. /\ Booked(s, l) \in Nat /\ held[s][l] \in Int /\ waived[s][l] \in Nat
        /\ Ceiling[l] \in Nat
    BY <1>0, TotalsType
  <2> QED  BY <2>1, <2>2, <2>3, <2>4, InvHere DEF Keeps
<1> QED  BY <1>5, <1>6, InvKept

\* What the reservation of a request weighs until it is given back.
Standing(i) == IF res[i].state = "given" THEN 0 ELSE res[i].amount

\* A request that is billed for c, of what its reservation i weighs, and whose
\* reservation e then weighs nothing.  The counter may fall to n by what is not
\* billed, and below that by w, which is waived.
Ending(i, e, c, w, n) ==
  /\ res[i] # None
  /\ e # None => /\ e \in Reservation /\ e.at = res[i].at /\ e.store = res[i].store
                 /\ e.state = "given" /\ e.cost <= e.amount /\ res[i].state # "escaped"
  /\ res[i].store # Redis => n \in Nat
  /\ c <= Standing(i)
  /\ held[res[i].store][res[i].key] - (Standing(i) - c) <= n + w
  /\ held' = [held EXCEPT ![res[i].store][res[i].key] = n]
  /\ billed' = [billed EXCEPT ![res[i].store][res[i].key] = @ + c]
  /\ waived' = [waived EXCEPT ![res[i].store][res[i].key] = @ + w]
  /\ res' = [res EXCEPT ![i] = e]
  /\ UNCHANGED <<kind, task>>

LEMMA EndStep ==
  ASSUME Inv, NEW i \in Ids, NEW e, NEW c \in Nat, NEW w \in Nat, NEW n \in Int,
         Ending(i, e, c, w, n)
  PROVE  Inv'
<1> DEFINE t == res[i].store
           k == res[i].key
           d == Standing(i)
           b == billed[t][k] + c
           v == waived[t][k] + w
<1>0. TypeInv /\ TypeOK /\ Shape  BY DEF Inv, TypeInv
<1>1. t \in Stores /\ k \in Keys /\ res[i].amount \in Nat /\ d \in Nat
  BY <1>0, ReservationType DEF Standing, Ending
<1>2. b \in Nat /\ v \in Nat  BY <1>0, <1>1 DEF TypeOK
<1>3. c <= d /\ held[t][k] - (d - c) <= n + w  BY DEF Ending
<1>held. held' = [held EXCEPT ![t][k] = n] /\ (t # Redis => n \in Nat)  BY DEF Ending
<1>billed. billed' = [billed EXCEPT ![t][k] = b]  BY DEF Ending
<1>waived. waived' = [waived EXCEPT ![t][k] = v]  BY DEF Ending
<1> HIDE DEF d
<1>4. /\ held' \in [Stores -> [Keys -> Int]]
      /\ \A o \in Instances : held'[o] \in [Keys -> Nat]
      /\ \A s \in Stores, l \in Keys : held'[s][l] = IF s = t /\ l = k THEN n ELSE held[s][l]
  <2> HIDE DEF t, k
  <2> QED  BY <1>0, <1>1, <1>held, HeldType
<1>5. /\ billed' \in [Stores -> [Keys -> Nat]]
      /\ \A s \in Stores, l \in Keys : billed'[s][l] = IF s = t /\ l = k THEN b ELSE billed[s][l]
  <2>1. billed \in [Stores -> [Keys -> Nat]]  BY <1>0 DEF TypeOK
  <2> HIDE DEF t, k, b
  <2> QED  BY <1>1, <1>2, <1>billed, <2>1, CountType
<1>6. /\ waived' \in [Stores -> [Keys -> Nat]]
      /\ \A s \in Stores, l \in Keys : waived'[s][l] = IF s = t /\ l = k THEN v ELSE waived[s][l]
  <2>1. waived \in [Stores -> [Keys -> Nat]]  BY <1>0 DEF TypeOK
  <2> HIDE DEF t, k, v
  <2> QED  BY <1>1, <1>2, <1>waived, <2>1, CountType
<1>7. TypeInv'
  <2>1. e \in Reservation \cup {None} /\ res' = [res EXCEPT ![i] = e]
        /\ UNCHANGED <<kind, task>>
    BY DEF Ending
  <2>2. e # None => /\ e.cost <= e.amount /\ e.store \in {Redis, e.at}
                    /\ e.state # "escaped" => kind[e.at] # "off" /\ e.store = StoreOf(e.at)
    BY <1>0 DEF TypeOK, Shape, Ending
  <2> QED  BY <1>0, <1>4, <1>5, <1>6, <2>1, <2>2, RequestType
<1>8. ASSUME NEW s \in Stores, NEW l \in Keys  PROVE  Keeps(s, l)
  <2>1. res'[i] = e /\ \A j \in Ids \ {i} : res'[j] = res[j]  BY <1>0 DEF TypeOK, Ending
  <2>2. Weight(res'[i], s, l) = 0  BY <2>1 DEF Weight, Ending
  <2>3. Booked(s, l)' = billed'[s][l] + Holds(s, l) - Weight(res[i], s, l)
                          + Weight(res'[i], s, l) + Out(s, l)
    BY <1>0, <1>7, <2>1, RequestBooked DEF TypeInv, Ending
  <2>4. Booked(s, l) <= held[s][l] + waived[s][l] /\ Booked(s, l) <= Ceiling[l] + waived[s][l]
    BY InvHere
  <2>5. /\ billed[s][l] \in Nat /\ Holds(s, l) \in Nat /\ Out(s, l) \in Nat
        /\ held[s][l] \in Int /\ waived[s][l] \in Nat /\ Ceiling[l] \in Nat
        /\ Booked(s, l) = billed[s][l] + Holds(s, l) + Out(s, l)
    BY <1>0, TotalsType
  <2>6. CASE s = t /\ l = k
    <3>1. Weight(res[i], s, l) = d  BY <2>6 DEF Weight, d, Standing, Ending
    <3>2. /\ billed'[s][l] = billed[s][l] + c /\ held'[s][l] = n
          /\ waived'[s][l] = waived[s][l] + w
      BY <1>4, <1>5, <1>6, <2>6
    <3>3. Booked(s, l)' = Booked(s, l) - (d - c)
      BY <1>1, <2>2, <2>3, <2>5, <3>1, <3>2
    <3>4. held[s][l] - (d - c) <= n + w  BY <1>3, <2>6
    <3>5. Booked(s, l) \in Nat  BY <2>5
    <3> QED  BY <1>1, <1>3, <2>4, <2>5, <3>2, <3>3, <3>4, <3>5 DEF Keeps
  <2>7. CASE ~(s = t /\ l = k)
    <3>1. Weight(res[i], s, l) = 0  BY <2>7 DEF Weight
    <3>2. /\ billed'[s][l] = billed[s][l] /\ held'[s][l] = held[s][l]
          /\ waived'[s][l] = waived[s][l]
      BY <1>4, <1>5, <1>6, <2>7
    <3>3. Booked(s, l)' = Booked(s, l)  BY <2>2, <2>3, <2>5, <3>1, <3>2
    <3> QED  BY <2>4, <3>2, <3>3 DEF Keeps
  <2> QED  BY <2>6, <2>7
<1> QED  BY <1>7, <1>8, InvKept

\* A count that stays is one that is set to itself, or to which nothing is added.
LEMMA CountStays ==
  ASSUME NEW f \in [Stores -> [Keys -> Int]], NEW s \in Stores, NEW k \in Keys
  PROVE  f = [f EXCEPT ![s][k] = f[s][k]] /\ f = [f EXCEPT ![s][k] = @ + 0]
OBVIOUS

\* What settle and release start from.
LEMMA UnusedType ==
  ASSUME Inv, NEW i \in Ids, res[i] # None
  PROVE  /\ res[i] \in Reservation /\ res[i].store \in Stores /\ res[i].key \in Keys
         /\ res[i].amount \in Nat /\ res[i].cost \in Nat /\ res[i].tries \in Nat
         /\ Unused(i) \in Nat /\ Unused(i) = res[i].amount - res[i].cost
         /\ res[i].cost <= res[i].amount
         /\ held[res[i].store][res[i].key] \in Int
         /\ held = [held EXCEPT ![res[i].store][res[i].key] = held[res[i].store][res[i].key]]
         /\ billed = [billed EXCEPT ![res[i].store][res[i].key] = @ + 0]
         /\ waived = [waived EXCEPT ![res[i].store][res[i].key] = @ + 0]
         /\ res[i].store # Redis => held[res[i].store][res[i].key] \in Nat
<1> DEFINE s == res[i].store
           k == res[i].key
<1>0. TypeOK /\ Shape  BY DEF Inv, TypeInv
<1>1. /\ res[i] \in Reservation /\ s \in Stores /\ k \in Keys
      /\ res[i].amount \in Nat /\ res[i].cost \in Nat /\ res[i].tries \in Nat
      /\ res[i].cost <= res[i].amount
  BY <1>0, ReservationType DEF Shape, Reservation
<1>2. Unused(i) \in Nat /\ Unused(i) = res[i].amount - res[i].cost  BY <1>1 DEF Unused
<1>3. held \in [Stores -> [Keys -> Int]] /\ billed \in [Stores -> [Keys -> Int]]
      /\ waived \in [Stores -> [Keys -> Int]]
  BY <1>0 DEF TypeOK
<1>4. held[s][k] \in Int /\ (s # Redis => held[s][k] \in Nat)
  BY <1>0, <1>1 DEF TypeOK, Stores
<1> HIDE DEF s, k
<1>5. /\ held = [held EXCEPT ![s][k] = held[s][k]]
      /\ billed = [billed EXCEPT ![s][k] = @ + 0] /\ waived = [waived EXCEPT ![s][k] = @ + 0]
  BY <1>1, <1>3, CountStays
<1> QED  BY <1>1, <1>2, <1>4, <1>5 DEF s, k

\* What Return makes of a counter.
LEMMA ReturnType ==
  ASSUME Inv, NEW i \in Ids, res[i] # None, Return(i)
  PROVE  \E n \in Int : /\ held' = [held EXCEPT ![res[i].store][res[i].key] = n]
                        /\ held[res[i].store][res[i].key] - Unused(i) <= n
                        /\ res[i].store # Redis => n \in Nat
<1> DEFINE h == held[res[i].store][res[i].key]
           n == Less(res[i].store, h - Unused(i))
<1>1. held' = [held EXCEPT ![res[i].store][res[i].key] = n]  BY DEF Return
<1>2. h \in Int /\ Unused(i) \in Nat  BY UnusedType
<1> HIDE DEF h
<1>3. n \in Int /\ h - Unused(i) <= n /\ (res[i].store # Redis => n \in Nat)
  BY <1>2 DEF Less, Greatest
<1> HIDE DEF n
<1> QED  BY <1>1, <1>3 DEF h

\* A reservation remains one when it is given back without an answer.
Given(r, n) == [r EXCEPT !.state = "given", !.tries = n]

LEMMA ReservationGiven ==
  ASSUME NEW r \in Reservation, NEW n \in Nat
  PROVE  /\ Given(r, n) \in Reservation /\ Given(r, n).state = "given"
         /\ Given(r, n).at = r.at /\ Given(r, n).store = r.store
         /\ Given(r, n).key = r.key
         /\ Given(r, n).amount = r.amount /\ Given(r, n).cost = r.cost
BY DEF Reservation, Given

LEMMA GiveBackStep ==
  ASSUME Inv, NEW p \in Instances, NEW i \in Ids, GiveBack(p, i) \/ GiveBackUnanswered(p, i)
  PROVE  Inv'
<1> DEFINE e == IF GiveBack(p, i) THEN None ELSE Given(res[i], 1)
<1>1. /\ res[i] # None /\ res[i].state = "popped" /\ Return(i)
      /\ billed' = [billed EXCEPT ![res[i].store][res[i].key] = @ + res[i].cost]
      /\ waived' = waived /\ res' = [res EXCEPT ![i] = e] /\ UNCHANGED <<kind, task>>
  BY DEF GiveBack, GiveBackUnanswered, In, Bill, Given
<1>2. PICK n \in Int : /\ held' = [held EXCEPT ![res[i].store][res[i].key] = n]
                       /\ held[res[i].store][res[i].key] - Unused(i) <= n
                       /\ res[i].store # Redis => n \in Nat
  BY <1>1, ReturnType
<1>3. /\ res[i] \in Reservation /\ res[i].amount \in Nat /\ res[i].cost \in Nat
      /\ res[i].cost <= res[i].amount /\ Unused(i) = res[i].amount - res[i].cost
      /\ waived' = [waived EXCEPT ![res[i].store][res[i].key] = @ + 0]
  BY <1>1, UnusedType
<1>4. Standing(i) = res[i].amount  BY <1>1 DEF Standing
<1>5. e # None => /\ e \in Reservation /\ e.at = res[i].at /\ e.store = res[i].store
                  /\ e.state = "given" /\ e.cost <= e.amount
  <2> DEFINE g == Given(res[i], 1)
  <2>1. e # None => e = g  OBVIOUS
  <2>2. /\ g \in Reservation /\ g.at = res[i].at /\ g.store = res[i].store
        /\ g.amount = res[i].amount /\ g.cost = res[i].cost /\ g.state = "given"
    BY <1>3, ReservationGiven
  <2> HIDE DEF e, g
  <2> QED  BY <1>3, <2>1, <2>2
<1>6. held[res[i].store][res[i].key] - (Standing(i) - res[i].cost) <= n + 0
  BY <1>2, <1>3, <1>4
<1> HIDE DEF e
<1>7. Ending(i, e, res[i].cost, 0, n)  BY <1>1, <1>2, <1>3, <1>4, <1>5, <1>6 DEF Ending
<1> QED  BY <1>2, <1>3, <1>7, EndStep

\* A second execution gives back nothing that stands: all of it is waived.
LEMMA GiveBackAgainStep ==
  ASSUME Inv, NEW p \in Instances, NEW i \in Ids, GiveBackAgain(p, i)
  PROVE  Inv'
<1> DEFINE e == Given(res[i], res[i].tries + 1)
<1>1. /\ res[i] # None /\ res[i].state = "given" /\ Return(i)
      /\ billed' = billed
      /\ waived' = [waived EXCEPT ![res[i].store][res[i].key] = @ + Unused(i)]
      /\ res' = [res EXCEPT ![i].tries = @ + 1] /\ UNCHANGED <<kind, task>>
  BY DEF GiveBackAgain, In
<1>2. PICK n \in Int : /\ held' = [held EXCEPT ![res[i].store][res[i].key] = n]
                       /\ held[res[i].store][res[i].key] - Unused(i) <= n
                       /\ res[i].store # Redis => n \in Nat
  BY <1>1, ReturnType
<1>3. /\ res[i] \in Reservation /\ res[i].amount \in Nat /\ res[i].cost \in Nat
      /\ res[i].cost <= res[i].amount /\ Unused(i) \in Nat /\ res[i].tries \in Nat
      /\ held[res[i].store][res[i].key] \in Int
      /\ billed' = [billed EXCEPT ![res[i].store][res[i].key] = @ + 0]
  BY <1>1, UnusedType
<1>4. Standing(i) = 0  BY <1>1 DEF Standing
<1>5. /\ e \in Reservation /\ e.at = res[i].at /\ e.store = res[i].store
      /\ e.amount = res[i].amount /\ e.cost = res[i].cost /\ e.state = "given"
  <2>1. res[i] \in Reservation /\ res[i].tries + 1 \in Nat  BY <1>3
  <2> QED  BY <2>1, ReservationGiven
<1>res. [res EXCEPT ![i].tries = @ + 1] = [res EXCEPT ![i] = e]
  <2>1. [res[i] EXCEPT !.tries = @ + 1] = e  BY <1>1, <1>3 DEF Reservation, Given
  <2> HIDE DEF e
  <2> QED  BY <2>1
<1>6. held[res[i].store][res[i].key] - (Standing(i) - 0) <= n + Unused(i)
  BY <1>2, <1>3, <1>4
<1> HIDE DEF e
<1>7. Ending(i, e, 0, Unused(i), n)
  <2>1. 0 <= Standing(i)  BY <1>4
  <2> QED  BY <1>1, <1>2, <1>3, <1>5, <1>6, <1>res, <2>1 DEF Ending
<1> QED  BY <1>2, <1>3, <1>7, EndStep

\* Ends that leave the counter alone.
LEMMA QuietEndStep ==
  ASSUME Inv, NEW i \in Ids, res[i] # None, NEW c \in Nat, c <= Standing(i),
         billed' = [billed EXCEPT ![res[i].store][res[i].key] = @ + c],
         res' = [res EXCEPT ![i] = None], UNCHANGED <<kind, held, task, waived>>
  PROVE  Inv'
<1> DEFINE h == held[res[i].store][res[i].key]
<1>1. /\ h \in Int /\ (res[i].store # Redis => h \in Nat)
      /\ held' = [held EXCEPT ![res[i].store][res[i].key] = h]
      /\ waived' = [waived EXCEPT ![res[i].store][res[i].key] = @ + 0]
      /\ res[i].amount \in Nat
  BY UnusedType
<1>2. h - (Standing(i) - c) <= h + 0
  <2>1. Standing(i) \in Nat  BY <1>1 DEF Standing
  <2> HIDE DEF h
  <2> QED  BY <1>1, <2>1
<1>3. Ending(i, None, c, 0, h)  BY <1>1, <1>2 DEF Ending
<1> QED  BY <1>1, <1>3, EndStep

LEMMA GiveBackEndsStep ==
  ASSUME Inv, NEW p \in Instances, NEW i \in Ids, GiveBackEnds(p, i)
  PROVE  Inv'
<1>1. /\ res[i] # None /\ res' = [res EXCEPT ![i] = None] /\ billed' = billed
      /\ UNCHANGED <<kind, held, task, waived>>
  BY DEF GiveBackEnds, In
<1>2. /\ billed' = [billed EXCEPT ![res[i].store][res[i].key] = @ + 0]
      /\ res[i].amount \in Nat
  BY <1>1, UnusedType
<1>3. 0 <= Standing(i)  BY <1>2 DEF Standing
<1> QED  BY <1>1, <1>2, <1>3, QuietEndStep

LEMMA GiveBackFailsStep ==
  ASSUME Inv, NEW p \in Instances, NEW i \in Ids, GiveBackFails(p, i)
  PROVE  Inv'
<1>1. /\ res[i] # None /\ res[i].state = "popped" /\ res' = [res EXCEPT ![i] = None]
      /\ billed' = [billed EXCEPT ![res[i].store][res[i].key] = @ + res[i].cost]
      /\ UNCHANGED <<kind, held, task, waived>>
  BY DEF GiveBackFails, In, Bill
<1>2. res[i].cost \in Nat /\ res[i].cost <= Standing(i)  BY <1>1, UnusedType DEF Standing
<1> QED  BY <1>1, <1>2, QuietEndStep

LEMMA EndEscapedStep ==
  ASSUME Inv, NEW i \in Ids, NEW c \in Costs, EndEscaped(i, c)
  PROVE  Inv'
<1> DEFINE n == Least(c, res[i].amount)
<1>1. /\ res[i] # None /\ res[i].state = "escaped" /\ res' = [res EXCEPT ![i] = None]
      /\ billed' = [billed EXCEPT ![res[i].store][res[i].key] = @ + n]
      /\ UNCHANGED <<kind, held, task, waived>>
  BY DEF EndEscaped, Bill
<1>2. res[i].amount \in Nat /\ c \in Nat  BY <1>1, UnusedType, DemoAssumption
<1>3. n \in Nat /\ n <= res[i].amount  BY <1>2 DEF Least
<1>4. Standing(i) = res[i].amount  BY <1>1 DEF Standing
<1> HIDE DEF n
<1> QED  BY <1>1, <1>3, <1>4, QuietEndStep

-------------------------------------------------------------------------------
(* Safety: resets *)

\* What a reset does, to its own progress and to counts.
LEMMA ResetType ==
  ASSUME TypeInv, NEW q \in Resets, NEW t \in Task, t.step \in {"next", "again"} => t.own = 0,
         task' = [task EXCEPT ![q] = t],
         held' \in [Stores -> [Keys -> Int]],
         \A o \in Instances : held'[o] \in [Keys -> Nat],
         billed' \in [Stores -> [Keys -> Nat]], waived' \in [Stores -> [Keys -> Nat]],
         UNCHANGED <<kind, res>>
  PROVE  TypeInv'
<1>0. TypeOK /\ Shape  BY DEF TypeInv
<1>1. task' \in [Resets -> Task \cup {None}]  BY <1>0 DEF TypeOK
<1>2. \A j \in Resets : task'[j] = IF j = q THEN t ELSE task[j]  BY <1>0 DEF TypeOK
<1>3. TypeOK'  BY <1>0, <1>1 DEF TypeOK, StoreOf
<1>4. Shape'  BY <1>0, <1>2 DEF Shape, At
<1> QED  BY <1>3, <1>4 DEF TypeInv

LEMMA ResetBooked ==
  ASSUME TypeOK, TypeOK', NEW q \in Resets, \A j \in Resets \ {q} : task'[j] = task[j],
         res' = res, NEW s \in Stores, NEW k \in Keys
  PROVE  Booked(s, k)' = billed'[s][k] + Holds(s, k) + Out(s, k)
                           - Load(task[q], s, k) + Load(task'[q], s, k)
<1>1. Out(s, k)' = Out(s, k) - Load(task[q], s, k) + Load(task'[q], s, k)
  BY OutUpdate
<1>2. Holds(s, k)' = Holds(s, k)
  <2>1. \A i \in Ids : Weight(res'[i], s, k) = Weight(res[i], s, k)  OBVIOUS
  <2> QED  BY <2>1, HoldsSame
<1>3. Booked(s, k)' = billed'[s][k] + Holds(s, k)' + Out(s, k)'  BY DEF Booked, Holds, Out
<1>4. Load(task[q], s, k) \in Nat  BY LoadType DEF TypeOK
<1>5. task'[q] \in Task \cup {None}  BY DEF TypeOK
<1>6. Load(task'[q], s, k) \in Nat  BY <1>5, LoadType
<1>7. billed'[s][k] \in Nat  BY DEF TypeOK
<1>8. Holds(s, k) \in Nat /\ Out(s, k) \in Nat  BY TotalsType
<1> QED  BY <1>1, <1>2, <1>3, <1>4, <1>6, <1>7, <1>8

LEMMA BeyondType ==
  ASSUME NEW n \in Int, NEW m \in Nat
  PROVE  Beyond(n, m) \in Nat /\ n - m <= Beyond(n, m)
BY DEF Beyond, Greatest

\* A reset that moves on without touching a count: it has nothing in hand before
\* or after.
LEMMA IdleResetStep ==
  ASSUME Inv, NEW q \in Resets, task[q] = None \/ task[q].own = 0,
         NEW t \in Task, t.own = 0, task' = [task EXCEPT ![q] = t],
         UNCHANGED <<kind, held, res, billed, waived>>
  PROVE  Inv'
<1>0. TypeInv /\ TypeOK  BY DEF Inv, TypeInv
<1>1. TypeInv'
  <2>1. /\ held' \in [Stores -> [Keys -> Int]]
        /\ \A o \in Instances : held'[o] \in [Keys -> Nat]
        /\ billed' \in [Stores -> [Keys -> Nat]] /\ waived' \in [Stores -> [Keys -> Nat]]
    BY <1>0 DEF TypeOK
  <2> QED  BY <1>0, <2>1, ResetType
<1>2. ASSUME NEW s \in Stores, NEW k \in Keys  PROVE  Keeps(s, k)
  <2>1. task'[q] = t /\ \A j \in Resets \ {q} : task'[j] = task[j]  BY <1>0 DEF TypeOK
  <2>2. Load(task[q], s, k) = 0 /\ Load(task'[q], s, k) = 0  BY <2>1 DEF Load
  <2>3. Booked(s, k)' = billed'[s][k] + Holds(s, k) + Out(s, k)
                          - Load(task[q], s, k) + Load(task'[q], s, k)
    BY <1>0, <1>1, <2>1, ResetBooked DEF TypeInv
  <2>4. Booked(s, k)' = Booked(s, k)  BY <1>0, <2>2, <2>3, TotalsType
  <2> QED  BY <2>4, InvHere DEF Keeps
<1> QED  BY <1>1, <1>2, InvKept

LEMMA ResetRedisStep ==
  ASSUME Inv, NEW p \in Instances, NEW q \in Resets, ResetRedis(p, q)
  PROVE  Inv'
<1>1. /\ task[q] = None /\ task' = [task EXCEPT ![q] = Begun(p, Keys)]
      /\ UNCHANGED <<kind, held, res, billed, waived>>
  BY DEF ResetRedis
<1>2. Begun(p, Keys) \in Task /\ Begun(p, Keys).own = 0  BY BegunType
<1> QED  BY <1>1, <1>2, IdleResetStep

LEMMA ResetMemoryStep ==
  ASSUME Inv, NEW p \in Instances, NEW q \in Resets, ResetMemory(p, q)
  PROVE  Inv'
<1> DEFINE t == Begun(p, {})
<1>0. TypeInv /\ TypeOK  BY DEF Inv, TypeInv
<1>1. /\ task[q] = None /\ task' = [task EXCEPT ![q] = t]
      /\ held' = [held EXCEPT ![p] = [k \in Keys |-> 0]]
      /\ billed' = [billed EXCEPT ![p] = [k \in Keys |-> 0]]
      /\ waived' = [waived EXCEPT ![p] = [k \in Keys |-> @[k] + Beyond(held[p][k], billed[p][k])]]
      /\ UNCHANGED <<kind, res>>
  BY DEF ResetMemory
<1>2. t \in Task /\ t.own = 0
  <2>1. {} \in SUBSET Keys  OBVIOUS
  <2> QED  BY <2>1, BegunType
<1>3. p \in Stores /\ p # Redis /\ Instances \subseteq Stores  BY DemoAssumption DEF Stores
<1>4. \A k \in Keys : /\ held[p][k] \in Int /\ billed[p][k] \in Nat /\ waived[p][k] \in Nat
                      /\ Beyond(held[p][k], billed[p][k]) \in Nat
                      /\ held[p][k] - billed[p][k] <= Beyond(held[p][k], billed[p][k])
  BY <1>0, <1>3, BeyondType DEF TypeOK
<1>5. [k \in Keys |-> 0] \in [Keys -> Nat] /\ [k \in Keys |-> 0] \in [Keys -> Int]  OBVIOUS
<1>6. /\ held' \in [Stores -> [Keys -> Int]]
      /\ \A o \in Instances : held'[o] \in [Keys -> Nat]
      /\ billed' \in [Stores -> [Keys -> Nat]]
  BY <1>0, <1>1, <1>3, <1>5 DEF TypeOK
<1>7. waived' \in [Stores -> [Keys -> Nat]]
  <2>1. [k \in Keys |-> waived[p][k] + Beyond(held[p][k], billed[p][k])] \in [Keys -> Nat]
    BY <1>4
  <2>2. waived' = [waived EXCEPT ![p] =
                     [k \in Keys |-> waived[p][k] + Beyond(held[p][k], billed[p][k])]]
    BY <1>1
  <2> QED  BY <1>0, <2>1, <2>2 DEF TypeOK
<1>8. TypeInv'
  <2> HIDE DEF t
  <2> QED  BY <1>0, <1>1, <1>2, <1>6, <1>7, ResetType
<1>9. ASSUME NEW s \in Stores, NEW k \in Keys  PROVE  Keeps(s, k)
  <2>1. task'[q] = t /\ \A j \in Resets \ {q} : task'[j] = task[j]  BY <1>0, <1>1 DEF TypeOK
  <2>2. Load(task[q], s, k) = 0 /\ Load(task'[q], s, k) = 0  BY <1>1, <1>2, <2>1 DEF Load
  <2>3. Booked(s, k)' = billed'[s][k] + Holds(s, k) + Out(s, k)
                          - Load(task[q], s, k) + Load(task'[q], s, k)
    BY <1>0, <1>1, <1>8, <2>1, ResetBooked DEF TypeInv
  <2>4. Booked(s, k) <= held[s][k] + waived[s][k] /\ Booked(s, k) <= Ceiling[k] + waived[s][k]
    BY InvHere
  <2>5. /\ billed[s][k] \in Nat /\ Holds(s, k) \in Nat /\ Out(s, k) \in Nat
        /\ held[s][k] \in Int /\ waived[s][k] \in Nat /\ Ceiling[k] \in Nat
        /\ Booked(s, k) = billed[s][k] + Holds(s, k) + Out(s, k)
    BY <1>0, TotalsType
  <2>6. CASE s = p
    <3> DEFINE y == Beyond(held[p][k], billed[p][k])
    <3>1. held'[s][k] = 0 /\ billed'[s][k] = 0  BY <1>0, <1>1, <2>6 DEF TypeOK
    <3>2. waived'[s][k] = waived[s][k] + y  BY <1>0, <1>1, <2>6 DEF TypeOK
    <3>3. y \in Nat /\ held[s][k] - billed[s][k] <= y  BY <1>4, <2>6
    <3>4. Booked(s, k)' = Holds(s, k) + Out(s, k)  BY <2>2, <2>3, <2>5, <3>1
    <3> HIDE DEF y
    <3> QED  BY <2>4, <2>5, <3>1, <3>2, <3>3, <3>4 DEF Keeps
  <2>7. CASE s # p
    <3>1. /\ held'[s][k] = held[s][k] /\ billed'[s][k] = billed[s][k]
          /\ waived'[s][k] = waived[s][k]
      BY <1>0, <1>1, <2>7 DEF TypeOK
    <3>2. Booked(s, k)' = Booked(s, k)  BY <2>2, <2>3, <2>5, <3>1
    <3> QED  BY <2>4, <3>1, <3>2 DEF Keeps
  <2> QED  BY <2>6, <2>7
<1> QED  BY <1>8, <1>9, InvKept

LEMMA ResetSkipStep ==
  ASSUME Inv, NEW q \in Resets, NEW k \in Keys, ResetSkip(q, k)
  PROVE  Inv'
<1> DEFINE t == [task[q] EXCEPT !.todo = @ \ {k}]
<1>1. task[q] # None /\ At(q, "next") /\ task' = [task EXCEPT ![q] = t]
      /\ UNCHANGED <<kind, held, res, billed, waived>>
  BY DEF ResetSkip, At
<1>2. task[q] \in Task /\ task[q].own = 0
  BY <1>1, TaskType DEF Inv, TypeInv, Shape
<1>3. t \in Task /\ t.own = 0  BY <1>2 DEF Task
<1> HIDE DEF t
<1> QED  BY <1>1, <1>2, <1>3, IdleResetStep

LEMMA ResetReadStep ==
  ASSUME Inv, NEW q \in Resets, NEW k \in Keys, ResetRead(q, k)
  PROVE  Inv'
<1> DEFINE n == held[Redis][k]
           b == billed[Redis][k]
           t == [task[q] EXCEPT !.step = "release", !.todo = @ \ {k}, !.key = k,
                                !.read = n, !.own = b]
<1>0. TypeInv /\ TypeOK /\ Shape  BY DEF Inv, TypeInv
<1>1. /\ At(q, "next") /\ task' = [task EXCEPT ![q] = t]
      /\ billed' = [billed EXCEPT ![Redis][k] = 0]
      /\ UNCHANGED <<kind, held, res, waived>>
  BY DEF ResetRead
<1>2. task[q] \in Task /\ task[q].own = 0
  BY <1>0, <1>1, TaskType DEF At, Shape
<1>3. Redis \in Stores  BY DEF Stores
<1>4. n \in Int /\ b \in Nat  BY <1>0, <1>3 DEF TypeOK
<1>5. t \in Task /\ t.step = "release" /\ t.key = k /\ t.own = b
  <2> HIDE DEF n, b
  <2> QED  BY <1>2, <1>4 DEF Task
<1>6. /\ billed' \in [Stores -> [Keys -> Nat]]
      /\ \A s \in Stores, l \in Keys :
           billed'[s][l] = IF s = Redis /\ l = k THEN 0 ELSE billed[s][l]
  <2>1. billed \in [Stores -> [Keys -> Nat]]  BY <1>0 DEF TypeOK
  <2> QED  BY <1>1, <1>3, <2>1, CountType
<1>7. TypeInv'
  <2>1. /\ held' \in [Stores -> [Keys -> Int]]
        /\ \A o \in Instances : held'[o] \in [Keys -> Nat]
        /\ waived' \in [Stores -> [Keys -> Nat]]
    BY <1>0, <1>1 DEF TypeOK
  <2> HIDE DEF t
  <2> QED  BY <1>0, <1>1, <1>5, <1>6, <2>1, ResetType
<1>8. ASSUME NEW s \in Stores, NEW l \in Keys  PROVE  Keeps(s, l)
  <2>1. task'[q] = t /\ \A j \in Resets \ {q} : task'[j] = task[j]  BY <1>0, <1>1 DEF TypeOK
  <2>2. Load(task[q], s, l) = 0  BY <1>2 DEF Load
  <2>3. Load(task'[q], s, l) = IF s = Redis /\ l = k THEN b ELSE 0
    BY <1>5, <2>1, DemoAssumption DEF Load
  <2>4. Booked(s, l)' = billed'[s][l] + Holds(s, l) + Out(s, l)
                          - Load(task[q], s, l) + Load(task'[q], s, l)
    BY <1>0, <1>1, <1>7, <2>1, ResetBooked DEF TypeInv
  <2>5. Booked(s, l)' = Booked(s, l)
    <3>1. CASE s = Redis /\ l = k
      <4>1. billed'[s][l] = 0 /\ Load(task'[q], s, l) = billed[s][l]  BY <1>6, <2>3, <3>1
      <4> QED  BY <1>0, <2>2, <2>4, <4>1, TotalsType
    <3>2. CASE ~(s = Redis /\ l = k)
      <4>1. billed'[s][l] = billed[s][l] /\ Load(task'[q], s, l) = 0  BY <1>6, <2>3, <3>2
      <4> QED  BY <1>0, <2>2, <2>4, <4>1, TotalsType
    <3> QED  BY <3>1, <3>2
  <2> QED  BY <1>1, <2>5, InvHere DEF Keeps
<1> QED  BY <1>7, <1>8, InvKept

\* After a release, executed or not, a reset has nothing in hand.
LEMMA TaskGoesOn ==
  ASSUME NEW t \in Task,
         NEW e, e = [t EXCEPT !.step = "next", !.read = 0, !.own = 0, !.tries = 0]
  PROVE  e \in Task /\ e.key = t.key /\ e.own = 0 /\ e.step = "next"
<1>1. /\ t.at \in Instances /\ t.todo \in SUBSET Keys /\ t.key \in Keys
      /\ t = [at |-> t.at, step |-> t.step, todo |-> t.todo, key |-> t.key,
              read |-> t.read, own |-> t.own, tries |-> t.tries]
  BY DEF Task
<1>2. e = [at |-> t.at, step |-> "next", todo |-> t.todo, key |-> t.key,
           read |-> 0, own |-> 0, tries |-> 0]
  BY <1>1
<1> QED  BY <1>1, <1>2 DEF Task

\* A release that was executed n times has no bills behind it any more.
Sent(t, n) == [t EXCEPT !.step = "again", !.own = 0, !.tries = n]

LEMMA TaskSent ==
  ASSUME NEW t \in Task, NEW n \in Nat
  PROVE  /\ Sent(t, n) \in Task /\ Sent(t, n).step = "again"
         /\ Sent(t, n).own = 0 /\ Sent(t, n).tries = n
<1>1. /\ t.at \in Instances /\ t.todo \in SUBSET Keys /\ t.key \in Keys /\ t.read \in Int
      /\ t = [at |-> t.at, step |-> t.step, todo |-> t.todo, key |-> t.key,
              read |-> t.read, own |-> t.own, tries |-> t.tries]
  BY DEF Task
<1> DEFINE e == Sent(t, n)
<1>2. e = [t EXCEPT !.step = "again", !.own = 0, !.tries = n]  BY DEF Sent
<1> HIDE DEF e
<1>3. e = [at |-> t.at, step |-> "again", todo |-> t.todo, key |-> t.key,
           read |-> t.read, own |-> 0, tries |-> n]
  BY <1>1, <1>2
<1>4. e \in Task /\ e.step = "again" /\ e.own = 0 /\ e.tries = n  BY <1>1, <1>3 DEF Task
<1> QED  BY <1>4 DEF e

\* Redis executes the release of q, which has nothing in hand after it.
Executes(q, t) ==
  /\ task[q] # None
  /\ held' = [held EXCEPT ![Redis][task[q].key] = @ - task[q].read]
  /\ waived' = [waived EXCEPT ![Redis][task[q].key] = @ + Beyond(task[q].read, task[q].own)]
  /\ task' = [task EXCEPT ![q] = t]
  /\ UNCHANGED <<kind, res, billed>>

LEMMA ExecutesStep ==
  ASSUME Inv, NEW q \in Resets, NEW t \in Task, t.own = 0, Executes(q, t)
  PROVE  Inv'
<1> DEFINE k == task[q].key
           o == task[q].own
           n == task[q].read
           h == held[Redis][k] - n
           y == Beyond(n, o)
           w == waived[Redis][k] + y
<1>0. TypeInv /\ TypeOK  BY DEF Inv, TypeInv
<1>1. /\ task[q] # None /\ task' = [task EXCEPT ![q] = t]
      /\ held' = [held EXCEPT ![Redis][k] = h] /\ waived' = [waived EXCEPT ![Redis][k] = w]
      /\ UNCHANGED <<kind, res, billed>>
  BY DEF Executes
<1>2. task[q] # None /\ task[q] \in Task /\ k \in Keys /\ n \in Int /\ o \in Nat
  BY <1>0, <1>1, TaskType
<1>3. Redis \in Stores  BY DEF Stores
<1>4. h \in Int /\ w \in Nat /\ y \in Nat /\ n - o <= y
  <2>1. y \in Nat /\ n - o <= y  BY <1>2, BeyondType
  <2>2. held[Redis][k] \in Int /\ waived[Redis][k] \in Nat  BY <1>0, <1>2, <1>3 DEF TypeOK
  <2> HIDE DEF y
  <2> QED  BY <1>2, <2>1, <2>2
<1>5. t \in Task /\ t.own = 0  OBVIOUS
<1>6. /\ held' \in [Stores -> [Keys -> Int]]
      /\ \A p \in Instances : held'[p] \in [Keys -> Nat]
      /\ \A s \in Stores, l \in Keys :
           held'[s][l] = IF s = Redis /\ l = k THEN h ELSE held[s][l]
  <2> HIDE DEF h, k
  <2> QED  BY <1>0, <1>1, <1>2, <1>3, <1>4, HeldType
<1>7. /\ waived' \in [Stores -> [Keys -> Nat]]
      /\ \A s \in Stores, l \in Keys :
           waived'[s][l] = IF s = Redis /\ l = k THEN w ELSE waived[s][l]
  <2>1. waived \in [Stores -> [Keys -> Nat]]  BY <1>0 DEF TypeOK
  <2> HIDE DEF w, k
  <2> QED  BY <1>1, <1>2, <1>3, <1>4, <2>1, CountType
<1>8. TypeInv'
  <2>1. billed' \in [Stores -> [Keys -> Nat]]  BY <1>0, <1>1 DEF TypeOK
  <2> QED  BY <1>0, <1>1, <1>5, <1>6, <1>7, <2>1, ResetType
<1>9. ASSUME NEW s \in Stores, NEW l \in Keys  PROVE  Keeps(s, l)
  <2>1. task'[q] = t /\ \A j \in Resets \ {q} : task'[j] = task[j]  BY <1>0, <1>1 DEF TypeOK
  <2>2. Load(task[q], s, l) = IF s = Redis /\ l = k THEN o ELSE 0  BY <1>2 DEF Load
  <2>3. Load(task'[q], s, l) = 0  BY <1>5, <2>1 DEF Load
  <2>4. Booked(s, l)' = billed'[s][l] + Holds(s, l) + Out(s, l)
                          - Load(task[q], s, l) + Load(task'[q], s, l)
    BY <1>0, <1>1, <1>8, <2>1, ResetBooked DEF TypeInv
  <2>5. Booked(s, l) <= held[s][l] + waived[s][l] /\ Booked(s, l) <= Ceiling[l] + waived[s][l]
    BY InvHere
  <2>6. /\ billed[s][l] \in Nat /\ Holds(s, l) \in Nat /\ Out(s, l) \in Nat
        /\ held[s][l] \in Int /\ waived[s][l] \in Nat /\ Ceiling[l] \in Nat
        /\ Booked(s, l) = billed[s][l] + Holds(s, l) + Out(s, l)
    BY <1>0, TotalsType
  <2>7. billed'[s][l] = billed[s][l]  BY <1>1
  <2>8. CASE s = Redis /\ l = k
    <3>1. held'[s][l] = held[s][l] - n  BY <1>6, <2>8
    <3>2. waived'[s][l] = waived[s][l] + y  BY <1>7, <2>8
    <3>3. Load(task[q], s, l) = o  BY <2>2, <2>8
    <3> HIDE DEF n, o, y
    <3>4. Booked(s, l)' = Booked(s, l) - o  BY <1>2, <2>3, <2>4, <2>6, <2>7, <3>3
    <3> QED  BY <1>2, <1>4, <2>5, <2>6, <3>1, <3>2, <3>4 DEF Keeps
  <2>9. CASE ~(s = Redis /\ l = k)
    <3>1. held'[s][l] = held[s][l] /\ waived'[s][l] = waived[s][l]  BY <1>6, <1>7, <2>9
    <3>2. Load(task[q], s, l) = 0  BY <2>2, <2>9
    <3>3. Booked(s, l)' = Booked(s, l)  BY <2>3, <2>4, <2>6, <2>7, <3>2
    <3> QED  BY <2>5, <3>1, <3>3 DEF Keeps
  <2> QED  BY <2>8, <2>9
<1> QED  BY <1>8, <1>9, InvKept

LEMMA TaskAgain ==
  ASSUME NEW t \in Task, t.step = "again", t.own = 0
  PROVE  [t EXCEPT !.tries = @ + 1] = Sent(t, t.tries + 1)
<1> DEFINE a == [t EXCEPT !.tries = t.tries + 1]
           e == Sent(t, t.tries + 1)
<1>1. t = [at |-> t.at, step |-> "again", todo |-> t.todo, key |-> t.key,
           read |-> t.read, own |-> 0, tries |-> t.tries]
  BY DEF Task
<1>2. e = [t EXCEPT !.step = "again", !.own = 0, !.tries = t.tries + 1]  BY DEF Sent
<1>3. a = [t EXCEPT !.tries = t.tries + 1]  OBVIOUS
<1> HIDE DEF a, e
<1>4. a = [at |-> t.at, step |-> "again", todo |-> t.todo, key |-> t.key,
           read |-> t.read, own |-> 0, tries |-> t.tries + 1]
  BY <1>1, <1>3
<1>5. e = [at |-> t.at, step |-> "again", todo |-> t.todo, key |-> t.key,
           read |-> t.read, own |-> 0, tries |-> t.tries + 1]
  BY <1>1, <1>2
<1> QED  BY <1>4, <1>5 DEF a, e

LEMMA ResetReleaseStep ==
  ASSUME Inv, NEW q \in Resets, ResetRelease(q)
  PROVE  Inv'
<1> DEFINE t == [task[q] EXCEPT !.step = "next", !.read = 0, !.own = 0, !.tries = 0]
<1>1. task[q] # None /\ Executes(q, t)  BY DEF ResetRelease, Released, At, Executes
<1>2. task[q] \in Task  BY <1>1, TaskType DEF Inv, TypeInv
<1>3. t \in Task /\ t.own = 0  BY <1>2, TaskGoesOn
<1> HIDE DEF t
<1> QED  BY <1>1, <1>3, ExecutesStep

LEMMA ResetUnansweredStep ==
  ASSUME Inv, NEW q \in Resets, ResetUnanswered(q)
  PROVE  Inv'
<1> DEFINE t == Sent(task[q], 1)
<1>1. task[q] # None /\ Executes(q, t)  BY DEF ResetUnanswered, At, Executes, Sent
<1>2. task[q] \in Task /\ 1 \in Nat  BY <1>1, TaskType DEF Inv, TypeInv
<1>3. t \in Task /\ t.own = 0  BY <1>2, TaskSent
<1> HIDE DEF t
<1> QED  BY <1>1, <1>3, ExecutesStep

\* A reset whose release is executed again has no bills in hand, and so waives all
\* that it takes.
LEMMA ResetAgainStep ==
  ASSUME Inv, NEW q \in Resets, ResetAgain(q)
  PROVE  Inv'
<1> DEFINE t == Sent(task[q], task[q].tries + 1)
<1>1. task[q] # None /\ task[q].step = "again"  BY DEF ResetAgain, At
<1>2. task[q] \in Task /\ task[q].own = 0 /\ task[q].tries + 1 \in Nat
  BY <1>1, TaskType DEF Inv, TypeInv, Shape, At
<1>3. t \in Task /\ t.own = 0  BY <1>2, TaskSent
<1>4. Executes(q, t)
  <2>1. [task[q] EXCEPT !.tries = @ + 1] = t
    BY <1>1, <1>2, TaskAgain
  <2> HIDE DEF t
  <2>2. task' = [task EXCEPT ![q] = t]  BY <2>1 DEF ResetAgain
  <2> QED  BY <1>1, <1>2, <2>2 DEF ResetAgain, Executes
<1> HIDE DEF t
<1> QED  BY <1>3, <1>4, ExecutesStep

LEMMA ResetAnsweredStep ==
  ASSUME Inv, NEW q \in Resets, ResetAnswered(q)
  PROVE  Inv'
<1> DEFINE t == [task[q] EXCEPT !.step = "next", !.read = 0, !.own = 0, !.tries = 0]
<1>1. /\ task[q] # None /\ task[q].step = "again" /\ task' = [task EXCEPT ![q] = t]
      /\ UNCHANGED <<kind, held, res, billed, waived>>
  BY DEF ResetAnswered, Released, At
<1>2. task[q] \in Task /\ task[q].own = 0
  BY <1>1, TaskType DEF Inv, TypeInv, Shape, At
<1>3. t \in Task /\ t.own = 0  BY <1>2, TaskGoesOn
<1> HIDE DEF t
<1> QED  BY <1>1, <1>2, <1>3, IdleResetStep

LEMMA ResetFailsStep ==
  ASSUME Inv, NEW q \in Resets, ResetFails(q)
  PROVE  Inv'
<1> DEFINE k == task[q].key
           o == task[q].own
           b == billed[Redis][k] + o
           t == [task[q] EXCEPT !.step = "next", !.read = 0, !.own = 0, !.tries = 0]
<1>0. TypeInv /\ TypeOK  BY DEF Inv, TypeInv
<1>1. /\ At(q, "release") /\ task' = [task EXCEPT ![q] = t]
      /\ billed' = [billed EXCEPT ![Redis][k] = b]
      /\ UNCHANGED <<kind, held, res, waived>>
  BY DEF ResetFails, Released
<1>2. task[q] # None /\ task[q] \in Task /\ k \in Keys /\ o \in Nat
  BY <1>0, <1>1, TaskType DEF At
<1>3. Redis \in Stores  BY DEF Stores
<1>4. b \in Nat
  <2>1. billed[Redis][k] \in Nat  BY <1>0, <1>2, <1>3 DEF TypeOK
  <2> QED  BY <1>2, <2>1
<1>5. t \in Task /\ t.own = 0  BY <1>2, TaskGoesOn
<1>6. /\ billed' \in [Stores -> [Keys -> Nat]]
      /\ \A s \in Stores, l \in Keys :
           billed'[s][l] = IF s = Redis /\ l = k THEN b ELSE billed[s][l]
  <2>1. billed \in [Stores -> [Keys -> Nat]]  BY <1>0 DEF TypeOK
  <2> HIDE DEF b, k
  <2> QED  BY <1>1, <1>2, <1>3, <1>4, <2>1, CountType
<1>7. TypeInv'
  <2>1. /\ held' \in [Stores -> [Keys -> Int]]
        /\ \A p \in Instances : held'[p] \in [Keys -> Nat]
        /\ waived' \in [Stores -> [Keys -> Nat]]
    BY <1>0, <1>1 DEF TypeOK
  <2> HIDE DEF t
  <2> QED  BY <1>0, <1>1, <1>5, <1>6, <2>1, ResetType
<1>8. ASSUME NEW s \in Stores, NEW l \in Keys  PROVE  Keeps(s, l)
  <2>1. task'[q] = t /\ \A j \in Resets \ {q} : task'[j] = task[j]  BY <1>0, <1>1 DEF TypeOK
  <2>2. Load(task[q], s, l) = IF s = Redis /\ l = k THEN o ELSE 0  BY <1>2 DEF Load
  <2>3. Load(task'[q], s, l) = 0  BY <1>5, <2>1 DEF Load
  <2>4. Booked(s, l)' = billed'[s][l] + Holds(s, l) + Out(s, l)
                          - Load(task[q], s, l) + Load(task'[q], s, l)
    BY <1>0, <1>1, <1>7, <2>1, ResetBooked DEF TypeInv
  <2>5. Booked(s, l)' = Booked(s, l)
    <3>1. CASE s = Redis /\ l = k
      <4>1. billed'[s][l] = billed[s][l] + o /\ Load(task[q], s, l) = o  BY <1>6, <2>2, <3>1
      <4> HIDE DEF o
      <4> QED  BY <1>0, <1>2, <2>3, <2>4, <4>1, TotalsType
    <3>2. CASE ~(s = Redis /\ l = k)
      <4>1. billed'[s][l] = billed[s][l] /\ Load(task[q], s, l) = 0  BY <1>6, <2>2, <3>2
      <4> QED  BY <1>0, <2>3, <2>4, <4>1, TotalsType
    <3> QED  BY <3>1, <3>2
  <2> QED  BY <1>1, <2>5, InvHere DEF Keeps
<1> QED  BY <1>7, <1>8, InvKept

LEMMA ResetOpenStep ==
  ASSUME Inv, NEW q \in Resets, ResetOpen(q)
  PROVE  Inv'
<1> DEFINE p == task[q].at
           t == [task[q] EXCEPT !.step = "done"]
           Out1(i) == i \in In(p, "open")
<1>0. TypeInv /\ TypeOK /\ Shape  BY DEF Inv, TypeInv
<1>1. /\ At(q, "next") /\ task' = [task EXCEPT ![q] = t]
      /\ res' = [i \in Ids |-> IF Out1(i) THEN [res[i] EXCEPT !.state = "escaped"] ELSE res[i]]
      /\ UNCHANGED <<kind, held, billed, waived>>
  BY DEF ResetOpen
<1>2. task[q] # None /\ task[q] \in Task /\ task[q].own = 0
  BY <1>0, <1>1, TaskType DEF At, Shape
<1>3. t \in Task /\ t.step = "done" /\ t.own = 0
  <2>1. /\ t.at = task[q].at /\ t.todo = task[q].todo /\ t.key = task[q].key
        /\ t.read = task[q].read /\ t.own = task[q].own /\ t.step = "done"
        /\ t = [at |-> task[q].at, step |-> "done", todo |-> task[q].todo,
                key |-> task[q].key, read |-> task[q].read, own |-> task[q].own,
                tries |-> task[q].tries]
    BY <1>2 DEF Task
  <2>2. /\ task[q].at \in Instances /\ task[q].todo \in SUBSET Keys /\ task[q].key \in Keys
        /\ task[q].read \in Int /\ task[q].own \in Nat /\ task[q].tries \in Nat
    BY <1>2 DEF Task
  <2> HIDE DEF t
  <2> QED  BY <1>2, <2>1, <2>2 DEF Task
<1> HIDE DEF t
<1>4. ASSUME NEW i \in Ids
      PROVE  /\ res[i] = None => res'[i] = None
             /\ res[i] # None =>
                  /\ res'[i] \in Reservation /\ res'[i] # None
                  /\ res'[i].at = res[i].at /\ res'[i].store = res[i].store
                  /\ res'[i].key = res[i].key /\ res'[i].amount = res[i].amount
                  /\ res'[i].cost = res[i].cost
                  /\ res'[i].state = "given" <=> res[i].state = "given"
                  /\ res'[i].state # "escaped" => res[i].state # "escaped"
  <2>1. res'[i] = IF Out1(i) THEN [res[i] EXCEPT !.state = "escaped"] ELSE res[i]
    BY <1>1
  <2>2. CASE res[i] = None
    <3>1. ~Out1(i)  BY <2>2 DEF In
    <3> QED  BY <2>1, <2>2, <3>1
  <2>3. CASE res[i] # None
    <3>1. res[i] \in Reservation  BY <1>0, <2>3, ReservationType
    <3>2. CASE Out1(i)
      <4>1. res'[i] = [res[i] EXCEPT !.state = "escaped"]  BY <2>1, <3>2
      <4>2. /\ res'[i] \in Reservation
            /\ res'[i].at = res[i].at /\ res'[i].store = res[i].store
            /\ res'[i].key = res[i].key /\ res'[i].amount = res[i].amount
            /\ res'[i].cost = res[i].cost /\ res'[i].state = "escaped"
        BY <3>1, <4>1, ReservationMoves
      <4>3. res'[i] # None  BY <4>2, DemoAssumption
      <4>4. res[i].state = "open"  BY <3>2 DEF In
      <4> QED  BY <2>3, <4>2, <4>3, <4>4
    <3>3. CASE ~Out1(i)
      <4>1. res'[i] = res[i]  BY <2>1, <3>3
      <4> QED  BY <2>3, <3>1, <4>1
    <3> QED  BY <3>2, <3>3
  <2> QED  BY <2>2, <2>3
<1> HIDE DEF Out1
<1>5. res' \in [Ids -> Reservation \cup {None}]
  <2>1. \A i \in Ids : res'[i] \in Reservation \cup {None}  BY <1>4
  <2>2. res' = [i \in Ids |-> res'[i]]  BY <1>1
  <2> QED  BY <2>1, <2>2
<1>6. task' \in [Resets -> Task \cup {None}] /\ task'[q] = t
      /\ \A j \in Resets \ {q} : task'[j] = task[j]
  BY <1>0, <1>1, <1>3 DEF TypeOK
<1>7. TypeInv'
  <2>1. \A i \in Ids : res'[i] # None /\ res'[i].state # "escaped" =>
          kind[res'[i].at] # "off" /\ res'[i].store = StoreOf(res'[i].at)
    BY <1>0, <1>4 DEF TypeOK
  <2>2. TypeOK'  BY <1>0, <1>1, <1>5, <1>6, <2>1 DEF TypeOK, StoreOf
  <2>3. \A i \in Ids : res'[i] # None =>
          res'[i].cost <= res'[i].amount /\ res'[i].store \in {Redis, res'[i].at}
    BY <1>0, <1>4 DEF Shape
  <2>4. \A j \in Resets : At(j, "next")' \/ At(j, "again")' => task'[j].own = 0
    BY <1>0, <1>3, <1>6 DEF Shape, At
  <2>5. Shape'  BY <2>3, <2>4 DEF Shape
  <2> QED  BY <2>2, <2>5 DEF TypeInv
<1>8. ASSUME NEW s \in Stores, NEW k \in Keys  PROVE  Keeps(s, k)
  <2>1. \A i \in Ids : Weight(res'[i], s, k) = Weight(res[i], s, k)  BY <1>4 DEF Weight
  <2>2. Holds(s, k)' = Holds(s, k)  BY <2>1, HoldsSame
  <2>3. \A j \in Resets : Load(task'[j], s, k) = Load(task[j], s, k)
    BY <1>2, <1>3, <1>6 DEF Load
  <2>4. Out(s, k)' = Out(s, k)  BY <2>3, OutSame
  <2>5. Booked(s, k)' = Booked(s, k)  BY <1>1, <2>2, <2>4 DEF Booked, Holds, Out
  <2> QED  BY <1>1, <2>5, InvHere DEF Keeps
<1> QED  BY <1>7, <1>8, InvKept

-------------------------------------------------------------------------------
LEMMA InvStep == Inv /\ [Next]_vars => Inv'
<1> SUFFICES ASSUME Inv, [Next]_vars PROVE Inv'  OBVIOUS
<1>1. ASSUME NEW p \in Instances, Start(p) \/ Crash(p)  PROVE  Inv'
  BY <1>1, StartStep, CrashStep
<1>2. ASSUME NEW p \in Instances, Request(p)  PROVE  Inv'
  <2>1. PICK i \in Ids : \/ \E k \in Keys, a \in Amounts : ReserveStore(p, k, a, i)
                         \/ ReserveOpen(p, i)
                         \/ \E c \in Costs : Pop(p, i, c)
                         \/ GiveBack(p, i) \/ GiveBackUnanswered(p, i)
                         \/ GiveBackAgain(p, i) \/ GiveBackEnds(p, i)
                         \/ GiveBackFails(p, i)
    BY <1>2 DEF Request
  <2> QED  BY <2>1, ReserveStoreStep, ReserveOpenStep, PopStep, GiveBackStep,
              GiveBackAgainStep, GiveBackEndsStep, GiveBackFailsStep
<1>6. ASSUME NEW p \in Instances, NEW k \in Keys, NEW a \in Amounts, ReserveLost(p, k, a)
      PROVE  Inv'
  BY <1>6, ReserveLostStep
<1>3. ASSUME NEW i \in Ids, NEW c \in Costs, EndEscaped(i, c)  PROVE  Inv'
  BY <1>3, EndEscapedStep
<1>4. ASSUME NEW q \in Resets, Reset(q)  PROVE  Inv'
  <2>1. \/ \E p \in Instances : ResetMemory(p, q) \/ ResetRedis(p, q)
        \/ \E k \in Keys : ResetRead(q, k) \/ ResetSkip(q, k)
        \/ ResetRelease(q) \/ ResetUnanswered(q) \/ ResetAgain(q) \/ ResetAnswered(q)
        \/ ResetFails(q) \/ ResetOpen(q)
    BY <1>4 DEF Reset
  <2> QED  BY <2>1, ResetMemoryStep, ResetRedisStep, ResetReadStep, ResetSkipStep,
              ResetReleaseStep, ResetUnansweredStep, ResetAgainStep, ResetAnsweredStep,
              ResetFailsStep, ResetOpenStep
<1>5. CASE UNCHANGED vars
  <2>1. UNCHANGED <<kind, held, res, task, billed, waived>>  BY <1>5 DEF vars
  <2>2. TypeInv'  BY <2>1 DEF Inv, TypeInv, TypeOK, Shape, At, StoreOf
  <2>3. \A s \in Stores, k \in Keys : Booked(s, k)' = Booked(s, k)
    BY <2>1 DEF Booked, Reserved, Holding, Leaving
  <2>4. \A s \in Stores, k \in Keys : Keeps(s, k)  BY <2>1, <2>3, InvHere DEF Keeps
  <2> QED  BY <2>2, <2>4, InvKept
<1> QED  BY <1>1, <1>2, <1>3, <1>4, <1>5, <1>6 DEF Next

LEMMA Invariance == Spec => []Inv
<1>1. Init => Inv  BY InvInit
<1>2. Inv /\ [Next]_vars => Inv'  BY InvStep
<1> QED  BY <1>1, <1>2, PTL DEF Spec

\* The state of the application keeps its shape: a MemoryStore never counts below
\* zero, and what a request holds is in the store of its own instance.
THEOREM TypeCorrect == Spec => []TypeOK
<1>1. Inv => TypeOK  BY DEF Inv, TypeInv
<1> QED  BY <1>1, Invariance, PTL

\* However requests, resets on threads, failing stores, repeated commands and deaths
\* of instances interleave, no bill and no reservation disappears from a store but
\* through a reset that gives it back or a give-back that is executed again.
THEOREM SpendVisibleTheorem == Spec => []SpendVisible
<1>1. Inv => SpendVisible  BY DEF Inv
<1> QED  BY <1>1, Invariance, PTL

\* Each store keeps its ceiling, but for what resets gave back beyond bills and
\* what was given back more than once.
THEOREM CeilingTheorem == Spec => []CeilingWithinWaived
<1>1. Inv => CeilingWithinWaived  BY DEF Inv
<1> QED  BY <1>1, Invariance, PTL
-------------------------------------------------------------------------------
(* When the health of an instance does tell *)

LEMMA HealthStands ==
  ASSUME Inv, NothingWaived
  PROVE  HealthTells
<1> SUFFICES ASSUME NEW p \in Instances, HealthOk(p), NEW k \in Keys
             PROVE  billed[Redis][k] + Total(Ids, Reserved(Redis, k)) <= Ceiling[k]
  BY DEF HealthTells
<1>1. TypeOK /\ Redis \in Stores  BY DEF Inv, TypeInv, Stores
<1>2. Booked(Redis, k) <= held[Redis][k] + waived[Redis][k]  BY <1>1, InvHere
<1>3. waived[Redis][k] = 0 /\ held[Redis][k] <= Ceiling[k]
  BY DEF NothingWaived, HealthOk
<1>4. /\ IsFiniteSet(Ids) /\ \A i \in Ids : Reserved(Redis, k)[i] \in Nat
      /\ IsFiniteSet(Resets) /\ \A q \in Resets : Leaving(Redis, k)[q] \in Nat
  BY <1>1, TotalsType, DemoAssumption
<1>5. Total(Ids, Reserved(Redis, k)) \in Nat /\ Total(Resets, Leaving(Redis, k)) \in Nat
  BY <1>4, TotalType
<1>6. billed[Redis][k] \in Nat /\ held[Redis][k] \in Int /\ Ceiling[k] \in Nat
  BY <1>1, DemoAssumption DEF TypeOK
<1> QED  BY <1>2, <1>3, <1>5, <1>6 DEF Booked

\* The docstring of health holds of every instance as long as no reset has given
\* back more than was billed and no give-back was executed twice: only these make
\* an answer `ok' say too much.
THEOREM HealthTheorem == Spec => [](NothingWaived => HealthTells)
<1>1. Inv => (NothingWaived => HealthTells)  BY HealthStands
<1> QED  BY <1>1, Invariance, PTL

\* Where nobody posts to /demo/reset and the client never repeats a command,
\* nothing is ever waived: no reservation is ever given back without an answer.
Once ==
  /\ NothingWaived
  /\ \A i \in Ids : res[i] # None => res[i].state # "given"

LEMMA OnceInit == Init => Once
BY DEF Init, Once, NothingWaived, Stores

LEMMA OnceMoves ==
  ASSUME TypeOK, Once, NEW i \in Ids, waived' = waived,
         \A j \in Ids \ {i} : res'[j] = res[j],
         res'[i] # None => res'[i].state # "given"
  PROVE  Once'
BY DEF Once, NothingWaived

LEMMA OnceRequest ==
  ASSUME MaxTries = 1, Inv, Once, NEW p \in Instances, Request(p)
  PROVE  Once'
<1>0. TypeOK  BY DEF Inv, TypeInv
<1>1. PICK i \in Ids : \/ \E k \in Keys, a \in Amounts : ReserveStore(p, k, a, i)
                       \/ ReserveOpen(p, i)
                       \/ \E c \in Costs : Pop(p, i, c)
                       \/ GiveBack(p, i) \/ GiveBackUnanswered(p, i)
                       \/ GiveBackAgain(p, i) \/ GiveBackEnds(p, i)
                       \/ GiveBackFails(p, i)
  BY DEF Request
<1>2. \A e : res' = [res EXCEPT ![i] = e] =>
        res'[i] = e /\ \A j \in Ids \ {i} : res'[j] = res[j]
  BY <1>0 DEF TypeOK
<1>3. ASSUME NEW k \in Keys, NEW a \in Amounts, ReserveStore(p, k, a, i)  PROVE Once'
  <2> DEFINE e == [at |-> p, store |-> StoreOf(p), key |-> k, amount |-> a,
                   state |-> "taken", cost |-> 0, tries |-> 0]
  <2>1. waived' = waived /\ res' = [res EXCEPT ![i] = e]  BY <1>3 DEF ReserveStore
  <2>2. e.state = "taken"  OBVIOUS
  <2> HIDE DEF e
  <2> QED  BY <1>0, <1>2, <2>1, <2>2, OnceMoves
<1>4. CASE ReserveOpen(p, i)
  <2>1. /\ res[i] # None /\ waived' = waived
        /\ res' = [res EXCEPT ![i] = [res[i] EXCEPT !.state = "open"]]
    BY <1>4 DEF ReserveOpen, In
  <2>2. res'[i] = [res[i] EXCEPT !.state = "open"]  BY <1>2, <2>1
  <2>3. res'[i].state = "open"  BY <1>0, <2>1, <2>2, ReservationType, ReservationMoves
  <2> QED  BY <1>0, <1>2, <2>1, <2>3, OnceMoves
<1>5. ASSUME NEW c \in Costs, Pop(p, i, c)  PROVE Once'
  <2> DEFINE e == [res[i] EXCEPT !.state = "popped", !.cost = Least(c, res[i].amount)]
  <2>1. res[i] # None /\ waived' = waived /\ res' = [res EXCEPT ![i] = e]
    BY <1>5 DEF Pop, In
  <2>2. e.state = "popped"
    <3>1. res[i] \in Reservation  BY <1>0, <2>1, ReservationType
    <3> QED  BY <3>1 DEF Reservation
  <2> HIDE DEF e
  <2> QED  BY <1>0, <1>2, <2>1, <2>2, OnceMoves
<1>6. CASE GiveBack(p, i) \/ GiveBackEnds(p, i) \/ GiveBackFails(p, i)
  <2>1. waived' = waived /\ res' = [res EXCEPT ![i] = None]
    BY <1>6 DEF GiveBack, GiveBackEnds, GiveBackFails
  <2> QED  BY <1>0, <1>2, <2>1, OnceMoves
<1>7. ~GiveBackUnanswered(p, i)  BY DEF GiveBackUnanswered
<1>8. ~GiveBackAgain(p, i)  BY DEF GiveBackAgain, In, Once
<1> QED  BY <1>1, <1>3, <1>4, <1>5, <1>6, <1>7, <1>8

LEMMA OnceStep ==
  ASSUME Resets = {}, MaxTries = 1, Inv, Once, [Next]_vars
  PROVE  Once'
<1>0. TypeInv /\ TypeOK  BY DEF Inv, TypeInv
<1>1. ASSUME waived' = waived, res' = res  PROVE Once'
  BY <1>1 DEF Once, NothingWaived
<1>2. ASSUME NEW p \in Instances, Crash(p)  PROVE Once'
  <2>1. waived \in [Stores -> [Keys -> Nat]] /\ Redis \in Stores /\ Redis \notin Instances
    BY <1>0, DemoAssumption DEF TypeOK, Stores
  <2>2. waived'[Redis] = waived[Redis]  BY <1>2, <2>1 DEF Crash
  <2>3. \A i \in Ids : res'[i] # None => res[i] # None /\ (Holding(i) <=> res'[i].state # "given")
    BY <1>0, <1>2, CrashReservation
  <2>4. \A i \in Ids : res'[i] # None => res'[i].state # "given"
    BY <2>3 DEF Once, Holding
  <2> QED  BY <2>2, <2>4 DEF Once, NothingWaived
<1>3. ASSUME NEW p \in Instances, NEW k \in Keys, NEW a \in Amounts,
             Start(p) \/ ReserveLost(p, k, a)
      PROVE  Once'
  BY <1>1, <1>3 DEF Start, ReserveLost
<1>4. ASSUME NEW i \in Ids, NEW c \in Costs, EndEscaped(i, c)  PROVE Once'
  <2>1. waived' = waived /\ res' = [res EXCEPT ![i] = None]  BY <1>4 DEF EndEscaped
  <2>2. res'[i] = None /\ \A j \in Ids \ {i} : res'[j] = res[j]
    BY <1>0, <2>1 DEF TypeOK
  <2> QED  BY <1>0, <2>1, <2>2, OnceMoves
<1>5. CASE UNCHANGED vars  BY <1>1, <1>5 DEF vars
<1>6. ASSUME NEW p \in Instances, Start(p)  PROVE Once'
  BY <1>1, <1>6 DEF Start
<1> QED  BY <1>2, <1>3, <1>4, <1>5, <1>6, OnceRequest DEF Next

\* So the docstring is right about a deployment that is never reset and whose
\* client never repeats a command.
THEOREM HealthWithoutResets ==
  ASSUME Resets = {}, MaxTries = 1
  PROVE  Spec => []HealthTells
<1>1. Init => Once  BY OnceInit
<1>2. Inv /\ Once /\ [Next]_vars => Once'  BY OnceStep
<1>3. Inv /\ Once => HealthTells  BY HealthStands DEF Once
<1> QED  BY <1>1, <1>2, <1>3, Invariance, PTL DEF Spec

-------------------------------------------------------------------------------
(* Refinement *)

\* Under the mapping a hold of Budget is a request's reservation in Redis.
LEMMA MappedHold ==
  ASSUME TypeOK, NEW i \in Ids
  PROVE  IF Holding(i) /\ res[i].store = Redis
         THEN /\ AbstractHold[i] # None
              /\ AbstractHold[i] = [key |-> res[i].key, amount |-> res[i].amount]
         ELSE AbstractHold[i] = None
<1>1. CASE Holding(i) /\ res[i].store = Redis
  <2>1. res[i].key \in Keys /\ res[i].amount \in Nat  BY <1>1, ReservationType DEF Holding
  <2>2. [key |-> res[i].key, amount |-> res[i].amount] \in [key : Keys, amount : Nat]
    BY <2>1
  <2>3. AbstractHold[i] = [key |-> res[i].key, amount |-> res[i].amount]
    BY <1>1 DEF AbstractHold
  <2> QED  BY <1>1, <2>2, <2>3, DemoAssumption
<1>2. CASE ~(Holding(i) /\ res[i].store = Redis)  BY <1>2 DEF AbstractHold
<1> QED  BY <1>1, <1>2

\* What Budget calls the used part of a key: all that is booked in Redis but the
\* bills that a reset has in hand.
LEMMA MappedUsed ==
  ASSUME TypeOK, NEW k \in Keys
  PROVE  Abstract!Used(k) = billed[Redis][k] + Holds(Redis, k)
<1> DEFINE T == Abstract!HoldsOf(k)
           v == Abstract!HoldAmount
           w == Reserved(Redis, k)
<1>1. T \subseteq Ids  BY DEF Abstract!HoldsOf
<1>2. \A i \in T : v[i] = w[i]
  <2> SUFFICES ASSUME NEW i \in T PROVE v[i] = w[i]  OBVIOUS
  <2>1. i \in Ids /\ AbstractHold[i] # None /\ AbstractHold[i].key = k
    BY DEF Abstract!HoldsOf
  <2>2. /\ Holding(i) /\ res[i].store = Redis
        /\ AbstractHold[i] = [key |-> res[i].key, amount |-> res[i].amount]
    BY <2>1, MappedHold
  <2>3. w[i] = res[i].amount  BY <2>1, <2>2 DEF Reserved
  <2>4. v[i] = AbstractHold[i].amount  BY <2>1 DEF Abstract!HoldAmount
  <2> QED  BY <2>2, <2>3, <2>4
<1>3. \A i \in Ids \ T : w[i] = 0
  <2> SUFFICES ASSUME NEW i \in Ids, w[i] # 0 PROVE i \in T  OBVIOUS
  <2>1. Holding(i) /\ res[i].store = Redis /\ res[i].key = k  BY DEF Reserved
  <2>2. /\ AbstractHold[i] # None
        /\ AbstractHold[i] = [key |-> k, amount |-> res[i].amount]
    BY <2>1, MappedHold
  <2> QED  BY <2>2 DEF Abstract!HoldsOf
<1>4. Total(T, v) = Total(Ids, w)
  <2> HIDE DEF T, v, w
  <2> QED  BY <1>1, <1>2, <1>3, TotalRestrict
<1>5. Abstract!Total(T, v) = Total(T, v)
  <2>1. Abstract!Units(T, v) = Units(T, v)  BY DEF Abstract!Units, Units
  <2>2. \A S : Abstract!Cardinality(S) = Cardinality(S)
    BY DEF Abstract!Cardinality, Cardinality
  <2> QED  BY <2>1, <2>2 DEF Abstract!Total, Total
<1> QED  BY <1>4, <1>5 DEF Abstract!Used, Holds

\* Steps that leave store, key and amount of every reservation in Redis alone, and
\* its bills, are stutters.
LEMMA Stutters ==
  ASSUME billed'[Redis] = billed[Redis],
         \A i \in Ids : (Holding(i) /\ res[i].store = Redis)
                          <=> (Holding(i)' /\ res'[i].store = Redis),
         \A i \in Ids : Holding(i) /\ res[i].store = Redis =>
                          res'[i].key = res[i].key /\ res'[i].amount = res[i].amount
  PROVE  UNCHANGED Abstract!budgetVars
BY DEF Abstract!budgetVars, AbstractHold

\* A request that reserves in Redis is admitted by the budget: what it sees on the
\* counter is at least what is used, unless something was waived.
LEMMA ReserveMaps ==
  ASSUME Inv, NothingWaived, NEW p \in Instances, NEW k \in Keys, NEW a \in Amounts,
         NEW i \in Ids, ReserveStore(p, k, a, i)
  PROVE  Abstract!BudgetNext \/ UNCHANGED Abstract!budgetVars
<1> DEFINE t == StoreOf(p)
           r == [at |-> p, store |-> t, key |-> k, amount |-> a, state |-> "taken", cost |-> 0, tries |-> 0]
<1>0. TypeOK /\ Redis \in Stores  BY DEF Inv, TypeInv, Stores
<1>1. /\ res[i] = None /\ held[t][k] + a <= Ceiling[k]
      /\ res' = [res EXCEPT ![i] = r] /\ billed' = billed
  BY DEF ReserveStore, Fits
<1>2. r \in Reservation /\ a \in Nat /\ r # None
  <2>1. t \in Stores /\ a \in Nat  BY StoreOfType, DemoAssumption
  <2> HIDE DEF t
  <2>2. r \in Reservation  BY <2>1 DEF Reservation
  <2> QED  BY <2>1, <2>2, DemoAssumption
<1>3. \A j \in Ids : res'[j] = IF j = i THEN r ELSE res[j]  BY <1>0, <1>1 DEF TypeOK
<1> HIDE DEF t
<1>4. CASE t = Redis
  <2>1. Abstract!Used(k) = billed[Redis][k] + Holds(Redis, k)  BY <1>0, MappedUsed
  <2>2. /\ billed[Redis][k] \in Nat /\ Holds(Redis, k) \in Nat /\ Out(Redis, k) \in Nat
        /\ held[Redis][k] \in Int /\ Ceiling[k] \in Nat
        /\ Booked(Redis, k) = billed[Redis][k] + Holds(Redis, k) + Out(Redis, k)
    BY <1>0, TotalsType
  <2>3. Booked(Redis, k) <= held[Redis][k] + waived[Redis][k]  BY <1>0, InvHere
  <2>4. waived[Redis][k] = 0  BY DEF NothingWaived
  <2>5. Abstract!Used(k) + a <= Ceiling[k] /\ a \in 0 .. Ceiling[k]
    BY <1>1, <1>2, <1>4, <2>1, <2>2, <2>3, <2>4
  <2>6. AbstractHold[i] = None  BY <1>1 DEF AbstractHold, Holding
  <2>7. AbstractHold' = [AbstractHold EXCEPT ![i] = [key |-> k, amount |-> a]]
    <3>1. r.store = Redis /\ r.key = k /\ r.amount = a /\ r.state = "taken"  BY <1>4
    <3> HIDE DEF r
    <3> QED  BY <1>2, <1>3, <3>1 DEF AbstractHold, Holding
  <2>8. Abstract!Admit(i, k, a)  BY <1>1, <2>5, <2>6, <2>7 DEF Abstract!Admit
  <2>9. k \in DOMAIN Ceiling  BY DemoAssumption
  <2> QED  BY <2>5, <2>8, <2>9 DEF Abstract!BudgetNext
<1>5. CASE t # Redis
  <2> HIDE DEF r
  <2>1. r.store # Redis  BY <1>5 DEF r
  <2> QED  BY <1>1, <1>3, <2>1, Stutters DEF Holding
<1> QED  BY <1>4, <1>5

\* A request that is billed ends its hold with a charge of as much, also when its
\* reservation stays until the answer arrives.
LEMMA EndMaps ==
  ASSUME TypeOK, NEW i \in Ids, Holding(i), NEW c \in Nat, c <= res[i].amount,
         Bill(i, c), NEW e, res' = [res EXCEPT ![i] = e], e # None => e.state = "given"
  PROVE  Abstract!BudgetNext \/ UNCHANGED Abstract!budgetVars
<1> DEFINE s == res[i].store
           k == res[i].key
<1>1. s \in Stores /\ k \in Keys /\ res[i].amount \in Nat /\ Redis \in Stores
  BY ReservationType DEF Stores, Holding
<1>2. billed' = [billed EXCEPT ![s][k] = @ + c]  BY DEF Bill
<1>3. /\ \A j \in Ids : res'[j] = IF j = i THEN e ELSE res[j]
      /\ ~Holding(i)'
      /\ \A j \in Ids \ {i} : Holding(j)' <=> Holding(j)
  BY DEF TypeOK, Holding
<1> HIDE DEF s, k
<1>4. CASE s = Redis
  <2>1. /\ AbstractHold[i] # None
        /\ AbstractHold[i] = [key |-> k, amount |-> res[i].amount]
    BY <1>4, MappedHold DEF s, k
  <2>2. AbstractHold' = [AbstractHold EXCEPT ![i] = None]
    BY <1>3 DEF AbstractHold
  <2>3. billed'[Redis] = [billed[Redis] EXCEPT ![k] = @ + c]
    BY <1>1, <1>2, <1>4 DEF TypeOK
  <2>4. Abstract!Charge(i, c)
    BY <2>1, <2>2, <2>3 DEF Abstract!Charge
  <2>5. c \in 0 .. AbstractHold[i].amount  BY <1>1, <2>1
  <2> QED  BY <2>1, <2>4, <2>5 DEF Abstract!BudgetNext
<1>5. CASE s # Redis
  <2>1. billed'[Redis] = billed[Redis]  BY <1>1, <1>2, <1>5 DEF TypeOK
  <2>2. \A j \in Ids : (Holding(j) /\ res[j].store = Redis)
                         <=> (Holding(j)' /\ res'[j].store = Redis)
    BY <1>3, <1>5 DEF s
  <2>3. \A j \in Ids : Holding(j) /\ res[j].store = Redis =>
                         res'[j].key = res[j].key /\ res'[j].amount = res[j].amount
    BY <1>3, <1>5 DEF s
  <2> QED  BY <2>1, <2>2, <2>3, Stutters
<1> QED  BY <1>4, <1>5

\* A request that only moves changes nothing the budget knows.
LEMMA MoveMaps ==
  ASSUME TypeOK, NEW i \in Ids, res[i] # None, billed' = billed,
         \A j \in Ids \ {i} : res'[j] = res[j],
         res'[i] # None, res'[i].store = res[i].store,
         res'[i].key = res[i].key, res'[i].amount = res[i].amount,
         res'[i].state = "given" <=> res[i].state = "given"
  PROVE  UNCHANGED Abstract!budgetVars
<1>1. \A j \in Ids : (Holding(j) /\ res[j].store = Redis)
                          <=> (Holding(j)' /\ res'[j].store = Redis)
  BY DEF Holding
<1>2. \A j \in Ids : Holding(j) /\ res[j].store = Redis =>
                          res'[j].key = res[j].key /\ res'[j].amount = res[j].amount
  OBVIOUS
<1> QED  BY <1>1, <1>2, Stutters

\* An instance that dies leaves its holds in Redis in place.
LEMMA CrashMaps ==
  ASSUME Inv, NEW p \in Instances, Crash(p)
  PROVE  UNCHANGED Abstract!budgetVars
<1>0. TypeInv /\ TypeOK /\ Redis \in Stores /\ Redis # p
  BY DemoAssumption DEF Inv, TypeInv, Stores
<1>1. billed'[Redis] = billed[Redis]  BY <1>0 DEF Crash, TypeOK
<1>2. \A i \in Ids : res'[i] # None =>
        /\ res[i] # None /\ res'[i].store = res[i].store
        /\ res'[i].key = res[i].key /\ res'[i].amount = res[i].amount
        /\ Holding(i) <=> Holding(i)'
  BY <1>0, CrashReservation DEF Holding
<1>3. \A i \in Ids : Holding(i) /\ res[i].store = Redis => res'[i] # None
  <2> SUFFICES ASSUME NEW i \in Ids, Holding(i), res[i].store = Redis
               PROVE  res'[i] # None
    OBVIOUS
  <2>1. res'[i] = res[i] \/ res'[i] = [res[i] EXCEPT !.state = "escaped", !.cost = 0]
    BY DEF Crash, Holding
  <2>2. res[i] \in Reservation  BY <1>0, ReservationType DEF Holding
  <2>3. [res[i] EXCEPT !.state = "escaped", !.cost = 0] \in Reservation
    BY <2>2, ReservationDies
  <2> QED  BY <2>1, <2>2, <2>3, DemoAssumption
<1>4. \A i \in Ids : (Holding(i) /\ res[i].store = Redis)
                       <=> (Holding(i)' /\ res'[i].store = Redis)
  BY <1>2, <1>3 DEF Holding
<1>5. \A i \in Ids : Holding(i) /\ res[i].store = Redis =>
                       res'[i].key = res[i].key /\ res'[i].amount = res[i].amount
  BY <1>2, <1>3
<1> QED  BY <1>1, <1>4, <1>5, Stutters

\* Every step of a reset is one: its task goes on.
LEMMA ResetsMove ==
  ASSUME TypeOK, NEW q \in Resets, Reset(q)
  PROVE  task' # task
<1>1. ASSUME NEW e, task' = [task EXCEPT ![q] = e], e # task[q]
      PROVE  task' # task
  BY <1>1 DEF TypeOK
<1>2. ASSUME NEW p \in Instances, ResetMemory(p, q) \/ ResetRedis(p, q)
      PROVE  task' # task
  <2>1. Begun(p, {}) # None /\ Begun(p, Keys) # None  BY BegunType
  <2> QED  BY <1>1, <1>2, <2>1 DEF ResetMemory, ResetRedis
<1>3. ASSUME NEW k \in Keys, ResetRead(q, k)  PROVE task' # task
  <2> DEFINE e == [task[q] EXCEPT !.step = "release", !.todo = @ \ {k}, !.key = k,
                                  !.read = held[Redis][k], !.own = billed[Redis][k]]
  <2>1. task[q] # None /\ task[q].step = "next" /\ task' = [task EXCEPT ![q] = e]
    BY <1>3 DEF ResetRead, At
  <2>2. e.step = "release"  BY <2>1, TaskType DEF Task
  <2> HIDE DEF e
  <2> QED  BY <1>1, <2>1, <2>2
<1>4. ASSUME NEW k \in Keys, ResetSkip(q, k)  PROVE task' # task
  <2> DEFINE e == [task[q] EXCEPT !.todo = @ \ {k}]
  <2>1. /\ task[q] # None /\ k \in task[q].todo /\ task' = [task EXCEPT ![q] = e]
    BY <1>4 DEF ResetSkip, At
  <2>2. e.todo = task[q].todo \ {k}  BY <2>1, TaskType DEF Task
  <2> HIDE DEF e
  <2> QED  BY <1>1, <2>1, <2>2
<1>5. ASSUME ResetRelease(q) \/ ResetFails(q) \/ ResetAnswered(q)  PROVE task' # task
  <2> DEFINE e == [task[q] EXCEPT !.step = "next", !.read = 0, !.own = 0, !.tries = 0]
  <2>1. task[q] # None /\ task[q].step # "next" /\ task' = [task EXCEPT ![q] = e]
    BY <1>5 DEF ResetRelease, ResetFails, ResetAnswered, Released, At
  <2>2. e.step = "next"  BY <2>1, TaskType, TaskGoesOn
  <2> HIDE DEF e
  <2> QED  BY <1>1, <2>1, <2>2
<1>6. ASSUME ResetOpen(q)  PROVE task' # task
  <2> DEFINE e == [task[q] EXCEPT !.step = "done"]
  <2>1. task[q] # None /\ task[q].step = "next" /\ task' = [task EXCEPT ![q] = e]
    BY <1>6 DEF ResetOpen, At
  <2>2. e.step = "done"  BY <2>1, TaskType DEF Task
  <2> HIDE DEF e
  <2> QED  BY <1>1, <2>1, <2>2
<1>7. ASSUME ResetUnanswered(q)  PROVE task' # task
  <2> DEFINE e == Sent(task[q], 1)
  <2>1. task[q] # None /\ task[q].step = "release" /\ task' = [task EXCEPT ![q] = e]
    BY <1>7 DEF ResetUnanswered, At, Sent
  <2>2. e.step = "again"
    <3>1. task[q] \in Task /\ 1 \in Nat  BY <2>1, TaskType
    <3> QED  BY <3>1, TaskSent
  <2> HIDE DEF e
  <2> QED  BY <1>1, <2>1, <2>2
<1>8. ASSUME ResetAgain(q)  PROVE task' # task
  <2> DEFINE e == [task[q] EXCEPT !.tries = @ + 1]
  <2>1. task[q] # None /\ task' = [task EXCEPT ![q] = e]
    BY <1>8 DEF ResetAgain, At
  <2>2. task[q] \in Task /\ task[q].tries \in Nat  BY <2>1, TaskType
  <2>3. e.tries = task[q].tries + 1  BY <2>2 DEF Task
  <2> HIDE DEF e
  <2>4. e # task[q]  BY <2>2, <2>3
  <2> QED  BY <1>1, <2>1, <2>4
<1> QED  BY <1>2, <1>3, <1>4, <1>5, <1>6, <1>7, <1>8 DEF Reset

LEMMA RefinesStep ==
  ASSUME Inv, [Next]_vars
  PROVE  [task' # task \/ ~NothingWaived \/ Abstract!BudgetNext]_(Abstract!budgetVars)
<1> SUFFICES ASSUME task' = task, NothingWaived
             PROVE  Abstract!BudgetNext \/ UNCHANGED Abstract!budgetVars
  OBVIOUS
<1>0. TypeInv /\ TypeOK /\ Shape  BY DEF Inv, TypeInv
<1>1. ASSUME res' = res, billed' = billed  PROVE UNCHANGED Abstract!budgetVars
  BY <1>1, Stutters DEF Holding
<1>2. ASSUME NEW p \in Instances, Start(p)  PROVE UNCHANGED Abstract!budgetVars
  BY <1>1, <1>2 DEF Start
<1>3. ASSUME NEW p \in Instances, NEW i \in Ids, ReserveOpen(p, i)
      PROVE  UNCHANGED Abstract!budgetVars
  <2>1. /\ res[i] # None /\ res[i].state = "taken"
        /\ res' = [res EXCEPT ![i].state = "open"] /\ billed' = billed
    BY <1>3 DEF ReserveOpen, In
  <2>2. res[i] \in Reservation  BY <1>0, <2>1, ReservationType
  <2>3. res'[i] = [res[i] EXCEPT !.state = "open"] /\ \A j \in Ids \ {i} : res'[j] = res[j]
    BY <1>0, <2>1 DEF TypeOK
  <2>4. /\ res'[i] \in Reservation /\ res'[i].store = res[i].store
        /\ res'[i].key = res[i].key /\ res'[i].amount = res[i].amount
        /\ res'[i].state = "open"
    BY <2>2, <2>3, ReservationMoves
  <2>5. res'[i] # None  BY <2>4, DemoAssumption
  <2> QED  BY <1>0, <2>1, <2>3, <2>4, <2>5, MoveMaps
<1>4. ASSUME NEW p \in Instances, NEW i \in Ids, NEW c \in Costs, Pop(p, i, c)
      PROVE  UNCHANGED Abstract!budgetVars
  <2> DEFINE e == [res[i] EXCEPT !.state = "popped", !.cost = Least(c, res[i].amount)]
  <2>1. /\ res[i] # None /\ res[i].state = "open"
        /\ res' = [res EXCEPT ![i] = e] /\ billed' = billed
    BY <1>4 DEF Pop, In
  <2>2. res[i] \in Reservation  BY <1>0, <2>1, ReservationType
  <2>3. /\ e.store = res[i].store /\ e.key = res[i].key /\ e.amount = res[i].amount
        /\ e # None /\ e.state = "popped"
    <3>1. c \in Nat /\ res[i].amount \in Nat  BY <2>2, DemoAssumption DEF Reservation
    <3>2. Least(c, res[i].amount) \in Nat  BY <3>1 DEF Least
    <3>3. e \in Reservation  BY <2>2, <3>2 DEF Reservation
    <3>4. /\ e.store = res[i].store /\ e.key = res[i].key /\ e.amount = res[i].amount
          /\ e.state = "popped"
      BY <2>2 DEF Reservation
    <3> QED  BY <3>3, <3>4, DemoAssumption
  <2> HIDE DEF e
  <2>4. res'[i] = e /\ \A j \in Ids \ {i} : res'[j] = res[j]
    BY <1>0, <2>1 DEF TypeOK
  <2> QED  BY <1>0, <2>1, <2>3, <2>4, MoveMaps
<1>5. ASSUME NEW p \in Instances, NEW i \in Ids,
             GiveBack(p, i) \/ GiveBackUnanswered(p, i) \/ GiveBackFails(p, i)
      PROVE  Abstract!BudgetNext \/ UNCHANGED Abstract!budgetVars
  <2>1. res[i] # None /\ res[i].state = "popped" /\ Bill(i, res[i].cost)
    BY <1>5 DEF GiveBack, GiveBackUnanswered, GiveBackFails, In
  <2>2. /\ res[i] \in Reservation /\ res[i].cost \in Nat /\ res[i].cost <= res[i].amount
        /\ Holding(i)
    BY <1>0, <2>1, ReservationType DEF Shape, Holding
  <2>3. CASE res' = [res EXCEPT ![i] = None]
    BY <1>0, <2>1, <2>2, <2>3, EndMaps
  <2>4. CASE res' = [res EXCEPT ![i].state = "given", ![i].tries = 1]
    <3> DEFINE e == Given(res[i], 1)
    <3>1. res' = [res EXCEPT ![i] = e]  BY <2>4 DEF Given
    <3>2. e.state = "given"  BY <2>2, ReservationGiven
    <3> HIDE DEF e
    <3> QED  BY <1>0, <2>1, <2>2, <3>1, <3>2, EndMaps
  <2> QED  BY <1>5, <2>3, <2>4 DEF GiveBack, GiveBackUnanswered, GiveBackFails
<1>10. ASSUME NEW p \in Instances, NEW i \in Ids, GiveBackAgain(p, i) \/ GiveBackEnds(p, i)
      PROVE  UNCHANGED Abstract!budgetVars
  <2>1. /\ res[i] # None /\ res[i].state = "given" /\ billed' = billed
        /\ \A j \in Ids \ {i} : res'[j] = res[j]
    BY <1>0, <1>10 DEF GiveBackAgain, GiveBackEnds, In, TypeOK
  <2>2. res[i] \in Reservation /\ res[i].tries + 1 \in Nat
    BY <1>0, <2>1, ReservationType
  <2>3. res'[i] = None \/ res'[i].state = "given"
    <3>1. CASE GiveBackEnds(p, i)  BY <1>0, <3>1 DEF GiveBackEnds, TypeOK
    <3>2. CASE GiveBackAgain(p, i)
      <4>1. res'[i] = [res[i] EXCEPT !.tries = @ + 1]
        BY <1>0, <3>2 DEF GiveBackAgain, TypeOK
      <4>2. [res[i] EXCEPT !.tries = @ + 1].state = "given"  BY <2>1, <2>2 DEF Reservation
      <4> QED  BY <4>1, <4>2
    <3> QED  BY <1>10, <3>1, <3>2
  <2>4. ~Holding(i) /\ ~Holding(i)' /\ \A j \in Ids \ {i} : Holding(j)' <=> Holding(j)
    BY <2>1, <2>3 DEF Holding
  <2> QED  BY <2>1, <2>4, Stutters
<1>11. ASSUME NEW p \in Instances, NEW k \in Keys, NEW a \in Amounts, ReserveLost(p, k, a)
       PROVE  UNCHANGED Abstract!budgetVars
  BY <1>1, <1>11 DEF ReserveLost
<1>6. ASSUME NEW i \in Ids, NEW c \in Costs, EndEscaped(i, c)
      PROVE  Abstract!BudgetNext \/ UNCHANGED Abstract!budgetVars
  <2>1. /\ res[i] # None /\ Bill(i, Least(c, res[i].amount))
        /\ res' = [res EXCEPT ![i] = None] /\ Holding(i)
    BY <1>6 DEF EndEscaped, Holding
  <2>2. c \in Nat /\ res[i].amount \in Nat  BY <1>0, <2>1, ReservationType, DemoAssumption
  <2>3. Least(c, res[i].amount) \in Nat /\ Least(c, res[i].amount) <= res[i].amount
    BY <2>2 DEF Least
  <2> QED  BY <1>0, <2>1, <2>3, EndMaps
<1>7. ASSUME NEW p \in Instances, Request(p)
      PROVE  Abstract!BudgetNext \/ UNCHANGED Abstract!budgetVars
  <2>1. PICK i \in Ids : \/ \E k \in Keys, a \in Amounts : ReserveStore(p, k, a, i)
                         \/ ReserveOpen(p, i)
                         \/ \E c \in Costs : Pop(p, i, c)
                         \/ GiveBack(p, i) \/ GiveBackUnanswered(p, i)
                         \/ GiveBackAgain(p, i) \/ GiveBackEnds(p, i)
                         \/ GiveBackFails(p, i)
    BY <1>7 DEF Request
  <2> QED  BY <1>3, <1>4, <1>5, <1>10, <2>1, ReserveMaps
<1>8. ASSUME NEW q \in Resets, Reset(q)  PROVE  Abstract!BudgetNext \/ UNCHANGED Abstract!budgetVars
  BY <1>0, <1>8, ResetsMove
<1>9. CASE UNCHANGED vars  BY <1>1, <1>9 DEF vars
<1> QED  BY <1>2, <1>6, <1>7, <1>8, <1>9, <1>11, CrashMaps DEF Next

\* All instances that reached Redis implement one Budget together, whatever starts,
\* dies or interleaves: only a reset disturbs it, in its own steps or by giving back
\* more than was billed, and a give-back that is executed twice.
THEOREM DemoImplementsBudget == Spec => ImplementsBudget
<1>1. Init => Abstract!BudgetInit
  <2> SUFFICES ASSUME Init PROVE Abstract!BudgetInit  OBVIOUS
  <2>1. billed[Redis] = [k \in Keys |-> 0]  BY DEF Init, Stores
  <2>2. AbstractHold = [i \in Ids |-> None]  BY DEF Init, AbstractHold, Holding
  <2> QED  BY <2>1, <2>2 DEF Abstract!BudgetInit
<1>2. Inv /\ [Next]_vars =>
        [task' # task \/ ~NothingWaived \/ Abstract!BudgetNext]_(Abstract!budgetVars)
  BY RefinesStep
<1> QED  BY <1>1, <1>2, Invariance, PTL DEF Spec, ImplementsBudget

\* And a deployment that is never reset and whose client never repeats a command is
\* one Budget, whatever else fails or dies.
THEOREM DemoImplementsBudgetWithoutResets ==
  ASSUME Resets = {}, MaxTries = 1
  PROVE  Spec => Abstract!BudgetSpec
<1>1. Init => Abstract!BudgetInit
  <2> SUFFICES ASSUME Init PROVE Abstract!BudgetInit  OBVIOUS
  <2>1. billed[Redis] = [k \in Keys |-> 0]  BY DEF Init, Stores
  <2>2. AbstractHold = [i \in Ids |-> None]  BY DEF Init, AbstractHold, Holding
  <2> QED  BY <2>1, <2>2 DEF Abstract!BudgetInit
<1>2. Init => Once  BY OnceInit
<1>3. Inv /\ Once /\ [Next]_vars => Once'  BY OnceStep
<1>4. Inv /\ Inv' /\ Once /\ [Next]_vars =>
        [Abstract!BudgetNext]_(Abstract!budgetVars)
  <2> SUFFICES ASSUME Inv, Inv', Once, [Next]_vars
               PROVE  [Abstract!BudgetNext]_(Abstract!budgetVars)
    OBVIOUS
  <2>1. task' = task
    BY DEF Inv, TypeInv, TypeOK
  <2> QED  BY <2>1, RefinesStep DEF Once
<1> QED
  BY <1>1, <1>2, <1>3, <1>4, Invariance, PTL DEF Spec, Abstract!BudgetSpec
===============================================================================
