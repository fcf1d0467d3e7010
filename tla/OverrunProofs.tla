---------------------------- MODULE OverrunProofs ----------------------------
(***************************************************************************)
(* Theorems of Overrun, for every size of burst, every ceiling and cost,   *)
(* and tasks that wake however late: what each of the patterns admits, and *)
(* what it is billed.                                                      *)
(***************************************************************************)
EXTENDS Overrun, FiniteSetTheorems, TLAPS

Waiting == {"read", "call", "write"}

TypeInv ==
  /\ arm \in Arms
  /\ now \in Nat
  /\ at \in [Bursts -> {"new", "done", "denied"} \cup Waiting]
  /\ due \in [Bursts -> Nat]
  /\ spent \in Nat
  /\ billed \in Nat

\* What the requests of S cost: those up to f the flat cost, the others more.
Low(f, S)  == {i \in S : i <= f}
High(f, S) == {i \in S : i > f}

Bill(f, S) == Cost * Cardinality(Low(f, S)) + Dear * Cardinality(High(f, S))

In(places) == {i \in Bursts : at[i] \in places}

\* Requests start in order.
InOrder == \E n \in 0 .. N : \A i \in Bursts : at[i] = "new" <=> i > n

\* One after the other: no request has started before the last one is over.
OneByOne ==
  ~arm.together => \A i, j \in Bursts : j < i /\ at[i] # "new" => at[j] \in Over

BilledIsDone == billed = Bill(Flat, In({"done"}))

\* A gathered burst: before anything is written, every request has read, since
\* a call ends later than a read that started at the same time.
RaceInv ==
  arm \in {CheckThenAct, OverrunPostHoc} =>
    \A i \in Bursts :
      /\ at[i] # "denied"
      /\ at[i] = "read" => due[i] = arm.hop
      /\ at[i] \in {"call", "write"} => due[i] > arm.hop
      /\ at[i] \in {"new", "read"} => spent = 0
      /\ at[i] = "new" => now = 0

\* Nobody else's call is in flight, so the headroom that was read is still there.
PostHocInv ==
  arm = PostHoc =>
    /\ billed = spent
    /\ billed < Ceiling + Dear
    /\ \A i \in Bursts : at[i] \in {"call", "write"} => spent < Ceiling

NothingInv ==
  arm \in {BestEffort, Unpriced} =>
    /\ spent = 0
    /\ \A i \in Bursts : at[i] # "denied"

\* A reservation stands until the end, so what was denied once would be denied
\* again, and a long request never takes the room of a cheap one.
EnforcedInv ==
  arm.test = "reserve" =>
    /\ \A i \in Bursts : at[i] \notin {"read", "write"}
    /\ spent = Bill(Flat, In({"call", "done"}))
    /\ spent <= Ceiling
    /\ arm.fails \/ ~arm.priced => \A i \in Bursts : at[i] \notin {"call", "done"}
    /\ ~arm.fails /\ arm.priced =>
         /\ \A i \in Bursts : at[i] = "denied" => spent + CostOf(i) > Ceiling
         /\ \A i, j \in Bursts :
              i <= Flat /\ j > Flat => ~(at[i] = "denied" /\ at[j] \in {"call", "done"})

Inv ==
  /\ TypeInv /\ InOrder /\ OneByOne /\ BilledIsDone
  /\ RaceInv /\ PostHocInv /\ NothingInv /\ EnforcedInv

-------------------------------------------------------------------------------
(* Arithmetic *)

\* A product grows with its second factor.
LEMMA TimesGrows ==
  ASSUME NEW c \in Nat, NEW a \in Nat, NEW b \in Nat, a <= b
  PROVE  c * a \in Nat /\ c * b \in Nat /\ c * a <= c * b
<1>1. PICK d \in Nat : b = a + d
  <2>1. b - a \in Nat /\ b = a + (b - a)  OBVIOUS
  <2> QED  BY <2>1
<1>2. c * a \in Nat /\ c * d \in Nat  OBVIOUS
<1>3. c * b = c * a + c * d  BY <1>1
<1> QED  BY <1>2, <1>3

\* How often c fits into m.
LEMMA Quotient ==
  ASSUME NEW m \in Nat, NEW c \in Nat \ {0}, NEW q \in Nat, c * q <= m, m < c * q + c
  PROVE  m \div c = q
<1> DEFINE d == m \div c
<1>1. d \in Nat /\ c * d <= m /\ m < c * d + c
  <2>1. m \div c \in Int /\ m \div c >= 0  OBVIOUS
  <2>2. c * (m \div c) <= m  OBVIOUS
  <2>3. m < c * (m \div c) + c  OBVIOUS
  <2> QED  BY <2>1, <2>2, <2>3
<1> HIDE DEF d
<1>2. ~(d < q)
  <2> SUFFICES ASSUME d < q PROVE FALSE  OBVIOUS
  <2>1. c * (d + 1) <= c * q  BY <1>1, TimesGrows
  <2>2. c * (d + 1) = c * d + c  BY <1>1
  <2>3. c * q \in Nat /\ c * d \in Nat  BY <1>1, TimesGrows
  <2> QED  BY <1>1, <2>1, <2>2, <2>3
<1>3. ~(q < d)
  <2> SUFFICES ASSUME q < d PROVE FALSE  OBVIOUS
  <2>1. c * (q + 1) <= c * d  BY <1>1, TimesGrows
  <2>2. c * (q + 1) = c * q + c  OBVIOUS
  <2>3. c * q \in Nat /\ c * d \in Nat  BY <1>1, TimesGrows
  <2> QED  BY <1>1, <2>1, <2>2, <2>3
<1>4. d = q  BY <1>1, <1>2, <1>3
<1> QED  BY <1>4 DEF d

\* At least q times.
LEMMA QuotientAtLeast ==
  ASSUME NEW m \in Nat, NEW c \in Nat \ {0}, NEW q \in Nat, c * q <= m
  PROVE  q <= m \div c
<1> DEFINE d == m \div c
<1>1. d \in Nat /\ m < c * d + c
  <2>1. m \div c \in Int /\ m \div c >= 0  OBVIOUS
  <2>2. c * (m \div c) <= m  OBVIOUS
  <2>3. m < c * (m \div c) + c  OBVIOUS
  <2> QED  BY <2>1, <2>2, <2>3
<1> HIDE DEF d
<1>2. ~(d < q)
  <2> SUFFICES ASSUME d < q PROVE FALSE  OBVIOUS
  <2>1. c * (d + 1) <= c * q  BY <1>1, TimesGrows
  <2>2. c * (d + 1) = c * d + c  BY <1>1
  <2>3. c * q \in Nat /\ c * d \in Nat  BY <1>1, TimesGrows
  <2> QED  BY <1>1, <2>1, <2>2, <2>3
<1>3. q <= d  BY <1>1, <1>2
<1> QED  BY <1>3 DEF d

\* k of F requests at cost c that fit into m, and no further one, are as many as
\* the quotient says.
LEMMA Filled ==
  ASSUME NEW m \in Nat, NEW c \in Nat \ {0}, NEW F \in Nat, NEW k \in Nat,
         k <= F, c * k <= m, k < F => m < c * k + c
  PROVE  Least(F, m \div c) = k
<1>1. CASE k = F
  <2>1. k <= m \div c  BY QuotientAtLeast
  <2> QED  BY <1>1, <2>1 DEF Least
<1>2. CASE k < F
  <2>1. m \div c = k  BY <1>2, Quotient
  <2> QED  BY <1>2, <2>1 DEF Least
<1> QED  BY <1>1, <1>2

-------------------------------------------------------------------------------
(* What a set of requests costs *)

LEMMA FlatType == Flat \in 0 .. N
BY OverrunAssumption DEF Flat, Least

LEMMA CostOfFlat ==
  ASSUME NEW i \in Bursts
  PROVE  /\ CostOf(i) = IF i <= Flat THEN Cost ELSE Dear
         /\ CostOf(i) \in Nat /\ Cost <= CostOf(i) /\ CostOf(i) <= Dear
BY OverrunAssumption DEF CostOf, Flat, Least, Bursts

LEMMA BurstsFinite ==
  /\ IsFiniteSet(Bursts) /\ Cardinality(Bursts) = N
  /\ \A S \in SUBSET Bursts : IsFiniteSet(S) /\ Cardinality(S) \in 0 .. N
<1>1. IsFiniteSet(Bursts) /\ Cardinality(Bursts) = N
  BY FS_Interval, OverrunAssumption DEF Bursts
<1>2. ASSUME NEW S \in SUBSET Bursts
      PROVE  IsFiniteSet(S) /\ Cardinality(S) \in 0 .. N
  BY <1>1, FS_Subset, FS_CardinalityType, OverrunAssumption
<1> QED  BY <1>1, <1>2

LEMMA BillType ==
  ASSUME NEW f \in 0 .. N, NEW S \in SUBSET Bursts
  PROVE  /\ Cardinality(Low(f, S)) \in Nat /\ Cardinality(High(f, S)) \in Nat
         /\ IsFiniteSet(Low(f, S)) /\ IsFiniteSet(High(f, S))
         /\ Cardinality(S) = Cardinality(Low(f, S)) + Cardinality(High(f, S))
         /\ Bill(f, S) \in Nat
<1>1. Low(f, S) \subseteq Bursts /\ High(f, S) \subseteq Bursts  BY DEF Low, High
<1>2. /\ IsFiniteSet(Low(f, S)) /\ Cardinality(Low(f, S)) \in Nat
      /\ IsFiniteSet(High(f, S)) /\ Cardinality(High(f, S)) \in Nat
  BY <1>1, BurstsFinite
<1>3. Cost * Cardinality(Low(f, S)) \in Nat /\ Dear * Cardinality(High(f, S)) \in Nat
  BY <1>2, OverrunAssumption, TimesGrows
<1>4. Bill(f, S) \in Nat  BY <1>3 DEF Bill
<1>5. S = Low(f, S) \cup High(f, S) /\ Low(f, S) \cap High(f, S) = {}
  <2>1. \A i \in S : i \in Int  BY DEF Bursts
  <2>2. \A i \in S : i <= f <=> ~(i > f)
    BY <2>1, OverrunAssumption
  <2> QED  BY <2>2 DEF Low, High
<1>6. Cardinality(S) = Cardinality(Low(f, S)) + Cardinality(High(f, S))
  BY <1>2, <1>5, FS_Union, FS_EmptySet
<1> QED  BY <1>2, <1>4, <1>6

LEMMA BillEmpty ==
  ASSUME NEW f \in 0 .. N
  PROVE  Bill(f, {}) = 0
<1>1. Low(f, {}) = {} /\ High(f, {}) = {}  BY DEF Low, High
<1> QED  BY <1>1, FS_EmptySet, OverrunAssumption DEF Bill

LEMMA BillAdd ==
  ASSUME NEW f \in 0 .. N, NEW S \in SUBSET Bursts, NEW i \in Bursts, i \notin S
  PROVE  Bill(f, S \cup {i}) = Bill(f, S) + IF i <= f THEN Cost ELSE Dear
<1>1. /\ IsFiniteSet(Low(f, S)) /\ Cardinality(Low(f, S)) \in Nat
      /\ IsFiniteSet(High(f, S)) /\ Cardinality(High(f, S)) \in Nat
  BY BillType
<1> DEFINE a == Cardinality(Low(f, S))
           b == Cardinality(High(f, S))
<1>2. Cost \in Nat /\ Dear \in Nat  BY OverrunAssumption
<1>3. CASE i <= f
  <2>1. Low(f, S \cup {i}) = Low(f, S) \cup {i} /\ i \notin Low(f, S) /\ High(f, S \cup {i}) = High(f, S)
    BY <1>3, OverrunAssumption DEF Low, High, Bursts
  <2>2. Cardinality(Low(f, S \cup {i})) = a + 1  BY <1>1, <2>1, FS_AddElement
  <2>3. Bill(f, S \cup {i}) = Cost * (a + 1) + Dear * b  BY <2>1, <2>2 DEF Bill
  <2>4. Cost * (a + 1) = Cost * a + Cost  BY <1>1, <1>2
  <2>5. Cost * a \in Nat /\ Dear * b \in Nat  BY <1>1, <1>2, TimesGrows
  <2> HIDE DEF a, b
  <2>6. Bill(f, S) = Cost * a + Dear * b  BY DEF Bill, a, b
  <2> QED  BY <1>2, <1>3, <2>3, <2>4, <2>5, <2>6
<1>4. CASE ~(i <= f)
  <2>1. High(f, S \cup {i}) = High(f, S) \cup {i} /\ i \notin High(f, S) /\ Low(f, S \cup {i}) = Low(f, S)
    BY <1>4, OverrunAssumption DEF Low, High, Bursts
  <2>2. Cardinality(High(f, S \cup {i})) = b + 1  BY <1>1, <2>1, FS_AddElement
  <2>3. Bill(f, S \cup {i}) = Cost * a + Dear * (b + 1)  BY <2>1, <2>2 DEF Bill
  <2>4. Dear * (b + 1) = Dear * b + Dear  BY <1>1, <1>2
  <2>5. Cost * a \in Nat /\ Dear * b \in Nat  BY <1>1, <1>2, TimesGrows
  <2> HIDE DEF a, b
  <2>6. Bill(f, S) = Cost * a + Dear * b  BY DEF Bill, a, b
  <2> QED  BY <1>2, <1>4, <2>3, <2>4, <2>5, <2>6
<1> QED  BY <1>3, <1>4

LEMMA BillMonotone ==
  ASSUME NEW f \in 0 .. N, NEW S \in SUBSET Bursts, NEW T \in SUBSET S
  PROVE  Bill(f, T) <= Bill(f, S)
<1>1. Low(f, T) \subseteq Low(f, S) /\ High(f, T) \subseteq High(f, S)  BY DEF Low, High
<1>2. T \in SUBSET Bursts  OBVIOUS
<1>3. /\ Cardinality(Low(f, T)) <= Cardinality(Low(f, S)) /\ Cardinality(Low(f, T)) \in Nat
      /\ Cardinality(High(f, T)) <= Cardinality(High(f, S)) /\ Cardinality(High(f, T)) \in Nat
      /\ Cardinality(Low(f, S)) \in Nat /\ Cardinality(High(f, S)) \in Nat
  BY <1>1, <1>2, BillType, FS_Subset
<1>4. /\ Cost * Cardinality(Low(f, T)) <= Cost * Cardinality(Low(f, S))
      /\ Dear * Cardinality(High(f, T)) <= Dear * Cardinality(High(f, S))
      /\ Cost * Cardinality(Low(f, T)) \in Nat /\ Cost * Cardinality(Low(f, S)) \in Nat
      /\ Dear * Cardinality(High(f, T)) \in Nat /\ Dear * Cardinality(High(f, S)) \in Nat
  BY <1>3, OverrunAssumption, TimesGrows
<1> QED  BY <1>4 DEF Bill

\* A burst of equal requests.
LEMMA BillEqual == Bill(N, Bursts) = N * Cost
<1>1. Low(N, Bursts) = Bursts /\ High(N, Bursts) = {}
  BY OverrunAssumption DEF Low, High, Bursts
<1>2. Cardinality(Low(N, Bursts)) = N /\ Cardinality(High(N, Bursts)) = 0
  BY <1>1, BurstsFinite, FS_EmptySet
<1> QED  BY <1>2, OverrunAssumption DEF Bill

-------------------------------------------------------------------------------
(* The arms *)

LEMMA ArmFacts ==
  ASSUME arm \in Arms
  PROVE  /\ arm.together \in BOOLEAN /\ arm.hop \in Nat
         /\ arm.fails \in BOOLEAN /\ arm.priced \in BOOLEAN
         /\ arm.varied \in BOOLEAN /\ arm.calls \in BOOLEAN
         /\ arm.test \in {"room", "headroom", "reserve"}
<1> DEFINE All == [together : BOOLEAN, test : {"room", "headroom", "reserve"}, hop : Nat,
                   fails : BOOLEAN, priced : BOOLEAN, varied : BOOLEAN, calls : BOOLEAN]
<1>1. CheckThenAct \in All /\ PostHoc \in All /\ BestEffort \in All /\ Unpriced \in All
  BY OverrunAssumption DEF Arm, CheckThenAct, PostHoc, BestEffort, Unpriced
<1>2. OverrunPostHoc \in All /\ OverrunEnforced \in All /\ ReplayRace \in All
  BY DEF Arm, OverrunPostHoc, OverrunEnforced, ReplayRace
<1>3. ReplayVariable \in All /\ ReplayDown \in All /\ ReplayUnpriced \in All
  BY DEF Arm, ReplayVariable, ReplayDown, ReplayUnpriced
<1>4. arm \in All
  <2> HIDE DEF All
  <2> QED  BY <1>1, <1>2, <1>3 DEF Arms
<1> QED  BY <1>4

LEMMA RaceArms ==
  ASSUME arm \in {CheckThenAct, OverrunPostHoc}
  PROVE  /\ arm.together = TRUE /\ arm.test \in {"room", "headroom"}
         /\ arm.fails = FALSE /\ arm.priced = TRUE /\ arm.varied = FALSE
BY DEF Arm, CheckThenAct, OverrunPostHoc

LEMMA PostHocArm ==
  ASSUME arm = PostHoc
  PROVE  /\ arm.together = FALSE /\ arm.test = "headroom"
         /\ arm.fails = FALSE /\ arm.priced = TRUE
BY DEF Arm, PostHoc

LEMMA NothingArms ==
  ASSUME arm \in {BestEffort, Unpriced}
  PROVE  /\ arm.test \in {"room", "headroom"} /\ arm.varied = FALSE
         /\ arm.fails = FALSE => arm.priced = FALSE
         /\ arm.test = "room" => arm.priced = FALSE
BY DEF Arm, BestEffort, Unpriced

\* The groups have nothing in common.
LEMMA ArmsApart ==
  /\ arm \in {CheckThenAct, OverrunPostHoc} => arm # PostHoc /\ arm \notin {BestEffort, Unpriced}
  /\ arm = PostHoc => arm \notin {BestEffort, Unpriced}
  /\ arm.test = "reserve" =>
       /\ arm \notin {CheckThenAct, OverrunPostHoc} /\ arm # PostHoc
       /\ arm \notin {BestEffort, Unpriced}
<1>1. arm \in {CheckThenAct, OverrunPostHoc} => arm # PostHoc  BY RaceArms, PostHocArm
<1>2. arm \in {CheckThenAct, OverrunPostHoc} => arm \notin {BestEffort, Unpriced}
  BY RaceArms, NothingArms
<1>3. arm = PostHoc => arm \notin {BestEffort, Unpriced}  BY PostHocArm, NothingArms
<1> QED  BY <1>1, <1>2, <1>3, RaceArms, PostHocArm, NothingArms

-------------------------------------------------------------------------------
(* What every step keeps *)

LEMMA Before ==
  ASSUME InOrder, NEW i \in Bursts, at[i] = "new", NEW j \in Bursts, at[j] # "new"
  PROVE  j < i
BY OverrunAssumption DEF InOrder, Bursts

\* A request that starts is the first that has not.
LEMMA StartsFirst ==
  ASSUME NEW n \in 0 .. N, \A i \in Bursts : at[i] = "new" <=> i > n,
         NEW i \in Bursts, Starts(i)
  PROVE  i = n + 1
<1>1. i > n  BY DEF Starts
<1>2. ASSUME i # n + 1 PROVE FALSE
  <2>1. i - 1 \in 1 .. i - 1 /\ i - 1 \in Bursts /\ i - 1 > n
    BY <1>1, <1>2, OverrunAssumption DEF Bursts
  <2>2. at[i - 1] = "new"  BY <2>1
  <2>3. at[i - 1] # "new"  BY <2>1 DEF Starts
  <2> QED  BY <2>2, <2>3
<1> QED  BY <1>2

\* Nothing of a gathered burst wakes before all of it has started.
LEMMA AllStarted ==
  ASSUME InOrder, arm.together = TRUE, NEW i \in Bursts, NEW t, Wakes(i, t)
  PROVE  \A j \in Bursts : at[j] # "new"
<1>1. PICK n \in 0 .. N : \A j \in Bursts : at[j] = "new" <=> j > n  BY DEF InOrder
<1>2. ASSUME n < N PROVE FALSE
  <2>1. n + 1 \in Bursts  BY <1>2, OverrunAssumption DEF Bursts
  <2>2. at[n + 1] = "new"  BY <1>1, <2>1, OverrunAssumption
  <2>3. \A j \in 1 .. (n + 1) - 1 : at[j] # "new"
    BY <1>1, <1>2, OverrunAssumption DEF Bursts
  <2>4. Starts(n + 1)  BY <2>2, <2>3 DEF Starts
  <2> QED  BY <2>1, <2>4 DEF Wakes
<1> QED  BY <1>1, <1>2, OverrunAssumption DEF Bursts

LEMMA OrderStep ==
  ASSUME TypeInv, InOrder, OneByOne, NEW i \in Bursts, NEW l,
         l # "new", arm' = arm, Goes(i, l), Starts(i) \/ at[i] \in Waiting
  PROVE  InOrder' /\ OneByOne'
<1>1. PICK n \in 0 .. N : \A j \in Bursts : at[j] = "new" <=> j > n  BY DEF InOrder
<1>2. \A j \in Bursts : at'[j] = IF j = i THEN l ELSE at[j]  BY DEF TypeInv, Goes
<1>3. InOrder'
  <2>1. CASE Starts(i)
    <3>1. i = n + 1  BY <1>1, <2>1, StartsFirst
    <3>2. \A j \in Bursts : at'[j] = "new" <=> j > n + 1
      BY <1>1, <1>2, <3>1, OverrunAssumption DEF Bursts
    <3>3. n + 1 \in 0 .. N  BY <3>1, OverrunAssumption DEF Bursts
    <3> QED  BY <3>2, <3>3 DEF InOrder
  <2>2. CASE at[i] \in Waiting
    <3>1. \A j \in Bursts : at'[j] = "new" <=> j > n  BY <1>1, <1>2, <2>2 DEF Waiting
    <3> QED  BY <3>1 DEF InOrder
  <2> QED  BY <2>1, <2>2
<1>4. OneByOne'
  <2> SUFFICES ASSUME ~arm.together, NEW k \in Bursts, NEW j \in Bursts, j < k, at'[k] # "new"
               PROVE  at'[j] \in Over
    BY DEF OneByOne
  <2>1. CASE k = i
    <3>1. j \in 1 .. i - 1 /\ j # i  BY <2>1, OverrunAssumption DEF Bursts
    <3>2. at[j] \in Over  BY <2>1, <3>1 DEF Starts, OneByOne, Waiting
    <3> QED  BY <1>2, <3>1, <3>2
  <2>2. CASE k # i
    <3>1. at[k] # "new"  BY <1>2, <2>2
    <3>2. at[j] \in Over  BY <3>1 DEF OneByOne
    <3>3. j # i  BY <3>2 DEF Starts, Waiting, Over
    <3> QED  BY <1>2, <3>2, <3>3
  <2> QED  BY <2>1, <2>2
<1> QED  BY <1>3, <1>4

LEMMA CostKept ==
  ASSUME arm' = arm
  PROVE  /\ Flat' = Flat
         /\ \A i \in Bursts : CostOf(i)' = CostOf(i)
BY DEF Flat, Least, CostOf

\* Who is where, before and after a step of i.
LEMMA InMoves ==
  ASSUME TypeInv, NEW i \in Bursts, NEW l, Goes(i, l), NEW places
  PROVE  {j \in Bursts : at'[j] \in places} =
           IF l \in places THEN {j \in Bursts : at[j] \in places} \cup {i}
                           ELSE {j \in Bursts : at[j] \in places} \ {i}
BY DEF TypeInv, Goes

\* The bill of those in certain places when i arrives, and when nobody does.
LEMMA BillArrives ==
  ASSUME TypeInv, NEW i \in Bursts, NEW l, Goes(i, l), arm' = arm,
         NEW places, l \in places, at[i] \notin places
  PROVE  Bill(Flat', {j \in Bursts : at'[j] \in places}) =
           Bill(Flat, {j \in Bursts : at[j] \in places}) + CostOf(i)
<1>1. {j \in Bursts : at'[j] \in places} = {j \in Bursts : at[j] \in places} \cup {i}
  BY InMoves
<1>2. i \notin {j \in Bursts : at[j] \in places}  OBVIOUS
<1>3. Bill(Flat, {j \in Bursts : at[j] \in places} \cup {i}) =
        Bill(Flat, {j \in Bursts : at[j] \in places}) + IF i <= Flat THEN Cost ELSE Dear
  BY <1>2, FlatType, BillAdd
<1> QED  BY <1>1, <1>3, CostKept, CostOfFlat

LEMMA BillKept ==
  ASSUME TypeInv, NEW i \in Bursts, NEW l, Goes(i, l), arm' = arm,
         NEW places, l \notin places, at[i] \notin places
  PROVE  Bill(Flat', {j \in Bursts : at'[j] \in places}) =
           Bill(Flat, {j \in Bursts : at[j] \in places})
<1>1. {j \in Bursts : at'[j] \in places} = {j \in Bursts : at[j] \in places}
  BY InMoves
<1> QED  BY <1>1, CostKept

LEMMA BillStays ==
  ASSUME TypeInv, NEW i \in Bursts, NEW l, Goes(i, l), arm' = arm,
         NEW places, l \in places, at[i] \in places
  PROVE  Bill(Flat', {j \in Bursts : at'[j] \in places}) =
           Bill(Flat, {j \in Bursts : at[j] \in places})
<1>1. {j \in Bursts : at'[j] \in places} = {j \in Bursts : at[j] \in places}
  BY InMoves
<1> QED  BY <1>1, CostKept

-------------------------------------------------------------------------------
(* Each step keeps the invariant *)

LEMMA InvInit == Init => Inv
<1> SUFFICES ASSUME Init PROVE Inv  OBVIOUS
<1>1. TypeInv  BY DEF Init, TypeInv, Waiting
<1>2. InOrder
  <2>1. \A i \in Bursts : at[i] = "new" <=> i > 0  BY DEF Init, Bursts
  <2> QED  BY <2>1, OverrunAssumption DEF InOrder
<1>3. OneByOne  BY DEF Init, OneByOne, Bursts
<1>4. BilledIsDone
  <2>1. In({"done"}) = {}  BY DEF Init, In
  <2> QED  BY <2>1, FlatType, BillEmpty DEF Init, BilledIsDone
<1>5. RaceInv  BY DEF Init, RaceInv
<1>6. PostHocInv  BY OverrunAssumption DEF Init, PostHocInv
<1>7. NothingInv  BY DEF Init, NothingInv
<1>8. EnforcedInv
  <2>1. In({"call", "done"}) = {}  BY DEF Init, In
  <2>2. spent = Bill(Flat, In({"call", "done"}))  BY <2>1, FlatType, BillEmpty DEF Init
  <2> QED  BY <2>2, OverrunAssumption DEF Init, EnforcedInv
<1> QED  BY <1>1, <1>2, <1>3, <1>4, <1>5, <1>6, <1>7, <1>8 DEF Inv

LEMMA ReserveStep ==
  ASSUME Inv, NEW i \in Bursts, ReserveOrDeny(i)
  PROVE  Inv'
<1>0. /\ TypeInv /\ InOrder /\ OneByOne /\ BilledIsDone /\ EnforcedInv
      /\ arm' = arm /\ arm.test = "reserve" /\ Starts(i) /\ at[i] = "new"
  BY DEF Inv, ReserveOrDeny, Starts
<1>1. CostOf(i) \in Nat /\ CostOf(i)' = CostOf(i)  BY <1>0, CostOfFlat, CostKept
<1>2. /\ RaceInv' /\ PostHocInv' /\ NothingInv'
  BY <1>0, ArmsApart DEF RaceInv, PostHocInv, NothingInv
<1>3. CASE arm.fails \/ ~arm.priced \/ ~Fits(i)
  <2>1. Goes(i, "denied") /\ UNCHANGED <<now, due, spent, billed>>
    BY <1>3 DEF ReserveOrDeny
  <2>2. \A j \in Bursts : at'[j] = IF j = i THEN "denied" ELSE at[j]
    BY <1>0, <2>1 DEF TypeInv, Goes
  <2>3. TypeInv'  BY <1>0, <2>1 DEF TypeInv, Goes
  <2>4. InOrder' /\ OneByOne'  BY <1>0, <2>1, OrderStep
  <2>5. BilledIsDone'
    <3>1. Bill(Flat', {j \in Bursts : at'[j] \in {"done"}}) =
            Bill(Flat, {j \in Bursts : at[j] \in {"done"}})
      <4>1. "denied" \notin {"done"} /\ at[i] \notin {"done"}  BY <1>0
      <4> QED  BY <1>0, <2>1, <4>1, BillKept
    <3> QED  BY <1>0, <2>1, <3>1 DEF BilledIsDone, In
  <2>6. EnforcedInv'
    <3>1. Bill(Flat', {j \in Bursts : at'[j] \in {"call", "done"}}) =
            Bill(Flat, {j \in Bursts : at[j] \in {"call", "done"}})
      <4>1. "denied" \notin {"call", "done"} /\ at[i] \notin {"call", "done"}  BY <1>0
      <4> QED  BY <1>0, <2>1, <4>1, BillKept
    <3>2. spent' = Bill(Flat', In({"call", "done"})')
      BY <1>0, <2>1, <3>1 DEF EnforcedInv, In
    <3>3. \A j \in Bursts : at'[j] \notin {"read", "write"}
      BY <1>0, <2>2 DEF EnforcedInv
    <3>4. arm.fails \/ ~arm.priced => \A j \in Bursts : at'[j] \notin {"call", "done"}
      BY <1>0, <2>2 DEF EnforcedInv
    <3>5. ASSUME ~arm.fails, arm.priced
          PROVE  \A j \in Bursts : at'[j] = "denied" => spent' + CostOf(j)' > Ceiling
      <4> SUFFICES ASSUME NEW j \in Bursts, at'[j] = "denied"
                   PROVE  spent + CostOf(j) > Ceiling
        BY <1>0, <2>1, CostKept
      <4>1. CASE j = i
        BY <1>0, <1>1, <1>3, <3>5, <4>1, OverrunAssumption DEF Fits, TypeInv
      <4>2. CASE j # i  BY <1>0, <2>2, <3>5, <4>2 DEF EnforcedInv
      <4> QED  BY <4>1, <4>2
    <3>6. ASSUME ~arm.fails, arm.priced, NEW j \in Bursts, NEW k \in Bursts,
                 j <= Flat, k > Flat, at'[j] = "denied", at'[k] \in {"call", "done"}
          PROVE  FALSE
      <4>1. k # i /\ at[k] \in {"call", "done"}  BY <2>2, <3>6
      <4>2. CASE j = i
        <5>1. k < i  BY <1>0, <4>1, Before
        <5> QED  BY <3>6, <4>2, <5>1, FlatType, OverrunAssumption DEF Bursts
      <4>3. CASE j # i  BY <1>0, <2>2, <3>6, <4>1, <4>3 DEF EnforcedInv
      <4> QED  BY <4>2, <4>3
    <3>7. Flat' = Flat /\ spent' = spent /\ spent <= Ceiling
      BY <1>0, <2>1, CostKept DEF EnforcedInv
    <3> QED  BY <1>0, <3>2, <3>3, <3>4, <3>5, <3>6, <3>7 DEF EnforcedInv
  <2> QED  BY <1>2, <2>3, <2>4, <2>5, <2>6 DEF Inv
<1>4. ASSUME ~arm.fails, arm.priced, Fits(i), NEW l \in {"call", "done"}, Goes(i, l),
             spent' = spent + CostOf(i), now' = now, due' \in [Bursts -> Nat],
             billed' = IF l = "done" THEN billed + CostOf(i) ELSE billed
      PROVE  Inv'
  <2>2. \A j \in Bursts : at'[j] = IF j = i THEN l ELSE at[j]
    BY <1>0, <1>4 DEF TypeInv, Goes
  <2>3. TypeInv'  BY <1>0, <1>1, <1>4 DEF TypeInv, Goes, Waiting
  <2>4. InOrder' /\ OneByOne'  BY <1>0, <1>4, OrderStep
  <2>5. BilledIsDone'
    <3>1. CASE l = "done"
      <4>1. Bill(Flat', {j \in Bursts : at'[j] \in {"done"}}) =
              Bill(Flat, {j \in Bursts : at[j] \in {"done"}}) + CostOf(i)
        BY <1>0, <1>4, <3>1, BillArrives
      <4> QED  BY <1>0, <1>4, <3>1, <4>1 DEF BilledIsDone, In
    <3>2. CASE l = "call"
      <4>1. Bill(Flat', {j \in Bursts : at'[j] \in {"done"}}) =
              Bill(Flat, {j \in Bursts : at[j] \in {"done"}})
        <5>1. "call" \notin {"done"} /\ at[i] \notin {"done"}  BY <1>0
        <5>2. TypeInv /\ arm' = arm /\ Goes(i, "call")  BY <1>0, <1>4, <3>2
        <5> QED  BY <5>1, <5>2, BillKept
      <4> QED  BY <1>0, <1>4, <3>2, <4>1 DEF BilledIsDone, In
    <3> QED  BY <1>4, <3>1, <3>2
  <2>6. EnforcedInv'
    <3>1. Bill(Flat', {j \in Bursts : at'[j] \in {"call", "done"}}) =
            Bill(Flat, {j \in Bursts : at[j] \in {"call", "done"}}) + CostOf(i)
      BY <1>0, <1>4, BillArrives
    <3>2. spent' = Bill(Flat', In({"call", "done"})')
      BY <1>0, <1>4, <3>1 DEF EnforcedInv, In
    <3>3. \A j \in Bursts : at'[j] \notin {"read", "write"}
      BY <1>0, <1>4, <2>2 DEF EnforcedInv
    <3>4. spent' <= Ceiling /\ spent' >= spent
      BY <1>0, <1>1, <1>4 DEF Fits, TypeInv
    <3>5. ASSUME NEW j \in Bursts, at'[j] = "denied"
          PROVE  /\ at[j] = "denied" /\ j # i /\ spent + CostOf(j) > Ceiling
                 /\ spent' + CostOf(j)' > Ceiling
      <4>1. at[j] = "denied" /\ j # i  BY <1>4, <2>2, <3>5
      <4>2. spent + CostOf(j) > Ceiling  BY <1>0, <1>4, <4>1 DEF EnforcedInv
      <4>3. CostOf(j)' = CostOf(j) /\ CostOf(j) \in Nat  BY <1>0, CostKept, CostOfFlat
      <4>4. spent \in Nat /\ spent' \in Nat  BY <1>0, <2>3 DEF TypeInv
      <4> QED  BY <3>4, <4>1, <4>2, <4>3, <4>4, OverrunAssumption
    <3>6. ASSUME NEW j \in Bursts, NEW k \in Bursts,
                 j <= Flat, k > Flat, at'[j] = "denied", at'[k] \in {"call", "done"}
          PROVE  FALSE
      <4>1. at[j] = "denied" /\ spent + CostOf(j) > Ceiling  BY <3>5, <3>6
      <4>2. CASE k = i
        <5>1. CostOf(j) = Cost /\ CostOf(i) \in Nat /\ Cost <= CostOf(i)
          BY <3>6, CostOfFlat
        <5> QED  BY <1>0, <1>4, <4>1, <5>1, OverrunAssumption DEF Fits, TypeInv
      <4>3. CASE k # i  BY <1>0, <1>4, <2>2, <3>6, <4>1, <4>3 DEF EnforcedInv
      <4> QED  BY <4>2, <4>3
    <3>7. Flat' = Flat  BY <1>0, CostKept
    <3> QED  BY <1>0, <1>4, <3>2, <3>3, <3>4, <3>5, <3>6, <3>7 DEF EnforcedInv
  <2> QED  BY <1>2, <2>3, <2>4, <2>5, <2>6 DEF Inv
<1>5. CASE ~(arm.fails \/ ~arm.priced \/ ~Fits(i))
  <2>1. spent' = spent + CostOf(i) /\ now' = now  BY <1>5 DEF ReserveOrDeny
  <2>2. CASE arm.calls
    <3>1. Goes(i, "call") /\ Sleep(i, now, Call) /\ UNCHANGED billed
      BY <1>5, <2>2 DEF ReserveOrDeny
    <3>2. due' \in [Bursts -> Nat]
      BY <1>0, <3>1, OverrunAssumption DEF Sleep, TypeInv
    <3> QED  BY <1>4, <1>5, <2>1, <3>1, <3>2
  <2>3. CASE ~arm.calls
    <3>1. Goes(i, "done") /\ billed' = billed + CostOf(i) /\ UNCHANGED due
      BY <1>5, <2>3 DEF ReserveOrDeny
    <3> QED  BY <1>0, <1>4, <1>5, <2>1, <3>1 DEF TypeInv
  <2> QED  BY <2>2, <2>3
<1> QED  BY <1>3, <1>5

\* A burst that is admitted in full has room at every test.
LEMMA AdmitsAll ==
  ASSUME TypeInv, RaceInv, NothingInv, NEW i \in Bursts, at[i] \in {"new", "read"},
         arm \in {CheckThenAct, OverrunPostHoc} \/ arm \in {BestEffort, Unpriced}
  PROVE  Admits(i)
<1>1. spent = 0  BY DEF RaceInv, NothingInv
<1>2. CASE arm \in {CheckThenAct, OverrunPostHoc}
  <2>1. PriceOf(i) = Cost  BY <1>2, RaceArms DEF PriceOf, CostOf
  <2> QED  BY <1>1, <2>1, OverrunAssumption DEF Admits
<1>3. CASE arm \in {BestEffort, Unpriced}
  <2>1. arm.test = "room" => PriceOf(i) = 0  BY <1>3, NothingArms DEF PriceOf
  <2> QED  BY <1>1, <2>1, OverrunAssumption DEF Admits
<1> QED  BY <1>2, <1>3

\* Steps that record nothing.
LEMMA MoveStep ==
  ASSUME Inv, NEW i \in Bursts, NEW l \in {"read", "call", "write", "denied"}, Goes(i, l),
         Starts(i) \/ at[i] \in Waiting, arm.test # "reserve",
         UNCHANGED <<arm, spent, billed>>, now' \in Nat, due' \in [Bursts -> Nat],
         \A j \in Bursts \ {i} : due'[j] = due[j],
         l = "denied" => arm = PostHoc \/ arm \notin {CheckThenAct, OverrunPostHoc, BestEffort, Unpriced},
         arm = PostHoc /\ l \in {"call", "write"} => spent < Ceiling,
         arm \in {CheckThenAct, OverrunPostHoc} =>
           /\ l = "read" => spent = 0 /\ due'[i] = arm.hop
           /\ l \in {"call", "write"} => due'[i] > arm.hop
           /\ \A j \in Bursts : at[j] = "new" => now' = now
  PROVE  Inv'
<1>0. /\ TypeInv /\ InOrder /\ OneByOne /\ BilledIsDone /\ RaceInv /\ PostHocInv /\ NothingInv
  BY DEF Inv
<1>1. \A j \in Bursts : at'[j] = IF j = i THEN l ELSE at[j]
  BY <1>0 DEF TypeInv, Goes
<1>2. TypeInv'  BY <1>0 DEF TypeInv, Goes, Waiting
<1>3. InOrder' /\ OneByOne'  BY <1>0, OrderStep
<1>4. BilledIsDone'
  <2>1. l \notin {"done"} /\ at[i] \notin {"done"}  BY DEF Starts, Waiting
  <2>2. {j \in Bursts : at'[j] \in {"done"}} = {j \in Bursts : at[j] \in {"done"}}
    BY <1>1, <2>1
  <2>3. In({"done"})' = In({"done"})  BY <2>2 DEF In
  <2> QED  BY <1>0, <2>3, CostKept DEF BilledIsDone
<1>5. RaceInv'
  <2> SUFFICES ASSUME arm \in {CheckThenAct, OverrunPostHoc}, NEW j \in Bursts
               PROVE  /\ at'[j] # "denied"
                      /\ at'[j] = "read" => due'[j] = arm.hop
                      /\ at'[j] \in {"call", "write"} => due'[j] > arm.hop
                      /\ at'[j] \in {"new", "read"} => spent = 0
                      /\ at'[j] = "new" => now' = 0
    BY DEF RaceInv
  <2>1. arm # PostHoc  BY ArmsApart
  <2>2. CASE j = i  BY <1>1, <2>1, <2>2
  <2>3. CASE j # i  BY <1>0, <1>1, <2>3 DEF RaceInv
  <2> QED  BY <2>2, <2>3
<1>6. PostHocInv'  BY <1>0, <1>1 DEF PostHocInv
<1>7. NothingInv'
  <2> SUFFICES ASSUME arm \in {BestEffort, Unpriced}
               PROVE  spent = 0 /\ \A j \in Bursts : at'[j] # "denied"
    BY DEF NothingInv
  <2>1. l # "denied"  BY ArmsApart
  <2> QED  BY <1>0, <1>1, <2>1 DEF NothingInv
<1>8. EnforcedInv'  BY DEF EnforcedInv
<1> QED  BY <1>2, <1>3, <1>4, <1>5, <1>6, <1>7, <1>8 DEF Inv

LEMMA SleepType ==
  ASSUME TypeInv, NEW i \in Bursts, NEW t \in Nat, NEW time \in Nat, Sleep(i, t, time)
  PROVE  /\ due' \in [Bursts -> Nat] /\ due'[i] = t + time
         /\ \A j \in Bursts \ {i} : due'[j] = due[j]
BY DEF TypeInv, Sleep

LEMMA StartReadingStep ==
  ASSUME Inv, NEW i \in Bursts, StartReading(i)
  PROVE  Inv'
<1>0. /\ TypeInv /\ RaceInv /\ Starts(i) /\ at[i] = "new" /\ arm.test # "reserve"
      /\ Goes(i, "read") /\ Sleep(i, now, arm.hop) /\ UNCHANGED <<arm, now, spent, billed>>
  BY DEF Inv, StartReading, Starts
<1>1. now \in Nat /\ arm.hop \in Nat  BY <1>0, ArmFacts DEF TypeInv
<1>2. /\ due' \in [Bursts -> Nat] /\ due'[i] = now + arm.hop
      /\ \A j \in Bursts \ {i} : due'[j] = due[j]
  BY <1>0, <1>1, SleepType
<1>3. arm \in {CheckThenAct, OverrunPostHoc} => spent = 0 /\ now = 0
  BY <1>0 DEF RaceInv
<1>4. arm \in {CheckThenAct, OverrunPostHoc} => due'[i] = arm.hop
  BY <1>1, <1>2, <1>3
<1> QED  BY <1>0, <1>1, <1>2, <1>3, <1>4, MoveStep

\* The decision, at once or on what was read.
LEMMA DecideStep ==
  ASSUME Inv, NEW i \in Bursts, NEW t \in Nat, Decide(i, t), now' = t,
         Starts(i) \/ at[i] = "read", arm.test # "reserve",
         UNCHANGED <<arm, spent, billed>>,
         arm \in {CheckThenAct, OverrunPostHoc} =>
           /\ t >= arm.hop
           /\ \A j \in Bursts : at[j] = "new" => now' = now
  PROVE  Inv'
<1>0. TypeInv /\ RaceInv /\ NothingInv /\ at[i] \in {"new", "read"} /\ arm.hop \in Nat
  BY ArmFacts DEF Inv, TypeInv, Starts
<1>1. CASE Admits(i)
  <2>1. Goes(i, "call") /\ Sleep(i, t, Call)  BY <1>1 DEF Decide
  <2>2. /\ due' \in [Bursts -> Nat] /\ due'[i] = t + Call
        /\ \A j \in Bursts \ {i} : due'[j] = due[j]
    BY <1>0, <2>1, OverrunAssumption, SleepType
  <2>3. arm = PostHoc => spent < Ceiling  BY <1>1, PostHocArm DEF Admits
  <2>4. arm \in {CheckThenAct, OverrunPostHoc} => due'[i] > arm.hop
    BY <1>0, <2>2, OverrunAssumption
  <2>5. Starts(i) \/ at[i] \in Waiting  BY DEF Waiting
  <2> QED  BY <2>1, <2>2, <2>3, <2>4, <2>5, MoveStep
<1>2. CASE ~Admits(i)
  <2>1. Goes(i, "denied") /\ UNCHANGED due  BY <1>2 DEF Decide
  <2>2. arm \notin {CheckThenAct, OverrunPostHoc} /\ arm \notin {BestEffort, Unpriced}
    BY <1>0, <1>2, AdmitsAll
  <2>3. due' \in [Bursts -> Nat] /\ \A j \in Bursts \ {i} : due'[j] = due[j]
    BY <1>0, <2>1 DEF TypeInv
  <2>4. Starts(i) \/ at[i] \in Waiting  BY DEF Waiting
  <2> QED  BY <2>1, <2>2, <2>3, <2>4, MoveStep
<1> QED  BY <1>1, <1>2

LEMMA DecideAtOnceStep ==
  ASSUME Inv, NEW i \in Bursts, DecideAtOnce(i)
  PROVE  Inv'
<1>1. /\ Starts(i) /\ arm.test # "reserve" /\ arm.hop = 0 /\ Decide(i, now)
      /\ UNCHANGED <<arm, now, spent, billed>>
  BY DEF DecideAtOnce
<1>2. now \in Nat  BY DEF Inv, TypeInv
<1> QED  BY <1>1, <1>2, DecideStep

\* A task does not wake before its sleep is due.
LEMMA WakesTime ==
  ASSUME TypeInv, NEW i \in Bursts, NEW t, Wakes(i, t)
  PROVE  t \in Nat /\ now' = t /\ t >= due[i]
<1>1. now \in Nat /\ due[i] \in Nat  BY DEF TypeInv
<1>2. t \in Greatest(now, due[i]) .. Greatest(now, due[i]) + MaxLate /\ now' = t
  BY DEF Wakes
<1> QED  BY <1>1, <1>2, OverrunAssumption DEF Greatest

LEMMA ReadEndsStep ==
  ASSUME Inv, NEW i \in Bursts, NEW t, ReadEnds(i, t)
  PROVE  Inv'
<1>1. /\ at[i] = "read" /\ Wakes(i, t) /\ Decide(i, t) /\ UNCHANGED <<arm, spent, billed>>
      /\ TypeInv /\ InOrder /\ RaceInv /\ EnforcedInv
  BY DEF Inv, ReadEnds
<1>2. t \in Nat /\ now' = t /\ t >= due[i]  BY <1>1, WakesTime
<1>3. arm.test # "reserve"  BY <1>1 DEF EnforcedInv
<1>4. ASSUME arm \in {CheckThenAct, OverrunPostHoc}
      PROVE  t >= arm.hop /\ \A j \in Bursts : at[j] # "new"
  <2>1. due[i] = arm.hop  BY <1>1, <1>4 DEF RaceInv
  <2>2. \A j \in Bursts : at[j] # "new"  BY <1>1, <1>4, RaceArms, AllStarted
  <2> QED  BY <1>2, <2>1, <2>2
<1> QED  BY <1>1, <1>2, <1>3, <1>4, DecideStep

\* One request at a time: while one of them waits, no other does.
LEMMA OthersRest ==
  ASSUME OneByOne, arm.together = FALSE, NEW i \in Bursts, at[i] \in Waiting,
         NEW j \in Bursts, j # i
  PROVE  at[j] \notin Waiting
<1>1. CASE j < i  BY <1>1 DEF OneByOne, Waiting, Over
<1>2. CASE i < j  BY <1>2 DEF OneByOne, Waiting, Over
<1> QED  BY <1>1, <1>2 DEF Bursts

\* In a gathered burst, nothing is written while somebody still reads.
LEMMA NobodyReads ==
  ASSUME TypeInv, InOrder, RaceInv, arm \in {CheckThenAct, OverrunPostHoc},
         NEW i \in Bursts, at[i] \in {"call", "write"}, NEW t, Wakes(i, t),
         NEW j \in Bursts
  PROVE  at[j] \notin {"new", "read"}
<1>1. at[j] # "new"  BY RaceArms, AllStarted
<1>2. ASSUME at[j] = "read" PROVE FALSE
  <2>1. due[i] <= due[j]  BY <1>2 DEF Wakes
  <2>2. due[j] = arm.hop /\ due[i] > arm.hop  BY <1>2 DEF RaceInv
  <2>3. due[i] \in Nat /\ arm.hop \in Nat  BY ArmFacts DEF TypeInv
  <2> QED  BY <2>1, <2>2, <2>3
<1> QED  BY <1>1, <1>2

\* A call, or the write after it, ends: what it cost is billed and recorded.
LEMMA RecordStep ==
  ASSUME Inv, NEW i \in Bursts, NEW t, Wakes(i, t), at[i] \in {"call", "write"},
         Goes(i, "done"), Record(i), arm.test # "reserve", UNCHANGED <<arm, due>>
  PROVE  Inv'
<1>0. /\ TypeInv /\ InOrder /\ OneByOne /\ BilledIsDone /\ RaceInv /\ PostHocInv /\ NothingInv
      /\ spent \in Nat /\ billed \in Nat /\ Ceiling \in Nat /\ Dear \in Nat
  BY OverrunAssumption DEF Inv, TypeInv
<1>1. \A j \in Bursts : at'[j] = IF j = i THEN "done" ELSE at[j]
  BY <1>0 DEF TypeInv, Goes
<1>2. CostOf(i) \in Nat /\ CostOf(i) <= Dear /\ PriceOf(i) \in Nat
  BY CostOfFlat DEF PriceOf
<1>3. t \in Nat /\ now' = t  BY <1>0, WakesTime
<1>4. TypeInv'
  BY <1>0, <1>2, <1>3 DEF TypeInv, Goes, Record
<1>5. InOrder' /\ OneByOne'
  <2>1. at[i] \in Waiting  BY DEF Waiting
  <2> QED  BY <1>0, <2>1, OrderStep
<1>6. BilledIsDone'
  <2>1. Bill(Flat', {j \in Bursts : at'[j] \in {"done"}}) =
          Bill(Flat, {j \in Bursts : at[j] \in {"done"}}) + CostOf(i)
    BY <1>0, BillArrives
  <2> QED  BY <1>0, <2>1 DEF BilledIsDone, In, Record
<1>7. RaceInv'
  <2> SUFFICES ASSUME arm \in {CheckThenAct, OverrunPostHoc}, NEW j \in Bursts
               PROVE  /\ at'[j] # "denied"
                      /\ at'[j] = "read" => due'[j] = arm.hop
                      /\ at'[j] \in {"call", "write"} => due'[j] > arm.hop
                      /\ at'[j] \in {"new", "read"} => spent' = 0
                      /\ at'[j] = "new" => now' = 0
    BY DEF RaceInv
  <2>1. at[j] \notin {"new", "read"}  BY <1>0, NobodyReads
  <2> QED  BY <1>0, <1>1, <2>1 DEF RaceInv
<1>8. PostHocInv'
  <2> SUFFICES ASSUME arm = PostHoc
               PROVE  /\ billed' = spent'
                      /\ billed' < Ceiling + Dear
                      /\ \A j \in Bursts : at'[j] \notin {"call", "write"}
    BY DEF PostHocInv
  <2>1. spent' = spent + CostOf(i) /\ billed' = billed + CostOf(i)
    BY PostHocArm DEF Record, PriceOf
  <2>2. billed = spent /\ spent < Ceiling  BY <1>0 DEF PostHocInv
  <2>3. ASSUME NEW j \in Bursts PROVE at'[j] \notin {"call", "write"}
    <3>1. j # i => at[j] \notin Waiting  BY <1>0, PostHocArm, OthersRest DEF Waiting
    <3> QED  BY <1>1, <3>1 DEF Waiting
  <2> QED  BY <1>0, <1>2, <2>1, <2>2, <2>3
<1>9. NothingInv'
  <2> SUFFICES ASSUME arm \in {BestEffort, Unpriced}
               PROVE  spent' = 0 /\ \A j \in Bursts : at'[j] # "denied"
    BY DEF NothingInv
  <2>1. arm.fails \/ PriceOf(i) = 0
    <3>1. arm.fails \in BOOLEAN  BY <1>0, ArmFacts DEF TypeInv
    <3> QED  BY <3>1, NothingArms DEF PriceOf
  <2>2. spent' = 0  BY <1>0, <2>1 DEF NothingInv, Record
  <2> QED  BY <1>0, <1>1, <2>2 DEF NothingInv
<1>10. EnforcedInv'  BY DEF EnforcedInv
<1> QED  BY <1>4, <1>5, <1>6, <1>7, <1>8, <1>9, <1>10 DEF Inv

LEMMA WriteEndsStep ==
  ASSUME Inv, NEW i \in Bursts, NEW t, WriteEnds(i, t)
  PROVE  Inv'
<1>1. /\ at[i] = "write" /\ Wakes(i, t) /\ Record(i) /\ Goes(i, "done")
      /\ UNCHANGED <<arm, due>>
  BY DEF WriteEnds
<1>2. arm.test # "reserve"  BY <1>1 DEF Inv, EnforcedInv
<1> QED  BY <1>1, <1>2, RecordStep

\* A reserved call ends: what it cost is already spent.
LEMMA SettleStep ==
  ASSUME Inv, NEW i \in Bursts, NEW t, Wakes(i, t), at[i] = "call", arm.test = "reserve",
         Goes(i, "done"), billed' = billed + CostOf(i), UNCHANGED <<arm, due, spent>>
  PROVE  Inv'
<1>0. TypeInv /\ InOrder /\ OneByOne /\ BilledIsDone /\ EnforcedInv
  BY DEF Inv
<1>1. \A j \in Bursts : at'[j] = IF j = i THEN "done" ELSE at[j]
  BY <1>0 DEF TypeInv, Goes
<1>2. CostOf(i) \in Nat /\ t \in Nat /\ now' = t  BY <1>0, CostOfFlat, WakesTime
<1>3. TypeInv'  BY <1>0, <1>2 DEF TypeInv, Goes
<1>4. InOrder' /\ OneByOne'
  <2>1. at[i] \in Waiting  BY DEF Waiting
  <2> QED  BY <1>0, <2>1, OrderStep
<1>5. BilledIsDone'
  <2>1. Bill(Flat', {j \in Bursts : at'[j] \in {"done"}}) =
          Bill(Flat, {j \in Bursts : at[j] \in {"done"}}) + CostOf(i)
    BY <1>0, BillArrives
  <2> QED  BY <1>0, <2>1 DEF BilledIsDone, In
<1>6. RaceInv' /\ PostHocInv' /\ NothingInv'
  BY ArmsApart DEF RaceInv, PostHocInv, NothingInv
<1>7. EnforcedInv'
  <2>1. Bill(Flat', {j \in Bursts : at'[j] \in {"call", "done"}}) =
          Bill(Flat, {j \in Bursts : at[j] \in {"call", "done"}})
    BY <1>0, BillStays
  <2>2. spent' = Bill(Flat', In({"call", "done"})')
    BY <1>0, <2>1 DEF EnforcedInv, In
  <2>3. \A j \in Bursts : /\ at'[j] = "denied" <=> at[j] = "denied"
                          /\ at'[j] \in {"call", "done"} <=> at[j] \in {"call", "done"}
                          /\ at'[j] \notin {"read", "write"}
    BY <1>0, <1>1 DEF EnforcedInv
  <2>4. Flat' = Flat /\ \A j \in Bursts : CostOf(j)' = CostOf(j)
    BY CostKept
  <2> QED  BY <1>0, <2>2, <2>3, <2>4 DEF EnforcedInv
<1> QED  BY <1>3, <1>4, <1>5, <1>6, <1>7 DEF Inv

LEMMA CallEndsStep ==
  ASSUME Inv, NEW i \in Bursts, NEW t, CallEnds(i, t)
  PROVE  Inv'
<1>0. /\ at[i] = "call" /\ Wakes(i, t) /\ arm' = arm
      /\ TypeInv /\ InOrder /\ RaceInv /\ PostHocInv
  BY DEF Inv, CallEnds
<1>1. CASE arm.test = "reserve"
  BY <1>0, <1>1, SettleStep DEF CallEnds
<1>2. CASE arm.test # "reserve" /\ arm.hop > 0
  <2>1. Goes(i, "write") /\ Sleep(i, t, arm.hop) /\ UNCHANGED <<spent, billed>>
    BY <1>2 DEF CallEnds
  <2>2. t \in Nat /\ now' = t /\ t >= due[i]  BY <1>0, WakesTime
  <2>3. arm.hop \in Nat /\ due[i] \in Nat  BY <1>0, ArmFacts DEF TypeInv
  <2>4. /\ due' \in [Bursts -> Nat] /\ due'[i] = t + arm.hop
        /\ \A j \in Bursts \ {i} : due'[j] = due[j]
    BY <1>0, <2>1, <2>2, <2>3, SleepType
  <2>5. arm = PostHoc => spent < Ceiling  BY <1>0 DEF PostHocInv
  <2>6. ASSUME arm \in {CheckThenAct, OverrunPostHoc}
        PROVE  due'[i] > arm.hop /\ \A j \in Bursts : at[j] # "new"
    <3>1. due[i] > arm.hop  BY <1>0, <2>6 DEF RaceInv
    <3>2. \A j \in Bursts : at[j] # "new"  BY <1>0, <2>6, RaceArms, AllStarted
    <3> QED  BY <2>2, <2>3, <2>4, <3>1, <3>2
  <2>7. Starts(i) \/ at[i] \in Waiting  BY <1>0 DEF Waiting
  <2> QED  BY <1>0, <1>2, <2>1, <2>2, <2>4, <2>5, <2>6, <2>7, MoveStep
<1>3. CASE arm.test # "reserve" /\ ~(arm.hop > 0)
  <2>1. Goes(i, "done") /\ Record(i) /\ UNCHANGED due  BY <1>3 DEF CallEnds
  <2> QED  BY <1>0, <1>3, <2>1, RecordStep
<1> QED  BY <1>1, <1>2, <1>3

LEMMA InvStep == Inv /\ [Next]_vars => Inv'
<1> SUFFICES ASSUME Inv, [Next]_vars PROVE Inv'  OBVIOUS
<1>1. CASE UNCHANGED vars
  BY <1>1 DEF vars, Inv, TypeInv, InOrder, OneByOne, BilledIsDone, In, RaceInv, PostHocInv,
              NothingInv, EnforcedInv, Flat, CostOf, Least
<1>2. CASE Next
  <2>1. PICK i \in Bursts :
          \/ ReserveOrDeny(i) \/ StartReading(i) \/ DecideAtOnce(i)
          \/ \E t \in Times : ReadEnds(i, t) \/ CallEnds(i, t) \/ WriteEnds(i, t)
    BY <1>2 DEF Next
  <2>2. CASE ReserveOrDeny(i)  BY <2>2, ReserveStep
  <2>3. CASE StartReading(i)  BY <2>3, StartReadingStep
  <2>4. CASE DecideAtOnce(i)  BY <2>4, DecideAtOnceStep
  <2>5. CASE \E t \in Times : ReadEnds(i, t)  BY <2>5, ReadEndsStep
  <2>6. CASE \E t \in Times : CallEnds(i, t)  BY <2>6, CallEndsStep
  <2>7. CASE \E t \in Times : WriteEnds(i, t)  BY <2>7, WriteEndsStep
  <2> QED  BY <2>1, <2>2, <2>3, <2>4, <2>5, <2>6, <2>7
<1> QED  BY <1>1, <1>2

LEMMA OverrunInvariant == Spec => []Inv
<1>1. Spec => []Inv  BY InvInit, InvStep, PTL DEF Spec
<1> QED  BY <1>1

-------------------------------------------------------------------------------
(* What the patterns admit and what they are billed *)

\* A burst that is over, with nothing denied, was admitted in full.
LEMMA AllAdmitted ==
  ASSUME Inv, Ended, arm.varied = FALSE, \A i \in Bursts : at[i] # "denied"
  PROVE  Allowed = N /\ billed = N * Cost
<1>1. \A i \in Bursts : at[i] = "done"  BY DEF Ended, Over
<1>2. In({"done"}) = Bursts  BY <1>1 DEF In
<1>3. {i \in Bursts : at[i] \notin {"new", "read", "denied"}} = Bursts  BY <1>1
<1>4. Flat = N  BY DEF Flat
<1> QED  BY <1>2, <1>3, <1>4, BillEqual, BurstsFinite DEF Allowed, Inv, BilledIsDone

\* The documentation's claim about check-then-act, and about the demo's post-hoc
\* arm: a gathered burst of any size, however late its tasks wake, is admitted in
\* full and costs N times the price of a call.
THEOREM RaceTheorem == Spec => []RaceFailsOpen
<1>1. Inv => RaceFailsOpen
  <2> SUFFICES ASSUME Inv, Ended, arm \in {CheckThenAct, OverrunPostHoc}
               PROVE  Allowed = N /\ billed = N * Cost
    BY DEF RaceFailsOpen
  <2>1. \A i \in Bursts : at[i] # "denied"  BY DEF Inv, RaceInv
  <2> QED  BY <2>1, RaceArms, AllAdmitted
<1> QED  BY <1>1, OverrunInvariant, PTL

\* Post-hoc accounting, one request after the other, overspends by less than the
\* cost of one long call.
THEOREM PostHocTheorem == Spec => []PostHocBound
<1>1. Inv => PostHocBound  BY DEF Inv, PostHocInv, PostHocBound
<1> QED  BY <1>1, OverrunInvariant, PTL

\* Where the write is swallowed or the model has no price, a burst of any size is
\* admitted in full and nothing of it shows on the counter.
THEOREM NothingTheorem == Spec => []NothingShows
<1>1. Inv => NothingShows
  <2> SUFFICES ASSUME Inv, Ended, arm \in {BestEffort, Unpriced}
               PROVE  Allowed = N /\ spent = 0 /\ billed = N * Cost
    BY DEF NothingShows
  <2>1. spent = 0 /\ \A i \in Bursts : at[i] # "denied"  BY DEF Inv, NothingInv
  <2> QED  BY <2>1, NothingArms, AllAdmitted
<1> QED  BY <1>1, OverrunInvariant, PTL

\* How many of the cheap and of the long requests are admitted at most, and what
\* it means that one of them is not.
LEMMA Counts ==
  ASSUME NEW S \in SUBSET Bursts, NEW f \in 0 .. N
  PROVE  /\ Cardinality(Low(f, S)) \in 0 .. f
         /\ Cardinality(High(f, S)) \in 0 .. N - f
         /\ Cardinality(Low(f, S)) < f => \E i \in Bursts \ S : i <= f
         /\ Cardinality(High(f, S)) < N - f => \E i \in Bursts \ S : i > f
         /\ Cardinality(High(f, S)) > 0 => \E i \in S : i > f
<1>1. /\ IsFiniteSet(1 .. f) /\ Cardinality(1 .. f) = f
      /\ IsFiniteSet((f + 1) .. N) /\ Cardinality((f + 1) .. N) = N - f
  <2>1. f \in Nat /\ f + 1 \in Int /\ N \in Int /\ f <= N  BY OverrunAssumption
  <2>2. IsFiniteSet(1 .. f) /\ Cardinality(1 .. f) = IF 1 > f THEN 0 ELSE f - 1 + 1
    BY <2>1, FS_Interval
  <2>3. /\ IsFiniteSet((f + 1) .. N)
        /\ Cardinality((f + 1) .. N) = IF f + 1 > N THEN 0 ELSE N - (f + 1) + 1
    BY <2>1, FS_Interval
  <2> QED  BY <2>1, <2>2, <2>3
<1>2. Low(f, S) \subseteq 1 .. f /\ High(f, S) \subseteq (f + 1) .. N
  <2>1. \A i \in S : i \in Nat /\ 1 <= i /\ i <= N  BY OverrunAssumption DEF Bursts
  <2>2. f \in Nat /\ N \in Nat  BY OverrunAssumption
  <2> QED  BY <2>1, <2>2 DEF Low, High
<1>3. /\ Cardinality(Low(f, S)) \in Nat /\ Cardinality(Low(f, S)) <= f
      /\ Cardinality(High(f, S)) \in Nat /\ Cardinality(High(f, S)) <= N - f
  BY <1>1, <1>2, BillType, FS_Subset
<1>4. ASSUME \A i \in Bursts \ S : ~(i <= f) PROVE Cardinality(Low(f, S)) = f
  <2>1. 1 .. f \subseteq Low(f, S)  BY <1>4, OverrunAssumption DEF Low, Bursts
  <2>2. Low(f, S) = 1 .. f  BY <1>2, <2>1
  <2> QED  BY <1>1, <2>2
<1>5. ASSUME \A i \in Bursts \ S : ~(i > f) PROVE Cardinality(High(f, S)) = N - f
  <2>1. (f + 1) .. N \subseteq High(f, S)  BY <1>5, OverrunAssumption DEF High, Bursts
  <2>2. High(f, S) = (f + 1) .. N  BY <1>2, <2>1
  <2> QED  BY <1>1, <2>2
<1>6. ASSUME \A i \in S : ~(i > f) PROVE Cardinality(High(f, S)) = 0
  <2>1. High(f, S) = {}  BY <1>6 DEF High
  <2> QED  BY <2>1, FS_EmptySet
<1>7. N \in Nat  BY OverrunAssumption
<1>8. Cardinality(Low(f, S)) < f => \E i \in Bursts \ S : i <= f
  BY <1>3, <1>4, <1>7
<1>9. Cardinality(High(f, S)) < N - f => \E i \in Bursts \ S : i > f
  BY <1>3, <1>5, <1>7
<1>10. Cardinality(High(f, S)) > 0 => \E i \in S : i > f
  BY <1>3, <1>6
<1> QED  BY <1>3, <1>7, <1>8, <1>9, <1>10

\* A reservation admits exactly what the ceiling has room for, however the
\* requests interleave, and nothing when the store is down or there is no price;
\* the provider never bills more than the ceiling.
THEOREM EnforcedTheorem == Spec => []EnforcedExact
<1> SUFFICES ASSUME Inv, arm.test = "reserve"
             PROVE  /\ billed <= spent /\ spent <= Ceiling
                    /\ Ended => Allowed = IF arm.fails \/ ~arm.priced THEN 0 ELSE Room
  <2>1. Inv => EnforcedExact  BY DEF EnforcedExact
  <2> QED  BY <2>1, OverrunInvariant, PTL
<1> DEFINE A == In({"call", "done"})
<1>1. /\ spent = Bill(Flat, A) /\ spent <= Ceiling /\ billed = Bill(Flat, In({"done"}))
      /\ spent \in Nat
  BY DEF Inv, EnforcedInv, BilledIsDone, TypeInv
<1>2. A \in SUBSET Bursts /\ In({"done"}) \in SUBSET A  BY DEF In
<1>3. billed <= spent  BY <1>1, <1>2, FlatType, BillMonotone
<1>4. ASSUME Ended PROVE Allowed = IF arm.fails \/ ~arm.priced THEN 0 ELSE Room
  <2>1. {i \in Bursts : at[i] \notin {"new", "read", "denied"}} = A
    BY <1>4 DEF Ended, Over, In
  <2>2. Allowed = Cardinality(A)  BY <2>1 DEF Allowed
  <2>3. \A i \in Bursts \ A : at[i] = "denied"  BY <1>4 DEF Ended, Over, In
  <2>4. CASE arm.fails \/ ~arm.priced
    <3>1. A = {}  BY <2>4 DEF Inv, EnforcedInv, In
    <3> QED  BY <2>2, <2>4, <3>1, FS_EmptySet
  <2>5. CASE ~(arm.fails \/ ~arm.priced)
    <3> DEFINE k == Cardinality(Low(Flat, A))
               l == Cardinality(High(Flat, A))
               R == N - Flat
    <3>1. /\ k \in 0 .. Flat /\ l \in 0 .. R /\ Cardinality(A) = k + l
          /\ spent = Cost * k + Dear * l
          /\ Flat \in Nat /\ R \in Nat
      <4>1. k \in 0 .. Flat /\ l \in 0 .. R  BY <1>2, FlatType, Counts
      <4>2. Cardinality(A) = k + l  BY <1>2, FlatType, BillType
      <4>3. spent = Cost * k + Dear * l  BY <1>1 DEF Bill
      <4> QED  BY <4>1, <4>2, <4>3, FlatType, OverrunAssumption
    <3>2. ASSUME k < Flat
          PROVE  l = 0 /\ Ceiling < spent + Cost
      <4>1. PICK i \in Bursts \ A : i <= Flat  BY <1>2, <3>2, FlatType, Counts
      <4>2. at[i] = "denied" /\ CostOf(i) = Cost  BY <2>3, <4>1, CostOfFlat
      <4>3. spent + CostOf(i) > Ceiling  BY <2>5, <4>2 DEF Inv, EnforcedInv
      <4>4. ~(l > 0)
        <5>1. ASSUME NEW j \in A, j > Flat PROVE FALSE
          BY <2>5, <4>1, <4>2, <5>1 DEF Inv, EnforcedInv, In
        <5> QED  BY <1>2, <5>1, FlatType, Counts
      <4> QED  BY <1>1, <3>1, <4>2, <4>3, <4>4, OverrunAssumption
    <3>3. ASSUME l < R
          PROVE  Ceiling < spent + Dear
      <4>1. PICK i \in Bursts \ A : i > Flat  BY <1>2, <3>3, FlatType, Counts
      <4>2. ~(i <= Flat)  BY <3>1, <4>1 DEF Bursts
      <4>3. at[i] = "denied" /\ CostOf(i) = Dear  BY <2>3, <4>1, <4>2, CostOfFlat
      <4>4. spent + CostOf(i) > Ceiling  BY <2>5, <4>3 DEF Inv, EnforcedInv
      <4> QED  BY <1>1, <4>3, <4>4, OverrunAssumption
    <3> HIDE DEF A, k, l, R
    <3>4. Ceiling \in Nat /\ Cost \in Nat \ {0} /\ Dear \in Nat \ {0} /\ Cost <= Dear
      BY OverrunAssumption
    <3>5. k \in Nat /\ l \in Nat /\ k <= Flat /\ l <= R  BY <3>1
    <3>6. Cost * k + Dear * l <= Ceiling  BY <1>1, <3>1
    <3>7. k < Flat => l = 0 /\ Ceiling < Cost * k + Dear * l + Cost  BY <3>1, <3>2
    <3>8. l < R => Ceiling < Cost * k + Dear * l + Dear  BY <3>1, <3>3
    <3>9. Cost * k \in Nat /\ Dear * l \in Nat  BY <3>4, <3>5, TimesGrows
    <3>10. Least(Flat, Ceiling \div Cost) = k
      <4>1. Cost * k <= Ceiling  BY <3>4, <3>6, <3>9
      <4>2. k < Flat => Ceiling < Cost * k + Cost
        <5>1. l = 0 => Dear * l = 0  BY <3>4
        <5> QED  BY <3>4, <3>7, <3>9, <5>1
      <4> QED  BY <3>1, <3>4, <3>5, <4>1, <4>2, Filled
    <3>11. Least(R, (Ceiling - Cost * k) \div Dear) = l
      <4> DEFINE m == Ceiling - Cost * k
      <4>1. m \in Nat /\ Dear * l <= m  BY <3>4, <3>6, <3>9
      <4>2. l < R => m < Dear * l + Dear  BY <3>4, <3>8, <3>9
      <4> HIDE DEF m
      <4>3. Least(R, m \div Dear) = l  BY <3>1, <3>4, <3>5, <4>1, <4>2, Filled
      <4> QED  BY <4>3 DEF m
    <3>12. Cost * k = k * Cost  BY <3>4, <3>5
    <3>13. Room = k + l  BY <3>10, <3>11, <3>12 DEF Room, R
    <3> QED  BY <2>2, <2>5, <3>1, <3>13
  <2> QED  BY <2>4, <2>5
<1> QED  BY <1>1, <1>3, <1>4
===============================================================================
