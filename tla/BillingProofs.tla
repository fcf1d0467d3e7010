----------------------------- MODULE BillingProofs -----------------------------
(***************************************************************************)
(* Theorems about Billing, for all prices, ceilings, requests, limits and  *)
(* counts.                                                                 *)
(***************************************************************************)
EXTENDS Billing, MoneyProofs

-------------------------------------------------------------------------------
(* Prices *)

\* A product grows with its first factor.
LEMMA TimesMonotone ==
  ASSUME NEW a \in Nat, NEW b \in Nat, NEW c \in Nat, a <= b
  PROVE  a * c \in Nat /\ b * c \in Nat /\ a * c <= b * c
<1>1. PICK d \in Nat : b = a + d
  <2>1. b - a \in Nat /\ b = a + (b - a)  OBVIOUS
  <2> QED  BY <2>1
<1>2. a * c \in Nat /\ d * c \in Nat  OBVIOUS
<1>3. b * c = a * c + d * c  BY <1>1
<1> QED  BY <1>2, <1>3

\* A request that may be admitted.
Sound(q) == q \in Payloads /\ q.model \in DOMAIN Price /\ Counted(q)

LEMMA PayloadType ==
  ASSUME NEW q, Sound(q)
  PROVE  /\ Price[q.model].input \in Nat /\ Price[q.model].output \in Nat
         /\ q.estimate \in Nat /\ Limit(q) \in Nat /\ MaxCost(q) \in Nat
<1>1. Price[q.model] \in Prices  BY BillingAssumption DEF Sound
<1>2. Price[q.model].input \in Nat /\ Price[q.model].output \in Nat  BY <1>1 DEF Prices
<1>3. q.estimate \in Nat /\ q.max \in Int \cup {None}  BY BillingAssumption DEF Sound
<1>4. q.max # None => q.max \in Nat  BY <1>3 DEF Sound, Counted
<1>5. Limit(q) \in Nat  BY <1>4, BillingAssumption DEF Limit
<1>6. q.estimate * Price[q.model].input \in Nat /\ Limit(q) * Price[q.model].output \in Nat
  BY <1>2, <1>3, <1>5, TimesMonotone
<1>7. MaxCost(q) \in Nat  BY <1>6 DEF MaxCost
<1> QED  BY <1>2, <1>3, <1>5, <1>7

\* What the upstream spends are tokens.
LEMMA SpendType ==
  ASSUME NEW t \in Spends
  PROVE  t \in Tokens
<1>1. t.prompt \in Nat /\ t.completion \in Nat
      /\ t = [prompt |-> t.prompt, completion |-> t.completion]
  BY BillingAssumption DEF Spends
<1> QED  BY <1>1 DEF Tokens

\* Two counts cost an amount.
LEMMA CostType ==
  ASSUME NEW q, Sound(q), NEW x \in Nat, NEW y \in Nat
  PROVE  x * Price[q.model].input + y * Price[q.model].output \in Nat
<1>1. Price[q.model].input \in Nat /\ Price[q.model].output \in Nat  BY PayloadType
<1>2. x * Price[q.model].input \in Nat /\ y * Price[q.model].output \in Nat
  BY <1>1, TimesMonotone
<1> QED  BY <1>2

\* What the upstream bills is an amount.
LEMMA BillType ==
  ASSUME NEW q, Sound(q), NEW t \in Tokens
  PROVE  t.prompt \in Nat /\ t.completion \in Nat /\ Bill(q.model, t) \in Nat
<1>1. t.prompt \in Nat /\ t.completion \in Nat  BY DEF Tokens
<1> QED  BY <1>1, CostType DEF Bill

\* What a block that is trusted reports is an amount: the bill, if it counts the
\* tokens that are billed.
LEMMA ReportedType ==
  ASSUME NEW q, Sound(q), NEW u \in Blocks, Trusted(u)
  PROVE  /\ Reported(q, u) \in Nat
         /\ \A t : OrZero(u.prompt) = t.prompt /\ OrZero(u.completion) = t.completion
                    => Reported(q, u) = Bill(q.model, t)
<1>1. u.prompt \in Int \cup {None} /\ u.completion \in Int \cup {None}
  <2>1. u \in [prompt : Counts, completion : Counts]  BY DEF Blocks, Trusted
  <2>2. u.prompt \in Counts /\ u.completion \in Counts  BY <2>1
  <2> QED  BY <2>2, BillingAssumption
<1>2. OrZero(u.prompt) \in Nat /\ OrZero(u.completion) \in Nat
  BY <1>1 DEF OrZero, Trusted
<1>3. Reported(q, u) \in Nat  BY <1>2, CostType DEF Reported, ActualCost
<1>4. \A t : OrZero(u.prompt) = t.prompt /\ OrZero(u.completion) = t.completion
               => Reported(q, u) = Bill(q.model, t)
  BY DEF Reported, ActualCost, Bill
<1> QED  BY <1>3, <1>4

\* Within the estimate and the limit, a bill is covered by what was reserved.
LEMMA BillCovered ==
  ASSUME NEW q, Sound(q), NEW t \in Tokens,
         t.prompt <= q.estimate, t.completion <= Limit(q)
  PROVE  Bill(q.model, t) <= MaxCost(q)
<1> DEFINE i == Price[q.model].input
           o == Price[q.model].output
<1>1. /\ i \in Nat /\ o \in Nat /\ q.estimate \in Nat /\ Limit(q) \in Nat
      /\ t.prompt \in Nat /\ t.completion \in Nat
  BY PayloadType, BillType
<1> HIDE DEF i, o
<1>2. t.prompt * i \in Nat /\ q.estimate * i \in Nat /\ t.prompt * i <= q.estimate * i
  BY <1>1, TimesMonotone
<1>3. t.completion * o \in Nat /\ Limit(q) * o \in Nat /\ t.completion * o <= Limit(q) * o
  BY <1>1, TimesMonotone
<1>4. t.prompt * i + t.completion * o <= q.estimate * i + Limit(q) * o
  BY <1>2, <1>3
<1> QED  BY <1>4 DEF Bill, MaxCost, i, o

\* No charge exceeds its reservation.
LEMMA ChargeType ==
  ASSUME NEW q, Sound(q), NEW u \in Blocks
  PROVE  Charge(q, u) \in Nat /\ Charge(q, u) <= MaxCost(q)
<1>1. MaxCost(q) \in Nat  BY PayloadType
<1>2. Trusted(u) => Reported(q, u) \in Nat  BY ReportedType
<1> QED  BY <1>1, <1>2 DEF Charge, Least

-------------------------------------------------------------------------------
(* The inductive invariant *)

\* What each request takes up.
Weights == [r \in Requests |->
  IF stage[r] = "flying" THEN MaxCost(payload[r]) ELSE charged[r]]

\* Requests that were not answered are not charged or billed; of those whose
\* reservation is kept all of it is counted; those that were admitted are sound;
\* a bill that is not exposed is covered by the charge.
Tidy ==
  \A r \in Requests :
    /\ stage[r] \in {"new", "refused", "flying"} => spent[r] = None /\ charged[r] = 0
    /\ stage[r] = "kept" => charged[r] = MaxCost(payload[r])
    /\ r \in Admitted => Sound(payload[r])
    /\ r \in Billed => r \in Admitted /\ Bills[r] \in Nat
    /\ r \in Billed /\ ~Exposed(r) => Bills[r] <= charged[r]

HeldIs == held = Total(Requests, Weights) /\ held <= Ceiling

Inv == TypeOK /\ Tidy /\ HeldIs /\ ChargedAsBilled

LEMMA InvInit == Init => Inv
<1> SUFFICES ASSUME Init PROVE Inv  OBVIOUS
<1> USE DEF Init
<1>1. TypeOK  BY DEF TypeOK, Admitted, Blocks
<1>2. Billed = {} /\ Admitted = {}  BY DEF Billed, Admitted
<1>3. Tidy /\ ChargedAsBilled  BY <1>2 DEF Tidy, ChargedAsBilled
<1>4. \A r \in Requests : Weights[r] = 0  BY DEF Weights
<1>5. Total({}, Weights) = Total(Requests, Weights)  BY <1>4, TotalRestrict
<1>6. HeldIs  BY <1>5, TotalEmpty, BillingAssumption DEF HeldIs
<1> QED  BY <1>1, <1>3, <1>6 DEF Inv

LEMMA WeightsType ==
  ASSUME TypeOK, Tidy
  PROVE  \A r \in Requests : Weights[r] \in Nat
<1> SUFFICES ASSUME NEW r \in Requests PROVE Weights[r] \in Nat  OBVIOUS
<1>1. CASE stage[r] = "flying"
  <2>1. Sound(payload[r])  BY <1>1 DEF Tidy, Admitted
  <2>2. MaxCost(payload[r]) \in Nat  BY <2>1, PayloadType
  <2> QED  BY <1>1, <2>2 DEF Weights
<1>2. CASE stage[r] # "flying"
  <2>1. charged[r] \in Nat  BY DEF TypeOK
  <2> QED  BY <1>2, <2>1 DEF Weights
<1> QED  BY <1>1, <1>2

\* One request changes what it takes up.
LEMMA HeldStep ==
  ASSUME TypeOK, Tidy, HeldIs, NEW r \in Requests,
         \A s \in Requests \ {r} : /\ stage'[s] = stage[s] /\ payload'[s] = payload[s]
                                   /\ charged'[s] = charged[s],
         Weights'[r] \in Nat, held' = held - Weights[r] + Weights'[r], held' <= Ceiling
  PROVE  HeldIs'
<1> DEFINE v == Weights
           w == Weights'
<1>1. \A s \in Requests : v[s] \in Nat  BY WeightsType
<1>2. \A s \in Requests \ {r} : v[s] = w[s]  BY DEF Weights
<1>3. \A s \in Requests : w[s] \in Nat  BY <1>1, <1>2
<1>4. held = Total(Requests, v)  BY DEF HeldIs
<1> HIDE DEF v, w
<1>5. Total(Requests, w) = Total(Requests, v) - v[r] + w[r]
  BY <1>1, <1>2, <1>3, TotalUpdate, BillingAssumption
<1>6. held' = Total(Requests, w)  BY <1>4, <1>5 DEF v, w
<1> QED  BY <1>6 DEF HeldIs, w

-------------------------------------------------------------------------------
(* Steps *)

\* What a request keeps while another one moves.
LEMMA OthersStay ==
  ASSUME Inv, NEW r \in Requests, NEW s \in Requests \ {r},
         stage'[s] = stage[s], payload'[s] = payload[s], spent'[s] = spent[s],
         told'[s] = told[s], charged'[s] = charged[s]
  PROVE  /\ (s \in Admitted)' <=> s \in Admitted
         /\ (s \in Billed)' <=> s \in Billed
         /\ Exposed(s)' <=> Exposed(s)
         /\ Bills'[s] = Bills[s]
BY DEF Admitted, Billed, Exposed, Bills

LEMMA RefuseStep ==
  ASSUME Inv, NEW r \in Requests, NEW q \in Payloads, Refuse(r, q)
  PROVE  Inv'
<1>0. TypeOK /\ Tidy /\ HeldIs /\ ChargedAsBilled  BY DEF Inv
<1>1. /\ stage[r] = "new" /\ stage' = [stage EXCEPT ![r] = "refused"]
      /\ payload' = [payload EXCEPT ![r] = q] /\ UNCHANGED <<held, spent, told, charged>>
  BY DEF Refuse
<1>2. /\ stage'[r] = "refused" /\ spent[r] = None /\ charged[r] = 0
      /\ \A s \in Requests \ {r} : stage'[s] = stage[s] /\ payload'[s] = payload[s]
  BY <1>0, <1>1 DEF TypeOK, Tidy
<1>3. \A s \in Requests \ {r} : /\ (s \in Admitted)' <=> s \in Admitted
                                /\ (s \in Billed)' <=> s \in Billed
                                /\ Exposed(s)' <=> Exposed(s)
                                /\ Bills'[s] = Bills[s]
  BY <1>1, <1>2, OthersStay
<1>4. ~(r \in Admitted)' /\ ~(r \in Billed)'  BY <1>1, <1>2 DEF Admitted, Billed
<1>5. TypeOK'
  <2>1. stage' \in [Requests -> {"new", "refused", "flying", "served", "failed", "kept"}]
        /\ payload' \in [Requests -> Payloads \cup {None}]
    BY <1>0, <1>1 DEF TypeOK
  <2>2. \A s \in Requests : (s \in Admitted)' =>
          /\ payload'[s] # None /\ payload'[s].model \in DOMAIN Price /\ Counted(payload'[s])
          /\ charged'[s] <= MaxCost(payload'[s])
    BY <1>0, <1>1, <1>2, <1>3, <1>4 DEF TypeOK
  <2> QED  BY <1>0, <1>1, <2>1, <2>2 DEF TypeOK, Admitted
<1>6. Tidy'  BY <1>0, <1>1, <1>2, <1>3, <1>4 DEF Tidy
<1>7. ChargedAsBilled'  BY <1>0, <1>1, <1>2, <1>3, <1>4 DEF ChargedAsBilled, Billed
<1>8. HeldIs'
  <2>1. Weights[r] = 0 /\ Weights'[r] = 0  BY <1>1, <1>2 DEF Weights
  <2>2. held' = held - Weights[r] + Weights'[r] /\ held' <= Ceiling
    BY <1>0, <1>1, <2>1 DEF HeldIs, TypeOK
  <2> QED  BY <1>0, <1>1, <1>2, <2>1, <2>2, HeldStep
<1> QED  BY <1>5, <1>6, <1>7, <1>8 DEF Inv

LEMMA AdmitStep ==
  ASSUME Inv, NEW r \in Requests, NEW q \in Payloads, Admit(r, q)
  PROVE  Inv'
<1>0. TypeOK /\ Tidy /\ HeldIs /\ ChargedAsBilled  BY DEF Inv
<1>1. /\ stage[r] = "new" /\ stage' = [stage EXCEPT ![r] = "flying"]
      /\ payload' = [payload EXCEPT ![r] = q] /\ UNCHANGED <<spent, told, charged>>
      /\ held' = held + MaxCost(q) /\ held + MaxCost(q) <= Ceiling
      /\ Sound(q)
  BY DEF Admit, Sound
<1>2. /\ stage'[r] = "flying" /\ payload'[r] = q /\ spent[r] = None /\ charged[r] = 0
      /\ \A s \in Requests \ {r} : stage'[s] = stage[s] /\ payload'[s] = payload[s]
  BY <1>0, <1>1 DEF TypeOK, Tidy
<1>3. \A s \in Requests \ {r} : /\ (s \in Admitted)' <=> s \in Admitted
                                /\ (s \in Billed)' <=> s \in Billed
                                /\ Exposed(s)' <=> Exposed(s)
                                /\ Bills'[s] = Bills[s]
  BY <1>1, <1>2, OthersStay
<1>4. ~(r \in Billed)'  BY <1>1, <1>2 DEF Billed
<1>5. MaxCost(q) \in Nat /\ q # None  BY <1>1, PayloadType, BillingAssumption
<1>6. TypeOK'
  <2>1. /\ stage' \in [Requests -> {"new", "refused", "flying", "served", "failed", "kept"}]
        /\ payload' \in [Requests -> Payloads \cup {None}] /\ held' \in Nat
    BY <1>0, <1>1, <1>5 DEF TypeOK
  <2>2. \A s \in Requests : (s \in Admitted)' =>
          /\ payload'[s] # None /\ payload'[s].model \in DOMAIN Price /\ Counted(payload'[s])
          /\ charged'[s] <= MaxCost(payload'[s])
    <3>1. q.model \in DOMAIN Price /\ Counted(q) /\ 0 <= MaxCost(q)  BY <1>1, <1>5 DEF Sound
    <3> QED  BY <1>0, <1>1, <1>2, <1>3, <1>5, <3>1 DEF TypeOK
  <2> QED  BY <1>0, <1>1, <2>1, <2>2 DEF TypeOK, Admitted
<1>7. Tidy'  BY <1>0, <1>1, <1>2, <1>3, <1>4 DEF Tidy
<1>8. ChargedAsBilled'  BY <1>0, <1>1, <1>2, <1>3, <1>4 DEF ChargedAsBilled, Billed
<1>9. HeldIs'
  <2>1. Weights[r] = 0 /\ Weights'[r] = MaxCost(q)  BY <1>1, <1>2 DEF Weights
  <2>2. held' = held - Weights[r] + Weights'[r] /\ held' <= Ceiling
    BY <1>0, <1>1, <1>5, <2>1 DEF TypeOK
  <2> QED  BY <1>0, <1>1, <1>2, <1>5, <2>1, <2>2, HeldStep
<1> QED  BY <1>6, <1>7, <1>8, <1>9 DEF Inv

\* A bill and a block that leave a request unexposed.
Within(q, how, t, u) ==
  /\ t.prompt <= q.estimate
  /\ t.completion <= Limit(q)
  /\ Trusted(u) => OrZero(u.prompt) = t.prompt /\ OrZero(u.completion) = t.completion
  /\ how # "failed"

LEMMA WithinCovered ==
  ASSUME NEW q, Sound(q), NEW t \in Tokens, NEW how, NEW u, Within(q, how, t, u)
  PROVE  Bill(q.model, t) <= MaxCost(q)
BY BillCovered DEF Within

LEMMA EndStep ==
  ASSUME Inv, NEW r \in Requests, stage[r] \in {"flying", "kept"},
         NEW how \in {"served", "failed", "kept"},
         NEW t \in Tokens \cup {None}, NEW u \in Blocks,
         NEW c \in Nat, c <= MaxCost(payload[r]), End(r, how, t, u, c),
         t # None /\ Within(payload[r], how, t, u) =>
           c = IF Trusted(u) THEN Bill(payload[r].model, t) ELSE MaxCost(payload[r]),
         how = "kept" => c = MaxCost(payload[r])
  PROVE  Inv'
<1> DEFINE q == payload[r]
<1>0. TypeOK /\ Tidy /\ HeldIs /\ ChargedAsBilled  BY DEF Inv
<1>1. /\ stage' = [stage EXCEPT ![r] = how] /\ spent' = [spent EXCEPT ![r] = t]
      /\ told' = [told EXCEPT ![r] = u] /\ charged' = [charged EXCEPT ![r] = c]
      /\ held' = held - (MaxCost(q) - c) /\ payload' = payload
  BY DEF End
<1>2. /\ stage'[r] = how /\ spent'[r] = t /\ told'[r] = u /\ charged'[r] = c
      /\ \A s \in Requests \ {r} : /\ stage'[s] = stage[s] /\ spent'[s] = spent[s]
                                   /\ told'[s] = told[s] /\ charged'[s] = charged[s]
                                   /\ payload'[s] = payload[s]
  BY <1>0, <1>1 DEF TypeOK
<1>3. \A s \in Requests \ {r} : /\ (s \in Admitted)' <=> s \in Admitted
                                /\ (s \in Billed)' <=> s \in Billed
                                /\ Exposed(s)' <=> Exposed(s)
                                /\ Bills'[s] = Bills[s]
  BY <1>2, OthersStay
<1>4. Sound(q) /\ q # None /\ MaxCost(q) \in Nat
  <2>1. r \in Admitted  BY DEF Admitted
  <2>2. Sound(q) /\ q # None  BY <1>0, <2>1 DEF Tidy, TypeOK
  <2> QED  BY <2>2, PayloadType
<1>5. t # None => t \in Tokens /\ Bill(q.model, t) \in Nat  BY <1>4, BillType
<1>6. (r \in Admitted)' /\ ((r \in Billed)' <=> t # None)
      /\ (t # None => Bills'[r] = Bill(q.model, t))
  BY <1>1, <1>2 DEF Admitted, Billed, Bills
<1>7. t # None => (~Exposed(r)' <=> Within(q, how, t, u))
  <2>1. Exposed(r)' <=> \/ t.prompt > q.estimate
                        \/ t.completion > Limit(q)
                        \/ Trusted(u) /\ (OrZero(u.prompt) # t.prompt
                                          \/ OrZero(u.completion) # t.completion)
                        \/ how = "failed"
    BY <1>1, <1>2 DEF Exposed
  <2>2. t # None => t.prompt \in Nat /\ t.completion \in Nat /\ q.estimate \in Nat /\ Limit(q) \in Nat
    BY <1>4, BillType, PayloadType
  <2>3. t # None => /\ t.prompt > q.estimate <=> ~(t.prompt <= q.estimate)
                    /\ t.completion > Limit(q) <=> ~(t.completion <= Limit(q))
    BY <2>2
  <2> QED  BY <2>1, <2>3 DEF Within
<1>8. t # None /\ Within(q, how, t, u) => Bill(q.model, t) <= c
  <2> SUFFICES ASSUME t # None, Within(q, how, t, u) PROVE Bill(q.model, t) <= c  OBVIOUS
  <2>1. Bill(q.model, t) <= MaxCost(q)  BY <1>4, WithinCovered
  <2>2. c = IF Trusted(u) THEN Bill(q.model, t) ELSE MaxCost(q)  OBVIOUS
  <2> QED  BY <1>4, <1>5, <2>1, <2>2
<1> HIDE DEF q
<1>9. TypeOK'
  <2>1. /\ stage' \in [Requests -> {"new", "refused", "flying", "served", "failed", "kept"}]
        /\ spent' \in [Requests -> Tokens \cup {None}] /\ told' \in [Requests -> Blocks]
        /\ charged' \in [Requests -> Nat]
        /\ payload' \in [Requests -> Payloads \cup {None}]
    BY <1>0, <1>1, <1>5 DEF TypeOK
  <2>2. held' \in Nat
    <3>1. Weights[r] = MaxCost(q)  BY <1>0 DEF Weights, Tidy, q
    <3>2. \A s \in Requests : Weights[s] \in Nat  BY <1>0, WeightsType
    <3>3. Total({r}, Weights) <= Total(Requests, Weights)
      <4>1. {r} \subseteq Requests  OBVIOUS
      <4> QED  BY <3>2, <4>1, TotalMonotone, BillingAssumption
    <3>4. Total({r}, Weights) = MaxCost(q)
      <4>1. Total({} \cup {r}, Weights) = Total({}, Weights) + Weights[r]
        <5>1. IsFiniteSet({})  BY FS_EmptySet
        <5> QED  BY <3>2, <5>1, TotalAdd
      <4>2. {} \cup {r} = {r}  OBVIOUS
      <4> QED  BY <1>4, <3>1, <4>1, <4>2, TotalEmpty
    <3>5. MaxCost(q) <= held /\ held \in Nat  BY <1>0, <3>3, <3>4 DEF HeldIs, TypeOK
    <3> QED  BY <1>1, <1>4, <3>5 DEF q
  <2>3. \A s \in Requests : (s \in Admitted)' =>
          /\ payload'[s] # None /\ payload'[s].model \in DOMAIN Price /\ Counted(payload'[s])
          /\ charged'[s] <= MaxCost(payload'[s])
    <3>1. /\ payload'[r] # None /\ payload'[r].model \in DOMAIN Price /\ Counted(payload'[r])
          /\ charged'[r] <= MaxCost(payload'[r])
      BY <1>1, <1>2, <1>4 DEF Sound, q
    <3> QED  BY <1>0, <1>2, <1>3, <3>1 DEF TypeOK
  <2> QED  BY <2>1, <2>2, <2>3 DEF TypeOK, Admitted
<1>10. Tidy'
  <2>1. (r \in Billed)' /\ ~Exposed(r)' => Bills'[r] <= charged'[r]
    BY <1>2, <1>6, <1>7, <1>8
  <2>2. Sound(payload'[r])  BY <1>1, <1>4 DEF q
  <2>3. (r \in Billed)' => Bills'[r] \in Nat  BY <1>5, <1>6
  <2>4. stage'[r] = "kept" => charged'[r] = MaxCost(payload'[r])  BY <1>1, <1>2 DEF q
  <2> QED  BY <1>0, <1>1, <1>2, <1>3, <1>6, <2>1, <2>2, <2>3, <2>4 DEF Tidy
<1>11. ChargedAsBilled'
  <2>1. (r \in Billed)' /\ ~Exposed(r)' =>
          charged'[r] = IF Trusted(told'[r]) THEN Bills'[r] ELSE MaxCost(payload'[r])
    BY <1>1, <1>2, <1>6, <1>7 DEF q
  <2>2. \A s \in Requests : (s \in Billed)' /\ ~Exposed(s)' =>
          charged'[s] = IF Trusted(told'[s]) THEN Bills'[s] ELSE MaxCost(payload'[s])
    BY <1>0, <1>2, <1>3, <2>1 DEF ChargedAsBilled, Billed
  <2> QED  BY <2>2 DEF ChargedAsBilled, Billed
<1>12. HeldIs'
  <2>1. Weights[r] = MaxCost(q) /\ Weights'[r] = c  BY <1>0, <1>2 DEF Weights, Tidy, q
  <2>2. held' = held - Weights[r] + Weights'[r] /\ held' <= Ceiling
    BY <1>0, <1>1, <1>4, <2>1, BillingAssumption DEF HeldIs, TypeOK, q
  <2> QED  BY <1>0, <1>2, <2>1, <2>2, HeldStep
<1> QED  BY <1>9, <1>10, <1>11, <1>12 DEF Inv

LEMMA ServeStep ==
  ASSUME Inv, NEW r \in Requests, Serve(r)
  PROVE  Inv'
<1> DEFINE q == payload[r]
<1>1. stage[r] = "flying"  BY DEF Serve
<1>2. PICK t \in Spends, u \in Blocks : End(r, "served", t, u, Charge(q, u))
  BY DEF Serve
<1>3. Sound(q) /\ t \in Tokens  BY <1>1, SpendType DEF Inv, Tidy, Admitted
<1>4. Charge(q, u) \in Nat /\ Charge(q, u) <= MaxCost(q)  BY <1>3, ChargeType
<1>5. Within(q, "served", t, u) =>
        Charge(q, u) = IF Trusted(u) THEN Bill(q.model, t) ELSE MaxCost(q)
  <2> SUFFICES ASSUME Within(q, "served", t, u), Trusted(u)
               PROVE  Charge(q, u) = Bill(q.model, t)
    BY DEF Charge
  <2>1. Reported(q, u) = Bill(q.model, t) /\ Reported(q, u) \in Nat
    BY <1>3, ReportedType DEF Within
  <2>2. Bill(q.model, t) <= MaxCost(q) /\ MaxCost(q) \in Nat
    BY <1>3, WithinCovered, PayloadType
  <2> QED  BY <2>1, <2>2 DEF Charge, Least
<1> QED  BY <1>1, <1>2, <1>3, <1>4, <1>5, EndStep

\* It is given back in full, at once or by a sweep.
LEMMA FailStep ==
  ASSUME Inv, NEW r \in Requests, Reject(r) \/ ReleaseBilled(r) \/ Sweep(r)
  PROVE  Inv'
<1>1. stage[r] \in {"flying", "kept"}  BY DEF Reject, ReleaseBilled, Sweep
<1>2. PICK t \in Tokens \cup {None} : End(r, "failed", t, None, 0)
  <2>1. spent[r] \in Tokens \cup {None}  BY DEF Inv, TypeOK
  <2> QED  BY <2>1, SpendType DEF Reject, ReleaseBilled, Sweep
<1>3. Sound(payload[r])  BY <1>1 DEF Inv, Tidy, Admitted
<1>4. 0 \in Nat /\ 0 <= MaxCost(payload[r])  BY <1>3, PayloadType
<1>5. ~Within(payload[r], "failed", t, None)  BY DEF Within
<1>6. None \in Blocks  BY DEF Blocks
<1> QED  BY <1>1, <1>2, <1>4, <1>5, <1>6, EndStep

LEMMA KeepStep ==
  ASSUME Inv, NEW r \in Requests, Keep(r)
  PROVE  Inv'
<1> DEFINE q == payload[r]
<1>1. stage[r] = "flying"  BY DEF Keep
<1>2. PICK t \in Tokens \cup {None} : End(r, "kept", t, None, MaxCost(q))
  BY SpendType DEF Keep
<1>3. Sound(q)  BY <1>1 DEF Inv, Tidy, Admitted
<1>4. MaxCost(q) \in Nat /\ MaxCost(q) <= MaxCost(q)  BY <1>3, PayloadType
<1>5. None \in Blocks /\ ~Trusted(None)  BY DEF Blocks, Trusted
<1> QED  BY <1>1, <1>2, <1>4, <1>5, EndStep

-------------------------------------------------------------------------------
LEMMA InvStep == Inv /\ [Next]_vars => Inv'
<1> SUFFICES ASSUME Inv, [Next]_vars PROVE Inv'  OBVIOUS
<1>1. ASSUME NEW r \in Requests, Arrive(r)  PROVE  Inv'
  <2>1. PICK q \in Payloads : Refuse(r, q) \/ Admit(r, q)
    BY <1>1 DEF Arrive, RefuseCount, RefuseUnpriced, RefuseBudget
  <2> QED  BY <2>1, RefuseStep, AdmitStep
<1>2. ASSUME NEW r \in Requests,
             Serve(r) \/ Reject(r) \/ ReleaseBilled(r) \/ Keep(r) \/ Sweep(r)
      PROVE  Inv'
  BY <1>2, ServeStep, FailStep, KeepStep
<1>3. CASE UNCHANGED vars
  <2>1. UNCHANGED <<held, payload, stage, spent, told, charged>>  BY <1>3 DEF vars
  <2>2. /\ Admitted' = Admitted /\ Billed' = Billed /\ Bills' = Bills /\ Weights' = Weights
        /\ \A r \in Requests : Exposed(r)' <=> Exposed(r)
    BY <2>1 DEF Admitted, Billed, Bills, Weights, Exposed
  <2>3. TypeOK'  BY <2>1, <2>2 DEF Inv, TypeOK
  <2>4. Tidy'  BY <2>1, <2>2 DEF Inv, Tidy
  <2>5. HeldIs'  BY <2>1, <2>2 DEF Inv, HeldIs
  <2>6. ChargedAsBilled'
    <3> SUFFICES ASSUME NEW r \in Billed', ~(Exposed(r)')
                 PROVE  (charged[r] = IF Trusted(told[r]) THEN Bills[r]
                                                          ELSE MaxCost(payload[r]))'
      BY DEF ChargedAsBilled
    <3>1. r \in Billed /\ r \in Requests  BY <2>2 DEF Billed
    <3>2. ~Exposed(r)  BY <2>2, <3>1
    <3>3. charged[r] = IF Trusted(told[r]) THEN Bills[r] ELSE MaxCost(payload[r])
      BY <3>1, <3>2 DEF Inv, ChargedAsBilled
    <3>4. charged' = charged /\ told' = told /\ payload' = payload  BY <2>1
    <3>5. Bills'[r] = Bills[r]  BY <2>2
    <3> QED  BY <3>3, <3>4, <3>5 DEF MaxCost, Limit
  <2> QED  BY <2>3, <2>4, <2>5, <2>6 DEF Inv
<1> QED  BY <1>1, <1>2, <1>3 DEF Next

LEMMA Invariance == Spec => []Inv
<1>1. Init => Inv  BY InvInit
<1>2. Inv /\ [Next]_vars => Inv'  BY InvStep
<1> QED  BY <1>1, <1>2, PTL DEF Spec

\* Bills that are not exposed, and reservations, take up no more than the store
\* counts, which is within the ceiling.
LEMMA BillsWithinHeld == Inv => BillsFit
<1> SUFFICES ASSUME Inv PROVE BillsFit  OBVIOUS
<1> DEFINE A == {r \in Billed : ~Exposed(r)}
<1>0. TypeOK /\ Tidy /\ HeldIs  BY DEF Inv
<1>1. A \subseteq Requests /\ Flying \subseteq Requests  BY DEF Billed, Flying
<1>2. A \cap Flying = {}  BY <1>0 DEF Tidy, Billed, Flying
<1>3. \A r \in Requests : Weights[r] \in Nat  BY <1>0, WeightsType
<1>4. \A r \in A : Bills[r] \in Nat /\ Bills[r] <= Weights[r]
  <2> SUFFICES ASSUME NEW r \in A PROVE Bills[r] \in Nat /\ Bills[r] <= Weights[r]
    OBVIOUS
  <2>1. r \in Requests /\ r \in Billed /\ ~Exposed(r) /\ stage[r] # "flying"
    BY <1>1, <1>2 DEF Flying
  <2>2. Weights[r] = charged[r]  BY <2>1 DEF Weights
  <2> QED  BY <1>0, <2>1, <2>2 DEF Tidy
<1>5. \A r \in Flying : Reserved[r] \in Nat /\ Reserved[r] <= Weights[r]
  <2> SUFFICES ASSUME NEW r \in Flying PROVE Reserved[r] \in Nat /\ Reserved[r] <= Weights[r]
    OBVIOUS
  <2>1. r \in Requests /\ stage[r] = "flying"  BY DEF Flying
  <2>2. Reserved[r] = Weights[r]  BY <2>1 DEF Reserved, Weights, Flying
  <2> QED  BY <1>3, <2>1, <2>2
<1> HIDE DEF A
<1>6. Total(A, Bills) + Total(Flying, Reserved) <= Total(Requests, Weights)
  BY <1>1, <1>2, <1>3, <1>4, <1>5, TotalParts, BillingAssumption
<1>7. Total(A, Bills) \in Nat /\ Total(Flying, Reserved) \in Nat
  <2>1. IsFiniteSet(A) /\ IsFiniteSet(Flying)  BY <1>1, FS_Subset, BillingAssumption
  <2> QED  BY <1>4, <1>5, <2>1, TotalType
<1>8. Total(Requests, Weights) <= Ceiling /\ Total(Requests, Weights) \in Nat
  BY <1>0 DEF HeldIs, TypeOK
<1>9. Total(A, Bills) + Total(Flying, Reserved) <= Ceiling
  BY <1>6, <1>7, <1>8, BillingAssumption
<1> QED  BY <1>9 DEF BillsFit, A

\* The state of admission keeps its shape: no request is charged more than it
\* reserved, and the store never counts below zero.
THEOREM TypeCorrect == Spec => []TypeOK
<1>1. Inv => TypeOK  BY DEF Inv
<1> QED  BY <1>1, Invariance, PTL

\* In money the upstream bills, the ceiling holds for every request whose prompt
\* and output stay within what was reserved for, whose reservation is not given
\* back, and which is settled from what is billed or from nothing.
THEOREM BillsFitTheorem == Spec => []BillsFit
<1> QED  BY BillsWithinHeld, Invariance, PTL

\* Such a request is charged its bill exactly, or all it reserved.
THEOREM ChargedAsBilledTheorem == Spec => []ChargedAsBilled
<1>1. Inv => ChargedAsBilled  BY DEF Inv
<1> QED  BY <1>1, Invariance, PTL
===============================================================================
