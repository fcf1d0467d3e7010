---------------------------- MODULE ReplicasProofs ----------------------------
(***************************************************************************)
(* Theorems about Replicas, for any number of processes, budgets and       *)
(* reservations, and however often connections break, commands are         *)
(* repeated and processes die.                                             *)
(***************************************************************************)
EXTENDS Replicas, MoneyProofs

(***************************************************************************)
(* The inductive invariant.  CeilingHolds and HeldExact speak of sums over *)
(* sets that change with every step; here both are sums over all           *)
(* reservations and all processes, of weights that are zero elsewhere.     *)
(***************************************************************************)

\* What a call that is abandoned leaves behind, as Left has it.
Worth(c) == IF c.op = "reserve" THEN c.done * c.amount
            ELSE IF c.done = 0 THEN c.amount ELSE 0

PendOf(c, rs, k) == IF c # None /\ rs[c.id].key = k THEN Worth(c) ELSE 0
LiveOf(l, rs, i, k) == IF i \in l /\ rs[i].key = k THEN rs[i].amount ELSE 0

PendSum(cs, rs, k) == Total(Procs, [p \in Procs |-> PendOf(cs[p], rs, k)])
LiveSum(l, rs, k) == Total(Ids, [i \in Ids |-> LiveOf(l, rs, i, k)])

MaybeReservation == Reservation \cup {None}
MaybeCall == Calls \cup {None}

Basic ==
  /\ held \in [Keys -> Int]
  /\ open \in [Procs -> SUBSET Ids]
  /\ res \in [Ids -> MaybeReservation]
  /\ call \in [Procs -> MaybeCall]
  /\ charged \in [Keys -> Nat]
  /\ orphans \subseteq Ids
  /\ excess \in [Keys -> Nat]
  /\ stranded \in [Keys -> Nat]

\* A call is about a reservation that exists; an answer yes says that the
\* command was executed; what a reserve asks for nobody has yet.
Fine(c, rs, l) ==
  /\ rs[c.id] # None
  /\ c.reply = "yes" => c.done >= 1
  /\ c.reply = "no" => c.op = "reserve"
  /\ c.op = "reserve" => c.amount = rs[c.id].amount /\ c.id \notin l

Control ==
  /\ \A i \in Live : res[i] # None
  /\ \A p, q \in Procs : p # q => open[p] \cap open[q] = {}
  /\ \A p \in Procs : open[p] \cap orphans = {}
  /\ \A p \in Procs : call[p] # None => Fine(call[p], res, Live)
  /\ \A p, q \in Procs :
       p # q /\ call[p] # None /\ call[q] # None /\ call[p].op = "reserve" =>
         call[q].id # call[p].id

\* Redis keeps the counter itself under the ceiling.
HeldFits == \A k \in Keys : held[k] <= Ceiling[k]

HeldIs ==
  \A k \in Keys :
    held[k] + excess[k] =
      (charged[k] + LiveSum(Live, res, k)) + (PendSum(call, res, k) + stranded[k])

Inv == Basic /\ Control /\ HeldFits /\ HeldIs

-------------------------------------------------------------------------------
(* Weights and sums *)

LEMMA WorthType ==
  ASSUME NEW c \in Calls
  PROVE  Worth(c) \in Nat
<1>1. c.done \in Nat /\ c.amount \in Nat  BY DEF Calls
<1>2. c.done * c.amount \in Nat  BY <1>1
<1> QED  BY <1>1, <1>2 DEF Worth

LEMMA PendType ==
  ASSUME NEW c \in MaybeCall, NEW rs, NEW k
  PROVE  PendOf(c, rs, k) \in Nat
BY WorthType DEF PendOf, MaybeCall

LEMMA LiveType ==
  ASSUME NEW rs \in [Ids -> MaybeReservation], NEW l, \A i \in l : i \in Ids /\ rs[i] # None,
         NEW i, NEW k
  PROVE  LiveOf(l, rs, i, k) \in Nat
<1>1. i \in l => rs[i] \in Reservation  BY DEF MaybeReservation
<1> QED  BY <1>1 DEF LiveOf, Reservation

\* One process is in another call, and nothing else that calls are about changes.
LEMMA PendMove ==
  ASSUME NEW p \in Procs, NEW k,
         NEW cs \in [Procs -> MaybeCall], NEW ds \in [Procs -> MaybeCall],
         NEW rs, NEW ss,
         \A q \in Procs \ {p} : ds[q] = cs[q] /\ (cs[q] # None => ss[cs[q].id] = rs[cs[q].id])
  PROVE  /\ PendSum(cs, rs, k) \in Nat /\ PendSum(ds, ss, k) \in Nat
         /\ PendSum(ds, ss, k) =
              (PendSum(cs, rs, k) - PendOf(cs[p], rs, k)) + PendOf(ds[p], ss, k)
<1> DEFINE v == [q \in Procs |-> PendOf(cs[q], rs, k)]
           w == [q \in Procs |-> PendOf(ds[q], ss, k)]
<1>1. IsFiniteSet(Procs)  BY ReplicasAssumption
<1>2. \A q \in Procs : v[q] \in Nat /\ w[q] \in Nat  BY PendType
<1>3. \A q \in Procs \ {p} : v[q] = w[q]  BY DEF PendOf
<1>4. v[p] = PendOf(cs[p], rs, k) /\ w[p] = PendOf(ds[p], ss, k)  OBVIOUS
<1>5. PendSum(cs, rs, k) = Total(Procs, v) /\ PendSum(ds, ss, k) = Total(Procs, w)
  BY DEF PendSum
<1> HIDE DEF v, w
<1>6. Total(Procs, v) \in Nat /\ Total(Procs, w) \in Nat  BY <1>1, <1>2, TotalType
<1>7. Total(Procs, w) = Total(Procs, v) - v[p] + w[p]
  BY <1>1, <1>2, <1>3, TotalUpdate
<1> QED  BY <1>2, <1>4, <1>5, <1>6, <1>7

\* One reservation becomes live, ends to be, or is another one.
LEMMA LiveMove ==
  ASSUME NEW i \in Ids, NEW k,
         res \in [Ids -> MaybeReservation] /\ res' \in [Ids -> MaybeReservation],
         \A j \in Live : j \in Ids /\ res[j] # None,
         \A j \in Live' : j \in Ids /\ res'[j] # None,
         \A j \in Ids \ {i} : (j \in Live' <=> j \in Live) /\ (j \in Live => res'[j] = res[j])
  PROVE  /\ LiveSum(Live, res, k) \in Nat /\ LiveSum(Live', res', k) \in Nat
         /\ LiveSum(Live', res', k) =
              (LiveSum(Live, res, k) - LiveOf(Live, res, i, k)) + LiveOf(Live', res', i, k)
<1> DEFINE v == [j \in Ids |-> LiveOf(Live, res, j, k)]
           w == [j \in Ids |-> LiveOf(Live', res', j, k)]
<1>1. IsFiniteSet(Ids)  BY ReplicasAssumption
<1>2. \A j \in Ids : v[j] \in Nat  BY LiveType
<1>3. \A j \in Ids : w[j] \in Nat  BY LiveType
<1>4. \A j \in Ids \ {i} : v[j] = w[j]  BY DEF LiveOf
<1>5. v[i] = LiveOf(Live, res, i, k) /\ w[i] = LiveOf(Live', res', i, k)  OBVIOUS
<1>6. LiveSum(Live, res, k) = Total(Ids, v) /\ LiveSum(Live', res', k) = Total(Ids, w)
  BY DEF LiveSum
<1> HIDE DEF v, w
<1>7. Total(Ids, v) \in Nat /\ Total(Ids, w) \in Nat  BY <1>1, <1>2, <1>3, TotalType
<1>8. Total(Ids, w) = Total(Ids, v) - v[i] + w[i]
  BY <1>1, <1>2, <1>3, <1>4, TotalUpdate
<1> QED  BY <1>2, <1>3, <1>5, <1>6, <1>7, <1>8

LEMMA SumsType ==
  ASSUME Basic, Control, NEW k
  PROVE  LiveSum(Live, res, k) \in Nat /\ PendSum(call, res, k) \in Nat
<1>1. \A i \in Live : i \in Ids /\ res[i] # None  BY DEF Basic, Control, Live, Open
<1>2. LiveSum(Live, res, k) \in Nat
  <2>1. \A i \in Ids : LiveOf(Live, res, i, k) \in Nat  BY <1>1, LiveType DEF Basic
  <2> QED  BY <2>1, TotalType, ReplicasAssumption DEF LiveSum
<1>3. PendSum(call, res, k) \in Nat
  <2>1. \A p \in Procs : PendOf(call[p], res, k) \in Nat  BY PendType DEF Basic
  <2> QED  BY <2>1, TotalType, ReplicasAssumption DEF PendSum
<1> QED  BY <1>2, <1>3

-------------------------------------------------------------------------------
(* The invariant says what the properties say. *)

LEMMA InitInv == Init => Inv
<1> SUFFICES ASSUME Init PROVE Inv  OBVIOUS
<1>1. Basic  BY DEF Init, Basic, MaybeReservation, MaybeCall
<1>2. Live = {}  BY DEF Init, Live, Open
<1>3. Control  BY <1>2 DEF Init, Control
<1>4. HeldFits  BY ReplicasAssumption DEF Init, HeldFits
<1>5. HeldIs
  <2> SUFFICES ASSUME NEW k \in Keys
               PROVE  LiveSum({}, res, k) = 0 /\ PendSum(call, res, k) = 0
    BY <1>2 DEF HeldIs, Init
  <2> DEFINE v == [i \in Ids |-> LiveOf({}, res, i, k)]
             w == [p \in Procs |-> PendOf(call[p], res, k)]
             z == [x \in {} |-> 0]
  <2>1. \A i \in Ids : v[i] = 0  BY DEF LiveOf
  <2>2. \A p \in Procs : w[p] = 0  BY DEF PendOf, Init
  <2>3. LiveSum({}, res, k) = Total(Ids, v) /\ PendSum(call, res, k) = Total(Procs, w)
    BY DEF LiveSum, PendSum
  <2> HIDE DEF v, w
  <2>4. Total({}, z) = Total(Ids, v)  BY <2>1, TotalRestrict
  <2>5. Total({}, z) = Total(Procs, w)  BY <2>2, TotalRestrict
  <2> QED  BY <2>3, <2>4, <2>5, TotalEmpty
<1> QED  BY <1>1, <1>3, <1>4, <1>5 DEF Inv

LEMMA InvShape == Inv => TypeOK
<1> SUFFICES ASSUME Inv PROVE TypeOK  OBVIOUS
<1> USE DEF Inv
<1>1. \A p \in Procs : open[p] \subseteq Live  BY DEF Live, Open
<1>2. open \in [Procs -> SUBSET {i \in Ids : res[i] # None}]
  BY <1>1 DEF Basic, Control
<1>3. orphans \subseteq {i \in Ids : res[i] # None}  BY DEF Basic, Control, Live
<1>4. \A p \in Procs : call[p] # None => res[call[p].id] # None  BY DEF Control, Fine
<1>5. \A p \in Procs : \A i \in Asked(p) :
        i \notin Live /\ call[p] # None /\ call[p].op = "reserve" /\ call[p].id = i
  BY DEF Asked, Control, Fine
<1>6. ASSUME NEW p \in Procs, NEW q \in Procs, p # q
      PROVE  (open[p] \cup Asked(p)) \cap (open[q] \cup Asked(q)) = {}
  <2>1. open[p] \cap open[q] = {}  BY <1>6 DEF Control
  <2>2. Asked(p) \cap Asked(q) = {}  BY <1>5, <1>6 DEF Control
  <2>3. open[p] \cap Asked(q) = {} /\ Asked(p) \cap open[q] = {}  BY <1>1, <1>5
  <2> QED  BY <2>1, <2>2, <2>3
<1>7. \A p \in Procs : (open[p] \cup Asked(p)) \cap orphans = {}
  BY <1>5 DEF Control, Live
<1> QED  BY <1>2, <1>3, <1>4, <1>6, <1>7 DEF TypeOK, Basic, MaybeReservation, MaybeCall

\* The sums of the properties are those of the invariant.
LEMMA SameSums ==
  ASSUME Inv, NEW k \in Keys
  PROVE  /\ Total(Of(k, Live), Reserved) = LiveSum(Live, res, k)
         /\ Total(Waiting(k), Pending) = PendSum(call, res, k)
<1> USE DEF Inv
<1>1. Total(Of(k, Live), Reserved) = LiveSum(Live, res, k)
  <2> DEFINE w == [i \in Ids |-> LiveOf(Live, res, i, k)]
  <2>1. Of(k, Live) \subseteq Ids  BY DEF Of, Live, Open, Basic
  <2>2. \A i \in Of(k, Live) : Reserved[i] = w[i]
    BY <2>1 DEF Of, Reserved, LiveOf, Control
  <2>3. \A i \in Ids \ Of(k, Live) : w[i] = 0  BY DEF Of, LiveOf
  <2>4. LiveSum(Live, res, k) = Total(Ids, w)  BY DEF LiveSum
  <2> HIDE DEF w
  <2> QED  BY <2>1, <2>2, <2>3, <2>4, TotalRestrict
<1>2. Total(Waiting(k), Pending) = PendSum(call, res, k)
  <2> DEFINE w == [p \in Procs |-> PendOf(call[p], res, k)]
  <2>1. Waiting(k) \subseteq Procs  BY DEF Waiting
  <2>2. \A p \in Waiting(k) : Pending[p] = w[p]
    BY <2>1 DEF Waiting, Pending, PendOf, Worth, Left, KeyOf
  <2>3. \A p \in Procs \ Waiting(k) : w[p] = 0  BY DEF Waiting, PendOf, KeyOf
  <2>4. PendSum(call, res, k) = Total(Procs, w)  BY DEF PendSum
  <2> HIDE DEF w
  <2> QED  BY <2>1, <2>2, <2>3, <2>4, TotalRestrict
<1> QED  BY <1>1, <1>2

LEMMA InvExact == Inv => HeldExact
<1> SUFFICES ASSUME Inv, NEW k \in Keys
             PROVE  held[k] + excess[k] =
                      charged[k] + Total(Of(k, Live), Reserved)
                        + Total(Waiting(k), Pending) + stranded[k]
  BY DEF HeldExact
<1>1. charged[k] \in Nat /\ stranded[k] \in Nat  BY DEF Inv, Basic
<1>2. LiveSum(Live, res, k) \in Nat /\ PendSum(call, res, k) \in Nat
  BY SumsType DEF Inv
<1>3. held[k] + excess[k] =
        (charged[k] + LiveSum(Live, res, k)) + (PendSum(call, res, k) + stranded[k])
  BY DEF Inv, HeldIs
<1> QED  BY <1>1, <1>2, <1>3, SameSums

LEMMA InvCeiling == Inv => CeilingHolds
<1> SUFFICES ASSUME Inv, NEW k \in Keys
             PROVE  charged[k] + Total(Of(k, Live), Reserved) <= Ceiling[k] + excess[k]
  BY DEF CeilingHolds
<1>1. /\ held[k] \in Int /\ charged[k] \in Nat /\ stranded[k] \in Nat /\ excess[k] \in Nat
      /\ Ceiling[k] \in Nat
  BY ReplicasAssumption DEF Inv, Basic
<1>2. LiveSum(Live, res, k) \in Nat /\ PendSum(call, res, k) \in Nat
  BY SumsType DEF Inv
<1>3. held[k] + excess[k] =
        (charged[k] + LiveSum(Live, res, k)) + (PendSum(call, res, k) + stranded[k])
  BY DEF Inv, HeldIs
<1>4. held[k] <= Ceiling[k]  BY DEF Inv, HeldFits
<1> QED  BY <1>1, <1>2, <1>3, <1>4, SameSums

-------------------------------------------------------------------------------
(* Steps *)

\* A step of process p keeps Control if what it does to its own call and to the
\* live reservations is in order.
LEMMA KeepsControl ==
  ASSUME Basic, Control, NEW p \in Procs,
         \A q \in Procs \ {p} : call'[q] = call[q],
         \A q \in Procs \ {p} : call[q] # None => res'[call[q].id] = res[call[q].id],
         \A i \in Live' : res'[i] # None,
         \A i \in Live' : i \in Live \/ (call[p] # None /\ call[p].op = "reserve" /\ call[p].id = i),
         \A q, r \in Procs : q # r => open'[q] \cap open'[r] = {},
         \A q \in Procs : open'[q] \cap orphans' = {},
         call'[p] # None => Fine(call'[p], res', Live'),
         call'[p] # None => \A q \in Procs \ {p} :
           call[q] # None /\ (call'[p].op = "reserve" \/ call[q].op = "reserve") =>
             call[q].id # call'[p].id
  PROVE  Control'
<1>1. ASSUME NEW q \in Procs, q # p, call[q] # None  PROVE  Fine(call[q], res', Live')
  <2>1. Fine(call[q], res, Live)  BY <1>1 DEF Control
  <2>2. res'[call[q].id] = res[call[q].id]  BY <1>1
  <2>3. call[q].op = "reserve" => call[q].id \notin Live'
    <3> SUFFICES ASSUME call[q].op = "reserve", call[q].id \in Live' PROVE FALSE  OBVIOUS
    <3>1. call[q].id \notin Live  BY <2>1 DEF Fine
    <3>2. call[p] # None /\ call[p].op = "reserve" /\ call[p].id = call[q].id  BY <3>1
    <3> QED  BY <1>1, <3>2 DEF Control
  <2> QED  BY <2>1, <2>2, <2>3 DEF Fine
<1>2. \A q \in Procs : call'[q] # None => Fine(call'[q], res', Live')  BY <1>1
<1>3. ASSUME NEW q \in Procs, NEW r \in Procs, q # r, call'[q] # None, call'[r] # None,
             call'[q].op = "reserve"
      PROVE  call'[r].id # call'[q].id
  <2>1. CASE q # p /\ r # p  BY <1>3, <2>1 DEF Control
  <2>2. CASE q = p  BY <1>3, <2>2
  <2>3. CASE r = p  BY <1>3, <2>3
  <2> QED  BY <2>1, <2>2, <2>3
<1> QED  BY <1>2, <1>3 DEF Control

\* The calls of the other processes are what they were.
LEMMA PendStep ==
  ASSUME NEW p \in Procs, NEW k,
         call \in [Procs -> MaybeCall] /\ call' \in [Procs -> MaybeCall],
         \A q \in Procs \ {p} :
           call'[q] = call[q] /\ (call[q] # None => res'[call[q].id] = res[call[q].id])
  PROVE  /\ PendSum(call, res, k) \in Nat /\ PendSum(call', res', k) \in Nat
         /\ PendSum(call', res', k) =
              (PendSum(call, res, k) - PendOf(call[p], res, k)) + PendOf(call'[p], res', k)
BY PendMove

\* A reservation leaves the live ones, joins them, or goes to the orphans.
LEMMA LiveLoses ==
  ASSUME Basic, Control, NEW p \in Procs, NEW i \in open[p],
         open' = [open EXCEPT ![p] = @ \ {i}], orphans' = orphans
  PROVE  Live' = Live \ {i}
<1>1. \A q \in Procs : open'[q] = IF q = p THEN open[p] \ {i} ELSE open[q]  BY DEF Basic
<1>2. \A q \in Procs : q # p => i \notin open[q]  BY DEF Control
<1>3. i \notin orphans  BY DEF Control
<1>4. Open' = Open \ {i}  BY <1>1, <1>2 DEF Open
<1> QED  BY <1>3, <1>4 DEF Live

LEMMA LiveGains ==
  ASSUME Basic, NEW p \in Procs, NEW i,
         open' = [open EXCEPT ![p] = @ \cup {i}], orphans' = orphans
  PROVE  Live' = Live \cup {i}
<1>1. \A q \in Procs : open'[q] = IF q = p THEN open[p] \cup {i} ELSE open[q]  BY DEF Basic
<1>2. Open' = Open \cup {i}  BY <1>1 DEF Open
<1> QED  BY <1>2 DEF Live

LEMMA LiveKept ==
  ASSUME Basic, NEW p \in Procs, Crash(p)
  PROVE  Live' = Live
<1>1. \A q \in Procs : open'[q] = IF q = p THEN {} ELSE open[q]  BY DEF Crash, Basic
<1>2. Open = Open' \cup open[p]  BY <1>1 DEF Open
<1> QED  BY <1>2 DEF Live, Crash

LEMMA ReserveStep ==
  ASSUME Inv, NEW p \in Procs, NEW k \in Keys, NEW a \in Amounts, NEW i \in Ids,
         Reserve(p, k, a, i)
  PROVE  Inv'
<1> DEFINE c == [op |-> "reserve", id |-> i, amount |-> a, tries |-> 0, done |-> 0, reply |-> "none"]
           e == [key |-> k, amount |-> a]
<1>0. Basic /\ Control /\ HeldFits /\ HeldIs  BY DEF Inv
<1>1. a \in Nat /\ MaxTries \in Nat  BY ReplicasAssumption
<1>2. e \in Reservation /\ e # None  BY <1>1, ReplicasAssumption DEF Reservation
<1>3. c \in Calls /\ c # None  BY <1>1, ReplicasAssumption DEF Calls
<1>4. /\ call[p] = None /\ res[i] = None
      /\ res' = [res EXCEPT ![i] = e] /\ call' = [call EXCEPT ![p] = c]
      /\ UNCHANGED <<held, open, charged, orphans, excess, stranded>>
  BY DEF Reserve, Send, historyVars
<1> HIDE DEF c, e
<1>5. c.op = "reserve" /\ c.id = i /\ c.amount = a /\ c.done = 0 /\ c.reply = "none"
      /\ e.amount = a
  BY DEF c, e
<1>6. Live' = Live  BY <1>4 DEF Live, Open
<1>7. i \notin Live  BY <1>0, <1>4 DEF Control
<1>8. \A q \in Procs : call[q] # None => call[q].id # i
  BY <1>0, <1>4 DEF Control, Fine
<1>9. Basic'
  <2>1. res' \in [Ids -> MaybeReservation]  BY <1>0, <1>2, <1>4 DEF Basic, MaybeReservation
  <2>2. call' \in [Procs -> MaybeCall]  BY <1>0, <1>3, <1>4 DEF Basic, MaybeCall
  <2> QED  BY <1>0, <1>4, <2>1, <2>2 DEF Basic
<1>10. res'[i] = e /\ call'[p] = c /\ (\A j \in Ids \ {i} : res'[j] = res[j])
       /\ \A q \in Procs \ {p} : call'[q] = call[q]
  BY <1>0, <1>4 DEF Basic
<1>11. \A q \in Procs : call[q] # None => call[q].id \in Ids
  BY <1>0 DEF Basic, MaybeCall, Calls
<1>12. \A q \in Procs \ {p} : call[q] # None => res'[call[q].id] = res[call[q].id]
  BY <1>8, <1>10, <1>11
<1>13. Live \subseteq Ids  BY <1>0 DEF Basic, Live, Open
<1>14. \A j \in Live : res'[j] = res[j] /\ res[j] # None
  BY <1>0, <1>7, <1>10, <1>13 DEF Control
<1>15. Control'
  <2>1. Fine(c, res', Live')  BY <1>2, <1>5, <1>6, <1>7, <1>10 DEF Fine
  <2>2. \A q, r \in Procs : q # r => open'[q] \cap open'[r] = {}  BY <1>0, <1>4 DEF Control
  <2>3. \A q \in Procs : open'[q] \cap orphans' = {}  BY <1>0, <1>4 DEF Control
  <2> QED
    BY <1>0, <1>5, <1>6, <1>8, <1>10, <1>12, <1>14, <2>1, <2>2, <2>3, KeepsControl
<1>16. HeldFits'  BY <1>0, <1>4 DEF HeldFits
<1>17. ASSUME NEW j \in Keys
       PROVE  /\ LiveSum(Live', res', j) = LiveSum(Live, res, j)
              /\ PendSum(call', res', j) = PendSum(call, res, j)
  <2>1. LiveOf(Live, res, i, j) = 0 /\ LiveOf(Live', res', i, j) = 0
    BY <1>6, <1>7 DEF LiveOf
  <2>2. LiveSum(Live', res', j) = (LiveSum(Live, res, j) - 0) + 0 /\ LiveSum(Live, res, j) \in Nat
    <3>1. res \in [Ids -> MaybeReservation] /\ res' \in [Ids -> MaybeReservation]
      BY <1>0, <1>9 DEF Basic
    <3>2. \A x \in Live : x \in Ids /\ res[x] # None  BY <1>13, <1>14
    <3>3. \A x \in Live' : x \in Ids /\ res'[x] # None  BY <1>6, <1>13, <1>14
    <3>4. \A x \in Ids \ {i} : (x \in Live' <=> x \in Live) /\ (x \in Live => res'[x] = res[x])
      BY <1>6, <1>10
    <3> QED  BY <2>1, <3>1, <3>2, <3>3, <3>4, LiveMove
  <2>3. PendOf(call[p], res, j) = 0 /\ PendOf(call'[p], res', j) = 0
    BY <1>1, <1>4, <1>5, <1>10 DEF PendOf, Worth
  <2>4. PendSum(call', res', j) = (PendSum(call, res, j) - 0) + 0 /\ PendSum(call, res, j) \in Nat
    <3>1. call \in [Procs -> MaybeCall] /\ call' \in [Procs -> MaybeCall]
      BY <1>0, <1>9 DEF Basic
    <3>2. \A q \in Procs \ {p} :
            call'[q] = call[q] /\ (call[q] # None => res'[call[q].id] = res[call[q].id])
      BY <1>10, <1>12
    <3> QED  BY <2>3, <3>1, <3>2, PendMove
  <2> QED  BY <2>2, <2>4
<1>18. HeldIs'  BY <1>0, <1>4, <1>17 DEF HeldIs
<1> QED  BY <1>9, <1>15, <1>16, <1>18 DEF Inv

\* What a process that waits for Redis adds to the sum of its key.
LEMMA PendIs ==
  ASSUME Basic, Control, NEW p \in Procs, call[p] # None
  PROVE  /\ call[p] \in Calls /\ Left(p) \in Nat /\ KeyOf(p) \in Keys
         /\ res[call[p].id] \in Reservation
         /\ \A k : PendOf(call[p], res, k) = IF KeyOf(p) = k THEN Left(p) ELSE 0
<1>1. call[p] \in Calls  BY DEF Basic, MaybeCall
<1>2. Left(p) = Worth(call[p])  BY DEF Left, Worth
<1>3. Left(p) \in Nat  BY <1>1, <1>2, WorthType
<1>4. call[p].id \in Ids  BY <1>1 DEF Calls
<1>5. res[call[p].id] \in Reservation
  BY <1>4 DEF Basic, MaybeReservation, Control, Fine
<1>6. KeyOf(p) \in Keys  BY <1>5 DEF KeyOf, Reservation
<1>7. \A k : PendOf(call[p], res, k) = IF KeyOf(p) = k THEN Left(p) ELSE 0
  BY <1>2 DEF PendOf, KeyOf
<1> QED  BY <1>1, <1>3, <1>5, <1>6, <1>7

\* An open reservation ends: h of it is charged, and u is sent to be given back.
LEMMA EndStep ==
  ASSUME Inv, NEW p \in Procs, NEW i \in open[p], NEW h \in Nat, NEW u \in Nat,
         NEW o \in {"settle", "release"},
         call[p] = None, h + u = res[i].amount,
         open' = [open EXCEPT ![p] = @ \ {i}],
         charged' = [charged EXCEPT ![res[i].key] = @ + h],
         (u = 0 /\ call' = call) \/ Send(p, o, i, u),
         UNCHANGED <<held, res, orphans, excess, stranded>>
  PROVE  Inv'
<1> DEFINE c == [op |-> o, id |-> i, amount |-> u, tries |-> 0, done |-> 0, reply |-> "none"]
<1>0. Basic /\ Control /\ HeldFits /\ HeldIs  BY DEF Inv
<1>1. i \in Ids /\ i \in Live /\ res[i] # None  BY <1>0 DEF Basic, Control, Live, Open
<1>2. res[i] \in Reservation  BY <1>0, <1>1 DEF Basic, MaybeReservation
<1>3. res[i].key \in Keys /\ res[i].amount \in Nat  BY <1>2 DEF Reservation
<1>4. MaxTries \in Nat  BY ReplicasAssumption
<1>5. c \in Calls /\ c # None  BY <1>1, <1>4, ReplicasAssumption DEF Calls
<1>6. (u = 0 /\ call' = call) \/ call' = [call EXCEPT ![p] = c]  BY DEF Send
<1> HIDE DEF c
<1>7. c.op # "reserve" /\ c.id = i /\ c.amount = u /\ c.done = 0 /\ c.reply = "none"
  BY DEF c
<1>8. Basic'
  <2>1. open' \in [Procs -> SUBSET Ids]  BY <1>0 DEF Basic
  <2>2. charged' \in [Keys -> Nat]  BY <1>0, <1>3 DEF Basic
  <2>3. call' \in [Procs -> MaybeCall]  BY <1>0, <1>5, <1>6 DEF Basic, MaybeCall
  <2> QED  BY <1>0, <2>1, <2>2, <2>3 DEF Basic
<1>9. \A q \in Procs \ {p} : call'[q] = call[q]  BY <1>0, <1>6 DEF Basic
<1>10. (u = 0 /\ call'[p] = None) \/ call'[p] = c  BY <1>0, <1>6 DEF Basic
<1>11. \A q \in Procs : open'[q] = IF q = p THEN open[p] \ {i} ELSE open[q]
  BY <1>0 DEF Basic
<1>12. Live' = Live \ {i}  BY <1>0, LiveLoses
<1>13. Control'
  <2>1. \A j \in Live' : res'[j] # None  BY <1>0, <1>12 DEF Control
  <2>2. \A j \in Live' : j \in Live  BY <1>12
  <2>3. \A q, r \in Procs : q # r => open'[q] \cap open'[r] = {}
    <3>1. \A q \in Procs : open'[q] \subseteq open[q]  BY <1>11
    <3> QED  BY <1>0, <3>1 DEF Control
  <2>4. \A q \in Procs : open'[q] \cap orphans' = {}
    <3>1. \A q \in Procs : open'[q] \subseteq open[q]  BY <1>11
    <3> QED  BY <1>0, <3>1 DEF Control
  <2>5. call'[p] # None => Fine(call'[p], res', Live')
    <3>1. Fine(c, res', Live')  BY <1>1, <1>7 DEF Fine
    <3> QED  BY <1>10, <3>1
  <2>6. call'[p] # None => \A q \in Procs \ {p} :
          call[q] # None /\ (call'[p].op = "reserve" \/ call[q].op = "reserve") =>
            call[q].id # call'[p].id
    <3>1. \A q \in Procs : call[q] # None /\ call[q].op = "reserve" => call[q].id # i
      BY <1>0, <1>1 DEF Control, Fine
    <3> QED  BY <1>7, <1>10, <3>1
  <2> QED  BY <1>0, <1>9, <2>1, <2>2, <2>3, <2>4, <2>5, <2>6, KeepsControl
<1>14. HeldFits'  BY <1>0 DEF HeldFits
<1>15. ASSUME NEW j \in Keys
       PROVE  held'[j] + excess'[j] =
                (charged'[j] + LiveSum(Live', res', j)) + (PendSum(call', res', j) + stranded'[j])
  <2>1. LiveOf(Live, res, i, j) = (IF res[i].key = j THEN res[i].amount ELSE 0)
        /\ LiveOf(Live', res', i, j) = 0
    BY <1>1, <1>12 DEF LiveOf
  <2>2. /\ LiveSum(Live, res, j) \in Nat /\ LiveSum(Live', res', j) \in Nat
        /\ LiveSum(Live', res', j) =
             (LiveSum(Live, res, j) - (IF res[i].key = j THEN res[i].amount ELSE 0)) + 0
    <3>1. res \in [Ids -> MaybeReservation] /\ res' \in [Ids -> MaybeReservation]
      BY <1>0, <1>8 DEF Basic
    <3>2. \A x \in Live : x \in Ids /\ res[x] # None  BY <1>0 DEF Basic, Control, Live, Open
    <3>3. \A x \in Live' : x \in Ids /\ res'[x] # None  BY <1>12, <3>2
    <3>4. \A x \in Ids \ {i} : (x \in Live' <=> x \in Live) /\ (x \in Live => res'[x] = res[x])
      BY <1>12
    <3> QED  BY <1>1, <2>1, <3>1, <3>2, <3>3, <3>4, LiveMove
  <2>3. PendOf(call[p], res, j) = 0
        /\ PendOf(call'[p], res', j) = (IF res[i].key = j THEN u ELSE 0)
    BY <1>5, <1>7, <1>10 DEF PendOf, Worth
  <2>4. /\ PendSum(call, res, j) \in Nat /\ PendSum(call', res', j) \in Nat
        /\ PendSum(call', res', j) =
             (PendSum(call, res, j) - 0) + (IF res[i].key = j THEN u ELSE 0)
    <3>1. call \in [Procs -> MaybeCall] /\ call' \in [Procs -> MaybeCall]
      BY <1>0, <1>8 DEF Basic
    <3>2. \A q \in Procs \ {p} :
            call'[q] = call[q] /\ (call[q] # None => res'[call[q].id] = res[call[q].id])
      BY <1>9
    <3> QED  BY <2>3, <3>1, <3>2, PendMove
  <2>5. charged[j] \in Nat /\ charged'[j] = (IF res[i].key = j THEN charged[j] + h ELSE charged[j])
    BY <1>0 DEF Basic
  <2>6. /\ held[j] \in Int /\ excess[j] \in Nat /\ stranded[j] \in Nat
        /\ held[j] + excess[j] =
             (charged[j] + LiveSum(Live, res, j)) + (PendSum(call, res, j) + stranded[j])
    BY <1>0 DEF Basic, HeldIs
  <2> QED  BY <1>3, <2>2, <2>4, <2>5, <2>6
<1>16. HeldIs'  BY <1>15 DEF HeldIs
<1> QED  BY <1>8, <1>13, <1>14, <1>16 DEF Inv

LEMMA SettleStep ==
  ASSUME Inv, NEW p \in Procs, NEW i \in Ids, NEW c \in Costs, Settle(p, i, c)
  PROVE  Inv'
<1>1. call[p] = None /\ i \in open[p]  BY DEF Settle
<1>2. res[i] # None  BY <1>1 DEF Inv, Control, Live, Open
<1>3. res[i].amount \in Nat /\ c \in Int
  BY <1>2, ReplicasAssumption DEF Inv, Basic, MaybeReservation, Reservation
<1>4. Charge(i, c) \in Nat /\ Unused(i, c) \in Nat
      /\ Charge(i, c) + Unused(i, c) = res[i].amount
  BY <1>3 DEF Charge, Unused, Least, Greatest
<1>5. (Unused(i, c) = 0 /\ call' = call) \/ Send(p, "settle", i, Unused(i, c))
  BY DEF Settle
<1>6. /\ open' = [open EXCEPT ![p] = @ \ {i}]
      /\ charged' = [charged EXCEPT ![res[i].key] = @ + Charge(i, c)]
      /\ UNCHANGED <<held, res, orphans, excess, stranded>>
  BY DEF Settle
<1> QED  BY <1>1, <1>4, <1>5, <1>6, EndStep

LEMMA ReleaseStep ==
  ASSUME Inv, NEW p \in Procs, NEW i \in Ids, Release(p, i)
  PROVE  Inv'
<1>1. /\ call[p] = None /\ i \in open[p]
      /\ open' = [open EXCEPT ![p] = @ \ {i}]
      /\ Send(p, "release", i, res[i].amount)
      /\ UNCHANGED <<held, res, charged, orphans, excess, stranded>>
  BY DEF Release, historyVars
<1>2. res[i] # None  BY <1>1 DEF Inv, Control, Live, Open
<1>3. res[i].amount \in Nat /\ res[i].key \in Keys
  BY <1>2 DEF Inv, Basic, MaybeReservation, Reservation
<1>4. charged' = [charged EXCEPT ![res[i].key] = @ + 0]
  BY <1>1, <1>3 DEF Inv, Basic
<1>5. 0 + res[i].amount = res[i].amount  BY <1>3
<1> QED  BY <1>1, <1>3, <1>4, <1>5, EndStep

-------------------------------------------------------------------------------
(* A command is executed. *)

\* A call with the results of an execution in it.
Ran(c, d, y) == [op |-> c.op, id |-> c.id, amount |-> c.amount,
                 tries |-> c.tries + 1, done |-> d, reply |-> y]

LEMMA RanType ==
  ASSUME NEW c \in Calls, c.tries < MaxTries, NEW d \in Nat, NEW y \in {"yes", "no"}
  PROVE  /\ Ran(c, d, y) \in Calls
         /\ Ran(c, d, y).op = c.op /\ Ran(c, d, y).id = c.id
         /\ Ran(c, d, y).amount = c.amount
         /\ Ran(c, d, y).done = d /\ Ran(c, d, y).reply = y
<1>1. MaxTries \in Nat  BY ReplicasAssumption
<1>2. /\ c.op \in {"reserve", "settle", "release"} /\ c.id \in Ids /\ c.amount \in Nat
      /\ c.tries \in 0 .. MaxTries
  BY DEF Calls
<1>3. c.tries + 1 \in 0 .. MaxTries  BY <1>1, <1>2
<1> QED  BY <1>2, <1>3 DEF Ran, Calls

LEMMA MoreDone ==
  ASSUME NEW d \in Nat, NEW a \in Nat
  PROVE  (d + 1) * a = d * a + a
OBVIOUS

\* The call of p has been executed once more, d times with an effect by now;
\* the counter moves by m, and z of that is given back a second time.
LEMMA ExecuteStep ==
  ASSUME Inv, NEW p \in Procs, call[p] # None, call[p].tries < MaxTries,
         NEW d \in Nat, NEW y \in {"yes", "no"}, NEW m \in Int, NEW z \in Nat,
         NEW e, e = Ran(call[p], d, y),
         y = "yes" => d >= 1,
         y = "no" => call[p].op = "reserve",
         call' = [call EXCEPT ![p] = e],
         held' = [held EXCEPT ![KeyOf(p)] = @ + m],
         excess' = [excess EXCEPT ![KeyOf(p)] = @ + z],
         held[KeyOf(p)] + m <= Ceiling[KeyOf(p)],
         Worth(e) = (Left(p) + m) + z,
         UNCHANGED <<open, res, charged, orphans, stranded>>
  PROVE  Inv'
<1>0. Basic /\ Control /\ HeldFits /\ HeldIs  BY DEF Inv
<1>1. /\ call[p] \in Calls /\ Left(p) \in Nat /\ KeyOf(p) \in Keys
      /\ \A k : PendOf(call[p], res, k) = IF KeyOf(p) = k THEN Left(p) ELSE 0
  BY <1>0, PendIs
<1>2. /\ e \in Calls
      /\ e.op = call[p].op /\ e.id = call[p].id /\ e.amount = call[p].amount
      /\ e.done = d /\ e.reply = y
  BY <1>1, RanType
<1>3. e # None  BY <1>2, ReplicasAssumption
<1>4. Basic'
  <2>1. held' \in [Keys -> Int] /\ excess' \in [Keys -> Nat]  BY <1>0, <1>1 DEF Basic
  <2>2. call' \in [Procs -> MaybeCall]  BY <1>0, <1>2 DEF Basic, MaybeCall
  <2> QED  BY <1>0, <2>1, <2>2 DEF Basic
<1>5. call'[p] = e /\ \A q \in Procs \ {p} : call'[q] = call[q]  BY <1>0 DEF Basic
<1>6. Live' = Live  BY DEF Live, Open
<1>7. Control'
  <2>1. \A j \in Live' : res'[j] # None  BY <1>0, <1>6 DEF Control
  <2>2. \A q, r \in Procs : q # r => open'[q] \cap open'[r] = {}  BY <1>0 DEF Control
  <2>3. \A q \in Procs : open'[q] \cap orphans' = {}  BY <1>0 DEF Control
  <2>4. Fine(e, res', Live')
    <3>1. Fine(call[p], res, Live)  BY <1>0 DEF Control
    <3> QED  BY <1>2, <1>6, <3>1 DEF Fine
  <2>5. \A q \in Procs \ {p} :
          call[q] # None /\ (e.op = "reserve" \/ call[q].op = "reserve") => call[q].id # e.id
    BY <1>0, <1>2 DEF Control
  <2> QED  BY <1>0, <1>5, <1>6, <2>1, <2>2, <2>3, <2>4, <2>5, KeepsControl
<1>8. HeldFits'  BY <1>0, <1>1 DEF HeldFits, Basic
<1>9. ASSUME NEW j \in Keys
      PROVE  held'[j] + excess'[j] =
               (charged'[j] + LiveSum(Live', res', j)) + (PendSum(call', res', j) + stranded'[j])
  <2>1. PendOf(call'[p], res', j) = IF KeyOf(p) = j THEN (Left(p) + m) + z ELSE 0
    BY <1>2, <1>3, <1>5 DEF PendOf, KeyOf
  <2>2. /\ PendSum(call, res, j) \in Nat /\ PendSum(call', res', j) \in Nat
        /\ PendSum(call', res', j) =
             (PendSum(call, res, j) - (IF KeyOf(p) = j THEN Left(p) ELSE 0))
               + (IF KeyOf(p) = j THEN (Left(p) + m) + z ELSE 0)
    <3>1. call \in [Procs -> MaybeCall] /\ call' \in [Procs -> MaybeCall]
      BY <1>0, <1>4 DEF Basic
    <3>2. \A q \in Procs \ {p} :
            call'[q] = call[q] /\ (call[q] # None => res'[call[q].id] = res[call[q].id])
      BY <1>5
    <3>3. /\ PendSum(call, res, j) \in Nat /\ PendSum(call', res', j) \in Nat
          /\ PendSum(call', res', j) =
               (PendSum(call, res, j) - PendOf(call[p], res, j)) + PendOf(call'[p], res', j)
      BY <3>1, <3>2, PendStep
    <3>4. PendOf(call[p], res, j) = IF KeyOf(p) = j THEN Left(p) ELSE 0  BY <1>1
    <3> QED  BY <2>1, <3>3, <3>4
  <2>3. LiveSum(Live', res', j) = LiveSum(Live, res, j) /\ LiveSum(Live, res, j) \in Nat
    BY <1>0, <1>6, SumsType
  <2>4. /\ held[j] \in Int /\ excess[j] \in Nat /\ stranded[j] \in Nat /\ charged[j] \in Nat
        /\ held[j] + excess[j] =
             (charged[j] + LiveSum(Live, res, j)) + (PendSum(call, res, j) + stranded[j])
    BY <1>0 DEF Basic, HeldIs
  <2>5. /\ held'[j] = IF KeyOf(p) = j THEN held[j] + m ELSE held[j]
        /\ excess'[j] = IF KeyOf(p) = j THEN excess[j] + z ELSE excess[j]
    BY <1>0 DEF Basic
  <2> QED  BY <1>1, <2>2, <2>3, <2>4, <2>5
<1>10. HeldIs'  BY <1>9 DEF HeldIs
<1> QED  BY <1>4, <1>7, <1>8, <1>10 DEF Inv

LEMMA ExecuteReserveStep ==
  ASSUME Inv, NEW p \in Procs, ExecuteReserve(p)
  PROVE  Inv'
<1> DEFINE d == IF Fits(p) THEN call[p].done + 1 ELSE call[p].done
           y == IF Fits(p) THEN "yes" ELSE "no"
           m == IF Fits(p) THEN call[p].amount ELSE 0
           e == Ran(call[p], d, y)
<1>0. Basic /\ Control /\ HeldFits /\ HeldIs  BY DEF Inv
<1>1. /\ call[p] # None /\ call[p].op = "reserve" /\ call[p].tries < MaxTries
      /\ UNCHANGED <<open, res, charged, orphans, stranded, excess>>
  BY DEF ExecuteReserve, Executed
<1>2. call[p] \in Calls /\ KeyOf(p) \in Keys  BY <1>0, <1>1, PendIs
<1>3. call[p].done \in Nat /\ call[p].amount \in Nat  BY <1>2 DEF Calls
<1>4. call' = [call EXCEPT ![p] = e]
  <2>1. /\ call' \in [Procs -> {call'[q] : q \in Procs}]
        /\ \A q \in Procs \ {p} : call'[q] = call[q]
        /\ call'[p] = [[[call[p] EXCEPT !.tries = call[p].tries + 1] EXCEPT !.done = d]
                         EXCEPT !.reply = y]
    BY <1>0, <1>2 DEF ExecuteReserve, Executed, Basic
  <2> HIDE DEF d
  <2>2. call'[p] = e  BY <1>2, <2>1 DEF Ran, Calls
  <2> HIDE DEF e
  <2> QED  BY <1>0, <2>1, <2>2 DEF Basic
<1>5. held[KeyOf(p)] \in Int /\ excess[KeyOf(p)] \in Nat  BY <1>0, <1>2 DEF Basic
<1>6. held' = [held EXCEPT ![KeyOf(p)] = @ + m]
  BY <1>0, <1>2, <1>5 DEF ExecuteReserve, Basic
<1>7. excess' = [excess EXCEPT ![KeyOf(p)] = @ + 0]  BY <1>0, <1>1, <1>2, <1>5 DEF Basic
<1>8. held[KeyOf(p)] + m <= Ceiling[KeyOf(p)]
  BY <1>0, <1>2, <1>5 DEF Fits, HeldFits
<1>9. d \in Nat /\ m \in Int /\ y \in {"yes", "no"} /\ (y = "yes" => d >= 1)  BY <1>3
<1>10. e.op = "reserve" /\ e.done = d /\ e.amount = call[p].amount
  BY <1>1, <1>2, <1>9, RanType
<1>11. Worth(e) = (Left(p) + m) + 0
  <2>1. Worth(e) = d * call[p].amount  BY <1>10 DEF Worth
  <2>2. Left(p) = call[p].done * call[p].amount  BY <1>1 DEF Left
  <2>3. (call[p].done + 1) * call[p].amount = call[p].done * call[p].amount + call[p].amount
    BY <1>3, MoreDone
  <2>4. call[p].done * call[p].amount \in Nat  BY <1>3
  <2> QED  BY <1>3, <2>1, <2>2, <2>3, <2>4
<1> HIDE DEF d, y, m
<1> QED  BY <1>1, <1>4, <1>6, <1>7, <1>8, <1>9, <1>11, ExecuteStep

LEMMA ExecuteGiveBackStep ==
  ASSUME Inv, NEW p \in Procs, ExecuteGiveBack(p)
  PROVE  Inv'
<1> DEFINE d == call[p].done + 1
           m == -call[p].amount
           z == IF call[p].done = 0 THEN 0 ELSE call[p].amount
           e == Ran(call[p], d, "yes")
<1>0. Basic /\ Control /\ HeldFits /\ HeldIs  BY DEF Inv
<1>1. /\ call[p] # None /\ call[p].op # "reserve" /\ call[p].tries < MaxTries
      /\ UNCHANGED <<open, res, charged, orphans, stranded>>
  BY DEF ExecuteGiveBack, Executed
<1>2. call[p] \in Calls /\ KeyOf(p) \in Keys  BY <1>0, <1>1, PendIs
<1>3. call[p].done \in Nat /\ call[p].amount \in Nat  BY <1>2 DEF Calls
<1>4. call' = [call EXCEPT ![p] = e]
  <2>1. /\ call' \in [Procs -> {call'[q] : q \in Procs}]
        /\ \A q \in Procs \ {p} : call'[q] = call[q]
        /\ call'[p] = [[[call[p] EXCEPT !.tries = call[p].tries + 1] EXCEPT !.done = d]
                         EXCEPT !.reply = "yes"]
    BY <1>0, <1>2 DEF ExecuteGiveBack, Executed, Basic
  <2> HIDE DEF d
  <2>2. call'[p] = e  BY <1>2, <2>1 DEF Ran, Calls
  <2> HIDE DEF e
  <2> QED  BY <1>0, <2>1, <2>2 DEF Basic
<1>5. /\ held[KeyOf(p)] \in Int /\ excess[KeyOf(p)] \in Nat /\ Ceiling[KeyOf(p)] \in Nat
      /\ held[KeyOf(p)] <= Ceiling[KeyOf(p)]
  BY <1>0, <1>2, ReplicasAssumption DEF Basic, HeldFits
<1>6. held' = [held EXCEPT ![KeyOf(p)] = @ + m]
  BY <1>0, <1>2, <1>3, <1>5 DEF ExecuteGiveBack, Basic
<1>7. excess' = [excess EXCEPT ![KeyOf(p)] = @ + z]
  <2>1. CASE call[p].done = 0
    <3>1. excess' = excess /\ z = 0  BY <2>1 DEF ExecuteGiveBack
    <3> HIDE DEF z
    <3> QED  BY <1>0, <1>2, <1>5, <3>1 DEF Basic
  <2>2. CASE call[p].done # 0  BY <2>2 DEF ExecuteGiveBack
  <2> QED  BY <2>1, <2>2
<1>8. held[KeyOf(p)] + m <= Ceiling[KeyOf(p)]  BY <1>3, <1>5
<1>9. d \in Nat /\ m \in Int /\ z \in Nat /\ d >= 1  BY <1>3
<1>10. e.op = call[p].op /\ e.done = d /\ e.amount = call[p].amount
  BY <1>1, <1>2, <1>9, RanType
<1>11. Worth(e) = (Left(p) + m) + z
  <2>1. Worth(e) = 0  BY <1>1, <1>9, <1>10 DEF Worth
  <2>2. Left(p) = IF call[p].done = 0 THEN call[p].amount ELSE 0  BY <1>1 DEF Left
  <2> QED  BY <1>3, <2>1, <2>2
<1> HIDE DEF d, m, z
<1> QED  BY <1>1, <1>4, <1>6, <1>7, <1>8, <1>9, <1>11, ExecuteStep

-------------------------------------------------------------------------------
(* A call ends. *)

\* The call of p is over; a of what it leaves behind is stranded, the rest is a
\* live reservation from now on.
LEMMA LeaveStep ==
  ASSUME Inv, NEW p \in Procs, NEW a \in Nat, call[p] # None,
         call' = [call EXCEPT ![p] = None],
         stranded' = [stranded EXCEPT ![KeyOf(p)] = @ + a],
         UNCHANGED <<held, charged, excess>>,
         open' \in [Procs -> SUBSET Ids], res' \in [Ids -> MaybeReservation],
         orphans' \subseteq Ids,
         Control',
         \A q \in Procs \ {p} : call[q] # None => res'[call[q].id] = res[call[q].id],
         \A k \in Keys : LiveSum(Live', res', k) =
           LiveSum(Live, res, k) + (IF KeyOf(p) = k THEN Left(p) - a ELSE 0)
  PROVE  Inv'
<1>0. Basic /\ Control /\ HeldFits /\ HeldIs  BY DEF Inv
<1>1. /\ call[p] \in Calls /\ Left(p) \in Nat /\ KeyOf(p) \in Keys
      /\ \A k : PendOf(call[p], res, k) = IF KeyOf(p) = k THEN Left(p) ELSE 0
  BY <1>0, PendIs
<1>2. Basic'
  <2>1. stranded' \in [Keys -> Nat]  BY <1>0, <1>1 DEF Basic
  <2>2. call' \in [Procs -> MaybeCall]  BY <1>0 DEF Basic, MaybeCall
  <2> QED  BY <1>0, <2>1, <2>2 DEF Basic
<1>3. call'[p] = None /\ \A q \in Procs \ {p} : call'[q] = call[q]  BY <1>0 DEF Basic
<1>4. HeldFits'  BY <1>0 DEF HeldFits
<1>5. ASSUME NEW k \in Keys
      PROVE  held'[k] + excess'[k] =
               (charged'[k] + LiveSum(Live', res', k)) + (PendSum(call', res', k) + stranded'[k])
  <2>1. /\ PendSum(call, res, k) \in Nat /\ PendSum(call', res', k) \in Nat
        /\ PendSum(call', res', k) =
             (PendSum(call, res, k) - PendOf(call[p], res, k)) + PendOf(call'[p], res', k)
    <3>1. call \in [Procs -> MaybeCall] /\ call' \in [Procs -> MaybeCall]
      BY <1>0, <1>2 DEF Basic
    <3>2. \A q \in Procs \ {p} :
            call'[q] = call[q] /\ (call[q] # None => res'[call[q].id] = res[call[q].id])
      BY <1>3
    <3> QED  BY <3>1, <3>2, PendStep
  <2>2. PendOf(call[p], res, k) = IF KeyOf(p) = k THEN Left(p) ELSE 0  BY <1>1
  <2>3. PendOf(call'[p], res', k) = 0  BY <1>3 DEF PendOf
  <2>4. LiveSum(Live, res, k) \in Nat  BY <1>0, SumsType
  <2>5. /\ held[k] \in Int /\ excess[k] \in Nat /\ stranded[k] \in Nat /\ charged[k] \in Nat
        /\ held[k] + excess[k] =
             (charged[k] + LiveSum(Live, res, k)) + (PendSum(call, res, k) + stranded[k])
    BY <1>0 DEF Basic, HeldIs
  <2>6. stranded'[k] = IF KeyOf(p) = k THEN stranded[k] + a ELSE stranded[k]
    BY <1>0 DEF Basic
  <2>7. LiveSum(Live', res', k) =
          LiveSum(Live, res, k) + (IF KeyOf(p) = k THEN Left(p) - a ELSE 0)
    OBVIOUS
  <2>8. held'[k] = held[k] /\ excess'[k] = excess[k] /\ charged'[k] = charged[k]  OBVIOUS
  <2> QED  BY <1>1, <2>1, <2>2, <2>3, <2>4, <2>5, <2>6, <2>7, <2>8
<1>6. HeldIs'  BY <1>5 DEF HeldIs
<1> QED  BY <1>2, <1>4, <1>6 DEF Inv

\* The reservations that are live stay what they are.
LEMMA LiveStays ==
  ASSUME Basic, Control, Live' = Live, res' \in [Ids -> MaybeReservation],
         \A i \in Live : res'[i] = res[i], NEW k \in Keys
  PROVE  LiveSum(Live', res', k) = LiveSum(Live, res, k)
<1>1. \A i \in Ids : LiveOf(Live', res', i, k) = LiveOf(Live, res, i, k)  BY DEF LiveOf
<1> QED  BY <1>1 DEF LiveSum

LEMMA RaisesStep ==
  ASSUME Inv, NEW p \in Procs, Raises(p)
  PROVE  Inv'
<1>0. Basic /\ Control  BY DEF Inv
<1>1. /\ call[p] # None /\ call' = [call EXCEPT ![p] = None]
      /\ stranded' = [stranded EXCEPT ![KeyOf(p)] = @ + Left(p)]
      /\ UNCHANGED <<held, open, res, charged, orphans, excess>>
  BY DEF Raises, Strand
<1>2. Left(p) \in Nat  BY <1>0, <1>1, PendIs
<1>3. Live' = Live  BY <1>1 DEF Live, Open
<1>4. call'[p] = None /\ \A q \in Procs \ {p} : call'[q] = call[q]
  BY <1>0, <1>1 DEF Basic
<1>5. Control'
  BY <1>0, <1>1, <1>3, <1>4 DEF Control
<1>6. \A k \in Keys : LiveSum(Live', res', k) =
        LiveSum(Live, res, k) + (IF KeyOf(p) = k THEN Left(p) - Left(p) ELSE 0)
  <2> TAKE k \in Keys
  <2>1. LiveSum(Live', res', k) = LiveSum(Live, res, k)  BY <1>1, <1>3
  <2>2. LiveSum(Live, res, k) \in Nat  BY <1>0, SumsType
  <2> QED  BY <1>2, <2>1, <2>2
<1>7. open' \in [Procs -> SUBSET Ids] /\ res' \in [Ids -> MaybeReservation] /\ orphans' \subseteq Ids
  BY <1>0, <1>1 DEF Basic
<1> QED  BY <1>1, <1>2, <1>5, <1>6, <1>7, LeaveStep

LEMMA DeniedStep ==
  ASSUME Inv, NEW p \in Procs, Denied(p)
  PROVE  Inv'
<1> DEFINE i == call[p].id
<1>0. Basic /\ Control  BY DEF Inv
<1>1. /\ call[p] # None /\ call[p].reply = "no" /\ call' = [call EXCEPT ![p] = None]
      /\ res' = [res EXCEPT ![i] = None]
      /\ stranded' = [stranded EXCEPT ![KeyOf(p)] = @ + Left(p)]
      /\ UNCHANGED <<held, open, charged, orphans, excess>>
  BY DEF Denied, Strand
<1>2. Left(p) \in Nat /\ i \in Ids  BY <1>0, <1>1, PendIs DEF Calls
<1>3. Live' = Live  BY <1>1 DEF Live, Open
<1>4. call[p].op = "reserve" /\ i \notin Live  BY <1>0, <1>1 DEF Control, Fine
<1>5. \A q \in Procs \ {p} : call[q] # None => call[q].id # i
  BY <1>0, <1>1, <1>4 DEF Control
<1> HIDE DEF i
<1>6. \A j : j # i /\ j \in Ids => res'[j] = res[j]  BY <1>0, <1>1, <1>2 DEF Basic
<1>7. \A q \in Procs : call[q] # None => call[q].id \in Ids
  BY <1>0 DEF Basic, MaybeCall, Calls
<1>8. \A q \in Procs \ {p} : call[q] # None => res'[call[q].id] = res[call[q].id]
  BY <1>5, <1>6, <1>7
<1>9. \A j \in Live : res'[j] = res[j] /\ res[j] # None
  BY <1>0, <1>4, <1>6 DEF Basic, Control, Live, Open
<1>10. call'[p] = None /\ \A q \in Procs \ {p} : call'[q] = call[q]
  BY <1>0, <1>1 DEF Basic
<1>11. Control'
  <2>1. \A q, r \in Procs : q # r => open'[q] \cap open'[r] = {}  BY <1>0, <1>1 DEF Control
  <2>2. \A q \in Procs : open'[q] \cap orphans' = {}  BY <1>0, <1>1 DEF Control
  <2> QED  BY <1>0, <1>3, <1>8, <1>9, <1>10, <2>1, <2>2, KeepsControl
<1>12. res' \in [Ids -> MaybeReservation]  BY <1>0, <1>1 DEF Basic, MaybeReservation
<1>13. \A k \in Keys : LiveSum(Live', res', k) =
         LiveSum(Live, res, k) + (IF KeyOf(p) = k THEN Left(p) - Left(p) ELSE 0)
  <2> TAKE k \in Keys
  <2>1. LiveSum(Live', res', k) = LiveSum(Live, res, k)
    BY <1>0, <1>3, <1>9, <1>12, LiveStays
  <2>2. LiveSum(Live, res, k) \in Nat  BY <1>0, SumsType
  <2> QED  BY <1>2, <2>1, <2>2
<1>14. open' \in [Procs -> SUBSET Ids] /\ orphans' \subseteq Ids  BY <1>0, <1>1 DEF Basic
<1> QED  BY <1>1, <1>2, <1>8, <1>11, <1>12, <1>13, <1>14, LeaveStep

LEMMA AdmittedStep ==
  ASSUME Inv, NEW p \in Procs, Answered(p), call[p].op = "reserve"
  PROVE  Inv'
<1> DEFINE i == call[p].id
           a == Left(p) - call[p].amount
<1>0. Basic /\ Control  BY DEF Inv
<1>1. /\ call[p] # None /\ call[p].reply = "yes" /\ call' = [call EXCEPT ![p] = None]
      /\ open' = [open EXCEPT ![p] = @ \cup {i}]
      /\ stranded' = [stranded EXCEPT ![KeyOf(p)] = @ + a]
      /\ UNCHANGED <<held, res, charged, orphans, excess>>
  BY DEF Answered, Strand
<1>2. call[p] \in Calls /\ res[i] \in Reservation /\ KeyOf(p) = res[i].key
  BY <1>0, <1>1, PendIs DEF KeyOf
<1>3. i \in Ids /\ call[p].done \in Nat /\ call[p].amount \in Nat  BY <1>2 DEF Calls
<1>4. /\ call[p].done >= 1 /\ i \notin Live /\ call[p].amount = res[i].amount
      /\ res[i] # None
  BY <1>0, <1>1 DEF Control, Fine
<1>5. a \in Nat
  <2>1. call[p].done - 1 \in Nat  BY <1>3, <1>4
  <2>2. ((call[p].done - 1) + 1) * call[p].amount =
          (call[p].done - 1) * call[p].amount + call[p].amount
    BY <1>3, <2>1, MoreDone
  <2>3. (call[p].done - 1) * call[p].amount \in Nat  BY <1>3, <2>1
  <2>4. (call[p].done - 1) + 1 = call[p].done  BY <1>3
  <2>5. Left(p) = call[p].done * call[p].amount  BY DEF Left
  <2> QED  BY <1>3, <2>2, <2>3, <2>4, <2>5
<1>6. Left(p) - a = res[i].amount
  <2>1. Left(p) \in Nat  BY <1>0, <1>1, PendIs
  <2> QED  BY <1>3, <1>4, <2>1
<1> HIDE DEF i, a
<1>7. \A q \in Procs : open'[q] = IF q = p THEN open[p] \cup {i} ELSE open[q]
  BY <1>0, <1>1 DEF Basic
<1>8. Live' = Live \cup {i}  BY <1>0, <1>1, LiveGains
<1>9. call'[p] = None /\ \A q \in Procs \ {p} : call'[q] = call[q]
  BY <1>0, <1>1 DEF Basic
<1>10. \A j \in Live : j \in Ids /\ res[j] # None  BY <1>0 DEF Basic, Control, Live, Open
<1>11. \A q \in Procs : i \notin open[q] /\ i \notin orphans  BY <1>4 DEF Live, Open
<1>12. Control'
  <2>1. \A j \in Live' : res'[j] # None  BY <1>1, <1>4, <1>8, <1>10
  <2>2. \A j \in Live' : j \in Live \/ (call[p] # None /\ call[p].op = "reserve" /\ call[p].id = j)
    BY <1>1, <1>8 DEF i
  <2>3. \A q, r \in Procs : q # r => open'[q] \cap open'[r] = {}
    <3> SUFFICES ASSUME NEW q \in Procs, NEW r \in Procs, q # r
                 PROVE  open'[q] \cap open'[r] = {}
      OBVIOUS
    <3>1. open[q] \cap open[r] = {}  BY <1>0 DEF Control
    <3> QED  BY <1>7, <1>11, <3>1
  <2>4. \A q \in Procs : open'[q] \cap orphans' = {}
    <3> SUFFICES ASSUME NEW q \in Procs PROVE open'[q] \cap orphans' = {}  OBVIOUS
    <3>1. open[q] \cap orphans = {}  BY <1>0 DEF Control
    <3> QED  BY <1>1, <1>7, <1>11, <3>1
  <2> QED  BY <1>0, <1>1, <1>9, <2>1, <2>2, <2>3, <2>4, KeepsControl
<1>13. \A k \in Keys : LiveSum(Live', res', k) =
         LiveSum(Live, res, k) + (IF KeyOf(p) = k THEN Left(p) - a ELSE 0)
  <2> TAKE k \in Keys
  <2>1. /\ LiveOf(Live, res, i, k) = 0
        /\ LiveOf(Live', res', i, k) = IF KeyOf(p) = k THEN Left(p) - a ELSE 0
    BY <1>1, <1>2, <1>4, <1>6, <1>8 DEF LiveOf
  <2>2. /\ LiveSum(Live, res, k) \in Nat
        /\ LiveSum(Live', res', k) =
             (LiveSum(Live, res, k) - LiveOf(Live, res, i, k)) + LiveOf(Live', res', i, k)
    <3>1. res \in [Ids -> MaybeReservation] /\ res' \in [Ids -> MaybeReservation]
      BY <1>0, <1>1 DEF Basic
    <3>2. \A x \in Live' : x \in Ids /\ res'[x] # None  BY <1>1, <1>3, <1>4, <1>8, <1>10 DEF i
    <3>3. \A x \in Ids \ {i} : (x \in Live' <=> x \in Live) /\ (x \in Live => res'[x] = res[x])
      BY <1>1, <1>8
    <3>4. i \in Ids  BY <1>3 DEF i
    <3> QED  BY <1>10, <3>1, <3>2, <3>3, <3>4, LiveMove
  <2> QED  BY <2>1, <2>2
<1>14. open' \in [Procs -> SUBSET Ids] /\ res' \in [Ids -> MaybeReservation] /\ orphans' \subseteq Ids
  <2>1. i \in Ids  BY <1>3 DEF i
  <2> QED  BY <1>0, <1>1, <2>1 DEF Basic
<1> QED  BY <1>1, <1>5, <1>12, <1>13, <1>14, LeaveStep

LEMMA DoneStep ==
  ASSUME Inv, NEW p \in Procs, Answered(p), call[p].op # "reserve"
  PROVE  Inv'
<1>0. Basic /\ Control  BY DEF Inv
<1>1. /\ call[p] # None /\ call[p].reply = "yes" /\ call' = [call EXCEPT ![p] = None]
      /\ UNCHANGED <<held, open, res, charged, orphans, excess, stranded>>
  BY DEF Answered
<1>2. call[p] \in Calls /\ KeyOf(p) \in Keys  BY <1>0, <1>1, PendIs
<1>3. Left(p) = 0
  <2>1. call[p].done >= 1  BY <1>0, <1>1 DEF Control, Fine
  <2> QED  BY <1>2, <2>1 DEF Left, Calls
<1>4. stranded' = [stranded EXCEPT ![KeyOf(p)] = @ + 0]
  BY <1>0, <1>1, <1>2 DEF Basic
<1>5. Live' = Live  BY <1>1 DEF Live, Open
<1>6. call'[p] = None /\ \A q \in Procs \ {p} : call'[q] = call[q]
  BY <1>0, <1>1 DEF Basic
<1>7. Control'  BY <1>0, <1>1, <1>5, <1>6 DEF Control
<1>8. \A k \in Keys : LiveSum(Live', res', k) =
        LiveSum(Live, res, k) + (IF KeyOf(p) = k THEN Left(p) - 0 ELSE 0)
  <2> TAKE k \in Keys
  <2>1. LiveSum(Live', res', k) = LiveSum(Live, res, k)  BY <1>1, <1>5
  <2>2. LiveSum(Live, res, k) \in Nat  BY <1>0, SumsType
  <2> QED  BY <1>3, <2>1, <2>2
<1>9. open' \in [Procs -> SUBSET Ids] /\ res' \in [Ids -> MaybeReservation] /\ orphans' \subseteq Ids
  BY <1>0, <1>1 DEF Basic
<1> QED  BY <1>1, <1>4, <1>7, <1>8, <1>9, LeaveStep

LEMMA CrashStep ==
  ASSUME Inv, NEW p \in Procs, Crash(p)
  PROVE  Inv'
<1>0. Basic /\ Control /\ HeldFits /\ HeldIs  BY DEF Inv
<1>1. /\ open' = [open EXCEPT ![p] = {}] /\ call' = [call EXCEPT ![p] = None]
      /\ orphans' = orphans \cup open[p]
      /\ UNCHANGED <<held, res, charged, excess>>
  BY DEF Crash
<1>2. /\ open'[p] = {} /\ \A q \in Procs \ {p} : open'[q] = open[q]
      /\ call'[p] = None /\ \A q \in Procs \ {p} : call'[q] = call[q]
  BY <1>0, <1>1 DEF Basic
<1>3. Live' = Live  BY <1>0, LiveKept
<1>4. /\ open' \in [Procs -> SUBSET Ids] /\ res' \in [Ids -> MaybeReservation]
      /\ orphans' \subseteq Ids
  BY <1>0, <1>1 DEF Basic
<1>5. Control'
  <2>1. \A q, r \in Procs : q # r => open'[q] \cap open'[r] = {}
    <3> SUFFICES ASSUME NEW q \in Procs, NEW r \in Procs, q # r
                 PROVE  open'[q] \cap open'[r] = {}
      OBVIOUS
    <3>1. open[q] \cap open[r] = {}  BY <1>0 DEF Control
    <3> QED  BY <1>2, <3>1
  <2>2. \A q \in Procs : open'[q] \cap orphans' = {}
    <3> SUFFICES ASSUME NEW q \in Procs PROVE open'[q] \cap orphans' = {}  OBVIOUS
    <3>1. open[q] \cap orphans = {} /\ (q # p => open[q] \cap open[p] = {})
      BY <1>0 DEF Control
    <3> QED  BY <1>1, <1>2, <3>1
  <2>3. \A q \in Procs : call'[q] # None => Fine(call'[q], res', Live')
    BY <1>0, <1>1, <1>2, <1>3 DEF Control
  <2>4. \A i \in Live' : res'[i] # None  BY <1>0, <1>1, <1>3 DEF Control
  <2>5. \A q, r \in Procs :
          q # r /\ call'[q] # None /\ call'[r] # None /\ call'[q].op = "reserve" =>
            call'[r].id # call'[q].id
    BY <1>0, <1>2 DEF Control
  <2> QED  BY <2>1, <2>2, <2>3, <2>4, <2>5 DEF Control
<1>6. \A k \in Keys : LiveSum(Live', res', k) = LiveSum(Live, res, k)  BY <1>1, <1>3
<1>7. CASE call[p] = None
  <2>1. call' = call /\ stranded' = stranded  BY <1>0, <1>1, <1>7 DEF Crash, Basic
  <2>2. Basic'  BY <1>0, <1>1, <1>4, <2>1 DEF Basic
  <2>3. HeldFits'  BY <1>0, <1>1 DEF HeldFits
  <2>4. HeldIs'  BY <1>0, <1>1, <1>6, <2>1 DEF HeldIs
  <2> QED  BY <1>5, <2>2, <2>3, <2>4 DEF Inv
<1>8. CASE call[p] # None
  <2>1. stranded' = [stranded EXCEPT ![KeyOf(p)] = @ + Left(p)]
    BY <1>8 DEF Crash, Strand
  <2>2. Left(p) \in Nat  BY <1>0, <1>8, PendIs
  <2>3. \A k \in Keys : LiveSum(Live', res', k) =
          LiveSum(Live, res, k) + (IF KeyOf(p) = k THEN Left(p) - Left(p) ELSE 0)
    <3> TAKE k \in Keys
    <3>1. LiveSum(Live, res, k) \in Nat  BY <1>0, SumsType
    <3>2. LiveSum(Live', res', k) = LiveSum(Live, res, k)  BY <1>6
    <3> QED  BY <2>2, <3>1, <3>2
  <2> QED  BY <1>1, <1>4, <1>5, <1>8, <2>1, <2>2, <2>3, LeaveStep
<1> QED  BY <1>7, <1>8

-------------------------------------------------------------------------------
(* Theorems *)

LEMMA InvStep == Inv /\ [Next]_vars => Inv'
<1> SUFFICES ASSUME Inv, [Next]_vars PROVE Inv'  OBVIOUS
<1>1. CASE UNCHANGED vars
  <2>1. Live' = Live  BY <1>1 DEF vars, Live, Open
  <2>2. /\ held' = held /\ open' = open /\ res' = res /\ call' = call
        /\ charged' = charged /\ orphans' = orphans /\ excess' = excess /\ stranded' = stranded
    BY <1>1 DEF vars
  <2>3. Basic' /\ HeldFits' /\ HeldIs'  BY <2>1, <2>2 DEF Inv, Basic, HeldFits, HeldIs
  <2>4. Control'  BY <2>1, <2>2 DEF Inv, Control
  <2> QED  BY <2>3, <2>4 DEF Inv
<1>2. ASSUME NEW p \in Procs, NEW i \in Ids, NEW k \in Keys, NEW a \in Amounts,
             Reserve(p, k, a, i)
      PROVE  Inv'
  BY <1>2, ReserveStep
<1>3. ASSUME NEW p \in Procs, NEW i \in Ids, NEW c \in Costs, Settle(p, i, c)  PROVE Inv'
  BY <1>3, SettleStep
<1>4. ASSUME NEW p \in Procs, NEW i \in Ids, Release(p, i)  PROVE Inv'
  BY <1>4, ReleaseStep
<1>5. ASSUME NEW p \in Procs, ExecuteReserve(p)  PROVE Inv'  BY <1>5, ExecuteReserveStep
<1>6. ASSUME NEW p \in Procs, ExecuteGiveBack(p)  PROVE Inv'  BY <1>6, ExecuteGiveBackStep
<1>7. ASSUME NEW p \in Procs, Answered(p)  PROVE Inv'  BY <1>7, AdmittedStep, DoneStep
<1>8. ASSUME NEW p \in Procs, Denied(p)  PROVE Inv'  BY <1>8, DeniedStep
<1>9. ASSUME NEW p \in Procs, Raises(p)  PROVE Inv'  BY <1>9, RaisesStep
<1>10. ASSUME NEW p \in Procs, Crash(p)  PROVE Inv'  BY <1>10, CrashStep
<1> QED
  BY <1>1, <1>2, <1>3, <1>4, <1>5, <1>6, <1>7, <1>8, <1>9, <1>10 DEF Next, Begin

LEMMA Invariance == Spec => []Inv
<1>1. Init => Inv  BY InitInv
<1>2. Inv /\ [Next]_vars => Inv'  BY InvStep
<1> QED  BY <1>1, <1>2, PTL DEF Spec

\* Whatever the processes do, no reservation belongs to two of them and nothing
\* negative is charged.
THEOREM TypeCorrect == Spec => []TypeOK
<1>1. Inv => TypeOK  BY InvShape
<1> QED  BY <1>1, Invariance, PTL

\* For any number of processes that share one Redis, the counter there is, to
\* the micro-dollar, the charges, the reservations, the calls under way and what
\* lost answers and deaths left behind, less what was given back twice: the
\* `over-charges rather than under-charges' of RedisStore.settle.
THEOREM HeldExactTheorem == Spec => []HeldExact
<1>1. Inv => HeldExact  BY InvExact
<1> QED  BY <1>1, Invariance, PTL

\* The one ceiling covers every process: charges and reservations, those of
\* processes that died among them, exceed it by no more than repeated
\* give-backs returned a second time.
THEOREM CeilingTheorem == Spec => []CeilingHolds
<1>1. Inv => CeilingHolds  BY InvCeiling
<1> QED  BY <1>1, Invariance, PTL

-------------------------------------------------------------------------------
(* Refinement *)

\* Under the mapping a hold of Budget is a live reservation.
LEMMA MappedHold ==
  ASSUME Inv, NEW i \in Ids
  PROVE  /\ AbstractHold[i] # None <=> i \in Live
         /\ i \in Live => AbstractHold[i] = res[i] /\ res[i] \in Reservation
BY ReplicasAssumption DEF AbstractHold, Inv, Basic, Control, MaybeReservation

\* What Budget calls the used part of a key.
LEMMA MappedUsed ==
  ASSUME Inv, NEW k \in Keys
  PROVE  Abstract!Used(k) = charged[k] + LiveSum(Live, res, k)
<1>1. Live \subseteq Ids  BY DEF Inv, Basic, Live, Open
<1>2. Abstract!HoldsOf(k) = Of(k, Live)
  BY <1>1, MappedHold DEF Abstract!HoldsOf, Of
<1>3. \A i \in Of(k, Live) : Abstract!HoldAmount[i] = Reserved[i]
  BY <1>1, MappedHold DEF Abstract!HoldAmount, Of, Reserved, Inv, Control
<1>4. Total(Of(k, Live), Abstract!HoldAmount) = Total(Of(k, Live), Reserved)
  BY <1>3, TotalSame
<1>5. Abstract!Total(Abstract!HoldsOf(k), Abstract!HoldAmount) = Total(Of(k, Live), Reserved)
  <2>1. Abstract!Units(Of(k, Live), Abstract!HoldAmount)
          = Units(Of(k, Live), Abstract!HoldAmount)
    BY DEF Abstract!Units, Units
  <2>2. \A S : Abstract!Cardinality(S) = Cardinality(S)
    BY DEF Abstract!Cardinality, Cardinality
  <2> QED  BY <1>2, <1>4, <2>1, <2>2 DEF Abstract!Total, Total
<1> QED  BY <1>5, SameSums DEF Abstract!Used

\* Steps that leave the live reservations and the charges alone are stutters.
LEMMA Stutters ==
  ASSUME Live' = Live, \A i \in Live : res'[i] = res[i], charged' = charged
  PROVE  UNCHANGED Abstract!budgetVars
BY DEF Abstract!budgetVars, AbstractHold

\* An answer yes admits a hold.
LEMMA AdmitMaps ==
  ASSUME Inv, ~Repeated, NEW p \in Procs, Answered(p), call[p].op = "reserve"
  PROVE  Abstract!BudgetNext
<1> DEFINE i == call[p].id
           k == KeyOf(p)
           a == call[p].amount
<1>0. Basic /\ Control /\ HeldFits /\ HeldIs  BY DEF Inv
<1>1. /\ call[p] # None /\ call[p].reply = "yes" /\ call' = [call EXCEPT ![p] = None]
      /\ open' = [open EXCEPT ![p] = @ \cup {i}]
      /\ UNCHANGED <<held, res, charged, orphans, excess>>
  BY DEF Answered
<1>2. /\ call[p] \in Calls /\ res[i] \in Reservation /\ k = res[i].key /\ k \in Keys
      /\ Left(p) \in Nat /\ PendOf(call[p], res, k) = Left(p)
  BY <1>0, <1>1, PendIs DEF KeyOf
<1>3. i \in Ids /\ call[p].done \in Nat /\ a \in Nat  BY <1>2 DEF Calls
<1>4. call[p].done >= 1 /\ i \notin Live /\ a = res[i].amount
  BY <1>0, <1>1 DEF Control, Fine
<1>5. res[i] = [key |-> k, amount |-> a]  BY <1>2, <1>4 DEF Reservation
<1>6. Live' = Live \cup {i}  BY <1>0, <1>1, LiveGains
<1>7. Left(p) >= a
  <2>1. call[p].done - 1 \in Nat  BY <1>3, <1>4
  <2>2. ((call[p].done - 1) + 1) * a = (call[p].done - 1) * a + a
    BY <1>3, <2>1, MoreDone
  <2>3. (call[p].done - 1) * a \in Nat  BY <1>3, <2>1
  <2>4. (call[p].done - 1) + 1 = call[p].done  BY <1>3
  <2>5. Left(p) = call[p].done * a  BY DEF Left
  <2> HIDE DEF a
  <2> QED  BY <1>3, <2>2, <2>3, <2>4, <2>5
<1> HIDE DEF i, k, a
<1>8. /\ PendSum(call, res, k) \in Nat /\ PendSum(call, res, k) >= Left(p)
  <2>1. call'[p] = None /\ \A q \in Procs \ {p} : call'[q] = call[q]
    BY <1>0, <1>1 DEF Basic
  <2>2. call \in [Procs -> MaybeCall] /\ call' \in [Procs -> MaybeCall]
    BY <1>0, <1>1 DEF Basic, MaybeCall
  <2>3. /\ PendSum(call, res, k) \in Nat /\ PendSum(call', res', k) \in Nat
        /\ PendSum(call', res', k) =
             (PendSum(call, res, k) - PendOf(call[p], res, k)) + PendOf(call'[p], res', k)
    BY <1>1, <2>1, <2>2, PendStep
  <2>4. PendOf(call'[p], res', k) = 0  BY <2>1 DEF PendOf
  <2> QED  BY <1>2, <2>3, <2>4
<1>9. excess[k] = 0  BY <1>0, <1>2 DEF Repeated, Basic
<1>10. Abstract!Used(k) + a <= Ceiling[k]
  <2>1. LiveSum(Live, res, k) \in Nat  BY <1>0, SumsType
  <2>2. /\ held[k] \in Int /\ charged[k] \in Nat /\ stranded[k] \in Nat /\ Ceiling[k] \in Nat
        /\ held[k] <= Ceiling[k]
    BY <1>0, <1>2, ReplicasAssumption DEF Basic, HeldFits
  <2>3. held[k] + excess[k] =
          (charged[k] + LiveSum(Live, res, k)) + (PendSum(call, res, k) + stranded[k])
    BY <1>0, <1>2 DEF HeldIs
  <2>4. Abstract!Used(k) = charged[k] + LiveSum(Live, res, k)  BY <1>2, MappedUsed
  <2> QED  BY <1>2, <1>3, <1>7, <1>8, <1>9, <2>1, <2>2, <2>3, <2>4
<1>11. AbstractHold[i] = None  BY <1>3, <1>4, MappedHold DEF i
<1>12. AbstractHold' = [AbstractHold EXCEPT ![i] = [key |-> k, amount |-> a]]
  BY <1>1, <1>5, <1>6 DEF AbstractHold
<1>13. Abstract!Admit(i, k, a)
  BY <1>1, <1>10, <1>11, <1>12 DEF Abstract!Admit
<1>14. i \in Ids /\ k \in DOMAIN Ceiling /\ a \in 0 .. Ceiling[k]
  <2>1. LiveSum(Live, res, k) \in Nat  BY <1>0, SumsType
  <2>2. Abstract!Used(k) \in Nat  BY <1>0, <1>2, <2>1, MappedUsed DEF Basic
  <2>3. Ceiling[k] \in Nat /\ k \in DOMAIN Ceiling  BY <1>2, ReplicasAssumption
  <2>4. a \in 0 .. Ceiling[k]  BY <1>3, <1>10, <2>2, <2>3 DEF a
  <2> QED  BY <1>3, <2>3, <2>4 DEF i
<1> QED  BY <1>13, <1>14 DEF Abstract!BudgetNext

\* A settle charges a hold, a release refunds it.
LEMMA EndMaps ==
  ASSUME Inv, NEW p \in Procs, NEW i \in Ids, Release(p, i) \/ \E c \in Costs : Settle(p, i, c)
  PROVE  Abstract!BudgetNext
<1>0. Basic /\ Control  BY DEF Inv
<1>1. /\ i \in open[p] /\ open' = [open EXCEPT ![p] = @ \ {i}]
      /\ UNCHANGED <<res, orphans>>
  BY DEF Release, Settle, historyVars
<1>2. Live' = Live \ {i}  BY <1>0, <1>1, LiveLoses
<1>3. i \in Live  BY <1>1 DEF Live, Open
<1>4. AbstractHold[i] = res[i] /\ AbstractHold[i] # None /\ res[i] \in Reservation
  BY <1>3, MappedHold
<1>5. AbstractHold' = [AbstractHold EXCEPT ![i] = None]
  BY <1>1, <1>2 DEF AbstractHold
<1>6. CASE Release(p, i)
  <2>1. Abstract!Refund(i)
    BY <1>4, <1>5, <1>6 DEF Release, historyVars, Abstract!Refund
  <2> QED  BY <2>1 DEF Abstract!BudgetNext
<1>7. ASSUME NEW c \in Costs, Settle(p, i, c)  PROVE  Abstract!BudgetNext
  <2>1. c \in Int /\ res[i].amount \in Nat  BY <1>4, ReplicasAssumption DEF Reservation
  <2>2. Charge(i, c) \in 0 .. res[i].amount  BY <2>1 DEF Charge, Least, Greatest
  <2>3. charged' = [charged EXCEPT ![res[i].key] = @ + Charge(i, c)]  BY <1>7 DEF Settle
  <2>4. Abstract!Charge(i, Charge(i, c))
    BY <1>4, <1>5, <2>1, <2>2, <2>3 DEF Abstract!Charge
  <2> QED  BY <1>4, <2>2, <2>4 DEF Abstract!BudgetNext
<1> QED  BY <1>6, <1>7

LEMMA RefinesStep ==
  ASSUME Inv, [Next]_vars
  PROVE  [Repeated \/ Abstract!BudgetNext]_(Abstract!budgetVars)
<1> SUFFICES ASSUME ~Repeated
             PROVE  Abstract!BudgetNext \/ UNCHANGED Abstract!budgetVars
  OBVIOUS
<1>0. Basic /\ Control  BY DEF Inv
<1>1. ASSUME UNCHANGED <<open, orphans, res, charged>>
      PROVE  UNCHANGED Abstract!budgetVars
  <2>1. Live' = Live  BY <1>1 DEF Live, Open
  <2> QED  BY <1>1, <2>1, Stutters
<1>2. ASSUME NEW i \in Ids, i \notin Live, NEW e, res' = [res EXCEPT ![i] = e],
             UNCHANGED <<open, orphans, charged>>
      PROVE  UNCHANGED Abstract!budgetVars
  <2>1. Live' = Live  BY <1>2 DEF Live, Open
  <2>2. \A j \in Live : res'[j] = res[j]  BY <1>0, <1>2 DEF Basic, Live, Open
  <2> QED  BY <1>2, <2>1, <2>2, Stutters
<1>3. ASSUME NEW p \in Procs, NEW i \in Ids, NEW k \in Keys, NEW a \in Amounts,
             Reserve(p, k, a, i)
      PROVE  UNCHANGED Abstract!budgetVars
  <2>1. i \notin Live  BY <1>0, <1>3 DEF Reserve, Control
  <2> QED  BY <1>2, <1>3, <2>1 DEF Reserve, historyVars
<1>4. ASSUME NEW p \in Procs, Denied(p)  PROVE UNCHANGED Abstract!budgetVars
  <2>1. call[p].id \in Ids  BY <1>0, <1>4, PendIs DEF Denied, Calls
  <2>2. call[p].id \notin Live  BY <1>0, <1>4 DEF Denied, Control, Fine
  <2> QED  BY <1>2, <1>4, <2>1, <2>2 DEF Denied
<1>5. ASSUME NEW p \in Procs, Answered(p)
      PROVE  Abstract!BudgetNext \/ UNCHANGED Abstract!budgetVars
  <2>1. CASE call[p].op = "reserve"  BY <1>5, <2>1, AdmitMaps
  <2>2. CASE call[p].op # "reserve"  BY <1>1, <1>5, <2>2 DEF Answered
  <2> QED  BY <2>1, <2>2
<1>6. ASSUME NEW p \in Procs, Crash(p)  PROVE UNCHANGED Abstract!budgetVars
  <2>1. Live' = Live /\ res' = res /\ charged' = charged  BY <1>0, <1>6, LiveKept DEF Crash
  <2> QED  BY <2>1, Stutters
<1>7. ASSUME NEW p \in Procs, ExecuteReserve(p) \/ ExecuteGiveBack(p) \/ Raises(p)
      PROVE  UNCHANGED Abstract!budgetVars
  BY <1>1, <1>7 DEF ExecuteReserve, ExecuteGiveBack, Executed, Raises
<1>8. ASSUME NEW p \in Procs, Begin(p)
      PROVE  Abstract!BudgetNext \/ UNCHANGED Abstract!budgetVars
  BY <1>3, <1>8, EndMaps DEF Begin
<1>9. CASE UNCHANGED vars  BY <1>1, <1>9 DEF vars
<1> QED  BY <1>4, <1>5, <1>6, <1>7, <1>8, <1>9 DEF Next

\* Until a command is executed twice, every step of any number of processes is a
\* step of the one Budget they share, whatever else is lost or dies.
THEOREM ReplicasImplementBudget == Spec => ImplementsBudget
<1>1. Init => Abstract!BudgetInit
  BY DEF Init, Abstract!BudgetInit, AbstractHold, Live, Open
<1>2. Inv /\ [Next]_vars => [Repeated \/ Abstract!BudgetNext]_(Abstract!budgetVars)
  BY RefinesStep
<1> QED  BY <1>1, <1>2, Invariance, PTL DEF Spec, ImplementsBudget
-------------------------------------------------------------------------------
(* Where the client library does not repeat commands *)

\* A command that was not sent changed nothing, and nothing was given back twice.
Once ==
  /\ \A p \in Procs : call[p] # None /\ call[p].tries = 0 => call[p].done = 0
  /\ \A k \in Keys : excess[k] = 0

LEMMA OnceStep ==
  ASSUME MaxTries = 1, Inv, Once, [Next]_vars
  PROVE  Once'
<1>0. Basic /\ Control  BY DEF Inv
<1>1. ASSUME NEW p \in Procs, NEW i \in Ids, NEW o, NEW a, Send(p, o, i, a), excess' = excess
      PROVE  Once'
  <2>1. \A q \in Procs : call'[q] = IF q = p THEN [op |-> o, id |-> i, amount |-> a,
                                       tries |-> 0, done |-> 0, reply |-> "none"] ELSE call[q]
    BY <1>0, <1>1 DEF Basic, Send
  <2> QED  BY <1>1, <2>1 DEF Once
<1>2. ASSUME NEW p \in Procs, call' = [call EXCEPT ![p] = None], excess' = excess
      PROVE  Once'
  BY <1>0, <1>2 DEF Once, Basic
<1>3. ASSUME call' = call, excess' = excess  PROVE  Once'
  BY <1>3 DEF Once
<1>4. ASSUME NEW p \in Procs, NEW changes, NEW reply, call[p] # None,
             Executed(p, changes, reply), excess' = excess
      PROVE  Once'
  <2>1. call[p] \in Calls /\ call[p].tries \in Nat
    BY <1>0, <1>4, PendIs, ReplicasAssumption DEF Calls
  <2>2. \A q \in Procs : q # p => call'[q] = call[q]
    BY <1>0, <1>4 DEF Executed, Basic
  <2>3. call'[p].tries = call[p].tries + 1
    BY <1>0, <1>4, <2>1 DEF Executed, Basic, Calls
  <2>4. call'[p].tries # 0  BY <2>1, <2>3
  <2> QED  BY <1>4, <2>2, <2>4 DEF Once
<1>5. ASSUME NEW p \in Procs, Begin(p)  PROVE  Once'
  BY <1>1, <1>3, <1>5 DEF Begin, Reserve, Settle, Release, historyVars
<1>6. ASSUME NEW p \in Procs, ExecuteReserve(p)  PROVE  Once'
  BY <1>4, <1>6 DEF ExecuteReserve
<1>7. ASSUME NEW p \in Procs, ExecuteGiveBack(p)  PROVE  Once'
  <2>1. call[p] # None /\ call[p].tries < MaxTries /\ Executed(p, TRUE, "yes")
    BY <1>7 DEF ExecuteGiveBack, Executed
  <2>2. call[p].tries \in Nat  BY <1>0, <2>1, PendIs, ReplicasAssumption DEF Calls
  <2>3. call[p].done = 0  BY <2>1, <2>2 DEF Once
  <2>4. excess' = excess  BY <1>7, <2>3 DEF ExecuteGiveBack
  <2> QED  BY <1>4, <2>1, <2>4
<1>8. ASSUME NEW p \in Procs, Answered(p) \/ Denied(p) \/ Raises(p) \/ Crash(p)  PROVE  Once'
  BY <1>2, <1>8 DEF Answered, Denied, Raises, Crash
<1>9. CASE UNCHANGED vars  BY <1>3, <1>9 DEF vars
<1> QED  BY <1>5, <1>6, <1>7, <1>8, <1>9 DEF Next

LEMMA OnceInvariant ==
  ASSUME MaxTries = 1
  PROVE  Spec => []Once
<1>1. Init => Once  BY DEF Init, Once
<1>2. Inv /\ Once /\ [Next]_vars => Once'  BY OnceStep
<1> QED  BY <1>1, <1>2, Invariance, PTL DEF Spec

\* The comment of RedisStore.settle is right where a command is executed once at
\* most: whatever answers are lost and whatever processes die, the ceiling holds.
THEOREM CeilingKeptTheorem ==
  ASSUME MaxTries = 1
  PROVE  Spec => []CeilingKept
<1>1. Inv /\ Once => CeilingKept
  <2> SUFFICES ASSUME Inv, Once, NEW k \in Keys
               PROVE  charged[k] + Total(Of(k, Live), Reserved) <= Ceiling[k]
    BY DEF CeilingKept
  <2>1. charged[k] + Total(Of(k, Live), Reserved) <= Ceiling[k] + excess[k]
    BY InvCeiling DEF CeilingHolds
  <2> QED  BY <2>1, ReplicasAssumption DEF Once
<1> QED  BY <1>1, OnceInvariant, Invariance, PTL

\* And then the processes together are one Budget, without exception.
THEOREM ReplicasImplementBudgetOnce ==
  ASSUME MaxTries = 1
  PROVE  Spec => Abstract!BudgetSpec
<1>1. Init => Abstract!BudgetInit
  BY DEF Init, Abstract!BudgetInit, AbstractHold, Live, Open
<1>2. Inv /\ Once /\ [Next]_vars => [Abstract!BudgetNext]_(Abstract!budgetVars)
  <2>1. Once => ~Repeated  BY DEF Once, Repeated
  <2> QED  BY <2>1, RefinesStep
<1> QED
  BY <1>1, <1>2, OnceInvariant, Invariance, PTL DEF Spec, Abstract!BudgetSpec
===============================================================================
