----------------------------- MODULE LedgerProofs -----------------------------
(***************************************************************************)
(* Theorems about Ledger, for every set of keys, ids and threads, every    *)
(* ceiling, amount and cost, and a store that fails whenever it likes.     *)
(*                                                                         *)
(* In every regime, with resets and sweeps beside any call: the state      *)
(* keeps its shape, the store's number misses what is charged and          *)
(* outstanding by no more than what was given back twice, a refusal for    *)
(* the budget is justified, and until something is given back twice every  *)
(* step is one of Budget.  In a Disciplined ledger nothing is ever given   *)
(* back twice, so all this becomes exact:                                  *)
(*     committed + sum of the open reservations <= ceiling.                *)
(***************************************************************************)
EXTENDS Ledger, MoneyProofs

-------------------------------------------------------------------------------
(* Type correctness, in every regime *)

\* A call that has a reservation in hand knows which; a sweep lists only
\* reservations that were made.
Handling(t) == pc[t] \in {"reserve.open", "settle.store", "release.store", "sweep.store"}

Made(i) == i \in Ids /\ res[i] # None

HandsFull ==
  /\ \A i \in open \cup ended : Made(i)
  /\ \A t \in Threads : Handling(t) => Made(cur[t])
  /\ \A t \in Threads : \A i \in todo[t] : Made(i)

TypeInv == TypeOK /\ HandsFull

LEMMA TypeInit == Init => TypeInv
<1> SUFFICES ASSUME Init PROVE TypeInv  OBVIOUS
<1> USE DEF Init
<1>1. answer \in Answers  BY DEF Answers
<1>2. TypeOK  BY <1>1 DEF TypeOK, Labels
<1>3. HandsFull  BY DEF HandsFull, Handling
<1> QED  BY <1>2, <1>3 DEF TypeInv

\* A hold that ends, for the first time or again, keeps the history in shape.
LEMMA EndHoldType ==
  ASSUME TypeInv, NEW i \in Ids, Made(i), EndHold(i)
  PROVE  /\ excess' \in [Keys -> Nat] /\ forgotten' \subseteq Ids /\ overtaken' \subseteq Ids
         /\ ended' \subseteq Ids
         /\ \A j \in ended' : Made(j)
<1>1. res[i] \in Reservation  BY DEF TypeInv, TypeOK, Made
<1>2. res[i].key \in Keys /\ ToMicros(res[i].amount) \in Nat
  BY <1>1, ToMicrosType DEF Reservation
<1>3. excess' \in [Keys -> Nat]  BY <1>2 DEF EndHold, TypeInv, TypeOK
<1> QED  BY <1>3 DEF EndHold, TypeInv, TypeOK, HandsFull, Made

\* The reservation a call has in hand is a record of the right type.
LEMMA InHandType ==
  ASSUME TypeInv, NEW t \in Threads, Handling(t)
  PROVE  /\ cur[t] \in Ids
         /\ res[cur[t]] \in Reservation
         /\ res[cur[t]].key \in Keys
         /\ res[cur[t]].amount \in Nat
         /\ ToMicros(res[cur[t]].amount) \in Nat
<1>1. Made(cur[t])  BY DEF TypeInv, HandsFull
<1>2. res[cur[t]] \in Reservation  BY <1>1 DEF TypeInv, TypeOK, Made
<1>3. res[cur[t]].key \in Keys /\ res[cur[t]].amount \in Nat  BY <1>2 DEF Reservation
<1> QED  BY <1>1, <1>2, <1>3, ToMicrosType DEF Made

LEMMA TypeStep == TypeInv /\ [Next]_vars => TypeInv'
<1> SUFFICES ASSUME TypeInv, [Next]_vars PROVE TypeInv'  OBVIOUS
<1> USE LedgerAssumption DEF TypeInv
<1>1. ASSUME NEW t \in Threads, NEW k \in Keys, NEW a \in Amounts,
             ReserveRejected(t, k, a) \/ ReserveUnavailable(t, k, a) \/ ReserveDenied(t, k, a)
      PROVE  TypeInv'
  <2>1. answer' \in Answers /\ UNCHANGED <<storeVars, open, res, old, threadVars, historyVars>>
    BY <1>1 DEF ReserveRejected, ReserveUnavailable, ReserveDenied, Say, Answers
  <2> QED  BY <2>1 DEF TypeOK, HandsFull, Handling, Made, storeVars, threadVars, historyVars
<1>2. ASSUME NEW t \in Threads, NEW k \in Keys, NEW a \in Amounts, NEW i \in Ids,
             ReserveStore(t, k, a, i)
      PROVE  TypeInv'
  <2> USE <1>2 DEF ReserveStore
  <2>1. a \in Nat /\ ToMicros(a) \in Nat  BY ToMicrosType
  <2>2. held' \in [Keys -> Nat]  BY <2>1 DEF StoreReserve, TypeOK
  <2>3. [key |-> k, amount |-> a] \in Reservation  BY <2>1 DEF Reservation
  <2>4. res' \in [Ids -> Reservation \cup {None}]  BY <2>3 DEF TypeOK
  <2>5. pc' \in [Threads -> Labels] /\ cur' \in [Threads -> Ids \cup {None}]
    BY DEF Continue, TypeOK, Labels
  <2>6. TypeOK'  BY <2>2, <2>4, <2>5 DEF TypeOK, historyVars
  <2>7. HandsFull'  BY <2>3 DEF HandsFull, Handling, Made, Continue, TypeOK, historyVars
  <2> QED  BY <2>6, <2>7
<1>3. ASSUME NEW t \in Threads, ReserveOpen(t)  PROVE  TypeInv'
  <2> USE <1>3 DEF ReserveOpen
  <2>1. Handling(t)  BY DEF Handling
  <2>2. /\ cur[t] \in Ids /\ Made(cur[t])
        /\ res[cur[t]].key \in Keys /\ res[cur[t]].amount \in Nat
    BY <2>1, InHandType DEF HandsFull
  <2>3. answer' \in Answers  BY <2>2 DEF Say, Answers
  <2>4. TypeOK'  BY <2>2, <2>3 DEF TypeOK, Return, Labels, storeVars, historyVars
  <2>5. HandsFull'  BY <2>2 DEF HandsFull, Handling, Made, Return, TypeOK, historyVars
  <2> QED  BY <2>4, <2>5
<1>4. ASSUME NEW t \in Threads, NEW i \in Ids, SettleUnknown(t, i) \/ ReleaseNothing(t, i)
      PROVE  TypeInv'
  <2>1. answer' \in Answers /\ UNCHANGED <<storeVars, open, res, old, threadVars, historyVars>>
    BY <1>4 DEF SettleUnknown, ReleaseNothing, Report, Say, Answers
  <2> QED  BY <2>1 DEF TypeOK, HandsFull, Handling, Made, storeVars, threadVars, historyVars
<1>5. ASSUME NEW t \in Threads, NEW i \in Ids, NEW c \in Actuals, SettlePop(t, i, c)
      PROVE  TypeInv'
  <2> USE <1>5 DEF SettlePop
  <2>1. Greatest(0, c) \in Nat  BY DEF Greatest
  <2>2. TypeOK'  BY <2>1 DEF TypeOK, Continue, Labels, storeVars, historyVars
  <2>3. HandsFull'  BY DEF HandsFull, Handling, Made, Continue, TypeOK, historyVars
  <2> QED  BY <2>2, <2>3
<1>6. ASSUME NEW t \in Threads, StoreRaises(t)  PROVE  TypeInv'
  <2> USE <1>6 DEF StoreRaises
  <2>1. TypeOK'  BY DEF TypeOK, Return, Report, Say, Answers, Labels, storeVars, historyVars
  <2>2. HandsFull'  BY DEF HandsFull, Handling, Made, Return, TypeOK, historyVars
  <2> QED  BY <2>1, <2>2
<1>7. ASSUME NEW t \in Threads, pc[t] = "settle.store", SettleApply(t)  PROVE  TypeInv'
  <2> DEFINE i == cur[t]
             k == res[i].key
             c == Clamped(i, paid[t])
  <2>1. Handling(t) /\ Made(i)  BY <1>7 DEF Handling, HandsFull
  <2>2. i \in Ids /\ k \in Keys /\ res[i].amount \in Nat /\ ToMicros(res[i].amount) \in Nat
    BY <2>1, InHandType
  <2>3. paid[t] \in Nat  BY DEF TypeOK
  <2>4. c \in Nat /\ paid[t] - c \in Nat  BY <2>2, <2>3 DEF Clamped, Least
  <2>5. ToMicros(c) \in Nat  BY <2>4, ToMicrosType
  <2>6. /\ StoreSettle(k, res[i].amount, c)
        /\ committed' = [committed EXCEPT ![k] = @ + ToMicros(c)]
        /\ billed' = [billed EXCEPT ![k] = @ + c]
        /\ EndHold(i)
        /\ Report("settled")
        /\ Return(t)
        /\ UNCHANGED <<fail, open, res, old>>
    BY <1>7 DEF SettleApply
  <2>11. /\ excess' \in [Keys -> Nat] /\ forgotten' \subseteq Ids /\ overtaken' \subseteq Ids
         /\ ended' \subseteq Ids
         /\ \A j \in ended' : Made(j)
    BY <2>1, <2>2, <2>6, EndHoldType
  <2> HIDE DEF i, k, c
  <2>7. held' \in [Keys -> Nat]
    <3>1. \A h \in Nat : Greatest(0, h - (ToMicros(res[i].amount) - ToMicros(c))) \in Nat
      BY <2>2, <2>5 DEF Greatest
    <3> QED  BY <2>2, <2>6, <3>1 DEF StoreSettle, TypeOK
  <2>8. /\ committed' \in [Keys -> Nat]
        /\ billed' \in [Keys -> Nat]
    BY <2>2, <2>4, <2>5, <2>6 DEF TypeOK
  <2>9. TypeOK'
    BY <2>2, <2>6, <2>7, <2>8, <2>11 DEF TypeOK, Return, Report, Say, Answers, Labels
  <2>10. HandsFull'  BY <2>1, <2>6, <2>11 DEF HandsFull, Handling, Made, Return, TypeOK, i
  <2> QED  BY <2>9, <2>10
<1>8. ASSUME NEW t \in Threads, NEW i \in Ids, ReleasePop(t, i)  PROVE  TypeInv'
  <2> USE <1>8 DEF ReleasePop
  <2>1. TypeOK'  BY DEF TypeOK, Continue, Labels, storeVars, historyVars
  <2>2. HandsFull'  BY DEF HandsFull, Handling, Made, Continue, TypeOK, historyVars
  <2> QED  BY <2>1, <2>2
<1>9. ASSUME NEW t \in Threads, Handling(t), GiveBack(t)
      PROVE  /\ held' \in [Keys -> Nat]
             /\ ended' \subseteq Ids
             /\ \A i \in ended' : Made(i)
             /\ excess' \in [Keys -> Nat] /\ forgotten' \subseteq Ids /\ overtaken' \subseteq Ids
             /\ UNCHANGED <<fail, open, res, old, committed, billed>>
  <2> USE <1>9 DEF GiveBack
  <2>1. Made(cur[t])  BY DEF HandsFull
  <2>2. res[cur[t]].key \in Keys /\ ToMicros(res[cur[t]].amount) \in Nat  BY InHandType
  <2>3. \A h \in Nat : Greatest(0, h - ToMicros(res[cur[t]].amount)) \in Nat
    BY <2>2 DEF Greatest
  <2>4. held' \in [Keys -> Nat]  BY <2>2, <2>3 DEF StoreRelease, TypeOK
  <2>5. cur[t] \in Ids  BY InHandType
  <2> QED  BY <2>1, <2>4, <2>5, EndHoldType
<1>10. ASSUME NEW t \in Threads, ReleaseStore(t)  PROVE  TypeInv'
  <2>1. CASE StoreRaises(t)  BY <2>1, <1>6
  <2>2. CASE GiveBack(t) /\ Report("released") /\ Return(t)
    <3>1. Handling(t)  BY <1>10 DEF ReleaseStore, Handling
    <3>2. TypeOK'  BY <3>1, <2>2, <1>9 DEF TypeOK, Return, Report, Say, Answers, Labels
    <3>3. HandsFull'  BY <3>1, <2>2, <1>9 DEF HandsFull, Handling, Made, Return, TypeOK
    <3> QED  BY <3>2, <3>3
  <2> QED  BY <1>10, <2>1, <2>2 DEF ReleaseStore
<1>11. ASSUME NEW t \in Threads, SweepSnapshot(t)  PROVE  TypeInv'
  <2> USE <1>11 DEF SweepSnapshot
  <2>1. TypeOK'  BY DEF TypeOK, Continue, Labels, storeVars, historyVars
  <2>2. HandsFull'  BY DEF HandsFull, Handling, Made, Continue, TypeOK, historyVars
  <2> QED  BY <2>1, <2>2
<1>12. ASSUME NEW t \in Threads, SweepPop(t)  PROVE  TypeInv'
  <2> USE <1>12 DEF SweepPop
  <2>1. PICK i \in todo[t] : /\ todo' = [todo EXCEPT ![t] = @ \ {i}]
                             /\ open' = open \ {i}
                             /\ Continue(t, "sweep.store", i)
    OBVIOUS
  <2>2. Made(i)  BY DEF HandsFull
  <2>3. TypeOK'  BY <2>1, <2>2 DEF TypeOK, Made, Continue, Labels, storeVars, historyVars
  <2>4. HandsFull'  BY <2>1, <2>2 DEF HandsFull, Handling, Made, Continue, TypeOK, historyVars
  <2> QED  BY <2>3, <2>4
<1>13. ASSUME NEW t \in Threads, SweepStore(t)  PROVE  TypeInv'
  <2>1. CASE StoreRaises(t)  BY <2>1, <1>6
  <2>2. CASE GiveBack(t) /\ Continue(t, "sweep.pop", None) /\ UNCHANGED <<paid, todo, answer>>
    <3>1. Handling(t)  BY <1>13 DEF SweepStore, Handling
    <3>2. TypeOK'  BY <3>1, <2>2, <1>9 DEF TypeOK, Continue, Labels
    <3>3. HandsFull'  BY <3>1, <2>2, <1>9 DEF HandsFull, Handling, Made, Continue, TypeOK
    <3> QED  BY <3>2, <3>3
  <2> QED  BY <1>13, <2>1, <2>2 DEF SweepStore
<1>14. ASSUME NEW t \in Threads, SweepDone(t)  PROVE  TypeInv'
  <2> USE <1>14 DEF SweepDone
  <2>1. TypeOK'  BY DEF TypeOK, Return, Report, Say, Answers, Labels, storeVars, historyVars
  <2>2. HandsFull'  BY DEF HandsFull, Handling, Made, Return, TypeOK, historyVars
  <2> QED  BY <2>1, <2>2
<1>15. ASSUME NEW t \in Threads, ResetStore(t)  PROVE  TypeInv'
  <2> USE <1>15 DEF ResetStore
  <2>1. InReserve \subseteq Ids  BY InHandType DEF InReserve, Handling
  <2>2. /\ held' \in [Keys -> Nat] /\ committed' \in [Keys -> Nat] /\ billed' \in [Keys -> Nat]
        /\ excess' \in [Keys -> Nat]
    BY DEF StoreClear
  <2>3. TypeOK'  BY <2>1, <2>2 DEF TypeOK, Continue, Labels
  <2>4. HandsFull'  BY DEF HandsFull, Handling, Made, Continue, TypeOK
  <2> QED  BY <2>3, <2>4
<1>16. ASSUME NEW t \in Threads, ResetOpen(t)  PROVE  TypeInv'
  <2> USE <1>16 DEF ResetOpen
  <2>1. TypeOK'  BY DEF TypeOK, Return, Report, Say, Answers, Labels, storeVars, historyVars
  <2>2. HandsFull'  BY DEF HandsFull, Handling, Made, Return, TypeOK, historyVars
  <2> QED  BY <2>1, <2>2
<1>17. CASE StoreFlips
  BY <1>17 DEF StoreFlips, TypeOK, HandsFull, Handling, Made, threadVars, historyVars
<1>18. ASSUME NEW i \in Ids, Age(i)  PROVE  TypeInv'
  BY <1>18 DEF Age, TypeOK, HandsFull, Handling, Made, storeVars, threadVars, historyVars
<1>19. CASE UNCHANGED vars
  BY <1>19 DEF vars, TypeOK, HandsFull, Handling, Made
<1>20. ASSUME NEW t \in Threads, SettleStore(t)  PROVE  TypeInv'
  BY <1>20, <1>6, <1>7 DEF SettleStore
<1> QED
  BY <1>1, <1>2, <1>3, <1>4, <1>5, <1>8, <1>10, <1>11, <1>12, <1>13, <1>14, <1>15,
     <1>16, <1>17, <1>18, <1>19, <1>20, LedgerAssumption
     DEF Next, Reserve, Settle, Release, Finish

\* The state keeps its shape: no held, reserved, settled or charged amount ever
\* becomes negative, in any regime and whatever callers pass.
THEOREM TypeCorrect == Spec => []TypeOK
<1>1. TypeInv => TypeOK  BY DEF TypeInv
<1> QED  BY <1>1, TypeInit, TypeStep, PTL DEF Spec

-------------------------------------------------------------------------------
(* Who holds what in a disciplined ledger: the part without arithmetic *)

\* A reservation in hand is in no other hand, not open, and not ended.
OneHand ==
  \A t, u \in Threads : t # u /\ Handling(t) /\ Handling(u) => cur[t] # cur[u]

HandsLive == \A t \in Threads : Handling(t) => cur[t] \notin open /\ cur[t] \notin ended

\* On an event loop at most one call is in progress, and only there are there
\* sweeps.
Alone ==
  /\ EventLoop => \A t, u \in Threads : ~Idle(t) /\ ~Idle(u) => t = u
  /\ \A t \in Threads : pc[t] \in {"sweep.pop", "sweep.store"} => EventLoop

\* What a sweep has still to do is still open.
SweepLists ==
  \A t \in Threads : pc[t] \in {"sweep.pop", "sweep.store"} => todo[t] \subseteq open

\* No open reservation has ended, and nothing has been given back twice.
OpenLive == open \cap ended = {} /\ Exact

NoResets == \A t \in Threads : pc[t] # "reset.open"

ControlInv ==
  /\ OneHand
  /\ HandsLive
  /\ Alone
  /\ SweepLists
  /\ OpenLive
  /\ NoResets

LEMMA ControlInit == Init => ControlInv
BY DEF Init, ControlInv, OneHand, HandsLive, Alone, Idle, SweepLists, OpenLive, Exact,
       NoResets, Handling

\* While a call runs on an event loop every other thread is idle.
LEMMA OthersIdle ==
  ASSUME TypeInv, ControlInv, EventLoop, NEW t \in Threads, ~Idle(t),
         NEW u \in Threads, u # t
  PROVE  pc[u] = "idle"
BY DEF ControlInv, Alone, Idle

\* Where nothing resets the ledger, a call starts on an event loop only while
\* every thread is idle.
LEMMA FreeAlone ==
  ASSUME Disciplined, EventLoop, NEW t \in Threads, Free(t)
  PROVE  \A u \in Threads : pc[u] = "idle"
BY DEF Disciplined, Free, Idle

LEMMA ControlStep ==
  ASSUME Disciplined, TypeInv, ControlInv, [Next]_vars
  PROVE  ControlInv'
<1> USE LedgerAssumption
<1>0. excess' = excess => (Exact => Exact')  BY DEF Exact
<1>1. ASSUME UNCHANGED <<open, threadVars, ended, excess>>  PROVE  ControlInv'
  BY <1>0, <1>1 DEF threadVars, ControlInv, OneHand, HandsLive, Alone, Idle, SweepLists,
     OpenLive, NoResets, Handling
<1>2. ASSUME NEW t \in Threads, NEW k \in Keys, NEW a \in Amounts,
             ReserveRejected(t, k, a) \/ ReserveUnavailable(t, k, a) \/ ReserveDenied(t, k, a)
      PROVE  ControlInv'
  BY <1>1, <1>2 DEF ReserveRejected, ReserveUnavailable, ReserveDenied, historyVars
<1>3. ASSUME NEW t \in Threads, NEW k \in Keys, NEW a \in Amounts, NEW i \in Ids,
             ReserveStore(t, k, a, i)
      PROVE  ControlInv'
  <2>1. /\ Free(t) /\ res[i] = None
        /\ pc' = [pc EXCEPT ![t] = "reserve.open"] /\ cur' = [cur EXCEPT ![t] = i]
        /\ open' = open /\ ended' = ended /\ todo' = todo /\ excess' = excess
    BY <1>3 DEF ReserveStore, Continue, historyVars
  <2>2. i \notin open /\ i \notin ended /\ \A u \in Threads : Handling(u) => cur[u] # i
    BY <2>1 DEF TypeInv, HandsFull, Made
  <2>3. pc \in [Threads -> Labels] /\ cur \in [Threads -> Ids \cup {None}]
    BY DEF TypeInv, TypeOK
  <2>4. OneHand' /\ HandsLive'
    BY <2>1, <2>2, <2>3 DEF ControlInv, OneHand, HandsLive, Handling
  <2>5. Alone' /\ SweepLists' /\ OpenLive' /\ NoResets'
    BY <1>0, <2>1, <2>3, FreeAlone
       DEF ControlInv, Alone, Idle, SweepLists, OpenLive, NoResets
  <2> QED  BY <2>4, <2>5 DEF ControlInv
<1>4. ASSUME NEW t \in Threads, ReserveOpen(t)  PROVE  ControlInv'
  <2>1. /\ pc[t] = "reserve.open" /\ open' = open \cup {cur[t]}
        /\ pc' = [pc EXCEPT ![t] = "idle"] /\ cur' = [cur EXCEPT ![t] = None]
        /\ todo' = [todo EXCEPT ![t] = {}] /\ ended' = ended /\ excess' = excess
    BY <1>4 DEF ReserveOpen, Return, historyVars
  <2>2. /\ pc \in [Threads -> Labels] /\ cur \in [Threads -> Ids \cup {None}]
        /\ todo \in [Threads -> SUBSET Ids]
    BY DEF TypeInv, TypeOK
  <2>3. cur[t] \notin ended /\ \A u \in Threads \ {t} : Handling(u) => cur[u] # cur[t]
    BY <2>1 DEF ControlInv, OneHand, HandsLive, Handling
  <2>4. OneHand' /\ HandsLive'
    BY <2>1, <2>2, <2>3 DEF ControlInv, OneHand, HandsLive, Handling
  <2>5. Alone' /\ SweepLists' /\ OpenLive' /\ NoResets'
    BY <1>0, <2>1, <2>2, <2>3 DEF ControlInv, Alone, Idle, SweepLists, OpenLive, NoResets
  <2> QED  BY <2>4, <2>5 DEF ControlInv
\* The ways of taking an open reservation in hand.
<1>5. ASSUME NEW t \in Threads, Free(t), NEW i \in Ids, i \in open,
             open' = open \ {i}, ended' = ended, todo' = todo, excess' = excess,
             pc' = [pc EXCEPT ![t] = "settle.store"] \/ pc' = [pc EXCEPT ![t] = "release.store"],
             cur' = [cur EXCEPT ![t] = i]
      PROVE  ControlInv'
  <2>1. pc \in [Threads -> Labels] /\ cur \in [Threads -> Ids \cup {None}]
    BY DEF TypeInv, TypeOK
  <2>2. \A u \in Threads : pc[u] \notin {"sweep.pop", "sweep.store"}
    BY <1>5, FreeAlone DEF ControlInv, Alone
  <2>3. i \notin ended  BY <1>5 DEF ControlInv, OpenLive
  <2>4. OneHand' /\ HandsLive'
    BY <1>5, <2>1, <2>3 DEF ControlInv, OneHand, HandsLive, Handling
  <2>5. Alone' /\ SweepLists'
    BY <1>5, <2>1, <2>2, FreeAlone DEF ControlInv, Alone, Idle, SweepLists
  <2>6. OpenLive' /\ NoResets'
    BY <1>0, <1>5, <2>1 DEF ControlInv, OpenLive, NoResets
  <2> QED  BY <2>4, <2>5, <2>6 DEF ControlInv
<1>6. ASSUME NEW t \in Threads, NEW i \in Ids, NEW c \in Actuals, SettlePop(t, i, c)
      PROVE  ControlInv'
  BY <1>5, <1>6 DEF SettlePop, Continue, historyVars
<1>7. ASSUME NEW t \in Threads, NEW i \in Ids, ReleasePop(t, i)  PROVE  ControlInv'
  BY <1>5, <1>7 DEF ReleasePop, Continue, historyVars
\* The ways of ending a call that has a reservation in hand, or a sweep.
\* What ends in the hand of a call had not ended before.
<1>19. ASSUME NEW t \in Threads, Handling(t), EndHold(cur[t])
       PROVE  ended' = ended \cup {cur[t]} /\ excess' = excess
  BY <1>19 DEF EndHold, ControlInv, HandsLive
<1>8. ASSUME NEW t \in Threads, ~Idle(t), open' = open, Return(t), excess' = excess,
             ended' = ended \/ (Handling(t) /\ ended' = ended \cup {cur[t]})
      PROVE  ControlInv'
  <2>1. pc \in [Threads -> Labels] /\ cur \in [Threads -> Ids \cup {None}]
        /\ todo \in [Threads -> SUBSET Ids]
    BY DEF TypeInv, TypeOK
  <2>2. /\ pc' = [pc EXCEPT ![t] = "idle"] /\ cur' = [cur EXCEPT ![t] = None]
        /\ todo' = [todo EXCEPT ![t] = {}]
    BY <1>8 DEF Return
  <2>3. OneHand' /\ HandsLive'
    BY <1>8, <2>1, <2>2 DEF ControlInv, OneHand, HandsLive, Handling
  <2>4. Alone' /\ SweepLists'
    BY <1>8, <2>1, <2>2 DEF ControlInv, Alone, Idle, SweepLists
  <2>5. OpenLive' /\ NoResets'
    BY <1>0, <1>8, <2>1, <2>2 DEF ControlInv, OpenLive, HandsLive, NoResets
  <2> QED  BY <2>3, <2>4, <2>5 DEF ControlInv
<1>9. ASSUME NEW t \in Threads, SettleStore(t) \/ ReleaseStore(t)  PROVE  ControlInv'
  <2>1. pc[t] \in {"settle.store", "release.store"} /\ ~Idle(t) /\ Handling(t)
    BY <1>9 DEF SettleStore, ReleaseStore, Handling, Idle
  <2>2. open' = open /\ Return(t)
        /\ (UNCHANGED <<ended, excess>> \/ EndHold(cur[t]))
    BY <1>9 DEF SettleStore, SettleApply, ReleaseStore, StoreRaises, GiveBack, historyVars
  <2> QED  BY <2>1, <2>2, <1>8, <1>19
<1>10. ASSUME NEW t \in Threads, SweepSnapshot(t)  PROVE  ControlInv'
  <2>1. /\ Free(t) /\ todo' = [todo EXCEPT ![t] = open \cap old]
        /\ pc' = [pc EXCEPT ![t] = "sweep.pop"] /\ cur' = [cur EXCEPT ![t] = None]
        /\ open' = open /\ ended' = ended /\ excess' = excess
    BY <1>10 DEF SweepSnapshot, Continue, historyVars
  <2>2. EventLoop  BY <1>10 DEF SweepSnapshot, Disciplined
  <2>3. pc \in [Threads -> Labels] /\ cur \in [Threads -> Ids \cup {None}]
        /\ todo \in [Threads -> SUBSET Ids]
    BY DEF TypeInv, TypeOK
  <2>4. OneHand' /\ HandsLive'
    BY <2>1, <2>3 DEF ControlInv, OneHand, HandsLive, Handling
  <2>5. Alone' /\ SweepLists' /\ OpenLive' /\ NoResets'
    BY <1>0, <2>1, <2>2, <2>3, FreeAlone
       DEF ControlInv, Alone, Idle, SweepLists, OpenLive, NoResets
  <2> QED  BY <2>4, <2>5 DEF ControlInv
<1>11. ASSUME NEW t \in Threads, SweepPop(t)  PROVE  ControlInv'
  <2>1. PICK i \in todo[t] : /\ todo' = [todo EXCEPT ![t] = @ \ {i}]
                             /\ open' = open \ {i}
                             /\ pc' = [pc EXCEPT ![t] = "sweep.store"]
                             /\ cur' = [cur EXCEPT ![t] = i]
    BY <1>11 DEF SweepPop, Continue
  <2>2. pc[t] = "sweep.pop" /\ ended' = ended /\ excess' = excess
    BY <1>11 DEF SweepPop, historyVars
  <2>3. pc \in [Threads -> Labels] /\ cur \in [Threads -> Ids \cup {None}]
        /\ todo \in [Threads -> SUBSET Ids]
    BY DEF TypeInv, TypeOK
  <2>4. EventLoop /\ \A u \in Threads \ {t} : pc[u] = "idle"
    BY <2>2, OthersIdle DEF ControlInv, Alone, Idle
  <2>5. i \in open /\ todo[t] \subseteq open  BY <2>2 DEF ControlInv, SweepLists
  <2>6. i \notin ended  BY <2>5 DEF ControlInv, OpenLive
  <2>7. OneHand' /\ HandsLive'
    BY <2>1, <2>2, <2>3, <2>4, <2>6 DEF OneHand, HandsLive, Handling
  <2>8. Alone' /\ SweepLists' /\ OpenLive' /\ NoResets'
    BY <1>0, <2>1, <2>2, <2>3, <2>4, <2>5
       DEF ControlInv, Alone, Idle, SweepLists, OpenLive, NoResets
  <2> QED  BY <2>7, <2>8 DEF ControlInv
<1>12. ASSUME NEW t \in Threads, SweepStore(t)  PROVE  ControlInv'
  <2>1. CASE StoreRaises(t)
    BY <2>1, <1>8, <1>12 DEF SweepStore, StoreRaises, Idle, historyVars
  <2>2. CASE GiveBack(t) /\ Continue(t, "sweep.pop", None) /\ UNCHANGED <<paid, todo, answer>>
    <3>1. /\ pc[t] = "sweep.store" /\ open' = open /\ todo' = todo /\ EndHold(cur[t])
          /\ pc' = [pc EXCEPT ![t] = "sweep.pop"] /\ cur' = [cur EXCEPT ![t] = None]
      BY <1>12, <2>2 DEF SweepStore, GiveBack, Continue
    <3>2. pc \in [Threads -> Labels] /\ cur \in [Threads -> Ids \cup {None}]
          /\ todo \in [Threads -> SUBSET Ids]
      BY DEF TypeInv, TypeOK
    <3>3. EventLoop /\ \A u \in Threads \ {t} : pc[u] = "idle"
      BY <3>1, OthersIdle DEF ControlInv, Alone, Idle
    <3>4. cur[t] \notin open /\ ended' = ended \cup {cur[t]} /\ excess' = excess
      BY <3>1, <1>19 DEF ControlInv, HandsLive, Handling
    <3>5. OneHand' /\ HandsLive'
      BY <3>1, <3>2, <3>3 DEF OneHand, HandsLive, Handling
    <3>6. Alone' /\ SweepLists' /\ OpenLive' /\ NoResets'
      BY <1>0, <3>1, <3>2, <3>3, <3>4
         DEF ControlInv, Alone, Idle, SweepLists, OpenLive, NoResets
    <3> QED  BY <3>5, <3>6 DEF ControlInv
  <2> QED  BY <1>12, <2>1, <2>2 DEF SweepStore
<1>13. ASSUME NEW t \in Threads, SweepDone(t)  PROVE  ControlInv'
  BY <1>8, <1>13 DEF SweepDone, Idle, historyVars
<1>14. ASSUME NEW t \in Threads, ResetOpen(t)  PROVE  ControlInv'
  BY <1>14 DEF ResetOpen, ControlInv, NoResets
<1>17. ASSUME NEW t \in Threads, NEW i \in Ids, SettleUnknown(t, i) \/ ReleaseNothing(t, i)
       PROVE  ControlInv'
  BY <1>1, <1>17 DEF SettleUnknown, ReleaseNothing, historyVars
<1>18. CASE StoreFlips \/ (\E i \in Ids : Age(i)) \/ UNCHANGED vars
  BY <1>1, <1>18 DEF StoreFlips, Age, vars, historyVars, threadVars
<1> QED
  BY <1>2, <1>3, <1>4, <1>6, <1>7, <1>9, <1>10, <1>11, <1>12, <1>13, <1>14, <1>17, <1>18
     DEF Next, Reserve, Settle, Release, Finish, Disciplined

-------------------------------------------------------------------------------
(* What the store's number says, in every regime *)

HeldFits == \A k \in DOMAIN Ceiling : held[k] <= ToMicros(Ceiling[k])

MoneyInv == HeldBounded /\ HeldFits

BookInv == TypeInv /\ MoneyInv

LedgerInv == BookInv /\ ControlInv

LEMMA MicrosType ==
  ASSUME TypeInv
  PROVE  \A i \in Ids : /\ Micros[i] \in Nat
                        /\ Made(i) => Micros[i] = ToMicros(res[i].amount)
<1> SUFFICES ASSUME NEW i \in Ids
             PROVE  Micros[i] \in Nat /\ (Made(i) => Micros[i] = ToMicros(res[i].amount))
  OBVIOUS
<1>1. CASE res[i] = None  BY <1>1 DEF Micros, Made
<1>2. CASE res[i] # None
  <2>1. res[i] \in Reservation  BY <1>2 DEF TypeInv, TypeOK
  <2>2. res[i].amount \in Nat  BY <2>1 DEF Reservation
  <2>3. ToMicros(res[i].amount) \in Nat  BY <2>2, ToMicrosType
  <2> QED  BY <1>2, <2>3 DEF Micros
<1> QED  BY <1>1, <1>2

\* Sets of ids are finite and their totals are natural numbers.
LEMMA SumType ==
  ASSUME TypeInv, NEW S, S \subseteq Ids
  PROVE  IsFiniteSet(S) /\ Total(S, Micros) \in Nat /\ \A i \in S : Micros[i] \in Nat
<1>1. IsFiniteSet(S)  BY FS_Subset, LedgerAssumption
<1>2. \A i \in S : Micros[i] \in Nat  BY MicrosType
<1> QED  BY <1>1, <1>2, TotalType

\* When hold i ends for the first time, the outstanding total of its key drops
\* by it; the totals of other keys stay, and all do when it had ended before.
LEMMA HoldEnds ==
  ASSUME TypeInv, NEW i \in Ids, Made(i),
         res' = res, ended' = ended \cup {i}, NEW k \in Keys
  PROVE  /\ Total(Outstanding(k), Micros) \in Nat
         /\ Total(Outstanding(k), Micros)' \in Nat
         /\ Total(Outstanding(k), Micros)'
              = Total(Outstanding(k), Micros)
                - (IF res[i].key = k /\ i \notin ended THEN Micros[i] ELSE 0)
<1> DEFINE O == Outstanding(k)
           P == Outstanding(k)'
           drops == res[i].key = k /\ i \notin ended
<1>1. Micros' = Micros  BY DEF Micros
<1>2. O \subseteq Ids /\ P \subseteq Ids  BY DEF Outstanding
<1>3. P = IF drops THEN O \ {i} ELSE O  BY DEF Outstanding, Made
<1>4. drops => i \in O  BY DEF Outstanding, Made
<1> HIDE DEF O, P, drops
<1>5. IsFiniteSet(O) /\ Total(O, Micros) \in Nat /\ \A j \in O : Micros[j] \in Nat
  BY <1>2, SumType
<1>6. Total(P, Micros) \in Nat  BY <1>2, SumType
<1>7. Total(P, Micros) = Total(O, Micros) - (IF drops THEN Micros[i] ELSE 0)
  <2>1. CASE drops
    <3>1. Total(O \ {i}, Micros) = Total(O, Micros) - Micros[i]
      BY <1>4, <1>5, <2>1, TotalRemove
    <3> QED  BY <1>3, <2>1, <3>1
  <2>2. CASE ~drops  BY <1>3, <1>5, <2>2
  <2> QED  BY <2>1, <2>2
<1> QED  BY <1>1, <1>5, <1>6, <1>7 DEF O, P, drops

\* When hold i is taken for key k, its total grows by it.
LEMMA HoldTaken ==
  ASSUME TypeInv, NEW i \in Ids, res[i] = None, NEW k \in Keys, NEW a \in Nat,
         res' = [res EXCEPT ![i] = [key |-> k, amount |-> a]],
         ended' = ended, NEW j \in Keys
  PROVE  /\ Total(Outstanding(j), Micros) \in Nat
         /\ Total(Outstanding(j), Micros)'
              = Total(Outstanding(j), Micros) + (IF j = k THEN ToMicros(a) ELSE 0)
<1> DEFINE O == Outstanding(j)
           P == Outstanding(j)'
           w == Micros'
<1>1. i \notin ended /\ i \notin O  BY DEF TypeInv, HandsFull, Made, Outstanding
<1>2. res'[i] = [key |-> k, amount |-> a] /\ \A x \in Ids \ {i} : res'[x] = res[x]
  BY DEF TypeInv, TypeOK
<1>3. [key |-> k, amount |-> a] # None
  <2>1. [key |-> k, amount |-> a] \in Reservation  BY DEF Reservation
  <2> QED  BY <2>1, LedgerAssumption
<1>4. O \subseteq Ids  BY DEF Outstanding
<1>5. P = IF j = k THEN O \cup {i} ELSE O
  BY <1>1, <1>2, <1>3 DEF Outstanding
<1>6. w[i] = ToMicros(a) /\ \A x \in Ids \ {i} : w[x] = Micros[x]
  BY <1>2, <1>3 DEF Micros
<1>7. \A x \in O : w[x] = Micros[x]  BY <1>1, <1>4, <1>6
<1> HIDE DEF O, P, w
<1>8. IsFiniteSet(O) /\ Total(O, Micros) \in Nat /\ \A x \in O : Micros[x] \in Nat
  BY <1>4, SumType
<1>9. Total(O, w) = Total(O, Micros)  BY <1>7, TotalSame
<1>10. w[i] \in Nat  BY <1>6, ToMicrosType
<1>11. Total(O \cup {i}, w) = Total(O, w) + w[i]
  BY <1>1, <1>7, <1>8, <1>10, TotalAdd
<1>12. Total(P, w) = Total(O, Micros) + (IF j = k THEN ToMicros(a) ELSE 0)
  BY <1>5, <1>6, <1>8, <1>9, <1>11
<1> QED  BY <1>8, <1>12 DEF O, P, w

LEMMA MoneyInit == Init => MoneyInv
<1> SUFFICES ASSUME Init PROVE MoneyInv  OBVIOUS
<1>1. TypeInv  BY TypeInit
<1>2. HeldBounded
  <2> SUFFICES ASSUME NEW k \in Keys
               PROVE  /\ held[k] <= committed[k] + Total(Outstanding(k), Micros)
                      /\ committed[k] + Total(Outstanding(k), Micros) <= held[k] + excess[k]
    BY DEF HeldBounded
  <2>1. Outstanding(k) = {}  BY DEF Outstanding, Init
  <2>2. Total(Outstanding(k), Micros) = 0  BY <2>1, TotalEmpty
  <2> QED  BY <2>2 DEF Init
<1>3. HeldFits
  <2> SUFFICES ASSUME NEW k \in DOMAIN Ceiling PROVE held[k] <= ToMicros(Ceiling[k])
    BY DEF HeldFits
  <2>1. Ceiling[k] \in Nat /\ k \in Keys  BY LedgerAssumption
  <2>2. ToMicros(Ceiling[k]) \in Nat  BY <2>1, ToMicrosType
  <2> QED  BY <2>1, <2>2 DEF Init
<1> QED  BY <1>2, <1>3 DEF MoneyInv

\* Ceilings convert to natural numbers.
LEMMA CapType == \A k \in DOMAIN Ceiling : k \in Keys /\ ToMicros(Ceiling[k]) \in Nat
BY LedgerAssumption, ToMicrosType

\* Steps that leave the store, the reservations and the history alone.
LEMMA MoneyFrame ==
  ASSUME MoneyInv, UNCHANGED <<held, committed, ended, excess, res>>
  PROVE  MoneyInv'
<1>1. Micros' = Micros /\ \A k : Outstanding(k)' = Outstanding(k)
  BY DEF Micros, Outstanding
<1>2. HeldBounded'  BY <1>1 DEF MoneyInv, HeldBounded
<1>3. HeldFits'  BY DEF MoneyInv, HeldFits
<1> QED  BY <1>2, <1>3 DEF MoneyInv

\* The step in which store.settle or store.release ends hold i at cost c (0 for
\* a release): the first time the store's number moves with what is used; a
\* second time it falls by up to the whole hold, which is what excess counts.
LEMMA MoneyEnds ==
  ASSUME TypeInv, MoneyInv, NEW i \in Ids, Made(i), NEW c \in Nat,
         c <= Micros[i],
         res' = res, EndHold(i),
         held' = [held EXCEPT ![res[i].key] = Greatest(0, @ - (Micros[i] - c))],
         committed' = [committed EXCEPT ![res[i].key] = @ + c]
  PROVE  MoneyInv'
<1> DEFINE k0 == res[i].key
           O(k) == Total(Outstanding(k), Micros)
<1>1. k0 \in Keys /\ Micros[i] \in Nat /\ Micros[i] = ToMicros(res[i].amount)
  BY MicrosType DEF TypeInv, TypeOK, Made, Reservation
<1>2. held \in [Keys -> Nat] /\ committed \in [Keys -> Nat] /\ excess \in [Keys -> Nat]
  BY DEF TypeInv, TypeOK
<1>3. ASSUME NEW k \in Keys
      PROVE  /\ held'[k] <= committed'[k] + O(k)'
             /\ committed'[k] + O(k)' <= held'[k] + excess'[k]
             /\ held'[k] <= held[k] /\ held'[k] \in Nat
  <2>1. held[k] <= committed[k] + O(k) /\ committed[k] + O(k) <= held[k] + excess[k]
    BY DEF MoneyInv, HeldBounded
  <2>2. ended' = ended \cup {i}  BY DEF EndHold
  <2>3. O(k) \in Nat /\ O(k)' \in Nat
        /\ O(k)' = O(k) - (IF k0 = k /\ i \notin ended THEN Micros[i] ELSE 0)
    BY <2>2, HoldEnds
  <2>4. held[k] \in Nat /\ committed[k] \in Nat /\ excess[k] \in Nat  BY <1>2
  <2>5. excess'[k] = excess[k] + (IF k0 = k /\ i \in ended THEN Micros[i] ELSE 0)
    BY <1>1, <1>2 DEF EndHold
  <2> HIDE DEF O, k0
  <2>6. CASE k = k0
    <3>1. held'[k] = Greatest(0, held[k] - (Micros[i] - c)) /\ committed'[k] = committed[k] + c
      BY <1>2, <2>6 DEF k0
    <3>2. \/ held'[k] = 0 /\ held[k] <= Micros[i] - c
          \/ held'[k] = held[k] - (Micros[i] - c) /\ held[k] >= Micros[i] - c
      BY <1>1, <2>4, <3>1 DEF Greatest
    <3>3. CASE i \notin ended
      <4>1. O(k)' = O(k) - Micros[i] /\ excess'[k] = excess[k]  BY <2>3, <2>4, <2>5, <2>6, <3>3
      <4> QED  BY <1>1, <2>1, <2>3, <2>4, <3>1, <3>2, <4>1
    <3>4. CASE i \in ended
      <4>1. O(k)' = O(k) /\ excess'[k] = excess[k] + Micros[i]  BY <2>3, <2>5, <2>6, <3>4
      <4> QED  BY <1>1, <2>1, <2>3, <2>4, <3>1, <3>2, <4>1
    <3> QED  BY <3>3, <3>4
  <2>7. CASE k # k0
    <3>1. held'[k] = held[k] /\ committed'[k] = committed[k]  BY <1>2, <2>7 DEF k0
    <3>2. O(k)' = O(k) /\ excess'[k] = excess[k]  BY <2>3, <2>4, <2>5, <2>7
    <3> QED  BY <2>1, <2>4, <3>1, <3>2
  <2> QED  BY <2>6, <2>7
<1>4. HeldBounded'  BY <1>3 DEF HeldBounded
<1>5. HeldFits'
  <2> SUFFICES ASSUME NEW k \in DOMAIN Ceiling PROVE held'[k] <= ToMicros(Ceiling[k])
    BY DEF HeldFits
  <2>1. k \in Keys /\ ToMicros(Ceiling[k]) \in Nat  BY CapType
  <2>2. held'[k] <= held[k] /\ held[k] <= ToMicros(Ceiling[k]) /\ held'[k] \in Nat
    BY <1>3, <2>1 DEF MoneyInv, HeldFits
  <2>3. held[k] \in Nat  BY <1>2, <2>1
  <2> QED  BY <2>1, <2>2, <2>3
<1> QED  BY <1>4, <1>5 DEF MoneyInv

LEMMA MoneyStep ==
  ASSUME TypeInv, MoneyInv, [Next]_vars
  PROVE  MoneyInv'
<1>1. ASSUME UNCHANGED <<held, committed, ended, excess, res>>  PROVE  MoneyInv'
  BY <1>1, MoneyFrame
<1>2. ASSUME NEW t \in Threads, NEW k \in Keys, NEW a \in Amounts, NEW i \in Ids,
             ReserveStore(t, k, a, i)
      PROVE  MoneyInv'
  <2>1. a \in Nat
    <3>1. a \in Int /\ a >= 0  BY <1>2, LedgerAssumption DEF ReserveStore
    <3> QED  BY <3>1
  <2>2. /\ k \in DOMAIN Ceiling /\ Fits(k, a) /\ StoreReserve(k, a)
        /\ res[i] = None
        /\ res' = [res EXCEPT ![i] = [key |-> k, amount |-> a]]
        /\ ended' = ended /\ committed' = committed /\ excess' = excess
    BY <1>2 DEF ReserveStore, historyVars
  <2>3. ToMicros(a) \in Nat  BY <2>1, ToMicrosType
  <2>4. held \in [Keys -> Nat] /\ committed \in [Keys -> Nat] /\ excess \in [Keys -> Nat]
    BY DEF TypeInv, TypeOK
  <2>5. HeldBounded'
    <3> SUFFICES ASSUME NEW j \in Keys
                 PROVE  /\ held'[j] <= committed'[j] + Total(Outstanding(j), Micros)'
                        /\ committed'[j] + Total(Outstanding(j), Micros)' <= held'[j] + excess'[j]
      BY DEF HeldBounded
    <3>1. /\ Total(Outstanding(j), Micros) \in Nat
          /\ Total(Outstanding(j), Micros)'
               = Total(Outstanding(j), Micros) + (IF j = k THEN ToMicros(a) ELSE 0)
      <4>1. /\ res[i] = None
            /\ res' = [res EXCEPT ![i] = [key |-> k, amount |-> a]]
            /\ ended' = ended
        BY <2>2
      <4> QED  BY <2>1, <4>1, HoldTaken, ZenonT(30)
    <3>2. /\ held[j] <= committed[j] + Total(Outstanding(j), Micros)
          /\ committed[j] + Total(Outstanding(j), Micros) <= held[j] + excess[j]
      BY DEF MoneyInv, HeldBounded
    <3>3. held'[j] = held[j] + (IF j = k THEN ToMicros(a) ELSE 0) /\ held[j] \in Nat
      BY <2>2, <2>3, <2>4 DEF StoreReserve
    <3>4. committed'[j] = committed[j] /\ committed[j] \in Nat
          /\ excess'[j] = excess[j] /\ excess[j] \in Nat
      BY <2>2, <2>4
    <3> QED  BY <2>3, <3>1, <3>2, <3>3, <3>4
  <2>6. HeldFits'
    BY <2>2, <2>4, CapType DEF MoneyInv, HeldFits, Fits, StoreReserve
  <2> QED  BY <2>5, <2>6 DEF MoneyInv
\* What store.settle and store.release act on.
<1>3. ASSUME NEW t \in Threads, Handling(t)
      PROVE  /\ Made(cur[t]) /\ cur[t] \in Ids
             /\ res[cur[t]].amount \in Nat
             /\ Micros[cur[t]] = ToMicros(res[cur[t]].amount)
             /\ Micros[cur[t]] \in Nat
  <2>1. Made(cur[t])  BY <1>3 DEF TypeInv, HandsFull
  <2>2. cur[t] \in Ids /\ res[cur[t]].amount \in Nat  BY <1>3, InHandType
  <2>3. Micros[cur[t]] = ToMicros(res[cur[t]].amount) /\ Micros[cur[t]] \in Nat
    BY <2>1, <2>2, MicrosType
  <2> QED  BY <2>1, <2>2, <2>3
<1>4. ASSUME NEW t \in Threads, Handling(t), GiveBack(t)  PROVE  MoneyInv'
  <2> DEFINE i == cur[t]
  <2>1. /\ Made(i) /\ i \in Ids
        /\ Micros[i] = ToMicros(res[i].amount) /\ Micros[i] \in Nat
    BY <1>3, <1>4
  <2>2. held \in [Keys -> Nat] /\ committed \in [Keys -> Nat]  BY DEF TypeInv, TypeOK
  <2>3. /\ held' = [held EXCEPT ![res[i].key] = Greatest(0, @ - Micros[i])]
        /\ EndHold(i) /\ res' = res /\ committed' = committed
    BY <1>4, <2>1 DEF GiveBack, StoreRelease
  <2>4. res[i].key \in Keys  BY <1>4, InHandType
  <2> HIDE DEF i
  <2>5. held' = [held EXCEPT ![res[i].key] = Greatest(0, @ - (Micros[i] - 0))]
    <3>1. Micros[i] - 0 = Micros[i]  BY <2>1
    <3> QED  BY <2>3, <3>1
  <2>6. committed' = [committed EXCEPT ![res[i].key] = @ + 0]  BY <2>2, <2>3, <2>4
  <2>7. 0 <= Micros[i] /\ 0 \in Nat  BY <2>1
  <2> QED  BY <2>1, <2>3, <2>5, <2>6, <2>7, MoneyEnds
<1>5. ASSUME NEW t \in Threads, pc[t] = "settle.store", SettleApply(t)  PROVE  MoneyInv'
  <2> DEFINE i == cur[t]
             c == Clamped(i, paid[t])
  <2>0. Handling(t)  BY <1>5 DEF Handling
  <2>1. /\ Made(i) /\ i \in Ids /\ res[i].amount \in Nat
        /\ Micros[i] = ToMicros(res[i].amount) /\ Micros[i] \in Nat
    BY <1>3, <2>0
  <2>2. paid[t] \in Nat  BY DEF TypeInv, TypeOK
  <2>3. /\ held' = [held EXCEPT ![res[i].key] = Greatest(0, @ - (Micros[i] - ToMicros(c)))]
        /\ committed' = [committed EXCEPT ![res[i].key] = @ + ToMicros(c)]
        /\ EndHold(i) /\ res' = res
    BY <1>5, <2>1 DEF SettleApply, StoreSettle
  <2>4. c \in Nat /\ c <= res[i].amount  BY <2>1, <2>2 DEF Clamped, Least
  <2>5. ToMicros(c) \in Nat /\ ToMicros(c) <= Micros[i]
    BY <2>1, <2>4, ToMicrosType, ToMicrosMonotone
  <2> HIDE DEF i, c
  <2> QED  BY <2>1, <2>3, <2>5, MoneyEnds
<1>6. ASSUME NEW t \in Threads, SettleStore(t) \/ ReleaseStore(t) \/ SweepStore(t)
      PROVE  MoneyInv'
  <2>1. Handling(t)  BY <1>6 DEF SettleStore, ReleaseStore, SweepStore, Handling
  <2>2. CASE StoreRaises(t)  BY <1>1, <2>2 DEF StoreRaises, storeVars, historyVars
  <2>3. CASE pc[t] = "settle.store" /\ SettleApply(t)  BY <1>5, <2>3
  <2>4. CASE GiveBack(t)  BY <1>4, <2>1, <2>4
  <2> QED  BY <1>6, <2>2, <2>3, <2>4 DEF SettleStore, ReleaseStore, SweepStore
<1>7. ASSUME NEW t \in Threads, ResetStore(t)  PROVE  MoneyInv'
  <2>1. /\ held' = [k \in Keys |-> 0] /\ committed' = [k \in Keys |-> 0]
        /\ excess' = [k \in Keys |-> 0]
        /\ ended' = {i \in Ids : res[i] # None} /\ res' = res
    BY <1>7 DEF ResetStore, StoreClear
  <2>2. HeldBounded'
    <3> SUFFICES ASSUME NEW k \in Keys
                 PROVE  /\ held'[k] <= committed'[k] + Total(Outstanding(k), Micros)'
                        /\ committed'[k] + Total(Outstanding(k), Micros)' <= held'[k] + excess'[k]
      BY DEF HeldBounded
    <3>1. Outstanding(k)' = {}  BY <2>1 DEF Outstanding
    <3>2. Total(Outstanding(k), Micros)' = 0  BY <3>1, TotalEmpty
    <3> QED  BY <2>1, <3>2
  <2>3. HeldFits'  BY <2>1, CapType DEF HeldFits
  <2> QED  BY <2>2, <2>3 DEF MoneyInv
<1>8. ASSUME NEW t \in Threads, Reserve(t)  PROVE  MoneyInv'
  BY <1>1, <1>2, <1>8
     DEF Reserve, ReserveRejected, ReserveUnavailable, ReserveDenied, storeVars, historyVars
<1>9. ASSUME NEW t \in Threads, Settle(t) \/ Release(t) \/ SweepSnapshot(t)  PROVE  MoneyInv'
  BY <1>1, <1>9
     DEF Settle, Release, SettleUnknown, SettlePop, ReleaseNothing, ReleasePop, SweepSnapshot,
         storeVars, historyVars
<1>10. ASSUME NEW t \in Threads, Finish(t)  PROVE  MoneyInv'
  BY <1>1, <1>6, <1>10
     DEF Finish, ReserveOpen, SweepPop, SweepDone, ResetOpen, storeVars, historyVars
<1>11. CASE StoreFlips \/ (\E i \in Ids : Age(i)) \/ UNCHANGED vars
  BY <1>1, <1>11 DEF StoreFlips, Age, vars, storeVars, historyVars
<1>12. Resetters \subseteq Threads  BY LedgerAssumption
<1> QED  BY <1>7, <1>8, <1>9, <1>10, <1>11, <1>12 DEF Next

-------------------------------------------------------------------------------
(* Theorems *)

LEMMA BookInvariant == Spec => []BookInv
<1>1. Init => BookInv  BY TypeInit, MoneyInit DEF BookInv
<1>2. BookInv /\ [Next]_vars => BookInv'  BY TypeStep, MoneyStep DEF BookInv
<1> QED  BY <1>1, <1>2, PTL DEF Spec

\* Whoever resets and whoever sweeps, at whatever moment: the store's number is
\* never above what is charged and outstanding, and below it only by what was
\* given back twice.
THEOREM HeldBoundedTheorem == Spec => []HeldBounded
<1>1. BookInv => HeldBounded  BY DEF BookInv, MoneyInv
<1> QED  BY <1>1, BookInvariant, PTL

\* A total of outstanding reservations is a number, with its key's other books.
LEMMA UsedType ==
  ASSUME TypeInv, NEW k \in Keys
  PROVE  /\ Total(Outstanding(k), Micros) \in Nat
         /\ held[k] \in Nat /\ committed[k] \in Nat /\ excess[k] \in Nat
<1>1. Outstanding(k) \subseteq Ids  BY DEF Outstanding
<1> QED  BY <1>1, SumType DEF TypeInv, TypeOK

\* Hence no budget is exceeded by more than what was given back twice.
THEOREM CeilingWithinExcessTheorem == Spec => []CeilingWithinExcess
<1>1. BookInv => CeilingWithinExcess
  <2> SUFFICES ASSUME BookInv, NEW k \in DOMAIN Ceiling
               PROVE  committed[k] + Total(Outstanding(k), Micros)
                        <= ToMicros(Ceiling[k]) + excess[k]
    BY DEF CeilingWithinExcess
  <2> USE DEF BookInv
  <2>1. k \in Keys /\ ToMicros(Ceiling[k]) \in Nat  BY CapType
  <2>2. held[k] <= ToMicros(Ceiling[k])  BY DEF MoneyInv, HeldFits
  <2>3. committed[k] + Total(Outstanding(k), Micros) <= held[k] + excess[k]
    BY <2>1 DEF MoneyInv, HeldBounded
  <2> QED  BY <2>1, <2>2, <2>3, UsedType
<1> QED  BY <1>1, BookInvariant, PTL

LEMMA LedgerInvariant ==
  ASSUME Disciplined
  PROVE  Spec => []LedgerInv
<1>1. Init => LedgerInv  BY TypeInit, ControlInit, MoneyInit DEF LedgerInv, BookInv
<1>2. LedgerInv /\ [Next]_vars => LedgerInv'
  BY TypeStep, ControlStep, MoneyStep DEF LedgerInv, BookInv
<1> QED  BY <1>1, <1>2, PTL DEF Spec

\* What is exact while nothing was given back twice.
LEMMA HeldIsUsed ==
  ASSUME BookInv, NEW k \in Keys, excess[k] = 0
  PROVE  held[k] = committed[k] + Total(Outstanding(k), Micros)
<1> USE DEF BookInv
<1>1. /\ held[k] <= committed[k] + Total(Outstanding(k), Micros)
      /\ committed[k] + Total(Outstanding(k), Micros) <= held[k] + excess[k]
  BY DEF MoneyInv, HeldBounded
<1> QED  BY <1>1, UsedType

\* In a disciplined ledger the store's number is always exactly what was charged
\* plus what is still outstanding: nothing is lost and nothing is counted twice.
THEOREM HeldExactTheorem ==
  ASSUME Disciplined
  PROVE  Spec => []HeldExact
<1>1. LedgerInv => HeldExact
  BY HeldIsUsed DEF LedgerInv, ControlInv, OpenLive, Exact, HeldExact
<1> QED  BY <1>1, LedgerInvariant, PTL

\* In a disciplined ledger the committed spend and the open reservations of a
\* budget never exceed its ceiling, whatever calls interleave, whatever amounts
\* and costs they bring, and whenever the store fails.
THEOREM CeilingTheorem ==
  ASSUME Disciplined
  PROVE  Spec => []CeilingHolds
<1>1. LedgerInv => CeilingHolds
  <2> SUFFICES ASSUME LedgerInv, NEW k \in DOMAIN Ceiling
               PROVE  committed[k] + Total(OpenFor(k), Micros) <= ToMicros(Ceiling[k])
    BY DEF CeilingHolds
  <2> USE DEF LedgerInv, BookInv
  <2>1. k \in Keys /\ ToMicros(Ceiling[k]) \in Nat  BY CapType
  <2>2. OpenFor(k) \subseteq Outstanding(k)
    BY DEF OpenFor, Outstanding, ControlInv, OpenLive, TypeInv, TypeOK, HandsFull, Made
  <2>3. Outstanding(k) \subseteq Ids  BY DEF Outstanding
  <2>4. Total(OpenFor(k), Micros) <= Total(Outstanding(k), Micros)
    <3>1. IsFiniteSet(Outstanding(k)) /\ \A i \in Outstanding(k) : Micros[i] \in Nat
      BY <2>3, SumType
    <3> QED  BY <2>2, <3>1, TotalMonotone
  <2>5. Total(OpenFor(k), Micros) \in Nat
    <3>1. OpenFor(k) \subseteq Ids  BY <2>2, <2>3
    <3> QED  BY <3>1, SumType
  <2>6. held[k] = committed[k] + Total(Outstanding(k), Micros)
    BY <2>1, HeldIsUsed DEF ControlInv, OpenLive, Exact
  <2>7. held[k] <= ToMicros(Ceiling[k])  BY DEF MoneyInv, HeldFits
  <2> QED  BY <2>1, <2>4, <2>5, <2>6, <2>7, UsedType
<1> QED  BY <1>1, LedgerInvariant, PTL

\* Of the calls that race to end a reservation exactly one reaches the store.
THEOREM OneFinisherTheorem ==
  ASSUME Disciplined
  PROVE  Spec => []OneFinisher
<1>1. LedgerInv => OneFinisher
  BY DEF LedgerInv, ControlInv, OneHand, HandsLive, OneFinisher, Finishing, Handling
<1> QED  BY <1>1, LedgerInvariant, PTL

-------------------------------------------------------------------------------
(* Denials *)

\* A call that answers budget_exceeded found no room: what is charged and what
\* is outstanding leave too little under the ceiling at that instant.
THEOREM DenialTheorem == Spec => DenialJustified
<1> DEFINE Justified ==
      \A k \in DOMAIN Ceiling, a \in Amounts : Denied(k, a) =>
        committed[k] + Total(Outstanding(k), Micros) + ToMicros(a) > ToMicros(Ceiling[k])
<1>1. ASSUME BookInv, [Next]_vars, NEW k \in DOMAIN Ceiling, NEW a \in Amounts, Denied(k, a)
      PROVE  committed[k] + Total(Outstanding(k), Micros) + ToMicros(a) > ToMicros(Ceiling[k])
  <2>1. answer' # answer /\ answer'.reason = "budget_exceeded" /\ answer'.key = k /\ answer'.amount = a
    BY <1>1 DEF Denied
  <2>2. \E t \in Threads, j \in Keys, b \in Amounts : ReserveDenied(t, j, b)
    BY <1>1, <2>1
       DEF Next, vars, Reserve, Settle, Release, Finish, ReserveRejected, ReserveUnavailable,
           ReserveStore, ReserveOpen, SettleUnknown, SettlePop, SettleStore, StoreRaises,
           SettleApply, ReleaseNothing, ReleasePop, ReleaseStore, SweepSnapshot, SweepPop,
           SweepStore, SweepDone, ResetStore, ResetOpen, StoreFlips, Age, Say, Report
  <2>3. PICK t \in Threads, j \in Keys, b \in Amounts : ReserveDenied(t, j, b)  BY <2>2
  <2>4. j = k /\ b = a  BY <2>1, <2>3 DEF ReserveDenied, Say
  <2>5. ~(held[k] + ToMicros(a) <= ToMicros(Ceiling[k])) /\ a \in Nat
    BY <2>3, <2>4, LedgerAssumption DEF ReserveDenied, Fits
  <2>6. k \in Keys /\ ToMicros(Ceiling[k]) \in Nat /\ ToMicros(a) \in Nat
    BY <2>5, CapType, ToMicrosType
  <2>7. held[k] <= committed[k] + Total(Outstanding(k), Micros)
    BY <1>1, <2>6 DEF BookInv, MoneyInv, HeldBounded
  <2>8. /\ Total(Outstanding(k), Micros) \in Nat
        /\ held[k] \in Nat /\ committed[k] \in Nat
    BY <1>1, <2>6, UsedType DEF BookInv
  <2> QED  BY <2>5, <2>6, <2>7, <2>8
<1>2. BookInv /\ [Next]_vars => [Justified]_vars
  BY <1>1
<1>3. Spec => [][Justified]_vars
  <2> HIDE DEF Justified
  <2> QED  BY <1>2, BookInvariant, PTL DEF Spec
<1> QED  BY <1>3 DEF DenialJustified

-------------------------------------------------------------------------------
(* Rounding *)

\* Each ended reservation lost at most half a micro-dollar.
RoundingInv ==
  \A k \in Keys :
    billed[k] <= NanosPerMicro * committed[k] + 500 * Cardinality(EndedFor(k))

LEMMA EndedForType ==
  ASSUME TypeInv, NEW k
  PROVE  IsFiniteSet(EndedFor(k)) /\ Cardinality(EndedFor(k)) \in Nat
<1>1. EndedFor(k) \subseteq Ids  BY DEF EndedFor, TypeInv, TypeOK
<1>2. IsFiniteSet(EndedFor(k))  BY <1>1, FS_Subset, LedgerAssumption
<1> QED  BY <1>2, FS_CardinalityType

\* When a hold ends the count of its key grows by one.
LEMMA EndedGrows ==
  ASSUME TypeInv, NEW i \in Ids, i \notin ended, res' = res, ended' = ended \cup {i}, NEW k
  PROVE  Cardinality(EndedFor(k))'
           = Cardinality(EndedFor(k)) + (IF res[i].key = k THEN 1 ELSE 0)
<1> DEFINE E == EndedFor(k)
           F == EndedFor(k)'
<1>1. F = IF res[i].key = k THEN E \cup {i} ELSE E  BY DEF EndedFor
<1>2. i \notin E  BY DEF EndedFor
<1>3. IsFiniteSet(E) /\ Cardinality(E) \in Nat  BY EndedForType
<1> HIDE DEF E, F
<1>4. Cardinality(E \cup {i}) = Cardinality(E) + 1  BY <1>2, <1>3, FS_AddElement
<1>5. Cardinality(F) = Cardinality(E) + (IF res[i].key = k THEN 1 ELSE 0)
  BY <1>1, <1>3, <1>4
<1> QED  BY <1>5 DEF E, F

LEMMA RoundingStep ==
  ASSUME Disciplined, LedgerInv, RoundingInv, [Next]_vars
  PROVE  RoundingInv'
<1> USE DEF LedgerInv, BookInv
<1>1. \A k \in Keys : billed[k] \in Nat /\ committed[k] \in Nat
  BY DEF TypeInv, TypeOK
<1>2. ASSUME UNCHANGED <<billed, committed, ended, res>>  PROVE  RoundingInv'
  BY <1>2 DEF RoundingInv, EndedFor
<1>3. ASSUME NEW t \in Threads, NEW k \in Keys, NEW a \in Amounts, NEW i \in Ids,
             ReserveStore(t, k, a, i)
      PROVE  RoundingInv'
  <2>1. res[i] = None /\ res' = [res EXCEPT ![i] = [key |-> k, amount |-> a]]
        /\ UNCHANGED <<billed, committed, ended>>
    BY <1>3 DEF ReserveStore, historyVars
  <2>2. i \notin ended /\ ended \subseteq Ids  BY <2>1 DEF TypeInv, TypeOK, HandsFull, Made
  <2>3. \A j : EndedFor(j)' = EndedFor(j)
    BY <2>1, <2>2 DEF EndedFor, TypeInv, TypeOK
  <2> QED  BY <2>1, <2>3 DEF RoundingInv
<1>4. ASSUME NEW t \in Threads, Handling(t)
      PROVE  cur[t] \in Ids /\ cur[t] \notin ended /\ res[cur[t]].key \in Keys
             /\ res[cur[t]].amount \in Nat
  BY <1>4, InHandType DEF ControlInv, HandsLive
<1>5. ASSUME NEW t \in Threads, pc[t] = "settle.store", SettleApply(t)  PROVE  RoundingInv'
  <2> DEFINE i == cur[t]
             c == Clamped(i, paid[t])
  <2>1. i \in Ids /\ i \notin ended /\ res[i].key \in Keys /\ res[i].amount \in Nat
    BY <1>4, <1>5 DEF Handling
  <2>2. paid[t] \in Nat /\ billed \in [Keys -> Nat] /\ committed \in [Keys -> Nat]
    BY DEF TypeInv, TypeOK
  <2>3. c \in Nat  BY <2>1, <2>2 DEF Clamped, Least
  <2>4. ToMicros(c) \in Nat /\ c <= NanosPerMicro * ToMicros(c) + 500
    BY <2>3, ToMicrosType, ToMicrosError
  <2>5. /\ billed' = [billed EXCEPT ![res[i].key] = @ + c]
        /\ committed' = [committed EXCEPT ![res[i].key] = @ + ToMicros(c)]
        /\ ended' = ended \cup {i} /\ res' = res
    BY <1>5 DEF SettleApply, EndHold
  <2> HIDE DEF i, c
  <2>6. ASSUME NEW k \in Keys
        PROVE  billed'[k] <= NanosPerMicro * committed'[k] + 500 * Cardinality(EndedFor(k))'
    <3>1. Cardinality(EndedFor(k))'
            = Cardinality(EndedFor(k)) + (IF res[i].key = k THEN 1 ELSE 0)
      BY <2>1, <2>5, EndedGrows
    <3>2. Cardinality(EndedFor(k)) \in Nat  BY EndedForType
    <3>3. billed[k] <= NanosPerMicro * committed[k] + 500 * Cardinality(EndedFor(k))
      BY DEF RoundingInv
    <3>4. CASE res[i].key = k
      <4>1. billed'[k] = billed[k] + c /\ committed'[k] = committed[k] + ToMicros(c)
        BY <2>2, <2>5, <3>4
      <4> QED  BY <1>1, <2>3, <2>4, <3>1, <3>2, <3>3, <3>4, <4>1 DEF NanosPerMicro
    <3>5. CASE res[i].key # k
      <4>1. billed'[k] = billed[k] /\ committed'[k] = committed[k]  BY <2>2, <2>5, <3>5
      <4> QED  BY <1>1, <3>1, <3>2, <3>3, <3>5, <4>1
    <3> QED  BY <3>4, <3>5
  <2> QED  BY <2>6 DEF RoundingInv
<1>6. ASSUME NEW t \in Threads, Handling(t), GiveBack(t)  PROVE  RoundingInv'
  <2>1. cur[t] \in Ids /\ cur[t] \notin ended  BY <1>4, <1>6
  <2>2. /\ UNCHANGED <<billed, committed, res>> /\ ended' = ended \cup {cur[t]}
    BY <1>6 DEF GiveBack, EndHold
  <2>3. ASSUME NEW k \in Keys
        PROVE  billed'[k] <= NanosPerMicro * committed'[k] + 500 * Cardinality(EndedFor(k))'
    <3>1. \/ Cardinality(EndedFor(k))' = Cardinality(EndedFor(k))
          \/ Cardinality(EndedFor(k))' = Cardinality(EndedFor(k)) + 1
      <4>1. Cardinality(EndedFor(k)) \in Nat  BY EndedForType
      <4>2. Cardinality(EndedFor(k))'
              = Cardinality(EndedFor(k)) + (IF res[cur[t]].key = k THEN 1 ELSE 0)
        BY <2>1, <2>2, EndedGrows
      <4> QED  BY <4>1, <4>2
    <3>2. Cardinality(EndedFor(k)) \in Nat  BY EndedForType
    <3>3. billed[k] <= NanosPerMicro * committed[k] + 500 * Cardinality(EndedFor(k))
      BY DEF RoundingInv
    <3> QED  BY <1>1, <2>2, <3>1, <3>2, <3>3 DEF NanosPerMicro
  <2> QED  BY <2>3 DEF RoundingInv
<1>8. ASSUME NEW t \in Threads, SettleStore(t) \/ ReleaseStore(t) \/ SweepStore(t)
      PROVE  RoundingInv'
  <2>1. Handling(t)  BY <1>8 DEF SettleStore, ReleaseStore, SweepStore, Handling
  <2>2. CASE StoreRaises(t)  BY <1>2, <2>2 DEF StoreRaises, historyVars
  <2>3. CASE pc[t] = "settle.store" /\ SettleApply(t)  BY <1>5, <2>3
  <2>4. CASE GiveBack(t)  BY <1>6, <2>1, <2>4
  <2> QED  BY <1>8, <2>2, <2>3, <2>4 DEF SettleStore, ReleaseStore, SweepStore
<1> QED
  BY <1>2, <1>3, <1>8
     DEF Next, vars, Reserve, Settle, Release, Finish, ReserveRejected, ReserveUnavailable,
         ReserveDenied, ReserveOpen, SettleUnknown, SettlePop, ReleaseNothing, ReleasePop,
         SweepSnapshot, SweepPop, SweepDone, ResetOpen, StoreFlips, Age, historyVars, Disciplined

\* The money really charged to a budget exceeds its ceiling by at most half a
\* micro-dollar for the ceiling and for each reservation that ended.
THEOREM RealSpendTheorem ==
  ASSUME Disciplined
  PROVE  Spec => []RealSpendBound
<1>1. Init => RoundingInv
  <2> SUFFICES ASSUME Init PROVE RoundingInv  OBVIOUS
  <2>1. TypeInv  BY TypeInit
  <2>2. \A k : Cardinality(EndedFor(k)) \in Nat  BY <2>1, EndedForType
  <2> QED  BY <2>2 DEF Init, RoundingInv, NanosPerMicro
<1>2. LedgerInv /\ RoundingInv /\ [Next]_vars => RoundingInv'  BY RoundingStep
<1>3. LedgerInv /\ RoundingInv => RealSpendBound
  <2> SUFFICES ASSUME LedgerInv, RoundingInv, NEW k \in DOMAIN Ceiling
               PROVE  billed[k] <= Ceiling[k] + 500 * (Cardinality(EndedFor(k)) + 1)
    BY DEF RealSpendBound
  <2> USE DEF LedgerInv, BookInv
  <2>1. k \in Keys /\ Ceiling[k] \in Nat /\ ToMicros(Ceiling[k]) \in Nat
    BY CapType, LedgerAssumption
  <2>2. NanosPerMicro * ToMicros(Ceiling[k]) <= Ceiling[k] + 500  BY <2>1, ToMicrosError
  <2>3. /\ held[k] \in Nat /\ committed[k] \in Nat /\ billed[k] \in Nat
    BY <2>1 DEF TypeInv, TypeOK
  <2>4. Outstanding(k) \subseteq Ids  BY DEF Outstanding
  <2>5. Total(Outstanding(k), Micros) \in Nat  BY <2>4, SumType
  <2>6. committed[k] <= ToMicros(Ceiling[k])
    <3>1. held[k] = committed[k] + Total(Outstanding(k), Micros)
      BY <2>1, HeldIsUsed DEF ControlInv, OpenLive, Exact
    <3> QED  BY <2>1, <2>3, <2>5, <3>1 DEF MoneyInv, HeldFits
  <2>7. Cardinality(EndedFor(k)) \in Nat  BY EndedForType
  <2>8. billed[k] <= NanosPerMicro * committed[k] + 500 * Cardinality(EndedFor(k))
    BY <2>1 DEF RoundingInv
  <2> QED  BY <2>1, <2>2, <2>3, <2>6, <2>7, <2>8 DEF NanosPerMicro
<1> QED  BY <1>1, <1>2, <1>3, LedgerInvariant, PTL DEF Spec

-------------------------------------------------------------------------------
(* Refinement *)

\* Under the mapping a hold of Budget is an outstanding reservation.
LEMMA MappedHold ==
  ASSUME TypeInv, NEW i \in Ids
  PROVE  /\ AbstractHold[i] # None <=> Made(i) /\ i \notin ended
         /\ AbstractHold[i] # None =>
              /\ AbstractHold[i] = [key |-> res[i].key, amount |-> Micros[i]]
              /\ AbstractHold[i].key = res[i].key
              /\ AbstractHold[i].amount = Micros[i]
              /\ res[i].key \in Keys
              /\ Micros[i] \in Nat
<1>1. CASE res[i] = None \/ i \in ended  BY <1>1 DEF AbstractHold, Made
<1>2. CASE res[i] # None /\ i \notin ended
  <2>1. Made(i)  BY <1>2 DEF Made
  <2>2. res[i].key \in Keys /\ Micros[i] \in Nat /\ Micros[i] = ToMicros(res[i].amount)
    BY <1>2, <2>1, MicrosType DEF TypeInv, TypeOK, Reservation
  <2>3. AbstractHold[i] = [key |-> res[i].key, amount |-> Micros[i]]
    BY <1>2, <2>2 DEF AbstractHold
  <2>4. AbstractHold[i] \in Reservation  BY <2>2, <2>3 DEF Reservation
  <2>5. AbstractHold[i] # None  BY <2>4, LedgerAssumption
  <2> QED  BY <1>2, <2>1, <2>2, <2>3, <2>5
<1> QED  BY <1>1, <1>2

\* What Budget calls the used part of a key is the number in the store, while
\* nothing was given back twice.
LEMMA MappedUsed ==
  ASSUME BookInv, NEW k \in Keys, excess[k] = 0
  PROVE  Abstract!Used(k) = held[k]
<1> USE DEF BookInv
<1>1. Abstract!HoldsOf(k) = Outstanding(k)
  BY MappedHold DEF Abstract!HoldsOf, Outstanding, Made
<1>2. \A i \in Outstanding(k) : Abstract!HoldAmount[i] = Micros[i]
  BY MappedHold DEF Abstract!HoldAmount, Outstanding, Made
<1>3. Total(Outstanding(k), Abstract!HoldAmount) = Total(Outstanding(k), Micros)
  BY <1>2, TotalSame
<1>4. Abstract!Total(Abstract!HoldsOf(k), Abstract!HoldAmount) = Total(Outstanding(k), Micros)
  <2>1. Abstract!Units(Outstanding(k), Abstract!HoldAmount)
          = Units(Outstanding(k), Abstract!HoldAmount)
    BY DEF Abstract!Units, Units
  <2>2. \A S : Abstract!Cardinality(S) = Cardinality(S)
    BY DEF Abstract!Cardinality, Cardinality
  <2> QED  BY <1>1, <1>3, <2>1, <2>2 DEF Abstract!Total, Total
<1>5. Abstract!Used(k) = committed[k] + Total(Outstanding(k), Micros)
  BY <1>4 DEF Abstract!Used
<1> QED  BY <1>5, HeldIsUsed

LEMMA RefinesInit == Init => Abstract!BudgetInit
BY DEF Init, Abstract!BudgetInit, AbstractHold

\* Steps that touch neither reservations nor history are stutters of Budget.
LEMMA Stutters ==
  ASSUME UNCHANGED <<res, ended, committed>>
  PROVE  UNCHANGED Abstract!budgetVars
BY DEF Abstract!budgetVars, AbstractHold

LEMMA RefinesStep ==
  ASSUME BookInv, [Next]_vars, Exact'
  PROVE  [Abstract!BudgetNext]_(Abstract!budgetVars)
<1> USE DEF BookInv
<1>1. committed \in [Keys -> Nat] /\ held \in [Keys -> Nat] /\ excess \in [Keys -> Nat]
  BY DEF TypeInv, TypeOK
<1>2. ASSUME NEW t \in Threads, NEW k \in Keys, NEW a \in Amounts, NEW i \in Ids,
             ReserveStore(t, k, a, i)
      PROVE  Abstract!BudgetNext
  <2> DEFINE Cap == [j \in DOMAIN Ceiling |-> ToMicros(Ceiling[j])]
             m == ToMicros(a)
  <2>1. a \in Nat /\ k \in DOMAIN Ceiling /\ held[k] + m <= ToMicros(Ceiling[k])
    BY <1>2, LedgerAssumption DEF ReserveStore, Fits
  <2>2. m \in Nat /\ ToMicros(Ceiling[k]) \in Nat /\ held[k] \in Nat
    BY <1>1, <2>1, ToMicrosType, CapType
  <2>3. m \in 0 .. Cap[k] /\ k \in DOMAIN Cap /\ Cap[k] = ToMicros(Ceiling[k])
    BY <2>1, <2>2
  <2>4. /\ res[i] = None /\ res' = [res EXCEPT ![i] = [key |-> k, amount |-> a]]
        /\ ended' = ended /\ committed' = committed /\ excess' = excess
    BY <1>2 DEF ReserveStore, historyVars
  <2>5. AbstractHold[i] = None /\ i \notin ended
    BY <2>4, MappedHold DEF Made, TypeInv, HandsFull
  <2>6. [key |-> k, amount |-> a] # None
    <3>1. [key |-> k, amount |-> a] \in Reservation  BY <2>1 DEF Reservation
    <3> QED  BY <3>1, LedgerAssumption
  <2>7. AbstractHold' = [AbstractHold EXCEPT ![i] = [key |-> k, amount |-> m]]
    <3>1. res'[i] = [key |-> k, amount |-> a] /\ \A j \in Ids \ {i} : res'[j] = res[j]
      BY <2>4 DEF TypeInv, TypeOK
    <3>2. AbstractHold'[i] = [key |-> k, amount |-> m]
      <4>1. /\ res'[i].key = k /\ res'[i].amount = a /\ res'[i] # None /\ i \notin ended'
        BY <2>4, <2>5, <2>6, <3>1
      <4> QED  BY <4>1 DEF AbstractHold
    <3>3. \A j \in Ids \ {i} : AbstractHold'[j] = AbstractHold[j]
      BY <2>4, <3>1 DEF AbstractHold
    <3>4. AbstractHold' = [j \in Ids |-> AbstractHold'[j]]
          /\ AbstractHold = [j \in Ids |-> AbstractHold[j]]
      BY DEF AbstractHold
    <3> HIDE DEF m
    <3> QED  BY <3>2, <3>3, <3>4
  <2>8. Abstract!Used(k) + m <= Cap[k]
    <3>1. k \in Keys /\ excess[k] = 0  BY <2>1, <2>4, CapType DEF Exact
    <3> QED  BY <2>1, <2>3, <3>1, MappedUsed
  <2>9. Abstract!Admit(i, k, m)
    BY <2>4, <2>5, <2>7, <2>8 DEF Abstract!Admit
  <2> QED  BY <2>3, <2>9 DEF Abstract!BudgetNext
\* A hold that ends for the second time weighs nothing: otherwise it would show.
<1>3. ASSUME NEW t \in Threads, Handling(t), EndHold(cur[t]), cur[t] \in ended
      PROVE  ToMicros(res[cur[t]].amount) = 0
  <2>1. /\ res[cur[t]].key \in Keys /\ ToMicros(res[cur[t]].amount) \in Nat
    BY <1>3, InHandType
  <2>2. excess' = [excess EXCEPT ![res[cur[t]].key] = @ + ToMicros(res[cur[t]].amount)]
    BY <1>3 DEF EndHold
  <2>3. excess'[res[cur[t]].key] = 0  BY <2>1 DEF Exact
  <2> QED  BY <1>1, <2>1, <2>2, <2>3
<1>9. ASSUME NEW t \in Threads, Handling(t), EndHold(cur[t]), res' = res, cur[t] \notin ended
      PROVE  /\ cur[t] \in Ids /\ res[cur[t]].key \in Keys /\ res[cur[t]].amount \in Nat
             /\ AbstractHold[cur[t]] # None
             /\ AbstractHold[cur[t]].key = res[cur[t]].key
             /\ AbstractHold[cur[t]].amount = ToMicros(res[cur[t]].amount)
             /\ AbstractHold' = [AbstractHold EXCEPT ![cur[t]] = None]
  <2>1. Made(cur[t]) /\ cur[t] \in Ids  BY <1>9 DEF TypeInv, HandsFull, Made
  <2>2. res[cur[t]].key \in Keys /\ res[cur[t]].amount \in Nat  BY <1>9, InHandType
  <2>3. Micros[cur[t]] = ToMicros(res[cur[t]].amount)  BY <2>1, MicrosType
  <2>4. AbstractHold' = [AbstractHold EXCEPT ![cur[t]] = None]
    BY <1>9, <2>1 DEF AbstractHold, EndHold
  <2> QED  BY <1>9, <2>1, <2>2, <2>3, <2>4, MappedHold
<1>4. ASSUME NEW t \in Threads, Handling(t), GiveBack(t)
      PROVE  Abstract!BudgetNext \/ UNCHANGED Abstract!budgetVars
  <2>1. EndHold(cur[t]) /\ res' = res /\ committed' = committed  BY <1>4 DEF GiveBack
  <2>2. CASE cur[t] \notin ended
    <3>1. Abstract!Refund(cur[t])  BY <1>4, <1>9, <2>1, <2>2 DEF Abstract!Refund
    <3> QED  BY <1>4, <1>9, <2>1, <2>2, <3>1 DEF Abstract!BudgetNext
  <2>3. CASE cur[t] \in ended
    <3>1. ended' = ended  BY <2>1, <2>3 DEF EndHold
    <3> QED  BY <2>1, <3>1, Stutters
  <2> QED  BY <2>2, <2>3
<1>5. ASSUME NEW t \in Threads, pc[t] = "settle.store", SettleApply(t)
      PROVE  Abstract!BudgetNext \/ UNCHANGED Abstract!budgetVars
  <2> DEFINE i == cur[t]
             c == Clamped(i, paid[t])
  <2>1. /\ committed' = [committed EXCEPT ![res[i].key] = @ + ToMicros(c)]
        /\ EndHold(i) /\ res' = res /\ Handling(t)
    BY <1>5 DEF SettleApply, Handling
  <2>2. paid[t] \in Nat /\ i \in Ids /\ res[i].key \in Keys /\ res[i].amount \in Nat
    BY <2>1, InHandType DEF TypeInv, TypeOK
  <2>3. c \in Nat /\ c <= res[i].amount  BY <2>2 DEF Clamped, Least
  <2>4. /\ ToMicros(c) \in Nat /\ ToMicros(res[i].amount) \in Nat
        /\ ToMicros(c) <= ToMicros(res[i].amount)
    BY <2>2, <2>3, ToMicrosType, ToMicrosMonotone
  <2>5. CASE i \notin ended
    <3>1. /\ AbstractHold[i] # None
          /\ AbstractHold[i].key = res[i].key
          /\ AbstractHold[i].amount = ToMicros(res[i].amount)
          /\ AbstractHold' = [AbstractHold EXCEPT ![i] = None]
      BY <1>9, <2>1, <2>5
    <3> HIDE DEF i, c
    <3>2. ToMicros(c) \in 0 .. AbstractHold[i].amount  BY <2>4, <3>1
    <3>3. Abstract!Charge(i, ToMicros(c))
      BY <2>1, <2>4, <3>1 DEF Abstract!Charge
    <3> QED  BY <2>2, <3>1, <3>2, <3>3 DEF Abstract!BudgetNext
  <2>6. CASE i \in ended
    <3>1. ToMicros(res[i].amount) = 0  BY <1>3, <2>1, <2>6
    <3>2. ToMicros(c) = 0  BY <2>4, <3>1
    <3>3. ended' = ended  BY <2>1, <2>6 DEF EndHold
    <3> HIDE DEF i, c
    <3>4. committed' = committed  BY <1>1, <2>1, <2>2, <3>2
    <3> QED  BY <2>1, <3>3, <3>4, Stutters
  <2> QED  BY <2>5, <2>6
<1>6. ASSUME NEW t \in Threads, ResetStore(t)  PROVE  Abstract!BudgetNext
  <2>1. /\ committed' = [k \in Keys |-> 0] /\ ended' = {i \in Ids : res[i] # None}
        /\ res' = res
    BY <1>6 DEF ResetStore
  <2>2. AbstractHold' = [i \in Ids |-> None]  BY <2>1 DEF AbstractHold
  <2> QED  BY <2>1, <2>2 DEF Abstract!BudgetNext, Abstract!Forget
<1>7. ASSUME NEW t \in Threads, SettleStore(t) \/ ReleaseStore(t) \/ SweepStore(t)
      PROVE  Abstract!BudgetNext \/ UNCHANGED Abstract!budgetVars
  <2>1. Handling(t)  BY <1>7 DEF SettleStore, ReleaseStore, SweepStore, Handling
  <2>2. CASE StoreRaises(t)  BY <2>2, Stutters DEF StoreRaises, historyVars
  <2>3. CASE pc[t] = "settle.store" /\ SettleApply(t)  BY <1>5, <2>3
  <2>4. CASE GiveBack(t)  BY <1>4, <2>1, <2>4
  <2> QED  BY <1>7, <2>2, <2>3, <2>4 DEF SettleStore, ReleaseStore, SweepStore
<1>8. \/ Abstract!BudgetNext \/ UNCHANGED Abstract!budgetVars
      \/ UNCHANGED <<res, ended, committed>>
  BY <1>2, <1>6, <1>7, LedgerAssumption
     DEF Next, vars, Reserve, Settle, Release, Finish, ReserveRejected, ReserveUnavailable,
         ReserveDenied, ReserveOpen, SettleUnknown, SettlePop, ReleaseNothing, ReleasePop,
         SweepSnapshot, SweepPop, SweepDone, ResetOpen, StoreFlips, Age, historyVars
<1> QED  BY <1>8, Stutters

\* Whoever resets and sweeps: until a hold is given back a second time every
\* step of the ledger is a step of Budget.
THEOREM BudgetWhileExactTheorem == Spec => ImplementsBudgetWhileExact
<1> DEFINE Step == Exact' => [Abstract!BudgetNext]_(Abstract!budgetVars)
<1>1. Init => Abstract!BudgetInit  BY RefinesInit
<1>2. BookInv /\ [Next]_vars => [Step]_vars  BY RefinesStep
<1>3. Spec => [][Step]_vars
  <2> HIDE DEF Step
  <2> QED  BY <1>2, BookInvariant, PTL DEF Spec
<1>4. Spec => Abstract!BudgetInit  BY <1>1 DEF Spec
<1> QED  BY <1>3, <1>4 DEF ImplementsBudgetWhileExact

\* Every behaviour of the disciplined ledger is a behaviour of Budget.
THEOREM LedgerImplementsBudget ==
  ASSUME Disciplined
  PROVE  Spec => ImplementsBudget
<1>1. Init => Abstract!BudgetInit  BY RefinesInit
<1>2. LedgerInv /\ LedgerInv' /\ [Next]_vars => [Abstract!BudgetNext]_(Abstract!budgetVars)
  <2> SUFFICES ASSUME LedgerInv, LedgerInv', [Next]_vars
               PROVE  [Abstract!BudgetNext]_(Abstract!budgetVars)
    OBVIOUS
  <2>1. BookInv /\ Exact'  BY DEF LedgerInv, ControlInv, OpenLive
  <2> QED  BY <2>1, RefinesStep
<1> QED
  BY <1>1, <1>2, LedgerInvariant, PTL DEF Spec, ImplementsBudget, Abstract!BudgetSpec
===============================================================================
