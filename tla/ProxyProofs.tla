----------------------------- MODULE ProxyProofs -----------------------------
(***************************************************************************)
(* Theorems about Proxy, for any number of requests, keys, ceilings, costs *)
(* and chunks, and under every fault.                                      *)
(***************************************************************************)
EXTENDS Proxy, MoneyProofs

-------------------------------------------------------------------------------
(* The inductive invariant, but for the sums *)

Reservation == [key : Keys, amount : Nat]
Stages   == {"new", "done"} \cup InFlight
Statuses == {None, "invalid_request", "unpriced_model", "unknown_budget_key",
             "ledger_unavailable", "budget_exceeded", "upstream_error",
             "upstream_status", "crash", "ok"}
Outcomes == {"none", "refused", "failed", "served", "gone", "vanished", "unsent",
             "broken"}
Fates    == {"none", "settled", "released", "swept", "lost"}

LedgerBasic ==
  /\ held \in [Keys -> Nat]
  /\ open \subseteq Requests
  /\ fate \in [Requests -> Fates]
  /\ charged \in [Requests -> Nat]

HandlerBasic ==
  /\ down \in BOOLEAN
  /\ res \in [Requests -> Reservation \cup {None}]
  /\ stage \in [Requests -> Stages]
  /\ settled \in [Requests -> BOOLEAN]
  /\ chunk \in [Requests -> Chunks \cup {None}]
  /\ status \in [Requests -> Statuses]
  /\ sent \in [Requests -> Nat]
  /\ owed \in [Requests -> SUBSET Nat]
  /\ outcome \in [Requests -> Outcomes]

Basic == LedgerBasic /\ HandlerBasic

\* The ledger's part of a request: what was made is open until it ends, and is
\* charged by a settle only, and at most itself.
Booked(r) ==
  /\ res[r] = None => fate[r] = "none" /\ charged[r] = 0 /\ r \notin open
  /\ res[r] # None => /\ res[r].key \in DOMAIN Ceiling
                      /\ charged[r] <= res[r].amount
                      /\ r \in open <=> fate[r] = "none"
  /\ fate[r] # "settled" => charged[r] = 0

\* Where the handler is.
Placed(r) ==
  /\ stage[r] = "new" => res[r] = None /\ owed[r] = {} /\ ~settled[r]
  /\ stage[r] \in InFlight => res[r] # None
  /\ outcome[r] = "none" <=> stage[r] # "done"
  /\ chunk[r] # None <=> stage[r] = "yielded"
  /\ settled[r] => r \notin open /\ owed[r] # {}
  /\ stage[r] = "done" /\ r \in open => Leaks(r)
  /\ fate[r] = "released" => outcome[r] \in {"failed", "gone"}

\* While a handler has not settled, nobody but a sweep has ended its
\* reservation, and no usage block but the one in its hand was sent.
Unsettled(r) ==
  stage[r] \in InFlight /\ ~settled[r] =>
    /\ fate[r] \in {"none", "lost", "swept"}
    /\ owed[r] = IF stage[r] = "yielded" /\ IsUsage(chunk[r])
                  THEN {Price(r, chunk[r])} ELSE {}

\* Who has settled has settled by a usage block it was sent.
Paid(r) ==
  fate[r] = "settled" /\ (settled[r] \/ outcome[r] = "served") => Owes(r, charged[r])

Good(r) == Booked(r) /\ Placed(r) /\ Unsettled(r) /\ Paid(r)

\* Nothing happens to request s.
Same(s) ==
  /\ res'[s] = res[s] /\ stage'[s] = stage[s] /\ settled'[s] = settled[s]
  /\ chunk'[s] = chunk[s] /\ status'[s] = status[s] /\ owed'[s] = owed[s]
  /\ outcome'[s] = outcome[s] /\ fate'[s] = fate[s] /\ charged'[s] = charged[s]
  /\ s \in open' <=> s \in open

LEMMA GoodStays ==
  ASSUME NEW s, Good(s), Same(s)
  PROVE  Good(s)'
BY DEF Good, Same, Booked, Placed, Unsettled, Paid, Leaks, Owes, Price

LEMMA ChunkType ==
  ASSUME NEW u \in Chunks
  PROVE  /\ u # None /\ u.cost \in Int
         /\ u.kind \in ChunkKinds
<1>1. u \in Priced \/ u \in {Untrusted, Overflow, Plain, Split}  BY DEF Chunks, Responses
<1>2. CASE u \in Priced
  <2>1. u = [kind |-> u.kind, cost |-> u.cost] /\ u.kind = "priced" /\ u.cost \in Int
    BY <1>2, ProxyAssumption DEF Priced
  <2>2. u.kind \in ChunkKinds  BY <2>1 DEF ChunkKinds
  <2>3. u \in [kind : ChunkKinds, cost : Int]  BY <2>1, <2>2
  <2> QED  BY <2>1, <2>3, ProxyAssumption
<1>3. CASE u \in {Untrusted, Overflow, Plain, Split}
  <2>1. /\ u.kind \in {"untrusted", "overflow", "plain", "split"}
        /\ u.cost = 0 /\ u = [kind |-> u.kind, cost |-> u.cost]
    BY <1>3 DEF Untrusted, Overflow, Plain, Split
  <2>2. u.kind \in ChunkKinds  BY <2>1 DEF ChunkKinds
  <2>3. u \in [kind : ChunkKinds, cost : Int]  BY <2>1, <2>2
  <2> QED  BY <2>1, <2>3, ProxyAssumption
<1> QED  BY <1>1, <1>2, <1>3

-------------------------------------------------------------------------------
(* The ledger *)

\* The reservation of r ends so, charged c.
Ended(r, how, c) ==
  /\ r \in open
  /\ End(r, how, c)
  /\ c \in Nat /\ c <= res[r].amount
  /\ how # "settled" => c = 0
  /\ held' = IF how = "lost" THEN held
             ELSE [held EXCEPT ![res[r].key] = Greatest(0, @ - (res[r].amount - c))]

LEMMA OpenType ==
  ASSUME Basic, NEW r \in Requests, Good(r), r \in open
  PROVE  /\ res[r] # None /\ res[r] \in Reservation
         /\ res[r].key \in Keys /\ res[r].key \in DOMAIN Ceiling /\ res[r].amount \in Nat
         /\ fate[r] = "none" /\ charged[r] = 0
<1>1. res[r] # None  BY DEF Good, Booked
<1>2. res[r] \in Reservation  BY <1>1 DEF Basic, HandlerBasic
<1> QED  BY <1>1, <1>2 DEF Good, Booked, Reservation

LEMMA CostType ==
  ASSUME Basic, NEW r \in Requests, Good(r), r \in open, NEW u \in Chunks
  PROVE  CostOf(r, u) \in Nat /\ CostOf(r, u) <= res[r].amount
<1>1. res[r].amount \in Nat  BY OpenType
<1>2. u.cost \in Int  BY ChunkType
<1> QED  BY <1>1, <1>2 DEF CostOf, Least

LEMMA SettleEnds ==
  ASSUME Basic, NEW r \in Requests, Good(r), NEW u \in Chunks, Settle(r, u)
  PROVE  \/ r \notin open /\ UNCHANGED ledgerVars
         \/ Ended(r, "lost", 0)
         \/ Ended(r, "settled", CostOf(r, u))
<1>1. CASE r \notin open /\ UNCHANGED ledgerVars  BY <1>1
<1>2. CASE r \in open /\ Lose(r)
  BY <1>2, OpenType DEF Lose, Ended
<1>3. CASE r \in open /\ ~down /\ End(r, "settled", CostOf(r, u)) /\ Return(r, CostOf(r, u))
  BY <1>3, CostType DEF Return, Ended
<1> QED  BY <1>1, <1>2, <1>3 DEF Settle

LEMMA GiveBackEnds ==
  ASSUME Basic, NEW r \in Requests, Good(r), NEW how \in {"released", "swept"},
         GiveBack(r, how)
  PROVE  \/ r \notin open /\ UNCHANGED ledgerVars
         \/ Ended(r, "lost", 0)
         \/ Ended(r, how, 0)
<1>1. CASE r \notin open /\ UNCHANGED ledgerVars  BY <1>1
<1>2. CASE r \in open /\ Lose(r)
  BY <1>2, OpenType DEF Lose, Ended
<1>3. CASE r \in open /\ ~down /\ End(r, how, 0) /\ Return(r, 0)
  BY <1>3, OpenType DEF Return, Ended
<1> QED  BY <1>1, <1>2, <1>3 DEF GiveBack

\* The values of the ledger's part after a step for r.
LedgerTo(r, f, c) ==
  /\ LedgerBasic'
  /\ fate'[r] = f /\ charged'[r] = c
  /\ \A s \in Requests \ {r} :
       fate'[s] = fate[s] /\ charged'[s] = charged[s] /\ (s \in open' <=> s \in open)

LEMMA LedgerRests ==
  ASSUME Basic, NEW r \in Requests, UNCHANGED ledgerVars
  PROVE  LedgerTo(r, fate[r], charged[r]) /\ (r \in open' <=> r \in open)
BY DEF LedgerTo, LedgerBasic, Basic, ledgerVars

LEMMA LedgerEnds ==
  ASSUME Basic, NEW r \in Requests, Good(r), NEW how \in Fates, NEW c, Ended(r, how, c)
  PROVE  LedgerTo(r, how, c) /\ r \notin open' /\ r \in open
<1>1. c \in Nat /\ r \in open  BY DEF Ended
<1>2. open' = open \ {r} /\ fate' = [fate EXCEPT ![r] = how] /\ charged' = [charged EXCEPT ![r] = c]
  BY DEF Ended, End
<1>3. held' \in [Keys -> Nat]
  <2>1. res[r].amount \in Nat /\ res[r].key \in Keys  BY <1>1, OpenType
  <2>2. held[res[r].key] \in Nat  BY <2>1 DEF Basic, LedgerBasic
  <2>3. Greatest(0, held[res[r].key] - (res[r].amount - c)) \in Nat
    BY <1>1, <2>1, <2>2 DEF Greatest
  <2> QED  BY <2>1, <2>3 DEF Ended, Basic, LedgerBasic
<1>4. fate' \in [Requests -> Fates] /\ charged' \in [Requests -> Nat] /\ open' \subseteq Requests
  BY <1>1, <1>2 DEF Basic, LedgerBasic
<1> QED  BY <1>1, <1>2, <1>3, <1>4 DEF LedgerTo, Basic, LedgerBasic

-------------------------------------------------------------------------------
(* The handlers *)

\* The rest of the state after a step for r.
HandlerTo(r) ==
  /\ HandlerBasic'
  /\ \A s \in Requests \ {r} :
       /\ res'[s] = res[s] /\ stage'[s] = stage[s] /\ settled'[s] = settled[s]
       /\ chunk'[s] = chunk[s] /\ status'[s] = status[s] /\ owed'[s] = owed[s]
       /\ outcome'[s] = outcome[s]

Moves(r) == Basic' /\ Good(r)' /\ \A s \in Requests \ {r} : Same(s)

LEMMA Assemble ==
  ASSUME NEW r, NEW f, NEW c, LedgerTo(r, f, c), HandlerTo(r), Good(r)'
  PROVE  Moves(r)
BY DEF LedgerTo, HandlerTo, Moves, Same, Basic

\* What the upstream sends is remembered if it is a usage block.
LEMMA SentType ==
  ASSUME Basic, NEW r \in Requests, Good(r), stage[r] \in InFlight, NEW u \in Chunks, Sent(r, u)
  PROVE  /\ sent' \in [Requests -> Nat] /\ owed' \in [Requests -> SUBSET Nat]
         /\ owed'[r] = IF IsUsage(u) THEN owed[r] \cup {Price(r, u)} ELSE owed[r]
         /\ \A s \in Requests \ {r} : owed'[s] = owed[s]
<1>1. sent \in [Requests -> Nat] /\ owed \in [Requests -> SUBSET Nat]  BY DEF Basic, HandlerBasic
<1>2. Price(r, u) \in Nat
  <2>1. res[r].amount \in Nat  BY DEF Good, Placed, Basic, HandlerBasic, Reservation
  <2>2. u.cost \in Int  BY ChunkType
  <2> QED  BY <2>1, <2>2 DEF Price
<1>3. sent' \in [Requests -> Nat]  BY <1>1 DEF Sent
<1>4. owed' \in [Requests -> SUBSET Nat]
  <2>1. owed[r] \cup {Price(r, u)} \in SUBSET Nat  BY <1>1, <1>2
  <2> HIDE DEF Price
  <2> QED  BY <1>1, <2>1 DEF Sent
<1> QED  BY <1>1, <1>3, <1>4 DEF Sent

\* A settle costs what the usage block asks for.
LEMMA CostIsPrice ==
  ASSUME Basic, NEW r \in Requests, Good(r), r \in open, NEW u \in Chunks
  PROVE  CostOf(r, u) = Price(r, u)
<1>1. res[r].amount \in Nat /\ u.cost \in Int  BY OpenType, ChunkType
<1> QED  BY <1>1 DEF CostOf, Price, Least

\* The three ways in which a handler goes on.
LEMMA AnswerTo ==
  ASSUME Basic, NEW r \in Requests, NEW code \in Statuses, NEW how \in Outcomes,
         Answer(r, code, how), sent' \in [Requests -> Nat], owed' \in [Requests -> SUBSET Nat],
         \A s \in Requests \ {r} : owed'[s] = owed[s]
  PROVE  /\ HandlerTo(r)
         /\ stage'[r] = "done" /\ status'[r] = code /\ outcome'[r] = how
         /\ res'[r] = res[r] /\ settled'[r] = settled[r] /\ chunk'[r] = chunk[r]
<1>1. "done" \in Stages  BY DEF Stages
<1>2. HandlerBasic'
  BY <1>1 DEF Answer, Basic, HandlerBasic, localVars
<1> QED  BY <1>1, <1>2 DEF HandlerTo, Answer, Basic, HandlerBasic, localVars

LEMMA LeaveTo ==
  ASSUME Basic, NEW r \in Requests, NEW how \in Outcomes,
         Leave(r, how), UNCHANGED upstreamVars
  PROVE  /\ HandlerTo(r)
         /\ stage'[r] = "done" /\ status'[r] = status[r] /\ outcome'[r] = how
         /\ res'[r] = res[r] /\ settled'[r] = settled[r] /\ chunk'[r] = None
         /\ owed'[r] = owed[r]
<1>1. "done" \in Stages  BY DEF Stages
<1>2. HandlerBasic'
  BY <1>1 DEF Leave, Basic, HandlerBasic, upstreamVars
<1> QED  BY <1>1, <1>2 DEF HandlerTo, Leave, Basic, HandlerBasic, upstreamVars

LEMMA SuspendTo ==
  ASSUME Basic, NEW r \in Requests, NEW s \in Stages, Suspend(r, s),
         sent' \in [Requests -> Nat], owed' \in [Requests -> SUBSET Nat],
         \A q \in Requests \ {r} : owed'[q] = owed[q],
         NEW u \in Chunks \cup {None}, chunk' = [chunk EXCEPT ![r] = u]
  PROVE  /\ HandlerTo(r) /\ UNCHANGED ledgerVars
         /\ stage'[r] = s /\ status'[r] = status[r] /\ outcome'[r] = outcome[r]
         /\ res'[r] = res[r] /\ settled'[r] = settled[r] /\ chunk'[r] = u
<1>1. HandlerBasic'
  BY DEF Suspend, Basic, HandlerBasic
<1> QED  BY <1>1 DEF HandlerTo, Suspend, Basic, HandlerBasic

-------------------------------------------------------------------------------
(* Admission *)

LEMMA RefuseStep ==
  ASSUME Basic, NEW r \in Requests, Good(r), NEW code \in Statuses, Refuse(r, code)
  PROVE  Moves(r)
<1>1. LedgerTo(r, fate[r], charged[r]) /\ (r \in open' <=> r \in open)
  BY LedgerRests DEF Refuse
<1>2. owed' = owed /\ sent' = sent  BY DEF Refuse, upstreamVars
<1>3. "refused" \in Outcomes  BY DEF Outcomes
<1>4. /\ HandlerTo(r)
      /\ stage'[r] = "done" /\ status'[r] = code /\ outcome'[r] = "refused"
      /\ res'[r] = res[r] /\ settled'[r] = settled[r] /\ chunk'[r] = chunk[r]
  <2>1. sent' \in [Requests -> Nat] /\ owed' \in [Requests -> SUBSET Nat]
    BY <1>2 DEF Basic, HandlerBasic
  <2> QED  BY <1>2, <1>3, <2>1, AnswerTo DEF Refuse
<1>5. stage[r] = "new"  BY DEF Refuse
<1>6. Good(r)'
  BY <1>1, <1>2, <1>4, <1>5
     DEF Good, Booked, Placed, Unsettled, Paid, Leaks, Owes, LedgerTo, InFlight, Suspended
<1> QED  BY <1>1, <1>4, <1>6, Assemble

LEMMA ReserveTo ==
  ASSUME Basic, NEW r \in Requests, Good(r), NEW q \in Offers, Reserve(r, q)
  PROVE  /\ LedgerTo(r, "none", 0) /\ r \in open'
         /\ res' \in [Requests -> Reservation \cup {None}]
         /\ res'[r] # None /\ res'[r].key \in DOMAIN Ceiling /\ res'[r].amount \in Nat
         /\ settled'[r] = settled[r] /\ chunk'[r] = chunk[r] /\ owed'[r] = owed[r]
         /\ stage[r] = "new"
         /\ HandlerBasic /\ UNCHANGED <<down, settled, chunk, sent, owed>>
         /\ \A s \in Requests \ {r} : res'[s] = res[s]
<1> DEFINE new == [key |-> q.key, amount |-> q.cost]
<1>1. /\ q.key \in DOMAIN Ceiling /\ q.key \in Keys /\ q.cost \in Nat
      /\ new \in Reservation /\ new # None
  BY ProxyAssumption DEF Reserve, Reservation
<1>2. fate[r] = "none" /\ charged[r] = 0 /\ stage[r] = "new"  BY DEF Reserve, Good, Booked, Placed
<1>3. LedgerTo(r, "none", 0) /\ r \in open'
  BY <1>1, <1>2 DEF Reserve, Basic, LedgerBasic, LedgerTo
<1>4. res' = [res EXCEPT ![r] = new] /\ res \in [Requests -> Reservation \cup {None}]
  BY DEF Reserve, Basic, HandlerBasic
<1>5. res'[r] = new  BY <1>4
<1>6. res'[r] # None /\ res'[r].key \in DOMAIN Ceiling /\ res'[r].amount \in Nat
  BY <1>1, <1>5
<1>7. res' \in [Requests -> Reservation \cup {None}]
      /\ \A s \in Requests \ {r} : res'[s] = res[s]
  <2> HIDE DEF new
  <2> QED  BY <1>1, <1>4
<1> QED  BY <1>2, <1>3, <1>6, <1>7 DEF Reserve, Basic, upstreamVars

LEMMA AdmitStep ==
  ASSUME Basic, NEW r \in Requests, Good(r), NEW q \in Offers, Admit(r, q)
  PROVE  Moves(r)
<1>1. Reserve(r, q)  BY DEF Admit
<1>2. stage'[r] \in {"unstarted", "posting"} /\ stage'[r] \in Stages
      /\ status'[r] = status[r] /\ outcome'[r] = outcome[r]
  BY DEF Admit, Basic, HandlerBasic, Stages, InFlight, Suspended
<1>3. HandlerBasic'
  <2>1. stage' \in [Requests -> Stages]
    BY <1>2 DEF Admit, Basic, HandlerBasic
  <2> QED  BY <1>1, <2>1, ReserveTo DEF Admit, HandlerBasic
<1>4. HandlerTo(r)
  BY <1>1, <1>3, ReserveTo DEF HandlerTo, Admit, HandlerBasic
<1>5. /\ LedgerTo(r, "none", 0) /\ r \in open' /\ stage[r] = "new"
      /\ res'[r] # None /\ res'[r].key \in DOMAIN Ceiling /\ res'[r].amount \in Nat
      /\ settled'[r] = settled[r] /\ chunk'[r] = chunk[r] /\ owed'[r] = owed[r]
  BY <1>1, ReserveTo
<1>6. fate'[r] = "none" /\ charged'[r] = 0 /\ owed'[r] = {} /\ ~settled'[r] /\ chunk'[r] = None
  BY <1>5 DEF LedgerTo, Good, Placed
<1>7. Booked(r)' /\ Placed(r)'
  BY <1>2, <1>5, <1>6 DEF Good, Booked, Placed, InFlight, Suspended
<1>8. Unsettled(r)' /\ Paid(r)'
  BY <1>2, <1>6 DEF Unsettled, Paid
<1> QED  BY <1>4, <1>5, <1>7, <1>8, Assemble DEF Good

LEMMA AdmitUnsentStep ==
  ASSUME Basic, NEW r \in Requests, Good(r), NEW q \in Offers, AdmitUnsent(r, q)
  PROVE  Moves(r)
<1>1. Reserve(r, q)  BY DEF AdmitUnsent
<1>2. stage'[r] = "done" /\ status'[r] = "crash" /\ outcome'[r] = "unsent"
  BY DEF AdmitUnsent, Basic, HandlerBasic
<1>3. HandlerBasic'
  <2>1. "done" \in Stages /\ "crash" \in Statuses /\ "unsent" \in Outcomes
    BY DEF Stages, Statuses, Outcomes
  <2>2. /\ stage' \in [Requests -> Stages] /\ status' \in [Requests -> Statuses]
        /\ outcome' \in [Requests -> Outcomes]
    BY <2>1 DEF AdmitUnsent, Basic, HandlerBasic
  <2> QED  BY <1>1, <2>2, ReserveTo DEF HandlerBasic
<1>4. HandlerTo(r)
  BY <1>1, <1>3, ReserveTo DEF HandlerTo, AdmitUnsent, HandlerBasic
<1>5. /\ LedgerTo(r, "none", 0) /\ r \in open' /\ stage[r] = "new"
      /\ res'[r] # None /\ res'[r].key \in DOMAIN Ceiling /\ res'[r].amount \in Nat
      /\ settled'[r] = settled[r] /\ chunk'[r] = chunk[r] /\ owed'[r] = owed[r]
  BY <1>1, ReserveTo
<1>6. fate'[r] = "none" /\ charged'[r] = 0 /\ owed'[r] = {} /\ ~settled'[r] /\ chunk'[r] = None
  BY <1>5 DEF LedgerTo, Good, Placed
<1>7. Leaks(r)'  BY <1>2 DEF Leaks
<1>8. Booked(r)'  BY <1>5, <1>6 DEF Booked
<1>9. Placed(r)'  BY <1>2, <1>5, <1>6, <1>7 DEF Placed, InFlight, Suspended
<1>10. Unsettled(r)' /\ Paid(r)'
  BY <1>2, <1>6 DEF Unsettled, Paid, InFlight, Suspended
<1> QED  BY <1>4, <1>5, <1>8, <1>9, <1>10, Assemble DEF Good

-------------------------------------------------------------------------------
(* A plain request *)

\* A release leaves the ledger so; so does a settle, which may charge.
LEMMA ReleaseTo ==
  ASSUME Basic, NEW r \in Requests, Good(r), NEW how \in {"released", "swept"}, GiveBack(r, how)
  PROVE  \/ LedgerTo(r, fate[r], charged[r]) /\ r \notin open /\ r \notin open'
         \/ \E f \in {"lost", how} : LedgerTo(r, f, 0) /\ r \in open /\ r \notin open'
<1>1. CASE r \notin open /\ UNCHANGED ledgerVars  BY <1>1, LedgerRests
<1>2. "lost" \in Fates /\ how \in Fates  BY DEF Fates
<1>3. CASE Ended(r, "lost", 0)  BY <1>2, <1>3, LedgerEnds
<1>4. CASE Ended(r, how, 0)  BY <1>2, <1>4, LedgerEnds
<1> QED  BY <1>1, <1>3, <1>4, GiveBackEnds

LEMMA SettleTo ==
  ASSUME Basic, NEW r \in Requests, Good(r), NEW u \in Chunks, Settle(r, u)
  PROVE  \/ LedgerTo(r, fate[r], charged[r]) /\ r \notin open /\ r \notin open'
         \/ LedgerTo(r, "lost", 0) /\ r \in open /\ r \notin open'
         \/ /\ LedgerTo(r, "settled", CostOf(r, u)) /\ r \in open /\ r \notin open'
            /\ CostOf(r, u) \in Nat /\ CostOf(r, u) <= res[r].amount
<1>1. CASE r \notin open /\ UNCHANGED ledgerVars  BY <1>1, LedgerRests
<1>2. "lost" \in Fates /\ "settled" \in Fates  BY DEF Fates
<1>3. CASE Ended(r, "lost", 0)  BY <1>2, <1>3, LedgerEnds
<1>4. CASE Ended(r, "settled", CostOf(r, u))
  <2>1. r \in open  BY <1>4 DEF Ended
  <2>2. CostOf(r, u) \in Nat /\ CostOf(r, u) <= res[r].amount  BY <2>1, CostType
  <2> QED  BY <1>2, <1>4, <2>1, <2>2, LedgerEnds
<1> QED  BY <1>1, <1>3, <1>4, SettleEnds

\* A handler that has reserved gives back and ends, as after an error ...
LEMMA GivenBackAndDone ==
  ASSUME Basic, NEW r \in Requests, Good(r), stage[r] \in InFlight, HandlerTo(r),
         stage'[r] = "done", outcome'[r] \in {"failed", "gone"}, chunk'[r] = None,
         res'[r] = res[r], settled'[r] = settled[r], owed'[r] = owed[r],
         Release(r) \/ (settled[r] /\ UNCHANGED ledgerVars)
  PROVE  Moves(r)
<1> USE DEF Good, Booked, Placed, Unsettled, Paid, Leaks, Owes, LedgerTo, InFlight, Suspended
<1>1. ASSUME LedgerTo(r, fate[r], charged[r]), r \notin open, r \notin open'
      PROVE  Good(r)'
  BY <1>1
<1>2. ASSUME NEW f \in {"lost", "released"}, LedgerTo(r, f, 0), r \in open, r \notin open'
      PROVE  Good(r)'
  BY <1>2
<1> USE DEF LedgerTo
<1>3. CASE settled[r] /\ UNCHANGED ledgerVars
  <2>1. LedgerTo(r, fate[r], charged[r]) /\ r \notin open /\ r \notin open'
    BY <1>3, LedgerRests
  <2> QED  BY <1>1, <2>1, Assemble
<1>4. CASE Release(r)
  <2>1. GiveBack(r, "released")  BY <1>4 DEF Release
  <2>2. CASE LedgerTo(r, fate[r], charged[r]) /\ r \notin open /\ r \notin open'
    BY <1>1, <2>2, Assemble
  <2>3. ASSUME NEW f \in {"lost", "released"}, LedgerTo(r, f, 0), r \in open, r \notin open'
        PROVE  Moves(r)
    BY <1>2, <2>3, Assemble
  <2> QED  BY <2>1, <2>2, <2>3, ReleaseTo
<1> QED  BY <1>3, <1>4

\* ... or settles in full and ends, as in the `finally' block.
LEMMA SettledAndDone ==
  ASSUME Basic, NEW r \in Requests, Good(r), stage[r] \in InFlight, HandlerTo(r),
         stage'[r] = "done", outcome'[r] \in {"broken", "gone", "served", "unsent"}, chunk'[r] = None,
         outcome'[r] = "served" => stage[r] = "reading",
         res'[r] = res[r], settled'[r] = settled[r], owed'[r] = owed[r],
         IF settled[r] THEN UNCHANGED ledgerVars ELSE Settle(r, Untrusted)
  PROVE  Moves(r)
<1> USE DEF Good, Booked, Placed, Unsettled, Paid, Leaks, Owes, LedgerTo, InFlight, Suspended
<1>1. ASSUME LedgerTo(r, fate[r], charged[r]), r \notin open, r \notin open'
      PROVE  Good(r)'
  BY <1>1
<1>2. ASSUME LedgerTo(r, "lost", 0), r \in open, r \notin open'
      PROVE  Good(r)'
  BY <1>2
<1>3. ASSUME LedgerTo(r, "settled", res[r].amount), r \in open, r \notin open', ~settled[r]
      PROVE  Good(r)'
  <2>1. res[r].amount \in Nat  BY <1>3, OpenType
  <2>2. Booked(r)'  BY <1>3, <2>1
  <2>3. Placed(r)'  BY <1>3
  <2>4. Unsettled(r)'  BY <1>3
  <2>5. Paid(r)'  BY <1>3
  <2> QED  BY <2>2, <2>3, <2>4, <2>5
<1>4. CASE settled[r]
  <2>1. LedgerTo(r, fate[r], charged[r]) /\ r \notin open /\ r \notin open'
    BY <1>4, LedgerRests
  <2> QED  BY <1>1, <2>1, Assemble
<1>5. CASE ~settled[r]
  <2>1. Untrusted \in Chunks  BY DEF Chunks, Responses
  <2>2. CostOf(r, Untrusted) = res[r].amount  BY DEF CostOf, Untrusted
  <2>3. CASE LedgerTo(r, fate[r], charged[r]) /\ r \notin open /\ r \notin open'
    BY <1>1, <2>3, Assemble
  <2>4. CASE LedgerTo(r, "lost", 0) /\ r \in open /\ r \notin open'
    BY <1>2, <2>4, Assemble
  <2>5. CASE LedgerTo(r, "settled", CostOf(r, Untrusted)) /\ r \in open /\ r \notin open'
    BY <1>3, <1>5, <2>2, <2>5, Assemble
  <2> QED  BY <1>5, <2>1, <2>3, <2>4, <2>5, SettleTo
<1> QED  BY <1>4, <1>5

LEMMA PostEndsStep ==
  ASSUME Basic, NEW r \in Requests, Good(r), PostFails(r) \/ PostRejected(r)
  PROVE  Moves(r)
<1>1. PICK code \in Statuses : Answer(r, code, "failed")
  BY DEF PostFails, PostRejected, OrCrash, Statuses
<1>2. stage[r] = "posting" /\ Release(r) /\ owed' = owed /\ sent' = sent
  BY DEF PostFails, PostRejected, upstreamVars
<1>3. "failed" \in Outcomes  BY DEF Outcomes
<1>4. sent' \in [Requests -> Nat] /\ owed' \in [Requests -> SUBSET Nat]
  BY <1>2 DEF Basic, HandlerBasic
<1>5. /\ HandlerTo(r)
      /\ stage'[r] = "done" /\ status'[r] = code /\ outcome'[r] = "failed"
      /\ res'[r] = res[r] /\ settled'[r] = settled[r] /\ chunk'[r] = chunk[r]
  BY <1>1, <1>2, <1>3, <1>4, AnswerTo
<1>6. stage[r] \in InFlight /\ chunk[r] = None  BY <1>2 DEF InFlight, Good, Placed
<1> QED  BY <1>2, <1>5, <1>6, GivenBackAndDone

LEMMA PostAnsweredStep ==
  ASSUME Basic, NEW r \in Requests, Good(r), NEW u \in Responses, PostAnswered(r, u)
  PROVE  Moves(r)
<1>1. u \in Chunks /\ stage[r] = "posting" /\ Sent(r, u) /\ Settle(r, u)
  BY DEF PostAnswered, Chunks
<1>2. IsUsage(u) /\ u # None
  BY <1>1, ChunkType DEF Responses, Priced, Untrusted, Overflow, IsUsage
<1>3. "ok" \in Statuses /\ "served" \in Outcomes  BY DEF Statuses, Outcomes
<1>4. /\ sent' \in [Requests -> Nat] /\ owed' \in [Requests -> SUBSET Nat]
      /\ owed'[r] = owed[r] \cup {Price(r, u)}
      /\ \A s \in Requests \ {r} : owed'[s] = owed[s]
  BY <1>1, <1>2, SentType DEF InFlight
<1>5. /\ HandlerTo(r)
      /\ stage'[r] = "done" /\ status'[r] = "ok" /\ outcome'[r] = "served"
      /\ res'[r] = res[r] /\ settled'[r] = settled[r] /\ chunk'[r] = chunk[r]
  BY <1>3, <1>4, AnswerTo DEF PostAnswered
<1> USE DEF Good, Booked, Placed, Unsettled, Paid, Leaks, Owes, LedgerTo, InFlight, Suspended
<1>6. CASE LedgerTo(r, fate[r], charged[r]) /\ r \notin open /\ r \notin open'
  <2>1. Good(r)'  BY <1>1, <1>2, <1>4, <1>5, <1>6
  <2> QED  BY <1>5, <1>6, <2>1, Assemble
<1>7. CASE LedgerTo(r, "lost", 0) /\ r \in open /\ r \notin open'
  <2>1. fate[r] = "none" /\ settled'[r] = settled[r] /\ ~settled[r]
    BY <1>1, <1>5, <1>7
  <2>2. Booked(r)'  BY <1>5, <1>7
  <2>3. Placed(r)'  BY <1>1, <1>5, <1>7, <2>1
  <2>4. Unsettled(r)' /\ Paid(r)'  BY <1>5, <1>7
  <2>5. Good(r)'  BY <2>2, <2>3, <2>4
  <2> QED  BY <1>5, <1>7, <2>5, Assemble
<1>8. CASE /\ LedgerTo(r, "settled", CostOf(r, u)) /\ r \in open /\ r \notin open'
           /\ CostOf(r, u) \in Nat /\ CostOf(r, u) <= res[r].amount
  <2>1. ~settled[r] /\ Price(r, u) \in owed'[r]  BY <1>1, <1>4, <1>8
  <2>2. CostOf(r, u) = Price(r, u)  BY <1>1, <1>8, CostIsPrice
  <2>3. Owes(r, charged[r])'  BY <1>8, <2>1, <2>2
  <2>4. res[r] # None /\ res[r].key \in DOMAIN Ceiling  BY <1>8, OpenType
  <2>5. fate'[r] = "settled" /\ charged'[r] = CostOf(r, u)  BY <1>8
  <2>6. Booked(r)'  BY <1>5, <1>8, <2>4, <2>5
  <2>7. Placed(r)'  BY <1>1, <1>2, <1>5, <1>8, <2>1, <2>5
  <2>8. Unsettled(r)'  BY <1>5
  <2>9. Paid(r)'  BY <2>3
  <2>10. Good(r)'  BY <2>6, <2>7, <2>8, <2>9
  <2> QED  BY <1>5, <1>8, <2>10, Assemble
<1> QED  BY <1>1, <1>6, <1>7, <1>8, SettleTo

LEMMA PostOverflowsStep ==
  ASSUME Basic, NEW r \in Requests, Good(r), NEW u \in Responses, PostOverflows(r, u)
  PROVE  Moves(r)
<1>1. u \in Chunks /\ stage[r] = "posting" /\ Sent(r, u) /\ UNCHANGED ledgerVars
  BY DEF PostOverflows, Chunks
<1>2. "crash" \in Statuses /\ "served" \in Outcomes  BY DEF Statuses, Outcomes
<1>3. /\ sent' \in [Requests -> Nat] /\ owed' \in [Requests -> SUBSET Nat]
      /\ owed'[r] = IF IsUsage(u) THEN owed[r] \cup {Price(r, u)} ELSE owed[r]
      /\ \A s \in Requests \ {r} : owed'[s] = owed[s]
  BY <1>1, SentType DEF InFlight
<1>4. /\ HandlerTo(r)
      /\ stage'[r] = "done" /\ status'[r] = "crash" /\ outcome'[r] = "served"
      /\ res'[r] = res[r] /\ settled'[r] = settled[r] /\ chunk'[r] = chunk[r]
  BY <1>2, <1>3, AnswerTo DEF PostOverflows
<1>5. LedgerTo(r, fate[r], charged[r]) /\ (r \in open' <=> r \in open)
  BY <1>1, LedgerRests
<1>6. Good(r)'
  BY <1>1, <1>3, <1>4, <1>5
     DEF Good, Booked, Placed, Unsettled, Paid, Leaks, Owes, LedgerTo, InFlight, Suspended
<1> QED  BY <1>4, <1>5, <1>6, Assemble

-------------------------------------------------------------------------------
(* A stream *)

\* The generator moves on to an await of the upstream.
LEMMA StreamWaitsStep ==
  ASSUME Basic, NEW r \in Requests, Good(r),
         StreamStarts(r) \/ StreamRejected(r) \/ StreamAccepted(r)
  PROVE  Moves(r)
<1>1. /\ stage[r] \in {"unstarted", "connecting"} /\ chunk' = chunk
      /\ owed' = owed /\ sent' = sent
  BY DEF StreamStarts, StreamRejected, StreamAccepted, upstreamVars
<1>2. PICK s \in {"connecting", "erroring", "reading"} : Suspend(r, s)
  BY DEF StreamStarts, StreamRejected, StreamAccepted
<1>3. s \in Stages  BY DEF Stages, InFlight, Suspended
<1>4. chunk[r] = None  BY <1>1 DEF Good, Placed
<1>5. chunk' = [chunk EXCEPT ![r] = None]  BY <1>1, <1>4 DEF Basic, HandlerBasic
<1>6. sent' \in [Requests -> Nat] /\ owed' \in [Requests -> SUBSET Nat]
      /\ \A q \in Requests \ {r} : owed'[q] = owed[q]
  BY <1>1 DEF Basic, HandlerBasic
<1>7. /\ HandlerTo(r) /\ UNCHANGED ledgerVars
      /\ stage'[r] = s /\ status'[r] = status[r] /\ outcome'[r] = outcome[r]
      /\ res'[r] = res[r] /\ settled'[r] = settled[r] /\ chunk'[r] = None
  BY <1>2, <1>3, <1>5, <1>6, SuspendTo
<1>8. LedgerTo(r, fate[r], charged[r]) /\ (r \in open' <=> r \in open)
  BY <1>7, LedgerRests
<1>9. Good(r)'
  BY <1>1, <1>4, <1>7, <1>8
     DEF Good, Booked, Placed, Unsettled, Paid, Leaks, Owes, LedgerTo, InFlight, Suspended
<1> QED  BY <1>7, <1>8, <1>9, Assemble

LEMMA StreamYieldsStep ==
  ASSUME Basic, NEW r \in Requests, Good(r), NEW u \in Chunks, StreamYields(r, u)
  PROVE  Moves(r)
<1>1. /\ stage[r] = "reading" /\ Sent(r, u) /\ Suspend(r, "yielded")
      /\ chunk' = [chunk EXCEPT ![r] = u]
  BY DEF StreamYields
<1>2. u # None  BY ChunkType
<1>3. /\ sent' \in [Requests -> Nat] /\ owed' \in [Requests -> SUBSET Nat]
      /\ owed'[r] = IF IsUsage(u) THEN owed[r] \cup {Price(r, u)} ELSE owed[r]
      /\ \A q \in Requests \ {r} : owed'[q] = owed[q]
  BY <1>1, SentType DEF InFlight, Suspended
<1>4. "yielded" \in Stages /\ u \in Chunks \cup {None}  BY DEF Stages, InFlight, Suspended
<1>5. /\ HandlerTo(r) /\ UNCHANGED ledgerVars
      /\ stage'[r] = "yielded" /\ status'[r] = status[r] /\ outcome'[r] = outcome[r]
      /\ res'[r] = res[r] /\ settled'[r] = settled[r] /\ chunk'[r] = u
  BY <1>1, <1>3, <1>4, SuspendTo
<1>6. LedgerTo(r, fate[r], charged[r]) /\ (r \in open' <=> r \in open)
  BY <1>5, LedgerRests
<1>7. Price(r, u)' = Price(r, u)  BY <1>5 DEF Price
<1>8. Good(r)'
  BY <1>1, <1>2, <1>3, <1>5, <1>6, <1>7
     DEF Good, Booked, Placed, Unsettled, Paid, Leaks, Owes, LedgerTo, InFlight, Suspended
<1> QED  BY <1>5, <1>6, <1>8, Assemble

LEMMA StreamResumesStep ==
  ASSUME Basic, NEW r \in Requests, Good(r), StreamResumes(r)
  PROVE  Moves(r)
<1> DEFINE pays == IsUsage(chunk[r]) /\ ~settled[r]
<1>1. stage[r] = "yielded" /\ owed' = owed /\ sent' = sent
  BY DEF StreamResumes, upstreamVars
<1>2. chunk[r] \in Chunks  BY <1>1 DEF Basic, HandlerBasic, Good, Placed
<1>3. settled' = [settled EXCEPT ![r] = settled[r] \/ pays]
  BY DEF StreamResumes, Basic, HandlerBasic
<1>4. HandlerBasic'
  <2>1. settled' \in [Requests -> BOOLEAN]  BY <1>3 DEF Basic, HandlerBasic
  <2>2. "reading" \in Stages  BY DEF Stages, InFlight, Suspended
  <2> QED  BY <1>1, <2>1, <2>2 DEF StreamResumes, Basic, HandlerBasic
<1>5. HandlerTo(r)
  BY <1>1, <1>3, <1>4 DEF HandlerTo, StreamResumes, Basic, HandlerBasic
<1>6. /\ stage'[r] = "reading" /\ status'[r] = status[r] /\ outcome'[r] = outcome[r]
      /\ res'[r] = res[r] /\ chunk'[r] = None /\ owed'[r] = owed[r]
  BY <1>1 DEF StreamResumes, Basic, HandlerBasic
<1>7. settled'[r] <=> settled[r] \/ pays  BY <1>3 DEF Basic, HandlerBasic
<1>8. CASE ~pays
  <2>1. UNCHANGED ledgerVars  BY <1>8 DEF StreamResumes
  <2>2. LedgerTo(r, fate[r], charged[r]) /\ (r \in open' <=> r \in open)
    BY <2>1, LedgerRests
  <2>3. Good(r)'
    BY <1>1, <1>6, <1>7, <1>8, <2>2
       DEF Good, Booked, Placed, Unsettled, Paid, Leaks, Owes, LedgerTo, InFlight, Suspended
  <2> QED  BY <1>5, <2>2, <2>3, Assemble
<1>9. CASE pays
  <2>1. Settle(r, chunk[r])  BY <1>9 DEF StreamResumes
  <2>2. /\ owed[r] = {Price(r, chunk[r])} /\ settled'[r] /\ ~settled[r]
        /\ fate[r] \in {"none", "lost", "swept"} /\ IsUsage(chunk[r])
    BY <1>1, <1>2, <1>7, <1>9, ChunkType DEF Good, Unsettled, InFlight, Suspended
  <2> USE DEF Good, Booked, Placed, Unsettled, Paid, LedgerTo, InFlight, Suspended
  <2>3. CASE LedgerTo(r, fate[r], charged[r]) /\ r \notin open /\ r \notin open'
    <3>1. Good(r)'  BY <1>1, <1>6, <2>2, <2>3
    <3> QED  BY <1>5, <2>3, <3>1, Assemble
  <2>4. CASE LedgerTo(r, "lost", 0) /\ r \in open /\ r \notin open'
    <3>1. Good(r)'  BY <1>1, <1>6, <2>2, <2>4
    <3> QED  BY <1>5, <2>4, <3>1, Assemble
  <2>5. CASE /\ LedgerTo(r, "settled", CostOf(r, chunk[r])) /\ r \in open /\ r \notin open'
             /\ CostOf(r, chunk[r]) \in Nat /\ CostOf(r, chunk[r]) <= res[r].amount
    <3>1. CostOf(r, chunk[r]) = Price(r, chunk[r])  BY <1>2, <2>5, CostIsPrice
    <3>2. Owes(r, charged[r])'  BY <1>6, <2>2, <2>5, <3>1 DEF Owes
    <3>3. res[r] # None /\ res[r].key \in DOMAIN Ceiling  BY <2>5, OpenType
    <3>4. fate'[r] = "settled" /\ charged'[r] = CostOf(r, chunk[r])  BY <2>5
    <3>5. Booked(r)'  BY <1>6, <2>5, <3>3, <3>4
    <3>6. Placed(r)'  BY <1>1, <1>6, <2>2, <2>5, <3>3, <3>4 DEF Leaks
    <3>7. Unsettled(r)' /\ Paid(r)'  BY <2>2, <3>2
    <3>8. Good(r)'  BY <3>5, <3>6, <3>7
    <3> QED  BY <1>5, <2>5, <3>8, Assemble
  <2> QED  BY <1>2, <2>1, <2>3, <2>4, <2>5, SettleTo
<1> QED  BY <1>8, <1>9

LEMMA StreamVanishesStep ==
  ASSUME Basic, NEW r \in Requests, Good(r), StreamVanishes(r)
  PROVE  Moves(r)
<1>1. "vanished" \in Outcomes  BY DEF Outcomes
<1>2. /\ stage[r] = "unstarted" /\ Leave(r, "vanished") /\ UNCHANGED ledgerVars
      /\ UNCHANGED upstreamVars
  BY DEF StreamVanishes
<1>3. /\ HandlerTo(r)
      /\ stage'[r] = "done" /\ status'[r] = status[r] /\ outcome'[r] = "vanished"
      /\ res'[r] = res[r] /\ settled'[r] = settled[r] /\ chunk'[r] = None
      /\ owed'[r] = owed[r]
  BY <1>1, <1>2, LeaveTo
<1>4. LedgerTo(r, fate[r], charged[r]) /\ (r \in open' <=> r \in open)
  BY <1>2, LedgerRests
<1>5. Good(r)'
  BY <1>2, <1>3, <1>4
     DEF Good, Booked, Placed, Unsettled, Paid, Leaks, Owes, LedgerTo, InFlight, Suspended
<1> QED  BY <1>3, <1>4, <1>5, Assemble

\* The ends by which the reservation is given back: an upstream that fails or
\* answers with an error, and a client that is gone at a yield.
LEMMA StreamGivesBackStep ==
  ASSUME Basic, NEW r \in Requests, Good(r),
         StreamFails(r) \/ StreamClosed(r) \/ StreamErrorRead(r)
  PROVE  Moves(r)
<1>1. PICK how \in {"failed", "gone"} : Leave(r, how)
  BY DEF StreamFails, StreamClosed, StreamErrorRead, Except
<1>2. how \in Outcomes  BY DEF Outcomes
<1>3. stage[r] \in InFlight /\ UNCHANGED upstreamVars
  BY DEF StreamFails, StreamClosed, StreamErrorRead, InFlight, Suspended
<1>4. Release(r) \/ (settled[r] /\ UNCHANGED ledgerVars)
  BY DEF StreamFails, StreamClosed, StreamErrorRead, Except
<1>5. /\ HandlerTo(r)
      /\ stage'[r] = "done" /\ outcome'[r] = how /\ res'[r] = res[r]
      /\ settled'[r] = settled[r] /\ chunk'[r] = None /\ owed'[r] = owed[r]
  BY <1>1, <1>2, <1>3, LeaveTo
<1> QED  BY <1>3, <1>4, <1>5, GivenBackAndDone

\* The ends by which it is settled: what no clause catches, a body that is not
\* encoded among it, a cancelled await, and the end of the stream.
LEMMA StreamPaysStep ==
  ASSUME Basic, NEW r \in Requests, Good(r),
         StreamUnsent(r) \/ StreamBreaks(r) \/ StreamCancelled(r) \/ StreamEnds(r)
  PROVE  Moves(r)
<1>1. PICK how \in {"broken", "gone", "served", "unsent"} :
        Finally(r, how) /\ (how = "served" => stage[r] = "reading")
  BY DEF StreamUnsent, StreamBreaks, StreamCancelled, StreamEnds
<1>2. how \in Outcomes  BY DEF Outcomes
<1>3. stage[r] \in InFlight /\ UNCHANGED upstreamVars
  BY DEF StreamUnsent, StreamBreaks, StreamCancelled, StreamEnds, InFlight, Suspended
<1>4. Leave(r, how) /\ IF settled[r] THEN UNCHANGED ledgerVars ELSE Settle(r, Untrusted)
  BY <1>1 DEF Finally
<1>5. /\ HandlerTo(r)
      /\ stage'[r] = "done" /\ outcome'[r] = how /\ res'[r] = res[r]
      /\ settled'[r] = settled[r] /\ chunk'[r] = None /\ owed'[r] = owed[r]
  BY <1>2, <1>3, <1>4, LeaveTo
<1> QED  BY <1>1, <1>3, <1>4, <1>5, SettledAndDone

-------------------------------------------------------------------------------
(* The environment *)

LEMMA SweepStep ==
  ASSUME Basic, NEW r \in Requests, Good(r), Sweep(r)
  PROVE  Moves(r)
<1>1. r \in open /\ GiveBack(r, "swept")  BY DEF Sweep
<1>2. HandlerTo(r)
  BY DEF HandlerTo, Sweep, Basic, HandlerBasic, localVars, upstreamVars
<1>3. PICK f \in {"lost", "swept"} : LedgerTo(r, f, 0) /\ r \notin open'
  BY <1>1, ReleaseTo
<1>4. /\ res' = res /\ stage' = stage /\ settled' = settled /\ chunk' = chunk
      /\ status' = status /\ owed' = owed /\ outcome' = outcome
  BY DEF Sweep, localVars, upstreamVars
<1>5. Good(r)'
  BY <1>1, <1>3, <1>4, OpenType
     DEF Good, Booked, Placed, Unsettled, Paid, Leaks, Owes, Price, LedgerTo, InFlight, Suspended
<1> QED  BY <1>2, <1>3, <1>5, Assemble

-------------------------------------------------------------------------------
(* Every step *)

LEMMA RequestStep ==
  ASSUME Basic, NEW r \in Requests, Good(r), Arrive(r) \/ Handle(r) \/ Sweep(r)
  PROVE  Moves(r)
<1>1. ASSUME NEW q \in Offers,
             \/ RefuseInvalid(r, q) \/ RefuseUnpriced(r, q) \/ RefuseUnknownKey(r, q)
             \/ RefuseUnavailable(r, q) \/ RefuseBudget(r, q)
      PROVE  Moves(r)
  <2>1. PICK code \in Statuses : Refuse(r, code)
    BY <1>1 DEF RefuseInvalid, RefuseUnpriced, RefuseUnknownKey, RefuseUnavailable,
                RefuseBudget, Statuses
  <2> QED  BY <2>1, RefuseStep
<1>2. CASE Arrive(r)  BY <1>1, <1>2, AdmitStep, AdmitUnsentStep DEF Arrive
<1>3. CASE Handle(r)
  BY <1>3, PostEndsStep, PostAnsweredStep, PostOverflowsStep, StreamWaitsStep,
     StreamYieldsStep, StreamResumesStep, StreamVanishesStep, StreamGivesBackStep,
     StreamPaysStep
     DEF Handle
<1> QED  BY <1>2, <1>3, SweepStep

GoodInv == Basic /\ \A r \in Requests : Good(r)

LEMMA GoodInit == Init => GoodInv
<1> SUFFICES ASSUME Init PROVE GoodInv  OBVIOUS
<1>1. Basic
  BY DEF Init, Basic, LedgerBasic, HandlerBasic, Fates, Stages, Statuses, Outcomes
<1>2. \A r \in Requests : Good(r)
  BY DEF Init, Good, Booked, Placed, Unsettled, Paid, Owes, Leaks, InFlight, Suspended
<1> QED  BY <1>1, <1>2 DEF GoodInv

LEMMA GoodStep == GoodInv /\ [Next]_vars => GoodInv'
<1> SUFFICES ASSUME GoodInv, [Next]_vars PROVE GoodInv'  OBVIOUS
<1>1. ASSUME NEW r \in Requests, Moves(r)  PROVE  GoodInv'
  <2>1. Basic' /\ Good(r)'  BY <1>1 DEF Moves
  <2>2. ASSUME NEW s \in Requests, s # r  PROVE  Good(s)'
    BY <1>1, <2>2, GoodStays DEF Moves, GoodInv
  <2>3. \A s \in Requests : Good(s)'  BY <2>1, <2>2
  <2> QED  BY <2>1, <2>3 DEF GoodInv
<1>2. ASSUME NEW r \in Requests, Arrive(r) \/ Handle(r) \/ Sweep(r)  PROVE  GoodInv'
  BY <1>1, <1>2, RequestStep DEF GoodInv
<1>3. ASSUME UNCHANGED <<ledgerVars, localVars, stage, status, upstreamVars, outcome>>,
             down' \in BOOLEAN
      PROVE  GoodInv'
  <2>1. Basic'
    BY <1>3 DEF GoodInv, Basic, LedgerBasic, HandlerBasic, ledgerVars, localVars, upstreamVars
  <2>2. \A s \in Requests : Same(s)
    BY <1>3 DEF Same, ledgerVars, localVars, upstreamVars
  <2>3. \A s \in Requests : Good(s)'  BY <2>2, GoodStays DEF GoodInv
  <2> QED  BY <2>1, <2>3 DEF GoodInv
<1>4. CASE StoreFlips
  BY <1>3, <1>4 DEF StoreFlips, GoodInv, Basic, HandlerBasic
<1>5. CASE UNCHANGED vars
  BY <1>3, <1>5 DEF vars, ledgerVars, localVars, upstreamVars, GoodInv, Basic, HandlerBasic
<1> QED  BY <1>2, <1>4, <1>5 DEF Next

\* What a step may do to the money.
Ends(r)   == \E how \in Fates \ {"none"} : \E c \in Nat : Ended(r, how, c)
Admits(r) == \E q \in Offers : Reserve(r, q)
Quiet     == UNCHANGED <<ledgerVars, res>>

LEMMA MoneyStep ==
  ASSUME GoodInv, [Next]_vars
  PROVE  Quiet \/ \E r \in Requests : Admits(r) \/ (Ends(r) /\ res' = res)
<1> USE DEF GoodInv
<1>1. ASSUME NEW r \in Requests, NEW u \in Chunks, Settle(r, u)
      PROVE  UNCHANGED ledgerVars \/ Ends(r)
  BY <1>1, SettleEnds, CostType DEF Ends, Fates, Ended
<1>2. ASSUME NEW r \in Requests, NEW how \in {"released", "swept"}, GiveBack(r, how)
      PROVE  UNCHANGED ledgerVars \/ Ends(r)
  BY <1>2, GiveBackEnds DEF Ends, Fates
<1>3. Untrusted \in Chunks  BY DEF Chunks, Responses
<1>4. ASSUME NEW r \in Requests, NEW how, Finally(r, how) \/ Except(r, how)
      PROVE  (UNCHANGED ledgerVars \/ Ends(r)) /\ res' = res
  BY <1>1, <1>2, <1>3, <1>4 DEF Finally, Except, Release, Leave
<1>5. ASSUME NEW r \in Requests, PostFails(r) \/ PostRejected(r)
      PROVE  (UNCHANGED ledgerVars \/ Ends(r)) /\ res' = res
  BY <1>2, <1>5 DEF PostFails, PostRejected, Release, Answer, localVars
<1>6. ASSUME NEW r \in Requests, NEW u \in Responses, PostAnswered(r, u) \/ PostOverflows(r, u)
      PROVE  (UNCHANGED ledgerVars \/ Ends(r)) /\ res' = res
  <2>1. u \in Chunks  BY DEF Chunks
  <2> QED  BY <1>1, <1>6, <2>1 DEF PostAnswered, PostOverflows, Answer, localVars
<1>7. ASSUME NEW r \in Requests, StreamResumes(r)
      PROVE  (UNCHANGED ledgerVars \/ Ends(r)) /\ res' = res
  <2>1. chunk[r] \in Chunks  BY <1>7 DEF StreamResumes, Basic, HandlerBasic, Good, Placed
  <2> QED  BY <1>1, <1>7, <2>1 DEF StreamResumes
<1>8. ASSUME NEW r \in Requests,
             \/ StreamVanishes(r) \/ StreamStarts(r) \/ StreamRejected(r) \/ StreamAccepted(r)
             \/ \E u \in Chunks : StreamYields(r, u)
      PROVE  Quiet
  BY <1>8 DEF StreamVanishes, StreamStarts, StreamRejected, StreamAccepted, StreamYields,
              Suspend, Leave, Quiet, ledgerVars
<1>9. ASSUME NEW r \in Requests,
             \/ StreamUnsent(r) \/ StreamFails(r) \/ StreamClosed(r) \/ StreamBreaks(r)
             \/ StreamCancelled(r) \/ StreamEnds(r)
      PROVE  (UNCHANGED ledgerVars \/ Ends(r)) /\ res' = res
  BY <1>4, <1>9 DEF StreamUnsent, StreamFails, StreamClosed, StreamBreaks, StreamCancelled, StreamEnds
<1>10. ASSUME NEW r \in Requests, StreamErrorRead(r)
       PROVE  (UNCHANGED ledgerVars \/ Ends(r)) /\ res' = res
  BY <1>2, <1>10 DEF StreamErrorRead, Release, Leave
<1>11. ASSUME NEW r \in Requests, Handle(r)
       PROVE  (UNCHANGED ledgerVars \/ Ends(r)) /\ res' = res
  BY <1>5, <1>6, <1>7, <1>8, <1>9, <1>10, <1>11 DEF Handle, Quiet
<1>12. ASSUME NEW r \in Requests, Sweep(r)
       PROVE  (UNCHANGED ledgerVars \/ Ends(r)) /\ res' = res
  BY <1>2, <1>12 DEF Sweep, localVars
<1>13. ASSUME NEW r \in Requests, Arrive(r)
       PROVE  Quiet \/ Admits(r)
  BY <1>13 DEF Arrive, Admit, AdmitUnsent, Admits, RefuseInvalid, RefuseUnpriced, RefuseUnknownKey,
     RefuseUnavailable, RefuseBudget, Refuse, Answer, localVars, Quiet
<1>14. CASE StoreFlips  BY <1>14 DEF StoreFlips, localVars, Quiet
<1>15. CASE UNCHANGED vars  BY <1>15 DEF vars, ledgerVars, Quiet
<1> QED  BY <1>11, <1>12, <1>13, <1>14, <1>15 DEF Next, Quiet

-------------------------------------------------------------------------------
(* The sums *)

\* What request r takes up of the store's number for key k.
Share(r, k) ==
  IF res[r] # None /\ res[r].key = k
  THEN charged[r] + (IF fate[r] \in {"none", "lost"} THEN res[r].amount ELSE 0)
  ELSE 0

Shares(k) == [r \in Requests |-> Share(r, k)]

HeldIs   == \A k \in Keys : held[k] = Total(Requests, Shares(k))
HeldFits == \A k \in DOMAIN Ceiling : held[k] <= Ceiling[k]

ProxyInv == GoodInv /\ HeldIs /\ HeldFits

LEMMA ShareType ==
  ASSUME Basic, NEW r \in Requests, NEW k
  PROVE  Share(r, k) \in Nat
<1>1. charged[r] \in Nat  BY DEF Basic, LedgerBasic
<1>2. res[r] # None => res[r].amount \in Nat  BY DEF Basic, HandlerBasic, Reservation
<1> QED  BY <1>1, <1>2 DEF Share

\* One request's share changes, and nobody else's.
LEMMA SharesChange ==
  ASSUME Basic, Basic', NEW r \in Requests, NEW k,
         \A s \in Requests \ {r} :
           res'[s] = res[s] /\ fate'[s] = fate[s] /\ charged'[s] = charged[s]
  PROVE  /\ Total(Requests, Shares(k))' = Total(Requests, Shares(k)) - Share(r, k) + Share(r, k)'
         /\ Share(r, k) <= Total(Requests, Shares(k))
         /\ Total(Requests, Shares(k)) \in Nat
<1> DEFINE v == Shares(k)
           w == Shares(k)'
<1>1. \A s \in Requests : v[s] = Share(s, k) /\ v[s] \in Nat
  BY ShareType DEF Shares
<1>2. \A s \in Requests : w[s] = Share(s, k)' /\ w[s] \in Nat
  <2>1. \A s \in Requests : Share(s, k)' \in Nat
    BY DEF Share, Basic, LedgerBasic, HandlerBasic, Reservation
  <2> QED  BY <2>1 DEF Shares
<1>3. \A s \in Requests \ {r} : v[s] = w[s]
  BY <1>1, <1>2 DEF Share
<1>4. Total(Requests, Shares(k))' = Total(Requests, w)
  BY DEF Total, Units
<1> HIDE DEF v, w
<1>5. Total(Requests, w) = Total(Requests, v) - v[r] + w[r]
  BY <1>1, <1>2, <1>3, TotalUpdate, ProxyAssumption
<1>6. v[r] <= Total(Requests, v) /\ Total(Requests, v) \in Nat
  <2>1. IsFiniteSet(Requests) /\ IsFiniteSet(Requests \ {r})
    BY ProxyAssumption, FS_RemoveElement
  <2>2. Total(Requests \ {r}, v) = Total(Requests, v) - v[r]
    BY <1>1, <2>1, TotalRemove
  <2>3. Total(Requests \ {r}, v) \in Nat /\ Total(Requests, v) \in Nat
    BY <1>1, <2>1, TotalType
  <2>4. v[r] \in Nat  BY <1>1
  <2> QED  BY <2>2, <2>3, <2>4
<1> USE DEF v
<1> QED  BY <1>1, <1>2, <1>4, <1>5, <1>6

LEMMA AdmitMoney ==
  ASSUME ProxyInv, GoodInv', NEW r \in Requests, NEW q \in Offers, Reserve(r, q)
  PROVE  HeldIs' /\ HeldFits'
<1>1. Basic /\ Basic' /\ Good(r)  BY DEF ProxyInv, GoodInv
<1>2. /\ q.key \in DOMAIN Ceiling /\ q.key \in Keys /\ q.cost \in Nat
      /\ [key |-> q.key, amount |-> q.cost] # None
      /\ held[q.key] + q.cost <= Ceiling[q.key]
  BY ProxyAssumption DEF Reserve, Fits
<1>3. held' = [held EXCEPT ![q.key] = held[q.key] + q.cost] /\ held \in [Keys -> Nat]
  BY <1>1 DEF Reserve, Basic, LedgerBasic
<1>4. /\ res'[r] = [key |-> q.key, amount |-> q.cost]
      /\ fate'[r] = "none" /\ charged'[r] = 0 /\ res[r] = None
  BY <1>1 DEF Reserve, Good, Booked, Placed, Basic, HandlerBasic
<1>5. \A s \in Requests \ {r} :
        res'[s] = res[s] /\ fate'[s] = fate[s] /\ charged'[s] = charged[s]
  BY <1>1 DEF Reserve, Basic, HandlerBasic
<1>6. HeldIs'
  <2> SUFFICES ASSUME NEW k \in Keys PROVE held'[k] = Total(Requests, Shares(k))'
    BY DEF HeldIs
  <2>1. Share(r, k) = 0  BY <1>4 DEF Share
  <2>2. Share(r, k)' = IF q.key = k THEN q.cost ELSE 0  BY <1>2, <1>4 DEF Share
  <2>3. /\ Total(Requests, Shares(k))'
             = Total(Requests, Shares(k)) - Share(r, k) + Share(r, k)'
        /\ Total(Requests, Shares(k)) \in Nat
    BY <1>1, <1>5, SharesChange
  <2>4. held[k] = Total(Requests, Shares(k))  BY DEF ProxyInv, HeldIs
  <2>5. held'[k] = IF q.key = k THEN held[k] + q.cost ELSE held[k]  BY <1>3
  <2> QED  BY <1>2, <2>1, <2>2, <2>3, <2>4, <2>5
<1>7. HeldFits'
  BY <1>2, <1>3, ProxyAssumption DEF ProxyInv, HeldFits
<1> QED  BY <1>6, <1>7

LEMMA EndMoney ==
  ASSUME ProxyInv, GoodInv', NEW r \in Requests, NEW how \in Fates \ {"none"}, NEW c \in Nat,
         Ended(r, how, c), res' = res
  PROVE  HeldIs' /\ HeldFits'
<1> DEFINE a == res[r].amount
           j == res[r].key
<1>1. Basic /\ Basic' /\ Good(r) /\ r \in open  BY DEF ProxyInv, GoodInv, Ended
<1>2. /\ res[r] # None /\ j \in Keys /\ a \in Nat
      /\ fate[r] = "none" /\ charged[r] = 0
  BY <1>1, OpenType
<1>3. c <= a /\ (how # "settled" => c = 0)  BY DEF Ended
<1>4. fate'[r] = how /\ charged'[r] = c
      /\ \A s \in Requests \ {r} :
           res'[s] = res[s] /\ fate'[s] = fate[s] /\ charged'[s] = charged[s]
  BY <1>1 DEF Ended, End, Basic, LedgerBasic
<1>5. \A k \in Keys : held[k] = Total(Requests, Shares(k)) /\ held[k] \in Nat
  BY <1>1 DEF ProxyInv, HeldIs, Basic, LedgerBasic
<1>6. Share(r, j) = a /\ \A k \in Keys \ {j} : Share(r, k) = 0
  BY <1>2 DEF Share
<1>7. a <= held[j]
  BY <1>1, <1>2, <1>4, <1>5, <1>6, SharesChange
<1>8. held' = IF how = "lost" THEN held ELSE [held EXCEPT ![j] = Greatest(0, held[j] - (a - c))]
  BY <1>1 DEF Ended, Basic, LedgerBasic
<1>9. /\ held'[j] = IF how = "lost" THEN held[j] ELSE held[j] - (a - c)
      /\ \A k \in Keys \ {j} : held'[k] = held[k]
  <2>1. Greatest(0, held[j] - (a - c)) = held[j] - (a - c)
    BY <1>2, <1>3, <1>5, <1>7 DEF Greatest
  <2>2. held \in [Keys -> Nat]  BY <1>1 DEF Basic, LedgerBasic
  <2> QED  BY <1>2, <1>8, <2>1, <2>2
<1>10. \A k \in Keys : Share(r, k)' = IF k # j THEN 0 ELSE IF how = "lost" THEN a ELSE c
  <2>1. res'[r] = res[r] /\ res[r] # None  BY <1>2
  <2>2. how \in {"settled", "released", "swept", "lost"}  BY DEF Fates
  <2>3. how = "lost" => c = 0  BY <1>3
  <2> QED  BY <1>2, <1>4, <2>1, <2>2, <2>3 DEF Share
<1>11. HeldIs'
  <2> SUFFICES ASSUME NEW k \in Keys PROVE held'[k] = Total(Requests, Shares(k))'
    BY DEF HeldIs
  <2>1. Total(Requests, Shares(k))'
          = Total(Requests, Shares(k)) - Share(r, k) + Share(r, k)'
    BY <1>1, <1>4, SharesChange
  <2>2. CASE k = j
    <3>1. Share(r, k) = a /\ Share(r, k)' = IF how = "lost" THEN a ELSE c
      BY <1>6, <1>10, <2>2
    <3>2. held'[k] = IF how = "lost" THEN held[k] ELSE held[k] - (a - c)
      BY <1>9, <2>2
    <3> HIDE DEF a, j
    <3> QED  BY <1>2, <1>3, <1>5, <2>1, <3>1, <3>2
  <2>3. CASE k # j
    <3>1. Share(r, k) = 0 /\ Share(r, k)' = 0 /\ held'[k] = held[k]
      BY <1>6, <1>9, <1>10, <2>3
    <3> QED  BY <1>5, <2>1, <3>1
  <2> QED  BY <2>2, <2>3
<1>12. HeldFits'
  <2> SUFFICES ASSUME NEW k \in DOMAIN Ceiling PROVE held'[k] <= Ceiling[k]
    BY DEF HeldFits
  <2>1. k \in Keys /\ Ceiling[k] \in Nat /\ held[k] <= Ceiling[k] /\ held[k] \in Nat
    BY <1>5, ProxyAssumption DEF ProxyInv, HeldFits
  <2>2. held'[k] <= held[k]
    <3> HIDE DEF a, j
    <3> QED  BY <1>2, <1>3, <1>9, <2>1
  <2>3. held'[k] \in Nat  BY <1>1, <2>1 DEF Basic, LedgerBasic
  <2> QED  BY <2>1, <2>2, <2>3
<1> QED  BY <1>11, <1>12

LEMMA ProxyInit == Init => ProxyInv
<1> SUFFICES ASSUME Init PROVE ProxyInv  OBVIOUS
<1>1. GoodInv  BY GoodInit
<1>2. HeldIs
  <2> SUFFICES ASSUME NEW k \in Keys PROVE held[k] = Total(Requests, Shares(k))
    BY DEF HeldIs
  <2>1. \A r \in Requests : Shares(k)[r] = 0  BY DEF Init, Shares, Share
  <2>2. Total({}, Shares(k)) = Total(Requests, Shares(k))  BY <2>1, TotalRestrict
  <2> QED  BY <2>2, TotalEmpty DEF Init
<1>3. HeldFits  BY ProxyAssumption DEF Init, HeldFits
<1> QED  BY <1>1, <1>2, <1>3 DEF ProxyInv

LEMMA ProxyStep == ProxyInv /\ [Next]_vars => ProxyInv'
<1> SUFFICES ASSUME ProxyInv, [Next]_vars PROVE ProxyInv'  OBVIOUS
<1>1. GoodInv'  BY GoodStep DEF ProxyInv
<1>2. CASE Quiet
  <2>1. HeldFits'  BY <1>2 DEF Quiet, ledgerVars, ProxyInv, HeldFits
  <2>2. HeldIs'
    BY <1>2 DEF Quiet, ledgerVars, ProxyInv, HeldIs, Shares, Share, Total, Units
  <2> QED  BY <1>1, <2>1, <2>2 DEF ProxyInv
<1>3. ASSUME NEW r \in Requests, Admits(r)  PROVE  ProxyInv'
  BY <1>1, <1>3, AdmitMoney DEF Admits, ProxyInv
<1>4. ASSUME NEW r \in Requests, Ends(r), res' = res  PROVE  ProxyInv'
  BY <1>1, <1>4, EndMoney DEF Ends, ProxyInv
<1>5. GoodInv  BY DEF ProxyInv
<1> QED  BY <1>2, <1>3, <1>4, <1>5, MoneyStep

LEMMA ProxyInvariant == Spec => []ProxyInv
BY ProxyInit, ProxyStep, PTL DEF Spec

-------------------------------------------------------------------------------
(* Theorems *)

\* Every variable has its type, an open reservation was made and has not ended,
\* and a chunk is in hand exactly at a yield.
THEOREM TypeCorrect == Spec => []TypeOK
<1>1. ProxyInv => TypeOK
  <2> SUFFICES ASSUME ProxyInv PROVE TypeOK  OBVIOUS
  <2>1. Basic /\ \A r \in Requests : Good(r)  BY DEF ProxyInv, GoodInv
  <2>2. open \subseteq {r \in Requests : res[r] # None /\ fate[r] = "none"}
    BY <2>1, OpenType DEF Basic, LedgerBasic
  <2>3. \A r \in Requests : chunk[r] # None <=> stage[r] = "yielded"
    BY <2>1 DEF Good, Placed
  <2> QED
    BY <2>1, <2>2, <2>3
       DEF TypeOK, Basic, LedgerBasic, HandlerBasic, Fates, Reservation, Stages, Statuses,
           Outcomes
<1> QED  BY <1>1, ProxyInvariant, PTL

\* The shares of a key's requests, taken apart into charges and reservations.
LEMMA SharesApart ==
  ASSUME GoodInv, NEW k \in Keys
  PROVE  Total(Requests, Shares(k))
           = Total(Of(k), charged) + Total(Outstanding(k), Amounts)
<1> DEFINE w == Shares(k)
           O == Outstanding(k)
           P == Requests \ O
<1>1. Basic /\ \A r \in Requests : Good(r)  BY DEF GoodInv
<1>2. \A r \in Requests : w[r] = Share(r, k) /\ w[r] \in Nat
  BY <1>1, ShareType DEF Shares
<1>3. Of(k) \subseteq Requests /\ O \subseteq Of(k)  BY DEF Of, Outstanding
<1>4. \A r \in O : charged[r] = 0  BY <1>1 DEF Outstanding, Of, Good, Booked
<1>5. Total(O, w) = Total(O, Amounts)
  <2>1. \A r \in O : w[r] = Amounts[r]
    <3> SUFFICES ASSUME NEW r \in O PROVE w[r] = Amounts[r]  OBVIOUS
    <3>1. res[r] # None /\ res[r].key = k /\ fate[r] \in {"none", "lost"} /\ r \in Requests
      BY DEF Outstanding, Of
    <3>2. res[r].amount \in Nat  BY <1>1, <3>1 DEF Basic, HandlerBasic, Reservation
    <3> QED  BY <1>2, <1>4, <3>1, <3>2 DEF Share, Amounts
  <2> HIDE DEF O, w
  <2> QED  BY <2>1, TotalSame
<1>6. Total(Of(k) \ O, charged) = Total(P, w)
  <2>1. \A r \in Of(k) \ O : charged[r] = w[r]
    BY <1>1, <1>2 DEF Outstanding, Of, Share, Basic, LedgerBasic
  <2>2. \A r \in P \ (Of(k) \ O) : w[r] = 0  BY <1>2 DEF Of, Share
  <2>3. Of(k) \ O \subseteq P  BY <1>3
  <2> HIDE DEF O, w, P
  <2> QED  BY <2>1, <2>2, <2>3, TotalRestrict
<1>7. Total(Of(k) \ O, charged) = Total(Of(k), charged)
  <2>1. \A r \in Of(k) \ (Of(k) \ O) : charged[r] = 0  BY <1>4
  <2>2. Of(k) \ O \subseteq Of(k)  OBVIOUS
  <2> HIDE DEF O
  <2> QED  BY <2>1, <2>2, TotalRestrict
<1>8. Total(Requests, w) = Total(O, w) + Total(P, w)
  <2>1. O \subseteq Requests /\ P \subseteq Requests /\ O \cap P = {}  BY <1>3
  <2>2. Units(Requests, w) = Units(O, w) \cup Units(P, w)  BY <2>1 DEF Units
  <2>3. Units(O, w) \cap Units(P, w) = {}  BY <2>1 DEF Units
  <2>4. IsFiniteSet(O) /\ IsFiniteSet(P)  BY <2>1, ProxyAssumption, FS_Subset
  <2>5. IsFiniteSet(Units(O, w)) /\ IsFiniteSet(Units(P, w))
    <3>1. (\A r \in O : w[r] \in Nat) /\ (\A r \in P : w[r] \in Nat)  BY <1>2, <2>1
    <3> HIDE DEF O, P, w
    <3> QED  BY <2>4, <3>1, UnitsFinite
  <2>6. Cardinality(Units(O, w) \cap Units(P, w)) = 0  BY <2>3, FS_EmptySet
  <2>7. Cardinality(Units(O, w)) \in Nat /\ Cardinality(Units(P, w)) \in Nat
    BY <2>5, FS_CardinalityType
  <2> HIDE DEF O, P, w
  <2>8. Cardinality(Units(O, w) \cup Units(P, w))
          = Cardinality(Units(O, w)) + Cardinality(Units(P, w))
              - Cardinality(Units(O, w) \cap Units(P, w))
    BY <2>5, FS_Union
  <2> QED  BY <2>2, <2>6, <2>7, <2>8 DEF Total
<1>9. Total(Requests, w) = Total(Of(k), charged) + Total(O, Amounts)
  <2>1. Total(Of(k), charged) = Total(P, w)  BY <1>6, <1>7
  <2>2. Total(P, w) \in Nat /\ Total(O, w) \in Nat
    <3>1. O \subseteq Requests /\ P \subseteq Requests  BY <1>3
    <3>2. IsFiniteSet(O) /\ IsFiniteSet(P)  BY <3>1, ProxyAssumption, FS_Subset
    <3>3. (\A r \in O : w[r] \in Nat) /\ (\A r \in P : w[r] \in Nat)  BY <1>2, <3>1
    <3> HIDE DEF O, P, w
    <3> QED  BY <3>2, <3>3, TotalType
  <2> HIDE DEF O, P, w
  <2> QED  BY <1>5, <1>8, <2>1, <2>2
<1> QED  BY <1>9

LEMMA HeldIsExact == ProxyInv => HeldExact
BY SharesApart DEF ProxyInv, HeldIs, HeldExact

\* The store's number is always what requests were charged and what was never
\* given back, however their handlers were interrupted.
THEOREM HeldExactTheorem == Spec => []HeldExact
BY HeldIsExact, ProxyInvariant, PTL

\* The ceiling: what was charged and what is reserved for requests in flight fit
\* under it, whatever the clients, the upstream and the store do.
THEOREM CeilingTheorem == Spec => []CeilingHolds
<1>1. ProxyInv => CeilingHolds
  <2> SUFFICES ASSUME ProxyInv, NEW k \in DOMAIN Ceiling
               PROVE  Total(Of(k), charged) + Total(Of(k) \cap open, Amounts) <= Ceiling[k]
    BY DEF CeilingHolds
  <2>1. k \in Keys /\ Ceiling[k] \in Nat /\ held[k] <= Ceiling[k]
    BY ProxyAssumption DEF ProxyInv, HeldFits
  <2>2. Basic /\ \A r \in Requests : Good(r)  BY DEF ProxyInv, GoodInv
  <2>3. held[k] = Total(Of(k), charged) + Total(Outstanding(k), Amounts)
    BY <2>1, HeldIsExact DEF HeldExact
  <2>4. Of(k) \cap open \subseteq Outstanding(k)
    BY <2>2, OpenType DEF Of, Outstanding
  <2>5. /\ Of(k) \subseteq Requests /\ Outstanding(k) \subseteq Requests
        /\ IsFiniteSet(Of(k)) /\ IsFiniteSet(Outstanding(k)) /\ IsFiniteSet(Of(k) \cap open)
    <3>1. Of(k) \subseteq Requests /\ Outstanding(k) \subseteq Requests  BY DEF Of, Outstanding
    <3> QED  BY <3>1, ProxyAssumption, FS_Subset
  <2>6. /\ \A r \in Requests : Amounts[r] \in Nat
        /\ \A r \in Requests : charged[r] \in Nat
    BY <2>2 DEF Amounts, Basic, LedgerBasic, HandlerBasic, Reservation
  <2>7. Total(Of(k) \cap open, Amounts) <= Total(Outstanding(k), Amounts)
    BY <2>4, <2>5, <2>6, TotalMonotone
  <2>8. /\ Total(Of(k) \cap open, Amounts) \in Nat /\ Total(Outstanding(k), Amounts) \in Nat
        /\ Total(Of(k), charged) \in Nat
    BY <2>5, <2>6, TotalType
  <2> QED  BY <2>1, <2>3, <2>7, <2>8
<1> QED  BY <1>1, ProxyInvariant, PTL

\* No request in flight is on credit: its reservation is held until its cost is
\* known, unless a sweep gave it back.
THEOREM InFlightBackedTheorem == Spec => []InFlightBacked
<1>1. ProxyInv => InFlightBacked
  BY DEF ProxyInv, GoodInv, InFlightBacked, Good, Booked, Placed, Unsettled
<1> QED  BY <1>1, ProxyInvariant, PTL

\* A served request is never given back, and is charged what a usage block it was
\* sent says, or its whole reservation when that cannot be trusted or there is none.
THEOREM ServedIsChargedTheorem == Spec => []ServedIsCharged
<1>1. ProxyInv => ServedIsCharged
  <2> SUFFICES ASSUME ProxyInv, NEW r \in Requests, outcome[r] = "served"
               PROVE  fate[r] # "released" /\ (fate[r] = "settled" => Owes(r, charged[r]))
    BY DEF ServedIsCharged
  <2>1. Placed(r) /\ Paid(r)  BY DEF ProxyInv, GoodInv, Good
  <2> QED  BY <2>1 DEF Placed, Paid
<1> QED  BY <1>1, ProxyInvariant, PTL

\* Only the three named leaks leave a reservation behind a request that is over.
THEOREM NoOrphansTheorem == Spec => []NoOrphans
<1>1. ProxyInv => NoOrphans
  <2> SUFFICES ASSUME ProxyInv, NEW r \in open, stage[r] = "done" PROVE Leaks(r)
    BY DEF NoOrphans
  <2>1. r \in Requests  BY DEF ProxyInv, GoodInv, Basic, LedgerBasic
  <2>2. Placed(r)  BY <2>1 DEF ProxyInv, GoodInv, Good
  <2> QED  BY <2>2 DEF Placed
<1> QED  BY <1>1, ProxyInvariant, PTL

-------------------------------------------------------------------------------
(* Where a reservation may be left, and that it ends once *)

\* What is left open behind a request that is over was left by a generator that
\* never ran, a request that could not be encoded or a response that could not be
\* costed, and only where these faults occur.
Causes ==
  \A r \in Requests : stage[r] = "done" /\ r \in open =>
    \/ outcome[r] = "vanished" /\ "unstarted" \in Faults
    \/ outcome[r] = "unsent" /\ "unencodable" \in Faults
    \/ outcome[r] = "served" /\ "overflow" \in Faults

\* A call of the ledger about r leaves it closed.
LEMMA Closed ==
  ASSUME NEW r, NEW u, NEW how, Settle(r, u) \/ GiveBack(r, how)
  PROVE  r \notin open' /\ open' \subseteq open
BY DEF Settle, GiveBack, Lose, End, ledgerVars

LEMMA CausesStep ==
  ASSUME GoodInv, Causes, [Next]_vars
  PROVE  Causes'
<1>0. /\ stage \in [Requests -> Stages] /\ outcome \in [Requests -> Outcomes]
      /\ \A r \in Requests : Booked(r) /\ Placed(r)
  BY DEF GoodInv, Basic, HandlerBasic, Good
<1>1. ASSUME NEW r \in Requests,
             \A s \in Requests \ {r} : stage'[s] = stage[s] /\ outcome'[s] = outcome[s],
             open' \subseteq open \cup {r},
             \/ stage'[r] # "done" \/ r \notin open'
             \/ outcome'[r] = "vanished" /\ "unstarted" \in Faults
             \/ outcome'[r] = "unsent" /\ "unencodable" \in Faults
             \/ outcome'[r] = "served" /\ "overflow" \in Faults
      PROVE  Causes'
  BY <1>1 DEF Causes
<1>2. ASSUME UNCHANGED <<stage, outcome>>, open' \subseteq open
      PROVE  Causes'
  BY <1>2 DEF Causes
<1>3. ASSUME NEW r \in Requests, NEW how, Leave(r, how)
      PROVE  /\ \A s \in Requests \ {r} : stage'[s] = stage[s] /\ outcome'[s] = outcome[s]
             /\ outcome'[r] = how
  BY <1>0, <1>3 DEF Leave
<1>4. ASSUME NEW r \in Requests, NEW code, NEW how, Answer(r, code, how)
      PROVE  /\ \A s \in Requests \ {r} : stage'[s] = stage[s] /\ outcome'[s] = outcome[s]
             /\ outcome'[r] = how
  BY <1>0, <1>4 DEF Answer
<1>5. ASSUME NEW r \in Requests, Arrive(r)
      PROVE  Causes'
  <2>1. ASSUME NEW code, Refuse(r, code)  PROVE  Causes'
    <3>1. stage[r] = "new" /\ Answer(r, code, "refused") /\ open' = open
      BY <2>1 DEF Refuse, ledgerVars
    <3>2. r \notin open'  BY <1>0, <3>1 DEF Placed, Booked
    <3> QED  BY <1>1, <1>4, <3>1, <3>2
  <2>2. ASSUME NEW q \in Offers, Admit(r, q)  PROVE  Causes'
    <3>1. /\ \A s \in Requests \ {r} : stage'[s] = stage[s] /\ outcome'[s] = outcome[s]
          /\ stage'[r] # "done" /\ open' \subseteq open \cup {r}
      BY <1>0, <2>2 DEF Admit, Reserve
    <3> QED  BY <1>1, <3>1
  <2>3. ASSUME NEW q \in Offers, AdmitUnsent(r, q)  PROVE  Causes'
    <3>1. /\ \A s \in Requests \ {r} : stage'[s] = stage[s] /\ outcome'[s] = outcome[s]
          /\ outcome'[r] = "unsent" /\ "unencodable" \in Faults /\ open' \subseteq open \cup {r}
      BY <1>0, <2>3 DEF AdmitUnsent, Reserve
    <3> QED  BY <1>1, <3>1
  <2> QED
    BY <1>5, <2>1, <2>2, <2>3 DEF Arrive, RefuseInvalid, RefuseUnpriced, RefuseUnknownKey,
       RefuseUnavailable, RefuseBudget
<1>6. ASSUME NEW r \in Requests, NEW how, Finally(r, how) \/ Except(r, how)
      PROVE  Causes'
  <2>1. r \notin open' /\ open' \subseteq open
    <3>1. CASE settled[r]
      BY <1>0, <1>6, <3>1 DEF Finally, Except, Placed, ledgerVars
    <3>2. CASE ~settled[r]
      BY <1>6, <3>2, Closed DEF Finally, Except, Release
    <3> QED  BY <3>1, <3>2
  <2>2. Leave(r, how)  BY <1>6 DEF Finally, Except
  <2> QED  BY <1>1, <1>3, <2>1, <2>2
<1>7. ASSUME NEW r \in Requests, PostFails(r) \/ PostRejected(r)
      PROVE  Causes'
  <2>1. PICK code : Answer(r, code, "failed")  BY <1>7 DEF PostFails, PostRejected
  <2>2. r \notin open' /\ open' \subseteq open
    BY <1>7, Closed DEF PostFails, PostRejected, Release
  <2> QED  BY <1>1, <1>4, <2>1, <2>2
<1>8. ASSUME NEW r \in Requests, NEW u \in Responses, PostAnswered(r, u)
      PROVE  Causes'
  <2>1. Answer(r, "ok", "served") /\ Settle(r, u)  BY <1>8 DEF PostAnswered
  <2>2. r \notin open' /\ open' \subseteq open  BY <2>1, Closed
  <2> QED  BY <1>1, <1>4, <2>1, <2>2
<1>9. ASSUME NEW r \in Requests, NEW u \in Responses, PostOverflows(r, u)
      PROVE  Causes'
  <2>1. Answer(r, "crash", "served") /\ open' = open /\ u.kind = "overflow"
    BY <1>9 DEF PostOverflows, ledgerVars
  <2>2. "overflow" \in Faults
    BY <2>1 DEF Responses, Priced, Untrusted, Overflow
  <2> QED  BY <1>1, <1>4, <2>1, <2>2
<1>10. ASSUME NEW r \in Requests, NEW s \in Stages \ {"done"}, Suspend(r, s)
       PROVE  Causes'
  <2>1. /\ \A q \in Requests \ {r} : stage'[q] = stage[q] /\ outcome'[q] = outcome[q]
        /\ stage'[r] # "done" /\ open' = open
    BY <1>0, <1>10 DEF Suspend, ledgerVars
  <2> QED  BY <1>1, <2>1
<1>11. ASSUME NEW r \in Requests,
              \/ StreamStarts(r) \/ StreamRejected(r) \/ StreamAccepted(r)
              \/ \E u \in Chunks : StreamYields(r, u)
       PROVE  Causes'
  <2>1. \E s \in Stages \ {"done"} : Suspend(r, s)
    BY <1>11 DEF StreamStarts, StreamRejected, StreamAccepted, StreamYields, Stages, InFlight,
                 Suspended
  <2> QED  BY <1>10, <2>1
<1>12. ASSUME NEW r \in Requests, StreamVanishes(r)
       PROVE  Causes'
  <2>1. Leave(r, "vanished") /\ open' = open /\ "unstarted" \in Faults
    BY <1>12 DEF StreamVanishes, ledgerVars
  <2> QED  BY <1>1, <1>3, <2>1
<1>13. ASSUME NEW r \in Requests, StreamErrorRead(r)
       PROVE  Causes'
  <2>1. Leave(r, "failed") /\ Release(r)  BY <1>13 DEF StreamErrorRead
  <2>2. r \notin open' /\ open' \subseteq open  BY <2>1, Closed DEF Release
  <2> QED  BY <1>1, <1>3, <2>1, <2>2
<1>14. ASSUME NEW r \in Requests, StreamResumes(r)
       PROVE  Causes'
  <2>1. open' \subseteq open  BY <1>14, Closed DEF StreamResumes, ledgerVars
  <2>2. /\ \A s \in Requests \ {r} : stage'[s] = stage[s] /\ outcome'[s] = outcome[s]
        /\ stage'[r] # "done"
    BY <1>0, <1>14 DEF StreamResumes
  <2> QED  BY <1>1, <2>1, <2>2
<1>15. ASSUME NEW r \in Requests,
              \/ StreamUnsent(r) \/ StreamFails(r) \/ StreamClosed(r) \/ StreamBreaks(r)
              \/ StreamCancelled(r) \/ StreamEnds(r)
       PROVE  Causes'
  BY <1>6, <1>15 DEF StreamUnsent, StreamFails, StreamClosed, StreamBreaks, StreamCancelled, StreamEnds
<1>16. ASSUME NEW r \in Requests, Handle(r)
       PROVE  Causes'
  BY <1>7, <1>8, <1>9, <1>11, <1>12, <1>13, <1>14, <1>15, <1>16 DEF Handle
<1>17. ASSUME NEW r \in Requests, Sweep(r)
       PROVE  Causes'
  BY <1>2, <1>17, Closed DEF Sweep
<1>18. CASE StoreFlips  BY <1>2, <1>18 DEF StoreFlips, ledgerVars
<1>19. CASE UNCHANGED vars  BY <1>2, <1>19 DEF vars
<1> QED  BY <1>5, <1>16, <1>17, <1>18, <1>19 DEF Next

LEMMA CausesInvariant == Spec => []Causes
<1>1. Init => Causes  BY DEF Init, Causes
<1>2. ProxyInv /\ Causes /\ [Next]_vars => Causes'  BY CausesStep DEF ProxyInv
<1> QED  BY <1>1, <1>2, ProxyInvariant, PTL DEF Spec

\* The docstring of _stream is right under a server that runs the generator of
\* every stream it was handed: however else a client goes away, its reservation
\* does not stay held.
THEOREM DisconnectTheorem ==
  ASSUME "unstarted" \notin Faults
  PROVE  Spec => []DisconnectFrees
<1>1. ProxyInv /\ Causes => DisconnectFrees
  <2> SUFFICES ASSUME ProxyInv, Causes, NEW r \in Requests, outcome[r] \in {"gone", "vanished"},
                      r \in open
               PROVE  FALSE
    BY DEF DisconnectFrees
  <2>1. stage[r] = "done"  BY DEF ProxyInv, GoodInv, Good, Placed
  <2> QED  BY <2>1 DEF Causes
<1> QED  BY <1>1, CausesInvariant, ProxyInvariant, PTL

\* Without that, with bodies that httpx encodes and without a usage block whose
\* count is infinite, no reservation outlives its request, with the store failing, the
\* upstream failing, clients going away and sweeps.
NothingLeaks == \A r \in open : stage[r] # "done"

THEOREM NothingLeaksTheorem ==
  ASSUME "unstarted" \notin Faults, "unencodable" \notin Faults, "overflow" \notin Faults
  PROVE  Spec => []NothingLeaks
<1>1. ProxyInv /\ Causes => NothingLeaks
  BY DEF ProxyInv, GoodInv, Basic, LedgerBasic, Causes, NothingLeaks
<1> QED  BY <1>1, CausesInvariant, ProxyInvariant, PTL

\* A reservation ends once: a handler that wakes after a sweep, or a sweep that
\* comes after the handler, changes neither how it ended nor what was charged.
THEOREM EndsOnceTheorem == Spec => EndsOnce
<1> DEFINE Final == \A r \in Requests : fate[r] # "none" =>
                      fate'[r] = fate[r] /\ charged'[r] = charged[r]
<1>1. ProxyInv /\ [Next]_vars => Final
  <2> SUFFICES ASSUME ProxyInv, [Next]_vars PROVE Final  OBVIOUS
  <2>1. GoodInv  BY DEF ProxyInv
  <2>2. CASE Quiet  BY <2>2 DEF Quiet, ledgerVars
  <2>3. CASE \E r \in Requests : Admits(r)  BY <2>3 DEF Admits, Reserve
  <2>4. ASSUME NEW r \in Requests, Ends(r)  PROVE Final
    <3>1. PICK how \in Fates, c \in Nat : r \in open /\ End(r, how, c)
      BY <2>4 DEF Ends, Ended
    <3>2. fate[r] = "none"  BY <2>1, <3>1 DEF GoodInv, Good, Booked
    <3>3. \A s \in Requests \ {r} : fate'[s] = fate[s] /\ charged'[s] = charged[s]
      BY <2>1, <3>1 DEF End, GoodInv, Basic, LedgerBasic
    <3> QED  BY <3>2, <3>3
  <2> QED  BY <2>1, <2>2, <2>3, <2>4, MoneyStep
<1> QED  BY <1>1, ProxyInvariant, PTL DEF Spec, EndsOnce

-------------------------------------------------------------------------------
(* Refinement *)

Spent == [k \in Keys |-> Total(Of(k), charged)]

\* Under the mapping a hold of Budget is a reservation that has not been charged
\* or given back; one that a failing store has lost is still held.
LEMMA MappedHold ==
  ASSUME Basic, NEW r \in Requests
  PROVE  /\ AbstractHold[r] = IF fate[r] \in {"none", "lost"} THEN res[r] ELSE None
         /\ res[r] # None => res[r].amount \in Nat /\ res[r].key \in Keys
BY DEF AbstractHold, Basic, HandlerBasic, Reservation

\* What Budget calls the used part of a key is the number in the store.
LEMMA MappedUsed ==
  ASSUME ProxyInv, NEW k \in Keys
  PROVE  Abstract!Used(k) = held[k]
<1>1. Basic  BY DEF ProxyInv, GoodInv
<1>2. Abstract!HoldsOf(k) = Outstanding(k)
  BY <1>1, MappedHold DEF Abstract!HoldsOf, Outstanding, Of
<1>3. \A r \in Outstanding(k) : Abstract!HoldAmount[r] = Amounts[r]
  BY <1>1, MappedHold DEF Abstract!HoldAmount, Amounts, Outstanding, Of
<1>4. Total(Outstanding(k), Abstract!HoldAmount) = Total(Outstanding(k), Amounts)
  BY <1>3, TotalSame
<1>5. Abstract!Total(Abstract!HoldsOf(k), Abstract!HoldAmount)
        = Total(Outstanding(k), Amounts)
  <2>1. Abstract!Units(Outstanding(k), Abstract!HoldAmount)
          = Units(Outstanding(k), Abstract!HoldAmount)
    BY DEF Abstract!Units, Units
  <2>2. \A S : Abstract!Cardinality(S) = Cardinality(S)
    BY DEF Abstract!Cardinality, Cardinality
  <2> QED  BY <1>2, <1>4, <2>1, <2>2 DEF Abstract!Total, Total
<1>6. Abstract!Used(k) = Total(Of(k), charged) + Total(Outstanding(k), Amounts)
  BY <1>5 DEF Abstract!Used
<1> QED  BY <1>6, HeldIsExact DEF HeldExact

LEMMA RefinesInit == Init => Abstract!BudgetInit
<1> SUFFICES ASSUME Init PROVE Abstract!BudgetInit  OBVIOUS
<1>1. \A k \in Keys : Of(k) = {}  BY DEF Init, Of
<1>2. Spent = [k \in Keys |-> 0]  BY <1>1, TotalEmpty DEF Spent
<1> QED  BY <1>2 DEF Init, Abstract!BudgetInit, AbstractHold, Spent

\* Nothing is spent by a step that charges nobody.
LEMMA SpentStays ==
  ASSUME GoodInv, \A r \in Requests : charged'[r] = charged[r],
         \A r \in Requests : res[r] # None => res'[r] = res[r],
         \A r \in Requests : res[r] = None => charged[r] = 0
  PROVE  Spent' = Spent
<1>1. ASSUME NEW k \in Keys  PROVE  Total(Of(k), charged)' = Total(Of(k), charged)
  <2>1. Of(k) \subseteq Of(k)'  BY <1>1 DEF Of
  <2>2. \A r \in Of(k) : charged[r] = charged'[r]  BY DEF Of
  <2>3. \A r \in Of(k)' \ Of(k) : charged'[r] = 0  BY DEF Of
  <2>4. Total(Of(k), charged) = Total(Of(k)', charged')  BY <2>1, <2>2, <2>3, TotalRestrict
  <2> QED  BY <2>4 DEF Total, Units
<1> QED  BY <1>1 DEF Spent

LEMMA AdmitRefines ==
  ASSUME ProxyInv, NEW r \in Requests, NEW q \in Offers, Reserve(r, q)
  PROVE  Abstract!BudgetNext
<1> DEFINE new == [key |-> q.key, amount |-> q.cost]
<1>1. Basic /\ GoodInv /\ \A s \in Requests : Good(s)  BY DEF ProxyInv, GoodInv
<1>2. /\ q.key \in DOMAIN Ceiling /\ q.key \in Keys /\ q.cost \in Nat
      /\ Ceiling[q.key] \in Nat /\ held[q.key] + q.cost <= Ceiling[q.key]
  BY ProxyAssumption DEF Reserve, Fits
<1>3. /\ res' = [res EXCEPT ![r] = new] /\ charged' = charged /\ fate' = fate
      /\ res[r] = None /\ fate[r] = "none" /\ res \in [Requests -> Reservation \cup {None}]
  BY <1>1 DEF Reserve, Good, Booked, Placed, Basic, HandlerBasic
<1>4. Spent' = Spent
  <2>1. \A s \in Requests : res[s] # None => res'[s] = res[s]  BY <1>3
  <2>2. \A s \in Requests : res[s] = None => charged[s] = 0  BY <1>1 DEF Good, Booked
  <2> QED  BY <1>1, <1>3, <2>1, <2>2, SpentStays
<1>5. AbstractHold[r] = None  BY <1>3 DEF AbstractHold
<1>6. AbstractHold' = [AbstractHold EXCEPT ![r] = new]
  <2> HIDE DEF new
  <2> QED  BY <1>3 DEF AbstractHold
<1>7. Abstract!Used(q.key) + q.cost <= Ceiling[q.key]  BY <1>2, MappedUsed
<1>8. Abstract!Admit(r, q.key, q.cost)
  BY <1>4, <1>5, <1>6, <1>7 DEF Abstract!Admit, Spent
<1>9. q.cost \in 0 .. Ceiling[q.key]
  <2>1. held[q.key] \in Nat  BY <1>1, <1>2 DEF Basic, LedgerBasic
  <2> QED  BY <1>2, <2>1
<1> QED  BY <1>2, <1>8, <1>9 DEF Abstract!BudgetNext

LEMMA EndRefines ==
  ASSUME ProxyInv, ProxyInv', NEW r \in Requests, NEW how \in Fates \ {"none"}, NEW c \in Nat,
         Ended(r, how, c), res' = res
  PROVE  [Abstract!BudgetNext]_(Abstract!budgetVars)
<1>1. Basic /\ Basic' /\ GoodInv /\ Good(r) /\ r \in open /\ \A s \in Requests : Good(s)
  BY DEF ProxyInv, GoodInv, Ended
<1>2. /\ res[r] # None /\ res[r].key \in Keys /\ res[r].amount \in Nat
      /\ fate[r] = "none" /\ charged[r] = 0
  BY <1>1, OpenType
<1>3. c <= res[r].amount /\ (how # "settled" => c = 0)  BY DEF Ended
<1>4. /\ fate' = [fate EXCEPT ![r] = how] /\ charged' = [charged EXCEPT ![r] = c]
      /\ fate \in [Requests -> Fates] /\ charged \in [Requests -> Nat]
  BY <1>1 DEF Ended, End, Basic, LedgerBasic
<1>5. AbstractHold[r] = res[r]  BY <1>2 DEF AbstractHold
<1>6. how # "settled" => Spent' = Spent
  <2>1. how # "settled" => \A s \in Requests : charged'[s] = charged[s]  BY <1>2, <1>3, <1>4
  <2>2. \A s \in Requests : res[s] = None => charged[s] = 0  BY <1>1 DEF Good, Booked
  <2> QED  BY <1>1, <2>1, <2>2, SpentStays
<1>7. CASE how = "lost"
  <2>1. AbstractHold' = AbstractHold  BY <1>2, <1>4, <1>7 DEF AbstractHold
  <2> QED  BY <1>6, <1>7, <2>1 DEF Abstract!budgetVars, Spent
<1>8. ASSUME how # "lost"  PROVE  AbstractHold' = [AbstractHold EXCEPT ![r] = None]
  <2>1. how \notin {"none", "lost"}  BY <1>8
  <2> QED  BY <1>4, <2>1 DEF AbstractHold
<1>9. CASE how \in {"released", "swept"}
  <2>1. Abstract!Refund(r)  BY <1>2, <1>5, <1>6, <1>8, <1>9 DEF Abstract!Refund, Spent
  <2> QED  BY <2>1 DEF Abstract!BudgetNext
<1>10. CASE how = "settled"
  <2>1. \A k \in Keys : Spent'[k] = IF k = res[r].key THEN Spent[k] + c ELSE Spent[k]
    <3> SUFFICES ASSUME NEW k \in Keys
                 PROVE  Total(Of(k), charged)'
                          = IF k = res[r].key THEN Total(Of(k), charged) + c
                                              ELSE Total(Of(k), charged)
      BY DEF Spent
    <3>1. Of(k)' = Of(k) /\ Of(k) \subseteq Requests  BY DEF Of
    <3>2. Total(Of(k), charged)' = Total(Of(k), charged')  BY <3>1 DEF Total, Units
    <3>3. IsFiniteSet(Of(k))  BY <3>1, ProxyAssumption, FS_Subset
    <3>4. CASE k = res[r].key
      <4>1. r \in Of(k)  BY <1>2, <3>4 DEF Of
      <4>2. \A s \in Of(k) : charged[s] \in Nat /\ charged'[s] \in Nat  BY <1>4, <3>1
      <4>3. \A s \in Of(k) \ {r} : charged[s] = charged'[s]  BY <1>4, <3>1
      <4>4. Total(Of(k), charged') = Total(Of(k), charged) - charged[r] + charged'[r]
        BY <3>3, <4>1, <4>2, <4>3, TotalUpdate
      <4>5. Total(Of(k), charged) \in Nat  BY <3>3, <4>2, TotalType
      <4>6. charged'[r] = c  BY <1>4
      <4> QED  BY <1>2, <3>2, <3>4, <4>4, <4>5, <4>6
    <3>5. CASE k # res[r].key
      <4>1. r \notin Of(k)  BY <3>5 DEF Of
      <4>2. \A s \in Of(k) : charged[s] = charged'[s]  BY <1>4, <3>1, <4>1
      <4>3. Total(Of(k), charged) = Total(Of(k), charged')  BY <4>2, TotalSame
      <4> QED  BY <3>2, <3>5, <4>3
    <3> QED  BY <3>4, <3>5
  <2>2. Spent' = [Spent EXCEPT ![res[r].key] = @ + c]
    <3>1. Spent = [k \in Keys |-> Spent[k]] /\ Spent' = [k \in Keys |-> Spent'[k]]
      BY DEF Spent
    <3> QED  BY <2>1, <3>1
  <2>3. Abstract!Charge(r, c)
    BY <1>2, <1>3, <1>5, <1>8, <1>10, <2>2 DEF Abstract!Charge, Spent
  <2>4. c \in 0 .. AbstractHold[r].amount  BY <1>2, <1>3, <1>5
  <2> QED  BY <1>2, <1>5, <2>3, <2>4 DEF Abstract!BudgetNext
<1> QED  BY <1>7, <1>9, <1>10 DEF Fates

LEMMA RefinesStep ==
  ASSUME ProxyInv, ProxyInv', [Next]_vars
  PROVE  [Abstract!BudgetNext]_(Abstract!budgetVars)
<1>1. CASE Quiet
  <2>1. AbstractHold' = AbstractHold  BY <1>1 DEF Quiet, ledgerVars, AbstractHold
  <2>2. Spent' = Spent  BY <1>1 DEF Quiet, ledgerVars, Spent, Of, Total, Units
  <2> QED  BY <2>1, <2>2 DEF Abstract!budgetVars, Spent
<1>2. ASSUME NEW r \in Requests, Admits(r)  PROVE  [Abstract!BudgetNext]_(Abstract!budgetVars)
  BY <1>2, AdmitRefines DEF Admits
<1>3. ASSUME NEW r \in Requests, Ends(r), res' = res
      PROVE  [Abstract!BudgetNext]_(Abstract!budgetVars)
  BY <1>3, EndRefines DEF Ends
<1>4. GoodInv  BY DEF ProxyInv
<1> QED  BY <1>1, <1>2, <1>3, <1>4, MoneyStep

\* Every step of every handler, under every fault, is a step of Budget or changes
\* no hold and no spend.
THEOREM ProxyImplementsBudget == Spec => ImplementsBudget
<1>1. Init => Abstract!BudgetInit  BY RefinesInit
<1>2. ProxyInv /\ ProxyInv' /\ [Next]_vars => [Abstract!BudgetNext]_(Abstract!budgetVars)
  BY RefinesStep
<1> QED
  BY <1>1, <1>2, ProxyInvariant, PTL DEF Spec, ImplementsBudget, Abstract!BudgetSpec
===============================================================================
