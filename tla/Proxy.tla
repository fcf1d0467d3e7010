--------------------------------- MODULE Proxy ---------------------------------
(***************************************************************************)
(* The request handlers of src/fusegrid/proxy.py: `completions' and the    *)
(* generator `_stream', for any number of requests in flight at once.      *)
(*                                                                         *)
(* Everything runs on one asyncio event loop, so a step here is the code   *)
(* between two suspension points (an await, or a yield of the generator).  *)
(* The ledger's methods do not await: each call is part of one step, and   *)
(* is written here as Ledger.tla has it with EventLoop = TRUE.  What can   *)
(* interleave is everything a handler remembers across a suspension.       *)
(*                                                                         *)
(* Amounts are micro-dollars.  A request is its own reservation id.        *)
(***************************************************************************)
EXTENDS Money

CONSTANTS
  Keys,       \* budget keys that requests name
  Ceiling,    \* configured key -> ceiling
  Requests,   \* requests that may arrive
  Offers,     \* contents of requests: [valid, priced, key, cost, stream]
  Costs,      \* costs of usage blocks; negative if they count tokens below zero
  MaxChunks,  \* bound on the chunks of a stream
  Faults,     \* what may go wrong: a subset of FaultKinds
  None        \* "no reservation", "no answer yet"

\* store       the store becomes unreachable and comes back
\* unstarted   the client is gone before the stream generator first runs
\* unencodable the body is one that json.loads reads and httpx does not encode (NaN,
\*             a lone surrogate): ValueError, before anything is sent
\* disconnect  the client is gone while the generator awaits the upstream: the
\*             server cancels it there, which is CancelledError
\* overflow    a usage block with an infinite count: int() raises OverflowError,
\*             which _cost_from_usage does not catch
\* split       a chunk ends inside a multi-byte character: json.loads raises
\*             UnicodeDecodeError, which _usage_from_chunk does not catch
\* sweep       the application calls sweep_expired now and then, and a request
\*             may be older than its limit
FaultKinds ==
  {"store", "unstarted", "unencodable", "disconnect", "overflow", "split", "sweep"}

\* What a chunk says of the cost: it has a usage block that can be priced, or one
\* without counts, or one that overflows; it has none; or it does not decode.
ChunkKinds == {"priced", "untrusted", "overflow", "plain", "split"}

ASSUME ProxyAssumption ==
  /\ IsFiniteSet(Requests)
  /\ DOMAIN Ceiling \subseteq Keys
  /\ \A k \in DOMAIN Ceiling : Ceiling[k] \in Nat
  /\ Offers \subseteq [valid : BOOLEAN, priced : BOOLEAN, key : Keys, cost : Nat,
                       stream : BOOLEAN]
  /\ Costs \subseteq Int
  /\ MaxChunks \in Nat
  /\ Faults \subseteq FaultKinds
  /\ None \notin [key : Keys, amount : Nat] /\ None \notin [kind : ChunkKinds, cost : Int]

VARIABLES
  down,     \* the store is unreachable
  held,     \* the store's number for each key
  open,     \* requests whose reservation is in Ledger._open
  res,      \* res[r]: the reservation made for r, or None
  stage,    \* stage[r]: where the handler of r is suspended
  settled,  \* settled[r]: the local variable of _stream
  chunk,    \* chunk[r]: the chunk _stream has yielded and not yet looked into
  status,   \* status[r]: what the client of a refused or plain request was told
  \* history
  sent,     \* sent[r]: how many chunks the upstream has sent for r
  owed,     \* owed[r]: the amounts that the usage blocks among them ask for
  outcome,  \* outcome[r]: how the exchange ended
  fate,     \* fate[r]: how the reservation ended
  charged   \* charged[r]: what r was charged

ledgerVars == <<held, open, fate, charged>>
localVars  == <<res, settled, chunk>>
upstreamVars == <<sent, owed>>
vars == <<down, held, open, res, stage, settled, chunk, status, sent, owed,
          outcome, fate, charged>>

\* A whole response without usage, or one that does not decode, is untrusted.
Priced    == [kind : {"priced"}, cost : Costs]
Untrusted == [kind |-> "untrusted", cost |-> 0]
Overflow  == [kind |-> "overflow", cost |-> 0]
Plain     == [kind |-> "plain", cost |-> 0]
Split     == [kind |-> "split", cost |-> 0]

Responses == Priced \cup {Untrusted} \cup {u \in {Overflow} : u.kind \in Faults}
Chunks    == Responses \cup {Plain} \cup {u \in {Split} : u.kind \in Faults}

IsUsage(u) == u.kind \in {"priced", "untrusted", "overflow"}

Suspended == {"unstarted", "connecting", "erroring", "reading", "yielded"}
InFlight  == {"posting"} \cup Suspended

-------------------------------------------------------------------------------
(* Calls of the ledger, each within one step *)

\* The reservation leaves _open; how it ended, and what was charged.
End(r, how, c) ==
  /\ open' = open \ {r}
  /\ fate' = [fate EXCEPT ![r] = how]
  /\ charged' = [charged EXCEPT ![r] = c]

\* The store raised after the reservation had left _open.
Lose(r) == down /\ End(r, "lost", 0) /\ UNCHANGED held

\* Slips: tokens below zero are taken for no tokens; the cost is not clamped.
CostOfMutCredit(r, u) ==
  IF u.kind = "priced" THEN Least(Greatest(0, u.cost), res[r].amount) ELSE res[r].amount

CostOfMutUnclamped(r, u) ==
  IF u.kind = "priced" /\ u.cost >= 0 THEN u.cost ELSE res[r].amount

\* The cost of a usage block, clamped to the reservation; a block that counts
\* tokens below zero is one that cannot be trusted, and costs everything.
CostOf(r, u) ==
  IF u.kind = "priced" /\ u.cost >= 0 THEN Least(u.cost, res[r].amount) ELSE res[r].amount

\* The store's number goes down by what was held and is not charged.
Return(r, c) == held' = [held EXCEPT ![res[r].key] = Greatest(0, @ - (res[r].amount - c))]

\* Slips: the reservation is read and not popped; the charge is given back too.
SettleMutReads(r, u) ==
  \/ r \notin open /\ UNCHANGED ledgerVars
  \/ r \in open /\ Lose(r)
  \/ /\ r \in open /\ ~down
     /\ fate' = [fate EXCEPT ![r] = "settled"]
     /\ charged' = [charged EXCEPT ![r] = CostOf(r, u)]
     /\ Return(r, CostOf(r, u))
     /\ UNCHANGED open

SettleMutReturnsAll(r, u) ==
  \/ r \notin open /\ UNCHANGED ledgerVars
  \/ r \in open /\ Lose(r)
  \/ r \in open /\ ~down /\ End(r, "settled", CostOf(r, u)) /\ Return(r, 0)

\* settle: of an unknown reservation KeyError, which every caller suppresses.
Settle(r, u) ==
  \/ r \notin open /\ UNCHANGED ledgerVars
  \/ r \in open /\ Lose(r)
  \/ r \in open /\ ~down /\ End(r, "settled", CostOf(r, u)) /\ Return(r, CostOf(r, u))

\* release, and one turn of sweep_expired.
GiveBack(r, how) ==
  \/ r \notin open /\ UNCHANGED ledgerVars
  \/ r \in open /\ Lose(r)
  \/ r \in open /\ ~down /\ End(r, how, 0) /\ Return(r, 0)

Release(r) == GiveBack(r, "released")

-------------------------------------------------------------------------------
(* Admission: the handler, from the body to its next await *)

\* The handler returns: this status, and the exchange ended so.
Answer(r, code, how) ==
  /\ stage' = [stage EXCEPT ![r] = "done"]
  /\ status' = [status EXCEPT ![r] = code]
  /\ outcome' = [outcome EXCEPT ![r] = how]
  /\ UNCHANGED <<down, localVars>>

Refuse(r, code) ==
  /\ stage[r] = "new"
  /\ Answer(r, code, "refused")
  /\ UNCHANGED <<ledgerVars, upstreamVars>>

\* Not a JSON object, no model, or a max_tokens that is no count.
RefuseInvalid(r, q) == ~q.valid /\ Refuse(r, "invalid_request")

RefuseUnpriced(r, q) == q.valid /\ ~q.priced /\ Refuse(r, "unpriced_model")

\* The key is looked up before the store is asked.
RefuseUnknownKey(r, q) ==
  /\ q.valid /\ q.priced /\ q.key \notin DOMAIN Ceiling
  /\ Refuse(r, "unknown_budget_key")

RefuseUnavailable(r, q) ==
  /\ q.valid /\ q.priced /\ q.key \in DOMAIN Ceiling
  /\ down
  /\ Refuse(r, "ledger_unavailable")

\* Slip: what matters is that something is left.
FitsMutSomethingLeft(q) == held[q.key] < Ceiling[q.key]

Fits(q) == held[q.key] + q.cost <= Ceiling[q.key]

RefuseBudget(r, q) ==
  /\ q.valid /\ q.priced /\ q.key \in DOMAIN Ceiling
  /\ ~down /\ ~Fits(q)
  /\ Refuse(r, "budget_exceeded")

Reserve(r, q) ==
  /\ stage[r] = "new"
  /\ q.valid /\ q.priced /\ q.key \in DOMAIN Ceiling
  /\ ~down /\ Fits(q)
  /\ held' = [held EXCEPT ![q.key] = @ + q.cost]
  /\ res' = [res EXCEPT ![r] = [key |-> q.key, amount |-> q.cost]]
  /\ open' = open \cup {r}
  /\ UNCHANGED <<down, settled, chunk, upstreamVars, fate, charged>>

\* A plain request goes on to await client.post, a stream is handed to the server
\* as a generator that has not run yet.
Admit(r, q) ==
  /\ Reserve(r, q)
  /\ stage' = [stage EXCEPT ![r] = IF q.stream THEN "unstarted" ELSE "posting"]
  /\ UNCHANGED <<status, outcome>>

\* client.post encodes the body before its first await.  What that raises is no
\* httpx.HTTPError: it leaves the handler, and nobody releases.
AdmitUnsent(r, q) ==
  /\ "unencodable" \in Faults
  /\ ~q.stream
  /\ Reserve(r, q)
  /\ stage' = [stage EXCEPT ![r] = "done"]
  /\ status' = [status EXCEPT ![r] = "crash"]
  /\ outcome' = [outcome EXCEPT ![r] = "unsent"]

-------------------------------------------------------------------------------
(* A plain request, suspended at client.post *)

\* What a request owes for a usage block: the cost of the tokens it counts, but
\* all of the reservation when it counts none, fewer than none or too many.
Price(r, u) ==
  IF u.kind # "priced" \/ u.cost < 0 \/ u.cost > res[r].amount THEN res[r].amount ELSE u.cost

Sent(r, u) ==
  /\ sent' = [sent EXCEPT ![r] = @ + 1]
  /\ owed' = [owed EXCEPT ![r] = IF IsUsage(u) THEN @ \cup {Price(r, u)} ELSE @]

\* The release of an error path is not guarded: when it asks a store that is down
\* the client gets a 500 instead of the code.
OrCrash(r, code) == IF down /\ r \in open THEN "crash" ELSE code

\* httpx.HTTPError, the request timeout among them.
PostFails(r) ==
  /\ stage[r] = "posting"
  /\ Release(r)
  /\ Answer(r, OrCrash(r, "upstream_error"), "failed")
  /\ UNCHANGED upstreamVars

\* A status of 400 or more.
PostRejected(r) ==
  /\ stage[r] = "posting"
  /\ Release(r)
  /\ Answer(r, OrCrash(r, "upstream_status"), "failed")
  /\ UNCHANGED upstreamVars

\* A response; _settle swallows a store that is down.
PostAnswered(r, u) ==
  /\ stage[r] = "posting"
  /\ u.kind # "overflow"
  /\ Sent(r, u)
  /\ Settle(r, u)
  /\ Answer(r, "ok", "served")

\* A response that cannot be costed: the exception leaves the handler before it
\* settles.
PostOverflows(r, u) ==
  /\ stage[r] = "posting"
  /\ u.kind = "overflow"
  /\ Sent(r, u)
  /\ Answer(r, "crash", "served")
  /\ UNCHANGED ledgerVars

-------------------------------------------------------------------------------
(* A stream *)

\* The generator is suspended somewhere else; the ledger was not called.
Suspend(r, s) ==
  /\ stage' = [stage EXCEPT ![r] = s]
  /\ UNCHANGED <<down, ledgerVars, res, settled, status, outcome>>

\* The generator ends: its locals die with it.
Leave(r, how) ==
  /\ stage' = [stage EXCEPT ![r] = "done"]
  /\ outcome' = [outcome EXCEPT ![r] = how]
  /\ chunk' = [chunk EXCEPT ![r] = None]
  /\ UNCHANGED <<down, res, settled, status>>

\* Slip: without the `finally' block nothing is settled.
FinallyMutMissing(r, how) == UNCHANGED ledgerVars /\ Leave(r, how)

\* The `finally' block: no usage was reported, settle in full.
Finally(r, how) ==
  /\ IF settled[r] THEN UNCHANGED ledgerVars ELSE Settle(r, Untrusted)
  /\ Leave(r, how)

\* `except (httpx.HTTPError, GeneratorExit)': release in full.  If the store
\* raises there, `finally' finds the reservation gone and suppresses KeyError.
Except(r, how) ==
  /\ IF settled[r] THEN UNCHANGED ledgerVars ELSE Release(r)
  /\ Leave(r, how)

\* The client is gone before the generator ran: closing a generator that has
\* not started runs none of its code.
StreamVanishes(r) ==
  /\ stage[r] = "unstarted"
  /\ "unstarted" \in Faults
  /\ Leave(r, "vanished")
  /\ UNCHANGED <<ledgerVars, upstreamVars>>

StreamStarts(r) ==
  /\ stage[r] = "unstarted"
  /\ Suspend(r, "connecting")
  /\ UNCHANGED <<chunk, upstreamVars>>

\* client.stream encodes the body as client.post does.  `finally' sees the
\* exception, and settles in full what was never sent.
StreamUnsent(r) ==
  /\ stage[r] = "unstarted"
  /\ "unencodable" \in Faults
  /\ Finally(r, "unsent")
  /\ UNCHANGED upstreamVars

\* httpx.HTTPError at any await of the upstream.
StreamFails(r) ==
  /\ stage[r] \in {"connecting", "erroring", "reading"}
  /\ Except(r, "failed")
  /\ UNCHANGED upstreamVars

\* A status of 400 or more: the body is read first.
StreamRejected(r) ==
  /\ stage[r] = "connecting"
  /\ Suspend(r, "erroring")
  /\ UNCHANGED <<chunk, upstreamVars>>

\* Then the reservation is released.  After the yield of the error nothing is
\* left to do; if the store raises, no error is yielded.
StreamErrorRead(r) ==
  /\ stage[r] = "erroring"
  /\ Release(r)
  /\ Leave(r, "failed")
  /\ UNCHANGED upstreamVars

StreamAccepted(r) ==
  /\ stage[r] = "connecting"
  /\ Suspend(r, "reading")
  /\ UNCHANGED <<chunk, upstreamVars>>

\* A chunk is yielded to the client before it is looked into.
StreamYields(r, u) ==
  /\ stage[r] = "reading"
  /\ sent[r] < MaxChunks
  /\ Sent(r, u)
  /\ chunk' = [chunk EXCEPT ![r] = u]
  /\ Suspend(r, "yielded")

\* Slip: the generator does not remember that it has settled.
StreamResumesMutForgets(r) ==
  /\ stage[r] = "yielded"
  /\ chunk[r].kind \in {"plain", "priced", "untrusted"}
  /\ IF IsUsage(chunk[r]) THEN Settle(r, chunk[r]) ELSE UNCHANGED ledgerVars
  /\ chunk' = [chunk EXCEPT ![r] = None]
  /\ stage' = [stage EXCEPT ![r] = "reading"]
  /\ UNCHANGED <<down, res, settled, status, upstreamVars, outcome>>

\* The client took it; the first usage block settles.
StreamResumes(r) ==
  /\ stage[r] = "yielded"
  /\ chunk[r].kind # "split"
  /\ settled[r] \/ chunk[r].kind # "overflow"
  /\ IF IsUsage(chunk[r]) /\ ~settled[r]
     THEN Settle(r, chunk[r]) /\ settled' = [settled EXCEPT ![r] = TRUE]
     ELSE UNCHANGED <<ledgerVars, settled>>
  /\ chunk' = [chunk EXCEPT ![r] = None]
  /\ stage' = [stage EXCEPT ![r] = "reading"]
  /\ UNCHANGED <<down, res, status, upstreamVars, outcome>>

\* Looking into it raises what no clause catches: a chunk that does not decode,
\* or a usage block that overflows.
StreamBreaks(r) ==
  /\ stage[r] = "yielded"
  /\ chunk[r].kind = "split" \/ (chunk[r].kind = "overflow" /\ ~settled[r])
  /\ Finally(r, "broken")
  /\ UNCHANGED upstreamVars

\* The client is gone while the generator is suspended at a yield: it is closed
\* there, which is GeneratorExit.
StreamClosed(r) ==
  /\ stage[r] = "yielded"
  /\ Except(r, "gone")
  /\ UNCHANGED upstreamVars

\* The client is gone while the generator awaits the upstream: CancelledError,
\* which only `finally' sees.
StreamCancelled(r) ==
  /\ stage[r] \in {"connecting", "erroring", "reading"}
  /\ "disconnect" \in Faults
  /\ Finally(r, "gone")
  /\ UNCHANGED upstreamVars

\* The upstream has sent everything.
StreamEnds(r) ==
  /\ stage[r] = "reading"
  /\ Finally(r, "served")
  /\ UNCHANGED upstreamVars

-------------------------------------------------------------------------------
(* The environment *)

StoreFlips ==
  /\ "store" \in Faults
  /\ down' = ~down
  /\ UNCHANGED <<ledgerVars, localVars, stage, status, upstreamVars, outcome>>

\* One turn of sweep_expired for a reservation that is old enough.
Sweep(r) ==
  /\ "sweep" \in Faults
  /\ r \in open
  /\ GiveBack(r, "swept")
  /\ UNCHANGED <<down, localVars, stage, status, upstreamVars, outcome>>

-------------------------------------------------------------------------------
Init ==
  /\ down = FALSE
  /\ held = [k \in Keys |-> 0]
  /\ open = {}
  /\ res = [r \in Requests |-> None]
  /\ stage = [r \in Requests |-> "new"]
  /\ settled = [r \in Requests |-> FALSE]
  /\ chunk = [r \in Requests |-> None]
  /\ status = [r \in Requests |-> None]
  /\ sent = [r \in Requests |-> 0]
  /\ owed = [r \in Requests |-> {}]
  /\ outcome = [r \in Requests |-> "none"]
  /\ fate = [r \in Requests |-> "none"]
  /\ charged = [r \in Requests |-> 0]

Arrive(r) ==
  \E q \in Offers :
    \/ RefuseInvalid(r, q) \/ RefuseUnpriced(r, q) \/ RefuseUnknownKey(r, q)
    \/ RefuseUnavailable(r, q) \/ RefuseBudget(r, q)
    \/ Admit(r, q) \/ AdmitUnsent(r, q)

\* Everything the handler of an admitted request does, its client gone or not.
Handle(r) ==
  \/ PostFails(r) \/ PostRejected(r)
  \/ \E u \in Responses : PostAnswered(r, u) \/ PostOverflows(r, u)
  \/ StreamVanishes(r) \/ StreamUnsent(r) \/ StreamStarts(r) \/ StreamFails(r)
  \/ StreamRejected(r) \/ StreamErrorRead(r) \/ StreamAccepted(r)
  \/ \E u \in Chunks : StreamYields(r, u)
  \/ StreamResumes(r) \/ StreamBreaks(r) \/ StreamClosed(r) \/ StreamCancelled(r)
  \/ StreamEnds(r)

Next ==
  \/ \E r \in Requests : Arrive(r) \/ Handle(r) \/ Sweep(r)
  \/ StoreFlips

\* A handler that awaits goes on: the server runs the generator of a stream or
\* closes it, and the upstream sends something or the timeout of httpx, which
\* bounds every wait for it, is HTTPError.  At a yield it is the client that goes
\* on or leaves, and nothing makes it.  Nobody need ever sweep.
Awaits(r) == stage[r] # "yielded" /\ Handle(r)

Fairness == \A r \in Requests : WF_vars(Awaits(r))

Spec == Init /\ [][Next]_vars /\ Fairness

-------------------------------------------------------------------------------
(* Properties *)

\* The shape of the state; an open reservation is one that was made and has
\* not ended, and a chunk is in hand exactly at a yield.
TypeOK ==
  /\ down \in BOOLEAN
  /\ held \in [Keys -> Nat]
  /\ open \subseteq {r \in Requests : res[r] # None /\ fate[r] = "none"}
  /\ res \in [Requests -> [key : Keys, amount : Nat] \cup {None}]
  /\ stage \in [Requests -> {"new", "done"} \cup InFlight]
  /\ settled \in [Requests -> BOOLEAN]
  /\ chunk \in [Requests -> Chunks \cup {None}]
  /\ \A r \in Requests : chunk[r] # None <=> stage[r] = "yielded"
  /\ status \in [Requests -> {None, "invalid_request", "unpriced_model", "unknown_budget_key",
                              "ledger_unavailable", "budget_exceeded", "upstream_error",
                              "upstream_status", "crash", "ok"}]
  /\ sent \in [Requests -> Nat]
  /\ owed \in [Requests -> SUBSET Nat]
  /\ outcome \in [Requests -> {"none", "refused", "failed", "served", "gone", "vanished",
                           "unsent", "broken"}]
  /\ fate \in [Requests -> {"none", "settled", "released", "swept", "lost"}]
  /\ charged \in [Requests -> Nat]

Of(k)   == {r \in Requests : res[r] # None /\ res[r].key = k}
Amounts == [r \in Requests |-> IF res[r] = None THEN 0 ELSE res[r].amount]

\* The invariant of docs/03-architecture.md, under every fault: what requests
\* were charged and what is reserved for those in flight fit under the ceiling.
CeilingHolds ==
  \A k \in DOMAIN Ceiling :
    Total(Of(k), charged) + Total(Of(k) \cap open, Amounts) <= Ceiling[k]

\* The store's number is what was charged and what was never given back: no
\* handler, however it is interrupted, gives back twice or gives back nothing
\* without having lost or left the reservation.
Outstanding(k) == {r \in Of(k) : fate[r] \in {"none", "lost"}}

HeldExact ==
  \A k \in Keys : held[k] = Total(Of(k), charged) + Total(Outstanding(k), Amounts)

\* No request talks to the upstream on credit: until its cost is known its
\* whole reservation is held (a failed sweep leaves it held in the store), unless
\* a sweep gave it back.
InFlightBacked ==
  \A r \in Requests :
    stage[r] \in InFlight /\ ~settled[r] => r \in open \/ fate[r] \in {"lost", "swept"}

\* A request is charged c for what a usage block asked for, and for all it
\* reserved when there was none.
Owes(r, c) == IF owed[r] = {} THEN c = res[r].amount ELSE c \in owed[r]

\* The provider bills what it served, so a request that was served is never
\* given back, and it is charged what a usage block it was sent says, or the
\* whole reservation when it was sent none.  Which block that is when several
\* differ is not said: the code takes the first, src/fusegrid/proxy.py:265 and
\* docs/03-architecture.md:63 speak of the final one.
ServedIsCharged ==
  \A r \in Requests : outcome[r] = "served" =>
    fate[r] # "released" /\ (fate[r] = "settled" => Owes(r, charged[r]))

\* The three ways in which an exchange may end and leave its reservation: the
\* generator of a stream never ran, a plain request could not be encoded, or a
\* plain response could not be costed.
Leaks(r) ==
  outcome[r] = "vanished" \/ (outcome[r] \in {"unsent", "served"} /\ status[r] = "crash")

\* No other reservation outlives its request, whatever the upstream, the client
\* and the store do, and at whichever await or yield they do it.
NoOrphans == \A r \in open : stage[r] = "done" => Leaks(r)

\* A reservation ends once: whoever comes late, a handler that was suspended
\* while a sweep gave the reservation back or a sweep after the handler, changes
\* neither how it ended nor what was charged.
EndsOnce ==
  [][\A r \in Requests : fate[r] # "none" =>
       fate'[r] = fate[r] /\ charged'[r] = charged[r]]_vars

\* A reservation waits for nobody but the client: without the help of a sweep it
\* is settled or given back, or leaks, or its handler stands at a yield, where a
\* client that neither reads nor leaves may keep it for ever.
EndsOrAwaitsClient ==
  \A r \in Requests : r \in open ~> (r \notin open \/ Leaks(r) \/ stage[r] = "yielded")

\* Claimed by the docstring of _stream: thanks to `finally' a client that goes
\* away does not leave its reservation held.
DisconnectFrees == \A r \in Requests : outcome[r] \in {"gone", "vanished"} => r \notin open

-------------------------------------------------------------------------------
(* The proxy implements Budget: a hold lasts until it is charged or given back. *)

AbstractHold ==
  [r \in Requests |-> IF fate[r] \in {"none", "lost"} THEN res[r] ELSE None]

Abstract == INSTANCE Budget
  WITH Ids <- Requests, Cap <- Ceiling, hold <- AbstractHold,
       committed <- [k \in Keys |-> Total(Of(k), charged)]

\* Every step of every handler, under every fault, is a step of Budget or
\* changes no hold and no spend.
ImplementsBudget == Abstract!BudgetSpec
===============================================================================
