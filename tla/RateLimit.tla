------------------------------- MODULE RateLimit -------------------------------
(***************************************************************************)
(* The rate limiter of src/api/index.py: _hits and _rate_limited, called   *)
(* by the middleware for every request of one instance.                    *)
(*                                                                         *)
(* It measures with time.time(), the wall clock, which an administrator or *)
(* a time service may set forward or back while requests arrive.  Time is  *)
(* in whole units; the deque of a client is the part of its log that comes *)
(* after the first gone[c] entries.                                        *)
(***************************************************************************)
EXTENDS Integers, Sequences

CONSTANTS
  Clients,   \* hosts that send requests
  Max,       \* _RATE_MAX
  Window,    \* _RATE_WINDOW_S
  Jumps,     \* by how much the wall clock may be set, of either sign
  MaxTime,   \* bound on the time
  MaxSkew,   \* bound on what the clock is set forward in all, and back
  None       \* "no answer"

ASSUME RateLimitAssumption ==
  /\ Max \in Nat \ {0}
  /\ Window \in Nat
  /\ Jumps \subseteq Int
  /\ MaxTime \in Nat
  /\ MaxSkew \in Nat
  /\ None \notin [client : Clients, limited : BOOLEAN]

VARIABLES
  real,    \* the time that has really passed
  ahead,   \* by how much the wall clock was set forward in all
  behind,  \* by how much it was set back in all
  log,     \* log[c]: every admitted request of c: when, and its stamp
  gone,    \* gone[c]: how many of them have left the deque of c
  answer   \* the answer to a request that has just been given, or None

vars == <<real, ahead, behind, log, gone, answer>>

\* time.time()
Now == real + ahead - behind

-------------------------------------------------------------------------------
(* The clock *)

Tick ==
  /\ real < MaxTime
  /\ real' = real + 1
  /\ answer' = None
  /\ UNCHANGED <<ahead, behind, log, gone>>

\* The wall clock is set.
Adjust(d) ==
  /\ IF d > 0 THEN ahead' = ahead + d /\ UNCHANGED behind
              ELSE behind' = behind - d /\ UNCHANGED ahead
  /\ ahead' <= MaxSkew /\ behind' <= MaxSkew
  /\ answer' = None
  /\ UNCHANGED <<real, log, gone>>

-------------------------------------------------------------------------------
(* _rate_limited *)

\* Slips: the edge of the window is not part of it, or more than it is.
OldMutEdge(e) == Now - e.stamp >= Window
OldMutLong(e) == Now - e.stamp > Window + 1

Old(e) == Now - e.stamp > Window

\* The loop pops old entries from the left, up to the first that is not old.
Trimmed(c, n) ==
  /\ \A j \in gone[c] + 1 .. n : Old(log[c][j])
  /\ n < Len(log[c]) => ~Old(log[c][n + 1])

\* Slip: one request more.
FullMutLoose(c, n) == Len(log[c]) - n > Max

Full(c, n) == Len(log[c]) - n >= Max

\* The deque is trimmed, also for a request that is then turned away; a request
\* that is turned away leaves no entry.
Request(c) ==
  \E n \in gone[c] .. Len(log[c]) :
    /\ Trimmed(c, n)
    /\ gone' = [gone EXCEPT ![c] = n]
    /\ IF Full(c, n)
       THEN answer' = [client |-> c, limited |-> TRUE] /\ UNCHANGED log
       ELSE /\ answer' = [client |-> c, limited |-> FALSE]
            /\ log' = [log EXCEPT ![c] = Append(@, [at |-> real, stamp |-> Now])]
    /\ UNCHANGED <<real, ahead, behind>>

-------------------------------------------------------------------------------
Init ==
  /\ real = 0 /\ ahead = 0 /\ behind = 0
  /\ log = [c \in Clients |-> <<>>]
  /\ gone = [c \in Clients |-> 0]
  /\ answer = None

Next ==
  \/ Tick
  \/ \E d \in Jumps : Adjust(d)
  \/ \E c \in Clients : Request(c)

Spec == Init /\ [][Next]_vars

-------------------------------------------------------------------------------
(* Properties *)

\* The shape of the state; a deque never has more than Max entries.
TypeOK ==
  /\ real \in Nat /\ ahead \in Nat /\ behind \in Nat
  /\ log \in [Clients -> Seq([at : Nat, stamp : Int])]
  /\ gone \in [Clients -> Nat]
  /\ \A c \in Clients : gone[c] <= Len(log[c]) /\ Len(log[c]) - gone[c] <= Max
  /\ answer \in [client : Clients, limited : BOOLEAN] \cup {None}

\* No client gets more than Max requests through in any window of real time,
\* its edges included, unless the clock was set forward; then the window is
\* shorter by no more than that.
AtMostMax ==
  \A c \in Clients : \A j \in Max + 1 .. Len(log[c]) :
    log[c][j].at - log[c][j - Max].at > Window - ahead

\* Nobody is turned away without cause: Max requests of this client were let
\* through within a window before it, which is longer than it should be by no
\* more than the clock was set back, however its entries are ordered by then.
RefusalJustified ==
  \A c \in Clients : answer = [client |-> c, limited |-> TRUE] =>
    /\ Len(log[c]) >= Max
    /\ real - log[c][Len(log[c]) - Max + 1].at <= Window + behind
===============================================================================
