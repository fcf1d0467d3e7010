--------------------------- MODULE RateLimitProofs ---------------------------
(***************************************************************************)
(* Theorems about RateLimit, for every limit and window, any number of     *)
(* clients, and a clock that is set by any amounts.                        *)
(***************************************************************************)
EXTENDS RateLimit, TLAPS

-------------------------------------------------------------------------------
(* The inductive invariant *)

Entry == [at : Nat, stamp : Int]

LEMMA EntryType ==
  ASSUME NEW s \in Seq(Entry), NEW j \in 1 .. Len(s)
  PROVE  s[j] \in Entry /\ s[j].at \in Nat /\ s[j].stamp \in Int
<1>1. s[j] \in Entry  OBVIOUS
<1> QED  BY <1>1 DEF Entry

\* A stamp differs from the time by no more than the clock was ever set.
Stamped ==
  \A c \in Clients : \A j \in 1 .. Len(log[c]) :
    /\ log[c][j].at <= real
    /\ log[c][j].at <= log[c][j].stamp + behind
    /\ log[c][j].stamp <= log[c][j].at + ahead

\* A log is in the order of time, although its stamps need not be.
Ordered ==
  \A c \in Clients : \A j, l \in 1 .. Len(log[c]) :
    j <= l => log[c][j].at <= log[c][l].at

\* What has left a deque is as old as the window, but for the clock.
Expired ==
  \A c \in Clients : \A j \in 1 .. gone[c] : real - log[c][j].at > Window - ahead

Inv == TypeOK /\ Stamped /\ Ordered /\ Expired /\ AtMostMax /\ RefusalJustified

LEMMA InvInit == Init => Inv
<1> SUFFICES ASSUME Init PROVE Inv  OBVIOUS
<1> USE RateLimitAssumption DEF Init
<1>1. \A c \in Clients : log[c] = <<>> /\ gone[c] = 0 /\ Len(log[c]) = 0  OBVIOUS
<1>2. TypeOK
  <2>1. log \in [Clients -> Seq(Entry)]  BY DEF Entry
  <2>2. gone \in [Clients -> Nat]  OBVIOUS
  <2> QED  BY <1>1, <2>1, <2>2 DEF TypeOK, Entry
<1>3. Stamped /\ Ordered /\ Expired  BY <1>1 DEF Stamped, Ordered, Expired
<1>4. AtMostMax  BY <1>1 DEF AtMostMax
<1>5. RefusalJustified  BY DEF RefusalJustified
<1> QED  BY <1>2, <1>3, <1>4, <1>5 DEF Inv

-------------------------------------------------------------------------------
(* Arithmetic of stamps *)

\* The clock was set by at most `ahead' and `behind' since the stamp was taken,
\* so the age it shows is off by no more.
LEMMA Ages ==
  ASSUME NEW t \in Nat, NEW a \in Nat, NEW b \in Nat, NEW w \in Nat,
         NEW x \in Nat, NEW s \in Int,
         x <= s + b, s <= x + a
  PROVE  /\ t + a - b - s > w => t - x > w - a
         /\ ~(t + a - b - s > w) => t - x <= w + b
OBVIOUS

-------------------------------------------------------------------------------
(* The clock *)

\* Time passes, or the clock is set, in whichever direction.
LEMMA ClockStep ==
  ASSUME Inv,
         real' \in Nat, ahead' \in Nat, behind' \in Nat,
         real <= real', ahead <= ahead', behind <= behind',
         log' = log, gone' = gone, answer' = None
  PROVE  Inv'
<1>0. /\ TypeOK /\ Stamped /\ Ordered /\ Expired /\ AtMostMax
      /\ Max \in Nat \ {0} /\ Window \in Nat
  BY RateLimitAssumption DEF Inv
<1> USE <1>0
<1>1. \A c \in Clients : /\ log[c] \in Seq(Entry) /\ Len(log[c]) \in Nat
                         /\ gone[c] \in Nat /\ gone[c] <= Len(log[c])
  BY DEF TypeOK, Entry
<1>2. \A c \in Clients : \A j \in 1 .. Len(log[c]) :
        log[c][j] \in Entry /\ log[c][j].at \in Nat /\ log[c][j].stamp \in Int
  BY <1>1, EntryType
<1>3. real \in Nat /\ ahead \in Nat /\ behind \in Nat  BY DEF TypeOK
<1>4. TypeOK'  BY DEF TypeOK
<1>5. Stamped'
  <2> SUFFICES ASSUME NEW c \in Clients, NEW j \in 1 .. Len(log[c])
               PROVE  /\ log[c][j].at <= real'
                      /\ log[c][j].at <= log[c][j].stamp + behind'
                      /\ log[c][j].stamp <= log[c][j].at + ahead'
    BY DEF Stamped
  <2>1. log[c][j].at \in Nat /\ log[c][j].stamp \in Int  BY <1>2
  <2>2. /\ log[c][j].at <= real
        /\ log[c][j].at <= log[c][j].stamp + behind
        /\ log[c][j].stamp <= log[c][j].at + ahead
    BY DEF Stamped
  <2>3. log[c][j].at <= real'  BY <1>3, <2>1, <2>2
  <2>4. log[c][j].at <= log[c][j].stamp + behind'  BY <1>3, <2>1, <2>2
  <2>5. log[c][j].stamp <= log[c][j].at + ahead'  BY <1>3, <2>1, <2>2
  <2> QED  BY <2>3, <2>4, <2>5
<1>6. Ordered'  BY DEF Ordered
<1>7. Expired'
  <2> SUFFICES ASSUME NEW c \in Clients, NEW j \in 1 .. gone[c]
               PROVE  real' - log[c][j].at > Window - ahead'
    BY DEF Expired
  <2>1. j \in 1 .. Len(log[c])  BY <1>1
  <2>2. real - log[c][j].at > Window - ahead  BY DEF Expired
  <2> QED  BY <1>2, <1>3, <2>1, <2>2
<1>8. AtMostMax'
  <2> SUFFICES ASSUME NEW c \in Clients, NEW j \in Max + 1 .. Len(log[c])
               PROVE  log[c][j].at - log[c][j - Max].at > Window - ahead'
    BY DEF AtMostMax
  <2>1. j \in 1 .. Len(log[c]) /\ j - Max \in 1 .. Len(log[c])  BY <1>1
  <2>2. log[c][j].at - log[c][j - Max].at > Window - ahead  BY DEF AtMostMax
  <2>3. log[c][j].at \in Nat /\ log[c][j - Max].at \in Nat  BY <1>2, <2>1
  <2> QED  BY <1>3, <2>2, <2>3
<1>9. RefusalJustified'  BY RateLimitAssumption DEF RefusalJustified
<1> QED  BY <1>4, <1>5, <1>6, <1>7, <1>8, <1>9 DEF Inv

-------------------------------------------------------------------------------
(* Requests *)

\* What the pops of the left end remove is as old as the window, but for the
\* clock, and the entry they stop at, and all after it, are not older.
LEMMA TrimmedAges ==
  ASSUME Inv, NEW c \in Clients, NEW n \in gone[c] .. Len(log[c]), Trimmed(c, n)
  PROVE  /\ \A j \in 1 .. n : real - log[c][j].at > Window - ahead
         /\ \A j \in n + 1 .. Len(log[c]) : real - log[c][j].at <= Window + behind
<1>0. /\ TypeOK /\ Stamped /\ Ordered /\ Expired /\ AtMostMax
      /\ Max \in Nat \ {0} /\ Window \in Nat
  BY RateLimitAssumption DEF Inv
<1> USE <1>0
<1>1. log[c] \in Seq(Entry) /\ Len(log[c]) \in Nat /\ gone[c] \in Nat /\ n \in Nat
  BY DEF TypeOK, Entry
<1>2. \A j \in 1 .. Len(log[c]) :
        log[c][j] \in Entry /\ log[c][j].at \in Nat /\ log[c][j].stamp \in Int
  BY <1>1, EntryType
<1>3. real \in Nat /\ ahead \in Nat /\ behind \in Nat  BY DEF TypeOK
<1>4. \A j \in 1 .. n : real - log[c][j].at > Window - ahead
  <2> SUFFICES ASSUME NEW j \in 1 .. n PROVE real - log[c][j].at > Window - ahead
    OBVIOUS
  <2>1. CASE j <= gone[c]  BY <1>1, <2>1 DEF Expired
  <2>2. CASE j > gone[c]
    <3>1. Old(log[c][j])  BY <1>1, <2>2 DEF Trimmed
    <3>2. log[c][j].at <= log[c][j].stamp + behind  BY <1>1 DEF Stamped
    <3>3. log[c][j].stamp <= log[c][j].at + ahead  BY <1>1 DEF Stamped
    <3>4. log[c][j].at \in Nat /\ log[c][j].stamp \in Int  BY <1>1, <1>2
    <3>5. real + ahead - behind - log[c][j].stamp > Window  BY <1>3, <3>1, <3>4 DEF Old, Now
    <3> QED  BY <1>3, <3>2, <3>3, <3>4, <3>5, Ages
  <2> QED  BY <1>1, <2>1, <2>2
<1>5. \A j \in n + 1 .. Len(log[c]) : real - log[c][j].at <= Window + behind
  <2> SUFFICES ASSUME NEW j \in n + 1 .. Len(log[c])
               PROVE  real - log[c][j].at <= Window + behind
    OBVIOUS
  <2>1. n + 1 \in 1 .. Len(log[c]) /\ j \in 1 .. Len(log[c]) /\ n + 1 <= j  BY <1>1
  <2>2. ~Old(log[c][n + 1])  BY <1>1, <2>1 DEF Trimmed
  <2>3. /\ log[c][n + 1].at <= log[c][n + 1].stamp + behind
        /\ log[c][n + 1].stamp <= log[c][n + 1].at + ahead
    BY <2>1 DEF Stamped
  <2>4. log[c][n + 1].at <= log[c][j].at  BY <2>1 DEF Ordered
  <2>5. real - log[c][n + 1].at <= Window + behind
    <3>1. log[c][n + 1].at \in Nat /\ log[c][n + 1].stamp \in Int  BY <1>2, <2>1
    <3>2. ~(real + ahead - behind - log[c][n + 1].stamp > Window)
      BY <1>3, <2>2, <3>1 DEF Old, Now
    <3> QED  BY <1>3, <2>3, <3>1, <3>2, Ages
  <2> QED  BY <1>2, <1>3, <2>1, <2>4, <2>5
<1> QED  BY <1>4, <1>5

\* A request that is turned away.
LEMMA RefuseStep ==
  ASSUME Inv, NEW c \in Clients, NEW n \in gone[c] .. Len(log[c]), Trimmed(c, n),
         Full(c, n), gone' = [gone EXCEPT ![c] = n],
         answer' = [client |-> c, limited |-> TRUE],
         UNCHANGED <<real, ahead, behind, log>>
  PROVE  Inv'
<1>0. /\ TypeOK /\ Stamped /\ Ordered /\ Expired /\ AtMostMax
      /\ Max \in Nat \ {0} /\ Window \in Nat
  BY RateLimitAssumption DEF Inv
<1> USE <1>0
<1>1. /\ log[c] \in Seq(Entry) /\ Len(log[c]) \in Nat /\ gone[c] \in Nat /\ n \in Nat
      /\ Len(log[c]) - gone[c] <= Max
  BY DEF TypeOK, Entry
<1>2. /\ gone' \in [Clients -> Nat] /\ gone'[c] = n
      /\ \A d \in Clients \ {c} : gone'[d] = gone[d]
  BY <1>1 DEF TypeOK
<1>3. TypeOK'
  <2>1. \A d \in Clients : gone'[d] <= Len(log[d]) /\ Len(log[d]) - gone'[d] <= Max
    BY <1>1, <1>2 DEF TypeOK
  <2> QED  BY <1>2, <2>1 DEF TypeOK
<1>4. Stamped' /\ Ordered' /\ AtMostMax'  BY DEF Stamped, Ordered, AtMostMax
<1>5. Expired'
  <2>1. \A j \in 1 .. n : real - log[c][j].at > Window - ahead  BY TrimmedAges
  <2> QED  BY <1>2, <2>1 DEF Expired
<1>6. RefusalJustified'
  <2>1. Len(log[c]) - n >= Max  BY DEF Full
  <2>2. Len(log[c]) - Max + 1 \in n + 1 .. Len(log[c])  BY <1>1, <2>1
  <2>3. real - log[c][Len(log[c]) - Max + 1].at <= Window + behind
    BY <2>2, TrimmedAges
  <2>4. Len(log[c]) >= Max  BY <1>1, <2>1
  <2>5. \A d \in Clients : answer' = [client |-> d, limited |-> TRUE] => d = c  OBVIOUS
  <2> QED  BY <2>3, <2>4, <2>5 DEF RefusalJustified
<1> QED  BY <1>3, <1>4, <1>5, <1>6 DEF Inv

\* A request that is let through.
LEMMA AdmitStep ==
  ASSUME Inv, NEW c \in Clients, NEW n \in gone[c] .. Len(log[c]), Trimmed(c, n),
         ~Full(c, n), gone' = [gone EXCEPT ![c] = n],
         answer' = [client |-> c, limited |-> FALSE],
         log' = [log EXCEPT ![c] = Append(@, [at |-> real, stamp |-> Now])],
         UNCHANGED <<real, ahead, behind>>
  PROVE  Inv'
<1>0. /\ TypeOK /\ Stamped /\ Ordered /\ Expired /\ AtMostMax
      /\ Max \in Nat \ {0} /\ Window \in Nat
  BY RateLimitAssumption DEF Inv
<1> USE <1>0
<1> DEFINE e == [at |-> real, stamp |-> Now]
           L == Len(log[c])
<1>1. /\ log[c] \in Seq(Entry) /\ L \in Nat /\ gone[c] \in Nat /\ n \in Nat /\ n <= L
      /\ log \in [Clients -> Seq(Entry)]
  BY DEF TypeOK, Entry
<1>2. real \in Nat /\ ahead \in Nat /\ behind \in Nat  BY DEF TypeOK
<1>3. e \in Entry /\ e.at = real /\ e.stamp = real + ahead - behind
  BY <1>2 DEF Entry, Now
<1> HIDE DEF e
<1>4. /\ log'[c] = Append(log[c], e) /\ Len(log'[c]) = L + 1
      /\ log'[c] \in Seq(Entry)
      /\ \A j \in 1 .. L : log'[c][j] = log[c][j]
      /\ log'[c][L + 1] = e
  <2>1. log'[c] = Append(log[c], e)  BY <1>1 DEF e
  <2> QED  BY <1>1, <1>3, <2>1
<1>5. /\ gone' \in [Clients -> Nat] /\ gone'[c] = n
      /\ \A d \in Clients \ {c} : gone'[d] = gone[d] /\ log'[d] = log[d]
  BY <1>1 DEF TypeOK
<1>6. \A j \in 1 .. L : log[c][j] \in Entry /\ log[c][j].at \in Nat /\ log[c][j].stamp \in Int
  BY <1>1, EntryType
<1>7. L - n < Max  BY <1>1 DEF Full
<1>8. TypeOK'
  <2>1. log' \in [Clients -> Seq(Entry)]  BY <1>1, <1>4, <1>5
  <2>2. \A d \in Clients : gone'[d] <= Len(log'[d]) /\ Len(log'[d]) - gone'[d] <= Max
    BY <1>1, <1>4, <1>5, <1>7 DEF TypeOK
  <2>3. answer' \in [client : Clients, limited : BOOLEAN]  OBVIOUS
  <2> QED  BY <1>2, <1>5, <2>1, <2>2, <2>3 DEF TypeOK, Entry
<1>9. Stamped'
  <2> SUFFICES ASSUME NEW d \in Clients, NEW j \in 1 .. Len(log'[d])
               PROVE  /\ log'[d][j].at <= real
                      /\ log'[d][j].at <= log'[d][j].stamp + behind
                      /\ log'[d][j].stamp <= log'[d][j].at + ahead
    BY DEF Stamped
  <2>1. CASE d # c  BY <1>5, <2>1 DEF Stamped
  <2>2. CASE d = c /\ j \in 1 .. L  BY <1>4, <2>2 DEF Stamped
  <2>3. CASE d = c /\ j = L + 1  BY <1>2, <1>3, <1>4, <2>3
  <2> QED  BY <1>1, <1>4, <2>1, <2>2, <2>3
<1>10. Ordered'
  <2> SUFFICES ASSUME NEW d \in Clients, NEW j \in 1 .. Len(log'[d]),
                      NEW l \in 1 .. Len(log'[d]), j <= l
               PROVE  log'[d][j].at <= log'[d][l].at
    BY DEF Ordered
  <2>1. CASE d # c  BY <1>5, <2>1 DEF Ordered
  <2>2. CASE d = c /\ l \in 1 .. L
    <3>1. j \in 1 .. L  BY <1>1, <2>2
    <3> QED  BY <1>4, <2>2, <3>1 DEF Ordered
  <2>3. CASE d = c /\ l = L + 1 /\ j \in 1 .. L
    <3>1. log[c][j].at <= real  BY <2>3 DEF Stamped
    <3> QED  BY <1>3, <1>4, <2>3, <3>1
  <2>4. CASE d = c /\ l = L + 1 /\ j = L + 1  BY <1>2, <1>3, <1>4, <2>4
  <2> QED  BY <1>1, <1>4, <2>1, <2>2, <2>3, <2>4
<1>11. \A j \in 1 .. n : real - log[c][j].at > Window - ahead  BY TrimmedAges
<1>12. Expired'
  <2>1. \A j \in 1 .. n : log'[c][j] = log[c][j]  BY <1>1, <1>4
  <2> QED  BY <1>5, <1>11, <2>1 DEF Expired
<1>13. AtMostMax'
  <2> SUFFICES ASSUME NEW d \in Clients, NEW j \in Max + 1 .. Len(log'[d])
               PROVE  log'[d][j].at - log'[d][j - Max].at > Window - ahead
    BY DEF AtMostMax
  <2>1. CASE d # c  BY <1>5, <2>1 DEF AtMostMax
  <2>2. CASE d = c /\ j \in Max + 1 .. L
    <3>1. j \in 1 .. L /\ j - Max \in 1 .. L  BY <1>1, <2>2
    <3>2. log[c][j].at - log[c][j - Max].at > Window - ahead  BY <2>2 DEF AtMostMax
    <3> QED  BY <1>4, <2>2, <3>1, <3>2
  <2>3. CASE d = c /\ j = L + 1
    <3>1. j - Max \in 1 .. n  BY <1>1, <1>4, <1>7, <2>3
    <3>2. j - Max \in 1 .. L  BY <1>1, <3>1
    <3>3. log'[c][j].at = real /\ log'[c][j - Max] = log[c][j - Max]
      BY <1>3, <1>4, <2>3, <3>2
    <3> QED  BY <1>11, <2>3, <3>1, <3>3
  <2> QED  BY <1>1, <1>4, <2>1, <2>2, <2>3
<1>14. RefusalJustified'  BY RateLimitAssumption DEF RefusalJustified
<1> QED  BY <1>8, <1>9, <1>10, <1>12, <1>13, <1>14 DEF Inv

-------------------------------------------------------------------------------
LEMMA InvStep == Inv /\ [Next]_vars => Inv'
<1> SUFFICES ASSUME Inv, [Next]_vars PROVE Inv'  OBVIOUS
<1>1. real \in Nat /\ ahead \in Nat /\ behind \in Nat  BY DEF Inv, TypeOK
<1>2. CASE Tick
  <2>1. real' \in Nat /\ real <= real' /\ ahead' = ahead /\ behind' = behind
    BY <1>1, <1>2 DEF Tick
  <2> QED  BY <1>1, <1>2, <2>1, ClockStep DEF Tick
<1>3. ASSUME NEW d \in Jumps, Adjust(d)  PROVE  Inv'
  <2>1. d \in Int  BY RateLimitAssumption
  <2>2. /\ real' = real /\ log' = log /\ gone' = gone /\ answer' = None
        /\ ahead' \in Nat /\ ahead <= ahead' /\ behind' \in Nat /\ behind <= behind'
    BY <1>1, <1>3, <2>1 DEF Adjust
  <2> QED  BY <1>1, <2>2, ClockStep
<1>4. ASSUME NEW c \in Clients, Request(c)  PROVE  Inv'
  <2>1. PICK n \in gone[c] .. Len(log[c]) :
          /\ Trimmed(c, n)
          /\ gone' = [gone EXCEPT ![c] = n]
          /\ IF Full(c, n)
             THEN answer' = [client |-> c, limited |-> TRUE] /\ UNCHANGED log
             ELSE /\ answer' = [client |-> c, limited |-> FALSE]
                  /\ log' = [log EXCEPT ![c] = Append(@, [at |-> real, stamp |-> Now])]
          /\ UNCHANGED <<real, ahead, behind>>
    BY <1>4 DEF Request
  <2>2. CASE Full(c, n)  BY <2>1, <2>2, RefuseStep
  <2>3. CASE ~Full(c, n)  BY <2>1, <2>3, AdmitStep
  <2> QED  BY <2>2, <2>3
<1>5. CASE UNCHANGED vars
  BY <1>5 DEF vars, Inv, TypeOK, Stamped, Ordered, Expired, AtMostMax, RefusalJustified
<1> QED  BY <1>2, <1>3, <1>4, <1>5 DEF Next

LEMMA Invariance == Spec => []Inv
<1>1. Init => Inv  BY InvInit
<1>2. Inv /\ [Next]_vars => Inv'  BY InvStep
<1> QED  BY <1>1, <1>2, PTL DEF Spec

\* The state of the limiter keeps its shape; no deque ever holds more than the
\* limit.
THEOREM TypeCorrect == Spec => []TypeOK
<1>1. Inv => TypeOK  BY DEF Inv
<1> QED  BY <1>1, Invariance, PTL

\* _rate_limited lets no more than the limit through in any window of real time,
\* less what the clock was set forward.
THEOREM AtMostMaxTheorem == Spec => []AtMostMax
<1>1. Inv => AtMostMax  BY DEF Inv
<1> QED  BY <1>1, Invariance, PTL

\* _rate_limited turns nobody away who did not send the limit within a window,
\* longer than it should be by no more than the clock was set back.
THEOREM RefusalTheorem == Spec => []RefusalJustified
<1>1. Inv => RefusalJustified  BY DEF Inv
<1> QED  BY <1>1, Invariance, PTL
===============================================================================
