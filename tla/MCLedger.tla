------------------------------- MODULE MCLedger -------------------------------
(* Small instances of Ledger.  Amounts are nano-dollars. *)
EXTENDS Ledger, TLC, FiniteSetsExt

\* One budget with a ceiling of 5 micro-dollars; the other key is unknown.
CeilingOne == [k \in {"team"} |-> 5000]

\* A ceiling that one reservation fills: a third one fits only because a reset
\* forgot the first and the first was then given back again.
CeilingTight == [k \in {"team"} |-> 3000]

AmountsSigned == {-1000, 2000, 3400}
ActualsMixed == {-1000, 1500, 9000}

\* Whole micro-dollars.
AmountsWhole == {2000, 3000}
ActualsWhole == {1000, 9000}
AmountsSame == {2000}
ActualsOne  == {1000}

\* to_micros returns a number of micro-dollars that is nearest to the amount,
\* and of two equally near ones the one farther from zero.
Abs(x) == Greatest(x, -x)

ASSUME NearestMicro ==
  \A nanos \in -2600 .. 2600 :
    LET m == ToMicros(nanos)
        off(j) == Abs(NanosPerMicro * j - nanos)
    IN  \A j \in m - 2 .. m + 2 :
          j = m \/ off(m) < off(j) \/ (off(m) = off(j) /\ Abs(j) < Abs(m))

\* Total is the sum of the community modules.
ASSUME TotalIsSum ==
  \A weight \in [1 .. 3 -> 0 .. 3] : \A S \in SUBSET (1 .. 3) :
    Total(S, weight) = MapThenSumSet(LAMBDA x : weight[x], S)

\* Reservation ids, and threads with the same rights, are interchangeable.
Symmetry == Permutations(Ids) \cup Permutations(Threads \ (Sweepers \cup Resetters))
===============================================================================
