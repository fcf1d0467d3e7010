-------------------------------- MODULE Money --------------------------------
(***************************************************************************)
(* Amounts of money as src/fusegrid/store.py keeps them.  A dollar amount  *)
(* of the code (a float) is an integer number of nano-dollars here, a      *)
(* thousandth of the micro-dollar in which the stores count, so that the   *)
(* rounding of to_micros is visible and every equation is exact.  The      *)
(* binary representation of the float itself is abstracted.                *)
(***************************************************************************)
EXTENDS Integers, FiniteSets

\* Nano-dollars in one micro-dollar.
NanosPerMicro == 1000

\* to_micros: int() truncates towards zero after half a micro-dollar has been
\* added to a non-negative amount or taken from a negative one, so halves move
\* away from zero.  \div rounds down, hence the two signs.
ToMicros(nanos) ==
  IF nanos >= 0 THEN (nanos + 500) \div NanosPerMicro
                ELSE -((500 - nanos) \div NanosPerMicro)

\* min() and max() of Python on two numbers.
Least(a, b)    == IF a <= b THEN a ELSE b
Greatest(a, b) == IF a >= b THEN a ELSE b

(***************************************************************************)
(* The sum of weight[x] over the finite set S, as the number of elements   *)
(* of a set that holds weight[x] distinct pairs for each x.  It equals the *)
(* fold MapThenSumSet of FiniteSetsExt (MCLedger compares the two); written *)
(* this way its laws follow from the theorems on cardinality.              *)
(***************************************************************************)
Units(S, weight) == UNION { {x} \X (1 .. weight[x]) : x \in S }

Total(S, weight) == Cardinality(Units(S, weight))
===============================================================================
