------------------------------ MODULE MoneyProofs ------------------------------
(* Laws of rounding and of totals, for every amount and every finite set. *)
EXTENDS Money, FiniteSetTheorems, FunctionTheorems, TLAPS

-------------------------------------------------------------------------------
(* Rounding *)

\* A non-negative amount converts to a natural number of micro-dollars.
LEMMA ToMicrosType ==
  ASSUME NEW a \in Nat
  PROVE  ToMicros(a) \in Nat
BY DEF ToMicros, NanosPerMicro

\* Rounding keeps the order: what fits still fits once it is converted.
LEMMA ToMicrosMonotone ==
  ASSUME NEW a \in Nat, NEW b \in Nat, a <= b
  PROVE  ToMicros(a) <= ToMicros(b)
BY DEF ToMicros, NanosPerMicro

\* Rounding moves an amount by at most half a micro-dollar.
LEMMA ToMicrosError ==
  ASSUME NEW a \in Nat
  PROVE  /\ NanosPerMicro * ToMicros(a) <= a + 500
         /\ a <= NanosPerMicro * ToMicros(a) + 500
BY DEF ToMicros, NanosPerMicro

-------------------------------------------------------------------------------
(* Totals *)

\* The units of a finite set of natural weights are finitely many.
LEMMA UnitsFinite ==
  ASSUME NEW S, IsFiniteSet(S), NEW weight, \A x \in S : weight[x] \in Nat
  PROVE  IsFiniteSet(Units(S, weight))
<1> DEFINE block == [x \in S |-> {x} \X (1 .. weight[x])]
           Blocks == { {x} \X (1 .. weight[x]) : x \in S }
<1>1. block \in Surjection(S, Blocks)
  <2>1. block \in [S -> Blocks]  OBVIOUS
  <2>2. \A b \in Blocks : \E x \in S : block[x] = b  OBVIOUS
  <2> HIDE DEF block, Blocks
  <2> QED  BY <2>1, <2>2, Fun_IsSurj
<1>2. IsFiniteSet(Blocks)
  <2> HIDE DEF block, Blocks
  <2> QED  BY <1>1, FS_Surjection
<1>3. \A b \in Blocks : IsFiniteSet(b)
  <2> SUFFICES ASSUME NEW x \in S PROVE IsFiniteSet({x} \X (1 .. weight[x]))
    OBVIOUS
  <2>1. IsFiniteSet({x})  BY FS_Singleton
  <2>2. IsFiniteSet(1 .. weight[x])
    <3>1. weight[x] \in Int  OBVIOUS
    <3> QED  BY <3>1, FS_Interval
  <2> QED  BY <2>1, <2>2, FS_Product
<1>4. IsFiniteSet(UNION Blocks)
  <2> HIDE DEF Blocks
  <2> QED  BY <1>2, <1>3, FS_UNION
<1> QED  BY <1>4 DEF Units

LEMMA TotalType ==
  ASSUME NEW S, IsFiniteSet(S), NEW weight, \A x \in S : weight[x] \in Nat
  PROVE  Total(S, weight) \in Nat
BY UnitsFinite, FS_CardinalityType DEF Total

LEMMA TotalEmpty ==
  ASSUME NEW weight
  PROVE  Total({}, weight) = 0
<1>1. Units({}, weight) = {}  BY DEF Units
<1> QED  BY <1>1, FS_EmptySet DEF Total

\* A total depends on the weights of the elements only.
LEMMA TotalSame ==
  ASSUME NEW S, NEW v, NEW w, \A x \in S : v[x] = w[x]
  PROVE  Total(S, v) = Total(S, w)
<1>1. Units(S, v) = Units(S, w)  BY DEF Units
<1> QED  BY <1>1 DEF Total

LEMMA TotalAdd ==
  ASSUME NEW S, IsFiniteSet(S), NEW x, x \notin S, NEW weight,
         \A y \in S \cup {x} : weight[y] \in Nat
  PROVE  Total(S \cup {x}, weight) = Total(S, weight) + weight[x]
<1> DEFINE B == {x} \X (1 .. weight[x])
<1>1. Units(S \cup {x}, weight) = Units(S, weight) \cup B  BY DEF Units
<1>2. Units(S, weight) \cap B = {}  BY DEF Units
<1>3. IsFiniteSet(Units(S, weight))  BY UnitsFinite
<1>4. IsFiniteSet(B) /\ Cardinality(B) = weight[x]
  <2>1. IsFiniteSet({x}) /\ Cardinality({x}) = 1  BY FS_Singleton
  <2>2. IsFiniteSet(1 .. weight[x]) /\ Cardinality(1 .. weight[x]) = weight[x]
    <3>1. weight[x] \in Nat /\ weight[x] \in Int /\ 1 \in Int  OBVIOUS
    <3>2. /\ IsFiniteSet(1 .. weight[x])
          /\ Cardinality(1 .. weight[x]) = IF 1 > weight[x] THEN 0 ELSE weight[x] - 1 + 1
      BY <3>1, FS_Interval
    <3> QED  BY <3>1, <3>2
  <2>3. IsFiniteSet(B) /\ Cardinality(B) = Cardinality({x}) * Cardinality(1 .. weight[x])
    BY <2>1, <2>2, FS_Product
  <2> QED  BY <2>1, <2>2, <2>3
<1>5. Cardinality(Units(S, weight) \cap B) = 0  BY <1>2, FS_EmptySet
<1>6. Cardinality(Units(S, weight)) \in Nat  BY <1>3, FS_CardinalityType
<1>7. Cardinality(Units(S, weight) \cup B)
        = Cardinality(Units(S, weight)) + Cardinality(B) - Cardinality(Units(S, weight) \cap B)
  <2> HIDE DEF B
  <2> QED  BY <1>3, <1>4, FS_Union
<1>8. weight[x] \in Nat  OBVIOUS
<1> HIDE DEF B
<1>9. Cardinality(Units(S, weight) \cup B) = Cardinality(Units(S, weight)) + weight[x]
  BY <1>4, <1>5, <1>6, <1>7, <1>8
<1> QED  BY <1>1, <1>9 DEF Total

LEMMA TotalRemove ==
  ASSUME NEW S, IsFiniteSet(S), NEW x \in S, NEW weight,
         \A y \in S : weight[y] \in Nat
  PROVE  Total(S \ {x}, weight) = Total(S, weight) - weight[x]
<1> DEFINE R == S \ {x}
<1>1. IsFiniteSet(R)  BY FS_RemoveElement
<1>2. R \cup {x} = S  OBVIOUS
<1>3. x \notin R /\ \A y \in R \cup {x} : weight[y] \in Nat  OBVIOUS
<1>4. Total(R, weight) \in Nat  BY <1>1, TotalType
<1>5. Total(R \cup {x}, weight) = Total(R, weight) + weight[x]
  <2> HIDE DEF R
  <2> QED  BY <1>1, <1>3, TotalAdd
<1>6. weight[x] \in Nat  OBVIOUS
<1>7. Total(S, weight) = Total(R, weight) + weight[x]  BY <1>2, <1>5
<1> HIDE DEF R
<1>8. Total(R, weight) = Total(S, weight) - weight[x]  BY <1>4, <1>6, <1>7
<1> QED  BY <1>8 DEF R

\* A part weighs no more than the whole.
LEMMA TotalMonotone ==
  ASSUME NEW S, IsFiniteSet(S), NEW T, T \subseteq S, NEW weight,
         \A x \in S : weight[x] \in Nat
  PROVE  Total(T, weight) <= Total(S, weight)
<1>1. IsFiniteSet(Units(S, weight))  BY UnitsFinite
<1>2. Units(T, weight) \subseteq Units(S, weight)  BY DEF Units
<1> QED  BY <1>1, <1>2, FS_Subset DEF Total

\* Elements that weigh nothing can be left out.
LEMMA TotalRestrict ==
  ASSUME NEW S, NEW T, T \subseteq S, NEW v, NEW w,
         \A x \in T : v[x] = w[x], \A x \in S \ T : w[x] = 0
  PROVE  Total(T, v) = Total(S, w)
<1>1. Units(T, v) = Units(S, w)
  <2>1. \A x \in S \ T : 1 .. w[x] = {}  OBVIOUS
  <2>2. Units(S, w) \subseteq Units(T, v)  BY <2>1 DEF Units
  <2>3. Units(T, v) \subseteq Units(S, w)  BY DEF Units
  <2> QED  BY <2>2, <2>3
<1> QED  BY <1>1 DEF Total

\* One weight changes.
LEMMA TotalUpdate ==
  ASSUME NEW S, IsFiniteSet(S), NEW x \in S, NEW v, NEW w,
         \A y \in S : v[y] \in Nat, \A y \in S : w[y] \in Nat,
         \A y \in S \ {x} : v[y] = w[y]
  PROVE  Total(S, w) = Total(S, v) - v[x] + w[x]
<1>1. Total(S \ {x}, v) = Total(S, v) - v[x]  BY TotalRemove
<1>2. Total(S \ {x}, w) = Total(S, w) - w[x]  BY TotalRemove
<1>3. Total(S \ {x}, v) = Total(S \ {x}, w)  BY TotalSame
<1>4. Total(S, v) \in Nat /\ Total(S, w) \in Nat /\ v[x] \in Nat /\ w[x] \in Nat
  BY TotalType
<1> QED  BY <1>1, <1>2, <1>3, <1>4

\* Two parts that have nothing in common weigh no more together than the whole,
\* also if some of their elements are taken to weigh less.
LEMMA TotalParts ==
  ASSUME NEW S, IsFiniteSet(S), NEW A, A \subseteq S, NEW B, B \subseteq S, A \cap B = {},
         NEW w, \A x \in S : w[x] \in Nat,
         NEW y, \A x \in A : y[x] \in Nat /\ y[x] <= w[x],
         NEW z, \A x \in B : z[x] \in Nat /\ z[x] <= w[x]
  PROVE  Total(A, y) + Total(B, z) <= Total(S, w)
<1>1. IsFiniteSet(A) /\ IsFiniteSet(B)  BY FS_Subset
<1>2. IsFiniteSet(Units(A, y)) /\ IsFiniteSet(Units(B, z)) /\ IsFiniteSet(Units(S, w))
  BY <1>1, UnitsFinite
<1>3. Units(A, y) \subseteq Units(S, w)
  <2>1. \A x \in A : 1 .. y[x] \subseteq 1 .. w[x]  OBVIOUS
  <2> QED  BY <2>1 DEF Units
<1>4. Units(B, z) \subseteq Units(S, w)
  <2>1. \A x \in B : 1 .. z[x] \subseteq 1 .. w[x]  OBVIOUS
  <2> QED  BY <2>1 DEF Units
<1>5. Units(A, y) \cap Units(B, z) = {}  BY DEF Units
<1>6. Cardinality(Units(A, y) \cup Units(B, z))
        = Cardinality(Units(A, y)) + Cardinality(Units(B, z))
            - Cardinality(Units(A, y) \cap Units(B, z))
  BY <1>2, FS_Union
<1>7. Cardinality(Units(A, y) \cap Units(B, z)) = 0  BY <1>5, FS_EmptySet
<1>8. Cardinality(Units(A, y) \cup Units(B, z)) <= Cardinality(Units(S, w))
  BY <1>2, <1>3, <1>4, FS_Subset
<1>9. Total(A, y) \in Nat /\ Total(B, z) \in Nat /\ Total(S, w) \in Nat
  BY <1>1, TotalType
<1> QED  BY <1>6, <1>7, <1>8, <1>9 DEF Total
===============================================================================
