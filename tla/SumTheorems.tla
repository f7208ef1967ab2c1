----------------------------- MODULE SumTheorems -----------------------------
(***************************************************************************)
(* Sums of naturals over a finite set, as SumFunctionOnSet adds them up:   *)
(* one element after the other, in an order that CHOOSE settles.           *)
(*                                                                         *)
(* The sum of f over S is the number of its units, the pairs of an x in S  *)
(* and one of 1..f[x]: both satisfy the same recursion, and induction over *)
(* the subsets of S shows that only one function does.  What sums do then  *)
(* follows from what cardinalities do.                                     *)
(***************************************************************************)
EXTENDS FiniteSetsExt, FiniteSetTheorems, WellFoundedInduction, TLAPS

\* Whatever holds of a set once it holds of the set's proper subsets holds of S and of
\* each of its subsets.  (A set of sets stands for the induction hypothesis.)
LEMMA SubsetInduction ==
  ASSUME NEW S, IsFiniteSet(S), NEW G \in SUBSET (SUBSET S),
         \A T \in SUBSET S : (\A U \in SUBSET T : U # T => U \in G) => T \in G
  PROVE  G = SUBSET S
<1> SUFFICES ASSUME (SUBSET S) \ G # {} PROVE FALSE
  OBVIOUS
<1>1. IsWellFoundedOn(StrictSubsetOrdering(S), SUBSET S)
  <2>1. FiniteSubsetsOf(S) = SUBSET S
    BY FS_FiniteSubsetsOfFinite
  <2>2. IsWellFoundedOn(StrictSubsetOrdering(S), FiniteSubsetsOf(S))
    BY FS_StrictSubsetOrderingWellFounded
  <2>3. QED
    BY <2>1, <2>2
<1>2. PICK T \in (SUBSET S) \ G : \A U \in (SUBSET S) \ G : <<U, T>> \notin StrictSubsetOrdering(S)
  <2> DEFINE B == (SUBSET S) \ G
             R == StrictSubsetOrdering(S)
  <2>1. B \subseteq SUBSET S /\ B # {}
    OBVIOUS
  <2> HIDE DEF B, R
  <2>2. IsWellFoundedOn(R, SUBSET S)
    BY <1>1 DEF R
  <2>3. \E T \in B : \A U \in B : ~(<<U, T>> \in R)
    BY <2>1, <2>2, WFMin
  <2>4. QED
    BY <2>3 DEF B, R
<1>3. \A U \in SUBSET T : U # T => U \in G
  BY <1>2 DEF StrictSubsetOrdering
<1>4. QED
  BY <1>2, <1>3

-----------------------------------------------------------------------------
Units(f, S) == UNION {{x} \X (1..f[x]) : x \in S}

First(S) == CHOOSE x \in S : TRUE

\* h adds up f over the subsets of S the way SumFunctionOnSet does.
Adds(h, f, S) ==
    h = [s \in SUBSET S |-> IF s = {} THEN 0 ELSE f[First(s)] + h[s \ {First(s)}]]

LEMMA CardinalityOfDisjoint ==
  ASSUME NEW A, IsFiniteSet(A), NEW B, IsFiniteSet(B), A \cap B = {}
  PROVE  IsFiniteSet(A \cup B) /\ Cardinality(A \cup B) = Cardinality(A) + Cardinality(B)
<1>1. Cardinality(A \cup B) = Cardinality(A) + Cardinality(B) - Cardinality(A \cap B)
  BY FS_Union
<1>2. Cardinality(A \cap B) = 0
  BY FS_EmptySet
<1>3. Cardinality(A) \in Nat /\ Cardinality(B) \in Nat
  BY FS_CardinalityType
<1>4. QED
  BY <1>1, <1>2, <1>3, FS_Union

LEMMA UnitsOfOne ==
  ASSUME NEW f, NEW x, f[x] \in Nat
  PROVE  IsFiniteSet({x} \X (1..f[x])) /\ Cardinality({x} \X (1..f[x])) = f[x]
<1>1. IsFiniteSet({x}) /\ Cardinality({x}) = 1
  BY FS_Singleton
<1>2. IsFiniteSet(1..f[x]) /\ Cardinality(1..f[x]) = f[x]
  <2>1. PICK n \in Nat : n = f[x]
    OBVIOUS
  <2>2. IsFiniteSet(1..n) /\ Cardinality(1..n) = IF 1 > n THEN 0 ELSE n - 1 + 1
    BY FS_Interval
  <2>3. Cardinality(1..n) = n
    BY <2>2
  <2>4. QED
    BY <2>1, <2>2, <2>3
<1> DEFINE I == 1..f[x]
<1> HIDE DEF I
<1>3. IsFiniteSet({x} \X I) /\ Cardinality({x} \X I) = Cardinality({x}) * Cardinality(I)
  BY <1>1, <1>2, FS_Product DEF I
<1>4. QED
  BY <1>1, <1>2, <1>3 DEF I

LEMMA UnitsOfUnion ==
  ASSUME NEW f, NEW S, NEW T
  PROVE  /\ Units(f, S \cup T) = Units(f, S) \cup Units(f, T)
         /\ S \cap T = {} => Units(f, S) \cap Units(f, T) = {}
  BY DEF Units

LEMMA UnitsFinite ==
  ASSUME NEW f, NEW S, IsFiniteSet(S), \A x \in S : f[x] \in Nat
  PROVE  IsFiniteSet(Units(f, S))
<1> DEFINE G == {T \in SUBSET S : IsFiniteSet(Units(f, T))}
<1>1. ASSUME NEW T \in SUBSET S, \A U \in SUBSET T : U # T => U \in G
      PROVE  T \in G
  <2>1. CASE T = {}
    <3>1. Units(f, T) = {}
      BY <2>1 DEF Units
    <3>2. QED
      BY <3>1, FS_EmptySet
  <2>2. ASSUME NEW x \in T PROVE T \in G
    <3>1. IsFiniteSet(Units(f, T \ {x}))
      BY <1>1
    <3>2. Units(f, T) = Units(f, T \ {x}) \cup ({x} \X (1..f[x]))
      BY DEF Units
    <3>3. IsFiniteSet({x} \X (1..f[x]))
      BY UnitsOfOne
    <3>4. Units(f, T \ {x}) \cap ({x} \X (1..f[x])) = {}
      BY DEF Units
    <3> DEFINE A == Units(f, T \ {x})
               B == {x} \X (1..f[x])
    <3>5. /\ IsFiniteSet(A) /\ IsFiniteSet(B)
          /\ A \cap B = {} /\ Units(f, T) = A \cup B
      BY <3>1, <3>2, <3>3, <3>4
    <3> HIDE DEF A, B
    <3>6. IsFiniteSet(A \cup B)
      BY <3>5, CardinalityOfDisjoint
    <3>7. QED
      BY <3>5, <3>6
  <2>3. QED
    BY <2>1, <2>2
<1> HIDE DEF G
<1>2. G \in SUBSET (SUBSET S)
  BY DEF G
<1>3. G = SUBSET S
  BY <1>1, <1>2, SubsetInduction
<1>4. QED
  BY <1>3 DEF G

\* An element more: its units are counted on top of the others.
LEMMA UnitsWith ==
  ASSUME NEW f, NEW S, IsFiniteSet(S), \A x \in S : f[x] \in Nat, NEW x \in S
  PROVE  Cardinality(Units(f, S)) = f[x] + Cardinality(Units(f, S \ {x}))
<1>1. Units(f, S) = Units(f, S \ {x}) \cup ({x} \X (1..f[x]))
  BY DEF Units
<1>2. Units(f, S \ {x}) \cap ({x} \X (1..f[x])) = {}
  BY DEF Units
<1>3. IsFiniteSet(S \ {x}) /\ IsFiniteSet(Units(f, S \ {x}))
  BY FS_RemoveElement, UnitsFinite
<1>4. IsFiniteSet({x} \X (1..f[x])) /\ Cardinality({x} \X (1..f[x])) = f[x]
  BY UnitsOfOne
<1> DEFINE A == Units(f, S \ {x})
           B == {x} \X (1..f[x])
<1>5. Units(f, S) = A \cup B /\ A \cap B = {}
  BY <1>1, <1>2
<1> HIDE DEF A, B
<1>6. Cardinality(Units(f, S)) = Cardinality(A) + Cardinality(B)
  BY <1>3, <1>4, <1>5, CardinalityOfDisjoint DEF A, B
<1>7. Cardinality(A) \in Nat
  BY <1>3, FS_CardinalityType DEF A
<1>8. QED
  BY <1>4, <1>6, <1>7 DEF A, B

\* There is a function that adds up f, and any such function counts units.
LEMMA UnitsAddUp ==
  ASSUME NEW S, IsFiniteSet(S), NEW f, \A x \in S : f[x] \in Nat
  PROVE  Adds([s \in SUBSET S |-> Cardinality(Units(f, s))], f, S)
<1> DEFINE u == [s \in SUBSET S |-> Cardinality(Units(f, s))]
<1>1. ASSUME NEW s \in SUBSET S
      PROVE  Cardinality(Units(f, s)) = IF s = {} THEN 0 ELSE f[First(s)] + u[s \ {First(s)}]
  <2>1. CASE s = {}
    BY <2>1, FS_EmptySet DEF Units
  <2>2. CASE s # {}
    <3>1. First(s) \in s
      BY <2>2 DEF First
    <3>2. IsFiniteSet(s) /\ \A x \in s : f[x] \in Nat
      BY FS_Subset
    <3>3. Cardinality(Units(f, s)) = f[First(s)] + Cardinality(Units(f, s \ {First(s)}))
      BY <3>1, <3>2, UnitsWith
    <3>4. u[s \ {First(s)}] = Cardinality(Units(f, s \ {First(s)}))
      BY <3>1
    <3>5. QED
      BY <2>2, <3>3, <3>4
  <2>3. QED
    BY <2>1, <2>2
<1>2. QED
  BY <1>1, Zenon DEF Adds

LEMMA AddingUpCounts ==
  ASSUME NEW S, IsFiniteSet(S), NEW f, \A x \in S : f[x] \in Nat, NEW h, Adds(h, f, S)
  PROVE  h[S] = Cardinality(Units(f, S))
<1> DEFINE u == [s \in SUBSET S |-> Cardinality(Units(f, s))]
<1>1. Adds(u, f, S)
  BY UnitsAddUp
<1> DEFINE G == {s \in SUBSET S : h[s] = u[s]}
<1> HIDE DEF u
<1>2. ASSUME NEW s \in SUBSET S, \A r \in SUBSET s : r # s => r \in G PROVE s \in G
  <2>1. /\ h[s] = IF s = {} THEN 0 ELSE f[First(s)] + h[s \ {First(s)}]
        /\ u[s] = IF s = {} THEN 0 ELSE f[First(s)] + u[s \ {First(s)}]
    BY <1>1, Zenon DEF Adds
  <2>2. s # {} => First(s) \in s
    BY DEF First
  <2>3. s # {} => h[s \ {First(s)}] = u[s \ {First(s)}]
    BY <1>2, <2>2
  <2>4. QED
    BY <2>1, <2>3
<1>3. G \in SUBSET (SUBSET S)
  OBVIOUS
<1> HIDE DEF G
<1>4. G = SUBSET S
  BY <1>2, <1>3, SubsetInduction
<1>5. h[S] = u[S]
  BY <1>4 DEF G
<1>6. QED
  BY <1>5 DEF u

\* SumFunctionOnSet, one element after the other, counts the units.
THEOREM SumCountsUnits ==
  ASSUME NEW S, IsFiniteSet(S), NEW f, \A x \in S : f[x] \in Nat
  PROVE  SumFunctionOnSet(f, S) = Cardinality(Units(f, S))
<1> DEFINE h == CHOOSE h : Adds(h, f, S)
<1>1. SumFunctionOnSet(f, S) = h[S]
  BY Zenon DEF SumFunctionOnSet, FoldFunctionOnSet, MapThenFoldSet, Adds, First
<1>2. Adds(h, f, S)
  BY UnitsAddUp, Zenon
<1> HIDE DEF h
<1>3. QED
  BY <1>1, <1>2, AddingUpCounts

-----------------------------------------------------------------------------
LEMMA SumIsNat ==
  ASSUME NEW S, IsFiniteSet(S), NEW f, \A x \in S : f[x] \in Nat
  PROVE  SumFunctionOnSet(f, S) \in Nat
  BY SumCountsUnits, UnitsFinite, FS_CardinalityType

LEMMA SumOfNone ==
  ASSUME NEW f
  PROVE  SumFunctionOnSet(f, {}) = 0
<1>1. IsFiniteSet({}) /\ Units(f, {}) = {} /\ Cardinality({}) = 0
  BY FS_EmptySet DEF Units
<1>2. QED
  BY <1>1, SumCountsUnits

LEMMA SumOfDisjoint ==
  ASSUME NEW S, IsFiniteSet(S), NEW T, IsFiniteSet(T), S \cap T = {},
         NEW f, \A x \in S \cup T : f[x] \in Nat
  PROVE  SumFunctionOnSet(f, S \cup T) = SumFunctionOnSet(f, S) + SumFunctionOnSet(f, T)
<1> DEFINE A == Units(f, S)
           B == Units(f, T)
<1>1. Units(f, S \cup T) = A \cup B /\ A \cap B = {}
  BY UnitsOfUnion
<1>2. IsFiniteSet(A) /\ IsFiniteSet(B)
  BY UnitsFinite
<1>3. IsFiniteSet(S \cup T)
  BY FS_Union
<1>4. /\ SumFunctionOnSet(f, S) = Cardinality(A)
      /\ SumFunctionOnSet(f, T) = Cardinality(B)
  BY SumCountsUnits
<1>5. SumFunctionOnSet(f, S \cup T) = Cardinality(Units(f, S \cup T))
  BY <1>3, SumCountsUnits
<1> HIDE DEF A, B
<1>6. Cardinality(A \cup B) = Cardinality(A) + Cardinality(B)
  BY <1>1, <1>2, CardinalityOfDisjoint
<1>7. QED
  BY <1>1, <1>4, <1>5, <1>6

LEMMA SumOfZeros ==
  ASSUME NEW S, IsFiniteSet(S), NEW f, \A x \in S : f[x] = 0
  PROVE  SumFunctionOnSet(f, S) = 0
<1>1. Units(f, S) = {}
  BY DEF Units
<1>2. QED
  BY <1>1, SumCountsUnits, FS_EmptySet

\* One element is taken out.
LEMMA SumWithout ==
  ASSUME NEW S, IsFiniteSet(S), NEW f, \A x \in S : f[x] \in Nat, NEW x \in S
  PROVE  SumFunctionOnSet(f, S) = f[x] + SumFunctionOnSet(f, S \ {x})
<1>1. IsFiniteSet(S \ {x})
  BY FS_RemoveElement
<1>2. SumFunctionOnSet(f, S \ {x}) = Cardinality(Units(f, S \ {x}))
  BY <1>1, SumCountsUnits
<1>3. QED
  BY <1>2, SumCountsUnits, UnitsWith

\* One element is put in.
LEMMA SumWith ==
  ASSUME NEW S, IsFiniteSet(S), NEW f, NEW x, x \notin S, \A y \in S \cup {x} : f[y] \in Nat
  PROVE  SumFunctionOnSet(f, S \cup {x}) = f[x] + SumFunctionOnSet(f, S)
<1>1. IsFiniteSet(S \cup {x})
  BY FS_AddElement
<1>2. (S \cup {x}) \ {x} = S /\ x \in S \cup {x}
  OBVIOUS
<1>3. QED
  BY <1>1, <1>2, SumWithout

LEMMA SumOfSame ==
  ASSUME NEW S, IsFiniteSet(S), NEW f, NEW g, \A x \in S : f[x] \in Nat /\ g[x] = f[x]
  PROVE  SumFunctionOnSet(g, S) = SumFunctionOnSet(f, S)
<1>1. Units(g, S) = Units(f, S)
  BY DEF Units
<1>2. QED
  BY <1>1, SumCountsUnits

\* A sum of no more, over no more, is no more.
LEMMA SumGrows ==
  ASSUME NEW S, IsFiniteSet(S), NEW T \in SUBSET S, NEW f, NEW g,
         \A x \in S : g[x] \in Nat,
         \A x \in T : f[x] \in Nat /\ f[x] <= g[x]
  PROVE  SumFunctionOnSet(f, T) <= SumFunctionOnSet(g, S)
<1>1. Units(f, T) \subseteq Units(g, S)
  <2>1. ASSUME NEW x \in T PROVE {x} \X (1..f[x]) \subseteq {x} \X (1..g[x])
    OBVIOUS
  <2>2. QED
    BY <2>1 DEF Units
<1>2. IsFiniteSet(T)
  BY FS_Subset
<1>3. Cardinality(Units(f, T)) <= Cardinality(Units(g, S))
  BY <1>1, UnitsFinite, FS_Subset
<1>4. QED
  BY <1>2, <1>3, SumCountsUnits

\* Only what is in T too counts, so that the sum over S is no more than that over T.
LEMMA SumOfPart ==
  ASSUME NEW S, IsFiniteSet(S), NEW T, IsFiniteSet(T), NEW f,
         \A x \in S \cup T : f[x] \in Nat,
         \A x \in S \ T : f[x] = 0
  PROVE  SumFunctionOnSet(f, S) <= SumFunctionOnSet(f, T)
<1>1. Units(f, S) \subseteq Units(f, T)
  <2>1. ASSUME NEW x \in S, x \notin T PROVE {x} \X (1..f[x]) = {}
    <3>1. 1..f[x] = {}
      BY <2>1
    <3>2. QED
      BY <3>1
  <2>2. QED
    BY <2>1 DEF Units
<1>2. Cardinality(Units(f, S)) <= Cardinality(Units(f, T))
  BY <1>1, UnitsFinite, FS_Subset
<1>3. QED
  BY <1>2, SumCountsUnits

\* One value changes.
LEMMA SumOfChange ==
  ASSUME NEW S, IsFiniteSet(S), NEW f, \A y \in S : f[y] \in Nat,
         NEW g, NEW x \in S, g[x] \in Nat, \A y \in S \ {x} : g[y] = f[y]
  PROVE  SumFunctionOnSet(g, S) = SumFunctionOnSet(f, S) - f[x] + g[x]
<1>1. \A y \in S : g[y] \in Nat
  OBVIOUS
<1>2. IsFiniteSet(S \ {x})
  BY FS_RemoveElement
<1>3. SumFunctionOnSet(g, S \ {x}) = SumFunctionOnSet(f, S \ {x})
  BY <1>2, SumOfSame
<1>4. SumFunctionOnSet(g, S) = g[x] + SumFunctionOnSet(g, S \ {x})
  BY <1>1, SumWithout
<1>5. SumFunctionOnSet(f, S) = f[x] + SumFunctionOnSet(f, S \ {x})
  BY SumWithout
<1>6. SumFunctionOnSet(f, S \ {x}) \in Nat
  BY <1>2, SumIsNat
<1>7. QED
  BY <1>3, <1>4, <1>5, <1>6
===============================================================================
