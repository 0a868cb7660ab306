----------------------------- MODULE SumTheorems -----------------------------
(***************************************************************************)
(* What the sums of the community modules compute, for every function and  *)
(* every finite set: SumFunctionOnSet takes the elements in an order that  *)
(* CHOOSE settles, so that even "the sum over a set with one more element" *)
(* needs a proof.  The balances, supplies and byte counters of the other   *)
(* modules are such sums.  And what a function defined by recursion on     *)
(* numbers is, for the loops of the other modules.                         *)
(***************************************************************************)
EXTENDS Integers, Functions, FiniteSets, FiniteSetTheorems, WellFoundedInduction, TLAPS

\* Every non-empty set of naturals has a least element.
LEMMA LeastElement ==
    ASSUME NEW T, T \subseteq Nat, T # {}
    PROVE  \E x \in T : \A y \in T : ~(y < x)
  <1> DEFINE R == OpToRel(<, Nat)
  <1>1. IsWellFoundedOn(R, Nat)
    BY NatLessThanWellFounded
  <1>2. \A x, y \in Nat : x < y => <<x, y>> \in R
    BY DEF OpToRel
  <1> HIDE DEF R
  <1>3. PICK x \in T : \A y \in T : ~(<<y, x>> \in R)
    BY <1>1, WFMin
  <1> QED BY <1>2, <1>3

\* Induction over the naturals, for a property given as a set.
LEMMA NatSetInduction ==
    ASSUME NEW U, 0 \in U, \A n \in Nat : n \in U => n + 1 \in U
    PROVE  Nat \subseteq U
  <1> DEFINE T == Nat \ U
  <1> SUFFICES ASSUME T # {} PROVE FALSE
    OBVIOUS
  <1>1. PICK n \in T : \A m \in T : ~(m < n)
    <2>1. T \subseteq Nat
      OBVIOUS
    <2> HIDE DEF T
    <2> QED BY <2>1, LeastElement
  <1>2. n # 0 /\ n - 1 \in Nat /\ n - 1 < n /\ (n - 1) + 1 = n
    OBVIOUS
  <1>3. n - 1 \in U
    BY <1>1, <1>2
  <1> QED BY <1>2, <1>3

\* Induction over the subsets of a finite set, one element at a time.
LEMMA SubsetInduction ==
    ASSUME NEW S, IsFiniteSet(S), NEW U, {} \in U,
           \A T \in SUBSET S : \A x \in S : T \in U /\ x \notin T => T \cup {x} \in U
    PROVE  \A T \in SUBSET S : T \in U
  <1> DEFINE V == {n \in Nat : \A T \in SUBSET S : Cardinality(T) = n => T \in U}
  <1>0. \A T \in SUBSET S : IsFiniteSet(T) /\ Cardinality(T) \in Nat
    BY FS_Subset, FS_CardinalityType
  <1>1. 0 \in V
    BY <1>0, FS_EmptySet
  <1>2. ASSUME NEW n \in Nat, n \in V PROVE n + 1 \in V
    <2> SUFFICES ASSUME NEW T \in SUBSET S, Cardinality(T) = n + 1 PROVE T \in U
      OBVIOUS
    <2>1. T # {}
      <3>1. Cardinality({}) = 0
        BY FS_EmptySet
      <3> QED BY <3>1
    <2>2. PICK x : x \in T
      BY <2>1
    <2>3. Cardinality(T \ {x}) = n
      <3>1. Cardinality(T \ {x}) = Cardinality(T) - 1
        BY <1>0, <2>2, FS_RemoveElement
      <3> QED BY <3>1
    <2>4. T \ {x} \in SUBSET S /\ x \in S /\ x \notin T \ {x} /\ (T \ {x}) \cup {x} = T
      BY <2>2
    <2>5. T \ {x} \in U
      BY <1>2, <2>3, <2>4
    <2> QED BY <2>4, <2>5
  <1> HIDE DEF V
  <1>3. Nat \subseteq V
    BY <1>1, <1>2, NatSetInduction
  <1> SUFFICES ASSUME NEW T \in SUBSET S PROVE T \in U
    OBVIOUS
  <1>4. Cardinality(T) \in V
    BY <1>0, <1>3
  <1> QED BY <1>4 DEF V

-------------------------------------------------------------------------------
(* The recursion behind the sum.                                           *)

\* The element that the recursion takes first.
First(s) == CHOOSE x \in s : TRUE

\* g computes the sums over the subsets in D.
Sums(f, D, g) ==
    g = [s \in D |-> IF s = {} THEN 0 ELSE f[First(s)] + g[s \ {First(s)}]]

LEMMA FirstIn == ASSUME NEW s, s # {} PROVE First(s) \in s
  BY DEF First

LEMMA SumIsChoice ==
    ASSUME NEW f, NEW S
    PROVE  SumFunctionOnSet(f, S) = (CHOOSE g : Sums(f, SUBSET S, g))[S]
  BY DEF SumFunctionOnSet, FoldFunctionOnSet, MapThenFoldSet, Sums, First

\* The recursion has a solution, by induction on the size of the subsets.
LEMMA SumsExist ==
    ASSUME NEW f, NEW S, IsFiniteSet(S)
    PROVE  \E g : Sums(f, SUBSET S, g)
  <1> DEFINE D(n) == {s \in SUBSET S : Cardinality(s) <= n}
             V == {n \in Nat : \E g : Sums(f, D(n), g)}
  <1>0. \A s \in SUBSET S : /\ IsFiniteSet(s) /\ Cardinality(s) \in Nat
                            /\ Cardinality(s) <= Cardinality(S)
                            /\ s = {} <=> Cardinality(s) = 0
    BY FS_Subset, FS_CardinalityType, FS_EmptySet
  <1>d. ASSUME NEW s \in SUBSET S, s # {}
        PROVE  /\ s \ {First(s)} \in SUBSET S
               /\ Cardinality(s \ {First(s)}) = Cardinality(s) - 1
    BY <1>0, <1>d, FirstIn, FS_RemoveElement
  <1>1. 0 \in V
    <2> DEFINE g == [s \in D(0) |-> 0]
    <2>1. \A s \in D(0) : s = {}
      BY <1>0
    <2>2. Sums(f, D(0), g)
      BY <2>1 DEF Sums
    <2> QED BY <2>2
  <1>2. ASSUME NEW n \in Nat, n \in V PROVE n + 1 \in V
    <2>1. PICK g : Sums(f, D(n), g)
      BY <1>2
    <2> DEFINE h == [s \in D(n + 1) |-> IF s = {} THEN 0 ELSE f[First(s)] + g[s \ {First(s)}]]
    <2>2. \A s \in D(n) : s \in D(n + 1)
      BY <1>0
    <2>3. \A s \in D(n + 1) : s # {} => s \ {First(s)} \in D(n)
      BY <1>0, <1>d
    <2>4. \A s \in D(n) : h[s] = g[s]
      BY <2>1, <2>2 DEF Sums
    <2>5. h = [s \in D(n + 1) |-> IF s = {} THEN 0 ELSE f[First(s)] + h[s \ {First(s)}]]
      <3> HIDE DEF D
      <3>1. \A s \in D(n + 1) : s # {} => h[s \ {First(s)}] = g[s \ {First(s)}]
        BY <2>3, <2>4
      <3>2. \A s \in D(n + 1) :
              (IF s = {} THEN 0 ELSE f[First(s)] + g[s \ {First(s)}])
                = IF s = {} THEN 0 ELSE f[First(s)] + h[s \ {First(s)}]
        <4> HIDE DEF h
        <4> QED BY <3>1
      <3> QED BY <3>2
    <2>6. Sums(f, D(n + 1), h)
      BY <2>5 DEF Sums
    <2> HIDE DEF h
    <2> QED BY <2>6
  <1> HIDE DEF V
  <1>3. Nat \subseteq V
    BY <1>1, <1>2, NatSetInduction
  <1>4. Cardinality(S) \in V /\ D(Cardinality(S)) = SUBSET S
    BY <1>0, <1>3, FS_CardinalityType
  <1> QED BY <1>4 DEF V

\* Two solutions agree where both are defined.
LEMMA SumsAgree ==
    ASSUME NEW f, NEW g, NEW h, NEW S, NEW T, IsFiniteSet(S), T \subseteq S,
           Sums(f, SUBSET S, g), Sums(f, SUBSET T, h)
    PROVE  h[T] = g[T]
  <1> DEFINE V == {n \in Nat : \A s \in SUBSET T : Cardinality(s) = n => h[s] = g[s]}
  <1>0. \A s \in SUBSET T : /\ s \in SUBSET S
                            /\ IsFiniteSet(s) /\ Cardinality(s) \in Nat
                            /\ s = {} <=> Cardinality(s) = 0
    BY FS_Subset, FS_CardinalityType, FS_EmptySet
  <1>1. /\ \A s \in SUBSET S : g[s] = IF s = {} THEN 0 ELSE f[First(s)] + g[s \ {First(s)}]
        /\ \A s \in SUBSET T : h[s] = IF s = {} THEN 0 ELSE f[First(s)] + h[s \ {First(s)}]
    BY DEF Sums
  <1>2. 0 \in V
    BY <1>0, <1>1
  <1>3. ASSUME NEW n \in Nat, n \in V PROVE n + 1 \in V
    <2> SUFFICES ASSUME NEW s \in SUBSET T, Cardinality(s) = n + 1 PROVE h[s] = g[s]
      OBVIOUS
    <2>1. s # {}
      BY <1>0
    <2>2. s \ {First(s)} \in SUBSET T /\ Cardinality(s \ {First(s)}) = n
      <3>1. Cardinality(s \ {First(s)}) = Cardinality(s) - 1
        BY <1>0, <2>1, FirstIn, FS_RemoveElement
      <3> QED BY <3>1
    <2>3. h[s \ {First(s)}] = g[s \ {First(s)}]
      BY <1>3, <2>2
    <2> QED BY <1>0, <1>1, <2>1, <2>3
  <1> HIDE DEF V
  <1>4. Nat \subseteq V
    BY <1>2, <1>3, NatSetInduction
  <1>5. Cardinality(T) \in V
    BY <1>0, <1>4
  <1> QED BY <1>5 DEF V

\* The sum over a subset is the value of any solution there.
LEMMA SumIsValue ==
    ASSUME NEW f, NEW S, IsFiniteSet(S), NEW T, T \subseteq S,
           NEW g, Sums(f, SUBSET S, g)
    PROVE  SumFunctionOnSet(f, T) = g[T]
  <1> DEFINE h == CHOOSE k : Sums(f, SUBSET T, k)
  <1>1. Sums(f, SUBSET T, h)
    BY FS_Subset, SumsExist
  <1> HIDE DEF h
  <1>2. h[T] = g[T]
    BY <1>1, SumsAgree
  <1> QED BY <1>2, SumIsChoice DEF h

LEMMA SumUnfold ==
    ASSUME NEW f, NEW S, IsFiniteSet(S)
    PROVE  /\ SumFunctionOnSet(f, {}) = 0
           /\ S # {} => SumFunctionOnSet(f, S)
                          = f[First(S)] + SumFunctionOnSet(f, S \ {First(S)})
  <1>1. PICK g : Sums(f, SUBSET S, g)
    BY SumsExist
  <1>2. \A s \in SUBSET S : g[s] = IF s = {} THEN 0 ELSE f[First(s)] + g[s \ {First(s)}]
    BY <1>1 DEF Sums
  <1>3. \A T \in SUBSET S : SumFunctionOnSet(f, T) = g[T]
    BY <1>1, SumIsValue
  <1> QED BY <1>2, <1>3

-------------------------------------------------------------------------------
(* The order does not matter.                                              *)

\* Sums of integers are integers, sums of naturals naturals.
LEMMA SumType ==
    ASSUME NEW f, NEW S, IsFiniteSet(S), \A x \in S : f[x] \in Int
    PROVE  /\ SumFunctionOnSet(f, S) \in Int
           /\ (\A x \in S : f[x] \in Nat) => SumFunctionOnSet(f, S) \in Nat
  <1> DEFINE V == {n \in Nat : \A T \in SUBSET S : Cardinality(T) = n =>
                     /\ SumFunctionOnSet(f, T) \in Int
                     /\ (\A x \in S : f[x] \in Nat) => SumFunctionOnSet(f, T) \in Nat}
  <1>0. \A T \in SUBSET S : /\ IsFiniteSet(T) /\ Cardinality(T) \in Nat
                            /\ T = {} <=> Cardinality(T) = 0
    BY FS_Subset, FS_CardinalityType, FS_EmptySet
  <1>1. 0 \in V
    <2>1. SumFunctionOnSet(f, {}) = 0
      BY SumUnfold
    <2> QED BY <1>0, <2>1
  <1>2. ASSUME NEW n \in Nat, n \in V PROVE n + 1 \in V
    <2> SUFFICES ASSUME NEW T \in SUBSET S, Cardinality(T) = n + 1
                 PROVE  /\ SumFunctionOnSet(f, T) \in Int
                        /\ (\A x \in S : f[x] \in Nat) => SumFunctionOnSet(f, T) \in Nat
      OBVIOUS
    <2> DEFINE c == First(T)
    <2>1. T # {} /\ c \in T
      BY <1>0, FirstIn
    <2>2. T \ {c} \in SUBSET S /\ Cardinality(T \ {c}) = n
      <3>1. Cardinality(T \ {c}) = Cardinality(T) - 1
        BY <1>0, <2>1, FS_RemoveElement
      <3> QED BY <3>1
    <2>3. SumFunctionOnSet(f, T) = f[c] + SumFunctionOnSet(f, T \ {c})
      BY <1>0, <2>1, SumUnfold
    <2> HIDE DEF c
    <2> QED BY <1>2, <2>1, <2>2, <2>3
  <1> HIDE DEF V
  <1>3. Nat \subseteq V
    BY <1>1, <1>2, NatSetInduction
  <1>4. Cardinality(S) \in V
    BY <1>0, <1>3
  <1> QED BY <1>4 DEF V

\* Any element may be taken first.
LEMMA SumTake ==
    ASSUME NEW f, NEW S, IsFiniteSet(S), \A x \in S : f[x] \in Int, NEW a \in S
    PROVE  SumFunctionOnSet(f, S) = f[a] + SumFunctionOnSet(f, S \ {a})
  <1> DEFINE V == {n \in Nat : \A T \in SUBSET S : Cardinality(T) = n =>
                     \A x \in T : SumFunctionOnSet(f, T) = f[x] + SumFunctionOnSet(f, T \ {x})}
  <1>0. \A T \in SUBSET S : /\ IsFiniteSet(T) /\ Cardinality(T) \in Nat
                            /\ T = {} <=> Cardinality(T) = 0
                            /\ SumFunctionOnSet(f, T) \in Int
    BY FS_Subset, FS_CardinalityType, FS_EmptySet, SumType
  <1>1. 0 \in V
    BY <1>0
  <1>2. ASSUME NEW n \in Nat, n \in V PROVE n + 1 \in V
    <2> SUFFICES ASSUME NEW T \in SUBSET S, Cardinality(T) = n + 1, NEW x \in T
                 PROVE  SumFunctionOnSet(f, T) = f[x] + SumFunctionOnSet(f, T \ {x})
      OBVIOUS
    <2> DEFINE c == First(T)
    <2>1. c \in T
      BY FirstIn
    <2>2. SumFunctionOnSet(f, T) = f[c] + SumFunctionOnSet(f, T \ {c})
      BY <1>0, SumUnfold
    <2> HIDE DEF c
    <2>3. CASE c = x
      BY <2>2, <2>3
    <2>4. CASE c # x
      <3>1. /\ T \ {c} \in SUBSET S /\ T \ {x} \in SUBSET S
            /\ x \in T \ {c} /\ c \in T \ {x}
            /\ (T \ {c}) \ {x} = (T \ {x}) \ {c}
            /\ (T \ {c}) \ {x} \in SUBSET S
        BY <2>1, <2>4
      <3>2. Cardinality(T \ {c}) = n /\ Cardinality(T \ {x}) = n
        <4>1. Cardinality(T \ {c}) = Cardinality(T) - 1 /\ Cardinality(T \ {x}) = Cardinality(T) - 1
          BY <1>0, <2>1, FS_RemoveElement
        <4> QED BY <4>1
      <3>3. SumFunctionOnSet(f, T \ {c}) = f[x] + SumFunctionOnSet(f, (T \ {c}) \ {x})
        BY <1>2, <3>1, <3>2
      <3>4. SumFunctionOnSet(f, T \ {x}) = f[c] + SumFunctionOnSet(f, (T \ {c}) \ {x})
        BY <1>2, <3>1, <3>2
      <3>5. f[c] \in Int /\ f[x] \in Int /\ SumFunctionOnSet(f, (T \ {c}) \ {x}) \in Int
        BY <1>0, <2>1, <3>1
      <3> QED BY <2>2, <3>3, <3>4, <3>5
    <2> QED BY <2>3, <2>4
  <1> HIDE DEF V
  <1>3. Nat \subseteq V
    BY <1>1, <1>2, NatSetInduction
  <1>4. Cardinality(S) \in V
    BY <1>0, <1>3
  <1> QED BY <1>4 DEF V

\* One more element.
LEMMA SumAdd ==
    ASSUME NEW f, NEW S, IsFiniteSet(S), NEW a, a \notin S, \A x \in S \cup {a} : f[x] \in Int
    PROVE  SumFunctionOnSet(f, S \cup {a}) = f[a] + SumFunctionOnSet(f, S)
  <1>1. IsFiniteSet(S \cup {a})
    BY FS_AddElement
  <1>2. (S \cup {a}) \ {a} = S
    OBVIOUS
  <1> QED BY <1>1, <1>2, SumTake

\* The sum over two sets without a common element.
LEMMA SumUnion ==
    ASSUME NEW f, NEW S, NEW T, IsFiniteSet(S), IsFiniteSet(T), S \cap T = {},
           \A x \in S \cup T : f[x] \in Int
    PROVE  SumFunctionOnSet(f, S \cup T) = SumFunctionOnSet(f, S) + SumFunctionOnSet(f, T)
  <1> DEFINE U == {R \in SUBSET T : SumFunctionOnSet(f, S \cup R)
                                      = SumFunctionOnSet(f, S) + SumFunctionOnSet(f, R)}
  <1>0. \A R \in SUBSET T : IsFiniteSet(R) /\ IsFiniteSet(S \cup R)
    BY FS_Subset, FS_Union
  <1>t. SumFunctionOnSet(f, S) \in Int /\ \A R \in SUBSET T : SumFunctionOnSet(f, R) \in Int
    BY <1>0, SumType
  <1>1. {} \in U
    <2>1. SumFunctionOnSet(f, {}) = 0 /\ S \cup {} = S
      BY SumUnfold
    <2> QED BY <1>t, <2>1
  <1>2. ASSUME NEW R \in SUBSET T, NEW x \in T, R \in U, x \notin R PROVE R \cup {x} \in U
    <2>1. /\ R \cup {x} \in SUBSET T /\ x \notin S \cup R /\ f[x] \in Int
          /\ S \cup (R \cup {x}) = (S \cup R) \cup {x}
      BY <1>2
    <2>2. SumFunctionOnSet(f, (S \cup R) \cup {x}) = f[x] + SumFunctionOnSet(f, S \cup R)
      BY <1>0, <2>1, SumAdd
    <2>3. SumFunctionOnSet(f, R \cup {x}) = f[x] + SumFunctionOnSet(f, R)
      BY <1>0, <1>2, <2>1, SumAdd
    <2> QED BY <1>2, <1>t, <2>1, <2>2, <2>3
  <1> HIDE DEF U
  <1>3. T \in U
    BY <1>1, <1>2, SubsetInduction
  <1> QED BY <1>3 DEF U

\* Naturals: a larger set has the larger sum.
LEMMA SumMonotone ==
    ASSUME NEW f, NEW S, NEW T, IsFiniteSet(T), S \subseteq T, \A x \in T : f[x] \in Nat
    PROVE  SumFunctionOnSet(f, S) <= SumFunctionOnSet(f, T)
  <1>1. IsFiniteSet(S) /\ IsFiniteSet(T \ S) /\ S \cap (T \ S) = {} /\ S \cup (T \ S) = T
    BY FS_Subset
  <1>2. \A x \in S \cup (T \ S) : f[x] \in Int /\ f[x] \in Nat
    BY <1>1
  <1>3. SumFunctionOnSet(f, S) \in Nat /\ SumFunctionOnSet(f, T \ S) \in Nat
    BY <1>1, <1>2, SumType
  <1>4. SumFunctionOnSet(f, T) = SumFunctionOnSet(f, S) + SumFunctionOnSet(f, T \ S)
    BY <1>1, <1>2, SumUnion
  <1> QED BY <1>3, <1>4

\* The sum only looks at the values in the set.
LEMMA SumCongruence ==
    ASSUME NEW f, NEW g, NEW S, IsFiniteSet(S), \A x \in S : f[x] = g[x] /\ f[x] \in Int
    PROVE  SumFunctionOnSet(f, S) = SumFunctionOnSet(g, S)
  <1> DEFINE U == {R \in SUBSET S : SumFunctionOnSet(f, R) = SumFunctionOnSet(g, R)}
  <1>0. \A R \in SUBSET S : IsFiniteSet(R)
    BY FS_Subset
  <1>1. {} \in U
    BY SumUnfold
  <1>2. ASSUME NEW R \in SUBSET S, NEW x \in S, R \in U, x \notin R PROVE R \cup {x} \in U
    <2>1. SumFunctionOnSet(f, R \cup {x}) = f[x] + SumFunctionOnSet(f, R)
      BY <1>0, <1>2, SumAdd
    <2>2. SumFunctionOnSet(g, R \cup {x}) = g[x] + SumFunctionOnSet(g, R)
      BY <1>0, <1>2, SumAdd
    <2> QED BY <1>2, <2>1, <2>2
  <1> HIDE DEF U
  <1>3. S \in U
    BY <1>1, <1>2, SubsetInduction
  <1> QED BY <1>3 DEF U

\* m maps S one to one onto T, and f to g.
Renames(f, g, m, S, T) ==
    /\ IsFiniteSet(S)
    /\ \A x, y \in S : m[x] = m[y] => x = y
    /\ \A x \in S : f[x] \in Int /\ g[m[x]] = f[x]
    /\ \A x \in S : m[x] \in T
    /\ \A y \in T : \E x \in S : y = m[x]

\* Renaming the elements one to one changes neither the sum nor the number.
LEMMA SumReindex ==
    ASSUME NEW f, NEW g, NEW m, NEW S, NEW T, Renames(f, g, m, S, T)
    PROVE  /\ IsFiniteSet(T)
           /\ Cardinality(T) = Cardinality(S)
           /\ SumFunctionOnSet(g, T) = SumFunctionOnSet(f, S)
  <1> USE DEF Renames
  <1> DEFINE I(R) == {m[x] : x \in R}
             U == {R \in SUBSET S : /\ IsFiniteSet(I(R))
                                    /\ Cardinality(I(R)) = Cardinality(R)
                                    /\ SumFunctionOnSet(g, I(R)) = SumFunctionOnSet(f, R)}
  <1>0. \A R \in SUBSET S : IsFiniteSet(R) /\ Cardinality(R) \in Nat
    BY FS_Subset, FS_CardinalityType
  <1>1. {} \in U
    <2>1. I({}) = {}
      OBVIOUS
    <2> HIDE DEF I
    <2> QED BY <2>1, SumUnfold, FS_EmptySet
  <1>2. ASSUME NEW R \in SUBSET S, NEW x \in S, R \in U, x \notin R PROVE R \cup {x} \in U
    <2>1. I(R \cup {x}) = I(R) \cup {m[x]}
      OBVIOUS
    <2>2. m[x] \notin I(R)
      BY <1>2
    <2>3. \A y \in I(R) \cup {m[x]} : g[y] \in Int
      BY <1>2
    <2>4. IsFiniteSet(I(R)) /\ Cardinality(I(R)) = Cardinality(R)
          /\ SumFunctionOnSet(g, I(R)) = SumFunctionOnSet(f, R)
      BY <1>2
    <2> HIDE DEF I
    <2>5. SumFunctionOnSet(g, I(R) \cup {m[x]}) = g[m[x]] + SumFunctionOnSet(g, I(R))
      BY <2>2, <2>3, <2>4, SumAdd
    <2>6. SumFunctionOnSet(f, R \cup {x}) = f[x] + SumFunctionOnSet(f, R)
      BY <1>0, <1>2, SumAdd
    <2>7. IsFiniteSet(I(R) \cup {m[x]}) /\ Cardinality(I(R) \cup {m[x]}) = Cardinality(R) + 1
      BY <2>2, <2>4, FS_AddElement
    <2>8. Cardinality(R \cup {x}) = Cardinality(R) + 1
      BY <1>0, <1>2, FS_AddElement
    <2> QED BY <2>1, <2>4, <2>5, <2>6, <2>7, <2>8
  <1> HIDE DEF U
  <1>3. S \in U
    BY <1>1, <1>2, SubsetInduction
  <1>4. T = I(S)
    OBVIOUS
  <1> HIDE DEF I
  <1> QED BY <1>3, <1>4 DEF U

\* The sum over an interval, from the top.
LEMMA SumInterval ==
    ASSUME NEW f, NEW a \in Int, NEW n \in Int, a <= n, NEW m, m = n - 1,
           \A x \in a..n : f[x] \in Int
    PROVE  SumFunctionOnSet(f, a..n) = f[n] + SumFunctionOnSet(f, a..m)
  <1> PICK S : S = a..n
    OBVIOUS
  <1>1. S \ {n} = a..m /\ n \in S
    OBVIOUS
  <1>2. IsFiniteSet(S)
    BY FS_Interval
  <1>3. SumFunctionOnSet(f, S) = f[n] + SumFunctionOnSet(f, S \ {n})
    BY <1>1, <1>2, SumTake
  <1> QED BY <1>1, <1>3

\* The sum of differences.
LEMMA SumDifference ==
    ASSUME NEW f, NEW g, NEW h, NEW S, IsFiniteSet(S),
           \A x \in S : f[x] \in Int /\ g[x] \in Int /\ h[x] = f[x] - g[x]
    PROVE  SumFunctionOnSet(h, S) = SumFunctionOnSet(f, S) - SumFunctionOnSet(g, S)
  <1> DEFINE U == {T \in SUBSET S : SumFunctionOnSet(h, T)
                                      = SumFunctionOnSet(f, T) - SumFunctionOnSet(g, T)}
  <1>1. {} \in U
    <2>1. IsFiniteSet({})
      BY FS_EmptySet
    <2>2. /\ SumFunctionOnSet(f, {}) = 0 /\ SumFunctionOnSet(g, {}) = 0
          /\ SumFunctionOnSet(h, {}) = 0
      BY <2>1, SumUnfold
    <2> QED BY <2>2
  <1>2. ASSUME NEW T \in SUBSET S, NEW x \in S, T \in U, x \notin T
        PROVE  T \cup {x} \in U
    <2>1. IsFiniteSet(T)
      BY FS_Subset
    <2>2. \A y \in T \cup {x} : f[y] \in Int /\ g[y] \in Int /\ h[y] \in Int
      OBVIOUS
    <2>3. SumFunctionOnSet(f, T \cup {x}) = f[x] + SumFunctionOnSet(f, T)
      BY <1>2, <2>1, <2>2, SumAdd
    <2>4. SumFunctionOnSet(g, T \cup {x}) = g[x] + SumFunctionOnSet(g, T)
      BY <1>2, <2>1, <2>2, SumAdd
    <2>5. SumFunctionOnSet(h, T \cup {x}) = h[x] + SumFunctionOnSet(h, T)
      BY <1>2, <2>1, <2>2, SumAdd
    <2>6. SumFunctionOnSet(f, T) \in Int /\ SumFunctionOnSet(g, T) \in Int
      BY <2>1, <2>2, SumType
    <2> QED BY <1>2, <2>3, <2>4, <2>5, <2>6
  <1> HIDE DEF U
  <1>3. S \in U
    BY <1>1, <1>2, SubsetInduction
  <1> QED BY <1>3 DEF U

\* Finitely many finite sets.
LEMMA FiniteFamily ==
    ASSUME NEW D, IsFiniteSet(D), NEW X, \A i \in D : IsFiniteSet(X[i])
    PROVE  IsFiniteSet(UNION {X[i] : i \in D})
  <1> DEFINE W(T) == UNION {X[i] : i \in T}
             U == {T \in SUBSET D : IsFiniteSet(W(T))}
  <1>1. {} \in U
    <2>1. W({}) = {}
      OBVIOUS
    <2> QED BY <2>1, FS_EmptySet
  <1>2. ASSUME NEW T \in SUBSET D, NEW x \in D, T \in U, x \notin T
        PROVE  T \cup {x} \in U
    <2>1. W(T \cup {x}) = W(T) \cup X[x]
      OBVIOUS
    <2> HIDE DEF W
    <2>2. IsFiniteSet(W(T)) /\ IsFiniteSet(X[x])
      BY <1>2
    <2> QED BY <2>1, <2>2, FS_Union
  <1> HIDE DEF U
  <1>3. D \in U
    BY <1>1, <1>2, SubsetInduction
  <1> QED BY <1>3 DEF U

\* g[i] is the sum of f over X[i], and the sets X[i] have nothing in common.
Family(f, g, X, D) ==
    /\ IsFiniteSet(D)
    /\ \A i \in D : IsFiniteSet(X[i]) /\ g[i] = SumFunctionOnSet(f, X[i])
    /\ \A i \in D : \A x \in X[i] : f[x] \in Int
    /\ \A i, j \in D : i # j => X[i] \cap X[j] = {}

LEMMA SumFamily ==
    ASSUME NEW f, NEW g, NEW X, NEW D, Family(f, g, X, D)
    PROVE  SumFunctionOnSet(f, UNION {X[i] : i \in D}) = SumFunctionOnSet(g, D)
  <1> DEFINE W(T) == UNION {X[i] : i \in T}
             U == {T \in SUBSET D : SumFunctionOnSet(f, W(T)) = SumFunctionOnSet(g, T)}
  <1>0. IsFiniteSet(D) /\ \A i \in D : g[i] \in Int
    BY SumType DEF Family
  <1>1. {} \in U
    <2>1. W({}) = {} /\ IsFiniteSet({})
      BY FS_EmptySet
    <2> HIDE DEF W
    <2>2. SumFunctionOnSet(f, {}) = 0 /\ SumFunctionOnSet(g, {}) = 0
      BY <2>1, SumUnfold
    <2> QED BY <2>1, <2>2
  <1>2. ASSUME NEW T \in SUBSET D, NEW x \in D, T \in U, x \notin T
        PROVE  T \cup {x} \in U
    <2>1. W(T \cup {x}) = W(T) \cup X[x]
      OBVIOUS
    <2>2. IsFiniteSet(T)
      BY <1>0, FS_Subset
    <2>3. IsFiniteSet(W(T))
      BY <2>2, FiniteFamily DEF Family
    <2>4. W(T) \cap X[x] = {}
      BY <1>2 DEF Family
    <2>5. \A y \in W(T) \cup X[x] : f[y] \in Int
      BY DEF Family
    <2> HIDE DEF W
    <2>6. IsFiniteSet(X[x]) /\ g[x] = SumFunctionOnSet(f, X[x])
      BY DEF Family
    <2>7. SumFunctionOnSet(f, W(T) \cup X[x]) = SumFunctionOnSet(f, W(T)) + SumFunctionOnSet(f, X[x])
      BY <2>3, <2>4, <2>5, <2>6, SumUnion
    <2>8. SumFunctionOnSet(g, T \cup {x}) = g[x] + SumFunctionOnSet(g, T)
      BY <1>0, <1>2, <2>2, SumAdd
    <2>9. SumFunctionOnSet(g, T) \in Int /\ g[x] \in Int
      BY <1>0, <2>2, SumType
    <2>10. SumFunctionOnSet(f, W(T)) = SumFunctionOnSet(g, T)
      BY <1>2
    <2> HIDE DEF U
    <2>11. SumFunctionOnSet(f, W(T \cup {x})) = SumFunctionOnSet(f, W(T) \cup X[x])
      BY <2>1, Zenon
    <2>12. SumFunctionOnSet(f, W(T) \cup X[x]) = SumFunctionOnSet(g, T \cup {x})
      BY <2>6, <2>7, <2>8, <2>9, <2>10
    <2>13. SumFunctionOnSet(f, W(T \cup {x})) = SumFunctionOnSet(g, T \cup {x})
      BY <2>11, <2>12, Zenon
    <2> QED BY <2>13 DEF U
  <1> HIDE DEF U
  <1>3. D \in U
    BY <1>0, <1>1, <1>2, SubsetInduction
  <1> QED BY <1>3 DEF U

-------------------------------------------------------------------------------
(* Functions defined by recursion on a number: they exist, and only once.   *)

\* A sequence of values, each made from the one before.
Stepwise(st, base, m, step) == base \in st /\ m \in Nat /\ step \in [1..m -> [st -> st]]
Follows(f, st, base, m, step) ==
    f \in [0..m -> st] /\ f[0] = base /\ \A n \in 1..m : f[n] = step[n][f[n - 1]]

LEMMA Iterates ==
    ASSUME NEW st, NEW base, NEW m, NEW step, Stepwise(st, base, m, step)
    PROVE  \E f : Follows(f, st, base, m, step)
  <1>0. base \in st /\ m \in Nat /\ step \in [1..m -> [st -> st]]
    BY DEF Stepwise
  <1> DEFINE Good(k, f) == f[0] = base /\ \A n \in 1..k : f[n] = step[n][f[n - 1]]
             ok == {k \in Nat : k <= m => \E f \in [0..k -> st] : Good(k, f)}
  <1>1. 0 \in ok
    <2> DEFINE f == [n \in 0..0 |-> base]
    <2>1. f \in [0..0 -> st] /\ Good(0, f)
      BY <1>0
    <2> QED BY <2>1
  <1>2. ASSUME NEW k \in Nat, k \in ok PROVE k + 1 \in ok
    <2> SUFFICES ASSUME k + 1 <= m PROVE \E f \in [0..(k+1) -> st] : Good(k + 1, f)
      OBVIOUS
    <2>0. k <= m
      BY <1>0
    <2>1. PICK f \in [0..k -> st] : Good(k, f)
      BY <1>2, <2>0
    <2> DEFINE g == [n \in 0..(k+1) |-> IF n = k + 1 THEN step[k + 1][f[k]] ELSE f[n]]
    <2>2. k + 1 \in 1..m /\ f[k] \in st
      BY <1>0
    <2>3. step[k + 1][f[k]] \in st
      BY <1>0, <2>2
    <2>4. g \in [0..(k+1) -> st]
      BY <2>3
    <2>5. g[0] = base
      BY <2>1
    <2>6. ASSUME NEW n \in 1..(k+1) PROVE g[n] = step[n][g[n - 1]]
      <3>1. CASE n = k + 1
        BY <3>1
      <3>2. CASE n \in 1..k
        <4>1. g[n] = f[n] /\ g[n - 1] = f[n - 1] /\ f[n] = step[n][f[n - 1]]
          BY <2>1, <3>2
        <4> QED BY <4>1
      <3> QED BY <3>1, <3>2
    <2> QED BY <2>4, <2>5, <2>6
  <1>3. Nat \subseteq ok
    <2> HIDE DEF ok
    <2> QED BY <1>1, <1>2, NatSetInduction
  <1> QED BY <1>0, <1>3 DEF Follows

\* f and g start alike and take the same steps.
Alongside(f, g, m) ==
    f[0] = g[0] /\ \A n \in 1..m : f[n - 1] = g[n - 1] => f[n] = g[n]

LEMMA IteratesOnce ==
    ASSUME NEW m \in Nat, NEW f, NEW g, Alongside(f, g, m)
    PROVE  \A n \in 0..m : f[n] = g[n]
  <1> DEFINE ok == {k \in Nat : k <= m => f[k] = g[k]}
  <1>1. 0 \in ok
    BY DEF Alongside
  <1>2. ASSUME NEW k \in Nat, k \in ok PROVE k + 1 \in ok
    <2> SUFFICES ASSUME k + 1 <= m PROVE f[k + 1] = g[k + 1]
      OBVIOUS
    <2>1. k + 1 \in 1..m /\ (k + 1) - 1 = k /\ f[k] = g[k]
      BY <1>2
    <2> QED BY <2>1 DEF Alongside
  <1>3. Nat \subseteq ok
    <2> HIDE DEF ok
    <2> QED BY <1>1, <1>2, NatSetInduction
  <1> QED BY <1>3

===============================================================================
