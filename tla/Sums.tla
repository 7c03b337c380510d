---------------------------------- MODULE Sums ----------------------------------
(* Sums of functions over finite sets.  SumFunctionOnSet is a recursive function   *)
(* of the library; the lemmas here say what it computes.  Induction is stated with *)
(* sets in the place of predicates: Good is the set of what has the property.      *)
EXTENDS Integers, Functions, FiniteSetTheorems, WellFoundedInduction, TLAPS

--------------------------------------------------------------------------------
(* Induction                                                                      *)

(* A nonempty set of naturals has a smallest element.                             *)
LEMMA Smallest ==
    ASSUME NEW T, T \subseteq Nat, T # {}
    PROVE  \E n \in T : \A m \in T : n <= m
<1>1. PICK n \in T : \A m \in T : ~(<<m, n>> \in OpToRel(<, Nat))
  BY NatLessThanWellFounded, WFMin
<1>2. \A m \in T : ~(m < n)
  BY <1>1 DEF OpToRel
<1> QED
  BY <1>2

(* What holds of 0 and goes from a number to the next holds of all.               *)
LEMMA UpwardInduction ==
    ASSUME NEW Good, 0 \in Good, \A n \in Nat : n \in Good => n + 1 \in Good
    PROVE  Nat \subseteq Good
<1> SUFFICES ASSUME Nat \ Good # {} PROVE FALSE
  OBVIOUS
<1>1. PICK n \in Nat \ Good : \A m \in Nat \ Good : n <= m
  BY Smallest
<1>2. n # 0 /\ n - 1 \in Nat
  BY <1>1
<1>3. n - 1 \in Good
  BY <1>1, <1>2
<1>4. (n - 1) + 1 \in Good /\ (n - 1) + 1 = n
  BY <1>2, <1>3
<1> QED
  BY <1>1, <1>4

(* What holds of the empty set and goes from a set to one with an element more    *)
(* holds of every finite set.                                                     *)
LEMMA SetInduction ==
    ASSUME NEW S, IsFiniteSet(S), NEW Good, {} \in Good,
           \A T \in SUBSET S, x \in S : T \in Good /\ x \notin T => T \cup {x} \in Good
    PROVE  S \in Good
<1> DEFINE N == {n \in Nat : \A T \in SUBSET S : Cardinality(T) = n => T \in Good}
<1>1. \A T \in SUBSET S : IsFiniteSet(T) /\ Cardinality(T) \in Nat
  BY FS_Subset, FS_CardinalityType
<1>2. 0 \in N
  BY <1>1, FS_EmptySet
<1>3. ASSUME NEW n \in Nat, n \in N PROVE n + 1 \in N
  <2> SUFFICES ASSUME NEW T \in SUBSET S, Cardinality(T) = n + 1 PROVE T \in Good
    OBVIOUS
  <2> HIDE DEF N
  <2>1. T # {}
    <3>1. Cardinality({}) = 0 /\ n + 1 # 0
      BY FS_EmptySet
    <3> QED
      BY <3>1
  <2>2. PICK x \in T : TRUE
    BY <2>1
  <2>3. Cardinality(T \ {x}) = n
    <3>1. IsFiniteSet(T) /\ Cardinality(T) \in Nat
      BY <1>1
    <3>2. Cardinality(T \ {x}) = Cardinality(T) - 1
      BY <3>1, FS_RemoveElement
    <3> QED
      BY <3>2
  <2>4. T \ {x} \in Good
    BY <1>3, <2>3 DEF N
  <2>5. T \ {x} \in SUBSET S /\ x \in S /\ (T \ {x}) \cup {x} = T
    OBVIOUS
  <2> QED
    BY <2>4, <2>5
<1> HIDE DEF N
<1>4. Nat \subseteq N
  BY <1>2, <1>3, UpwardInduction
<1>5. Cardinality(S) \in N
  BY <1>1, <1>4
<1> QED
  BY <1>5 DEF N

--------------------------------------------------------------------------------
(* The recursion of the library                                                   *)

Some(s) == CHOOSE x \in s : TRUE

(* g adds up f, for every subset of S.                                            *)
NextSum(g, f, s) == IF s = {} THEN 0 ELSE f[Some(s)] + g[s \ {Some(s)}]
Adds(g, f, S) == g = [s \in SUBSET S |-> NextSum(g, f, s)]

(* The definition of the library, with names for its parts.                       *)
LEMMA SumIs == ASSUME NEW f, NEW S
               PROVE  SumFunctionOnSet(f, S) = (CHOOSE g : Adds(g, f, S))[S]
BY DEF SumFunctionOnSet, FoldFunctionOnSet, MapThenFoldSet, Adds, NextSum, Some

(* What holds of the empty set, and of a set if it holds without some element,    *)
(* holds of every subset of a finite set.                                         *)
LEMMA SomeInduction ==
    ASSUME NEW S, IsFiniteSet(S), NEW Good, {} \in Good,
           \A T \in SUBSET S : T # {} /\ T \ {Some(T)} \in Good => T \in Good
    PROVE  SUBSET S \subseteq Good
<1> DEFINE N == {n \in Nat : \A T \in SUBSET S : Cardinality(T) = n => T \in Good}
<1>1. \A T \in SUBSET S : IsFiniteSet(T) /\ Cardinality(T) \in Nat
  BY FS_Subset, FS_CardinalityType
<1>2. 0 \in N
  BY <1>1, FS_EmptySet
<1>3. ASSUME NEW n \in Nat, n \in N PROVE n + 1 \in N
  <2> SUFFICES ASSUME NEW T \in SUBSET S, Cardinality(T) = n + 1 PROVE T \in Good
    OBVIOUS
  <2> HIDE DEF N
  <2>1. T # {}
    <3>1. Cardinality({}) = 0 /\ n + 1 # 0
      BY FS_EmptySet
    <3> QED
      BY <3>1
  <2>2. Some(T) \in T
    BY <2>1 DEF Some
  <2>3. Cardinality(T \ {Some(T)}) = n
    <3>1. IsFiniteSet(T) /\ Cardinality(T) \in Nat
      BY <1>1
    <3>2. Cardinality(T \ {Some(T)}) = Cardinality(T) - 1
      BY <2>2, <3>1, FS_RemoveElement
    <3> QED
      BY <3>2
  <2>4. T \ {Some(T)} \in Good
    BY <1>3, <2>3 DEF N
  <2> QED
    BY <2>1, <2>4
<1> HIDE DEF N
<1>4. Nat \subseteq N
  BY <1>2, <1>3, UpwardInduction
<1> QED
  BY <1>1, <1>4 DEF N

(* There is a function that adds up f.                                            *)
LEMMA AddsExists == ASSUME NEW f, NEW S, IsFiniteSet(S) PROVE \E g : Adds(g, f, S)
<1> DEFINE Upto(g, n) == \A s \in SUBSET S : Cardinality(s) <= n => g[s] = NextSum(g, f, s)
           N == {n \in Nat : \E g : Upto(g, n)}
<1>1. \A T \in SUBSET S : IsFiniteSet(T) /\ Cardinality(T) \in Nat
  BY FS_Subset, FS_CardinalityType
<1>2. 0 \in N
  <2> DEFINE g == [s \in SUBSET S |-> 0]
  <2>1. \A s \in SUBSET S : Cardinality(s) <= 0 => s = {}
    <3>1. \A T : IsFiniteSet(T) => (Cardinality(T) = 0 <=> T = {})
      BY FS_EmptySet
    <3>2. \A s \in SUBSET S : Cardinality(s) <= 0 => Cardinality(s) = 0
      BY <1>1
    <3> QED
      BY <1>1, <3>1, <3>2
  <2>2. Upto(g, 0)
    BY <2>1 DEF NextSum
  <2> QED
    BY <2>2
<1>3. ASSUME NEW n \in Nat, n \in N PROVE n + 1 \in N
  <2>1. PICK g : Upto(g, n)
    BY <1>3
  <2> DEFINE h == [s \in SUBSET S |-> NextSum(g, f, s)]
  <2>2. ASSUME NEW s \in SUBSET S, Cardinality(s) <= n + 1 PROVE h[s] = NextSum(h, f, s)
    <3>1. CASE s = {}
      BY <3>1 DEF NextSum
    <3>2. CASE s # {}
      <4>1. Some(s) \in s
        BY <3>2 DEF Some
      <4>2. Cardinality(s \ {Some(s)}) = Cardinality(s) - 1
        BY <1>1, <4>1, FS_RemoveElement
      <4>3. s \ {Some(s)} \in SUBSET S /\ Cardinality(s \ {Some(s)}) <= n
        BY <1>1, <2>2, <4>2
      <4>4. h[s \ {Some(s)}] = g[s \ {Some(s)}]
        BY <2>1, <4>3
      <4>5. h[s] = NextSum(g, f, s)
        OBVIOUS
      <4> HIDE DEF h
      <4> QED
        BY <3>2, <4>4, <4>5 DEF NextSum
    <3> QED
      BY <3>1, <3>2
  <2> HIDE DEF h
  <2>3. Upto(h, n + 1)
    BY <2>2
  <2> QED
    BY <2>3
<1> HIDE DEF N
<1>4. Nat \subseteq N
  BY <1>2, <1>3, UpwardInduction
<1>5. Cardinality(S) \in N
  BY <1>1, <1>4
<1>6. PICK g : Upto(g, Cardinality(S))
  BY <1>5 DEF N
<1>7. \A s \in SUBSET S : g[s] = NextSum(g, f, s)
  BY <1>6, FS_Subset
<1> DEFINE h == [s \in SUBSET S |-> g[s]]
<1>8. ASSUME NEW s \in SUBSET S PROVE NextSum(h, f, s) = NextSum(g, f, s)
  BY DEF NextSum
<1>9. h = [s \in SUBSET S |-> NextSum(h, f, s)]
  BY <1>7, <1>8
<1> HIDE DEF h
<1> QED
  BY <1>9 DEF Adds

(* All functions that add up f agree.                                             *)
LEMMA AddsAgree ==
    ASSUME NEW f, NEW S, IsFiniteSet(S), NEW T \in SUBSET S,
           NEW g, Adds(g, f, S), NEW h, Adds(h, f, T)
    PROVE  g[T] = h[T]
<1> DEFINE Good == {t \in SUBSET T : g[t] = h[t]}
<1>1. ASSUME NEW t \in SUBSET T PROVE g[t] = NextSum(g, f, t) /\ h[t] = NextSum(h, f, t)
  BY DEF Adds
<1>2. {} \in Good
  BY <1>1 DEF NextSum
<1>3. ASSUME NEW t \in SUBSET T, t # {}, t \ {Some(t)} \in Good PROVE t \in Good
  BY <1>1, <1>3 DEF NextSum
<1>4. IsFiniteSet(T)
  BY FS_Subset
<1> HIDE DEF Good
<1>5. SUBSET T \subseteq Good
  BY <1>2, <1>3, <1>4, SomeInduction
<1> QED
  BY <1>5 DEF Good

--------------------------------------------------------------------------------
(* Sums                                                                           *)

(* There is nothing to add.                                                       *)
LEMMA SumOfNone == ASSUME NEW f PROVE SumFunctionOnSet(f, {}) = 0
<1>1. PICK g : Adds(g, f, {}) /\ SumFunctionOnSet(f, {}) = g[{}]
  BY AddsExists, SumIs, FS_EmptySet
<1> QED
  BY <1>1 DEF Adds, NextSum

(* Some element is added last.                                                    *)
LEMMA SumOfSome ==
    ASSUME NEW f, NEW S, IsFiniteSet(S), S # {}
    PROVE  SumFunctionOnSet(f, S) = f[Some(S)] + SumFunctionOnSet(f, S \ {Some(S)})
<1> DEFINE T == S \ {Some(S)}
<1>1. PICK g : Adds(g, f, S) /\ SumFunctionOnSet(f, S) = g[S]
  BY AddsExists, SumIs
<1>2. T \in SUBSET S /\ IsFiniteSet(T)
  BY FS_Subset
<1>3. PICK h : Adds(h, f, T) /\ SumFunctionOnSet(f, T) = h[T]
  BY <1>2, AddsExists, SumIs
<1>4. g[T] = h[T]
  BY <1>1, <1>2, <1>3, AddsAgree
<1>5. g[S] = f[Some(S)] + g[T]
  BY <1>1 DEF Adds, NextSum
<1> QED
  BY <1>1, <1>3, <1>4, <1>5

(* A sum of integers is one.                                                      *)
LEMMA SumType ==
    ASSUME NEW f, NEW S, IsFiniteSet(S), \A x \in S : f[x] \in Int
    PROVE  SumFunctionOnSet(f, S) \in Int
<1> DEFINE Good == {T \in SUBSET S : SumFunctionOnSet(f, T) \in Int}
<1>1. {} \in Good
  BY SumOfNone
<1>2. ASSUME NEW T \in SUBSET S, T # {}, T \ {Some(T)} \in Good PROVE T \in Good
  <2>1. Some(T) \in S
    BY <1>2 DEF Some
  <2>2. SumFunctionOnSet(f, T) = f[Some(T)] + SumFunctionOnSet(f, T \ {Some(T)})
    BY <1>2, FS_Subset, SumOfSome
  <2> QED
    BY <1>2, <2>1, <2>2
<1> HIDE DEF Good
<1>3. SUBSET S \subseteq Good
  BY <1>1, <1>2, SomeInduction
<1> QED
  BY <1>3 DEF Good

(* Any element can be the one that is added last.                                 *)
LEMMA SumOfAny ==
    ASSUME NEW f, NEW S, IsFiniteSet(S), \A x \in S : f[x] \in Int, NEW x \in S
    PROVE  SumFunctionOnSet(f, S) = f[x] + SumFunctionOnSet(f, S \ {x})
<1> DEFINE Sum(T) == SumFunctionOnSet(f, T)
           Good == {n \in Nat : \A T \in SUBSET S : Cardinality(T) = n =>
                       \A y \in T : Sum(T) = f[y] + Sum(T \ {y})}
<1>1. ASSUME NEW T \in SUBSET S
      PROVE  /\ IsFiniteSet(T) /\ Cardinality(T) \in Nat /\ Sum(T) \in Int
             /\ \A y \in T : Cardinality(T \ {y}) = Cardinality(T) - 1
  <2>1. IsFiniteSet(T)
    BY FS_Subset
  <2>2. \A y \in T : f[y] \in Int
    OBVIOUS
  <2> QED
    BY <2>1, <2>2, FS_CardinalityType, FS_RemoveElement, SumType
<1>2. 0 \in Good
  BY <1>1, FS_EmptySet
<1>3. ASSUME NEW n \in Nat, n \in Good PROVE n + 1 \in Good
  <2> SUFFICES ASSUME NEW T \in SUBSET S, Cardinality(T) = n + 1, NEW y \in T
               PROVE  Sum(T) = f[y] + Sum(T \ {y})
    OBVIOUS
  <2>0. ASSUME NEW R \in SUBSET S, Cardinality(R) = n, NEW r \in R
        PROVE  Sum(R) = f[r] + Sum(R \ {r})
    BY <1>3, <2>0
  <2> DEFINE z == Some(T)
  <2>1. z \in T
    BY DEF Some
  <2>2. Sum(T) = f[z] + Sum(T \ {z})
    BY <1>1, SumOfSome
  <2> HIDE DEF z
  <2>3. CASE y # z
    <3>1. Cardinality(T \ {z}) = n /\ Cardinality(T \ {y}) = n
      <4>1. Cardinality(T \ {z}) = Cardinality(T) - 1 /\ Cardinality(T \ {y}) = Cardinality(T) - 1
        BY <1>1, <2>1
      <4> QED
        BY <4>1
    <3>2. /\ T \ {z} \in SUBSET S /\ y \in T \ {z}
          /\ T \ {y} \in SUBSET S /\ z \in T \ {y}
          /\ (T \ {y}) \ {z} = (T \ {z}) \ {y}
          /\ (T \ {z}) \ {y} \in SUBSET S
      BY <2>1, <2>3
    <3>3. Sum(T \ {z}) = f[y] + Sum((T \ {z}) \ {y})
      BY <2>0, <3>1, <3>2
    <3>4. Sum(T \ {y}) = f[z] + Sum((T \ {z}) \ {y})
      BY <2>0, <3>1, <3>2
    <3>5. /\ f[y] \in Int /\ f[z] \in Int
          /\ Sum((T \ {z}) \ {y}) \in Int
      BY <1>1, <2>1, <3>2
    <3> HIDE DEF Sum
    <3> QED
      BY <2>2, <3>3, <3>4, <3>5
  <2> QED
    BY <2>2, <2>3
<1> HIDE DEF Good
<1>4. Nat \subseteq Good
  BY <1>2, <1>3, UpwardInduction
<1>5. Cardinality(S) \in Good
  BY <1>1, <1>4
<1> QED
  BY <1>5 DEF Good

(* An element more adds its value.                                                *)
LEMMA SumAdd ==
    ASSUME NEW f, NEW S, IsFiniteSet(S), NEW x, x \notin S,
           \A y \in S \cup {x} : f[y] \in Int
    PROVE  SumFunctionOnSet(f, S \cup {x}) = f[x] + SumFunctionOnSet(f, S)
<1>1. IsFiniteSet(S \cup {x}) /\ x \in S \cup {x} /\ (S \cup {x}) \ {x} = S
  BY FS_AddElement
<1> QED
  BY <1>1, SumOfAny

(* The sums over two disjoint sets add up to the sum over both.                   *)
LEMMA SumUnion ==
    ASSUME NEW f, NEW S, NEW T, IsFiniteSet(S), IsFiniteSet(T), S \cap T = {},
           \A y \in S \cup T : f[y] \in Int
    PROVE  SumFunctionOnSet(f, S \cup T) = SumFunctionOnSet(f, S) + SumFunctionOnSet(f, T)
<1> DEFINE Sum(R) == SumFunctionOnSet(f, R)
           Good == {R \in SUBSET T : Sum(S \cup R) = Sum(S) + Sum(R)}
<1>1. ASSUME NEW R \in SUBSET T
      PROVE  IsFiniteSet(R) /\ IsFiniteSet(S \cup R) /\ Sum(R) \in Int /\ Sum(S \cup R) \in Int
  <2>1. IsFiniteSet(R) /\ IsFiniteSet(S \cup R)
    BY FS_Subset, FS_Union
  <2>2. (\A y \in R : f[y] \in Int) /\ \A y \in S \cup R : f[y] \in Int
    OBVIOUS
  <2> QED
    BY <2>1, <2>2, SumType
<1>2. {} \in Good
  <2>1. S \cup {} = S /\ Sum({}) = 0 /\ Sum(S) \in Int
    BY SumOfNone, SumType
  <2> QED
    BY <2>1
<1>3. ASSUME NEW R \in SUBSET T, NEW x \in T, R \in Good, x \notin R PROVE R \cup {x} \in Good
  <2>1. Sum(R \cup {x}) = f[x] + Sum(R)
    BY <1>1, <1>3, SumAdd
  <2>2. Sum((S \cup R) \cup {x}) = f[x] + Sum(S \cup R)
    <3>1. x \notin S \cup R /\ \A y \in (S \cup R) \cup {x} : f[y] \in Int
      BY <1>3
    <3> QED
      BY <1>1, <3>1, SumAdd
  <2>3. (S \cup R) \cup {x} = S \cup (R \cup {x})
    OBVIOUS
  <2>4. Sum(S \cup R) = Sum(S) + Sum(R)
    BY <1>3
  <2>5. f[x] \in Int /\ Sum(S) \in Int /\ Sum(R) \in Int
    BY <1>1, SumType
  <2>6. Sum(S \cup (R \cup {x})) = f[x] + (Sum(S) + Sum(R))
    BY <2>2, <2>3, <2>4
  <2>7. Sum(S \cup (R \cup {x})) = Sum(S) + Sum(R \cup {x})
    BY <2>1, <2>5, <2>6
  <2> QED
    BY <1>3, <2>7
<1> HIDE DEF Good
<1>4. T \in Good
  BY <1>2, <1>3, SetInduction
<1> QED
  BY <1>4 DEF Good

(* Functions that agree on a set have the same sum over it.                       *)
LEMMA SumAgree ==
    ASSUME NEW f, NEW g, NEW S, IsFiniteSet(S), \A x \in S : f[x] = g[x]
    PROVE  SumFunctionOnSet(f, S) = SumFunctionOnSet(g, S)
<1> DEFINE Good == {T \in SUBSET S : SumFunctionOnSet(f, T) = SumFunctionOnSet(g, T)}
<1>1. {} \in Good
  BY SumOfNone
<1>2. ASSUME NEW T \in SUBSET S, T # {}, T \ {Some(T)} \in Good PROVE T \in Good
  <2>1. Some(T) \in S
    BY <1>2 DEF Some
  <2>2. /\ SumFunctionOnSet(f, T) = f[Some(T)] + SumFunctionOnSet(f, T \ {Some(T)})
        /\ SumFunctionOnSet(g, T) = g[Some(T)] + SumFunctionOnSet(g, T \ {Some(T)})
    BY <1>2, FS_Subset, SumOfSome
  <2> QED
    BY <1>2, <2>1, <2>2
<1> HIDE DEF Good
<1>3. SUBSET S \subseteq Good
  BY <1>1, <1>2, SomeInduction
<1> QED
  BY <1>3 DEF Good

(* A sum can be taken over the indices of the elements.                           *)
LEMMA SumImage ==
    ASSUME NEW f, NEW g, NEW h, NEW S, IsFiniteSet(S),
           \A x, y \in S : h[x] = h[y] => x = y,
           \A x \in S : g[x] = f[h[x]] /\ g[x] \in Int
    PROVE  /\ IsFiniteSet({h[x] : x \in S})
           /\ SumFunctionOnSet(g, S) = SumFunctionOnSet(f, {h[x] : x \in S})
<1> DEFINE Image(T) == {h[x] : x \in T}
           Good == {T \in SUBSET S :
                       /\ IsFiniteSet(Image(T))
                       /\ SumFunctionOnSet(g, T) = SumFunctionOnSet(f, Image(T))}
<1>1. {} \in Good
  <2>1. Image({}) = {}
    OBVIOUS
  <2> QED
    BY <2>1, FS_EmptySet, SumOfNone
<1>2. ASSUME NEW T \in SUBSET S, NEW x \in S, T \in Good, x \notin T PROVE T \cup {x} \in Good
  <2>1. IsFiniteSet(T) /\ IsFiniteSet(Image(T))
    BY <1>2, FS_Subset
  <2>2. Image(T \cup {x}) = Image(T) \cup {h[x]} /\ h[x] \notin Image(T)
    BY <1>2
  <2>3. SumFunctionOnSet(g, T \cup {x}) = g[x] + SumFunctionOnSet(g, T)
    BY <1>2, <2>1, SumAdd
  <2>4. \A y \in Image(T) \cup {h[x]} : f[y] \in Int
    OBVIOUS
  <2> HIDE DEF Image
  <2>5. SumFunctionOnSet(f, Image(T) \cup {h[x]}) = f[h[x]] + SumFunctionOnSet(f, Image(T))
    BY <2>1, <2>2, <2>4, SumAdd
  <2>6. IsFiniteSet(Image(T) \cup {h[x]})
    BY <2>1, FS_AddElement
  <2> QED
    BY <1>2, <2>2, <2>3, <2>5, <2>6
<1> HIDE DEF Good
<1>3. S \in Good
  BY <1>1, <1>2, SetInduction
<1> QED
  BY <1>3 DEF Good

(* A sum of naturals is one.                                                      *)
LEMMA SumOfNaturals ==
    ASSUME NEW f, NEW S, IsFiniteSet(S), \A x \in S : f[x] \in Nat
    PROVE  SumFunctionOnSet(f, S) \in Nat
<1> DEFINE Good == {T \in SUBSET S : SumFunctionOnSet(f, T) \in Nat}
<1>1. {} \in Good
  BY SumOfNone
<1>2. ASSUME NEW T \in SUBSET S, T # {}, T \ {Some(T)} \in Good PROVE T \in Good
  <2>1. Some(T) \in S
    BY <1>2 DEF Some
  <2>2. SumFunctionOnSet(f, T) = f[Some(T)] + SumFunctionOnSet(f, T \ {Some(T)})
    BY <1>2, FS_Subset, SumOfSome
  <2> QED
    BY <1>2, <2>1, <2>2
<1> HIDE DEF Good
<1>3. SUBSET S \subseteq Good
  BY <1>1, <1>2, SomeInduction
<1> QED
  BY <1>3 DEF Good

(* Naturals that are left out make a sum no larger.                               *)
LEMMA SumOfSubset ==
    ASSUME NEW f, NEW S, IsFiniteSet(S), \A x \in S : f[x] \in Nat, NEW T \in SUBSET S
    PROVE  SumFunctionOnSet(f, T) <= SumFunctionOnSet(f, S)
<1>1. IsFiniteSet(T) /\ IsFiniteSet(S \ T) /\ T \cap (S \ T) = {} /\ T \cup (S \ T) = S
  BY FS_Subset
<1>2. \A x \in T \cup (S \ T) : f[x] \in Int
  OBVIOUS
<1>3. PICK R : R = S \ T
  OBVIOUS
<1>4. SumFunctionOnSet(f, S) = SumFunctionOnSet(f, T) + SumFunctionOnSet(f, R)
  BY <1>1, <1>2, <1>3, SumUnion
<1>5. SumFunctionOnSet(f, T) \in Nat /\ SumFunctionOnSet(f, R) \in Nat
  BY <1>1, <1>3, SumOfNaturals
<1> QED
  BY <1>4, <1>5

(* The sum of the values with their sign turned.                                  *)
LEMMA SumNegated ==
    ASSUME NEW f, NEW g, NEW S, IsFiniteSet(S), \A x \in S : f[x] \in Int /\ g[x] = - f[x]
    PROVE  SumFunctionOnSet(g, S) = - SumFunctionOnSet(f, S)
<1> DEFINE Good == {T \in SUBSET S : SumFunctionOnSet(g, T) = - SumFunctionOnSet(f, T)}
<1>1. {} \in Good
  BY SumOfNone
<1>2. ASSUME NEW T \in SUBSET S, T # {}, T \ {Some(T)} \in Good PROVE T \in Good
  <2>1. Some(T) \in S
    BY <1>2 DEF Some
  <2>2. /\ SumFunctionOnSet(f, T) = f[Some(T)] + SumFunctionOnSet(f, T \ {Some(T)})
        /\ SumFunctionOnSet(g, T) = g[Some(T)] + SumFunctionOnSet(g, T \ {Some(T)})
    BY <1>2, FS_Subset, SumOfSome
  <2>3. SumFunctionOnSet(f, T \ {Some(T)}) \in Int
    BY FS_Subset, SumType
  <2> QED
    BY <1>2, <2>1, <2>2, <2>3
<1> HIDE DEF Good
<1>3. SUBSET S \subseteq Good
  BY <1>1, <1>2, SomeInduction
<1> QED
  BY <1>3 DEF Good

(* A value that is always the same is multiplied.                                 *)
LEMMA SumConstant ==
    ASSUME NEW f, NEW S, IsFiniteSet(S), NEW k \in Nat, \A x \in S : f[x] = k
    PROVE  SumFunctionOnSet(f, S) = k * Cardinality(S)
<1> DEFINE Good == {T \in SUBSET S : SumFunctionOnSet(f, T) = k * Cardinality(T)}
<1>1. {} \in Good
  BY SumOfNone, FS_EmptySet
<1>2. ASSUME NEW T \in SUBSET S, NEW x \in S, T \in Good, x \notin T PROVE T \cup {x} \in Good
  <2>1. IsFiniteSet(T)
    BY FS_Subset
  <2>2. SumFunctionOnSet(f, T \cup {x}) = f[x] + SumFunctionOnSet(f, T)
    BY <1>2, <2>1, SumAdd
  <2>3. PICK n \in Nat : n = Cardinality(T)
    BY <2>1, FS_CardinalityType
  <2>4. Cardinality(T \cup {x}) = n + 1
    BY <1>2, <2>1, <2>3, FS_AddElement
  <2>5. k * (n + 1) = k + k * n
    OBVIOUS
  <2> QED
    BY <1>2, <2>2, <2>3, <2>4, <2>5
<1> HIDE DEF Good
<1>3. S \in Good
  BY <1>1, <1>2, SetInduction
<1> QED
  BY <1>3 DEF Good

(* Of naturals, none is larger than their sum.                                    *)
LEMMA SumReachesEach ==
    ASSUME NEW f, NEW S, IsFiniteSet(S), \A x \in S : f[x] \in Nat, NEW x \in S
    PROVE  f[x] <= SumFunctionOnSet(f, S)
<1>1. SumFunctionOnSet(f, S) = f[x] + SumFunctionOnSet(f, S \ {x})
  BY SumOfAny
<1>2. SumFunctionOnSet(f, S \ {x}) \in Nat
  BY FS_Subset, SumOfNaturals
<1> QED
  BY <1>1, <1>2
================================================================================
