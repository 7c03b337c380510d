--------------------------- MODULE ConstructionProofs ---------------------------
(* Proofs about the construction endpoints, for every set of coins, every list of  *)
(* operations a client may ask for, every fee rate and every width of an integer.  *)
EXTENDS Construction, Sums

--------------------------------------------------------------------------------
(* What parser.MatchOperations finds                                              *)

NextMatches(m, s, type, n) ==
    IF n = 0 THEN <<>>
    ELSE IF Fitting(s[n], type) THEN Append(m[n - 1], s[n]) ELSE m[n - 1]
Matching(m, s, type) == m = [n \in 0 .. Len(s) |-> NextMatches(m, s, type, n)]

(* The definition, with names for its parts.                                      *)
LEMMA MatchIs ==
    ASSUME NEW s, NEW type
    PROVE  MatchOperations(s, type) = (CHOOSE m : Matching(m, s, type))[Len(s)]
BY DEF MatchOperations, Matching, NextMatches

(* The loop of MatchOperations has a result after every number of operations.     *)
LEMMA MatchExists ==
    ASSUME NEW s, Len(s) \in Nat, NEW type
    PROVE  \E m : Matching(m, s, type)
<1> DEFINE Upto(m, k) == \A n \in 0 .. Len(s) : n <= k => m[n] = NextMatches(m, s, type, n)
           N == {k \in Nat : \E m : Upto(m, k)}
<1>1. 0 \in N
  <2> DEFINE m == [n \in 0 .. Len(s) |-> <<>>]
  <2>1. Upto(m, 0)
    BY DEF NextMatches
  <2> QED
    BY <2>1
<1>2. ASSUME NEW k \in Nat, k \in N PROVE k + 1 \in N
  <2>1. PICK g : Upto(g, k)
    BY <1>2
  <2> DEFINE h == [n \in 0 .. Len(s) |-> NextMatches(g, s, type, n)]
  <2>2. ASSUME NEW n \in 0 .. Len(s), n <= k + 1 PROVE h[n] = NextMatches(h, s, type, n)
    <3>1. CASE n = 0
      BY <3>1 DEF NextMatches
    <3>2. CASE n # 0
      <4>1. n - 1 \in 0 .. Len(s) /\ n - 1 <= k
        BY <2>2, <3>2
      <4>2. h[n - 1] = g[n - 1] /\ h[n] = NextMatches(g, s, type, n)
        BY <2>1, <4>1
      <4> HIDE DEF h
      <4> QED
        BY <3>2, <4>2 DEF NextMatches
    <3> QED
      BY <3>1, <3>2
  <2> HIDE DEF h
  <2>3. Upto(h, k + 1)
    BY <2>2
  <2> QED
    BY <2>3
<1> HIDE DEF N
<1>3. Len(s) \in N
  BY <1>1, <1>2, UpwardInduction
<1>4. PICK g : Upto(g, Len(s))
  BY <1>3 DEF N
<1>5. \A n \in 0 .. Len(s) : g[n] = NextMatches(g, s, type, n)
  BY <1>4
<1> DEFINE h == [n \in 0 .. Len(s) |-> g[n]]
<1>6. ASSUME NEW n \in 0 .. Len(s) PROVE NextMatches(h, s, type, n) = NextMatches(g, s, type, n)
  <2>1. n # 0 => n - 1 \in 0 .. Len(s)
    OBVIOUS
  <2>2. n # 0 => h[n - 1] = g[n - 1]
    BY <2>1
  <2> HIDE DEF h
  <2> QED
    BY <2>2 DEF NextMatches
<1>7. h = [n \in 0 .. Len(s) |-> NextMatches(h, s, type, n)]
  BY <1>5, <1>6
<1> HIDE DEF h
<1> QED
  BY <1>7 DEF Matching

(* What the loop has collected after n operations.                                *)
LEMMA MatchSteps ==
    ASSUME NEW s, Len(s) \in Nat, NEW type
    PROVE  \E m : /\ MatchOperations(s, type) = m[Len(s)]
                  /\ m[0] = <<>>
                  /\ \A n \in 1 .. Len(s) :
                        m[n] = IF Fitting(s[n], type) THEN Append(m[n - 1], s[n])
                               ELSE m[n - 1]
<1>1. PICK m : Matching(m, s, type) /\ MatchOperations(s, type) = m[Len(s)]
  BY MatchExists, MatchIs
<1>2. \A n \in 0 .. Len(s) : m[n] = NextMatches(m, s, type, n)
  BY <1>1 DEF Matching
<1> QED
  BY <1>1, <1>2 DEF NextMatches

(* Every operation found is one of those given and fits the description.          *)
LEMMA MatchFits ==
    ASSUME NEW s \in Seq(Operations), NEW type
    PROVE  /\ MatchOperations(s, type) \in Seq(Operations)
           /\ \A i \in DOMAIN MatchOperations(s, type) :
                 /\ Fitting(MatchOperations(s, type)[i], type)
                 /\ \E k \in DOMAIN s : MatchOperations(s, type)[i] = s[k]
<1>1. PICK m : /\ MatchOperations(s, type) = m[Len(s)]
               /\ m[0] = <<>>
               /\ \A n \in 1 .. Len(s) :
                     m[n] = IF Fitting(s[n], type) THEN Append(m[n - 1], s[n]) ELSE m[n - 1]
  BY MatchSteps
<1> DEFINE Found(t) == /\ t \in Seq(Operations)
                       /\ \A i \in DOMAIN t : Fitting(t[i], type) /\ \E k \in DOMAIN s : t[i] = s[k]
           Good == {n \in Nat : n <= Len(s) => Found(m[n])}
<1>2. 0 \in Good
  <2>1. Found(<<>>)
    <3>1. <<>> \in Seq(Operations) /\ DOMAIN <<>> = {}
      OBVIOUS
    <3> QED
      BY <3>1
  <2> HIDE DEF Found
  <2> QED
    BY <1>1, <2>1
<1>3. ASSUME NEW n \in Nat, n \in Good PROVE n + 1 \in Good
  <2> SUFFICES ASSUME n + 1 <= Len(s) PROVE Found(m[n + 1])
    OBVIOUS
  <2>1. n + 1 \in 1 .. Len(s) /\ (n + 1) - 1 = n /\ s[n + 1] \in Operations /\ n + 1 \in DOMAIN s
    OBVIOUS
  <2>2. m[n + 1] = IF Fitting(s[n + 1], type) THEN Append(m[n], s[n + 1]) ELSE m[n]
    BY <1>1, <2>1
  <2>3. Found(m[n])
    BY <1>3, <2>1
  <2>4. ASSUME NEW t, Found(t), NEW op \in Operations, Fitting(op, type),
               \E k \in DOMAIN s : op = s[k]
        PROVE  Found(Append(t, op))
    <3>1. /\ t \in Seq(Operations) /\ Append(t, op) \in Seq(Operations)
          /\ DOMAIN Append(t, op) = 1 .. Len(t) + 1
          /\ \A i \in 1 .. Len(t) : i \in DOMAIN t /\ Append(t, op)[i] = t[i]
          /\ Append(t, op)[Len(t) + 1] = op
      BY <2>4
    <3>2. ASSUME NEW i \in DOMAIN Append(t, op)
          PROVE  Fitting(Append(t, op)[i], type) /\ \E k \in DOMAIN s : Append(t, op)[i] = s[k]
      <4>1. i \in 1 .. Len(t) \/ i = Len(t) + 1
        BY <3>1
      <4> QED
        BY <2>4, <3>1, <4>1
    <3> QED
      BY <3>1, <3>2
  <2> HIDE DEF Found
  <2> QED
    BY <2>1, <2>2, <2>3, <2>4
<1>4. Len(s) \in Good
  <2> HIDE DEF Good
  <2> QED
    BY <1>2, <1>3, UpwardInduction
<1> QED
  BY <1>1, <1>4

(* The inputs and the outputs of a list of operations are of their kind.          *)
LEMMA InputsAndOutputs ==
    ASSUME NEW s \in Seq(Operations)
    PROVE  /\ Inputs(s) \in Seq(Operations)
           /\ \A i \in DOMAIN Inputs(s) : IsInput(Inputs(s)[i])
           /\ Outputs(s) \in Seq(Operations)
           /\ \A i \in DOMAIN Outputs(s) :
                 IsOutput(Outputs(s)[i]) /\ \E k \in DOMAIN s : Outputs(s)[i] = s[k]
BY MatchFits DEF Inputs, Outputs, Fitting

--------------------------------------------------------------------------------
(* Sums over operations                                                           *)

(* What v says of the elements of a sequence.                                     *)
Values(s, v) == [i \in DOMAIN s |-> v[s[i]]]

(* The sum for a sequence of operations is a number.                              *)
LEMMA ValuesType ==
    ASSUME NEW s \in Seq(Operations), NEW v \in [Operations -> Int]
    PROVE  /\ IsFiniteSet(DOMAIN s)
           /\ DOMAIN Values(s, v) = DOMAIN s
           /\ \A i \in DOMAIN s : Values(s, v)[i] = v[s[i]] /\ Values(s, v)[i] \in Int
           /\ Sum(Values(s, v)) \in Int
<1>1. DOMAIN s = 1 .. Len(s) /\ Len(s) \in Nat
  OBVIOUS
<1>2. IsFiniteSet(DOMAIN s)
  <2>1. IsFiniteSet(1 .. Len(s))
    BY <1>1, FS_Interval
  <2> QED
    BY <1>1, <2>1
<1>3. /\ DOMAIN Values(s, v) = DOMAIN s
      /\ \A i \in DOMAIN s : Values(s, v)[i] = v[s[i]] /\ Values(s, v)[i] \in Int
  BY DEF Values
<1> QED
  BY <1>2, <1>3, SumType DEF Sum

(* An operation more adds its value.                                              *)
LEMMA SumAppend ==
    ASSUME NEW s \in Seq(Operations), NEW v \in [Operations -> Int], NEW op \in Operations
    PROVE  Sum(Values(Append(s, op), v)) = v[op] + Sum(Values(s, v))
<1> DEFINE t == Append(s, op)
           n == Len(s) + 1
<1>1. /\ t \in Seq(Operations) /\ DOMAIN t = DOMAIN s \cup {n} /\ n \notin DOMAIN s
      /\ t[n] = op /\ \A i \in DOMAIN s : t[i] = s[i]
  OBVIOUS
<1> HIDE DEF t, n
<1>2. SumFunctionOnSet(Values(t, v), DOMAIN s \cup {n})
          = Values(t, v)[n] + SumFunctionOnSet(Values(t, v), DOMAIN s)
  <2>1. \A i \in DOMAIN s \cup {n} : Values(t, v)[i] \in Int
    BY <1>1, ValuesType
  <2>2. IsFiniteSet(DOMAIN s)
    BY ValuesType
  <2> QED
    BY <1>1, <2>1, <2>2, SumAdd
<1>3. SumFunctionOnSet(Values(t, v), DOMAIN s) = SumFunctionOnSet(Values(s, v), DOMAIN s)
  <2>1. \A i \in DOMAIN s : Values(t, v)[i] = Values(s, v)[i]
    BY <1>1, ValuesType
  <2>2. IsFiniteSet(DOMAIN s)
    BY ValuesType
  <2> QED
    BY <2>1, <2>2, SumAgree
<1>4. Values(t, v)[n] = v[op]
  BY <1>1, ValuesType
<1>5. DOMAIN Values(t, v) = DOMAIN s \cup {n} /\ DOMAIN Values(s, v) = DOMAIN s
  BY <1>1, ValuesType
<1> QED
  BY <1>2, <1>3, <1>4, <1>5 DEF Sum, t

(* There is nothing to add.                                                       *)
LEMMA SumOfEmpty == ASSUME NEW v PROVE Sum(Values(<<>>, v)) = 0
<1>1. DOMAIN Values(<<>>, v) = {}
  BY DEF Values
<1> QED
  BY <1>1, SumOfNone DEF Sum

(* When every operation fits one description, inputs and outputs together sum up  *)
(* to the same as the list.                                                       *)
LEMMA SumOfBoth ==
    ASSUME NEW s \in Seq(Operations), NEW v \in [Operations -> Int],
           \A i \in DOMAIN s : IsInput(s[i]) \/ IsOutput(s[i])
    PROVE  Sum(Values(s, v)) = Sum(Values(Inputs(s), v)) + Sum(Values(Outputs(s), v))
<1> DEFINE Steps(m, type) ==
               /\ m[0] = <<>>
               /\ \A n \in 1 .. Len(s) :
                     m[n] = IF Fitting(s[n], type) THEN Append(m[n - 1], s[n]) ELSE m[n - 1]
<1>1. PICK a : Inputs(s) = a[Len(s)] /\ Steps(a, "INPUT")
  BY MatchSteps DEF Inputs
<1>2. PICK b : Outputs(s) = b[Len(s)] /\ Steps(b, "OUTPUT")
  BY MatchSteps DEF Outputs
<1> DEFINE First(n) == SubSeq(s, 1, n)
           Equal(n) == /\ a[n] \in Seq(Operations) /\ b[n] \in Seq(Operations)
                       /\ Sum(Values(First(n), v)) = Sum(Values(a[n], v)) + Sum(Values(b[n], v))
           Good == {n \in Nat : n <= Len(s) => Equal(n)}
<1>3. 0 \in Good
  <2>1. First(0) = <<>> /\ a[0] = <<>> /\ b[0] = <<>> /\ <<>> \in Seq(Operations)
    BY <1>1, <1>2
  <2>2. Sum(Values(<<>>, v)) = 0 /\ 0 = 0 + 0
    BY SumOfEmpty
  <2> HIDE DEF First
  <2>3. Equal(0)
    BY <2>1, <2>2
  <2> HIDE DEF Equal
  <2> QED
    BY <2>3
<1>4. ASSUME NEW n \in Nat, n \in Good PROVE n + 1 \in Good
  <2> SUFFICES ASSUME n + 1 <= Len(s) PROVE Equal(n + 1)
    OBVIOUS
  <2>1. PICK op \in Operations : op = s[n + 1]
    OBVIOUS
  <2>2. n + 1 \in 1 .. Len(s) /\ (n + 1) - 1 = n /\ (IsInput(op) \/ IsOutput(op))
    BY <2>1
  <2>3. Equal(n)
    BY <1>4, <2>2
  <2>4. First(n) \in Seq(Operations) /\ First(n + 1) = Append(First(n), op)
    BY <2>1, <2>2
  <2>5. /\ a[n + 1] = IF IsInput(op) THEN Append(a[n], op) ELSE a[n]
        /\ b[n + 1] = IF IsOutput(op) THEN Append(b[n], op) ELSE b[n]
    BY <1>1, <1>2, <2>1, <2>2 DEF Fitting
  <2>6. PICK A \in Seq(Operations), B \in Seq(Operations), F \in Seq(Operations) :
            A = a[n] /\ B = b[n] /\ F = First(n)
    BY <2>3, <2>4
  <2>7. Sum(Values(F, v)) = Sum(Values(A, v)) + Sum(Values(B, v))
    BY <2>3, <2>6
  <2>8. Sum(Values(Append(F, op), v)) = v[op] + Sum(Values(F, v))
    BY SumAppend
  <2>9. Sum(Values(A, v)) \in Int /\ Sum(Values(B, v)) \in Int /\ v[op] \in Int
    BY ValuesType
  <2>10. First(n + 1) = Append(F, op)
    BY <2>4, <2>6
  <2>11. CASE IsInput(op)
    <3>1. a[n + 1] = Append(A, op) /\ b[n + 1] = B
      BY <2>5, <2>6, <2>11 DEF IsInput, IsOutput
    <3>2. Sum(Values(Append(A, op), v)) = v[op] + Sum(Values(A, v))
      BY SumAppend
    <3>3. Sum(Values(Append(F, op), v)) = Sum(Values(Append(A, op), v)) + Sum(Values(B, v))
      BY <2>7, <2>8, <2>9, <3>2
    <3>4. Append(A, op) \in Seq(Operations)
      OBVIOUS
    <3> QED
      BY <2>10, <3>1, <3>3, <3>4
  <2>12. CASE ~ IsInput(op)
    <3>1. a[n + 1] = A /\ b[n + 1] = Append(B, op)
      BY <2>2, <2>5, <2>6, <2>12
    <3>2. Sum(Values(Append(B, op), v)) = v[op] + Sum(Values(B, v))
      BY SumAppend
    <3>3. Sum(Values(Append(F, op), v)) = Sum(Values(A, v)) + Sum(Values(Append(B, op), v))
      BY <2>7, <2>8, <2>9, <3>2
    <3>4. Append(B, op) \in Seq(Operations)
      OBVIOUS
    <3> QED
      BY <2>10, <3>1, <3>3, <3>4
  <2> QED
    BY <2>11, <2>12
<1> HIDE DEF Good
<1>5. Nat \subseteq Good
  BY <1>3, <1>4, UpwardInduction
<1>6. First(Len(s)) = s /\ Len(s) \in Nat /\ Len(s) <= Len(s)
  OBVIOUS
<1> HIDE DEF First, Equal
<1>7. Equal(Len(s))
  BY <1>5, <1>6 DEF Good
<1> QED
  BY <1>1, <1>2, <1>6, <1>7 DEF Equal

--------------------------------------------------------------------------------
(* Integers of 64 bits                                                            *)

(* Half of the modulus is a number.                                               *)
LEMMA HalfModulus == /\ Modulus \div 2 \in Nat /\ Modulus \div 2 > 0
                     /\ Modulus = (Modulus \div 2) + (Modulus \div 2)
BY ConstructionConstants

(* A number below the modulus is its own remainder.                               *)
LEMMA SmallRemainder == ASSUME NEW x \in Nat, NEW m \in Nat, x < m PROVE x % m = x
OBVIOUS

(* The modulus leaves no remainder.                                               *)
LEMMA NoRemainder == ASSUME NEW m \in Nat, m > 0 PROVE m % m = 0
OBVIOUS

(* A remainder is below the modulus.                                              *)
LEMMA RemainderType == ASSUME NEW x \in Int, NEW m \in Nat, m > 0
                       PROVE  x % m \in Nat /\ x % m < m
OBVIOUS

(* big.Int.Int64 gives an int64.                                                  *)
LEMMA Int64Type ==
    ASSUME NEW n \in Int
    PROVE  Int64(n) \in Int /\ - (Modulus \div 2) <= Int64(n) /\ Int64(n) < Modulus \div 2
<1>1. PICK h \in Nat : h = Modulus \div 2 /\ h > 0 /\ Modulus = h + h
  BY HalfModulus
<1>2. (n + h) % Modulus \in Nat /\ (n + h) % Modulus < Modulus
  BY <1>1, RemainderType
<1> QED
  BY <1>1, <1>2 DEF Int64

(* A number in the range of an int64 is kept.                                     *)
LEMMA Int64Keeps ==
    ASSUME NEW n \in Int, - (Modulus \div 2) <= n, n < Modulus \div 2
    PROVE  Int64(n) = n
<1>1. PICK h \in Nat : h = Modulus \div 2 /\ h > 0 /\ Modulus = h + h
  BY HalfModulus
<1>2. (n + h) % Modulus = n + h
  <2>1. n + h \in Nat /\ n + h < Modulus /\ Modulus \in Nat
    BY <1>1
  <2> QED
    BY <2>1, SmallRemainder
<1> QED
  BY <1>1, <1>2 DEF Int64

(* When an amount fits and the number that is signed for it is positive, that is  *)
(* the amount with the sign turned.  Only the least int64 has no such counterpart. *)
LEMMA Int64Negated ==
    ASSUME NEW a \in Int, a < 0, Int64(a) = a, Int64(- a) > 0
    PROVE  Int64(- a) = - a
<1>1. PICK h \in Nat : h = Modulus \div 2 /\ h > 0 /\ Modulus = h + h
  BY HalfModulus
<1>2. - h <= a
  BY <1>1, Int64Type
<1>3. CASE - a < h
  <2>1. - a \in Int /\ - h <= - a
    BY <1>1
  <2> QED
    BY <1>1, <1>3, <2>1, Int64Keeps
<1>4. CASE - a = h
  <2>1. (h + h) % Modulus = 0
    BY <1>1, NoRemainder
  <2>2. Int64(h) = ((h + h) % Modulus) - h
    BY <1>1 DEF Int64
  <2> QED
    BY <1>1, <1>4, <2>1, <2>2
<1> QED
  BY <1>1, <1>2, <1>3, <1>4

--------------------------------------------------------------------------------
(* The fee                                                                        *)

(* What is at least k per unit is at least k times the number of units.           *)
LEMMA AtLeastTimes == ASSUME NEW x \in Nat, NEW k \in Nat, x >= k, NEW n \in Nat
                      PROVE  x * n \in Nat /\ x * n >= k * n
<1>1. PICK d \in Nat : x = k + d
  <2>1. x - k \in Nat /\ x = k + (x - k)
    OBVIOUS
  <2> QED
    BY <2>1
<1>2. x * n = k * n + d * n /\ d * n \in Nat
  BY <1>1
<1> QED
  BY <1>2

(* The suggested fee is at least one satoshi per byte.                            *)
LEMMA FeeReachesSize ==
    ASSUME NEW rate \in Nat, NEW multiplier \in Nat, NEW size \in Nat
    PROVE  /\ SuggestedFee(rate, multiplier, size) \in Nat
           /\ SuggestedFee(rate, multiplier, size) >= size
<1> DEFINE S == {rate * multiplier, 100000}
<1>1. PICK x \in Nat : x = Max(S) /\ x >= 100000
  <2>1. rate * multiplier \in Nat
    OBVIOUS
  <2>2. PICK y \in Nat : y = rate * multiplier
    BY <2>1
  <2>3. \E n \in {y, 100000} : \A m \in {y, 100000} : n >= m
    <3>1. y >= 100000 \/ 100000 >= y
      OBVIOUS
    <3> QED
      BY <3>1
  <2>4. Max({y, 100000}) \in {y, 100000} /\ \A m \in {y, 100000} : Max({y, 100000}) >= m
    BY <2>3 DEF Max
  <2> QED
    BY <2>2, <2>4
<1>2. SuggestedFee(rate, multiplier, size) = (x * size) \div 100000
  BY <1>1 DEF SuggestedFee, MinFeeRate, bytesInKb
<1>3. x * size \in Nat /\ x * size >= 100000 * size
  BY <1>1, AtLeastTimes
<1>4. PICK z \in Nat : z = x * size /\ z >= 100000 * size
  BY <1>3
<1>5. z \div 100000 \in Nat /\ z \div 100000 >= size
  BY <1>4
<1> QED
  BY <1>2, <1>4, <1>5

(* What an operation adds to the estimated size, and what it takes or gives.      *)
SizeOf == [op \in Operations |-> OpSize(op)]
AmountOf == [op \in Operations |-> op.amount]

(* They are numbers.                                                              *)
LEMMA SizeAndAmount ==
    /\ SizeOf \in [Operations -> Int] /\ \A op \in Operations : SizeOf[op] \in Nat
    /\ AmountOf \in [Operations -> Int]
<1>1. ASSUME NEW op \in Operations PROVE OpSize(op) \in Nat
  <2>1. op.type = "INPUT" \/ op.type = "OUTPUT"
    BY DEF Operations
  <2>2. op.account \in Decodable => ScriptLen[op.account] \in Nat
    <3>1. ScriptLen \in [Decodable -> 0 .. 252]
      BY ConstructionConstants
    <3>2. ASSUME op.account \in Decodable PROVE ScriptLen[op.account] \in 0 .. 252
      BY <3>1, <3>2
    <3> QED
      BY <3>2
  <2>3. CASE op.type = "INPUT"
    BY <2>3 DEF OpSize, InputSize
  <2>4. CASE op.type = "OUTPUT" /\ op.account \in Decodable
    BY <2>2, <2>4 DEF OpSize, OutputOverhead
  <2>5. CASE op.type = "OUTPUT" /\ op.account \notin Decodable
    BY <2>5 DEF OpSize, OutputOverhead, P2PKHScriptPubkeySize
  <2> QED
    BY <2>1, <2>3, <2>4, <2>5
<1>2. ASSUME NEW op \in Operations PROVE op.amount \in Int
  BY DEF Operations
<1> QED
  BY <1>1, <1>2 DEF SizeOf, AmountOf

(* The sums of the model are such sums.                                           *)
LEMMA SizeIsSum ==
    ASSUME NEW s \in Seq(Operations)
    PROVE  /\ estimateSize(s) = 12 + Sum(Values(s, SizeOf))
           /\ estimateSize(s) \in Nat
           /\ [i \in DOMAIN s |-> s[i].amount] = Values(s, AmountOf)
<1>1. \A i \in DOMAIN s : s[i] \in Operations
  OBVIOUS
<1>2. \A i \in DOMAIN s : SizeOf[s[i]] = OpSize(s[i]) /\ AmountOf[s[i]] = s[i].amount
  BY <1>1 DEF SizeOf, AmountOf
<1>3. /\ [i \in DOMAIN s |-> OpSize(s[i])] = Values(s, SizeOf)
      /\ [i \in DOMAIN s |-> s[i].amount] = Values(s, AmountOf)
  BY <1>2 DEF Values
<1>4. Sum(Values(s, SizeOf)) \in Nat
  <2>1. IsFiniteSet(DOMAIN s) /\ DOMAIN Values(s, SizeOf) = DOMAIN s
    BY SizeAndAmount, ValuesType
  <2>2. \A i \in DOMAIN s : Values(s, SizeOf)[i] \in Nat
    BY <1>1, SizeAndAmount DEF Values
  <2> QED
    BY <2>1, <2>2, SumOfNaturals DEF Sum
<1>5. estimateSize(s) = 12 + Sum(Values(s, SizeOf))
  BY <1>3 DEF estimateSize, TransactionOverhead
<1> QED
  BY <1>3, <1>4, <1>5

--------------------------------------------------------------------------------
(* What the calls answer                                                          *)

(* A function on 1 .. n is a sequence.                                            *)
LEMMA IsSequence == ASSUME NEW n \in Nat, NEW S, NEW f \in [1 .. n -> S]
                    PROVE  f \in Seq(S) /\ Len(f) = n
OBVIOUS

(* The inputs of a transaction are those of its operations, in their order.       *)
LEMMA TransactionShape ==
    ASSUME NEW s \in Seq(Operations),
           \A i \in DOMAIN Outputs(s) : Outputs(s)[i].account \in Decodable
    PROVE  /\ TransactionOf(s).ins \in Seq(Coins)
           /\ DOMAIN TransactionOf(s).ins = DOMAIN Inputs(s)
           /\ Len(TransactionOf(s).ins) = Len(Inputs(s))
           /\ \A i \in DOMAIN Inputs(s) : TransactionOf(s).ins[i] = Inputs(s)[i].coin
           /\ TransactionOf(s).outs \in Seq(TxOuts)
           /\ DOMAIN TransactionOf(s).outs = DOMAIN Outputs(s)
           /\ Len(TransactionOf(s).outs) = Len(Outputs(s))
           /\ \A i \in DOMAIN Outputs(s) :
                 TransactionOf(s).outs[i] = [account |-> Outputs(s)[i].account,
                                             amount |-> Int64(Outputs(s)[i].amount)]
<1>1. PICK a \in Seq(Operations) : a = Inputs(s) /\ \A i \in DOMAIN a : IsInput(a[i])
  BY InputsAndOutputs
<1>2. PICK b \in Seq(Operations) : b = Outputs(s) /\ \A i \in DOMAIN b : IsOutput(b[i])
  BY InputsAndOutputs
<1> DEFINE ins == [i \in DOMAIN a |-> a[i].coin]
           outs == [i \in DOMAIN b |-> [account |-> b[i].account, amount |-> Int64(b[i].amount)]]
<1>3. TransactionOf(s).ins = ins /\ TransactionOf(s).outs = outs
  BY <1>1, <1>2 DEF TransactionOf
<1>4. DOMAIN a = 1 .. Len(a) /\ Len(a) \in Nat /\ DOMAIN b = 1 .. Len(b) /\ Len(b) \in Nat
  OBVIOUS
<1>5. ins \in [1 .. Len(a) -> Coins]
  <2>1. ASSUME NEW i \in DOMAIN a PROVE a[i].coin \in Coins
    <3>1. PICK op \in Operations : op = a[i] /\ IsInput(op)
      BY <1>1
    <3> QED
      BY <3>1 DEF Operations, IsInput
  <2> QED
    BY <1>4, <2>1
<1>6. outs \in [1 .. Len(b) -> TxOuts]
  <2>1. ASSUME NEW i \in DOMAIN b
        PROVE  b[i].account \in Decodable /\ Int64(b[i].amount) \in Int
    <3>1. PICK op \in Operations : op = b[i]
      OBVIOUS
    <3>2. op.amount \in Int
      BY DEF Operations
    <3> QED
      BY <1>2, <3>1, <3>2, Int64Type
  <2> QED
    BY <1>4, <2>1 DEF TxOuts
<1>7. \A i \in DOMAIN a : ins[i] = a[i].coin
  OBVIOUS
<1>8. \A i \in DOMAIN b : outs[i] = [account |-> b[i].account, amount |-> Int64(b[i].amount)]
  OBVIOUS
<1> HIDE DEF ins, outs
<1>9. /\ ins \in Seq(Coins) /\ Len(ins) = Len(a) /\ DOMAIN ins = DOMAIN a
      /\ outs \in Seq(TxOuts) /\ Len(outs) = Len(b) /\ DOMAIN outs = DOMAIN b
  BY <1>4, <1>5, <1>6, IsSequence
<1> QED
  BY <1>1, <1>2, <1>3, <1>7, <1>8, <1>9

(* What travels with the unsigned transaction is as long as its inputs.           *)
LEMMA UnsignedShape ==
    ASSUME NEW s \in Seq(Operations), NEW scripts, Acceptable(s, scripts),
           NEW u, u = UnsignedOf(s, scripts)
    PROVE  /\ u.tx = TransactionOf(s)
           /\ u.tx.ins \in Seq(Coins) /\ u.tx.outs \in Seq(TxOuts)
           /\ DOMAIN u.tx.ins = DOMAIN Inputs(s)
           /\ DOMAIN u.payloads = DOMAIN Inputs(s)
           /\ Len(u.payloads) = Len(u.tx.ins)
           /\ \A i \in DOMAIN Inputs(s) :
                 /\ u.amounts[i] = Inputs(s)[i].amount
                 /\ u.addresses[i] = Inputs(s)[i].account
                 /\ u.payloads[i].account = Inputs(s)[i].account
                 /\ u.payloads[i].bytes = SigHash(TransactionOf(s), i, scripts[i],
                                                  Int64(- Inputs(s)[i].amount))
<1>1. /\ u.tx = TransactionOf(s)
      /\ u.payloads = [i \in DOMAIN Inputs(s) |->
                          [account |-> Inputs(s)[i].account,
                           bytes |-> SigHash(TransactionOf(s), i, scripts[i],
                                             Int64(- Inputs(s)[i].amount))]]
      /\ u.amounts = [i \in DOMAIN Inputs(s) |-> Inputs(s)[i].amount]
      /\ u.addresses = [i \in DOMAIN Inputs(s) |-> Inputs(s)[i].account]
  BY DEF UnsignedOf
<1>2. /\ TransactionOf(s).ins \in Seq(Coins) /\ TransactionOf(s).outs \in Seq(TxOuts)
      /\ DOMAIN TransactionOf(s).ins = DOMAIN Inputs(s)
      /\ Len(TransactionOf(s).ins) = Len(Inputs(s))
  BY TransactionShape DEF Acceptable
<1>3. PICK a \in Seq(Operations) : a = Inputs(s)
  BY InputsAndOutputs
<1>4. DOMAIN u.payloads = 1 .. Len(a) /\ Len(a) \in Nat
  BY <1>1, <1>3
<1>5. Len(u.payloads) = Len(a)
  <2>1. PICK p : p = u.payloads /\ p = [i \in DOMAIN a |-> p[i]]
    BY <1>1, <1>3
  <2>2. p \in [1 .. Len(a) -> {p[i] : i \in 1 .. Len(a)}]
    BY <2>1
  <2>3. Len(a) \in Nat
    OBVIOUS
  <2> QED
    BY <2>1, <2>2, <2>3, IsSequence
<1> QED
  BY <1>1, <1>2, <1>3, <1>5

--------------------------------------------------------------------------------
(* What the client holds                                                          *)

(* Nothing is lost as long as the variables are left alone.                       *)
LEMMA Frames ==
    /\ UNCHANGED <<ops, options>> => (OptionsOK' <=> OptionsOK)
    /\ UNCHANGED <<ops, metadata>> => (MetadataOK' <=> MetadataOK)
    /\ UNCHANGED <<intent, metadata, unsigned>> => (UnsignedOK' <=> UnsignedOK)
    /\ UNCHANGED <<unsigned, signatures>> => (SignaturesOK' <=> SignaturesOK)
    /\ UNCHANGED <<unsigned, signatures, signed>> => (SignedOK' <=> SignedOK)
    /\ UNCHANGED <<unsigned, parsed>> => (ParsedUnsignedOK' <=> ParsedUnsignedOK)
    /\ UNCHANGED <<signed, parsed>> => (ParsedSignedOK' <=> ParsedSignedOK)
    /\ UNCHANGED signed => (Valid(signed)' <=> Valid(signed))
<1>1. UNCHANGED <<ops, options>> => (OptionsOK' <=> OptionsOK)
  BY DEF OptionsOK
<1>2. UNCHANGED <<ops, metadata>> => (MetadataOK' <=> MetadataOK)
  BY DEF MetadataOK
<1>3. UNCHANGED <<intent, metadata, unsigned>> => (UnsignedOK' <=> UnsignedOK)
  BY DEF UnsignedOK
<1>4. UNCHANGED <<unsigned, signatures>> => (SignaturesOK' <=> SignaturesOK)
  BY DEF SignaturesOK, Signatures
<1>5. UNCHANGED <<unsigned, signatures, signed>> => (SignedOK' <=> SignedOK)
  BY DEF SignedOK, SignedOf, Witness
<1>6. UNCHANGED <<unsigned, parsed>> => (ParsedUnsignedOK' <=> ParsedUnsignedOK)
  BY DEF ParsedUnsignedOK
<1>7. UNCHANGED <<signed, parsed>> => (ParsedSignedOK' <=> ParsedSignedOK)
  BY DEF ParsedSignedOK
<1>8. UNCHANGED signed => (Valid(signed)' <=> Valid(signed))
  OBVIOUS
<1> QED
  BY <1>1, <1>2, <1>3, <1>4, <1>5, <1>6, <1>7, <1>8

(* Before the first call there is nothing.                                        *)
LEMMA InitInv == Init => ConstructionInv
BY DEF Init, ConstructionInv, TypeOK, Calls, Ends, HasMetadata, HasUnsigned, HasSignatures,
       HasSigned, Submitted

(* Failing loses nothing of what has been checked.                                *)
LEMMA FailInv ==
    ASSUME ConstructionInv, Fail, ops' \in Intents \cup {<<>>}, intent' \in Intents \cup {<<>>},
           intent' = intent \/ (parsed.unsigned = None /\ parsed.signed = None),
           signatures' = signatures
    PROVE  ConstructionInv'
<1> USE DEF ConstructionInv
<1>1. /\ pc' = "failed"
      /\ UNCHANGED <<options, metadata, unsigned, signed, parsed, hash, signatures>>
  BY DEF Fail
<1>2. TypeOK'
  BY <1>1 DEF TypeOK, Ends
<1> QED
  BY <1>1, <1>2, Frames DEF HasMetadata, HasUnsigned, HasSignatures, HasSigned, Submitted

(* /preprocess tells /metadata of the coins of its operations and of their size.  *)
LEMMA PreprocessInv ==
    ASSUME ConstructionInv, NEW s \in Intents, NEW m \in Multipliers,
           ConstructionPreprocess(s, m)
    PROVE  ConstructionInv'
<1>1. CASE Fail
  <2>1. /\ pc = "preprocess" /\ ops' = s /\ intent' = intent /\ signatures' = signatures
    BY DEF ConstructionPreprocess
  <2>2. intent' \in Intents \cup {<<>>} /\ ops' \in Intents \cup {<<>>}
    BY <2>1 DEF ConstructionInv, TypeOK
  <2> QED
    BY <1>1, <2>1, <2>2, FailInv
<1>2. CASE ~ Fail
  <2>1. /\ pc = "preprocess" /\ pc' = "metadata" /\ ops' = s /\ options' = OptionsOf(s, m)
        /\ UNCHANGED <<metadata, unsigned, signed, parsed, hash, intent, signatures>>
    BY <1>2 DEF ConstructionPreprocess
  <2>2. TypeOK'
    BY <2>1 DEF ConstructionInv, TypeOK, Calls
  <2>3. OptionsOK'
    BY <2>1 DEF OptionsOK
  <2> QED
    BY <2>1, <2>2, <2>3 DEF ConstructionInv, HasMetadata, HasUnsigned, HasSignatures,
       HasSigned, Submitted
<1> QED
  BY <1>1, <1>2

(* /metadata looks at each coin, and the fee it suggests is enough.               *)
LEMMA MetadataInv ==
    ASSUME ConstructionInv, NEW indexed \in SUBSET Coins, NEW rate \in Rates,
           ConstructionMetadata(indexed, rate)
    PROVE  ConstructionInv'
<1>0. /\ pc = "metadata" /\ UNCHANGED <<ops, intent, signatures>>
      /\ intent \in Intents \cup {<<>>} /\ ops \in Intents
  BY DEF ConstructionMetadata, ConstructionInv, TypeOK, OptionsOK
<1>1. CASE Fail
  BY <1>0, <1>1, FailInv
<1>2. CASE ~ Fail
  <2>1. PICK s \in GetScriptPubKeys(indexed, options.coins) :
           /\ metadata' = [scripts |-> s,
                           fee |-> SuggestedFee(rate, options.multiplier, options.size)]
           /\ pc' = "payloads"
           /\ UNCHANGED <<options, unsigned, signed, parsed, hash>>
    BY <1>2 DEF ConstructionMetadata
  <2>2. PICK m \in Multipliers : options = OptionsOf(ops, m)
    BY <1>0 DEF ConstructionInv, OptionsOK
  <2>3. ops \in Seq(Operations) /\ m \in Nat /\ rate \in Nat
    BY <1>0, ConstructionConstants
  <2>4. /\ options.multiplier = m /\ options.size = estimateSize(ops)
        /\ DOMAIN options.coins = DOMAIN Inputs(ops)
        /\ \A i \in DOMAIN Inputs(ops) : /\ options.coins[i].coin = Inputs(ops)[i].coin
                                         /\ options.coins[i].amount = Inputs(ops)[i].amount
    BY <2>2 DEF OptionsOf
  <2>5. metadata'.fee \in Nat /\ metadata'.fee >= estimateSize(ops)
    BY <2>1, <2>3, <2>4, SizeIsSum, FeeReachesSize
  <2>6. /\ s = [i \in DOMAIN options.coins |-> Script(options.coins[i].coin)]
        /\ \A i \in DOMAIN options.coins :
              CoinAmount[options.coins[i].coin] + options.coins[i].amount = 0
    BY <2>1 DEF GetScriptPubKeys
  <2>7. /\ s = [i \in DOMAIN Inputs(ops) |-> Script(Inputs(ops)[i].coin)]
        /\ \A i \in DOMAIN Inputs(ops) :
              CoinAmount[Inputs(ops)[i].coin] + Inputs(ops)[i].amount = 0
    BY <2>4, <2>6
  <2>8. MetadataOK'
    BY <1>0, <2>1, <2>5, <2>7 DEF MetadataOK
  <2>9. s \in Seq(Scripts)
    <3>1. PICK a \in Seq(Operations) : a = Inputs(ops) /\ \A i \in DOMAIN a : IsInput(a[i])
      BY <2>3, InputsAndOutputs
    <3>2. ASSUME NEW i \in DOMAIN a PROVE Script(a[i].coin) \in Scripts
      <4>1. PICK op \in Operations : op = a[i] /\ IsInput(op)
        BY <3>1
      <4>2. op.coin \in Coins
        BY <4>1 DEF Operations, IsInput
      <4>3. CoinClass[op.coin] \in STRING /\ CoinAccount[op.coin] \in Accounts
        BY <4>2, ConstructionConstants
      <4> QED
        BY <4>1, <4>3 DEF Script, Scripts
    <3>3. s \in [1 .. Len(a) -> Scripts] /\ Len(a) \in Nat
      BY <2>7, <3>1, <3>2
    <3> QED
      BY <3>3, IsSequence
  <2>10. TypeOK'
    BY <1>0, <2>1, <2>5, <2>9 DEF ConstructionInv, TypeOK, Calls
  <2> QED
    BY <1>0, <2>1, <2>8, <2>10 DEF ConstructionInv, HasMetadata, HasUnsigned, HasSignatures,
       HasSigned, Submitted
<1> QED
  BY <1>1, <1>2

(* /payloads builds the transaction of the operations it is given.                *)
LEMMA PayloadsInv ==
    ASSUME ConstructionInv, NEW s \in Intents, ConstructionPayloads(s)
    PROVE  ConstructionInv'
<1>0. /\ pc = "payloads" /\ intent' = s /\ UNCHANGED <<ops, signatures>>
      /\ ops \in Intents \cup {<<>>} /\ parsed.unsigned = None /\ parsed.signed = None
  BY DEF ConstructionPayloads, ConstructionInv, TypeOK
<1>1. CASE Fail
  BY <1>0, <1>1, FailInv
<1>2. CASE ~ Fail
  <2>1. /\ Acceptable(s, metadata.scripts)
        /\ unsigned' = UnsignedOf(s, metadata.scripts)
        /\ pc' = "parse_unsigned"
        /\ UNCHANGED <<options, metadata, signed, parsed, hash>>
    BY <1>2 DEF ConstructionPayloads
  <2>2. UnsignedOK'
    BY <1>0, <2>1 DEF UnsignedOK
  <2>3. MetadataOK'
    BY <1>0, <2>1, Frames DEF ConstructionInv, HasMetadata
  <2>4. /\ unsigned'.tx.ins \in Seq(Coins) /\ unsigned'.tx.outs \in Seq(TxOuts)
        /\ Len(unsigned'.payloads) = Len(unsigned'.tx.ins)
    <3>1. s \in Seq(Operations)
      BY ConstructionConstants
    <3> QED
      BY <2>1, <3>1, UnsignedShape
  <2>5. TypeOK'
    BY <1>0, <2>1, <2>4 DEF ConstructionInv, TypeOK, Calls
  <2> QED
    BY <1>0, <2>1, <2>2, <2>3, <2>5 DEF ConstructionInv, HasMetadata, HasUnsigned,
       HasSignatures, HasSigned, Submitted
<1> QED
  BY <1>1, <1>2

(* /parse of the unsigned transaction.                                            *)
LEMMA ParseUnsignedInv == ASSUME ConstructionInv, ParseUnsigned PROVE ConstructionInv'
<1>1. /\ pc = "parse_unsigned" /\ pc' = "sign"
      /\ parsed' = [parsed EXCEPT !.unsigned =
                       OperationsOf(unsigned.tx, unsigned.addresses, unsigned.amounts)]
      /\ UNCHANGED <<ops, options, metadata, intent, unsigned, signatures, signed, hash>>
  BY DEF ParseUnsigned
<1>2. DOMAIN parsed = {"unsigned", "signed"} /\ parsed.signed = None
  BY <1>1 DEF ConstructionInv
<1>3. /\ DOMAIN parsed' = {"unsigned", "signed"}
      /\ parsed'.signed = None
      /\ parsed'.unsigned = OperationsOf(unsigned.tx, unsigned.addresses, unsigned.amounts)
  BY <1>1, <1>2
<1>4. ParsedUnsignedOK'
  BY <1>1, <1>3 DEF ParsedUnsignedOK
<1>5. MetadataOK' /\ UnsignedOK'
  BY <1>1, Frames DEF ConstructionInv, HasMetadata, HasUnsigned
<1>6. TypeOK'
  BY <1>1 DEF ConstructionInv, TypeOK, Calls
<1> QED
  BY <1>1, <1>3, <1>4, <1>5, <1>6 DEF ConstructionInv, HasMetadata, HasUnsigned,
     HasSignatures, HasSigned, Submitted

(* However the client orders its signatures, each is that of a payload.           *)
LEMMA SignInv == ASSUME ConstructionInv, Sign PROVE ConstructionInv'
<1>1. /\ pc = "sign" /\ pc' = "combine"
      /\ signatures' \in {Signatures, Swapped(Signatures), Tail(Signatures)}
      /\ UNCHANGED <<ops, options, metadata, intent, unsigned, signed, parsed, hash>>
  BY DEF Sign
<1>2. /\ MetadataOK' /\ UnsignedOK /\ UnsignedOK' /\ ParsedUnsignedOK'
      /\ parsed'.signed = None
  BY <1>1, Frames DEF ConstructionInv, HasMetadata, HasUnsigned
<1>3. SignaturesOK'
  <2>1. intent \in Seq(Operations)
    BY <1>2, ConstructionConstants DEF UnsignedOK
  <2>2. PICK a \in Seq(Operations) : a = Inputs(intent) /\ a # <<>>
    BY <1>2, <2>1, InputsAndOutputs DEF UnsignedOK, Acceptable
  <2>3. DOMAIN unsigned.payloads = DOMAIN a
    BY <1>2, <2>1, <2>2, UnsignedShape DEF UnsignedOK
  <2>4. DOMAIN Signatures = 1 .. Len(a) /\ Len(a) \in Nat /\ Len(a) > 0
    BY <2>2, <2>3 DEF Signatures
  <2>5. PICK t : t = Signatures /\ t \in Seq({t[i] : i \in 1 .. Len(a)}) /\ Len(t) = Len(a)
    <3>1. PICK t : t = Signatures /\ t = [i \in 1 .. Len(a) |-> t[i]]
      BY <2>3, <2>4 DEF Signatures
    <3>2. t \in [1 .. Len(a) -> {t[i] : i \in 1 .. Len(a)}]
      BY <3>1
    <3>3. t \in Seq({t[i] : i \in 1 .. Len(a)}) /\ Len(t) = Len(a)
      BY <2>4, <3>2, IsSequence
    <3> QED
      BY <3>1, <3>3
  <2>6. ASSUME NEW i \in DOMAIN signatures' PROVE \E j \in DOMAIN t : signatures'[i] = t[j]
    <3>1. CASE signatures' = t
      BY <2>6, <3>1
    <3>2. CASE signatures' = Swapped(t)
      <4>1. i \in DOMAIN t /\ signatures'[i] = t[Len(t) + 1 - i]
        BY <2>6, <3>2 DEF Swapped
      <4>2. Len(t) + 1 - i \in DOMAIN t
        BY <2>5, <4>1
      <4> QED
        BY <4>1, <4>2
    <3>3. CASE signatures' = Tail(t)
      <4>1. Len(t) > 0 /\ DOMAIN t = 1 .. Len(t) /\ Len(t) \in Nat
        BY <2>4, <2>5
      <4>2. /\ DOMAIN Tail(t) = 1 .. Len(t) - 1
            /\ \A k \in 1 .. Len(t) - 1 : Tail(t)[k] = t[k + 1]
        BY <2>5, <4>1
      <4>3. i + 1 \in DOMAIN t /\ signatures'[i] = t[i + 1]
        BY <2>6, <3>3, <4>1, <4>2
      <4> QED
        BY <4>3
    <3> QED
      BY <1>1, <2>5, <3>1, <3>2, <3>3
  <2>7. Signatures' = Signatures
    BY <1>1 DEF Signatures
  <2> QED
    BY <2>5, <2>6, <2>7 DEF SignaturesOK
<1>4. TypeOK'
  BY <1>1 DEF ConstructionInv, TypeOK, Calls
<1> QED
  BY <1>1, <1>2, <1>3, <1>4 DEF ConstructionInv, HasMetadata, HasUnsigned, HasSignatures,
     HasSigned, Submitted

(* /combine gives every input a witness, or fails.                                *)
LEMMA CombineInv == ASSUME ConstructionInv, ConstructionCombine PROVE ConstructionInv'
<1>0. /\ pc = "combine" /\ UNCHANGED <<ops, intent, signatures>>
      /\ ops \in Intents \cup {<<>>} /\ intent \in Intents \cup {<<>>}
  BY DEF ConstructionCombine, ConstructionInv, TypeOK
<1>1. CASE Fail
  BY <1>0, <1>1, FailInv
<1>2. CASE ~ Fail
  <2>1. /\ DOMAIN unsigned.tx.ins \subseteq DOMAIN signatures
        /\ signed' = SignedOf(unsigned)
        /\ pc' = "parse_signed"
        /\ UNCHANGED <<options, metadata, unsigned, parsed, hash>>
    BY <1>2 DEF ConstructionCombine
  <2>2. /\ MetadataOK' /\ UnsignedOK /\ UnsignedOK' /\ ParsedUnsignedOK' /\ SignaturesOK'
        /\ parsed.signed = None
    BY <1>0, <2>1, Frames DEF ConstructionInv, HasMetadata, HasUnsigned, HasSignatures
  <2>3. SignedOK'
    BY <1>0, <2>1 DEF SignedOK, SignedOf, Witness
  <2>4. Len(signed'.witness) = Len(signed'.tx.ins)
    <3>1. intent \in Seq(Operations)
      BY <2>2, ConstructionConstants DEF UnsignedOK
    <3>2. PICK c \in Seq(Coins) : c = unsigned.tx.ins
      BY <2>2, <3>1, UnsignedShape DEF UnsignedOK
    <3>3. /\ signed'.tx.ins = c
          /\ signed'.witness = [i \in DOMAIN c |-> normalizeSignature(signatures[i])]
      BY <2>1, <3>2 DEF SignedOf, Witness
    <3>4. PICK w : w = signed'.witness /\ w = [i \in 1 .. Len(c) |-> w[i]]
      BY <3>3
    <3>5. w \in [1 .. Len(c) -> {w[i] : i \in 1 .. Len(c)}] /\ Len(c) \in Nat
      BY <3>4
    <3> QED
      BY <3>3, <3>4, <3>5, IsSequence
  <2>5. TypeOK'
    BY <1>0, <2>1, <2>4 DEF ConstructionInv, TypeOK, Calls
  <2> QED
    BY <1>0, <2>1, <2>2, <2>3, <2>5 DEF ConstructionInv, HasMetadata, HasUnsigned,
       HasSignatures, HasSigned, Submitted
<1> QED
  BY <1>1, <1>2

(* /parse of the signed transaction.                                              *)
LEMMA ParseSignedInv == ASSUME ConstructionInv, ParseSigned PROVE ConstructionInv'
<1>1. /\ pc = "parse_signed" /\ pc' = "hash"
      /\ parsed' = [parsed EXCEPT !.signed =
                       OperationsOf(signed.tx, Signers(signed), signed.amounts)]
      /\ UNCHANGED <<ops, options, metadata, intent, unsigned, signatures, signed, hash>>
  BY DEF ParseSigned
<1>2. /\ DOMAIN parsed = {"unsigned", "signed"} /\ ParsedUnsignedOK
      /\ MetadataOK' /\ UnsignedOK' /\ SignaturesOK' /\ SignedOK'
  BY <1>1, Frames DEF ConstructionInv, HasMetadata, HasUnsigned, HasSignatures, HasSigned
<1>3. /\ DOMAIN parsed' = {"unsigned", "signed"}
      /\ parsed'.unsigned = parsed.unsigned
      /\ parsed'.signed = OperationsOf(signed.tx, Signers(signed), signed.amounts)
  BY <1>1, <1>2
<1>4. ParsedUnsignedOK'
  BY <1>1, <1>2, <1>3 DEF ParsedUnsignedOK
<1>5. ParsedSignedOK'
  BY <1>1, <1>3 DEF ParsedSignedOK
<1>6. TypeOK'
  BY <1>1 DEF ConstructionInv, TypeOK, Calls
<1> QED
  BY <1>1, <1>2, <1>3, <1>4, <1>5, <1>6 DEF ConstructionInv, HasMetadata, HasUnsigned,
     HasSignatures, HasSigned, Submitted

(* /hash leaves everything else alone.                                            *)
LEMMA HashInv == ASSUME ConstructionInv, ConstructionHash PROVE ConstructionInv'
<1>1. /\ pc = "hash" /\ pc' = "submit" /\ hash' = signed.tx
      /\ UNCHANGED <<ops, options, metadata, intent, unsigned, signatures, signed, parsed>>
  BY DEF ConstructionHash
<1>2. TypeOK'
  BY <1>1 DEF ConstructionInv, TypeOK, Calls
<1> QED
  BY <1>1, <1>2, Frames DEF ConstructionInv, HasMetadata, HasUnsigned, HasSignatures,
     HasSigned, Submitted

(* The node decides, on what /submit hands to it.                                 *)
LEMMA SubmitInv ==
    ASSUME ConstructionInv, NEW coins \in SUBSET Coins, ConstructionSubmit(coins)
    PROVE  ConstructionInv'
<1>0. /\ pc = "submit" /\ UNCHANGED <<ops, intent, signatures>>
      /\ ops \in Intents \cup {<<>>} /\ intent \in Intents \cup {<<>>}
  BY DEF ConstructionSubmit, ConstructionInv, TypeOK
<1>1. CASE Fail
  BY <1>0, <1>1, FailInv
<1>2. CASE ~ Fail
  <2>1. /\ pc' \in Submitted /\ (pc' = "accepted" => Valid(signed))
        /\ (pc' = "invalid" => ~ Valid(signed))
        /\ UNCHANGED <<options, metadata, unsigned, signed, parsed, hash>>
    BY <1>2 DEF ConstructionSubmit, Submitted
  <2>2. TypeOK'
    BY <1>0, <2>1 DEF ConstructionInv, TypeOK, Ends, Submitted
  <2> QED
    BY <1>0, <2>1, <2>2, Frames DEF ConstructionInv, HasMetadata, HasUnsigned,
       HasSignatures, HasSigned, Submitted
<1> QED
  BY <1>1, <1>2

(* Starting over is starting.                                                     *)
LEMMA AgainInv == ASSUME ConstructionInv, Again PROVE ConstructionInv'
<1>1. Init'
  BY DEF Again, Init
<1>2. Init' => ConstructionInv'
  BY DEF Init, ConstructionInv, TypeOK, Calls, Ends, HasMetadata, HasUnsigned, HasSignatures,
         HasSigned, Submitted
<1> QED
  BY <1>1, <1>2

(* Each call finds, in what the client brings along, what the calls before it     *)
(* have answered.                                                                 *)
THEOREM ConstructionInvariance == Spec => []ConstructionInv
<1>1. ASSUME ConstructionInv, [Next]_vars PROVE ConstructionInv'
  <2>1. CASE UNCHANGED vars
    <3>1. UNCHANGED <<pc, ops, options, metadata, intent, unsigned, signatures, signed, parsed,
                      hash>>
      BY <2>1 DEF vars
    <3>2. TypeOK'
      BY <1>1, <3>1 DEF ConstructionInv, TypeOK
    <3> QED
      BY <1>1, <3>1, <3>2, Frames DEF ConstructionInv
  <2>2. CASE Next
    BY <1>1, <2>2, PreprocessInv, MetadataInv, PayloadsInv, ParseUnsignedInv, SignInv,
       CombineInv, ParseSignedInv, HashInv, SubmitInv, AgainInv DEF Next
  <2> QED
    BY <1>1, <2>1, <2>2
<1> QED
  BY <1>1, InitInv, PTL DEF Spec

--------------------------------------------------------------------------------
(* What /parse shows                                                              *)

(* The operations of outputs, as read from a transaction.                         *)
Paying(b) == [i \in DOMAIN b |-> [type |-> "OUTPUT", account |-> b[i].account,
                                  amount |-> Int64(b[i].amount), coin |-> NoCoin]]
NamingNoCoin(b) == [i \in DOMAIN b |-> [b[i] EXCEPT !.coin = NoCoin]]

(* /parse shows the inputs as they were asked for, when their accounts and        *)
(* amounts are, and the outputs as they are paid.                                 *)
LEMMA ParseShows ==
    ASSUME NEW s \in Seq(Operations), NEW scripts, Acceptable(s, scripts),
           NEW accounts, NEW amounts,
           \A i \in DOMAIN Inputs(s) : /\ accounts[i] = Inputs(s)[i].account
                                       /\ amounts[i] = Inputs(s)[i].amount
    PROVE  OperationsOf(TransactionOf(s), accounts, amounts) = Inputs(s) \o Paying(Outputs(s))
<1>1. PICK a \in Seq(Operations) : a = Inputs(s) /\ \A i \in DOMAIN a : IsInput(a[i])
  BY InputsAndOutputs
<1>2. PICK b \in Seq(Operations) : b = Outputs(s)
  BY InputsAndOutputs
<1>3. PICK ins, outs :
         /\ ins = TransactionOf(s).ins /\ outs = TransactionOf(s).outs
         /\ DOMAIN ins = DOMAIN a /\ \A i \in DOMAIN a : ins[i] = a[i].coin
         /\ DOMAIN outs = DOMAIN b
         /\ \A i \in DOMAIN b : outs[i] = [account |-> b[i].account,
                                           amount |-> Int64(b[i].amount)]
  BY <1>1, <1>2, TransactionShape DEF Acceptable
<1>4. [i \in DOMAIN ins |-> [type |-> "INPUT", account |-> accounts[i],
                             amount |-> amounts[i], coin |-> ins[i]]] = a
  <2>1. ASSUME NEW i \in DOMAIN a
        PROVE  [type |-> "INPUT", account |-> accounts[i], amount |-> amounts[i],
                coin |-> ins[i]] = a[i]
    <3>1. PICK op \in Operations : op = a[i] /\ op.type = "INPUT"
      BY <1>1 DEF IsInput
    <3>2. op = [type |-> op.type, account |-> op.account, amount |-> op.amount,
                coin |-> op.coin]
      BY DEF Operations
    <3>3. accounts[i] = op.account /\ amounts[i] = op.amount /\ ins[i] = op.coin
      BY <1>1, <1>3, <3>1
    <3> QED
      BY <3>1, <3>2, <3>3
  <2> QED
    BY <1>3, <2>1
<1>5. [i \in DOMAIN outs |-> [type |-> "OUTPUT", account |-> outs[i].account,
                              amount |-> outs[i].amount, coin |-> NoCoin]] = Paying(b)
  <2>1. ASSUME NEW i \in DOMAIN b
        PROVE  outs[i].account = b[i].account /\ outs[i].amount = Int64(b[i].amount)
    <3>1. PICK x, y : x = b[i].account /\ y = Int64(b[i].amount)
      OBVIOUS
    <3>2. outs[i] = [account |-> x, amount |-> y]
      BY <1>3, <3>1
    <3> QED
      BY <3>1, <3>2
  <2> QED
    BY <1>3, <2>1 DEF Paying
<1> QED
  BY <1>1, <1>2, <1>3, <1>4, <1>5 DEF OperationsOf

(* Amounts that fit are paid as they were asked for.                              *)
LEMMA PaysWhatFits ==
    ASSUME NEW s \in Seq(Operations), Fits(s)
    PROVE  Paying(Outputs(s)) = NamingNoCoin(Outputs(s))
<1>1. PICK b \in Seq(Operations) :
         /\ b = Outputs(s)
         /\ \A i \in DOMAIN b : IsOutput(b[i]) /\ \E k \in DOMAIN s : b[i] = s[k]
  BY InputsAndOutputs
<1>2. ASSUME NEW i \in DOMAIN b
      PROVE  [type |-> "OUTPUT", account |-> b[i].account, amount |-> Int64(b[i].amount),
              coin |-> NoCoin] = [b[i] EXCEPT !.coin = NoCoin]
  <2>1. PICK op \in Operations : op = b[i] /\ op.type = "OUTPUT"
    BY <1>1 DEF IsOutput
  <2>2. Int64(op.amount) = op.amount
    BY <1>1, <2>1 DEF Fits
  <2>3. [op EXCEPT !.coin = NoCoin] = [type |-> op.type, account |-> op.account,
                                      amount |-> op.amount, coin |-> NoCoin]
    <3>1. PICK t, x, y, c : op = [type |-> t, account |-> x, amount |-> y, coin |-> c]
      BY DEF Operations
    <3>2. [op EXCEPT !.coin = NoCoin] = [type |-> t, account |-> x, amount |-> y,
                                        coin |-> NoCoin]
      BY <3>1
    <3>3. op.type = t /\ op.account = x /\ op.amount = y
      BY <3>1
    <3> QED
      BY <3>2, <3>3
  <2> QED
    BY <2>1, <2>2, <2>3
<1> QED
  BY <1>1, <1>2 DEF Paying, NamingNoCoin

(* What /parse shows of the unsigned transaction.                                 *)
LEMMA UnsignedShown ==
    ASSUME UnsignedOK, ParsedUnsignedOK
    PROVE  parsed.unsigned = Inputs(intent) \o Paying(Outputs(intent))
<1>1. intent \in Seq(Operations)
  BY ConstructionConstants DEF UnsignedOK
<1>2. /\ unsigned.tx = TransactionOf(intent)
      /\ \A i \in DOMAIN Inputs(intent) : /\ unsigned.addresses[i] = Inputs(intent)[i].account
                                          /\ unsigned.amounts[i] = Inputs(intent)[i].amount
  BY <1>1, UnsignedShape DEF UnsignedOK
<1>3. PICK scripts : Acceptable(intent, scripts)
  BY DEF UnsignedOK
<1>4. PICK accounts, amounts : accounts = unsigned.addresses /\ amounts = unsigned.amounts
  OBVIOUS
<1>5. OperationsOf(TransactionOf(intent), accounts, amounts)
          = Inputs(intent) \o Paying(Outputs(intent))
  BY <1>1, <1>2, <1>3, <1>4, ParseShows
<1> QED
  BY <1>2, <1>4, <1>5 DEF ParsedUnsignedOK

(* The witness of input i, when it was made with the signature of payload j.      *)
LEMMA WitnessIs ==
    ASSUME UnsignedOK, SignedOK, NEW i \in DOMAIN Inputs(intent),
           NEW j \in DOMAIN Inputs(intent), signatures[i] = Signatures[j]
    PROVE  signed.witness[i] =
               [form |-> "DER", key |-> Inputs(intent)[j].account,
                of |-> SigHash(TransactionOf(intent), j, metadata.scripts[j],
                               Int64(- Inputs(intent)[j].amount))]
<1>1. intent \in Seq(Operations)
  BY ConstructionConstants DEF UnsignedOK
<1>2. PICK x, y : /\ x = Inputs(intent)[j].account
                  /\ y = SigHash(TransactionOf(intent), j, metadata.scripts[j],
                                 Int64(- Inputs(intent)[j].amount))
  OBVIOUS
<1>3. /\ DOMAIN unsigned.tx.ins = DOMAIN Inputs(intent)
      /\ DOMAIN unsigned.payloads = DOMAIN Inputs(intent)
      /\ unsigned.payloads[j].account = x /\ unsigned.payloads[j].bytes = y
  BY <1>1, <1>2, UnsignedShape DEF UnsignedOK
<1>4. signatures[i] = [form |-> "R || S", key |-> x, of |-> y]
  BY <1>3 DEF Signatures
<1>5. signed.witness[i] = [signatures[i] EXCEPT !.form = "DER"]
  BY <1>3 DEF SignedOK, SignedOf, Witness, normalizeSignature
<1>6. ASSUME NEW z, NEW w, z = [form |-> w, key |-> x, of |-> y]
      PROVE  [z EXCEPT !.form = "DER"] = [form |-> "DER", key |-> x, of |-> y]
  BY <1>6
<1>7. signed.witness[i] = [form |-> "DER", key |-> x, of |-> y]
  BY <1>4, <1>5, <1>6
<1> QED
  BY <1>2, <1>7

(* What /parse shows of the signed transaction, when the witnesses are of the     *)
(* accounts of the inputs.                                                        *)
LEMMA SignedShown ==
    ASSUME UnsignedOK, SignedOK, ParsedSignedOK,
           \A i \in DOMAIN Inputs(intent) : signed.witness[i].key = Inputs(intent)[i].account
    PROVE  parsed.signed = Inputs(intent) \o Paying(Outputs(intent))
<1>1. intent \in Seq(Operations)
  BY ConstructionConstants DEF UnsignedOK
<1>2. /\ unsigned.tx = TransactionOf(intent)
      /\ DOMAIN unsigned.tx.ins = DOMAIN Inputs(intent)
      /\ \A i \in DOMAIN Inputs(intent) : unsigned.amounts[i] = Inputs(intent)[i].amount
  BY <1>1, UnsignedShape DEF UnsignedOK
<1>3. signed.tx = unsigned.tx /\ signed.amounts = unsigned.amounts
  BY DEF SignedOK, SignedOf
<1>4. PICK scripts : Acceptable(intent, scripts)
  BY DEF UnsignedOK
<1>5. PICK accounts, amounts : accounts = Signers(signed) /\ amounts = signed.amounts
  OBVIOUS
<1>6. \A i \in DOMAIN Inputs(intent) : accounts[i] = Inputs(intent)[i].account
  BY <1>2, <1>3, <1>5 DEF Signers
<1>7. OperationsOf(TransactionOf(intent), accounts, amounts)
          = Inputs(intent) \o Paying(Outputs(intent))
  BY <1>1, <1>2, <1>3, <1>4, <1>5, <1>6, ParseShows
<1> QED
  BY <1>2, <1>3, <1>5, <1>7 DEF ParsedSignedOK

(* /parse tells of a wrapped amount: what it shows of the unsigned transaction    *)
(* cannot agree with the operations unless the outputs pay what they say.         *)
THEOREM OutputsAreTold == Spec => []ParseTellsOutputs
<1>1. ASSUME ConstructionInv, parsed.unsigned # None, parsed.unsigned = InOrder(intent)
      PROVE  unsigned.tx.outs = [i \in DOMAIN Outputs(intent) |->
                                    [account |-> Outputs(intent)[i].account,
                                     amount |-> Outputs(intent)[i].amount]]
  <2>1. UnsignedOK /\ ParsedUnsignedOK /\ intent \in Seq(Operations)
    BY <1>1, ConstructionConstants DEF ConstructionInv, UnsignedOK
  <2>2. PICK a \in Seq(Operations), b \in Seq(Operations) : a = Inputs(intent) /\ b = Outputs(intent)
    BY <2>1, InputsAndOutputs
  <2>3. parsed.unsigned = a \o Paying(b)
    BY <2>1, <2>2, UnsignedShown
  <2>4. parsed.unsigned = a \o NamingNoCoin(b)
    BY <1>1, <2>2 DEF InOrder, NamingNoCoin
  <2>5. ASSUME NEW i \in DOMAIN b PROVE Int64(b[i].amount) = b[i].amount
    <3>1. DOMAIN a = 1 .. Len(a) /\ Len(a) \in Nat /\ DOMAIN b = 1 .. Len(b) /\ Len(b) \in Nat
      OBVIOUS
    <3>2. ASSUME NEW p, p = [j \in 1 .. Len(b) |-> p[j]]
          PROVE  (a \o p)[Len(a) + i] = p[i]
      <4>1. p \in [1 .. Len(b) -> {p[j] : j \in 1 .. Len(b)}]
        BY <3>2
      <4>2. p \in Seq({p[j] : j \in 1 .. Len(b)}) /\ Len(p) = Len(b)
        BY <3>1, <4>1, IsSequence
      <4> QED
        BY <3>1, <4>2
    <3>3. (a \o Paying(b))[Len(a) + i] = Paying(b)[i]
      <4>1. Paying(b) = [j \in 1 .. Len(b) |-> Paying(b)[j]]
        BY <3>1 DEF Paying
      <4> QED
        BY <3>2, <4>1
    <3>4. (a \o NamingNoCoin(b))[Len(a) + i] = NamingNoCoin(b)[i]
      <4>1. NamingNoCoin(b) = [j \in 1 .. Len(b) |-> NamingNoCoin(b)[j]]
        BY <3>1 DEF NamingNoCoin
      <4> QED
        BY <3>2, <4>1
    <3>5. Paying(b)[i].amount = NamingNoCoin(b)[i].amount
      BY <2>3, <2>4, <3>3, <3>4
    <3>6. Paying(b)[i].amount = Int64(b[i].amount)
      BY DEF Paying
    <3>7. NamingNoCoin(b)[i].amount = b[i].amount
      <4>1. PICK op \in Operations : op = b[i]
        OBVIOUS
      <4>2. [op EXCEPT !.coin = NoCoin].amount = op.amount
        BY DEF Operations
      <4> QED
        BY <4>1, <4>2 DEF NamingNoCoin
    <3> QED
      BY <3>5, <3>6, <3>7
  <2>6. unsigned.tx.outs = [i \in DOMAIN b |-> [account |-> b[i].account,
                                                amount |-> Int64(b[i].amount)]]
    <3>1. unsigned.tx = TransactionOf(intent)
      BY <2>1, UnsignedShape DEF UnsignedOK
    <3> QED
      BY <2>2, <3>1 DEF TransactionOf
  <2> QED
    BY <2>2, <2>5, <2>6
<1>2. ConstructionInv => ParseTellsOutputs
  BY <1>1 DEF ParseTellsOutputs
<1> QED
  BY <1>2, ConstructionInvariance, PTL

(* Signatures in the order of the payloads give a signed transaction that parses  *)
(* like the unsigned one.                                                         *)
THEOREM ParsingAgrees == Spec => []ParsesAgree
<1>1. ASSUME ConstructionInv, parsed.signed # None, signatures = Signatures
      PROVE  parsed.signed = parsed.unsigned
  <2>1. UnsignedOK /\ ParsedUnsignedOK /\ SignedOK /\ ParsedSignedOK
    BY <1>1 DEF ConstructionInv
  <2>2. ASSUME NEW i \in DOMAIN Inputs(intent)
        PROVE  signed.witness[i].key = Inputs(intent)[i].account
    <3>1. PICK x, y : signed.witness[i] = [form |-> "DER", key |-> x, of |-> y]
                      /\ x = Inputs(intent)[i].account
      BY <1>1, <2>1, WitnessIs
    <3> QED
      BY <3>1
  <2> QED
    BY <2>1, <2>2, UnsignedShown, SignedShown
<1>2. ConstructionInv => ParsesAgree
  BY <1>1 DEF ParsesAgree
<1> QED
  BY <1>2, ConstructionInvariance, PTL

(* What the node accepts is what the client asked for, however the client ordered *)
(* its signatures: the digest that was signed for an input commits to the input,  *)
(* so that a signature is worth nothing for another one.                          *)
THEOREM AcceptedIsIntended == Spec => []AcceptedAsIntended
<1>1. ASSUME ConstructionInv, pc = "accepted", Fits(intent)
      PROVE  /\ parsed.unsigned = InOrder(intent)
             /\ parsed.signed = InOrder(intent)
             /\ hash = TransactionOf(intent)
             /\ \A i \in DOMAIN Inputs(intent) :
                   /\ CoinAmount[Inputs(intent)[i].coin] = - Inputs(intent)[i].amount
                   /\ CoinAccount[Inputs(intent)[i].coin] = Inputs(intent)[i].account
  <2>1. /\ UnsignedOK /\ ParsedUnsignedOK /\ SignedOK /\ ParsedSignedOK /\ SignaturesOK
        /\ hash = signed.tx /\ Valid(signed)
    BY <1>1 DEF ConstructionInv, HasUnsigned, HasSignatures, HasSigned, Submitted
  <2>2. intent \in Seq(Operations)
    BY <2>1, ConstructionConstants DEF UnsignedOK
  <2>3. /\ signed.tx = TransactionOf(intent)
        /\ DOMAIN unsigned.tx.ins = DOMAIN Inputs(intent)
        /\ DOMAIN unsigned.payloads = DOMAIN Inputs(intent)
    BY <2>1, <2>2, UnsignedShape DEF UnsignedOK, SignedOK, SignedOf
  <2>4. ASSUME NEW i \in DOMAIN Inputs(intent)
        PROVE  /\ signed.witness[i].key = Inputs(intent)[i].account
               /\ CoinAmount[Inputs(intent)[i].coin] = - Inputs(intent)[i].amount
               /\ CoinAccount[Inputs(intent)[i].coin] = Inputs(intent)[i].account
    <3>1. PICK j \in DOMAIN Inputs(intent) : signatures[i] = Signatures[j]
      <4>1. i \in DOMAIN signatures
        BY <2>1, <2>3 DEF SignedOK
      <4>2. DOMAIN Signatures = DOMAIN Inputs(intent)
        BY <2>3 DEF Signatures
      <4> QED
        BY <2>1, <4>1, <4>2 DEF SignaturesOK
    <3>2. PICK c : c = Inputs(intent)[i].coin
      OBVIOUS
    <3>3. PICK x, y : /\ x = Inputs(intent)[j].account
                      /\ y = SigHash(TransactionOf(intent), j, metadata.scripts[j],
                                     Int64(- Inputs(intent)[j].amount))
      OBVIOUS
    <3>4. signed.witness[i] = [form |-> "DER", key |-> x, of |-> y]
      BY <2>1, <3>1, <3>3, WitnessIs
    <3>5. signed.witness[i].key = x /\ signed.witness[i].of = y
      BY <3>4
    <3>6. /\ signed.witness[i].key = CoinAccount[c]
          /\ signed.witness[i].of = SigHash(TransactionOf(intent), i, Script(c), CoinAmount[c])
      <4>1. signed.tx.ins[i] = c /\ i \in DOMAIN signed.tx.ins
        BY <2>1, <2>2, <2>3, <3>2, TransactionShape DEF UnsignedOK, Acceptable
      <4>2. WitnessOK(signed, i)
        BY <2>1, <4>1 DEF Valid
      <4> QED
        BY <2>3, <4>1, <4>2 DEF WitnessOK
    <3>7. j = i /\ Int64(- Inputs(intent)[j].amount) = CoinAmount[c]
      <4>1. SigHash(TransactionOf(intent), j, metadata.scripts[j],
                    Int64(- Inputs(intent)[j].amount))
                = SigHash(TransactionOf(intent), i, Script(c), CoinAmount[c])
        BY <3>3, <3>5, <3>6
      <4> QED
        BY <4>1 DEF SigHash
    <3>8. PICK op \in Operations : op = Inputs(intent)[i] /\ IsInput(op) /\ Int64(op.amount) = op.amount
      <4>1. PICK op \in Operations : /\ op = Inputs(intent)[i] /\ IsInput(op)
                                     /\ \E k \in DOMAIN intent : op = intent[k]
        BY <2>2, MatchFits DEF Inputs, Fitting
      <4> QED
        BY <1>1, <4>1 DEF Fits
    <3>9. op.coin \in Coins /\ op.amount \in Int /\ op.amount < 0 /\ CoinAmount[op.coin] > 0
      BY <3>8, ConstructionConstants DEF Operations, IsInput
    <3>10. Int64(- op.amount) = - op.amount
      BY <3>2, <3>7, <3>8, <3>9, Int64Negated
    <3> QED
      BY <3>2, <3>3, <3>5, <3>6, <3>7, <3>8, <3>10
  <2>5. InOrder(intent) = Inputs(intent) \o Paying(Outputs(intent))
    BY <1>1, <2>2, PaysWhatFits DEF InOrder, NamingNoCoin
  <2>6. parsed.unsigned = InOrder(intent) /\ parsed.signed = InOrder(intent)
    BY <2>1, <2>4, <2>5, UnsignedShown, SignedShown
  <2> QED
    BY <2>1, <2>3, <2>4, <2>6
<1>2. ConstructionInv => AcceptedAsIntended
  BY <1>1 DEF AcceptedAsIntended
<1> QED
  BY <1>2, ConstructionInvariance, PTL

--------------------------------------------------------------------------------
(* The money of an honest client                                                  *)

(* Distinct coins are not worth more than there is money.                         *)
LEMMA CoinsWithinSupply ==
    ASSUME NEW c \in Seq(Coins), Distinct(c)
    PROVE  Sum([i \in DOMAIN c |-> CoinAmount[c[i]]]) < Modulus \div 2
<1> DEFINE g == [i \in DOMAIN c |-> CoinAmount[c[i]]]
<1>1. IsFiniteSet(DOMAIN c)
  <2>1. DOMAIN c = 1 .. Len(c) /\ Len(c) \in Nat
    OBVIOUS
  <2>2. IsFiniteSet(1 .. Len(c))
    BY <2>1, FS_Interval
  <2> QED
    BY <2>1, <2>2
<1>2. \A i \in DOMAIN c : c[i] \in Coins /\ g[i] = CoinAmount[c[i]] /\ g[i] \in Int
  BY ConstructionConstants
<1>3. \A i, j \in DOMAIN c : c[i] = c[j] => i = j
  BY DEF Distinct
<1>4. DOMAIN g = DOMAIN c
  OBVIOUS
<1> HIDE DEF g
<1>5. SumFunctionOnSet(g, DOMAIN c) = SumFunctionOnSet(CoinAmount, {c[i] : i \in DOMAIN c})
  BY <1>1, <1>2, <1>3, SumImage
<1>6. SumFunctionOnSet(CoinAmount, {c[i] : i \in DOMAIN c}) <= SumFunctionOnSet(CoinAmount, Coins)
  <2>1. {c[i] : i \in DOMAIN c} \in SUBSET Coins /\ \A x \in Coins : CoinAmount[x] \in Nat
    BY ConstructionConstants
  <2> QED
    BY <2>1, MoneySupply, SumOfSubset
<1>7. Sum(g) = SumFunctionOnSet(g, DOMAIN c)
  BY <1>4 DEF Sum
<1>8. PICK n : n = SumFunctionOnSet(CoinAmount, {c[i] : i \in DOMAIN c})
  OBVIOUS
<1>9. SumFunctionOnSet(CoinAmount, Coins) \in Int /\ Modulus \div 2 \in Int /\ n \in Int
  <2>1. \A x \in Coins : CoinAmount[x] \in Int
    BY ConstructionConstants
  <2>2. SumFunctionOnSet(g, DOMAIN c) \in Int
    BY <1>1, <1>2, SumType
  <2> QED
    BY <1>5, <1>8, <2>1, <2>2, MoneySupply, SumType, HalfModulus
<1>10. Sum(g) < Modulus \div 2
  BY <1>5, <1>6, <1>7, <1>8, <1>9, MoneySupply
<1> QED
  BY <1>10 DEF g

(* What the inputs are estimated at.                                              *)
LEMMA InputSizes ==
    ASSUME NEW a \in Seq(Operations), \A i \in DOMAIN a : IsInput(a[i])
    PROVE  Sum(Values(a, SizeOf)) = 68 * Len(a)
<1>1. \A i \in DOMAIN a : Values(a, SizeOf)[i] = 68
  <2>1. ASSUME NEW i \in DOMAIN a PROVE OpSize(a[i]) = 68
    BY DEF OpSize, InputSize, IsInput
  <2> QED
    BY <2>1 DEF Values, SizeOf
<1>2. DOMAIN a = 1 .. Len(a) /\ Len(a) \in Nat
  OBVIOUS
<1>3. Cardinality(1 .. Len(a)) = Len(a)
  BY <1>2, FS_Interval
<1>4. IsFiniteSet(DOMAIN a) /\ DOMAIN Values(a, SizeOf) = DOMAIN a
  BY SizeAndAmount, ValuesType
<1>5. SumFunctionOnSet(Values(a, SizeOf), DOMAIN a) = 68 * Cardinality(DOMAIN a)
  BY <1>1, <1>4, SumConstant
<1> QED
  BY <1>2, <1>3, <1>4, <1>5 DEF Sum

(* No output of s is dust, and its inputs and outputs are counted in a byte each. *)
NoDust(s) ==
    \A i \in DOMAIN Outputs(s) : Outputs(s)[i].amount >= DustLimit[Outputs(s)[i].account]
Countable(s) == Len(Inputs(s)) < CountLimit /\ Len(Outputs(s)) < CountLimit

(* Numbers that cancel out.                                                       *)
LEMMA Cancels ==
    ASSUME NEW u \in Int, NEW v \in Int, u + v = 0
    PROVE  u = - v
OBVIOUS

(* Whoever says what the coins are worth and leaves the suggested fee over pays   *)
(* what was meant, no dust, and enough for the size of the transaction, unless    *)
(* there are too many inputs or outputs.                                          *)
LEMMA HonestPays ==
    ASSUME NEW s \in Seq(Operations), NEW scripts, Acceptable(s, scripts),
           \A i \in DOMAIN Inputs(s) : CoinAmount[Inputs(s)[i].coin] + Inputs(s)[i].amount = 0,
           Distinct([i \in DOMAIN Inputs(s) |-> Inputs(s)[i].coin]),
           NEW fee \in Nat, fee >= estimateSize(s),
           - Sum([i \in DOMAIN s |-> s[i].amount]) >= fee,
           NoDust(s), Countable(s)
    PROVE  /\ \A i \in DOMAIN TransactionOf(s).outs :
                 TransactionOf(s).outs[i].amount >= DustLimit[TransactionOf(s).outs[i].account]
           /\ Paid(TransactionOf(s)) >= VSize(TransactionOf(s))
<1>1. PICK a \in Seq(Operations) : a = Inputs(s) /\ \A i \in DOMAIN a : IsInput(a[i])
  BY InputsAndOutputs
<1>2. PICK b \in Seq(Operations) : b = Outputs(s) /\ \A i \in DOMAIN b : IsOutput(b[i])
  BY InputsAndOutputs
<1>3. PICK ins \in Seq(Coins), outs \in Seq(TxOuts) :
         /\ ins = TransactionOf(s).ins /\ outs = TransactionOf(s).outs
         /\ DOMAIN ins = DOMAIN a /\ Len(ins) = Len(a)
         /\ \A i \in DOMAIN a : ins[i] = a[i].coin
         /\ DOMAIN outs = DOMAIN b
         /\ \A i \in DOMAIN b : outs[i] = [account |-> b[i].account,
                                           amount |-> Int64(b[i].amount)]
  BY <1>1, <1>2, TransactionShape DEF Acceptable
<1>4. PICK A \in Int, B \in Int : A = Sum(Values(a, AmountOf)) /\ B = Sum(Values(b, AmountOf))
  BY SizeAndAmount, ValuesType
<1>5. - (A + B) >= fee
  <2>1. Sum(Values(s, AmountOf)) = A + B
    BY <1>1, <1>2, <1>4, SizeAndAmount, SumOfBoth DEF Acceptable
  <2> QED
    BY <2>1, SizeIsSum
<1>6. \A i \in DOMAIN a : a[i].amount \in Int /\ AmountOf[a[i]] = a[i].amount /\ ins[i] \in Coins
  <2>1. ASSUME NEW i \in DOMAIN a PROVE a[i].amount \in Int /\ AmountOf[a[i]] = a[i].amount
    <3>1. PICK op \in Operations : op = a[i]
      OBVIOUS
    <3> QED
      BY <3>1 DEF Operations, AmountOf
  <2> QED
    BY <1>3, <2>1
<1>7. Sum([i \in DOMAIN ins |-> CoinAmount[ins[i]]]) = - A
  <2> DEFINE g == [i \in DOMAIN ins |-> CoinAmount[ins[i]]]
  <2>1. ASSUME NEW i \in DOMAIN a
        PROVE  Values(a, AmountOf)[i] \in Int /\ g[i] = - Values(a, AmountOf)[i]
    <3>1. CoinAmount[ins[i]] + a[i].amount = 0 /\ CoinAmount[ins[i]] \in Int
      <4>1. CoinAmount[a[i].coin] + a[i].amount = 0
        BY <1>1
      <4>2. ins[i] = a[i].coin /\ ins[i] \in Coins
        BY <1>3, <1>6
      <4>3. CoinAmount[ins[i]] \in Int
        BY <4>2, ConstructionConstants
      <4> QED
        BY <4>1, <4>2, <4>3
    <3>2. Values(a, AmountOf)[i] = a[i].amount
      BY <1>6 DEF Values
    <3>3. g[i] = CoinAmount[ins[i]]
      BY <1>3
    <3> HIDE DEF g
    <3>4. PICK u \in Int, v \in Int : u = CoinAmount[ins[i]] /\ v = a[i].amount /\ u + v = 0
      BY <1>6, <3>1
    <3>5. u = - v
      BY <3>4, Cancels
    <3>6. Values(a, AmountOf)[i] = v /\ g[i] = u
      BY <3>2, <3>3, <3>4
    <3> QED
      BY <3>5, <3>6
  <2>2. DOMAIN g = DOMAIN a /\ DOMAIN Values(a, AmountOf) = DOMAIN a /\ IsFiniteSet(DOMAIN a)
    BY <1>3, SizeAndAmount, ValuesType
  <2> HIDE DEF g
  <2>3. SumFunctionOnSet(g, DOMAIN a) = - SumFunctionOnSet(Values(a, AmountOf), DOMAIN a)
    BY <2>1, <2>2, SumNegated
  <2>4. Sum(g) = - A
    BY <1>4, <2>2, <2>3 DEF Sum
  <2> QED
    BY <2>4 DEF g
<1>8. - A < Modulus \div 2
  <2>1. [i \in DOMAIN Inputs(s) |-> Inputs(s)[i].coin] = ins
    BY <1>1, <1>3 DEF TransactionOf
  <2>2. Sum([i \in DOMAIN ins |-> CoinAmount[ins[i]]]) < Modulus \div 2
    BY <2>1, CoinsWithinSupply
  <2> QED
    BY <1>7, <2>2
<1>9. ASSUME NEW i \in DOMAIN b
      PROVE  /\ Values(b, AmountOf)[i] = b[i].amount /\ b[i].amount \in Nat
             /\ Int64(b[i].amount) = b[i].amount
  <2>1. \A j \in DOMAIN b : Values(b, AmountOf)[j] = b[j].amount /\ b[j].amount \in Nat
    <3>1. ASSUME NEW j \in DOMAIN b
          PROVE  Values(b, AmountOf)[j] = b[j].amount /\ b[j].amount \in Nat
      <4>1. PICK op \in Operations : op = b[j] /\ IsOutput(op)
        BY <1>2
      <4>2. op.amount \in Nat /\ AmountOf[op] = op.amount
        BY <4>1 DEF Operations, IsOutput, AmountOf
      <4> QED
        BY <4>1, <4>2 DEF Values
    <3> QED
      BY <3>1
  <2>2. b[i].amount <= B
    <3>1. IsFiniteSet(DOMAIN b) /\ DOMAIN Values(b, AmountOf) = DOMAIN b
      BY SizeAndAmount, ValuesType
    <3>2. Values(b, AmountOf)[i] <= SumFunctionOnSet(Values(b, AmountOf), DOMAIN b)
      BY <2>1, <3>1, SumReachesEach
    <3> QED
      BY <1>4, <2>1, <3>1, <3>2 DEF Sum
  <2>3. b[i].amount < Modulus \div 2
    BY <1>5, <1>8, <2>1, <2>2, HalfModulus
  <2>4. - (Modulus \div 2) <= b[i].amount /\ b[i].amount \in Int
    BY <2>1, HalfModulus
  <2> QED
    BY <2>1, <2>3, <2>4, Int64Keeps
<1>10. ASSUME NEW i \in DOMAIN b
       PROVE  outs[i].account = b[i].account /\ outs[i].amount = b[i].amount
  <2>1. PICK x, y : x = b[i].account /\ y = b[i].amount
    OBVIOUS
  <2>2. outs[i] = [account |-> x, amount |-> y]
    BY <1>3, <1>9, <2>1
  <2> QED
    BY <2>1, <2>2
<1>11. Sum([i \in DOMAIN outs |-> outs[i].amount]) = B
  <2>1. [i \in DOMAIN outs |-> outs[i].amount] = Values(b, AmountOf)
    <3>1. Values(b, AmountOf) = [i \in DOMAIN b |-> b[i].amount]
      BY <1>9 DEF Values
    <3> QED
      BY <1>3, <1>10, <3>1
  <2> QED
    BY <1>4, <2>1
<1>12. Paid(TransactionOf(s)) = - (A + B)
  BY <1>3, <1>4, <1>7, <1>11 DEF Paid
<1>13. PICK S \in Int : S = Sum(Values(b, SizeOf))
  BY SizeAndAmount, ValuesType
<1>14. estimateSize(s) = 12 + (68 * Len(a) + S)
  <2>1. Sum(Values(s, SizeOf)) = Sum(Values(a, SizeOf)) + S
    BY <1>1, <1>2, <1>13, SizeAndAmount, SumOfBoth DEF Acceptable
  <2> QED
    BY <1>1, <2>1, InputSizes, SizeIsSum
<1>15. Sum([i \in DOMAIN outs |-> 9 + ScriptLen[outs[i].account]]) = S
  <2>1. ASSUME NEW i \in DOMAIN b
        PROVE  Values(b, SizeOf)[i] = 9 + ScriptLen[b[i].account]
    <3>1. PICK op \in Operations : op = b[i] /\ op.type = "OUTPUT" /\ op.account \in Decodable
      BY <1>2 DEF IsOutput, Acceptable
    <3>2. OpSize(op) = 9 + ScriptLen[op.account]
      BY <3>1 DEF OpSize, OutputOverhead
    <3> QED
      BY <3>1, <3>2 DEF Values, SizeOf
  <2>2. [i \in DOMAIN outs |-> 9 + ScriptLen[outs[i].account]] = Values(b, SizeOf)
    <3>1. Values(b, SizeOf) = [i \in DOMAIN b |-> 9 + ScriptLen[b[i].account]]
      BY <2>1 DEF Values
    <3> QED
      BY <1>3, <1>10, <3>1
  <2> QED
    BY <1>13, <2>2
<1>16. VSize(TransactionOf(s)) = 11 + (68 * Len(a) + S)
  <2>1. PICK n \in Nat : n = Len(a)
    OBVIOUS
  <2>2. PICK k \in Int : k = 11 + (68 * n + S)
    OBVIOUS
  <2>3. (4 * ((10 + 41 * n) + S) + 2 + 108 * n) + 3 = 4 * k + 1
    BY <2>2
  <2>4. (4 * k + 1) \div 4 = k
    OBVIOUS
  <2>5. CountBytes(ins) = 1 /\ CountBytes(outs) = 1
    <3>1. Len(outs) = Len(b)
      BY <1>3
    <3> QED
      BY <1>1, <1>2, <1>3, <3>1 DEF CountBytes, Countable
  <2>6. VSize(TransactionOf(s)) = ((4 * ((10 + 41 * n) + S) + 2 + 108 * n) + 3) \div 4
    BY <1>3, <1>15, <2>1, <2>5 DEF VSize
  <2> QED
    BY <2>1, <2>2, <2>3, <2>4, <2>6
<1>17. Paid(TransactionOf(s)) >= VSize(TransactionOf(s))
  <2>1. Len(a) \in Nat
    OBVIOUS
  <2> QED
    BY <1>5, <1>12, <1>14, <1>16, <2>1
<1>18. \A i \in DOMAIN outs : outs[i].amount >= DustLimit[outs[i].account]
  BY <1>2, <1>3, <1>10 DEF NoDust
<1> QED
  BY <1>3, <1>17, <1>18

(* The node finds nothing wrong with the transaction of an honest client that     *)
(* has fewer than CountLimit inputs and outputs.                                  *)
THEOREM HonestAccepted == Spec => []HonestIsValid
<1>1. ASSUME ConstructionInv, pc = "invalid", CountsFit, Honest
      PROVE  FALSE
  <2>1. /\ UnsignedOK /\ SignedOK /\ MetadataOK /\ ~ Valid(signed) /\ intent = ops
        /\ signatures = Signatures
    BY <1>1 DEF ConstructionInv, HasMetadata, HasUnsigned, HasSignatures, HasSigned, Submitted,
                Honest
  <2>2. intent \in Seq(Operations) /\ Acceptable(intent, metadata.scripts)
    BY <2>1, ConstructionConstants DEF UnsignedOK
  <2>3. /\ signed.tx = TransactionOf(intent)
        /\ DOMAIN TransactionOf(intent).ins = DOMAIN Inputs(intent)
        /\ \A i \in DOMAIN Inputs(intent) : TransactionOf(intent).ins[i] = Inputs(intent)[i].coin
    BY <2>1, <2>2, UnsignedShape, TransactionShape DEF UnsignedOK, Acceptable, SignedOK, SignedOf
  <2>4. Distinct(signed.tx.ins)
    <3>1. signed.tx.ins = [i \in DOMAIN Inputs(intent) |-> Inputs(intent)[i].coin]
      BY <2>3 DEF TransactionOf
    <3> QED
      BY <1>1, <3>1 DEF Honest
  <2>5. /\ \A i \in DOMAIN signed.tx.outs :
              signed.tx.outs[i].amount >= DustLimit[signed.tx.outs[i].account]
        /\ Paid(signed.tx) >= VSize(signed.tx)
    <3>1. PICK fee \in Nat : fee = metadata.fee /\ fee >= estimateSize(intent)
      BY <2>1 DEF MetadataOK
    <3>2. PICK scripts : scripts = metadata.scripts /\ Acceptable(intent, scripts)
      BY <2>2
    <3>3. /\ \A i \in DOMAIN Inputs(intent) :
                CoinAmount[Inputs(intent)[i].coin] + Inputs(intent)[i].amount = 0
          /\ Distinct([i \in DOMAIN Inputs(intent) |-> Inputs(intent)[i].coin])
          /\ - Sum([i \in DOMAIN intent |-> intent[i].amount]) >= fee
      BY <1>1, <2>1, <3>1 DEF MetadataOK, Honest
    <3>4. NoDust(intent) /\ Countable(intent)
      BY <1>1 DEF Honest, CountsFit, NoDust, Countable
    <3>5. /\ \A i \in DOMAIN TransactionOf(intent).outs :
                TransactionOf(intent).outs[i].amount
                    >= DustLimit[TransactionOf(intent).outs[i].account]
          /\ Paid(TransactionOf(intent)) >= VSize(TransactionOf(intent))
      BY <2>2, <3>1, <3>2, <3>3, <3>4, HonestPays
    <3> QED
      BY <2>3, <3>5
  <2>6. ASSUME NEW i \in DOMAIN signed.tx.ins PROVE WitnessOK(signed, i)
    <3>1. PICK op \in Operations : op = Inputs(intent)[i] /\ IsInput(op) /\ i \in DOMAIN Inputs(intent)
      BY <2>2, <2>3, InputsAndOutputs
    <3>2. op.coin \in Coins /\ op.amount \in Int
      BY <3>1 DEF Operations, IsInput
    <3>3. PICK c \in Coins : c = op.coin /\ signed.tx.ins[i] = c
      BY <2>3, <3>1, <3>2
    <3>4. /\ metadata.scripts[i] = Script(c) /\ CoinAmount[c] + op.amount = 0
          /\ CoinAccount[c] = op.account /\ CoinAmount[c] \in Nat
      BY <1>1, <2>1, <3>1, <3>2, <3>3, ConstructionConstants DEF MetadataOK, Honest
    <3>5. CoinClass[c] = WitnessV0PubKeyHashTy
      <4>1. metadata.scripts[i].class = WitnessV0PubKeyHashTy
        BY <2>2, <3>1 DEF Acceptable
      <4> QED
        BY <3>4, <4>1 DEF Script
    <3>6. Int64(- op.amount) = CoinAmount[c]
      <4>1. CoinAmount[c] <= SumFunctionOnSet(CoinAmount, Coins)
        <5>1. \A x \in Coins : CoinAmount[x] \in Nat
          BY ConstructionConstants
        <5> QED
          BY <5>1, MoneySupply, SumReachesEach
      <4>2. SumFunctionOnSet(CoinAmount, Coins) \in Int
        BY ConstructionConstants, MoneySupply, SumType
      <4>3. - op.amount = CoinAmount[c] /\ CoinAmount[c] < Modulus \div 2
        BY <3>2, <3>4, <4>1, <4>2, MoneySupply, HalfModulus
      <4> QED
        BY <3>4, <4>3, HalfModulus, Int64Keeps
    <3>7. PICK x, y : /\ signed.witness[i] = [form |-> "DER", key |-> x, of |-> y]
                      /\ x = op.account
                      /\ y = SigHash(TransactionOf(intent), i, metadata.scripts[i],
                                     Int64(- op.amount))
      BY <2>1, <3>1, WitnessIs
    <3>8. signed.witness[i].form = "DER" /\ signed.witness[i].key = x /\ signed.witness[i].of = y
      BY <3>7
    <3>9. y = SigHash(signed.tx, i, Script(c), CoinAmount[c])
      BY <2>3, <3>4, <3>6, <3>7
    <3> QED
      BY <3>3, <3>4, <3>5, <3>7, <3>8, <3>9 DEF WitnessOK
  <2> QED
    BY <2>1, <2>4, <2>5, <2>6 DEF Valid
<1>2. ConstructionInv => HonestIsValid
  BY <1>1 DEF HonestIsValid
<1> QED
  BY <1>2, ConstructionInvariance, PTL
================================================================================
