--------------------------- MODULE TotalsTheorems ---------------------------
(***************************************************************************)
(* What a sum of amounts does when rows appear, disappear or change.       *)
(***************************************************************************)
EXTENDS Totals, FiniteSetTheorems, FunctionTheorems, TLAPS

(* The coins of one row are finite and as many as its amount. *)
LEMMA RowCoins ==
  ASSUME NEW s, NEW n \in Nat
  PROVE  /\ IsFiniteSet({s} \X (1 .. n))
         /\ Cardinality({s} \X (1 .. n)) = n
<1>1. IsFiniteSet({s}) /\ Cardinality({s}) = 1
  BY FS_Singleton
<1>2. IsFiniteSet(1 .. n) /\ Cardinality(1 .. n) = n
  BY FS_Interval
<1>3. /\ IsFiniteSet({s} \X (1 .. n))
      /\ Cardinality({s} \X (1 .. n)) = Cardinality({s}) * Cardinality(1 .. n)
  BY <1>1, <1>2, FS_Product, Zenon
<1>4. 1 * n = n
  OBVIOUS
<1>5. QED
  BY <1>1, <1>2, <1>3, <1>4

(* A finite set of rows has finitely many coins, and its sum is a number. *)
LEMMA TotalType ==
  ASSUME NEW S, IsFiniteSet(S), NEW w, \A s \in S : w[s] \in Nat
  PROVE  IsFiniteSet(Coins(S, w)) /\ Total(S, w) \in Nat
<1> DEFINE Row(s) == {s} \X (1 .. w[s])
           Rows == {Row(s) : s \in S}
           image == [s \in S |-> Row(s)]
<1>1. image \in Surjection(S, Rows)
  BY DEF Surjection
<1>2. IsFiniteSet(Rows)
  BY <1>1, FS_Surjection
<1>3. \A R \in Rows : IsFiniteSet(R)
  <2>1. TAKE R \in Rows
  <2>2. PICK s \in S : R = Row(s)
    OBVIOUS
  <2>3. w[s] \in Nat
    OBVIOUS
  <2>4. QED
    BY <2>2, <2>3, RowCoins
<1>4. IsFiniteSet(Coins(S, w))
  BY <1>2, <1>3, FS_UNION DEF Coins
<1>5. QED
  BY <1>4, FS_CardinalityType DEF Total

(* The empty sum is zero. *)
LEMMA TotalEmpty ==
  ASSUME NEW w
  PROVE  Total({}, w) = 0
<1>1. Coins({}, w) = {}
  BY DEF Coins
<1>2. QED
  BY <1>1, FS_EmptySet DEF Total

(* The sum of one row is its amount. *)
LEMMA TotalSingleton ==
  ASSUME NEW s, NEW w, w[s] \in Nat
  PROVE  Total({s}, w) = w[s]
<1>1. Coins({s}, w) = {s} \X (1 .. w[s])
  BY DEF Coins
<1>2. QED
  BY <1>1, RowCoins DEF Total

(* Disjoint sets of rows add up. *)
LEMMA TotalUnion ==
  ASSUME NEW S, IsFiniteSet(S), NEW T, IsFiniteSet(T), S \cap T = {},
         NEW w, \A s \in S \cup T : w[s] \in Nat
  PROVE  Total(S \cup T, w) = Total(S, w) + Total(T, w)
<1>1. Coins(S \cup T, w) = Coins(S, w) \cup Coins(T, w)
  BY DEF Coins
<1>2. Coins(S, w) \cap Coins(T, w) = {}
  <2>1. SUFFICES ASSUME NEW c \in Coins(S, w), c \in Coins(T, w) PROVE FALSE
    OBVIOUS
  <2>2. PICK s \in S : c \in {s} \X (1 .. w[s])
    BY DEF Coins
  <2>3. PICK t \in T : c \in {t} \X (1 .. w[t])
    BY <2>1 DEF Coins
  <2>4. c[1] = s /\ c[1] = t
    BY <2>2, <2>3
  <2>5. QED
    BY <2>4
<1>3. IsFiniteSet(Coins(S, w)) /\ IsFiniteSet(Coins(T, w))
  BY TotalType
<1>4. Cardinality(Coins(S, w)) \in Nat /\ Cardinality(Coins(T, w)) \in Nat
  BY TotalType DEF Total
<1>5. Cardinality({}) = 0
  BY FS_EmptySet
<1>6. Cardinality(Coins(S, w) \cup Coins(T, w))
        = Cardinality(Coins(S, w)) + Cardinality(Coins(T, w)) - Cardinality({})
  BY <1>2, <1>3, FS_Union
<1>7. Cardinality(Coins(S, w)) + Cardinality(Coins(T, w)) - 0
        = Cardinality(Coins(S, w)) + Cardinality(Coins(T, w))
  BY <1>4
<1>8. QED
  BY <1>1, <1>5, <1>6, <1>7, Zenon DEF Total

(* A new row adds its amount. *)
LEMMA TotalAdd ==
  ASSUME NEW S, IsFiniteSet(S), NEW x, x \notin S,
         NEW w, \A s \in S \cup {x} : w[s] \in Nat
  PROVE  Total(S \cup {x}, w) = Total(S, w) + w[x]
<1>1. IsFiniteSet({x}) /\ S \cap {x} = {}
  BY FS_Singleton
<1>2. Total(S \cup {x}, w) = Total(S, w) + Total({x}, w)
  BY <1>1, TotalUnion
<1>3. QED
  BY <1>2, TotalSingleton

(* Removing some rows subtracts what they held, which the sum covers. *)
LEMMA TotalRemove ==
  ASSUME NEW S, IsFiniteSet(S), NEW T \in SUBSET S,
         NEW w, \A s \in S : w[s] \in Nat
  PROVE  /\ Total(S \ T, w) = Total(S, w) - Total(T, w)
         /\ Total(T, w) <= Total(S, w)
<1>1. IsFiniteSet(T) /\ IsFiniteSet(S \ T)
  BY FS_Subset, FS_Difference
<1>2. (S \ T) \cup T = S /\ (S \ T) \cap T = {}
  OBVIOUS
<1>3. Total(S, w) = Total(S \ T, w) + Total(T, w)
  BY <1>1, <1>2, TotalUnion
<1>4. Total(S \ T, w) \in Nat /\ Total(T, w) \in Nat
  BY <1>1, TotalType
<1>5. QED
  BY <1>3, <1>4

(* The sum depends only on the amounts of the rows it ranges over. *)
LEMMA TotalCongruence ==
  ASSUME NEW S, NEW v, NEW w, \A s \in S : v[s] = w[s]
  PROVE  Total(S, v) = Total(S, w)
<1>1. Coins(S, v) = Coins(S, w)
  BY DEF Coins
<1>2. QED
  BY <1>1 DEF Total

(* Changing the amount of one row changes the sum by the difference. *)
LEMMA TotalUpdate ==
  ASSUME NEW S, IsFiniteSet(S), NEW x \in S, NEW v, NEW w,
         \A s \in S : v[s] \in Nat /\ w[s] \in Nat,
         \A s \in S \ {x} : v[s] = w[s]
  PROVE  Total(S, v) = Total(S, w) - w[x] + v[x]
<1>1. {x} \in SUBSET S
  OBVIOUS
<1>2. IsFiniteSet(S \ {x})
  BY FS_Difference
<1>3. Total(S \ {x}, v) = Total(S \ {x}, w)
  BY TotalCongruence
<1>4. Total(S \ {x}, v) = Total(S, v) - v[x]
  <2>1. \A s \in S : v[s] \in Nat
    OBVIOUS
  <2>2. Total({x}, v) = v[x]
    BY <2>1, TotalSingleton
  <2>3. QED
    BY <1>1, <2>1, <2>2, TotalRemove
<1>5. Total(S \ {x}, w) = Total(S, w) - w[x]
  <2>1. \A s \in S : w[s] \in Nat
    OBVIOUS
  <2>2. Total({x}, w) = w[x]
    BY <2>1, TotalSingleton
  <2>3. QED
    BY <1>1, <2>1, <2>2, TotalRemove
<1>6. Total(S, v) \in Nat /\ Total(S, w) \in Nat
  BY TotalType
<1>7. QED
  BY <1>3, <1>4, <1>5, <1>6

(* A coin is a row and a number up to its amount. *)
LEMMA CoinPairs ==
  ASSUME NEW S, NEW w, NEW c
  PROVE  c \in Coins(S, w) <=> \E s \in S : \E i \in 1 .. w[s] : c = <<s, i>>
<1>1. ASSUME c \in Coins(S, w)
      PROVE  \E s \in S : \E i \in 1 .. w[s] : c = <<s, i>>
  <2>1. PICK s \in S : c \in {s} \X (1 .. w[s])
    BY <1>1 DEF Coins
  <2>2. c = <<s, c[2]>> /\ c[2] \in 1 .. w[s]
    BY <2>1
  <2>3. QED
    BY <2>2
<1>2. ASSUME NEW s \in S, NEW i \in 1 .. w[s], c = <<s, i>>
      PROVE  c \in Coins(S, w)
  <2>1. c \in {s} \X (1 .. w[s])
    BY <1>2
  <2>2. QED
    BY <2>1 DEF Coins
<1>3. QED
  BY <1>1, <1>2

(* Amounts that add up row by row add up in sum. *)
LEMMA TotalPlus ==
  ASSUME NEW S, IsFiniteSet(S), NEW u, NEW v, NEW w,
         \A s \in S : u[s] \in Nat /\ v[s] \in Nat /\ w[s] = u[s] + v[s]
  PROVE  Total(S, w) = Total(S, u) + Total(S, v)
<1> DEFINE Shifted == {<<c[1], u[c[1]] + c[2]>> : c \in Coins(S, v)}
           shift   == [c \in Coins(S, v) |-> <<c[1], u[c[1]] + c[2]>>]
<1>1. \A c \in Coins(S, v) : c[1] \in S /\ c[2] \in 1 .. v[c[1]] /\ c = <<c[1], c[2]>>
  <2>1. TAKE c \in Coins(S, v)
  <2>2. PICK s \in S : \E i \in 1 .. v[s] : c = <<s, i>>
    BY CoinPairs
  <2>3. PICK i \in 1 .. v[s] : c = <<s, i>>
    BY <2>2
  <2>4. QED
    BY <2>3
<1>2. shift \in Bijection(Coins(S, v), Shifted)
  <2>1. shift \in [Coins(S, v) -> Shifted]
    OBVIOUS
  <2>2. \A d \in Shifted : \E c \in Coins(S, v) : shift[c] = d
    OBVIOUS
  <2>3. \A c, d \in Coins(S, v) : shift[c] = shift[d] => c = d
    <3>1. TAKE c, d \in Coins(S, v)
    <3>2. HAVE shift[c] = shift[d]
    <3>3. c[1] = d[1] /\ u[c[1]] + c[2] = u[d[1]] + d[2]
      BY <3>2
    <3>4. u[c[1]] \in Nat /\ c[2] \in Int /\ d[2] \in Int
      <4>1. c[1] \in S /\ c[2] \in 1 .. v[c[1]] /\ d[2] \in 1 .. v[d[1]]
        BY <1>1
      <4>2. QED
        BY <4>1
    <3>5. c[2] = d[2]
      BY <3>3, <3>4
    <3>6. c = <<c[1], c[2]>> /\ d = <<d[1], d[2]>>
      BY <1>1
    <3>7. QED
      BY <3>3, <3>5, <3>6
  <2>4. QED
    BY <2>1, <2>2, <2>3, Fun_IsBij
<1>3. Coins(S, w) = Coins(S, u) \cup Shifted
  <2>1. ASSUME NEW c \in Coins(S, w)
        PROVE  c \in Coins(S, u) \cup Shifted
    <3>1. PICK s \in S : \E i \in 1 .. w[s] : c = <<s, i>>
      BY <2>1, CoinPairs
    <3>2. PICK i \in 1 .. w[s] : c = <<s, i>>
      BY <3>1
    <3>3. u[s] \in Nat /\ v[s] \in Nat /\ w[s] = u[s] + v[s]
      OBVIOUS
    <3>4. CASE i <= u[s]
      <4>1. i \in 1 .. u[s]
        BY <3>3, <3>4
      <4>2. QED
        BY <3>2, <4>1, CoinPairs
    <3>5. CASE i > u[s]
      <4>1. i - u[s] \in 1 .. v[s] /\ u[s] + (i - u[s]) = i
        BY <3>3, <3>5
      <4>2. <<s, i - u[s]>> \in Coins(S, v)
        BY <4>1, CoinPairs
      <4>3. shift[<<s, i - u[s]>>] = c
        BY <3>2, <4>1, <4>2
      <4>4. QED
        BY <4>2, <4>3
    <3>6. QED
      BY <3>3, <3>4, <3>5
  <2>2. ASSUME NEW c \in Coins(S, u)
        PROVE  c \in Coins(S, w)
    <3>1. PICK s \in S : \E i \in 1 .. u[s] : c = <<s, i>>
      BY <2>2, CoinPairs
    <3>2. PICK i \in 1 .. u[s] : c = <<s, i>>
      BY <3>1
    <3>3. u[s] \in Nat /\ v[s] \in Nat /\ w[s] = u[s] + v[s]
      OBVIOUS
    <3>4. i \in 1 .. w[s]
      BY <3>3
    <3>5. QED
      BY <3>2, <3>4, CoinPairs
  <2>3. ASSUME NEW c \in Coins(S, v)
        PROVE  <<c[1], u[c[1]] + c[2]>> \in Coins(S, w)
    <3>1. c[1] \in S /\ c[2] \in 1 .. v[c[1]]
      BY <1>1
    <3>2. u[c[1]] \in Nat /\ v[c[1]] \in Nat /\ w[c[1]] = u[c[1]] + v[c[1]]
      BY <3>1
    <3>3. u[c[1]] + c[2] \in 1 .. w[c[1]]
      BY <3>1, <3>2
    <3>4. QED
      BY <3>1, <3>3, CoinPairs
  <2>4. QED
    BY <2>1, <2>2, <2>3
<1>4. Coins(S, u) \cap Shifted = {}
  <2>1. SUFFICES ASSUME NEW c \in Coins(S, v), <<c[1], u[c[1]] + c[2]>> \in Coins(S, u)
                 PROVE  FALSE
    OBVIOUS
  <2>2. PICK s \in S : \E i \in 1 .. u[s] : <<c[1], u[c[1]] + c[2]>> = <<s, i>>
    BY <2>1, CoinPairs
  <2>3. PICK i \in 1 .. u[s] : <<c[1], u[c[1]] + c[2]>> = <<s, i>>
    BY <2>2
  <2>4. c[1] = s /\ u[s] + c[2] <= u[s]
    BY <2>3
  <2>5. c[2] \in 1 .. v[s] /\ u[s] \in Nat
    BY <1>1, <2>4
  <2>6. QED
    BY <2>4, <2>5
<1> HIDE DEF Shifted, shift
<1>5. /\ \A s \in S : u[s] \in Nat
      /\ \A s \in S : v[s] \in Nat
  OBVIOUS
<1>6. IsFiniteSet(Coins(S, u)) /\ IsFiniteSet(Coins(S, v)) /\ Total(S, u) \in Nat
  BY <1>5, TotalType
<1>7. IsFiniteSet(Shifted) /\ Cardinality(Shifted) = Cardinality(Coins(S, v))
  BY <1>2, <1>6, FS_Bijection DEF ExistsBijection
<1>8. Cardinality(Coins(S, w)) = Cardinality(Coins(S, u)) + Cardinality(Shifted) - Cardinality({})
  BY <1>3, <1>4, <1>6, <1>7, FS_Union
<1>9. Cardinality({}) = 0 /\ Cardinality(Coins(S, u)) \in Nat /\ Cardinality(Coins(S, v)) \in Nat
  BY <1>6, FS_EmptySet, FS_CardinalityType
<1>10. QED
  BY <1>7, <1>8, <1>9 DEF Total

(* The rows of S, sorted into the parts of P, add up part by part. *)
LEMMA TotalPartition ==
  ASSUME NEW S, IsFiniteSet(S), NEW P, IsFiniteSet(P),
         NEW f, \A s \in S : f[s] \in P,
         NEW w, \A s \in S : w[s] \in Nat,
         NEW part, \A p \in P : \A s : s \in part[p] <=> s \in S /\ f[s] = p,
         NEW out, \A p \in P : out[p] = Total(part[p], w)
  PROVE  Total(P, out) = Total(S, w)
<1> DEFINE number == [p \in P |-> CHOOSE h : h \in Bijection(1 .. out[p], Coins(part[p], w))]
           coin   == [c \in Coins(P, out) |-> number[c[1]][c[2]]]
<1>1. \A p \in P : out[p] \in Nat /\ number[p] \in Bijection(1 .. out[p], Coins(part[p], w))
  <2>1. TAKE p \in P
  <2>2. IsFiniteSet(part[p]) /\ \A s \in part[p] : w[s] \in Nat
    BY FS_Subset
  <2>3. IsFiniteSet(Coins(part[p], w))
    BY <2>2, TotalType
  <2>4. out[p] = Cardinality(Coins(part[p], w))
    BY DEF Total
  <2>5. out[p] \in Nat /\ \E h : h \in Bijection(1 .. out[p], Coins(part[p], w))
    BY <2>3, <2>4, FS_CardinalityType DEF ExistsBijection
  <2>6. QED
    BY <2>5
<1> HIDE DEF number
<1>2. \A p \in P :
        /\ \A i \in 1 .. out[p] : number[p][i] \in Coins(part[p], w)
        /\ \A i, j \in 1 .. out[p] : number[p][i] = number[p][j] => i = j
        /\ \A c \in Coins(part[p], w) : \E i \in 1 .. out[p] : number[p][i] = c
  <2>1. TAKE p \in P
  <2> DEFINE from == 1 .. out[p]
             to   == Coins(part[p], w)
             h    == number[p]
  <2>2. h \in Bijection(from, to)
    BY <1>1
  <2> HIDE DEF from, to, h
  <2>3. h \in [from -> to]
    BY <2>2, Fun_BijectionProperties
  <2>4. \A i, j \in from : h[i] = h[j] => i = j
    BY <2>2, Fun_BijectionProperties
  <2>5. \A c \in to : \E i \in from : h[i] = c
    BY <2>2, Fun_BijectionProperties
  <2>6. QED
    BY <2>3, <2>4, <2>5 DEF from, to, h
<1>3. \A c \in Coins(P, out) : c[1] \in P /\ c[2] \in 1 .. out[c[1]] /\ c = <<c[1], c[2]>>
  <2>1. TAKE c \in Coins(P, out)
  <2>2. PICK p \in P : \E i \in 1 .. out[p] : c = <<p, i>>
    BY CoinPairs
  <2>3. PICK i \in 1 .. out[p] : c = <<p, i>>
    BY <2>2
  <2>4. QED
    BY <2>3
<1>4. \A p \in P : \A c \in Coins(part[p], w) : c \in Coins(S, w) /\ f[c[1]] = p
  <2>1. TAKE p \in P
  <2>2. TAKE c \in Coins(part[p], w)
  <2>3. PICK s \in part[p] : \E i \in 1 .. w[s] : c = <<s, i>>
    BY CoinPairs
  <2>4. PICK i \in 1 .. w[s] : c = <<s, i>>
    BY <2>3
  <2>5. s \in S /\ f[s] = p /\ c[1] = s
    BY <2>4
  <2>6. QED
    BY <2>4, <2>5, CoinPairs
<1>5. coin \in [Coins(P, out) -> Coins(S, w)]
  <2>1. \A c \in Coins(P, out) : number[c[1]][c[2]] \in Coins(S, w)
    BY <1>2, <1>3, <1>4
  <2>2. QED
    BY <2>1
<1>6. \A c, d \in Coins(P, out) : coin[c] = coin[d] => c = d
  <2>1. TAKE c, d \in Coins(P, out)
  <2>2. HAVE coin[c] = coin[d]
  <2>3. number[c[1]][c[2]] = number[d[1]][d[2]]
    BY <2>2
  <2>4. /\ number[c[1]][c[2]] \in Coins(part[c[1]], w) /\ c[1] \in P
        /\ number[d[1]][d[2]] \in Coins(part[d[1]], w) /\ d[1] \in P
    BY <1>2, <1>3
  <2>5. c[1] = d[1]
    BY <1>4, <2>3, <2>4
  <2>6. c[2] = d[2]
    BY <1>2, <1>3, <2>3, <2>5
  <2>7. c = <<c[1], c[2]>> /\ d = <<d[1], d[2]>>
    BY <1>3
  <2>8. QED
    BY <2>5, <2>6, <2>7
<1>7. \A t \in Coins(S, w) : \E c \in Coins(P, out) : coin[c] = t
  <2>1. TAKE t \in Coins(S, w)
  <2>2. PICK s \in S : \E k \in 1 .. w[s] : t = <<s, k>>
    BY CoinPairs
  <2>3. f[s] \in P /\ s \in part[f[s]]
    OBVIOUS
  <2>4. t \in Coins(part[f[s]], w)
    BY <2>2, <2>3, CoinPairs
  <2>5. PICK i \in 1 .. out[f[s]] : number[f[s]][i] = t
    BY <1>2, <2>3, <2>4
  <2>6. <<f[s], i>> \in Coins(P, out)
    BY <2>3, CoinPairs
  <2>7. coin[<<f[s], i>>] = t
    BY <2>5, <2>6
  <2>8. QED
    BY <2>6, <2>7
<1>8. coin \in Bijection(Coins(P, out), Coins(S, w))
  BY <1>5, <1>6, <1>7, Fun_IsBij
<1>9. IsFiniteSet(Coins(P, out))
  BY <1>1, TotalType
<1>10. Cardinality(Coins(S, w)) = Cardinality(Coins(P, out))
  BY <1>8, <1>9, FS_Bijection DEF ExistsBijection
<1>11. QED
  BY <1>10 DEF Total
=============================================================================
