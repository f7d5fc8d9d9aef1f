--------------------------- MODULE OfflineProofs ----------------------------
(***************************************************************************)
(* The theorems about the programs that run off line.                      *)
(*                                                                         *)
(* The central plan: for any number of items, any estimates, headroom and  *)
(* capacities, what is decided is affordable and the best there is.        *)
(*                                                                         *)
(* The studies: for any number of rounds, budget, tariff, capacities and   *)
(* cases, no play of an allocator or a policy spends what it has not, and  *)
(* none is paid more value than the oracle found.                          *)
(*                                                                         *)
(* The bills: for every contract, whatever its prices and maxima, usage    *)
(* without a breached dimension costs no more than the quote's bound, and  *)
(* every charge is its price rounded up.                                   *)
(*                                                                         *)
(* What a fold over a finite set is, and that a finite set has a greatest  *)
(* element, is shown at the start, by a smallest counterexample among its  *)
(* subsets (WFMin), because the induction theorems of the library take an  *)
(* operator as a parameter.                                                *)
(***************************************************************************)
EXTENDS CentralPlan, Reporting, Billing, TotalsTheorems, WellFoundedInduction, TLAPS

(* Folds, and the greatest of finitely many *)

(* The sum of the values of a function. *)
Sum(f) == FoldFunction(+, 0, f)

(* What is summed one value after the other, in whatever order. *)
SumsUp(f, g) ==
  /\ g = [s \in SUBSET DOMAIN f |-> g[s]]
  /\ g[{}] = 0
  /\ \A s \in SUBSET DOMAIN f : \A x \in s : g[s] = f[x] + g[s \ {x}]

(* A fold over a finite set is whatever adds up one value after the other:  *)
(* a smallest subset on which the two differ would be one more than a       *)
(* subset on which they agree.                                              *)
LEMMA FoldUnique ==
  ASSUME NEW f, IsFiniteSet(DOMAIN f), NEW g, SumsUp(f, g)
  PROVE  Sum(f) = g[DOMAIN f]
<1> USE DEF SumsUp
<1> DEFINE S == DOMAIN f
<1> DEFINE Rec(h) == h = [s \in SUBSET S |-> IF s = {} THEN 0
                                        ELSE f[CHOOSE x \in s : TRUE] + h[s \ {CHOOSE x \in s : TRUE}]]
           it == CHOOSE h : Rec(h)
<1>1. Sum(f) = it[S]
  BY DEF Sum, FoldFunction, FoldFunctionOnSet, MapThenFoldSet
<1>2. Rec(g)
  <2>1. ASSUME NEW s \in SUBSET S
        PROVE  g[s] = IF s = {} THEN 0 ELSE f[CHOOSE x \in s : TRUE] + g[s \ {CHOOSE x \in s : TRUE}]
    <3>1. CASE s = {}
      BY <3>1
    <3>2. CASE s # {}
      <4>1. (CHOOSE x \in s : TRUE) \in s
        BY <3>2
      <4>2. QED
        BY <3>2, <4>1
    <3>3. QED
      BY <3>1, <3>2
  <2>2. QED
    BY <2>1
<1> HIDE DEF Rec
<1>3. Rec(it)
  BY <1>2
<1> USE DEF Rec
<1> HIDE DEF it
<1>4. ASSUME NEW h, Rec(h) PROVE \A s \in SUBSET S : h[s] = g[s]
  <2> DEFINE T == {s \in SUBSET S : h[s] # g[s]}
  <2>1. SUFFICES ASSUME T # {} PROVE FALSE
    OBVIOUS
  <2>2. T \subseteq FiniteSubsetsOf(S)
    BY FS_Subset DEF FiniteSubsetsOf
  <2> HIDE DEF T
  <2>3. PICK s \in T : \A t \in T : ~ (<<t, s>> \in StrictSubsetOrdering(S))
    BY <2>1, <2>2, FS_StrictSubsetOrderingWellFounded, WFMin, Zenon
  <2> USE DEF T
  <2>4. CASE s = {}
    BY <2>4, <2>3, <1>4, <1>2
  <2>5. CASE s # {}
    <3> DEFINE x == CHOOSE x \in s : TRUE
    <3>1. x \in s
      BY <2>5
    <3>2. <<s \ {x}, s>> \in StrictSubsetOrdering(S)
      BY <3>1, <2>3 DEF StrictSubsetOrdering
    <3>3. s \ {x} \notin T
      BY <3>2, <2>3
    <3>4. h[s \ {x}] = g[s \ {x}]
      BY <3>3, <2>3
    <3>5. h[s] = f[x] + h[s \ {x}] /\ g[s] = f[x] + g[s \ {x}]
      BY <1>4, <1>2, <2>3, <2>5
    <3>6. QED
      BY <3>4, <3>5, <2>3
  <2>6. QED
    BY <2>4, <2>5
<1>5. QED
  BY <1>1, <1>3, <1>4, <1>2

(* The sum of the amounts of a function is the number of their coins. *)
LEMMA FoldIsTotal ==
  ASSUME NEW f, IsFiniteSet(DOMAIN f), \A x \in DOMAIN f : f[x] \in Nat
  PROVE  Sum(f) = Total(DOMAIN f, f)
<1> DEFINE S == DOMAIN f
           g == [s \in SUBSET S |-> Total(s, f)]
<1>1. ASSUME NEW s \in SUBSET S, NEW x \in s
      PROVE  Total(s, f) = f[x] + Total(s \ {x}, f)
  <2> DEFINE t == s \ {x}
  <2>1. x \notin t /\ t \cup {x} = s
    OBVIOUS
  <2>2. IsFiniteSet(t) /\ \A y \in t \cup {x} : f[y] \in Nat
    BY <2>1, FS_Subset
  <2>3. Total(t, f) \in Nat /\ f[x] \in Nat
    BY <2>2, TotalType
  <2> HIDE DEF t
  <2>4. Total(t \cup {x}, f) = Total(t, f) + f[x]
    BY <2>1, <2>2, TotalAdd
  <2>5. Total(s, f) = Total(t, f) + f[x]
    BY <2>1, <2>4, Zenon
  <2>6. QED
    BY <2>3, <2>5 DEF t
<1>2. SumsUp(f, g)
  BY <1>1, TotalEmpty DEF SumsUp
<1> HIDE DEF g
<1>3. Sum(f) = g[DOMAIN f]
  BY <1>2, FoldUnique
<1>4. QED
  BY <1>3 DEF g

(* Of finitely many, one is beaten by none. *)
LEMMA Unbeaten ==
  ASSUME NEW S, IsFiniteSet(S), S # {}, NEW R,
         \A x \in S : <<x, x>> \notin R,
         \A x, y, z \in S : <<x, y>> \in R /\ <<y, z>> \in R => <<x, z>> \in R
  PROVE  \E x \in S : \A y \in S : <<y, x>> \notin R
<1> DEFINE Beating(x) == {y \in S : <<y, x>> \in R}
           T == {Beating(x) : x \in S}
<1>1. T \subseteq FiniteSubsetsOf(S) /\ T # {}
  <2>1. \A x \in S : Beating(x) \in SUBSET S /\ IsFiniteSet(Beating(x))
    BY FS_Subset
  <2>2. \A s \in T : s \in FiniteSubsetsOf(S)
    <3>1. TAKE s \in T
    <3>2. PICK x \in S : s = Beating(x)
      OBVIOUS
    <3>3. QED
      BY <2>1, <3>2 DEF FiniteSubsetsOf
  <2>3. T # {}
    <3>1. PICK x \in S : TRUE
      OBVIOUS
    <3>2. Beating(x) \in T
      OBVIOUS
    <3>3. QED
      BY <3>2
  <2>4. QED
    BY <2>2, <2>3
<1>2. PICK s \in T : \A t \in T : ~ (<<t, s>> \in StrictSubsetOrdering(S))
  BY <1>1, FS_StrictSubsetOrderingWellFounded, WFMin, Zenon
<1>3. PICK x \in S : s = Beating(x)
  OBVIOUS
<1>4. ASSUME NEW y \in S, <<y, x>> \in R PROVE FALSE
  <2>1. Beating(y) \subseteq Beating(x) /\ y \in Beating(x) /\ y \notin Beating(y)
    BY <1>4
  <2>2. <<Beating(y), s>> \in StrictSubsetOrdering(S)
    BY <2>1, <1>3 DEF StrictSubsetOrdering
  <2>3. QED
    BY <2>2, <1>2
<1>5. QED
  BY <1>4

(* The greatest of finitely many numbers. *)
LEMMA MaxIs ==
  ASSUME NEW S \in SUBSET Int, IsFiniteSet(S), S # {}
  PROVE  Max(S) \in S /\ \A x \in S : x <= Max(S)
<1> DEFINE R == {p \in S \X S : p[1] > p[2]}
<1>1. \A x, y \in S : <<x, y>> \in R <=> x > y
  OBVIOUS
<1> HIDE DEF R
<1>2. /\ \A x \in S : <<x, x>> \notin R
      /\ \A x, y, z \in S : <<x, y>> \in R /\ <<y, z>> \in R => <<x, z>> \in R
  BY <1>1
<1>3. PICK x \in S : \A y \in S : <<y, x>> \notin R
  BY <1>2, Unbeaten
<1>4. \A y \in S : ~ (y > x)
  BY <1>1, <1>3
<1>5. \A y \in S : x >= y /\ y \in Int /\ x \in Int
  BY <1>4
<1>6. Max(S) \in S /\ \A y \in S : Max(S) >= y
  BY <1>3, <1>5 DEF Max
<1>7. QED
  BY <1>6

(* As many values as arguments, at the most. *)
LEMMA ImageIsFinite ==
  ASSUME NEW S, IsFiniteSet(S), NEW f
  PROVE  IsFiniteSet({f[x] : x \in S})
<1> DEFINE T == {f[x] : x \in S}
           g == [x \in S |-> f[x]]
<1>1. g \in Surjection(S, T)
  BY DEF Surjection
<1> HIDE DEF T, g
<1>2. IsFiniteSet(T)
  BY <1>1, FS_Surjection
<1>3. QED
  BY <1>2 DEF T

-----------------------------------------------------------------------------
(* The choices for the items before k that are due. *)
Before(k)     == {i \in Items : i < k /\ plan[i].due}
ChoicesFor(k) == UNION {[D -> Options] : D \in SUBSET Before(k)}

PlanType ==
  /\ plan \in [Items -> DueItem \cup PastItem]
  /\ headroom \in Nat /\ collapsed \in BOOLEAN

(* What is assumed of the constants, in the form in which it is used. *)
LEMMA PlanNumbers ==
  /\ IsFiniteSet(Items) /\ Items \subseteq Nat /\ Estimates \subseteq Nat /\ Headrooms \subseteq Nat
  /\ PREMIUM \in Nat /\ CONSULTATION \in Nat /\ MANDATORY \in Nat
  /\ Cardinality(Items) \in Nat
  /\ \A i : i \in Items <=> i \in Nat /\ 1 <= i /\ i <= Cardinality(Items)
<1>1. IsFiniteSet(Items) /\ Cardinality(Items) \in Nat
  BY CentralAssumption, FS_CardinalityType
<1>2. PICK n \in Nat : n = Cardinality(Items)
  BY <1>1
<1>3. Items = 1 .. n
  BY <1>2, CentralAssumption, Zenon
<1>4. /\ Estimates \subseteq Nat /\ Headrooms \subseteq Nat
      /\ PREMIUM \in Nat /\ CONSULTATION \in Nat /\ MANDATORY \in Nat
  BY CentralAssumption, Zenon
<1>5. Items \subseteq Nat /\ \A i : i \in Items <=> i \in Nat /\ 1 <= i /\ i <= n
  BY <1>3
<1>6. QED
  BY <1>1, <1>2, <1>4, <1>5

(* What a choice costs, item by item. *)
Costs(c)  == [i \in DOMAIN c |-> Cost(i, c[i])]
Yields(c) == [i \in DOMAIN c |-> plan[i].estimate[c[i]]]
Taking(c, r) == {i \in DOMAIN c : c[i] = r}
Reviews(c)   == {i \in DOMAIN c : plan[i].mandatory}

(* A choice gives an option to some of the items that are due. *)
LEMMA ChoiceShape ==
  ASSUME NEW k, NEW c
  PROVE  c \in ChoicesFor(k) <=> DOMAIN c \subseteq Before(k) /\ c \in [DOMAIN c -> Options]
BY DEF ChoicesFor

(* Its costs and its values are natural numbers, item by item. *)
LEMMA ChoiceTypes ==
  ASSUME PlanType, NEW k, NEW c \in ChoicesFor(k)
  PROVE  /\ DOMAIN c \subseteq Items /\ IsFiniteSet(DOMAIN c)
         /\ \A i \in DOMAIN c : Costs(c)[i] \in Nat /\ Yields(c)[i] \in Nat
         /\ DOMAIN Costs(c) = DOMAIN c /\ DOMAIN Yields(c) = DOMAIN c
         /\ IsFiniteSet(Reviews(c)) /\ \A r : IsFiniteSet(Taking(c, r))
<1>1. DOMAIN c \subseteq Items /\ c \in [DOMAIN c -> Options]
  BY ChoiceShape DEF Before
<1>2. IsFiniteSet(DOMAIN c)
  BY <1>1, PlanNumbers, FS_Subset
<1>3. ASSUME NEW i \in DOMAIN c
      PROVE  Costs(c)[i] \in Nat /\ Yields(c)[i] \in Nat
  <2>1. i \in Items /\ c[i] \in Options
    BY <1>1
  <2>2. plan[i] \in DueItem \cup PastItem
    BY <2>1 DEF PlanType
  <2>3. plan[i].estimate[c[i]] \in Nat
    <3>1. plan[i].estimate \in [Options -> Estimates] \/ plan[i].estimate \in [Options -> {0}]
      BY <2>2 DEF DueItem, PastItem
    <3>2. plan[i].estimate[c[i]] \in Estimates \cup {0}
      BY <2>1, <3>1
    <3>3. \A x \in Estimates \cup {0} : x \in Nat
      BY PlanNumbers
    <3>4. QED
      BY <3>2, <3>3, Zenon
  <2>4. Cost(i, c[i]) \in Nat
    BY <2>1 DEF Cost, COSTS, Options
  <2>5. QED
    BY <2>3, <2>4 DEF Costs, Yields
<1>4. IsFiniteSet(Reviews(c)) /\ \A r : IsFiniteSet(Taking(c, r))
  BY <1>2, FS_Subset DEF Reviews, Taking
<1>5. QED
  BY <1>1, <1>2, <1>3, <1>4 DEF Costs, Yields

SumsAgree ==
  \A c : /\ Value(c) = Sum(Yields(c))
         /\ Use(c) = <<Sum(Costs(c)), Cardinality(Taking(c, "premium")),
                      Cardinality(Taking(c, "consultation")), Cardinality(Reviews(c))>>

(* The folds of the model are sums of them. *)
LEMMA AreSums == SumsAgree
<1>0. SUFFICES ASSUME NEW c
               PROVE  /\ Value(c) = Sum(Yields(c))
                      /\ Use(c) = <<Sum(Costs(c)), Cardinality(Taking(c, "premium")),
                                   Cardinality(Taking(c, "consultation")), Cardinality(Reviews(c))>>
  BY DEF SumsAgree
<1>2. Value(c) = Sum(Yields(c))
  BY DEF Value, Sum, Yields
<1>3. Use(c) = <<Sum(Costs(c)), Cardinality(Taking(c, "premium")),
                 Cardinality(Taking(c, "consultation")), Cardinality(Reviews(c))>>
  BY DEF Use, Sum, Costs, Taking, Reviews
<1>4. QED
  BY <1>2, <1>3

(* What a choice uses and is worth, as totals. *)
LEMMA UseAndValue ==
  ASSUME PlanType, NEW k, NEW c \in ChoicesFor(k)
  PROVE  /\ Value(c) = Total(DOMAIN c, Yields(c)) /\ Value(c) \in Nat
         /\ Use(c) = <<Total(DOMAIN c, Costs(c)), Cardinality(Taking(c, "premium")),
                       Cardinality(Taking(c, "consultation")), Cardinality(Reviews(c))>>
         /\ Use(c) \in Nat \X Nat \X Nat \X Nat
<1>1. Value(c) = Sum(Yields(c))
  BY AreSums DEF SumsAgree
<1>2. Use(c) = <<Sum(Costs(c)), Cardinality(Taking(c, "premium")),
                 Cardinality(Taking(c, "consultation")), Cardinality(Reviews(c))>>
  BY AreSums DEF SumsAgree
<1>3. Sum(Yields(c)) = Total(DOMAIN c, Yields(c)) /\ Sum(Costs(c)) = Total(DOMAIN c, Costs(c))
  BY ChoiceTypes, FoldIsTotal
<1>4. Total(DOMAIN c, Yields(c)) \in Nat /\ Total(DOMAIN c, Costs(c)) \in Nat
  BY ChoiceTypes, TotalType
<1>5. /\ Cardinality(Taking(c, "premium")) \in Nat /\ Cardinality(Taking(c, "consultation")) \in Nat
      /\ Cardinality(Reviews(c)) \in Nat
  BY ChoiceTypes, FS_CardinalityType
<1>6. QED
  BY <1>1, <1>2, <1>3, <1>4, <1>5

(* A choice and one item more: its value and its use.                       *)
LEMMA ExtendedChoice ==
  ASSUME PlanType, NEW k \in Items, plan[k].due, NEW c \in ChoicesFor(k), NEW r \in Options
  PROVE  /\ Extended(c, k, r) \in ChoicesFor(k + 1)
         /\ Value(Extended(c, k, r)) = Value(c) + plan[k].estimate[r]
         /\ Use(Extended(c, k, r)) = Adding(Use(c), k, r)
<1> DEFINE e == Extended(c, k, r)
           D == DOMAIN c
<1>1. D \subseteq Before(k) /\ c \in [D -> Options] /\ k \notin D
  <2>1. D \subseteq Before(k) /\ c \in [D -> Options]
    BY ChoiceShape
  <2>2. k \notin Before(k)
    BY PlanNumbers DEF Before
  <2>3. QED
    BY <2>1, <2>2
<1>2. /\ DOMAIN e = D \cup {k} /\ e[k] = r /\ \A i \in D : e[i] = c[i]
      /\ e \in [D \cup {k} -> Options]
  BY <1>1 DEF Extended
<1>3. k \in Nat /\ Before(k) \cup {k} \subseteq Before(k + 1)
  BY PlanNumbers DEF Before
<1>4. e \in ChoicesFor(k + 1)
  BY <1>1, <1>2, <1>3, ChoiceShape
<1>5. IsFiniteSet(D) /\ k \notin D
  BY <1>1, ChoiceTypes
<1> HIDE DEF D, e
<1>6. Total(D \cup {k}, Yields(e)) = Total(D, Yields(c)) + plan[k].estimate[r]
  <2>1. \A i \in D \cup {k} : Yields(e)[i] \in Nat
    BY <1>2, <1>4, ChoiceTypes
  <2>2. Total(D \cup {k}, Yields(e)) = Total(D, Yields(e)) + Yields(e)[k]
    BY <1>5, <2>1, TotalAdd
  <2>3. Yields(e)[k] = plan[k].estimate[r] /\ \A i \in D : Yields(e)[i] = Yields(c)[i]
    BY <1>2 DEF Yields, D
  <2>4. Total(D, Yields(e)) = Total(D, Yields(c))
    BY <2>3, TotalCongruence
  <2>5. QED
    BY <2>2, <2>3, <2>4
<1>7. Total(D \cup {k}, Costs(e)) = Total(D, Costs(c)) + Cost(k, r)
  <2>1. \A i \in D \cup {k} : Costs(e)[i] \in Nat
    BY <1>2, <1>4, ChoiceTypes
  <2>2. Total(D \cup {k}, Costs(e)) = Total(D, Costs(e)) + Costs(e)[k]
    BY <1>5, <2>1, TotalAdd
  <2>3. Costs(e)[k] = Cost(k, r) /\ \A i \in D : Costs(e)[i] = Costs(c)[i]
    BY <1>2 DEF Costs, D
  <2>4. Total(D, Costs(e)) = Total(D, Costs(c))
    BY <2>3, TotalCongruence
  <2>5. QED
    BY <2>2, <2>3, <2>4
<1>8. ASSUME NEW q
      PROVE  Cardinality(Taking(e, q)) = Cardinality(Taking(c, q)) + (IF r = q THEN 1 ELSE 0)
  <2>1. Taking(e, q) = IF r = q THEN Taking(c, q) \cup {k} ELSE Taking(c, q)
    BY <1>2 DEF Taking, D
  <2>2. IsFiniteSet(Taking(c, q)) /\ k \notin Taking(c, q)
    BY <1>5, ChoiceTypes DEF Taking, D
  <2>3. Cardinality(Taking(c, q)) \in Nat
    BY <2>2, FS_CardinalityType
  <2>4. Cardinality(Taking(c, q) \cup {k}) = Cardinality(Taking(c, q)) + 1
    BY <2>2, FS_AddElement
  <2>5. QED
    BY <2>1, <2>3, <2>4
<1>9. Cardinality(Reviews(e)) = Cardinality(Reviews(c)) + (IF plan[k].mandatory THEN 1 ELSE 0)
  <2>1. Reviews(e) = IF plan[k].mandatory THEN Reviews(c) \cup {k} ELSE Reviews(c)
    BY <1>2 DEF Reviews, D
  <2>2. IsFiniteSet(Reviews(c)) /\ k \notin Reviews(c)
    BY <1>5, ChoiceTypes DEF Reviews, D
  <2>3. Cardinality(Reviews(c)) \in Nat
    BY <2>2, FS_CardinalityType
  <2>4. Cardinality(Reviews(c) \cup {k}) = Cardinality(Reviews(c)) + 1
    BY <2>2, FS_AddElement
  <2>5. QED
    BY <2>1, <2>3, <2>4
<1>10. Value(e) = Value(c) + plan[k].estimate[r]
  BY <1>2, <1>4, <1>6, UseAndValue DEF D
<1>11. Use(e) = Adding(Use(c), k, r)
  <2>1. Use(e) = <<Total(D \cup {k}, Costs(e)), Cardinality(Taking(e, "premium")),
                   Cardinality(Taking(e, "consultation")), Cardinality(Reviews(e))>>
    BY <1>2, <1>4, UseAndValue
  <2>2. Use(c) = <<Total(D, Costs(c)), Cardinality(Taking(c, "premium")),
                   Cardinality(Taking(c, "consultation")), Cardinality(Reviews(c))>>
    BY UseAndValue DEF D
  <2>3. QED
    BY <2>1, <2>2, <1>7, <1>8, <1>9 DEF Adding
<1>12. QED
  BY <1>4, <1>10, <1>11 DEF e

(* A choice for the items up to k is one for those before it, or extends it.*)
LEMMA ChoiceSplits ==
  ASSUME PlanType, NEW k \in Items, NEW c \in ChoicesFor(k + 1), c \notin ChoicesFor(k)
  PROVE  /\ plan[k].due
         /\ \E b \in ChoicesFor(k), r \in Options : c = Extended(b, k, r)
<1>1. DOMAIN c \subseteq Before(k + 1) /\ c \in [DOMAIN c -> Options] /\ ~ (DOMAIN c \subseteq Before(k))
  BY ChoiceShape
<1>2. k \in Nat /\ Before(k + 1) \subseteq Before(k) \cup {k}
  BY PlanNumbers DEF Before
<1>3. k \in DOMAIN c /\ plan[k].due
  BY <1>1, <1>2 DEF Before
<1> DEFINE b == [i \in DOMAIN c \ {k} |-> c[i]]
<1>4. b \in ChoicesFor(k)
  <2>1. DOMAIN b \subseteq Before(k) /\ b \in [DOMAIN b -> Options]
    BY <1>1, <1>2
  <2>2. QED
    BY <2>1, ChoiceShape
<1>5. c = Extended(b, k, c[k]) /\ c[k] \in Options
  BY <1>1, <1>3 DEF Extended
<1>6. QED
  BY <1>3, <1>4, <1>5

(* Among finitely many choices Best is one of the most valuable. *)
LEMMA BestIsBest ==
  ASSUME PlanType, NEW k, NEW S \in SUBSET ChoicesFor(k), IsFiniteSet(S), S # {}
  PROVE  Best(S) \in S /\ \A d \in S : Value(d) <= Value(Best(S))
<1> DEFINE R == {p \in S \X S : Value(p[2]) < Value(p[1])}
<1>1. \A c \in S : Value(c) \in Nat
  BY UseAndValue
<1>2. /\ \A x \in S : <<x, x>> \notin R
      /\ \A x, y, z \in S : <<x, y>> \in R /\ <<y, z>> \in R => <<x, z>> \in R
  <2>1. \A x, y \in S : <<x, y>> \in R <=> Value(y) < Value(x)
    OBVIOUS
  <2> HIDE DEF R
  <2>2. QED
    BY <1>1, <2>1
<1>3. \A x, y \in S : <<x, y>> \in R <=> Value(y) < Value(x)
  OBVIOUS
<1> HIDE DEF R
<1>4. PICK x \in S : \A y \in S : <<y, x>> \notin R
  BY <1>2, Unbeaten
<1>5. \A y \in S : Value(y) <= Value(x)
  <2>1. TAKE y \in S
  <2>2. ~ (Value(x) < Value(y))
    BY <1>3, <1>4
  <2>3. QED
    BY <1>1, <2>2
<1>6. QED
  BY <1>5 DEF Best

(* What is kept are choices that fit, with their use; what fits is there,   *)
(* or something of the same use that is worth as much.                      *)
Kept ==
  /\ IsFiniteSet(DOMAIN states)
  /\ \A use \in DOMAIN states : /\ states[use] \in ChoicesFor(index)
                                /\ Use(states[use]) = use /\ Within(use)

Covers ==
  \A c \in ChoicesFor(index) :
    Within(Use(c)) => Use(c) \in DOMAIN states /\ Value(c) <= Value(states[Use(c)])

AsSelected ==
  [i \in Items |-> IF i \in DOMAIN Selected THEN Selected[i]
                   ELSE IF plan[i].due /\ ~ plan[i].deferred THEN "wait" ELSE "defer"]

PlanInv ==
  /\ PlanType
  /\ index \in Nat \ {0}
  /\ index <= Cardinality(Items) + 1
  /\ Kept
  /\ Covers
  /\ decisions = <<>> \/ (index \notin Items /\ decisions = AsSelected)

(* Whoever may be served before an item may be served after it. *)
LEMMA ChoicesGrow ==
  ASSUME NEW k \in Items PROVE ChoicesFor(k) \subseteq ChoicesFor(k + 1)
<1>1. Before(k) \subseteq Before(k + 1)
  BY PlanNumbers DEF Before
<1>2. QED
  BY <1>1, ChoiceShape

(* Less is used by what is extended. *)
LEMMA AddingUses ==
  ASSUME PlanType, NEW k \in Items, NEW r \in Options, NEW use \in Nat \X Nat \X Nat \X Nat, Within(Adding(use, k, r))
  PROVE  Within(use)
<1>1. PICK a \in Nat, b \in Nat, c \in Nat, d \in Nat : use = <<a, b, c, d>>
  OBVIOUS
<1>2. Cost(k, r) \in Nat
  BY DEF Cost, COSTS, Options
<1>3. Budget \in Nat
  BY PlanNumbers DEF Budget, COSTS, PlanType
<1>4. QED
  BY <1>1, <1>2, <1>3, PlanNumbers DEF Within, Adding, PlanType

(* What is reached from the states is a choice of that use, within the      *)
(* limits.                                                                  *)
LEMMA ReachedFits ==
  ASSUME PlanInv, index \in Items, NEW s \in Reached(index)
  PROVE  s = <<s[1], s[2]>> /\ s[2] \in ChoicesFor(index + 1) /\ Use(s[2]) = s[1] /\ Within(s[1])
<1>1. CASE \E use \in DOMAIN states : s = <<use, states[use]>>
  BY <1>1, ChoicesGrow DEF PlanInv, Kept
<1>2. ASSUME plan[index].due, Within(s[1]), NEW use \in DOMAIN states, NEW r \in Options,
             s = <<Adding(use, index, r), Extended(states[use], index, r)>>
      PROVE  s = <<s[1], s[2]>> /\ s[2] \in ChoicesFor(index + 1) /\ Use(s[2]) = s[1] /\ Within(s[1])
  <2>1. states[use] \in ChoicesFor(index) /\ Use(states[use]) = use
    BY DEF PlanInv, Kept
  <2>2. PlanType
    BY DEF PlanInv
  <2>3. /\ Extended(states[use], index, r) \in ChoicesFor(index + 1)
        /\ Use(Extended(states[use], index, r)) = Adding(Use(states[use]), index, r)
    BY <1>2, <2>1, <2>2, ExtendedChoice
  <2>4. QED
    BY <1>2, <2>1, <2>3
<1>3. QED
  BY <1>1, <1>2 DEF Reached

(* And no choice within the limits, the item considered included, is worth  *)
(* more than all that is reached with its use.                              *)
LEMMA ReachedCovers ==
  ASSUME PlanInv, index \in Items, NEW c \in ChoicesFor(index + 1), Within(Use(c))
  PROVE  \E s \in Reached(index) : s[1] = Use(c) /\ Value(c) <= Value(s[2])
<1>1. CASE c \in ChoicesFor(index)
  <2>1. Use(c) \in DOMAIN states /\ Value(c) <= Value(states[Use(c)])
    BY <1>1 DEF PlanInv, Covers
  <2>2. <<Use(c), states[Use(c)]>> \in Reached(index)
    BY <2>1 DEF Reached
  <2>3. QED
    BY <2>1, <2>2
<1>2. CASE c \notin ChoicesFor(index)
  <2>1. PlanType
    BY DEF PlanInv
  <2>2. plan[index].due
    BY <1>2, <2>1, ChoiceSplits
  <2>3. PICK b \in ChoicesFor(index), r \in Options : c = Extended(b, index, r)
    BY <1>2, <2>1, ChoiceSplits
  <2>4. Value(c) = Value(b) + plan[index].estimate[r] /\ Use(c) = Adding(Use(b), index, r)
    BY <2>1, <2>2, <2>3, ExtendedChoice
  <2>5. Use(b) \in Nat \X Nat \X Nat \X Nat
    BY <2>1, UseAndValue
  <2>6. Within(Use(b))
    BY <2>1, <2>4, <2>5, AddingUses
  <2> DEFINE kept == states[Use(b)]
  <2>7. Use(b) \in DOMAIN states /\ Value(b) <= Value(kept)
    BY <2>6 DEF PlanInv, Covers
  <2>8. kept \in ChoicesFor(index) /\ Use(kept) = Use(b)
    BY <2>7 DEF PlanInv, Kept
  <2>9. Value(Extended(kept, index, r)) = Value(kept) + plan[index].estimate[r]
    BY <2>1, <2>2, <2>8, ExtendedChoice
  <2>10. <<Use(c), Extended(kept, index, r)>> \in Reached(index)
    BY <2>2, <2>4, <2>7 DEF Reached
  <2>11. Value(b) \in Nat /\ Value(kept) \in Nat /\ plan[index].estimate[r] \in Nat
    <3>1. Value(b) \in Nat /\ Value(kept) \in Nat
      BY <2>1, <2>8, UseAndValue
    <3>2. plan[index] \in DueItem
      BY <2>1, <2>2 DEF PlanType, PastItem
    <3>3. plan[index].estimate[r] \in Estimates
      BY <3>2 DEF DueItem
    <3>4. QED
      BY <3>1, <3>3, PlanNumbers
  <2>12. Value(c) <= Value(Extended(kept, index, r))
    BY <2>4, <2>7, <2>9, <2>11
  <2>13. QED
    BY <2>10, <2>12
<1>3. QED
  BY <1>1, <1>2

(* What is reached from finitely many states is finite. *)
LEMMA ReachedIsFinite ==
  ASSUME PlanInv
  PROVE  IsFiniteSet(Reached(index))
<1> DEFINE Ways == (DOMAIN states) \X Options
           Serving(w) == <<Adding(w[1], index, w[2]), Extended(states[w[1]], index, w[2])>>
           serving == [w \in Ways |-> Serving(w)]
           keeping == [use \in DOMAIN states |-> <<use, states[use]>>]
           A == {Serving(w) : w \in Ways}
           B == {<<use, states[use]>> : use \in DOMAIN states}
<1>1. IsFiniteSet(DOMAIN states) /\ IsFiniteSet(Options)
  <2>1. IsFiniteSet({}) /\ Options = (({} \cup {"cheap"}) \cup {"premium"}) \cup {"consultation"}
    BY FS_EmptySet DEF Options
  <2>2. IsFiniteSet({} \cup {"cheap"})
    BY <2>1, FS_AddElement
  <2>3. IsFiniteSet(({} \cup {"cheap"}) \cup {"premium"})
    BY <2>2, FS_AddElement
  <2>4. QED
    BY <2>1, <2>3, FS_AddElement DEF PlanInv, Kept
<1>2. IsFiniteSet(Ways)
  BY <1>1, FS_Product, Zenon
<1>3. serving \in Surjection(Ways, A)
  BY DEF Surjection
<1>4. keeping \in Surjection(DOMAIN states, B)
  BY DEF Surjection
<1>5. IsFiniteSet(A) /\ IsFiniteSet(B)
  <2> HIDE DEF Ways, A, B, serving, keeping
  <2>1. QED
    BY <1>1, <1>2, <1>3, <1>4, FS_Surjection
<1>6. Reached(index) \subseteq A \cup B
  <2>1. \A use \in DOMAIN states, r \in Options :
          <<Adding(use, index, r), Extended(states[use], index, r)>> \in A
    <3>1. TAKE use \in DOMAIN states, r \in Options
    <3> DEFINE w == <<use, r>>
    <3>2. w \in Ways /\ w[1] = use /\ w[2] = r
      OBVIOUS
    <3> HIDE DEF Ways, w
    <3>3. QED
      BY <3>2
  <2> HIDE DEF A
  <2>2. QED
    BY <2>1 DEF Reached
<1>7. QED
  <2> HIDE DEF A, B
  <2>1. IsFiniteSet(A \cup B)
    BY <1>5, FS_Union
  <2>2. QED
    BY <1>6, <2>1, FS_Subset

(* The choices that are reached with one use, from which the best is kept.  *)
Reaching(use) == {s[2] : s \in {t \in Reached(index) : t[1] = use}}
Uses          == {s[1] : s \in Reached(index)}

(* The uses reached are finitely many, each with at least one choice, and   *)
(* finitely many, to take the best of.                                      *)
LEMMA ReachingIsFinite ==
  ASSUME PlanInv, index \in Items
  PROVE  /\ IsFiniteSet(Uses)
         /\ \A use \in Uses : /\ IsFiniteSet(Reaching(use)) /\ Reaching(use) # {}
                              /\ Reaching(use) \subseteq ChoicesFor(index + 1)
                              /\ \A c \in Reaching(use) : Use(c) = use /\ Within(use)
<1> DEFINE R == Reached(index)
<1>1. IsFiniteSet(R)
  BY ReachedIsFinite
<1>2. IsFiniteSet(Uses)
  <2> DEFINE first == [s \in R |-> s[1]]
  <2>1. first \in Surjection(R, Uses)
    BY DEF Surjection, Uses
  <2> HIDE DEF first, R
  <2>2. QED
    BY <1>1, <2>1, FS_Surjection
<1>3. ASSUME NEW use \in Uses
      PROVE  /\ IsFiniteSet(Reaching(use)) /\ Reaching(use) # {}
             /\ Reaching(use) \subseteq ChoicesFor(index + 1)
             /\ \A c \in Reaching(use) : Use(c) = use /\ Within(use)
  <2> DEFINE T == {t \in R : t[1] = use}
             second == [s \in T |-> s[2]]
  <2>1. IsFiniteSet(T)
    BY <1>1, FS_Subset
  <2>2. second \in Surjection(T, Reaching(use))
    BY DEF Surjection, Reaching
  <2>3. IsFiniteSet(Reaching(use))
    <3> HIDE DEF T, second
    <3>1. QED
      BY <2>1, <2>2, FS_Surjection
  <2>4. \A c \in Reaching(use) : c \in ChoicesFor(index + 1) /\ Use(c) = use /\ Within(use)
    <3>1. TAKE c \in Reaching(use)
    <3>2. PICK s \in Reached(index) : s[1] = use /\ s[2] = c
      BY DEF Reaching
    <3>3. QED
      BY <3>2, ReachedFits
  <2>5. Reaching(use) # {}
    BY DEF Reaching, Uses
  <2>6. QED
    BY <2>3, <2>4, <2>5
<1>4. QED
  BY <1>2, <1>3

(* The items stay as they are. *)
LEMMA ChoicesStay ==
  ASSUME UNCHANGED <<plan, headroom, collapsed>>
  PROVE  /\ PlanType' <=> PlanType
         /\ \A k : ChoicesFor(k)' = ChoicesFor(k)
         /\ \A c : Value(c)' = Value(c) /\ Use(c)' = Use(c)
         /\ \A use : Within(use)' = Within(use)
<1>1. plan' = plan /\ headroom' = headroom /\ collapsed' = collapsed
  OBVIOUS
<1>2. \A k : ChoicesFor(k)' = ChoicesFor(k)
  BY <1>1 DEF ChoicesFor, Before
<1>3. \A c : Value(c)' = Value(c) /\ Use(c)' = Use(c)
  <2>1. SumsAgree /\ SumsAgree'
    BY AreSums, PTL
  <2>2. \A c : Yields(c)' = Yields(c) /\ Costs(c)' = Costs(c) /\ Reviews(c)' = Reviews(c)
    BY <1>1 DEF Yields, Costs, Cost, Reviews
  <2>3. QED
    BY <2>1, <2>2 DEF SumsAgree
<1>5. \A use : Within(use)' = Within(use)
  BY <1>1 DEF Within, Budget
<1>6. QED
  BY <1>2, <1>3, <1>5 DEF PlanType

(* One item more: the states remain the best of the choices so far. *)
LEMMA ConsiderKeeps ==
  ASSUME PlanInv, Consider PROVE PlanInv'
<1> USE DEF Consider
<1>1. PlanType /\ PlanType' /\ index \in Items /\ index \in Nat /\ index' = index + 1
  BY PlanNumbers DEF PlanInv, PlanType
<1>2. index' \in Nat \ {0} /\ index' <= Cardinality(Items) + 1
  BY <1>1, PlanNumbers
<1>3. /\ \A k : ChoicesFor(k)' = ChoicesFor(k) /\ \A c : Value(c)' = Value(c) /\ Use(c)' = Use(c)
      /\ \A use : Within(use)' = Within(use)
  BY ChoicesStay
<1>4. states' = [use \in Uses |-> Best(Reaching(use))]
  BY DEF Uses, Reaching
<1>5. \A use \in Uses : /\ Best(Reaching(use)) \in Reaching(use)
                        /\ \A d \in Reaching(use) : Value(d) <= Value(Best(Reaching(use)))
  BY <1>1, ReachingIsFinite, BestIsBest
<1>6. \A use \in DOMAIN states' : /\ states'[use] \in ChoicesFor(index + 1)
                                  /\ Use(states'[use]) = use /\ Within(use)
  BY <1>1, <1>4, <1>5, ReachingIsFinite
<1>7. ASSUME NEW c \in ChoicesFor(index + 1), Within(Use(c))
      PROVE  Use(c) \in DOMAIN states' /\ Value(c) <= Value(states'[Use(c)])
  <2>1. PICK s \in Reached(index) : s[1] = Use(c) /\ Value(c) <= Value(s[2])
    BY <1>1, <1>7, ReachedCovers
  <2>2. Use(c) \in Uses /\ s[2] \in Reaching(Use(c))
    BY <2>1 DEF Uses, Reaching
  <2>3. Value(s[2]) <= Value(states'[Use(c)])
    BY <1>4, <1>5, <2>2
  <2>4. Value(c) \in Nat /\ Value(s[2]) \in Nat /\ Value(states'[Use(c)]) \in Nat
    BY <1>1, <1>4, <1>6, <2>2, ReachedFits, UseAndValue
  <2>5. QED
    BY <1>4, <2>1, <2>2, <2>3, <2>4
<1>8. Kept'
  BY <1>1, <1>3, <1>4, <1>6, ReachingIsFinite DEF Kept
<1>9. Covers'
  BY <1>1, <1>3, <1>7 DEF Covers
<1>10. decisions' = <<>>
  BY <1>1 DEF PlanInv
<1>11. QED
  BY <1>1, <1>2, <1>8, <1>9, <1>10 DEF PlanInv

(* To choose nothing is a choice, and uses nothing. *)
LEMMA NothingChosen ==
  ASSUME PlanType, NEW k
  PROVE  /\ <<>> \in ChoicesFor(k) /\ Use(<<>>) = Nothing /\ Within(Nothing)
         /\ \A c \in ChoicesFor(k) : DOMAIN c = {} => c = <<>>
<1>1. DOMAIN <<>> = {} /\ <<>> \in [{} -> Options]
  OBVIOUS
<1>2. <<>> \in ChoicesFor(k)
  BY <1>1, ChoiceShape
<1>3. \A c \in ChoicesFor(k) : DOMAIN c = {} => c = <<>>
  <2>1. TAKE c \in ChoicesFor(k)
  <2>2. HAVE DOMAIN c = {}
  <2>3. c \in [{} -> Options]
    BY <2>2, ChoiceShape
  <2>4. QED
    BY <1>1, <2>3
<1>4. Use(<<>>) = <<0, 0, 0, 0>>
  <2>1. Use(<<>>) = <<Total({}, Costs(<<>>)), Cardinality(Taking(<<>>, "premium")),
                      Cardinality(Taking(<<>>, "consultation")), Cardinality(Reviews(<<>>))>>
    BY <1>1, <1>2, UseAndValue
  <2>2. Reviews(<<>>) = {} /\ \A r : Taking(<<>>, r) = {}
    BY <1>1 DEF Reviews, Taking
  <2>3. QED
    BY <2>1, <2>2, TotalEmpty, FS_EmptySet
<1>5. Within(<<0, 0, 0, 0>>)
  <2>1. Budget \in Nat
    BY PlanNumbers DEF Budget, COSTS, PlanType
  <2>2. QED
    BY <2>1, PlanNumbers DEF Within
<1>6. QED
  BY <1>2, <1>3, <1>4, <1>5 DEF Nothing

(* Before the first item there is the empty choice. *)
LEMMA PlanStarts ==
  ASSUME CentralInit PROVE PlanInv
<1>1. PlanType
  BY PlanNumbers DEF CentralInit, PlanType
<1>2. index = 1 /\ decisions = <<>> /\ DOMAIN states = {Nothing} /\ states[Nothing] = <<>>
  BY DEF CentralInit
<1>3. Before(1) = {}
  BY PlanNumbers DEF Before
<1>4. \A c \in ChoicesFor(1) : c = <<>>
  BY <1>1, <1>3, ChoiceShape, NothingChosen
<1>5. Kept
  <2>1. <<>> \in ChoicesFor(index) /\ Use(<<>>) = Nothing /\ Within(Nothing)
    BY <1>1, NothingChosen
  <2>2. IsFiniteSet({Nothing})
    BY FS_Singleton
  <2>3. QED
    BY <1>2, <2>1, <2>2 DEF Kept
<1>6. Covers
  <2>1. ASSUME NEW c \in ChoicesFor(index), Within(Use(c))
        PROVE  Use(c) \in DOMAIN states /\ Value(c) <= Value(states[Use(c)])
    <3>1. c = <<>> /\ Use(c) = Nothing
      BY <1>1, <1>2, <1>4, NothingChosen
    <3>2. Value(c) \in Nat
      BY <1>1, UseAndValue
    <3>3. QED
      BY <1>2, <3>1, <3>2
  <2>2. QED
    BY <2>1 DEF Covers
<1>7. QED
  BY <1>1, <1>2, <1>5, <1>6, PlanNumbers DEF PlanInv

(* The decisions are those of the state selected. *)
LEMMA DecideKeeps ==
  ASSUME PlanInv, Decide PROVE PlanInv'
<1> USE DEF Decide
<1>1. UNCHANGED <<plan, headroom, collapsed, states, index>> /\ index \notin Items
  OBVIOUS
<1>2. decisions' = AsSelected /\ AsSelected' = AsSelected
  <2>1. decisions' = AsSelected
    BY DEF AsSelected
  <2>2. Selected' = Selected
    BY <1>1, ChoicesStay DEF Selected, Better
  <2>3. QED
    BY <1>1, <2>1, <2>2 DEF AsSelected
<1>3. Kept' /\ Covers'
  BY <1>1, ChoicesStay DEF PlanInv, Kept, Covers
<1>4. QED
  BY <1>1, <1>2, <1>3, ChoicesStay DEF PlanInv

(* Of the choices that are kept, one is selected that none is better than.  *)
LEMMA SelectedIsBest ==
  ASSUME PlanInv
  PROVE  \E use \in DOMAIN states : /\ Selected = states[use]
                                    /\ \A other \in DOMAIN states : Better(use, other)
<1> DEFINE S == DOMAIN states
           worth(u) == Value(states[u])
           R == {p \in S \X S : worth(p[2]) < worth(p[1]) \/ (worth(p[1]) = worth(p[2]) /\ p[1][1] < p[2][1])}
<1>1. PlanType /\ IsFiniteSet(S) /\ \A u \in S : states[u] \in ChoicesFor(index) /\ Use(states[u]) = u /\ Within(u)
  BY DEF PlanInv, Kept
<1>2. \A u \in S : worth(u) \in Nat /\ u[1] \in Nat
  BY <1>1, UseAndValue
<1>3. S # {}
  <2>1. <<>> \in ChoicesFor(index) /\ Within(Use(<<>>))
    BY <1>1, NothingChosen
  <2>2. QED
    BY <2>1 DEF PlanInv, Covers
<1>4. \A x, y \in S : <<x, y>> \in R <=> worth(y) < worth(x) \/ (worth(x) = worth(y) /\ x[1] < y[1])
  OBVIOUS
<1> HIDE DEF R, S, worth
<1>5. /\ \A x \in S : <<x, x>> \notin R
      /\ \A x, y, z \in S : <<x, y>> \in R /\ <<y, z>> \in R => <<x, z>> \in R
  BY <1>2, <1>4
<1>6. PICK use \in S : \A y \in S : <<y, use>> \notin R
  BY <1>1, <1>3, <1>5, Unbeaten
<1>7. \A other \in S : Better(use, other)
  <2>1. TAKE other \in S
  <2>2. ~ (worth(use) < worth(other) \/ (worth(other) = worth(use) /\ other[1] < use[1]))
    BY <1>4, <1>6
  <2>3. worth(other) < worth(use) \/ (worth(other) = worth(use) /\ use[1] <= other[1])
    BY <1>2, <2>2
  <2>4. QED
    BY <2>3 DEF Better, worth
<1>8. QED
  BY <1>6, <1>7 DEF Selected, S

(* And they are read back as the choice they come from. *)
LEMMA PlanSelected ==
  ASSUME PlanInv, decisions # <<>>
  PROVE  /\ Alternatives = ChoicesFor(index)
         /\ Decided = Selected
         /\ Selected \in ChoicesFor(index)
<1>1. index \notin Items /\ decisions = AsSelected
  BY DEF PlanInv
<1>2. \A i \in Items : i < index
  BY <1>1, PlanNumbers DEF PlanInv
<1>3. Alternatives = ChoicesFor(index)
  <2>1. Before(index) = {i \in Items : plan[i].due}
    BY <1>2 DEF Before
  <2>2. QED
    BY <2>1 DEF Alternatives, ChoicesFor
<1>4. Selected \in ChoicesFor(index)
  BY SelectedIsBest DEF PlanInv, Kept
<1>5. DOMAIN Selected \subseteq Items /\ Selected \in [DOMAIN Selected -> Options]
  BY <1>4, ChoiceShape DEF Before
<1>6. \A i \in Items : /\ i \in DOMAIN Selected => decisions[i] = Selected[i]
                       /\ decisions[i] \in Options <=> i \in DOMAIN Selected
  BY <1>1, <1>5 DEF AsSelected, Options
<1>7. Decided = Selected
  BY <1>5, <1>6 DEF Decided
<1>8. QED
  BY <1>3, <1>4, <1>7

(* What serves an item costs something. *)
LEMMA ServingCosts ==
  ASSUME PlanType, NEW k, NEW c \in ChoicesFor(k), DOMAIN c # {}
  PROVE  Use(c)[1] > 0
<1>1. PICK i \in DOMAIN c : TRUE
  OBVIOUS
<1>2. i \in Items /\ c[i] \in Options
  BY ChoiceShape DEF Before
<1>3. Costs(c)[i] \in Nat /\ Costs(c)[i] > 0
  BY <1>2 DEF Costs, Cost, COSTS, Options
<1>4. Total({i}, Costs(c)) = Costs(c)[i]
  BY <1>3, TotalSingleton
<1>5. /\ IsFiniteSet(DOMAIN c) /\ {i} \in SUBSET DOMAIN c
      /\ \A j \in DOMAIN c : Costs(c)[j] \in Nat
  BY ChoiceTypes
<1>6. Total({i}, Costs(c)) <= Total(DOMAIN c, Costs(c)) /\ Total(DOMAIN c, Costs(c)) \in Nat
  BY <1>5, TotalRemove, TotalType
<1>7. Use(c)[1] = Total(DOMAIN c, Costs(c))
  BY UseAndValue
<1>8. QED
  BY <1>3, <1>4, <1>6, <1>7

(* When every item is considered, the best state is the best choice. *)
LEMMA PlanInvIsExact ==
  ASSUME PlanInv PROVE PlanIsExact
<1>1. SUFFICES ASSUME decisions # <<>>
               PROVE  /\ \A c \in Alternatives :
                           Within(Use(c)) => \/ Value(c) < Value(Decided)
                                             \/ Value(c) = Value(Decided) /\ Use(Decided)[1] <= Use(c)[1]
                      /\ Within(Use(Decided))
                      /\ DOMAIN Decided # {} => Cardinality(Items) * COSTS.planning + Use(Decided)[1] <= headroom
  BY DEF PlanIsExact
<1>2. /\ PlanType /\ Alternatives = ChoicesFor(index) /\ Decided = Selected
      /\ Selected \in ChoicesFor(index)
  BY <1>1, PlanSelected DEF PlanInv
<1>3. PICK use \in DOMAIN states : /\ Selected = states[use]
                                   /\ \A other \in DOMAIN states : Better(use, other)
  BY SelectedIsBest
<1>4. Use(Decided) = use /\ Within(use) /\ Value(Decided) \in Nat /\ use[1] \in Nat
  BY <1>2, <1>3, UseAndValue DEF PlanInv, Kept
<1>5. ASSUME NEW c \in Alternatives, Within(Use(c))
      PROVE  \/ Value(c) < Value(Decided)
             \/ Value(c) = Value(Decided) /\ Use(Decided)[1] <= Use(c)[1]
  <2>1. Use(c) \in DOMAIN states /\ Value(c) <= Value(states[Use(c)])
    BY <1>2, <1>5 DEF PlanInv, Covers
  <2>2. Better(use, Use(c))
    BY <1>3, <2>1
  <2>3. \/ Value(states[Use(c)]) < Value(Decided)
        \/ Value(states[Use(c)]) = Value(Decided) /\ use[1] <= Use(c)[1]
    BY <1>2, <1>3, <2>2 DEF Better
  <2>4. Value(c) \in Nat /\ Value(states[Use(c)]) \in Nat
    BY <1>2, <2>1, UseAndValue DEF PlanInv, Kept
  <2>5. QED
    BY <1>4, <2>1, <2>3, <2>4
<1>6. ASSUME DOMAIN Decided # {}
      PROVE  Cardinality(Items) * COSTS.planning + Use(Decided)[1] <= headroom
  <2>1. use[1] > 0
    BY <1>2, <1>4, <1>6, ServingCosts
  <2>2. use[1] <= Budget
    BY <1>4 DEF Within
  <2>3. headroom \in Nat /\ Cardinality(Items) \in Nat
    BY <1>2, PlanNumbers DEF PlanType
  <2>4. QED
    BY <1>4, <2>1, <2>2, <2>3 DEF Budget, COSTS
<1>7. QED
  BY <1>4, <1>5, <1>6

(* "Exact tick-local multiple-choice knapsack" (Engine._central_plan): for  *)
(* any number of items, any estimates, headroom and capacities, no choice   *)
(* within the budget and the capacities is worth more than the decisions,   *)
(* and none that is worth as much costs less; and the account pays for      *)
(* planning and for what is decided on.                                     *)
THEOREM PlanIsAlwaysExact ==
  CentralSpec => []PlanIsExact
<1>1. CentralInit => PlanInv
  BY PlanStarts
<1>2. PlanInv /\ [CentralNext]_centralVars => PlanInv'
  <2>1. SUFFICES ASSUME PlanInv, [CentralNext]_centralVars PROVE PlanInv'
    OBVIOUS
  <2>2. CASE Consider
    BY <2>1, <2>2, ConsiderKeeps
  <2>3. CASE Decide
    BY <2>1, <2>3, DecideKeeps
  <2>4. CASE UNCHANGED centralVars
    <3>1. UNCHANGED <<plan, headroom, collapsed, states, index, decisions>>
      BY <2>4 DEF centralVars
    <3>2. Kept' /\ Covers' /\ AsSelected' = AsSelected
      <4>1. Kept' /\ Covers'
        BY <2>1, <3>1, ChoicesStay DEF PlanInv, Kept, Covers
      <4>2. Selected' = Selected
        <5>1. \A c : Value(c)' = Value(c)
          BY <3>1, ChoicesStay
        <5>2. states' = states
          BY <3>1
        <5>3. \A use, other : Better(use, other)' <=> Better(use, other)
          BY <5>1, <5>2 DEF Better
        <5>4. QED
          BY <5>2, <5>3 DEF Selected
      <4>3. AsSelected' = AsSelected
        BY <3>1, <4>2 DEF AsSelected
      <4>4. QED
        BY <4>1, <4>3
    <3>3. QED
      BY <2>1, <3>1, <3>2, ChoicesStay DEF PlanInv
  <2>5. QED
    BY <2>1, <2>2, <2>3, <2>4 DEF CentralNext
<1>3. PlanInv => PlanIsExact
  BY PlanInvIsExact
<1>4. QED
  BY <1>1, <1>2, <1>3, PTL DEF CentralSpec

-----------------------------------------------------------------------------
(* The studies *)

(* What there is of three persons is counted by cases. *)
LEMMA OverPersons ==
  ASSUME NEW f \in [Persons -> Int]
  PROVE  Over(f) = f[0] + f[1] + f[2]
<1> DEFINE g == [s \in SUBSET Persons |-> (IF 0 \in s THEN f[0] ELSE 0) + (IF 1 \in s THEN f[1] ELSE 0)
                                          + (IF 2 \in s THEN f[2] ELSE 0)]
<1>1. DOMAIN f = {0, 1, 2} /\ Persons = {0, 1, 2}
  BY DEF Persons
<1>2. f[0] \in Int /\ f[1] \in Int /\ f[2] \in Int
  BY <1>1
<1>3. ASSUME NEW s \in SUBSET Persons, NEW x \in s
      PROVE  g[s] = f[x] + g[s \ {x}]
  <2>1. s \ {x} \in SUBSET Persons /\ (x = 0 \/ x = 1 \/ x = 2)
    BY <1>1
  <2>2. QED
    BY <2>1, <1>2
<1>4. SumsUp(f, g)
  <2>1. {} \in SUBSET Persons /\ g[{}] = 0
    OBVIOUS
  <2>2. QED
    BY <1>1, <1>3, <2>1 DEF SumsUp
<1>5. g[Persons] = f[0] + f[1] + f[2]
  BY <1>1, <1>2
<1> HIDE DEF g
<1>6. IsFiniteSet(DOMAIN f)
  <2>1. DOMAIN f = 0 .. 2 /\ 0 \in Int /\ 2 \in Int
    BY DEF Persons
  <2>2. IsFiniteSet(0 .. 2)
    BY <2>1, FS_Interval, Zenon
  <2>3. QED
    BY <2>1, <2>2
<1>7. Sum(f) = g[DOMAIN f]
  BY <1>4, <1>6, FoldUnique
<1>8. Over(f) = Sum(f)
  BY DEF Over, Sum
<1>9. QED
  BY <1>5, <1>7, <1>8

Numbers ==
  /\ Rounds \in Nat /\ Rounds # 0
  /\ PREMIUM_CAPACITY \in Nat /\ CONSULTATION_CAPACITY \in Nat /\ MANDATORY_CAPACITY \in Nat
  /\ BID_COST \in Nat /\ ENDOWMENT \in Nat /\ REPORT_COST \in Nat
  /\ Strategies \subseteq {"unshaded", "shade", "overstate", "hoard"}
  /\ SIGNAL_QUALITY \in Int /\ PROVIDER_RELIABILITY \in Int /\ REPORT_NOISE \in Int

(* What is assumed of the constants, in the form in which it is used. *)
LEMMA StudyNumbers == Numbers
BY StudyAssumption, ReportingAssumption DEF Numbers

Tariff(prices) ==
  prices \in [Persons -> [Resources -> Nat]] /\ \A i \in Persons : prices[i]["defer"] = 0

(* No price is negative, and deferring is free. *)
LEMMA OutlayType ==
  ASSUME Tariff(study.prices), NEW i \in Persons, NEW r \in Nat
  PROVE  /\ \A resource \in Resources : Outlay(i, r, resource) \in Nat
         /\ Outlay(i, r, "defer") = 0
BY DEF Tariff, Outlay, Resources

Servings == [Persons -> Resources]

(* A bill is the sum of what the three persons are served. *)
LEMMA BillIs ==
  ASSUME Tariff(study.prices), NEW r \in Nat, NEW choices \in Servings
  PROVE  /\ Bill(r, choices) = Outlay(0, r, choices[0]) + Outlay(1, r, choices[1]) + Outlay(2, r, choices[2])
         /\ Bill(r, choices) \in Nat
<1> DEFINE f == [i \in Persons |-> Outlay(i, r, choices[i])]
<1>1. 0 \in Persons /\ 1 \in Persons /\ 2 \in Persons
  BY DEF Persons
<1>2. \A i \in Persons : f[i] \in Nat
  BY OutlayType DEF Servings
<1>3. f \in [Persons -> Int]
  BY <1>2
<1>4. Bill(r, choices) = Over(f)
  BY DEF Bill
<1> HIDE DEF f
<1>5. Over(f) = f[0] + f[1] + f[2]
  BY <1>3, OverPersons
<1>6. f[0] \in Nat /\ f[1] \in Nat /\ f[2] \in Nat
  BY <1>1, <1>2
<1>7. f[0] = Outlay(0, r, choices[0]) /\ f[1] = Outlay(1, r, choices[1]) /\ f[2] = Outlay(2, r, choices[2])
  BY <1>1 DEF f
<1>8. QED
  BY <1>4, <1>5, <1>6, <1>7

(* Serving one person more costs at most the outlay for it. *)
LEMMA BillServed ==
  ASSUME Tariff(study.prices), NEW r \in Nat, NEW choices \in Servings, NEW i \in Persons, NEW resource \in Resources
  PROVE  /\ [choices EXCEPT ![i] = resource] \in Servings
         /\ Bill(r, [choices EXCEPT ![i] = resource]) <= Bill(r, choices) + Outlay(i, r, resource)
<1> DEFINE after == [choices EXCEPT ![i] = resource]
<1>1. after \in Servings
  BY DEF Servings
<1>2. /\ 0 \in Persons /\ 1 \in Persons /\ 2 \in Persons /\ (i = 0 \/ i = 1 \/ i = 2)
      /\ choices[0] \in Resources /\ choices[1] \in Resources /\ choices[2] \in Resources
  BY DEF Persons, Servings
<1>3. \A j \in Persons : after[j] = IF j = i THEN resource ELSE choices[j]
  BY DEF Servings
<1>4. /\ Outlay(0, r, choices[0]) \in Nat /\ Outlay(1, r, choices[1]) \in Nat /\ Outlay(2, r, choices[2]) \in Nat
      /\ Outlay(i, r, resource) \in Nat
  BY <1>2, OutlayType
<1> HIDE DEF after
<1>5. Bill(r, after) = Outlay(0, r, after[0]) + Outlay(1, r, after[1]) + Outlay(2, r, after[2])
  BY <1>1, BillIs
<1>6. Bill(r, choices) = Outlay(0, r, choices[0]) + Outlay(1, r, choices[1]) + Outlay(2, r, choices[2])
  BY BillIs
<1>7. CASE i = 0
  <2>1. after[0] = resource /\ after[1] = choices[1] /\ after[2] = choices[2]
    BY <1>2, <1>3, <1>7
  <2>2. QED
    BY <1>1, <1>4, <1>5, <1>6, <1>7, <2>1 DEF after
<1>8. CASE i = 1
  <2>1. after[0] = choices[0] /\ after[1] = resource /\ after[2] = choices[2]
    BY <1>2, <1>3, <1>8
  <2>2. QED
    BY <1>1, <1>4, <1>5, <1>6, <1>8, <2>1 DEF after
<1>9. CASE i = 2
  <2>1. after[0] = choices[0] /\ after[1] = choices[1] /\ after[2] = resource
    BY <1>2, <1>3, <1>9
  <2>2. QED
    BY <1>1, <1>4, <1>5, <1>6, <1>9, <2>1 DEF after
<1>10. QED
  BY <1>2, <1>7, <1>8, <1>9

-----------------------------------------------------------------------------
(* Sets of persons *)

(* All sets of them are finite. *)
LEMMA PersonsAreThree ==
  /\ IsFiniteSet(Persons) /\ Persons = {0, 1, 2}
  /\ \A S \in SUBSET Persons : IsFiniteSet(S) /\ Cardinality(S) \in Nat
<1>1. IsFiniteSet(0 .. 2) /\ 0 .. 2 = {0, 1, 2}
  <2>1. 0 \in Int /\ 2 \in Int /\ 0 .. 2 = {0, 1, 2}
    OBVIOUS
  <2>2. IsFiniteSet(0 .. 2)
    BY <2>1, FS_Interval, Zenon
  <2>3. QED
    BY <2>1, <2>2
<1>2. IsFiniteSet(Persons) /\ Persons = {0, 1, 2}
  BY <1>1 DEF Persons
<1>3. ASSUME NEW S \in SUBSET Persons PROVE IsFiniteSet(S) /\ Cardinality(S) \in Nat
  BY <1>2, FS_Subset, FS_CardinalityType
<1>4. QED
  BY <1>2, <1>3

(* Deferring everyone is feasible, and free. *)
LEMMA NobodyServed ==
  ASSUME NEW r \in Nat
  PROVE  Deferred \in Servings /\ Feasible(r, Deferred) /\ (Tariff(study.prices) => Bill(r, Deferred) = 0)
<1>1. Deferred \in Servings /\ \A i \in Persons : Deferred[i] = "defer"
  BY DEF Deferred, Servings, Resources
<1>2. /\ Takers(Deferred, "premium") = {} /\ Takers(Deferred, "consultation") = {}
      /\ Takers(Deferred, "defer") = Persons /\ Reviewed(r, Deferred) = {}
  BY <1>1 DEF Takers, Reviewed
<1>3. Feasible(r, Deferred)
  BY <1>2, FS_EmptySet, StudyNumbers DEF Feasible, Numbers
<1>4. ASSUME Tariff(study.prices) PROVE Bill(r, Deferred) = 0
  <2>1. 0 \in Persons /\ 1 \in Persons /\ 2 \in Persons
    BY DEF Persons
  <2>2. Outlay(0, r, "defer") = 0 /\ Outlay(1, r, "defer") = 0 /\ Outlay(2, r, "defer") = 0
    BY <1>4, <2>1, OutlayType
  <2>3. Bill(r, Deferred) = Outlay(0, r, Deferred[0]) + Outlay(1, r, Deferred[1]) + Outlay(2, r, Deferred[2])
    BY <1>1, <1>4, BillIs
  <2>4. QED
    BY <1>1, <2>1, <2>2, <2>3
<1>5. QED
  BY <1>1, <1>3, <1>4

(* One person more is served within the capacities if there is room for it. *)
LEMMA ServedFeasible ==
  ASSUME NEW r \in Nat, NEW choices \in Servings, Feasible(r, choices),
         NEW i \in ReviewEligible(r), NEW resource \in Resources,
         resource = "premium" => Cardinality(Takers(choices, "premium")) < PREMIUM_CAPACITY,
         resource = "consultation" => Cardinality(Takers(choices, "consultation")) < CONSULTATION_CAPACITY,
         Mandatory(i, r) => Cardinality(Reviewed(r, choices)) < MANDATORY_CAPACITY
  PROVE  Feasible(r, [choices EXCEPT ![i] = resource])
<1> DEFINE after == [choices EXCEPT ![i] = resource]
<1>1. i \in Persons /\ after \in Servings /\ \A j \in Persons : after[j] = IF j = i THEN resource ELSE choices[j]
  BY DEF ReviewEligible, Servings
<1>2. ASSUME NEW S \in SUBSET Persons, NEW T \in SUBSET Persons, NEW n \in Nat, Cardinality(S) <= n,
             T \subseteq S \/ (T \subseteq S \cup {i} /\ Cardinality(S) < n)
      PROVE  Cardinality(T) <= n
  <2>1. IsFiniteSet(S) /\ Cardinality(S) \in Nat /\ Cardinality(T) \in Nat
    BY PersonsAreThree
  <2>2. IsFiniteSet(S \cup {i}) /\ Cardinality(S \cup {i}) <= Cardinality(S) + 1 /\ Cardinality(S \cup {i}) \in Nat
    <3>1. /\ IsFiniteSet(S \cup {i})
          /\ Cardinality(S \cup {i}) = IF i \in S THEN Cardinality(S) ELSE Cardinality(S) + 1
      BY <2>1, FS_AddElement
    <3>2. QED
      BY <2>1, <3>1
  <2>3. T \subseteq S => Cardinality(T) <= Cardinality(S)
    BY <2>1, FS_Subset
  <2>4. T \subseteq S \cup {i} => Cardinality(T) <= Cardinality(S \cup {i})
    BY <2>2, FS_Subset
  <2>5. QED
    BY <1>2, <2>1, <2>2, <2>3, <2>4
<1>3. ASSUME NEW q, NEW n \in Nat, Cardinality(Takers(choices, q)) <= n,
             resource = q => Cardinality(Takers(choices, q)) < n
      PROVE  Cardinality(Takers(after, q)) <= n
  <2>1. Takers(choices, q) \in SUBSET Persons /\ Takers(after, q) \in SUBSET Persons
    BY DEF Takers
  <2>2. /\ Takers(after, q) \subseteq Takers(choices, q) \cup {i}
        /\ resource # q => Takers(after, q) \subseteq Takers(choices, q)
    BY <1>1 DEF Takers
  <2>3. QED
    BY <1>2, <1>3, <2>1, <2>2
<1>4. Cardinality(Reviewed(r, after)) <= MANDATORY_CAPACITY
  <2>1. Reviewed(r, choices) \in SUBSET Persons /\ Reviewed(r, after) \in SUBSET Persons
    BY DEF Reviewed
  <2>2. /\ Reviewed(r, after) \subseteq Reviewed(r, choices) \cup {i}
        /\ ~ Mandatory(i, r) => Reviewed(r, after) \subseteq Reviewed(r, choices)
    BY <1>1 DEF Reviewed
  <2>3. Cardinality(Reviewed(r, choices)) <= MANDATORY_CAPACITY
    BY DEF Feasible
  <2>4. QED
    BY <1>2, <2>1, <2>2, <2>3, StudyNumbers DEF Numbers
<1>5. Persons \ Takers(after, "defer") \subseteq ReviewEligible(r)
  <2>1. Persons \ Takers(after, "defer") \subseteq (Persons \ Takers(choices, "defer")) \cup {i}
    BY <1>1 DEF Takers
  <2>2. QED
    BY <2>1 DEF Feasible
<1>6. /\ Cardinality(Takers(after, "premium")) <= PREMIUM_CAPACITY
      /\ Cardinality(Takers(after, "consultation")) <= CONSULTATION_CAPACITY
  BY <1>3, StudyNumbers DEF Feasible, Numbers
<1>7. QED
  BY <1>4, <1>5, <1>6 DEF Feasible

-----------------------------------------------------------------------------
(* An order without ties puts some of the persons in a row. *)
Strict(S, R) ==
  /\ \A i \in S : <<i, i>> \notin R
  /\ \A i, j \in S : i # j => <<i, j>> \in R \/ <<j, i>> \in R
  /\ \A i, j, k \in S : <<i, j>> \in R /\ <<j, k>> \in R => <<i, k>> \in R

LEMMA RowOfTwo ==
  ASSUME NEW S, NEW R, Strict(S, R), NEW a \in S, NEW b \in S, a # b, S = {a, b}
  PROVE  \E q \in [1 .. 2 -> S] : \A m, n \in 1 .. 2 : m < n => <<q[m], q[n]>> \in R
<1>1. ASSUME NEW x \in S, NEW y \in S, <<x, y>> \in R
      PROVE  \E q \in [1 .. 2 -> S] : \A m, n \in 1 .. 2 : m < n => <<q[m], q[n]>> \in R
  <2> DEFINE q == [m \in 1 .. 2 |-> IF m = 1 THEN x ELSE y]
  <2>1. q \in [1 .. 2 -> S] /\ q[1] = x /\ q[2] = y
    OBVIOUS
  <2>2. \A m, n \in 1 .. 2 : m < n => m = 1 /\ n = 2
    OBVIOUS
  <2> HIDE DEF q
  <2>3. QED
    BY <1>1, <2>1, <2>2
<1>2. <<a, b>> \in R \/ <<b, a>> \in R
  BY DEF Strict
<1>3. QED
  BY <1>1, <1>2

LEMMA RowOfThree ==
  ASSUME NEW S, NEW R, Strict(S, R), NEW a \in S, NEW b \in S, NEW c \in S,
         a # b, a # c, b # c, S = {a, b, c}
  PROVE  \E q \in [1 .. 3 -> S] : \A m, n \in 1 .. 3 : m < n => <<q[m], q[n]>> \in R
<1>1. ASSUME NEW x \in S, NEW y \in S, NEW z \in S, <<x, y>> \in R, <<y, z>> \in R
      PROVE  \E q \in [1 .. 3 -> S] : \A m, n \in 1 .. 3 : m < n => <<q[m], q[n]>> \in R
  <2> DEFINE q == [m \in 1 .. 3 |-> IF m = 1 THEN x ELSE IF m = 2 THEN y ELSE z]
  <2>1. q \in [1 .. 3 -> S] /\ q[1] = x /\ q[2] = y /\ q[3] = z
    OBVIOUS
  <2>2. \A m, n \in 1 .. 3 : m < n => (m = 1 /\ n = 2) \/ (m = 1 /\ n = 3) \/ (m = 2 /\ n = 3)
    OBVIOUS
  <2>3. <<x, z>> \in R
    BY <1>1 DEF Strict
  <2> HIDE DEF q
  <2>4. QED
    BY <1>1, <2>1, <2>2, <2>3
<1>2. /\ <<a, b>> \in R \/ <<b, a>> \in R
      /\ <<a, c>> \in R \/ <<c, a>> \in R
      /\ <<b, c>> \in R \/ <<c, b>> \in R
  BY DEF Strict
<1>3. \/ <<a, b>> \in R /\ <<b, c>> \in R
      \/ <<a, c>> \in R /\ <<c, b>> \in R
      \/ <<b, a>> \in R /\ <<a, c>> \in R
      \/ <<b, c>> \in R /\ <<c, a>> \in R
      \/ <<c, a>> \in R /\ <<a, b>> \in R
      \/ <<c, b>> \in R /\ <<b, a>> \in R
  BY <1>2 DEF Strict
<1>4. QED
  BY <1>1, <1>3, Zenon

(* By any strict and total order, persons can be put in a row. *)
LEMMA RowExists ==
  ASSUME NEW S \in SUBSET Persons, NEW R, Strict(S, R)
  PROVE  \E q \in [1 .. Cardinality(S) -> S] : \A m, n \in DOMAIN q : m < n => <<q[m], q[n]>> \in R
<1>1. Persons = {0, 1, 2}
  BY PersonsAreThree
<1>2. CASE S = {}
  <2>1. Cardinality(S) = 0
    BY <1>2, FS_EmptySet
  <2>2. PICK q \in [1 .. 0 -> S] : TRUE
    <3>1. [m \in 1 .. 0 |-> m] \in [1 .. 0 -> S]
      OBVIOUS
    <3>2. QED
      BY <3>1
  <2>3. \A m, n \in DOMAIN q : m < n => <<q[m], q[n]>> \in R
    BY <2>2
  <2>4. QED
    BY <2>1, <2>2, <2>3
<1>3. CASE \E a \in S : S = {a}
  <2>1. PICK a \in S : S = {a}
    BY <1>3
  <2>2. Cardinality(S) = 1
    BY <2>1, FS_Singleton
  <2> DEFINE q == [m \in 1 .. 1 |-> a]
  <2>3. q \in [1 .. 1 -> S] /\ \A m, n \in DOMAIN q : ~ (m < n)
    OBVIOUS
  <2>4. QED
    BY <2>2, <2>3
<1>4. CASE \E a, b \in S : a # b /\ S = {a, b}
  <2>1. PICK a \in S, b \in S : a # b /\ S = {a, b}
    BY <1>4
  <2>2. Cardinality(S) = 2
    <3>1. IsFiniteSet({a}) /\ Cardinality({a}) = 1 /\ b \notin {a} /\ S = {a} \cup {b}
      BY <2>1, FS_Singleton
    <3>2. Cardinality({a} \cup {b}) = 1 + 1
      BY <3>1, FS_AddElement
    <3>3. QED
      BY <3>1, <3>2
  <2>3. PICK q \in [1 .. 2 -> S] : \A m, n \in 1 .. 2 : m < n => <<q[m], q[n]>> \in R
    BY <2>1, RowOfTwo
  <2>4. QED
    BY <2>2, <2>3
<1>5. CASE S = {0, 1, 2}
  <2>1. Cardinality(S) = 3
    <3>1. 0 \in Int /\ 2 \in Int /\ S = 0 .. 2
      BY <1>5
    <3>2. Cardinality(0 .. 2) = IF 0 > 2 THEN 0 ELSE 2 - 0 + 1
      BY <3>1, FS_Interval, Zenon
    <3>3. QED
      BY <3>1, <3>2
  <2>2. PICK q \in [1 .. 3 -> S] : \A m, n \in 1 .. 3 : m < n => <<q[m], q[n]>> \in R
    <3>1. 0 \in S /\ 1 \in S /\ 2 \in S /\ 0 # 1 /\ 0 # 2 /\ 1 # 2
      BY <1>5
    <3>2. QED
      BY <1>5, <3>1, RowOfThree, Zenon
  <2>3. QED
    BY <2>1, <2>2
<1>6. \/ S = {} \/ (\E a \in S : S = {a}) \/ (\E a, b \in S : a # b /\ S = {a, b}) \/ S = {0, 1, 2}
  <2>1. ASSUME NEW a \in S, S # {a}, S # {0, 1, 2} PROVE \E b, d \in S : b # d /\ S = {b, d}
    <3>1. PICK b \in S : b # a
      BY <2>1
    <3>2. \A d \in S : d = a \/ d = b
      BY <1>1, <2>1, <3>1
    <3>3. S = {a, b}
      BY <3>2
    <3>4. QED
      BY <3>1, <3>3
  <2>2. QED
    BY <2>1
<1>7. QED
  BY <1>2, <1>3, <1>4, <1>5, <1>6

(* Quotients are compared by products, which is transitive. *)
LEMMA Scaling ==
  ASSUME NEW u \in Int, NEW v \in Int, NEW w \in Nat \ {0}
  PROVE  /\ u >= v <=> u * w >= v * w
         /\ u > v <=> u * w > v * w
         /\ u * w \in Int /\ v * w \in Int
OBVIOUS

(* Fractions compared crosswise are transitive. *)
LEMMA QuotientOrder ==
  ASSUME NEW a \in Int, NEW b \in Int, NEW c \in Int,
         NEW p \in Nat \ {0}, NEW q \in Nat \ {0}, NEW r \in Nat \ {0},
         a * q >= b * p, b * r >= c * q
  PROVE  /\ a * r >= c * p
         /\ a * q > b * p \/ b * r > c * q => a * r > c * p
<1>1. a * q \in Int /\ b * p \in Int /\ b * r \in Int /\ c * q \in Int /\ a * r \in Int /\ c * p \in Int
  OBVIOUS
<1>2. /\ (a * q) * r >= (b * p) * r /\ (a * q > b * p <=> (a * q) * r > (b * p) * r)
      /\ (b * r) * p >= (c * q) * p /\ (b * r > c * q <=> (b * r) * p > (c * q) * p)
  BY <1>1, Scaling
<1>3. (a * q) * r = (a * r) * q /\ (c * q) * p = (c * p) * q /\ (b * p) * r = (b * r) * p
  OBVIOUS
<1>4. /\ (a * r >= c * p <=> (a * r) * q >= (c * p) * q)
      /\ (a * r > c * p <=> (a * r) * q > (c * p) * q)
      /\ (a * r) * q \in Int /\ (c * p) * q \in Int /\ (b * r) * p \in Int
  BY <1>1, Scaling
<1>5. QED
  BY <1>2, <1>3, <1>4

Cases == [Persons -> [value : Nat, unposted : BOOLEAN, delivered : BOOLEAN, signal : BOOLEAN]]

(* What the orders compare. *)
OrderTypes ==
  /\ Tariff(study.prices) /\ round \in Nat
  /\ batch \in Cases
  /\ play.wagers \in [Persons -> Int]

(* The rotation gives each person a turn of their own. *)
LEMMA TurnsDiffer ==
  ASSUME NEW i \in Persons, NEW j \in Persons, NEW r \in Nat
  PROVE  Turn(i, r) \in Int /\ (i # j => Turn(i, r) # Turn(j, r))
BY DEF Persons, Turn

(* Every order by which the programs sort has a row, so that a queue is a   *)
(* sequence of persons.                                                     *)
LEMMA InRow ==
  ASSUME OrderTypes
  PROVE  /\ \A S \in SUBSET Persons : InOrder(S, Precedes) \in [1 .. Cardinality(S) -> S]
         /\ InOrder(Persons, Sooner) \in [1 .. Cardinality(Persons) -> Persons]
         /\ InOrder(Persons, ByValue) \in [1 .. Cardinality(Persons) -> Persons]
         /\ InOrder(Persons, ByYield) \in [1 .. Cardinality(Persons) -> Persons]
<1> DEFINE Turns == [i \in Persons |-> Turn(i, round)]
<1>1. /\ \A i \in Persons : Turn(i, round) \in Int
      /\ \A i, j \in Persons : i # j => Turn(i, round) # Turn(j, round)
  BY TurnsDiffer DEF OrderTypes
<1>2. Persons \subseteq Int
  BY PersonsAreThree
<1>3. ASSUME NEW S \in SUBSET Persons
      PROVE  InOrder(S, Precedes) \in [1 .. Cardinality(S) -> S]
  <2> DEFINE R == {p \in Persons \X Persons : Precedes(p[1], p[2])}
  <2>1. \A i, j \in Persons : <<i, j>> \in R <=> Precedes(i, j)
    OBVIOUS
  <2> HIDE DEF R
  <2>2. \A i \in Persons : play.wagers[i] \in Int
    BY DEF OrderTypes
  <2>3. Strict(S, R)
    <3>1. CASE play.allocator \in Markets
      BY <1>2, <2>1, <2>2, <3>1 DEF Strict, Precedes
    <3>2. CASE play.allocator \notin Markets
      BY <1>1, <2>1, <3>2 DEF Strict, Precedes
    <3>3. QED
      BY <3>1, <3>2
  <2>4. PICK q \in [1 .. Cardinality(S) -> S] : \A m, n \in DOMAIN q : m < n => <<q[m], q[n]>> \in R
    BY <2>3, RowExists
  <2>5. \A m, n \in DOMAIN q : m < n => Precedes(q[m], q[n])
    BY <2>1, <2>4
  <2>6. QED
    BY <2>4, <2>5 DEF InOrder
<1>4. ASSUME NEW R, Strict(Persons, R)
      PROVE  \E q \in [1 .. Cardinality(Persons) -> Persons] : \A m, n \in DOMAIN q : m < n => <<q[m], q[n]>> \in R
  BY <1>4, RowExists
<1>5. InOrder(Persons, Sooner) \in [1 .. Cardinality(Persons) -> Persons]
  <2> DEFINE R == {p \in Persons \X Persons : Sooner(p[1], p[2])}
  <2>1. \A i, j \in Persons : <<i, j>> \in R <=> Sooner(i, j)
    OBVIOUS
  <2> HIDE DEF R
  <2>2. Strict(Persons, R)
    BY <1>1, <2>1 DEF Strict, Sooner
  <2>3. PICK q \in [1 .. Cardinality(Persons) -> Persons] : \A m, n \in DOMAIN q : m < n => <<q[m], q[n]>> \in R
    BY <1>4, <2>2
  <2>4. \A m, n \in DOMAIN q : m < n => Sooner(q[m], q[n])
    BY <2>1, <2>3
  <2>5. QED
    BY <2>3, <2>4 DEF InOrder
<1>6. InOrder(Persons, ByValue) \in [1 .. Cardinality(Persons) -> Persons]
  <2> DEFINE R == {p \in Persons \X Persons : ByValue(p[1], p[2])}
  <2>1. \A i, j \in Persons : <<i, j>> \in R <=> ByValue(i, j)
    OBVIOUS
  <2> HIDE DEF R
  <2>2. \A i \in Persons : batch[i].value \in Nat
    BY DEF OrderTypes, Cases
  <2>3. Strict(Persons, R)
    BY <1>1, <2>1, <2>2 DEF Strict, ByValue, Sooner
  <2>4. PICK q \in [1 .. Cardinality(Persons) -> Persons] : \A m, n \in DOMAIN q : m < n => <<q[m], q[n]>> \in R
    BY <1>4, <2>3
  <2>5. \A m, n \in DOMAIN q : m < n => ByValue(q[m], q[n])
    BY <2>1, <2>4
  <2>6. QED
    BY <2>4, <2>5 DEF InOrder
<1>7. InOrder(Persons, ByYield) \in [1 .. Cardinality(Persons) -> Persons]
  <2> DEFINE R == {p \in Persons \X Persons : ByYield(p[1], p[2])}
             e == [i \in Persons |-> Expected(batch[i].value, "cheap", "none", SIGNAL_QUALITY)]
             o == [i \in Persons |-> Outlay(i, round, "cheap")]
  <2>1. \A i, j \in Persons : <<i, j>> \in R <=> ByYield(i, j)
    OBVIOUS
  <2>2. \A i, j \in Persons :
          ByYield(i, j) <=> (e[i] * o[j] > e[j] * o[i]
                              \/ (e[i] * o[j] = e[j] * o[i] /\ Turn(i, round) < Turn(j, round)))
    BY DEF ByYield, Sooner
  <2>3. \A i \in Persons : e[i] \in Int /\ o[i] \in Nat \ {0}
    <3>1. TAKE i \in Persons
    <3>2. batch[i].value \in Nat
      BY DEF OrderTypes, Cases
    <3>3. e[i] \in Int
      BY <3>2 DEF Expected, Missing
    <3>4. o[i] \in Nat \ {0}
      BY DEF OrderTypes, Outlay, Tariff, Resources
    <3>5. QED
      BY <3>3, <3>4
  <2> HIDE DEF R, e, o
  <2>4. Strict(Persons, R)
    <3>1. \A i, j \in Persons : e[i] * o[j] \in Int
      BY <2>3
    <3>2. \A i, j, k \in Persons : ByYield(i, j) /\ ByYield(j, k) => ByYield(i, k)
      <4>1. SUFFICES ASSUME NEW i \in Persons, NEW j \in Persons, NEW k \in Persons, ByYield(i, j), ByYield(j, k)
                     PROVE  ByYield(i, k)
        OBVIOUS
      <4>2. e[i] * o[j] >= e[j] * o[i] /\ e[j] * o[k] >= e[k] * o[j]
        BY <2>2, <3>1, <4>1
      <4>3. /\ e[i] * o[k] >= e[k] * o[i]
            /\ e[i] * o[j] > e[j] * o[i] \/ e[j] * o[k] > e[k] * o[j] => e[i] * o[k] > e[k] * o[i]
        BY <2>3, <4>2, QuotientOrder
      <4>4. CASE e[i] * o[k] > e[k] * o[i]
        BY <2>2, <4>4
      <4>5. CASE e[i] * o[k] = e[k] * o[i]
        <5>1. e[i] * o[j] = e[j] * o[i] /\ e[j] * o[k] = e[k] * o[j]
          BY <3>1, <4>2, <4>3, <4>5
        <5>2. Turn(i, round) < Turn(j, round) /\ Turn(j, round) < Turn(k, round)
          BY <2>2, <3>1, <4>1, <5>1
        <5>3. Turn(i, round) < Turn(k, round)
          BY <1>1, <5>2
        <5>4. QED
          BY <2>2, <4>5, <5>3
      <4>6. QED
        BY <3>1, <4>3, <4>4, <4>5
    <3>3. \A i \in Persons : ~ ByYield(i, i)
      BY <1>1, <2>2, <3>1
    <3>4. \A i, j \in Persons : i # j => ByYield(i, j) \/ ByYield(j, i)
      BY <1>1, <2>2, <3>1
    <3>5. QED
      BY <2>1, <3>2, <3>3, <3>4 DEF Strict
  <2>5. PICK q \in [1 .. Cardinality(Persons) -> Persons] : \A m, n \in DOMAIN q : m < n => <<q[m], q[n]>> \in R
    BY <1>4, <2>4
  <2>6. \A m, n \in DOMAIN q : m < n => ByYield(q[m], q[n])
    BY <2>1, <2>5
  <2>7. QED
    BY <2>5, <2>6 DEF InOrder
<1>8. QED
  BY <1>3, <1>5, <1>6, <1>7

Signals == {"none", "true", "false"}

(* What is expected of a resource, what it gains, and what is bid for it. *)
LEMMA ValueTypes ==
  ASSUME batch \in Cases, play.quality \in Int, NEW i \in Persons
  PROVE  /\ \A resource \in Resources, signal \in Signals : Yield(i, resource, signal) \in Int
         /\ \A signal \in Signals : Gain(i, signal) \in Nat
         /\ SignalOf(i) \in Signals /\ Seen(i) \in Signals
<1>1. batch[i].value \in Int
  BY DEF Cases
<1>2. PROVIDER_RELIABILITY \in Int
  BY StudyNumbers DEF Numbers
<1>3. ASSUME NEW signal \in Signals PROVE Missing(signal, play.quality) \in Int
  BY DEF Signals, Missing
<1>4. ASSUME NEW resource \in Resources, NEW signal \in Signals
      PROVE  Yield(i, resource, signal) \in Int
  <2> DEFINE m == Missing(signal, play.quality)
  <2>1. m \in Int /\ (m * (100 - PROVIDER_RELIABILITY)) \div 100 \in Int
    <3>1. m \in Int /\ m * (100 - PROVIDER_RELIABILITY) \in Int
      BY <1>2, <1>3
    <3>2. QED
      BY <3>1
  <2>2. resource = "defer" \/ resource = "cheap" \/ resource = "consultation" \/ resource = "premium"
    BY DEF Resources
  <2> HIDE DEF m
  <2>3. Yield(i, resource, signal)
          = batch[i].value * CASE resource = "defer"        -> 0
                               [] resource = "cheap"        -> 100 - m
                               [] resource = "consultation" -> 100
                               [] resource = "premium"      -> 100 - (m * (100 - PROVIDER_RELIABILITY)) \div 100
    BY DEF Yield, Expected, m
  <2>4. QED
    BY <1>1, <2>1, <2>2, <2>3
<1>5. ASSUME NEW signal \in Signals PROVE Gain(i, signal) \in Nat
  <2> DEFINE v == (Yield(i, "premium", signal) - Yield(i, "cheap", signal)) \div 100
  <2>1. Yield(i, "premium", signal) \in Int /\ Yield(i, "cheap", signal) \in Int
    BY <1>4 DEF Resources
  <2>2. v \in Int
    BY <2>1
  <2> HIDE DEF v
  <2>3. {0, v} \in SUBSET Int /\ {0, v} # {} /\ 0 \in {0, v}
    BY <2>2
  <2>4. IsFiniteSet({0, v})
    <3>1. IsFiniteSet({0})
      BY FS_Singleton
    <3>2. IsFiniteSet({0} \cup {v})
      BY <3>1, FS_AddElement
    <3>3. {0, v} = {0} \cup {v}
      OBVIOUS
    <3>4. QED
      BY <3>2, <3>3
  <2>5. Max({0, v}) \in {0, v} /\ \A x \in {0, v} : x <= Max({0, v})
    BY <2>3, <2>4, MaxIs
  <2>6. QED
    BY <2>2, <2>3, <2>5 DEF Gain, v
<1>6. SignalOf(i) \in Signals /\ Seen(i) \in Signals
  BY DEF SignalOf, Seen, Signals
<1>7. QED
  BY <1>4, <1>5, <1>6

-----------------------------------------------------------------------------
(* The study is prepared and then played. *)
StudyInv ==
  /\ study = [budget |-> study.budget, prices |-> study.prices, cases |-> study.cases, outlook |-> study.outlook,
              frontier |-> study.frontier, round |-> study.round, stage |-> study.stage]
  /\ study.budget \in Nat /\ Tariff(study.prices) /\ study.round \in 0 .. Rounds
  /\ study.stage \in {"foresee", "draw", "oracle", "play"}
  /\ study.stage \in {"foresee", "draw"} => study.round = 0
  /\ study.stage \in {"oracle", "play"} => study.cases \in [0 .. Rounds - 1 -> Cases]
  /\ study.stage = "play" => study.round = Rounds
  /\ study.stage # "play" => play = NoPlay

Fields == {"allocator", "strategy", "phase", "round", "queue", "remaining", "reserved", "wagers", "entrants",
           "choices", "reports", "quality", "credits", "revenue", "utility"}

PlayTyped ==
  /\ play = [field \in Fields |-> play[field]]
  /\ play.round \in 0 .. Rounds /\ play.remaining \in Nat /\ play.reserved \in Nat
  /\ play.wagers \in [Persons -> Int] /\ play.credits \in [Persons -> Int]
  /\ play.revenue \in Int /\ play.quality \in Int /\ play.utility \in Nat
  /\ play.choices \in Servings
  /\ play.strategy \in {"unshaded", "shade", "overstate", "hoard"}
  /\ play.credits[0] + play.credits[1] + play.credits[2] + play.revenue = 3 * ENDOWMENT

Undecided == {"central", "bid", "turns", "report", "consult", "ask"}
Deciding  == {"grant", "fill", "order", "pick"}
Between   == {"plan", "start", "over"}

(* Where a round stands. *)
PlayPhased ==
  /\ play.phase \in Between \cup Undecided \cup Deciding \cup {"close", "finish"}
  /\ play.phase # "over" => play.round < Rounds
  /\ play.phase \notin Between => Feasible(play.round, play.choices)
  /\ play.phase \in Undecided => play.choices = Deferred
  /\ play.phase \in {"bid", "ask"} => play.queue \in Seq(Persons) /\ play.entrants \subseteq ReviewEligible(play.round)
  /\ play.phase \in {"grant", "order"} => play.queue \in Seq(ReviewEligible(play.round))
  /\ play.phase = "pick" => play.queue \in Seq(Persons)
  /\ play.phase \in {"report", "consult"} => play.allocator \in Planned
  /\ play.phase \in {"ask", "order", "pick"} => play.allocator \notin Planned

PlayPays ==
  /\ play.phase = "close" => Bill(play.round, play.choices) <= play.remaining
  /\ play.phase = "finish" => ToPay <= play.remaining

Playing == PlayTyped /\ PlayPhased /\ PlayPays

StudiesInv == StudyInv /\ (study.stage = "play" => Playing)

(* What a step of a play starts from. *)
LEMMA InRound ==
  ASSUME StudyInv, study.stage = "play", PlayTyped, play.round < Rounds
  PROVE  OrderTypes /\ play.round \in Nat /\ round = play.round
<1>2. play.round \in 0 .. Rounds - 1 /\ round = play.round
  BY StudyNumbers DEF PlayTyped, Numbers, round
<1>3. batch \in Cases
  BY <1>2 DEF StudyInv, batch
<1>4. QED
  BY <1>2, <1>3 DEF OrderTypes, StudyInv, PlayTyped

(* What is lent to the next step: worth, and what each pays in credits. *)
LEMMA WorthIs ==
  ASSUME NEW r, study.cases[r] \in Cases, NEW choices \in Servings
  PROVE  /\ Worth(r, choices) \in Nat
         /\ Worth(r, Deferred) = 0
<1> DEFINE f(c) == [i \in Persons |-> IF Correct(study.cases[r][i], c[i]) THEN study.cases[r][i].value ELSE 0]
<1>1. 0 \in Persons /\ 1 \in Persons /\ 2 \in Persons
  BY DEF Persons
<1>2. \A c : f(c) \in [Persons -> Int] /\ \A i \in Persons : f(c)[i] \in Nat
  BY DEF Cases
<1>3. \A i \in Persons : f(Deferred)[i] = 0
  BY DEF Deferred, Correct
<1>4. \A c : Worth(r, c) = Over(f(c))
  BY DEF Worth
<1> HIDE DEF f
<1>5. \A c : Over(f(c)) = f(c)[0] + f(c)[1] + f(c)[2]
  BY <1>2, OverPersons
<1>6. QED
  BY <1>1, <1>2, <1>3, <1>4, <1>5

(* The bids that a market ranks, and what it asks for one, are numbers. *)
LEMMA WagerType ==
  ASSUME batch \in Cases, PlayTyped, NEW i \in Persons
  PROVE  Wager(i) \in Int /\ Fee \in Nat
<1>1. /\ Gain(i, Seen(i)) \in Nat
      /\ play.credits[i] \in Int
      /\ play.strategy \in {"unshaded", "shade", "overstate", "hoard"}
  BY ValueTypes DEF PlayTyped
<1>2. Shaded(i, Gain(i, Seen(i))) \in Int
  <2> DEFINE g == Gain(i, Seen(i))
  <2>1. g \in Nat
    BY <1>1
  <2> HIDE DEF g
  <2>2. g \div 2 \in Int /\ g * 3 \in Int /\ (IF round < Rounds \div 2 THEN 0 ELSE g) \in Int
    BY <2>1
  <2>3. Shaded(i, g) \in Int
    BY <1>1, <2>1, <2>2 DEF Shaded
  <2>4. QED
    BY <2>3 DEF g
<1>3. QED
  BY <1>1, <1>2, StudyNumbers DEF Wager, Fee, Least, Numbers

(* A price, and what is left to pay, are those of the study. *)
LEMMA BillsStay ==
  ASSUME study'.prices = study.prices
  PROVE  /\ \A r, choices : Bill(r, choices)' = Bill(r, choices)
         /\ \A i, r, resource : Outlay(i, r, resource)' = Outlay(i, r, resource)
BY DEF Bill, Outlay

(* The steps of a play *)

(* What is set aside in a round: planning, and what is chosen if it is paid.*)
Committed ==
  CASE play.phase \in Between                                      -> 0
    [] play.phase \in {"central", "report", "consult", "close"}   -> 3
    [] play.phase \in {"bid", "turns", "ask"} \cup Deciding        -> 3 + Bill(play.round, play.choices)
    [] play.phase = "finish"                                       -> 3 + Bill(play.round, play.choices) - ToPay

(* Nothing is spent twice, and nothing is gained, before a round closes. *)
Spends ==
  /\ play'.round = play.round /\ play'.utility = play.utility
  /\ play'.remaining + Committed' <= play.remaining + Committed

Played == StudyInv /\ study.stage = "play" /\ Playing /\ UNCHANGED study

(* Planning is paid, or the round is over before it begins. *)
LEMMA PlanStep ==
  ASSUME Played, PlanRound
  PROVE  Playing' /\ Spends
<1> USE DEF Played, Playing
<1>1. play.phase = "plan" /\ play.round < Rounds /\ play.round \in Nat /\ play.remaining \in Nat
  BY DEF PlanRound, PlayPhased, PlayTyped
<1>2. Least(play.remaining, 3) \in Nat /\ Least(play.remaining, 3) <= play.remaining
  BY <1>1 DEF Least
<1>3. /\ play' = [play EXCEPT !.remaining = play'.remaining, !.phase = play'.phase,
                             !.queue = <<0, 1, 2>>, !.choices = Deferred, !.entrants = {}, !.wagers = Nobody,
                             !.reserved = 0]
      /\ play'.remaining = play.remaining - Least(play.remaining, 3)
      /\ play'.phase \in {"over", "central", "bid", "turns"}
      /\ play'.phase # "over" => CanPlan
  <2>1. play.allocator \in CentralAllocators \/ play.allocator \in Requesting \/ play.allocator \in Rotating
    BY DEF PlanRound, Studied, Allocators
  <2> DEFINE phase == CASE ~ CanPlan                                   -> "over"
                        [] CanPlan /\ play.allocator \in CentralAllocators -> "central"
                        [] CanPlan /\ play.allocator \in Requesting      -> "bid"
                        [] CanPlan /\ play.allocator \in Rotating        -> "turns"
  <2>2. phase \in {"over", "central", "bid", "turns"} /\ (phase # "over" => CanPlan)
    BY <2>1
  <2>3. play' = [play EXCEPT !.remaining = @ - Least(@, 3), !.phase = phase,
                             !.queue = <<0, 1, 2>>, !.choices = Deferred, !.entrants = {}, !.wagers = Nobody,
                             !.reserved = 0]
    BY DEF PlanRound
  <2> HIDE DEF phase
  <2>4. play'.phase = phase /\ play'.remaining = play.remaining - Least(play.remaining, 3)
    BY <2>3 DEF PlayTyped, Fields
  <2>5. QED
    BY <2>2, <2>3, <2>4
<1>4. PlayTyped'
  <2>1. Nobody \in [Persons -> Int] /\ Deferred \in Servings
    BY NobodyServed DEF Nobody
  <2>2. play' = [field \in Fields |-> play'[field]]
    BY <1>3 DEF PlayTyped
  <2>3. /\ play'.round = play.round /\ play'.wagers = Nobody /\ play'.choices = Deferred /\ play'.quality = play.quality
        /\ play'.credits = play.credits /\ play'.revenue = play.revenue /\ play'.utility = play.utility
        /\ play'.reserved \in {0, play.reserved} /\ play'.strategy = play.strategy
    BY <1>3 DEF PlayTyped, Fields
  <2>4. play'.remaining \in Nat
    BY <1>1, <1>2, <1>3
  <2>5. QED
    BY <2>1, <2>2, <2>3, <2>4 DEF PlayTyped
<1>5. PlayPhased'
  <2>1. Feasible(play.round, Deferred) /\ <<0, 1, 2>> \in Seq(Persons)
    BY <1>1, NobodyServed DEF Persons
  <2>2. play'.round = play.round /\ play'.choices = Deferred /\ play'.queue = <<0, 1, 2>> /\ play'.entrants = {}
    BY <1>3 DEF PlayTyped, Fields
  <2>3. QED
    BY <1>1, <1>3, <2>1, <2>2 DEF PlayPhased, Between, Undecided, Deciding
<1>6. PlayPays'
  BY <1>3 DEF PlayPays
<1>7. Spends
  <2>1. /\ play'.round = play.round /\ play'.choices = Deferred /\ play'.utility = play.utility
        /\ Bill(play.round, Deferred)' = 0
    <3>1. play'.round = play.round /\ play'.choices = Deferred /\ play'.utility = play.utility
      BY <1>3 DEF PlayTyped, Fields
    <3>2. Bill(play.round, Deferred) = 0
      BY <1>1, NobodyServed DEF StudyInv
    <3>3. QED
      BY <3>1, <3>2, BillsStay
  <2>2. Committed = 0
    BY <1>1 DEF Committed, Between, Deciding
  <2>3. Committed' = IF play'.phase = "over" THEN 0 ELSE 3
    BY <1>3, <2>1 DEF Committed, Between, Deciding
  <2>4. play'.phase # "over" => Least(play.remaining, 3) = 3
    BY <1>1, <1>3 DEF CanPlan, Least
  <2>5. QED
    BY <1>1, <1>2, <1>3, <2>1, <2>2, <2>3, <2>4 DEF Spends
<1>8. QED
  BY <1>4, <1>5, <1>6, <1>7

(* The same for the policies that report. *)
LEMMA StartStep ==
  ASSUME Played, StartRound
  PROVE  Playing' /\ Spends
<1> USE DEF Played, Playing
<1>1. play.phase = "start" /\ play.round < Rounds /\ play.round \in Nat /\ play.remaining \in Nat
  BY DEF StartRound, In, PlayPhased, PlayTyped
<1>2. Least(play.remaining, 3) \in Nat /\ Least(play.remaining, 3) <= play.remaining
  BY <1>1 DEF Least
<1>3. InOrder(Persons, Sooner) \in Seq(Persons)
  BY <1>1, InRound, InRow, PersonsAreThree
<1>4. /\ play' = [play EXCEPT !.remaining = play'.remaining, !.phase = play'.phase,
                             !.choices = Deferred, !.reports = Unheard, !.quality = SIGNAL_QUALITY,
                             !.queue = InOrder(Persons, Sooner), !.entrants = {}, !.wagers = Nobody]
      /\ play'.remaining = play.remaining - Least(play.remaining, 3)
      /\ play'.phase \in {"over", "report", "consult", "ask"}
      /\ play'.phase # "over" => CanPlan
      /\ play'.phase \in {"report", "consult"} => play.allocator \in Planned
      /\ play'.phase = "ask" => play.allocator \notin Planned
  <2> DEFINE phase == CASE ~ CanPlan                                  -> "over"
                        [] CanPlan /\ play.allocator \in Sharing      -> "report"
                        [] CanPlan /\ play.allocator = "paced-public" -> "consult"
                        [] CanPlan /\ play.allocator \notin Planned   -> "ask"
  <2>1. /\ phase \in {"over", "report", "consult", "ask"} /\ (phase # "over" => CanPlan)
        /\ phase \in {"report", "consult"} => play.allocator \in Planned
        /\ phase = "ask" => play.allocator \notin Planned
    BY DEF Planned, Sharing
  <2>2. play' = [play EXCEPT !.remaining = @ - Least(@, 3), !.phase = phase,
                             !.choices = Deferred, !.reports = Unheard, !.quality = SIGNAL_QUALITY,
                             !.queue = InOrder(Persons, Sooner), !.entrants = {}, !.wagers = Nobody]
    BY DEF StartRound
  <2> HIDE DEF phase
  <2>3. play'.phase = phase /\ play'.remaining = play.remaining - Least(play.remaining, 3)
    BY <2>2 DEF PlayTyped, Fields
  <2>4. QED
    BY <2>1, <2>2, <2>3
<1>5. PlayTyped'
  <2>1. Nobody \in [Persons -> Int] /\ Deferred \in Servings /\ SIGNAL_QUALITY \in Int
    BY NobodyServed, StudyNumbers DEF Nobody, Numbers
  <2>2. play' = [field \in Fields |-> play'[field]]
    BY <1>4 DEF PlayTyped
  <2>3. /\ play'.round = play.round /\ play'.wagers = Nobody /\ play'.choices = Deferred /\ play'.quality = SIGNAL_QUALITY
        /\ play'.credits = play.credits /\ play'.revenue = play.revenue /\ play'.utility = play.utility
        /\ play'.reserved \in {0, play.reserved} /\ play'.strategy = play.strategy
    BY <1>4 DEF PlayTyped, Fields
  <2>4. play'.remaining \in Nat
    BY <1>1, <1>2, <1>4
  <2>5. QED
    BY <2>1, <2>2, <2>3, <2>4 DEF PlayTyped
<1>6. PlayPhased'
  <2>1. Feasible(play.round, Deferred)
    BY <1>1, NobodyServed
  <2>2. /\ play'.round = play.round /\ play'.choices = Deferred /\ play'.queue = InOrder(Persons, Sooner)
        /\ play'.entrants = {} /\ play'.allocator = play.allocator
    BY <1>4 DEF PlayTyped, Fields
  <2>3. QED
    BY <1>1, <1>3, <1>4, <2>1, <2>2 DEF PlayPhased, Between, Undecided, Deciding
<1>7. PlayPays'
  BY <1>4 DEF PlayPays
<1>8. Spends
  <2>1. /\ play'.round = play.round /\ play'.choices = Deferred /\ play'.utility = play.utility
        /\ Bill(play.round, Deferred)' = 0
    <3>1. play'.round = play.round /\ play'.choices = Deferred /\ play'.utility = play.utility
      BY <1>4 DEF PlayTyped, Fields
    <3>2. Bill(play.round, Deferred) = 0
      BY <1>1, NobodyServed DEF StudyInv
    <3>3. QED
      BY <3>1, <3>2, BillsStay
  <2>2. Committed = 0
    BY <1>1 DEF Committed, Between, Deciding
  <2>3. Committed' = IF play'.phase = "over" THEN 0 ELSE 3
    BY <1>4, <2>1 DEF Committed, Between, Deciding
  <2>4. play'.phase # "over" => Least(play.remaining, 3) = 3
    BY <1>1, <1>4 DEF CanPlan, Least
  <2>5. QED
    BY <1>1, <1>2, <1>4, <2>1, <2>2, <2>3, <2>4 DEF Spends
<1>9. QED
  BY <1>5, <1>6, <1>7, <1>8

(* A central allocator chooses among bundles that it can pay. *)
LEMMA FavouritesFunded ==
  ASSUME NEW signals, NEW paced, NEW choices \in Favourites(signals, paced)
  PROVE  choices \in Servings /\ Feasible(round, choices) /\ Bill(round, choices) <= play.remaining
BY DEF Favourites, Bundles, Servings

(* So its choice is funded. *)
LEMMA ChooseStep ==
  ASSUME Played, ChooseCentrally
  PROVE  Playing' /\ Spends
<1> USE DEF Played, Playing
<1>1. PICK choices : /\ choices \in Servings /\ Feasible(play.round, choices)
                     /\ Bill(play.round, choices) <= play.remaining
                     /\ play' = [play EXCEPT !.choices = choices, !.phase = "close"]
  BY FavouritesFunded DEF ChooseCentrally, round
<1>2. /\ play' = [field \in Fields |-> play'[field]]
      /\ play'.phase = "close" /\ play'.choices = choices /\ play'.round = play.round
      /\ play'.remaining = play.remaining
      /\ play'.reserved = play.reserved /\ play'.wagers = play.wagers /\ play'.quality = play.quality
      /\ play'.credits = play.credits /\ play'.revenue = play.revenue /\ play'.utility = play.utility
      /\ play'.strategy = play.strategy
  BY <1>1 DEF PlayTyped, Fields
<1>3. play.phase = "central" /\ play.round < Rounds
  BY DEF ChooseCentrally, PlayPhased
<1>4. PlayTyped'
  BY <1>1, <1>2 DEF PlayTyped
<1>5. PlayPhased'
  BY <1>1, <1>2, <1>3 DEF PlayPhased, Between, Undecided, Deciding
<1>6. PlayPays'
  BY <1>1, <1>2, BillsStay DEF PlayPays
<1>7. Spends
  <2>1. Committed = 3 /\ Committed' = 3
    BY <1>2, <1>3 DEF Committed, Between, Deciding
  <2>2. play.remaining \in Nat
    BY DEF PlayTyped
  <2>3. QED
    BY <1>2, <2>1, <2>2 DEF Spends
<1>8. QED
  BY <1>4, <1>5, <1>6, <1>7

(* A bid sets its price aside, and its fee is paid from what is left. *)
LEMMA BidStep ==
  ASSUME Played, BidForPremium
  PROVE  Playing' /\ Spends
<1> USE DEF Played, Playing
<1>1. /\ play.phase = "bid" /\ play.queue # <<>> /\ play.queue \in Seq(Persons) /\ play.round < Rounds
      /\ play.entrants \subseteq ReviewEligible(play.round)
      /\ play.choices = Deferred /\ Feasible(play.round, play.choices)
  BY DEF BidForPremium, PlayPhased, Undecided, Between
<1> DEFINE i      == Head(play.queue)
           bound  == Outlay(i, play.round, "premium")
           enters == i \in ReviewEligible(play.round) /\ Wager(i) > 0 /\ play.remaining >= Fee + play.reserved + bound
<1>2. i \in Persons /\ Tail(play.queue) \in Seq(Persons)
  BY <1>1
<1>3. OrderTypes /\ play.round \in Nat /\ round = play.round
  BY <1>1, InRound
<1>4. play' = [play EXCEPT !.queue = Tail(@),
                           !.remaining = IF enters THEN @ - Fee ELSE @,
                           !.reserved  = IF enters THEN @ + bound ELSE @,
                           !.wagers    = IF enters THEN [@ EXCEPT ![i] = Wager(i)] ELSE @,
                           !.entrants  = IF enters THEN @ \cup {i} ELSE @]
  BY <1>3 DEF BidForPremium
<1>5. bound \in Nat /\ Wager(i) \in Int /\ Fee \in Nat
  BY <1>2, <1>3, WagerType, OutlayType DEF OrderTypes, Resources
<1>6. i \in Persons /\ (enters => i \in ReviewEligible(play.round) /\ play.remaining >= Fee + play.reserved + bound)
  BY <1>2
<1> HIDE DEF i, bound, enters
<1>7. /\ play' = [field \in Fields |-> play'[field]]
      /\ play'.phase = "bid" /\ play'.choices = Deferred /\ play'.round = play.round
      /\ play'.queue = Tail(play.queue)
      /\ play'.remaining = (IF enters THEN play.remaining - Fee ELSE play.remaining)
      /\ play'.reserved = (IF enters THEN play.reserved + bound ELSE play.reserved)
      /\ play'.wagers = (IF enters THEN [play.wagers EXCEPT ![i] = Wager(i)] ELSE play.wagers)
      /\ play'.entrants = (IF enters THEN play.entrants \cup {i} ELSE play.entrants)
      /\ play'.quality = play.quality
      /\ play'.credits = play.credits /\ play'.revenue = play.revenue /\ play'.utility = play.utility
      /\ play'.strategy = play.strategy
  BY <1>1, <1>4 DEF PlayTyped, Fields
<1>8. play'.remaining \in Nat /\ play'.reserved \in Nat /\ play'.wagers \in [Persons -> Int]
  BY <1>5, <1>6, <1>7 DEF PlayTyped
<1>9. PlayTyped'
  BY <1>1, <1>7, <1>8 DEF PlayTyped
<1>10. PlayPhased'
  BY <1>1, <1>2, <1>6, <1>7 DEF PlayPhased, Between, Undecided, Deciding
<1>11. PlayPays'
  BY <1>7 DEF PlayPays
<1>12. Spends
  <2>1. Bill(play.round, Deferred)' = Bill(play.round, Deferred) /\ Bill(play.round, Deferred) = 0
    BY <1>3, <1>7, NobodyServed, BillsStay DEF OrderTypes
  <2>2. Committed = 3 /\ Committed' = 3
    BY <1>1, <1>7, <2>1 DEF Committed, Between, Deciding
  <2>3. play'.remaining <= play.remaining
    BY <1>5, <1>7 DEF PlayTyped
  <2>4. QED
    BY <1>7, <1>8, <2>2, <2>3 DEF Spends, PlayTyped
<1>13. QED
  BY <1>9, <1>10, <1>11, <1>12

(* Steps that only move on, with another queue. *)
LEMMA MoveStep ==
  ASSUME Played, RankBids \/ OrderFill \/ RankRequests \/ OrderRest \/ PicksEnd
  PROVE  Playing' /\ Spends
<1> USE DEF Played, Playing
<1>1. /\ play' = [play EXCEPT !.phase = play'.phase, !.queue = play'.queue]
      /\ \/ play.phase = "bid" /\ play'.phase = "grant" /\ play'.queue = InOrder(play.entrants, Precedes)
         \/ play.phase \in {"turns", "grant"} /\ play'.phase = "fill"
         \/ play.phase = "ask" /\ play'.phase = "order" /\ play'.queue = InOrder(play.entrants, Precedes)
         \/ play.phase = "order" /\ play'.phase = "pick" /\ play'.queue = InTurn
         \/ play.phase = "pick" /\ play'.phase = "finish"
  BY DEF RankBids, OrderFill, RankRequests, OrderRest, PicksEnd, PlayTyped, Fields, In
<1>2. /\ play' = [field \in Fields |-> play'[field]]
      /\ play'.choices = play.choices /\ play'.round = play.round /\ play'.remaining = play.remaining
      /\ play'.reserved = play.reserved /\ play'.wagers = play.wagers /\ play'.quality = play.quality
      /\ play'.credits = play.credits /\ play'.revenue = play.revenue /\ play'.utility = play.utility
      /\ play'.strategy = play.strategy /\ play'.allocator = play.allocator /\ play'.entrants = play.entrants
  BY <1>1 DEF PlayTyped, Fields
<1>3. play.round < Rounds /\ Feasible(play.round, play.choices)
  BY <1>1 DEF PlayPhased, Between
<1>4. PlayTyped'
  BY <1>2 DEF PlayTyped
<1>5. PlayPhased'
  <2>1. OrderTypes
    BY <1>3, InRound
  <2>2. ASSUME play.phase \in {"bid", "ask"} PROVE InOrder(play.entrants, Precedes) \in Seq(ReviewEligible(play.round))
    <3>1. play.entrants \subseteq ReviewEligible(play.round) /\ play.entrants \in SUBSET Persons
      BY <2>2 DEF PlayPhased, ReviewEligible
    <3>2. /\ InOrder(play.entrants, Precedes) \in [1 .. Cardinality(play.entrants) -> play.entrants]
          /\ Cardinality(play.entrants) \in Nat
      BY <2>1, <3>1, InRow, PersonsAreThree
    <3>3. QED
      BY <3>1, <3>2
  <2>3. InTurn \in Seq(Persons)
    <3>1. InTurn \in [1 .. Cardinality(Persons) -> Persons] /\ Cardinality(Persons) \in Nat
      BY <2>1, InRow, PersonsAreThree DEF InTurn
    <3>2. QED
      BY <3>1
  <2>4. QED
    BY <1>1, <1>2, <1>3, <2>2, <2>3 DEF PlayPhased, Between, Undecided, Deciding
<1>6. PlayPays'
  <2>1. play.phase = "pick" => play.allocator \notin Planned
    BY DEF PlayPhased
  <2>2. play'.phase = "finish" => ToPay' = 0
    BY <1>1, <1>2, <2>1 DEF ToPay
  <2>3. play.remaining >= 0
    BY DEF PlayTyped
  <2>4. play'.phase # "close"
    BY <1>1
  <2>5. QED
    BY <1>2, <2>2, <2>3, <2>4 DEF PlayPays
<1>7. Spends
  <2>1. Bill(play.round, play.choices)' = Bill(play.round, play.choices) /\ Bill(play.round, play.choices) \in Nat
    <3>1. play.round \in Nat /\ play.choices \in Servings
      BY DEF PlayTyped
    <3>2. Bill(play.round, play.choices)' = Bill(play.round, play.choices)
      BY <1>2, BillsStay
    <3>3. QED
      BY <3>1, <3>2, BillIs DEF StudyInv
  <2>2. Committed = 3 + Bill(play.round, play.choices)
    BY <1>1 DEF Committed, Between, Deciding
  <2>3. play'.phase = "finish" => ToPay' = 0
    <3>1. play.phase = "pick" => play.allocator \notin Planned
      BY DEF PlayPhased
    <3>2. QED
      BY <1>1, <1>2, <3>1 DEF ToPay
  <2>4. Committed' = 3 + Bill(play.round, play.choices)
    BY <1>1, <1>2, <2>1, <2>3 DEF Committed, Between, Deciding
  <2>5. play.remaining \in Nat
    BY DEF PlayTyped
  <2>6. QED
    BY <1>2, <2>1, <2>2, <2>4, <2>5 DEF Spends
<1>8. QED
  BY <1>4, <1>5, <1>6, <1>7

(* The next of a queue, and the others. *)
LEMMA QueueIs ==
  ASSUME NEW S, NEW q \in Seq(S), q # <<>>
  PROVE  Head(q) \in S /\ Tail(q) \in Seq(S)
OBVIOUS

(* What is granted is paid for, in credits too. *)
LEMMA GrantedStep ==
  ASSUME Played, play.phase \in {"grant", "order"}, play.queue # <<>>, play' = Granted(Head(play.queue)),
         Feasible(play.round, Served(Head(play.queue), "premium")),
         play.remaining >= Outlay(Head(play.queue), play.round, "premium")
  PROVE  Playing' /\ Spends
<1> USE DEF Played, Playing
<1>1. play.round < Rounds /\ play.queue \in Seq(ReviewEligible(play.round))
  BY DEF PlayPhased, Between
<1> DEFINE i == Head(play.queue)
           q == Tail(play.queue)
           paid == Outlay(i, play.round, "premium")
           price == IF play.allocator \in Markets THEN play.wagers[i] ELSE 0
<1>2. /\ i \in ReviewEligible(play.round) /\ i \in Persons /\ q \in Seq(ReviewEligible(play.round))
      /\ (i = 0 \/ i = 1 \/ i = 2)
  <2>1. i \in ReviewEligible(play.round) /\ q \in Seq(ReviewEligible(play.round))
    BY <1>1, QueueIs
  <2>2. i \in Persons
    BY <2>1 DEF ReviewEligible
  <2>3. QED
    BY <2>1, <2>2 DEF Persons
<1>3. paid \in Nat /\ price \in Int /\ OrderTypes /\ play.round \in Nat
  <2>1. OrderTypes /\ play.round \in Nat
    BY <1>1, InRound
  <2>2. paid \in Nat
    BY <1>2, <2>1, OutlayType DEF OrderTypes, Resources
  <2>3. price \in Int
    BY <1>2 DEF PlayTyped
  <2>4. QED
    BY <2>1, <2>2, <2>3
<1>4. play' = [play EXCEPT !.queue = q, !.choices = Served(i, "premium"), !.remaining = @ - paid,
                           !.credits[i] = @ - price, !.revenue = @ + price]
  BY DEF Granted, Price, round
<1>5. /\ play.choices \in Servings /\ Served(i, "premium") \in Servings
      /\ Feasible(play.round, Served(i, "premium")) /\ play.remaining >= paid /\ play.remaining \in Nat
  BY <1>2 DEF Served, Servings, PlayTyped, Resources
<1> HIDE DEF i, q, paid, price
<1>6. /\ play' = [field \in Fields |-> play'[field]]
      /\ play'.phase = play.phase /\ play'.queue = q /\ play'.choices = Served(i, "premium")
      /\ play'.remaining = play.remaining - paid /\ play'.round = play.round
      /\ play'.reserved = play.reserved /\ play'.wagers = play.wagers /\ play'.quality = play.quality
      /\ play'.credits = [play.credits EXCEPT ![i] = @ - price] /\ play'.revenue = play.revenue + price
      /\ play'.utility = play.utility /\ play'.strategy = play.strategy /\ play'.allocator = play.allocator
  BY <1>4 DEF PlayTyped, Fields
<1>7. /\ play'.credits \in [Persons -> Int] /\ play'.revenue \in Int
      /\ play'.credits[0] + play'.credits[1] + play'.credits[2] + play'.revenue = 3 * ENDOWMENT
  <2>1. /\ 0 \in Persons /\ 1 \in Persons /\ 2 \in Persons
        /\ play.credits \in [Persons -> Int] /\ play.revenue \in Int
        /\ play.credits[0] + play.credits[1] + play.credits[2] + play.revenue = 3 * ENDOWMENT
    BY DEF PlayTyped, Persons
  <2>2. \A j \in Persons : play'.credits[j] = IF j = i THEN play.credits[j] - price ELSE play.credits[j]
    BY <1>2, <1>6, <2>1
  <2>3. play'.credits \in [Persons -> Int] /\ play'.revenue = play.revenue + price /\ play'.revenue \in Int
    <3>1. play.credits[i] - price \in Int
      BY <1>2, <1>3, <2>1
    <3>2. /\ play'.credits = [play.credits EXCEPT ![i] = play.credits[i] - price]
          /\ play'.revenue = play.revenue + price
      BY <1>6
    <3>3. play'.credits \in [Persons -> Int]
      BY <2>1, <3>1, <3>2
    <3>4. play'.revenue \in Int
      BY <1>3, <2>1, <3>2
    <3>5. QED
      BY <3>2, <3>3, <3>4
  <2>4. play.credits[0] \in Int /\ play.credits[1] \in Int /\ play.credits[2] \in Int
    BY <2>1
  <2>5. ENDOWMENT \in Nat
    BY StudyNumbers DEF Numbers
  <2>6. CASE i = 0
    <3>1. play'.credits[0] = play.credits[0] - price /\ play'.credits[1] = play.credits[1] /\ play'.credits[2] = play.credits[2]
      BY <2>1, <2>2, <2>6
    <3>2. play.credits[0] - price + play.credits[1] + play.credits[2] + (play.revenue + price) = 3 * ENDOWMENT
      BY <1>3, <2>1, <2>4, <2>5
    <3>3. QED
      BY <2>3, <3>1, <3>2
  <2>7. CASE i = 1
    <3>1. play'.credits[0] = play.credits[0] /\ play'.credits[1] = play.credits[1] - price /\ play'.credits[2] = play.credits[2]
      BY <2>1, <2>2, <2>7
    <3>2. QED
      BY <1>3, <2>1, <2>3, <2>4, <2>5, <3>1
  <2>8. CASE i = 2
    <3>1. play'.credits[0] = play.credits[0] /\ play'.credits[1] = play.credits[1] /\ play'.credits[2] = play.credits[2] - price
      BY <2>1, <2>2, <2>8
    <3>2. QED
      BY <1>3, <2>1, <2>3, <2>4, <2>5, <3>1
  <2>9. QED
    BY <1>2, <2>6, <2>7, <2>8
<1>8. PlayTyped'
  <2>1. play'.remaining \in Nat
    BY <1>3, <1>5, <1>6
  <2>2. QED
    BY <1>5, <1>6, <1>7, <2>1 DEF PlayTyped
<1>9. PlayPhased'
  BY <1>1, <1>2, <1>5, <1>6 DEF PlayPhased, Between, Undecided, Deciding
<1>10. PlayPays'
  BY <1>6 DEF PlayPays
<1>11. Spends
  <2>1. /\ Bill(play.round, play.choices) \in Nat
        /\ Bill(play.round, Served(i, "premium")) \in Nat
        /\ Bill(play.round, Served(i, "premium")) <= Bill(play.round, play.choices) + paid
    <3>1. play.choices \in Servings /\ Served(i, "premium") \in Servings
      BY <1>2, <1>3, <1>5 DEF PlayTyped
    <3>2. Bill(play.round, Served(i, "premium")) <= Bill(play.round, play.choices) + paid
      BY <1>2, <1>3, <1>5, <3>1, BillServed DEF StudyInv, Served, Resources, paid
    <3>3. QED
      BY <1>2, <1>3, <1>5, <3>1, <3>2, BillIs DEF StudyInv
  <2>2. Committed = 3 + Bill(play.round, play.choices)
    BY DEF Committed, Between, Deciding
  <2>3. Committed' = 3 + Bill(play.round, Served(i, "premium"))
    BY <1>6, BillsStay DEF Committed, Between, Deciding
  <2>4. QED
    BY <1>2, <1>3, <1>5, <1>6, <2>1, <2>2, <2>3 DEF Spends
<1>12. QED
  BY <1>8, <1>9, <1>10, <1>11

(* Whoever is passed over leaves the queue, and whoever is served pays. *)
LEMMA PassStep ==
  ASSUME Played, play.phase \in {"grant", "fill", "order", "pick", "ask"}, play.queue # <<>>,
         play' = [play EXCEPT !.queue = Tail(@)]
  PROVE  Playing' /\ Spends
<1> USE DEF Played, Playing
<1>1. /\ play' = [field \in Fields |-> play'[field]]
      /\ play'.phase = play.phase /\ play'.queue = Tail(play.queue) /\ play'.choices = play.choices
      /\ play'.remaining = play.remaining /\ play'.round = play.round /\ play'.entrants = play.entrants
      /\ play'.reserved = play.reserved /\ play'.wagers = play.wagers /\ play'.quality = play.quality
      /\ play'.credits = play.credits /\ play'.revenue = play.revenue
      /\ play'.utility = play.utility /\ play'.strategy = play.strategy /\ play'.allocator = play.allocator
  BY DEF PlayTyped, Fields
<1>2. PlayTyped'
  BY <1>1 DEF PlayTyped
<1>3. PlayPhased'
  <2>1. ASSUME NEW S, play.queue \in Seq(S) PROVE Tail(play.queue) \in Seq(S)
    BY <2>1
  <2>2. QED
    BY <1>1, <2>1 DEF PlayPhased, Between, Undecided, Deciding
<1>4. PlayPays'
  BY <1>1 DEF PlayPays
<1>5. Spends
  <2>1. Committed' = Committed
    BY <1>1, BillsStay DEF Committed, Between, Deciding
  <2>2. play.remaining \in Nat /\ Committed \in Nat
    <3>1. play.round \in Nat /\ play.choices \in Servings /\ play.remaining \in Nat
      BY DEF PlayTyped
    <3>2. Bill(play.round, play.choices) \in Nat
      BY <3>1, BillIs DEF StudyInv
    <3>3. QED
      BY <3>1, <3>2 DEF Committed, Between, Deciding
  <2>3. QED
    BY <1>1, <2>1, <2>2 DEF Spends
<1>6. QED
  BY <1>2, <1>3, <1>4, <1>5

(* Whoever is served is paid for at once. *)
LEMMA ServeStep ==
  ASSUME Played, play.phase \in {"fill", "pick"}, play.queue # <<>>,
         NEW i \in Persons, NEW resource \in Resources,
         Feasible(play.round, Served(i, resource)), Outlay(i, play.round, resource) <= play.remaining,
         play' = [play EXCEPT !.queue = Tail(@), !.choices = Served(i, resource),
                              !.remaining = @ - Outlay(i, play.round, resource)]
  PROVE  Playing' /\ Spends
<1> USE DEF Played, Playing
<1>1. /\ play' = [field \in Fields |-> play'[field]]
      /\ play'.phase = play.phase /\ play'.queue = Tail(play.queue) /\ play'.choices = Served(i, resource)
      /\ play'.remaining = play.remaining - Outlay(i, play.round, resource)
      /\ play'.round = play.round /\ play'.entrants = play.entrants
      /\ play'.reserved = play.reserved /\ play'.wagers = play.wagers /\ play'.quality = play.quality
      /\ play'.credits = play.credits /\ play'.revenue = play.revenue
      /\ play'.utility = play.utility /\ play'.strategy = play.strategy /\ play'.allocator = play.allocator
  BY DEF PlayTyped, Fields
<1>2. /\ play'.remaining \in Nat /\ Served(i, resource) \in Servings /\ play.round < Rounds /\ play.round \in Nat
      /\ play.remaining \in Nat /\ Outlay(i, play.round, resource) \in Nat
  <2>1. play.round < Rounds /\ play.round \in Nat /\ play.remaining \in Nat
    BY DEF PlayPhased, PlayTyped
  <2>2. Outlay(i, play.round, resource) \in Nat
    BY <2>1, OutlayType DEF StudyInv
  <2>3. Served(i, resource) \in Servings
    BY DEF Served, Servings, PlayTyped
  <2>4. QED
    BY <1>1, <2>1, <2>2, <2>3
<1>3. PlayTyped'
  BY <1>1, <1>2 DEF PlayTyped
<1>4. PlayPhased'
  <2>1. play.phase = "pick" => Tail(play.queue) \in Seq(Persons)
    BY DEF PlayPhased
  <2>2. QED
    BY <1>1, <1>2, <2>1 DEF PlayPhased, Between, Undecided, Deciding
<1>5. PlayPays'
  BY <1>1 DEF PlayPays
<1>6. Spends
  <2>1. /\ Bill(play.round, play.choices) \in Nat
        /\ Bill(play.round, Served(i, resource)) \in Nat
        /\ Bill(play.round, Served(i, resource)) <= Bill(play.round, play.choices) + Outlay(i, play.round, resource)
    <3>1. play.choices \in Servings /\ Served(i, resource) \in Servings
      BY <1>2 DEF PlayTyped
    <3>2. Bill(play.round, Served(i, resource)) <= Bill(play.round, play.choices) + Outlay(i, play.round, resource)
      BY <1>2, <3>1, BillServed DEF StudyInv, Served, Resources
    <3>3. QED
      BY <1>2, <3>1, <3>2, BillIs DEF StudyInv
  <2>2. Committed = 3 + Bill(play.round, play.choices)
    BY DEF Committed, Between, Deciding
  <2>3. Committed' = 3 + Bill(play.round, Served(i, resource))
    BY <1>1, BillsStay DEF Committed, Between, Deciding
  <2>4. QED
    BY <1>2, <1>1, <2>1, <2>2, <2>3 DEF Spends
<1>7. QED
  BY <1>3, <1>4, <1>5, <1>6

(* The next bid or request is granted, if it is feasible, or passed over. *)
LEMMA GrantStep ==
  ASSUME Played, GrantPremium \/ GrantRequest
  PROVE  Playing' /\ Spends
<1> USE DEF Played, Playing
<1>1. /\ play.phase \in {"grant", "order"} /\ play.queue # <<>> /\ play.round < Rounds
      /\ play.queue \in Seq(ReviewEligible(play.round)) /\ Feasible(play.round, play.choices)
  BY DEF GrantPremium, GrantRequest, In, PlayPhased, Between
<1> DEFINE i == Head(play.queue)
<1>2. i \in ReviewEligible(play.round) /\ round = play.round /\ play.round \in Nat /\ play.choices \in Servings
  BY <1>1, QueueIs, InRound DEF PlayTyped
<1>3. CASE play' = [play EXCEPT !.queue = Tail(@)]
  BY <1>1, <1>3, PassStep
<1>4. CASE /\ GrantPremium /\ play' = Granted(i)
           /\ Cardinality(Takers(play.choices, "premium")) < PREMIUM_CAPACITY
           /\ play.remaining >= Outlay(i, play.round, "premium")
           /\ HasReview(i)
  <2>1. Feasible(play.round, Served(i, "premium"))
    <3>1. /\ "premium" \in Resources
          /\ Mandatory(i, play.round) => Cardinality(Reviewed(play.round, play.choices)) < MANDATORY_CAPACITY
      BY <1>2, <1>4 DEF Resources, HasReview
    <3>2. Feasible(play.round, [play.choices EXCEPT ![i] = "premium"])
      BY <1>1, <1>2, <1>4, <3>1, ServedFeasible
    <3>3. QED
      BY <3>2 DEF Served
  <2>2. QED
    BY <1>1, <1>4, <2>1, GrantedStep
<1>5. CASE GrantRequest /\ play' = Granted(i) /\ Suits(i, "premium")
  <2>1. /\ Feasible(play.round, Served(i, "premium"))
        /\ Outlay(i, play.round, "premium") \in Nat /\ play.remaining \in Nat
        /\ Outlay(i, play.round, "premium") <= play.remaining
    <3>1. i \in Persons
      BY <1>2 DEF ReviewEligible
    <3>2. Outlay(i, play.round, "premium") \in Nat
      BY <1>2, <3>1, OutlayType DEF StudyInv, Resources
    <3>3. QED
      BY <1>2, <1>5, <3>2 DEF Suits, PlayTyped
  <2>2. QED
    BY <1>1, <1>5, <2>1, GrantedStep
<1>6. QED
  BY <1>2, <1>3, <1>4, <1>5 DEF GrantPremium, GrantRequest

(* The others are served what is left for them. *)
LEMMA FillStep ==
  ASSUME Played, FillNext \/ PickNext
  PROVE  Playing' /\ Spends
<1> USE DEF Played, Playing
<1>1. /\ play.phase \in {"fill", "pick"} /\ play.queue # <<>> /\ play.round < Rounds
      /\ Feasible(play.round, play.choices) /\ (play.phase = "pick" => play.queue \in Seq(Persons))
  BY DEF FillNext, PickNext, In, PlayPhased, Between
<1> DEFINE i == Head(play.queue)
<1>2. round = play.round /\ play.round \in Nat /\ play.choices \in Servings /\ play.remaining \in Nat
  BY <1>1, InRound DEF PlayTyped
<1>3. CASE play' = [play EXCEPT !.queue = Tail(@)]
  BY <1>1, <1>3, PassStep
<1>4. ASSUME i \in ReviewEligible(play.round), HasReview(i), NEW a \in Allowed(i),
             play' = [play EXCEPT !.queue = Tail(@), !.choices = Served(i, a), !.remaining = @ - Outlay(i, play.round, a)]
      PROVE  Playing' /\ Spends
  <2>1. /\ i \in Persons /\ a \in Resources
        /\ a = "premium" => Cardinality(Takers(play.choices, "premium")) < PREMIUM_CAPACITY
        /\ a = "consultation" => Cardinality(Takers(play.choices, "consultation")) < CONSULTATION_CAPACITY
        /\ Mandatory(i, play.round) => Cardinality(Reviewed(play.round, play.choices)) < MANDATORY_CAPACITY
    BY <1>2, <1>4 DEF ReviewEligible, Allowed, Resources, HasReview
  <2>2. Feasible(play.round, [play.choices EXCEPT ![i] = a])
    BY <1>1, <1>2, <1>4, <2>1, ServedFeasible
  <2>3. Outlay(i, play.round, a) \in Nat /\ play.remaining >= Outlay(i, play.round, a)
    BY <1>2, <1>4, <2>1, OutlayType DEF StudyInv, Allowed
  <2>4. Feasible(play.round, Served(i, a)) /\ Outlay(i, play.round, a) <= play.remaining
    BY <1>2, <2>2, <2>3 DEF Served
  <2>5. QED
    BY <1>1, <1>4, <2>1, <2>4, ServeStep
<1>5. ASSUME i \in Persons, NEW a \in Candidates(i),
             play' = [play EXCEPT !.queue = Tail(@), !.choices = Served(i, a), !.remaining = @ - Outlay(i, play.round, a)]
      PROVE  Playing' /\ Spends
  <2>1. a \in Resources /\ Feasible(play.round, Served(i, a)) /\ Outlay(i, play.round, a) <= play.remaining
    BY <1>2, <1>5 DEF Candidates, Suits
  <2>2. QED
    BY <1>1, <1>5, <2>1, ServeStep
<1>6. CASE FillNext
  <2>1. CASE play.choices[i] = "defer" /\ i \in ReviewEligible(round) /\ Allowed(i) # {} /\ HasReview(i)
    <3>1. PICK a \in Allowed(i) :
            play' = [play EXCEPT !.queue = Tail(@), !.choices = Served(i, a), !.remaining = @ - Outlay(i, play.round, a)]
      BY <1>2, <1>6, <2>1 DEF FillNext
    <3>2. QED
      BY <1>2, <1>4, <2>1, <3>1
  <2>2. QED
    BY <1>3, <1>6, <2>1 DEF FillNext
<1>7. CASE PickNext
  <2>1. i \in Persons
    BY <1>1, <1>7, QueueIs DEF PickNext, In
  <2>2. CASE play.choices[i] = "defer" /\ Candidates(i) # {}
    <3>1. PICK a \in Candidates(i) :
            play' = [play EXCEPT !.queue = Tail(@), !.choices = Served(i, a), !.remaining = @ - Outlay(i, play.round, a)]
      BY <1>2, <1>7, <2>2 DEF PickNext
    <3>2. QED
      BY <1>5, <2>1, <3>1
  <2>3. QED
    BY <1>3, <1>7, <2>2 DEF PickNext
<1>8. QED
  BY <1>6, <1>7

(* Nobody is left who can be served. *)
LEMMA EndStep ==
  ASSUME Played, FillEnds
  PROVE  Playing' /\ Spends
<1> USE DEF Played, Playing
<1>1. play.phase = "fill" /\ play.round < Rounds /\ Feasible(play.round, play.choices)
  BY DEF FillEnds, PlayPhased, Between
<1>2. round = play.round /\ play.round \in Nat /\ play.choices \in Servings /\ play.remaining \in Nat
  BY <1>1, InRound DEF PlayTyped
<1>3. Bill(play.round, play.choices) \in Nat
  BY <1>2, BillIs DEF StudyInv
<1>4. play' = [play EXCEPT !.phase = "close", !.remaining = @ + Bill(play.round, play.choices)]
  BY <1>2 DEF FillEnds
<1>5. /\ play' = [field \in Fields |-> play'[field]]
      /\ play'.phase = "close" /\ play'.choices = play.choices /\ play'.round = play.round
      /\ play'.remaining = play.remaining + Bill(play.round, play.choices)
      /\ play'.reserved = play.reserved /\ play'.wagers = play.wagers /\ play'.quality = play.quality
      /\ play'.credits = play.credits /\ play'.revenue = play.revenue /\ play'.utility = play.utility
      /\ play'.strategy = play.strategy
  BY <1>4 DEF PlayTyped, Fields
<1>6. PlayTyped'
  BY <1>2, <1>3, <1>5 DEF PlayTyped
<1>7. PlayPhased'
  BY <1>1, <1>5 DEF PlayPhased, Between, Undecided, Deciding
<1>8. PlayPays'
  <2>1. Bill(play.round, play.choices) <= play'.remaining
    BY <1>2, <1>3, <1>5
  <2>2. QED
    BY <1>5, <2>1, BillsStay DEF PlayPays
<1>9. Spends
  <2>1. Committed = 3 + Bill(play.round, play.choices) /\ Committed' = 3
    BY <1>1, <1>5 DEF Committed, Between, Deciding
  <2>2. QED
    BY <1>2, <1>3, <1>5, <2>1 DEF Spends
<1>10. QED
  BY <1>6, <1>7, <1>8, <1>9

(* A planner chooses among bundles it can pay, after its reports. *)
LEMMA PlanWithStep ==
  ASSUME Played, PlanWithReports
  PROVE  Playing' /\ Spends
<1> USE DEF Played, Playing
<1>1. PICK choices : /\ choices \in Servings /\ Feasible(play.round, choices)
                     /\ Bill(play.round, choices) <= play.remaining
                     /\ play' = [play EXCEPT !.choices = choices, !.phase = "finish"]
  BY FavouritesFunded DEF PlanWithReports, round
<1>2. /\ play' = [field \in Fields |-> play'[field]]
      /\ play'.phase = "finish" /\ play'.choices = choices /\ play'.round = play.round
      /\ play'.remaining = play.remaining /\ play'.allocator = play.allocator
      /\ play'.reserved = play.reserved /\ play'.wagers = play.wagers /\ play'.quality = play.quality
      /\ play'.credits = play.credits /\ play'.revenue = play.revenue /\ play'.utility = play.utility
      /\ play'.strategy = play.strategy
  BY <1>1 DEF PlayTyped, Fields
<1>3. play.phase = "consult" /\ play.round < Rounds /\ play.allocator \in Planned
  BY DEF PlanWithReports, In, PlayPhased
<1>4. PlayTyped'
  BY <1>1, <1>2 DEF PlayTyped
<1>5. PlayPhased'
  BY <1>1, <1>2, <1>3 DEF PlayPhased, Between, Undecided, Deciding
<1>6. PlayPays'
  <2>1. ToPay' = Bill(play.round, choices)
    BY <1>2, <1>3, BillsStay DEF ToPay, round
  <2>2. QED
    BY <1>1, <1>2, <2>1 DEF PlayPays
<1>7. Spends
  <2>1. ToPay' = Bill(play.round, choices) /\ Bill(play.round, choices)' = Bill(play.round, choices)
    BY <1>2, <1>3, BillsStay DEF ToPay, round
  <2>2. Bill(play.round, choices) \in Nat /\ play.remaining \in Nat
    <3>1. play.round \in Nat /\ play.remaining \in Nat
      BY DEF PlayTyped
    <3>2. QED
      BY <1>1, <3>1, BillIs DEF StudyInv
  <2>3. Committed = 3 /\ Committed' = 3
    BY <1>2, <1>3, <2>1, <2>2 DEF Committed, Between, Deciding
  <2>4. QED
    BY <1>2, <2>2, <2>3 DEF Spends
<1>8. QED
  BY <1>4, <1>5, <1>6, <1>7

(* A request is made by whom review permits and the budget can serve, and   *)
(* costs its fee.                                                           *)
LEMMA AskStep ==
  ASSUME Played, AskForPremium
  PROVE  Playing' /\ Spends
<1> USE DEF Played, Playing
<1>1. /\ play.phase = "ask" /\ play.queue # <<>> /\ play.queue \in Seq(Persons) /\ play.round < Rounds
      /\ play.entrants \subseteq ReviewEligible(play.round)
      /\ play.choices = Deferred /\ Feasible(play.round, play.choices) /\ play.allocator \notin Planned
  BY DEF AskForPremium, In, PlayPhased, Undecided, Between
<1> DEFINE i     == Head(play.queue)
           gain  == Gain(i, SignalOf(i))
           wager == IF play.allocator = "market-private" THEN Least(gain, play.credits[i]) ELSE gain
<1>2. i \in Persons /\ Tail(play.queue) \in Seq(Persons)
  BY <1>1
<1>3. OrderTypes /\ play.round \in Nat /\ round = play.round
  BY <1>1, InRound
<1>4. CASE play' = [play EXCEPT !.queue = Tail(@)]
  BY <1>1, <1>4, PassStep
<1>5. CASE /\ Joins(i, wager)
           /\ play' = [play EXCEPT !.queue = Tail(@), !.remaining = @ - Fee, !.wagers[i] = wager,
                                   !.entrants = @ \cup {i}]
  <2>1. wager \in Int /\ Fee \in Nat
    <3>1. gain \in Nat /\ play.credits[i] \in Int
      BY <1>2, <1>3, ValueTypes DEF OrderTypes, PlayTyped
    <3>2. QED
      BY <1>2, <1>3, <3>1, WagerType DEF Least, OrderTypes
  <2>2. i \in ReviewEligible(play.round) /\ Fee <= play.remaining
    <3>1. Outlay(i, play.round, "premium") \in Nat
      BY <1>2, <1>3, OutlayType DEF OrderTypes, Resources
    <3>2. i \in ReviewEligible(play.round) /\ Outlay(i, play.round, "premium") + Fee <= play.remaining
      BY <1>3, <1>5 DEF Joins
    <3>3. play.remaining \in Nat
      BY DEF PlayTyped
    <3>4. QED
      BY <2>1, <3>1, <3>2, <3>3
  <2> HIDE DEF i, wager
  <2>3. /\ play' = [field \in Fields |-> play'[field]]
        /\ play'.phase = "ask" /\ play'.choices = Deferred /\ play'.round = play.round
        /\ play'.queue = Tail(play.queue) /\ play'.remaining = play.remaining - Fee
        /\ play'.wagers = [play.wagers EXCEPT ![i] = wager] /\ play'.entrants = play.entrants \cup {i}
        /\ play'.reserved = play.reserved /\ play'.quality = play.quality
        /\ play'.credits = play.credits /\ play'.revenue = play.revenue /\ play'.utility = play.utility
        /\ play'.strategy = play.strategy /\ play'.allocator = play.allocator
    BY <1>1, <1>5 DEF PlayTyped, Fields
  <2>4. play'.remaining \in Nat
    BY <2>1, <2>2, <2>3 DEF PlayTyped
  <2>5. play'.wagers \in [Persons -> Int]
    BY <2>1, <2>3 DEF PlayTyped
  <2>6. PlayTyped'
    BY <1>1, <2>3, <2>4, <2>5 DEF PlayTyped
  <2>7. PlayPhased'
    BY <1>1, <1>2, <2>2, <2>3 DEF PlayPhased, Between, Undecided, Deciding
  <2>8. PlayPays'
    BY <2>3 DEF PlayPays
  <2>9. Spends
    <3>1. Bill(play.round, Deferred)' = Bill(play.round, Deferred) /\ Bill(play.round, Deferred) = 0
      BY <1>3, <2>3, NobodyServed, BillsStay DEF OrderTypes
    <3>2. Committed = 3 /\ Committed' = 3
      BY <1>1, <2>3, <3>1 DEF Committed, Between, Deciding
    <3>3. play'.remaining <= play.remaining /\ play.remaining \in Nat
      BY <2>1, <2>3 DEF PlayTyped
    <3>4. QED
      BY <2>3, <2>4, <3>2, <3>3 DEF Spends
  <2>10. QED
    BY <2>6, <2>7, <2>8, <2>9
<1>6. QED
  BY <1>4, <1>5 DEF AskForPremium

(* Reports are bought with what is left after planning. *)
LEMMA ReportStep ==
  ASSUME Played, BuyReports
  PROVE  Playing' /\ Spends
<1> USE DEF Played, Playing
<1>1. /\ play.phase = "report" /\ play.round < Rounds /\ play.choices = Deferred
      /\ Feasible(play.round, play.choices) /\ play.allocator \in Planned
  BY DEF BuyReports, In, PlayPhased, Undecided, Between
<1>2. PICK S \in Asked :
        IF Payable(S)
          THEN \E reports \in [Persons -> {"none", "true", "false"}] :
                 play' = [play EXCEPT !.phase = "consult", !.reports = reports,
                                      !.remaining = @ - REPORT_COST * Cardinality(S),
                                      !.quality = IF play.allocator = "shared-noisy" THEN NoisyQuality ELSE @]
          ELSE play' = [play EXCEPT !.phase = "consult"]
  BY Zenon DEF BuyReports
<1>3. S \in SUBSET Persons
  BY DEF Asked, Selections
<1>4. Cardinality(S) \in Nat /\ REPORT_COST \in Nat
  BY <1>3, PersonsAreThree, StudyNumbers DEF Numbers
<1>5. REPORT_COST * Cardinality(S) \in Nat
  BY <1>4
<1>6. NoisyQuality \in Int
  <2> DEFINE v == (SIGNAL_QUALITY * (100 - REPORT_NOISE) + (100 - SIGNAL_QUALITY) * REPORT_NOISE) \div 100
  <2>1. v \in Int
    <3>1. SIGNAL_QUALITY * (100 - REPORT_NOISE) + (100 - SIGNAL_QUALITY) * REPORT_NOISE \in Int
      BY StudyNumbers DEF Numbers
    <3>2. QED
      BY <3>1
  <2> HIDE DEF v
  <2>2. IsFiniteSet({50, v})
    <3>1. IsFiniteSet({50})
      BY FS_Singleton
    <3>2. IsFiniteSet({50} \cup {v})
      BY <3>1, FS_AddElement
    <3>3. {50, v} = {50} \cup {v}
      OBVIOUS
    <3>4. QED
      BY <3>2, <3>3
  <2>3. {50, v} \in SUBSET Int /\ {50, v} # {}
    BY <2>1
  <2>4. Max({50, v}) \in {50, v}
    BY <2>2, <2>3, MaxIs
  <2>5. QED
    BY <2>1, <2>4 DEF NoisyQuality, v
<1>7. /\ play' = [play EXCEPT !.phase = "consult", !.reports = play'.reports, !.remaining = play'.remaining,
                             !.quality = play'.quality]
      /\ play'.remaining \in Nat /\ play'.quality \in Int /\ play'.remaining <= play.remaining
  <2>1. play.remaining \in Nat /\ play.quality \in Int
    BY DEF PlayTyped
  <2>2. CASE Payable(S)
    <3>1. PICK reports :
            play' = [play EXCEPT !.phase = "consult", !.reports = reports,
                                 !.remaining = @ - REPORT_COST * Cardinality(S),
                                 !.quality = IF play.allocator = "shared-noisy" THEN NoisyQuality ELSE @]
      BY <1>2, <2>2
    <3>2. /\ play' = [play EXCEPT !.phase = "consult", !.reports = play'.reports, !.remaining = play'.remaining,
                                  !.quality = play'.quality]
          /\ play'.remaining = play.remaining - REPORT_COST * Cardinality(S)
          /\ play'.quality = IF play.allocator = "shared-noisy" THEN NoisyQuality ELSE play.quality
      BY <3>1 DEF PlayTyped, Fields
    <3>3. REPORT_COST * Cardinality(S) <= play.remaining
      BY <2>2 DEF Payable
    <3>4. play'.remaining \in Nat /\ play'.remaining <= play.remaining
      BY <1>5, <2>1, <3>2, <3>3
    <3>5. QED
      BY <1>6, <2>1, <3>2, <3>4
  <2>3. CASE ~ Payable(S)
    <3>1. play' = [play EXCEPT !.phase = "consult"]
      BY <1>2, <2>3
    <3>2. /\ play' = [play EXCEPT !.phase = "consult", !.reports = play'.reports, !.remaining = play'.remaining,
                                  !.quality = play'.quality]
          /\ play'.remaining = play.remaining /\ play'.quality = play.quality
      BY <3>1 DEF PlayTyped, Fields
    <3>3. QED
      BY <2>1, <3>2
  <2>4. QED
    BY <2>2, <2>3
<1>8. /\ play' = [field \in Fields |-> play'[field]]
      /\ play'.phase = "consult" /\ play'.choices = Deferred /\ play'.round = play.round
      /\ play'.reserved = play.reserved /\ play'.wagers = play.wagers /\ play'.allocator = play.allocator
      /\ play'.credits = play.credits /\ play'.revenue = play.revenue /\ play'.utility = play.utility
      /\ play'.strategy = play.strategy
  BY <1>1, <1>7 DEF PlayTyped, Fields
<1>9. PlayTyped'
  BY <1>1, <1>7, <1>8 DEF PlayTyped
<1>10. PlayPhased'
  BY <1>1, <1>8 DEF PlayPhased, Between, Undecided, Deciding
<1>11. PlayPays'
  BY <1>8 DEF PlayPays
<1>12. Spends
  <2>1. Committed = 3 /\ Committed' = 3
    BY <1>1, <1>8 DEF Committed, Between, Deciding
  <2>2. play'.remaining <= play.remaining /\ play.remaining \in Nat
    BY <1>7 DEF PlayTyped
  <2>3. QED
    BY <1>7, <1>8, <2>1, <2>2 DEF Spends
<1>13. QED
  BY <1>9, <1>10, <1>11, <1>12

(* A round that closes is paid for, and counted. *)
Closes ==
  /\ play.round < Rounds /\ Feasible(play.round, play.choices)
  /\ play'.round = play.round + 1 /\ play'.utility = play.utility + Worth(play.round, play.choices)
  /\ play'.phase \in Between
  /\ play'.remaining + Bill(play.round, play.choices) + 3 <= play.remaining + Committed

(* At the end of a round what was chosen is paid and its worth is counted. *)
LEMMA CloseStep ==
  ASSUME Played, CloseRound \/ FinishRound
  PROVE  Playing' /\ Closes
<1> USE DEF Played, Playing
<1>1. play.phase \in {"close", "finish"} /\ play.round < Rounds
  BY DEF CloseRound, FinishRound, In, PlayPhased
<1>2. round = play.round /\ play.round \in Nat /\ play.choices \in Servings /\ play.remaining \in Nat /\ OrderTypes
  BY <1>1, InRound DEF PlayTyped
<1> DEFINE spent == IF play.phase = "close" THEN Bill(play.round, play.choices) ELSE ToPay
<1>3. spent \in Nat /\ spent <= play.remaining
  <2>1. Bill(play.round, play.choices) \in Nat
    BY <1>2, BillIs DEF StudyInv
  <2>2. QED
    BY <1>1, <1>2, <2>1 DEF PlayPays, ToPay
<1>4. Worth(play.round, play.choices) \in Nat
  BY <1>2, WorthIs DEF OrderTypes, batch
<1>5. /\ play' = [play EXCEPT !.remaining = @ - spent, !.utility = @ + Worth(play.round, play.choices),
                             !.round = @ + 1, !.phase = play'.phase]
      /\ play'.phase \in {"plan", "start", "over"} /\ (play'.phase # "over" => play.round + 1 < Rounds)
  BY <1>2 DEF CloseRound, FinishRound, In, Closed, PlayTyped, Fields
<1> HIDE DEF spent
<1>6. /\ play' = [field \in Fields |-> play'[field]]
      /\ play'.choices = play.choices /\ play'.round = play.round + 1
      /\ play'.remaining = play.remaining - spent
      /\ play'.reserved = play.reserved /\ play'.wagers = play.wagers /\ play'.quality = play.quality
      /\ play'.credits = play.credits /\ play'.revenue = play.revenue
      /\ play'.utility = play.utility + Worth(play.round, play.choices)
      /\ play'.strategy = play.strategy
  BY <1>5 DEF PlayTyped, Fields
<1>7. play'.remaining \in Nat /\ play'.utility \in Nat /\ play'.round \in 0 .. Rounds
  BY <1>1, <1>2, <1>3, <1>4, <1>6, StudyNumbers DEF PlayTyped, Numbers
<1>8. PlayTyped'
  BY <1>6, <1>7 DEF PlayTyped
<1>9. PlayPhased'
  BY <1>5, <1>6 DEF PlayPhased, Between, Undecided, Deciding
<1>10. PlayPays'
  BY <1>5 DEF PlayPays
<1>11. Closes
  <2>1. Bill(play.round, play.choices) \in Nat
    BY <1>2, BillIs DEF StudyInv
  <2>2. Committed = 3 + Bill(play.round, play.choices) - spent
    BY <1>1, <1>2, <2>1 DEF Committed, Between, Deciding, spent
  <2>3. play'.phase \in Between /\ Feasible(play.round, play.choices)
    BY <1>1, <1>5 DEF Between, PlayPhased
  <2>4. QED
    BY <1>1, <1>2, <1>3, <1>6, <2>1, <2>2, <2>3 DEF Closes
<1>12. QED
  BY <1>8, <1>9, <1>10, <1>11

-----------------------------------------------------------------------------
(* A play begins when the study is prepared. *)
BeginsWith ==
  /\ play'.phase \in Between /\ play'.round = 0 /\ play'.utility = 0
  /\ play'.remaining = study.budget

(* A play begins with the whole budget, and nothing set aside. *)
LEMMA BeginStep ==
  ASSUME StudyInv, BeginPlay \/ BeginReporting
  PROVE  StudyInv' /\ study'.stage = "play" /\ Playing' /\ BeginsWith
<1>1. PICK allocator, strategy, phase :
        /\ strategy \in {"unshaded", "shade", "overstate", "hoard"} /\ phase \in {"plan", "start"}
        /\ play' = [StartPlay(allocator, strategy) EXCEPT !.phase = phase]
  <2>1. CASE BeginPlay
    <3>1. PICK allocator \in Allocators, strategy \in Strategies : play' = StartPlay(allocator, strategy)
      BY <2>1 DEF BeginPlay
    <3>2. StartPlay(allocator, strategy) = [StartPlay(allocator, strategy) EXCEPT !.phase = "plan"]
      <4> DEFINE at == StartPlay(allocator, strategy)
      <4>1. at.phase = "plan" /\ at = [field \in Fields |-> at[field]]
        BY DEF StartPlay, Fields
      <4> HIDE DEF at
      <4>2. at = [at EXCEPT !.phase = "plan"]
        BY <4>1
      <4>3. QED
        BY <4>2 DEF at
    <3>3. strategy \in {"unshaded", "shade", "overstate", "hoard"} /\ "plan" \in {"plan", "start"}
      BY StudyNumbers DEF Numbers
    <3>4. play' = [StartPlay(allocator, strategy) EXCEPT !.phase = "plan"]
      BY <3>1, <3>2
    <3>5. QED
      BY <3>3, <3>4, Zenon
  <2>2. CASE BeginReporting
    <3>1. PICK policy \in Policies : play' = [StartPlay(policy, "unshaded") EXCEPT !.phase = "start"]
      BY <2>2 DEF BeginReporting
    <3>2. "unshaded" \in {"unshaded", "shade", "overstate", "hoard"} /\ "start" \in {"plan", "start"}
      OBVIOUS
    <3>3. QED
      BY <3>1, <3>2, Zenon
  <2>3. QED
    BY <2>1, <2>2
<1>2. study.stage = "oracle" /\ study.round = Rounds /\ study' = [study EXCEPT !.stage = "play"]
  BY DEF BeginPlay, BeginReporting, Begun
<1>3. StudyInv' /\ study'.stage = "play"
  BY <1>2 DEF StudyInv, Tariff
<1>4. /\ play' = [field \in Fields |-> play'[field]]
      /\ play'.phase = phase /\ play'.choices = Deferred /\ play'.round = 0 /\ play'.remaining = study.budget
      /\ play'.reserved = 0 /\ play'.wagers = Nobody /\ play'.quality = SIGNAL_QUALITY
      /\ play'.credits = [i \in Persons |-> ENDOWMENT] /\ play'.revenue = 0 /\ play'.utility = 0
      /\ play'.strategy = strategy
  <2> DEFINE at == StartPlay(allocator, strategy)
  <2>1. /\ DOMAIN at = Fields /\ at = [field \in Fields |-> at[field]]
        /\ at.choices = Deferred /\ at.round = 0 /\ at.remaining = study.budget
        /\ at.reserved = 0 /\ at.wagers = Nobody /\ at.quality = SIGNAL_QUALITY
        /\ at.credits = [i \in Persons |-> ENDOWMENT] /\ at.revenue = 0 /\ at.utility = 0
        /\ at.strategy = strategy
    BY DEF StartPlay, Fields
  <2>2. play' = [at EXCEPT !.phase = phase]
    BY <1>1
  <2> HIDE DEF at
  <2>3. QED
    BY <2>1, <2>2 DEF Fields
<1>5. PlayTyped'
  <2>1. Nobody \in [Persons -> Int] /\ Deferred \in Servings /\ SIGNAL_QUALITY \in Int /\ ENDOWMENT \in Nat
        /\ Rounds \in Nat /\ study.budget \in Nat
    BY NobodyServed, StudyNumbers DEF Nobody, Numbers, StudyInv
  <2>2. /\ play'.credits \in [Persons -> Int]
        /\ play'.credits[0] + play'.credits[1] + play'.credits[2] + 0 = 3 * ENDOWMENT
    BY <1>4, <2>1 DEF Persons
  <2>3. QED
    BY <1>1, <1>4, <2>1, <2>2 DEF PlayTyped
<1>6. PlayPhased'
  BY <1>1, <1>4, StudyNumbers DEF PlayPhased, Between, Undecided, Deciding, Numbers
<1>7. PlayPays'
  BY <1>1, <1>4 DEF PlayPays
<1>8. BeginsWith
  BY <1>1, <1>4 DEF BeginsWith, Between
<1>9. QED
  BY <1>3, <1>5, <1>6, <1>7, <1>8 DEF Playing

(* The forecast, the cases and the oracle play nothing. *)
LEMMA PreparationPlays ==
  ASSUME Preparation
  PROVE  play' = play /\ study.stage # "play"
<1>1. CASE Foresee
  <2>1. study.stage = "foresee" /\ UNCHANGED play
    BY <1>1, Zenon DEF Foresee
  <2>2. QED
    BY <2>1
<1>2. CASE Draw
  <2>1. study.stage = "draw" /\ UNCHANGED play
    BY <1>2, Zenon DEF Draw
  <2>2. QED
    BY <2>1
<1>3. CASE OracleRound
  <2>1. study.stage = "oracle" /\ UNCHANGED play
    BY <1>3, Zenon DEF OracleRound
  <2>2. QED
    BY <2>1
<1>4. QED
  BY <1>1, <1>2, <1>3 DEF Preparation

(* They keep their types. *)
LEMMA PrepareStep ==
  ASSUME StudyInv, study.stage # "play", Preparation
  PROVE  StudyInv' /\ study'.stage # "play"
<1>1. play' = play
  BY PreparationPlays
<1>2. CASE Foresee
  <2>1. PICK outlook :
          study' = IF Rounds - Len(study.outlook) = 0 THEN [study EXCEPT !.stage = "draw"]
                                                      ELSE [study EXCEPT !.outlook = outlook]
    BY <1>2 DEF Foresee
  <2>2. QED
    BY <1>1, <1>2, <2>1 DEF StudyInv, Tariff, Foresee
<1>3. CASE Draw
  <2>1. PICK cases \in [0 .. Rounds - 1 -> Batches] : study' = [study EXCEPT !.cases = cases, !.stage = "oracle"]
    BY <1>3 DEF Draw
  <2>2. cases \in [0 .. Rounds - 1 -> Cases]
    BY StudyAssumption DEF Cases
  <2>3. QED
    BY <1>1, <1>3, <2>1, <2>2 DEF StudyInv, Tariff, Draw
<1>4. CASE OracleRound
  <2>1. PICK frontier : study' = [study EXCEPT !.frontier = frontier, !.round = @ + 1]
    BY <1>4 DEF OracleRound
  <2>2. study.stage = "oracle" /\ study.round < Rounds /\ study.round \in 0 .. Rounds /\ Rounds \in Nat
    <3>1. study.stage = "oracle" /\ study.round < Rounds
      BY <1>4, Zenon DEF OracleRound
    <3>2. QED
      BY <3>1, StudyNumbers DEF StudyInv, Numbers
  <2>3. /\ study'.round = study.round + 1 /\ study'.stage = "oracle" /\ study'.budget = study.budget
        /\ study'.prices = study.prices /\ study'.cases = study.cases
        /\ study' = [budget |-> study'.budget, prices |-> study'.prices, cases |-> study'.cases,
                     outlook |-> study'.outlook, frontier |-> study'.frontier, round |-> study'.round,
                     stage |-> study'.stage]
    BY <2>1, <2>2 DEF StudyInv
  <2>4. study'.round \in 0 .. Rounds
    BY <2>2, <2>3
  <2>5. QED
    BY <1>1, <2>2, <2>3, <2>4 DEF StudyInv, Tariff
<1>5. QED
  BY <1>2, <1>3, <1>4 DEF Preparation

PlayAction ==
  \/ PlanRound \/ ChooseCentrally \/ BidForPremium \/ RankBids \/ GrantPremium \/ OrderFill
  \/ FillNext \/ FillEnds \/ CloseRound
  \/ StartRound \/ BuyReports \/ PlanWithReports
  \/ AskForPremium \/ RankRequests \/ GrantRequest \/ OrderRest \/ PickNext \/ PicksEnd \/ FinishRound

(* The step is of a play that has begun. *)
LEMMA PlayedStep ==
  ASSUME StudiesInv, PlayAction
  PROVE  Played
<1>1. UNCHANGED study /\ (play.allocator \in Allocators \/ play.phase # "none")
  <2>1. PlanRound \/ ChooseCentrally \/ BidForPremium \/ RankBids \/ GrantPremium \/ OrderFill
         \/ FillNext \/ FillEnds \/ CloseRound => Studied
    BY DEF PlanRound, ChooseCentrally, BidForPremium, RankBids, GrantPremium, OrderFill,
           FillNext, FillEnds, CloseRound
  <2>2. StartRound \/ BuyReports \/ PlanWithReports \/ AskForPremium \/ RankRequests \/ GrantRequest
         \/ OrderRest \/ PickNext \/ PicksEnd \/ FinishRound => UNCHANGED study /\ play.phase # "none"
    BY DEF StartRound, BuyReports, PlanWithReports, AskForPremium, RankRequests, GrantRequest,
           OrderRest, PickNext, PicksEnd, FinishRound, In
  <2>3. QED
    BY <2>1, <2>2 DEF PlayAction, Studied
<1>2. play # NoPlay
  BY <1>1 DEF NoPlay, Allocators, CentralAllocators, Requesting, Markets, Rotating
<1>3. QED
  BY <1>1, <1>2 DEF StudiesInv, StudyInv, Played

(* A step of a play spends, or closes the round. *)
LEMMA PlayStep ==
  ASSUME StudiesInv, PlayAction
  PROVE  StudiesInv' /\ Played /\ (Spends \/ Closes)
<1>1. Played
  BY PlayedStep
<1>2. Playing' /\ (Spends \/ Closes)
  BY <1>1, PlanStep, ChooseStep, BidStep, MoveStep, GrantStep, FillStep, EndStep, CloseStep,
     StartStep, ReportStep, PlanWithStep, AskStep DEF PlayAction
<1>3. StudyInv' /\ study'.stage = "play"
  BY <1>1 DEF Played, StudyInv, Tariff
<1>4. QED
  BY <1>1, <1>2, <1>3 DEF StudiesInv

(* Every step of both programs, one after the other, keeps the invariant. *)
LEMMA StudiesStep ==
  ASSUME StudiesInv, [StudyNext \/ ReportingNext]_studyVars
  PROVE  StudiesInv'
<1>1. CASE BeginPlay \/ BeginReporting
  BY <1>1, BeginStep DEF StudiesInv
<1>2. CASE Preparation
  <2>1. study.stage # "play"
    BY <1>2, PreparationPlays
  <2>2. QED
    BY <1>2, <2>1, PrepareStep DEF StudiesInv
<1>3. CASE PlayAction
  BY <1>3, PlayStep
<1>4. CASE UNCHANGED studyVars
  BY <1>4 DEF studyVars, StudiesInv, StudyInv, Tariff, Playing, PlayTyped, PlayPhased, PlayPays, ToPay, round,
              Bill, Outlay
<1>5. QED
  BY <1>1, <1>2, <1>3, <1>4 DEF StudyNext, ReportingNext, PlayAction

(* It holds before the forecast. *)
LEMMA StudiesBegin ==
  ASSUME StudyInit
  PROVE  StudiesInv
<1>1. PICK budget \in StudyBudgets, prices \in Tariffs :
        study = [budget |-> budget, prices |-> prices, cases |-> <<>>, outlook |-> <<[b \in 0 .. budget |-> 0]>>,
                 frontier |-> [t \in {0} |-> 0], round |-> 0, stage |-> "foresee"]
  BY DEF StudyInit
<1>2. budget \in Nat /\ Tariff(prices) /\ Rounds \in Nat
  BY StudyAssumption DEF Tariff
<1>3. QED
  BY <1>1, <1>2 DEF StudiesInv, StudyInv, StudyInit

(* The invariant of the studies holds throughout. *)
LEMMA StudiesAre == StudiesSpec => []StudiesInv
<1>1. StudyInit => StudiesInv
  BY StudiesBegin
<1>2. StudiesInv /\ [StudyNext \/ ReportingNext]_studyVars => StudiesInv'
  BY StudiesStep
<1>3. QED
  BY <1>1, <1>2, PTL DEF StudiesSpec

(* The assertions of the programs follow from it. *)
LEMMA StudiesFund ==
  ASSUME StudiesInv
  PROVE  PlaysAreFunded
<1>1. CASE study.stage = "play"
  <2>1. Playing
    BY <1>1 DEF StudiesInv
  <2>2. Over(play.credits) = play.credits[0] + play.credits[1] + play.credits[2]
    BY <2>1, OverPersons DEF Playing, PlayTyped
  <2>3. QED
    BY <2>1, <2>2 DEF Playing, PlayTyped, PlayPhased, PlayPays, PlaysAreFunded, RoundsAreFunded, round, Between
<1>2. CASE study.stage # "play"
  BY <1>2 DEF StudiesInv, StudyInv, NoPlay, PlaysAreFunded, RoundsAreFunded
<1>3. QED
  BY <1>1, <1>2

(* For any number of rounds, any budget, tariff, capacities, cases and      *)
(* credits, and for every allocator and every policy: a round closes with   *)
(* choices that keep within the capacities and can be paid; nothing is      *)
(* spent that was not there, whatever fees, reports and tentative           *)
(* commitments come and go; and no credit is made or lost (the assertions   *)
(* of study.run_policy and reporting_study.run).                            *)
THEOREM PlaysAreAlwaysFunded == StudiesSpec => []PlaysAreFunded
<1>1. StudiesInv => PlaysAreFunded
  BY StudiesFund
<1>2. QED
  BY <1>1, StudiesAre, PTL

-----------------------------------------------------------------------------
(* The oracle: what could be spent and earned, round after round. *)

(* There are sixty-four ways to serve three persons. *)
LEMMA ServingsAreFinite == IsFiniteSet(Servings)
<1> DEFINE W == Resources \X (Resources \X Resources)
           way == [w \in W |-> [i \in Persons |-> IF i = 0 THEN w[1] ELSE IF i = 1 THEN w[2][1] ELSE w[2][2]]]
           T == {way[w] : w \in W}
<1>1. IsFiniteSet(Resources)
  <2>1. IsFiniteSet({"defer"})
    BY FS_Singleton
  <2>2. IsFiniteSet({"defer"} \cup {"cheap"})
    BY <2>1, FS_AddElement
  <2>3. IsFiniteSet(({"defer"} \cup {"cheap"}) \cup {"premium"})
    BY <2>2, FS_AddElement
  <2>4. IsFiniteSet((({"defer"} \cup {"cheap"}) \cup {"premium"}) \cup {"consultation"})
    BY <2>3, FS_AddElement
  <2>5. Resources = (({"defer"} \cup {"cheap"}) \cup {"premium"}) \cup {"consultation"}
    BY DEF Resources
  <2>6. QED
    BY <2>4, <2>5
<1>2. IsFiniteSet(W)
  <2>1. IsFiniteSet(Resources \X Resources)
    BY <1>1, FS_Product, Zenon
  <2>2. QED
    BY <1>1, <2>1, FS_Product, Zenon
<1>3. ASSUME NEW c \in Servings PROVE c \in T
  <2> DEFINE w == <<c[0], <<c[1], c[2]>>>>
  <2>1. w \in W /\ w[1] = c[0] /\ w[2][1] = c[1] /\ w[2][2] = c[2]
    BY DEF Servings, Persons
  <2>2. c = way[w]
    <3>1. way[w] = [i \in Persons |-> IF i = 0 THEN w[1] ELSE IF i = 1 THEN w[2][1] ELSE w[2][2]]
      BY <2>1
    <3>2. c = [i \in Persons |-> c[i]]
      BY DEF Servings
    <3>3. \A i \in Persons : way[w][i] = c[i]
      BY <2>1, <3>1 DEF Persons
    <3> HIDE DEF way, w, W
    <3>4. QED
      BY <3>1, <3>2, <3>3
  <2>3. QED
    BY <2>1, <2>2
<1> HIDE DEF W, way
<1>4. IsFiniteSet(T)
  BY <1>2, ImageIsFinite
<1>5. QED
  BY <1>3, <1>4, FS_Subset

(* The choices that lead from one round to the next. *)
Leads(r, choices, s, v) ==
  /\ s[r + 1] = s[r] + Bill(r, choices) + PlanningOf(choices)
  /\ v[r + 1] = v[r] + Worth(r, choices)

(* s and v are what is spent, and what is earned, before each round. *)
Course(k, s, v) ==
  /\ s[0] = 0 /\ v[0] = 0
  /\ \A r \in 0 .. k - 1 : \E choices \in Bundles(r) : Leads(r, choices, s, v)

Amounts == [Nat -> Nat]

(* The states of the oracle bound every course within the budget. *)
FrontierInv ==
  /\ IsFiniteSet(DOMAIN study.frontier) /\ DOMAIN study.frontier \subseteq Nat
  /\ study.frontier \in [DOMAIN study.frontier -> Nat]
  /\ \A s, v \in Amounts :
       Course(study.round, s, v) /\ s[study.round] <= study.budget =>
         s[study.round] \in DOMAIN study.frontier /\ v[study.round] <= study.frontier[s[study.round]]

OracleInv ==
  IF study.stage \in {"foresee", "draw"} THEN study.frontier = [t \in {0} |-> 0] ELSE FrontierInv

(* What a play has spent and earned is a course. *)
CourseInv ==
  study.stage = "play" =>
    \E s, v \in Amounts :
      /\ Course(play.round, s, v) /\ v[play.round] = play.utility
      /\ s[play.round] + play.remaining + Committed <= study.budget

BoundInv == StudiesInv /\ OracleInv /\ CourseInv

(* What a bundle costs and is worth are natural numbers. *)
LEMMA OutcomeTypes ==
  ASSUME StudyInv, study.stage \in {"oracle", "play"}, NEW r \in 0 .. Rounds - 1, NEW choices \in Servings
  PROVE  Bill(r, choices) \in Nat /\ PlanningOf(choices) \in 0 .. 3 /\ Worth(r, choices) \in Nat
<1>1. r \in Nat /\ study.cases[r] \in Cases
  BY StudyNumbers DEF Numbers, StudyInv
<1>2. QED
  BY <1>1, BillIs, WorthIs DEF StudyInv, PlanningOf

(* What the oracle attains in a round, of which there are finitely many. *)
LEMMA AttainedTypes ==
  ASSUME StudyInv, study.stage = "oracle", FrontierInv, NEW r \in 0 .. Rounds - 1
  PROVE  /\ IsFiniteSet(Attained(r))
         /\ \A p \in Attained(r) : p[1] \in Nat /\ p[2] \in Nat /\ p[1] <= study.budget
<1> DEFINE outcome == [choices \in Bundles(r) |-> <<Bill(r, choices) + PlanningOf(choices), Worth(r, choices)>>]
           pairs == (DOMAIN study.frontier) \X Outcomes(r)
           attain == [w \in pairs |-> <<w[1] + w[2][1], study.frontier[w[1]] + w[2][2]>>]
           all == {attain[w] : w \in pairs}
<1>1. Bundles(r) \subseteq Servings
  BY DEF Bundles, Servings
<1>2. IsFiniteSet(Outcomes(r))
  <2>1. IsFiniteSet(Bundles(r))
    BY <1>1, ServingsAreFinite, FS_Subset
  <2>2. Outcomes(r) = {outcome[choices] : choices \in Bundles(r)}
    BY DEF Outcomes
  <2> HIDE DEF outcome
  <2>3. QED
    BY <2>1, <2>2, ImageIsFinite
<1>3. \A o \in Outcomes(r) : o[1] \in Nat /\ o[2] \in Nat
  <2>1. TAKE o \in Outcomes(r)
  <2>2. PICK choices \in Bundles(r) : o = <<Bill(r, choices) + PlanningOf(choices), Worth(r, choices)>>
    BY DEF Outcomes
  <2>3. Bill(r, choices) \in Nat /\ PlanningOf(choices) \in 0 .. 3 /\ Worth(r, choices) \in Nat
    BY <1>1, OutcomeTypes
  <2>4. QED
    BY <2>2, <2>3
<1>4. IsFiniteSet(pairs)
  BY <1>2, FS_Product, Zenon DEF FrontierInv
<1>5. Attained(r) \subseteq all
  <2>1. ASSUME NEW spent \in DOMAIN study.frontier, NEW o \in Outcomes(r)
        PROVE  <<spent + o[1], study.frontier[spent] + o[2]>> \in all
    <3> DEFINE w == <<spent, o>>
    <3>1. w \in pairs /\ w[1] = spent /\ w[2] = o
      OBVIOUS
    <3>2. attain[w] = <<spent + o[1], study.frontier[spent] + o[2]>>
      BY <3>1
    <3> HIDE DEF attain, pairs, w
    <3>3. QED
      BY <3>1, <3>2
  <2> HIDE DEF all
  <2>2. \A p \in Attained(r) :
          \E spent \in DOMAIN study.frontier, o \in Outcomes(r) : p = <<spent + o[1], study.frontier[spent] + o[2]>>
    BY DEF Attained
  <2>3. QED
    BY <2>1, <2>2
<1>6. IsFiniteSet(all)
  <2> HIDE DEF pairs, attain
  <2>1. QED
    BY <1>4, ImageIsFinite
<1>7. IsFiniteSet(Attained(r))
  <2> HIDE DEF all
  <2>1. QED
    BY <1>5, <1>6, FS_Subset
<1>8. \A p \in Attained(r) : p[1] \in Nat /\ p[2] \in Nat /\ p[1] <= study.budget
  <2>1. TAKE p \in Attained(r)
  <2>2. PICK spent \in DOMAIN study.frontier, o \in Outcomes(r) :
          p = <<spent + o[1], study.frontier[spent] + o[2]>> /\ p[1] <= study.budget
    BY DEF Attained
  <2>3. spent \in Nat /\ study.frontier[spent] \in Nat
    BY DEF FrontierInv
  <2>4. QED
    BY <1>3, <2>2, <2>3
<1>9. QED
  BY <1>7, <1>8

(* Of the ways to have spent an amount, the frontier has the best. *)
LEMMA FrontierIs ==
  ASSUME StudyInv, study.stage = "oracle", FrontierInv, NEW r \in 0 .. Rounds - 1
  PROVE  /\ DOMAIN Frontier(r) = {p[1] : p \in Attained(r)}
         /\ IsFiniteSet(DOMAIN Frontier(r)) /\ DOMAIN Frontier(r) \subseteq Nat
         /\ Frontier(r) \in [DOMAIN Frontier(r) -> Nat]
         /\ \A p \in Attained(r) : p[2] <= Frontier(r)[p[1]]
<1> DEFINE A == Attained(r)
           spent == {p[1] : p \in A}
           first == [p \in A |-> p[1]]
           second == [p \in A |-> p[2]]
           worths(t) == {p[2] : p \in {q \in A : q[1] = t}}
<1>1. IsFiniteSet(A) /\ \A p \in A : p[1] \in Nat /\ p[2] \in Nat
  BY AttainedTypes
<1>2. Frontier(r) = [t \in spent |-> Max(worths(t))]
  BY DEF Frontier
<1>3. IsFiniteSet(spent)
  <2>1. spent = {first[p] : p \in A}
    OBVIOUS
  <2> HIDE DEF spent, first, A
  <2>2. QED
    BY <1>1, <2>1, ImageIsFinite
<1>4. ASSUME NEW t \in spent
      PROVE  /\ Max(worths(t)) \in Nat
             /\ \A p \in A : p[1] = t => p[2] <= Max(worths(t))
  <2> DEFINE B == {q \in A : q[1] = t}
  <2>1. IsFiniteSet(B)
    BY <1>1, FS_Subset
  <2>2. IsFiniteSet(worths(t))
    <3>1. worths(t) = {second[p] : p \in B}
      OBVIOUS
    <3> HIDE DEF worths, second, B
    <3>2. QED
      BY <2>1, <3>1, ImageIsFinite
  <2>3. worths(t) \in SUBSET Nat /\ worths(t) # {} /\ \A p \in A : p[1] = t => p[2] \in worths(t)
    BY <1>1
  <2> HIDE DEF worths
  <2>4. Max(worths(t)) \in worths(t) /\ \A x \in worths(t) : x <= Max(worths(t))
    BY <2>2, <2>3, MaxIs
  <2>5. QED
    BY <2>3, <2>4
<1>5. spent \subseteq Nat /\ \A p \in A : p[1] \in spent
  BY <1>1
<1> HIDE DEF worths, spent
<1>6. DOMAIN Frontier(r) = spent /\ \A t \in spent : Frontier(r)[t] = Max(worths(t))
  BY <1>2
<1>7. \A p \in Attained(r) : p[2] <= Frontier(r)[p[1]]
  BY <1>4, <1>5, <1>6
<1>8. Frontier(r) \in [DOMAIN Frontier(r) -> Nat]
  BY <1>2, <1>4, <1>6
<1>9. QED
  BY <1>3, <1>5, <1>6, <1>7, <1>8 DEF spent

(* Courses are those of the tariff and of the cases. *)
LEMMA CoursesStay ==
  ASSUME study'.prices = study.prices, study'.cases = study.cases
  PROVE  \A k, s, v : Course(k, s, v)' = Course(k, s, v)
BY DEF Course, Leads, Bill, Outlay, Worth

(* A course of one round more is a course and one round. *)
LEMMA CourseSteps ==
  ASSUME NEW k \in Nat, NEW s \in Amounts, NEW v \in Amounts
  PROVE  Course(k + 1, s, v) <=> Course(k, s, v) /\ \E choices \in Bundles(k) : Leads(k, choices, s, v)
<1>1. 0 .. (k + 1) - 1 = (0 .. k - 1) \cup {k}
  OBVIOUS
<1>2. QED
  BY <1>1 DEF Course

(* A round of the oracle keeps its bound. *)
LEMMA OracleKeeps ==
  ASSUME StudyInv, FrontierInv, OracleRound
  PROVE  FrontierInv'
<1>1. study.stage = "oracle" /\ study.round < Rounds /\ Rounds \in Nat /\ study.round \in 0 .. Rounds
  BY StudyNumbers DEF OracleRound, StudyInv, Numbers
<1> DEFINE r == study.round
<1>2. r \in 0 .. Rounds - 1 /\ r \in Nat
  BY <1>1
<1>3. /\ study'.frontier = Frontier(r) /\ study'.round = r + 1 /\ study'.budget = study.budget
      /\ study'.prices = study.prices /\ study'.cases = study.cases
  BY DEF OracleRound, StudyInv
<1>4. ASSUME NEW s \in Amounts, NEW v \in Amounts, Course(r + 1, s, v), s[r + 1] <= study.budget
      PROVE  s[r + 1] \in DOMAIN Frontier(r) /\ v[r + 1] <= Frontier(r)[s[r + 1]]
  <2>1. PICK choices \in Bundles(r) : Leads(r, choices, s, v)
    BY <1>2, <1>4, CourseSteps
  <2>2. Course(r, s, v)
    BY <1>2, <1>4, CourseSteps
  <2>3. Bill(r, choices) \in Nat /\ PlanningOf(choices) \in 0 .. 3 /\ Worth(r, choices) \in Nat
    BY <1>1, <1>2, OutcomeTypes DEF Bundles, Servings
  <2>4. s[r] \in Nat /\ v[r] \in Nat /\ s[r + 1] \in Nat /\ v[r + 1] \in Nat /\ study.budget \in Nat
    <3>1. r \in Nat /\ r + 1 \in Nat
      BY <1>2
    <3>2. study.budget \in Nat
      BY DEF StudyInv
    <3> HIDE DEF r
    <3>3. QED
      BY <3>1, <3>2 DEF Amounts
  <2>5. s[r] <= study.budget
    BY <1>4, <2>1, <2>3, <2>4 DEF Leads
  <2>6. s[r] \in DOMAIN study.frontier /\ v[r] <= study.frontier[s[r]] /\ study.frontier[s[r]] \in Nat
    BY <2>2, <2>5 DEF FrontierInv
  <2> DEFINE o == <<Bill(r, choices) + PlanningOf(choices), Worth(r, choices)>>
             p == <<s[r] + o[1], study.frontier[s[r]] + o[2]>>
  <2>7. o \in Outcomes(r) /\ o[1] = Bill(r, choices) + PlanningOf(choices) /\ o[2] = Worth(r, choices)
    BY DEF Outcomes
  <2>8. s[r] + o[1] = s[r + 1] /\ v[r + 1] <= study.frontier[s[r]] + o[2]
    BY <2>1, <2>3, <2>4, <2>6, <2>7 DEF Leads
  <2>9. p \in Attained(r) /\ p[1] = s[r + 1] /\ p[2] = study.frontier[s[r]] + o[2]
    <3> HIDE DEF o
    <3>1. p[1] = s[r + 1] /\ p[2] = study.frontier[s[r]] + o[2]
      BY <2>8
    <3>2. p \in Attained(r)
      BY <1>4, <2>6, <2>7, <3>1 DEF Attained
    <3>3. QED
      BY <3>1, <3>2
  <2>10. p[2] \in Nat
    BY <2>3, <2>6, <2>7, <2>9
  <2> HIDE DEF o, p
  <2>11. /\ s[r + 1] \in DOMAIN Frontier(r) /\ p[2] <= Frontier(r)[s[r + 1]]
         /\ Frontier(r)[s[r + 1]] \in Nat
    <3>1. DOMAIN Frontier(r) = {q[1] : q \in Attained(r)} /\ \A q \in Attained(r) : q[2] <= Frontier(r)[q[1]]
      BY <1>1, <1>2, FrontierIs
    <3>2. Frontier(r) \in [DOMAIN Frontier(r) -> Nat]
      BY <1>1, <1>2, FrontierIs
    <3>3. s[r + 1] \in DOMAIN Frontier(r) /\ p[2] <= Frontier(r)[s[r + 1]]
      BY <2>9, <3>1
    <3>4. QED
      BY <3>2, <3>3
  <2>12. QED
    BY <2>4, <2>8, <2>9, <2>10, <2>11
<1>5. /\ IsFiniteSet(DOMAIN Frontier(r)) /\ DOMAIN Frontier(r) \subseteq Nat
      /\ Frontier(r) \in [DOMAIN Frontier(r) -> Nat]
  BY <1>1, <1>2, FrontierIs
<1> HIDE DEF r
<1>6. \A s, v \in Amounts :
        Course(study.round, s, v)' /\ s[study.round]' <= study'.budget =>
          s[study.round]' \in DOMAIN study'.frontier /\ v[study.round]' <= study'.frontier[s[study.round]']
  BY <1>3, <1>4, CoursesStay
<1>7. QED
  BY <1>3, <1>5, <1>6 DEF FrontierInv

(* A course goes on by the round that is closed. *)
LEMMA CourseGoesOn ==
  ASSUME NEW k \in Nat, NEW s \in Amounts, NEW v \in Amounts, Course(k, s, v),
         NEW choices \in Bundles(k), NEW cost \in Nat, NEW worth \in Nat,
         cost = Bill(k, choices) + PlanningOf(choices), worth = Worth(k, choices),
         Bill(k, choices) \in Nat, PlanningOf(choices) \in Nat
  PROVE  \E t, w \in Amounts : Course(k + 1, t, w) /\ t[k + 1] = s[k] + cost /\ w[k + 1] = v[k] + worth
<1> DEFINE t == [s EXCEPT ![k + 1] = s[k] + cost]
           w == [v EXCEPT ![k + 1] = v[k] + worth]
<1>1. s[k] \in Nat /\ v[k] \in Nat /\ k + 1 \in Nat
  BY DEF Amounts
<1>2. /\ t \in Amounts /\ w \in Amounts
      /\ \A r \in 0 .. k : t[r] = s[r] /\ w[r] = v[r]
      /\ t[k + 1] = s[k] + cost /\ w[k + 1] = v[k] + worth
  BY <1>1 DEF Amounts
<1> HIDE DEF t, w
<1>3. Course(k, t, w)
  <2>1. t[0] = 0 /\ w[0] = 0
    BY <1>2 DEF Course
  <2>2. ASSUME NEW r \in 0 .. k - 1 PROVE \E c \in Bundles(r) : Leads(r, c, t, w)
    <3>1. PICK c \in Bundles(r) : Leads(r, c, s, v)
      BY DEF Course
    <3>2. r \in 0 .. k /\ r + 1 \in 0 .. k
      OBVIOUS
    <3>3. Leads(r, c, t, w)
      BY <1>2, <3>1, <3>2 DEF Leads
    <3>4. QED
      BY <3>3
  <2>3. QED
    BY <2>1, <2>2 DEF Course
<1>4. Leads(k, choices, t, w)
  <2>1. k \in 0 .. k
    OBVIOUS
  <2>2. t[k] = s[k] /\ w[k] = v[k]
    BY <1>2, <2>1
  <2>3. QED
    BY <1>1, <1>2, <2>2 DEF Leads
<1>5. Course(k + 1, t, w)
  BY <1>2, <1>3, <1>4, CourseSteps
<1>6. QED
  BY <1>2, <1>5

(* In the rounds that are not played nothing is spent or earned. *)
LEMMA CourseRests ==
  ASSUME StudyInv, study.stage = "play", NEW k \in 0 .. Rounds, NEW s \in Amounts, NEW v \in Amounts, Course(k, s, v)
  PROVE  \E t, w \in Amounts : Course(Rounds, t, w) /\ t[Rounds] = s[k] /\ w[Rounds] = v[k]
<1> DEFINE t == [r \in Nat |-> IF r <= k THEN s[r] ELSE s[k]]
           w == [r \in Nat |-> IF r <= k THEN v[r] ELSE v[k]]
<1>1. Rounds \in Nat /\ k \in Nat /\ s[k] \in Nat /\ v[k] \in Nat
  BY StudyNumbers DEF Numbers, Amounts
<1>2. \A r \in Nat : t[r] = (IF r <= k THEN s[r] ELSE s[k]) /\ w[r] = (IF r <= k THEN v[r] ELSE v[k])
  OBVIOUS
<1>3. t \in Amounts /\ w \in Amounts
  BY <1>1 DEF Amounts
<1> HIDE DEF t, w
<1>4. t[0] = 0 /\ w[0] = 0 /\ t[Rounds] = s[k] /\ w[Rounds] = v[k]
  BY <1>1, <1>2 DEF Course
<1>5. ASSUME NEW r \in 0 .. Rounds - 1 PROVE \E c \in Bundles(r) : Leads(r, c, t, w)
  <2>1. r \in Nat /\ r + 1 \in Nat
    BY <1>1
  <2>2. CASE r < k
    <3>1. PICK c \in Bundles(r) : Leads(r, c, s, v)
      BY <1>1, <2>1, <2>2 DEF Course
    <3>2. t[r] = s[r] /\ t[r + 1] = s[r + 1] /\ w[r] = v[r] /\ w[r + 1] = v[r + 1]
      BY <1>1, <1>2, <2>1, <2>2
    <3>3. Leads(r, c, t, w)
      BY <3>1, <3>2 DEF Leads
    <3>4. QED
      BY <3>3
  <2>3. CASE r >= k
    <3>1. t[r] = s[k] /\ t[r + 1] = s[k] /\ w[r] = v[k] /\ w[r + 1] = v[k]
      BY <1>1, <1>2, <2>1, <2>3
    <3>2. Deferred \in Bundles(r) /\ Bill(r, Deferred) = 0 /\ PlanningOf(Deferred) = 0 /\ Worth(r, Deferred) = 0
      <4>1. Deferred \in Servings /\ Feasible(r, Deferred) /\ Bill(r, Deferred) = 0
        BY <2>1, NobodyServed DEF StudyInv
      <4>2. study.cases[r] \in Cases
        BY DEF StudyInv
      <4>3. Worth(r, Deferred) = 0
        BY <4>1, <4>2, WorthIs
      <4>4. QED
        BY <4>1, <4>3 DEF Bundles, Servings, PlanningOf
    <3>3. Leads(r, Deferred, t, w)
      BY <1>1, <3>1, <3>2 DEF Leads
    <3>4. QED
      BY <3>2, <3>3
  <2>4. QED
    BY <1>1, <2>1, <2>2, <2>3
<1>6. Course(Rounds, t, w)
  BY <1>4, <1>5 DEF Course
<1>7. QED
  BY <1>3, <1>4, <1>6

(* A step of a play keeps to its course. *)
LEMMA CourseKeeps ==
  ASSUME BoundInv, PlayAction
  PROVE  CourseInv'
<1>1. Played /\ (Spends \/ Closes) /\ StudyInv /\ study.stage = "play" /\ PlayTyped
  BY PlayStep DEF BoundInv, Played, Playing
<1>2. /\ study' = study /\ Rounds \in Nat /\ play.round \in 0 .. Rounds /\ play.round \in Nat
      /\ play.remaining \in Nat /\ play.utility \in Nat /\ play.choices \in Servings /\ study.budget \in Nat
  <2>1. study' = study /\ study.budget \in Nat /\ Rounds \in Nat
    BY <1>1, StudyNumbers DEF Played, Numbers, StudyInv
  <2>2. play.round \in 0 .. Rounds /\ play.remaining \in Nat /\ play.utility \in Nat /\ play.choices \in Servings
    BY <1>1 DEF PlayTyped
  <2>3. QED
    BY <2>1, <2>2
<1>3. PICK s \in Amounts, v \in Amounts :
        /\ Course(play.round, s, v) /\ v[play.round] = play.utility
        /\ s[play.round] + play.remaining + Committed <= study.budget
  BY <1>1 DEF BoundInv, CourseInv
<1>4. s[play.round] \in Nat /\ v[play.round] \in Nat
  BY <1>2 DEF Amounts
<1>5. Committed \in Int
  <2>1. Bill(play.round, play.choices) \in Nat
    BY <1>1, <1>2, BillIs DEF StudyInv
  <2>2. ToPay \in Nat
    BY <2>1 DEF ToPay, round
  <2>3. play.phase \in Between \cup Undecided \cup Deciding \cup {"close", "finish"}
    BY <1>1 DEF Played, Playing, PlayPhased
  <2>4. QED
    BY <2>1, <2>2, <2>3 DEF Committed, Between, Undecided, Deciding
<1>6. ASSUME NEW t \in Amounts, NEW w \in Amounts,
             Course(play'.round, t, w), w[play'.round] = play'.utility,
             t[play'.round] + play'.remaining + Committed' <= study.budget
      PROVE  CourseInv'
  <2>1. Course(play.round, t, w)'
    BY <1>2, <1>6, CoursesStay
  <2>2. QED
    BY <1>2, <1>6, <2>1 DEF CourseInv
<1>7. Playing'
  BY <1>1, PlayStep DEF BoundInv, StudiesInv, Played
<1>8. play'.remaining \in Nat
  BY <1>7 DEF Playing, PlayTyped
<1>9. Committed' \in Int
  <2>1. Bill(play.round, play.choices)' \in Nat
    <3>1. play'.round \in Nat /\ play'.choices \in Servings
      BY <1>7, <1>2 DEF Playing, PlayTyped
    <3>2. \A r \in Nat, c \in Servings : Bill(r, c) \in Nat
      BY <1>1, BillIs DEF StudyInv
    <3>3. Bill(play'.round, play'.choices) \in Nat
      BY <3>1, <3>2
    <3>4. QED
      BY <1>2, <3>3, BillsStay
  <2>2. ToPay' \in Nat
    BY <2>1 DEF ToPay, round
  <2>3. play'.phase \in Between \cup Undecided \cup Deciding \cup {"close", "finish"}
    BY <1>7 DEF Playing, PlayPhased
  <2>4. QED
    BY <2>1, <2>2, <2>3 DEF Committed, Between, Undecided, Deciding
<1>10. CASE Spends
  BY <1>2, <1>3, <1>4, <1>5, <1>6, <1>8, <1>9, <1>10 DEF Spends
<1>11. CASE Closes
  <2> DEFINE cost == Bill(play.round, play.choices) + PlanningOf(play.choices)
             worth == Worth(play.round, play.choices)
  <2>1. play.round \in 0 .. Rounds - 1 /\ play.choices \in Bundles(play.round)
    BY <1>2, <1>11 DEF Closes, Bundles, Servings
  <2>2. Bill(play.round, play.choices) \in Nat /\ PlanningOf(play.choices) \in 0 .. 3 /\ worth \in Nat
    BY <1>1, <1>2, <2>1, OutcomeTypes
  <2>3. cost \in Nat /\ PlanningOf(play.choices) \in Nat /\ cost <= Bill(play.round, play.choices) + 3
    BY <2>2
  <2>4. PICK t \in Amounts, w \in Amounts :
          /\ Course(play.round + 1, t, w)
          /\ t[play.round + 1] = s[play.round] + cost /\ w[play.round + 1] = v[play.round] + worth
    BY <1>2, <1>3, <2>1, <2>2, <2>3, CourseGoesOn
  <2>5. /\ play'.round = play.round + 1 /\ play'.utility = play.utility + worth
        /\ play'.remaining + Bill(play.round, play.choices) + 3 <= play.remaining + Committed
        /\ Committed' = 0
    BY <1>11 DEF Closes, Committed, Between, Deciding
  <2> HIDE DEF cost, worth
  <2>6. t[play'.round] + play'.remaining + Committed' <= study.budget
    BY <1>2, <1>3, <1>4, <1>5, <1>8, <2>2, <2>3, <2>4, <2>5
  <2>7. QED
    BY <1>3, <1>6, <2>4, <2>5, <2>6
<1>12. QED
  BY <1>1, <1>10, <1>11

(* Every step keeps the bound: the oracle goes on for all courses at once,  *)
(* a play goes along one of them.                                           *)
LEMMA BoundStep ==
  ASSUME BoundInv, [StudyNext \/ ReportingNext]_studyVars
  PROVE  BoundInv'
<1>1. StudiesInv'
  BY StudiesStep DEF BoundInv
<1>2. CASE Preparation
  <2>1. play' = play /\ study.stage # "play" /\ StudyInv
    BY <1>2, PreparationPlays DEF BoundInv, StudiesInv
  <2>2. study'.stage # "play"
    BY <1>2, <2>1, PrepareStep
  <2>3. CourseInv'
    BY <2>2 DEF CourseInv
  <2>4. OracleInv'
    <3>1. CASE Foresee
      <4>1. study.stage = "foresee" /\ study'.stage \in {"foresee", "draw"} /\ study'.frontier = study.frontier
        <5>1. study.stage = "foresee"
          BY <3>1 DEF Foresee
        <5>2. PICK outlook :
                study' = IF Rounds - Len(study.outlook) = 0 THEN [study EXCEPT !.stage = "draw"]
                                                            ELSE [study EXCEPT !.outlook = outlook]
          BY <3>1 DEF Foresee
        <5>3. QED
          BY <2>1, <5>1, <5>2 DEF StudyInv
      <4>2. QED
        BY <4>1 DEF BoundInv, OracleInv
    <3>2. CASE Draw
      <4>1. study.stage = "draw" /\ study'.stage = "oracle" /\ study'.frontier = study.frontier
            /\ study'.round = study.round /\ study'.budget = study.budget
        BY <2>1, <3>2 DEF Draw, StudyInv
      <4>2. study.frontier = [t \in {0} |-> 0] /\ study.round = 0
        BY <2>1, <4>1 DEF BoundInv, OracleInv, StudyInv
      <4>3. IsFiniteSet(DOMAIN study'.frontier)
        <5>1. DOMAIN study'.frontier = {0}
          BY <4>1, <4>2
        <5>2. QED
          BY <5>1, FS_Singleton
      <4>4. ASSUME NEW s \in Amounts, NEW v \in Amounts, Course(study.round, s, v)'
            PROVE  s[study'.round] = 0 /\ v[study'.round] = 0
        <5>1. s[0] = 0 /\ v[0] = 0
          BY <4>4 DEF Course
        <5>2. QED
          BY <4>1, <4>2, <5>1
      <4>5. FrontierInv'
        BY <4>1, <4>2, <4>3, <4>4 DEF FrontierInv
      <4>6. QED
        BY <4>1, <4>5 DEF OracleInv
    <3>3. CASE OracleRound
      <4>1. study.stage = "oracle"
        BY <3>3 DEF OracleRound
      <4>2. FrontierInv
        BY <4>1 DEF BoundInv, OracleInv
      <4>3. FrontierInv'
        BY <2>1, <3>3, <4>2, OracleKeeps
      <4>4. study'.stage = "oracle"
        BY <2>1, <3>3, <4>1 DEF OracleRound, StudyInv
      <4>5. QED
        BY <4>3, <4>4 DEF OracleInv
    <3>4. QED
      BY <1>2, <3>1, <3>2, <3>3 DEF Preparation
  <2>5. QED
    BY <1>1, <2>3, <2>4 DEF BoundInv
<1>3. ASSUME study'.frontier = study.frontier, study'.prices = study.prices, study'.cases = study.cases,
             study'.round = study.round, study'.budget = study.budget,
             study.stage \in {"foresee", "draw"} <=> study'.stage \in {"foresee", "draw"}
      PROVE  OracleInv'
  <2>1. FrontierInv => FrontierInv'
    BY <1>3, CoursesStay DEF FrontierInv
  <2>2. QED
    BY <1>3, <2>1 DEF BoundInv, OracleInv
<1>4. CASE BeginPlay \/ BeginReporting
  <2>1. study.stage = "oracle" /\ study' = [study EXCEPT !.stage = "play"] /\ StudyInv
    BY <1>4 DEF BeginPlay, BeginReporting, Begun, BoundInv, StudiesInv
  <2>2. /\ study'.frontier = study.frontier /\ study'.prices = study.prices /\ study'.cases = study.cases
        /\ study'.round = study.round /\ study'.budget = study.budget /\ study'.stage = "play"
    BY <2>1 DEF StudyInv
  <2>3. OracleInv'
    BY <1>3, <2>1, <2>2
  <2>4. CourseInv'
    <3> DEFINE z == [r \in Nat |-> 0]
    <3>1. z \in Amounts /\ z[0] = 0
      BY DEF Amounts
    <3>2. play'.round = 0 /\ play'.utility = 0 /\ play'.remaining = study.budget /\ Committed' = 0
      <4>1. BeginsWith
        BY <1>4, <2>1, BeginStep
      <4>2. QED
        BY <4>1 DEF BeginsWith, Committed, Between, Deciding
    <3>3. Course(play.round, z, z)'
      BY <3>1, <3>2 DEF Course
    <3> HIDE DEF z
    <3>4. study.budget \in Nat
      BY <2>1 DEF StudyInv
    <3>5. QED
      BY <2>2, <3>1, <3>2, <3>3, <3>4 DEF CourseInv
  <2>5. QED
    BY <1>1, <2>3, <2>4 DEF BoundInv
<1>5. CASE PlayAction
  <2>1. CourseInv'
    BY <1>5, CourseKeeps
  <2>2. study' = study
    BY <1>5, PlayStep DEF BoundInv, Played
  <2>3. OracleInv'
    BY <1>3, <2>2
  <2>4. QED
    BY <1>1, <2>1, <2>3 DEF BoundInv
<1>6. CASE UNCHANGED studyVars
  <2>1. study' = study /\ play' = play
    BY <1>6 DEF studyVars
  <2>2. OracleInv'
    BY <1>3, <2>1
  <2>3. CourseInv'
    <3>1. Committed' = Committed
      BY <2>1 DEF Committed, ToPay, round, Bill, Outlay
    <3>2. CourseInv => CourseInv'
      BY <2>1, <3>1, CoursesStay DEF CourseInv
    <3>3. QED
      BY <3>2 DEF BoundInv
  <2>4. QED
    BY <1>1, <2>2, <2>3 DEF BoundInv
<1>7. QED
  BY <1>2, <1>4, <1>5, <1>6 DEF StudyNext, ReportingNext, PlayAction

(* It holds before the forecast. *)
LEMMA BoundBegins ==
  ASSUME StudyInit
  PROVE  BoundInv
<1>1. StudiesInv
  BY StudiesBegin
<1>2. study.stage = "foresee" /\ study.frontier = [t \in {0} |-> 0]
  BY DEF StudyInit
<1>3. QED
  BY <1>1, <1>2 DEF BoundInv, OracleInv, CourseInv

(* A play that is over went along a course within the budget, and its last  *)
(* amount is a state of the oracle.                                         *)
LEMMA BoundHolds ==
  ASSUME BoundInv
  PROVE  OracleIsBound
<1>1. SUFFICES ASSUME play.phase = "over"
               PROVE  play.utility <= OracleValue
  BY DEF OracleIsBound
<1>2. study.stage = "play" /\ StudyInv
  BY <1>1 DEF BoundInv, StudiesInv, StudyInv, NoPlay
<1>3. PlayTyped /\ FrontierInv /\ study.round = Rounds
  BY <1>2 DEF BoundInv, StudiesInv, Playing, OracleInv, StudyInv
<1>4. play.round \in 0 .. Rounds /\ play.remaining \in Nat /\ play.utility \in Nat /\ study.budget \in Nat
      /\ Committed = 0 /\ Rounds \in Nat
  <2>1. play.round \in 0 .. Rounds /\ play.remaining \in Nat /\ play.utility \in Nat
    BY <1>3 DEF PlayTyped
  <2>2. study.budget \in Nat /\ Rounds \in Nat
    BY <1>2, StudyNumbers DEF StudyInv, Numbers
  <2>3. Committed = 0
    BY <1>1 DEF Committed, Between, Deciding
  <2>4. QED
    BY <2>1, <2>2, <2>3
<1>5. PICK s \in Amounts, v \in Amounts :
        /\ Course(play.round, s, v) /\ v[play.round] = play.utility
        /\ s[play.round] + play.remaining + Committed <= study.budget
  BY <1>2 DEF BoundInv, CourseInv
<1>6. PICK t \in Amounts, w \in Amounts :
        Course(Rounds, t, w) /\ t[Rounds] = s[play.round] /\ w[Rounds] = v[play.round]
  BY <1>2, <1>4, <1>5, CourseRests
<1>7. t[Rounds] \in Nat /\ t[Rounds] <= study.budget
  BY <1>4, <1>5, <1>6 DEF Amounts
<1>8. /\ t[Rounds] \in DOMAIN study.frontier /\ play.utility <= study.frontier[t[Rounds]]
      /\ study.frontier[t[Rounds]] \in Nat
  BY <1>3, <1>5, <1>6, <1>7 DEF FrontierInv
<1> DEFINE all == {study.frontier[x] : x \in DOMAIN study.frontier}
<1>9. IsFiniteSet(all) /\ all \in SUBSET Nat /\ study.frontier[t[Rounds]] \in all
  BY <1>3, <1>8, ImageIsFinite DEF FrontierInv
<1>10. OracleValue = Max(all)
  BY DEF OracleValue
<1> HIDE DEF all
<1>11. Max(all) \in all /\ study.frontier[t[Rounds]] <= Max(all)
  <2>1. all \in SUBSET Int /\ all # {}
    BY <1>9
  <2>2. QED
    BY <1>9, <2>1, MaxIs
<1>12. QED
  BY <1>4, <1>8, <1>9, <1>10, <1>11

(* "Exact relaxed omniscient bound" (study.oracle): for any number of       *)
(* rounds, any budget, tariff, capacities and cases, no allocator and no    *)
(* policy, whatever it knows, bids or reports, is paid more value than the  *)
(* oracle found for the same cases and budget.                              *)
THEOREM OracleIsAlwaysBound == StudiesSpec => []OracleIsBound
<1>1. StudyInit => BoundInv
  BY BoundBegins
<1>2. BoundInv /\ [StudyNext \/ ReportingNext]_studyVars => BoundInv'
  BY BoundStep
<1>3. BoundInv => OracleIsBound
  BY BoundHolds
<1>4. QED
  BY <1>1, <1>2, <1>3, PTL DEF StudiesSpec

-----------------------------------------------------------------------------
(* The bills *)

(* Rounding up a fraction: at least its value, and less than one above it. *)
LEMMA RoundedUp ==
  ASSUME NEW n \in Nat, NEW d \in Nat \ {0}
  PROVE  /\ (n + d - 1) \div d \in Nat
         /\ n <= ((n + d - 1) \div d) * d
         /\ ((n + d - 1) \div d) * d < n + d
<1> DEFINE m == n + d - 1
           q == m \div d
           r == m % d
<1>1. m \in Nat /\ d > 0
  OBVIOUS
<1>2. q \in Nat /\ r \in 0 .. (d - 1) /\ m = d * q + r
  <2> HIDE DEF m
  <2> QED BY <1>1
<1>3. q * d = m - r
  <2> HIDE DEF q, r, m
  <2> QED BY <1>1, <1>2
<1>4. QED
  BY <1>2, <1>3

(* More units cost as much or more. *)
LEMMA MoreUnits ==
  ASSUME NEW u \in Nat, NEW v \in Nat, u <= v, NEW k \in Nat
  PROVE  u * k <= v * k
<1>1. PICK w \in Nat : v = u + w
  <2>1. v - u \in Nat /\ v = u + (v - u)
    OBVIOUS
  <2>2. QED
    BY <2>1
<1>2. v * k = u * k + w * k /\ w * k \in Nat /\ u * k \in Nat
  BY <1>1
<1>3. QED
  BY <1>2

LEMMA QuotientGrows ==
  ASSUME NEW m \in Nat, NEW n \in Nat, m <= n, NEW d \in Nat \ {0}
  PROVE  m \div d <= n \div d
<1> DEFINE p == m \div d
           q == n \div d
<1>1. p \in Nat /\ q \in Nat /\ p * d <= m /\ n < (q + 1) * d
  <2>1. p \in Nat /\ m % d \in Nat /\ m = d * p + (m % d)
    OBVIOUS
  <2>2. q \in Nat /\ n % d \in 0 .. (d - 1) /\ n = d * q + (n % d)
    OBVIOUS
  <2> HIDE DEF p, q
  <2>3. (q + 1) * d = d * q + d /\ p * d = d * p
    BY <2>1, <2>2
  <2>4. d * p \in Nat /\ d * q \in Nat
    BY <2>1, <2>2
  <2>5. QED
    BY <2>1, <2>2, <2>3, <2>4
<1> HIDE DEF p, q
<1>2. ASSUME q < p PROVE FALSE
  <2>1. (q + 1) * d <= p * d
    BY <1>1, <1>2, MoreUnits
  <2>2. (q + 1) * d \in Nat /\ p * d \in Nat
    BY <1>1
  <2>3. QED
    BY <1>1, <2>1, <2>2
<1>3. p <= q
  BY <1>1, <1>2
<1>4. QED
  BY <1>3 DEF p, q

(* A sum of larger amounts is larger. *)
LEMMA TotalGrows ==
  ASSUME NEW S, IsFiniteSet(S), NEW v, NEW w, \A s \in S : v[s] \in Nat /\ w[s] \in Nat /\ v[s] <= w[s]
  PROVE  Total(S, v) <= Total(S, w)
<1>1. Coins(S, v) \subseteq Coins(S, w)
  BY DEF Coins
<1>2. IsFiniteSet(Coins(S, w))
  BY TotalType
<1>3. QED
  BY <1>1, <1>2, FS_Subset, FS_CardinalityType DEF Total

-----------------------------------------------------------------------------
PricesOK == \A d \in DOMAIN contract.prices : contract.prices[d] \in PricedDimension

(* The charge of a dimension is a number, covers its price and grows.       *)
LEMMA ChargeFacts ==
  ASSUME NEW price \in PricedDimension, NEW u \in Nat, NEW v \in Nat, u <= v
  PROVE  /\ Charge(price, u) \in Nat /\ Charge(price, v) \in Nat
         /\ Charge(price, u) <= Charge(price, v)
         /\ u * price.numerator <= Charge(price, u) * price.denominator
         /\ Charge(price, u) * price.denominator < u * price.numerator + price.denominator
<1> DEFINE k == price.numerator
           d == price.denominator
<1>1. k \in Nat /\ d \in Nat \ {0}
  BY BillingAssumption DEF PricedDimension
<1> HIDE DEF k, d
<1>2. u * k \in Nat /\ v * k \in Nat /\ u * k <= v * k
  BY <1>1, MoreUnits
<1>3. /\ (u * k + d - 1) \div d \in Nat /\ (v * k + d - 1) \div d \in Nat
      /\ u * k <= ((u * k + d - 1) \div d) * d /\ ((u * k + d - 1) \div d) * d < u * k + d
  BY <1>1, <1>2, RoundedUp
<1>4. u * k + d - 1 \in Nat /\ v * k + d - 1 \in Nat /\ u * k + d - 1 <= v * k + d - 1
  BY <1>1, <1>2
<1>5. (u * k + d - 1) \div d <= (v * k + d - 1) \div d
  BY <1>1, <1>4, QuotientGrows
<1>6. QED
  BY <1>3, <1>5 DEF Charge, k, d

(* What a bill says follows from its contract. *)
Billed ==
  /\ IsFiniteSet(DOMAIN contract.prices) /\ PricesOK
  /\ bill # NoBill =>
       /\ \A d \in DOMAIN contract.prices : bill.usage[d] \in Nat
       /\ bill.cost = CalculatedCost(bill.usage) /\ bill.breached = Exceeding(bill.usage)

LEMMA BilledImpliesCovered == Billed => BillIsCovered
<1> SUFFICES ASSUME Billed, bill # NoBill
             PROVE  /\ bill.breached = {} => bill.cost <= UpperBound
                    /\ \A d \in DOMAIN contract.prices :
                         /\ bill.usage[d] * contract.prices[d].numerator
                              <= Charge(contract.prices[d], bill.usage[d]) * contract.prices[d].denominator
                         /\ Charge(contract.prices[d], bill.usage[d]) * contract.prices[d].denominator
                              < bill.usage[d] * contract.prices[d].numerator + contract.prices[d].denominator
  BY DEF BillIsCovered
<1> DEFINE D == DOMAIN contract.prices
           usage == bill.usage
           most == [d \in D |-> contract.prices[d].maximum]
<1>1. \A d \in D : /\ contract.prices[d] \in PricedDimension /\ usage[d] \in Nat /\ most[d] \in Nat
  BY BillingAssumption DEF Billed, PricesOK, PricedDimension
<1>2. ASSUME bill.breached = {} PROVE bill.cost <= UpperBound
  <2>1. \A d \in D : usage[d] <= most[d]
    BY <1>1, <1>2 DEF Billed, Exceeding
  <2>2. \A d \in D : /\ DimensionCosts(usage)[d] \in Nat /\ DimensionCosts(most)[d] \in Nat
                     /\ DimensionCosts(usage)[d] <= DimensionCosts(most)[d]
    BY <1>1, <2>1, ChargeFacts DEF DimensionCosts
  <2>3. Total(D, DimensionCosts(usage)) <= Total(D, DimensionCosts(most))
    BY <2>2, TotalGrows DEF Billed
  <2>4. QED
    BY <2>3 DEF Billed, CalculatedCost, UpperBound
<1>3. ASSUME NEW d \in D
      PROVE  /\ usage[d] * contract.prices[d].numerator
                  <= Charge(contract.prices[d], usage[d]) * contract.prices[d].denominator
             /\ Charge(contract.prices[d], usage[d]) * contract.prices[d].denominator
                  < usage[d] * contract.prices[d].numerator + contract.prices[d].denominator
  <2>1. contract.prices[d] \in PricedDimension /\ usage[d] \in Nat /\ usage[d] <= usage[d]
    <3>1. contract.prices[d] \in PricedDimension /\ usage[d] \in Nat
      BY <1>1
    <3> HIDE DEF usage
    <3>2. QED
      BY <3>1
  <2>2. QED
    BY ONLY <2>1, ChargeFacts, BillingAssumption
<1>4. QED
  BY <1>2, <1>3

(* No usage without a breach costs more than was quoted, and charges are    *)
(* prices rounded up: for all contracts and all usage.                      *)
THEOREM BillsAreCovered == BillingSpec => []BillIsCovered
<1>1. BillingInit => Billed
  <2> SUFFICES ASSUME BillingInit PROVE Billed
    OBVIOUS
  <2>1. PICK D \in SUBSET Dimensions : \E prices \in [D -> PricedDimension] : contract.prices = prices
    BY DEF BillingInit
  <2>2. DOMAIN contract.prices = D /\ \A d \in D : contract.prices[d] \in PricedDimension
    BY <2>1
  <2>3. IsFiniteSet(D)
    BY BillingAssumption, FS_Subset
  <2>4. QED
    BY <2>2, <2>3 DEF BillingInit, Billed, PricesOK
<1>2. Billed /\ [BillingNext]_billingVars => Billed'
  <2> SUFFICES ASSUME Billed, [BillingNext]_billingVars PROVE Billed'
    OBVIOUS
  <2>1. CASE BillingNext
    <3>1. PICK usage \in [DOMAIN contract.prices -> UnitCounts], amount \in Invoices,
               status \in {"unavailable", "pending", "confirmed", "free_access_declared"} :
                 ReconcileUsage(usage, status, amount)
      BY <2>1 DEF BillingNext
    <3>2. /\ contract' = contract /\ bill'.usage = usage
          /\ bill'.cost = CalculatedCost(usage) /\ bill'.breached = Exceeding(usage)
      BY <3>1 DEF ReconcileUsage
    <3>3. \A d \in DOMAIN contract.prices : usage[d] \in Nat
      BY BillingAssumption
    <3>4. CalculatedCost(usage)' = CalculatedCost(usage) /\ Exceeding(usage)' = Exceeding(usage)
      BY <3>2 DEF CalculatedCost, DimensionCosts, Exceeding
    <3>5. CalculatedCost(bill.usage)' = CalculatedCost(usage) /\ Exceeding(bill.usage)' = Exceeding(usage)
      BY <3>2 DEF CalculatedCost, DimensionCosts, Exceeding
    <3>6. QED
      BY <3>2, <3>3, <3>5 DEF Billed, PricesOK
  <2>2. CASE UNCHANGED billingVars
    BY <2>2 DEF billingVars, Billed, PricesOK, CalculatedCost, DimensionCosts, Exceeding
  <2>3. QED
    BY <2>1, <2>2
<1>3. QED
  BY <1>1, <1>2, BilledImpliesCovered, PTL DEF BillingSpec
=============================================================================
