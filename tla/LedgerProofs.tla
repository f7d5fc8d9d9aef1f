---------------------------- MODULE LedgerProofs ----------------------------
(***************************************************************************)
(* Theorems about Ledger for every number of accounts, holds and amounts.  *)
(*                                                                         *)
(* The row shapes alone are not inductive: that reserved never becomes     *)
(* negative rests on the column being the sum of the outstanding holds,    *)
(* and that sum on the chains of accounts never changing once a hold       *)
(* refers to them.  IInv puts the three together.                          *)
(***************************************************************************)
EXTENDS LedgerAuthority, SequenceTheorems, TotalsTheorems

-----------------------------------------------------------------------------
(* Chains of accounts *)

(* An account is in its own chain, and a chain holds accounts only. *)
LEMMA ChainType ==
  ASSUME NEW r, NEW a \in DOMAIN r
  PROVE  a \in Chain(r, a) /\ Chain(r, a) \subseteq DOMAIN r
BY DEF Chain

(* No statement that keeps the parent column changes a chain. *)
LEMMA ChainStable ==
  ASSUME NEW r, NEW q, DOMAIN q = DOMAIN r, \A b \in DOMAIN r : q[b].parent = r[b].parent
  PROVE  \A a : Chain(q, a) = Chain(r, a)
<1>1. \A S \in SUBSET DOMAIN r :
        (\A c \in S : q[c].parent \in S \cup {None}) <=> (\A c \in S : r[c].parent \in S \cup {None})
  OBVIOUS
<1>2. QED
  BY <1>1 DEF Chain

(* A new account leaves the chains of the accounts that were there alone. *)
LEMMA ChainGrow ==
  ASSUME NEW r, NEW q, NEW n, n \notin DOMAIN r, n # None, DOMAIN q = DOMAIN r \cup {n},
         \A b \in DOMAIN r : q[b].parent = r[b].parent /\ r[b].parent \in DOMAIN r \cup {None}
  PROVE  \A a \in DOMAIN r : Chain(q, a) = Chain(r, a)
<1>1. SUFFICES ASSUME NEW a \in DOMAIN r PROVE Chain(q, a) = Chain(r, a)
  OBVIOUS
<1> DEFINE Closed(x, S) == \A c \in S : x[c].parent \in S \cup {None}
<1>2. \A S \in SUBSET DOMAIN r : Closed(r, S) <=> Closed(q, S)
  OBVIOUS
<1>3. \A S \in SUBSET DOMAIN q : Closed(q, S) => Closed(r, S \cap DOMAIN r)
  OBVIOUS
<1>4. Closed(r, DOMAIN r)
  OBVIOUS
<1>5. ASSUME NEW b \in Chain(q, a) PROVE b \in Chain(r, a)
  <2>1. \A S \in SUBSET DOMAIN q : a \in S /\ Closed(q, S) => b \in S
    BY <1>5 DEF Chain
  <2>2. b \in DOMAIN r
    BY <2>1, <1>2, <1>4
  <2>3. \A S \in SUBSET DOMAIN r : a \in S /\ Closed(r, S) => b \in S
    BY <2>1, <1>2
  <2>4. QED
    BY <2>2, <2>3 DEF Chain
<1>6. ASSUME NEW b \in Chain(r, a) PROVE b \in Chain(q, a)
  <2>1. b \in DOMAIN q /\ \A S \in SUBSET DOMAIN r : a \in S /\ Closed(r, S) => b \in S
    BY <1>6 DEF Chain
  <2>2. \A S \in SUBSET DOMAIN q : a \in S /\ Closed(q, S) => b \in S
    BY <2>1, <1>3
  <2>3. QED
    BY <2>1, <2>2 DEF Chain
<1>7. QED
  BY <1>5, <1>6

-----------------------------------------------------------------------------
(* The inductive invariant *)

(* References between rows point at rows that exist. *)
Linked ==
  /\ \A a \in DOMAIN accounts : accounts[a].parent \in DOMAIN accounts \cup {None}
  /\ \A h \in DOMAIN holds : holds[h].account \in DOMAIN accounts

(* A settled hold has an amount. *)
SettledHasActual == \A h \in DOMAIN holds : holds[h].state = "SETTLED" => holds[h].actual \in Charges

(* What is promised was funded, so that the reserved column does not overflow. *)
ReservedFunded == \A a \in DOMAIN accounts : accounts[a].reserved <= accounts[a].funded

IInv ==
  /\ TypeOK
  /\ Linked
  /\ SettledHasActual
  /\ ReservedFunded
  /\ Consistent
  /\ OverrunIsBreach
  /\ BreachFreezes

-----------------------------------------------------------------------------
(* The amounts that are summed are numbers, and the sums are finite. *)
LEMMA SumTypes ==
  ASSUME TypeOK, SettledHasActual
  PROVE  /\ \A a : IsFiniteSet(HoldsUnder(a)) /\ IsFiniteSet(OutstandingUnder(a))
         /\ \A h \in DOMAIN holds : UpperBounds[h] \in Nat /\ ActualCharges[h] \in Nat /\ Excesses[h] \in Nat
<1>1. IsFiniteSet(DOMAIN holds)
  BY FS_Subset, FiniteHolds DEF TypeOK
<1>2. \A a : HoldsUnder(a) \in SUBSET DOMAIN holds /\ OutstandingUnder(a) \in SUBSET DOMAIN holds
  BY DEF HoldsUnder, OutstandingUnder
<1>3. \A a : IsFiniteSet(HoldsUnder(a)) /\ IsFiniteSet(OutstandingUnder(a))
  BY <1>1, <1>2, FS_Subset
<1>4. ASSUME NEW h \in DOMAIN holds
      PROVE  UpperBounds[h] \in Nat /\ ActualCharges[h] \in Nat /\ Excesses[h] \in Nat
  <2>1. holds[h].bound \in Nat
    BY AmountAssumption DEF TypeOK, HoldRow
  <2>2. holds[h].state = "SETTLED" => holds[h].actual \in Nat
    <3>1. Charges \subseteq Nat
      BY AmountAssumption
    <3>2. QED
      BY <3>1 DEF SettledHasActual
  <2>3. QED
    BY <2>1, <2>2 DEF UpperBounds, ActualCharges, Excesses, Breached
<1>5. QED
  BY <1>3, <1>4

(* The largest integer of a column is a natural number. *)
LEMMA MaxNat == MAX_AMOUNT \in Nat
BY AmountAssumption

(* An account's amounts are numbers. *)
LEMMA AccountTypes ==
  ASSUME TypeOK, NEW a \in DOMAIN accounts
  PROVE  /\ Spent(a) \in Nat
         /\ accounts[a].reserved \in Nat /\ accounts[a].funded \in Nat
         /\ accounts[a].spent \in Nat /\ accounts[a].spent_high \in Nat
BY AmountAssumption DEF TypeOK, AccountRow, Amount, Spent

(* The sums over the holds beneath an account are numbers. *)
LEMMA TotalTypes ==
  ASSUME TypeOK, SettledHasActual
  PROVE  \A a : /\ Total(HoldsUnder(a), ActualCharges) \in Nat
                /\ Total(HoldsUnder(a), Excesses) \in Nat
                /\ Total(OutstandingUnder(a), UpperBounds) \in Nat
<1>1. SUFFICES ASSUME NEW a
               PROVE  /\ Total(HoldsUnder(a), ActualCharges) \in Nat
                      /\ Total(HoldsUnder(a), Excesses) \in Nat
                      /\ Total(OutstandingUnder(a), UpperBounds) \in Nat
  OBVIOUS
<1>2. HoldsUnder(a) \subseteq DOMAIN holds /\ OutstandingUnder(a) \subseteq DOMAIN holds
  BY DEF HoldsUnder, OutstandingUnder
<1>3. QED
  BY <1>2, SumTypes, TotalType

(* A step that keeps the key columns keeps who is beneath whom. *)
LEMMA SameShape ==
  ASSUME DOMAIN accounts' = DOMAIN accounts, DOMAIN holds' = DOMAIN holds,
         \A b \in DOMAIN accounts : accounts'[b].parent = accounts[b].parent,
         \A h \in DOMAIN holds : holds'[h].account = holds[h].account /\ holds'[h].bound = holds[h].bound
  PROVE  /\ \A a : Chain(accounts', a) = Chain(accounts, a)
         /\ \A a : HoldsUnder(a)' = HoldsUnder(a)
         /\ UpperBounds' = UpperBounds
<1>1. \A a : Chain(accounts', a) = Chain(accounts, a)
  BY ChainStable
<1>2. QED
  BY <1>1 DEF HoldsUnder, Ancestors, UpperBounds

-----------------------------------------------------------------------------
(* One lemma per action: it preserves the inductive invariant. *)

(* Giving back the bounds of a set E of outstanding holds, which is what    *)
(* release, reconcile_no_charge and expire do.                              *)
LEMMA GiveBackInductive ==
  ASSUME IInv,
         NEW E, \A h \in E : h \in DOMAIN holds /\ holds[h].state \in OUTSTANDING,
         Unreserve(E),
         holds' = [h \in DOMAIN holds |-> IF h \in E THEN [holds[h] EXCEPT !.state = "RELEASED"]
                                                     ELSE holds[h]],
         events' \in [HoldIds -> Seq(EventKinds)]
  PROVE  IInv'
<1> DEFINE given(s) == Total(E \cap HoldsUnder(s), UpperBounds)
<1>0. TypeOK /\ SettledHasActual /\ Linked /\ ReservedFunded /\ Consistent /\ OverrunIsBreach
        /\ BreachFreezes
  BY DEF IInv
<1>1. /\ DOMAIN accounts' = DOMAIN accounts
      /\ \A s \in DOMAIN accounts :
           accounts'[s] = [accounts[s] EXCEPT !.reserved = @ - given(s)]
  BY DEF Unreserve
<1>2. \A s \in DOMAIN accounts : accounts[s] \in AccountRow
  BY <1>0 DEF TypeOK
<1>3. \A s \in DOMAIN accounts :
        /\ accounts'[s].reserved = accounts[s].reserved - given(s)
        /\ accounts'[s].spent = accounts[s].spent /\ accounts'[s].spent_high = accounts[s].spent_high
        /\ accounts'[s].funded = accounts[s].funded /\ accounts'[s].parent = accounts[s].parent
        /\ accounts'[s].status = accounts[s].status
  BY <1>1, <1>2 DEF AccountRow
<1>4. DOMAIN holds' = DOMAIN holds
  OBVIOUS
<1>5. \A h \in DOMAIN holds : holds[h] \in HoldRow
  BY <1>0 DEF TypeOK
<1>6. \A h \in DOMAIN holds :
        /\ holds'[h].account = holds[h].account /\ holds'[h].bound = holds[h].bound
        /\ holds'[h].actual = holds[h].actual
        /\ holds'[h].state = IF h \in E THEN "RELEASED" ELSE holds[h].state
  BY <1>5 DEF HoldRow
<1>7. /\ \A a : Chain(accounts', a) = Chain(accounts, a)
      /\ \A a : HoldsUnder(a)' = HoldsUnder(a)
      /\ UpperBounds' = UpperBounds
  BY <1>1, <1>3, <1>4, <1>6, SameShape
<1>8. \A s \in DOMAIN accounts :
        /\ accounts'[s].reserved = Total(OutstandingUnder(s) \ (E \cap HoldsUnder(s)), UpperBounds)
        /\ accounts'[s].reserved \in Nat
        /\ accounts'[s].reserved <= accounts[s].reserved
  <2>1. TAKE s \in DOMAIN accounts
  <2>2. (E \cap HoldsUnder(s)) \in SUBSET OutstandingUnder(s)
    BY DEF OutstandingUnder
  <2>3. IsFiniteSet(OutstandingUnder(s)) /\ IsFiniteSet(E \cap HoldsUnder(s))
    BY <1>0, <2>2, SumTypes, FS_Subset
  <2>4. \A h \in OutstandingUnder(s) : UpperBounds[h] \in Nat
    BY <1>0, SumTypes DEF OutstandingUnder, HoldsUnder
  <2>5. /\ Total(OutstandingUnder(s) \ (E \cap HoldsUnder(s)), UpperBounds)
             = Total(OutstandingUnder(s), UpperBounds) - given(s)
        /\ given(s) <= Total(OutstandingUnder(s), UpperBounds)
    BY <2>2, <2>3, <2>4, TotalRemove
  <2>6. accounts[s].reserved = Total(OutstandingUnder(s), UpperBounds)
    BY <1>0 DEF Consistent, AuditedReserved
  <2>7. given(s) \in Nat /\ accounts[s].reserved \in Nat
    BY <1>0, <2>2, <2>3, <2>4, TotalType, AccountTypes
  <2>8. QED
    BY <1>3, <2>5, <2>6, <2>7
<1>9. \A s \in DOMAIN accounts : OutstandingUnder(s)' = OutstandingUnder(s) \ (E \cap HoldsUnder(s))
  <2>1. "RELEASED" \notin OUTSTANDING
    BY DEF OUTSTANDING
  <2>2. \A s : HoldsUnder(s) \subseteq DOMAIN holds
    BY DEF HoldsUnder
  <2>3. QED
    BY <1>6, <1>7, <2>1, <2>2 DEF OutstandingUnder
<1>10. ActualCharges' = ActualCharges /\ Excesses' = Excesses
  <2>1. \A h \in E : holds[h].state # "SETTLED"
    BY DEF OUTSTANDING
  <2>2. \A h \in DOMAIN holds : (holds'[h].state = "SETTLED") <=> (holds[h].state = "SETTLED")
    BY <1>6, <2>1
  <2>3. QED
    BY <1>4, <1>6, <2>2 DEF ActualCharges, Excesses, Breached
<1>11. TypeOK'
  <2>1. \A s \in DOMAIN accounts : accounts'[s] \in AccountRow
    <3>1. TAKE s \in DOMAIN accounts
    <3>2. accounts'[s].reserved \in Amount
      <4>1. accounts[s].reserved \in 0 .. MAX_AMOUNT
        BY <1>2 DEF AccountRow, Amount
      <4>2. accounts'[s].reserved \in Nat /\ accounts'[s].reserved <= accounts[s].reserved
        BY <1>8
      <4>3. QED
        BY <4>1, <4>2, MaxNat DEF Amount
    <3>3. QED
      BY <1>1, <1>2, <1>3, <3>2 DEF AccountRow
  <2>2. \A h \in DOMAIN holds : holds'[h] \in HoldRow
    BY <1>5 DEF HoldRow, HoldStates
  <2>3. accounts' \in [DOMAIN accounts' -> AccountRow]
    BY <1>1, <2>1 DEF Unreserve
  <2>4. holds' \in [DOMAIN holds' -> HoldRow]
    BY <2>2
  <2>5. QED
    BY <1>0, <1>1, <1>4, <2>3, <2>4 DEF TypeOK
<1>12. Linked' /\ SettledHasActual'
  <2>1. Linked'
    BY <1>0, <1>1, <1>3, <1>4, <1>6 DEF Linked
  <2>2. SettledHasActual'
    BY <1>0, <1>4, <1>6 DEF SettledHasActual
  <2>3. QED
    BY <2>1, <2>2
<1>13. ReservedFunded'
  <2>1. ASSUME NEW s \in DOMAIN accounts
        PROVE  accounts'[s].reserved <= accounts'[s].funded
    <3>1. accounts[s].reserved \in Nat /\ accounts[s].funded \in Nat
      BY <1>0, AccountTypes
    <3>2. accounts[s].reserved <= accounts[s].funded
      BY <1>0 DEF ReservedFunded
    <3>3. /\ accounts'[s].reserved \in Nat /\ accounts'[s].reserved <= accounts[s].reserved
          /\ accounts'[s].funded = accounts[s].funded
      BY <1>3, <1>8
    <3>4. QED
      BY <3>1, <3>2, <3>3
  <2>2. QED
    BY <1>1, <2>1 DEF ReservedFunded
<1>14. \A s \in DOMAIN accounts : Spent(s)' = Spent(s)
  BY <1>1, <1>3 DEF Spent
<1>15. Consistent'
  <2>1. \A s \in DOMAIN accounts : AuditedSpent(s)' = AuditedSpent(s)
    BY <1>7, <1>10 DEF AuditedSpent
  <2>2. \A s \in DOMAIN accounts : AuditedReserved(s)' = accounts'[s].reserved
    BY <1>7, <1>8, <1>9 DEF AuditedReserved
  <2>3. QED
    BY <1>0, <1>1, <1>14, <2>1, <2>2 DEF Consistent
<1>16. OverrunIsBreach'
  <2>1. \A s \in DOMAIN accounts : Total(HoldsUnder(s), Excesses)' = Total(HoldsUnder(s), Excesses)
    BY <1>7, <1>10
  <2>2. \A s \in DOMAIN accounts :
          /\ Spent(s) \in Nat /\ accounts[s].reserved \in Nat /\ accounts[s].funded \in Nat
          /\ Total(HoldsUnder(s), Excesses) \in Nat
    BY <1>0, AccountTypes, TotalTypes
  <2>3. ASSUME NEW s \in DOMAIN accounts
        PROVE  Spent(s) + accounts'[s].reserved
                 <= accounts[s].funded + Total(HoldsUnder(s), Excesses)
    <3>1. Spent(s) + accounts[s].reserved <= accounts[s].funded + Total(HoldsUnder(s), Excesses)
      BY <1>0 DEF OverrunIsBreach
    <3>2. accounts'[s].reserved \in Nat /\ accounts'[s].reserved <= accounts[s].reserved
      BY <1>8
    <3>3. /\ Spent(s) \in Nat /\ accounts[s].reserved \in Nat /\ accounts[s].funded \in Nat
          /\ Total(HoldsUnder(s), Excesses) \in Nat
      BY <2>2
    <3>4. QED
      BY <3>1, <3>2, <3>3
  <2>4. QED
    BY <1>1, <1>3, <1>14, <2>1, <2>3 DEF OverrunIsBreach
<1>17. BreachFreezes'
  <2>1. \A h \in DOMAIN holds : Breached(h)' => Breached(h)
    BY <1>6 DEF Breached
  <2>2. \A h \in DOMAIN holds :
          Chain(accounts', holds'[h].account) = Chain(accounts, holds[h].account)
    BY <1>6, <1>7
  <2>3. \A h \in DOMAIN holds : Chain(accounts, holds[h].account) \subseteq DOMAIN accounts
    BY DEF Chain
  <2>4. QED
    BY <1>0, <1>3, <1>4, <2>1, <2>2, <2>3 DEF BreachFreezes, Ancestors
<1>18. QED
  BY <1>11, <1>12, <1>13, <1>15, <1>16, <1>17 DEF IInv

(* A step that changes only the state of one hold, between two states that  *)
(* both count its bound and no charge: mark_dispatched and mark_unresolved. *)
LEMMA ClaimInductive ==
  ASSUME IInv, NEW h \in DOMAIN holds, NEW state \in OUTSTANDING, holds[h].state \in OUTSTANDING,
         SetState(h, state), UNCHANGED accounts, events' \in [HoldIds -> Seq(EventKinds)]
  PROVE  IInv'
<1>0. TypeOK /\ SettledHasActual /\ Linked /\ ReservedFunded /\ Consistent /\ OverrunIsBreach
        /\ BreachFreezes
  BY DEF IInv
<1>1. DOMAIN holds' = DOMAIN holds
  BY DEF SetState
<1>2. \A g \in DOMAIN holds : holds[g] \in HoldRow
  BY <1>0 DEF TypeOK
<1>3. \A g \in DOMAIN holds :
        /\ holds'[g].account = holds[g].account /\ holds'[g].bound = holds[g].bound
        /\ holds'[g].actual = holds[g].actual
        /\ holds'[g].state = IF g = h THEN state ELSE holds[g].state
  BY <1>2 DEF SetState, HoldRow
<1>4. /\ \A a : Chain(accounts', a) = Chain(accounts, a)
      /\ \A a : HoldsUnder(a)' = HoldsUnder(a)
      /\ UpperBounds' = UpperBounds
  BY <1>1, <1>3, SameShape
<1>5. state # "SETTLED" /\ holds[h].state # "SETTLED"
  BY DEF OUTSTANDING
<1>6. ActualCharges' = ActualCharges /\ Excesses' = Excesses
  BY <1>1, <1>3, <1>5 DEF ActualCharges, Excesses, Breached
<1>7. \A s : OutstandingUnder(s)' = OutstandingUnder(s)
  <2>1. \A s : HoldsUnder(s) \subseteq DOMAIN holds
    BY DEF HoldsUnder
  <2>2. QED
    BY <1>3, <1>4, <2>1 DEF OutstandingUnder
<1>8. TypeOK'
  <2>1. state \in HoldStates
    BY DEF HoldStates
  <2>2. \A g \in DOMAIN holds : holds'[g] \in HoldRow
    BY <1>2, <2>1 DEF SetState, HoldRow
  <2>3. holds' \in [DOMAIN holds' -> HoldRow]
    BY <1>1, <2>2 DEF SetState
  <2>4. QED
    BY <1>0, <1>1, <2>3 DEF TypeOK
<1>9. Linked' /\ SettledHasActual' /\ ReservedFunded'
  <2>1. Linked'
    BY <1>0, <1>1, <1>3 DEF Linked
  <2>2. SettledHasActual'
    BY <1>0, <1>1, <1>3, <1>5 DEF SettledHasActual
  <2>3. ReservedFunded'
    BY <1>0 DEF ReservedFunded
  <2>4. QED
    BY <2>1, <2>2, <2>3
<1>10. Consistent' /\ OverrunIsBreach'
  BY <1>0, <1>4, <1>6, <1>7 DEF Consistent, OverrunIsBreach, AuditedSpent, AuditedReserved, Spent
<1>11. BreachFreezes'
  <2>1. \A g \in DOMAIN holds : Breached(g)' => Breached(g)
    BY <1>3, <1>5 DEF Breached
  <2>2. \A g \in DOMAIN holds :
          Chain(accounts', holds'[g].account) = Chain(accounts, holds[g].account)
    BY <1>3, <1>4
  <2>3. QED
    BY <1>0, <1>1, <2>1, <2>2 DEF BreachFreezes, Ancestors
<1>12. QED
  BY <1>8, <1>9, <1>10, <1>11 DEF IInv

(* set_lifecycle touches no amount and no hold. *)
LEMMA SetLifecycleInductive ==
  ASSUME IInv, NEW a \in AccountIds, NEW lifecycle \in Lifecycles, SetLifecycle(a, lifecycle)
  PROVE  IInv'
<1>0. TypeOK /\ SettledHasActual /\ Linked /\ ReservedFunded /\ Consistent /\ OverrunIsBreach
        /\ BreachFreezes
  BY DEF IInv
<1>1. DOMAIN accounts' = DOMAIN accounts /\ UNCHANGED <<holds, events>>
  BY DEF SetLifecycle
<1>2. \A s \in DOMAIN accounts : accounts[s] \in AccountRow
  BY <1>0 DEF TypeOK
<1>3. \A s \in DOMAIN accounts :
        /\ accounts'[s].reserved = accounts[s].reserved /\ accounts'[s].spent = accounts[s].spent
        /\ accounts'[s].spent_high = accounts[s].spent_high
        /\ accounts'[s].funded = accounts[s].funded /\ accounts'[s].parent = accounts[s].parent
        /\ accounts'[s].status = accounts[s].status
  BY <1>2 DEF SetLifecycle, AccountRow
<1>4. /\ \A x : Chain(accounts', x) = Chain(accounts, x)
      /\ \A x : HoldsUnder(x)' = HoldsUnder(x)
      /\ UpperBounds' = UpperBounds
  BY <1>1, <1>3, SameShape
<1>5. TypeOK'
  <2>1. \A s \in DOMAIN accounts : accounts'[s] \in AccountRow
    BY <1>2 DEF SetLifecycle, AccountRow
  <2>2. accounts' \in [DOMAIN accounts' -> AccountRow]
    BY <1>1, <2>1 DEF SetLifecycle
  <2>3. QED
    BY <1>0, <1>1, <2>2 DEF TypeOK
<1>6. Linked' /\ SettledHasActual' /\ ReservedFunded'
  BY <1>0, <1>1, <1>3 DEF Linked, SettledHasActual, ReservedFunded
<1>7. (\A s : OutstandingUnder(s)' = OutstandingUnder(s))
        /\ ActualCharges' = ActualCharges /\ Excesses' = Excesses
  BY <1>1, <1>4 DEF OutstandingUnder, ActualCharges, Excesses, Breached
<1>8. \A s \in DOMAIN accounts : Spent(s)' = Spent(s)
  BY <1>1, <1>3 DEF Spent
<1>9. Consistent' /\ OverrunIsBreach'
  BY <1>0, <1>1, <1>3, <1>4, <1>7, <1>8 DEF Consistent, OverrunIsBreach, AuditedSpent, AuditedReserved
<1>10. BreachFreezes'
  <2>1. \A g \in DOMAIN holds : Chain(accounts, holds[g].account) \subseteq DOMAIN accounts
    BY DEF Chain
  <2>2. QED
    BY <1>0, <1>1, <1>3, <1>4, <2>1 DEF BreachFreezes, Ancestors, Breached
<1>11. QED
  BY <1>5, <1>6, <1>9, <1>10 DEF IInv

(* The two limbs written by settle add up to the sum that was split. *)
LEMMA Limbs ==
  ASSUME NEW n \in Nat
  PROVE  /\ n % (MAX_AMOUNT + 1) \in Amount
         /\ n \div (MAX_AMOUNT + 1) \in Nat
         /\ (n % (MAX_AMOUNT + 1)) + (n \div (MAX_AMOUNT + 1)) * (MAX_AMOUNT + 1) = n
<1> DEFINE d == MAX_AMOUNT + 1
<1>1. d \in Nat /\ d > 0
  BY MaxNat
<1> HIDE DEF d
<1>2. n % d \in 0 .. (d - 1)
  BY <1>1
<1>3. n \div d \in Nat
  BY <1>1
<1>4. (n % d) + (n \div d) * d = n
  BY <1>1
<1>5. QED
  BY <1>2, <1>3, <1>4, MaxNat DEF d, Amount

(* settle moves a hold's bound out of reserved and its charge into spent, in *)
(* every scope of the chain, and freezes the chain on a breach.              *)
LEMMA SettleInductive ==
  ASSUME IInv, NEW h \in HoldIds, NEW actual \in Charges, Settle(h, actual)
  PROVE  IInv'
<1> DEFINE chain == Chain(accounts, holds[h].account)
<1>0. TypeOK /\ SettledHasActual /\ Linked /\ ReservedFunded /\ Consistent /\ OverrunIsBreach
        /\ BreachFreezes
  BY DEF IInv
<1>1. /\ DOMAIN accounts' = DOMAIN accounts /\ DOMAIN holds' = DOMAIN holds
      /\ h \in DOMAIN holds /\ holds[h].state \in {"DISPATCHED", "UNRESOLVED"}
      /\ holds' = [holds EXCEPT ![h].state = "SETTLED", ![h].actual = actual]
      /\ \A s \in DOMAIN accounts :
           accounts'[s] = IF s \in chain THEN SettledAccount(s, h, actual) ELSE accounts[s]
  BY DEF Settle, Ancestors
<1>2. /\ \A s \in DOMAIN accounts : accounts[s] \in AccountRow
      /\ \A g \in DOMAIN holds : holds[g] \in HoldRow
  BY <1>0 DEF TypeOK
<1>3. actual \in Nat /\ actual \in Amount /\ holds[h].bound \in Nat
  BY <1>1, <1>2, AmountAssumption DEF HoldRow, Amount
<1>4. \A g \in DOMAIN holds :
        /\ holds'[g].account = holds[g].account /\ holds'[g].bound = holds[g].bound
        /\ holds'[g].actual = IF g = h THEN actual ELSE holds[g].actual
        /\ holds'[g].state = IF g = h THEN "SETTLED" ELSE holds[g].state
  BY <1>1, <1>2 DEF HoldRow
<1>5. \A s \in DOMAIN accounts :
        /\ accounts'[s].funded = accounts[s].funded /\ accounts'[s].parent = accounts[s].parent
        /\ accounts'[s].reserved = IF s \in chain THEN accounts[s].reserved - holds[h].bound
                                                  ELSE accounts[s].reserved
        /\ accounts'[s].status = IF s \in chain /\ actual > holds[h].bound THEN "FROZEN"
                                                                           ELSE accounts[s].status
        /\ accounts'[s].spent = IF s \in chain THEN (Spent(s) + actual) % (MAX_AMOUNT + 1)
                                               ELSE accounts[s].spent
        /\ accounts'[s].spent_high = IF s \in chain THEN (Spent(s) + actual) \div (MAX_AMOUNT + 1)
                                                    ELSE accounts[s].spent_high
  BY <1>1, <1>2 DEF SettledAccount, AccountRow
<1>6. /\ \A a : Chain(accounts', a) = Chain(accounts, a)
      /\ \A a : HoldsUnder(a)' = HoldsUnder(a)
      /\ UpperBounds' = UpperBounds
  BY <1>1, <1>4, <1>5, SameShape
<1>7. \A s \in DOMAIN accounts : (h \in HoldsUnder(s)) <=> (s \in chain)
  BY <1>1 DEF HoldsUnder, Ancestors
<1>8. /\ holds[h].state # "SETTLED" /\ holds[h].state \in OUTSTANDING /\ "SETTLED" \notin OUTSTANDING
  BY <1>1 DEF OUTSTANDING
<1>9. /\ ActualCharges[h] = 0 /\ ActualCharges'[h] = actual
      /\ Excesses[h] = 0
      /\ Excesses'[h] = IF actual > holds[h].bound THEN actual - holds[h].bound ELSE 0
      /\ \A g \in DOMAIN holds \ {h} : ActualCharges'[g] = ActualCharges[g] /\ Excesses'[g] = Excesses[g]
      /\ \A g \in DOMAIN holds : ActualCharges'[g] \in Nat /\ Excesses'[g] \in Nat
  <2>1. \A g \in DOMAIN holds : ActualCharges[g] \in Nat /\ Excesses[g] \in Nat
    BY <1>0, SumTypes
  <2>2. /\ ActualCharges[h] = 0 /\ ActualCharges'[h] = actual /\ Excesses[h] = 0
        /\ Excesses'[h] = IF actual > holds[h].bound THEN actual - holds[h].bound ELSE 0
    BY <1>1, <1>4, <1>8 DEF ActualCharges, Excesses, Breached
  <2>3. \A g \in DOMAIN holds \ {h} : ActualCharges'[g] = ActualCharges[g] /\ Excesses'[g] = Excesses[g]
    BY <1>1, <1>4 DEF ActualCharges, Excesses, Breached
  <2>4. ActualCharges'[h] \in Nat /\ Excesses'[h] \in Nat
    BY <1>3, <2>2
  <2>5. QED
    BY <2>1, <2>2, <2>3, <2>4
<1>10. ASSUME NEW s \in DOMAIN accounts
       PROVE  /\ Spent(s)' = IF s \in chain THEN Spent(s) + actual ELSE Spent(s)
              /\ accounts'[s].spent \in Amount /\ accounts'[s].spent_high \in Nat
  <2>1. Spent(s) \in Nat /\ accounts[s].spent \in Amount /\ accounts[s].spent_high \in Nat
    BY <1>0, <1>2, AccountTypes DEF AccountRow
  <2>2. Spent(s) + actual \in Nat
    BY <1>3, <2>1
  <2>3. CASE s \in chain
    <3>1. accounts'[s].spent \in Amount /\ accounts'[s].spent_high \in Nat
      BY <1>5, <2>2, <2>3, Limbs
    <3>2. accounts'[s].spent + accounts'[s].spent_high * (MAX_AMOUNT + 1) = Spent(s) + actual
      BY <1>5, <2>2, <2>3, Limbs
    <3>3. QED
      BY <2>3, <3>1, <3>2 DEF Spent
  <2>4. CASE s \notin chain
    BY <1>5, <2>1, <2>4 DEF Spent
  <2>5. QED
    BY <2>3, <2>4
<1>11. ASSUME NEW s \in DOMAIN accounts
       PROVE  /\ accounts'[s].reserved = Total(OutstandingUnder(s), UpperBounds)'
              /\ accounts'[s].reserved \in Nat /\ accounts'[s].reserved <= accounts[s].reserved
  <2>1. accounts[s].reserved = Total(OutstandingUnder(s), UpperBounds)
    BY <1>0 DEF Consistent, AuditedReserved
  <2>2. IsFiniteSet(OutstandingUnder(s)) /\ \A g \in OutstandingUnder(s) : UpperBounds[g] \in Nat
    BY <1>0, SumTypes DEF OutstandingUnder, HoldsUnder
  <2>3. accounts[s].reserved \in Nat
    BY <1>0, AccountTypes
  <2>4. CASE s \in chain
    <3>1. h \in OutstandingUnder(s)
      BY <1>7, <1>8, <2>4 DEF OutstandingUnder
    <3>2. OutstandingUnder(s)' = OutstandingUnder(s) \ {h}
      BY <1>4, <1>6, <1>8 DEF OutstandingUnder, HoldsUnder
    <3>3. Total({h}, UpperBounds) = holds[h].bound
      BY <1>1, <1>3, TotalSingleton DEF UpperBounds
    <3>4. /\ Total(OutstandingUnder(s) \ {h}, UpperBounds)
               = Total(OutstandingUnder(s), UpperBounds) - holds[h].bound
          /\ holds[h].bound <= Total(OutstandingUnder(s), UpperBounds)
      <4>1. {h} \in SUBSET OutstandingUnder(s)
        BY <3>1
      <4>2. QED
        BY <2>2, <3>3, <4>1, TotalRemove
    <3>5. accounts'[s].reserved = accounts[s].reserved - holds[h].bound
      BY <1>5, <2>4
    <3>6. Total(OutstandingUnder(s), UpperBounds)' = Total(OutstandingUnder(s) \ {h}, UpperBounds)
      BY <1>6, <3>2
    <3>7. QED
      BY <1>3, <2>1, <2>3, <3>4, <3>5, <3>6
  <2>5. CASE s \notin chain
    <3>1. h \notin HoldsUnder(s)
      BY <1>7, <2>5
    <3>2. OutstandingUnder(s)' = OutstandingUnder(s)
      BY <1>4, <1>6, <3>1 DEF OutstandingUnder, HoldsUnder
    <3>3. QED
      BY <1>5, <1>6, <2>1, <2>3, <2>5, <3>2
  <2>6. QED
    BY <2>4, <2>5
<1>12. ASSUME NEW s \in DOMAIN accounts
       PROVE  /\ Total(HoldsUnder(s), ActualCharges)'
                   = IF s \in chain THEN Total(HoldsUnder(s), ActualCharges) + actual
                                    ELSE Total(HoldsUnder(s), ActualCharges)
              /\ Total(HoldsUnder(s), Excesses)'
                   = IF s \in chain THEN Total(HoldsUnder(s), Excesses) + Excesses'[h]
                                    ELSE Total(HoldsUnder(s), Excesses)
  <2>1. IsFiniteSet(HoldsUnder(s)) /\ HoldsUnder(s) \subseteq DOMAIN holds
    BY <1>0, SumTypes DEF HoldsUnder
  <2>2. \A g \in HoldsUnder(s) :
          ActualCharges[g] \in Nat /\ Excesses[g] \in Nat /\ ActualCharges'[g] \in Nat /\ Excesses'[g] \in Nat
    BY <1>0, <1>9, <2>1, SumTypes
  <2>3. Total(HoldsUnder(s), ActualCharges) \in Nat /\ Total(HoldsUnder(s), Excesses) \in Nat
    BY <1>0, TotalTypes
  <2>4. CASE s \in chain
    <3>1. h \in HoldsUnder(s)
      BY <1>7, <2>4
    <3>2. \A g \in HoldsUnder(s) \ {h} : ActualCharges'[g] = ActualCharges[g] /\ Excesses'[g] = Excesses[g]
      BY <1>9, <2>1
    <3>3. Total(HoldsUnder(s), ActualCharges')
            = Total(HoldsUnder(s), ActualCharges) - ActualCharges[h] + ActualCharges'[h]
      BY <2>1, <2>2, <3>1, <3>2, TotalUpdate
    <3>4. Total(HoldsUnder(s), Excesses')
            = Total(HoldsUnder(s), Excesses) - Excesses[h] + Excesses'[h]
      BY <2>1, <2>2, <3>1, <3>2, TotalUpdate
    <3>5. QED
      BY <1>3, <1>6, <1>9, <2>3, <2>4, <3>3, <3>4
  <2>5. CASE s \notin chain
    <3>1. h \notin HoldsUnder(s)
      BY <1>7, <2>5
    <3>2. \A g \in HoldsUnder(s) : ActualCharges'[g] = ActualCharges[g] /\ Excesses'[g] = Excesses[g]
      BY <1>9, <2>1, <3>1
    <3>3. Total(HoldsUnder(s), ActualCharges') = Total(HoldsUnder(s), ActualCharges)
      BY <3>2, TotalCongruence
    <3>4. Total(HoldsUnder(s), Excesses') = Total(HoldsUnder(s), Excesses)
      BY <3>2, TotalCongruence
    <3>5. QED
      BY <1>6, <2>5, <3>3, <3>4
  <2>6. QED
    BY <2>4, <2>5
<1>13. TypeOK'
  <2>1. ASSUME NEW s \in DOMAIN accounts PROVE accounts'[s] \in AccountRow
    <3>1. accounts'[s].reserved \in Amount
      <4>1. accounts[s].reserved \in Amount
        BY <1>2 DEF AccountRow
      <4>2. QED
        BY <1>11, <4>1, MaxNat DEF Amount
    <3>2. accounts'[s].spent \in Amount /\ accounts'[s].spent_high \in Nat
      BY <1>10
    <3>3. accounts[s] \in AccountRow
      BY <1>2
    <3>4. CASE s \in chain
      <4>1. accounts'[s] = [accounts[s] EXCEPT !.spent = accounts'[s].spent,
                                               !.spent_high = accounts'[s].spent_high,
                                               !.reserved = accounts'[s].reserved,
                                               !.status = accounts'[s].status]
        BY <1>1, <1>5, <3>3, <3>4 DEF SettledAccount, AccountRow
      <4>2. accounts'[s].status \in {"ACTIVE", "FROZEN"}
        BY <1>5, <3>3 DEF AccountRow
      <4>3. QED
        BY <3>1, <3>2, <3>3, <4>1, <4>2 DEF AccountRow
    <3>5. CASE s \notin chain
      BY <1>1, <3>3, <3>5
    <3>6. QED
      BY <3>4, <3>5
  <2>2. \A g \in DOMAIN holds : holds'[g] \in HoldRow
    BY <1>1, <1>2 DEF HoldRow, HoldStates
  <2>3. accounts' \in [DOMAIN accounts' -> AccountRow]
    BY <1>1, <2>1 DEF Settle
  <2>4. holds' \in [DOMAIN holds' -> HoldRow]
    BY <1>1, <2>2
  <2>5. events' \in [HoldIds -> Seq(EventKinds)]
    <3>1. events \in [HoldIds -> Seq(EventKinds)]
      BY <1>0 DEF TypeOK
    <3>2. <<"settled", "liability_bound_breached">> \in Seq(EventKinds) /\ <<"settled">> \in Seq(EventKinds)
      BY DEF EventKinds
    <3>3. events[h] \o <<"settled", "liability_bound_breached">> \in Seq(EventKinds)
            /\ events[h] \o <<"settled">> \in Seq(EventKinds)
      BY <3>1, <3>2
    <3>4. QED
      BY <3>1, <3>3 DEF Settle, Record
  <2>6. QED
    BY <1>0, <1>1, <2>3, <2>4, <2>5 DEF TypeOK
<1>14. Linked' /\ SettledHasActual'
  <2>1. Linked'
    BY <1>0, <1>1, <1>4, <1>5 DEF Linked
  <2>2. SettledHasActual'
    BY <1>0, <1>1, <1>4 DEF SettledHasActual
  <2>3. QED
    BY <2>1, <2>2
<1>15. ReservedFunded'
  <2>1. ASSUME NEW s \in DOMAIN accounts PROVE accounts'[s].reserved <= accounts'[s].funded
    <3>1. accounts[s].reserved <= accounts[s].funded
      BY <1>0 DEF ReservedFunded
    <3>2. accounts[s].reserved \in Nat /\ accounts[s].funded \in Nat
      BY <1>0, AccountTypes
    <3>3. accounts'[s].funded = accounts[s].funded
      BY <1>5
    <3>4. QED
      BY <1>11, <3>1, <3>2, <3>3
  <2>2. QED
    BY <1>1, <2>1 DEF ReservedFunded
<1>16. Consistent'
  <2>1. ASSUME NEW s \in DOMAIN accounts
        PROVE  Spent(s)' = AuditedSpent(s)' /\ accounts'[s].reserved = AuditedReserved(s)'
    <3>1. Spent(s) = Total(HoldsUnder(s), ActualCharges)
      BY <1>0 DEF Consistent, AuditedSpent
    <3>2. Spent(s)' = Total(HoldsUnder(s), ActualCharges)'
      BY <1>10, <1>12, <3>1
    <3>3. QED
      BY <1>11, <3>2 DEF AuditedSpent, AuditedReserved
  <2>2. QED
    BY <1>1, <2>1 DEF Consistent
<1>17. OverrunIsBreach'
  <2>1. ASSUME NEW s \in DOMAIN accounts
        PROVE  Spent(s)' + accounts'[s].reserved
                 <= accounts'[s].funded + Total(HoldsUnder(s), Excesses)'
    <3>1. Spent(s) + accounts[s].reserved <= accounts[s].funded + Total(HoldsUnder(s), Excesses)
      BY <1>0 DEF OverrunIsBreach
    <3>2. /\ Spent(s) \in Nat /\ accounts[s].reserved \in Nat /\ accounts[s].funded \in Nat
          /\ Total(HoldsUnder(s), Excesses) \in Nat
      BY <1>0, AccountTypes, TotalTypes
    <3>3. accounts'[s].funded = accounts[s].funded
      BY <1>5
    <3>4. CASE s \in chain
      <4>1. accounts'[s].reserved = accounts[s].reserved - holds[h].bound
        BY <1>5, <3>4
      <4>2. Spent(s)' = Spent(s) + actual
        BY <1>10, <3>4
      <4>3. Total(HoldsUnder(s), Excesses)' = Total(HoldsUnder(s), Excesses) + Excesses'[h]
        BY <1>12, <3>4
      <4>4. Excesses'[h] \in Nat /\ Excesses'[h] >= actual - holds[h].bound
        BY <1>3, <1>9
      <4>5. QED
        BY <1>3, <3>1, <3>2, <3>3, <4>1, <4>2, <4>3, <4>4
    <3>5. CASE s \notin chain
      BY <1>5, <1>10, <1>12, <3>1, <3>5
    <3>6. QED
      BY <3>4, <3>5
  <2>2. QED
    BY <1>1, <2>1 DEF OverrunIsBreach
<1>18. BreachFreezes'
  <2>1. ASSUME NEW g \in DOMAIN holds, Breached(g)', NEW s \in Chain(accounts, holds[g].account)
        PROVE  accounts'[s].status = "FROZEN"
    <3>1. s \in DOMAIN accounts
      BY DEF Chain
    <3>2. CASE g = h
      BY <1>4, <1>5, <2>1, <3>1, <3>2 DEF Breached
    <3>3. CASE g # h
      <4>1. Breached(g)
        BY <1>4, <2>1, <3>3 DEF Breached
      <4>2. accounts[s].status = "FROZEN"
        BY <1>0, <2>1, <4>1 DEF BreachFreezes, Ancestors
      <4>3. QED
        BY <1>5, <3>1, <4>2
    <3>4. QED
      BY <3>2, <3>3
  <2>2. \A g \in DOMAIN holds :
          Chain(accounts', holds'[g].account) = Chain(accounts, holds[g].account)
    BY <1>4, <1>6
  <2>3. QED
    BY <1>1, <2>1, <2>2 DEF BreachFreezes, Ancestors
<1>19. QED
  BY <1>13, <1>14, <1>15, <1>16, <1>17, <1>18 DEF IInv

(* reserve adds one outstanding hold beneath every scope of the chain, each *)
(* of which had room for its bound.                                         *)
LEMMA ReserveInductive ==
  ASSUME IInv, NEW a \in AccountIds, NEW h \in HoldIds, NEW bound \in Bounds, NEW request \in Requests,
         NEW expires \in Expiries, Reserve(a, h, bound, request, expires)
  PROVE  IInv'
<1> DEFINE chain == Chain(accounts, a)
<1>0. TypeOK /\ SettledHasActual /\ Linked /\ ReservedFunded /\ Consistent /\ OverrunIsBreach
        /\ BreachFreezes
  BY DEF IInv
<1>1. /\ DOMAIN accounts' = DOMAIN accounts /\ DOMAIN holds' = DOMAIN holds \cup {h}
      /\ h \notin DOMAIN holds /\ a \in DOMAIN accounts
      /\ \A s \in DOMAIN accounts :
           accounts'[s] = IF s \in chain THEN [accounts[s] EXCEPT !.reserved = @ + bound] ELSE accounts[s]
      /\ holds'[h] = [account |-> a, bound |-> bound, request |-> request,
                      expires_at |-> expires, state |-> "RESERVED", actual |-> None]
      /\ \A g \in DOMAIN holds : holds'[g] = holds[g]
  BY DEF Reserve, Ancestors
<1>2. /\ \A s \in DOMAIN accounts : accounts[s] \in AccountRow
      /\ \A g \in DOMAIN holds : holds[g] \in HoldRow
  BY <1>0 DEF TypeOK
<1>3. bound \in Nat /\ bound > 0
  BY AmountAssumption
<1>4. \A s \in DOMAIN accounts :
        /\ accounts'[s].funded = accounts[s].funded /\ accounts'[s].parent = accounts[s].parent
        /\ accounts'[s].spent = accounts[s].spent /\ accounts'[s].spent_high = accounts[s].spent_high
        /\ accounts'[s].status = accounts[s].status
        /\ accounts'[s].reserved = IF s \in chain THEN accounts[s].reserved + bound
                                                  ELSE accounts[s].reserved
  BY <1>1, <1>2 DEF AccountRow
<1>5. \A x : Chain(accounts', x) = Chain(accounts, x)
  BY <1>1, <1>4, ChainStable
<1>6. \A s : HoldsUnder(s)' = IF s \in chain THEN HoldsUnder(s) \cup {h} ELSE HoldsUnder(s)
  BY <1>1, <1>5 DEF HoldsUnder, Ancestors
<1>7. \A s : OutstandingUnder(s)' = IF s \in chain THEN OutstandingUnder(s) \cup {h} ELSE OutstandingUnder(s)
  <2>1. \A s : HoldsUnder(s) \subseteq DOMAIN holds
    BY DEF HoldsUnder
  <2>2. holds'[h].state \in OUTSTANDING
    BY <1>1 DEF OUTSTANDING
  <2>3. QED
    BY <1>1, <1>6, <2>1, <2>2 DEF OutstandingUnder
<1>8. /\ UpperBounds'[h] = bound /\ ActualCharges'[h] = 0 /\ Excesses'[h] = 0
      /\ \A g \in DOMAIN holds : /\ UpperBounds'[g] = UpperBounds[g]
                                 /\ ActualCharges'[g] = ActualCharges[g]
                                 /\ Excesses'[g] = Excesses[g]
  BY <1>1 DEF UpperBounds, ActualCharges, Excesses, Breached
<1>9. \A s \in chain : Spent(s) + accounts[s].reserved + bound <= accounts[s].funded
  BY DEF Reserve, Fits, Ancestors
<1>10. ASSUME NEW s \in DOMAIN accounts
       PROVE  /\ Spent(s)' = Spent(s)
              /\ Spent(s) \in Nat /\ accounts[s].reserved \in Nat /\ accounts[s].funded \in Nat
              /\ accounts'[s].reserved \in Nat
              /\ accounts'[s].reserved <= accounts[s].funded
              /\ s \in chain => Spent(s) + accounts'[s].reserved <= accounts[s].funded
  <2>1. Spent(s)' = Spent(s)
    BY <1>4 DEF Spent
  <2>2. Spent(s) \in Nat /\ accounts[s].reserved \in Nat /\ accounts[s].funded \in Nat
    BY <1>0, AccountTypes
  <2>3. accounts[s].reserved <= accounts[s].funded
    BY <1>0 DEF ReservedFunded
  <2>4. CASE s \in chain
    BY <1>3, <1>4, <1>9, <2>1, <2>2, <2>4
  <2>5. CASE s \notin chain
    BY <1>4, <2>1, <2>2, <2>3, <2>5
  <2>6. QED
    BY <2>4, <2>5
<1>11. ASSUME NEW s \in DOMAIN accounts
       PROVE  /\ Total(OutstandingUnder(s), UpperBounds)' = accounts'[s].reserved
              /\ Total(HoldsUnder(s), ActualCharges)' = Total(HoldsUnder(s), ActualCharges)
              /\ Total(HoldsUnder(s), Excesses)' = Total(HoldsUnder(s), Excesses)
  <2>1. /\ IsFiniteSet(OutstandingUnder(s)) /\ IsFiniteSet(HoldsUnder(s))
        /\ OutstandingUnder(s) \subseteq DOMAIN holds /\ HoldsUnder(s) \subseteq DOMAIN holds
        /\ h \notin OutstandingUnder(s) /\ h \notin HoldsUnder(s)
    BY <1>0, <1>1, SumTypes DEF OutstandingUnder, HoldsUnder
  <2>2. \A g \in DOMAIN holds : UpperBounds'[g] \in Nat /\ ActualCharges'[g] \in Nat /\ Excesses'[g] \in Nat
    BY <1>0, <1>8, SumTypes
  <2>3. /\ Total(OutstandingUnder(s), UpperBounds') = Total(OutstandingUnder(s), UpperBounds)
        /\ Total(HoldsUnder(s), ActualCharges') = Total(HoldsUnder(s), ActualCharges)
        /\ Total(HoldsUnder(s), Excesses') = Total(HoldsUnder(s), Excesses)
    <3>1. /\ \A g \in OutstandingUnder(s) : UpperBounds'[g] = UpperBounds[g]
          /\ \A g \in HoldsUnder(s) : ActualCharges'[g] = ActualCharges[g] /\ Excesses'[g] = Excesses[g]
      BY <1>8, <2>1
    <3>2. QED
      BY <3>1, TotalCongruence
  <2>4. /\ Total(OutstandingUnder(s), UpperBounds) = accounts[s].reserved
        /\ Total(HoldsUnder(s), ActualCharges) \in Nat /\ Total(HoldsUnder(s), Excesses) \in Nat
    BY <1>0, TotalTypes DEF Consistent, AuditedReserved
  <2>5. CASE s \in chain
    <3>1. Total(OutstandingUnder(s) \cup {h}, UpperBounds')
            = Total(OutstandingUnder(s), UpperBounds') + UpperBounds'[h]
      <4>1. \A g \in OutstandingUnder(s) \cup {h} : UpperBounds'[g] \in Nat
        BY <1>3, <1>8, <2>1, <2>2
      <4>2. QED
        BY <2>1, <4>1, TotalAdd
    <3>2. Total(HoldsUnder(s) \cup {h}, ActualCharges')
            = Total(HoldsUnder(s), ActualCharges') + ActualCharges'[h]
      <4>1. \A g \in HoldsUnder(s) \cup {h} : ActualCharges'[g] \in Nat
        BY <1>8, <2>1, <2>2
      <4>2. QED
        BY <2>1, <4>1, TotalAdd
    <3>3. Total(HoldsUnder(s) \cup {h}, Excesses') = Total(HoldsUnder(s), Excesses') + Excesses'[h]
      <4>1. \A g \in HoldsUnder(s) \cup {h} : Excesses'[g] \in Nat
        BY <1>8, <2>1, <2>2
      <4>2. QED
        BY <2>1, <4>1, TotalAdd
    <3>4. /\ OutstandingUnder(s)' = OutstandingUnder(s) \cup {h}
          /\ HoldsUnder(s)' = HoldsUnder(s) \cup {h}
      BY <1>6, <1>7, <2>5
    <3>5. accounts'[s].reserved = accounts[s].reserved + bound
      BY <1>4, <2>5
    <3>6. QED
      BY <1>8, <2>3, <2>4, <3>1, <3>2, <3>3, <3>4, <3>5
  <2>6. CASE s \notin chain
    BY <1>4, <1>6, <1>7, <2>3, <2>4, <2>6
  <2>7. QED
    BY <2>5, <2>6
<1>12. TypeOK'
  <2>1. ASSUME NEW s \in DOMAIN accounts PROVE accounts'[s] \in AccountRow
    <3>1. accounts'[s].reserved \in Amount
      <4>1. accounts[s].funded \in Amount
        BY <1>2 DEF AccountRow
      <4>2. QED
        BY <1>10, <4>1, MaxNat DEF Amount
    <3>2. QED
      BY <1>1, <1>2, <1>4, <3>1 DEF AccountRow
  <2>2. \A g \in DOMAIN holds' : holds'[g] \in HoldRow
    BY <1>1, <1>2 DEF HoldRow, HoldStates, OUTSTANDING
  <2>3. accounts' \in [DOMAIN accounts' -> AccountRow]
    BY <1>1, <2>1 DEF Reserve
  <2>4. holds' \in [DOMAIN holds' -> HoldRow]
    BY <1>1, <2>2 DEF Reserve
  <2>5. events' \in [HoldIds -> Seq(EventKinds)]
    <3>1. events \in [HoldIds -> Seq(EventKinds)]
      BY <1>0 DEF TypeOK
    <3>2. <<"reserved">> \in Seq(EventKinds)
      BY DEF EventKinds
    <3>3. events[h] \o <<"reserved">> \in Seq(EventKinds)
      BY <3>1, <3>2
    <3>4. QED
      BY <3>1, <3>3 DEF Reserve, Record
  <2>6. QED
    BY <1>0, <1>1, <2>3, <2>4, <2>5 DEF TypeOK
<1>13. Linked' /\ SettledHasActual'
  <2>1. Linked'
    BY <1>0, <1>1, <1>4 DEF Linked
  <2>2. SettledHasActual'
    BY <1>0, <1>1 DEF SettledHasActual
  <2>3. QED
    BY <2>1, <2>2
<1>14. ReservedFunded'
  BY <1>1, <1>4, <1>10 DEF ReservedFunded
<1>15. Consistent'
  <2>1. ASSUME NEW s \in DOMAIN accounts
        PROVE  Spent(s)' = AuditedSpent(s)' /\ accounts'[s].reserved = AuditedReserved(s)'
    <3>1. Spent(s) = Total(HoldsUnder(s), ActualCharges)
      BY <1>0 DEF Consistent, AuditedSpent
    <3>2. QED
      BY <1>10, <1>11, <3>1 DEF AuditedSpent, AuditedReserved
  <2>2. QED
    BY <1>1, <2>1 DEF Consistent
<1>16. OverrunIsBreach'
  <2>1. ASSUME NEW s \in DOMAIN accounts
        PROVE  Spent(s)' + accounts'[s].reserved
                 <= accounts'[s].funded + Total(HoldsUnder(s), Excesses)'
    <3>1. Spent(s) + accounts[s].reserved <= accounts[s].funded + Total(HoldsUnder(s), Excesses)
      BY <1>0 DEF OverrunIsBreach
    <3>2. Total(HoldsUnder(s), Excesses) \in Nat
      BY <1>0, TotalTypes
    <3>3. CASE s \in chain
      BY <1>4, <1>10, <1>11, <3>2, <3>3
    <3>4. CASE s \notin chain
      BY <1>4, <1>10, <1>11, <3>1, <3>4
    <3>5. QED
      BY <3>3, <3>4
  <2>2. QED
    BY <1>1, <2>1 DEF OverrunIsBreach
<1>17. BreachFreezes'
  <2>1. \A g \in DOMAIN holds' : Breached(g)' => g \in DOMAIN holds /\ Breached(g)
    BY <1>1 DEF Breached
  <2>2. \A g \in DOMAIN holds :
          Chain(accounts', holds'[g].account) = Chain(accounts, holds[g].account)
    BY <1>1, <1>5
  <2>3. \A g \in DOMAIN holds : Chain(accounts, holds[g].account) \subseteq DOMAIN accounts
    BY DEF Chain
  <2>4. QED
    BY <1>0, <1>1, <1>4, <2>1, <2>2, <2>3 DEF BreachFreezes, Ancestors
<1>18. QED
  BY <1>12, <1>13, <1>14, <1>15, <1>16, <1>17 DEF IInv

(* create_account adds an account that nothing lies beneath. *)
LEMMA CreateAccountInductive ==
  ASSUME IInv, NEW a \in AccountIds, NEW funded \in Fundings, NEW unit \in Units,
         NEW parent \in AccountIds \cup {None}, CreateAccount(a, funded, unit, parent)
  PROVE  IInv'
<1>0. TypeOK /\ SettledHasActual /\ Linked /\ ReservedFunded /\ Consistent /\ OverrunIsBreach
        /\ BreachFreezes
  BY DEF IInv
<1>1. /\ DOMAIN accounts' = DOMAIN accounts \cup {a} /\ a \notin DOMAIN accounts
      /\ parent \in DOMAIN accounts \cup {None}
      /\ \A s \in DOMAIN accounts : accounts'[s] = accounts[s]
      /\ accounts'[a] = [unit |-> unit, funded |-> funded, spent |-> 0, spent_high |-> 0,
                         reserved |-> 0, status |-> "ACTIVE", lifecycle |-> "ACTIVE",
                         parent |-> parent]
      /\ UNCHANGED <<holds, events>>
  BY DEF CreateAccount
<1>2. \A s \in DOMAIN accounts : accounts[s] \in AccountRow
  BY <1>0 DEF TypeOK
<1>3. \A s \in DOMAIN accounts : Chain(accounts', s) = Chain(accounts, s)
  <2>1. a # None
    BY NoneAssumption
  <2>2. \A b \in DOMAIN accounts : /\ accounts'[b].parent = accounts[b].parent
                                   /\ accounts[b].parent \in DOMAIN accounts \cup {None}
    BY <1>0, <1>1 DEF Linked
  <2>3. QED
    BY <1>1, <2>1, <2>2, ChainGrow
<1>4. \A g \in DOMAIN holds : /\ holds[g].account \in DOMAIN accounts
                              /\ Chain(accounts', holds[g].account) = Chain(accounts, holds[g].account)
  BY <1>0, <1>3 DEF Linked
<1>5. \A s : HoldsUnder(s)' = HoldsUnder(s) /\ OutstandingUnder(s)' = OutstandingUnder(s)
  BY <1>1, <1>4 DEF HoldsUnder, OutstandingUnder, Ancestors
<1>6. HoldsUnder(a) = {} /\ OutstandingUnder(a) = {}
  BY <1>1 DEF HoldsUnder, OutstandingUnder, Ancestors, Chain
<1>7. UpperBounds' = UpperBounds /\ ActualCharges' = ActualCharges /\ Excesses' = Excesses
  BY <1>1 DEF UpperBounds, ActualCharges, Excesses, Breached
<1>8. /\ \A s \in DOMAIN accounts : Spent(s)' = Spent(s)
      /\ Spent(a)' = 0
  BY <1>1, MaxNat DEF Spent
<1>9. funded \in Amount /\ funded \in Nat
  BY AmountAssumption DEF Amount
<1>10. TypeOK'
  <2>1. accounts'[a] \in AccountRow
    <3>1. 0 \in Amount
      BY MaxNat DEF Amount
    <3>2. QED
      BY <1>1, <1>9, <3>1 DEF AccountRow
  <2>2. accounts' \in [DOMAIN accounts' -> AccountRow]
    BY <1>1, <1>2, <2>1 DEF CreateAccount
  <2>3. QED
    BY <1>0, <1>1, <2>2 DEF TypeOK
<1>11. Linked' /\ SettledHasActual'
  BY <1>0, <1>1 DEF Linked, SettledHasActual
<1>12. ReservedFunded'
  BY <1>0, <1>1, <1>9 DEF ReservedFunded
<1>13. Total({}, ActualCharges) = 0 /\ Total({}, UpperBounds) = 0 /\ Total({}, Excesses) = 0
  BY TotalEmpty
<1>14. Consistent'
  <2>1. \A s \in DOMAIN accounts :
          Spent(s)' = AuditedSpent(s)' /\ accounts'[s].reserved = AuditedReserved(s)'
    BY <1>0, <1>1, <1>5, <1>7, <1>8 DEF Consistent, AuditedSpent, AuditedReserved
  <2>2. Spent(a)' = AuditedSpent(a)' /\ accounts'[a].reserved = AuditedReserved(a)'
    BY <1>1, <1>5, <1>6, <1>7, <1>8, <1>13 DEF AuditedSpent, AuditedReserved
  <2>3. QED
    BY <1>1, <2>1, <2>2 DEF Consistent
<1>15. OverrunIsBreach'
  <2>1. \A s \in DOMAIN accounts :
          Spent(s)' + accounts'[s].reserved <= accounts'[s].funded + Total(HoldsUnder(s), Excesses)'
    BY <1>0, <1>1, <1>5, <1>7, <1>8 DEF OverrunIsBreach
  <2>2. Spent(a)' + accounts'[a].reserved <= accounts'[a].funded + Total(HoldsUnder(a), Excesses)'
    BY <1>1, <1>5, <1>6, <1>7, <1>8, <1>9, <1>13
  <2>3. QED
    BY <1>1, <2>1, <2>2 DEF OverrunIsBreach
<1>16. BreachFreezes'
  <2>1. \A g \in DOMAIN holds : Chain(accounts, holds[g].account) \subseteq DOMAIN accounts
    BY DEF Chain
  <2>2. QED
    BY <1>0, <1>1, <1>4, <2>1 DEF BreachFreezes, Ancestors, Breached
<1>17. QED
  BY <1>10, <1>11, <1>12, <1>14, <1>15, <1>16 DEF IInv

-----------------------------------------------------------------------------
(* The theorems *)

(* An empty database satisfies the invariant. *)
LEMMA InitInductive == Init => IInv
<1> SUFFICES ASSUME Init PROVE IInv
  OBVIOUS
<1>1. DOMAIN accounts = {} /\ DOMAIN holds = {}
  BY DEF Init
<1>2. TypeOK
  <2>1. <<>> \in Seq(EventKinds)
    OBVIOUS
  <2>2. accounts \in [DOMAIN accounts -> AccountRow] /\ holds \in [DOMAIN holds -> HoldRow]
    BY <1>1 DEF Init
  <2>3. QED
    BY <1>1, <2>1, <2>2 DEF Init, TypeOK
<1>3. QED
  BY <1>1, <1>2 DEF IInv, Linked, SettledHasActual, ReservedFunded, Consistent, OverrunIsBreach,
                    BreachFreezes

(* Accounts that were funded and have neither spent nor promised anything:  *)
(* where a program starts that creates its accounts before anything else.   *)
LEMMA FundedInductive ==
  ASSUME DOMAIN holds = {}, holds \in [DOMAIN holds -> HoldRow], events = [h \in HoldIds |-> <<>>],
         DOMAIN accounts \subseteq AccountIds, accounts \in [DOMAIN accounts -> AccountRow],
         \A a \in DOMAIN accounts : /\ accounts[a].spent = 0 /\ accounts[a].spent_high = 0 /\ accounts[a].reserved = 0
                                   /\ accounts[a].parent \in DOMAIN accounts \cup {None}
  PROVE  IInv
<1>1. TypeOK
  <2>1. <<>> \in Seq(EventKinds)
    OBVIOUS
  <2>2. QED
    BY <2>1 DEF TypeOK
<1>2. \A a : HoldsUnder(a) = {} /\ OutstandingUnder(a) = {}
  BY DEF HoldsUnder, OutstandingUnder
<1>3. Linked /\ SettledHasActual /\ BreachFreezes
  BY DEF Linked, SettledHasActual, BreachFreezes
<1>4. \A a \in DOMAIN accounts : Spent(a) = 0 /\ accounts[a].reserved = 0 /\ accounts[a].funded \in Nat
  BY <1>1, AccountTypes, AmountAssumption DEF Spent
<1>5. \A a : /\ Total(HoldsUnder(a), ActualCharges) = 0 /\ Total(OutstandingUnder(a), UpperBounds) = 0
             /\ Total(HoldsUnder(a), Excesses) = 0
  BY <1>2, TotalEmpty
<1>6. ReservedFunded /\ Consistent /\ OverrunIsBreach
  BY <1>4, <1>5 DEF ReservedFunded, Consistent, OverrunIsBreach, AuditedSpent, AuditedReserved
<1>7. QED
  BY <1>1, <1>3, <1>6 DEF IInv

(* Every method of the kernel preserves the invariant. *)
LEMMA NextInductive == IInv /\ [Next]_ledgerVars => IInv'
<1> SUFFICES ASSUME IInv, [Next]_ledgerVars PROVE IInv'
  OBVIOUS
<1>0. TypeOK
  BY DEF IInv
<1>1. CASE OpenAccount
  BY <1>1, CreateAccountInductive DEF OpenAccount
<1>2. CASE MakeHold
  BY <1>2, ReserveInductive DEF MakeHold
<1>3. CASE Claim
  <2>1. PICK h \in HoldIds, now \in Times : Dispatch(h, now)
    BY <1>3 DEF Claim
  <2>2. events' \in [HoldIds -> Seq(EventKinds)]
    <3>1. events \in [HoldIds -> Seq(EventKinds)]
      BY <1>0 DEF TypeOK
    <3>2. <<"dispatched">> \in Seq(EventKinds)
      BY DEF EventKinds
    <3>3. events[h] \o <<"dispatched">> \in Seq(EventKinds)
      BY <3>1, <3>2
    <3>4. QED
      BY <2>1, <3>1, <3>3 DEF Dispatch, Record
  <2>3. h \in DOMAIN holds /\ holds[h].state \in OUTSTANDING /\ "DISPATCHED" \in OUTSTANDING
    BY <2>1 DEF Dispatch, OUTSTANDING
  <2>4. SetState(h, "DISPATCHED") /\ UNCHANGED accounts
    BY <2>1 DEF Dispatch
  <2>5. QED
    BY <2>2, <2>3, <2>4, ClaimInductive
<1>4. CASE Doubt
  <2>1. PICK h \in HoldIds : MarkUnresolved(h)
    BY <1>4 DEF Doubt
  <2>2. events' \in [HoldIds -> Seq(EventKinds)]
    <3>1. events \in [HoldIds -> Seq(EventKinds)]
      BY <1>0 DEF TypeOK
    <3>2. <<"unresolved">> \in Seq(EventKinds)
      BY DEF EventKinds
    <3>3. events[h] \o <<"unresolved">> \in Seq(EventKinds)
      BY <3>1, <3>2
    <3>4. QED
      BY <2>1, <3>1, <3>3 DEF MarkUnresolved, Record
  <2>3. h \in DOMAIN holds /\ holds[h].state \in OUTSTANDING /\ "UNRESOLVED" \in OUTSTANDING
    BY <2>1 DEF MarkUnresolved, OUTSTANDING
  <2>4. SetState(h, "UNRESOLVED") /\ UNCHANGED accounts
    BY <2>1 DEF MarkUnresolved
  <2>5. QED
    BY <2>2, <2>3, <2>4, ClaimInductive
<1>5. CASE Pay
  BY <1>5, SettleInductive DEF Pay
<1>6. CASE Cancel
  <2>1. PICK h \in HoldIds : Release(h)
    BY <1>6 DEF Cancel
  <2>2. events' \in [HoldIds -> Seq(EventKinds)]
    <3>1. events \in [HoldIds -> Seq(EventKinds)]
      BY <1>0 DEF TypeOK
    <3>2. <<"released">> \in Seq(EventKinds)
      BY DEF EventKinds
    <3>3. events[h] \o <<"released">> \in Seq(EventKinds)
      BY <3>1, <3>2
    <3>4. QED
      BY <2>1, <3>1, <3>3 DEF Release, Record
  <2>3. \A g \in {h} : g \in DOMAIN holds /\ holds[g].state \in OUTSTANDING
    BY <2>1 DEF Release, Releasable, OUTSTANDING
  <2>4. holds' = [g \in DOMAIN holds |-> IF g \in {h} THEN [holds[g] EXCEPT !.state = "RELEASED"]
                                                      ELSE holds[g]]
    BY <1>0, <2>1 DEF Release, SetState, TypeOK
  <2>5. Unreserve({h})
    BY <2>1 DEF Release
  <2>6. QED
    BY <2>2, <2>3, <2>4, <2>5, GiveBackInductive
<1>7. CASE Reconcile
  <2>1. PICK h \in HoldIds : ReconcileNoCharge(h)
    BY <1>7 DEF Reconcile
  <2>2. events' \in [HoldIds -> Seq(EventKinds)]
    <3>1. events \in [HoldIds -> Seq(EventKinds)]
      BY <1>0 DEF TypeOK
    <3>2. <<"reconciled_no_charge">> \in Seq(EventKinds)
      BY DEF EventKinds
    <3>3. events[h] \o <<"reconciled_no_charge">> \in Seq(EventKinds)
      BY <3>1, <3>2
    <3>4. QED
      BY <2>1, <3>1, <3>3 DEF ReconcileNoCharge, Record
  <2>3. \A g \in {h} : g \in DOMAIN holds /\ holds[g].state \in OUTSTANDING
    BY <2>1 DEF ReconcileNoCharge, Releasable, OUTSTANDING
  <2>4. holds' = [g \in DOMAIN holds |-> IF g \in {h} THEN [holds[g] EXCEPT !.state = "RELEASED"]
                                                      ELSE holds[g]]
    BY <1>0, <2>1 DEF ReconcileNoCharge, SetState, TypeOK
  <2>5. Unreserve({h})
    BY <2>1 DEF ReconcileNoCharge
  <2>6. QED
    BY <2>2, <2>3, <2>4, <2>5, GiveBackInductive
<1>8. CASE Operate
  BY <1>8, SetLifecycleInductive DEF Operate
<1>9. CASE Sweep
  <2>1. PICK now \in Times, scope \in AccountIds \cup {None} : Expire(now, scope)
    BY <1>9 DEF Sweep
  <2> DEFINE E == Expiring(now, scope)
  <2>2. \A g \in E : g \in DOMAIN holds /\ holds[g].state \in OUTSTANDING
    BY DEF Expiring, OUTSTANDING
  <2>3. events' \in [HoldIds -> Seq(EventKinds)]
    <3>1. events \in [HoldIds -> Seq(EventKinds)] /\ "expired" \in EventKinds
      BY <1>0 DEF TypeOK, EventKinds
    <3>2. \A h \in HoldIds : Append(events[h], "expired") \in Seq(EventKinds)
      BY <3>1
    <3>3. QED
      BY <2>1, <3>1, <3>2 DEF Expire
  <2>4. /\ Unreserve(E)
        /\ holds' = [h \in DOMAIN holds |-> IF h \in E THEN [holds[h] EXCEPT !.state = "RELEASED"]
                                                       ELSE holds[h]]
    BY <2>1 DEF Expire
  <2> HIDE DEF E
  <2>5. QED
    BY <2>2, <2>3, <2>4, GiveBackInductive
<1>10. CASE UNCHANGED ledgerVars
  <2>1. UNCHANGED <<accounts, holds, events>>
    BY <1>10 DEF ledgerVars
  <2>2. TypeOK' /\ Linked' /\ SettledHasActual' /\ ReservedFunded'
    BY <2>1 DEF IInv, TypeOK, Linked, SettledHasActual, ReservedFunded
  <2>3. Consistent' /\ OverrunIsBreach'
    BY <2>1 DEF IInv, Consistent, OverrunIsBreach, Spent, AuditedSpent, AuditedReserved, HoldsUnder,
                OutstandingUnder, Ancestors, UpperBounds, ActualCharges, Excesses, Breached
  <2>4. BreachFreezes'
    BY <2>1 DEF IInv, BreachFreezes, Breached, Ancestors
  <2>5. QED
    BY <2>2, <2>3, <2>4 DEF IInv
<1>11. QED
  BY <1>1, <1>2, <1>3, <1>4, <1>5, <1>6, <1>7, <1>8, <1>9, <1>10 DEF Next

THEOREM IInvInvariant == Spec => []IInv
<1>1. Init => IInv
  BY InitInductive
<1>2. IInv /\ [Next]_ledgerVars => IInv'
  BY NextInductive
<1>3. QED
  BY <1>1, <1>2, PTL DEF Spec

(* Every row keeps its shape under any number of accounts, holds and calls: *)
(* no CHECK constraint ever rejects a settlement or a release.              *)
THEOREM TypeCorrect == Spec => []TypeOK
<1>1. IInv => TypeOK
  BY DEF IInv
<1>2. QED
  BY <1>1, IInvInvariant, PTL

(* audit() reports no consistency error, whatever the delegation tree. *)
THEOREM ProjectionsConsistent == Spec => []Consistent
<1>1. IInv => Consistent
  BY DEF IInv
<1>2. QED
  BY <1>1, IInvInvariant, PTL

(* No account goes past its funding by more than recorded bound breaches. *)
THEOREM FundingSafety == Spec => []OverrunIsBreach
<1>1. IInv => OverrunIsBreach
  BY DEF IInv
<1>2. QED
  BY <1>1, IInvInvariant, PTL

(* What starts a hold is reserve or dispatch, and both find the whole chain *)
(* of its account active.                                                   *)
LEMMA StartNeedsActiveChain ==
  ASSUME TypeOK, Next, NEW h \in HoldIds, Starts(h)
  PROVE  \A s \in Ancestors(holds'[h].account) : Active(s)
<1>0. \A g \in DOMAIN holds : holds[g] \in HoldRow
  BY DEF TypeOK
<1>1. ASSUME holds' = holds PROVE FALSE
  BY <1>1 DEF Starts
<1>2. ASSUME DOMAIN holds' = DOMAIN holds,
             \A g \in DOMAIN holds : holds'[g].state # "DISPATCHED" \/ holds'[g].state = holds[g].state
      PROVE  FALSE
  BY <1>2 DEF Starts
<1>3. CASE OpenAccount \/ Operate
  BY <1>1, <1>3 DEF OpenAccount, Operate, CreateAccount, SetLifecycle
<1>4. CASE MakeHold
  <2>1. PICK a \in AccountIds, x \in HoldIds, b \in Bounds, r \in Requests, t \in Expiries :
          Reserve(a, x, b, r, t)
    BY <1>4 DEF MakeHold
  <2>2. /\ DOMAIN holds' = DOMAIN holds \cup {x} /\ x \notin DOMAIN holds
        /\ \A g \in DOMAIN holds : holds'[g] = holds[g]
        /\ holds'[x].account = a
    BY <2>1 DEF Reserve
  <2>3. h = x
    BY <2>2 DEF Starts
  <2>4. QED
    BY <2>1, <2>2, <2>3 DEF Reserve, ChainActive
<1>5. CASE Claim
  <2>1. PICK x \in HoldIds, now \in Times : Dispatch(x, now)
    BY <1>5 DEF Claim
  <2>2. /\ DOMAIN holds' = DOMAIN holds /\ x \in DOMAIN holds
        /\ \A g \in DOMAIN holds \ {x} : holds'[g] = holds[g]
        /\ holds'[x].account = holds[x].account
    BY <1>0, <2>1 DEF Dispatch, SetState, HoldRow
  <2>3. h = x
    BY <2>2 DEF Starts
  <2>4. QED
    BY <2>1, <2>2, <2>3 DEF Dispatch, ChainActive
<1>6. CASE Doubt \/ Cancel \/ Reconcile
  <2>1. PICK x \in DOMAIN holds, state \in {"UNRESOLVED", "RELEASED"} : SetState(x, state)
    BY <1>6 DEF Doubt, Cancel, Reconcile, MarkUnresolved, Release, ReconcileNoCharge
  <2>2. QED
    BY <1>0, <1>2, <2>1 DEF SetState, HoldRow
<1>7. CASE Pay
  <2>1. PICK x \in HoldIds, actual \in Charges : Settle(x, actual)
    BY <1>7 DEF Pay
  <2>2. QED
    BY <1>0, <1>2, <2>1 DEF Settle, HoldRow
<1>8. CASE Sweep
  <2>1. PICK now \in Times, scope \in AccountIds \cup {None} : Expire(now, scope)
    BY <1>8 DEF Sweep
  <2> DEFINE E == Expiring(now, scope)
  <2>2. holds' = [g \in DOMAIN holds |-> IF g \in E THEN [holds[g] EXCEPT !.state = "RELEASED"]
                                                    ELSE holds[g]]
    BY <2>1 DEF Expire
  <2> HIDE DEF E
  <2>3. QED
    BY <1>0, <1>2, <2>2 DEF HoldRow
<1>9. QED
  BY <1>3, <1>4, <1>5, <1>6, <1>7, <1>8 DEF Next

(* After a bound breach no hold of a scope that shares an account with the  *)
(* breached one is created or dispatched.                                   *)
THEOREM BreachStopsWork == Spec => NoWorkAfterBreach
<1> DEFINE Stops == \A h \in HoldIds, g \in DOMAIN holds :
                      Starts(h) /\ Breached(g) =>
                        Ancestors(holds[g].account) \cap Ancestors(holds'[h].account) = {}
<1>1. IInv /\ [Next]_ledgerVars => [Stops]_ledgerVars
  <2>1. SUFFICES ASSUME IInv, Next, NEW h \in HoldIds, NEW g \in DOMAIN holds, Starts(h), Breached(g),
                        NEW s \in Ancestors(holds[g].account), s \in Ancestors(holds'[h].account)
                 PROVE  FALSE
    OBVIOUS
  <2>2. Active(s)
    BY <2>1, StartNeedsActiveChain DEF IInv
  <2>3. accounts[s].status = "FROZEN"
    BY <2>1 DEF IInv, BreachFreezes
  <2>4. QED
    BY <2>2, <2>3 DEF Active
<1>2. QED
  BY <1>1, IInvInvariant, PTL DEF Spec, NoWorkAfterBreach

-----------------------------------------------------------------------------
(* The events of a hold *)

(* A concatenation, element by element. *)
LEMMA ConcatIs ==
  ASSUME NEW S, NEW s \in Seq(S), NEW t \in Seq(S), NEW u \in Seq(S), Len(u) = Len(s) + Len(t),
         \A i \in 1 .. Len(s) : u[i] = s[i], \A i \in 1 .. Len(t) : u[Len(s) + i] = t[i]
  PROVE  s \o t = u
<1>0. Len(s) \in Nat /\ Len(t) \in Nat
  BY LenProperties
<1>1. s \o t \in Seq(S) /\ Len(s \o t) = Len(s) + Len(t)
  BY ConcatProperties
<1>2. \A i \in 1 .. Len(s) + Len(t) : (s \o t)[i] = IF i <= Len(s) THEN s[i] ELSE t[i - Len(s)]
  BY ConcatProperties
<1>3. ASSUME NEW i \in 1 .. Len(s \o t)
      PROVE  (s \o t)[i] = u[i]
  <2>1. CASE i <= Len(s)
    BY <1>0, <1>1, <1>2, <2>1
  <2>2. CASE ~(i <= Len(s))
    <3>1. i - Len(s) \in 1 .. Len(t) /\ Len(s) + (i - Len(s)) = i
      BY <1>0, <1>1, <2>2
    <3>2. u[Len(s) + (i - Len(s))] = t[i - Len(s)]
      BY <3>1
    <3> QED
      BY <1>1, <1>2, <2>2, <3>1, <3>2
  <2> QED
    BY <2>1, <2>2
<1> QED
  BY <1>1, <1>3, SeqEqual

(* One more element. *)
LEMMA OneMore ==
  ASSUME NEW S, NEW s \in Seq(S), NEW b \in S, NEW u \in Seq(S), Len(u) = Len(s) + 1,
         \A i \in 1 .. Len(s) : u[i] = s[i], u[Len(s) + 1] = b
  PROVE  s \o <<b>> = u
<1> DEFINE t == <<b>>
<1>1. t \in Seq(S) /\ Len(t) = 1 /\ t[1] = b
  OBVIOUS
<1> HIDE DEF t
<1>2. \A i \in 1 .. Len(t) : u[Len(s) + i] = t[i]
  BY <1>1
<1>3. s \o t = u
  BY <1>1, <1>2, ConcatIs
<1> QED
  BY <1>3 DEF t

(* The two shapes the events of a hold take. *)
LEMMA OneAndOne ==
  ASSUME NEW S, NEW a \in S, NEW b \in S
  PROVE  <<a>> \o <<b>> = <<a, b>>
<1> DEFINE s == <<a>>
           u == <<a, b>>
<1>1. s \in Seq(S) /\ Len(s) = 1 /\ s[1] = a
  OBVIOUS
<1>2. u \in Seq(S) /\ Len(u) = 2 /\ u[1] = a /\ u[2] = b
  OBVIOUS
<1> HIDE DEF s, u
<1>3. \A i \in 1 .. Len(s) : u[i] = s[i]
  BY <1>1, <1>2
<1>4. Len(u) = Len(s) + 1 /\ u[Len(s) + 1] = b
  BY <1>1, <1>2
<1>5. s \o <<b>> = u
  BY <1>1, <1>2, <1>3, <1>4, OneMore
<1> QED
  BY <1>5 DEF s, u

LEMMA TwoAndOne ==
  ASSUME NEW S, NEW a \in S, NEW b \in S, NEW c \in S
  PROVE  <<a, b>> \o <<c>> = <<a, b, c>>
<1> DEFINE s == <<a, b>>
           u == <<a, b, c>>
<1>1. s \in Seq(S) /\ Len(s) = 2 /\ s[1] = a /\ s[2] = b
  OBVIOUS
<1>2. u \in Seq(S) /\ Len(u) = 3 /\ u[1] = a /\ u[2] = b /\ u[3] = c
  OBVIOUS
<1> HIDE DEF s, u
<1>3. \A i \in 1 .. Len(s) : u[i] = s[i]
  BY <1>1, <1>2
<1>4. Len(u) = Len(s) + 1 /\ u[Len(s) + 1] = c
  BY <1>1, <1>2
<1>5. s \o <<c>> = u
  BY <1>1, <1>2, <1>3, <1>4, OneMore
<1> QED
  BY <1>5 DEF s, u

(* The rows the steps write on an event log, written out. *)
LEMMA Extended ==
  /\ <<>> \o <<"reserved">> = <<"reserved">>
  /\ <<"reserved">> \o <<"dispatched">> = <<"reserved", "dispatched">>
  /\ <<"reserved", "dispatched">> \o <<"unresolved">> = <<"reserved", "dispatched", "unresolved">>
  /\ <<"reserved">> \o <<"released">> = <<"reserved", "released">>
  /\ Append(<<"reserved">>, "released") = <<"reserved", "released">>
  /\ Append(<<"reserved">>, "expired") = <<"reserved", "expired">>
<1> DEFINE kinds == {"reserved", "dispatched", "unresolved", "released", "expired"}
<1>1. <<"reserved">> \in Seq(kinds)
  OBVIOUS
<1>2. <<>> \o <<"reserved">> = <<"reserved">>
  BY <1>1, ConcatEmptySeq
<1>3. \A k \in kinds : <<"reserved">> \o <<k>> = <<"reserved", k>>
  BY OneAndOne
<1>4. <<"reserved", "dispatched">> \o <<"unresolved">> = <<"reserved", "dispatched", "unresolved">>
  <2>1. \A a, b, c \in kinds : <<a, b>> \o <<c>> = <<a, b, c>>
    BY TwoAndOne
  <2>2. QED
    BY <2>1
<1>5. \A k \in kinds : Append(<<"reserved">>, k) = <<"reserved", k>>
  BY <1>1, <1>3, AppendIsConcat
<1>6. QED
  BY <1>2, <1>3, <1>4, <1>5

(* What is recorded of one hold explains its new row, if it says so. *)
LEMMA RecordExplains ==
  ASSUME TypeOK, EventsExplainHolds, NEW h \in HoldIds, NEW kinds, Record(h, kinds),
         DOMAIN holds' = DOMAIN holds \cup {h},
         \A g \in DOMAIN holds \ {h} : holds'[g] = holds[g],
         events[h] \o kinds \in History(h)'
  PROVE  EventsExplainHolds'
<1>1. events \in [HoldIds -> Seq(EventKinds)]
  BY DEF TypeOK
<1>2. events'[h] = events[h] \o kinds /\ \A g \in HoldIds \ {h} : events'[g] = events[g]
  BY <1>1 DEF Record
<1>3. SUFFICES ASSUME NEW g \in HoldIds
               PROVE  IF g \in DOMAIN holds' THEN events'[g] \in History(g)' ELSE events'[g] = <<>>
  BY DEF EventsExplainHolds
<1>4. CASE g = h
  BY <1>2, <1>4
<1>5. CASE g # h
  <2>1. IF g \in DOMAIN holds THEN events[g] \in History(g) ELSE events[g] = <<>>
    BY DEF EventsExplainHolds
  <2>2. g \in DOMAIN holds => History(g)' = History(g)
    BY <1>5 DEF History, Breached
  <2>3. QED
    BY <1>2, <1>5, <2>1, <2>2
<1>6. QED
  BY <1>4, <1>5

(* Reserved holds that are given back in one transaction. *)
LEMMA GiveBackExplains ==
  ASSUME TypeOK, EventsExplainHolds, NEW E \in SUBSET DOMAIN holds, NEW kind \in {"released", "expired"},
         \A h \in E : holds[h].state = "RESERVED",
         holds' = [h \in DOMAIN holds |-> IF h \in E THEN [holds[h] EXCEPT !.state = "RELEASED"] ELSE holds[h]],
         events' = [h \in HoldIds |-> IF h \in E THEN Append(events[h], kind) ELSE events[h]]
  PROVE  EventsExplainHolds'
<1>1. SUFFICES ASSUME NEW h \in HoldIds
               PROVE  IF h \in DOMAIN holds' THEN events'[h] \in History(h)' ELSE events'[h] = <<>>
  BY DEF EventsExplainHolds
<1>2. IF h \in DOMAIN holds THEN events[h] \in History(h) ELSE events[h] = <<>>
  BY DEF EventsExplainHolds
<1>3. CASE h \in E
  <2>1. holds[h] \in HoldRow /\ holds[h].state = "RESERVED"
    BY <1>3 DEF TypeOK
  <2>2. events[h] = <<"reserved">>
    BY <1>2, <1>3, <2>1 DEF History
  <2>3. events'[h] = Append(<<"reserved">>, kind)
    BY <1>3, <2>2
  <2>4. events'[h] \in {<<"reserved", "released">>, <<"reserved", "expired">>}
    BY <2>3, Extended
  <2>5. holds'[h].state = "RELEASED" /\ h \in DOMAIN holds'
    BY <1>3, <2>1 DEF HoldRow
  <2>6. QED
    BY <2>4, <2>5 DEF History
<1>4. CASE h \notin E
  <2>1. events'[h] = events[h] /\ DOMAIN holds' = DOMAIN holds
    BY <1>4
  <2>2. h \in DOMAIN holds => History(h)' = History(h)
    BY <1>4 DEF History, Breached
  <2>3. QED
    BY <1>2, <2>1, <2>2
<1>5. QED
  BY <1>3, <1>4

LEMMA NextExplains ==
  ASSUME IInv, EventsExplainHolds, [Next]_ledgerVars
  PROVE  EventsExplainHolds'
<1>0. TypeOK /\ \A h \in DOMAIN holds : holds[h] \in HoldRow /\ h \in HoldIds
  BY DEF IInv, TypeOK
<1>1. \A h \in DOMAIN holds : events[h] \in History(h)
  BY <1>0 DEF EventsExplainHolds
<1>2. ASSUME holds' = holds, events' = events
      PROVE  EventsExplainHolds'
  BY <1>2 DEF EventsExplainHolds, History, Breached
<1>3. CASE OpenAccount \/ Operate \/ UNCHANGED ledgerVars
  BY <1>2, <1>3 DEF OpenAccount, Operate, CreateAccount, SetLifecycle, ledgerVars
<1>4. CASE MakeHold
  <2>1. PICK a \in AccountIds, h \in HoldIds, b \in Bounds, r \in Requests, t \in Expiries :
          Reserve(a, h, b, r, t)
    BY <1>4 DEF MakeHold
  <2>2. /\ h \notin DOMAIN holds /\ Record(h, <<"reserved">>)
        /\ holds' = [g \in DOMAIN holds \cup {h} |->
                       IF g = h THEN [account |-> a, bound |-> b, request |-> r,
                                      expires_at |-> t, state |-> "RESERVED", actual |-> None]
                                ELSE holds[g]]
    BY <2>1 DEF Reserve
  <2>3. /\ DOMAIN holds' = DOMAIN holds \cup {h} /\ \A g \in DOMAIN holds \ {h} : holds'[g] = holds[g]
        /\ holds'[h].state = "RESERVED"
    BY <2>2
  <2>4. events[h] \o <<"reserved">> \in History(h)'
    BY <2>2, <2>3, Extended DEF EventsExplainHolds, History
  <2>5. QED
    BY <1>0, <2>2, <2>3, <2>4, RecordExplains
<1>5. CASE Claim
  <2>1. PICK h \in HoldIds, now \in Times : Dispatch(h, now)
    BY <1>5 DEF Claim
  <2>2. h \in DOMAIN holds /\ holds[h].state = "RESERVED" /\ Record(h, <<"dispatched">>)
        /\ holds' = [holds EXCEPT ![h].state = "DISPATCHED"]
    BY <2>1 DEF Dispatch, SetState
  <2>3. /\ DOMAIN holds' = DOMAIN holds \cup {h} /\ \A g \in DOMAIN holds \ {h} : holds'[g] = holds[g]
        /\ holds'[h].state = "DISPATCHED"
    BY <1>0, <2>2 DEF HoldRow
  <2>4. events[h] = <<"reserved">>
    BY <1>1, <2>2 DEF History
  <2>5. events[h] \o <<"dispatched">> \in History(h)'
    BY <2>3, <2>4, Extended DEF History
  <2>6. QED
    BY <1>0, <2>2, <2>3, <2>5, RecordExplains
<1>6. CASE Doubt
  <2>1. PICK h \in HoldIds : MarkUnresolved(h)
    BY <1>6 DEF Doubt
  <2>2. h \in DOMAIN holds /\ holds[h].state = "DISPATCHED" /\ Record(h, <<"unresolved">>)
        /\ holds' = [holds EXCEPT ![h].state = "UNRESOLVED"]
    BY <2>1 DEF MarkUnresolved, SetState
  <2>3. /\ DOMAIN holds' = DOMAIN holds \cup {h} /\ \A g \in DOMAIN holds \ {h} : holds'[g] = holds[g]
        /\ holds'[h].state = "UNRESOLVED"
    BY <1>0, <2>2 DEF HoldRow
  <2>4. events[h] = <<"reserved", "dispatched">>
    BY <1>1, <2>2 DEF History
  <2>5. events[h] \o <<"unresolved">> \in History(h)'
    BY <2>3, <2>4, Extended DEF History
  <2>6. QED
    BY <1>0, <2>2, <2>3, <2>5, RecordExplains
<1>7. CASE Pay
  <2>1. PICK h \in HoldIds, actual \in Charges : Settle(h, actual)
    BY <1>7 DEF Pay
  <2> DEFINE kinds == IF actual > holds[h].bound THEN <<"settled", "liability_bound_breached">>
                                                 ELSE <<"settled">>
  <2>2. h \in DOMAIN holds /\ holds[h].state \in {"DISPATCHED", "UNRESOLVED"} /\ Record(h, kinds)
        /\ holds' = [holds EXCEPT ![h].state = "SETTLED", ![h].actual = actual]
    BY <2>1 DEF Settle
  <2>3. /\ DOMAIN holds' = DOMAIN holds \cup {h} /\ \A g \in DOMAIN holds \ {h} : holds'[g] = holds[g]
        /\ holds'[h].state = "SETTLED" /\ holds'[h].actual = actual /\ holds'[h].bound = holds[h].bound
    BY <1>0, <2>2 DEF HoldRow
  <2>4. events[h] \in Claimed
    BY <1>1, <2>2 DEF History, Claimed
  <2>5. kinds = IF Breached(h)' THEN <<"settled", "liability_bound_breached">> ELSE <<"settled">>
    BY <2>3 DEF Breached
  <2> HIDE DEF kinds
  <2>6. events[h] \o kinds \in History(h)'
    BY <2>3, <2>4, <2>5 DEF History
  <2>7. QED
    BY <1>0, <2>2, <2>3, <2>6, RecordExplains
<1>8. CASE Cancel
  <2>1. PICK h \in HoldIds : Release(h)
    BY <1>8 DEF Cancel
  <2>2. h \in DOMAIN holds /\ holds[h].state = "RESERVED" /\ Record(h, <<"released">>)
        /\ holds' = [holds EXCEPT ![h].state = "RELEASED"]
    BY <2>1 DEF Release, Releasable, SetState
  <2>3. /\ DOMAIN holds' = DOMAIN holds \cup {h} /\ \A g \in DOMAIN holds \ {h} : holds'[g] = holds[g]
        /\ holds'[h].state = "RELEASED"
    BY <1>0, <2>2 DEF HoldRow
  <2>4. events[h] = <<"reserved">>
    BY <1>1, <2>2 DEF History
  <2>5. events[h] \o <<"released">> \in History(h)'
    BY <2>3, <2>4, Extended DEF History
  <2>6. QED
    BY <1>0, <2>2, <2>3, <2>5, RecordExplains
<1>9. CASE Reconcile
  <2>1. PICK h \in HoldIds : ReconcileNoCharge(h)
    BY <1>9 DEF Reconcile
  <2>2. h \in DOMAIN holds /\ holds[h].state \in {"DISPATCHED", "UNRESOLVED"}
        /\ Record(h, <<"reconciled_no_charge">>)
        /\ holds' = [holds EXCEPT ![h].state = "RELEASED"]
    BY <2>1 DEF ReconcileNoCharge, Releasable, SetState
  <2>3. /\ DOMAIN holds' = DOMAIN holds \cup {h} /\ \A g \in DOMAIN holds \ {h} : holds'[g] = holds[g]
        /\ holds'[h].state = "RELEASED"
    BY <1>0, <2>2 DEF HoldRow
  <2>4. events[h] \in Claimed
    BY <1>1, <2>2 DEF History, Claimed
  <2>5. events[h] \o <<"reconciled_no_charge">> \in History(h)'
    BY <2>3, <2>4 DEF History
  <2>6. QED
    BY <1>0, <2>2, <2>3, <2>5, RecordExplains
<1>10. CASE Sweep
  <2>1. PICK now \in Times, scope \in AccountIds \cup {None} : Expire(now, scope)
    BY <1>10 DEF Sweep
  <2> DEFINE E == Expiring(now, scope)
  <2>2. E \in SUBSET DOMAIN holds /\ \A h \in E : holds[h].state = "RESERVED"
    BY DEF Expiring
  <2>3. /\ holds'  = [h \in DOMAIN holds |-> IF h \in E THEN [holds[h] EXCEPT !.state = "RELEASED"] ELSE holds[h]]
        /\ events' = [h \in HoldIds |-> IF h \in E THEN Append(events[h], "expired") ELSE events[h]]
    BY <2>1 DEF Expire
  <2> HIDE DEF E
  <2>4. QED
    BY <1>0, <2>2, <2>3, GiveBackExplains
<1>11. QED
  BY <1>3, <1>4, <1>5, <1>6, <1>7, <1>8, <1>9, <1>10 DEF Next

(* The journal of a hold tells its state, for every history of calls: one   *)
(* claim, one end, a charge only after a claim and a breach on record.      *)
THEOREM JournalExplainsHolds == Spec => []EventsExplainHolds
<1>1. Init => EventsExplainHolds
  BY DEF Init, EventsExplainHolds
<1>2. EventsExplainHolds /\ IInv /\ [Next]_ledgerVars => EventsExplainHolds'
  BY NextExplains
<1>3. QED
  BY <1>1, <1>2, IInvInvariant, PTL DEF Spec

-----------------------------------------------------------------------------
(* The kernel implements SpendingAuthority.  The mapping forgets the        *)
(* columns the kernel decides on; that the decisions are right rests on the *)
(* invariant: the columns are the sums, and a breach froze its chain.       *)

(* Weights that are zero add up to zero. *)
LEMMA TotalZero ==
  ASSUME NEW S, NEW w, \A s \in S : w[s] = 0
  PROVE  Total(S, w) = 0
<1>1. Coins(S, w) = {}
  BY DEF Coins
<1>2. QED
  BY <1>1, FS_EmptySet DEF Total

(* The delegation forest is the same on both sides. *)
LEMMA SameChains == \A a : Authority!Chain(Scopes, a) = Ancestors(a)
<1>1. \A r, a : Authority!Chain(r, a) = Chain(r, a)
  BY DEF Authority!Chain, Chain
<1>2. DOMAIN Scopes = DOMAIN accounts /\ \A b \in DOMAIN accounts : Scopes[b].parent = accounts[b].parent
  BY DEF Scopes, ScopeOf
<1>3. \A a : Chain(Scopes, a) = Chain(accounts, a)
  BY <1>2, ChainStable
<1>4. QED
  BY <1>1, <1>3 DEF Ancestors

(* So are the attempts beneath an account. *)
LEMMA SameUnder == \A a : Authority!Under(a) = HoldsUnder(a)
<1>1. DOMAIN Attempts = DOMAIN holds /\ \A h \in DOMAIN holds : Attempts[h].account = holds[h].account
  BY DEF Attempts, AttemptOf
<1>2. QED
  BY <1>1, SameChains DEF Authority!Under, HoldsUnder

(* What the phases of a hold's states are. *)
LEMMA Phases ==
  /\ Phase("RESERVED") = "held" /\ Phase("SETTLED") = "charged" /\ Phase("RELEASED") = "freed"
  /\ Phase("DISPATCHED") = "issued" /\ Phase("UNRESOLVED") = "issued"
BY DEF Phase

(* A hold is committed at its bound while it is outstanding and at its      *)
(* charge, if any, afterwards.                                              *)
LEMMA CommittedRows ==
  ASSUME TypeOK, NEW h \in DOMAIN holds
  PROVE  Authority!Committed[h] = IF holds[h].state \in OUTSTANDING THEN UpperBounds[h] ELSE ActualCharges[h]
<1>1. holds[h].state \in {"RESERVED", "DISPATCHED", "UNRESOLVED", "SETTLED", "RELEASED"}
  BY DEF TypeOK, HoldRow, HoldStates, OUTSTANDING
<1>2. /\ h \in DOMAIN Attempts
      /\ Attempts[h].phase = Phase(holds[h].state)
      /\ Attempts[h].bound = holds[h].bound /\ Attempts[h].charge = holds[h].actual
  BY DEF Attempts, AttemptOf
<1>3. Authority!Committed[h] =
        CASE Attempts[h].phase \in {"held", "issued"} -> Attempts[h].bound
          [] Attempts[h].phase = "charged"            -> Attempts[h].charge
          [] Attempts[h].phase = "freed"              -> 0
  BY <1>2 DEF Authority!Committed
<1>4. QED
  BY <1>1, <1>2, <1>3, Phases DEF OUTSTANDING, UpperBounds, ActualCharges

(* The two columns of an account are its commitment. *)
LEMMA ColumnsAreCommitment ==
  ASSUME IInv, NEW a \in DOMAIN accounts
  PROVE  Authority!Commitment(a) = Spent(a) + accounts[a].reserved
<1> DEFINE U == HoldsUnder(a)
           O == OutstandingUnder(a)
           w == Authority!Committed
<1>0. TypeOK /\ SettledHasActual
  BY DEF IInv
<1>1. /\ IsFiniteSet(U) /\ IsFiniteSet(O)
      /\ \A h \in DOMAIN holds : UpperBounds[h] \in Nat /\ ActualCharges[h] \in Nat
  BY <1>0, SumTypes
<1>2. O \subseteq U /\ U \subseteq DOMAIN holds /\ \A h \in U : h \in O <=> holds[h].state \in OUTSTANDING
  BY DEF OutstandingUnder, HoldsUnder
<1>3. /\ \A h \in O : w[h] = UpperBounds[h] /\ ActualCharges[h] = 0
      /\ \A h \in U \ O : w[h] = ActualCharges[h]
  BY <1>0, <1>2, CommittedRows DEF OUTSTANDING, ActualCharges
<1> HIDE DEF w, U, O
<1>4. /\ IsFiniteSet(U \ O) /\ O \cup (U \ O) = U /\ O \cap (U \ O) = {}
  BY <1>1, <1>2, FS_Difference
<1>5. Total(U, w) = Total(O, w) + Total(U \ O, w)
  BY <1>1, <1>2, <1>3, <1>4, TotalUnion
<1>6. Total(U, ActualCharges) = Total(O, ActualCharges) + Total(U \ O, ActualCharges)
  BY <1>1, <1>2, <1>4, TotalUnion
<1>7. Total(O, w) = Total(O, UpperBounds) /\ Total(U \ O, w) = Total(U \ O, ActualCharges)
  BY <1>3, TotalCongruence
<1>8. Total(O, ActualCharges) = 0
  BY <1>3, TotalZero
<1>9. Total(U \ O, ActualCharges) \in Nat /\ Total(O, UpperBounds) \in Nat
  BY <1>1, <1>2, <1>4, TotalType
<1>10. Spent(a) = Total(U, ActualCharges) /\ accounts[a].reserved = Total(O, UpperBounds)
  BY DEF IInv, Consistent, AuditedSpent, AuditedReserved, U, O
<1>11. Total(U, w) = Spent(a) + accounts[a].reserved
  BY <1>5, <1>6, <1>7, <1>8, <1>9, <1>10
<1>12. Authority!Commitment(a) = Total(U, w)
  <2>1. \A S, v : Authority!Total(S, v) = Total(S, v)
    BY DEF Authority!Total, Total, Authority!Coins, Coins, Authority!Cardinality, Cardinality, Authority!IsFiniteSet, IsFiniteSet
  <2>2. QED
    BY <2>1, SameUnder DEF Authority!Commitment, U, w
<1>13. QED
  BY <1>11, <1>12

(* Where the chain is active, no breach is on record. *)
LEMMA ActiveIsNotStopped ==
  ASSUME IInv, NEW a, ChainActive(a)
  PROVE  ~ Authority!Stopped(a)
<1>1. SUFFICES ASSUME NEW s \in Ancestors(a), NEW h \in DOMAIN holds, h \in HoldsUnder(s),
                      Authority!Overcharged(h)
               PROVE  FALSE
  <2>1. DOMAIN Attempts = DOMAIN holds
    BY DEF Attempts
  <2>2. QED
    BY <2>1, SameChains, SameUnder DEF Authority!Stopped
<1>2. Breached(h)
  <2>1. holds[h].state \in {"RESERVED", "DISPATCHED", "UNRESOLVED", "SETTLED", "RELEASED"}
    BY DEF IInv, TypeOK, HoldRow, HoldStates, OUTSTANDING
  <2>2. Phase(holds[h].state) = "charged" /\ holds[h].actual > holds[h].bound
    BY <1>1 DEF Authority!Overcharged, Attempts, AttemptOf
  <2>3. QED
    BY <2>1, <2>2, Phases DEF Breached
<1>3. accounts[s].status = "FROZEN"
  BY <1>1, <1>2 DEF IInv, BreachFreezes, HoldsUnder
<1>4. QED
  BY <1>1, <1>3 DEF ChainActive, Active

-----------------------------------------------------------------------------
(* What a statement that writes states does to the attempts. *)
LEMMA WrittenState ==
  ASSUME TypeOK, NEW h \in DOMAIN holds, NEW state, SetState(h, state)
  PROVE  Attempts' = [Attempts EXCEPT ![h].phase = Phase(state)]
<1>1. \A g \in DOMAIN holds : holds[g] \in HoldRow
  BY DEF TypeOK
<1>2. DOMAIN holds' = DOMAIN holds /\ \A g \in DOMAIN holds \ {h} : holds'[g] = holds[g]
  BY DEF SetState
<1>3. /\ holds'[h].state = state /\ holds'[h].account = holds[h].account
      /\ holds'[h].bound = holds[h].bound /\ holds'[h].actual = holds[h].actual
  BY <1>1 DEF SetState, HoldRow
<1>4. AttemptOf(holds'[h]) = [AttemptOf(holds[h]) EXCEPT !.phase = Phase(state)]
  BY <1>3 DEF AttemptOf
<1>5. QED
  BY <1>2, <1>4 DEF Attempts

(* A step that leaves the accounts' funding and parents alone leaves the    *)
(* scopes alone.                                                            *)
LEMMA KeptScopes ==
  ASSUME DOMAIN accounts' = DOMAIN accounts,
         \A a \in DOMAIN accounts : /\ accounts'[a].funded = accounts[a].funded
                                    /\ accounts'[a].parent = accounts[a].parent
  PROVE  Scopes' = Scopes
BY DEF Scopes, ScopeOf

LEMMA UnreserveKeepsScopes ==
  ASSUME TypeOK, NEW H, Unreserve(H)
  PROVE  Scopes' = Scopes
<1>1. \A a \in DOMAIN accounts : accounts[a] \in AccountRow
  BY DEF TypeOK
<1>2. DOMAIN accounts' = DOMAIN accounts
  BY DEF Unreserve
<1>3. \A a \in DOMAIN accounts : /\ accounts'[a].funded = accounts[a].funded
                                 /\ accounts'[a].parent = accounts[a].parent
  BY <1>1 DEF Unreserve, AccountRow
<1>4. QED
  BY <1>2, <1>3, KeptScopes

-----------------------------------------------------------------------------
(* One lemma per method: create_account delegates. *)
LEMMA CreateAccountDelegates ==
  ASSUME IInv, NEW a \in AccountIds, NEW f \in Fundings, NEW u \in Units,
         NEW p \in AccountIds \cup {None}, CreateAccount(a, f, u, p)
  PROVE  Authority!Delegate(a, f, p)
<1>1. a \notin DOMAIN Scopes
  BY DEF Scopes, CreateAccount
<1>2. p # None => p \in DOMAIN Scopes /\ f <= Scopes[p].funded /\ ~ Authority!Stopped(p)
  BY ActiveIsNotStopped DEF CreateAccount, Scopes, ScopeOf
<1>3. /\ DOMAIN accounts' = DOMAIN accounts \cup {a} /\ a \notin DOMAIN accounts
      /\ \A b \in DOMAIN accounts : accounts'[b] = accounts[b]
      /\ accounts'[a].funded = f /\ accounts'[a].parent = p
  BY DEF CreateAccount
<1>4. Scopes' = [b \in DOMAIN Scopes \cup {a} |-> IF b = a THEN [funded |-> f, parent |-> p] ELSE Scopes[b]]
  BY <1>3 DEF Scopes, ScopeOf
<1>5. Attempts' = Attempts
  BY DEF CreateAccount, Attempts
<1>6. QED
  BY <1>1, <1>2, <1>4, <1>5 DEF Authority!Delegate

(* reserve holds. *)
LEMMA ReserveHolds ==
  ASSUME IInv, NEW a \in AccountIds, NEW h \in HoldIds, NEW b \in Bounds, NEW r \in Requests,
         NEW t \in Expiries, Reserve(a, h, b, r, t)
  PROVE  Authority!Hold(h, a, b)
<1>1. h \notin DOMAIN Attempts /\ a \in DOMAIN Scopes
  BY DEF Attempts, Scopes, Reserve
<1>2. ~ Authority!Stopped(a)
  BY ActiveIsNotStopped DEF Reserve
<1>3. ASSUME NEW s \in Authority!Chain(Scopes, a)
      PROVE  Authority!Commitment(s) + b <= Scopes[s].funded
  <2>1. s \in Ancestors(a) /\ s \in DOMAIN accounts
    BY <1>3, SameChains, ChainType DEF Ancestors, Reserve
  <2>2. Spent(s) + accounts[s].reserved + b <= accounts[s].funded
    BY <2>1 DEF Reserve, Fits
  <2>3. Scopes[s].funded = accounts[s].funded
    BY <2>1 DEF Scopes, ScopeOf
  <2>4. QED
    BY <2>1, <2>2, <2>3, ColumnsAreCommitment
<1>4. /\ DOMAIN holds' = DOMAIN holds \cup {h} /\ h \notin DOMAIN holds
      /\ \A g \in DOMAIN holds : holds'[g] = holds[g]
      /\ holds'[h] = [account |-> a, bound |-> b, request |-> r, expires_at |-> t,
                      state |-> "RESERVED", actual |-> None]
  BY DEF Reserve
<1>5. AttemptOf(holds'[h]) = [account |-> a, bound |-> b, phase |-> "held", charge |-> None]
  BY <1>4, Phases DEF AttemptOf
<1>6. Attempts' = [g \in DOMAIN Attempts \cup {h} |->
                     IF g = h THEN [account |-> a, bound |-> b, phase |-> "held", charge |-> None]
                              ELSE Attempts[g]]
  BY <1>4, <1>5 DEF Attempts
<1>7. Scopes' = Scopes
  <2>1. \A s \in DOMAIN accounts : accounts[s] \in AccountRow
    BY DEF IInv, TypeOK
  <2>2. DOMAIN accounts' = DOMAIN accounts
    BY DEF Reserve
  <2>3. \A s \in DOMAIN accounts : /\ accounts'[s].funded = accounts[s].funded
                                   /\ accounts'[s].parent = accounts[s].parent
    BY <2>1 DEF Reserve, AccountRow
  <2>4. QED
    BY <2>2, <2>3, KeptScopes
<1>8. QED
  BY <1>1, <1>2, <1>3, <1>6, <1>7 DEF Authority!Hold

(* mark_dispatched issues. *)
LEMMA DispatchIssues ==
  ASSUME IInv, NEW h \in HoldIds, NEW now, Dispatch(h, now)
  PROVE  Authority!Issue(h)
<1>0. TypeOK /\ h \in DOMAIN holds
  BY DEF IInv, Dispatch
<1>1. h \in DOMAIN Attempts /\ Attempts[h].phase = "held" /\ Attempts[h].account = holds[h].account
  BY Phases DEF Dispatch, Attempts, AttemptOf
<1>2. ~ Authority!Stopped(holds[h].account)
  BY ActiveIsNotStopped DEF Dispatch
<1>3. Attempts' = [Attempts EXCEPT ![h].phase = "issued"]
  BY <1>0, WrittenState, Phases DEF Dispatch
<1>4. Scopes' = Scopes
  BY DEF Dispatch, Scopes
<1>5. QED
  BY <1>1, <1>2, <1>3, <1>4 DEF Authority!Issue

(* mark_unresolved changes nothing that was promised. *)
LEMMA MarkUnresolvedStutters ==
  ASSUME IInv, NEW h \in HoldIds, MarkUnresolved(h)
  PROVE  Attempts' = Attempts /\ Scopes' = Scopes
<1>0. TypeOK /\ h \in DOMAIN holds
  BY DEF IInv, MarkUnresolved
<1>1. Attempts' = [Attempts EXCEPT ![h].phase = "issued"]
  BY <1>0, WrittenState, Phases DEF MarkUnresolved
<1>2. Attempts[h].phase = "issued"
  BY <1>0, Phases DEF MarkUnresolved, Attempts, AttemptOf
<1>3. Attempts' = Attempts
  <2>1. Attempts[h] = AttemptOf(holds[h]) /\ DOMAIN Attempts = DOMAIN holds
    BY <1>0 DEF Attempts
  <2>2. [AttemptOf(holds[h]) EXCEPT !.phase = "issued"] = AttemptOf(holds[h])
    BY <1>2, <2>1 DEF AttemptOf
  <2>3. \A g \in DOMAIN Attempts : Attempts'[g] = Attempts[g]
    BY <1>1, <2>1, <2>2
  <2>4. QED
    BY <1>1, <2>3 DEF Attempts
<1>4. QED
  BY <1>3 DEF MarkUnresolved, Scopes

(* settle charges. *)
LEMMA SettleCharges ==
  ASSUME IInv, NEW h \in HoldIds, NEW c \in Charges, Settle(h, c)
  PROVE  Authority!Charge(h, c)
<1>0. /\ \A a \in DOMAIN accounts : accounts[a] \in AccountRow
      /\ \A g \in DOMAIN holds : holds[g] \in HoldRow
      /\ h \in DOMAIN holds
  BY DEF IInv, TypeOK, Settle
<1>1. h \in DOMAIN Attempts /\ Attempts[h].phase = "issued"
  BY Phases DEF Settle, Attempts, AttemptOf
<1>2. /\ DOMAIN holds' = DOMAIN holds /\ \A g \in DOMAIN holds \ {h} : holds'[g] = holds[g]
      /\ holds'[h].state = "SETTLED" /\ holds'[h].actual = c
      /\ holds'[h].account = holds[h].account /\ holds'[h].bound = holds[h].bound
  BY <1>0 DEF Settle, HoldRow
<1>3. Attempts'[h] = [account |-> holds[h].account, bound |-> holds[h].bound, phase |-> "charged", charge |-> c]
  BY <1>0, <1>2, Phases DEF Attempts, AttemptOf
<1>4. Attempts' = [Attempts EXCEPT ![h] = [account |-> @.account, bound |-> @.bound,
                                           phase |-> "charged", charge |-> c]]
  <2>1. Attempts[h].account = holds[h].account /\ Attempts[h].bound = holds[h].bound
    BY <1>0 DEF Attempts, AttemptOf
  <2>2. DOMAIN Attempts' = DOMAIN Attempts /\ \A g \in DOMAIN Attempts \ {h} : Attempts'[g] = Attempts[g]
    BY <1>2 DEF Attempts
  <2>3. QED
    BY <1>1, <1>3, <2>1, <2>2 DEF Attempts
<1>5. DOMAIN accounts' = DOMAIN accounts
  BY DEF Settle
<1>6. \A a \in DOMAIN accounts : /\ accounts'[a].funded = accounts[a].funded
                                 /\ accounts'[a].parent = accounts[a].parent
  BY <1>0 DEF Settle, SettledAccount, AccountRow
<1>7. Scopes' = Scopes
  BY <1>5, <1>6, KeptScopes
<1>8. QED
  BY <1>1, <1>4, <1>7 DEF Authority!Charge

(* release frees the one hold. *)
LEMMA ReleaseFrees ==
  ASSUME IInv, NEW h \in HoldIds, Release(h)
  PROVE  {h} \in SUBSET DOMAIN Attempts /\ Authority!Free({h})
<1>0. TypeOK /\ h \in DOMAIN holds
  BY DEF IInv, Release
<1>1. h \in DOMAIN Attempts /\ Attempts[h].phase = "held"
  BY Phases DEF Release, Releasable, Attempts, AttemptOf
<1>2. Attempts' = [Attempts EXCEPT ![h].phase = "freed"]
  BY <1>0, WrittenState, Phases DEF Release
<1>3. Attempts' = [g \in DOMAIN Attempts |->
                     IF g \in {h} THEN [Attempts[g] EXCEPT !.phase = "freed"] ELSE Attempts[g]]
  BY <1>1, <1>2
<1>4. Scopes' = Scopes
  BY <1>0, UnreserveKeepsScopes DEF Release
<1>5. QED
  BY <1>1, <1>3, <1>4 DEF Authority!Free

(* reconcile_no_charge acquits. *)
LEMMA ReconcileAcquits ==
  ASSUME IInv, NEW h \in HoldIds, ReconcileNoCharge(h)
  PROVE  Authority!Acquit(h)
<1>0. TypeOK /\ h \in DOMAIN holds
  BY DEF IInv, ReconcileNoCharge
<1>1. h \in DOMAIN Attempts /\ Attempts[h].phase = "issued"
  BY Phases DEF ReconcileNoCharge, Releasable, Attempts, AttemptOf
<1>2. Attempts' = [Attempts EXCEPT ![h].phase = "freed"]
  BY <1>0, WrittenState, Phases DEF ReconcileNoCharge
<1>3. Scopes' = Scopes
  BY <1>0, UnreserveKeepsScopes DEF ReconcileNoCharge
<1>4. QED
  BY <1>1, <1>2, <1>3 DEF Authority!Acquit

(* set_lifecycle changes nothing that was promised. *)
LEMMA SetLifecycleStutters ==
  ASSUME IInv, NEW a \in AccountIds, NEW l \in Lifecycles, SetLifecycle(a, l)
  PROVE  Attempts' = Attempts /\ Scopes' = Scopes
<1>1. \A s \in DOMAIN accounts : accounts[s] \in AccountRow
  BY DEF IInv, TypeOK
<1>2. DOMAIN accounts' = DOMAIN accounts
  BY DEF SetLifecycle
<1>3. \A s \in DOMAIN accounts : /\ accounts'[s].funded = accounts[s].funded
                                 /\ accounts'[s].parent = accounts[s].parent
  BY <1>1 DEF SetLifecycle, AccountRow
<1>4. QED
  BY <1>2, <1>3, KeptScopes DEF SetLifecycle, Attempts

(* expire frees whatever it sweeps. *)
LEMMA ExpireFrees ==
  ASSUME IInv, NEW now, NEW scope, Expire(now, scope)
  PROVE  \E H \in SUBSET DOMAIN Attempts : Authority!Free(H)
<1> DEFINE E == Expiring(now, scope)
<1>0. TypeOK /\ \A g \in DOMAIN holds : holds[g] \in HoldRow
  BY DEF IInv, TypeOK
<1>1. E \subseteq DOMAIN holds /\ \A h \in E : holds[h].state = "RESERVED"
  BY DEF Expiring
<1>2. Unreserve(E) /\ holds' = [h \in DOMAIN holds |-> IF h \in E THEN [holds[h] EXCEPT !.state = "RELEASED"]
                                                                ELSE holds[h]]
  BY DEF Expire
<1> HIDE DEF E
<1>3. E \in SUBSET DOMAIN Attempts /\ \A h \in E : Attempts[h].phase = "held"
  BY <1>1, Phases DEF Attempts, AttemptOf
<1>4. \A h \in DOMAIN holds : h \in E => AttemptOf(holds'[h]) = [AttemptOf(holds[h]) EXCEPT !.phase = "freed"]
  <2>1. SUFFICES ASSUME NEW h \in DOMAIN holds, h \in E
                 PROVE  AttemptOf(holds'[h]) = [AttemptOf(holds[h]) EXCEPT !.phase = "freed"]
    OBVIOUS
  <2>2. /\ holds'[h].state = "RELEASED" /\ holds'[h].account = holds[h].account
        /\ holds'[h].bound = holds[h].bound /\ holds'[h].actual = holds[h].actual
    BY <1>0, <1>2, <2>1 DEF HoldRow
  <2>3. QED
    BY <2>2, Phases DEF AttemptOf
<1>5. \A h \in DOMAIN holds : h \notin E => holds'[h] = holds[h]
  BY <1>2
<1>6. Attempts' = [h \in DOMAIN Attempts |->
                     IF h \in E THEN [Attempts[h] EXCEPT !.phase = "freed"] ELSE Attempts[h]]
  BY <1>2, <1>4, <1>5 DEF Attempts
<1>7. Scopes' = Scopes
  BY <1>0, <1>2, UnreserveKeepsScopes
<1>8. Authority!Free(E)
  BY <1>3, <1>6, <1>7 DEF Authority!Free
<1>9. QED
  BY <1>3, <1>8

-----------------------------------------------------------------------------
(* The tables start as the abstract state does. *)
LEMMA InitMaps == Init => Authority!AuthorityInit
BY DEF Init, Authority!AuthorityInit, Scopes, Attempts

(* Every call is an abstract step or changes nothing that was promised. *)
LEMMA StepMaps == IInv /\ [Next]_ledgerVars => [Authority!AuthorityNext]_(Authority!authorityVars)
<1>0. SUFFICES ASSUME IInv, [Next]_ledgerVars PROVE [Authority!AuthorityNext]_(Authority!authorityVars)
  OBVIOUS
<1>1. CASE OpenAccount
  <2>1. PICK a \in AccountIds, f \in Fundings, u \in Units, p \in AccountIds \cup {None} :
          CreateAccount(a, f, u, p)
    BY <1>1 DEF OpenAccount
  <2>2. QED
    BY <1>0, <2>1, CreateAccountDelegates DEF Authority!AuthorityNext
<1>2. CASE MakeHold
  <2>1. PICK a \in AccountIds, h \in HoldIds, b \in Bounds, r \in Requests, t \in Expiries :
          Reserve(a, h, b, r, t)
    BY <1>2 DEF MakeHold
  <2>2. QED
    BY <1>0, <2>1, ReserveHolds DEF Authority!AuthorityNext
<1>3. CASE Claim
  <2>1. PICK h \in HoldIds, now \in Times : Dispatch(h, now)
    BY <1>3 DEF Claim
  <2>2. QED
    BY <1>0, <2>1, DispatchIssues DEF Authority!AuthorityNext
<1>4. CASE Doubt
  <2>1. PICK h \in HoldIds : MarkUnresolved(h)
    BY <1>4 DEF Doubt
  <2>2. QED
    BY <1>0, <2>1, MarkUnresolvedStutters DEF Authority!authorityVars
<1>5. CASE Pay
  <2>1. PICK h \in HoldIds, c \in Charges : Settle(h, c)
    BY <1>5 DEF Pay
  <2>2. QED
    BY <1>0, <2>1, SettleCharges DEF Authority!AuthorityNext
<1>6. CASE Cancel
  <2>1. PICK h \in HoldIds : Release(h)
    BY <1>6 DEF Cancel
  <2>2. QED
    BY <1>0, <2>1, ReleaseFrees DEF Authority!AuthorityNext
<1>7. CASE Reconcile
  <2>1. PICK h \in HoldIds : ReconcileNoCharge(h)
    BY <1>7 DEF Reconcile
  <2>2. QED
    BY <1>0, <2>1, ReconcileAcquits DEF Authority!AuthorityNext
<1>8. CASE Operate
  <2>1. PICK a \in AccountIds, l \in Lifecycles : SetLifecycle(a, l)
    BY <1>8 DEF Operate
  <2>2. QED
    BY <1>0, <2>1, SetLifecycleStutters DEF Authority!authorityVars
<1>9. CASE Sweep
  <2>1. PICK now \in Times, scope \in AccountIds \cup {None} : Expire(now, scope)
    BY <1>9 DEF Sweep
  <2>2. QED
    BY <1>0, <2>1, ExpireFrees DEF Authority!AuthorityNext
<1>10. CASE UNCHANGED ledgerVars
  BY <1>10 DEF ledgerVars, Authority!authorityVars, Scopes, Attempts
<1>11. QED
  BY <1>0, <1>1, <1>2, <1>3, <1>4, <1>5, <1>6, <1>7, <1>8, <1>9, <1>10 DEF Next

(* The kernel implements the specification that knows no columns. *)
THEOREM KernelImplementsAuthority == Spec => ImplementsAuthority
<1>1. QED
  BY InitMaps, StepMaps, IInvInvariant, PTL DEF Spec, ImplementsAuthority, Authority!AuthoritySpec
=============================================================================
