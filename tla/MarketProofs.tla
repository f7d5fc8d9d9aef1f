---------------------------- MODULE MarketProofs ----------------------------
(***************************************************************************)
(* Theorems about Market for every number of wallets, bids and auctions.   *)
(***************************************************************************)
EXTENDS Market, LedgerProofs

-----------------------------------------------------------------------------
(* The market's steps and the kernel's invariant *)

(* Some holds that nobody claimed are given back, and nothing else happens  *)
(* to the holds.                                                            *)
GivesBack ==
  /\ DOMAIN holds' = DOMAIN holds
  /\ \A h \in DOMAIN holds :
       \/ holds'[h] = holds[h]
       \/ holds[h].state = "RESERVED" /\ holds'[h] = [holds[h] EXCEPT !.state = "RELEASED"]

LEMMA KeepsGivesBack ==
  ASSUME holds' = holds
  PROVE  GivesBack
BY DEF GivesBack

LEMMA ReleaseHoldsInductive ==
  ASSUME IInv, NEW R, ReleaseHolds(R)
  PROVE  IInv' /\ GivesBack
<1> DEFINE H == {h \in DOMAIN holds : holds[h].state = "RESERVED" /\ \E b \in R : bids[b].hold = h}
<1>1. \A h \in H : h \in DOMAIN holds /\ holds[h].state = "RESERVED" /\ holds[h].state \in OUTSTANDING
  BY DEF OUTSTANDING
<1>2. /\ Unreserve(H)
      /\ holds' = [h \in DOMAIN holds |-> IF h \in H THEN [holds[h] EXCEPT !.state = "RELEASED"]
                                                     ELSE holds[h]]
      /\ events' = [h \in HoldIds |-> IF h \in H THEN Append(events[h], "released") ELSE events[h]]
  BY DEF ReleaseHolds
<1> HIDE DEF H
<1>3. events' \in [HoldIds -> Seq(EventKinds)]
  <2>1. events \in [HoldIds -> Seq(EventKinds)] /\ "released" \in EventKinds
    BY DEF IInv, TypeOK, EventKinds
  <2>2. \A h \in HoldIds : Append(events[h], "released") \in Seq(EventKinds)
    BY <2>1
  <2>3. QED
    BY <1>2, <2>1, <2>2
<1>4. IInv'
  BY <1>1, <1>2, <1>3, GiveBackInductive
<1>5. GivesBack
  BY <1>1, <1>2 DEF GivesBack
<1>6. QED
  BY <1>4, <1>5

(* What the kernel's own clean-up does. *)
LEMMA SweepGivesBack ==
  ASSUME IInv, Sweep \/ Cancel
  PROVE  IInv' /\ GivesBack
<1>1. IInv'
  BY NextInductive DEF Next
<1>2. CASE Sweep
  <2>1. PICK now \in Times, scope \in AccountIds \cup {None} : Expire(now, scope)
    BY <1>2 DEF Sweep
  <2>2. /\ \A h \in Expiring(now, scope) : holds[h].state = "RESERVED"
        /\ holds' = [h \in DOMAIN holds |-> IF h \in Expiring(now, scope)
                                              THEN [holds[h] EXCEPT !.state = "RELEASED"] ELSE holds[h]]
    BY <2>1 DEF Expire, Expiring
  <2>3. QED
    BY <1>1, <2>2 DEF GivesBack
<1>3. CASE Cancel
  <2>1. PICK h \in HoldIds : Release(h)
    BY <1>3 DEF Cancel
  <2>2. h \in DOMAIN holds /\ holds[h].state = "RESERVED" /\ holds' = [holds EXCEPT ![h].state = "RELEASED"]
    BY <2>1 DEF Release, Releasable, SetState
  <2>3. DOMAIN holds' = DOMAIN holds /\ \A g \in DOMAIN holds \ {h} : holds'[g] = holds[g]
    BY <2>2
  <2>4. holds'[h] = [holds[h] EXCEPT !.state = "RELEASED"]
    BY <2>2
  <2>5. QED
    BY <1>1, <2>2, <2>3, <2>4 DEF GivesBack
<1>4. QED
  BY <1>2, <1>3

(* A step of the market alone. *)
LEMMA MarketStepGivesBack ==
  ASSUME IInv, Issue \/ Order \/ Auction \/ Offer \/ Award \/ Deliver \/ GiveUp \/ Withdraw \/ Lapse
  PROVE  IInv' /\ GivesBack
<1>1. CASE Issue \/ Order \/ Auction \/ Offer \/ Deliver
  <2>1. UNCHANGED <<accounts, holds, events>>
    BY <1>1 DEF Issue, Order, Auction, Offer, Deliver, Endow, Transfer, Open, Bid, FinishDelivered
  <2>2. QED
    BY <2>1, NextInductive, KeepsGivesBack DEF ledgerVars
<1>2. CASE Award \/ GiveUp \/ Withdraw \/ Lapse
  <2>1. PICK R : ReleaseHolds(R)
    BY <1>2 DEF Award, GiveUp, Withdraw, Lapse, Clear, FinishUndelivered, CancelBid, ExpireBids, Refund
  <2>2. QED
    BY <2>1, ReleaseHoldsInductive
<1>3. QED
  BY <1>1, <1>2

-----------------------------------------------------------------------------
(* The inductive invariant of the market *)

(* Every movement is filed under its key and moves an amount between        *)
(* wallets, or issues it.                                                   *)
Moving(m) ==
  m.source \in Wallets \cup {None} /\ m.destination \in Wallets /\ m.amount \in Amount

JournalTyped ==
  /\ IsFiniteSet(DOMAIN moves)
  /\ \A k \in DOMAIN moves : moves[k].key = k /\ Moving(moves[k])

Balanced == \A w \in Wallets : wallets[w] = Inflow(Journal, w) - Outflow(Journal, w)

(* A bid is backed by a premium reservation of its agent, which backs no    *)
(* other bid.                                                               *)
BidsBacked ==
  /\ \A b \in DOMAIN bids : /\ holds[bids[b].hold].request \in Premium
                            /\ holds[bids[b].hold].account = bids[b].agent
  /\ \A b, c \in DOMAIN bids : bids[b].hold = bids[c].hold => b = c

Awarded == {"ALLOCATED", "DELIVERED"}
Begun   == {"DISPATCHED", "UNRESOLVED", "SETTLED"}

(* Whatever the outcome, a premium reservation that was claimed had won its *)
(* auction, and no refund takes that away.                                  *)
ClaimsAwarded ==
  \A h \in DOMAIN holds :
    holds[h].request \in Premium /\ holds[h].state \in Begun =>
      \E b \in DOMAIN bids : bids[b].hold = h /\ bids[b].state \in Awarded

(* What an auction awarded fits its capacity, and it awards only once.      *)
Won(x) == {b \in DOMAIN bids : bids[b].auction = x /\ bids[b].state \in Awarded}

AwardsFit ==
  \A x \in DOMAIN auctions : /\ Cardinality(Won(x)) <= auctions[x].capacity
                             /\ auctions[x].state = "OPEN" => Won(x) = {}

MInv ==
  /\ IInv /\ MarketTypeOK
  /\ JournalTyped /\ Balanced
  /\ EscrowBacksBid /\ BidsBacked /\ CreditsFollowAuthority
  /\ ClaimsAwarded /\ AwardsFit

-----------------------------------------------------------------------------
(* Wallets and movements *)

LEMMA WalletFacts ==
  /\ IsFiniteSet(Wallets)
  /\ None \notin Wallets
  /\ AccountIds \subseteq Wallets /\ Operator \in Wallets
  /\ \A b \in BidIds : Escrow(b) \in Wallets /\ Escrow(b) \notin Owners
  /\ \A b, c \in BidIds : Escrow(b) = Escrow(c) => b = c
<1> DEFINE escrow == [b \in BidIds |-> Escrow(b)]
           Escrows == {Escrow(b) : b \in BidIds}
<1>1. IsFiniteSet(Escrows)
  <2>1. escrow \in Surjection(BidIds, Escrows)
    BY DEF Surjection
  <2>2. QED
    BY <2>1, FS_Surjection, MarketAssumption
<1>2. IsFiniteSet(Wallets)
  BY <1>1, FS_Union, MarketAssumption DEF Wallets
<1>3. /\ None \notin Wallets
      /\ AccountIds \subseteq Wallets /\ Operator \in Wallets
      /\ \A b \in BidIds : Escrow(b) \in Wallets /\ Escrow(b) \notin Owners
  BY MarketAssumption DEF Wallets
<1>4. \A b, c \in BidIds : Escrow(b) = Escrow(c) => b = c
  BY DEF Escrow
<1>5. QED
  BY <1>2, <1>3, <1>4

(* The flows of disjoint sets of movements add up. *)
LEMMA FlowUnion ==
  ASSUME NEW A, IsFiniteSet(A), NEW B, IsFiniteSet(B), A \cap B = {},
         \A m \in A \cup B : m.amount \in Nat, NEW w
  PROVE  /\ Inflow(A, w) \in Nat /\ Outflow(A, w) \in Nat
         /\ Inflow(B, w) \in Nat /\ Outflow(B, w) \in Nat
         /\ Inflow(A \cup B, w) = Inflow(A, w) + Inflow(B, w)
         /\ Outflow(A \cup B, w) = Outflow(A, w) + Outflow(B, w)
<1> DEFINE InA  == {m \in A : m.destination = w}
           InB  == {m \in B : m.destination = w}
           OutA == {m \in A : m.source = w}
           OutB == {m \in B : m.source = w}
           all  == Amounts(A \cup B)
<1>1. IsFiniteSet(InA) /\ IsFiniteSet(InB) /\ IsFiniteSet(OutA) /\ IsFiniteSet(OutB)
  BY FS_Subset
<1>2. \A m \in A \cup B : all[m] \in Nat
  BY DEF Amounts
<1>3. \A m \in A : Amounts(A)[m] = all[m]
  BY DEF Amounts
<1>4. \A m \in B : Amounts(B)[m] = all[m]
  BY DEF Amounts
<1>5. Inflow(A, w) = Total(InA, all) /\ Inflow(B, w) = Total(InB, all)
  BY <1>3, <1>4, TotalCongruence DEF Inflow
<1>6. Outflow(A, w) = Total(OutA, all) /\ Outflow(B, w) = Total(OutB, all)
  BY <1>3, <1>4, TotalCongruence DEF Outflow
<1>7. Total(InA, all) \in Nat /\ Total(InB, all) \in Nat /\ Total(OutA, all) \in Nat /\ Total(OutB, all) \in Nat
  BY <1>1, <1>2, TotalType
<1>8. Total(InA \cup InB, all) = Total(InA, all) + Total(InB, all)
  <2>1. InA \cap InB = {} /\ \A m \in InA \cup InB : all[m] \in Nat
    BY <1>2
  <2> HIDE DEF InA, InB, all
  <2>2. QED
    BY <1>1, <2>1, TotalUnion
<1>9. Total(OutA \cup OutB, all) = Total(OutA, all) + Total(OutB, all)
  <2>1. OutA \cap OutB = {} /\ \A m \in OutA \cup OutB : all[m] \in Nat
    BY <1>2
  <2> HIDE DEF OutA, OutB, all
  <2>2. QED
    BY <1>1, <2>1, TotalUnion
<1>10. InA \cup InB = {m \in A \cup B : m.destination = w} /\ OutA \cup OutB = {m \in A \cup B : m.source = w}
  OBVIOUS
<1>11. Inflow(A \cup B, w) = Total(InA \cup InB, all) /\ Outflow(A \cup B, w) = Total(OutA \cup OutB, all)
  BY <1>10 DEF Inflow, Outflow
<1>12. QED
  BY <1>5, <1>6, <1>7, <1>8, <1>9, <1>11

(* A movement alone. *)
LEMMA FlowOne ==
  ASSUME NEW m, m.amount \in Nat, NEW w
  PROVE  /\ Inflow({m}, w)  = IF m.destination = w THEN m.amount ELSE 0
         /\ Outflow({m}, w) = IF m.source = w THEN m.amount ELSE 0
<1>1. Amounts({m})[m] = m.amount
  BY DEF Amounts
<1>2. Total({m}, Amounts({m})) = m.amount
  BY <1>1, TotalSingleton
<1>3. {n \in {m} : n.destination = w} = IF m.destination = w THEN {m} ELSE {}
  OBVIOUS
<1>4. {n \in {m} : n.source = w} = IF m.source = w THEN {m} ELSE {}
  OBVIOUS
<1>5. QED
  BY <1>2, <1>3, <1>4, TotalEmpty DEF Inflow, Outflow

(* What _move may be called with in one transaction. *)
Movements(M) ==
  /\ IsFiniteSet(M)
  /\ \A m \in M : Moving(m)
  /\ \A m, n \in M : m.key = n.key => m = n

LEMMA JournalFacts ==
  ASSUME JournalTyped
  PROVE  IsFiniteSet(Journal) /\ \A m \in Journal : Moving(m) /\ m.key \in DOMAIN moves
<1> DEFINE row == [k \in DOMAIN moves |-> moves[k]]
<1>1. row \in Surjection(DOMAIN moves, Journal)
  BY DEF Surjection, Journal
<1>2. IsFiniteSet(Journal)
  BY <1>1, FS_Surjection DEF JournalTyped
<1>3. QED
  BY <1>2 DEF JournalTyped, Journal

(* Moves recorded under new keys keep every wallet equal to its journal. *)
LEMMA MoveInductive ==
  ASSUME wallets \in [Wallets -> Amount], JournalTyped, Balanced,
         NEW M, Movements(M), Move(M)
  PROVE  /\ wallets' \in [Wallets -> Amount] /\ JournalTyped' /\ Balanced'
         /\ \A w \in Wallets : /\ Inflow(M, w) \in Nat /\ Outflow(M, w) \in Nat
                               /\ wallets'[w] = wallets[w] - Outflow(M, w) + Inflow(M, w)
<1> DEFINE keys == {m.key : m \in M}
<1>1. /\ \A m \in M : m.key \notin DOMAIN moves
      /\ \A w \in Wallets : /\ Outflow(M, w) <= wallets[w]
                            /\ wallets[w] - Outflow(M, w) + Inflow(M, w) <= MAX_AMOUNT
      /\ moves' = [k \in DOMAIN moves \cup keys |->
                     IF k \in DOMAIN moves THEN moves[k] ELSE CHOOSE m \in M : m.key = k]
      /\ wallets' = [w \in Wallets |-> wallets[w] - Outflow(M, w) + Inflow(M, w)]
  BY DEF Move, Post
<1>2. DOMAIN moves' = DOMAIN moves \cup keys /\ \A k \in DOMAIN moves : moves'[k] = moves[k]
  BY <1>1
<1>3. \A m \in M : moves'[m.key] = m
  <2>1. TAKE m \in M
  <2>2. (CHOOSE n \in M : n.key = m.key) = m
    BY DEF Movements
  <2>3. QED
    BY <1>1, <2>2
<1>4. IsFiniteSet(keys)
  <2>1. [m \in M |-> m.key] \in Surjection(M, keys)
    BY DEF Surjection
  <2>2. QED
    BY <2>1, FS_Surjection DEF Movements
<1>5. IsFiniteSet(DOMAIN moves')
  <2>1. IsFiniteSet(DOMAIN moves)
    BY DEF JournalTyped
  <2> HIDE DEF keys
  <2>2. IsFiniteSet(DOMAIN moves \cup keys)
    BY <1>4, <2>1, FS_Union
  <2>3. QED
    BY <1>2, <2>2
<1>6. JournalTyped'
  <2>1. \A k \in DOMAIN moves' : moves'[k].key = k /\ Moving(moves'[k])
    BY <1>2, <1>3 DEF JournalTyped, Movements
  <2>2. QED
    BY <1>5, <2>1 DEF JournalTyped, Moving
<1>7. Journal' = Journal \cup M
  BY <1>2, <1>3 DEF Journal
<1>8. Journal \cap M = {}
  BY <1>1, JournalFacts
<1>9. \A m \in Journal \cup M : m.amount \in Nat
  BY JournalFacts, MaxNat DEF Movements, Moving, Amount
<1>10. IsFiniteSet(Journal) /\ IsFiniteSet(M)
  BY JournalFacts DEF Movements
<1> HIDE DEF keys
<1>11. ASSUME NEW w \in Wallets
       PROVE  /\ Inflow(M, w) \in Nat /\ Outflow(M, w) \in Nat
              /\ wallets'[w] = wallets[w] - Outflow(M, w) + Inflow(M, w)
              /\ wallets'[w] \in Amount
              /\ wallets'[w] = Inflow(Journal', w) - Outflow(Journal', w)
  <2>1. /\ Inflow(Journal, w) \in Nat /\ Outflow(Journal, w) \in Nat
        /\ Inflow(M, w) \in Nat /\ Outflow(M, w) \in Nat
        /\ Inflow(Journal', w) = Inflow(Journal, w) + Inflow(M, w)
        /\ Outflow(Journal', w) = Outflow(Journal, w) + Outflow(M, w)
    BY <1>7, <1>8, <1>9, <1>10, FlowUnion
  <2>2. wallets[w] = Inflow(Journal, w) - Outflow(Journal, w)
    BY DEF Balanced
  <2>3. wallets'[w] = wallets[w] - Outflow(M, w) + Inflow(M, w)
    BY <1>1
  <2>4. Outflow(M, w) <= wallets[w] /\ wallets[w] - Outflow(M, w) + Inflow(M, w) <= MAX_AMOUNT
    BY <1>1
  <2>5. wallets[w] \in Nat
    BY MaxNat DEF Amount
  <2>6. QED
    BY <2>1, <2>2, <2>3, <2>4, <2>5, MaxNat DEF Amount
<1>12. wallets' \in [Wallets -> Amount]
  BY <1>1, <1>11
<1>13. Balanced'
  BY <1>11 DEF Balanced
<1>14. QED
  BY <1>6, <1>11, <1>12, <1>13

(* Wallets that agree with the journal hold together what was issued. *)
LEMMA BalancedConserves ==
  ASSUME wallets \in [Wallets -> Amount], JournalTyped, Balanced
  PROVE  Total(Wallets, wallets) = Outflow(Journal, None)
<1> DEFINE amount   == Amounts(Journal)
           received == [w \in Wallets |-> Inflow(Journal, w)]
           given    == [w \in Wallets \cup {None} |-> Outflow(Journal, w)]
           to       == [m \in Journal |-> m.destination]
           from     == [m \in Journal |-> m.source]
           into     == [w \in Wallets |-> {m \in Journal : m.destination = w}]
           outof    == [w \in Wallets \cup {None} |-> {m \in Journal : m.source = w}]
<1>1. IsFiniteSet(Journal) /\ \A m \in Journal : amount[m] \in Nat /\ to[m] \in Wallets /\ from[m] \in Wallets \cup {None}
  BY JournalFacts, MaxNat DEF Amounts, Moving, Amount
<1>2. IsFiniteSet(Wallets) /\ IsFiniteSet(Wallets \cup {None}) /\ None \notin Wallets
  BY WalletFacts, FS_AddElement
<1>3. /\ \A w \in Wallets : \A m : m \in into[w] <=> m \in Journal /\ to[m] = w
      /\ \A w \in Wallets : received[w] = Total(into[w], amount)
  BY DEF Inflow
<1>4. /\ \A w \in Wallets \cup {None} : \A m : m \in outof[w] <=> m \in Journal /\ from[m] = w
      /\ \A w \in Wallets \cup {None} : given[w] = Total(outof[w], amount)
  BY DEF Outflow
<1>5. \A w \in Wallets : received[w] = wallets[w] + given[w] /\ wallets[w] \in Nat
  <2>1. TAKE w \in Wallets
  <2>2. Inflow(Journal, w) \in Nat /\ Outflow(Journal, w) \in Nat
    <3>1. IsFiniteSet({}) /\ Journal \cap {} = {} /\ \A m \in Journal \cup {} : m.amount \in Nat
      BY FS_EmptySet, JournalFacts, MaxNat DEF Moving, Amount
    <3>2. QED
      BY <1>1, <3>1, FlowUnion
  <2>3. wallets[w] = Inflow(Journal, w) - Outflow(Journal, w) /\ wallets[w] \in Nat
    BY MaxNat DEF Balanced, Amount
  <2>4. QED
    BY <2>2, <2>3
<1>6. \A w \in Wallets \cup {None} : given[w] \in Nat
  <2>1. TAKE w \in Wallets \cup {None}
  <2>2. outof[w] \in SUBSET Journal /\ given[w] = Total(outof[w], amount)
    BY <1>4
  <2> HIDE DEF outof, amount, given
  <2>3. IsFiniteSet(outof[w]) /\ \A m \in outof[w] : amount[m] \in Nat
    BY <1>1, <2>2, FS_Subset
  <2>4. QED
    BY <2>2, <2>3, TotalType
<1> HIDE DEF amount, received, given, to, from, into, outof
<1>7. Total(Wallets, received) = Total(Journal, amount)
  <2>1. \A m \in Journal : amount[m] \in Nat
    BY <1>1
  <2>2. \A m \in Journal : to[m] \in Wallets
    BY <1>1
  <2>3. IsFiniteSet(Journal)
    BY <1>1
  <2>4. IsFiniteSet(Wallets)
    BY <1>2
  <2>5. QED
    BY <1>3, <2>1, <2>2, <2>3, <2>4, TotalPartition
<1>8. Total(Wallets \cup {None}, given) = Total(Journal, amount)
  <2>1. \A m \in Journal : amount[m] \in Nat
    BY <1>1
  <2>2. \A m \in Journal : from[m] \in Wallets \cup {None}
    BY <1>1
  <2>3. IsFiniteSet(Journal)
    BY <1>1
  <2>4. IsFiniteSet(Wallets \cup {None})
    BY <1>2
  <2>5. QED
    BY <1>4, <2>1, <2>2, <2>3, <2>4, TotalPartition
<1>9. Total(Wallets \cup {None}, given) = Total(Wallets, given) + given[None]
  BY <1>2, <1>6, TotalAdd
<1>10. Total(Wallets, received) = Total(Wallets, wallets) + Total(Wallets, given)
  BY <1>2, <1>5, <1>6, TotalPlus
<1>11. Total(Wallets, wallets) \in Nat /\ Total(Wallets, given) \in Nat /\ given[None] \in Nat
  <2>1. (\A w \in Wallets : wallets[w] \in Nat) /\ (\A w \in Wallets : given[w] \in Nat)
    BY <1>5, <1>6
  <2>2. QED
    BY <1>2, <1>6, <2>1, TotalType
<1>12. given[None] = Outflow(Journal, None)
  BY DEF given
<1>13. QED
  BY <1>7, <1>8, <1>9, <1>10, <1>11, <1>12

-----------------------------------------------------------------------------
(* What a step does to the reservations and to the credits *)

LEMMA MarketFacts ==
  ASSUME MarketTypeOK
  PROVE  /\ wallets \in [Wallets -> Amount]
         /\ DOMAIN bids \subseteq BidIds /\ IsFiniteSet(DOMAIN bids)
         /\ \A b \in DOMAIN bids :
              /\ bids[b] \in BidRow
              /\ bids[b].hold \in DOMAIN holds /\ bids[b].auction \in DOMAIN auctions
              /\ bids[b].agent \in Owners /\ bids[b].price \in Amount
         /\ \A h \in DOMAIN holds : holds[h] \in HoldRow
         /\ \A x \in DOMAIN auctions : auctions[x] \in AuctionRow
<1>1. \A b \in DOMAIN bids : bids[b] \in BidRow
  BY DEF MarketTypeOK
<1>2. \A b \in DOMAIN bids : bids[b].agent \in Owners /\ bids[b].price \in Amount
  <2>1. TAKE b \in DOMAIN bids
  <2>2. bids[b].agent \in AccountIds /\ bids[b].price \in Prices
    BY <1>1 DEF BidRow
  <2>3. QED
    <3>1. AccountIds \subseteq Owners /\ Prices \subseteq 1 .. MAX_AMOUNT
      BY MarketAssumption
    <3>2. bids[b].agent \in Owners
      BY <2>2, <3>1
    <3>3. bids[b].price \in 1 .. MAX_AMOUNT
      BY <2>2, <3>1
    <3>4. QED
      BY <3>2, <3>3, MaxNat DEF Amount
<1>3. IsFiniteSet(DOMAIN bids) /\ DOMAIN bids \subseteq BidIds
  BY MarketAssumption, FS_Subset DEF MarketTypeOK
<1>4. \A h \in DOMAIN holds : holds[h] \in HoldRow
  BY DEF MarketTypeOK, TypeOK
<1>5. QED
  BY <1>1, <1>2, <1>3, <1>4 DEF MarketTypeOK

(* How the reservations may change while the bids stand: given back before  *)
(* they are claimed, claimed when the bid was allocated, and then resolved. *)
HoldsAdvance ==
  /\ \A h \in DOMAIN holds :
       /\ h \in DOMAIN holds'
       /\ holds'[h].account = holds[h].account /\ holds'[h].request = holds[h].request
       /\ \/ holds'[h].state = holds[h].state
          \/ holds[h].state = "RESERVED" /\ holds'[h].state = "RELEASED"
          \/ /\ holds[h].state \in {"DISPATCHED", "UNRESOLVED"}
             /\ holds'[h].state \in {"UNRESOLVED", "SETTLED", "RELEASED"}
          \/ /\ holds[h].state = "RESERVED" /\ holds'[h].state = "DISPATCHED"
             /\ holds[h].request \in Premium =>
                  \E b \in DOMAIN bids : bids[b].hold = h /\ bids[b].state = "ALLOCATED"
  /\ \A h \in DOMAIN holds' : h \notin DOMAIN holds => holds'[h].state = "RESERVED"

LEMMA GivesBackAdvance ==
  ASSUME TypeOK, GivesBack
  PROVE  HoldsAdvance
<1>1. \A h \in DOMAIN holds : holds[h] \in HoldRow
  BY DEF TypeOK
<1>2. QED
  BY <1>1 DEF GivesBack, HoldsAdvance, HoldRow

LEMMA KernelAdvance ==
  ASSUME IInv, KernelStep \/ ClaimGranted
  PROVE  IInv' /\ HoldsAdvance
<1>1. IInv'
  <2>1. CASE KernelStep
    BY <2>1, NextInductive DEF KernelStep, Next
  <2>2. CASE ClaimGranted
    BY <2>2, NextInductive DEF ClaimGranted, Next, Claim
  <2>3. QED
    BY <2>1, <2>2
<1>2. TypeOK /\ \A h \in DOMAIN holds : holds[h] \in HoldRow
  BY DEF IInv, TypeOK
<1>3. ASSUME NEW h \in DOMAIN holds, NEW s \in HoldStates, NEW n,
             holds' = [holds EXCEPT ![h].state = s] \/ holds' = [holds EXCEPT ![h].state = s, ![h].actual = n]
      PROVE  /\ DOMAIN holds' = DOMAIN holds
             /\ \A g \in DOMAIN holds \ {h} : holds'[g] = holds[g]
             /\ holds'[h].state = s
             /\ holds'[h].account = holds[h].account /\ holds'[h].request = holds[h].request
  BY <1>2, <1>3 DEF HoldRow
<1>4. ASSUME NEW h \in DOMAIN holds, NEW s \in HoldStates, NEW n,
             holds' = [holds EXCEPT ![h].state = s] \/ holds' = [holds EXCEPT ![h].state = s, ![h].actual = n],
             \/ holds[h].state \in {"DISPATCHED", "UNRESOLVED"} /\ s \in {"UNRESOLVED", "SETTLED", "RELEASED"}
             \/ /\ holds[h].state = "RESERVED" /\ s = "DISPATCHED"
                /\ holds[h].request \in Premium =>
                     \E b \in DOMAIN bids : bids[b].hold = h /\ bids[b].state = "ALLOCATED"
      PROVE  HoldsAdvance
  <2>1. /\ DOMAIN holds' = DOMAIN holds
        /\ \A g \in DOMAIN holds \ {h} : holds'[g] = holds[g]
        /\ holds'[h].state = s
        /\ holds'[h].account = holds[h].account /\ holds'[h].request = holds[h].request
    BY <1>3, <1>4
  <2>2. QED
    BY <1>4, <2>1 DEF HoldsAdvance
<1>5. {"DISPATCHED", "UNRESOLVED", "SETTLED", "RELEASED"} \subseteq HoldStates
  BY DEF HoldStates, OUTSTANDING
<1>6. CASE OpenAccount \/ Operate
  <2>1. holds' = holds
    BY <1>6 DEF OpenAccount, Operate, CreateAccount, SetLifecycle
  <2>2. QED
    BY <1>1, <1>2, <2>1, KeepsGivesBack, GivesBackAdvance
<1>7. CASE Cancel \/ Sweep
  BY <1>1, <1>2, <1>7, SweepGivesBack, GivesBackAdvance
<1>8. CASE MakeHold
  <2>1. PICK a \in AccountIds, h \in HoldIds, b \in Bounds, r \in Requests, t \in Expiries :
          Reserve(a, h, b, r, t)
    BY <1>8 DEF MakeHold
  <2>2. /\ h \notin DOMAIN holds
        /\ holds' = [g \in DOMAIN holds \cup {h} |->
                       IF g = h THEN [account |-> a, bound |-> b, request |-> r,
                                      expires_at |-> t, state |-> "RESERVED", actual |-> None]
                                ELSE holds[g]]
    BY <2>1 DEF Reserve
  <2>3. /\ DOMAIN holds' = DOMAIN holds \cup {h} /\ holds'[h].state = "RESERVED"
        /\ \A g \in DOMAIN holds : holds'[g] = holds[g]
    BY <2>2
  <2>4. QED
    BY <1>1, <2>3 DEF HoldsAdvance
<1>9. CASE Doubt
  <2>1. PICK h \in HoldIds : MarkUnresolved(h)
    BY <1>9 DEF Doubt
  <2>2. /\ h \in DOMAIN holds /\ holds[h].state = "DISPATCHED"
        /\ holds' = [holds EXCEPT ![h].state = "UNRESOLVED"]
    BY <2>1 DEF MarkUnresolved, SetState
  <2>3. QED
    BY <1>1, <1>4, <1>5, <2>2
<1>10. CASE Pay
  <2>1. PICK h \in HoldIds, n \in Charges : Settle(h, n)
    BY <1>10 DEF Pay
  <2>2. /\ h \in DOMAIN holds /\ holds[h].state \in {"DISPATCHED", "UNRESOLVED"}
        /\ holds' = [holds EXCEPT ![h].state = "SETTLED", ![h].actual = n]
    BY <2>1 DEF Settle
  <2>3. QED
    BY <1>1, <1>4, <1>5, <2>2
<1>11. CASE Reconcile
  <2>1. PICK h \in HoldIds : ReconcileNoCharge(h)
    BY <1>11 DEF Reconcile
  <2>2. /\ h \in DOMAIN holds /\ holds[h].state \in {"DISPATCHED", "UNRESOLVED"}
        /\ holds' = [holds EXCEPT ![h].state = "RELEASED"]
    BY <2>1 DEF ReconcileNoCharge, Releasable, SetState
  <2>3. QED
    BY <1>1, <1>4, <1>5, <2>2
<1>12. CASE ClaimGranted
  <2>1. PICK h \in HoldIds, now \in Times :
          Dispatch(h, now) /\ (holds[h].request \in Premium => CapacityGranted(h, now))
    BY <1>12 DEF ClaimGranted
  <2>2. /\ h \in DOMAIN holds /\ holds[h].state = "RESERVED"
        /\ holds' = [holds EXCEPT ![h].state = "DISPATCHED"]
    BY <2>1 DEF Dispatch, SetState
  <2>3. holds[h].request \in Premium =>
          \E b \in DOMAIN bids : bids[b].hold = h /\ bids[b].state = "ALLOCATED"
    BY <2>1 DEF CapacityGranted
  <2>4. QED
    BY <1>1, <1>4, <1>5, <2>2, <2>3
<1>13. QED
  BY <1>6, <1>7, <1>8, <1>9, <1>10, <1>11, <1>12 DEF KernelStep

(* The escrow wallets of movements that leave them alone. *)
LEMMA RefundFlows ==
  ASSUME MarketTypeOK, NEW R \in SUBSET DOMAIN bids
  PROVE  LET M == {Movement(<<"refund", b>>, Escrow(b), bids[b].agent, bids[b].price) : b \in R}
         IN  /\ Movements(M)
             /\ \A b \in BidIds : /\ Inflow(M, Escrow(b)) = 0
                                  /\ Outflow(M, Escrow(b)) = IF b \in R THEN bids[b].price ELSE 0
<1> DEFINE refund == [b \in R |-> Movement(<<"refund", b>>, Escrow(b), bids[b].agent, bids[b].price)]
           M      == {Movement(<<"refund", b>>, Escrow(b), bids[b].agent, bids[b].price) : b \in R}
<1>1. \A b \in R : /\ refund[b].key = <<"refund", b>> /\ refund[b].source = Escrow(b)
                   /\ refund[b].destination = bids[b].agent /\ refund[b].amount = bids[b].price
  BY DEF Movement
<1>2. \A m \in M : \E b \in R : m = refund[b]
  OBVIOUS
<1>3. \A b \in R : refund[b] \in M /\ Moving(refund[b]) /\ b \in BidIds
  BY <1>1, MarketFacts, WalletFacts DEF Moving, Wallets
<1>4. \A b, c \in R : refund[b].key = refund[c].key => b = c
  BY <1>1
<1>5. IsFiniteSet(M)
  <2>1. refund \in Surjection(R, M)
    BY DEF Surjection
  <2>2. IsFiniteSet(R)
    BY MarketFacts, FS_Subset
  <2>3. QED
    BY <2>1, <2>2, FS_Surjection
<1> HIDE DEF refund, M
<1>6. Movements(M)
  <2>1. \A m \in M : Moving(m)
    BY <1>2, <1>3
  <2>2. \A m, n \in M : m.key = n.key => m = n
    BY <1>2, <1>4
  <2>3. QED
    BY <1>5, <2>1, <2>2 DEF Movements
<1>7. ASSUME NEW b \in BidIds
      PROVE  /\ Inflow(M, Escrow(b)) = 0
             /\ Outflow(M, Escrow(b)) = IF b \in R THEN bids[b].price ELSE 0
  <2>1. {m \in M : m.destination = Escrow(b)} = {}
    BY <1>1, <1>2, MarketFacts, WalletFacts
  <2>2. {m \in M : m.source = Escrow(b)} = IF b \in R THEN {refund[b]} ELSE {}
    BY <1>1, <1>2, <1>3, WalletFacts
  <2>3. ASSUME b \in R
        PROVE  Total({refund[b]}, Amounts(M)) = bids[b].price
    <3>1. Amounts(M)[refund[b]] = bids[b].price /\ bids[b].price \in Nat
      BY <1>1, <1>3, <2>3, MarketFacts, MaxNat DEF Amounts, Amount
    <3>2. QED
      BY <3>1, TotalSingleton
  <2>4. QED
    BY <2>1, <2>2, <2>3, TotalEmpty DEF Inflow, Outflow
<1>8. QED
  BY <1>6, <1>7 DEF M

-----------------------------------------------------------------------------
(* The steps *)

LEMMA StandingBids ==
  ASSUME MInv, IInv', HoldsAdvance, UNCHANGED <<auctions, bids>>,
         wallets' \in [Wallets -> Amount], JournalTyped', Balanced', EscrowBacksBid'
  PROVE  MInv'
<1>1. /\ auctions' = auctions /\ bids' = bids
      /\ \A b \in DOMAIN bids : bids[b].hold \in DOMAIN holds
  BY MarketFacts DEF MInv
<1>2. MarketTypeOK'
  BY <1>1 DEF MInv, IInv, MarketTypeOK, HoldsAdvance
<1>3. BidsBacked'
  BY <1>1 DEF MInv, BidsBacked, HoldsAdvance
<1>4. CreditsFollowAuthority'
  <2>1. SUFFICES ASSUME NEW b \in DOMAIN bids
                 PROVE  LET state == holds'[bids[b].hold].state IN
                        /\ bids[b].state \in Returned => state = "RELEASED"
                        /\ bids[b].state = "DELIVERED" => state = "SETTLED"
                        /\ bids[b].state = "ESCROWED" => state \in {"RESERVED", "RELEASED"}
    BY <1>1 DEF CreditsFollowAuthority
  <2> DEFINE h == bids[b].hold
  <2>2. /\ bids[b].state \in Returned => holds[h].state = "RELEASED"
        /\ bids[b].state = "DELIVERED" => holds[h].state = "SETTLED"
        /\ bids[b].state = "ESCROWED" => holds[h].state \in {"RESERVED", "RELEASED"}
        /\ holds[h].request \in Premium /\ h \in DOMAIN holds
    BY <1>1 DEF MInv, CreditsFollowAuthority, BidsBacked
  <2>3. bids[b].state = "ESCROWED" =>
          ~ \E c \in DOMAIN bids : bids[c].hold = h /\ bids[c].state = "ALLOCATED"
    BY DEF MInv, BidsBacked
  <2>4. \/ holds'[h].state = holds[h].state
        \/ holds[h].state = "RESERVED" /\ holds'[h].state = "RELEASED"
        \/ holds[h].state \in {"DISPATCHED", "UNRESOLVED"}
        \/ holds[h].state = "RESERVED" /\ bids[b].state # "ESCROWED"
    BY <2>2, <2>3 DEF HoldsAdvance
  <2>5. QED
    BY <2>2, <2>4
<1>5. ClaimsAwarded'
  <2>1. SUFFICES ASSUME NEW h \in DOMAIN holds', holds'[h].request \in Premium, holds'[h].state \in Begun
                 PROVE  \E b \in DOMAIN bids : bids[b].hold = h /\ bids[b].state \in Awarded
    BY <1>1 DEF ClaimsAwarded
  <2>2. h \in DOMAIN holds /\ holds[h].request \in Premium
    BY <2>1 DEF HoldsAdvance, Begun
  <2>3. \/ holds[h].state \in Begun
        \/ \E b \in DOMAIN bids : bids[b].hold = h /\ bids[b].state = "ALLOCATED"
    BY <2>1, <2>2 DEF HoldsAdvance, Begun
  <2>4. QED
    BY <2>2, <2>3 DEF MInv, ClaimsAwarded, Awarded
<1>6. AwardsFit'
  BY <1>1 DEF MInv, AwardsFit, Won
<1>7. QED
  BY <1>2, <1>3, <1>4, <1>5, <1>6 DEF MInv

LEMMA KernelKeepsMarket ==
  ASSUME MInv, KernelStep \/ ClaimGranted
  PROVE  MInv'
<1>1. IInv' /\ HoldsAdvance
  BY KernelAdvance DEF MInv
<1>2. wallets' = wallets /\ moves' = moves /\ auctions' = auctions /\ bids' = bids
  BY DEF KernelStep, ClaimGranted
<1>3. wallets \in [Wallets -> Amount] /\ JournalTyped /\ Balanced /\ EscrowBacksBid
  BY DEF MInv, MarketTypeOK
<1>4. JournalTyped' /\ Balanced' /\ EscrowBacksBid'
  BY <1>2, <1>3 DEF JournalTyped, Balanced, Journal, EscrowBacksBid
<1>5. QED
  BY <1>1, <1>2, <1>3, <1>4, StandingBids

(* Credits issued or transferred between wallets that are not escrow. *)
LEMMA OwnersMove ==
  ASSUME MInv, NEW k, NEW v \in Owners \cup {None}, NEW w \in Owners, NEW n \in Amount,
         Move({Movement(k, v, w, n)}), UNCHANGED <<accounts, holds, events, auctions, bids>>
  PROVE  MInv'
<1> DEFINE m == Movement(k, v, w, n)
<1>1. m.key = k /\ m.source = v /\ m.destination = w /\ m.amount = n /\ n \in Nat
  BY MaxNat DEF Movement, Amount
<1>2. Moving(m)
  BY <1>1 DEF Moving, Wallets
<1> HIDE DEF m
<1>3. Movements({m}) /\ Move({m})
  BY <1>2, FS_Singleton DEF Movements, m
<1>4. wallets \in [Wallets -> Amount] /\ JournalTyped /\ Balanced
  BY DEF MInv, MarketTypeOK
<1>5. /\ wallets' \in [Wallets -> Amount] /\ JournalTyped' /\ Balanced'
      /\ \A u \in Wallets : wallets'[u] = wallets[u] - Outflow({m}, u) + Inflow({m}, u)
  BY <1>3, <1>4, MoveInductive
<1>6. \A b \in BidIds : wallets'[Escrow(b)] = wallets[Escrow(b)]
  <2>1. TAKE b \in BidIds
  <2>2. Escrow(b) # v /\ Escrow(b) # w /\ Escrow(b) \in Wallets
    BY WalletFacts
  <2>3. Inflow({m}, Escrow(b)) = 0 /\ Outflow({m}, Escrow(b)) = 0
    BY <1>1, <2>2, FlowOne
  <2>4. wallets[Escrow(b)] \in Nat
    BY <1>4, <2>2, MaxNat DEF Amount
  <2>5. QED
    BY <1>5, <2>2, <2>3, <2>4
<1>7. EscrowBacksBid'
  BY <1>6 DEF MInv, EscrowBacksBid
<1>8. IInv' /\ HoldsAdvance
  <2>1. IInv /\ holds' = holds /\ UNCHANGED ledgerVars
    BY DEF MInv, ledgerVars
  <2>2. QED
    BY <2>1, NextInductive, KeepsGivesBack, GivesBackAdvance DEF IInv
<1>9. QED
  BY <1>5, <1>7, <1>8, StandingBids

LEMMA CreditsKeepMarket ==
  ASSUME MInv, Issue \/ Order
  PROVE  MInv'
<1>1. CASE Issue
  <2>1. PICK w \in Owners, n \in Issues : Endow(w, n)
    BY <1>1 DEF Issue
  <2>2. n \in Amount
    BY MarketAssumption
  <2>3. QED
    BY <2>1, <2>2, OwnersMove DEF Endow
<1>2. CASE Order
  <2>1. PICK id \in TransferIds, v \in Owners, w \in Owners, n \in Transferred : Transfer(id, v, w, n)
    BY <1>2 DEF Order
  <2>2. n \in Amount
    BY MarketAssumption, MaxNat DEF Amount
  <2>3. QED
    BY <2>1, <2>2, OwnersMove DEF Transfer
<1>3. QED
  BY <1>1, <1>2

LEMMA AuctionKeepsMarket ==
  ASSUME MInv, Auction
  PROVE  MInv'
<1>1. PICK x \in AuctionIds, c \in Capacities, d \in Deadlines : Open(x, c, d)
  BY DEF Auction
<1> DEFINE row == [capacity |-> c, expires_at |-> d, state |-> "OPEN"]
<1>2. /\ x \notin DOMAIN auctions
      /\ auctions' = Insert(auctions, x, row)
      /\ UNCHANGED <<accounts, holds, events, wallets, moves, bids>>
  BY <1>1 DEF Open
<1>3. /\ DOMAIN auctions' = DOMAIN auctions \cup {x}
      /\ auctions'[x] = row /\ \A y \in DOMAIN auctions : auctions'[y] = auctions[y]
      /\ auctions' = [y \in DOMAIN auctions' |-> auctions'[y]]
  BY <1>2 DEF Insert
<1>4. row \in AuctionRow /\ row.capacity \in Nat
  <2>1. c \in Nat
    BY MarketAssumption, MaxNat
  <2>2. QED
    BY <2>1 DEF AuctionRow
<1>5. IInv'
  BY <1>2, NextInductive DEF MInv, ledgerVars
<1>6. MarketTypeOK'
  <2>1. auctions' \in [DOMAIN auctions' -> AuctionRow]
    BY <1>3, <1>4 DEF MInv, MarketTypeOK
  <2>2. QED
    BY <1>2, <1>3, <1>5, <2>1 DEF MInv, MarketTypeOK, IInv
<1>7. JournalTyped' /\ Balanced' /\ EscrowBacksBid' /\ BidsBacked' /\ CreditsFollowAuthority' /\ ClaimsAwarded'
  BY <1>2 DEF MInv, JournalTyped, Balanced, Journal, EscrowBacksBid, BidsBacked, CreditsFollowAuthority,
              ClaimsAwarded
<1>8. AwardsFit'
  <2>1. \A y : Won(y)' = Won(y)
    BY <1>2 DEF Won
  <2>2. Won(x) = {}
    BY <1>2, MarketFacts DEF MInv, Won
  <2>3. Cardinality(Won(x)) <= row.capacity
    BY <1>4, <2>2, FS_EmptySet
  <2>4. QED
    BY <1>3, <2>1, <2>2, <2>3 DEF MInv, AwardsFit
<1>9. QED
  BY <1>5, <1>6, <1>7, <1>8 DEF MInv

LEMMA OfferKeepsMarket ==
  ASSUME MInv, Offer
  PROVE  MInv'
<1>1. PICK b \in BidIds, x \in AuctionIds, a \in AccountIds, p \in Prices, h \in HoldIds, now \in Times :
        Bid(b, x, a, p, h, now)
  BY DEF Offer
<1> DEFINE row == [auction |-> x, agent |-> a, price |-> p, hold |-> h, state |-> "ESCROWED"]
           m   == Movement(<<"escrow", b>>, a, Escrow(b), p)
<1>2. /\ b \notin DOMAIN bids /\ Admissible(x, a, h, now) /\ BacksNoBid(h) /\ Move({m})
      /\ bids' = Insert(bids, b, row)
      /\ UNCHANGED <<accounts, holds, events, auctions>>
  BY <1>1 DEF Bid
<1>3. /\ x \in DOMAIN auctions /\ h \in DOMAIN holds /\ holds[h].account = a
      /\ holds[h].state = "RESERVED" /\ holds[h].request \in Premium
      /\ \A c \in DOMAIN bids : bids[c].hold # h
  BY <1>2 DEF Admissible, BacksNoBid
<1>4. /\ DOMAIN bids' = DOMAIN bids \cup {b}
      /\ bids'[b] = row /\ \A c \in DOMAIN bids : bids'[c] = bids[c]
      /\ bids' = [c \in DOMAIN bids' |-> bids'[c]]
  BY <1>2 DEF Insert
<1>5. row \in BidRow /\ row.state = "ESCROWED" /\ row.hold = h /\ row.agent = a /\ row.price = p /\ row.auction = x
  BY DEF BidRow, BidStates
<1>6. /\ m.key = <<"escrow", b>> /\ m.source = a /\ m.destination = Escrow(b) /\ m.amount = p
      /\ p \in Amount /\ p \in Nat /\ a \in Owners
  <2>1. p \in 1 .. MAX_AMOUNT /\ a \in Owners
    BY MarketAssumption
  <2>2. QED
    BY <2>1, MaxNat DEF Movement, Amount
<1> HIDE DEF m, row
<1>7. Movements({m})
  BY <1>6, WalletFacts, FS_Singleton DEF Movements, Moving, Wallets
<1>8. wallets \in [Wallets -> Amount] /\ JournalTyped /\ Balanced
  BY DEF MInv, MarketTypeOK
<1>9. /\ wallets' \in [Wallets -> Amount] /\ JournalTyped' /\ Balanced'
      /\ \A u \in Wallets : wallets'[u] = wallets[u] - Outflow({m}, u) + Inflow({m}, u)
  BY <1>2, <1>7, <1>8, MoveInductive
<1>10. IInv'
  BY <1>2, NextInductive DEF MInv, ledgerVars
<1>11. MarketTypeOK'
  <2>1. bids' \in [DOMAIN bids' -> BidRow] /\ DOMAIN bids' \subseteq BidIds
    BY <1>4, <1>5 DEF MInv, MarketTypeOK
  <2>2. \A c \in DOMAIN bids' : bids'[c].hold \in DOMAIN holds /\ bids'[c].auction \in DOMAIN auctions
    BY <1>3, <1>4, <1>5 DEF MInv, MarketTypeOK
  <2>3. QED
    BY <1>2, <1>9, <1>10, <2>1, <2>2 DEF MInv, MarketTypeOK, IInv
<1>12. EscrowBacksBid'
  <2>1. SUFFICES ASSUME NEW c \in BidIds
                 PROVE  wallets'[Escrow(c)] =
                          IF c \in DOMAIN bids' /\ bids'[c].state \in {"ESCROWED", "ALLOCATED"}
                            THEN bids'[c].price ELSE 0
    BY DEF EscrowBacksBid
  <2>2. Escrow(c) \in Wallets /\ Escrow(c) # a /\ (Escrow(b) = Escrow(c) => b = c)
    BY <1>6, WalletFacts
  <2>3. Outflow({m}, Escrow(c)) = 0 /\ Inflow({m}, Escrow(c)) = IF c = b THEN p ELSE 0
    BY <1>6, <2>2, FlowOne
  <2>4. wallets[Escrow(c)] = IF c \in DOMAIN bids /\ bids[c].state \in {"ESCROWED", "ALLOCATED"}
                               THEN bids[c].price ELSE 0
    BY DEF MInv, EscrowBacksBid
  <2>5. wallets[Escrow(c)] \in Nat
    BY <1>8, <2>2, MaxNat DEF Amount
  <2>6. wallets'[Escrow(c)] = IF c = b THEN wallets[Escrow(c)] + p ELSE wallets[Escrow(c)]
    BY <1>6, <1>9, <2>2, <2>3, <2>5
  <2>7. CASE c = b
    BY <1>2, <1>4, <1>5, <1>6, <2>4, <2>6, <2>7
  <2>8. CASE c # b
    BY <1>4, <2>4, <2>6, <2>8
  <2>9. QED
    BY <2>7, <2>8
<1>13. BidsBacked'
  <2>1. \A c \in DOMAIN bids' : /\ holds[bids'[c].hold].request \in Premium
                                /\ holds[bids'[c].hold].account = bids'[c].agent
    BY <1>3, <1>4, <1>5 DEF MInv, BidsBacked
  <2>2. \A c, d \in DOMAIN bids' : bids'[c].hold = bids'[d].hold => c = d
    BY <1>3, <1>4, <1>5 DEF MInv, BidsBacked
  <2>3. QED
    BY <1>2, <2>1, <2>2 DEF BidsBacked
<1>14. CreditsFollowAuthority'
  <2>1. \A c \in DOMAIN bids' :
          /\ bids'[c].state \in Returned => holds[bids'[c].hold].state = "RELEASED"
          /\ bids'[c].state = "DELIVERED" => holds[bids'[c].hold].state = "SETTLED"
          /\ bids'[c].state = "ESCROWED" => holds[bids'[c].hold].state \in {"RESERVED", "RELEASED"}
    BY <1>3, <1>4, <1>5 DEF MInv, CreditsFollowAuthority, Returned
  <2>2. QED
    BY <1>2, <2>1 DEF CreditsFollowAuthority
<1>15. ClaimsAwarded'
  BY <1>2, <1>4 DEF MInv, ClaimsAwarded
<1>16. AwardsFit'
  <2>1. \A y : Won(y)' = Won(y)
    BY <1>2, <1>4, <1>5 DEF Won, Awarded
  <2>2. QED
    BY <1>2, <2>1 DEF MInv, AwardsFit
<1>17. QED
  BY <1>9, <1>10, <1>11, <1>12, <1>13, <1>14, <1>15, <1>16 DEF MInv

(* The same awards, or fewer, fit as before. *)
LEMMA FewerAwards ==
  ASSUME MInv, DOMAIN bids' = DOMAIN bids, auctions' = auctions,
         \A b \in DOMAIN bids : bids'[b].auction = bids[b].auction
                                  /\ (bids'[b].state \in Awarded => bids[b].state \in Awarded)
  PROVE  AwardsFit'
<1>1. ASSUME NEW x \in DOMAIN auctions
      PROVE  /\ Cardinality(Won(x)') <= auctions[x].capacity
             /\ auctions[x].state = "OPEN" => Won(x)' = {}
  <2>1. Won(x)' \in SUBSET Won(x)
    BY DEF Won
  <2>2. IsFiniteSet(Won(x))
    BY MarketFacts, FS_Subset DEF MInv, Won
  <2>3. /\ Cardinality(Won(x)') <= Cardinality(Won(x))
        /\ Cardinality(Won(x)') \in Nat /\ Cardinality(Won(x)) \in Nat
    BY <2>1, <2>2, FS_Subset, FS_CardinalityType
  <2>4. /\ Cardinality(Won(x)) <= auctions[x].capacity
        /\ auctions[x].state = "OPEN" => Won(x) = {}
    BY DEF MInv, AwardsFit
  <2>5. auctions[x].capacity \in Nat
    <3>1. auctions[x].capacity \in Capacities
      BY MarketFacts DEF MInv, AuctionRow
    <3>2. \A n \in Capacities : n \in Nat
      BY MarketAssumption, MaxNat
    <3>3. QED
      BY <3>1, <3>2
  <2>6. QED
    BY <2>1, <2>3, <2>4, <2>5
<1>2. QED
  BY <1>1 DEF AwardsFit

LEMMA DeliverKeepsMarket ==
  ASSUME MInv, Deliver
  PROVE  MInv'
<1>1. PICK b \in BidIds : FinishDelivered(b)
  BY DEF Deliver
<1> DEFINE p == bids[b].price
           m == Movement(<<"payment", b>>, Escrow(b), Operator, p)
<1>2. /\ b \in DOMAIN bids /\ bids[b].state = "ALLOCATED" /\ holds[bids[b].hold].state = "SETTLED"
      /\ Move({m}) /\ bids' = [bids EXCEPT ![b].state = "DELIVERED"]
      /\ UNCHANGED <<accounts, holds, events, auctions>>
  BY <1>1 DEF FinishDelivered
<1>3. bids \in [DOMAIN bids -> BidRow] /\ bids[b] \in BidRow
  BY <1>2 DEF MInv, MarketTypeOK
<1>4. /\ DOMAIN bids' = DOMAIN bids /\ \A c \in DOMAIN bids \ {b} : bids'[c] = bids[c]
      /\ bids'[b].state = "DELIVERED" /\ bids'[b].hold = bids[b].hold /\ bids'[b].agent = bids[b].agent
      /\ bids'[b].price = bids[b].price /\ bids'[b].auction = bids[b].auction
      /\ bids' \in [DOMAIN bids -> BidRow]
  <2>1. bids'[b] = [bids[b] EXCEPT !.state = "DELIVERED"]
    BY <1>2, <1>3
  <2>2. bids'[b] \in BidRow
    BY <1>3, <2>1 DEF BidRow, BidStates
  <2>3. QED
    BY <1>2, <1>3, <2>1, <2>2 DEF BidRow
<1>5. /\ m.key = <<"payment", b>> /\ m.source = Escrow(b) /\ m.destination = Operator /\ m.amount = p
      /\ p \in Amount /\ p \in Nat /\ Operator \in Owners
  <2>1. p \in Amount
    BY <1>2, MarketFacts DEF MInv
  <2>2. QED
    BY <2>1, MarketAssumption, MaxNat DEF Movement, Amount
<1> HIDE DEF m, p
<1>6. Movements({m})
  BY <1>5, WalletFacts, FS_Singleton DEF Movements, Moving
<1>7. wallets \in [Wallets -> Amount] /\ JournalTyped /\ Balanced
  BY DEF MInv, MarketTypeOK
<1>8. /\ wallets' \in [Wallets -> Amount] /\ JournalTyped' /\ Balanced'
      /\ \A u \in Wallets : wallets'[u] = wallets[u] - Outflow({m}, u) + Inflow({m}, u)
  BY <1>2, <1>6, <1>7, MoveInductive
<1>9. IInv'
  BY <1>2, NextInductive DEF MInv, ledgerVars
<1>10. MarketTypeOK'
  <2>1. \A c \in DOMAIN bids' : bids'[c].hold \in DOMAIN holds /\ bids'[c].auction \in DOMAIN auctions
    BY <1>4 DEF MInv, MarketTypeOK
  <2>2. QED
    BY <1>2, <1>4, <1>8, <1>9, <2>1 DEF MInv, MarketTypeOK, IInv
<1>11. EscrowBacksBid'
  <2>1. SUFFICES ASSUME NEW c \in BidIds
                 PROVE  wallets'[Escrow(c)] =
                          IF c \in DOMAIN bids' /\ bids'[c].state \in {"ESCROWED", "ALLOCATED"}
                            THEN bids'[c].price ELSE 0
    BY DEF EscrowBacksBid
  <2>2. Escrow(c) \in Wallets /\ Escrow(c) # Operator /\ b \in BidIds /\ (Escrow(b) = Escrow(c) => b = c)
    BY <1>1, <1>5, WalletFacts
  <2>3. Inflow({m}, Escrow(c)) = 0 /\ Outflow({m}, Escrow(c)) = IF c = b THEN p ELSE 0
    BY <1>5, <2>2, FlowOne
  <2>4. wallets[Escrow(c)] = IF c \in DOMAIN bids /\ bids[c].state \in {"ESCROWED", "ALLOCATED"}
                               THEN bids[c].price ELSE 0
    BY DEF MInv, EscrowBacksBid
  <2>5. wallets[Escrow(c)] \in Nat
    BY <1>7, <2>2, MaxNat DEF Amount
  <2>6. wallets'[Escrow(c)] = IF c = b THEN wallets[Escrow(c)] - p ELSE wallets[Escrow(c)]
    BY <1>5, <1>8, <2>2, <2>3, <2>5
  <2>7. CASE c = b
    <3>1. wallets[Escrow(c)] = p
      BY <1>2, <2>4, <2>7 DEF p
    <3>2. QED
      BY <1>4, <1>5, <2>6, <2>7, <3>1
  <2>8. CASE c # b
    BY <1>4, <2>4, <2>6, <2>8
  <2>9. QED
    BY <2>7, <2>8
<1>12. BidsBacked'
  BY <1>2, <1>4 DEF MInv, BidsBacked
<1>13. CreditsFollowAuthority'
  BY <1>2, <1>4 DEF MInv, CreditsFollowAuthority, Returned
<1>14. ClaimsAwarded'
  <2>1. \A c \in DOMAIN bids : bids'[c].hold = bids[c].hold /\ (bids[c].state \in Awarded => bids'[c].state \in Awarded)
    BY <1>4 DEF Awarded
  <2>2. QED
    BY <1>2, <1>4, <2>1 DEF MInv, ClaimsAwarded
<1>15. AwardsFit'
  <2>1. \A c \in DOMAIN bids : bids'[c].auction = bids[c].auction
                                 /\ (bids'[c].state \in Awarded => bids[c].state \in Awarded)
    BY <1>2, <1>4 DEF Awarded
  <2>2. QED
    BY <1>2, <1>4, <2>1, FewerAwards
<1>16. QED
  BY <1>8, <1>9, <1>10, <1>11, <1>12, <1>13, <1>14, <1>15 DEF MInv

(* Bids that are refunded, and perhaps others that are allocated. *)
Refunds(R) ==
  /\ Refund(R)
  /\ \A b \in R : bids[b].state \in {"ESCROWED", "ALLOCATED"} /\ NeverBegan(bids[b].hold)
  /\ bids' \in [DOMAIN bids -> BidRow]
  /\ \A b \in DOMAIN bids :
       /\ bids'[b].auction = bids[b].auction /\ bids'[b].agent = bids[b].agent
       /\ bids'[b].price = bids[b].price /\ bids'[b].hold = bids[b].hold
       /\ b \in R => bids'[b].state \in Returned
       /\ b \notin R => \/ bids'[b].state = bids[b].state
                        \/ bids[b].state = "ESCROWED" /\ bids'[b].state = "ALLOCATED"
  /\ auctions' \in [DOMAIN auctions -> AuctionRow]

LEMMA RefundKeepsMarket ==
  ASSUME MInv, NEW R \in SUBSET DOMAIN bids, Refunds(R), AwardsFit'
  PROVE  MInv'
<1> DEFINE M == {Movement(<<"refund", b>>, Escrow(b), bids[b].agent, bids[b].price) : b \in R}
<1>1. Move(M) /\ ReleaseHolds(R)
  BY DEF Refunds, Refund
<1>2. /\ Movements(M)
      /\ \A b \in BidIds : /\ Inflow(M, Escrow(b)) = 0
                           /\ Outflow(M, Escrow(b)) = IF b \in R THEN bids[b].price ELSE 0
  BY RefundFlows DEF MInv
<1> HIDE DEF M
<1>3. wallets \in [Wallets -> Amount] /\ JournalTyped /\ Balanced
  BY DEF MInv, MarketTypeOK
<1>4. /\ wallets' \in [Wallets -> Amount] /\ JournalTyped' /\ Balanced'
      /\ \A u \in Wallets : wallets'[u] = wallets[u] - Outflow(M, u) + Inflow(M, u)
  BY <1>1, <1>2, <1>3, MoveInductive
<1>5. IInv' /\ GivesBack
  BY <1>1, ReleaseHoldsInductive DEF MInv
<1>6. \A h \in DOMAIN holds : holds[h] \in HoldRow
  BY MarketFacts DEF MInv
<1>7. \A b \in DOMAIN bids : bids[b].hold \in DOMAIN holds /\ bids[b].price \in Nat /\ b \in BidIds
  BY MarketFacts, MaxNat DEF MInv, Amount
<1>8. \A b \in R : holds'[bids[b].hold].state = "RELEASED"
  <2>1. TAKE b \in R
  <2> DEFINE h == bids[b].hold
             H == {g \in DOMAIN holds : holds[g].state = "RESERVED" /\ \E c \in R : bids[c].hold = g}
  <2>2. h \in DOMAIN holds /\ holds[h].state \in {"RESERVED", "RELEASED"}
    BY <1>7 DEF Refunds, NeverBegan
  <2>3. holds' = [g \in DOMAIN holds |-> IF g \in H THEN [holds[g] EXCEPT !.state = "RELEASED"] ELSE holds[g]]
    BY <1>1 DEF ReleaseHolds
  <2>4. CASE holds[h].state = "RESERVED"
    <3>1. h \in H
      BY <2>2, <2>4
    <3> HIDE DEF H
    <3>2. holds'[h] = [holds[h] EXCEPT !.state = "RELEASED"]
      BY <2>2, <2>3, <3>1
    <3>3. QED
      BY <1>6, <2>2, <3>2 DEF HoldRow
  <2>5. CASE holds[h].state = "RELEASED"
    BY <1>5, <2>2, <2>5 DEF GivesBack
  <2>6. QED
    BY <2>2, <2>4, <2>5
<1>9. HoldsAdvance
  BY <1>5, GivesBackAdvance DEF IInv, MInv
<1>10. /\ DOMAIN holds' = DOMAIN holds
       /\ \A h \in DOMAIN holds : /\ holds'[h].account = holds[h].account
                                  /\ holds'[h].request = holds[h].request
                                  /\ \/ holds'[h].state = holds[h].state
                                     \/ holds[h].state = "RESERVED" /\ holds'[h].state = "RELEASED"
  BY <1>5, <1>6 DEF GivesBack, HoldRow
<1>11. DOMAIN bids' = DOMAIN bids /\ DOMAIN auctions' = DOMAIN auctions
  BY DEF Refunds
<1>12. MarketTypeOK'
  <2>1. \A b \in DOMAIN bids' : bids'[b].hold \in DOMAIN holds' /\ bids'[b].auction \in DOMAIN auctions'
    BY <1>10, <1>11 DEF MInv, MarketTypeOK, Refunds
  <2>2. bids' \in [DOMAIN bids' -> BidRow] /\ auctions' \in [DOMAIN auctions' -> AuctionRow]
    BY <1>11 DEF Refunds
  <2>3. QED
    BY <1>4, <1>5, <1>11, <2>1, <2>2 DEF MInv, MarketTypeOK, IInv
<1>13. EscrowBacksBid'
  <2>1. SUFFICES ASSUME NEW c \in BidIds
                 PROVE  wallets'[Escrow(c)] =
                          IF c \in DOMAIN bids' /\ bids'[c].state \in {"ESCROWED", "ALLOCATED"}
                            THEN bids'[c].price ELSE 0
    BY DEF EscrowBacksBid
  <2>2. Escrow(c) \in Wallets
    BY WalletFacts
  <2>3. wallets[Escrow(c)] = IF c \in DOMAIN bids /\ bids[c].state \in {"ESCROWED", "ALLOCATED"}
                               THEN bids[c].price ELSE 0
    BY DEF MInv, EscrowBacksBid
  <2>4. wallets'[Escrow(c)] = wallets[Escrow(c)] - (IF c \in R THEN bids[c].price ELSE 0) + 0
    BY <1>2, <1>4, <2>2
  <2>5. CASE c \in R
    <3>1. wallets[Escrow(c)] = bids[c].price /\ bids[c].price \in Nat
      BY <1>7, <2>3, <2>5 DEF Refunds
    <3>2. bids'[c].state \notin {"ESCROWED", "ALLOCATED"}
      BY <2>5 DEF Refunds, Returned
    <3>3. QED
      BY <2>4, <2>5, <3>1, <3>2
  <2>6. CASE c \notin R
    <3>1. wallets[Escrow(c)] \in Nat
      BY <1>3, <2>2, MaxNat DEF Amount
    <3>2. wallets'[Escrow(c)] = wallets[Escrow(c)]
      BY <2>4, <2>6, <3>1
    <3>3. c \in DOMAIN bids => /\ bids'[c].price = bids[c].price
                               /\ bids'[c].state \in {"ESCROWED", "ALLOCATED"}
                                    <=> bids[c].state \in {"ESCROWED", "ALLOCATED"}
      BY <2>6 DEF Refunds
    <3>4. QED
      BY <1>11, <2>3, <3>2, <3>3
  <2>7. QED
    BY <2>5, <2>6
<1>14. BidsBacked'
  <2>1. \A b \in DOMAIN bids : bids'[b].hold = bids[b].hold /\ bids'[b].agent = bids[b].agent
    BY DEF Refunds
  <2>2. QED
    BY <1>7, <1>10, <1>11, <2>1 DEF MInv, BidsBacked
<1>15. CreditsFollowAuthority'
  <2>1. SUFFICES ASSUME NEW b \in DOMAIN bids
                 PROVE  LET state == holds'[bids'[b].hold].state IN
                        /\ bids'[b].state \in Returned => state = "RELEASED"
                        /\ bids'[b].state = "DELIVERED" => state = "SETTLED"
                        /\ bids'[b].state = "ESCROWED" => state \in {"RESERVED", "RELEASED"}
    BY <1>11 DEF CreditsFollowAuthority
  <2> DEFINE h == bids[b].hold
  <2>2. bids'[b].hold = h /\ h \in DOMAIN holds
    BY <1>7 DEF Refunds
  <2>3. CASE b \in R
    BY <1>8, <2>2, <2>3 DEF Refunds, Returned
  <2>4. CASE b \notin R
    <3>1. /\ bids[b].state \in Returned => holds[h].state = "RELEASED"
          /\ bids[b].state = "DELIVERED" => holds[h].state = "SETTLED"
          /\ bids[b].state = "ESCROWED" => holds[h].state \in {"RESERVED", "RELEASED"}
      BY DEF MInv, CreditsFollowAuthority
    <3>2. bids'[b].state = bids[b].state \/ bids'[b].state = "ALLOCATED"
      BY <2>4 DEF Refunds
    <3>3. \/ holds'[h].state = holds[h].state
          \/ holds[h].state = "RESERVED" /\ holds'[h].state = "RELEASED"
      BY <1>10, <2>2
    <3>4. QED
      BY <2>2, <3>1, <3>2, <3>3 DEF Returned
  <2>5. QED
    BY <2>3, <2>4
<1>16. ClaimsAwarded'
  <2>1. SUFFICES ASSUME NEW h \in DOMAIN holds, holds'[h].request \in Premium, holds'[h].state \in Begun
                 PROVE  \E b \in DOMAIN bids : bids'[b].hold = h /\ bids'[b].state \in Awarded
    BY <1>10, <1>11 DEF ClaimsAwarded
  <2>2. holds[h].request \in Premium /\ holds[h].state \in Begun
    BY <1>10, <2>1 DEF Begun
  <2>3. PICK b \in DOMAIN bids : bids[b].hold = h /\ bids[b].state \in Awarded
    BY <2>2 DEF MInv, ClaimsAwarded
  <2>4. b \notin R
    BY <2>2, <2>3 DEF Refunds, NeverBegan, Begun
  <2>5. QED
    BY <2>3, <2>4 DEF Refunds, Awarded
<1>17. QED
  BY <1>4, <1>5, <1>12, <1>13, <1>14, <1>15, <1>16 DEF MInv

LEMMA GiveUpKeepsMarket ==
  ASSUME MInv, NEW R \in SUBSET DOMAIN bids, NEW state \in Returned,
         Refund(R), auctions' = auctions,
         \A b \in R : bids[b].state \in {"ESCROWED", "ALLOCATED"} /\ NeverBegan(bids[b].hold),
         bids' = [b \in DOMAIN bids |-> IF b \in R THEN [bids[b] EXCEPT !.state = state] ELSE bids[b]]
  PROVE  MInv'
<1>1. bids \in [DOMAIN bids -> BidRow] /\ \A b \in DOMAIN bids : bids[b] \in BidRow
  BY DEF MInv, MarketTypeOK
<1>2. /\ DOMAIN bids' = DOMAIN bids
      /\ \A b \in R : bids'[b] = [bids[b] EXCEPT !.state = state]
      /\ \A b \in DOMAIN bids \ R : bids'[b] = bids[b]
  OBVIOUS
<1>3. \A b \in R : /\ bids'[b] \in BidRow /\ bids'[b].state = state
                   /\ bids'[b].auction = bids[b].auction /\ bids'[b].agent = bids[b].agent
                   /\ bids'[b].price = bids[b].price /\ bids'[b].hold = bids[b].hold
  BY <1>1, <1>2 DEF BidRow, BidStates, Returned
<1>4. Refunds(R)
  <2>1. bids' \in [DOMAIN bids -> BidRow]
    BY <1>1, <1>2, <1>3
  <2>2. auctions' \in [DOMAIN auctions -> AuctionRow]
    BY DEF MInv, MarketTypeOK
  <2>3. QED
    BY <1>2, <1>3, <2>1, <2>2 DEF Refunds
<1>5. AwardsFit'
  <2>1. \A b \in DOMAIN bids : bids'[b].auction = bids[b].auction
                                 /\ (bids'[b].state \in Awarded => bids[b].state \in Awarded)
    BY <1>2, <1>3 DEF Awarded, Returned
  <2>2. QED
    BY <1>2, <2>1, FewerAwards
<1>6. QED
  BY <1>4, <1>5, RefundKeepsMarket

LEMMA EndingsKeepMarket ==
  ASSUME MInv, GiveUp \/ Withdraw \/ Lapse
  PROVE  MInv'
<1>1. \A b \in DOMAIN bids : bids[b] \in BidRow
  BY DEF MInv, MarketTypeOK
<1>2. {"REFUNDED", "CANCELLED", "EXPIRED"} \subseteq Returned
  BY DEF Returned
<1>3. ASSUME NEW b \in DOMAIN bids, NEW s
      PROVE  [bids EXCEPT ![b].state = s]
               = [c \in DOMAIN bids |-> IF c \in {b} THEN [bids[c] EXCEPT !.state = s] ELSE bids[c]]
  BY DEF MInv, MarketTypeOK
<1>4. CASE GiveUp
  <2>1. PICK b \in BidIds : FinishUndelivered(b)
    BY <1>4 DEF GiveUp
  <2>2. /\ b \in DOMAIN bids /\ bids[b].state = "ALLOCATED" /\ NeverBegan(bids[b].hold)
        /\ Refund({b}) /\ bids' = [bids EXCEPT ![b].state = "REFUNDED"] /\ auctions' = auctions
    BY <2>1 DEF FinishUndelivered
  <2>3. bids' = [c \in DOMAIN bids |-> IF c \in {b} THEN [bids[c] EXCEPT !.state = "REFUNDED"] ELSE bids[c]]
    BY <1>3, <2>2
  <2>4. {b} \in SUBSET DOMAIN bids /\ "REFUNDED" \in Returned
        /\ \A c \in {b} : bids[c].state \in {"ESCROWED", "ALLOCATED"} /\ NeverBegan(bids[c].hold)
    BY <1>2, <2>2
  <2>5. QED
    BY <2>2, <2>3, <2>4, GiveUpKeepsMarket
<1>5. CASE Withdraw
  <2>1. PICK b \in BidIds, a \in AccountIds : CancelBid(b, a)
    BY <1>5 DEF Withdraw
  <2>2. /\ b \in DOMAIN bids /\ bids[b].state = "ESCROWED"
        /\ Refund({b}) /\ bids' = [bids EXCEPT ![b].state = "CANCELLED"] /\ auctions' = auctions
    BY <2>1 DEF CancelBid
  <2>3. NeverBegan(bids[b].hold)
    BY <2>2 DEF MInv, CreditsFollowAuthority, NeverBegan
  <2>4. bids' = [c \in DOMAIN bids |-> IF c \in {b} THEN [bids[c] EXCEPT !.state = "CANCELLED"] ELSE bids[c]]
    BY <1>3, <2>2
  <2>5. {b} \in SUBSET DOMAIN bids /\ "CANCELLED" \in Returned
        /\ \A c \in {b} : bids[c].state \in {"ESCROWED", "ALLOCATED"} /\ NeverBegan(bids[c].hold)
    BY <1>2, <2>2, <2>3
  <2>6. QED
    BY <2>2, <2>4, <2>5, GiveUpKeepsMarket
<1>6. CASE Lapse
  <2>1. PICK now \in Times, scope \in AccountIds \cup {None} : ExpireBids(now, scope)
    BY <1>6 DEF Lapse
  <2> DEFINE E == Expirable(now, scope)
  <2>2. /\ Refund(E) /\ auctions' = auctions
        /\ bids' = [b \in DOMAIN bids |-> IF b \in E THEN [bids[b] EXCEPT !.state = "EXPIRED"] ELSE bids[b]]
    BY <2>1 DEF ExpireBids
  <2>3. E \in SUBSET DOMAIN bids
        /\ \A b \in E : bids[b].state \in {"ESCROWED", "ALLOCATED"} /\ NeverBegan(bids[b].hold)
    BY DEF Expirable
  <2> HIDE DEF E
  <2>4. QED
    BY <1>2, <2>2, <2>3, GiveUpKeepsMarket
<1>7. QED
  BY <1>4, <1>5, <1>6

(* Whatever the prices and however many bids tie, fewer than n bids go      *)
(* before at most n of them.                                                *)
LEMMA FirstBids ==
  ASSUME NEW E, IsFiniteSet(E), NEW n \in Nat, \A b \in E : b \in Nat /\ bids[b].price \in Nat
  PROVE  LET First == {b \in E : Cardinality({c \in E : Before(c, b)}) < n}
         IN  IsFiniteSet(First) /\ Cardinality(First) <= n
<1> DEFINE Ahead(b) == {c \in E : Before(c, b)}
           First    == {b \in E : Cardinality(Ahead(b)) < n}
           rank     == [b \in First |-> Cardinality(Ahead(b))]
<1>1. \A b \in E : IsFiniteSet(Ahead(b)) /\ Cardinality(Ahead(b)) \in Nat
  BY FS_Subset, FS_CardinalityType
<1>2. ASSUME NEW b \in E, NEW d \in E, Before(b, d)
      PROVE  Cardinality(Ahead(b)) # Cardinality(Ahead(d))
  <2>1. ~ Before(b, b)
    BY DEF Before
  <2>2. \A c \in E : Before(c, b) => Before(c, d)
    <3>1. TAKE c \in E
    <3>2. b \in Nat /\ c \in Nat /\ d \in Nat
          /\ bids[b].price \in Nat /\ bids[c].price \in Nat /\ bids[d].price \in Nat
      OBVIOUS
    <3>3. QED
      BY <1>2, <3>2 DEF Before
  <2>3. Ahead(b) \in SUBSET Ahead(d) /\ b \in Ahead(d) /\ b \notin Ahead(b)
    BY <1>2, <2>1, <2>2
  <2>4. IsFiniteSet(Ahead(d))
    BY <1>1
  <2> HIDE DEF Ahead
  <2>5. Cardinality(Ahead(d)) = Cardinality(Ahead(b)) => Ahead(d) = Ahead(b)
    BY <2>3, <2>4, FS_Subset
  <2>6. QED
    BY <2>3, <2>5
<1>3. \A b, d \in E : Cardinality(Ahead(b)) = Cardinality(Ahead(d)) => b = d
  <2>1. TAKE b, d \in E
  <2>2. b = d \/ Before(b, d) \/ Before(d, b)
    <3>1. b \in Nat /\ d \in Nat /\ bids[b].price \in Nat /\ bids[d].price \in Nat
      OBVIOUS
    <3>2. QED
      BY <3>1 DEF Before
  <2>3. QED
    BY <1>2, <2>2
<1>4. rank \in Injection(First, 0 .. n - 1)
  <2>1. rank \in [First -> 0 .. n - 1]
    <3>1. \A b \in First : b \in E /\ Cardinality(Ahead(b)) < n
      OBVIOUS
    <3> HIDE DEF Ahead, First
    <3>2. \A b \in First : Cardinality(Ahead(b)) \in 0 .. n - 1
      BY <1>1, <3>1
    <3>3. QED
      BY <3>2
  <2>2. \A b, d \in First : rank[b] = rank[d] => b = d
    BY <1>3
  <2>3. QED
    BY <2>1, <2>2, Fun_IsInj
<1> HIDE DEF rank, First
<1>5. IsFiniteSet(0 .. n - 1) /\ Cardinality(0 .. n - 1) = n
  <2>1. n - 1 \in Int /\ (0 > n - 1 => n = 0) /\ (n - 1) - 0 + 1 = n
    OBVIOUS
  <2>2. /\ IsFiniteSet(0 .. n - 1)
        /\ Cardinality(0 .. n - 1) = IF 0 > n - 1 THEN 0 ELSE (n - 1) - 0 + 1
    BY <2>1, FS_Interval
  <2>3. QED
    BY <2>1, <2>2
<1>6. IsFiniteSet(First) /\ Cardinality(First) <= n
  BY <1>4, <1>5, FS_Injection
<1>7. QED
  BY <1>6 DEF First

LEMMA AwardKeepsMarket ==
  ASSUME MInv, Award
  PROVE  MInv'
<1>1. PICK x \in AuctionIds, now \in Times : Clear(x, now)
  BY DEF Award
<1> DEFINE W == Winners(x, now)
           X == Escrowed(x)
           R == X \ W
<1>2. /\ x \in DOMAIN auctions /\ auctions[x].state = "OPEN"
      /\ bids' = [b \in DOMAIN bids |-> IF b \in W THEN [bids[b] EXCEPT !.state = "ALLOCATED"]
                                        ELSE IF b \in X THEN [bids[b] EXCEPT !.state = "LOST"]
                                        ELSE bids[b]]
      /\ Refund(R) /\ auctions' = [auctions EXCEPT ![x].state = "CLEARED"]
  BY <1>1 DEF Clear
<1>3. W \subseteq X /\ X \subseteq DOMAIN bids
      /\ \A b \in DOMAIN bids : b \in X <=> bids[b].auction = x /\ bids[b].state = "ESCROWED"
  BY DEF Winners, Eligible, Escrowed
<1>4. IsFiniteSet(W) /\ Cardinality(W) <= auctions[x].capacity
  <2> DEFINE E     == Eligible(x)
             First == {b \in E : Cardinality({c \in E : Before(c, b)}) < auctions[x].capacity}
  <2>1. auctions[x].capacity \in Nat
    <3>1. auctions[x].capacity \in Capacities
      BY <1>2, MarketFacts DEF MInv, AuctionRow
    <3>2. \A n \in Capacities : n \in Nat
      BY MarketAssumption, MaxNat
    <3>3. QED
      BY <3>1, <3>2
  <2>2. /\ IsFiniteSet(E)
        /\ \A b \in E : b \in Nat /\ bids[b].price \in Nat
    <3>1. E \subseteq DOMAIN bids
      BY DEF Eligible, Escrowed
    <3>2. /\ IsFiniteSet(DOMAIN bids) /\ DOMAIN bids \subseteq BidIds
          /\ \A b \in DOMAIN bids : bids[b].price \in Amount
      BY MarketFacts DEF MInv
    <3>3. BidIds \subseteq Nat /\ \A n \in Amount : n \in Nat
      BY MarketAssumption, MaxNat DEF Amount
    <3> HIDE DEF E
    <3>4. IsFiniteSet(E)
      BY <3>1, <3>2, FS_Subset
    <3>5. QED
      BY <3>1, <3>2, <3>3, <3>4
  <2>3. W \in SUBSET First
    BY DEF Winners
  <2> HIDE DEF E, W
  <2>4. IsFiniteSet(First) /\ Cardinality(First) <= auctions[x].capacity
    BY <2>1, <2>2, FirstBids
  <2> HIDE DEF First
  <2>5. IsFiniteSet(W) /\ Cardinality(W) <= Cardinality(First)
    BY <2>3, <2>4, FS_Subset
  <2>6. Cardinality(W) \in Nat /\ Cardinality(First) \in Nat
    BY <2>4, <2>5, FS_CardinalityType
  <2>7. QED
    BY <2>1, <2>4, <2>5, <2>6
<1> HIDE DEF W, X
<1>5. \A b \in DOMAIN bids : bids[b] \in BidRow
  BY DEF MInv, MarketTypeOK
<1>6. /\ DOMAIN bids' = DOMAIN bids
      /\ \A b \in W : bids'[b] = [bids[b] EXCEPT !.state = "ALLOCATED"]
      /\ \A b \in R : bids'[b] = [bids[b] EXCEPT !.state = "LOST"]
      /\ \A b \in DOMAIN bids \ X : bids'[b] = bids[b]
  BY <1>2, <1>3
<1>7. \A b \in X : /\ bids'[b] \in BidRow
                   /\ bids'[b].auction = bids[b].auction /\ bids'[b].agent = bids[b].agent
                   /\ bids'[b].price = bids[b].price /\ bids'[b].hold = bids[b].hold
                   /\ bids'[b].state = IF b \in W THEN "ALLOCATED" ELSE "LOST"
  <2>1. TAKE b \in X
  <2>2. bids[b] \in BidRow
    BY <1>3, <1>5
  <2>3. CASE b \in W
    BY <1>6, <2>2, <2>3 DEF BidRow, BidStates
  <2>4. CASE b \notin W
    BY <1>6, <2>2, <2>4 DEF BidRow, BidStates
  <2>5. QED
    BY <2>3, <2>4
<1>8. /\ DOMAIN auctions' = DOMAIN auctions
      /\ \A y \in DOMAIN auctions : /\ auctions'[y].capacity = auctions[y].capacity
                                    /\ y # x => auctions'[y] = auctions[y]
      /\ auctions'[x].state = "CLEARED"
      /\ auctions' \in [DOMAIN auctions -> AuctionRow]
  <2>1. auctions \in [DOMAIN auctions -> AuctionRow] /\ auctions[x] \in AuctionRow
    BY <1>2 DEF MInv, MarketTypeOK
  <2>2. [auctions[x] EXCEPT !.state = "CLEARED"] \in AuctionRow
    BY <2>1 DEF AuctionRow
  <2>3. auctions'[x] = [auctions[x] EXCEPT !.state = "CLEARED"]
    BY <1>2, <2>1
  <2>4. QED
    BY <1>2, <2>1, <2>2, <2>3 DEF AuctionRow
<1>9. Refunds(R)
  <2>1. bids' \in [DOMAIN bids -> BidRow]
    <3>1. \A b \in DOMAIN bids : bids'[b] \in BidRow
      BY <1>3, <1>5, <1>6, <1>7
    <3>2. bids' = [b \in DOMAIN bids |-> bids'[b]]
      BY <1>2
    <3>3. QED
      BY <3>1, <3>2
  <2>2. \A b \in R : bids[b].state = "ESCROWED" /\ NeverBegan(bids[b].hold)
    BY <1>3 DEF MInv, CreditsFollowAuthority, NeverBegan
  <2>3. \A b \in DOMAIN bids :
          /\ bids'[b].auction = bids[b].auction /\ bids'[b].agent = bids[b].agent
          /\ bids'[b].price = bids[b].price /\ bids'[b].hold = bids[b].hold
          /\ b \in R => bids'[b].state \in Returned
          /\ b \notin R => \/ bids'[b].state = bids[b].state
                           \/ bids[b].state = "ESCROWED" /\ bids'[b].state = "ALLOCATED"
    <3>1. TAKE b \in DOMAIN bids
    <3>2. CASE b \in X
      BY <1>3, <1>7, <3>2 DEF Returned
    <3>3. CASE b \notin X
      BY <1>6, <3>3
    <3>4. QED
      BY <3>2, <3>3
  <2>4. QED
    BY <1>2, <1>8, <2>1, <2>2, <2>3 DEF Refunds
<1>10. AwardsFit'
  <2>1. SUFFICES ASSUME NEW y \in DOMAIN auctions
                 PROVE  /\ Cardinality(Won(y)') <= auctions[y].capacity
                        /\ auctions'[y].state = "OPEN" => Won(y)' = {}
    BY <1>8 DEF AwardsFit
  <2>2. /\ Cardinality(Won(y)) <= auctions[y].capacity
        /\ auctions[y].state = "OPEN" => Won(y) = {}
    BY DEF MInv, AwardsFit
  <2>3. CASE y = x
    <3>1. Won(x) = {}
      BY <1>2, <2>2, <2>3
    <3>2. \A b \in DOMAIN bids : b \in W <=> bids'[b].auction = x /\ bids'[b].state \in Awarded
      <4>1. TAKE b \in DOMAIN bids
      <4>2. CASE b \in X
        BY <1>3, <1>7, <4>2 DEF Awarded
      <4>3. CASE b \notin X
        BY <1>3, <1>6, <3>1, <4>3 DEF Won
      <4>4. QED
        BY <4>2, <4>3
    <3>3. Won(x)' = W
      BY <1>3, <1>6, <3>2 DEF Won
    <3>4. QED
      BY <1>4, <1>8, <2>3, <3>3
  <2>4. CASE y # x
    <3>1. \A b \in DOMAIN bids : bids[b].auction = y => bids'[b] = bids[b]
      BY <1>3, <1>6, <2>4
    <3>2. \A b \in DOMAIN bids : bids'[b].auction = bids[b].auction
      BY <1>6, <1>7
    <3>3. Won(y)' = Won(y)
      BY <1>6, <3>1, <3>2 DEF Won
    <3>4. QED
      BY <1>8, <2>2, <2>4, <3>3
  <2>5. QED
    BY <2>3, <2>4
<1>11. R \in SUBSET DOMAIN bids
  BY <1>3
<1>12. QED
  BY <1>9, <1>10, <1>11, RefundKeepsMarket

-----------------------------------------------------------------------------
(* The theorems *)

LEMMA MarketInitInductive ==
  ASSUME MarketInit
  PROVE  MInv
<1>1. IInv
  BY InitInductive DEF MarketInit
<1>2. /\ DOMAIN holds = {} /\ DOMAIN moves = {} /\ DOMAIN auctions = {} /\ DOMAIN bids = {}
      /\ wallets = [w \in Wallets |-> 0] /\ 0 \in Amount
      /\ auctions = [x \in {} |-> {}] /\ bids = [b \in {} |-> {}]
  BY MaxNat DEF MarketInit, Init, Amount
<1>3. MarketTypeOK
  <2>1. auctions \in [DOMAIN auctions -> AuctionRow] /\ bids \in [DOMAIN bids -> BidRow]
    BY <1>2
  <2>2. QED
    BY <1>1, <1>2, <2>1 DEF MarketTypeOK, IInv
<1>4. JournalTyped
  BY <1>2, FS_EmptySet DEF JournalTyped
<1>5. Balanced
  <2>1. Journal = {}
    BY <1>2 DEF Journal
  <2>2. \A w : Inflow({}, w) = 0 /\ Outflow({}, w) = 0
    <3>1. TAKE w
    <3>2. {m \in {} : m.destination = w} = {} /\ {m \in {} : m.source = w} = {}
      OBVIOUS
    <3>3. QED
      BY <3>2, TotalEmpty DEF Inflow, Outflow
  <2>3. QED
    BY <1>2, <2>1, <2>2 DEF Balanced
<1>6. EscrowBacksBid
  BY <1>2, WalletFacts DEF EscrowBacksBid
<1>7. BidsBacked /\ CreditsFollowAuthority /\ ClaimsAwarded /\ AwardsFit
  BY <1>2 DEF BidsBacked, CreditsFollowAuthority, ClaimsAwarded, AwardsFit
<1>8. QED
  BY <1>1, <1>3, <1>4, <1>5, <1>6, <1>7 DEF MInv

LEMMA MarketNextInductive == MInv /\ [MarketNext]_marketVars => MInv'
<1> SUFFICES ASSUME MInv, [MarketNext]_marketVars
             PROVE  MInv'
  OBVIOUS
<1>1. CASE KernelStep \/ ClaimGranted
  BY <1>1, KernelKeepsMarket
<1>2. CASE Issue \/ Order
  BY <1>2, CreditsKeepMarket
<1>3. CASE Auction
  BY <1>3, AuctionKeepsMarket
<1>4. CASE Offer
  BY <1>4, OfferKeepsMarket
<1>5. CASE Award
  BY <1>5, AwardKeepsMarket
<1>6. CASE Deliver
  BY <1>6, DeliverKeepsMarket
<1>7. CASE GiveUp \/ Withdraw \/ Lapse
  BY <1>7, EndingsKeepMarket
<1>8. CASE UNCHANGED marketVars
  <2>1. /\ UNCHANGED ledgerVars /\ accounts' = accounts /\ holds' = holds /\ events' = events
        /\ wallets' = wallets /\ moves' = moves /\ auctions' = auctions /\ bids' = bids
    BY <1>8 DEF marketVars, ledgerVars
  <2>2. IInv'
    BY <2>1, NextInductive DEF MInv
  <2>3. MarketTypeOK'
    BY <2>1, <2>2 DEF MInv, MarketTypeOK, IInv
  <2>4. JournalTyped' /\ Balanced' /\ EscrowBacksBid' /\ BidsBacked' /\ CreditsFollowAuthority'
    BY <2>1 DEF MInv, JournalTyped, Balanced, Journal, EscrowBacksBid, BidsBacked, CreditsFollowAuthority
  <2>5. ClaimsAwarded' /\ AwardsFit'
    BY <2>1 DEF MInv, ClaimsAwarded, AwardsFit, Won
  <2>6. QED
    BY <2>2, <2>3, <2>4, <2>5 DEF MInv
<1>9. QED
  BY <1>1, <1>2, <1>3, <1>4, <1>5, <1>6, <1>7, <1>8 DEF MarketNext

(* The invariant of the kernel and the market together. *)
THEOREM MarketInvariant == MarketSpec => []MInv
<1>1. MarketInit => MInv
  BY MarketInitInductive
<1>2. QED
  BY <1>1, MarketNextInductive, PTL DEF MarketSpec

(* snapshot()["consistent"], and total = issued: no order of bids, awards,  *)
(* refunds, payments and transfers creates, loses or overdraws credits.     *)
THEOREM CreditsAreConserved == MarketSpec => []CreditsConserved
<1>1. MInv => CreditsConserved
  BY BalancedConserves DEF MInv, CreditsConserved, Balanced, MarketTypeOK
<1>2. QED
  BY <1>1, MarketInvariant, PTL

(* A pending bid's price is in its escrow wallet, and nothing else is. *)
THEOREM EscrowIsBacked == MarketSpec => []EscrowBacksBid
<1>1. MInv => EscrowBacksBid
  BY DEF MInv
<1>2. QED
  BY <1>1, MarketInvariant, PTL

(* A returned price is the price of an execution that never happens, and a  *)
(* paid one the price of an execution that did.                             *)
THEOREM CreditsAndAuthority == MarketSpec => []CreditsFollowAuthority
<1>1. MInv => CreditsFollowAuthority
  BY DEF MInv
<1>2. QED
  BY <1>1, MarketInvariant, PTL

(* Every premium execution has an award, for good. *)
THEOREM ExecutionsWereAwarded == MarketSpec => []ClaimsAwarded
<1>1. MInv => ClaimsAwarded
  BY DEF MInv
<1>2. QED
  BY <1>1, MarketInvariant, PTL

(* An auction never lets more executions through than its capacity. *)
THEOREM CapacityHolds == MarketSpec => []WithinCapacity
<1>1. ASSUME MInv
      PROVE  WithinCapacity
  <2>1. SUFFICES ASSUME NEW x \in DOMAIN auctions
                 PROVE  Cardinality(Executed(x)) <= auctions[x].capacity
    BY DEF WithinCapacity
  <2>2. Executed(x) \in SUBSET Won(x)
    <3>1. \A b \in DOMAIN bids : bids[b] \in BidRow
      BY <1>1, MarketFacts DEF MInv
    <3>2. \A b \in DOMAIN bids : bids[b].state \in {"ESCROWED"} \cup Returned \cup Awarded
      BY <3>1 DEF BidRow, BidStates, Returned, Awarded
    <3>3. QED
      BY <1>1, <3>2 DEF Executed, Won, MInv, CreditsFollowAuthority
  <2>3. IsFiniteSet(Won(x))
    BY <1>1, MarketFacts, FS_Subset DEF MInv, Won
  <2>4. /\ Cardinality(Executed(x)) <= Cardinality(Won(x))
        /\ Cardinality(Executed(x)) \in Nat /\ Cardinality(Won(x)) \in Nat
    BY <2>2, <2>3, FS_Subset, FS_CardinalityType
  <2>5. Cardinality(Won(x)) <= auctions[x].capacity /\ auctions[x].capacity \in Nat
    <3>1. auctions[x].capacity \in Capacities
      BY <1>1, MarketFacts DEF MInv, AuctionRow
    <3>2. \A n \in Capacities : n \in Nat
      BY MarketAssumption, MaxNat
    <3>3. QED
      BY <1>1, <3>1, <3>2 DEF MInv, AwardsFit
  <2>6. QED
    BY <2>4, <2>5
<1>2. QED
  BY <1>1, MarketInvariant, PTL

-----------------------------------------------------------------------------
(* What the market does to the journal of the holds. *)
LEMMA MarketNextExplains ==
  ASSUME IInv, EventsExplainHolds, [MarketNext]_marketVars
  PROVE  EventsExplainHolds'
<1>1. CASE KernelStep \/ ClaimGranted \/ UNCHANGED marketVars
  <2>1. [Next]_ledgerVars
    BY <1>1 DEF KernelStep, ClaimGranted, Next, Claim, marketVars, ledgerVars
  <2>2. QED
    BY <2>1, NextExplains
<1>2. CASE Issue \/ Order \/ Auction \/ Offer \/ Deliver
  <2>1. UNCHANGED ledgerVars
    BY <1>2 DEF Issue, Order, Auction, Offer, Deliver, Endow, Transfer, Open, Bid, FinishDelivered, ledgerVars
  <2>2. QED
    BY <2>1, NextExplains
<1>3. CASE Award \/ GiveUp \/ Withdraw \/ Lapse
  <2>1. PICK R : ReleaseHolds(R)
    BY <1>3 DEF Award, GiveUp, Withdraw, Lapse, Clear, FinishUndelivered, CancelBid, ExpireBids, Refund
  <2> DEFINE H == {h \in DOMAIN holds : holds[h].state = "RESERVED" /\ \E b \in R : bids[b].hold = h}
  <2>2. H \in SUBSET DOMAIN holds /\ \A h \in H : holds[h].state = "RESERVED"
    OBVIOUS
  <2>3. /\ holds'  = [h \in DOMAIN holds |-> IF h \in H THEN [holds[h] EXCEPT !.state = "RELEASED"] ELSE holds[h]]
        /\ events' = [h \in HoldIds |-> IF h \in H THEN Append(events[h], "released") ELSE events[h]]
    BY <2>1 DEF ReleaseHolds
  <2> HIDE DEF H
  <2>4. TypeOK
    BY DEF IInv
  <2>5. QED
    BY <2>2, <2>3, <2>4, GiveBackExplains
<1>4. QED
  BY <1>1, <1>2, <1>3 DEF MarketNext

(* A reservation the market gives back leaves the journal of one that was   *)
(* cancelled: the history of a hold tells its state whoever ended it.       *)
THEOREM MarketJournalExplains == MarketSpec => []EventsExplainHolds
<1>1. MarketInit => EventsExplainHolds
  BY DEF MarketInit, Init, EventsExplainHolds
<1>2. EventsExplainHolds /\ MInv /\ [MarketNext]_marketVars => EventsExplainHolds'
  BY MarketNextExplains DEF MInv
<1>3. QED
  BY <1>1, <1>2, MarketInvariant, PTL DEF MarketSpec
=============================================================================
