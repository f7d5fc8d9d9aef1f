------------------------------- MODULE Market -------------------------------
(***************************************************************************)
(* The funded first-price auction, aecp/market.py, over the tables of the  *)
(* reservation kernel.  A bid ties credits (a wallet's balance moves into  *)
(* an escrow wallet) to an operating reservation (a RESERVED hold of a     *)
(* premium request): the two must be given back, or used up, together.     *)
(*                                                                         *)
(* Every method is one transaction except expire, which is two.  A wallet  *)
(* that has no row holds nothing.  The event rows of the market itself are *)
(* logging; a hold released with its bid gets the event "released".        *)
(***************************************************************************)
EXTENDS Ledger

CONSTANTS
  BidIds,      \* bid identifiers, numbers so that ORDER BY id is <
  AuctionIds,
  Owners,      \* wallets that are not escrow: treasury, agents, operator
  Operator,    \* the wallet "market:operator"
  Premium,     \* the requests whose resource is premium
  Prices,      \* prices of bids
  Capacities,  \* capacities of auctions
  Deadlines,   \* expires_at of auctions
  Issues,      \* amounts of initial issues
  TransferIds, \* identities of transfers
  Transferred  \* amounts of transfers

(* The wallet "escrow:" || id of a bid. *)
Escrow(b) == <<"escrow", b>>

(* Every account has a wallet of its name, and no wallet that is not escrow *)
(* has the name of one.                                                     *)
ASSUME MarketAssumption ==
  /\ BidIds \subseteq Nat /\ IsFiniteSet(BidIds)
  /\ AccountIds \cup {Operator} \subseteq Owners /\ IsFiniteSet(Owners)
  /\ None \notin Owners /\ \A b \in BidIds : Escrow(b) \notin Owners \cup {None}
  /\ Premium \subseteq Requests
  /\ Prices \subseteq 1 .. MAX_AMOUNT
  /\ Capacities \subseteq 0 .. MAX_AMOUNT
  /\ Deadlines \subseteq 1 .. MAX_AMOUNT
  /\ Issues \subseteq Amount
  /\ Transferred \subseteq 1 .. MAX_AMOUNT

VARIABLES
  wallets,  \* the balance of every wallet
  moves,    \* credit_moves: key -> source, destination, amount
  auctions, \* auction -> capacity, expires_at, state
  bids      \* bid -> auction, agent, price, hold, state

creditTables == <<wallets, moves>>
marketVars   == <<accounts, holds, events, wallets, moves, auctions, bids>>

Wallets == Owners \cup {Escrow(b) : b \in BidIds}

BidStates == {"ESCROWED", "ALLOCATED", "LOST", "DELIVERED", "REFUNDED", "CANCELLED", "EXPIRED"}
Returned  == {"LOST", "REFUNDED", "CANCELLED", "EXPIRED"}

AuctionRow == [capacity: Capacities, expires_at: Deadlines, state: {"OPEN", "CLEARED"}]
BidRow     == [auction: AuctionIds, agent: AccountIds, price: Prices, hold: HoldIds, state: BidStates]

(* The function f with v at k, as INSERT leaves a table. *)
Insert(f, k, v) == [x \in DOMAIN f \cup {k} |-> IF x = k THEN v ELSE f[x]]

-----------------------------------------------------------------------------
(* Credits *)

Movement(key, source, destination, amount) ==
  [key |-> key, source |-> source, destination |-> destination, amount |-> amount]

Amounts(M)    == [m \in M |-> m.amount]
Inflow(M, w)  == Total({m \in M : m.destination = w}, Amounts(M))
Outflow(M, w) == Total({m \in M : m.source = w}, Amounts(M))

Post(M) == moves' = [k \in DOMAIN moves \cup {m.key : m \in M} |->
                       IF k \in DOMAIN moves THEN moves[k] ELSE CHOOSE m \in M : m.key = k]

(* _move, for the movements M of one transaction: each is recorded under a  *)
(* key of its own, no wallet is overdrawn and none overflows.  (A movement  *)
(* whose key is on record already moves nothing and is no step here.)       *)
(* Mutant: the source keeps what the destination gets.                      *)
MoveKeepingSource(M) ==
  /\ \A m \in M : m.key \notin DOMAIN moves
  /\ Post(M)
  /\ wallets' = [w \in Wallets |-> wallets[w] + Inflow(M, w)]

Move(M) ==
  /\ \A m \in M : m.key \notin DOMAIN moves
  /\ \A w \in Wallets : /\ Outflow(M, w) <= wallets[w]
                        /\ wallets[w] - Outflow(M, w) + Inflow(M, w) <= MAX_AMOUNT
  /\ Post(M)
  /\ wallets' = [w \in Wallets |-> wallets[w] - Outflow(M, w) + Inflow(M, w)]

Endow(treasury, amount) ==
  /\ Move({Movement(<<"issue", treasury>>, None, treasury, amount)})
  /\ UNCHANGED <<accounts, holds, events, auctions, bids>>

(* transfer refuses escrow wallets: those move only with their bid. *)
Transfer(id, source, destination, amount) ==
  /\ source \in Owners /\ destination \in Owners
  /\ Move({Movement(<<"transfer", id>>, source, destination, amount)})
  /\ UNCHANGED <<accounts, holds, events, auctions, bids>>

-----------------------------------------------------------------------------
(* Auctions and bids *)

Open(x, capacity, expires) ==
  /\ x \notin DOMAIN auctions
  /\ auctions' = Insert(auctions, x, [capacity |-> capacity, expires_at |-> expires, state |-> "OPEN"])
  /\ UNCHANGED <<accounts, holds, events, wallets, moves, bids>>

(* bid: admitted on an owned, RESERVED premium hold of an active chain that *)
(* outlives the auction and (hold_id is UNIQUE) backs no other bid; the     *)
(* whole price goes into escrow.                                            *)
BacksNoBid(h) == \A c \in DOMAIN bids : bids[c].hold # h

Admissible(x, agent, h, now) ==
  /\ x \in DOMAIN auctions /\ auctions[x].state = "OPEN" /\ now < auctions[x].expires_at
  /\ h \in DOMAIN holds /\ holds[h].account = agent
  /\ holds[h].state = "RESERVED" /\ holds[h].request \in Premium
  /\ ChainActive(agent)
  /\ holds[h].expires_at # None => holds[h].expires_at >= auctions[x].expires_at

Bid(b, x, agent, price, h, now) ==
  /\ b \notin DOMAIN bids
  /\ Admissible(x, agent, h, now)
  /\ BacksNoBid(h)
  /\ Move({Movement(<<"escrow", b>>, agent, Escrow(b), price)})
  /\ bids' = Insert(bids, b, [auction |-> x, agent |-> agent, price |-> price, hold |-> h,
                              state |-> "ESCROWED"])
  /\ UNCHANGED <<accounts, holds, events, auctions>>

(* The part of _refund that gives the operating authority back: the holds   *)
(* of the bids that are still RESERVED.                                     *)
ReleaseHolds(R) ==
  LET H == {h \in DOMAIN holds : holds[h].state = "RESERVED" /\ \E b \in R : bids[b].hold = h} IN
  /\ Unreserve(H)
  /\ holds'  = [h \in DOMAIN holds |-> IF h \in H THEN [holds[h] EXCEPT !.state = "RELEASED"]
                                                  ELSE holds[h]]
  /\ events' = [h \in HoldIds |-> IF h \in H THEN Append(events[h], "released") ELSE events[h]]

(* Mutant: the reservation is given up and the credits stay in escrow. *)
RefundNothing(R) == ReleaseHolds(R) /\ UNCHANGED creditTables

Refund(R) ==
  /\ Move({Movement(<<"refund", b>>, Escrow(b), bids[b].agent, bids[b].price) : b \in R})
  /\ ReleaseHolds(R)

(* clear, once per auction: the eligible bids by price, then by id, up to   *)
(* the capacity; every other bid is refunded.                               *)
(* Mutant: a tie at the last unit is allocated to both.                     *)
StrictlyAbove(c, b) == bids[c].price > bids[b].price
Before(c, b)        == bids[c].price > bids[b].price \/ (bids[c].price = bids[b].price /\ c < b)

Escrowed(x) == {b \in DOMAIN bids : bids[b].auction = x /\ bids[b].state = "ESCROWED"}
Eligible(x) == {b \in Escrowed(x) : holds[bids[b].hold].state = "RESERVED" /\ ChainActive(bids[b].agent)}
Winners(x, now) ==
  {b \in Eligible(x) : /\ now < auctions[x].expires_at
                       /\ Cardinality({c \in Eligible(x) : Before(c, b)}) < auctions[x].capacity}

Clear(x, now) ==
  /\ x \in DOMAIN auctions /\ auctions[x].state = "OPEN"
  /\ bids' = [b \in DOMAIN bids |->
                IF b \in Winners(x, now) THEN [bids[b] EXCEPT !.state = "ALLOCATED"]
                ELSE IF b \in Escrowed(x) THEN [bids[b] EXCEPT !.state = "LOST"]
                ELSE bids[b]]
  /\ Refund(Escrowed(x) \ Winners(x, now))
  /\ auctions' = [auctions EXCEPT ![x].state = "CLEARED"]

(* finish: payment needs a settled execution, a refund needs one that never *)
(* began; a DISPATCHED or UNRESOLVED hold keeps the escrow where it is.     *)
FinishDelivered(b) ==
  /\ b \in DOMAIN bids /\ bids[b].state = "ALLOCATED"
  /\ holds[bids[b].hold].state = "SETTLED"
  /\ Move({Movement(<<"payment", b>>, Escrow(b), Operator, bids[b].price)})
  /\ bids' = [bids EXCEPT ![b].state = "DELIVERED"]
  /\ UNCHANGED <<accounts, holds, events, auctions>>

(* Mutant: an uncertain delivery is refunded as if it had not happened. *)
NotKnownSettled(h) == holds[h].state # "SETTLED"
NeverBegan(h)      == holds[h].state \in {"RESERVED", "RELEASED"}

FinishUndelivered(b) ==
  /\ b \in DOMAIN bids /\ bids[b].state = "ALLOCATED"
  /\ NeverBegan(bids[b].hold)
  /\ Refund({b})
  /\ bids' = [bids EXCEPT ![b].state = "REFUNDED"]
  /\ UNCHANGED auctions

CancelBid(b, agent) ==
  /\ b \in DOMAIN bids /\ bids[b].agent = agent /\ bids[b].state = "ESCROWED"
  /\ Refund({b})
  /\ bids' = [bids EXCEPT ![b].state = "CANCELLED"]
  /\ UNCHANGED auctions

(* The first transaction of expire; the second is Ledger's Expire.          *)
(* Mutant: only the bids that wait for a clearing expire.                   *)
ExpirableWaiting(now, scope) ==
  {b \in DOMAIN bids : /\ bids[b].state = "ESCROWED"
                       /\ auctions[bids[b].auction].expires_at <= now
                       /\ scope = None \/ scope \in Ancestors(bids[b].agent)
                       /\ NeverBegan(bids[b].hold)}

Expirable(now, scope) ==
  {b \in DOMAIN bids : /\ bids[b].state \in {"ESCROWED", "ALLOCATED"}
                       /\ auctions[bids[b].auction].expires_at <= now
                       /\ scope = None \/ scope \in Ancestors(bids[b].agent)
                       /\ NeverBegan(bids[b].hold)}

ExpireBids(now, scope) ==
  /\ Expirable(now, scope) # {}
  /\ Refund(Expirable(now, scope))
  /\ bids' = [b \in DOMAIN bids |->
                IF b \in Expirable(now, scope) THEN [bids[b] EXCEPT !.state = "EXPIRED"] ELSE bids[b]]
  /\ UNCHANGED auctions

(* The condition under which ControlPlane.execute dispatches a premium hold *)
(* of an untrusted caller.                                                  *)
CapacityGranted(h, now) ==
  \E b \in DOMAIN bids : /\ bids[b].hold = h /\ bids[b].agent = holds[h].account
                         /\ bids[b].state = "ALLOCATED"
                         /\ auctions[bids[b].auction].expires_at > now

-----------------------------------------------------------------------------
MarketInit ==
  /\ Init
  /\ wallets  = [w \in Wallets |-> 0]
  /\ moves    = [k \in {} |-> {}]
  /\ auctions = [x \in {} |-> {}]
  /\ bids     = [b \in {} |-> {}]

(* What the rest of the system does to the reservations meanwhile; a        *)
(* premium hold is dispatched only with an allocation.                      *)
KernelStep ==
  /\ OpenAccount \/ MakeHold \/ Doubt \/ Pay \/ Cancel \/ Reconcile \/ Operate \/ Sweep
  /\ UNCHANGED <<wallets, moves, auctions, bids>>

ClaimGranted ==
  \E h \in HoldIds, now \in Times :
    /\ Dispatch(h, now)
    /\ holds[h].request \in Premium => CapacityGranted(h, now)
    /\ UNCHANGED <<wallets, moves, auctions, bids>>

Issue    == \E w \in Owners, n \in Issues : Endow(w, n)
Order    == \E id \in TransferIds, v, w \in Owners, n \in Transferred : Transfer(id, v, w, n)
Auction  == \E x \in AuctionIds, c \in Capacities, d \in Deadlines : Open(x, c, d)
Offer    == \E b \in BidIds, x \in AuctionIds, a \in AccountIds, p \in Prices, h \in HoldIds, now \in Times :
              Bid(b, x, a, p, h, now)
Award    == \E x \in AuctionIds, now \in Times : Clear(x, now)
Deliver  == \E b \in BidIds : FinishDelivered(b)
GiveUp   == \E b \in BidIds : FinishUndelivered(b)
Withdraw == \E b \in BidIds, a \in AccountIds : CancelBid(b, a)
Lapse    == \E now \in Times, scope \in AccountIds \cup {None} : ExpireBids(now, scope)

MarketNext ==
  \/ KernelStep \/ ClaimGranted
  \/ Issue \/ Order \/ Auction \/ Offer \/ Award \/ Deliver \/ GiveUp \/ Withdraw \/ Lapse

MarketSpec == MarketInit /\ [][MarketNext]_marketVars

-----------------------------------------------------------------------------
MarketTypeOK ==
  /\ TypeOK
  /\ wallets \in [Wallets -> Amount]
  /\ auctions \in [DOMAIN auctions -> AuctionRow] /\ DOMAIN auctions \subseteq AuctionIds
  /\ bids \in [DOMAIN bids -> BidRow] /\ DOMAIN bids \subseteq BidIds
  /\ \A b \in DOMAIN bids : bids[b].hold \in DOMAIN holds /\ bids[b].auction \in DOMAIN auctions

(* snapshot()["consistent"] and total = issued: every wallet is what the    *)
(* journal of movements says, and together they hold what was issued.  The   *)
(* type invariant is part of it: no balance is overdrawn or too large.      *)
Journal == {moves[k] : k \in DOMAIN moves}

CreditsConserved ==
  /\ MarketTypeOK
  /\ \A w \in Wallets : wallets[w] = Inflow(Journal, w) - Outflow(Journal, w)
  /\ Total(Wallets, wallets) = Outflow(Journal, None)

(* A bid's price is in its escrow wallet exactly while the bid is pending,  *)
(* whatever combination of clearing, delivery, cancellation and expiry ends *)
(* it: credits are neither stranded in escrow nor paid out twice.           *)
EscrowBacksBid ==
  \A b \in BidIds :
    wallets[Escrow(b)] = IF b \in DOMAIN bids /\ bids[b].state \in {"ESCROWED", "ALLOCATED"}
                           THEN bids[b].price ELSE 0

(* A bid that got its credits back has given its operating authority up: a  *)
(* premium request is never executed for a returned price; and a price is   *)
(* paid to the operator only for an execution that was settled.             *)
CreditsFollowAuthority ==
  \A b \in DOMAIN bids :
    /\ bids[b].state \in Returned => holds[bids[b].hold].state = "RELEASED"
    /\ bids[b].state = "DELIVERED" => holds[bids[b].hold].state = "SETTLED"
    /\ bids[b].state = "ESCROWED" => holds[bids[b].hold].state \in {"RESERVED", "RELEASED"}

(* The premium executions an auction lets through, over its whole life, are *)
(* no more than its capacity.                                               *)
Executed(x) == {b \in DOMAIN bids : /\ bids[b].auction = x
                                    /\ holds[bids[b].hold].state \in {"DISPATCHED", "UNRESOLVED", "SETTLED"}}

WithinCapacity == \A x \in DOMAIN auctions : Cardinality(Executed(x)) <= auctions[x].capacity
=============================================================================
