----------------------------- MODULE BidRoutes ------------------------------
(***************************************************************************)
(* The market routes of the gateway, Handler._route of aecp/server.py: a   *)
(* bid, the execution of a premium request, a cancellation, and the        *)
(* operator's opening and clearing of an auction.  A route is several      *)
(* transactions of the control plane and the market.  They all run under   *)
(* the mutation lock, so that one thread, Mutator, is in one route at a    *)
(* time; the sweeps of read-only requests, the provider, the operator's    *)
(* reconciliation and a stop of the process come in between.               *)
(*                                                                         *)
(* The thread is a worker of ControlPlane while it is in prepare or        *)
(* execute; route is the rest of its local state.  It also keeps how the   *)
(* last route was answered, for the properties.                            *)
(***************************************************************************)
EXTENDS Gateway

CONSTANTS
  Mutator,    \* the worker that holds mutation_lock
  PremiumIds, \* request ids of premium requests
  Bidding,    \* the request of a bid's fee, resource "bidding"
  Fee(_)      \* the id of the fee of a bid on a premium request, "<id>/bid-fee"

ASSUME BidRoutesAssumption ==
  /\ Mutator \in Workers
  /\ Bidding \in Requests \ Premium
  /\ \A p \in PremiumIds : Fee(p) \in HoldIds \ PremiumIds /\ \A q \in PremiumIds : Fee(p) = Fee(q) => p = q

VARIABLE route

bidVars == <<gatewayVars, route>>

NoRoute == [step |-> "idle", answer |-> "none", id |-> None, agent |-> None, bid |-> None, auction |-> None,
            price |-> None, existing |-> FALSE, now |-> None, expires |-> None, seen |-> None]

(* denied: an exception that a bid does not undo; refused: one that it does *)
Ended(answer) == [NoRoute EXCEPT !.answer = answer, !.id = route.id, !.existing = route.existing]

c == workers[Mutator]

(* The thread leaves the worker's code, or never was in it. *)
Off == workers' = [workers EXCEPT ![Mutator] = Idle]

-----------------------------------------------------------------------------
(* A route has the lock, takes its time and begins with the sweeps.         *)
Begin(step, id, agent, request) ==
  /\ route.step = "idle" /\ c.pc = "idle"
  /\ workers' = [workers EXCEPT ![Mutator] =
       [Idle EXCEPT !.pc = "sweep", !.id = id, !.agent = agent, !.request = request, !.now = clock,
                    !.quote = IF request = None THEN None ELSE quotes[request]]]
  /\ UNCHANGED <<marketVars, quotes, controlTables, outside, clock, restarts>>

BeginBid(id, agent, request, b, x, price) ==
  /\ Begin("premium", id, agent, request)
  /\ route' = [NoRoute EXCEPT !.step = "premium", !.id = id, !.agent = agent, !.bid = b, !.auction = x, !.price = price]

BeginExecute(id, agent, request) ==
  /\ id \in DOMAIN requests \/ clock + TTL <= Horizon
  /\ Begin("execute", id, agent, request)
  /\ route' = [NoRoute EXCEPT !.step = "execute", !.id = id, !.agent = agent]

BeginCancel(id, agent) ==
  /\ Begin("cancel", id, agent, None)
  /\ route' = [NoRoute EXCEPT !.step = "cancel", !.id = id, !.agent = agent]

BeginOpen(x, capacity) ==
  /\ clock + TTL <= Horizon
  /\ Begin("open", None, None, None)
  /\ route' = [NoRoute EXCEPT !.step = "open", !.auction = x, !.price = capacity]

BeginClear(x) ==
  /\ Begin("clear", None, None, None)
  /\ route' = [NoRoute EXCEPT !.step = "clear", !.auction = x]

Swept == SweepStep(Mutator) /\ UNCHANGED route

-----------------------------------------------------------------------------
(* POST market/bids.  The expiry of a request that is not known yet is that *)
(* of the auction; what the lookup found decides later what is undone.      *)
LookupBid ==
  /\ route.step = "premium" /\ c.pc = "lookup"
  /\ IF route.auction \notin DOMAIN auctions THEN Off /\ route' = Ended("denied")
     ELSE LET existing == c.id \in DOMAIN requests
              expires  == IF existing THEN holds[c.id].expires_at ELSE auctions[route.auction].expires_at
          IN /\ workers' = [workers EXCEPT ![Mutator].pc = "authorize", ![Mutator].expires = expires]
             /\ route' = [route EXCEPT !.existing = existing, !.now = c.now, !.expires = expires]
  /\ UNCHANGED <<marketVars, quotes, controlTables, outside, clock, restarts>>

(* prepare of the premium request, outside the try: its exceptions pass.    *)
PreparePremium ==
  /\ route.step = "premium" /\ c.pc \in {"authorize", "reserve", "insert"}
  /\ WorkerStep(Mutator)
  /\ route' = IF workers'[Mutator].pc = "idle" THEN Ended("denied") ELSE route
  /\ UNCHANGED <<clock, restarts>>

(* prepare and execute of the fee: the same time and expiry, and no         *)
(* allocation is needed.                                                    *)
PrepareFee ==
  /\ route.step = "premium" /\ c.pc = "read"
  /\ workers' = [workers EXCEPT ![Mutator] =
       [Idle EXCEPT !.pc = "authorize", !.id = Fee(route.id), !.agent = route.agent, !.request = Bidding,
                    !.now = route.now, !.expires = route.expires, !.quote = quotes[Bidding], !.trusted = TRUE]]
  /\ route' = [route EXCEPT !.step = "fee"]
  /\ UNCHANGED <<marketVars, quotes, controlTables, outside, clock, restarts>>

(* execute raises Denied, which is not undone, only if the quote changed.   *)
QuoteChanged == c.pc = "read" /\ quotes[Bidding] # requests[c.id].quote

(* Mutant: the bid is made as soon as the fee is reserved. *)
AfterFeeReserved ==
  IF workers'[Mutator].pc = "read" THEN [route EXCEPT !.step = "admit"] ELSE route

AfterFee ==
  CASE workers'[Mutator].pc # "idle"                          -> route
    [] workers'[Mutator].answer = "returned"                  -> [route EXCEPT !.step = "admit"]
    [] workers'[Mutator].answer = "conflict"                  -> [route EXCEPT !.step = "undo"]
    [] workers'[Mutator].answer = "refused" /\ QuoteChanged   -> Ended("denied")
    [] workers'[Mutator].answer = "refused" /\ ~ QuoteChanged -> [route EXCEPT !.step = "undo"]

ExecuteFee ==
  /\ route.step = "fee"
  /\ WorkerStep(Mutator)
  /\ route' = AfterFee
  /\ UNCHANGED <<clock, restarts>>

(* market.bid: admitted, known already, refused, or (a hold that backs      *)
(* another bid, UNIQUE) an exception that is not undone.                    *)
Known(b) == b \in DOMAIN bids
Same(b)  == /\ bids[b].auction = route.auction /\ bids[b].agent = route.agent
            /\ bids[b].price = route.price     /\ bids[b].hold = route.id

Admit ==
  /\ route.step = "admit"
  /\ Bid(route.bid, route.auction, route.agent, route.price, route.id, route.now)
  /\ route' = Ended("admitted")
  /\ UNCHANGED <<quotes, controlTables, outside, workers, clock, restarts>>

Refused == \/ ~ Admissible(route.auction, route.agent, route.id, route.now)
           \/ wallets[route.agent] < route.price

AdmitNot ==
  /\ route.step = "admit"
  /\ \/ Known(route.bid) /\ Same(route.bid)     /\ route' = Ended("admitted")
     \/ Known(route.bid) /\ ~ Same(route.bid)   /\ route' = [route EXCEPT !.step = "undo"]
     \/ ~ Known(route.bid) /\ Refused           /\ route' = [route EXCEPT !.step = "undo"]
     \/ ~ Known(route.bid) /\ ~ Refused /\ ~ BacksNoBid(route.id) /\ route' = Ended("denied")
  /\ UNCHANGED <<gatewayVars>>

(* What is given back is the reservation of a request that was not recorded *)
(* before this bid: one that this bid made, or that a bid before it left    *)
(* when the process stopped between the reservation and the request.        *)
(* Mutant: also that of a request that was there, perhaps for another bid.  *)
UndoAnything == holds[route.id].state = "RESERVED"

ToUndo == ~ route.existing /\ holds[route.id].state = "RESERVED"

Undo ==
  /\ route.step = "undo"
  /\ IF ToUndo THEN Release(route.id) ELSE UNCHANGED <<accounts, holds, events>>
  /\ route' = Ended("refused")
  /\ UNCHANGED <<marketTables, quotes, controlTables, outside, workers, clock, restarts>>

-----------------------------------------------------------------------------
(* POST resource-requests of a premium request.  A settled one has its bid  *)
(* paid.                                                                    *)
LookupExecute ==
  /\ route.step = "execute"
  /\ Lookup(Mutator)
  /\ UNCHANGED route

ExecutePremium ==
  /\ route.step = "execute" /\ c.pc \notin {"sweep", "expire", "lookup"}
  /\ WorkerStep(Mutator)
  /\ route' = IF workers'[Mutator].pc # "idle" THEN route
              ELSE IF workers'[Mutator].answer # "returned" THEN Ended("denied")
              ELSE IF holds'[c.id].state = "SETTLED" THEN [route EXCEPT !.step = "deliver"] ELSE Ended("returned")
  /\ UNCHANGED <<clock, restarts>>

(* Mutant: a bid is paid only until its auction expires. *)
AllocatedInTime ==
  {b \in DOMAIN bids : /\ bids[b].hold = route.id /\ bids[b].state = "ALLOCATED"
                       /\ clock < auctions[bids[b].auction].expires_at}

Allocated == {b \in DOMAIN bids : bids[b].hold = route.id /\ bids[b].state = "ALLOCATED"}

DeliverBid ==
  /\ route.step = "deliver"
  /\ IF Allocated = {} THEN UNCHANGED marketVars ELSE \E b \in Allocated : FinishDelivered(b)
  /\ route' = Ended("settled")
  /\ UNCHANGED <<quotes, controlTables, outside, workers, clock, restarts>>

-----------------------------------------------------------------------------
(* POST requests/cancel: the hold in one transaction, the bid in another,   *)
(* by the state it had when the bids were listed in between.                *)
CancelHold ==
  /\ route.step = "cancel" /\ c.pc = "lookup"
  /\ IF /\ c.id \in DOMAIN requests /\ requests[c.id].agent = c.agent
        /\ holds[c.id].state \in {"RESERVED", "RELEASED"}
       THEN /\ IF holds[c.id].state = "RESERVED" THEN Release(c.id) ELSE UNCHANGED <<accounts, holds, events>>
            /\ route' = [route EXCEPT !.step = "list"]
       ELSE UNCHANGED <<accounts, holds, events>> /\ route' = Ended("denied")
  /\ Off
  /\ UNCHANGED <<marketTables, quotes, controlTables, outside, clock, restarts>>

(* Mutant: only the bids that wait for a clearing are withdrawn. *)
WithdrawnEscrowed(b) == bids[b].hold = route.id /\ bids[b].state = "ESCROWED"

Withdrawn(b) == bids[b].hold = route.id /\ bids[b].state \in {"ESCROWED", "ALLOCATED"}

ListBids ==
  /\ route.step = "list"
  /\ IF \E b \in DOMAIN bids : Withdrawn(b)
       THEN \E b \in DOMAIN bids : /\ Withdrawn(b)
                                   /\ route' = [route EXCEPT !.step = "withdraw", !.bid = b, !.seen = bids[b].state]
       ELSE route' = Ended("cancelled")
  /\ UNCHANGED gatewayVars

WithdrawBid ==
  /\ route.step = "withdraw"
  /\ \/ route.seen = "ESCROWED" /\ CancelBid(route.bid, route.agent)
     \/ route.seen = "ALLOCATED" /\ FinishUndelivered(route.bid)
  /\ route' = Ended("cancelled")
  /\ UNCHANGED <<quotes, controlTables, outside, workers, clock, restarts>>

(* A sweep was faster: the transition is invalid. *)
WithdrawLate ==
  /\ route.step = "withdraw"
  /\ bids[route.bid].state # route.seen
  /\ route' = Ended("denied")
  /\ UNCHANGED gatewayVars

-----------------------------------------------------------------------------
(* POST admin/auctions and admin/clear *)
OpenAuction ==
  /\ route.step = "open" /\ c.pc = "lookup"
  /\ IF route.auction \in DOMAIN auctions THEN UNCHANGED marketVars
     ELSE Open(route.auction, route.price, c.now + TTL)
  /\ Off /\ route' = NoRoute
  /\ UNCHANGED <<quotes, controlTables, outside, clock, restarts>>

ClearAuction ==
  /\ route.step = "clear" /\ c.pc = "lookup"
  /\ \/ Clear(route.auction, c.now)
     \/ (route.auction \in DOMAIN auctions => auctions[route.auction].state # "OPEN") /\ UNCHANGED marketVars
  /\ Off /\ route' = NoRoute
  /\ UNCHANGED <<quotes, controlTables, outside, clock, restarts>>

StopServer ==
  /\ restarts < MaxRestarts
  /\ route.step # "idle"
  /\ restarts' = restarts + 1
  /\ workers' = [w \in Workers |-> Idle]
  /\ quotes' \in [Requests -> Bounds]
  /\ route' = NoRoute
  /\ UNCHANGED <<marketVars, controlTables, outside, clock>>

-----------------------------------------------------------------------------
RouteStep ==
  \/ Swept \/ LookupBid \/ PreparePremium \/ PrepareFee \/ ExecuteFee \/ Admit \/ AdmitNot \/ Undo
  \/ LookupExecute \/ ExecutePremium \/ DeliverBid
  \/ CancelHold \/ ListBids \/ WithdrawBid \/ WithdrawLate
  \/ OpenAuction \/ ClearAuction

Executing(id) == \E a \in Agents, r \in Premium : BeginExecute(id, a, r)

Arrival ==
  \/ \E id \in PremiumIds, a \in Agents, r \in Premium, b \in BidIds, x \in AuctionIds, price \in Prices :
       BeginBid(id, a, r, b, x, price)
  \/ \E id \in PremiumIds : Executing(id)
  \/ \E id \in HoldIds, a \in Agents : BeginCancel(id, a)
  \/ \E x \in AuctionIds, n \in Capacities : BeginOpen(x, n)
  \/ \E x \in AuctionIds : BeginClear(x)

Meanwhile == (OtherRequest \/ Provision \/ Inspection \/ Tick) /\ UNCHANGED route

BidRoutesNext == RouteStep \/ Arrival \/ Meanwhile \/ StopServer

BidRoutesInit == GatewayInit /\ route = NoRoute
BidRoutesSpec == BidRoutesInit /\ [][BidRoutesNext]_bidVars

(* The thread that has the lock runs on, the clock moves, other requests    *)
(* keep coming, and the client repeats its request for execution under the  *)
(* same id: again and again it finds the lock free and one of its attempts  *)
(* gets it.                                                                 *)
BidRoutesFairness ==
  /\ WF_bidVars(RouteStep)
  /\ WF_bidVars(OtherRequest /\ UNCHANGED route)
  /\ WF_bidVars(Tick /\ UNCHANGED route)
  /\ \A id \in PremiumIds : SF_bidVars(Executing(id))

-----------------------------------------------------------------------------
(* A route that is answered has done all of its parts: a bid that was       *)
(* refused leaves nothing reserved for a request that was not recorded      *)
(* before it, whoever made the reservation; after a cancellation neither    *)
(* the hold nor a bid on it is pending, whatever the sweeps did between the*)
(* two transactions; after an execution the bid is paid.  (With the type    *)
(* invariant of the gateway.)                                               *)
Pending(b) == bids[b].state \in {"ESCROWED", "ALLOCATED"}

RoutesEndWhole ==
  /\ GatewayTypeOK
  /\ route.answer = "refused" => (holds[route.id].state = "RESERVED" => route.existing)
  /\ route.answer = "cancelled" => /\ holds[route.id].state = "RELEASED"
                                   /\ \A b \in DOMAIN bids : bids[b].hold = route.id => ~ Pending(b)
  /\ route.answer = "settled" => /\ holds[route.id].state = "SETTLED"
                                 /\ \A b \in DOMAIN bids : bids[b].hold = route.id => bids[b].state # "ALLOCATED"

(* "Each new native bidding operation costs 2 modeled operating units": no  *)
(* bid stands whose fee was neither charged nor is kept as a liability,     *)
(* unless the fee was given back on evidence, or cancelled by the bidder    *)
(* before it was dispatched, which takes a stop between its two halves.     *)
FeePaid(id) ==
  \/ holds[Fee(id)].state \in {"SETTLED", "UNRESOLVED"}
  \/ events[Fee(id)] # <<>> /\ Last(events[Fee(id)]) = "reconciled_no_charge"

BidsPayTheirFee ==
  \A b \in DOMAIN bids :
    /\ Fee(bids[b].hold) \in DOMAIN holds
    /\ ~ FeePaid(bids[b].hold) => restarts > 0 /\ events[Fee(bids[b].hold)] = <<"reserved", "released">>

(* While a bid waits or has been awarded it keeps its reservation, which    *)
(* is given back only in the transaction that ends the bid, by the sweep    *)
(* that follows when it has expired, or by its own agent's cancellation: no *)
(* other bid on the same request takes it away by being refused (for its    *)
(* price, its fee or its identifier), whatever stopped in between.          *)
BackingIsKept ==
  [][ \A b \in DOMAIN bids :
        LET h == bids[b].hold IN
        Pending(b) /\ holds[h].state = "RESERVED" /\ holds'[h].state = "RELEASED" =>
          \/ ~ Pending(b)'
          \/ Last(events'[h]) = "expired"
          \/ route.step = "cancel" /\ route.agent = bids[b].agent ]_bidVars

(* Credits do not stay in escrow for a premium request nobody dispatched:   *)
(* the bid is cleared, cancelled or expired, also after a stop between the  *)
(* two halves of a cancellation.                                            *)
Unused(b) == b \in DOMAIN bids /\ Pending(b) /\ NeverBegan(bids[b].hold)

EscrowComesBack == \A b \in BidIds : Unused(b) ~> ~ Unused(b)

(* And an execution that was settled is paid for, also when the process     *)
(* stopped between its settlement and its payment.                          *)
Unpaid(b) == b \in DOMAIN bids /\ bids[b].state = "ALLOCATED" /\ holds[bids[b].hold].state = "SETTLED"

ExecutionsArePaid == \A b \in BidIds : Unpaid(b) ~> ~ Unpaid(b)
=============================================================================
