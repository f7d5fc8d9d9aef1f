----------------------------- MODULE MCGateway ------------------------------
(***************************************************************************)
(* Gateway on a small instance: an agent under the gateway account, two    *)
(* threads, one request id and one request, a clock that outlives one time *)
(* to live by two, and one restart.                                        *)
(***************************************************************************)
EXTENDS Gateway, TLC

CONSTANTS gateway, agent, reviewer, h1, w1, w2, q, ap, Funded

MCInit ==
  /\ accounts  = [a \in {gateway, agent} |->
                    [unit |-> "SIM_COST_MICRO", funded |-> Funded, spent |-> 0, spent_high |-> 0,
                     reserved |-> 0, status |-> "ACTIVE", lifecycle |-> "ACTIVE",
                     parent |-> IF a = gateway THEN None ELSE gateway]]
  /\ holds     = [h \in {} |-> {}]
  /\ events    = [h \in HoldIds |-> <<>>]
  /\ wallets   = [w \in Wallets |-> 0]
  /\ moves     = [k \in {} |-> {}]
  /\ auctions  = [x \in {} |-> {}]
  /\ bids      = [b \in {} |-> {}]
  /\ quotes \in [Requests -> Bounds]
  /\ requests  = [i \in {} |-> {}]
  /\ receipts  = [i \in {} |-> {}]
  /\ approvals = [i \in {} |-> {}]
  /\ journal   = [i \in HoldIds |-> <<>>]
  /\ inflight  = {}
  /\ workers   = [w \in Workers |-> Idle]
  /\ clock     = 0
  /\ restarts  = 0

MCSpec     == MCInit /\ [][GatewayNext]_gatewayVars
MCFairSpec == MCSpec /\ GatewayFairness
=============================================================================
