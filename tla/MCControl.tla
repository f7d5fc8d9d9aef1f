----------------------------- MODULE MCControl ------------------------------
(***************************************************************************)
(* ControlPlane on a small instance: two workers on one request id, which  *)
(* may be used for an ordinary request or for a payment, with two quotes   *)
(* that a restart may exchange.  The agent's account is open; there is no  *)
(* market, so no request needs an allocation.                              *)
(***************************************************************************)
EXTENDS ControlPlane, TLC

CONSTANTS agent, reviewer, h1, w1, w2, q, p, ap, Funded

MCInit ==
  /\ accounts  = [a \in {agent} |->
                    [unit |-> "SIM_COST_MICRO", funded |-> Funded, spent |-> 0, spent_high |-> 0,
                     reserved |-> 0, status |-> "ACTIVE", lifecycle |-> "ACTIVE", parent |-> None]]
  /\ holds     = [h \in {} |-> {}]
  /\ events    = [h \in HoldIds |-> <<>>]
  /\ wallets   = [w \in Wallets |-> 0]
  /\ moves     = [k \in {} |-> {}]
  /\ auctions  = [x \in {} |-> {}]
  /\ bids      = [b \in {} |-> {}]
  /\ quotes \in [Requests -> Bounds]
  /\ requests  = [i \in {} |-> {}]
  /\ receipts  = [i \in {} |-> {}]
  /\ approvals = [i \in {} |-> {}]
  /\ journal   = [i \in HoldIds |-> <<>>]
  /\ inflight  = {}
  /\ workers   = [w \in Workers |-> Idle]

MCSpec == MCInit /\ [][ControlNext]_controlVars

Symmetry == Permutations({w1, w2})
=============================================================================
