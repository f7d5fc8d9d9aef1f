------------------------------ MODULE MCMarket ------------------------------
(***************************************************************************)
(* Market on a small instance: an agent and its delegate, two premium      *)
(* reservations and two bids for the one unit of one auction.  The run     *)
(* begins as provisioning leaves the tables: both accounts open and the    *)
(* credits issued.                                                         *)
(***************************************************************************)
EXTENDS Market, TLC

CONSTANTS g1, g2, h1, h2, x1, r, operator, Funded, Credit

Account(parent) ==
  [unit |-> "SIM_COST_MICRO", funded |-> Funded, spent |-> 0, spent_high |-> 0, reserved |-> 0,
   status |-> "ACTIVE", lifecycle |-> "ACTIVE", parent |-> parent]

MCInit ==
  /\ accounts = [a \in {g1, g2} |-> Account(IF a = g1 THEN None ELSE g1)]
  /\ holds    = [h \in {} |-> {}]
  /\ events   = [h \in HoldIds |-> <<>>]
  /\ moves    = [k \in {<<"issue", g1>>, <<"issue", g2>>} |-> Movement(k, None, k[2], Credit)]
  /\ wallets  = [w \in Wallets |-> IF w \in {g1, g2} THEN Credit ELSE 0]
  /\ auctions = [x \in {} |-> {}]
  /\ bids     = [b \in {} |-> {}]

MCSpec == MCInit /\ [][MarketNext]_marketVars

Symmetry == Permutations({h1, h2})
=============================================================================
