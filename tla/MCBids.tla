------------------------------- MODULE MCBids --------------------------------
(***************************************************************************)
(* BidRoutes and LiveTasks, each on a small instance: an agent under the   *)
(* gateway account, one thread, a clock that outlives one time to live, and*)
(* restarts, one fewer where bids are made.  What is asked for is chosen at*)
(* the start, and the rest stays as it is: a premium request with the      *)
(* request of its fee, one bid, one auction and credits; or a chat; or a   *)
(* resource request.  Only the chat has a quote that may be another after a*)
(* restart.                                                                *)
(***************************************************************************)
EXTENDS BidRoutes, LiveTasks

CONSTANTS gateway, agent, h1, f1, h2, h3, operator, chat, native, Balance

VARIABLE part

MCFee(id) == f1

Funded == IF part = "bids" THEN 2 ELSE 1

mcVars == <<bidVars, configured, serving, liveTables, part>>

MCInit ==
  /\ part \in {"bids", "chat", "native"}
  /\ accounts  = [a \in {gateway, agent} |->
                    [unit |-> "SIM_COST_MICRO", funded |-> Funded, spent |-> 0, spent_high |-> 0,
                     reserved |-> 0, status |-> "ACTIVE", lifecycle |-> "ACTIVE",
                     parent |-> IF a = gateway THEN None ELSE gateway]]
  /\ holds     = [h \in {} |-> {}]
  /\ events    = [h \in HoldIds |-> <<>>]
  /\ wallets   = [w \in Wallets |-> IF w = agent THEN Balance ELSE 0]
  /\ moves     = [k \in {} |-> {}]
  /\ auctions  = [x \in {} |-> {}]
  /\ bids      = [b \in {} |-> {}]
  /\ quotes    \in [Requests -> Bounds] /\ \A r \in Requests \ Chats : quotes[r] = 1
  /\ requests  = [i \in {} |-> {}]
  /\ receipts  = [i \in {} |-> {}]
  /\ approvals = [i \in {} |-> {}]
  /\ journal   = [i \in HoldIds |-> <<>>]
  /\ inflight  = {}
  /\ workers   = [w \in Workers |-> Idle]
  /\ clock     = 0
  /\ restarts  = 0
  /\ route     = NoRoute
  /\ configured \in SUBSET Chats
  /\ part # "chat" => configured = {} /\ quotes[chat] = 1
  /\ serving   = [w \in Workers |-> None]
  /\ policies  = {} /\ cases = {} /\ outcomes = {}

Asking(id, task) ==
  /\ LiveNext /\ UNCHANGED route
  /\ serving' \in [Workers -> {id, None}] /\ policies' \subseteq {task}

MCNext ==
  /\ \/ /\ part = "bids"
        /\ BidRoutesNext /\ route'.id \notin ChatIds \cup NativeIds
        /\ restarts' < MaxRestarts /\ quotes' = quotes /\ UNCHANGED <<configured, serving, liveTables>>
     \/ part = "chat" /\ Asking(h2, chat)
     \/ part = "native" /\ Asking(h3, native) /\ configured' = {} /\ quotes' = quotes
  /\ UNCHANGED part

(* No task is known where bids are made, so that no request is posted there;*)
(* and where those are made, no premium request is known nor can be new at  *)
(* the end of the clock: the fairness of the other part asks for nothing    *)
(* but that time passes and other requests come.                            *)
MCSpec     == MCInit /\ [][MCNext]_mcVars
MCFairSpec == MCSpec /\ BidRoutesFairness /\ LiveFairness
=============================================================================
