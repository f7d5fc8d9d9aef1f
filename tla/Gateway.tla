------------------------------ MODULE Gateway -------------------------------
(***************************************************************************)
(* The authenticated HTTP gateway, aecp/server.py, as far as it serves     *)
(* native resource requests of operations that need no market allocation:  *)
(* these run concurrently, one thread each (the "cheap" requests, which    *)
(* take no mutation lock).  A thread reads the clock once, sweeps what has *)
(* expired, looks up the request it may be a repeat of, and enters prepare *)
(* and execute of ControlPlane with a time to live of TTL seconds.         *)
(*                                                                         *)
(* The clock stops at Horizon and the process at MaxRestarts restarts:     *)
(* both bound the exploration and are no part of the program.              *)
(***************************************************************************)
EXTENDS ControlPlane

CONSTANTS
  Agents,       \* the accounts that agent principals own
  Scope,        \* the account "gateway", above them
  TTL,          \* 300 in the code
  Horizon,
  MaxRestarts

ASSUME GatewayAssumption ==
  /\ Agents \subseteq AccountIds /\ Scope \in AccountIds
  /\ TTL \in Nat \ {0}
  /\ Horizon \in Nat
  /\ MaxRestarts \in Nat

VARIABLES clock, restarts

gatewayVars == <<controlVars, clock, restarts>>

GatewaySteps == Steps \cup {"sweep", "expire", "lookup"}

-----------------------------------------------------------------------------
(* A POST of a resource request: now is taken and used until the answer.    *)
Arrive(w, id, agent, request) ==
  /\ workers[w].pc = "idle"
  /\ id \in DOMAIN requests \/ clock + TTL <= Horizon
  /\ workers' = [workers EXCEPT ![w] =
       [Idle EXCEPT !.pc = "sweep", !.id = id, !.agent = agent, !.request = request, !.now = clock,
                    !.quote = quotes[request]]]
  /\ UNCHANGED <<marketVars, quotes, controlTables, outside, clock, restarts>>

(* market.expire(now, scope="gateway"), its two transactions. *)
SweepBids(now) ==
  \/ ExpireBids(now, Scope)
  \/ Expirable(now, Scope) = {} /\ UNCHANGED marketVars

SweepHolds(now) ==
  \/ Expire(now, Scope) /\ UNCHANGED marketTables
  \/ Expiring(now, Scope) = {} /\ UNCHANGED marketVars

SweepStep(w) ==
  LET c == workers[w] IN
  /\ \/ c.pc = "sweep"  /\ SweepBids(c.now)  /\ Goes(w, "expire")
     \/ c.pc = "expire" /\ SweepHolds(c.now) /\ Goes(w, "lookup")
  /\ UNCHANGED <<quotes, controlTables, outside, clock, restarts>>

(* A repeat keeps the expiry of the request it repeats.  Mutants: it gets a *)
(* new one; a reservation has no expiry at all.                             *)
AlwaysFresh(c) == c.now + TTL

NeverExpiring(c) == IF c.id \in DOMAIN requests THEN holds[c.id].expires_at ELSE None

ExpiryFor(c) == IF c.id \in DOMAIN requests THEN holds[c.id].expires_at ELSE c.now + TTL

Lookup(w) ==
  LET c == workers[w] IN
  /\ c.pc = "lookup"
  /\ workers' = [workers EXCEPT ![w].pc = "authorize", ![w].expires = ExpiryFor(c)]
  /\ UNCHANGED <<marketVars, quotes, controlTables, outside, clock, restarts>>

(* Any other request, a GET included, begins with the same two sweeps. *)
OtherRequest ==
  /\ \/ ExpireBids(clock, Scope)
     \/ Expire(clock, Scope) /\ UNCHANGED marketTables
  /\ UNCHANGED <<quotes, controlTables, outside, workers, clock, restarts>>

(* POST approval-requests and reviewer/decisions. *)
AskApproval(p, id, agent, request) ==
  /\ RequestApproval(p, id, agent, request, clock + TTL)
  /\ UNCHANGED <<clock, restarts>>

Decide(p, reviewer, approve) ==
  /\ Review(p, reviewer, approve, clock)
  /\ UNCHANGED <<clock, restarts>>

(* POST requests/cancel, of a request that backs no bid. *)
CancelRequest(id, agent) ==
  /\ id \in DOMAIN requests /\ requests[id].agent = agent
  /\ \A b \in DOMAIN bids : bids[b].hold # id
  /\ Release(id)
  /\ UNCHANGED <<marketTables, quotes, controlTables, outside, workers, clock, restarts>>

Suspend(a, lifecycle) ==
  /\ SetLifecycle(a, lifecycle)
  /\ UNCHANGED <<marketTables, quotes, controlTables, outside, workers, clock, restarts>>

Tick ==
  /\ clock < Horizon
  /\ clock' = clock + 1
  /\ UNCHANGED <<controlVars, restarts>>

Stop ==
  /\ restarts < MaxRestarts
  /\ Restart
  /\ restarts' = restarts + 1
  /\ UNCHANGED clock

-----------------------------------------------------------------------------
Thread(w) ==
  \/ SweepStep(w) \/ Lookup(w)
  \/ WorkerStep(w) /\ UNCHANGED <<clock, restarts>>

Posting(id)    == \E w \in Workers, a \in Agents, r \in Requests : Arrive(w, id, a, r)
Provision   == Execution /\ UNCHANGED <<clock, restarts>>
Inspection  == Inquiry /\ UNCHANGED <<clock, restarts>>
Approval    == \/ \E p \in ApprovalIds, id \in HoldIds, a \in Agents, r \in Requests : AskApproval(p, id, a, r)
               \/ \E p \in ApprovalIds, reviewer \in Reviewers, approve \in BOOLEAN : Decide(p, reviewer, approve)
Abandonment == \E id \in HoldIds, a \in Agents : CancelRequest(id, a)
Lifecycle   == \E a \in AccountIds, l \in Lifecycles : Suspend(a, l)

GatewayNext ==
  \/ (\E w \in Workers : Thread(w)) \/ (\E id \in HoldIds : Posting(id)) \/ OtherRequest
  \/ Provision \/ Inspection \/ Approval \/ Abandonment \/ Lifecycle \/ Tick \/ Stop

GatewayInit == ControlInit /\ clock = 0 /\ restarts = 0

(* Threads run on; the clock moves; a client repeats its request under the  *)
(* same id until it has an answer, as the API asks it to; other requests    *)
(* keep coming.  Nothing makes the provider answer, the operator reconcile  *)
(* or a reviewer decide.                                                    *)
GatewayFairness ==
  /\ \A w \in Workers : WF_gatewayVars(Thread(w))
  /\ \A id \in HoldIds : WF_gatewayVars(Posting(id))
  /\ WF_gatewayVars(OtherRequest)
  /\ WF_gatewayVars(Tick)

-----------------------------------------------------------------------------
GatewayTypeOK ==
  /\ TablesOK
  /\ clock \in 0 .. Horizon
  /\ \A w \in Workers : workers[w].pc \in GatewaySteps /\ workers[w].answer \in Answers

(* "Persisted receipts settle on restart without provider access": once the *)
(* receipt of a request is stored, the repeats of its client settle it (or  *)
(* the operator closes it), wherever the process stopped in between.        *)
ReceiptsSettle ==
  \A id \in HoldIds :
    id \in DOMAIN receipts ~> id \in DOMAIN holds /\ holds[id].state \in {"SETTLED", "RELEASED"}

Reserved(id) == id \in DOMAIN holds /\ holds[id].state = "RESERVED"

(* Authority that was reserved does not stay reserved: it is claimed, or    *)
(* cancelled, or given back by a sweep after its time to live, also when    *)
(* the thread that reserved it died before it recorded the request.         *)
ReservationsEnd ==
  \A id \in HoldIds : Reserved(id) ~> ~ Reserved(id)

(* "The request ID is the idempotency key": a request repeated without any  *)
(* change is never told that it changed.                                    *)
RepeatsAreTheSame == \A w \in Workers : workers[w].answer # "conflict"
=============================================================================
