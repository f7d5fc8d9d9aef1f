---------------------------- MODULE ControlPlane ----------------------------
(***************************************************************************)
(* prepare and execute, aecp/control.py: the steps by which a request is   *)
(* approved, reserved, claimed, sent to a provider, recorded and settled.  *)
(* Each step of a worker is one SQLite transaction or one exchange with    *)
(* the provider; between two steps other workers run, or the process stops.*)
(* What a worker read earlier (the quote, the clock, the row it branched   *)
(* on) it keeps in its local state and may be stale when it is used.       *)
(*                                                                         *)
(* A request is identified by the id of its hold.  Its fingerprint, a      *)
(* digest of the id, the agent, the request and the quote, is that tuple.  *)
(* The task policy is fixed before a request is made and the checks on the *)
(* form of the arguments are left out: they read no table that changes.    *)
(***************************************************************************)
EXTENDS Market, SequencesExt

CONSTANTS
  Workers,           \* threads that may be in prepare or execute
  Payments,          \* the requests whose operation is release_payment
  ApprovalIds,
  Reviewers,         \* names of principals that may review
  ApprovalExpiries,  \* expires_at of approvals
  Trust,             \* values of trusted_capacity, a set of Booleans
  Ambiguity          \* values of ambiguous, a set of Booleans

ASSUME ControlAssumption ==
  /\ Payments \subseteq Requests
  /\ 0 \in Charges  \* a provider may charge nothing
  /\ ApprovalExpiries \subseteq Nat
  /\ Trust \subseteq BOOLEAN /\ Ambiguity \subseteq BOOLEAN
  /\ None \notin Workers \cup Reviewers

VARIABLES
  quotes,    \* the upper bound the adapter in place quotes for a request
  requests,  \* requests and request_quotes: id -> agent, request, quote
  receipts,  \* the result and receipt of a request: id -> actual_units
  approvals, \* approval -> agent, fingerprint, expires_at, reviewer, state
  journal,   \* what the provider did: id -> its executions, in order
  inflight,  \* requests on their way to the provider
  workers    \* the local state of every worker

marketTables  == <<wallets, moves, auctions, bids>>
controlTables == <<requests, receipts, approvals>>
outside       == <<journal, inflight>>
controlVars   == <<marketVars, quotes, controlTables, outside, workers>>

(* refused: Denied, BudgetRejected or InvalidTransition; conflict: IdempotencyConflict *)
Answers == {"none", "returned", "refused", "conflict"}
Steps   == {"idle", "authorize", "reserve", "insert", "read", "dispatch",
            "send", "wait", "doubt", "record", "settle"}

Idle == [pc |-> "idle", answer |-> "none", id |-> None, agent |-> None, request |-> None, now |-> None,
         expires |-> None, quote |-> None, charge |-> None, trusted |-> FALSE, ambiguous |-> FALSE]

Fingerprint(id, agent, request, quote) == <<id, agent, request, quote>>

(* A worker goes on, with its local state or with the id and a charge alone *)
(* (the rest is not read again), or ends.                                   *)
Goes(w, pc)     == workers' = [workers EXCEPT ![w].pc = pc]
Keeps(w, pc, charge) ==
  workers' = [workers EXCEPT ![w] = [Idle EXCEPT !.pc = pc, !.id = workers[w].id, !.charge = charge]]
Ends(w, answer) == workers' = [workers EXCEPT ![w] = [Idle EXCEPT !.answer = answer]]

-----------------------------------------------------------------------------
(* Approvals *)

RequestApproval(p, id, agent, request, expires) ==
  /\ p \notin DOMAIN approvals
  /\ agent \in DOMAIN accounts
  /\ approvals' = Insert(approvals, p, [agent |-> agent,
                                        fingerprint |-> Fingerprint(id, agent, request, quotes[request]),
                                        expires_at |-> expires, reviewer |-> None, state |-> "PENDING"])
  /\ UNCHANGED <<marketVars, quotes, requests, receipts, outside, workers>>

MayReview(reviewer, p) == reviewer # approvals[p].agent

Review(p, reviewer, approve, now) ==
  /\ p \in DOMAIN approvals
  /\ now < approvals[p].expires_at
  /\ approvals[p].state = "PENDING"
  /\ MayReview(reviewer, p)
  /\ approvals' = [approvals EXCEPT ![p].reviewer = reviewer,
                                    ![p].state = IF approve THEN "APPROVED" ELSE "REJECTED"]
  /\ UNCHANGED <<marketVars, quotes, requests, receipts, outside, workers>>

(* Mutant: an approval of the request under another quote is good enough. *)
ApprovedAtAnyQuote(id, agent, request, quote, now) ==
  \E p \in DOMAIN approvals, q \in Bounds :
    /\ approvals[p].agent = agent /\ approvals[p].fingerprint = Fingerprint(id, agent, request, q)
    /\ approvals[p].state = "APPROVED" /\ approvals[p].expires_at > now

Approved(id, agent, request, quote, now) ==
  \E p \in DOMAIN approvals :
    /\ approvals[p].agent = agent /\ approvals[p].fingerprint = Fingerprint(id, agent, request, quote)
    /\ approvals[p].state = "APPROVED" /\ approvals[p].expires_at > now

-----------------------------------------------------------------------------
(* prepare *)

(* A caller enters prepare, to go on with execute; the quote is taken now. *)
Call(w, id, agent, request, now, expires, trusted, ambiguous) ==
  /\ workers[w].pc = "idle"
  /\ agent \in DOMAIN accounts
  /\ workers' = [workers EXCEPT ![w] =
       [Idle EXCEPT !.pc = "authorize", !.id = id, !.agent = agent, !.request = request, !.now = now,
                    !.expires = expires, !.quote = quotes[request], !.trusted = trusted,
                    !.ambiguous = ambiguous]]
  /\ UNCHANGED <<marketVars, quotes, controlTables, outside>>

(* A caller enters execute with a request prepared earlier. *)
Resume(w, id, agent, now, trusted, ambiguous) ==
  /\ workers[w].pc = "idle"
  /\ workers' = [workers EXCEPT ![w] =
       [Idle EXCEPT !.pc = "read", !.id = id, !.agent = agent, !.now = now, !.trusted = trusted,
                    !.ambiguous = ambiguous]]
  /\ UNCHANGED <<marketVars, quotes, controlTables, outside>>

(* The first transaction: the id must not be bound to something else, and a *)
(* payment needs its approval.                                              *)
Changed(c) ==
  /\ c.id \in DOMAIN requests
  /\ LET o == requests[c.id] IN
       Fingerprint(c.id, o.agent, o.request, o.quote) # Fingerprint(c.id, c.agent, c.request, c.quote)

Authorize(w) ==
  LET c == workers[w] IN
  /\ c.pc = "authorize"
  /\ IF Changed(c) THEN Ends(w, "conflict")
     ELSE IF c.request \in Payments /\ ~ Approved(c.id, c.agent, c.request, c.quote, c.now) THEN Ends(w, "refused")
     ELSE Goes(w, "reserve")
  /\ UNCHANGED <<marketVars, quotes, controlTables, outside>>

(* ledger.reserve: the hold of an identical call is returned as it is.      *)
Matches(c) == /\ holds[c.id].account = c.agent /\ holds[c.id].request = c.request
              /\ holds[c.id].bound = c.quote   /\ holds[c.id].expires_at = c.expires

ReserveAnew(w) ==
  LET c == workers[w] IN
  /\ c.pc = "reserve"
  /\ Reserve(c.agent, c.id, c.quote, c.request, c.expires)
  /\ Goes(w, "insert")
  /\ UNCHANGED <<marketTables, quotes, controlTables, outside>>

ReserveAgain(w) ==
  LET c == workers[w] IN
  /\ c.pc = "reserve"
  /\ c.id \in DOMAIN holds
  /\ IF Matches(c) THEN Goes(w, "insert") ELSE Ends(w, "conflict")
  /\ UNCHANGED <<marketVars, quotes, controlTables, outside>>

ReserveRejected(w) ==
  LET c == workers[w] IN
  /\ c.pc = "reserve"
  /\ c.id \notin DOMAIN holds
  /\ ~ (ChainActive(c.agent) /\ Fits(c.agent, c.quote))
  /\ Ends(w, "refused")
  /\ UNCHANGED <<marketVars, quotes, controlTables, outside>>

(* The last transaction: INSERT OR IGNORE. *)
InsertRequest(w) ==
  LET c == workers[w] IN
  /\ c.pc = "insert"
  /\ requests' = IF c.id \in DOMAIN requests THEN requests
                 ELSE Insert(requests, c.id, [agent |-> c.agent, request |-> c.request, quote |-> c.quote])
  /\ workers' = [workers EXCEPT ![w] = [c EXCEPT !.pc = "read", !.request = None, !.quote = None,
                                                !.expires = None]]
  /\ UNCHANGED <<marketVars, quotes, receipts, approvals, outside>>

-----------------------------------------------------------------------------
(* execute *)

(* The row as it is now decides the branch; by the time the branch acts,    *)
(* the row may be another.                                                  *)
Branch(w) ==
  LET c == workers[w]
      o == requests[c.id]
      s == holds[c.id].state
  IN IF s \in {"SETTLED", "RELEASED"}             THEN Ends(w, "returned")
     ELSE IF c.id \in DOMAIN receipts             THEN Keeps(w, "settle", receipts[c.id])
     ELSE IF s \in {"DISPATCHED", "UNRESOLVED"}   THEN Keeps(w, "doubt", None)
     ELSE IF quotes[o.request] # o.quote          THEN Ends(w, "refused")
     ELSE workers' = [workers EXCEPT ![w] =
            [c EXCEPT !.pc = "dispatch", !.request = o.request, !.quote = o.quote]]

ReadRequest(w) ==
  LET c == workers[w] IN
  /\ c.pc = "read"
  /\ IF c.id \in DOMAIN requests /\ requests[c.id].agent = c.agent THEN Branch(w) ELSE Ends(w, "refused")
  /\ UNCHANGED <<marketVars, quotes, controlTables, outside>>

(* One transaction checks the approval and the capacity and claims the hold.*)
Permitted(c) ==
  /\ c.request \in Payments => Approved(c.id, c.agent, c.request, c.quote, c.now)
  /\ c.request \in Premium => c.trusted \/ CapacityGranted(c.id, c.now)

ClaimHold(w) ==
  LET c == workers[w] IN
  /\ c.pc = "dispatch"
  /\ Permitted(c)
  /\ Dispatch(c.id, c.now)
  /\ Keeps(w, IF c.ambiguous THEN "doubt" ELSE "send", None)
  /\ UNCHANGED <<marketTables, quotes, controlTables, outside>>

ClaimRefused(w) ==
  LET c == workers[w] IN
  /\ c.pc = "dispatch"
  /\ ~ ( Permitted(c) /\ holds[c.id].state = "RESERVED" /\ ~ Due(c.id, c.now) /\ ChainActive(c.agent) )
  /\ Ends(w, "refused")
  /\ UNCHANGED <<marketVars, quotes, controlTables, outside>>

(* adapter.execute: the request leaves; an answer comes back, or an         *)
(* exception, which may be a timeout of a request that is still on its way. *)
Send(w) ==
  LET c == workers[w] IN
  /\ c.pc = "send"
  /\ inflight' = inflight \cup {c.id}
  /\ Goes(w, "wait")
  /\ UNCHANGED <<marketVars, quotes, controlTables, journal>>

Provide(id, executed, charge) ==
  /\ id \in inflight
  /\ executed \/ charge = 0
  /\ journal'  = [journal EXCEPT ![id] = Append(@, [executed |-> executed, charge |-> charge])]
  /\ inflight' = inflight \ {id}
  /\ UNCHANGED <<marketVars, quotes, controlTables, workers>>

Answered(w) ==
  LET c == workers[w] IN
  /\ c.pc = "wait"
  /\ journal[c.id] # <<>>
  /\ Keeps(w, "record", Last(journal[c.id]).charge)
  /\ UNCHANGED <<marketVars, quotes, controlTables, outside>>

Failed(w) ==
  /\ workers[w].pc = "wait"
  /\ Goes(w, "doubt")
  /\ UNCHANGED <<marketVars, quotes, controlTables, outside>>

(* ledger.mark_unresolved, from any of its three calls. *)
DoubtHold(w) ==
  LET c == workers[w] IN
  /\ c.pc = "doubt"
  /\ MarkUnresolved(c.id)
  /\ Ends(w, "returned")
  /\ UNCHANGED <<marketTables, quotes, controlTables, outside>>

DoubtAgain(w) ==
  LET c == workers[w] IN
  /\ c.pc = "doubt"
  /\ holds[c.id].state # "DISPATCHED"
  /\ Ends(w, IF holds[c.id].state = "UNRESOLVED" THEN "returned" ELSE "refused")
  /\ UNCHANGED <<marketVars, quotes, controlTables, outside>>

(* The result and the receipt are written before the hold is settled. *)
RecordReceipt(w) ==
  LET c == workers[w] IN
  /\ c.pc = "record"
  /\ c.id \notin DOMAIN receipts
  /\ receipts' = Insert(receipts, c.id, c.charge)
  /\ Goes(w, "settle")
  /\ UNCHANGED <<marketVars, quotes, requests, approvals, outside>>

(* Mutant: what was promised is charged, whatever the receipt says. *)
ChargedBound(c) == holds[c.id].bound

Charged(c) == c.charge

SettleHold(w) ==
  LET c == workers[w] IN
  /\ c.pc = "settle"
  /\ Settle(c.id, Charged(c))
  /\ Ends(w, "returned")
  /\ UNCHANGED <<marketTables, quotes, controlTables, outside>>

SettleAgain(w) ==
  LET c == workers[w] IN
  /\ c.pc = "settle"
  /\ holds[c.id].state \notin {"DISPATCHED", "UNRESOLVED"}
  /\ Ends(w, CASE holds[c.id].state = "SETTLED" /\ holds[c.id].actual = Charged(c) -> "returned"
               [] holds[c.id].state = "SETTLED" /\ holds[c.id].actual # Charged(c) -> "conflict"
               [] OTHER -> "refused")
  /\ UNCHANGED <<marketVars, quotes, controlTables, outside>>

-----------------------------------------------------------------------------
(* AecpGateway.reconcile: the operator acts on the provider's last word on  *)
(* a request.  Mutant: that there is no word yet is taken as "no charge".   *)
SilenceIsNoCharge(id) == journal[id] # <<>> => ~ Last(journal[id]).executed

KnownNoCharge(id) == journal[id] # <<>> /\ ~ Last(journal[id]).executed

ReconcileEvidence(id) ==
  /\ \/ journal[id] # <<>> /\ Last(journal[id]).executed /\ Settle(id, Last(journal[id]).charge)
     \/ KnownNoCharge(id) /\ ReconcileNoCharge(id)
  /\ UNCHANGED <<marketTables, quotes, controlTables, outside, workers>>

(* The process stops wherever its workers are, and starts again, perhaps    *)
(* with an adapter of another version.  What is on its way stays so.        *)
Restart ==
  /\ \E w \in Workers : workers[w].pc # "idle"
  /\ workers' = [w \in Workers |-> Idle]
  /\ quotes' \in [Requests -> Bounds]
  /\ UNCHANGED <<marketVars, controlTables, outside>>

-----------------------------------------------------------------------------
WorkerStep(w) ==
  \/ Authorize(w) \/ ReserveAnew(w) \/ ReserveAgain(w) \/ ReserveRejected(w) \/ InsertRequest(w)
  \/ ReadRequest(w) \/ ClaimHold(w) \/ ClaimRefused(w) \/ Send(w) \/ Answered(w) \/ Failed(w)
  \/ DoubtHold(w) \/ DoubtAgain(w) \/ RecordReceipt(w) \/ SettleHold(w) \/ SettleAgain(w)

Execution == \E id \in HoldIds, executed \in BOOLEAN, charge \in Charges : Provide(id, executed, charge)
Inquiry   == \E id \in HoldIds : ReconcileEvidence(id)
Petition  == \E p \in ApprovalIds, id \in HoldIds, a \in AccountIds, r \in Requests, t \in ApprovalExpiries :
               RequestApproval(p, id, a, r, t)
Decision  == \E p \in ApprovalIds, reviewer \in Reviewers, approve \in BOOLEAN, now \in Times :
               Review(p, reviewer, approve, now)

(* What else happens to the accounts and the holds nobody claimed yet. *)
Surroundings ==
  /\ Operate \/ Sweep \/ Cancel
  /\ UNCHANGED <<marketTables, quotes, controlTables, outside, workers>>

Caller ==
  \E w \in Workers, id \in HoldIds, a \in AccountIds, now \in Times, t \in Trust, m \in Ambiguity :
    \/ \E r \in Requests, expires \in Expiries : Call(w, id, a, r, now, expires, t, m)
    \/ Resume(w, id, a, now, t, m)

ControlInit ==
  /\ MarketInit
  /\ quotes \in [Requests -> Bounds]
  /\ requests  = [i \in {} |-> {}]
  /\ receipts  = [i \in {} |-> {}]
  /\ approvals = [p \in {} |-> {}]
  /\ journal   = [i \in HoldIds |-> <<>>]
  /\ inflight  = {}
  /\ workers   = [w \in Workers |-> Idle]

ControlNext ==
  \/ Caller \/ (\E w \in Workers : WorkerStep(w))
  \/ Execution \/ Inquiry \/ Petition \/ Decision \/ Surroundings \/ Restart

(* What the rest of the program does to the tables meanwhile: accounts are  *)
(* opened, holds made directly on the ledger, credits moved, auctions run.  *)
(* A run checks ControlNext on provisioned tables; the theorems are about   *)
(* ControlSpec, from empty ones.                                            *)
RestOfProgram ==
  /\ \/ (OpenAccount \/ MakeHold) /\ UNCHANGED marketTables
     \/ Issue \/ Order \/ Auction \/ Offer \/ Award \/ Deliver \/ GiveUp \/ Withdraw \/ Lapse
  /\ UNCHANGED <<quotes, controlTables, outside, workers>>

ControlSpec == ControlInit /\ [][ControlNext \/ RestOfProgram]_controlVars

-----------------------------------------------------------------------------
TablesOK ==
  /\ TypeOK
  /\ quotes \in [Requests -> Bounds]
  /\ requests \in [DOMAIN requests -> [agent: AccountIds, request: Requests, quote: Bounds]]
  /\ DOMAIN receipts \subseteq DOMAIN requests /\ DOMAIN requests \subseteq DOMAIN holds
  /\ receipts \in [DOMAIN receipts -> Charges]
  /\ inflight \subseteq DOMAIN requests

ControlTypeOK ==
  /\ TablesOK
  /\ \A w \in Workers : /\ workers[w].pc \in Steps /\ workers[w].answer \in Answers
                        /\ workers[w].id \in HoldIds \cup {None}

(* "single-winner claim, not an idempotent permission to repeat the         *)
(* provider call": however many callers, retries and restarts there are,    *)
(* one request is sent to the provider at most once.                        *)
AtMostOneEffect == \A id \in HoldIds : Len(journal[id]) + (IF id \in inflight THEN 1 ELSE 0) <= 1

(* "A timeout is not evidence of no charge": from the moment a request is   *)
(* on its way, and for ever once it was executed, its hold keeps the bound  *)
(* reserved or carries the charge; no crash, expiry, cancellation or        *)
(* reconciliation ever gives the authority back.                            *)
EffectIsLiable ==
  \A id \in HoldIds :
    (id \in inflight \/ \E i \in DOMAIN journal[id] : journal[id][i].executed) =>
      id \in DOMAIN holds /\ holds[id].state \in {"DISPATCHED", "UNRESOLVED", "SETTLED"}

(* Whatever path settles a hold (the worker that got the answer, a retry    *)
(* that found the stored receipt, the operator's reconciliation) charges    *)
(* what the provider recorded, and a receipt is never contradicted: its     *)
(* hold is open, or settled for that amount, or given back because the      *)
(* provider recorded that nothing was executed.  (With the type invariant.) *)
ChargeIsEvidence ==
  /\ ControlTypeOK
  /\ \A id \in DOMAIN holds : holds[id].state = "SETTLED" =>
       journal[id] # <<>> /\ holds[id].actual = Last(journal[id]).charge
  /\ \A id \in DOMAIN receipts :
       \/ holds[id].state \in {"DISPATCHED", "UNRESOLVED"}
       \/ holds[id].state = "SETTLED" /\ holds[id].actual = receipts[id]
       \/ holds[id].state = "RELEASED" /\ KnownNoCharge(id)

(* A payment is dispatched only after somebody other than the agent that    *)
(* asks for it approved exactly this request of this agent at exactly the   *)
(* bound that is reserved for it.                                           *)
PaymentsReviewed ==
  \A id \in DOMAIN holds :
    holds[id].request \in Payments /\ holds[id].state \in {"DISPATCHED", "UNRESOLVED", "SETTLED"} =>
      \E p \in DOMAIN approvals :
        /\ approvals[p].state = "APPROVED"
        /\ approvals[p].reviewer # holds[id].account
        /\ approvals[p].fingerprint = Fingerprint(id, holds[id].account, holds[id].request, holds[id].bound)
=============================================================================
