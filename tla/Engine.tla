------------------------------- MODULE Engine -------------------------------
(***************************************************************************)
(* The logical-time experiment, aecp/engine.py: one step of a run takes    *)
(* every task that is due through planning, approval, reservation, bidding,*)
(* execution and verification, over the tables of the kernel and the       *)
(* market, one transaction after the other.  A file lock keeps steps apart,*)
(* so there is one process; it may stop between any two transactions, and  *)
(* the next step starts from the plan and the traces that were saved.      *)
(*                                                                         *)
(* A hold, an approval and a bid are named after their task and tick, so a *)
(* step that is repeated names the same ones.  prepare's two transactions  *)
(* are one action: the second only fills the requests table, which no step *)
(* reads before it has been through prepare again.  What a policy chooses  *)
(* is any resource it may choose, what it bids is any price, and whether a *)
(* result verifies is open.                                                *)
(***************************************************************************)
EXTENDS Integers, Sequences, FiniteSets, SequencesExt

CONSTANTS
  None,
  MAX_AMOUNT,
  Run, Workflow,         \* the accounts above the agents
  Treasury, Operator,    \* the wallets that are nobody's
  NTasks,                \* the cases of the corpus are 1 .. NTasks
  NAgents,               \* 3 in the code
  Mandatory,             \* the cases that need a release_payment
  Late,                  \* the cases that arrive at tick 1, not at tick 0
  Deadline,              \* of every case
  Budget,                \* of the run, of its workflow and of every agent
  Credits,               \* what an agent is endowed with
  Prices,                \* what a policy may bid
  Auctioned,             \* scheduler "market"
  PremiumCapacity,       \* 2 in the code, and none in a throttled tick
  ConsultationCapacity,  \* 1 in the code
  ReviewCapacity,        \* 2 in the code
  Throttled,             \* the throttled ticks
  Outage,                \* the ticks in which premium answers are lost
  RetryPressure,         \* scenario "retry-pressure"
  MaxCrashes

ASSUME EngineAssumption ==
  /\ {NTasks, NAgents} \subseteq Nat \ {0}
  /\ Mandatory \subseteq 1 .. NTasks /\ Late \subseteq 1 .. NTasks
  /\ {MAX_AMOUNT, Deadline, Credits, ConsultationCapacity, ReviewCapacity, MaxCrashes} \subseteq Nat
  /\ Deadline + 2 <= MAX_AMOUNT /\ (Late # {} => Deadline >= 1)
  /\ {Budget, PremiumCapacity} \subseteq 0 .. MAX_AMOUNT
  /\ Prices \subseteq 1 .. MAX_AMOUNT
  /\ {Auctioned, RetryPressure} \subseteq BOOLEAN

Tasks    == 1 .. NTasks
Ticks    == 0 .. Deadline
Agent(t) == <<"agent", t % NAgents>>
Agents   == {Agent(t) : t \in Tasks}

COSTS == [cheap |-> 4, premium |-> 14, consultation |-> 24, planning |-> 1, bidding |-> 2,
          verification |-> 2, mandatory_review |-> 3]
Resources == {"cheap", "premium", "consultation"}
Retries   == {"retry-1", "retry-2", "retry-3"}
Kinds     == {"planning", "bidding", "mandatory_review", "execution", "verification"} \cup Retries
Holds     == Tasks \X Ticks \X Kinds

VARIABLES
  accounts, holds, events, wallets, moves, auctions, bids,
  receipts,   \* the holds whose result and receipt are stored
  approvals,  \* <<task, tick>> -> PENDING or APPROVED
  checkpoint, \* tick, finished, plan: persisted
  traces,     \* task -> tick, status, resource, attempts, bid: persisted
  proc,       \* the process that makes the step: lost in a crash
  crashes

INSTANCE Market WITH
  AccountIds <- {Run, Workflow} \cup Agents, HoldIds <- Holds, Units <- {"SIM_COST_MICRO"},
  Requests <- DOMAIN COSTS, Premium <- {"premium"}, Fundings <- {Budget}, Bounds <- {COSTS[r] : r \in DOMAIN COSTS},
  Charges <- {COSTS[r] : r \in DOMAIN COSTS}, Lifecycles <- {}, Expiries <- (0 .. Deadline + 2) \cup {None},
  Times <- 0 .. Deadline + 1, BidIds <- 1 .. NTasks * (Deadline + 1), AuctionIds <- Ticks,
  Owners <- {Run, Workflow, Treasury, Operator} \cup Agents, Capacities <- {0, PremiumCapacity}, Deadlines <- 2 .. Deadline + 2, Issues <- {}, TransferIds <- {},
  Transferred <- {}

(* Nobody has the name of another, and no value is None. *)
ASSUME NamesAssumption ==
  /\ \A r \in DOMAIN COSTS : COSTS[r] <= MAX_AMOUNT
  /\ Run # Workflow /\ {Run, Workflow} \cap Agents = {}
  /\ None \notin {Run, Workflow, Treasury, Operator} \cup Agents \cup Holds \cup DOMAIN COSTS \cup 0 .. MAX_AMOUNT
  /\ None \notin Seq([task: Tasks, resource: Resources \cup {"defer", "wait"}, price: Prices \cup {None}])
  /\ \A b \in 1 .. NTasks * (Deadline + 1) : Escrow(b) \notin {None, Run, Workflow, Treasury, Operator}

tables     == <<accounts, holds, events, wallets, moves, auctions, bids>>
kernel     == <<accounts, holds, events>>
market     == <<wallets, moves, auctions, bids>>
engineVars == <<tables, receipts, approvals, checkpoint, traces, proc, crashes>>

Begun == {"DISPATCHED", "UNRESOLVED", "SETTLED"}

Stopped == [pc |-> "idle", i |-> 0, cands |-> <<>>, caps |-> None, kind |-> None, status |-> None,
            attempts |-> {}, executing |-> FALSE]

-----------------------------------------------------------------------------
(* What the step is at *)

now  == checkpoint.tick
item == checkpoint.plan[proc.i]
Task == IF proc.executing THEN proc.cands[proc.i] ELSE item.task

Chosen(t)   == (CHOOSE e \in {checkpoint.plan[i] : i \in DOMAIN checkpoint.plan} : e.task = t).resource
Hold(kind)  == <<Task, now, kind>>
BidOf(t, k) == k * NTasks + t
Auctions(t) == Auctioned /\ Chosen(t) = "premium"

ResourceOf(kind) == IF kind = "execution" \/ kind \in Retries THEN Chosen(Task) ELSE kind
ExpiryOf(kind)   == IF kind \in {"execution", "verification"} THEN now + 2 ELSE None

PremiumAt(k)  == IF k \in Throttled THEN 0 ELSE PremiumCapacity

State(h) == IF h \in DOMAIN holds THEN holds[h].state ELSE "NONE"

Waiting(t) == t \in DOMAIN traces => traces[t].status = "WAITING"
Arrived(t) == t \in Late => now >= 1

At(pc)      == proc.pc = pc
Goto(pc)    == proc' = [proc EXCEPT !.pc = pc]
Attempt(k)  == proc' = [proc EXCEPT !.pc = "prepare", !.kind = k]
Execute(k)  == proc' = [proc EXCEPT !.pc = "claim", !.kind = k]
Conclude(s) == proc' = [proc EXCEPT !.pc = "unverify", !.status = s]

(* BudgetRejected or Denied, caught in the step: a task of the first pass   *)
(* is denied, a retry of the second is the last.                            *)
Raise ==
  IF proc.executing THEN Goto("unverify")
  ELSE proc' = [proc EXCEPT !.pc = "giveback", !.status = "DENIED"]

-----------------------------------------------------------------------------
(* The plan of a tick *)

Begin ==
  /\ At("idle") /\ ~ checkpoint.finished
  /\ Goto(IF checkpoint.plan = None THEN "plan" ELSE "open")
  /\ UNCHANGED <<tables, receipts, approvals, checkpoint, traces, crashes>>

(* What Policy.choose, or the central allocator in its place, may pick, and *)
(* what is bid for it.  Every scheduler sorts the tasks its own way: any    *)
(* order is possible.                                                       *)
Headroom   == accounts[Run].funded - Spent(Run) - accounts[Run].reserved
Affordable == {r \in Resources : COSTS[r] + COSTS.verification + COSTS.planning <= Headroom}
Options ==
  IF now >= Deadline \/ Affordable = {} THEN {"defer"}
  ELSE Affordable \cup {"defer"} \cup (IF Auctioned THEN {} ELSE {"wait"})

Decisions(t) == [task: {t}, resource: Options \ {"premium"}, price: {None}]
                  \cup [task: {t}, resource: Options \cap {"premium"}, price: Prices]

Plan ==
  /\ At("plan")
  /\ \E plan \in [{t \in Tasks : Arrived(t) /\ Waiting(t)} -> UNION {Decisions(t) : t \in Tasks}] :
       /\ \A t \in DOMAIN plan : plan[t].task = t
       /\ \E order \in SetToSeqs({plan[t] : t \in DOMAIN plan}) :
            checkpoint' = [checkpoint EXCEPT !.plan = order]
  /\ Goto("open")
  /\ UNCHANGED <<tables, receipts, approvals, traces, crashes>>

(* What the saved traces of this tick used of a capacity.  Mutant: a        *)
(* repeated step counts from the start.                                     *)
UsedNothing(resource) == 0

Used(resource) ==
  Cardinality({t \in DOMAIN traces : /\ traces[t].tick = now /\ traces[t].resource = resource
                                     /\ ~ traces[t].bid
                                     /\ \E h \in traces[t].attempts : State(h) \in Begun})

OpenAuction ==
  /\ At("open")
  /\ IF now \in DOMAIN auctions THEN UNCHANGED tables ELSE Open(now, PremiumAt(now), now + 2)
  /\ proc' = [Stopped EXCEPT !.pc = "item", !.i = 1,
                !.caps = [premium |-> PremiumAt(now) - Used("premium"),
                          consultation |-> ConsultationCapacity - Used("consultation")]]
  /\ UNCHANGED <<receipts, approvals, checkpoint, traces, crashes>>

-----------------------------------------------------------------------------
(* First pass: every task of the plan that has no trace of this tick *)

Taken(t) == t \in DOMAIN traces /\ (traces[t].status # "WAITING" \/ traces[t].tick = now)

NextItem ==
  /\ At("item")
  /\ proc' = IF proc.i > Len(checkpoint.plan) THEN [proc EXCEPT !.pc = "clear"]
             ELSE IF Taken(item.task)         THEN [proc EXCEPT !.i = @ + 1]
             ELSE [proc EXCEPT !.pc = "prepare", !.kind = "planning", !.status = "PENDING", !.attempts = {}]
  /\ UNCHANGED <<tables, receipts, approvals, checkpoint, traces, crashes>>

(* Where the step goes after prepare, and after execute, of a kind of hold. *)
Candidate == proc' = [proc EXCEPT !.pc = "item", !.i = @ + 1, !.cands = Append(@, item.task)]

Prepared(kind) ==
  CASE kind = "execution"    -> proc' = [proc EXCEPT !.kind = "verification", !.attempts = @ \cup {Hold(kind)}]
    [] kind = "verification" -> IF Auctions(item.task) THEN Attempt("bidding") ELSE Candidate
    [] kind \in Retries      -> proc' = [proc EXCEPT !.pc = "claim", !.attempts = @ \cup {Hold(kind)}]
    [] OTHER                 -> Goto("claim")

Done(kind) ==
  CASE kind = "planning" ->
         IF item.resource = "wait"        THEN Conclude("WAITING")
         ELSE IF item.resource = "defer"  THEN Conclude("ABANDONED")
         ELSE IF item.task \in Mandatory  THEN Goto("approval")
         ELSE Attempt("execution")
    [] kind = "mandatory_review" -> Goto("review")
    [] kind = "bidding"          -> Goto("bid")
    [] kind = "execution"        -> Goto("executed")
    [] kind = "verification"     -> Goto("verdict")
    [] kind \in Retries          -> CASE kind = "retry-1" -> Attempt("retry-2")
                                      [] kind = "retry-2" -> Attempt("retry-3")
                                      [] kind = "retry-3" -> Goto("unverify")

(* The approval of a payment covers its execution, not a retry of it. *)
Authorized(kind) ==
  (kind = "execution" \/ kind \in Retries) /\ Task \in Mandatory =>
    kind = "execution" /\ approvals[<<Task, now>>] = "APPROVED"

Prepare ==
  LET h == Hold(proc.kind)
      bound == COSTS[ResourceOf(proc.kind)]
  IN
  /\ At("prepare")
  /\ \/ /\ Authorized(proc.kind) /\ h \in DOMAIN holds
        /\ Prepared(proc.kind) /\ UNCHANGED tables
     \/ /\ Authorized(proc.kind)
        /\ Reserve(Agent(Task), h, bound, ResourceOf(proc.kind), ExpiryOf(proc.kind))
        /\ Prepared(proc.kind) /\ UNCHANGED market
     \/ /\ ~ Authorized(proc.kind) \/ (h \notin DOMAIN holds /\ ~ Fits(Agent(Task), bound))
        /\ Raise /\ UNCHANGED tables
  /\ UNCHANGED <<receipts, approvals, checkpoint, traces, crashes>>

(* approval_request; the simulated reviewer looks at as many as it can. *)
Reviewed == {p \in DOMAIN approvals : p[2] = now /\ approvals[p] = "APPROVED"}

AskApproval ==
  LET p == <<Task, now>>
      state == IF p \in DOMAIN approvals THEN approvals[p] ELSE "PENDING"
  IN
  /\ At("approval")
  /\ approvals' = Insert(approvals, p, state)
  /\ IF state = "PENDING" /\ Cardinality(Reviewed) < ReviewCapacity THEN Attempt("mandatory_review")
                                                                   ELSE Attempt("execution")
  /\ UNCHANGED <<tables, receipts, checkpoint, traces, crashes>>

ReviewApproval ==
  /\ At("review")
  /\ approvals' = [approvals EXCEPT ![<<Task, now>>] = "APPROVED"]
  /\ Attempt("execution")
  /\ UNCHANGED <<tables, receipts, checkpoint, traces, crashes>>

(* market.bid, repeated or new, or refused: the price is not there, or the  *)
(* authority behind it is not RESERVED any more.                            *)
PlaceBid ==
  LET b == BidOf(Task, now) IN
  /\ At("bid")
  /\ \/ b \in DOMAIN bids /\ Candidate /\ UNCHANGED tables
     \/ Bid(b, now, Agent(Task), item.price, Hold("execution"), now) /\ Candidate
     \/ /\ b \notin DOMAIN bids
        /\ wallets[Agent(Task)] < item.price \/ State(Hold("execution")) # "RESERVED"
        /\ Raise /\ UNCHANGED tables
  /\ UNCHANGED <<receipts, approvals, checkpoint, traces, crashes>>

-----------------------------------------------------------------------------
(* Second pass: the auction is cleared, then every candidate *)

ClearAuction ==
  /\ At("clear")
  /\ IF auctions[now].state = "OPEN" THEN Clear(now, now) ELSE UNCHANGED tables
  /\ proc' = [proc EXCEPT !.pc = "candidate", !.i = 1, !.executing = TRUE]
  /\ UNCHANGED <<receipts, approvals, checkpoint, traces, crashes>>

Allocated(t) ==
  /\ Auctions(t) => bids[BidOf(t, now)].state \in {"ALLOCATED", "DELIVERED"}
  /\ ~ Auctions(t) /\ Chosen(t) # "cheap" => proc.caps[Chosen(t)] > 0

NextCandidate ==
  /\ At("candidate")
  /\ IF proc.i > Len(proc.cands) THEN Goto("finish")
     ELSE proc' = [proc EXCEPT
            !.pc = IF Allocated(Task) THEN "claim" ELSE "passover",
            !.kind = "execution", !.status = "PENDING", !.attempts = {Hold("execution")},
            !.caps = [r \in DOMAIN @ |->
                        IF r = Chosen(Task) /\ ~ Auctions(Task) /\ @[r] > 0 THEN @[r] - 1 ELSE @[r]]]
  /\ UNCHANGED <<tables, receipts, approvals, checkpoint, traces, crashes>>

(* ledger.release, which returns a hold it finds RELEASED. *)
ReleaseOnce(h) ==
  \/ State(h) = "RESERVED" /\ Release(h) /\ UNCHANGED market
  \/ State(h) = "RELEASED" /\ UNCHANGED tables

PassOver ==
  /\ At("passover")
  /\ ReleaseOnce(Hold("execution"))
  /\ Conclude("WAITING")
  /\ UNCHANGED <<receipts, approvals, checkpoint, traces, crashes>>

(* control.execute up to the claim, of a hold of any kind. *)
Ambiguous(kind) == kind \in Retries \/ (kind = "execution" /\ Chosen(Task) = "premium" /\ now \in Outage)

ClaimHold ==
  LET h == Hold(proc.kind) IN
  /\ At("claim")
  /\ \/ State(h) \in {"SETTLED", "RELEASED"} /\ Done(proc.kind) /\ UNCHANGED tables
     \/ State(h) \in {"DISPATCHED", "UNRESOLVED"} /\ h \in receipts /\ Goto("settle") /\ UNCHANGED tables
     \/ State(h) = "DISPATCHED" /\ h \notin receipts /\ Goto("doubt") /\ UNCHANGED tables
     \/ State(h) = "UNRESOLVED" /\ h \notin receipts /\ Done(proc.kind) /\ UNCHANGED tables
     \/ /\ Dispatch(h, now)
        /\ Goto(IF Ambiguous(proc.kind) THEN "doubt" ELSE "record")
        /\ UNCHANGED market
  /\ UNCHANGED <<receipts, approvals, checkpoint, traces, crashes>>

DoubtHold ==
  /\ At("doubt")
  /\ MarkUnresolved(Hold(proc.kind)) /\ Done(proc.kind)
  /\ UNCHANGED <<market, receipts, approvals, checkpoint, traces, crashes>>

(* The simulated provider always answers and charges what it quoted. *)
RecordReceipt ==
  /\ At("record")
  /\ receipts' = receipts \cup {Hold(proc.kind)}
  /\ Goto("settle")
  /\ UNCHANGED <<tables, approvals, checkpoint, traces, crashes>>

SettleHold ==
  LET h == Hold(proc.kind) IN
  /\ At("settle")
  /\ Settle(h, holds[h].bound) /\ Done(proc.kind)
  /\ UNCHANGED <<market, receipts, approvals, checkpoint, traces, crashes>>

(* What became of the execution.  A settled one is delivered and verified;  *)
(* an uncertain one is retried under new names in one scenario.  A released *)
(* one has no result to read the resolution from: the call that makes the   *)
(* step ends with a TypeError that nothing in it catches.                   *)
(* Mutant: what was delivered before an interruption cannot be again. *)
DeliverFresh ==
  /\ At("executed") /\ State(Hold("execution")) = "SETTLED"
  /\ Auctions(Task) => FinishDelivered(BidOf(Task, now))
  /\ ~ Auctions(Task) => UNCHANGED tables
  /\ Execute("verification")
  /\ UNCHANGED <<receipts, approvals, checkpoint, traces, crashes>>

DeliverAndVerify ==
  /\ At("executed") /\ State(Hold("execution")) = "SETTLED"
  /\ \/ Auctions(Task) /\ FinishDelivered(BidOf(Task, now))
     \/ Auctions(Task) /\ bids[BidOf(Task, now)].state = "DELIVERED" /\ UNCHANGED tables
     \/ ~ Auctions(Task) /\ UNCHANGED tables
  /\ Execute("verification")
  /\ UNCHANGED <<receipts, approvals, checkpoint, traces, crashes>>

(* Mutant: work whose outcome is uncertain is put off to the next tick. *)
LeaveForNextTick ==
  /\ At("executed") /\ State(Hold("execution")) = "UNRESOLVED"
  /\ Conclude("WAITING")
  /\ UNCHANGED <<tables, receipts, approvals, checkpoint, traces, crashes>>

LeaveUnresolved ==
  /\ At("executed") /\ State(Hold("execution")) = "UNRESOLVED"
  /\ proc' = IF RetryPressure THEN [proc EXCEPT !.pc = "prepare", !.kind = "retry-1", !.status = "UNRESOLVED"]
                              ELSE [proc EXCEPT !.pc = "unverify", !.status = "UNRESOLVED"]
  /\ UNCHANGED <<tables, receipts, approvals, checkpoint, traces, crashes>>

NoResult ==
  /\ At("executed") /\ State(Hold("execution")) = "RELEASED"
  /\ proc' = Stopped
  /\ UNCHANGED <<tables, receipts, approvals, checkpoint, traces, crashes>>

Verdict ==
  /\ At("verdict")
  /\ \E s \in {"VERIFIED", "FAILED"} : proc' = [proc EXCEPT !.pc = "save", !.status = s]
  /\ UNCHANGED <<tables, receipts, approvals, checkpoint, traces, crashes>>

-----------------------------------------------------------------------------
(* The end of a task, and of a tick *)

(* Mutant: the execution hold of a denied task is kept. *)
GiveNothingBack ==
  /\ At("giveback")
  /\ Goto("unverify")
  /\ UNCHANGED <<tables, receipts, approvals, checkpoint, traces, crashes>>

GiveBack ==
  /\ At("giveback")
  /\ IF proc.attempts # {} THEN ReleaseOnce(Hold("execution")) ELSE UNCHANGED tables
  /\ Goto("unverify")
  /\ UNCHANGED <<receipts, approvals, checkpoint, traces, crashes>>

(* Mutant: the verification that will not take place stays reserved. *)
KeepVerification == UNCHANGED tables

FreeVerification ==
  IF State(Hold("verification")) = "RESERVED" THEN Release(Hold("verification")) /\ UNCHANGED market
                                             ELSE UNCHANGED tables

Unverify ==
  /\ At("unverify")
  /\ FreeVerification
  /\ Goto("save")
  /\ UNCHANGED <<receipts, approvals, checkpoint, traces, crashes>>

SaveTrace ==
  /\ At("save")
  /\ traces' = Insert(traces, Task, [tick |-> now, status |-> proc.status, resource |-> Chosen(Task),
                                     attempts |-> proc.attempts, bid |-> proc.executing /\ Auctions(Task)])
  /\ proc' = [proc EXCEPT !.pc = IF proc.executing THEN "candidate" ELSE "item", !.i = @ + 1]
  /\ UNCHANGED <<tables, receipts, approvals, checkpoint, crashes>>

(* Work that was dropped, denied or is uncertain does not keep a run open.  *)
FinishTick ==
  /\ At("finish")
  /\ checkpoint' = [tick |-> now + 1, plan |-> None,
                    finished |-> DOMAIN traces = Tasks /\ \A t \in Tasks : traces[t].status # "WAITING"]
  /\ Goto("lapse")
  /\ UNCHANGED <<tables, receipts, approvals, traces, crashes>>

(* market.expire(tick + 1, scope = run), in two transactions. *)
LapseBids ==
  /\ At("lapse")
  /\ ExpireBids(now, Run) \/ (Expirable(now, Run) = {} /\ UNCHANGED tables)
  /\ Goto("sweep")
  /\ UNCHANGED <<receipts, approvals, checkpoint, traces, crashes>>

SweepRun ==
  /\ At("sweep")
  /\ (Expire(now, Run) /\ UNCHANGED market) \/ (Expiring(now, Run) = {} /\ UNCHANGED tables)
  /\ proc' = Stopped
  /\ UNCHANGED <<receipts, approvals, checkpoint, traces, crashes>>

Crash ==
  /\ ~ At("idle") /\ crashes < MaxCrashes
  /\ crashes' = crashes + 1
  /\ proc' = Stopped
  /\ UNCHANGED <<tables, receipts, approvals, checkpoint, traces>>

-----------------------------------------------------------------------------
EngineInit ==
  /\ accounts = [a \in Agents \cup {Run, Workflow} |->
                   [unit |-> "SIM_COST_MICRO", funded |-> Budget, spent |-> 0, spent_high |-> 0,
                    reserved |-> 0, status |-> "ACTIVE", lifecycle |-> "ACTIVE",
                    parent |-> CASE a = Run -> None [] a = Workflow -> Run [] OTHER -> Workflow]]
  /\ holds    = [h \in {} |-> {}]
  /\ events   = [h \in Holds |-> <<>>]
  /\ wallets  = [w \in Wallets |-> IF w \in Agents THEN Credits ELSE 0]
  /\ moves    = [k \in {<<"issue", Treasury>>} \cup {<<"transfer", a>> : a \in Agents} |->
                   IF k[1] = "issue" THEN Movement(k, None, Treasury, Credits * Cardinality(Agents))
                                     ELSE Movement(k, Treasury, k[2], Credits)]
  /\ auctions = [x \in {} |-> {}]
  /\ bids     = [b \in {} |-> {}]
  /\ receipts  = {}
  /\ approvals = [p \in {} |-> {}]
  /\ checkpoint = [tick |-> 0, plan |-> None, finished |-> FALSE]
  /\ traces   = [t \in {} |-> {}]
  /\ proc     = Stopped
  /\ crashes  = 0

Step ==
  \/ Begin \/ Plan \/ OpenAuction \/ NextItem \/ Prepare \/ AskApproval \/ ReviewApproval \/ PlaceBid
  \/ ClearAuction \/ NextCandidate \/ PassOver \/ ClaimHold \/ DoubtHold \/ RecordReceipt \/ SettleHold
  \/ DeliverAndVerify \/ LeaveUnresolved \/ NoResult \/ Verdict
  \/ GiveBack \/ Unverify \/ SaveTrace \/ FinishTick \/ LapseBids \/ SweepRun

EngineNext == Step \/ Crash

(* The operator makes step after step ("complete") until the run is done. *)
EngineSpec     == EngineInit /\ [][EngineNext]_engineVars
EngineFairSpec == EngineSpec /\ WF_engineVars(Step)

-----------------------------------------------------------------------------
EngineTypeOK ==
  /\ TypeOK
  /\ receipts \subseteq DOMAIN holds
  /\ checkpoint.tick \in 0 .. Deadline + 1 /\ checkpoint.finished \in BOOLEAN
  /\ DOMAIN traces \subseteq Tasks

(* A trace, the only account of an outcome that the metrics read, says what *)
(* the kernel says, however often its step was interrupted and repeated:    *)
(* delivered work was paid for, uncertain work is still a liability, and a  *)
(* task that waits, was dropped or was denied keeps no authority.  (With    *)
(* the type invariant.)                                                     *)
TracesMatchHolds ==
  EngineTypeOK /\ \A t \in DOMAIN traces :
    LET execution    == State(<<t, traces[t].tick, "execution">>)
        verification == State(<<t, traces[t].tick, "verification">>)
    IN CASE traces[t].status \in {"VERIFIED", "FAILED"} ->
              execution = "SETTLED" /\ verification \in {"SETTLED", "UNRESOLVED"}
         [] traces[t].status = "UNRESOLVED" ->
              execution = "UNRESOLVED" /\ verification \in {"RELEASED"}
         [] OTHER -> {execution, verification} \subseteq {"NONE", "RELEASED"}

(* A task that was executed at one tick is never executed at another: an    *)
(* interrupted step is repeated under the same names, and a task waits for  *)
(* the next tick only if it was not executed.                               *)
ExecutedAtOneTick ==
  \A t \in Tasks : Cardinality({k \in Ticks : State(<<t, k, "execution">>) \in Begun}) <= 1

(* The scarce resources stay scarce although their counters are kept in     *)
(* memory and are counted again after a crash: in no tick are there more    *)
(* first executions, or approvals, than the tick has capacity for.          *)
Executions(r, k) == {t \in Tasks : State(<<t, k, "execution">>) \in Begun /\ holds[<<t, k, "execution">>].request = r}

ScarcityHolds ==
  \A k \in Ticks :
    /\ Cardinality(Executions("premium", k)) <= PremiumAt(k)
    /\ Cardinality(Executions("consultation", k)) <= ConsultationCapacity
    /\ Cardinality({p \in DOMAIN approvals : p[2] = k /\ approvals[p] = "APPROVED"}) <= ReviewCapacity

(* A finished run leaves nothing half done: no hold is merely reserved or   *)
(* claimed, and a price stays in escrow only for an uncertain execution.    *)
FinishedRunIsClosed ==
  checkpoint.finished =>
    /\ \A h \in DOMAIN holds : holds[h].state \notin {"RESERVED", "DISPATCHED"}
    /\ \A b \in DOMAIN bids : bids[b].state \in {"ESCROWED", "ALLOCATED"} =>
                                holds[bids[b].hold].state = "UNRESOLVED"

(* "restart resumes the same experiment": wherever steps were interrupted,  *)
(* further steps bring the run to its end.                                  *)
RunFinishes == <>checkpoint.finished

(* They do unless a step comes upon an execution it released itself before  *)
(* it was interrupted, and has not recorded the denial.                     *)
Unrecorded == At("executed") /\ State(Hold("execution")) = "RELEASED"

RunFinishesIfRecorded == []~ Unrecorded => <>checkpoint.finished
=============================================================================
