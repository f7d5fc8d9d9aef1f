# Verification of AECP

AECP (`src/src/aecp`) is a spending gateway for agents: an agent may have a
provider do something that costs only after the cost was reserved against its
budget and every budget above it, and what a provider charges is settled
against that reservation, whatever crashes, repeats and delays come between.
This directory holds TLA+ models of the program, the TLC configurations that
check them on small instances, and proofs that TLAPS checks for all instances.

    tlc -workers 2 -config MCLedger.cfg MCLedger     # one run; PROJECT.json lists all
    tlapm LedgerProofs.tla                           # the proofs of the ledger

## 1. The system

All durable state is one SQLite database, written only in `BEGIN IMMEDIATE`
transactions. A transaction is atomic, and everything between two of them is
a place where another thread may run or the process may stop. The models take
one transaction (or one call to a provider) as one action.

| component | source | state | operations |
|---|---|---|---|
| ledger | `ledger.py` | accounts in a tree (funded, spent in two limbs, reserved, status, lifecycle), holds, the event journal | create_account, reserve, dispatch, mark_unresolved, settle, release, reconcile_no_charge, set_lifecycle, expire |
| market | `market.py` | wallets, credit moves, auctions, bids | endow, transfer, open, bid, clear, finish, cancel, expire |
| control plane | `control.py` | approvals, requests, quotes, receipts | approval_request, review, prepare, execute |
| gateway | `server.py` | threads, principals, admission counters | the HTTP routes; each begins with a sweep of what has expired |
| engine | `engine.py` | runs with a checkpoint, traces of tasks | create, step, complete, the central allocator |
| semantic tasks | `semantic.py` | cases with steps and status, recorded actions, consultation capacity | register, view, action |
| live tasks, NIM | `live.py`, `nim.py`, `structured.py` | live tasks with their truth, outcomes | register, evaluate, chat_completion; the transport to a provider |
| conformance | `failure_conformance.py` | the provider's own journal | the gateway against a provider that loses answers and workers that die; a naive gateway |
| studies | `study.py`, `reporting_study.py` | budget, credits and choices of one play | rounds of cases played by every allocator or policy, an oracle, purchases of reports |
| billing | `billing.py` | none that lasts | charge, upper_bound, reconcile |
| the rest | `policies`, `workload`, `experiments`, ... | none that lasts | pure functions, reports |

How they interact: the gateway and the semantic tasks call the control plane;
the engine calls the control plane and the market; the control plane dispatches
and settles holds of the ledger, and lets a premium request run only with a
market allocation; a bid of the market backs a hold of the ledger, and when the
bid is refunded the hold is released in the same transaction. The adapters of
the control plane call providers, which are outside.

What is hard: the control plane's `execute` is four transactions around a call
that may succeed, overcharge, fail or never return; a repeat may find any
intermediate state, of an attempt that is still running as well as of one that
died; the engine repeats a whole tick after a crash and has to recognise what
it did; approvals, quotes and holds expire between being looked at and being
used; sums over a tree of accounts are kept as columns. `PROJECT.json` lists
each hazard at its line, with the properties that would catch it going wrong.

## 2. The models

| module | models | builds on |
|---|---|---|
| `Totals`, `TotalsTheorems` | sums of a function over a finite set, with the lemmas about them | community `Folds`, `FiniteSetsExt` |
| `Delegation` | chains of ancestors in a table with parent links | |
| `Ledger` | `ledger.py` | `Totals`, `Delegation` |
| `SpendingAuthority` | what the ledger promises, without its columns | `Totals`, `Delegation` |
| `LedgerAuthority` | the refinement mapping | `Ledger`, `SpendingAuthority` |
| `Market` | `market.py` | extends `Ledger` |
| `ControlPlane` | `control.py` | extends `Market` |
| `Gateway` | the native request route of `server.py` | extends `ControlPlane` |
| `BidRoutes` | the market routes of `server.py`, under the mutation lock | extends `Gateway` |
| `LiveTasks` | `live.py`: the chat endpoint and the scores of answers | extends `Gateway` |
| `Admission` | connections, agents' requests and the mutation lock of `server.py` | |
| `Engine` | `engine.py`, one run | instances of `Ledger` and `Market` |
| `CentralPlan` | `Engine._central_plan` | |
| `SemanticTasks` | `semantic.py` | an instance of `Ledger` |
| `Conformance` | `failure_conformance.py` | extends `ControlPlane` |
| `Study` | `study.py` | |
| `Reporting` | `reporting_study.py` | extends `Study` |
| `Billing` | `billing.py` | `Totals` |
| `LedgerProofs` | the theorems about the ledger and its refinement | `Ledger`, `LedgerAuthority`, `TotalsTheorems` |
| `MarketProofs`, `ControlProofs` | the theorems about the market and the control plane | `Market`, `ControlPlane`; each cites the proofs of the layer below |
| `SemanticProofs` | the theorems about the semantic tasks | `SemanticTasks`, an instance of `LedgerProofs` |
| `EngineProofs` | the theorems about the engine | `Engine`, an instance of `MarketProofs` |
| `AdmissionProofs` | the theorems about admission | `Admission` |
| `OfflineProofs` | the theorems about the central plan, the studies and billing | `CentralPlan`, `Reporting`, `Billing`, `TotalsTheorems` |

An `MC` module gives a model its initial state and its small inputs. Names are
the source's where TLA+ allows: an action is named after the method, a
variable after the table. `PROJECT.json` maps every definition to its lines.

**Ledger.** `accounts`, `holds` and `events` are the three tables; there is
one action per method, guarded by the method's checks, and a call that is
refused or repeated changes nothing and is a stutter. The recursive queries are
the least sets that are closed under the parent link. `spent` and
`spent_high` are the two limbs of the code, with `MAX_AMOUNT` small, so that
the carry happens. The journal is kept per hold.

**Market.** Adds `wallets`, `moves`, `auctions`, `bids`. `clear` goes through
the bids by price and identifier, as the code does; `expire` is two actions, as
it is two transactions.

**ControlPlane.** Adds the tables of approvals, requests and receipts and a
set of workers, each with a program counter: a worker is in between two
transactions of `prepare` or `execute`, or at the provider. A worker may stop at
any point and its locals are lost. The provider may act or not, answer, answer
with a charge above the bound, raise or stay silent; what it did is kept in a
history variable that no guard of the program reads. Operators may settle and
reconcile what is unresolved, as the evidence says.

**Gateway.** A thread takes a request and the time, sweeps, looks up whether
it is a repeat, prepares and executes. Clients repeat a request that has no
final answer. The clock moves up to `Horizon`, the process restarts up to
`MaxRestarts` times: both bound the exploration only.

**BidRoutes.** A bid, an execution of a premium request, a cancel, and the
operator's open and clear are each several transactions, and all of them run
under the mutation lock: one thread, `Mutator`, is in one of them at a time.
While it is in `prepare` or `execute` it is a worker of `ControlPlane`; the rest
of what it knows (the expiry it looked up, whether the request was there, the
state of the bid when bids were listed) is in `route`. Sweeps by read-only
requests, the provider, the operator's reconciliation and a stop of the process
come in between. A refused bid gives back what is reserved for its request
unless the request was recorded before (`ToUndo`): the server looks for it in
both tables (`server.py:421-425`), so a reservation that an earlier bid left
when the process stopped before the request was recorded is given back too.

**LiveTasks.** A thread that serves a chat or a cheap request keeps its identity
until `execute` has returned and the answer is scored, in a transaction of its
own. The operator registers a task in two transactions, its policy and its
truth, and requests may come in between. A chat looks up the expiry of a repeat
among the holds, which is why its repeats do not meet what `gateway_repeat`
shows of the other requests. Chats go through an adapter that the environment
decides when the process starts (`server.py:508-514`): `configured` is the chats
whose model it has, none without an adapter, and a stop may change that and what
is quoted. A chat that is not configured is refused before any table is looked
at (`live.py:112`, and `control.py:195` with `nim.py:122`), a repeat like a new
one. Resource requests have the constant quotes of `SimulatedAdapter`.

**Admission.** The accepting thread, a thread per admitted connection, the
counters that each writes, and the mutation lock, over every way in which a
connection can end: turned away, not started, refused by origin, token, limit or
body, and a route that returns or raises.

**Engine.** The whole of `step` for one run: planning, approvals, mandatory
review, reservation of execution and verification, bids, clearing, execution,
retries under pressure, verification, traces, checkpoint, expiry, with a crash
possible between any two. The file lock makes it one process. Choices of the
policies, prices and verdicts are open.

**CentralPlan.** The knapsack as the code runs it, one item a step, against
the definition: the best of all choices within budget and capacities.

**SemanticTasks.** A thread receives an action, takes the lock of its case,
reads the view, records the action, plans, executes, answers and closes the
case, or cleans up when it is denied. Recorded actions without a result block
the case until they are repeated. Meanwhile the agent may cancel what it has
reserved, and the operator may suspend it, and settle or release as not charged
what was dispatched, whether a thread is on it or not: the thread then finds its
own transition refused and ends without an answer (`DoubtHold`, `SettleHold`),
or answers from the row that it read before the decision (`ReadOutcome`,
`Finish`). An answer "unresolved" is stored for ever, so the operator's
settlement makes it untrue; `AnswersMatchHolds` says that nothing else does.
The adapter of `infer` may be gone after a restart (`Withdrawable`).

**Conformance.** A scenario of the benchmark is a script of commands to one
worker of `ControlPlane`: attempts with an injected fault, repeats, deaths of the
worker before and after the receipt is stored, reconciliation from the
provider's journal, calls of the ledger. `rows` is that journal. The race of two
agents under one root and a trial of the cost-of-safety study (an attempt a tick,
losses reconciled after a delay) are machines of their own. `AsTested` is what
the tests assert of each scenario's end. The naive gateway, a control without a
kernel under it, is left out: `tests/test_failure_conformance.py:44` asserts that
it overspends, which holds only when its two threads overlap.

**Study, Reporting.** The dynamic programs of the forecast and of the oracle go
round by round; then one allocator, or one policy with its reports, plays the
same cases, one step of a loop at a time. Where the code sorts, so does the
model (`InOrder`); of choices that tie any may be taken. Noise may flip any report.

**Billing.** A quote with a price for each dimension, and one `reconcile`.

### Abstractions

- Hashes, fingerprints and quotes are the values they identify. Parameters,
  text, units of display and logging are left out; validation of arguments
  refuses a call before anything is written.
- `prepare`'s two transactions are one action in `Engine` and `SemanticTasks`,
  where nothing looks at the request between them; `ControlPlane` and `Gateway`
  keep them apart.
- In `SemanticTasks` there is one agent; `check` also stands for `fetch` and
  `abstain` for `escalate`; only `infer` may stay unanswered.
- `Gateway` has the requests that need no market allocation; those that do are
  in `BidRoutes`.
- In `Conformance` the registration of tasks is left out, and a call of the ledger
  that it refuses does nothing; in a trial any attempt may lose its answer.
- Keys of `endow` and of `transfer` never collide.

## 3. The runs

| run | what it asks | bounds |
|---|---|---|
| `ledger` | sums, funding, journal and freeze, and that the ledger implements `SpendingAuthority` | 3 accounts in any forest, 2 holds of 2, fundings 3 (room for one) and 4 (for both), actuals 1 (below the bound) and 7 (a breach), `MAX_AMOUNT` 7, so that limbs carry |
| `market` | credits are conserved, escrow backs every open bid, allocations within capacity, credits follow authority | 2 agents, 2 bids for one place, one deadline |
| `control` | one effect per request, no effect without liability, no charge without evidence, payments reviewed at the quote they run at | one request, two workers on it, stops at any point |
| `gateway` | with two threads and a restart: that receipts settle and reservations end | one request, clock to 2, time to live 1 |
| `gateway_repeat` | (violated) a repeat asks for the same reservation | as `gateway`, one thread |
| `gateway_payment` | (violated) receipts of payments settle | one payment and its approval |
| `engine` | traces agree with holds, one tick per execution, capacity, closure, and that a run without the interrupted denial finishes | 2 tasks, one mandatory, 3 ticks, budget 60 (some requests are denied), auction, outage with retries, one crash |
| `engine_recovery` | (violated) every run finishes | as `engine` |
| `semantic` | each case is what its recorded actions made it, answers agree with holds, leftovers, consultations | 2 cases, 2 request ids, 2 threads, one crash, one decision of the operator on an execution; threads are alike |
| `serving` | admission: that counters match the connections and keep the limits, and that places come back; semantic tasks: that every recorded action is answered | 3 connections for 2 places, 2 agents with one place each; one case, 2 request ids, 2 threads, one crash, one decision of the operator |
| `bids` | every route ends whole, a bid pays its fee, a standing bid keeps its reservation; escrow comes back and executions are paid; apart from them, as long as its adapter is in place, a chat that was reserved is recorded, and a stored answer of a registered task is scored, in the end | one agent, one premium request, one bid at price 1 or 2, one auction, one restart; or a chat quoted 1 or 2 with an adapter or none, or a resource request, and two restarts; authority for one, clock to 1 |
| `offline` | four programs that share nothing: the central plan is exact and affordable; no play of a study spends what it has not, and none beats the oracle; every modelled scenario of the benchmark ends as its tests say and no exposure is unaccounted; bills are covered | plans of 3 items, headroom 37 (not enough for all); 2 rounds, each any of 4 batches, 2 tariffs, budgets 5 (the second round cannot be planned), 40 (choices compete) and 110; every scenario, trials of 6 ticks and 5 more; 2 dimensions with whole and fractional prices |

Two of each is where the interleavings are: two holds under one parent, two
bids for a place, two workers on a request. A third account lets two siblings
share a parent. The third item of a plan is what lets one choice replace
another of the same use. What a larger instance would add for the ledger is
covered by the proofs.

Deadlock is not checked where a model may come to rest: all holds final, the
run finished, the clock at its horizon. In the ledger nothing is ever finished,
because `set_lifecycle` can always be called.

**Fairness.** `gateway`: threads that run are scheduled (weak fairness of each
thread), a client repeats a request that has no final answer, other requests
keep coming (each sweeps), and time passes. Nothing is assumed of providers,
operators or reviewers; a silent provider leaves a request unresolved for
ever, and the properties allow for it. `engine`: `complete` calls `step`
until the run is finished (weak fairness of a step; crashes are bounded).
`serving`: in admission, threads are
scheduled and routes end; nothing is assumed of the order in which the lock is
granted, which is enough because connections are finitely many. In the semantic
part threads are scheduled, and a client keeps repeating an
action it has no answer to; this is strong fairness, because the repetition
is not possible while the case's lock is held. `bids`: the thread that has
the lock runs on, the clock moves, other requests keep coming, and a client
repeats its execution under the same identity; this too is strong fairness,
because it needs the lock. That a cleared bid is paid after a stop depends on
this repetition: no sweep of the program does it. For chats and the
resource requests beside them, threads run on and a client repeats its request,
as it was, under the same key; strong fairness again, because the program makes
a thread for every connection where the model has one, which another client may
occupy. Nothing brings an adapter
back, so `AnswersAreScored` promises nothing of a chat that is no longer
accepted: a process that was restarted without the adapter, or with another
model, refuses every repeat before it looks at a stored receipt, which stays
unsettled, as in 2 below.

### What the violated runs show

1. `gateway_repeat`: `prepare` commits the hold before it records the request
   (`control.py:217-224`), and the server finds the expiry of an earlier attempt
   through both (`server.py:421-425`). A repeat that comes in between, or after a
   stop in between, gets `IdempotencyConflict` for the identical request.
   `docs/INTEGRATION.md:20`: "The request ID is the idempotency key."
2. `gateway_payment`: a repeat goes through `prepare` first, which asks for a
   live approval (`control.py:204-216`). When it expired after the execution, a
   stored receipt is not settled by any repeat. `docs/ARCHITECTURE.md:75`:
   "Persisted receipts settle on restart without provider access".
3. `engine_recovery`: a crash after a denied task's hold was released
   (`engine.py:245-247`) and before its trace was saved (`engine.py:255`) makes
   every later step end in a `TypeError` at `engine.py:290`. The same sequence
   shows in the program itself. `docs/EXPERIMENTS.md:59`: "restart resumes the
   same experiment without automatically replaying ambiguous effects".

One exception is written into a property that holds. The fee of a bid is a
request of its own, `<id>/bid-fee` (`server.py:437`), which its agent may cancel
like any other; after a stop between the fee's `prepare` and its `execute` a
cancelled fee stays unpaid, and the repeated bid is admitted all the same
(`execute` returns a released hold as it is). `BidsPayTheirFee` says that this
is the only way to bid without the fee.

## 4. The proofs

`LedgerProofs` proves, for every forest of accounts, every finite set of holds,
all amounts and any `MAX_AMOUNT`, four properties that `ledger` checks:
`TypeOK`, `Consistent`, `OverrunIsBreach` and `NoWorkAfterBreach`. None is
inductive by itself. Their common strengthening

    IInv == TypeOK /\ Linked /\ SettledHasActual /\ ReservedFunded
              /\ Consistent /\ OverrunIsBreach /\ BreachFreezes

adds that parent links lead to accounts and never change (`Linked`), that
exactly settled holds have an actual, that holds were funded when they were made,
and that a breach below an account leaves it frozen. The argument: no action
changes a parent link, so chains are stable (`ChainStable`) and an account
that is added is in nobody's chain but its own (`ChainGrow`); each action
changes one hold, or releases a set of them, and the columns along the chain
by the same amount, so that the sums of `TotalsTheorems` carry `Consistent`
over; a reservation is admitted where it fits, and a settlement within its bound
frees at least what it spends. The limbs are one lemma of division (`Limbs`).
TLC checks three of the parts as properties of `ledger`.

It also proves `KernelImplementsAuthority`: `Spec => ImplementsAuthority`
for the mapping of `LedgerAuthority`. It uses `IInv`: `Consistent` makes the
guard on columns the guard on sums of the abstract specification, and
`BreachFreezes` makes an active chain one that is not stopped. Each
action maps to one abstract action or to a stutter.

`JournalExplainsHolds` adds the journal: one history per state of a hold, carried
from each action to the next with `IInv`.

`MarketProofs` proves the four properties of `market` for any number of owners,
bids and auctions, with the kernel's own operations interleaved, from

    MInv == IInv /\ MarketTypeOK /\ JournalTyped /\ Balanced /\ EscrowBacksBid
              /\ BidsBacked /\ CreditsFollowAuthority /\ ClaimsAwarded /\ AwardsFit

`Balanced` says that a wallet is what came in less what went out, `BidsBacked`
that a bid is backed by a premium reservation of its own; `ClaimsAwarded` is what
makes a refund safe: a premium reservation that was ever claimed won its auction,
so the reservations a refund releases were never claimed. `AwardsFit` counts the
winners, of an open auction none. Conservation follows from `Balanced` because
the sum of what came in over all wallets is what was issued and moved, and what
went out is what was moved (`TotalPartition`: a set of moves splits by wallet).
`ExecutionsWereAwarded` states `ClaimsAwarded` itself; `MarketJournalExplains`
is the journal's theorem when refunds release holds too.

`ControlProofs` proves the four properties of `control` for any number of
workers, requests and restarts, from an invariant `CInv` whose heart is
`Knowledge`: what a worker between two of its transactions may still rely on,
although the tables moved under it. A worker about to insert the request has the
hold it reserved, with the same account, request and bound; one about to
dispatch has the request as recorded; one that records an answer has it from the
provider's journal; one that settles, from the receipt. This stays true because
the tables only gain rows, a row keeps the columns that were compared, and a
claimed hold is never reserved again (`Grows`). `SendsAlone` is why a request
is sent once: a worker at its send is the only one, and nothing was sent
before, because only one of the workers that find a hold reserved dispatches it.
The theorems are about `ControlSpec`: the run's steps together with
`RestOfProgram`, the operations that the rest of the program runs on the same
tables meanwhile (accounts opened, holds made directly on the ledger, every
operation of the market), from empty tables. The run has provisioned tables
instead, to be small.

`AdmissionProofs` proves `CountersMatch` for any number of connections and agents
and any limits. Every step moves one connection, so a counter follows if it
moves by what that one connection adds to the set it counts (`OneConnection`);
beside the counters, the invariant says between which steps a request is counted
for its agent (`Routed`) and that the mutation that runs has the lock (`Locked`).

`SemanticProofs` proves the four properties of `semantic` for any number of cases,
requests, threads and crashes, any budget, deadline and capacity. The rows of the
kernel are left to the theorems about `Ledger`, of whose actions every step
takes one or none; a hold moves as `Moves` says. What remains,

    SInv == L!IInv /\ TablesOK /\ CasesOK /\ WorkersOK /\ HoldsOK /\ ReceiptsOK
              /\ AnswersOK /\ ReservedIsOwed /\ UnitsOK

is an argument about one action of a case at a time. `WorkersOK` says that two
threads are never on the same case, and what a thread knows of its action at
each step (`WorkerOK`); another thread moves nothing of it (`Elsewhere`). A
cancellation turns a reservation into a release, on which nothing that a thread
knows depends. The operator may settle or release what the thread has
dispatched, so what a thread knows of a hold it is paying is that it is still
open or that the operator has decided it (`Open`), and what it knows of one that
it will answer as unresolved is what such an answer still means (`Unconfirmed`).
`AnswersOK` says of the stored answers what states of holds say;
`AnswersMatchHolds` follows from it together with a second invariant, that every
settled hold was settled for what its receipt says, or by the operator
(`ChargesOK`). `CasesOK` ties an open case to having
no concluding answer, so that the one action it waits for may close it;
`ReservedIsOwed` lists who still gives a reservation of an answered action back.
`ConsultationsCounted` alone is not inductive, because a unit is taken before
its receipt is stored: `UnitsOK` bounds the units that are gone by the paid
consultations and those a thread is about to pay (`Taking`) from below, and by the
paid and the uncertain ones, less those that may still turn out to take none
(`Waiting`), from above. TLC checked `SInv` on the instance of `semantic` before
it was proved.

`EngineProofs` proves `TracesMatchHolds`, `ExecutedAtOneTick` and `ScarcityHolds` for any number of
cases, agents, ticks and crashes, any budget, capacities and prices, either
scheduler. The first two follow from

    EInv == M!IInv /\ World /\ ProcOK

The rows of the kernel are left to the theorems about `Ledger` and `Market`, of
whose actions every step takes one or none. `World` is about the tables alone, so
that it survives a crash; its heart is `PairOK`, what the states of an execution
and its verification at one tick say of each other, wherever a step was
interrupted: a verification is begun only when the execution is settled, it is
given back only with it or when its outcome is uncertain, and neither is open when
the tick is over. `ProcOK` says where the step is and what it knows there: what
the current task's holds can be at each place (`TaskOK`), and that each task of
the plan that was looked at has a trace of this tick or is still a candidate, which
is why no execution is left open when the tick ends. `ExecutedAtOneTick` follows
because an execution begun in an earlier tick has a trace that does not wait
(`TracesOK`), and a task with such a trace is in no later plan. Between two
transactions nothing is known that a repetition of the step would not find in the
tables again: this is what the proof of `Crash`, a stop with all tables unchanged,
amounts to. TLC checked `EInv` on the instance of `engine` and on variants of it,
with other schedulers, mandatory cases and capacities, before it was proved.

`ScarcityHolds` needs two more invariants on top of it, `ScarceInv` and
`AuctionInv`, because what the step counts with is in memory and lost when it is
interrupted. After `Open` the counters are read from the traces again, and an
execution that was begun and has no trace yet is not in them. There is at most
one, and every task before it in the plan has its trace (`FrontOK`), because
candidates are taken in the order of the plan (`InOrder`); it is the first
candidate of the pass that repeats the step, it takes its unit before anything
else does, and its claim begins nothing a second time (`ClaimFacts`). So at each
place of a pass what is left, what the traces count and the unit of the task
that executes are together no more than the capacity (`CountersOK`). A unit
given back, when a hold was released, was never used (`Holding`). Reviews are
counted in the table of approvals each time, so an interruption cannot lose any (`ReviewsOK`).
Under the auction nothing counts premium work: an execution that was begun has
an awarded bid of its own (`AwardsOK`, `BidNames`), an auction awards no more bids
than it has units when it is cleared, by the lemma `FirstBids` that `MarketProofs`
also uses, and an award is afterwards only ever taken back (`AuctionsFit`).

`OfflineProofs` proves what the programs that run off line promise.

`PlanIsAlwaysExact`, `CentralSpec => []PlanIsExact`, for any number of items, any
estimates, headroom and capacities. The invariant `PlanInv` says of the states
between two items: each is a choice among the items before, with the use under
which it is filed and within the limits (`Kept`); and whatever choice of them is
within the limits, a state of the same use is worth at least as much (`Covers`).
A choice that includes the next item is one without it and an option (`ChoiceSplits`),
and what fits with it fits without it (`AddingUses`), so no choice is lost when the
states are extended; the best of what is reached with a use is kept (`BestIsBest`).

`PlaysAreAlwaysFunded`, `StudiesSpec => []PlaysAreFunded`, for any number of rounds,
any budget, tariff, capacities and cases, where `StudiesSpec` is `study.py` and
`reporting_study.py` together. `StudiesInv` adds to the types of a play what is true
of its round at each place (`PlayPhased`): nobody is served before the round decides,
what is served so far is feasible, and queues hold persons who may be reviewed. A
round spends as it serves, or serves and pays at its end, so a round that decides has
paid for its choices and gets their bill back before the assertion (`FillEnds`).

`OracleIsAlwaysBound`, `StudiesSpec => []OracleIsBound`, rests on that invariant and on
courses: what may have been spent and earned, round after round, by some bundle in
each. The oracle's states bound every course within the budget (`FrontierInv`), one
round more at each of its steps; and what a play has spent and earned is always such
a course, with what it has set aside in its round and what remains within the budget
(`CourseInv`). Fees and reports only make a play poorer than its course; a play
that cannot plan any more goes on as a course that serves nobody (`CourseRests`).

`BillsAreCovered`, `BillingSpec => []BillIsCovered`, for any finite set of dimensions
and any prices: `Charge` is the least whole number of units that covers the exact
price and grows with the usage, so that usage within the maxima costs at most the
bound, dimension by dimension and, by the lemmas of `TotalsTheorems`, in total. The
invariant is that what was billed is what the operators compute for usage of the
quote's own dimensions.

Assumed, and nothing else: amounts are natural numbers up to `MAX_AMOUNT`, bounds
and prices are positive, the sets of holds, owners, bids and semantic requests
and of connections are finite, `None` is no identifier and no amount, lifecycles
are the three of the code. For the market, every account has a wallet, and the
escrow wallet of a bid, whose name the code builds from the bid's identifier, is
the wallet of no account and not the operator's. For the control plane, a charge
may be nothing (`0 \in Charges`): a receipt without a charge is one the code
stores. For the semantic tasks, the agent's funding and the cost of a
consultation are amounts. For the engine, budget, capacity, prices, costs and
expiries are amounts, a case that arrives late does so before its deadline, and no
name of an account, a wallet or a hold is that of another or `None`. For the central
plan, items are the positions of the plan, counted from one. For the studies,
what `StudyConfig.validate` asks: at least one round, qualities and reliability in
percent, amounts that are not negative; and, as in both tariffs, deferring is free.
TLC evaluates these in every run that uses the module.

Model-checked only: `Gateway`, `BidRoutes`, `LiveTasks` and `Conformance`, of
`Engine` the property `FinishedRunIsClosed`, and all liveness, which is beyond the
prover as is `ENABLED`. The library's theorems of induction take an operator as a
parameter, which the provers here cannot be given; so a sum or a greatest element
of a finite set, wherever it is computed by a fold, is shown to be what it should
by a smallest counterexample among subsets (`FoldUnique`, `Unbeaten`). What the
forecast of the studies expects of later rounds is in none of the theorems: they hold
whatever it says.

## 5. Not modelled

Parsing, validation, authentication and routing; canonical JSON and hashing;
the HTTP transport to providers; what a score of an answer says; prompts and JSON
schemas; generators of workloads; the operator's creation of agents, tasks and
runs; statistics, reports and measurements over finished runs; the command
line and the browser views. `PROJECT.json` gives the reason for each.

SQLite is taken at its word: a committed transaction is durable and atomic.

## 6. Plan

Done, checked and proved: the ledger with its refinement, the market, the control
plane, admission, the semantic tasks, the engine, the central allocator, the two
studies, billing. Done and checked: the gateway with its market routes and its chats,
the conformance benchmark.

Next to prove, in this order:

1. That the `Gateway`'s steps are steps of `ControlSpec`, which carries
   the theorems of `ControlProofs` to every route.
2. `FinishedRunIsClosed` of `Engine`, on `EInv`.
