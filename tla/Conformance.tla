----------------------------- MODULE Conformance -----------------------------
(***************************************************************************)
(* The failure-conformance benchmark, aecp/failure_conformance.py: it      *)
(* drives prepare and execute of ControlPlane against a provider that is a *)
(* process of its own and keeps its own journal, loses answers, kills the  *)
(* worker at two points, and compares at the end what the provider charged *)
(* with what the gateway accounts for.  A scenario is a script of commands *)
(* to one worker; the race of two agents under one root and the trials of  *)
(* the cost-of-safety study are machines of their own.  Work directories,  *)
(* processes, the reports, and the naive gateway that the benchmark compares*)
(* with, which has no kernel under it, are left out.                       *)
(***************************************************************************)
EXTENDS ControlPlane

CONSTANTS
  Runner,          \* the worker
  Root, Agent,     \* the accounts of AecpGateway
  Other,           \* "unaffected", and the second agent under the root
  Job, ChangedJob, \* a request, and the same with other parameters
  Tasks,           \* the ids of attempts, in order
  Ticks,           \* of a trial, 12 in the code
  TrialBudgets,
  Delays           \* ticks until a loss is reconciled, None for never

ASSUME ConformanceAssumption ==
  /\ Runner \in Workers
  /\ {Root, Agent, Other} \subseteq AccountIds
  /\ {Job, ChangedJob} \subseteq Requests
  /\ Ticks \in Nat
  /\ Tasks \in Seq(HoldIds) /\ Len(Tasks) >= 3 /\ Len(Tasks) >= Ticks
  /\ Delays \subseteq Nat \cup {None}

VARIABLES
  rows,  \* executions, the provider's table
  bench  \* where the benchmark is

benchVars == <<controlVars, rows, bench>>

BOUND == 4

job     == workers[Runner]
Idling  == job.pc = "idle"
Elsewhere == UNCHANGED <<rows, bench>>
NoControl == UNCHANGED controlVars

-----------------------------------------------------------------------------
(* The scripts.  A command stands for one call and says how the provider    *)
(* and the worker fail in it.                                               *)
Command(do, id) ==
  [do |-> do, id |-> id, charge |-> 3, fault |-> "none", correlation |-> id, idempotent |-> FALSE, dies |-> "never"]

Lost(id)       == [Command("attempt", id) EXCEPT !.fault = "drop_after_execute"]
Unexecuted(id) == [Command("attempt", id) EXCEPT !.fault = "no_execute_drop"]

Scripts ==
  LET t1 == Tasks[1]  t2 == Tasks[2]  t3 == Tasks[3]
      Said(id, idempotent) == [Command("call", id) EXCEPT !.correlation = "same", !.idempotent = idempotent]
  IN [normal         |-> <<Command("attempt", t1)>>,
      identity       |-> <<Command("attempt", t1), Command("again", t1), Command("change", t1)>>,
      idempotent     |-> <<Said(t1, TRUE), Said(t2, TRUE)>>,
      repeating      |-> <<Said(t1, FALSE), Said(t2, FALSE)>>,
      lost           |-> <<Lost(t1)>>,
      response_death |-> <<[Command("attempt", t1) EXCEPT !.dies = "answered"], Command("again", t1)>>,
      receipt_death  |-> <<[Command("attempt", t1) EXCEPT !.dies = "recorded"], Command("again", t1)>>,
      retry          |-> <<Lost(t1), Lost(t2), Command("attempt", t3), Command("expire", t1), Command("cancel", t1)>>,
      reconciliation |-> <<Lost(t1), Command("reconcile", t1), Unexecuted(t2), Command("reconcile", t2)>>,
      breach         |-> <<[Command("attempt", t1) EXCEPT !.charge = 7], Command("reserve", t2),
                           Command("dispatch", t2), Command("settle", t2)>>]

Funding == [normal |-> 12, identity |-> 12, idempotent |-> 0, repeating |-> 0, lost |-> 8, response_death |-> 8,
            receipt_death |-> 8, retry |-> 8, reconciliation |-> 8, breach |-> 12, concurrent |-> 4, reject_all |-> 4]

(* create_account of a root and an agent with the same budget. *)
Opened(funded, parent) ==
  [unit |-> CHOOSE u \in Units : TRUE, funded |-> funded, spent |-> 0, spent_high |-> 0, reserved |-> 0,
   status |-> "ACTIVE", lifecycle |-> "ACTIVE", parent |-> parent]

OpenAccounts(budget, others) ==
  accounts = [a \in {Root, Agent, Other} |->
                CASE a = Root  -> Opened(budget, None)
                  [] a = Agent -> Opened(budget, Root)
                  [] a = Other -> Opened(4, others)]

-----------------------------------------------------------------------------
(* The provider.  In idempotent mode an operation (a correlation id) is     *)
(* executed once, whatever attempt it comes with.                           *)
Executes(m) ==
  /\ m.fault # "no_execute_drop"
  /\ ~ (m.idempotent /\ \E i \in DOMAIN rows : rows[i].correlation = m.correlation /\ rows[i].executed)

Journaled(m) ==
  rows' = Append(rows, [attempt |-> m.id, correlation |-> m.correlation, executed |-> Executes(m),
                        charge |-> IF Executes(m) THEN m.charge ELSE 0, delivered |-> m.fault = "none"])

(* ProviderProcess.call from the adapter: the provider commits its row; the *)
(* answer arrives, or the connection ends without one.                      *)
Serve ==
  /\ Provide(bench.command.id, Executes(bench.command), IF Executes(bench.command) THEN bench.command.charge ELSE 0)
  /\ Journaled(bench.command)
  /\ UNCHANGED bench

Arrives ==
  /\ job.pc = "wait" /\ journal[job.id] # <<>>
  /\ IF Last(rows).delivered THEN bench.command.dies # "answered" /\ Answered(Runner) ELSE Failed(Runner)
  /\ Elsewhere

(* os._exit(73) with the answer at hand; os._exit(74) in place of settle.   *)
Dies ==
  /\ \/ bench.command.dies = "answered" /\ job.pc = "wait" /\ journal[job.id] # <<>>
     \/ bench.command.dies = "recorded" /\ job.pc = "settle"
  /\ workers' = [workers EXCEPT ![Runner] = Idle]
  /\ UNCHANGED <<marketVars, quotes, controlTables, outside>>
  /\ Elsewhere

Runs ==
  /\ job.pc \notin {"idle", "wait"}
  /\ ~ (bench.command.dies = "recorded" /\ job.pc = "settle")
  /\ WorkerStep(Runner)
  /\ Elsewhere

-----------------------------------------------------------------------------
(* The next command of the script. *)
Enter(m, request) ==
  \/ m.do \in {"attempt", "change"} /\ Call(Runner, m.id, Agent, request, 0, None, FALSE, FALSE)
  \/ m.do = "again" /\ Resume(Runner, m.id, Agent, 0, FALSE, FALSE)

(* What is called on the ledger itself; a call that it refuses does nothing. *)
OnLedger(m) ==
  CASE m.do = "reserve"  -> Reserve(Other, m.id, BOUND, Job, None)
    [] m.do = "dispatch" -> Dispatch(m.id, 0)
    [] m.do = "settle"   -> Settle(m.id, m.charge)
    [] m.do = "cancel"   -> IF Releasable(m.id, FALSE) THEN Release(m.id) ELSE UNCHANGED <<accounts, holds, events>>
    [] m.do = "expire"   -> Expire(MAX_AMOUNT, None) \/ (Expiring(MAX_AMOUNT, None) = {} /\ UNCHANGED <<accounts, holds, events>>)

NextCommand ==
  /\ Idling /\ bench.script # <<>>
  /\ LET m == Head(bench.script) IN
       /\ bench' = [bench EXCEPT !.script = Tail(@), !.command = m]
       /\ \/ Enter(m, IF m.do = "change" THEN ChangedJob ELSE Job) /\ UNCHANGED rows
          \/ m.do = "call" /\ Journaled(m) /\ NoControl
          \/ m.do = "reconcile" /\ ReconcileEvidence(m.id) /\ UNCHANGED rows
          \/ /\ m.do \in {"reserve", "dispatch", "settle", "cancel", "expire"}
             /\ OnLedger(m)
             /\ UNCHANGED <<marketTables, quotes, controlTables, outside, workers, rows>>

-----------------------------------------------------------------------------
(* Two threads reserve for two agents under a root that has room for one.   *)
Contend ==
  /\ bench.scenario = "concurrent"
  /\ \E a \in bench.contenders :
       /\ bench' = [bench EXCEPT !.contenders = @ \ {a}]
       /\ LET h == IF a = Agent THEN Tasks[1] ELSE Tasks[2] IN
            IF Fits(a, BOUND) THEN Reserve(a, h, BOUND, Job, None) ELSE UNCHANGED <<accounts, holds, events>>
  /\ UNCHANGED <<marketTables, quotes, controlTables, outside, workers, rows>>

-----------------------------------------------------------------------------
(* _study_trial: one attempt per tick, whose answer may be lost; a loss is  *)
(* reconciled after the strategy's delay.  Five ticks follow the attempts.  *)
(* Mutant: only three do.                                                   *)
TrailingFew == 3
Trailing == 5

(* Attempts are numbered by their tick. *)
Overdue == {k \in bench.pending : bench.delay # None /\ bench.tick - k >= bench.delay}
TaskOf(k) == Tasks[k + 1]

Playing == bench.scenario = "trial" /\ Idling /\ bench.tick < Ticks + Trailing

TrialReconcile ==
  /\ Playing /\ ~ bench.asked
  /\ \E k \in Overdue : /\ ReconcileEvidence(TaskOf(k))
                        /\ bench' = [bench EXCEPT !.pending = @ \ {k}, !.reconciled = @ + 1]
  /\ UNCHANGED rows

TrialAttempt ==
  /\ Playing /\ ~ bench.asked /\ Overdue = {} /\ bench.tick < Ticks
  /\ \E m \in {Command("attempt", TaskOf(bench.tick)), Lost(TaskOf(bench.tick))} :
       Enter(m, Job) /\ bench' = [bench EXCEPT !.asked = TRUE, !.command = m]
  /\ UNCHANGED rows

Outcome ==
  IF job.answer = "refused" THEN "denied"
  ELSE IF holds[TaskOf(bench.tick)].state = "SETTLED" THEN "completed" ELSE "lost"

TrialTick ==
  /\ Playing /\ Overdue = {}
  /\ bench.asked \/ bench.tick >= Ticks
  /\ bench' = [bench EXCEPT !.tick = @ + 1, !.asked = FALSE,
                            !.held = @ + accounts[Agent].reserved,
                            !.completed = IF bench.asked /\ Outcome = "completed" THEN @ + 1 ELSE @,
                            !.denied    = IF bench.asked /\ Outcome = "denied" THEN @ + 1 ELSE @,
                            !.pending   = IF bench.asked /\ Outcome = "lost" THEN @ \cup {bench.tick} ELSE @]
  /\ NoControl /\ UNCHANGED rows

-----------------------------------------------------------------------------
Fresh(scenario) ==
  [scenario |-> scenario, script |-> IF scenario \in DOMAIN Scripts THEN Scripts[scenario] ELSE <<>>,
   command |-> Command("none", None),
   contenders |-> IF scenario = "concurrent" THEN {Agent, Other} ELSE {},
   delay |-> None, tick |-> 0, asked |-> FALSE, pending |-> {}, completed |-> 0, denied |-> 0, reconciled |-> 0, held |-> 0]

Vacant ==
  /\ holds = [h \in {} |-> {}] /\ events = [h \in HoldIds |-> <<>>]
  /\ wallets = [w \in Wallets |-> 0]
  /\ moves = [k \in {} |-> {}] /\ auctions = [x \in {} |-> {}] /\ bids = [b \in {} |-> {}]
  /\ quotes = [q \in Requests |-> BOUND]
  /\ requests = [i \in {} |-> {}] /\ receipts = [i \in {} |-> {}] /\ approvals = [p \in {} |-> {}]
  /\ journal = [i \in HoldIds |-> <<>>] /\ inflight = {}
  /\ workers = [w \in Workers |-> Idle]
  /\ rows = <<>>

ConformanceInit ==
  /\ Vacant
  /\ \/ \E scenario \in DOMAIN Funding :
          /\ OpenAccounts(Funding[scenario], IF scenario = "concurrent" THEN Root ELSE None)
          /\ bench = Fresh(scenario)
     \/ \E budget \in TrialBudgets, delay \in Delays :
          /\ OpenAccounts(budget, None)
          /\ bench = [Fresh("trial") EXCEPT !.delay = delay]

ConformanceNext ==
  \/ Serve \/ Arrives \/ Dies \/ Runs \/ NextCommand
  \/ Contend \/ TrialReconcile \/ TrialAttempt \/ TrialTick

-----------------------------------------------------------------------------
(* The benchmark's own verdicts (tests/test_failure_conformance.py), in     *)
(* every interleaving: how each scenario must have ended.  The trials have  *)
(* accounted for all the work that was offered; a strategy that reconciles  *)
(* leaves nothing uncertain behind, and pays for what was executed.         *)
State(id)   == IF id \in DOMAIN holds THEN holds[id].state ELSE "absent"
Performed   == Cardinality({i \in DOMAIN rows : rows[i].executed})

AsTested(scenario) ==
  LET t1 == State(Tasks[1])  t2 == State(Tasks[2])  t3 == State(Tasks[3]) IN
  CASE scenario = "normal"         -> t1 = "SETTLED"
    [] scenario = "identity"       -> t1 = "SETTLED" /\ Performed = 1 /\ job.answer = "conflict"
    [] scenario = "idempotent"     -> Performed = 1
    [] scenario = "repeating"      -> Performed = 2
    [] scenario = "lost"           -> t1 = "UNRESOLVED" /\ Performed = 1
    [] scenario = "response_death" -> t1 = "UNRESOLVED" /\ Performed = 1
    [] scenario = "receipt_death"  -> t1 = "SETTLED" /\ Performed = 1
    [] scenario = "retry"          -> t1 = "UNRESOLVED" /\ t2 = "UNRESOLVED" /\ t3 = "absent"
    [] scenario = "reconciliation" -> t1 = "SETTLED" /\ t2 = "RELEASED"
    [] scenario = "breach"         -> t1 = "SETTLED" /\ accounts[Agent].spent = 7 /\ accounts[Agent].status = "FROZEN" /\ t2 = "SETTLED"
    [] scenario = "concurrent"     -> {t1, t2} = {"RESERVED", "absent"}
    [] scenario = "reject_all"     -> Performed = 0
    [] scenario = "trial"          ->
         /\ bench.completed + bench.denied + bench.reconciled + Cardinality(bench.pending) = Ticks
         /\ bench.delay # None => bench.pending = {}
         /\ accounts[Agent].spent = 3 * (bench.completed + bench.reconciled)
         /\ accounts[Agent].reserved = BOUND * Cardinality(bench.pending)

Ended(scenario) ==
  /\ Idling /\ bench.script = <<>> /\ bench.contenders = {}
  /\ scenario = "trial" => bench.tick = Ticks + Trailing

ScenariosEndAsTested == Ended(bench.scenario) => AsTested(bench.scenario)

(* "unaccounted_or_prematurely_released_exposure" is none, and not only     *)
(* when the report is made: whatever the provider has executed within its   *)
(* bound is at that moment covered by what the agent has spent and reserved.*)
Covered == {i \in DOMAIN rows : rows[i].attempt \in DOMAIN holds /\ rows[i].charge <= holds[rows[i].attempt].bound}

ExposureAccounted ==
  FoldFunction(+, 0, [i \in Covered |-> rows[i].charge]) <= accounts[Agent].spent + accounts[Agent].reserved
=============================================================================
