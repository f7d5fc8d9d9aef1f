--------------------------- MODULE SemanticTasks ----------------------------
(***************************************************************************)
(* The semantic tasks, aecp/semantic.py: an agent works on a case through  *)
(* actions, each of which is recorded before it is paid for, planned,      *)
(* executed and answered, one transaction after the other.  Threads of the *)
(* server run the actions of different cases at once; a lock per case keeps*)
(* the actions of one case apart.  The process may stop anywhere, and the  *)
(* client repeats an action it has no answer to under the same request id. *)
(*                                                                         *)
(* A hold is named after its action and what it pays for.  The view of the *)
(* case that an action is decided on is read before the transaction that   *)
(* records it.  prepare's two transactions are one action, as in Engine.   *)
(* check stands for fetch too, and abstain for escalate: the two differ in *)
(* what they return.  Only the adapter of infer can fail to answer, or be  *)
(* gone or changed at a restart.  A case is only evaluated after the fact, *)
(* so what was concluded is open.  The operator may decide a hold that was *)
(* dispatched at any time, also under the thread that dispatched it.       *)
(***************************************************************************)
EXTENDS Integers, FiniteSets, SequencesExt

CONSTANTS
  None,
  MAX_AMOUNT,
  Agent,
  Funded,          \* the agent's budget
  CASES,           \* the cases of its corpus
  MandatoryReview, \* the cases that are released only with an approval
  StateAware,      \* the cases of workload v3, whose actions are restricted by their view
  RequestIds,      \* the names clients give to their actions
  Workers,         \* threads of the server
  DEADLINE_STEPS,  \* actions a case admits
  CONSULTATIONS,   \* consultations the agent has: 2 or 6 in the code
  MaxCrashes

Actions  == {"check", "infer", "consult", "finalize", "abstain"}
Terminal == {"finalize", "abstain"}
COSTS    == [planning |-> 1, check |-> 3, infer |-> 4, consult |-> 600, finalize |-> 3]
Holds    == RequestIds \X {"planning", "execution"}

ASSUME SemanticAssumption ==
  /\ MandatoryReview \subseteq CASES /\ StateAware \subseteq CASES
  /\ IsFiniteSet(RequestIds)
  /\ {DEADLINE_STEPS, CONSULTATIONS, MaxCrashes} \subseteq Nat
  /\ MAX_AMOUNT \in Nat /\ Funded \in 0 .. MAX_AMOUNT /\ COSTS.consult <= MAX_AMOUNT
  /\ None \notin {Agent} \cup CASES \cup RequestIds
  /\ None \notin Holds /\ None \notin DOMAIN COSTS /\ None \notin 0 .. MAX_AMOUNT

VARIABLES
  accounts, holds, events,
  tasks,       \* semantic_tasks: case -> steps, status
  actions,     \* semantic_actions: request id -> task, action, result
  remaining,   \* semantic_review_capacity
  receipts,    \* hold -> the charge in its stored receipt
  workers,     \* the local state of every thread: lost in a crash
  interrupted, \* history: the actions whose clean-up a crash interrupted
  reconciled,  \* history: the holds that the operator settled or released
  crashes

INSTANCE Ledger WITH
  AccountIds <- {Agent}, HoldIds <- Holds, Units <- {"SIM_COST_MICRO"}, Requests <- DOMAIN COSTS,
  Fundings <- {Funded}, Bounds <- {COSTS[a] : a \in DOMAIN COSTS},
  Charges <- {COSTS[a] : a \in DOMAIN COSTS} \cup {0}, Lifecycles <- {"SUSPENDED"}, Expiries <- {None}, Times <- {0}

kernel       == <<accounts, holds, events>>
cases        == <<tasks, actions, remaining>>
semanticVars == <<kernel, cases, receipts, workers, interrupted, reconciled, crashes>>

Idle == [pc |-> "idle", id |-> None, task |-> None, action |-> None, purpose |-> None,
         open |-> FALSE, offered |-> {}, charge |-> None]

-----------------------------------------------------------------------------
Insert(f, k, value) == [x \in DOMAIN f \cup {k} |-> IF x = k THEN value ELSE f[x]]

Me(w)        == workers[w]
At(w, pc)    == workers[w].pc = pc
Goto(w, pc)  == workers' = [workers EXCEPT ![w].pc = pc]
Ends(w)      == workers' = [workers EXCEPT ![w] = Idle]
PayFor(w, purpose) ==
  workers' = [workers EXCEPT ![w] = [@ EXCEPT !.pc = "prepare", !.purpose = purpose, !.open = FALSE, !.offered = {}]]
Hold(w)      == <<Me(w).id, Me(w).purpose>>
State(h)     == IF h \in DOMAIN holds THEN holds[h].state ELSE "NONE"
CostOf(w)    == IF Me(w).purpose = "planning" THEN "planning" ELSE Me(w).action

Pending(task) == {r \in DOMAIN actions : actions[r].task = task /\ actions[r].result = "none"}
Tried(task, action) == Cardinality({r \in DOMAIN actions : actions[r].task = task /\ actions[r].action = action})

-----------------------------------------------------------------------------
(* An action of the client: a new one, or a repetition.  The lock of the    *)
(* case is held from here until the thread is idle again.                   *)
Free(task) == \A v \in Workers : Me(v).task # task

Receive(w, r, task, action) ==
  /\ At(w, "idle") /\ Free(task)
  /\ workers' = [workers EXCEPT ![w] = [Idle EXCEPT !.pc = "view", !.id = r, !.task = task, !.action = action]]
  /\ UNCHANGED <<kernel, cases, receipts, interrupted, reconciled, crashes>>

(* view and available_actions: what the case admits when the view is read. *)
Available(task) ==
  IF task \notin StateAware
  THEN Actions \ (IF remaining = 0 THEN {"consult"} ELSE {})
  ELSE IF task \in MandatoryReview
       THEN {"abstain"} \cup (IF tasks[task].steps = 0 THEN {"check"} ELSE {})
       ELSE {"abstain", "check", "finalize"}
              \cup (IF Tried(task, "infer") < 2 THEN {"infer"} ELSE {})
              \cup (IF remaining > 0 /\ Tried(task, "consult") < 1 THEN {"consult"} ELSE {})

ReadView(w) ==
  /\ At(w, "view")
  /\ workers' = [workers EXCEPT ![w].pc = "begin",
                   ![w].open = tasks[Me(w).task].status = "OPEN" /\ tasks[Me(w).task].steps < DEADLINE_STEPS,
                   ![w].offered = Available(Me(w).task)]
  /\ UNCHANGED <<kernel, cases, receipts, interrupted, reconciled, crashes>>

(* The transaction that records the action and counts the step, unless the  *)
(* case is closed, waits for another action or does not admit this one.     *)
(* Mutant: an unanswered action does not keep the next one waiting.         *)
AdmitsAnyTime(w) == Me(w).open /\ Me(w).action \in Me(w).offered

Admits(w) == Me(w).open /\ Pending(Me(w).task) = {} /\ Me(w).action \in Me(w).offered


Begin(w) ==
  LET id == Me(w).id
      me == Me(w)
  IN
  /\ At(w, "begin")
  /\ \/ /\ id \notin DOMAIN actions /\ Admits(w)
        /\ actions' = Insert(actions, id, [task |-> me.task, action |-> me.action, result |-> "none"])
        /\ tasks' = [tasks EXCEPT ![me.task].steps = @ + 1]
        /\ PayFor(w, "planning")
     \/ /\ id \notin DOMAIN actions /\ ~ Admits(w)
        /\ Ends(w) /\ UNCHANGED <<tasks, actions>>
     \/ /\ id \in DOMAIN actions
        /\ IF actions[id] = [task |-> me.task, action |-> me.action, result |-> "none"]
             THEN PayFor(w, "planning") ELSE Ends(w)
        /\ UNCHANGED <<tasks, actions>>
  /\ UNCHANGED <<kernel, remaining, receipts, interrupted, reconciled, crashes>>

-----------------------------------------------------------------------------
(* prepare and execute, for the planning and for the execution *)

Done(w) ==
  IF Me(w).purpose = "planning" /\ Me(w).action # "abstain" THEN PayFor(w, "execution") ELSE Goto(w, "finish")

(* The adapter of infer is the environment's: once it is gone, or quotes    *)
(* something else, what was not dispatched is denied.                       *)
Withdrawable(w) == CostOf(w) = "infer"

(* No approval covers the release of a case: there is no way to ask for one. *)
Approved(w) == ~ (Me(w).purpose = "execution" /\ Me(w).action = "finalize" /\ Me(w).task \in MandatoryReview)

Prepare(w) ==
  LET h == Hold(w) IN
  /\ At(w, "prepare")
  /\ \/ /\ Approved(w) /\ h \in DOMAIN holds
        /\ Goto(w, "claim") /\ UNCHANGED kernel
     \/ /\ Approved(w)
        /\ Reserve(Agent, h, COSTS[CostOf(w)], CostOf(w), None)
        /\ Goto(w, "claim")
     \/ /\ \/ ~ Approved(w)
           \/ h \notin DOMAIN holds /\ (Withdrawable(w) \/ ~ (ChainActive(Agent) /\ Fits(Agent, COSTS[CostOf(w)])))
        /\ Goto(w, "deny") /\ UNCHANGED kernel
  /\ UNCHANGED <<cases, receipts, interrupted, reconciled, crashes>>

ClaimHold(w) ==
  LET h == Hold(w) IN
  /\ At(w, "claim")
  /\ \/ State(h) \in {"SETTLED", "RELEASED"} /\ Done(w) /\ UNCHANGED kernel
     \/ State(h) \in {"DISPATCHED", "UNRESOLVED"} /\ h \in DOMAIN receipts /\ Goto(w, "settle") /\ UNCHANGED kernel
     \/ State(h) \in {"DISPATCHED", "UNRESOLVED"} /\ h \notin DOMAIN receipts /\ Goto(w, "doubt") /\ UNCHANGED kernel
     \/ /\ Dispatch(h, 0)
        /\ workers' = [workers EXCEPT ![w].pc = IF CostOf(w) = "consult" THEN "consume" ELSE "record",
                                      ![w].charge = COSTS[CostOf(w)]]
     \/ State(h) = "RESERVED" /\ (Withdrawable(w) \/ ~ ChainActive(Agent)) /\ Goto(w, "deny") /\ UNCHANGED kernel
  /\ UNCHANGED <<cases, receipts, interrupted, reconciled, crashes>>

(* The consultation takes a unit of the agent's capacity, or is confirmed   *)
(* not to have been delivered and costs nothing.                            *)
(* Mutant: an exhausted capacity is noticed only when the view is read.     *)
ConsumeUnseen(w) ==
  /\ At(w, "consume")
  /\ remaining' = IF remaining > 0 THEN remaining - 1 ELSE 0
  /\ workers' = [workers EXCEPT ![w].pc = "record"]
  /\ UNCHANGED <<kernel, tasks, actions, receipts, interrupted, reconciled, crashes>>

Consume(w) ==
  /\ At(w, "consume")
  /\ remaining' = IF remaining > 0 THEN remaining - 1 ELSE remaining
  /\ workers' = [workers EXCEPT ![w].pc = "record", ![w].charge = IF remaining > 0 THEN COSTS.consult ELSE 0]
  /\ UNCHANGED <<kernel, tasks, actions, receipts, interrupted, reconciled, crashes>>

(* mark_unresolved: when the operator has decided the hold meanwhile it     *)
(* raises, and the thread ends without an answer.                           *)
DoubtHold(w) ==
  /\ At(w, "doubt")
  /\ \/ MarkUnresolved(Hold(w)) /\ Done(w)
     \/ State(Hold(w)) = "UNRESOLVED" /\ Done(w) /\ UNCHANGED kernel
     \/ State(Hold(w)) \in {"SETTLED", "RELEASED"} /\ Ends(w) /\ UNCHANGED kernel
  /\ UNCHANGED <<cases, receipts, interrupted, reconciled, crashes>>

(* The adapter answers, and its answer is stored; or it does not answer. *)
RecordReceipt(w) ==
  /\ At(w, "record")
  /\ receipts' = Insert(receipts, Hold(w), Me(w).charge)
  /\ workers' = [workers EXCEPT ![w].pc = "settle", ![w].charge = None]
  /\ UNCHANGED <<kernel, cases, interrupted, reconciled, crashes>>

Silence(w) ==
  /\ At(w, "record") /\ CostOf(w) = "infer"
  /\ workers' = [workers EXCEPT ![w].pc = "doubt", ![w].charge = None]
  /\ UNCHANGED <<kernel, cases, receipts, interrupted, reconciled, crashes>>

(* settle: what the operator decided meanwhile stays; if it is something    *)
(* else than the receipt, the thread ends without an answer.                *)
AsReceipted(h) == State(h) = "SETTLED" /\ holds[h].actual = receipts[h]

SettleHold(w) ==
  LET h == Hold(w) IN
  /\ At(w, "settle")
  /\ \/ Settle(h, receipts[h]) /\ Done(w)
     \/ AsReceipted(h) /\ Done(w) /\ UNCHANGED kernel
     \/ State(h) \in {"SETTLED", "RELEASED"} /\ ~ AsReceipted(h) /\ Ends(w) /\ UNCHANGED kernel
  /\ UNCHANGED <<cases, receipts, interrupted, reconciled, crashes>>

-----------------------------------------------------------------------------
(* The execution is looked at once more, and if it was not settled then the *)
(* answer will be "unresolved" and does not close the case, whatever the    *)
(* operator decides until it is stored.                                     *)
(* Mutant: whatever its execution came to, a terminal action closes it.     *)
ResultUnchecked(w) == "done"

Result(w) ==
  IF Me(w).action = "abstain" \/ State(<<Me(w).id, "execution">>) = "SETTLED" THEN "done" ELSE "unresolved"

ReadOutcome(w) ==
  /\ At(w, "finish")
  /\ Goto(w, Result(w))
  /\ UNCHANGED <<kernel, cases, receipts, interrupted, reconciled, crashes>>

(* The transaction that stores the answer, and with it the case's outcome. *)
Finish(w) ==
  LET result == Me(w).pc IN
  /\ result \in {"done", "unresolved"}
  /\ actions' = [actions EXCEPT ![Me(w).id].result = result]
  /\ tasks' = IF Me(w).action \in Terminal /\ result = "done"
                THEN [tasks EXCEPT ![Me(w).task].status = Me(w).action] ELSE tasks
  /\ Ends(w)
  /\ UNCHANGED <<kernel, remaining, receipts, interrupted, reconciled, crashes>>

(* A denied action is answered first and gives back what it reserved then,  *)
(* its execution before its planning.                                       *)
Deny(w) ==
  /\ At(w, "deny")
  /\ actions' = [actions EXCEPT ![Me(w).id].result = "denied"]
  /\ workers' = [workers EXCEPT ![w].pc = "giveback", ![w].purpose = "execution"]
  /\ UNCHANGED <<kernel, tasks, remaining, receipts, interrupted, reconciled, crashes>>

(* Mutant: only the execution is given back. *)
NextToGiveBack(w) == Ends(w)

GivenBack(w) ==
  IF Me(w).purpose = "execution" THEN workers' = [workers EXCEPT ![w].purpose = "planning"] ELSE Ends(w)

GiveBack(w) ==
  /\ At(w, "giveback")
  /\ IF State(Hold(w)) = "RESERVED" THEN Release(Hold(w)) ELSE UNCHANGED kernel
  /\ GivenBack(w)
  /\ UNCHANGED <<cases, receipts, interrupted, reconciled, crashes>>

-----------------------------------------------------------------------------
(* The agent may cancel what it has reserved by the general route.  The     *)
(* operator may suspend the agent, and may settle or release what was       *)
(* dispatched, on evidence of its own, whether a thread is on it or not.    *)
CancelHold(h) ==
  /\ Release(h)
  /\ UNCHANGED <<cases, receipts, workers, interrupted, reconciled, crashes>>

OperatorSettle(h, charge) ==
  /\ Settle(h, charge)
  /\ reconciled' = reconciled \cup {h}
  /\ UNCHANGED <<cases, receipts, workers, interrupted, crashes>>

OperatorNoCharge(h) ==
  /\ ReconcileNoCharge(h)
  /\ reconciled' = reconciled \cup {h}
  /\ UNCHANGED <<cases, receipts, workers, interrupted, crashes>>

Suspend ==
  /\ accounts[Agent].lifecycle = "ACTIVE"
  /\ SetLifecycle(Agent, "SUSPENDED")
  /\ UNCHANGED <<cases, receipts, workers, interrupted, reconciled, crashes>>

Crash ==
  /\ crashes < MaxCrashes
  /\ crashes' = crashes + 1
  /\ workers' = [w \in Workers |-> Idle]
  /\ interrupted' = interrupted \cup {Me(w).id : w \in {v \in Workers : At(v, "giveback")}}
  /\ UNCHANGED <<kernel, cases, receipts, reconciled>>

SemanticInit ==
  /\ accounts = [a \in {Agent} |-> [unit |-> "SIM_COST_MICRO", funded |-> Funded, spent |-> 0, spent_high |-> 0,
                                    reserved |-> 0, status |-> "ACTIVE", lifecycle |-> "ACTIVE", parent |-> None]]
  /\ holds    = [h \in {} |-> {}]
  /\ events   = [h \in Holds |-> <<>>]
  /\ tasks    = [t \in CASES |-> [steps |-> 0, status |-> "OPEN"]]
  /\ actions  = [r \in {} |-> {}]
  /\ remaining = CONSULTATIONS
  /\ receipts = [h \in {} |-> {}]
  /\ workers  = [w \in Workers |-> Idle]
  /\ interrupted = {} /\ reconciled = {}
  /\ crashes  = 0

Work(w) ==
  \/ ReadView(w) \/ Begin(w) \/ Prepare(w) \/ ClaimHold(w) \/ Consume(w) \/ RecordReceipt(w)
  \/ Silence(w) \/ DoubtHold(w) \/ SettleHold(w) \/ ReadOutcome(w) \/ Finish(w) \/ Deny(w) \/ GiveBack(w)

Receives == \E w \in Workers, r \in RequestIds, task \in CASES, action \in Actions : Receive(w, r, task, action)
Works    == \E w \in Workers : Work(w)
Cancels  == \E h \in Holds : CancelHold(h)
Decides  == \E h \in Holds :
              OperatorNoCharge(h) \/ \E charge \in {COSTS[c] : c \in DOMAIN COSTS} \cup {0} : OperatorSettle(h, charge)

SemanticNext == Receives \/ Works \/ Cancels \/ Decides \/ Suspend \/ Crash

SemanticSpec == SemanticInit /\ [][SemanticNext]_semanticVars

(* The client repeats an action as it is until it has an answer. *)
Unanswered(r) == r \in DOMAIN actions /\ actions[r].result = "none"

Repeat(r) ==
  /\ Unanswered(r)
  /\ \E w \in Workers : Receive(w, r, actions[r].task, actions[r].action)

SemanticFairness ==
  /\ \A w \in Workers : WF_semanticVars(Work(w))
  /\ \A r \in RequestIds : SF_semanticVars(Repeat(r))
-----------------------------------------------------------------------------
SemanticTypeOK ==
  /\ TypeOK
  /\ tasks \in [CASES -> [steps: 0 .. DEADLINE_STEPS, status: {"OPEN"} \cup Terminal]]
  /\ DOMAIN actions \subseteq RequestIds
  /\ actions \in [DOMAIN actions -> [task: CASES, action: Actions, result: {"none", "done", "unresolved", "denied"}]]
  /\ remaining \in 0 .. CONSULTATIONS
  /\ DOMAIN receipts \subseteq DOMAIN holds

(* A case is what its actions made of it.  However often an action was      *)
(* interrupted and repeated it counts as one step; the case waits for the   *)
(* answer of one action only; and it is closed by exactly one, although     *)
(* whether it is open is read before the transaction that records the       *)
(* action.  (With the type invariant.)                                      *)
ClosedBy(t) == {r \in DOMAIN actions : actions[r].task = t /\ actions[r].action \in Terminal /\ actions[r].result = "done"}

CasesFollowActions ==
  SemanticTypeOK /\ \A t \in CASES :
    /\ tasks[t].steps = Cardinality({r \in DOMAIN actions : actions[r].task = t})
    /\ Cardinality(Pending(t)) <= 1
    /\ Cardinality(ClosedBy(t)) = IF tasks[t].status = "OPEN" THEN 0 ELSE 1

(* What an action was answered is what the kernel says of its execution: it *)
(* was done only if it was settled, for what its stored receipt says unless *)
(* the operator decided it, and denied only if it was never begun.  An      *)
(* answer "unresolved" is kept for ever, and becomes untrue only when the   *)
(* operator settles the execution: the program itself never settles what it *)
(* said is unresolved, whatever receipt comes late.                         *)
OnlyOperator(h) == h \in reconciled /\ h \notin DOMAIN receipts

Warranted(h) == State(h) = "SETTLED" /\ (h \in reconciled \/ (h \in DOMAIN receipts /\ holds[h].actual = receipts[h]))

AnswersMatchHolds ==
  \A r \in DOMAIN actions :
    LET h == <<r, "execution">> IN
    CASE actions[r].result = "done"       -> actions[r].action = "abstain" \/ Warranted(h)
      [] actions[r].result = "unresolved" -> State(h) \in {"UNRESOLVED", "RELEASED"} \/ (State(h) = "SETTLED" /\ OnlyOperator(h))
      [] actions[r].result = "denied"     -> State(h) \in {"NONE", "RESERVED", "RELEASED"}
      [] actions[r].result = "none"       -> TRUE

(* An action that was answered keeps no authority reserved, unless the      *)
(* process stopped between the answer and the last release: nothing else    *)
(* gives that authority back, the reservation has no expiry.                *)
NothingLeftReserved ==
  \A h \in DOMAIN holds :
    holds[h].state = "RESERVED" =>
      \/ actions[h[1]].result = "none"
      \/ h[1] \in interrupted
      \/ \E w \in Workers : At(w, "giveback") /\ Me(w).id = h[1]

(* A consultation is paid for exactly when it took a unit of the capacity:  *)
(* the units that are gone have a receipt that charges for them, or belong  *)
(* to executions whose receipt was lost or is on its way, also when the     *)
(* operator has decided those.                                              *)
Consulted == {r \in DOMAIN actions : actions[r].action = "consult"}
Paid      == {r \in Consulted : <<r, "execution">> \in DOMAIN receipts /\ receipts[<<r, "execution">>] > 0}
Uncertain == {r \in Consulted : /\ \/ State(<<r, "execution">>) \in {"DISPATCHED", "UNRESOLVED"}
                                   \/ <<r, "execution">> \in reconciled
                                /\ <<r, "execution">> \notin DOMAIN receipts}

ConsultationsCounted ==
  /\ Cardinality(Paid) <= CONSULTATIONS - remaining
  /\ CONSULTATIONS - remaining <= Cardinality(Paid) + Cardinality(Uncertain)

=============================================================================
