--------------------------- MODULE SemanticProofs ---------------------------
(***************************************************************************)
(* Theorems about SemanticTasks for every number of requests, cases and    *)
(* threads, every budget and every capacity of consultations.              *)
(*                                                                         *)
(* The kernel's rows are taken care of by the theorems about Ledger (L),   *)
(* of whose actions every step of a thread takes one or none.  What is left*)
(* is an argument about one action of a case at a time: only the thread    *)
(* that has the lock of the case moves the action and its holds, except    *)
(* that under its feet a reservation may be cancelled, and what it has     *)
(* dispatched may be settled or released by the operator; so what is true  *)
(* of a thread at each of its steps (WorkerOK) says what it still knows of *)
(* a hold that the operator decided, and stays true whatever others do.    *)
(***************************************************************************)
EXTENDS SemanticTasks, FiniteSetTheorems, TLAPS

Charged == {COSTS[a] : a \in DOMAIN COSTS} \cup {0}

L == INSTANCE LedgerProofs WITH
  AccountIds <- {Agent}, HoldIds <- Holds, Units <- {"SIM_COST_MICRO"}, Requests <- DOMAIN COSTS,
  Fundings <- {Funded}, Bounds <- {COSTS[a] : a \in DOMAIN COSTS},
  Charges <- {COSTS[a] : a \in DOMAIN COSTS} \cup {0}, Lifecycles <- {"SUSPENDED"}, Expiries <- {None}, Times <- {0}

-----------------------------------------------------------------------------
(* The inductive invariant *)

Purposes     == {"planning", "execution"}
Plan(r)      == State(<<r, "planning">>)
Execution(r) == State(<<r, "execution">>)

(* What a hold ends in, as far as a thread waits for it. *)
Ended == {"SETTLED", "RELEASED", "UNRESOLVED"}

(* The steps of a thread once its action is recorded. *)
UnderWay == {"prepare", "claim", "consume", "record", "doubt", "settle", "finish", "done", "unresolved", "deny",
             "giveback"}

WorkerRow == [pc: {"idle", "view", "begin"} \cup UnderWay, id: RequestIds \cup {None}, task: CASES \cup {None},
              action: Actions \cup {None}, purpose: Purposes \cup {None}, open: BOOLEAN,
              offered: SUBSET Actions, charge: Charged \cup {None}]

(* What holds of a thread at each of its steps, for the action it is on.    *)
Knows(w) ==
  /\ At(w, "idle") <=> Me(w).task = None
  /\ ~ At(w, "idle") => Me(w).id \in RequestIds /\ Me(w).action \in Actions
  /\ At(w, "begin") /\ Me(w).open => /\ tasks[Me(w).task].status = "OPEN"
                                     /\ tasks[Me(w).task].steps < DEADLINE_STEPS

IsRecorded(w) ==
  Me(w).pc \in UnderWay =>
    /\ Me(w).id \in DOMAIN actions /\ Me(w).purpose \in Purposes
    /\ actions[Me(w).id].task = Me(w).task /\ actions[Me(w).id].action = Me(w).action
    /\ actions[Me(w).id].result = IF At(w, "giveback") THEN "denied" ELSE "none"

(* Nothing was received for a hold whose payment is at pc: it is as this    *)
(* thread or an earlier one left it, or as the operator decided it.         *)
Open(pc, h) ==
  State(h) \in (IF pc = "doubt" THEN {"DISPATCHED", "UNRESOLVED"} ELSE {"DISPATCHED"}) \/ h \in reconciled

Pays(w) ==
  /\ Me(w).pc \in UnderWay \ {"deny", "giveback"} /\ Me(w).purpose = "execution" =>
       Me(w).action # "abstain" /\ Plan(Me(w).id) \in Ended
  /\ At(w, "claim") => State(Hold(w)) # "NONE"
  /\ Me(w).pc \in {"consume", "record", "doubt"} => Open(Me(w).pc, Hold(w)) /\ Hold(w) \notin DOMAIN receipts
  /\ Me(w).pc \in {"consume", "record"} => Me(w).charge \in Charged
  /\ At(w, "consume") => CostOf(w) = "consult"
  /\ At(w, "settle") => Hold(w) \in DOMAIN receipts

(* What the execution of an action answered "unresolved" comes to. *)
Unconfirmed(r) ==
  Execution(r) \in {"UNRESOLVED", "RELEASED"} \/ (Execution(r) = "SETTLED" /\ OnlyOperator(<<r, "execution">>))

Concludes(w) ==
  /\ Me(w).pc \in {"finish", "done", "unresolved"} =>
       Plan(Me(w).id) \in Ended /\ (Me(w).action # "abstain" => Execution(Me(w).id) \in Ended)
  /\ At(w, "done") => Me(w).action = "abstain" \/ Execution(Me(w).id) = "SETTLED"
  /\ At(w, "unresolved") => Me(w).action # "abstain" /\ Unconfirmed(Me(w).id)
  /\ At(w, "deny") => Execution(Me(w).id) \in {"NONE", "RESERVED", "RELEASED"}
  /\ At(w, "giveback") /\ Me(w).purpose = "planning" => Execution(Me(w).id) # "RESERVED"

WorkerOK(w) == Knows(w) /\ IsRecorded(w) /\ Pays(w) /\ Concludes(w)

(* The lock of a case: one thread at a time. *)
OneAtATime == \A v, w \in Workers : v # w /\ Me(v).task # None => Me(v).task # Me(w).task

WorkersOK == workers \in [Workers -> WorkerRow] /\ OneAtATime /\ \A w \in Workers : WorkerOK(w)

TablesOK ==
  /\ tasks \in [CASES -> [steps: 0 .. DEADLINE_STEPS, status: {"OPEN"} \cup Terminal]]
  /\ DOMAIN actions \subseteq RequestIds
  /\ actions \in [DOMAIN actions -> [task: CASES, action: Actions, result: {"none", "done", "unresolved", "denied"}]]
  /\ remaining \in 0 .. CONSULTATIONS

(* An open case has no concluding answer and may wait for one; a closed one *)
(* has one and waits for none.                                              *)
ActionsOf(t) == {r \in DOMAIN actions : actions[r].task = t}

CaseOK(t) ==
  /\ tasks[t].steps = Cardinality(ActionsOf(t))
  /\ \A r, s \in Pending(t) : r = s
  /\ Pending(t) # {} => tasks[t].status = "OPEN"
  /\ tasks[t].status = "OPEN" <=> ClosedBy(t) = {}
  /\ \A r, s \in ClosedBy(t) : r = s

CasesOK == \A t \in CASES : CaseOK(t)

(* A hold belongs to a recorded action; an execution follows the end of its *)
(* planning, is none for an abstention or for a release that nobody can     *)
(* approve.                                                                 *)
HoldsOK ==
  /\ \A r \in RequestIds, p \in Purposes : State(<<r, p>>) # "NONE" => r \in DOMAIN actions
  /\ \A r \in RequestIds : Execution(r) # "NONE" =>
       /\ Plan(r) \in Ended
       /\ actions[r].action # "abstain"
       /\ ~ (actions[r].action = "finalize" /\ actions[r].task \in MandatoryReview)

(* Only what was dispatched has a receipt, and only the operator settles or *)
(* releases what has not.                                                   *)
ReceiptsOK ==
  /\ DOMAIN receipts \subseteq Holds /\ reconciled \subseteq Holds
  /\ \A r \in RequestIds, p \in Purposes :
       /\ <<r, p>> \in DOMAIN receipts => /\ receipts[<<r, p>>] \in Charged
                                          /\ State(<<r, p>>) \in {"DISPATCHED", "SETTLED"} \/ <<r, p>> \in reconciled
       /\ <<r, p>> \in reconciled => State(<<r, p>>) \in {"SETTLED", "RELEASED"}

(* The answers and what the kernel says, but for what was charged. *)
Matched(r) ==
  /\ actions[r].result = "done" => actions[r].action = "abstain" \/ Execution(r) = "SETTLED"
  /\ actions[r].result = "unresolved" => Unconfirmed(r)
  /\ actions[r].result = "denied" => Execution(r) \in {"NONE", "RESERVED", "RELEASED"}

AnswersOK == \A r \in DOMAIN actions : Matched(r)

(* What an answered action keeps reserved waits for the thread that answered*)
(* it, or a crash took that thread.                                         *)
Owed(r) == \/ actions[r].result = "none" \/ r \in interrupted
           \/ \E w \in Workers : At(w, "giveback") /\ Me(w).id = r

ReservedIsOwed == \A r \in RequestIds, p \in Purposes : State(<<r, p>>) = "RESERVED" => Owed(r)

(* The consultations that took a unit and have no receipt yet, and those    *)
(* that may still turn out to take none.                                    *)
Consults(w) == Me(w).purpose = "execution" /\ Me(w).action = "consult" /\ Me(w).pc \in {"consume", "record"}
Takes(w)    == Consults(w) /\ At(w, "record") /\ Me(w).charge > 0
Taking      == {r \in RequestIds : \E w \in Workers : Takes(w) /\ Me(w).id = r}
Waiting     == {r \in RequestIds : \E w \in Workers : Consults(w) /\ ~ Takes(w) /\ Me(w).id = r}

UnitsOK ==
  /\ Cardinality(Paid \cup Taking) <= CONSULTATIONS - remaining
  /\ CONSULTATIONS - remaining <= Cardinality(Paid \cup (Uncertain \ Waiting))

SInv ==
  /\ L!IInv /\ TablesOK /\ CasesOK
  /\ WorkersOK
  /\ HoldsOK /\ ReceiptsOK
  /\ AnswersOK /\ ReservedIsOwed
  /\ UnitsOK

-----------------------------------------------------------------------------
(* The kernel beneath *)

LEMMA CostAmounts ==
  /\ DOMAIN COSTS = {"planning", "check", "infer", "consult", "finalize"}
  /\ \A c \in DOMAIN COSTS : COSTS[c] \in 1 .. 600
  /\ COSTS.consult = 600
BY DEF COSTS

LEMMA ChargedType == Charged \subseteq Nat /\ 0 \in Charged /\ \A c \in DOMAIN COSTS : COSTS[c] \in Charged
BY CostAmounts DEF Charged

LEMMA MaxType == MAX_AMOUNT \in Nat /\ 600 <= MAX_AMOUNT /\ Funded \in 0 .. MAX_AMOUNT
<1>1. MAX_AMOUNT \in Nat /\ Funded \in 0 .. MAX_AMOUNT /\ COSTS.consult <= MAX_AMOUNT
  BY SemanticAssumption
<1>2. QED
  BY <1>1, CostAmounts

(* What Ledger assumes of its constants holds of those it has here. *)
LEMMA KernelAssumptions ==
  /\ /\ MAX_AMOUNT \in Nat
     /\ {Funded} \subseteq 0 .. MAX_AMOUNT
     /\ {COSTS[a] : a \in DOMAIN COSTS} \subseteq 1 .. MAX_AMOUNT
     /\ {COSTS[a] : a \in DOMAIN COSTS} \cup {0} \subseteq 0 .. MAX_AMOUNT
     /\ {0} \subseteq 0 .. MAX_AMOUNT
     /\ {None} \subseteq (0 .. MAX_AMOUNT) \cup {None}
  /\ {"SUSPENDED"} \subseteq {"ACTIVE", "SUSPENDED", "WINDING_DOWN"}
  /\ None \notin {Agent} \cup Holds \cup DOMAIN COSTS \cup (0 .. MAX_AMOUNT)
  /\ L!IsFiniteSet(Holds)
<1>1. \A c \in DOMAIN COSTS : COSTS[c] \in 1 .. MAX_AMOUNT
  BY CostAmounts, MaxType
<1>2. /\ None # Agent /\ None \notin Holds /\ None \notin DOMAIN COSTS /\ None \notin 0 .. MAX_AMOUNT
  BY SemanticAssumption
<1>3. L!IsFiniteSet(Holds)
  <2>1. IsFiniteSet(RequestIds) /\ IsFiniteSet({"planning", "execution"})
    <3>1. IsFiniteSet({"planning"} \cup {"execution"})
      BY FS_Singleton, FS_AddElement
    <3>2. {"planning"} \cup {"execution"} = {"planning", "execution"}
      OBVIOUS
    <3>3. QED
      BY <3>1, <3>2, SemanticAssumption
  <2>2. IsFiniteSet(RequestIds \X {"planning", "execution"})
    BY <2>1, FS_Product
  <2>3. QED
    BY <2>2 DEF Holds, IsFiniteSet, L!IsFiniteSet
<1>4. QED
  BY <1>1, <1>2, <1>3, MaxType

LEMMA KernelNext == L!IInv /\ [L!Next]_(L!ledgerVars) => L!IInv'
BY KernelAssumptions, L!NextInductive

(* The rows of the kernel, as far as the semantic tasks look at them. *)
LEMMA KernelRows ==
  ASSUME L!IInv
  PROVE  /\ DOMAIN holds \subseteq Holds
         /\ \A h \in DOMAIN holds : "state" \in DOMAIN holds[h] /\ "actual" \in DOMAIN holds[h]
         /\ \A h \in DOMAIN holds : holds[h].state \in HoldStates
<1>1. L!TypeOK
  BY DEF L!IInv
<1>2. \A h \in DOMAIN holds : holds[h] \in L!HoldRow
  BY <1>1 DEF L!TypeOK
<1>3. \A row \in L!HoldRow : /\ "state" \in DOMAIN row /\ "actual" \in DOMAIN row
                             /\ row.state \in HoldStates
  BY DEF L!HoldRow, L!HoldStates, L!OUTSTANDING, HoldStates, OUTSTANDING
<1>4. QED
  BY <1>1, <1>2, <1>3 DEF L!TypeOK

LEMMA StateType ==
  ASSUME L!IInv, NEW h
  PROVE  /\ State(h) \in {"NONE", "RESERVED", "DISPATCHED", "UNRESOLVED", "SETTLED", "RELEASED"}
         /\ State(h) = "NONE" <=> h \notin DOMAIN holds
         /\ h \in DOMAIN holds => State(h) = holds[h].state
BY KernelRows DEF State, HoldStates, OUTSTANDING

(* The states of holds after a step that moved one of them, at most. *)
Moves(id, purpose, to) ==
  \A r \in RequestIds, p \in Purposes :
    State(<<r, p>>)' = IF r = id /\ p = purpose THEN to ELSE State(<<r, p>>)

LEMMA RowMoves ==
  ASSUME NEW id, NEW purpose, NEW to, <<id, purpose>> \in DOMAIN holds', holds'[<<id, purpose>>].state = to,
         DOMAIN holds' = DOMAIN holds \cup {<<id, purpose>>},
         \A g \in DOMAIN holds : g # <<id, purpose>> => holds'[g].state = holds[g].state
  PROVE  Moves(id, purpose, to)
<1>1. SUFFICES ASSUME NEW r \in RequestIds, NEW p \in Purposes
               PROVE  State(<<r, p>>)' = IF r = id /\ p = purpose THEN to ELSE State(<<r, p>>)
  BY DEF Moves
<1>2. <<r, p>> = <<id, purpose>> <=> r = id /\ p = purpose
  OBVIOUS
<1>3. QED
  BY <1>2 DEF State

LEMMA NothingMoves ==
  ASSUME UNCHANGED holds, NEW id, NEW purpose, NEW to,
         id \in RequestIds /\ purpose \in Purposes => to = State(<<id, purpose>>)
  PROVE  Moves(id, purpose, to)
BY DEF Moves, State

LEMMA KernelStutters == L!IInv /\ UNCHANGED kernel => L!IInv'
BY KernelNext DEF kernel, L!ledgerVars

LEMMA ReserveMoves ==
  ASSUME L!IInv, NEW id \in RequestIds, NEW purpose \in Purposes, NEW c \in DOMAIN COSTS,
         Reserve(Agent, <<id, purpose>>, COSTS[c], c, None)
  PROVE  L!IInv' /\ State(<<id, purpose>>) = "NONE" /\ Moves(id, purpose, "RESERVED")
<1>1. L!Reserve(Agent, <<id, purpose>>, COSTS[c], c, None)
  BY DEF Reserve, L!Reserve, Record, L!Record, ChainActive, L!ChainActive, Fits, L!Fits, Ancestors, L!Ancestors,
         Active, L!Active, Spent, L!Spent, Chain, L!Chain
<1>2. L!MakeHold
  <2>1. <<id, purpose>> \in Holds /\ COSTS[c] \in {COSTS[a] : a \in DOMAIN COSTS}
    BY DEF Holds, Purposes
  <2>2. QED
    BY <1>1, <2>1 DEF L!MakeHold
<1>3. L!IInv'
  BY <1>2, KernelNext DEF L!Next
<1>4. State(<<id, purpose>>) = "NONE"
  BY StateType DEF Reserve
<1>5. Moves(id, purpose, "RESERVED")
  BY RowMoves DEF Reserve
<1>6. QED
  BY <1>3, <1>4, <1>5

LEMMA DispatchMoves ==
  ASSUME L!IInv, NEW id \in RequestIds, NEW purpose \in Purposes, Dispatch(<<id, purpose>>, 0)
  PROVE  L!IInv' /\ State(<<id, purpose>>) = "RESERVED" /\ Moves(id, purpose, "DISPATCHED")
<1>1. L!Dispatch(<<id, purpose>>, 0)
  BY DEF Dispatch, L!Dispatch, Record, L!Record, ChainActive, L!ChainActive, Ancestors, L!Ancestors,
         Active, L!Active, Chain, L!Chain, Due, L!Due, SetState, L!SetState
<1>2. L!Claim
  BY <1>1 DEF L!Claim, Holds, Purposes
<1>3. L!IInv'
  BY <1>2, KernelNext DEF L!Next
<1>4. State(<<id, purpose>>) = "RESERVED"
  BY StateType DEF Dispatch
<1>5. Moves(id, purpose, "DISPATCHED")
  BY RowMoves, KernelRows DEF Dispatch, SetState
<1>6. QED
  BY <1>3, <1>4, <1>5

LEMMA DoubtMoves ==
  ASSUME L!IInv, NEW id \in RequestIds, NEW purpose \in Purposes, MarkUnresolved(<<id, purpose>>)
  PROVE  L!IInv' /\ State(<<id, purpose>>) = "DISPATCHED" /\ Moves(id, purpose, "UNRESOLVED")
<1>1. L!MarkUnresolved(<<id, purpose>>)
  BY DEF MarkUnresolved, L!MarkUnresolved, Record, L!Record, SetState, L!SetState
<1>2. L!Doubt
  BY <1>1 DEF L!Doubt, Holds, Purposes
<1>3. L!IInv'
  BY <1>2, KernelNext DEF L!Next
<1>4. State(<<id, purpose>>) = "DISPATCHED"
  BY StateType DEF MarkUnresolved
<1>5. Moves(id, purpose, "UNRESOLVED")
  BY RowMoves, KernelRows DEF MarkUnresolved, SetState
<1>6. QED
  BY <1>3, <1>4, <1>5

LEMMA SettleMoves ==
  ASSUME L!IInv, NEW id \in RequestIds, NEW purpose \in Purposes, NEW charge \in Charged,
         Settle(<<id, purpose>>, charge)
  PROVE  L!IInv' /\ State(<<id, purpose>>) \in {"DISPATCHED", "UNRESOLVED"} /\ Moves(id, purpose, "SETTLED")
<1>1. L!Settle(<<id, purpose>>, charge)
  BY DEF Settle, L!Settle, Record, L!Record, Ancestors, L!Ancestors, Chain, L!Chain,
         SettledAccount, L!SettledAccount, Spent, L!Spent
<1>2. L!Pay
  BY <1>1 DEF L!Pay, Holds, Purposes, Charged
<1>3. L!IInv'
  BY <1>2, KernelNext DEF L!Next
<1>4. State(<<id, purpose>>) \in {"DISPATCHED", "UNRESOLVED"}
  BY StateType DEF Settle
<1>5. Moves(id, purpose, "SETTLED")
  BY RowMoves, KernelRows DEF Settle
<1>6. QED
  BY <1>3, <1>4, <1>5

LEMMA ReleaseMoves ==
  ASSUME L!IInv, NEW id \in RequestIds, NEW purpose \in Purposes, Release(<<id, purpose>>)
  PROVE  L!IInv' /\ State(<<id, purpose>>) = "RESERVED" /\ Moves(id, purpose, "RELEASED")
<1>1. L!Release(<<id, purpose>>)
  BY DEF Release, L!Release, Record, L!Record, Releasable, L!Releasable, Unreserve, L!Unreserve,
         HoldsUnder, L!HoldsUnder, UpperBounds, L!UpperBounds, Total, L!Total, Coins, L!Coins, L!Cardinality, Cardinality,
         Ancestors, L!Ancestors, Chain, L!Chain, SetState, L!SetState
<1>2. L!Cancel
  BY <1>1 DEF L!Cancel, Holds, Purposes
<1>3. L!IInv'
  BY <1>2, KernelNext DEF L!Next
<1>4. State(<<id, purpose>>) = "RESERVED"
  BY StateType DEF Release, Releasable
<1>5. Moves(id, purpose, "RELEASED")
  BY RowMoves, KernelRows DEF Release, SetState
<1>6. QED
  BY <1>3, <1>4, <1>5

LEMMA NoChargeMoves ==
  ASSUME L!IInv, NEW id \in RequestIds, NEW purpose \in Purposes, ReconcileNoCharge(<<id, purpose>>)
  PROVE  L!IInv' /\ State(<<id, purpose>>) \in {"DISPATCHED", "UNRESOLVED"} /\ Moves(id, purpose, "RELEASED")
<1>1. L!ReconcileNoCharge(<<id, purpose>>)
  BY DEF ReconcileNoCharge, L!ReconcileNoCharge, Record, L!Record, Releasable, L!Releasable, Unreserve, L!Unreserve,
         HoldsUnder, L!HoldsUnder, UpperBounds, L!UpperBounds, Total, L!Total, Coins, L!Coins, L!Cardinality, Cardinality,
         Ancestors, L!Ancestors, Chain, L!Chain, SetState, L!SetState
<1>2. L!Reconcile
  BY <1>1 DEF L!Reconcile, Holds, Purposes
<1>3. L!IInv'
  BY <1>2, KernelNext DEF L!Next
<1>4. State(<<id, purpose>>) \in {"DISPATCHED", "UNRESOLVED"}
  BY StateType DEF ReconcileNoCharge, Releasable
<1>5. Moves(id, purpose, "RELEASED")
  BY RowMoves, KernelRows DEF ReconcileNoCharge, SetState
<1>6. QED
  BY <1>3, <1>4, <1>5

LEMMA SuspendKeeps ==
  ASSUME L!IInv, Suspend
  PROVE  L!IInv' /\ UNCHANGED holds
<1>1. L!SetLifecycle(Agent, "SUSPENDED") /\ UNCHANGED holds
  BY DEF Suspend, SetLifecycle, L!SetLifecycle
<1>2. L!Operate
  BY <1>1 DEF L!Operate
<1>3. QED
  BY <1>1, <1>2, KernelNext DEF L!Next

-----------------------------------------------------------------------------
(* The rows of the threads *)

Moved(w) == workers' \in [Workers -> WorkerRow] /\ \A v \in Workers \ {w} : workers'[v] = workers[v]

SameAction(w) == workers'[w].id = Me(w).id /\ workers'[w].task = Me(w).task /\ workers'[w].action = Me(w).action

LEMMA RowStep ==
  ASSUME WorkersOK, NEW w \in Workers, NEW row \in WorkerRow, workers' = [workers EXCEPT ![w] = row]
  PROVE  Moved(w) /\ workers'[w] = row
BY DEF WorkersOK, Moved

LEMMA RowTypes ==
  ASSUME WorkersOK, NEW w \in Workers
  PROVE  /\ workers[w] \in WorkerRow /\ WorkerOK(w)
         /\ ~ At(w, "idle") => Me(w).id \in RequestIds /\ Me(w).task \in CASES /\ Me(w).action \in Actions
         /\ Me(w).pc \in UnderWay => ~ At(w, "idle") /\ Me(w).purpose \in Purposes
<1>1. workers[w] \in WorkerRow /\ WorkerOK(w)
  BY DEF WorkersOK
<1>2. ~ At(w, "idle") => Me(w).id \in RequestIds /\ Me(w).task \in CASES /\ Me(w).action \in Actions
  BY <1>1 DEF WorkerOK, Knows, Me, WorkerRow
<1>3. Me(w).pc \in UnderWay => ~ At(w, "idle") /\ Me(w).purpose \in Purposes
  BY <1>1 DEF WorkerOK, IsRecorded, UnderWay, At, Me
<1>4. QED
  BY <1>1, <1>2, <1>3

LEMMA IdleRow == Idle \in WorkerRow /\ Idle.pc = "idle" /\ Idle.task = None
BY DEF Idle, WorkerRow

LEMMA GotoRow ==
  ASSUME WorkersOK, NEW w \in Workers, NEW pc \in UnderWay, Goto(w, pc)
  PROVE  /\ Moved(w) /\ SameAction(w) /\ workers'[w].pc = pc
         /\ workers'[w].purpose = Me(w).purpose /\ workers'[w].charge = Me(w).charge
<1> DEFINE row == [workers[w] EXCEPT !.pc = pc]
<1>1. workers[w] \in WorkerRow
  BY RowTypes
<1>2. /\ row \in WorkerRow /\ row.pc = pc /\ row.id = workers[w].id /\ row.task = workers[w].task
      /\ row.action = workers[w].action /\ row.purpose = workers[w].purpose /\ row.charge = workers[w].charge
  BY <1>1 DEF WorkerRow
<1>3. workers' = [workers EXCEPT ![w] = row]
  BY DEF Goto
<1> HIDE DEF row
<1>4. QED
  BY <1>2, <1>3, RowStep DEF SameAction, Me

LEMMA PayForRow ==
  ASSUME WorkersOK, NEW w \in Workers, NEW purpose \in Purposes, PayFor(w, purpose)
  PROVE  /\ Moved(w) /\ SameAction(w) /\ workers'[w].pc = "prepare"
         /\ workers'[w].purpose = purpose
<1> DEFINE row == [workers[w] EXCEPT !.pc = "prepare", !.purpose = purpose, !.open = FALSE, !.offered = {}]
<1>1. workers[w] \in WorkerRow
  BY RowTypes
<1>2. /\ row \in WorkerRow /\ row.pc = "prepare" /\ row.id = workers[w].id /\ row.task = workers[w].task
      /\ row.action = workers[w].action /\ row.purpose = purpose
  BY <1>1 DEF WorkerRow, UnderWay
<1>3. workers' = [workers EXCEPT ![w] = row]
  BY DEF PayFor
<1> HIDE DEF row
<1>4. QED
  BY <1>2, <1>3, RowStep DEF SameAction, Me

LEMMA EndsRow ==
  ASSUME WorkersOK, NEW w \in Workers, Ends(w)
  PROVE  Moved(w) /\ workers'[w] = Idle
BY RowStep, IdleRow DEF Ends

(* A payment is followed by that of the execution, or by the answer. *)
LEMMA DoneRow ==
  ASSUME WorkersOK, NEW w \in Workers, Done(w), Me(w).pc \in UnderWay
  PROVE  /\ Moved(w) /\ SameAction(w)
         /\ \/ /\ workers'[w].pc = "prepare" /\ workers'[w].purpose = "execution"
               /\ Me(w).purpose = "planning" /\ Me(w).action # "abstain"
            \/ /\ workers'[w].pc = "finish" /\ workers'[w].purpose = Me(w).purpose
               /\ Me(w).purpose = "execution" \/ Me(w).action = "abstain"
<1>1. Me(w).purpose \in Purposes
  BY RowTypes
<1>2. CASE Me(w).purpose = "planning" /\ Me(w).action # "abstain"
  <2>1. PayFor(w, "execution") /\ "execution" \in Purposes
    BY <1>2 DEF Done, Purposes
  <2>2. QED
    BY <1>2, <2>1, PayForRow
<1>3. CASE ~ (Me(w).purpose = "planning" /\ Me(w).action # "abstain")
  <2>1. Goto(w, "finish") /\ "finish" \in UnderWay
    BY <1>3 DEF Done, UnderWay
  <2>2. Me(w).purpose = "execution" \/ Me(w).action = "abstain"
    BY <1>1, <1>3 DEF Purposes
  <2>3. QED
    BY <2>1, <2>2, GotoRow
<1>4. QED
  BY <1>2, <1>3

-----------------------------------------------------------------------------
(* What the other threads rely on *)

(* A step for one case moves nothing of another. *)
Elsewhere(task) ==
  /\ \A t \in CASES : t # task => tasks'[t] = tasks[t]
  /\ \A r \in DOMAIN actions : actions[r].task # task =>
       /\ r \in DOMAIN actions' /\ actions'[r] = actions[r]
       /\ \A p \in Purposes : /\ State(<<r, p>>)' = State(<<r, p>>)
                              /\ <<r, p>> \in DOMAIN receipts' <=> <<r, p>> \in DOMAIN receipts
                              /\ <<r, p>> \in reconciled' <=> <<r, p>> \in reconciled

LEMMA OtherKnows ==
  ASSUME WorkersOK, NEW v \in Workers, NEW task, Elsewhere(task), workers'[v] = workers[v], Me(v).task # task
  PROVE  WorkerOK(v)'
<1>1. WorkerOK(v) /\ workers[v] \in WorkerRow
  BY RowTypes
<1>2. Me(v)' = Me(v) /\ \A pc : At(v, pc)' <=> At(v, pc)
  BY DEF Me, At
<1>3. Knows(v)'
  <2>1. ~ At(v, "idle") => tasks'[Me(v).task] = tasks[Me(v).task]
    BY RowTypes DEF Elsewhere
  <2>2. QED
    BY <1>1, <1>2, <2>1 DEF WorkerOK, Knows, Me, At
<1>4. CASE Me(v).pc \notin UnderWay
  <2>1. IsRecorded(v)' /\ Pays(v)' /\ Concludes(v)'
    BY <1>2, <1>4 DEF IsRecorded, Pays, Concludes, UnderWay, At, Me
  <2>2. QED
    BY <1>3, <2>1 DEF WorkerOK
<1>5. CASE Me(v).pc \in UnderWay
  <2>1. /\ Me(v).id \in DOMAIN actions /\ actions[Me(v).id].task = Me(v).task /\ Me(v).purpose \in Purposes
    BY <1>1, <1>5 DEF WorkerOK, IsRecorded
  <2>2. PICK id \in DOMAIN actions : id = Me(v).id
    BY <2>1
  <2>3. /\ id \in DOMAIN actions' /\ actions'[id] = actions[id]
        /\ \A p \in Purposes : /\ State(<<id, p>>)' = State(<<id, p>>)
                               /\ <<id, p>> \in DOMAIN receipts' <=> <<id, p>> \in DOMAIN receipts
                               /\ <<id, p>> \in reconciled' <=> <<id, p>> \in reconciled
    BY <2>1, <2>2 DEF Elsewhere
  <2>4. Me(v)'.id = id /\ Me(v)'.purpose = Me(v).purpose
    BY <1>2, <2>2
  <2>5. IsRecorded(v)'
    BY <1>1, <1>2, <2>2, <2>3 DEF WorkerOK, IsRecorded, Me
  <2>6. PICK purpose \in Purposes : purpose = Me(v).purpose
    BY <2>1
  <2>7. State(<<id, purpose>>)' = State(<<id, purpose>>) /\ Hold(v) = <<id, purpose>> /\ Hold(v)' = <<id, purpose>>
    BY <2>2, <2>3, <2>4, <2>6 DEF Hold
  <2>8. State(<<id, "planning">>)' = State(<<id, "planning">>) /\ State(<<id, "execution">>)' = State(<<id, "execution">>)
    BY <2>3 DEF Purposes
  <2>9. /\ Plan(Me(v).id)' = Plan(Me(v).id) /\ Execution(Me(v).id)' = Execution(Me(v).id)
        /\ State(Hold(v))' = State(Hold(v))
        /\ Hold(v)' \in DOMAIN receipts' <=> Hold(v) \in DOMAIN receipts
        /\ Hold(v)' \in reconciled' <=> Hold(v) \in reconciled
        /\ OnlyOperator(<<id, "execution">>)' <=> OnlyOperator(<<id, "execution">>)
    BY <2>2, <2>3, <2>4, <2>6, <2>7, <2>8 DEF Plan, Execution, OnlyOperator, Purposes
  <2>10. CostOf(v)' = CostOf(v)
    BY <1>2 DEF CostOf, Me
  <2>11. Pays(v)'
    <3>1. \A pc : Open(pc, Hold(v))' <=> Open(pc, Hold(v))
      BY <2>9 DEF Open
    <3>2. QED
      BY <1>1, <1>2, <2>9, <2>10, <3>1 DEF WorkerOK, Pays, Me, At
  <2>12. Concludes(v)'
    <3>1. Unconfirmed(Me(v).id)' <=> Unconfirmed(Me(v).id)
      BY <2>2, <2>4, <2>9 DEF Unconfirmed, OnlyOperator
    <3>2. QED
      BY <1>1, <1>2, <2>9, <3>1 DEF WorkerOK, Concludes, Me, At
  <2>13. QED
    BY <1>3, <2>5, <2>11, <2>12 DEF WorkerOK
<1>6. QED
  BY <1>4, <1>5

LEMMA WorkersKept ==
  ASSUME WorkersOK, NEW w \in Workers, Moved(w), NEW task, Elsewhere(task), WorkerOK(w)',
         workers'[w].task = None \/ workers'[w].task = task,
         task = Me(w).task \/ Free(task), task # None
  PROVE  WorkersOK'
<1>1. \A v \in Workers \ {w} : Me(v).task # task
  BY DEF WorkersOK, OneAtATime, Free
<1>2. \A v \in Workers \ {w} : WorkerOK(v)'
  BY <1>1, OtherKnows DEF Moved
<1>3. OneAtATime'
  <2>1. \A v \in Workers \ {w} : Me(v)' = Me(v)
    BY DEF Moved, Me
  <2>2. QED
    BY <1>1, <2>1 DEF WorkersOK, OneAtATime, Me
<1>4. QED
  BY <1>2, <1>3 DEF WorkersOK, Moved

(* What there is to know of a thread that is under way, in rigid terms.     *)
Supported(w, id, purpose, action, pc) ==
  /\ purpose = "execution" /\ pc \notin {"deny", "giveback"} =>
       action # "abstain" /\ State(<<id, "planning">>)' \in Ended
  /\ pc = "claim" => State(<<id, purpose>>)' # "NONE"
  /\ pc \in {"consume", "record", "doubt"} =>
       Open(pc, <<id, purpose>>)' /\ <<id, purpose>> \notin DOMAIN receipts'
  /\ pc \in {"consume", "record"} => workers'[w].charge \in Charged
  /\ pc = "consume" => purpose = "execution" /\ action = "consult"
  /\ pc = "settle" => <<id, purpose>> \in DOMAIN receipts'
  /\ pc \in {"finish", "done", "unresolved"} => State(<<id, "planning">>)' \in Ended
  /\ pc \in {"finish", "done", "unresolved"} /\ action # "abstain" => State(<<id, "execution">>)' \in Ended
  /\ pc = "done" => action = "abstain" \/ State(<<id, "execution">>)' = "SETTLED"
  /\ pc = "unresolved" => action # "abstain" /\ Unconfirmed(id)'
  /\ pc = "deny" => State(<<id, "execution">>)' \in {"NONE", "RESERVED", "RELEASED"}
  /\ pc = "giveback" /\ purpose = "planning" => State(<<id, "execution">>)' # "RESERVED"

LEMMA UnderWayKnows ==
  ASSUME NEW w \in Workers, NEW id \in RequestIds, NEW purpose \in Purposes, NEW action \in Actions, NEW task \in CASES,
         NEW pc \in UnderWay,
         workers'[w].pc = pc, workers'[w].id = id, workers'[w].purpose = purpose,
         workers'[w].action = action, workers'[w].task = task,
         id \in DOMAIN actions', actions'[id].task = task, actions'[id].action = action,
         actions'[id].result = IF pc = "giveback" THEN "denied" ELSE "none",
         Supported(w, id, purpose, action, pc)
  PROVE  WorkerOK(w)'
<1>1. /\ Me(w)'.pc = pc /\ Me(w)'.id = id /\ Me(w)'.purpose = purpose /\ Me(w)'.action = action
      /\ Me(w)'.task = task /\ Me(w)' = workers'[w] /\ \A c : At(w, c)' <=> pc = c
  BY DEF Me, At
<1>2. task # None
  BY SemanticAssumption
<1>3. pc # "idle" /\ pc # "begin"
  BY DEF UnderWay
<1>4. Knows(w)'
  BY <1>1, <1>2, <1>3 DEF Knows
<1>5. IsRecorded(w)'
  BY <1>1 DEF IsRecorded
<1>6. Hold(w)' = <<id, purpose>>
  BY <1>1 DEF Hold
<1>7. State(Hold(w))' = State(<<id, purpose>>)'
  BY <1>6
<1>8. Plan(Me(w).id)' = State(<<id, "planning">>)' /\ Execution(Me(w).id)' = State(<<id, "execution">>)'
  BY <1>1 DEF Plan, Execution
<1>9. CostOf(w)' = IF purpose = "planning" THEN "planning" ELSE action
  BY <1>1 DEF CostOf
<1>10. Pays(w)'
  <2>1. Open(pc, Hold(w))' <=> Open(pc, <<id, purpose>>)'
    BY <1>6, <1>7 DEF Open
  <2>2. QED
    BY <1>1, <1>6, <1>7, <1>8, <1>9, <2>1 DEF Pays, Supported
<1>11. Concludes(w)'
  BY <1>1, <1>8 DEF Concludes, Supported
<1>12. QED
  BY <1>4, <1>5, <1>10, <1>11 DEF WorkerOK

(* What is known of it in the same terms. *)
LEMMA Known ==
  ASSUME WorkersOK, NEW w \in Workers, Me(w).pc \in UnderWay, NEW id, id = Me(w).id, NEW purpose, purpose = Me(w).purpose
  PROVE  /\ id \in RequestIds /\ purpose \in Purposes /\ Me(w).task \in CASES /\ Me(w).action \in Actions
         /\ Hold(w) = <<id, purpose>>
         /\ id \in DOMAIN actions /\ actions[id].task = Me(w).task /\ actions[id].action = Me(w).action
         /\ actions[id].result = IF At(w, "giveback") THEN "denied" ELSE "none"
         /\ purpose = "execution" /\ Me(w).pc \notin {"deny", "giveback"} =>
              Me(w).action # "abstain" /\ State(<<id, "planning">>) \in Ended
         /\ At(w, "claim") => State(<<id, purpose>>) # "NONE"
         /\ Me(w).pc \in {"consume", "record", "doubt"} =>
              Open(Me(w).pc, <<id, purpose>>) /\ <<id, purpose>> \notin DOMAIN receipts
         /\ Me(w).pc \in {"consume", "record"} => Me(w).charge \in Charged
         /\ At(w, "consume") => purpose = "execution" /\ Me(w).action = "consult"
         /\ At(w, "settle") => <<id, purpose>> \in DOMAIN receipts
         /\ Me(w).pc \in {"finish", "done", "unresolved"} => State(<<id, "planning">>) \in Ended
         /\ Me(w).pc \in {"finish", "done", "unresolved"} /\ Me(w).action # "abstain" =>
              State(<<id, "execution">>) \in Ended
         /\ At(w, "done") => Me(w).action = "abstain" \/ State(<<id, "execution">>) = "SETTLED"
         /\ At(w, "unresolved") => Me(w).action # "abstain" /\ Unconfirmed(id)
         /\ At(w, "deny") => State(<<id, "execution">>) \in {"NONE", "RESERVED", "RELEASED"}
         /\ At(w, "giveback") /\ purpose = "planning" => State(<<id, "execution">>) # "RESERVED"
<1>1. WorkerOK(w) /\ workers[w] \in WorkerRow
  BY RowTypes
<1>2. id \in RequestIds /\ purpose \in Purposes /\ Me(w).task \in CASES /\ Me(w).action \in Actions
  BY RowTypes
<1>3. IsRecorded(w) /\ Pays(w) /\ Concludes(w)
  BY <1>1 DEF WorkerOK
<1>4. Hold(w) = <<id, purpose>>
  BY DEF Hold
<1>5. Plan(Me(w).id) = State(<<id, "planning">>) /\ Execution(Me(w).id) = State(<<id, "execution">>)
  BY DEF Plan, Execution
<1>6. CostOf(w) = IF purpose = "planning" THEN "planning" ELSE Me(w).action
  BY DEF CostOf
<1>7. At(w, "consume") => purpose = "execution" /\ Me(w).action = "consult"
  BY <1>2, <1>3, <1>6 DEF Pays, Purposes
<1>8. /\ id \in DOMAIN actions /\ actions[id].task = Me(w).task /\ actions[id].action = Me(w).action
      /\ actions[id].result = IF At(w, "giveback") THEN "denied" ELSE "none"
  BY <1>3 DEF IsRecorded
<1>9. /\ purpose = "execution" /\ Me(w).pc \notin {"deny", "giveback"} =>
           Me(w).action # "abstain" /\ State(<<id, "planning">>) \in Ended
      /\ At(w, "claim") => State(<<id, purpose>>) # "NONE"
      /\ Me(w).pc \in {"consume", "record", "doubt"} =>
           Open(Me(w).pc, <<id, purpose>>) /\ <<id, purpose>> \notin DOMAIN receipts
      /\ Me(w).pc \in {"consume", "record"} => Me(w).charge \in Charged
      /\ At(w, "settle") => <<id, purpose>> \in DOMAIN receipts
  BY <1>3, <1>4, <1>5 DEF Pays
<1>10. /\ Me(w).pc \in {"finish", "done", "unresolved"} => State(<<id, "planning">>) \in Ended
       /\ Me(w).pc \in {"finish", "done", "unresolved"} /\ Me(w).action # "abstain" =>
            State(<<id, "execution">>) \in Ended
       /\ At(w, "done") => Me(w).action = "abstain" \/ State(<<id, "execution">>) = "SETTLED"
       /\ At(w, "unresolved") => Me(w).action # "abstain" /\ Unconfirmed(id)
       /\ At(w, "deny") => State(<<id, "execution">>) \in {"NONE", "RESERVED", "RELEASED"}
       /\ At(w, "giveback") /\ purpose = "planning" => State(<<id, "execution">>) # "RESERVED"
  BY <1>3, <1>5 DEF Concludes
<1>11. QED
  BY <1>2, <1>4, <1>7, <1>8, <1>9, <1>10

(* The hold of a payment under way has no receipt. *)
LEMMA KnownOpen ==
  ASSUME WorkersOK, NEW w \in Workers, Me(w).pc \in {"consume", "record", "doubt"}
  PROVE  /\ Open(Me(w).pc, <<Me(w).id, Me(w).purpose>>) /\ <<Me(w).id, Me(w).purpose>> \notin DOMAIN receipts
         /\ Me(w).pc # "doubt" => Me(w).charge \in Charged
<1>1. Pays(w)
  BY RowTypes DEF WorkerOK
<1>2. Me(w).pc \in {"consume", "record", "doubt"} => Open(Me(w).pc, Hold(w)) /\ Hold(w) \notin DOMAIN receipts
  BY <1>1 DEF Pays
<1>3. Me(w).pc \in {"consume", "record"} => Me(w).charge \in Charged
  BY <1>1 DEF Pays
<1>4. Hold(w) = <<Me(w).id, Me(w).purpose>>
  BY DEF Hold
<1>5. QED
  BY <1>2, <1>3, <1>4

(* A thread that rests relies on nothing. *)
LEMMA IdleKnows ==
  ASSUME NEW w \in Workers, workers'[w] = Idle
  PROVE  WorkerOK(w)' /\ ~ Consults(w)'
<1>1. Me(w)'.pc = "idle" /\ Me(w)'.task = None /\ \A c : At(w, c)' <=> c = "idle"
  BY IdleRow DEF Me, At
<1>2. QED
  BY <1>1 DEF WorkerOK, Knows, IsRecorded, Pays, Concludes, UnderWay, Consults

-----------------------------------------------------------------------------
(* Counting consultations *)

LEMMA UnitsKept ==
  ASSUME TablesOK, UnitsOK, DOMAIN actions' \subseteq RequestIds, remaining' = remaining,
         (Paid \cup Taking)' \subseteq Paid \cup Taking,
         Paid \cup (Uncertain \ Waiting) \subseteq (Paid \cup (Uncertain \ Waiting))'
  PROVE  UnitsOK'
<1>1. IsFiniteSet(RequestIds) /\ CONSULTATIONS \in Nat /\ remaining \in Nat
  BY SemanticAssumption DEF TablesOK
<1> DEFINE A == Paid \cup Taking
           B == Paid \cup (Uncertain \ Waiting)
           A2 == (Paid \cup Taking)'
           B2 == (Paid \cup (Uncertain \ Waiting))'
<1>2. A \subseteq RequestIds /\ B \subseteq RequestIds
  BY DEF Paid, Taking, Uncertain, Consulted, TablesOK
<1>3. B2 \subseteq RequestIds
  BY DEF Paid, Uncertain, Consulted
<1>4. A2 \subseteq A /\ B \subseteq B2
  OBVIOUS
<1>5. Cardinality(A) <= CONSULTATIONS - remaining /\ CONSULTATIONS - remaining <= Cardinality(B)
  BY DEF UnitsOK
<1>6. UnitsOK' <=> /\ Cardinality(A2) <= CONSULTATIONS - remaining
                   /\ CONSULTATIONS - remaining <= Cardinality(B2)
  BY DEF UnitsOK
<1> HIDE DEF A, B, A2, B2
<1>7. IsFiniteSet(A) /\ IsFiniteSet(B2)
  BY <1>1, <1>2, <1>3, FS_Subset
<1>8. Cardinality(A2) <= Cardinality(A) /\ IsFiniteSet(A2)
  BY <1>4, <1>7, FS_Subset
<1>9. Cardinality(B) <= Cardinality(B2) /\ IsFiniteSet(B)
  BY <1>4, <1>7, FS_Subset
<1>10. /\ Cardinality(A) \in Nat /\ Cardinality(A2) \in Nat
       /\ Cardinality(B) \in Nat /\ Cardinality(B2) \in Nat
  BY <1>7, <1>8, <1>9, FS_CardinalityType
<1>11. QED
  BY <1>1, <1>5, <1>6, <1>8, <1>9, <1>10

(* A step of a thread that neither was nor is about to pay a consultation. *)
LEMMA SameConsultations ==
  ASSUME NEW w \in Workers, Moved(w), ~ Consults(w), ~ Consults(w)'
  PROVE  Taking' = Taking /\ Waiting' = Waiting
<1>1. \A v \in Workers \ {w} : workers'[v] = workers[v]
  BY DEF Moved
<1>2. ASSUME NEW v \in Workers
      PROVE  /\ Takes(v)' => Takes(v) /\ Me(v)' = Me(v)
             /\ Takes(v) => Takes(v)' /\ Me(v)' = Me(v)
             /\ Consults(v)' /\ ~ Takes(v)' => Consults(v) /\ ~ Takes(v) /\ Me(v)' = Me(v)
             /\ Consults(v) /\ ~ Takes(v) => Consults(v)' /\ ~ Takes(v)' /\ Me(v)' = Me(v)
  BY <1>1 DEF Takes, Consults, At, Me
<1>3. \A r \in RequestIds : (\E v \in Workers : Takes(v)' /\ Me(v)'.id = r) <=> (\E v \in Workers : Takes(v) /\ Me(v).id = r)
  BY Zenon, <1>2
<1>4. \A r \in RequestIds : (\E v \in Workers : Consults(v)' /\ ~ Takes(v)' /\ Me(v)'.id = r)
                             <=> (\E v \in Workers : Consults(v) /\ ~ Takes(v) /\ Me(v).id = r)
  BY Zenon, <1>2
<1>5. Taking' = Taking
  BY <1>3 DEF Taking
<1>6. Waiting' = Waiting
  BY <1>4 DEF Waiting
<1>7. QED
  BY <1>5, <1>6

-----------------------------------------------------------------------------
(* Steps that move a thread, and one hold at most *)

LEMMA SameTables ==
  ASSUME TablesOK, CasesOK, UNCHANGED cases
  PROVE  TablesOK' /\ CasesOK'
<1>1. tasks' = tasks /\ actions' = actions /\ remaining' = remaining
  BY DEF cases
<1>2. TablesOK'
  BY <1>1 DEF TablesOK
<1>3. \A t : ActionsOf(t)' = ActionsOf(t) /\ Pending(t)' = Pending(t) /\ ClosedBy(t)' = ClosedBy(t)
  BY <1>1 DEF ActionsOf, Pending, ClosedBy
<1>4. CasesOK'
  BY <1>1, <1>3 DEF CasesOK, CaseOK
<1>5. QED
  BY <1>2, <1>4

LEMMA StillOwed ==
  ASSUME WorkersOK, NEW w \in Workers, Moved(w), NEW r \in RequestIds, Owed(r),
         actions'[r].result = actions[r].result \/ actions'[r].result = "none",
         r \in interrupted => r \in interrupted',
         At(w, "giveback") /\ Me(w).id = r => workers'[w].pc = "giveback" /\ workers'[w].id = r
  PROVE  Owed(r)'
<1>1. CASE actions[r].result = "none"
  BY <1>1 DEF Owed
<1>2. CASE r \in interrupted
  BY <1>2 DEF Owed
<1>3. CASE \E v \in Workers : At(v, "giveback") /\ Me(v).id = r
  <2>1. PICK v \in Workers : At(v, "giveback") /\ Me(v).id = r
    BY <1>3
  <2>2. workers'[v].pc = "giveback" /\ workers'[v].id = r
    BY <2>1 DEF Moved, At, Me
  <2>3. At(v, "giveback")' /\ Me(v)'.id = r
    BY <2>2 DEF At, Me
  <2>4. QED
    BY <2>3 DEF Owed
<1>4. QED
  BY <1>1, <1>2, <1>3 DEF Owed

LEMMA WorkerStep ==
  ASSUME SInv, NEW w \in Workers, Moved(w), UNCHANGED <<kernel, cases, receipts, interrupted, reconciled>>, WorkerOK(w)',
         NEW task \in CASES, workers'[w].task = None \/ workers'[w].task = task, task = Me(w).task \/ Free(task),
         ~ Consults(w), ~ Consults(w)',
         At(w, "giveback") => \/ workers'[w].pc = "giveback" /\ workers'[w].id = Me(w).id
                              \/ \A p \in Purposes : State(<<Me(w).id, p>>) # "RESERVED"
  PROVE  SInv'
<1>1. /\ holds' = holds /\ tasks' = tasks /\ actions' = actions /\ remaining' = remaining /\ receipts' = receipts
      /\ interrupted' = interrupted /\ reconciled' = reconciled
  BY DEF kernel, cases
<1>2. \A h : State(h)' = State(h)
  BY <1>1 DEF State
<1>3. L!IInv' /\ TablesOK' /\ CasesOK'
  BY SameTables, KernelStutters DEF SInv
<1>4. Elsewhere(task)
  BY <1>1, <1>2 DEF Elsewhere
<1>5. task # None
  BY SemanticAssumption
<1>6. WorkersOK'
  BY <1>4, <1>5, WorkersKept DEF SInv
<1>7. HoldsOK' /\ ReceiptsOK'
  BY <1>1, <1>2 DEF SInv, HoldsOK, ReceiptsOK, Plan, Execution
<1>8. AnswersOK'
  BY <1>1 DEF SInv, AnswersOK, Matched, Unconfirmed, OnlyOperator, Execution, State
<1>9. ReservedIsOwed'
  <2>1. SUFFICES ASSUME NEW r \in RequestIds, NEW p \in Purposes, State(<<r, p>>)' = "RESERVED"
                 PROVE  Owed(r)'
    BY DEF ReservedIsOwed
  <2>2. State(<<r, p>>) = "RESERVED"
    BY <1>2, <2>1
  <2>3. Owed(r)
    BY <2>2 DEF SInv, ReservedIsOwed
  <2>4. At(w, "giveback") /\ Me(w).id = r => workers'[w].pc = "giveback" /\ workers'[w].id = r
    BY <2>2
  <2>5. QED
    BY <1>1, <2>3, <2>4, StillOwed DEF SInv
<1>10. UnitsOK'
  <2>1. Taking' = Taking /\ Waiting' = Waiting
    BY SameConsultations
  <2>2. Paid' = Paid
    BY <1>1 DEF Paid, Consulted
  <2>3. Uncertain' = Uncertain
    BY <1>1 DEF Uncertain, Consulted, State
  <2>4. QED
    BY <1>1, <2>1, <2>2, <2>3 DEF SInv, UnitsOK
<1>11. QED
  BY <1>3, <1>6, <1>7, <1>8, <1>9, <1>10 DEF SInv

(* How a thread may move the hold it pays with. *)
Lawful(w, h, to) ==
  \/ State(h) = "NONE" /\ to = "RESERVED" /\ At(w, "prepare") /\ Approved(w)
  \/ State(h) = "RESERVED" /\ to = "DISPATCHED" /\ At(w, "claim")
  \/ State(h) = "DISPATCHED" /\ to = "UNRESOLVED" /\ At(w, "doubt")
  \/ State(h) = "DISPATCHED" /\ to = "SETTLED" /\ At(w, "settle")
  \/ State(h) = "RESERVED" /\ to = "RELEASED" /\ At(w, "giveback")

LEMMA HoldsMove ==
  ASSUME SInv, NEW w \in Workers, Me(w).pc \in UnderWay, NEW id, id = Me(w).id, NEW purpose, purpose = Me(w).purpose,
         NEW to, Moves(id, purpose, to), Lawful(w, <<id, purpose>>, to), UNCHANGED <<actions, receipts, reconciled>>
  PROVE  HoldsOK' /\ ReceiptsOK' /\ AnswersOK'
<1>1. /\ id \in RequestIds /\ purpose \in Purposes /\ id \in DOMAIN actions
      /\ actions[id].task = Me(w).task /\ actions[id].action = Me(w).action
      /\ actions[id].result = IF At(w, "giveback") THEN "denied" ELSE "none"
      /\ purpose = "execution" /\ Me(w).pc \notin {"deny", "giveback"} =>
              Me(w).action # "abstain" /\ State(<<id, "planning">>) \in Ended
  BY Known DEF SInv
<1>2. \A r \in RequestIds, p \in Purposes :
        State(<<r, p>>)' = IF r = id /\ p = purpose THEN to ELSE State(<<r, p>>)
  BY DEF Moves
<1>3. "planning" \in Purposes /\ "execution" \in Purposes /\ \A p \in Purposes : p = "planning" \/ p = "execution"
  BY DEF Purposes
<1>4. State(<<id, purpose>>) # "NONE" \/ (At(w, "prepare") /\ Approved(w))
  BY DEF Lawful
<1>5. HoldsOK
  BY DEF SInv
<1>6. HoldsOK'
  <2>1. \A r \in RequestIds, p \in Purposes : State(<<r, p>>)' # "NONE" => r \in DOMAIN actions'
    BY <1>1, <1>2, <1>5 DEF HoldsOK
  <2>2. ASSUME NEW r \in RequestIds, State(<<r, "execution">>)' # "NONE"
        PROVE  /\ State(<<r, "planning">>)' \in Ended
               /\ actions[r].action # "abstain"
               /\ ~ (actions[r].action = "finalize" /\ actions[r].task \in MandatoryReview)
    <3>1. /\ State(<<r, "planning">>) \in Ended
          /\ actions[r].action # "abstain"
          /\ ~ (actions[r].action = "finalize" /\ actions[r].task \in MandatoryReview)
      <4>1. CASE State(<<r, "execution">>) # "NONE"
        BY <1>5, <4>1 DEF HoldsOK, Plan, Execution
      <4>2. CASE State(<<r, "execution">>) = "NONE"
        <5>1. r = id /\ purpose = "execution"
          BY <1>2, <1>3, <2>2, <4>2
        <5>2. At(w, "prepare") /\ Approved(w)
          BY <1>4, <4>2, <5>1
        <5>3. Me(w).pc \notin {"deny", "giveback"}
          BY <5>2 DEF At, Me
        <5>4. QED
          BY <1>1, <5>1, <5>2, <5>3 DEF Approved
      <4>3. QED
        BY <4>1, <4>2
    <3>2. State(<<r, "planning">>)' = State(<<r, "planning">>)
      <4>1. CASE r = id /\ purpose = "planning"
        <5>1. State(<<id, purpose>>) \in Ended
          BY <3>1, <4>1
        <5>2. QED
          BY <5>1 DEF Lawful, Ended
      <4>2. CASE ~ (r = id /\ purpose = "planning")
        BY <1>2, <1>3, <4>2
      <4>3. QED
        BY <4>1, <4>2
    <3>3. QED
      BY <3>1, <3>2
  <2>3. QED
    BY <2>1, <2>2 DEF HoldsOK, Plan, Execution
<1>7. ReceiptsOK'
  <2>1. ReceiptsOK
    BY DEF SInv
  <2>2. At(w, "settle") => <<id, purpose>> \in DOMAIN receipts
    BY Known DEF SInv
  <2>3. ~ (At(w, "settle") /\ At(w, "doubt")) /\ (At(w, "doubt") => <<id, purpose>> \notin DOMAIN receipts)
    <3>1. At(w, "doubt") => Me(w).pc \in {"consume", "record", "doubt"}
      BY DEF At, Me
    <3>2. QED
      BY <3>1, Known DEF SInv, At
  <2>4. ASSUME NEW r \in RequestIds, NEW p \in Purposes
        PROVE  /\ <<r, p>> \in DOMAIN receipts => /\ receipts[<<r, p>>] \in Charged
                                                  /\ State(<<r, p>>)' \in {"DISPATCHED", "SETTLED"} \/ <<r, p>> \in reconciled
               /\ <<r, p>> \in reconciled => State(<<r, p>>)' \in {"SETTLED", "RELEASED"}
    <3>1. /\ <<r, p>> \in DOMAIN receipts => /\ receipts[<<r, p>>] \in Charged
                                             /\ State(<<r, p>>) \in {"DISPATCHED", "SETTLED"} \/ <<r, p>> \in reconciled
          /\ <<r, p>> \in reconciled => State(<<r, p>>) \in {"SETTLED", "RELEASED"}
      BY <2>1 DEF ReceiptsOK
    <3>2. CASE ~ (r = id /\ p = purpose)
      BY <1>2, <3>1, <3>2
    <3>3. CASE r = id /\ p = purpose
      <4>1. State(<<r, p>>)' = to
        BY <1>2, <3>3
      <4>2. QED
        BY <2>2, <2>3, <3>1, <3>3, <4>1 DEF Lawful
    <3>4. QED
      BY <3>2, <3>3
  <2>5. QED
    BY <2>1, <2>4 DEF ReceiptsOK
<1>8. AnswersOK'
  <2>1. SUFFICES ASSUME NEW r \in DOMAIN actions PROVE Matched(r)'
    BY DEF AnswersOK
  <2>2. r \in RequestIds /\ Matched(r)
    BY DEF SInv, TablesOK, AnswersOK
  <2>3. CASE State(<<r, "execution">>)' = State(<<r, "execution">>)
    BY <2>2, <2>3 DEF Matched, Unconfirmed, OnlyOperator, Execution
  <2>4. CASE State(<<r, "execution">>)' # State(<<r, "execution">>)
    <3>1. r = id /\ purpose = "execution" /\ State(<<r, "execution">>)' = to
      BY <1>2, <1>3, <2>2, <2>4
    <3>2. actions[r].result = "none" \/ (actions[r].result = "denied" /\ to = "RELEASED")
      BY <1>1, <3>1 DEF Lawful, At
    <3>3. QED
      BY <3>1, <3>2 DEF Matched, Execution
  <2>5. QED
    BY <2>3, <2>4
<1>9. QED
  BY <1>6, <1>7, <1>8

LEMMA HoldStep ==
  ASSUME SInv, NEW w \in Workers, Me(w).pc \in UnderWay, NEW id, id = Me(w).id, NEW purpose, purpose = Me(w).purpose,
         NEW to, Moves(id, purpose, to), Lawful(w, <<id, purpose>>, to),
         L!IInv', UNCHANGED <<cases, receipts, interrupted, reconciled>>, Moved(w), WorkerOK(w)',
         workers'[w].task = None \/ workers'[w].task = Me(w).task,
         At(w, "giveback") => \/ workers'[w].pc = "giveback" /\ workers'[w].id = id
                              \/ purpose = "planning",
         UnitsOK'
  PROVE  SInv'
<1>1. /\ tasks' = tasks /\ actions' = actions /\ remaining' = remaining /\ receipts' = receipts
      /\ interrupted' = interrupted /\ reconciled' = reconciled
  BY DEF cases
<1>2. /\ id \in RequestIds /\ purpose \in Purposes /\ id \in DOMAIN actions
      /\ actions[id].task = Me(w).task /\ Me(w).task \in CASES
      /\ actions[id].result = IF At(w, "giveback") THEN "denied" ELSE "none"
      /\ At(w, "giveback") /\ purpose = "planning" => State(<<id, "execution">>) # "RESERVED"
  BY Known DEF SInv
<1>3. \A r \in RequestIds, p \in Purposes :
        State(<<r, p>>)' = IF r = id /\ p = purpose THEN to ELSE State(<<r, p>>)
  BY DEF Moves
<1>4. TablesOK' /\ CasesOK'
  BY SameTables DEF SInv
<1>5. WorkersOK'
  <2>1. \A r \in DOMAIN actions : actions[r].task # Me(w).task => r # id /\ r \in RequestIds
    BY <1>2 DEF SInv, TablesOK
  <2>2. Elsewhere(Me(w).task)
    BY <1>1, <1>3, <2>1 DEF Elsewhere
  <2>3. Me(w).task # None
    BY <1>2, SemanticAssumption
  <2>4. QED
    BY <2>2, <2>3, WorkersKept DEF SInv
<1>6. HoldsOK' /\ ReceiptsOK' /\ AnswersOK'
  BY <1>1, HoldsMove
<1>7. ReservedIsOwed'
  <2>1. SUFFICES ASSUME NEW r \in RequestIds, NEW p \in Purposes, State(<<r, p>>)' = "RESERVED"
                 PROVE  Owed(r)'
    BY DEF ReservedIsOwed
  <2>2. CASE State(<<r, p>>) # "RESERVED"
    <3>1. r = id /\ to = "RESERVED"
      BY <1>3, <2>1, <2>2
    <3>2. At(w, "prepare")
      BY <3>1 DEF Lawful
    <3>3. actions'[r].result = "none"
      BY <1>1, <1>2, <3>1, <3>2 DEF At
    <3>4. QED
      BY <3>3 DEF Owed
  <2>3. CASE State(<<r, p>>) = "RESERVED"
    <3>1. Owed(r)
      BY <2>3 DEF SInv, ReservedIsOwed
    <3>2. At(w, "giveback") /\ r = id => workers'[w].pc = "giveback" /\ workers'[w].id = r
      <4>1. SUFFICES ASSUME At(w, "giveback"), r = id, purpose = "planning" PROVE FALSE
        OBVIOUS
      <4>2. p = "planning" \/ p = "execution"
        BY DEF Purposes
      <4>3. p = "planning"
        BY <1>2, <2>3, <4>1, <4>2
      <4>4. to = "RESERVED"
        BY <1>3, <2>1, <4>1, <4>3
      <4>5. QED
        BY <4>1, <4>4 DEF Lawful, At
    <3>3. QED
      BY <1>1, <3>1, <3>2, StillOwed DEF SInv
  <2>4. QED
    BY <2>2, <2>3
<1>8. QED
  BY <1>4, <1>5, <1>6, <1>7 DEF SInv

(* The consultations are the same when an execution stays or does not      *)
(* become uncertain.                                                        *)
LEMMA SameUnits ==
  ASSUME SInv, NEW w \in Workers, Moved(w), ~ Consults(w), ~ Consults(w)',
         UNCHANGED <<cases, receipts, reconciled>>, NEW id, NEW purpose, NEW to, Moves(id, purpose, to),
         \/ purpose = "planning" \/ <<id, purpose>> \in DOMAIN receipts
         \/ id \in DOMAIN actions => actions[id].action # "consult"
         \/ State(<<id, purpose>>) \in {"DISPATCHED", "UNRESOLVED"} <=> to \in {"DISPATCHED", "UNRESOLVED"}
  PROVE  UnitsOK'
<1>1. actions' = actions /\ remaining' = remaining /\ receipts' = receipts
  BY DEF cases
<1>2. Taking' = Taking /\ Waiting' = Waiting
  BY SameConsultations
<1>3. Paid' = Paid
  BY <1>1 DEF Paid, Consulted
<1>4. "execution" \in Purposes /\ DOMAIN actions \subseteq RequestIds
  BY DEF Purposes, SInv, TablesOK
<1>5. \A r \in RequestIds : State(<<r, "execution">>)' =
        IF r = id /\ purpose = "execution" THEN to ELSE State(<<r, "execution">>)
  BY <1>4 DEF Moves
<1>6. \A r \in DOMAIN actions : actions[r].action = "consult" /\ <<r, "execution">> \notin DOMAIN receipts =>
         (State(<<r, "execution">>)' \in {"DISPATCHED", "UNRESOLVED"}
            <=> State(<<r, "execution">>) \in {"DISPATCHED", "UNRESOLVED"})
  BY <1>4, <1>5
<1>7. Uncertain' = Uncertain
  BY <1>1, <1>6 DEF Uncertain, Consulted
<1>8. QED
  BY <1>1, <1>2, <1>3, <1>7 DEF SInv, UnitsOK

-----------------------------------------------------------------------------
(* The steps *)

LEMMA ReceiveInductive ==
  ASSUME SInv, NEW w \in Workers, NEW r \in RequestIds, NEW task \in CASES, NEW action \in Actions,
         Receive(w, r, task, action)
  PROVE  SInv'
<1> DEFINE row == [Idle EXCEPT !.pc = "view", !.id = r, !.task = task, !.action = action]
<1>1. /\ row \in WorkerRow /\ row.pc = "view" /\ row.id = r /\ row.task = task /\ row.action = action
      /\ row.purpose = None
  BY DEF Idle, WorkerRow
<1>2. /\ workers' = [workers EXCEPT ![w] = row] /\ Me(w).pc = "idle" /\ Free(task)
      /\ UNCHANGED <<kernel, cases, receipts, interrupted, reconciled>>
  BY DEF Receive, At, Me
<1> HIDE DEF row
<1>3. Moved(w) /\ workers'[w] = row
  BY <1>1, <1>2, RowStep DEF SInv
<1>4. task # None
  BY SemanticAssumption
<1>5. WorkerOK(w)' /\ ~ Consults(w)'
  BY <1>1, <1>3, <1>4 DEF WorkerOK, Knows, IsRecorded, Pays, Concludes, Consults, UnderWay, At, Me
<1>6. ~ Consults(w) /\ ~ At(w, "giveback")
  BY <1>2 DEF Consults, At, Me
<1>7. QED
  BY <1>1, <1>2, <1>3, <1>5, <1>6, WorkerStep

LEMMA ReadViewInductive ==
  ASSUME SInv, NEW w \in Workers, ReadView(w)
  PROVE  SInv'
<1> DEFINE open == tasks[Me(w).task].status = "OPEN" /\ tasks[Me(w).task].steps < DEADLINE_STEPS
           offered == Available(Me(w).task)
           row == [workers[w] EXCEPT !.pc = "begin", !.open = open, !.offered = offered]
<1>1. /\ workers[w] \in WorkerRow /\ Me(w).pc = "view" /\ ~ At(w, "idle") /\ UNCHANGED <<kernel, cases, receipts, interrupted, reconciled>>
      /\ Me(w).id \in RequestIds /\ Me(w).task \in CASES /\ Me(w).action \in Actions
  BY RowTypes DEF SInv, ReadView, At, Me
<1>2. open \in BOOLEAN /\ offered \in SUBSET Actions
  BY DEF Available, Actions
<1>3. workers' = [workers EXCEPT ![w] = row]
  BY <1>1 DEF ReadView, SInv, WorkersOK
<1> HIDE DEF offered
<1>4. /\ row \in WorkerRow /\ row.pc = "begin" /\ row.id = Me(w).id /\ row.task = Me(w).task /\ row.action = Me(w).action
      /\ row.open = open
  BY <1>1, <1>2 DEF WorkerRow, Me
<1> HIDE DEF row
<1>5. Moved(w) /\ workers'[w] = row
  BY <1>3, <1>4, RowStep DEF SInv
<1>6. Me(w).task # None /\ tasks' = tasks
  BY <1>1, SemanticAssumption DEF cases
<1>7. WorkerOK(w)' /\ ~ Consults(w)'
  BY <1>1, <1>4, <1>5, <1>6 DEF WorkerOK, Knows, IsRecorded, Pays, Concludes, Consults, UnderWay, At, Me
<1>8. ~ Consults(w) /\ ~ At(w, "giveback")
  BY <1>1 DEF Consults, At, Me
<1>9. QED
  BY <1>1, <1>4, <1>5, <1>7, <1>8, WorkerStep

(* A thread that has nothing more to do, and leaves nothing reserved. *)
LEMMA RestInductive ==
  ASSUME SInv, NEW w \in Workers, ~ At(w, "idle"), Ends(w), UNCHANGED <<kernel, cases, receipts, interrupted, reconciled>>,
         ~ Consults(w), At(w, "giveback") => \A p \in Purposes : State(<<Me(w).id, p>>) # "RESERVED"
  PROVE  SInv'
<1>1. Moved(w) /\ workers'[w] = Idle
  BY EndsRow DEF SInv
<1>2. WorkerOK(w)' /\ ~ Consults(w)'
  BY <1>1, IdleKnows
<1>3. Me(w).task \in CASES /\ workers'[w].task = None
  BY <1>1, RowTypes, IdleRow DEF SInv
<1>4. QED
  BY <1>1, <1>2, <1>3, WorkerStep

(* A thread that goes on with its action, about whose hold it learnt. *)
LEMMA GoesOn ==
  ASSUME SInv, NEW w \in Workers, Me(w).pc \in UnderWay, UNCHANGED <<kernel, cases, receipts, interrupted, reconciled>>,
         Moved(w), SameAction(w), WorkerOK(w)', ~ Consults(w), ~ Consults(w)',
         At(w, "giveback") => workers'[w].pc = "giveback"
  PROVE  SInv'
BY WorkerStep, RowTypes DEF SInv, SameAction

(* What a thread that goes on with its action still knows of it. *)
LEMMA SameRecord ==
  ASSUME WorkersOK, NEW w \in Workers, Me(w).pc \in UnderWay, UNCHANGED actions,
         NEW id, id = Me(w).id, NEW purpose, purpose = Me(w).purpose, SameAction(w)
  PROVE  /\ id \in RequestIds /\ purpose \in Purposes /\ Me(w).task \in CASES /\ Me(w).action \in Actions
         /\ workers'[w].id = id /\ workers'[w].task = Me(w).task /\ workers'[w].action = Me(w).action
         /\ id \in DOMAIN actions' /\ actions'[id].task = Me(w).task /\ actions'[id].action = Me(w).action
         /\ actions'[id].result = IF At(w, "giveback") THEN "denied" ELSE "none"
BY Known DEF SameAction

LEMMA NotConsulting ==
  ASSUME NEW w \in Workers
  PROVE  /\ Me(w).pc \notin {"consume", "record"} => ~ Consults(w)
         /\ workers'[w].pc \notin {"consume", "record"} => ~ Consults(w)'
         /\ \A pc : At(w, pc) <=> Me(w).pc = pc
BY DEF Consults, Me, At

LEMMA DoneKnows ==
  ASSUME SInv, NEW w \in Workers, Me(w).pc \in {"claim", "doubt", "settle"}, Done(w), UNCHANGED actions,
         NEW id, id = Me(w).id, NEW purpose, purpose = Me(w).purpose, NEW to \in Ended, Moves(id, purpose, to)
  PROVE  /\ Moved(w) /\ SameAction(w) /\ WorkerOK(w)' /\ ~ Consults(w)'
         /\ workers'[w].task = None \/ workers'[w].task = Me(w).task
<1>0. WorkersOK /\ Me(w).pc \in UnderWay /\ Me(w).pc \notin {"deny", "giveback"} /\ ~ At(w, "giveback")
  BY NotConsulting DEF SInv, UnderWay
<1>1. /\ id \in RequestIds /\ purpose \in Purposes
      /\ purpose = "execution" => Me(w).action # "abstain" /\ State(<<id, "planning">>) \in Ended
  BY <1>0, Known
<1>2. /\ Moved(w) /\ SameAction(w)
      /\ \/ /\ workers'[w].pc = "prepare" /\ workers'[w].purpose = "execution"
            /\ purpose = "planning" /\ Me(w).action # "abstain"
         \/ /\ workers'[w].pc = "finish" /\ workers'[w].purpose = purpose
            /\ purpose = "execution" \/ Me(w).action = "abstain"
  BY <1>0, DoneRow
<1>3. /\ Me(w).task \in CASES /\ Me(w).action \in Actions
      /\ workers'[w].id = id /\ workers'[w].task = Me(w).task /\ workers'[w].action = Me(w).action
      /\ id \in DOMAIN actions' /\ actions'[id].task = Me(w).task /\ actions'[id].action = Me(w).action
      /\ actions'[id].result = "none"
  BY <1>0, <1>2, SameRecord
<1>4. \A p \in Purposes : State(<<id, p>>)' = IF p = purpose THEN to ELSE State(<<id, p>>)
  BY <1>1 DEF Moves
<1>5. /\ "planning" \in Purposes /\ "execution" \in Purposes
      /\ \A p \in Purposes : p = "planning" \/ p = "execution"
  BY DEF Purposes
<1>6. State(<<id, "planning">>)' \in Ended
  BY <1>1, <1>4, <1>5
<1>7. CASE workers'[w].pc = "prepare" /\ workers'[w].purpose = "execution" /\ Me(w).action # "abstain"
  <2>1. WorkerOK(w)'
    <3>1. "prepare" \in UnderWay
      BY DEF UnderWay
    <3>2. PICK action \in Actions, task \in CASES : action = Me(w).action /\ task = Me(w).task
      BY <1>3
    <3>3. Supported(w, id, "execution", action, "prepare")
      BY <1>6, <1>7, <3>2 DEF Supported
    <3>4. QED
      BY <1>1, <1>3, <1>5, <1>7, <3>1, <3>2, <3>3, UnderWayKnows
  <2>2. QED
    BY <1>2, <1>3, <1>7, <2>1, NotConsulting
<1>8. CASE workers'[w].pc = "finish" /\ workers'[w].purpose = purpose /\ (purpose = "execution" \/ Me(w).action = "abstain")
  <2>1. WorkerOK(w)'
    <3>1. "finish" \in UnderWay
      BY DEF UnderWay
    <3>2. PICK action \in Actions, task \in CASES : action = Me(w).action /\ task = Me(w).task
      BY <1>3
    <3>3. action # "abstain" => State(<<id, "execution">>)' \in Ended
      BY <1>4, <1>5, <1>8, <3>2
    <3>4. purpose = "execution" => action # "abstain"
      BY <1>1, <3>2
    <3>5. Supported(w, id, purpose, action, "finish")
      BY <1>6, <3>3, <3>4 DEF Supported
    <3>6. QED
      BY <1>1, <1>3, <1>8, <3>1, <3>2, <3>5, UnderWayKnows
  <2>2. QED
    BY <1>2, <1>3, <1>8, <2>1, NotConsulting
<1>9. QED
  BY <1>2, <1>7, <1>8

(* A thread that goes to another step of the same payment. *)
Paying == {"prepare", "claim", "consume", "record", "doubt", "settle"}

Proceeds(w, id, purpose, to) ==
  \/ workers'[w].pc = "claim" /\ to # "NONE"
  \/ workers'[w].pc = "settle" /\ <<id, purpose>> \in DOMAIN receipts'
  \/ /\ workers'[w].pc = "doubt" /\ <<id, purpose>> \notin DOMAIN receipts'
     /\ to \in {"DISPATCHED", "UNRESOLVED"} \/ <<id, purpose>> \in reconciled'
  \/ /\ workers'[w].pc \in {"consume", "record"} /\ <<id, purpose>> \notin DOMAIN receipts'
     /\ to = "DISPATCHED" \/ <<id, purpose>> \in reconciled'
     /\ workers'[w].charge \in Charged
     /\ workers'[w].pc = "consume" => purpose = "execution" /\ Me(w).action = "consult"

LEMMA GotoKnows ==
  ASSUME SInv, NEW w \in Workers, Me(w).pc \in Paying, UNCHANGED actions,
         NEW id, id = Me(w).id, NEW purpose, purpose = Me(w).purpose, NEW to, Moves(id, purpose, to),
         to = State(<<id, purpose>>) \/ State(<<id, purpose>>) \notin Ended,
         Moved(w), SameAction(w), workers'[w].purpose = purpose,
         Proceeds(w, id, purpose, to)
  PROVE  WorkerOK(w)'
<1>0. WorkersOK /\ Me(w).pc \in UnderWay /\ Me(w).pc \notin {"deny", "giveback"} /\ ~ At(w, "giveback")
  BY NotConsulting DEF SInv, UnderWay, Paying
<1>1. /\ id \in RequestIds /\ purpose \in Purposes
      /\ purpose = "execution" => Me(w).action # "abstain" /\ State(<<id, "planning">>) \in Ended
  BY <1>0, Known
<1>2. /\ Me(w).task \in CASES /\ Me(w).action \in Actions
      /\ workers'[w].id = id /\ workers'[w].task = Me(w).task /\ workers'[w].action = Me(w).action
      /\ id \in DOMAIN actions' /\ actions'[id].task = Me(w).task /\ actions'[id].action = Me(w).action
      /\ actions'[id].result = "none"
  BY <1>0, SameRecord
<1>3. \A p \in Purposes : State(<<id, p>>)' = IF p = purpose THEN to ELSE State(<<id, p>>)
  BY <1>1 DEF Moves
<1>4. State(<<id, purpose>>)' = to
  BY <1>1, <1>3
<1>5. purpose = "execution" => State(<<id, "planning">>)' \in Ended
  BY <1>1, <1>3 DEF Purposes
<1>6. PICK action \in Actions, task \in CASES : action = Me(w).action /\ task = Me(w).task
  BY <1>2
<1>7. PICK pc \in UnderWay : pc = workers'[w].pc
  BY DEF UnderWay, Proceeds
<1>8. pc \in {"claim", "settle", "doubt", "consume", "record"}
  BY <1>7 DEF Proceeds
<1>9. pc \notin {"finish", "done", "unresolved"} /\ pc # "deny" /\ pc # "giveback"
  BY <1>8
<1>10. /\ pc = "claim" => to # "NONE"
       /\ pc \in {"consume", "record", "doubt"} => Open(pc, <<id, purpose>>)' /\ <<id, purpose>> \notin DOMAIN receipts'
       /\ pc \in {"consume", "record"} => workers'[w].charge \in Charged
       /\ pc = "consume" => purpose = "execution" /\ action = "consult"
       /\ pc = "settle" => <<id, purpose>> \in DOMAIN receipts'
  BY <1>4, <1>6, <1>7 DEF Proceeds, Open
<1>11. purpose = "execution" => action # "abstain"
  BY <1>1, <1>6
<1>12. Supported(w, id, purpose, action, pc)
  BY <1>4, <1>5, <1>9, <1>10, <1>11 DEF Supported
<1>13. QED
  BY <1>1, <1>2, <1>6, <1>7, <1>9, <1>12, UnderWayKnows

(* A payment names its hold and costs an amount of the list. *)
LEMMA Payment ==
  ASSUME SInv, NEW w \in Workers, Me(w).pc \in Paying
  PROVE  /\ Me(w).pc \in UnderWay /\ ~ At(w, "giveback")
         /\ Me(w).id \in RequestIds /\ Me(w).purpose \in Purposes /\ Hold(w) = <<Me(w).id, Me(w).purpose>>
         /\ CostOf(w) \in DOMAIN COSTS
         /\ CostOf(w) = "consult" => Me(w).purpose = "execution" /\ Me(w).action = "consult"
         /\ CostOf(w) # "consult" => Me(w).purpose = "planning" \/ Me(w).action # "consult"
<1>1. /\ Me(w).pc \in Paying /\ Me(w).pc \in UnderWay
      /\ Me(w).pc \notin {"deny", "giveback"} /\ ~ At(w, "giveback") /\ WorkersOK
  BY NotConsulting DEF UnderWay, SInv, Paying
<1>2. Me(w).id \in RequestIds /\ Me(w).purpose \in Purposes /\ Me(w).action \in Actions
  BY <1>1, RowTypes
<1>3. Hold(w) = <<Me(w).id, Me(w).purpose>>
  BY DEF Hold
<1>4. Me(w).purpose = "execution" => Me(w).action # "abstain"
  BY <1>1, Known
<1>5. Me(w).purpose = "planning" \/ Me(w).purpose = "execution"
  BY <1>2 DEF Purposes
<1>6. CostOf(w) \in DOMAIN COSTS
  BY <1>2, <1>4, <1>5, CostAmounts DEF CostOf, Actions
<1>7. /\ CostOf(w) = "consult" => Me(w).purpose = "execution" /\ Me(w).action = "consult"
      /\ CostOf(w) # "consult" => Me(w).purpose = "planning" \/ Me(w).action # "consult"
  BY <1>5 DEF CostOf
<1>8. QED
  BY <1>1, <1>2, <1>3, <1>6, <1>7

LEMMA PrepareInductive ==
  ASSUME SInv, NEW w \in Workers, Prepare(w)
  PROVE  SInv'
<1>1. Me(w).pc = "prepare" /\ UNCHANGED <<cases, receipts, interrupted, reconciled>> /\ UNCHANGED actions /\ WorkersOK
  BY DEF Prepare, At, Me, cases, SInv
<1>2. PICK id \in RequestIds, purpose \in Purposes : id = Me(w).id /\ purpose = Me(w).purpose
  BY <1>1, Payment DEF Paying
<1>3. /\ Me(w).pc \in Paying /\ Me(w).pc \in UnderWay /\ ~ At(w, "giveback")
      /\ Hold(w) = <<id, purpose>> /\ CostOf(w) \in DOMAIN COSTS /\ ~ Consults(w) /\ At(w, "prepare")
  BY <1>1, <1>2, Payment, NotConsulting DEF Paying
<1>4. L!IInv /\ HoldsOK
  BY DEF SInv
<1>5. CASE <<id, purpose>> \in DOMAIN holds /\ Goto(w, "claim") /\ UNCHANGED kernel
  <2>1. /\ Moved(w) /\ SameAction(w) /\ workers'[w].pc = "claim" /\ workers'[w].purpose = purpose
    BY <1>1, <1>2, <1>5, GotoRow DEF UnderWay
  <2>2. PICK to : to = State(<<id, purpose>>) /\ to # "NONE" /\ Moves(id, purpose, to)
    BY <1>4, <1>5, NothingMoves, StateType DEF kernel
  <2>3. Proceeds(w, id, purpose, to)
    BY <2>1, <2>2 DEF Proceeds
  <2>4. WorkerOK(w)' /\ ~ Consults(w)'
    BY <1>1, <1>2, <1>3, <2>1, <2>2, <2>3, GotoKnows, NotConsulting
  <2>5. QED
    BY <1>1, <1>3, <1>5, <2>1, <2>4, GoesOn
<1>6. CASE /\ Approved(w) /\ Reserve(Agent, <<id, purpose>>, COSTS[CostOf(w)], CostOf(w), None)
           /\ Goto(w, "claim")
  <2>1. /\ Moved(w) /\ SameAction(w) /\ workers'[w].pc = "claim" /\ workers'[w].purpose = purpose
    BY <1>1, <1>2, <1>6, GotoRow DEF UnderWay
  <2>2. L!IInv' /\ State(<<id, purpose>>) = "NONE" /\ Moves(id, purpose, "RESERVED")
    BY <1>3, <1>4, <1>6, ReserveMoves
  <2>3. Proceeds(w, id, purpose, "RESERVED")
    BY <2>1 DEF Proceeds
  <2>4. State(<<id, purpose>>) \notin Ended
    BY <2>2 DEF Ended
  <2>5. WorkerOK(w)' /\ ~ Consults(w)'
    BY <1>1, <1>2, <1>3, <2>1, <2>2, <2>3, <2>4, GotoKnows, NotConsulting
  <2>6. Lawful(w, <<id, purpose>>, "RESERVED")
    BY <1>3, <1>6, <2>2 DEF Lawful
  <2>7. UnitsOK'
    BY <1>1, <1>3, <2>1, <2>2, <2>5, SameUnits
  <2>8. QED
    BY <1>1, <1>2, <1>3, <2>1, <2>2, <2>5, <2>6, <2>7, HoldStep DEF SameAction
<1>7. CASE ~ Approved(w) \/ <<id, purpose>> \notin DOMAIN holds
  <2>1. State(<<id, "execution">>) \in {"NONE", "RESERVED", "RELEASED"}
    <3>1. /\ id \in DOMAIN actions /\ actions[id].task = Me(w).task /\ actions[id].action = Me(w).action
      BY <1>1, <1>2, <1>3, Known
    <3>2. CASE ~ Approved(w)
      BY <1>2, <1>4, <3>1, <3>2 DEF Approved, HoldsOK, Execution
    <3>3. CASE <<id, purpose>> \notin DOMAIN holds
      <4>1. State(<<id, purpose>>) = "NONE"
        BY <1>4, <3>3, StateType
      <4>2. purpose = "planning" => State(<<id, "execution">>) = "NONE"
        BY <1>4, <4>1 DEF HoldsOK, Execution, Plan, Ended
      <4>3. QED
        BY <4>1, <4>2 DEF Purposes
    <3>4. QED
      BY <1>7, <3>2, <3>3
  <2>2. CASE Goto(w, "deny") /\ UNCHANGED kernel
    <3>1. /\ Moved(w) /\ SameAction(w) /\ workers'[w].pc = "deny" /\ workers'[w].purpose = purpose
      BY <1>1, <1>2, <2>2, GotoRow DEF UnderWay
    <3>2. State(<<id, "execution">>)' = State(<<id, "execution">>)
      BY <2>2 DEF kernel, State
    <3>3. /\ workers'[w].id = id /\ workers'[w].task = Me(w).task /\ workers'[w].action = Me(w).action
          /\ id \in DOMAIN actions' /\ actions'[id].task = Me(w).task /\ actions'[id].action = Me(w).action
          /\ actions'[id].result = "none" /\ Me(w).task \in CASES /\ Me(w).action \in Actions
      BY <1>1, <1>2, <1>3, <3>1, SameRecord
    <3>4. PICK action \in Actions, task \in CASES : action = Me(w).action /\ task = Me(w).task
      BY <3>3
    <3>5. Supported(w, id, purpose, action, "deny") /\ "deny" \in UnderWay
      BY <2>1, <3>2 DEF Supported, UnderWay
    <3>6. WorkerOK(w)' /\ ~ Consults(w)'
      BY <3>1, <3>3, <3>4, <3>5, UnderWayKnows, NotConsulting
    <3>7. QED
      BY <1>1, <1>3, <2>2, <3>1, <3>6, GoesOn
  <2>3. QED
    BY <1>3, <1>5, <1>6, <2>2 DEF Prepare
<1>8. QED
  BY <1>3, <1>5, <1>6, <1>7 DEF Prepare

(* A thread that only learns what its hold came to goes on to the next.     *)
LEMMA DoneInductive ==
  ASSUME SInv, NEW w \in Workers, Me(w).pc \in {"claim", "doubt", "settle"}, State(Hold(w)) \in Ended, Done(w),
         UNCHANGED <<kernel, cases, receipts, interrupted, reconciled>>
  PROVE  SInv'
<1>1. Me(w).pc \in Paying /\ UNCHANGED actions /\ UNCHANGED holds /\ WorkersOK
  BY DEF cases, kernel, SInv, Paying
<1>2. PICK id \in RequestIds, purpose \in Purposes : id = Me(w).id /\ purpose = Me(w).purpose
  BY <1>1, Payment
<1>3. /\ Me(w).pc \in UnderWay /\ ~ At(w, "giveback") /\ Hold(w) = <<id, purpose>> /\ ~ Consults(w)
  BY <1>1, <1>2, Payment, NotConsulting
<1>4. PICK to \in Ended : to = State(<<id, purpose>>)
  BY <1>3
<1>5. Moves(id, purpose, to)
  BY <1>1, <1>4, NothingMoves
<1>6. /\ Moved(w) /\ SameAction(w) /\ WorkerOK(w)' /\ ~ Consults(w)'
  BY <1>1, <1>2, <1>5, DoneKnows
<1>7. QED
  BY <1>3, <1>6, GoesOn

(* A thread that goes to another step of the payment, its hold as it was. *)
LEMMA ProceedInductive ==
  ASSUME SInv, NEW w \in Workers, At(w, "claim"), NEW pc \in {"settle", "doubt"}, Goto(w, pc),
         pc = "settle" => Hold(w) \in DOMAIN receipts,
         pc = "doubt" => State(Hold(w)) \in {"DISPATCHED", "UNRESOLVED"} /\ Hold(w) \notin DOMAIN receipts,
         UNCHANGED <<kernel, cases, receipts, interrupted, reconciled>>
  PROVE  SInv'
<1>1. Me(w).pc = "claim" /\ UNCHANGED actions /\ UNCHANGED holds /\ UNCHANGED receipts /\ WorkersOK
  BY DEF At, Me, cases, kernel, SInv
<1>2. PICK id \in RequestIds, purpose \in Purposes : id = Me(w).id /\ purpose = Me(w).purpose
  BY <1>1, Payment DEF Paying
<1>3. /\ Me(w).pc \in UnderWay /\ ~ At(w, "giveback") /\ Hold(w) = <<id, purpose>> /\ ~ Consults(w)
      /\ Me(w).pc \in Paying
  BY <1>1, <1>2, Payment, NotConsulting DEF Paying
<1>4. PICK to : to = State(<<id, purpose>>)
  OBVIOUS
<1>5. Moves(id, purpose, to)
  BY <1>1, <1>4, NothingMoves
<1>6. /\ Moved(w) /\ SameAction(w) /\ workers'[w].pc = pc /\ workers'[w].purpose = purpose
  BY <1>1, <1>2, GotoRow DEF UnderWay
<1>7. Proceeds(w, id, purpose, to)
  BY <1>1, <1>3, <1>4, <1>6 DEF Proceeds
<1>8. WorkerOK(w)' /\ ~ Consults(w)'
  BY <1>1, <1>2, <1>3, <1>4, <1>5, <1>6, <1>7, GotoKnows, NotConsulting
<1>9. QED
  BY <1>3, <1>6, <1>8, GoesOn

(* A claimed execution of a consultation waits for its unit. *)
LEMMA ClaimedConsultation ==
  ASSUME SInv, NEW w \in Workers, At(w, "claim"), Moved(w), UNCHANGED <<cases, receipts, reconciled>>,
         NEW id \in RequestIds, id = Me(w).id, Me(w).purpose = "execution", Me(w).action = "consult",
         Moves(id, "execution", "DISPATCHED"), State(<<id, "execution">>) = "RESERVED",
         workers'[w].pc = "consume", workers'[w].id = id, workers'[w].purpose = "execution",
         workers'[w].action = "consult"
  PROVE  UnitsOK'
<1>1. actions' = actions /\ remaining' = remaining /\ receipts' = receipts /\ DOMAIN actions \subseteq RequestIds
  BY DEF cases, SInv, TablesOK
<1>2. Paid' = Paid
  BY <1>1 DEF Paid, Consulted
<1>3. \A v \in Workers \ {w} : workers'[v] = workers[v]
  BY DEF Moved
<1>4. ~ Consults(w) /\ ~ Takes(w)
  BY DEF Consults, Takes, At, Me
<1>5. Consults(w)' /\ ~ Takes(w)' /\ Me(w)'.id = id
  BY DEF Consults, Takes, At, Me
<1>6. Taking' \subseteq Taking
  <2>1. \A v \in Workers : Takes(v)' => Takes(v) /\ Me(v)' = Me(v)
    BY <1>3, <1>5 DEF Takes, Consults, At, Me
  <2>2. QED
    BY <2>1 DEF Taking
<1>7. Waiting' \subseteq Waiting \cup {id}
  <2>1. \A v \in Workers : Consults(v)' /\ ~ Takes(v)' => v = w \/ (Consults(v) /\ ~ Takes(v) /\ Me(v)' = Me(v))
    BY <1>3 DEF Takes, Consults, At, Me
  <2>2. QED
    BY <1>5, <2>1 DEF Waiting
<1>8. \A r \in RequestIds : State(<<r, "execution">>)' = IF r = id THEN "DISPATCHED" ELSE State(<<r, "execution">>)
  BY DEF Moves, Purposes
<1>9. Uncertain \subseteq Uncertain' /\ id \notin Uncertain
  <2>1. <<id, "execution">> \notin reconciled
    BY DEF SInv, ReceiptsOK, Purposes
  <2>2. QED
    BY <1>1, <1>8, <2>1 DEF Uncertain, Consulted
<1>10. /\ (Paid \cup Taking)' \subseteq Paid \cup Taking
       /\ Paid \cup (Uncertain \ Waiting) \subseteq (Paid \cup (Uncertain \ Waiting))'
  BY <1>2, <1>6, <1>7, <1>9
<1>11. QED
  BY <1>1, <1>10, UnitsKept DEF SInv

WritesCharge(w, pc, charge) == workers' = [workers EXCEPT ![w].pc = pc, ![w].charge = charge]

LEMMA ClaimedRow ==
  ASSUME WorkersOK, NEW w \in Workers, NEW pc \in UnderWay, NEW charge \in Charged \cup {None},
         WritesCharge(w, pc, charge)
  PROVE  /\ Moved(w) /\ SameAction(w) /\ workers'[w].pc = pc
         /\ workers'[w].purpose = Me(w).purpose /\ workers'[w].charge = charge
<1> DEFINE row == [workers[w] EXCEPT !.pc = pc, !.charge = charge]
<1>1. workers[w] \in WorkerRow
  BY RowTypes
<1>2. /\ row \in WorkerRow /\ row.pc = pc /\ row.id = workers[w].id /\ row.task = workers[w].task
      /\ row.action = workers[w].action /\ row.purpose = workers[w].purpose /\ row.charge = charge
  BY <1>1 DEF WorkerRow
<1>3. workers' = [workers EXCEPT ![w] = row]
  BY DEF WorkersOK, WritesCharge
<1> HIDE DEF row
<1>4. QED
  BY <1>2, <1>3, RowStep DEF SameAction, Me

LEMMA ClaimInductive ==
  ASSUME SInv, NEW w \in Workers, At(w, "claim"), Dispatch(Hold(w), 0), UNCHANGED <<cases, receipts, interrupted, reconciled>>,
         workers' = [workers EXCEPT ![w].pc = IF CostOf(w) = "consult" THEN "consume" ELSE "record",
                                    ![w].charge = COSTS[CostOf(w)]]
  PROVE  SInv'
<1>1. /\ Me(w).pc = "claim" /\ UNCHANGED actions /\ UNCHANGED receipts /\ WorkersOK /\ L!IInv /\ ReceiptsOK
  BY DEF At, Me, cases, SInv
<1>2. PICK id \in RequestIds, purpose \in Purposes : id = Me(w).id /\ purpose = Me(w).purpose
  BY <1>1, Payment DEF Paying
<1>3. /\ Me(w).pc \in UnderWay /\ ~ At(w, "giveback") /\ Hold(w) = <<id, purpose>> /\ ~ Consults(w)
      /\ Me(w).pc \in Paying /\ CostOf(w) \in DOMAIN COSTS
      /\ CostOf(w) = "consult" => purpose = "execution" /\ Me(w).action = "consult"
      /\ CostOf(w) # "consult" => purpose = "planning" \/ Me(w).action # "consult"
  BY <1>1, <1>2, Payment, NotConsulting DEF Paying
<1>4. L!IInv' /\ State(<<id, purpose>>) = "RESERVED" /\ Moves(id, purpose, "DISPATCHED")
  BY <1>1, <1>3, DispatchMoves
<1>5. PICK pc \in UnderWay : pc = IF CostOf(w) = "consult" THEN "consume" ELSE "record"
  BY DEF UnderWay
<1>6. COSTS[CostOf(w)] \in Charged
  BY <1>3, ChargedType
<1>7. /\ Moved(w) /\ SameAction(w) /\ workers'[w].pc = pc /\ workers'[w].purpose = purpose
      /\ workers'[w].charge \in Charged
  <2>1. PICK charge \in Charged : charge = COSTS[CostOf(w)]
    BY <1>6
  <2>2. WritesCharge(w, pc, charge)
    BY <1>5, <2>1 DEF WritesCharge
  <2>3. WorkersOK
    BY <1>1
  <2>4. /\ Moved(w) /\ SameAction(w) /\ workers'[w].pc = pc
        /\ workers'[w].purpose = Me(w).purpose /\ workers'[w].charge = charge
    BY <2>2, <2>3, ClaimedRow
  <2>5. QED
    BY <1>2, <2>4
<1>8. <<id, purpose>> \notin DOMAIN receipts'
  <2>1. <<id, purpose>> \notin reconciled
    BY <1>1, <1>4 DEF ReceiptsOK
  <2>2. QED
    BY <1>1, <1>4, <2>1 DEF ReceiptsOK
<1>9. Proceeds(w, id, purpose, "DISPATCHED")
  BY <1>3, <1>5, <1>7, <1>8 DEF Proceeds
<1>10. WorkerOK(w)'
  BY <1>1, <1>2, <1>3, <1>4, <1>7, <1>9, GotoKnows DEF Ended
<1>11. UnitsOK'
  <2>1. CASE CostOf(w) = "consult"
    BY <1>2, <1>3, <1>4, <1>5, <1>7, <2>1, ClaimedConsultation DEF SameAction
  <2>2. CASE CostOf(w) # "consult"
    <3>1. /\ Me(w)'.purpose = purpose /\ Me(w)'.action = Me(w).action
      BY <1>7 DEF SameAction, Me
    <3>2. ~ Consults(w)'
      BY <1>3, <2>2, <3>1 DEF Consults
    <3>3. id \in DOMAIN actions /\ actions[id].action = Me(w).action
      BY <1>1, <1>2, <1>3, Known
    <3>4. QED
      BY <1>3, <1>4, <1>7, <2>2, <3>2, <3>3, SameUnits
  <2>3. QED
    BY <2>1, <2>2
<1>12. Lawful(w, <<id, purpose>>, "DISPATCHED")
  BY <1>4 DEF Lawful
<1>13. QED
  BY <1>2, <1>3, <1>4, <1>7, <1>10, <1>11, <1>12, HoldStep DEF SameAction

LEMMA ClaimDenied ==
  ASSUME SInv, NEW w \in Workers, At(w, "claim"), State(Hold(w)) = "RESERVED", Goto(w, "deny"),
         UNCHANGED <<kernel, cases, receipts, interrupted, reconciled>>
  PROVE  SInv'
<1>1. Me(w).pc = "claim" /\ UNCHANGED actions /\ UNCHANGED holds /\ WorkersOK /\ HoldsOK
  BY DEF At, Me, cases, kernel, SInv
<1>2. PICK id \in RequestIds, purpose \in Purposes : id = Me(w).id /\ purpose = Me(w).purpose
  BY <1>1, Payment DEF Paying
<1>3. /\ Me(w).pc \in UnderWay /\ ~ At(w, "giveback") /\ Hold(w) = <<id, purpose>> /\ ~ Consults(w)
  BY <1>1, <1>2, Payment, NotConsulting DEF Paying
<1>4. State(<<id, "execution">>) \in {"NONE", "RESERVED"}
  <2>1. CASE purpose = "execution"
    BY <1>3, <2>1
  <2>2. CASE purpose = "planning"
    <3>1. State(<<id, "planning">>) \notin Ended
      BY <1>3, <2>2 DEF Ended
    <3>2. QED
      BY <1>1, <3>1 DEF HoldsOK, Execution, Plan
  <2>3. QED
    BY <2>1, <2>2 DEF Purposes
<1>5. /\ Moved(w) /\ SameAction(w) /\ workers'[w].pc = "deny" /\ workers'[w].purpose = purpose
  BY <1>1, <1>2, <1>3, GotoRow DEF UnderWay
<1>6. /\ workers'[w].id = id /\ workers'[w].task = Me(w).task /\ workers'[w].action = Me(w).action
      /\ id \in DOMAIN actions' /\ actions'[id].task = Me(w).task /\ actions'[id].action = Me(w).action
      /\ actions'[id].result = "none" /\ Me(w).task \in CASES /\ Me(w).action \in Actions
  BY <1>1, <1>2, <1>3, <1>5, SameRecord
<1>7. PICK action \in Actions, task \in CASES : action = Me(w).action /\ task = Me(w).task
  BY <1>6
<1>8. State(<<id, "execution">>)' = State(<<id, "execution">>)
  BY <1>1 DEF State
<1>9. Supported(w, id, purpose, action, "deny") /\ "deny" \in UnderWay
  BY <1>4, <1>8 DEF Supported, UnderWay
<1>10. WorkerOK(w)' /\ ~ Consults(w)'
  BY <1>5, <1>6, <1>7, <1>9, UnderWayKnows, NotConsulting
<1>11. QED
  BY <1>3, <1>5, <1>10, GoesOn

LEMMA ClaimHoldInductive ==
  ASSUME SInv, NEW w \in Workers, ClaimHold(w)
  PROVE  SInv'
<1>1. At(w, "claim") /\ UNCHANGED <<cases, receipts, interrupted, reconciled>>
  BY DEF ClaimHold
<1>2. CASE State(Hold(w)) \in {"SETTLED", "RELEASED"} /\ Done(w) /\ UNCHANGED kernel
  <2>1. Me(w).pc \in {"claim", "doubt", "settle"} /\ State(Hold(w)) \in Ended
    BY <1>1, <1>2 DEF At, Me, Ended
  <2>2. QED
    BY <1>1, <1>2, <2>1, DoneInductive
<1>3. CASE Hold(w) \in DOMAIN receipts /\ Goto(w, "settle") /\ UNCHANGED kernel
  BY <1>1, <1>3, ProceedInductive
<1>4. CASE /\ State(Hold(w)) \in {"DISPATCHED", "UNRESOLVED"} /\ Hold(w) \notin DOMAIN receipts
           /\ Goto(w, "doubt") /\ UNCHANGED kernel
  BY <1>1, <1>4, ProceedInductive
<1>5. CASE /\ Dispatch(Hold(w), 0)
           /\ workers' = [workers EXCEPT ![w].pc = IF CostOf(w) = "consult" THEN "consume" ELSE "record",
                                         ![w].charge = COSTS[CostOf(w)]]
  BY <1>1, <1>5, ClaimInductive
<1>6. CASE State(Hold(w)) = "RESERVED" /\ Goto(w, "deny") /\ UNCHANGED kernel
  BY <1>1, <1>6, ClaimDenied
<1>7. QED
  BY <1>2, <1>3, <1>4, <1>5, <1>6 DEF ClaimHold

LEMMA DoubtHoldInductive ==
  ASSUME SInv, NEW w \in Workers, DoubtHold(w)
  PROVE  SInv'
<1>1. /\ Me(w).pc = "doubt" /\ At(w, "doubt") /\ UNCHANGED actions /\ UNCHANGED <<cases, receipts, reconciled>>
      /\ UNCHANGED <<cases, receipts, interrupted, reconciled>> /\ WorkersOK /\ L!IInv /\ ~ At(w, "idle")
  BY DEF DoubtHold, At, Me, cases, SInv
<1>2. PICK id \in RequestIds, purpose \in Purposes : id = Me(w).id /\ purpose = Me(w).purpose
  BY <1>1, Payment DEF Paying
<1>3. /\ Me(w).pc \in UnderWay /\ ~ At(w, "giveback") /\ Hold(w) = <<id, purpose>> /\ ~ Consults(w)
  BY <1>1, <1>2, Payment, NotConsulting DEF Paying
<1>4. CASE MarkUnresolved(Hold(w)) /\ Done(w)
  <2>1. L!IInv' /\ State(<<id, purpose>>) = "DISPATCHED" /\ Moves(id, purpose, "UNRESOLVED")
    BY <1>1, <1>3, <1>4, DoubtMoves
  <2>2. "UNRESOLVED" \in Ended
    BY DEF Ended
  <2>3. /\ Moved(w) /\ SameAction(w) /\ WorkerOK(w)' /\ ~ Consults(w)'
        /\ workers'[w].task = None \/ workers'[w].task = Me(w).task
    BY <1>1, <1>2, <1>4, <2>1, <2>2, DoneKnows
  <2>4. UnitsOK'
    BY <1>1, <1>3, <2>1, <2>3, SameUnits
  <2>5. Lawful(w, <<id, purpose>>, "UNRESOLVED")
    BY <1>1, <2>1 DEF Lawful
  <2>6. QED
    BY <1>1, <1>2, <1>3, <2>1, <2>3, <2>4, <2>5, HoldStep
<1>5. CASE State(Hold(w)) = "UNRESOLVED" /\ Done(w) /\ UNCHANGED kernel
  <2>1. State(Hold(w)) \in Ended /\ Me(w).pc \in {"claim", "doubt", "settle"}
    BY <1>1, <1>5 DEF Ended
  <2>2. QED
    BY <1>1, <1>5, <2>1, DoneInductive
<1>6. CASE Ends(w) /\ UNCHANGED kernel
  BY <1>1, <1>3, <1>6, RestInductive
<1>7. QED
  BY <1>4, <1>5, <1>6 DEF DoubtHold

LEMMA SettleHoldInductive ==
  ASSUME SInv, NEW w \in Workers, SettleHold(w)
  PROVE  SInv'
<1>1. /\ Me(w).pc = "settle" /\ At(w, "settle") /\ UNCHANGED actions /\ UNCHANGED <<cases, receipts, reconciled>>
      /\ UNCHANGED <<cases, receipts, interrupted, reconciled>> /\ WorkersOK /\ L!IInv /\ ReceiptsOK /\ ~ At(w, "idle")
  BY DEF SettleHold, At, Me, cases, SInv
<1>2. PICK id \in RequestIds, purpose \in Purposes : id = Me(w).id /\ purpose = Me(w).purpose
  BY <1>1, Payment DEF Paying
<1>3. /\ Me(w).pc \in UnderWay /\ ~ At(w, "giveback") /\ Hold(w) = <<id, purpose>> /\ ~ Consults(w)
  BY <1>1, <1>2, Payment, NotConsulting DEF Paying
<1>4. CASE Settle(Hold(w), receipts[Hold(w)]) /\ Done(w)
  <2>1. <<id, purpose>> \in DOMAIN receipts
    BY <1>1, <1>2, <1>3, Known
  <2>2. PICK charge \in Charged : charge = receipts[<<id, purpose>>]
    BY <1>1, <2>1 DEF ReceiptsOK
  <2>3. L!IInv' /\ State(<<id, purpose>>) \in {"DISPATCHED", "UNRESOLVED"} /\ Moves(id, purpose, "SETTLED")
    BY <1>1, <1>3, <1>4, <2>2, SettleMoves
  <2>4. State(<<id, purpose>>) = "DISPATCHED"
    BY <1>1, <2>1, <2>3 DEF ReceiptsOK
  <2>5. "SETTLED" \in Ended
    BY DEF Ended
  <2>6. /\ Moved(w) /\ SameAction(w) /\ WorkerOK(w)' /\ ~ Consults(w)'
        /\ workers'[w].task = None \/ workers'[w].task = Me(w).task
    BY <1>1, <1>2, <1>4, <2>3, <2>5, DoneKnows
  <2>7. UnitsOK'
    BY <1>1, <1>3, <2>1, <2>3, <2>6, SameUnits
  <2>8. Lawful(w, <<id, purpose>>, "SETTLED")
    BY <1>1, <2>4 DEF Lawful
  <2>9. QED
    BY <1>1, <1>2, <1>3, <2>3, <2>6, <2>7, <2>8, HoldStep
<1>5. CASE AsReceipted(Hold(w)) /\ Done(w) /\ UNCHANGED kernel
  <2>1. State(Hold(w)) \in Ended /\ Me(w).pc \in {"claim", "doubt", "settle"}
    BY <1>1, <1>5 DEF Ended, AsReceipted
  <2>2. QED
    BY <1>1, <1>5, <2>1, DoneInductive
<1>6. CASE Ends(w) /\ UNCHANGED kernel
  BY <1>1, <1>3, <1>6, RestInductive
<1>7. QED
  BY <1>4, <1>5, <1>6 DEF SettleHold

LEMMA SilenceInductive ==
  ASSUME SInv, NEW w \in Workers, Silence(w)
  PROVE  SInv'
<1>1. /\ Me(w).pc = "record" /\ CostOf(w) = "infer" /\ UNCHANGED actions /\ UNCHANGED holds
      /\ receipts' = receipts /\ reconciled' = reconciled
      /\ UNCHANGED <<kernel, cases, receipts, interrupted, reconciled>> /\ WorkersOK
      /\ workers' = [workers EXCEPT ![w].pc = "doubt", ![w].charge = None]
  BY DEF Silence, At, Me, cases, kernel, SInv
<1>2. PICK id \in RequestIds, purpose \in Purposes : id = Me(w).id /\ purpose = Me(w).purpose
  BY <1>1, Payment DEF Paying
<1>3. /\ Me(w).pc \in UnderWay /\ ~ At(w, "giveback") /\ Hold(w) = <<id, purpose>>
      /\ Me(w).pc \in Paying
      /\ purpose = "planning" \/ Me(w).action # "consult"
  BY <1>1, <1>2, Payment DEF Paying
<1>4. ~ Consults(w)
  BY <1>2, <1>3 DEF Consults
<1>5. WritesCharge(w, "doubt", None) /\ "doubt" \in UnderWay
  BY <1>1 DEF WritesCharge, UnderWay
<1>6. Moved(w) /\ SameAction(w) /\ workers'[w].pc = "doubt" /\ workers'[w].purpose = purpose
  BY <1>1, <1>2, <1>5, ClaimedRow
<1>7. PICK to : to = State(<<id, purpose>>)
  OBVIOUS
<1>8. (to = "DISPATCHED" \/ <<id, purpose>> \in reconciled) /\ <<id, purpose>> \notin DOMAIN receipts
  BY <1>1, <1>2, <1>7, KnownOpen DEF Open
<1>9. Moves(id, purpose, to) /\ Proceeds(w, id, purpose, to)
  BY <1>1, <1>6, <1>7, <1>8, NothingMoves DEF Proceeds
<1>10. WorkerOK(w)' /\ ~ Consults(w)'
  BY <1>1, <1>2, <1>3, <1>6, <1>7, <1>9, GotoKnows, NotConsulting
<1>11. QED
  BY <1>1, <1>3, <1>4, <1>6, <1>10, GoesOn

LEMMA GiveBackInductive ==
  ASSUME SInv, NEW w \in Workers, GiveBack(w)
  PROVE  SInv'
<1>1. /\ Me(w).pc = "giveback" /\ At(w, "giveback") /\ UNCHANGED actions /\ UNCHANGED <<cases, receipts, reconciled>>
      /\ UNCHANGED <<cases, receipts, interrupted, reconciled>> /\ WorkersOK /\ L!IInv /\ ~ At(w, "idle") /\ Me(w).pc \in UnderWay
      /\ GivenBack(w)
  BY DEF GiveBack, At, Me, cases, SInv, UnderWay
<1>2. PICK id \in RequestIds, purpose \in Purposes : id = Me(w).id /\ purpose = Me(w).purpose
  BY <1>1, RowTypes
<1>3. Hold(w) = <<id, purpose>> /\ ~ Consults(w)
  BY <1>1, <1>2, NotConsulting DEF Hold
<1>4. /\ purpose = "planning" => State(<<id, "execution">>) # "RESERVED"
      /\ id \in DOMAIN actions /\ actions[id].task = Me(w).task /\ actions[id].action = Me(w).action
      /\ actions[id].result = "denied"
      /\ Me(w).task \in CASES /\ Me(w).action \in Actions
  BY <1>1, <1>2, Known
<1>5. /\ "planning" \in Purposes /\ "execution" \in Purposes
      /\ \A p \in Purposes : p = "planning" \/ p = "execution"
  BY DEF Purposes
<1>6. PICK to : to = IF State(<<id, purpose>>) = "RESERVED" THEN "RELEASED" ELSE State(<<id, purpose>>)
  OBVIOUS
<1>7. to # "RESERVED"
  BY <1>6
<1>8. /\ L!IInv' /\ Moves(id, purpose, to)
      /\ IF State(<<id, purpose>>) = "RESERVED" THEN Lawful(w, <<id, purpose>>, to) ELSE UNCHANGED kernel
  <2>1. CASE State(<<id, purpose>>) = "RESERVED"
    <3>1. Release(<<id, purpose>>)
      BY <1>3, <2>1 DEF GiveBack
    <3>2. L!IInv' /\ Moves(id, purpose, "RELEASED")
      BY <1>1, <3>1, ReleaseMoves
    <3>3. Lawful(w, <<id, purpose>>, "RELEASED")
      BY <1>1, <2>1 DEF Lawful
    <3>4. QED
      BY <1>6, <2>1, <3>2, <3>3
  <2>2. CASE State(<<id, purpose>>) # "RESERVED"
    <3>1. UNCHANGED kernel
      BY <1>3, <2>2 DEF GiveBack
    <3>2. Moves(id, purpose, to)
      BY <1>6, <2>2, <3>1, NothingMoves DEF kernel
    <3>3. QED
      BY <1>1, <2>2, <3>1, <3>2, KernelStutters
  <2>3. QED
    BY <2>1, <2>2
<1>9. \A p \in Purposes : State(<<id, p>>)' = IF p = purpose THEN to ELSE State(<<id, p>>)
  BY <1>8 DEF Moves
<1>10. /\ Moved(w) /\ WorkerOK(w)' /\ ~ Consults(w)'
       /\ workers'[w].task = None \/ workers'[w].task = Me(w).task
       /\ (workers'[w].pc = "giveback" /\ workers'[w].id = id) \/ purpose = "planning"
  <2>1. CASE purpose = "planning"
    <3>1. Moved(w) /\ workers'[w] = Idle
      BY <1>1, <1>2, <2>1, EndsRow DEF GivenBack
    <3>2. QED
      BY <2>1, <3>1, IdleKnows, IdleRow
  <2>2. CASE purpose = "execution"
    <3> DEFINE row == [workers[w] EXCEPT !.purpose = "planning"]
    <3>1. workers[w] \in WorkerRow
      BY <1>1, RowTypes
    <3>2. /\ row \in WorkerRow /\ row.pc = workers[w].pc /\ row.id = workers[w].id /\ row.task = workers[w].task
          /\ row.action = workers[w].action /\ row.purpose = "planning"
      BY <1>5, <3>1 DEF WorkerRow
    <3>3. workers' = [workers EXCEPT ![w] = row]
      BY <1>1, <1>2, <2>2 DEF GivenBack
    <3> HIDE DEF row
    <3>4. /\ Moved(w) /\ workers'[w].pc = "giveback" /\ workers'[w].id = id /\ workers'[w].purpose = "planning"
          /\ workers'[w].task = Me(w).task /\ workers'[w].action = Me(w).action
      BY <1>1, <1>2, <3>2, <3>3, RowStep DEF Me
    <3>5. PICK action \in Actions, task \in CASES : action = Me(w).action /\ task = Me(w).task
      BY <1>4
    <3>6. State(<<id, "execution">>)' # "RESERVED"
      BY <1>5, <1>7, <1>9, <2>2
    <3>7. Supported(w, id, "planning", action, "giveback") /\ "giveback" \in UnderWay
      BY <3>6 DEF Supported, UnderWay
    <3>8. actions' = actions
      BY <1>1
    <3>9. WorkerOK(w)'
      BY <1>4, <1>5, <3>4, <3>5, <3>7, <3>8, UnderWayKnows
    <3>10. QED
      BY <3>4, <3>9, NotConsulting
  <2>3. QED
    BY <1>5, <2>1, <2>2
<1>11. CASE State(<<id, purpose>>) = "RESERVED"
  <2>1. UnitsOK'
    BY <1>1, <1>3, <1>6, <1>8, <1>10, <1>11, SameUnits
  <2>2. QED
    BY <1>1, <1>2, <1>8, <1>10, <1>11, <2>1, HoldStep
<1>12. CASE State(<<id, purpose>>) # "RESERVED"
  <2>1. \/ workers'[w].pc = "giveback" /\ workers'[w].id = Me(w).id
        \/ \A p \in Purposes : State(<<Me(w).id, p>>) # "RESERVED"
    BY <1>2, <1>4, <1>5, <1>10, <1>12
  <2>2. UNCHANGED <<kernel, cases, receipts, interrupted, reconciled>>
    BY <1>1, <1>8, <1>12
  <2>3. QED
    BY <1>3, <1>4, <1>10, <2>1, <2>2, WorkerStep
<1>13. QED
  BY <1>11, <1>12

(* No two threads are under way with one action. *)
LEMMA OneOfAction ==
  ASSUME WorkersOK, NEW v \in Workers, NEW w \in Workers, Me(v).pc \in UnderWay, Me(w).pc \in UnderWay,
         Me(v).id = Me(w).id
  PROVE  v = w
<1>1. actions[Me(v).id].task = Me(v).task /\ actions[Me(w).id].task = Me(w).task
  BY RowTypes DEF WorkerOK, IsRecorded
<1>2. Me(v).task # None
  BY RowTypes, SemanticAssumption
<1>3. QED
  BY <1>1, <1>2 DEF WorkersOK, OneAtATime

LEMMA ConsultsUnderWay ==
  ASSUME NEW w \in Workers, Consults(w)
  PROVE  Me(w).pc \in UnderWay
BY DEF Consults, UnderWay

(* One more of the one set and one more of the other. *)
LEMMA OneMoreOfEach ==
  ASSUME NEW A, NEW B, NEW id \in RequestIds, A \subseteq RequestIds, B \subseteq RequestIds, id \notin B,
         NEW n \in Int, Cardinality(A) <= n, n <= Cardinality(B),
         NEW A2, A2 \subseteq A \cup {id}, NEW B2, B2 \subseteq RequestIds, B \cup {id} \subseteq B2
  PROVE  Cardinality(A2) <= n + 1 /\ n + 1 <= Cardinality(B2)
<1>1. IsFiniteSet(RequestIds)
  BY SemanticAssumption
<1>2. IsFiniteSet(A) /\ IsFiniteSet(B) /\ IsFiniteSet(B2)
  BY <1>1, FS_Subset
<1>3. Cardinality(A) \in Nat /\ Cardinality(B) \in Nat
  BY <1>2, FS_CardinalityType
<1>4. IsFiniteSet(A \cup {id}) /\ Cardinality(A \cup {id}) <= Cardinality(A) + 1
  <2>1. IsFiniteSet(A \cup {id})
    BY <1>2, FS_AddElement
  <2>2. Cardinality(A \cup {id}) = IF id \in A THEN Cardinality(A) ELSE Cardinality(A) + 1
    BY <1>2, FS_AddElement
  <2>3. QED
    BY <1>3, <2>1, <2>2
<1>5. Cardinality(A2) <= Cardinality(A \cup {id}) /\ IsFiniteSet(A2)
  BY <1>4, FS_Subset
<1>6. Cardinality(B \cup {id}) = Cardinality(B) + 1 /\ IsFiniteSet(B \cup {id})
  BY <1>2, FS_AddElement
<1>7. Cardinality(B \cup {id}) <= Cardinality(B2)
  BY <1>2, FS_Subset
<1>8. Cardinality(A2) \in Nat /\ Cardinality(A \cup {id}) \in Nat /\ Cardinality(B2) \in Nat
  BY <1>2, <1>4, <1>5, FS_CardinalityType
<1>9. QED
  BY <1>3, <1>4, <1>5, <1>6, <1>7, <1>8

LEMMA UnitTaken ==
  ASSUME SInv, NEW w \in Workers, Consume(w), NEW id \in RequestIds, id = Me(w).id, Moved(w),
         Me(w).purpose = "execution", Me(w).action = "consult", SameAction(w),
         workers'[w].pc = "record", workers'[w].purpose = "execution",
         workers'[w].charge = IF remaining > 0 THEN COSTS.consult ELSE 0
  PROVE  UnitsOK'
<1>1. /\ actions' = actions /\ receipts' = receipts /\ DOMAIN actions \subseteq RequestIds /\ WorkersOK
      /\ UNCHANGED holds /\ reconciled' = reconciled /\ At(w, "consume")
  BY DEF SInv, TablesOK, Consume, kernel
<1>2. \A v \in Workers \ {w} : workers'[v] = workers[v]
  BY DEF Moved
<1>3. Consults(w) /\ ~ Takes(w) /\ Me(w).pc = "consume" /\ Me(w).pc \in UnderWay
  BY <1>1 DEF Consults, Takes, At, Me, UnderWay
<1>4. Consults(w)' /\ Me(w)'.id = id
  BY DEF Consults, SameAction, Me
<1>5. \A v \in Workers : Consults(v) /\ Me(v).id = id => v = w
  BY <1>1, <1>3, OneOfAction, ConsultsUnderWay
<1>6. /\ State(<<id, "execution">>) \in {"DISPATCHED", "UNRESOLVED"} \/ <<id, "execution">> \in reconciled
      /\ <<id, "execution">> \notin DOMAIN receipts
  BY <1>1, <1>3, KnownOpen DEF Open
<1>7. id \in DOMAIN actions /\ actions[id].action = "consult"
  BY <1>1, <1>3, Known
<1>8. Paid' = Paid /\ id \notin Paid
  BY <1>1, <1>6 DEF Paid, Consulted
<1>9. Uncertain' = Uncertain /\ id \in Uncertain
  <2>1. id \in Uncertain
    BY <1>6, <1>7 DEF Uncertain, Consulted
  <2>2. \A h : State(h)' = State(h)
    BY <1>1 DEF State
  <2>3. QED
    BY <1>1, <2>1, <2>2 DEF Uncertain, Consulted
<1>10. \A v \in Workers \ {w} : /\ Takes(v)' => Takes(v) /\ Me(v)' = Me(v)
                                /\ Consults(v)' /\ ~ Takes(v)' => Consults(v) /\ ~ Takes(v) /\ Me(v)' = Me(v)
  BY <1>2 DEF Takes, Consults, At, Me
<1>11. id \in Waiting
  BY <1>3 DEF Waiting
<1>12. remaining \in Nat /\ CONSULTATIONS \in Nat /\ remaining <= CONSULTATIONS
  BY SemanticAssumption DEF SInv, TablesOK
<1>13. CASE remaining > 0
  <2>1. Takes(w)'
    BY <1>4, <1>13, CostAmounts DEF Takes, Consults, At, Me
  <2>2. Taking' \subseteq Taking \cup {id}
    BY <1>4, <1>10 DEF Taking
  <2>3. Waiting' \subseteq Waiting \ {id}
    BY <1>5, <1>10, <2>1 DEF Waiting
  <2> DEFINE A == Paid \cup Taking
             B == Paid \cup (Uncertain \ Waiting)
             A2 == Paid \cup Taking'
             B2 == Paid \cup (Uncertain \ Waiting')
             n == CONSULTATIONS - remaining
  <2>4. A \subseteq RequestIds /\ B \subseteq RequestIds /\ B2 \subseteq RequestIds /\ n \in Int
    BY <1>1, <1>12 DEF Paid, Taking, Uncertain, Consulted
  <2>5. id \notin B /\ A2 \subseteq A \cup {id} /\ B \cup {id} \subseteq B2
    BY <1>8, <1>9, <1>11, <2>2, <2>3
  <2>6. Cardinality(A) <= n /\ n <= Cardinality(B)
    BY DEF SInv, UnitsOK
  <2>7. remaining' = remaining - 1
    BY <1>13 DEF Consume
  <2>8. UnitsOK' <=> Cardinality(A2) <= CONSULTATIONS - remaining' /\ CONSULTATIONS - remaining' <= Cardinality(B2)
    BY <1>8, <1>9 DEF UnitsOK
  <2>9. CONSULTATIONS - remaining' = n + 1
    BY <1>12, <2>7
  <2> HIDE DEF A, B, A2, B2, n
  <2>10. Cardinality(A2) <= n + 1 /\ n + 1 <= Cardinality(B2)
    BY <2>4, <2>5, <2>6, OneMoreOfEach
  <2>11. QED
    BY <2>8, <2>9, <2>10
<1>14. CASE ~ remaining > 0
  <2>1. ~ Takes(w)'
    BY <1>14 DEF Takes, Me
  <2>2. Taking' \subseteq Taking
    BY <1>10, <2>1 DEF Taking
  <2>3. Waiting' \subseteq Waiting
    <3>1. \A v \in Workers : Consults(v)' /\ ~ Takes(v)' => Consults(v) /\ ~ Takes(v) /\ Me(v)'.id = Me(v).id
      BY <1>3, <1>4, <1>10
    <3>2. QED
      BY <3>1 DEF Waiting
  <2>4. remaining' = remaining
    BY <1>14 DEF Consume
  <2>5. (Paid \cup Taking)' \subseteq Paid \cup Taking
    BY <1>8, <2>2
  <2>6. Paid \cup (Uncertain \ Waiting) \subseteq (Paid \cup (Uncertain \ Waiting))'
    BY <1>8, <1>9, <2>3
  <2>7. QED
    BY <1>1, <2>4, <2>5, <2>6, UnitsKept DEF SInv
<1>15. QED
  BY <1>13, <1>14

LEMMA ConsumeInductive ==
  ASSUME SInv, NEW w \in Workers, Consume(w)
  PROVE  SInv'
<1>1. /\ Me(w).pc = "consume" /\ UNCHANGED actions /\ UNCHANGED holds /\ UNCHANGED kernel /\ tasks' = tasks
      /\ receipts' = receipts /\ interrupted' = interrupted /\ reconciled' = reconciled /\ WorkersOK
      /\ remaining' = (IF remaining > 0 THEN remaining - 1 ELSE remaining)
  BY DEF Consume, At, Me, cases, kernel, SInv
<1>2. PICK id \in RequestIds, purpose \in Purposes : id = Me(w).id /\ purpose = Me(w).purpose
  BY <1>1, Payment DEF Paying
<1>3. /\ Me(w).pc \in UnderWay /\ ~ At(w, "giveback") /\ Hold(w) = <<id, purpose>>
      /\ Me(w).pc \in Paying /\ At(w, "consume")
  BY <1>1, <1>2, Payment, NotConsulting DEF Paying
<1>4. purpose = "execution" /\ Me(w).action = "consult" /\ Me(w).task \in CASES
  BY <1>1, <1>2, <1>3, Known
<1>5. PICK charge \in Charged : charge = IF remaining > 0 THEN COSTS.consult ELSE 0
  BY ChargedType, CostAmounts
<1>6. WritesCharge(w, "record", charge) /\ "record" \in UnderWay
  BY <1>5 DEF Consume, WritesCharge, UnderWay
<1>7. /\ Moved(w) /\ SameAction(w) /\ workers'[w].pc = "record" /\ workers'[w].purpose = purpose
      /\ workers'[w].charge = charge
  BY <1>1, <1>2, <1>6, ClaimedRow
<1>8. (State(<<id, purpose>>) = "DISPATCHED" \/ <<id, purpose>> \in reconciled) /\ <<id, purpose>> \notin DOMAIN receipts
  BY <1>1, <1>2, KnownOpen DEF Open
<1>9. PICK to : to = State(<<id, purpose>>) /\ Moves(id, purpose, to) /\ Proceeds(w, id, purpose, to)
  BY <1>1, <1>5, <1>7, <1>8, NothingMoves DEF Proceeds
<1>10. WorkerOK(w)'
  BY <1>1, <1>2, <1>3, <1>7, <1>9, GotoKnows
<1>11. \A h : State(h)' = State(h)
  BY <1>1 DEF State
<1>12. WorkersOK'
  <2>1. Elsewhere(Me(w).task)
    BY <1>1, <1>11 DEF Elsewhere
  <2>2. Me(w).task # None
    BY <1>4, SemanticAssumption
  <2>3. QED
    BY <1>1, <1>7, <1>10, <2>1, <2>2, WorkersKept DEF SameAction
<1>13. TablesOK'
  <2>1. remaining' \in 0 .. CONSULTATIONS
    BY <1>1, SemanticAssumption DEF SInv, TablesOK
  <2>2. QED
    BY <1>1, <2>1 DEF SInv, TablesOK
<1>14. CasesOK'
  <2>1. \A t : ActionsOf(t)' = ActionsOf(t) /\ Pending(t)' = Pending(t) /\ ClosedBy(t)' = ClosedBy(t)
    BY <1>1 DEF ActionsOf, Pending, ClosedBy
  <2>2. QED
    BY <1>1, <2>1 DEF SInv, CasesOK, CaseOK
<1>15. L!IInv' /\ HoldsOK' /\ ReceiptsOK' /\ AnswersOK'
  <2>1. L!IInv'
    BY <1>1, KernelStutters DEF SInv
  <2>2. HoldsOK' /\ ReceiptsOK'
    BY <1>1, <1>11 DEF SInv, HoldsOK, ReceiptsOK, Plan, Execution
  <2>3. AnswersOK'
    BY <1>1, <1>11 DEF SInv, AnswersOK, Matched, Unconfirmed, OnlyOperator, Execution
  <2>4. QED
    BY <2>1, <2>2, <2>3
<1>16. ReservedIsOwed'
  BY <1>1, <1>3, <1>7, <1>11, StillOwed DEF SInv, ReservedIsOwed
<1>17. UnitsOK'
  BY <1>2, <1>4, <1>5, <1>7, UnitTaken
<1>18. QED
  BY <1>12, <1>13, <1>14, <1>15, <1>16, <1>17 DEF SInv

LEMMA ReceiptStored ==
  ASSUME SInv, NEW w \in Workers, RecordReceipt(w), Moved(w), workers'[w].pc = "settle", UNCHANGED holds
  PROVE  UnitsOK'
<1>1. /\ actions' = actions /\ remaining' = remaining /\ DOMAIN actions \subseteq RequestIds /\ WorkersOK
      /\ At(w, "record") /\ Me(w).pc = "record" /\ receipts' = Insert(receipts, Hold(w), Me(w).charge)
      /\ ReceiptsOK /\ reconciled' = reconciled
  BY DEF SInv, TablesOK, RecordReceipt, cases, At, Me
<1>2. PICK id \in RequestIds, purpose \in Purposes : id = Me(w).id /\ purpose = Me(w).purpose /\ Hold(w) = <<id, purpose>>
  BY <1>1, Payment DEF Paying
<1>3. Me(w).pc \in UnderWay /\ Me(w).charge \in Charged /\ <<id, purpose>> \notin DOMAIN receipts
  BY <1>1, <1>2, KnownOpen DEF UnderWay
<1>4. actions[id].action = Me(w).action /\ id \in DOMAIN actions
  BY <1>1, <1>2, <1>3, Known
<1>5. PICK charge \in Charged : charge = Me(w).charge
  BY <1>3
<1>6. /\ DOMAIN receipts' = DOMAIN receipts \cup {<<id, purpose>>} /\ receipts'[<<id, purpose>>] = charge
      /\ \A h \in DOMAIN receipts : receipts'[h] = receipts[h]
  BY <1>1, <1>2, <1>3, <1>5 DEF Insert
<1>7. \A v \in Workers \ {w} : workers'[v] = workers[v]
  BY DEF Moved
<1>8. ~ Consults(w)'
  BY NotConsulting
<1>9. \A v \in Workers : Consults(v)' => v # w /\ Consults(v) /\ Me(v)' = Me(v) /\ (Takes(v)' <=> Takes(v))
  BY <1>7, <1>8 DEF Takes, Consults, At, Me
<1>10. Taking' \subseteq Taking
  <2>1. \A v \in Workers : Takes(v)' => Takes(v) /\ Me(v)' = Me(v)
    BY <1>9 DEF Takes
  <2>2. QED
    BY <2>1 DEF Taking
<1>11. Waiting' \subseteq Waiting
  <2>1. \A v \in Workers : Consults(v)' /\ ~ Takes(v)' => Consults(v) /\ ~ Takes(v) /\ Me(v)' = Me(v)
    BY <1>9
  <2>2. QED
    BY <2>1 DEF Waiting
<1>12. Paid \subseteq Paid'
  BY <1>1, <1>6 DEF Paid, Consulted
<1>13. \A r \in RequestIds : <<r, "execution">> = <<id, purpose>> <=> r = id /\ purpose = "execution"
  OBVIOUS
<1>14. \A r \in Paid' : r \in Paid \/ (r = id /\ purpose = "execution" /\ Me(w).action = "consult" /\ charge > 0)
  BY <1>1, <1>4, <1>6, <1>13 DEF Paid, Consulted
<1>15. (purpose = "execution" /\ Me(w).action = "consult" /\ charge > 0) => id \in Taking
  BY <1>1, <1>2, <1>5 DEF Taking, Takes, Consults
<1>16. \A r \in Uncertain : r \in Uncertain' \/ (r = id /\ purpose = "execution" /\ Me(w).action = "consult")
  <2>1. \A h : State(h)' = State(h)
    BY DEF State
  <2>2. QED
    BY <1>1, <1>4, <1>6, <1>13, <2>1 DEF Uncertain, Consulted
<1>17. purpose = "execution" /\ Me(w).action = "consult" => id \in Paid' \/ id \in Waiting
  <2>1. SUFFICES ASSUME purpose = "execution", Me(w).action = "consult" PROVE id \in Paid' \/ id \in Waiting
    OBVIOUS
  <2>2. CASE charge > 0
    BY <1>1, <1>4, <1>6, <2>1, <2>2 DEF Paid, Consulted
  <2>3. CASE ~ charge > 0
    BY <1>1, <1>2, <1>5, <2>1, <2>3 DEF Waiting, Takes, Consults
  <2>4. QED
    BY <2>2, <2>3
<1>18. (Paid \cup Taking)' \subseteq Paid \cup Taking
  BY <1>10, <1>14, <1>15
<1>19. Paid \cup (Uncertain \ Waiting) \subseteq (Paid \cup (Uncertain \ Waiting))'
  BY <1>11, <1>12, <1>16, <1>17
<1>20. QED
  BY <1>1, <1>18, <1>19, UnitsKept DEF SInv

LEMMA RecordReceiptInductive ==
  ASSUME SInv, NEW w \in Workers, RecordReceipt(w)
  PROVE  SInv'
<1>1. /\ Me(w).pc = "record" /\ UNCHANGED actions /\ UNCHANGED holds /\ UNCHANGED kernel /\ UNCHANGED cases
      /\ tasks' = tasks /\ remaining' = remaining /\ interrupted' = interrupted /\ reconciled' = reconciled /\ WorkersOK
      /\ ReceiptsOK /\ receipts' = Insert(receipts, Hold(w), Me(w).charge)
  BY DEF RecordReceipt, At, Me, cases, kernel, SInv
<1>2. PICK id \in RequestIds, purpose \in Purposes : id = Me(w).id /\ purpose = Me(w).purpose
  BY <1>1, Payment DEF Paying
<1>3. /\ Me(w).pc \in UnderWay /\ ~ At(w, "giveback") /\ Hold(w) = <<id, purpose>>
      /\ Me(w).pc \in Paying /\ At(w, "record") /\ Me(w).pc # "doubt"
  BY <1>1, <1>2, Payment, NotConsulting DEF Paying
<1>4. /\ State(<<id, purpose>>) = "DISPATCHED" \/ <<id, purpose>> \in reconciled
      /\ <<id, purpose>> \notin DOMAIN receipts /\ Me(w).charge \in Charged
  BY <1>1, <1>2, KnownOpen DEF Open
<1>5. /\ id \in DOMAIN actions /\ actions[id].task = Me(w).task /\ Me(w).task \in CASES
      /\ actions[id].result = "none"
  BY <1>1, <1>2, <1>3, Known
<1>6. WritesCharge(w, "settle", None) /\ "settle" \in UnderWay
  BY DEF RecordReceipt, WritesCharge, UnderWay
<1>7. /\ Moved(w) /\ SameAction(w) /\ workers'[w].pc = "settle" /\ workers'[w].purpose = purpose
  BY <1>1, <1>2, <1>6, ClaimedRow
<1>8. PICK charge \in Charged : charge = Me(w).charge
  BY <1>4
<1>9. /\ DOMAIN receipts' = DOMAIN receipts \cup {<<id, purpose>>} /\ receipts'[<<id, purpose>>] = charge
      /\ \A h \in DOMAIN receipts : receipts'[h] = receipts[h]
  BY <1>1, <1>3, <1>4, <1>8 DEF Insert
<1>10. PICK to : to = State(<<id, purpose>>) /\ Moves(id, purpose, to) /\ Proceeds(w, id, purpose, to)
  BY <1>1, <1>7, <1>9, NothingMoves DEF Proceeds
<1>11. WorkerOK(w)'
  BY <1>1, <1>2, <1>3, <1>7, <1>10, GotoKnows
<1>12. \A h : State(h)' = State(h)
  BY <1>1 DEF State
<1>13. WorkersOK'
  <2>1. \A r \in DOMAIN actions, p \in Purposes : actions[r].task # Me(w).task => <<r, p>> # <<id, purpose>>
    BY <1>5
  <2>2. Elsewhere(Me(w).task)
    BY <1>1, <1>9, <1>12, <2>1 DEF Elsewhere
  <2>3. Me(w).task # None
    BY <1>5, SemanticAssumption
  <2>4. QED
    BY <1>1, <1>7, <1>11, <2>2, <2>3, WorkersKept DEF SameAction
<1>14. TablesOK' /\ CasesOK' /\ L!IInv'
  BY <1>1, SameTables, KernelStutters DEF SInv
<1>15. HoldsOK'
  BY <1>1, <1>12 DEF SInv, HoldsOK, Plan, Execution
<1>16. ReceiptsOK'
  <2>1. <<id, purpose>> \in Holds
    BY DEF Holds, Purposes
  <2>2. DOMAIN receipts' \subseteq Holds
    BY <1>1, <1>9, <2>1 DEF ReceiptsOK
  <2>3. \A r \in RequestIds, p \in Purposes : <<r, p>> \in DOMAIN receipts' =>
          /\ receipts'[<<r, p>>] \in Charged
          /\ State(<<r, p>>) \in {"DISPATCHED", "SETTLED"} \/ <<r, p>> \in reconciled
    BY <1>1, <1>4, <1>8, <1>9 DEF ReceiptsOK
  <2>4. QED
    BY <1>1, <1>12, <2>2, <2>3 DEF ReceiptsOK
<1>17. AnswersOK'
  <2>1. SUFFICES ASSUME NEW r \in DOMAIN actions PROVE Matched(r)'
    BY <1>1 DEF AnswersOK
  <2>2. CASE r = id
    BY <1>1, <1>5, <2>2 DEF Matched
  <2>3. CASE r # id
    <3>1. Matched(r)
      BY DEF SInv, AnswersOK
    <3>2. <<r, "execution">> \in DOMAIN receipts' <=> <<r, "execution">> \in DOMAIN receipts
      BY <1>9, <2>3
    <3>3. QED
      BY <1>1, <1>12, <3>1, <3>2 DEF Matched, Unconfirmed, OnlyOperator, Execution
  <2>4. QED
    BY <2>2, <2>3
<1>18. ReservedIsOwed'
  BY <1>1, <1>3, <1>7, <1>12, StillOwed DEF SInv, ReservedIsOwed
<1>19. UnitsOK'
  BY <1>1, <1>7, ReceiptStored
<1>20. QED
  BY <1>13, <1>14, <1>15, <1>16, <1>17, <1>18, <1>19 DEF SInv

(* An action that is recorded takes the place of the one the case waits for,*)
(* and nothing has been paid for it yet.                                    *)
LEMMA NewActionInductive ==
  ASSUME SInv, NEW w \in Workers, Me(w).pc = "begin", NEW id, id = Me(w).id, NEW task, task = Me(w).task,
         NEW action, action = Me(w).action, id \notin DOMAIN actions, Admits(w),
         actions' = Insert(actions, id, [task |-> task, action |-> action, result |-> "none"]),
         tasks' = [tasks EXCEPT ![task].steps = @ + 1], PayFor(w, "planning"),
         UNCHANGED <<kernel, remaining, receipts, interrupted, reconciled>>
  PROVE  SInv'
<1>1. /\ WorkersOK /\ TablesOK /\ CasesOK /\ HoldsOK /\ ReceiptsOK /\ UNCHANGED kernel /\ holds' = holds
      /\ remaining' = remaining /\ receipts' = receipts /\ interrupted' = interrupted /\ reconciled' = reconciled
  BY DEF SInv, kernel
<1>2. id \in RequestIds /\ task \in CASES /\ action \in Actions /\ ~ At(w, "idle") /\ ~ At(w, "giveback")
  BY <1>1, RowTypes, NotConsulting
<1>3. /\ tasks[task].status = "OPEN" /\ tasks[task].steps < DEADLINE_STEPS /\ Pending(task) = {}
  BY <1>1, RowTypes, NotConsulting DEF WorkerOK, Knows, Admits
<1>4. /\ DOMAIN actions' = DOMAIN actions \cup {id}
      /\ actions'[id] = [task |-> task, action |-> action, result |-> "none"]
      /\ \A r \in DOMAIN actions : r # id /\ actions'[r] = actions[r]
  BY DEF Insert
<1>5. \A h : State(h)' = State(h)
  BY <1>1 DEF State
<1>6. /\ tasks'[task].status = tasks[task].status /\ tasks'[task].steps = tasks[task].steps + 1
      /\ tasks'[task] \in [steps: 0 .. DEADLINE_STEPS, status: {"OPEN"} \cup Terminal]
      /\ DOMAIN tasks' = CASES
      /\ \A t \in CASES : t # task => tasks'[t] = tasks[t]
  BY <1>1, <1>2, <1>3, SemanticAssumption DEF TablesOK
<1>7. TablesOK'
  <2>1. tasks' \in [CASES -> [steps: 0 .. DEADLINE_STEPS, status: {"OPEN"} \cup Terminal]]
    BY <1>1, <1>6 DEF TablesOK
  <2>2. DOMAIN actions' \subseteq RequestIds
    BY <1>1, <1>2, <1>4 DEF TablesOK
  <2>3. /\ actions' = [r \in DOMAIN actions' |-> actions'[r]]
        /\ \A r \in DOMAIN actions' :
             actions'[r] \in [task: CASES, action: Actions, result: {"none", "done", "unresolved", "denied"}]
    BY <1>1, <1>2, <1>4 DEF TablesOK, Insert
  <2>4. QED
    BY <1>1, <2>1, <2>2, <2>3 DEF TablesOK
<1>8. CasesOK'
  <2>1. \A t \in CASES : ClosedBy(t)' = ClosedBy(t)
    BY <1>4 DEF ClosedBy
  <2>2. /\ ActionsOf(task)' = ActionsOf(task) \cup {id} /\ id \notin ActionsOf(task)
        /\ Pending(task)' = {id}
        /\ \A t \in CASES : t # task => ActionsOf(t)' = ActionsOf(t) /\ Pending(t)' = Pending(t)
    BY <1>3, <1>4 DEF ActionsOf, Pending
  <2>3. Cardinality(ActionsOf(task) \cup {id}) = Cardinality(ActionsOf(task)) + 1
    <3>1. ActionsOf(task) \subseteq RequestIds /\ IsFiniteSet(RequestIds)
      BY <1>1, SemanticAssumption DEF ActionsOf, TablesOK
    <3>2. IsFiniteSet(ActionsOf(task))
      BY <3>1, FS_Subset
    <3>3. QED
      BY <2>2, <3>2, FS_AddElement
  <2>4. ASSUME NEW t \in CASES PROVE CaseOK(t)'
    <3>1. CaseOK(t)
      BY <1>1 DEF CasesOK
    <3>2. CASE t # task
      BY <1>6, <2>1, <2>2, <3>1, <3>2 DEF CaseOK
    <3>3. CASE t = task
      <4>1. /\ tasks[task].steps = Cardinality(ActionsOf(task))
            /\ tasks[task].status = "OPEN" <=> ClosedBy(task) = {}
            /\ \A r, s \in ClosedBy(task) : r = s
        BY <3>1, <3>3 DEF CaseOK
      <4>2. tasks'[task].steps = Cardinality(ActionsOf(task)')
        BY <1>6, <2>2, <2>3, <4>1
      <4>3. ClosedBy(task)' = ClosedBy(task) /\ Pending(task)' = {id}
        BY <1>2, <2>1, <2>2
      <4>4. tasks'[task].status = "OPEN"
        BY <1>3, <1>6
      <4>5. /\ ClosedBy(task)' = {}
            /\ \A r, s \in ClosedBy(task)' : r = s
            /\ \A r, s \in Pending(task)' : r = s
        BY <1>3, <4>1, <4>3
      <4>6. CaseOK(task)'
        BY <4>2, <4>4, <4>5 DEF CaseOK
      <4>7. QED
        BY <3>3, <4>6
    <3>4. QED
      BY <3>2, <3>3
  <2>5. QED
    BY <2>4 DEF CasesOK
<1>9. \A p \in Purposes : /\ State(<<id, p>>) = "NONE" /\ <<id, p>> \notin reconciled
                          /\ <<id, p>> \notin DOMAIN receipts
  <2>1. \A p \in Purposes : State(<<id, p>>) = "NONE"
    BY <1>1, <1>2 DEF HoldsOK
  <2>2. \A p \in Purposes : <<id, p>> \notin reconciled
    BY <1>1, <1>2, <2>1 DEF ReceiptsOK
  <2>3. QED
    BY <1>1, <1>2, <2>1, <2>2 DEF ReceiptsOK
<1>10. "planning" \in Purposes /\ "execution" \in Purposes
  BY DEF Purposes
<1>11. Moved(w) /\ SameAction(w) /\ workers'[w].pc = "prepare" /\ workers'[w].purpose = "planning"
  BY <1>1, <1>10, PayForRow
<1>12. WorkerOK(w)'
  <2>1. Supported(w, id, "planning", action, "prepare") /\ "prepare" \in UnderWay
    BY DEF Supported, UnderWay
  <2>2. /\ workers'[w].id = id /\ workers'[w].action = action /\ workers'[w].task = task /\ id \in DOMAIN actions'
        /\ actions'[id].task = task /\ actions'[id].action = action /\ actions'[id].result = "none"
    BY <1>4, <1>11 DEF SameAction
  <2>3. QED
    BY <1>2, <1>10, <1>11, <2>1, <2>2, UnderWayKnows
<1>13. WorkersOK'
  <2>1. Elsewhere(task)
    BY <1>1, <1>4, <1>5, <1>6 DEF Elsewhere
  <2>2. task # None
    BY <1>2, SemanticAssumption
  <2>3. QED
    BY <1>1, <1>11, <1>12, <2>1, <2>2, WorkersKept DEF SameAction
<1>14. HoldsOK'
  <2>1. \A r \in RequestIds, p \in Purposes : State(<<r, p>>)' # "NONE" => r \in DOMAIN actions
    BY <1>1, <1>5 DEF HoldsOK
  <2>2. \A r \in RequestIds : Execution(r)' # "NONE" =>
          /\ Plan(r)' \in Ended /\ actions[r].action # "abstain"
          /\ ~ (actions[r].action = "finalize" /\ actions[r].task \in MandatoryReview)
    BY <1>1, <1>5 DEF HoldsOK, Plan, Execution
  <2>3. \A r \in RequestIds : Execution(r)' # "NONE" => r \in DOMAIN actions
    BY <1>10, <2>1 DEF Execution
  <2>4. QED
    BY <1>4, <2>1, <2>2, <2>3 DEF HoldsOK
<1>15. ReceiptsOK'
  BY <1>1, <1>5 DEF ReceiptsOK
<1>16. AnswersOK'
  <2>1. ASSUME NEW r \in DOMAIN actions' PROVE Matched(r)'
    <3>1. CASE r = id
      BY <1>4, <3>1 DEF Matched
    <3>2. CASE r # id
      BY <1>1, <1>4, <1>5, <3>2 DEF SInv, AnswersOK, Matched, Unconfirmed, OnlyOperator, Execution
    <3>3. QED
      BY <3>1, <3>2
  <2>2. QED
    BY <2>1 DEF AnswersOK
<1>17. ReservedIsOwed'
  <2>1. ASSUME NEW r \in RequestIds, NEW p \in Purposes, State(<<r, p>>)' = "RESERVED"
        PROVE  Owed(r)'
    <3>1. State(<<r, p>>) = "RESERVED"
      BY <1>5, <2>1
    <3>2. Owed(r) /\ r \in DOMAIN actions
      BY <1>1, <3>1 DEF SInv, ReservedIsOwed, HoldsOK
    <3>3. QED
      BY <1>1, <1>2, <1>4, <1>11, <3>2, StillOwed
  <2>2. QED
    BY <2>1 DEF ReservedIsOwed
<1>18. UnitsOK'
  <2>1. Taking' = Taking /\ Waiting' = Waiting
    BY <1>11, NotConsulting, SameConsultations
  <2>2. Consulted \subseteq Consulted' /\ Consulted' \subseteq Consulted \cup {id}
        /\ \A r \in Consulted : r # id
    BY <1>4 DEF Consulted
  <2>3. Paid' = Paid
    BY <1>1, <1>9, <1>10, <2>2 DEF Paid
  <2>4. Uncertain' = Uncertain
    BY <1>1, <1>5, <1>9, <1>10, <2>2 DEF Uncertain
  <2>5. QED
    BY <1>1, <2>1, <2>3, <2>4 DEF SInv, UnitsOK
<1>19. L!IInv'
  BY <1>1, KernelStutters DEF SInv
<1>20. QED
  BY <1>7, <1>8, <1>13, <1>14, <1>15, <1>16, <1>17, <1>18, <1>19 DEF SInv

LEMMA BeginInductive ==
  ASSUME SInv, NEW w \in Workers, Begin(w)
  PROVE  SInv'
<1>1. /\ Me(w).pc = "begin" /\ WorkersOK /\ UNCHANGED <<kernel, remaining, receipts, interrupted, reconciled>>
      /\ ~ At(w, "idle") /\ ~ At(w, "giveback") /\ ~ Consults(w)
  BY NotConsulting DEF Begin, At, Me, SInv
<1>2. PICK id \in RequestIds, task \in CASES, action \in Actions :
        id = Me(w).id /\ task = Me(w).task /\ action = Me(w).action
  BY <1>1, RowTypes
<1>3. CASE id \notin DOMAIN actions /\ Admits(w)
  BY <1>1, <1>2, <1>3, NewActionInductive DEF Begin
<1>4. CASE Ends(w) /\ UNCHANGED <<tasks, actions>>
  BY <1>1, <1>4, RestInductive DEF cases
<1>5. CASE /\ id \in DOMAIN actions /\ actions[id] = [task |-> task, action |-> action, result |-> "none"]
           /\ PayFor(w, "planning") /\ UNCHANGED <<tasks, actions>>
  <2>1. "planning" \in Purposes /\ Supported(w, id, "planning", action, "prepare") /\ "prepare" \in UnderWay
    BY DEF Purposes, Supported, UnderWay
  <2>2. Moved(w) /\ SameAction(w) /\ workers'[w].pc = "prepare" /\ workers'[w].purpose = "planning"
    BY <1>1, <1>5, <2>1, PayForRow
  <2>3. /\ workers'[w].id = id /\ workers'[w].action = action /\ workers'[w].task = task /\ id \in DOMAIN actions'
        /\ actions'[id].task = task /\ actions'[id].action = action /\ actions'[id].result = "none"
    BY <1>2, <1>5, <2>2 DEF SameAction
  <2>4. WorkerOK(w)' /\ ~ Consults(w)'
    BY <2>1, <2>2, <2>3, UnderWayKnows, NotConsulting
  <2>5. UNCHANGED <<kernel, cases, receipts, interrupted, reconciled>>
    BY <1>1, <1>5 DEF cases
  <2>6. QED
    BY <1>1, <1>2, <2>2, <2>3, <2>4, <2>5, WorkerStep
<1>6. QED
  BY <1>2, <1>3, <1>4, <1>5 DEF Begin

(* The answer to an action: nothing waits for it any more, and it closes    *)
(* its case if it is terminal and was done.                                 *)
LEMMA AnswerInductive ==
  ASSUME SInv, NEW w \in Workers, Me(w).pc \in {"done", "unresolved", "deny"}, NEW id, id = Me(w).id, NEW task, task = Me(w).task,
         NEW action, action = Me(w).action, NEW answer \in {"done", "unresolved", "denied"},
         actions' = [actions EXCEPT ![id].result = answer],
         tasks' = IF action \in Terminal /\ answer = "done" THEN [tasks EXCEPT ![task].status = action] ELSE tasks,
         UNCHANGED <<kernel, remaining, receipts, interrupted, reconciled>>, Moved(w), WorkerOK(w)',
         workers'[w].task = None \/ workers'[w].task = task, ~ Consults(w)',
         \/ workers'[w].pc = "giveback" /\ workers'[w].id = id
         \/ \A p \in Purposes : State(<<id, p>>) # "RESERVED",
         Matched(id)'
  PROVE  SInv'
<1>1. /\ WorkersOK /\ TablesOK /\ CasesOK /\ HoldsOK /\ ReceiptsOK /\ UNCHANGED kernel /\ holds' = holds
      /\ remaining' = remaining /\ receipts' = receipts /\ interrupted' = interrupted /\ reconciled' = reconciled
      /\ ~ Consults(w) /\ ~ At(w, "giveback") /\ Me(w).pc \in UnderWay
  BY NotConsulting DEF SInv, kernel, UnderWay
<1>2. /\ id \in RequestIds /\ id \in DOMAIN actions /\ task \in CASES /\ action \in Actions
      /\ actions[id].task = task /\ actions[id].action = action /\ actions[id].result = "none"
  <2>1. IsRecorded(w) /\ id \in RequestIds /\ task \in CASES /\ action \in Actions
    BY <1>1, RowTypes DEF WorkerOK
  <2>2. QED
    BY <1>1, <2>1 DEF IsRecorded
<1>3. actions[id] \in [task: CASES, action: Actions, result: {"none", "done", "unresolved", "denied"}]
  BY <1>1, <1>2 DEF TablesOK
<1>4. /\ DOMAIN actions' = DOMAIN actions
      /\ actions'[id] \in [task: CASES, action: Actions, result: {"none", "done", "unresolved", "denied"}]
      /\ actions'[id].task = task /\ actions'[id].action = action /\ actions'[id].result = answer
      /\ \A r \in DOMAIN actions : r # id => actions'[r] = actions[r]
  BY <1>2, <1>3
<1>5. \A h : State(h)' = State(h)
  BY <1>1 DEF State
<1>6. \A r \in DOMAIN actions : actions'[r].task = actions[r].task /\ actions'[r].action = actions[r].action
  BY <1>2, <1>4
<1>7. /\ \A t \in CASES : tasks'[t].steps = tasks[t].steps /\ (t # task => tasks'[t] = tasks[t])
      /\ tasks'[task].status = IF action \in Terminal /\ answer = "done" THEN action ELSE tasks[task].status
      /\ tasks' \in [CASES -> [steps: 0 .. DEADLINE_STEPS, status: {"OPEN"} \cup Terminal]]
  <2>1. tasks \in [CASES -> [steps: 0 .. DEADLINE_STEPS, status: {"OPEN"} \cup Terminal]]
    BY <1>1 DEF TablesOK
  <2>2. CASE action \in Terminal /\ answer = "done"
    BY <1>2, <2>1, <2>2
  <2>3. CASE ~ (action \in Terminal /\ answer = "done")
    BY <2>1, <2>3
  <2>4. QED
    BY <2>2, <2>3
<1>8. TablesOK'
  <2>1. DOMAIN actions' \subseteq RequestIds
    BY <1>1, <1>4 DEF TablesOK
  <2>2. /\ actions' = [r \in DOMAIN actions' |-> actions'[r]]
        /\ \A r \in DOMAIN actions' :
             actions'[r] \in [task: CASES, action: Actions, result: {"none", "done", "unresolved", "denied"}]
    BY <1>1, <1>4 DEF TablesOK
  <2>3. QED
    BY <1>1, <1>7, <2>1, <2>2 DEF TablesOK
<1>9. CasesOK'
  <2>1. \A t \in CASES : ActionsOf(t)' = ActionsOf(t)
    BY <1>4, <1>6 DEF ActionsOf
  <2>2. \A t \in CASES : t # task => Pending(t)' = Pending(t) /\ ClosedBy(t)' = ClosedBy(t)
    BY <1>2, <1>4 DEF Pending, ClosedBy
  <2>3. Pending(task)' = Pending(task) \ {id} /\ id \in Pending(task)
    BY <1>2, <1>4 DEF Pending
  <2>4. /\ action \in Terminal /\ answer = "done" => ClosedBy(task)' = ClosedBy(task) \cup {id}
        /\ ~ (action \in Terminal /\ answer = "done") => ClosedBy(task)' = ClosedBy(task)
    BY <1>2, <1>4 DEF ClosedBy
  <2>5. "OPEN" \notin Terminal
    BY DEF Terminal
  <2>6. ASSUME NEW t \in CASES PROVE CaseOK(t)'
    <3>1. CaseOK(t)
      BY <1>1 DEF CasesOK
    <3>2. CASE t # task
      BY <1>7, <2>1, <2>2, <3>1, <3>2 DEF CaseOK
    <3>3. CASE t = task
      <4>1. /\ tasks[task].steps = Cardinality(ActionsOf(task))
            /\ \A r, s \in Pending(task) : r = s
            /\ tasks[task].status = "OPEN"
            /\ ClosedBy(task) = {}
        BY <2>3, <3>1, <3>3 DEF CaseOK
      <4>2. tasks'[task].steps = Cardinality(ActionsOf(task)')
        BY <1>2, <1>7, <2>1, <4>1
      <4>3. Pending(task)' = {}
        BY <2>3, <4>1
      <4>4. /\ tasks'[task].status = "OPEN" <=> ClosedBy(task)' = {}
            /\ \A r, s \in ClosedBy(task)' : r = s
        <5>1. CASE action \in Terminal /\ answer = "done"
          BY <1>7, <2>4, <2>5, <4>1, <5>1
        <5>2. CASE ~ (action \in Terminal /\ answer = "done")
          BY <1>7, <2>4, <4>1, <5>2
        <5>3. QED
          BY <5>1, <5>2
      <4>5. CaseOK(task)'
        BY <4>2, <4>3, <4>4 DEF CaseOK
      <4>6. QED
        BY <3>3, <4>5
    <3>4. QED
      BY <3>2, <3>3
  <2>7. QED
    BY <2>6 DEF CasesOK
<1>10. WorkersOK'
  <2>1. Elsewhere(task)
    BY <1>1, <1>2, <1>4, <1>5, <1>7 DEF Elsewhere
  <2>2. task # None
    BY <1>2, SemanticAssumption
  <2>3. QED
    BY <1>1, <2>1, <2>2, WorkersKept
<1>11. HoldsOK'
  <2>1. "execution" \in Purposes
    BY DEF Purposes
  <2>2. \A r \in RequestIds : Execution(r) # "NONE" => r \in DOMAIN actions
    BY <1>1, <2>1 DEF HoldsOK, Execution
  <2>3. \A r : Execution(r)' = Execution(r) /\ Plan(r)' = Plan(r)
    BY <1>5 DEF Execution, Plan
  <2>4. QED
    BY <1>1, <1>4, <1>5, <1>6, <2>2, <2>3 DEF HoldsOK
<1>12. ReceiptsOK'
  BY <1>1, <1>5 DEF ReceiptsOK
<1>13. AnswersOK'
  <2>1. ASSUME NEW r \in DOMAIN actions' PROVE Matched(r)'
    <3>1. CASE r = id
      BY <3>1
    <3>2. CASE r # id
      BY <1>1, <1>4, <1>5, <3>2 DEF SInv, AnswersOK, Matched, Unconfirmed, OnlyOperator, Execution
    <3>3. QED
      BY <3>1, <3>2
  <2>2. QED
    BY <2>1 DEF AnswersOK
<1>14. ReservedIsOwed'
  <2>1. ASSUME NEW r \in RequestIds, NEW p \in Purposes, State(<<r, p>>)' = "RESERVED"
        PROVE  Owed(r)'
    <3>1. State(<<r, p>>) = "RESERVED"
      BY <1>5, <2>1
    <3>2. Owed(r) /\ r \in DOMAIN actions
      BY <1>1, <3>1 DEF SInv, ReservedIsOwed, HoldsOK
    <3>3. CASE r = id
      <4>1. workers'[w].pc = "giveback" /\ workers'[w].id = id
        BY <3>1, <3>3
      <4>2. At(w, "giveback")' /\ Me(w)'.id = id
        BY <4>1 DEF At, Me
      <4>3. QED
        BY <3>3, <4>2 DEF Owed
    <3>4. CASE r # id
      BY <1>1, <1>4, <3>2, <3>4, StillOwed
    <3>5. QED
      BY <3>3, <3>4
  <2>2. QED
    BY <2>1 DEF ReservedIsOwed
<1>15. UnitsOK'
  <2>1. Taking' = Taking /\ Waiting' = Waiting
    BY <1>1, SameConsultations
  <2>2. Consulted' = Consulted
    BY <1>4, <1>6 DEF Consulted
  <2>3. Paid' = Paid /\ Uncertain' = Uncertain
    BY <1>1, <1>5, <2>2 DEF Paid, Uncertain
  <2>4. QED
    BY <1>1, <2>1, <2>3 DEF SInv, UnitsOK
<1>16. L!IInv'
  BY <1>1, KernelStutters DEF SInv
<1>17. QED
  BY <1>8, <1>9, <1>10, <1>11, <1>12, <1>13, <1>14, <1>15, <1>16 DEF SInv

(* The outcome that is read is the one that will be stored. *)
LEMMA ReadOutcomeInductive ==
  ASSUME SInv, NEW w \in Workers, ReadOutcome(w)
  PROVE  SInv'
<1>1. /\ Me(w).pc = "finish" /\ WorkersOK /\ UNCHANGED <<kernel, cases, receipts, interrupted, reconciled>>
      /\ UNCHANGED actions /\ holds' = holds /\ receipts' = receipts /\ reconciled' = reconciled
      /\ Me(w).pc \in UnderWay /\ ~ At(w, "giveback") /\ ~ Consults(w) /\ ReceiptsOK
  BY NotConsulting DEF ReadOutcome, At, Me, SInv, UnderWay, kernel, cases
<1>2. PICK id \in RequestIds, task \in CASES, action \in Actions, purpose \in Purposes :
        id = Me(w).id /\ task = Me(w).task /\ action = Me(w).action /\ purpose = Me(w).purpose
  BY <1>1, RowTypes, NotConsulting
<1>3. /\ State(<<id, "planning">>) \in Ended
      /\ action # "abstain" => State(<<id, "execution">>) \in Ended
      /\ purpose = "execution" => action # "abstain"
  BY <1>1, <1>2, Known
<1>4. PICK pc \in {"done", "unresolved"} :
        pc = IF action = "abstain" \/ State(<<id, "execution">>) = "SETTLED" THEN "done" ELSE "unresolved"
  OBVIOUS
<1>5. Goto(w, pc) /\ pc \in UnderWay
  BY <1>2, <1>4 DEF ReadOutcome, Result, UnderWay
<1>6. Moved(w) /\ SameAction(w) /\ workers'[w].pc = pc /\ workers'[w].purpose = purpose
  BY <1>1, <1>2, <1>5, GotoRow
<1>7. /\ workers'[w].id = id /\ workers'[w].task = task /\ workers'[w].action = action
      /\ id \in DOMAIN actions' /\ actions'[id].task = task /\ actions'[id].action = action
      /\ actions'[id].result = "none"
  BY <1>1, <1>2, <1>6, SameRecord
<1>8. \A h : State(h)' = State(h)
  BY <1>1 DEF State
<1>9. pc = "unresolved" => action # "abstain" /\ State(<<id, "execution">>)' \in {"UNRESOLVED", "RELEASED"}
  BY <1>3, <1>4, <1>8 DEF Ended
<1>10. Supported(w, id, purpose, action, pc)
  BY <1>3, <1>4, <1>8, <1>9 DEF Supported, Unconfirmed, Execution
<1>11. WorkerOK(w)' /\ ~ Consults(w)'
  BY <1>2, <1>5, <1>6, <1>7, <1>10, UnderWayKnows, NotConsulting
<1>12. QED
  BY <1>1, <1>6, <1>11, GoesOn

LEMMA FinishInductive ==
  ASSUME SInv, NEW w \in Workers, Finish(w)
  PROVE  SInv'
<1>1. /\ Me(w).pc \in {"done", "unresolved"} /\ WorkersOK /\ TablesOK /\ HoldsOK /\ ReceiptsOK
      /\ UNCHANGED <<kernel, remaining, receipts, interrupted, reconciled>> /\ holds' = holds /\ receipts' = receipts
      /\ reconciled' = reconciled
      /\ Me(w).pc \in UnderWay /\ Me(w).pc \in {"done", "unresolved", "deny"}
  BY DEF Finish, SInv, UnderWay, kernel
<1>2. PICK id \in RequestIds, task \in CASES, action \in Actions, purpose \in Purposes :
        id = Me(w).id /\ task = Me(w).task /\ action = Me(w).action /\ purpose = Me(w).purpose
  BY <1>1, RowTypes, NotConsulting
<1>3. /\ id \in DOMAIN actions /\ actions[id].action = action
      /\ State(<<id, "planning">>) \in Ended
      /\ action # "abstain" => State(<<id, "execution">>) \in Ended
      /\ Me(w).pc = "done" => action = "abstain" \/ State(<<id, "execution">>) = "SETTLED"
      /\ Me(w).pc = "unresolved" => Unconfirmed(id)
  BY <1>1, <1>2, Known, NotConsulting
<1>4. PICK answer \in {"done", "unresolved"} : answer = Me(w).pc
  BY <1>1
<1>5. /\ actions' = [actions EXCEPT ![id].result = answer]
      /\ tasks' = IF action \in Terminal /\ answer = "done" THEN [tasks EXCEPT ![task].status = action] ELSE tasks
      /\ Ends(w)
  BY <1>2, <1>4 DEF Finish
<1>6. Moved(w) /\ workers'[w] = Idle
  BY <1>1, <1>5, EndsRow
<1>7. WorkerOK(w)' /\ ~ Consults(w)' /\ workers'[w].task = None
  BY <1>6, IdleKnows, IdleRow
<1>8. \A p \in Purposes : p = "planning" \/ p = "execution"
  BY DEF Purposes
<1>9. \A p \in Purposes : State(<<id, p>>) # "RESERVED"
  <2>1. State(<<id, "execution">>) # "RESERVED"
    BY <1>1, <1>2, <1>3 DEF Ended, HoldsOK, Execution
  <2>2. QED
    BY <1>3, <1>8, <2>1 DEF Ended
<1>10. Matched(id)'
  <2>1. State(<<id, "execution">>)' = State(<<id, "execution">>)
    BY <1>1 DEF State
  <2>2. actions'[id].result = answer /\ actions'[id].action = action
    <3>1. actions[id] \in [task: CASES, action: Actions, result: {"none", "done", "unresolved", "denied"}]
      BY <1>1, <1>3 DEF TablesOK
    <3>2. QED
      BY <1>3, <1>5, <3>1
  <2>3. answer = "unresolved" => Unconfirmed(id)'
    BY <1>1, <1>3, <1>4, <2>1 DEF Unconfirmed, OnlyOperator, Execution
  <2>4. QED
    BY <1>3, <1>4, <2>1, <2>2, <2>3 DEF Matched, Execution
<1>11. QED
  BY <1>1, <1>2, <1>4, <1>5, <1>6, <1>7, <1>9, <1>10, AnswerInductive

LEMMA DenyInductive ==
  ASSUME SInv, NEW w \in Workers, Deny(w)
  PROVE  SInv'
<1>1. /\ Me(w).pc = "deny" /\ At(w, "deny") /\ WorkersOK /\ TablesOK /\ ~ At(w, "idle")
      /\ UNCHANGED <<kernel, remaining, receipts, interrupted, reconciled>> /\ holds' = holds /\ tasks' = tasks
      /\ Me(w).pc \in UnderWay /\ Me(w).pc \in {"done", "unresolved", "deny"}
  BY DEF Deny, At, Me, SInv, UnderWay, kernel
<1>2. PICK id \in RequestIds, task \in CASES, action \in Actions, purpose \in Purposes :
        id = Me(w).id /\ task = Me(w).task /\ action = Me(w).action /\ purpose = Me(w).purpose
  BY <1>1, RowTypes
<1>3. /\ id \in DOMAIN actions /\ actions[id].action = action /\ actions[id].task = task
      /\ State(<<id, "execution">>) \in {"NONE", "RESERVED", "RELEASED"}
  BY <1>1, <1>2, Known
<1>4. actions' = [actions EXCEPT ![id].result = "denied"]
  BY <1>2 DEF Deny
<1>5. actions'[id].result = "denied" /\ actions'[id].action = action /\ actions'[id].task = task /\ id \in DOMAIN actions'
  <2>1. actions[id] \in [task: CASES, action: Actions, result: {"none", "done", "unresolved", "denied"}]
    BY <1>1, <1>3 DEF TablesOK
  <2>2. QED
    BY <1>3, <1>4, <2>1
<1> DEFINE row == [workers[w] EXCEPT !.pc = "giveback", !.purpose = "execution"]
<1>6. workers[w] \in WorkerRow
  BY <1>1, RowTypes
<1>7. /\ row \in WorkerRow /\ row.pc = "giveback" /\ row.id = id /\ row.task = task
      /\ row.action = action /\ row.purpose = "execution"
  BY <1>2, <1>6 DEF WorkerRow, UnderWay, Purposes, Me
<1>8. workers' = [workers EXCEPT ![w] = row]
  BY <1>1 DEF Deny, WorkersOK
<1> HIDE DEF row
<1>9. /\ Moved(w) /\ workers'[w].pc = "giveback" /\ workers'[w].id = id /\ workers'[w].task = task
      /\ workers'[w].action = action /\ workers'[w].purpose = "execution"
  BY <1>1, <1>7, <1>8, RowStep
<1>10. WorkerOK(w)' /\ ~ Consults(w)'
  <2>1. Supported(w, id, "execution", action, "giveback") /\ "giveback" \in UnderWay /\ "execution" \in Purposes
    BY DEF Supported, UnderWay, Purposes
  <2>2. QED
    BY <1>5, <1>9, <2>1, UnderWayKnows, NotConsulting
<1>11. Matched(id)'
  <2>1. State(<<id, "execution">>)' = State(<<id, "execution">>)
    BY <1>1 DEF State
  <2>2. QED
    BY <1>3, <1>5, <2>1 DEF Matched, Execution
<1>12. QED
  BY <1>1, <1>2, <1>4, <1>9, <1>10, <1>11, AnswerInductive

-----------------------------------------------------------------------------
(* What the agent, the operator and a stop of the process do *)

(* A reservation may be cancelled, and what was dispatched may be settled or*)
(* released, under the feet of any thread.                                  *)
Outside ==
  /\ reconciled' \subseteq Holds
  /\ \A r \in RequestIds, p \in Purposes :
       \/ State(<<r, p>>)' = State(<<r, p>>) /\ (<<r, p>> \in reconciled' <=> <<r, p>> \in reconciled)
       \/ /\ State(<<r, p>>) = "RESERVED" /\ State(<<r, p>>)' = "RELEASED"
          /\ <<r, p>> \in reconciled' <=> <<r, p>> \in reconciled
       \/ /\ State(<<r, p>>) \in {"DISPATCHED", "UNRESOLVED"} /\ State(<<r, p>>)' \in {"SETTLED", "RELEASED"}
          /\ <<r, p>> \in reconciled'

(* Of what the threads know of a hold, nothing depends on its being still   *)
(* reserved, or still dispatched if nothing says that it was decided.       *)
LEMMA UnderFeet ==
  ASSUME WorkersOK, ReceiptsOK, Outside, UNCHANGED <<workers, tasks, actions, receipts>>, NEW v \in Workers
  PROVE  WorkerOK(v)'
<1>1. WorkerOK(v) /\ workers' = workers /\ tasks' = tasks /\ actions' = actions /\ receipts' = receipts
  BY RowTypes
<1>2. "planning" \in Purposes /\ "execution" \in Purposes
  BY DEF Purposes
<1>3. CASE Me(v).pc \notin UnderWay
  <2>1. Knows(v)'
    BY <1>1 DEF WorkerOK, Knows, Me, At
  <2>2. IsRecorded(v)' /\ Pays(v)' /\ Concludes(v)'
    BY <1>1, <1>3 DEF IsRecorded, Pays, Concludes, UnderWay, At, Me
  <2>3. QED
    BY <2>1, <2>2 DEF WorkerOK
<1>4. CASE Me(v).pc \in UnderWay
  <2>1. PICK r \in RequestIds, p \in Purposes, task \in CASES, action \in Actions, pc \in UnderWay :
          /\ r = Me(v).id /\ p = Me(v).purpose /\ task = Me(v).task /\ action = Me(v).action
          /\ pc = Me(v).pc
    BY <1>4, RowTypes
  <2>2. /\ r \in DOMAIN actions /\ actions[r].task = task /\ actions[r].action = action
        /\ actions[r].result = IF pc = "giveback" THEN "denied" ELSE "none"
        /\ p = "execution" /\ pc \notin {"deny", "giveback"} => action # "abstain" /\ State(<<r, "planning">>) \in Ended
        /\ pc = "claim" => State(<<r, p>>) # "NONE"
        /\ pc \in {"consume", "record", "doubt"} => Open(pc, <<r, p>>) /\ <<r, p>> \notin DOMAIN receipts
        /\ pc \in {"consume", "record"} => Me(v).charge \in Charged
        /\ pc = "consume" => p = "execution" /\ action = "consult"
        /\ pc = "settle" => <<r, p>> \in DOMAIN receipts
    BY <1>4, <2>1, Known, NotConsulting
  <2>3. /\ pc \in {"finish", "done", "unresolved"} => State(<<r, "planning">>) \in Ended
        /\ pc \in {"finish", "done", "unresolved"} /\ action # "abstain" => State(<<r, "execution">>) \in Ended
        /\ pc = "done" => action = "abstain" \/ State(<<r, "execution">>) = "SETTLED"
        /\ pc = "unresolved" => action # "abstain" /\ Unconfirmed(r)
        /\ pc = "deny" => State(<<r, "execution">>) \in {"NONE", "RESERVED", "RELEASED"}
        /\ pc = "giveback" /\ p = "planning" => State(<<r, "execution">>) # "RESERVED"
    BY <1>4, <2>1, Known, NotConsulting
  <2>4. \A q \in Purposes :
          /\ State(<<r, q>>) \in Ended => State(<<r, q>>)' \in Ended
          /\ State(<<r, q>>) = "SETTLED" => State(<<r, q>>)' = "SETTLED"
          /\ State(<<r, q>>) # "NONE" => State(<<r, q>>)' # "NONE"
          /\ State(<<r, q>>) # "RESERVED" => State(<<r, q>>)' # "RESERVED"
          /\ State(<<r, q>>) \in {"NONE", "RESERVED", "RELEASED"} => State(<<r, q>>)' \in {"NONE", "RESERVED", "RELEASED"}
    BY DEF Outside, Ended
  <2>5. Open(pc, <<r, p>>) => Open(pc, <<r, p>>)'
    BY DEF Open, Outside
  <2>6. Unconfirmed(r) => Unconfirmed(r)'
    BY <1>1, <1>2 DEF Unconfirmed, OnlyOperator, Execution, Outside, ReceiptsOK
  <2>7. workers'[v].charge = Me(v).charge
    BY <1>1 DEF Me
  <2>8. Supported(v, r, p, action, pc)
    BY <1>1, <1>2, <2>2, <2>3, <2>4, <2>5, <2>6, <2>7 DEF Supported
  <2>9. /\ workers'[v].pc = pc /\ workers'[v].id = r /\ workers'[v].purpose = p
        /\ workers'[v].action = action /\ workers'[v].task = task
    BY <1>1, <2>1 DEF Me
  <2>10. QED
    BY <1>1, <2>2, <2>8, <2>9, UnderWayKnows
<1>5. QED
  BY <1>3, <1>4

LEMMA OutsideInductive ==
  ASSUME SInv, L!IInv', Outside, UNCHANGED <<cases, receipts, workers, interrupted>>
  PROVE  SInv'
<1>1. /\ workers' = workers /\ tasks' = tasks /\ actions' = actions /\ remaining' = remaining
      /\ receipts' = receipts /\ interrupted' = interrupted
      /\ WorkersOK /\ TablesOK /\ HoldsOK /\ ReceiptsOK
  BY DEF cases, SInv
<1>2. "planning" \in Purposes /\ "execution" \in Purposes
  BY DEF Purposes
<1>3. \A r \in RequestIds, p \in Purposes :
        /\ State(<<r, p>>) \in Ended => State(<<r, p>>)' \in Ended
        /\ State(<<r, p>>)' # "NONE" => State(<<r, p>>) # "NONE"
        /\ State(<<r, p>>)' = "RESERVED" => State(<<r, p>>) = "RESERVED"
  BY DEF Outside, Ended
<1>4. TablesOK' /\ CasesOK'
  BY SameTables DEF SInv
<1>5. WorkersOK'
  <2>1. \A v \in Workers : WorkerOK(v)'
    BY <1>1, UnderFeet
  <2>2. OneAtATime'
    BY <1>1 DEF WorkersOK, OneAtATime, Me
  <2>3. QED
    BY <1>1, <2>1, <2>2 DEF WorkersOK
<1>6. HoldsOK'
  <2>1. \A r \in RequestIds, p \in Purposes : State(<<r, p>>)' # "NONE" => r \in DOMAIN actions'
    BY <1>1, <1>3 DEF HoldsOK
  <2>2. ASSUME NEW r \in RequestIds, State(<<r, "execution">>)' # "NONE"
        PROVE  /\ State(<<r, "planning">>)' \in Ended /\ actions[r].action # "abstain"
               /\ ~ (actions[r].action = "finalize" /\ actions[r].task \in MandatoryReview)
    <3>1. State(<<r, "execution">>) # "NONE"
      BY <1>2, <1>3, <2>2
    <3>2. /\ State(<<r, "planning">>) \in Ended /\ actions[r].action # "abstain"
          /\ ~ (actions[r].action = "finalize" /\ actions[r].task \in MandatoryReview)
      BY <1>1, <3>1 DEF HoldsOK, Plan, Execution
    <3>3. QED
      BY <1>2, <1>3, <3>2
  <2>3. QED
    BY <1>1, <2>1, <2>2 DEF HoldsOK, Plan, Execution
<1>7. ReceiptsOK'
  <2>1. ASSUME NEW r \in RequestIds, NEW p \in Purposes
        PROVE  /\ <<r, p>> \in DOMAIN receipts => /\ receipts[<<r, p>>] \in Charged
                                                  /\ State(<<r, p>>)' \in {"DISPATCHED", "SETTLED"} \/ <<r, p>> \in reconciled'
               /\ <<r, p>> \in reconciled' => State(<<r, p>>)' \in {"SETTLED", "RELEASED"}
    <3>1. /\ <<r, p>> \in DOMAIN receipts => /\ receipts[<<r, p>>] \in Charged
                                             /\ State(<<r, p>>) \in {"DISPATCHED", "SETTLED"} \/ <<r, p>> \in reconciled
          /\ <<r, p>> \in reconciled => State(<<r, p>>) \in {"SETTLED", "RELEASED"}
      BY <1>1 DEF ReceiptsOK
    <3>2. QED
      BY <3>1 DEF Outside
  <2>2. QED
    BY <1>1, <2>1 DEF ReceiptsOK, Outside
<1>8. AnswersOK'
  <2>1. SUFFICES ASSUME NEW r \in DOMAIN actions PROVE Matched(r)'
    BY <1>1 DEF AnswersOK
  <2>2. r \in RequestIds /\ Matched(r)
    BY <1>1 DEF SInv, AnswersOK, TablesOK
  <2>3. Unconfirmed(r) => Unconfirmed(r)'
    BY <1>1, <1>2, <2>2 DEF Unconfirmed, OnlyOperator, Execution, Outside, ReceiptsOK
  <2>4. QED
    BY <1>1, <1>2, <2>2, <2>3 DEF Matched, Execution, Outside
<1>9. ReservedIsOwed'
  BY <1>1, <1>3 DEF SInv, ReservedIsOwed, Owed, At, Me
<1>10. UnitsOK'
  <2>1. Taking' = Taking /\ Waiting' = Waiting
    BY <1>1 DEF Taking, Waiting, Takes, Consults, At, Me
  <2>2. Paid' = Paid
    BY <1>1 DEF Paid, Consulted
  <2>3. \A r \in RequestIds :
          (State(<<r, "execution">>)' \in {"DISPATCHED", "UNRESOLVED"} \/ <<r, "execution">> \in reconciled')
            <=> (State(<<r, "execution">>) \in {"DISPATCHED", "UNRESOLVED"} \/ <<r, "execution">> \in reconciled)
    BY <1>2 DEF Outside
  <2>4. Uncertain' = Uncertain
    BY <1>1, <2>3 DEF Uncertain, Consulted, TablesOK
  <2>5. QED
    BY <1>1, <2>1, <2>2, <2>4 DEF SInv, UnitsOK
<1>11. QED
  BY <1>4, <1>5, <1>6, <1>7, <1>8, <1>9, <1>10 DEF SInv

LEMMA CancelHoldInductive ==
  ASSUME SInv, NEW h \in Holds, CancelHold(h)
  PROVE  SInv'
<1>1. Release(h) /\ UNCHANGED <<cases, receipts, workers, interrupted>> /\ reconciled' = reconciled /\ L!IInv /\ ReceiptsOK
  BY DEF CancelHold, SInv
<1>2. PICK id \in RequestIds, purpose \in Purposes : h = <<id, purpose>>
  BY DEF Holds, Purposes
<1>3. L!IInv' /\ State(<<id, purpose>>) = "RESERVED" /\ Moves(id, purpose, "RELEASED")
  BY <1>1, <1>2, ReleaseMoves
<1>4. Outside
  BY <1>1, <1>3 DEF Outside, Moves, ReceiptsOK
<1>5. QED
  BY <1>1, <1>3, <1>4, OutsideInductive

LEMMA DecideInductive ==
  ASSUME SInv, NEW h \in Holds, OperatorNoCharge(h) \/ \E charge \in Charged : OperatorSettle(h, charge)
  PROVE  SInv'
<1>1. UNCHANGED <<cases, receipts, workers, interrupted>> /\ reconciled' = reconciled \cup {h} /\ L!IInv /\ ReceiptsOK
  BY DEF OperatorNoCharge, OperatorSettle, SInv
<1>2. PICK id \in RequestIds, purpose \in Purposes : h = <<id, purpose>>
  BY DEF Holds, Purposes
<1>3. PICK to \in {"SETTLED", "RELEASED"} :
        L!IInv' /\ State(<<id, purpose>>) \in {"DISPATCHED", "UNRESOLVED"} /\ Moves(id, purpose, to)
  <2>1. CASE OperatorNoCharge(h)
    BY <1>1, <1>2, <2>1, NoChargeMoves DEF OperatorNoCharge
  <2>2. CASE \E charge \in Charged : OperatorSettle(h, charge)
    BY <1>1, <1>2, <2>2, SettleMoves DEF OperatorSettle
  <2>3. QED
    BY <2>1, <2>2
<1>4. \A r \in RequestIds, p \in Purposes : <<r, p>> \in reconciled' <=> <<r, p>> \in reconciled \/ (r = id /\ p = purpose)
  BY <1>1, <1>2
<1>5. Outside
  BY <1>1, <1>3, <1>4 DEF Outside, Moves, ReceiptsOK
<1>6. QED
  BY <1>1, <1>3, <1>5, OutsideInductive

(* A step that leaves the holds, the records and the threads as they are.   *)
LEMMA NothingInductive ==
  ASSUME SInv, L!IInv', UNCHANGED <<holds, cases, receipts, workers, interrupted, reconciled>>
  PROVE  SInv'
<1>1. holds' = holds /\ reconciled' = reconciled /\ ReceiptsOK
  BY DEF SInv
<1>2. Outside
  BY <1>1 DEF Outside, State, ReceiptsOK
<1>3. QED
  BY <1>2, OutsideInductive

(* A stop takes the threads with what they knew; what a thread had still to *)
(* give back is remembered as interrupted.                                  *)
LEMMA CrashInductive ==
  ASSUME SInv, Crash
  PROVE  SInv'
<1>1. /\ tasks' = tasks /\ actions' = actions /\ remaining' = remaining /\ receipts' = receipts
      /\ holds' = holds /\ workers' = [w \in Workers |-> Idle] /\ UNCHANGED kernel /\ UNCHANGED cases
      /\ interrupted' = interrupted \cup {Me(w).id : w \in {v \in Workers : At(v, "giveback")}}
      /\ reconciled' = reconciled /\ WorkersOK /\ TablesOK /\ L!IInv
  BY DEF Crash, cases, kernel, SInv
<1>2. \A h : State(h)' = State(h)
  BY <1>1 DEF State
<1>3. TablesOK' /\ CasesOK' /\ L!IInv'
  BY <1>1, SameTables, KernelStutters DEF SInv
<1>4. \A v \in Workers : workers'[v] = Idle
  BY <1>1
<1>5. WorkersOK'
  <2>1. \A v \in Workers : WorkerOK(v)'
    BY <1>4, IdleKnows
  <2>2. OneAtATime'
    BY <1>4, IdleRow DEF OneAtATime, Me
  <2>3. workers' \in [Workers -> WorkerRow]
    BY <1>1, IdleRow
  <2>4. QED
    BY <2>1, <2>2, <2>3 DEF WorkersOK
<1>6. HoldsOK' /\ ReceiptsOK'
  BY <1>1, <1>2 DEF SInv, HoldsOK, ReceiptsOK, Plan, Execution
<1>7. AnswersOK'
  BY <1>1 DEF SInv, AnswersOK, Matched, Unconfirmed, OnlyOperator, Execution, State
<1>8. ReservedIsOwed'
  <2>1. ASSUME NEW r \in RequestIds, NEW p \in Purposes, State(<<r, p>>)' = "RESERVED"
        PROVE  Owed(r)'
    <3>1. Owed(r)
      BY <1>2, <2>1 DEF SInv, ReservedIsOwed
    <3>2. (\E w \in Workers : At(w, "giveback") /\ Me(w).id = r) => r \in interrupted'
      BY <1>1
    <3>3. QED
      BY <1>1, <3>1, <3>2 DEF Owed
  <2>2. QED
    BY <2>1 DEF ReservedIsOwed
<1>9. UnitsOK'
  <2>1. \A v \in Workers : ~ Consults(v)'
    BY <1>4, IdleKnows
  <2>2. Taking' = {} /\ Waiting' = {}
    BY <2>1 DEF Taking, Waiting, Takes
  <2>3. Paid' = Paid /\ Uncertain' = Uncertain
    BY <1>1 DEF Paid, Uncertain, Consulted, State
  <2>4. QED
    BY <1>1, <1>3, <2>2, <2>3, UnitsKept DEF SInv, TablesOK
<1>10. QED
  BY <1>3, <1>5, <1>6, <1>7, <1>8, <1>9 DEF SInv

LEMMA SemanticInitInductive == SemanticInit => SInv
<1> SUFFICES ASSUME SemanticInit PROVE SInv
  OBVIOUS
<1>1. /\ DOMAIN holds = {} /\ DOMAIN actions = {} /\ DOMAIN receipts = {} /\ interrupted = {} /\ reconciled = {}
      /\ remaining = CONSULTATIONS /\ CONSULTATIONS \in Nat /\ DEADLINE_STEPS \in Nat
      /\ tasks = [t \in CASES |-> [steps |-> 0, status |-> "OPEN"]]
      /\ workers = [w \in Workers |-> Idle]
  BY SemanticAssumption DEF SemanticInit
<1>2. L!IInv
  <2>1. accounts[Agent] \in L!AccountRow /\ DOMAIN accounts = {Agent}
    BY MaxType DEF SemanticInit, L!AccountRow, L!Amount
  <2>2. /\ accounts \in [DOMAIN accounts -> L!AccountRow] /\ DOMAIN accounts \subseteq {Agent}
        /\ \A a \in DOMAIN accounts :
             /\ accounts[a].spent = 0 /\ accounts[a].spent_high = 0 /\ accounts[a].reserved = 0
             /\ accounts[a].parent \in DOMAIN accounts \cup {None}
    BY <2>1 DEF SemanticInit
  <2>3. holds \in [DOMAIN holds -> L!HoldRow] /\ events = [h \in Holds |-> <<>>]
    BY <1>1 DEF SemanticInit
  <2>4. QED
    BY <1>1, <2>2, <2>3, KernelAssumptions, L!FundedInductive
<1>3. TablesOK
  <2>1. actions \in [DOMAIN actions -> [task: CASES, action: Actions, result: {"none", "done", "unresolved", "denied"}]]
    BY <1>1 DEF SemanticInit
  <2>2. QED
    BY <1>1, <2>1 DEF TablesOK
<1>4. CasesOK
  <2>1. \A t \in CASES : ActionsOf(t) = {} /\ Pending(t) = {} /\ ClosedBy(t) = {}
    BY <1>1 DEF ActionsOf, Pending, ClosedBy
  <2>2. Cardinality({}) = 0
    BY FS_EmptySet
  <2>3. QED
    BY <1>1, <2>1, <2>2 DEF CasesOK, CaseOK
<1>5. \A w \in Workers : workers[w] = Idle /\ Me(w).pc = "idle" /\ Me(w).task = None /\ \A c : At(w, c) <=> c = "idle"
  BY <1>1, IdleRow DEF Me, At
<1>6. WorkersOK
  <2>1. workers \in [Workers -> WorkerRow]
    BY <1>1, IdleRow
  <2>2. \A w \in Workers : WorkerOK(w)
    BY <1>5 DEF WorkerOK, Knows, IsRecorded, Pays, Concludes, UnderWay
  <2>3. OneAtATime
    BY <1>5 DEF OneAtATime
  <2>4. QED
    BY <2>1, <2>2, <2>3 DEF WorkersOK
<1>7. \A h : State(h) = "NONE"
  BY <1>1 DEF State
<1>8. HoldsOK /\ ReceiptsOK /\ ReservedIsOwed
  BY <1>1, <1>7 DEF HoldsOK, ReceiptsOK, ReservedIsOwed, Execution
<1>9. AnswersOK
  BY <1>1 DEF AnswersOK
<1>10. UnitsOK
  <2>1. Paid = {} /\ Uncertain = {}
    BY <1>1 DEF Paid, Uncertain, Consulted
  <2>2. Taking = {}
    BY <1>5 DEF Taking, Takes
  <2>3. Cardinality({}) = 0
    BY FS_EmptySet
  <2>4. Paid \cup Taking = {} /\ Paid \cup (Uncertain \ Waiting) = {} /\ CONSULTATIONS - remaining = 0
    BY <1>1, <2>1, <2>2
  <2>5. QED
    BY <2>3, <2>4 DEF UnitsOK
<1>11. QED
  BY <1>2, <1>3, <1>4, <1>6, <1>8, <1>9, <1>10 DEF SInv

LEMMA WorkInductive ==
  ASSUME SInv, NEW w \in Workers, Work(w)
  PROVE  SInv'
<1>1. CASE ReadView(w) \/ Begin(w) \/ Prepare(w) \/ ClaimHold(w)
  BY <1>1, ReadViewInductive, BeginInductive, PrepareInductive, ClaimHoldInductive
<1>2. CASE Consume(w) \/ RecordReceipt(w) \/ Silence(w) \/ DoubtHold(w) \/ SettleHold(w)
  BY <1>2, ConsumeInductive, RecordReceiptInductive, SilenceInductive, DoubtHoldInductive, SettleHoldInductive
<1>3. CASE ReadOutcome(w) \/ Finish(w) \/ Deny(w) \/ GiveBack(w)
  BY <1>3, ReadOutcomeInductive, FinishInductive, DenyInductive, GiveBackInductive
<1>4. QED
  BY <1>1, <1>2, <1>3 DEF Work

LEMMA SemanticNextInductive == SInv /\ [SemanticNext]_semanticVars => SInv'
<1> SUFFICES ASSUME SInv, [SemanticNext]_semanticVars PROVE SInv'
  OBVIOUS
<1>1. CASE Receives
  BY <1>1, ReceiveInductive DEF Receives
<1>2. CASE Works
  BY <1>2, WorkInductive DEF Works
<1>3. CASE Cancels
  BY <1>3, CancelHoldInductive DEF Cancels
<1>4. CASE Suspend
  <2>1. L!IInv' /\ UNCHANGED holds
    BY <1>4, SuspendKeeps DEF SInv
  <2>2. UNCHANGED <<holds, cases, receipts, workers, interrupted, reconciled>>
    BY <1>4, <2>1 DEF Suspend
  <2>3. QED
    BY <2>1, <2>2, NothingInductive
<1>5. CASE Crash
  BY <1>5, CrashInductive
<1>6. CASE UNCHANGED semanticVars
  <2>1. UNCHANGED <<holds, cases, receipts, workers, interrupted, reconciled>> /\ UNCHANGED kernel
    BY <1>6 DEF semanticVars, kernel
  <2>2. L!IInv'
    BY <2>1, KernelStutters DEF SInv
  <2>3. QED
    BY <2>1, <2>2, NothingInductive
<1>7. CASE Decides
  <2>1. PICK h \in Holds : OperatorNoCharge(h) \/ \E charge \in Charged : OperatorSettle(h, charge)
    BY <1>7 DEF Decides, Charged
  <2>2. QED
    BY <2>1, DecideInductive
<1>8. QED
  BY <1>1, <1>2, <1>3, <1>4, <1>5, <1>6, <1>7 DEF SemanticNext

-----------------------------------------------------------------------------
(* The theorems *)

(* The invariant holds whatever the threads, the agent, the operator and    *)
(* the stops of the process do, in any order.                               *)
THEOREM SemanticInvariant == SemanticSpec => []SInv
<1>1. SemanticInit => SInv
  BY SemanticInitInductive
<1>2. SInv /\ [SemanticNext]_semanticVars => SInv'
  BY SemanticNextInductive
<1>3. QED
  BY <1>1, <1>2, PTL DEF SemanticSpec

(* A set without two different members has one at most. *)
LEMMA AtMostOne ==
  ASSUME NEW S, \A r, s \in S : r = s
  PROVE  Cardinality(S) <= 1 /\ Cardinality(S) = IF S = {} THEN 0 ELSE 1
<1>1. CASE S = {}
  <2>1. Cardinality({}) = 0
    BY FS_EmptySet
  <2>2. QED
    BY <1>1, <2>1
<1>2. CASE S # {}
  <2>1. PICK r \in S : S = {r}
    BY <1>2
  <2>2. Cardinality({r}) = 1
    BY FS_Singleton
  <2>3. QED
    BY <1>2, <2>1, <2>2
<1>3. QED
  BY <1>1, <1>2

LEMMA SInvTypes == SInv => SemanticTypeOK
<1> SUFFICES ASSUME SInv PROVE SemanticTypeOK
  OBVIOUS
<1>1. L!TypeOK
  BY DEF SInv, L!IInv
<1>2. TypeOK
  BY <1>1 DEF TypeOK, L!TypeOK, AccountRow, L!AccountRow, HoldRow, L!HoldRow, Amount, L!Amount,
              EventKinds, L!EventKinds, HoldStates, L!HoldStates, OUTSTANDING, L!OUTSTANDING
<1>3. DOMAIN receipts \subseteq DOMAIN holds
  <2>1. SUFFICES ASSUME NEW h \in DOMAIN receipts PROVE h \in DOMAIN holds
    OBVIOUS
  <2>2. PICK r \in RequestIds, p \in Purposes : h = <<r, p>>
    BY DEF SInv, ReceiptsOK, Holds, Purposes
  <2>3. State(<<r, p>>) \in {"DISPATCHED", "SETTLED", "RELEASED"}
    BY <2>2 DEF SInv, ReceiptsOK
  <2>4. QED
    BY <2>2, <2>3 DEF State
<1>4. QED
  BY <1>2, <1>3 DEF SInv, TablesOK, SemanticTypeOK

(* A case counts every action once, waits for one at a time and is closed   *)
(* by one, for any number of clients, threads, repetitions and crashes.     *)
THEOREM CasesAreWhatActionsMade == SemanticSpec => []CasesFollowActions
<1>1. SInv => CasesFollowActions
  <2>1. SUFFICES ASSUME SInv, NEW t \in CASES
                 PROVE  /\ tasks[t].steps = Cardinality({r \in DOMAIN actions : actions[r].task = t})
                        /\ Cardinality(Pending(t)) <= 1
                        /\ Cardinality(ClosedBy(t)) = IF tasks[t].status = "OPEN" THEN 0 ELSE 1
    BY SInvTypes DEF CasesFollowActions
  <2>2. CaseOK(t)
    BY <2>1 DEF SInv, CasesOK
  <2>3. tasks[t].steps = Cardinality({r \in DOMAIN actions : actions[r].task = t})
    BY <2>2 DEF CaseOK, ActionsOf
  <2>4. Cardinality(Pending(t)) <= 1
    BY <2>2, AtMostOne DEF CaseOK
  <2>5. Cardinality(ClosedBy(t)) = IF ClosedBy(t) = {} THEN 0 ELSE 1
    BY <2>2, AtMostOne DEF CaseOK
  <2>6. QED
    BY <2>2, <2>3, <2>4, <2>5 DEF CaseOK
<1>2. QED
  BY <1>1, SemanticInvariant, PTL

-----------------------------------------------------------------------------
(* What was charged *)

ChargesOK == \A h \in Holds : State(h) = "SETTLED" => Warranted(h)

(* What was settled before a step stays as it was, and nothing else is. *)
NothingSettled == \A h \in Holds : State(h)' = "SETTLED" => State(h) = "SETTLED" /\ holds'[h] = holds[h]

LEMMA OthersDoNotSettle ==
  ASSUME L!IInv, NEW g \in Holds,
         \/ \E bound, request : Reserve(Agent, g, bound, request, None)
         \/ Dispatch(g, 0) \/ MarkUnresolved(g) \/ Release(g) \/ ReconcileNoCharge(g)
  PROVE  NothingSettled
<1>1. CASE \E bound, request : Reserve(Agent, g, bound, request, None)
  BY <1>1, KernelRows DEF Reserve, NothingSettled, State
<1>2. CASE Dispatch(g, 0)
  BY <1>2, KernelRows DEF Dispatch, SetState, NothingSettled, State
<1>3. CASE MarkUnresolved(g)
  BY <1>3, KernelRows DEF MarkUnresolved, SetState, NothingSettled, State
<1>4. CASE Release(g)
  BY <1>4, KernelRows DEF Release, SetState, NothingSettled, State
<1>5. CASE ReconcileNoCharge(g)
  BY <1>5, KernelRows DEF ReconcileNoCharge, SetState, NothingSettled, State
<1>6. QED
  BY <1>1, <1>2, <1>3, <1>4, <1>5

(* A settlement leaves the other rows alone, and writes its charge. *)
LEMMA SettleWrites ==
  ASSUME L!IInv, NEW g \in Holds, NEW charge, Settle(g, charge)
  PROVE  /\ g \in DOMAIN holds' /\ holds'[g].actual = charge
         /\ \A h \in Holds : h # g /\ State(h)' = "SETTLED" => State(h) = "SETTLED" /\ holds'[h] = holds[h]
BY KernelRows DEF Settle, State

(* What was charged stays warranted while receipts are only added. *)
LEMMA StaysWarranted ==
  ASSUME NEW h, Warranted(h), State(h)' = "SETTLED", holds'[h] = holds[h], reconciled \subseteq reconciled',
         h \in DOMAIN receipts => h \in DOMAIN receipts' /\ receipts'[h] = receipts[h]
  PROVE  Warranted(h)'
BY DEF Warranted

LEMMA ChargesKept ==
  ASSUME ChargesOK, NothingSettled, reconciled \subseteq reconciled',
         \A h \in DOMAIN receipts : h \in DOMAIN receipts' /\ receipts'[h] = receipts[h]
  PROVE  ChargesOK'
BY StaysWarranted DEF ChargesOK, NothingSettled

LEMMA ChargesSettled ==
  ASSUME L!IInv, ChargesOK, NEW g \in Holds, NEW charge, Settle(g, charge), receipts' = receipts,
         reconciled \subseteq reconciled', g \in reconciled' \/ (g \in DOMAIN receipts /\ receipts[g] = charge),
         State(g)' = "SETTLED"
  PROVE  ChargesOK'
<1>1. Warranted(g)'
  BY SettleWrites DEF Warranted
<1>2. ASSUME NEW h \in Holds, h # g, State(h)' = "SETTLED" PROVE Warranted(h)'
  BY <1>2, SettleWrites, StaysWarranted DEF ChargesOK
<1>3. QED
  BY <1>1, <1>2 DEF ChargesOK

LEMMA WorkCharges ==
  ASSUME SInv, ChargesOK, NEW w \in Workers, Work(w)
  PROVE  ChargesOK'
<1>1. L!IInv /\ WorkersOK /\ ReceiptsOK
  BY DEF SInv
<1>2. CASE ReadView(w) \/ Begin(w) \/ Consume(w) \/ Silence(w) \/ ReadOutcome(w) \/ Finish(w) \/ Deny(w)
  <2>1. holds' = holds /\ receipts' = receipts /\ reconciled' = reconciled
    BY <1>2 DEF ReadView, Begin, Consume, Silence, ReadOutcome, Finish, Deny, kernel
  <2>2. NothingSettled
    BY <2>1 DEF NothingSettled, State
  <2>3. QED
    BY <2>1, <2>2, ChargesKept
<1>3. CASE Prepare(w) \/ ClaimHold(w) \/ DoubtHold(w) \/ GiveBack(w)
  <2>1. receipts' = receipts /\ reconciled' = reconciled
    BY <1>3 DEF Prepare, ClaimHold, DoubtHold, GiveBack
  <2>2. Hold(w) \in Holds
    <3>1. Me(w).pc \in UnderWay
      BY <1>3 DEF Prepare, ClaimHold, DoubtHold, GiveBack, At, Me, UnderWay
    <3>2. Me(w).id \in RequestIds /\ Me(w).purpose \in Purposes
      BY <1>1, <3>1, RowTypes
    <3>3. QED
      BY <3>2 DEF Hold, Holds, Purposes
  <2>3. \/ UNCHANGED kernel
        \/ \E bound, request : Reserve(Agent, Hold(w), bound, request, None)
        \/ Dispatch(Hold(w), 0) \/ MarkUnresolved(Hold(w)) \/ Release(Hold(w))
    <3>1. CASE Prepare(w)
      BY <3>1 DEF Prepare
    <3>2. CASE ClaimHold(w)
      BY <3>2 DEF ClaimHold
    <3>3. CASE DoubtHold(w)
      BY <3>3 DEF DoubtHold
    <3>4. CASE GiveBack(w)
      BY <3>4 DEF GiveBack
    <3>5. QED
      BY <1>3, <3>1, <3>2, <3>3, <3>4
  <2>4. CASE UNCHANGED kernel
    <3>1. NothingSettled
      BY <2>4 DEF NothingSettled, State, kernel
    <3>2. QED
      BY <2>1, <3>1, ChargesKept
  <2>5. CASE ~ UNCHANGED kernel
    <3>1. NothingSettled
      BY <1>1, <2>2, <2>3, <2>5, OthersDoNotSettle
    <3>2. QED
      BY <2>1, <3>1, ChargesKept
  <2>6. QED
    BY <2>4, <2>5
<1>4. CASE SettleHold(w)
  <2>1. /\ At(w, "settle") /\ Me(w).pc \in UnderWay /\ receipts' = receipts /\ reconciled' = reconciled
    BY <1>4 DEF SettleHold, At, Me, UnderWay
  <2>2. PICK id \in RequestIds, purpose \in Purposes : id = Me(w).id /\ purpose = Me(w).purpose
    BY <1>1, <2>1, RowTypes
  <2>3. Hold(w) = <<id, purpose>> /\ Hold(w) \in DOMAIN receipts /\ Hold(w) \in Holds
    <3>1. Hold(w) = <<id, purpose>> /\ <<id, purpose>> \in DOMAIN receipts
      BY <1>1, <2>1, <2>2, Known
    <3>2. <<id, purpose>> \in Holds
      BY DEF Holds, Purposes
    <3>3. QED
      BY <3>1, <3>2
  <2>4. CASE Settle(Hold(w), receipts[Hold(w)])
    <3>1. PICK charge \in Charged : charge = receipts[<<id, purpose>>]
      BY <1>1, <2>2, <2>3 DEF ReceiptsOK
    <3>2. Moves(id, purpose, "SETTLED")
      BY <1>1, <2>2, <2>3, <2>4, <3>1, SettleMoves
    <3>3. State(Hold(w)) = State(<<id, purpose>>) /\ State(<<id, purpose>>)' = "SETTLED"
      BY <2>2, <2>3, <3>2 DEF Moves
    <3>4. QED
      BY <1>1, <2>1, <2>2, <2>3, <2>4, <3>1, <3>3, ChargesSettled
  <2>5. CASE UNCHANGED kernel
    <3>1. NothingSettled
      BY <2>5 DEF NothingSettled, State, kernel
    <3>2. QED
      BY <2>1, <3>1, ChargesKept
  <2>6. QED
    BY <1>4, <2>4, <2>5 DEF SettleHold
<1>5. CASE RecordReceipt(w)
  <2>1. Me(w).pc \in {"consume", "record", "doubt"} /\ holds' = holds /\ reconciled' = reconciled
        /\ receipts' = Insert(receipts, Hold(w), Me(w).charge)
    BY <1>5 DEF RecordReceipt, At, Me, kernel
  <2>2. Hold(w) \notin DOMAIN receipts
    BY <1>1, <2>1, KnownOpen DEF Hold
  <2>3. \A h \in DOMAIN receipts : h \in DOMAIN receipts' /\ receipts'[h] = receipts[h]
    BY <2>1, <2>2 DEF Insert
  <2>4. NothingSettled
    BY <2>1 DEF NothingSettled, State
  <2>5. QED
    BY <2>1, <2>3, <2>4, ChargesKept
<1>6. QED
  BY <1>2, <1>3, <1>4, <1>5 DEF Work

LEMMA ChargesInductive == SInv /\ ChargesOK /\ [SemanticNext]_semanticVars => ChargesOK'
<1> SUFFICES ASSUME SInv, ChargesOK, [SemanticNext]_semanticVars PROVE ChargesOK'
  OBVIOUS
<1>1. L!IInv
  BY DEF SInv
<1>2. CASE Works
  BY <1>2, WorkCharges DEF Works
<1>3. CASE Cancels
  <2>1. PICK h \in Holds : Release(h) /\ receipts' = receipts /\ reconciled' = reconciled
    BY <1>3 DEF Cancels, CancelHold
  <2>2. QED
    BY <1>1, <2>1, OthersDoNotSettle, ChargesKept
<1>4. CASE Decides
  <2>1. PICK h \in Holds : OperatorNoCharge(h) \/ \E charge \in Charged : OperatorSettle(h, charge)
    BY <1>4 DEF Decides, Charged
  <2>2. receipts' = receipts /\ reconciled' = reconciled \cup {h}
    BY <2>1 DEF OperatorNoCharge, OperatorSettle
  <2>3. CASE OperatorNoCharge(h)
    BY <1>1, <2>2, <2>3, OthersDoNotSettle, ChargesKept DEF OperatorNoCharge
  <2>4. ASSUME NEW charge \in Charged, OperatorSettle(h, charge) PROVE ChargesOK'
    <3>1. PICK id \in RequestIds, purpose \in Purposes : h = <<id, purpose>>
      BY DEF Holds, Purposes
    <3>2. Settle(h, charge) /\ Moves(id, purpose, "SETTLED")
      BY <1>1, <2>4, <3>1, SettleMoves DEF OperatorSettle
    <3>3. State(h)' = "SETTLED"
      BY <3>1, <3>2 DEF Moves
    <3>4. QED
      BY <1>1, <2>2, <3>2, <3>3, ChargesSettled
  <2>5. QED
    BY <2>1, <2>3, <2>4
<1>5. CASE Receives \/ Suspend \/ Crash \/ UNCHANGED semanticVars
  <2>1. holds' = holds /\ receipts' = receipts /\ reconciled' = reconciled
    BY <1>5 DEF Receives, Receive, Suspend, SetLifecycle, Crash, semanticVars, kernel
  <2>2. NothingSettled
    BY <2>1 DEF NothingSettled, State
  <2>3. QED
    BY <2>1, <2>2, ChargesKept
<1>6. QED
  BY <1>2, <1>3, <1>4, <1>5 DEF SemanticNext

LEMMA ChargesHold == SemanticSpec => []ChargesOK
<1>1. SemanticInit => ChargesOK
  BY DEF SemanticInit, ChargesOK, State
<1>2. SInv /\ ChargesOK /\ [SemanticNext]_semanticVars => ChargesOK'
  BY ChargesInductive
<1>3. QED
  BY <1>1, <1>2, SemanticInvariant, PTL DEF SemanticSpec

(* What an action was answered is what the kernel says of its execution and *)
(* what was charged for it is what its receipt says, unless the operator    *)
(* decided it, whenever that happens: only so an answer "unresolved" ceases *)
(* to be true, and it does for good.                                        *)
THEOREM AnswersAreTrue == SemanticSpec => []AnswersMatchHolds
<1>1. SInv /\ ChargesOK => AnswersMatchHolds
  <2>1. SUFFICES ASSUME SInv, ChargesOK, NEW r \in DOMAIN actions
                 PROVE  CASE actions[r].result = "done" -> actions[r].action = "abstain" \/ Warranted(<<r, "execution">>)
                          [] actions[r].result = "unresolved" ->
                               \/ State(<<r, "execution">>) \in {"UNRESOLVED", "RELEASED"}
                               \/ State(<<r, "execution">>) = "SETTLED" /\ OnlyOperator(<<r, "execution">>)
                          [] actions[r].result = "denied" -> State(<<r, "execution">>) \in {"NONE", "RESERVED", "RELEASED"}
                          [] actions[r].result = "none" -> TRUE
    BY DEF AnswersMatchHolds
  <2>2. Matched(r) /\ r \in RequestIds /\ actions[r].result \in {"none", "done", "unresolved", "denied"}
    BY <2>1 DEF SInv, AnswersOK, TablesOK
  <2>3. Execution(r) = "SETTLED" => Warranted(<<r, "execution">>)
    BY <2>1, <2>2 DEF ChargesOK, Execution, Holds
  <2>4. QED
    BY <2>2, <2>3 DEF Matched, Unconfirmed, Execution
<1>2. QED
  BY <1>1, SemanticInvariant, ChargesHold, PTL

(* An answered action keeps nothing reserved unless a crash interrupted its *)
(* clean-up or the thread that answered it is still at it.                  *)
THEOREM NothingIsForgotten == SemanticSpec => []NothingLeftReserved
<1>1. SInv => NothingLeftReserved
  <2>1. SUFFICES ASSUME SInv, NEW h \in DOMAIN holds, holds[h].state = "RESERVED"
                 PROVE  \/ actions[h[1]].result = "none"
                        \/ h[1] \in interrupted
                        \/ \E w \in Workers : At(w, "giveback") /\ Me(w).id = h[1]
    BY DEF NothingLeftReserved
  <2>2. h \in Holds
    BY <2>1, KernelRows DEF SInv
  <2>3. PICK r \in RequestIds, p \in Purposes : h = <<r, p>>
    BY <2>2 DEF Holds, Purposes
  <2>4. State(<<r, p>>) = "RESERVED" /\ h[1] = r
    BY <2>1, <2>3 DEF State
  <2>5. Owed(r)
    BY <2>1, <2>4 DEF SInv, ReservedIsOwed
  <2>6. QED
    BY <2>4, <2>5 DEF Owed
<1>2. QED
  BY <1>1, SemanticInvariant, PTL

(* The units of the capacity that are gone are the consultations that were  *)
(* charged, or whose receipt was lost or is on its way.                     *)
THEOREM UnitsAreAccountedFor == SemanticSpec => []ConsultationsCounted
<1>1. SInv => ConsultationsCounted
  <2>1. SUFFICES ASSUME SInv PROVE ConsultationsCounted
    OBVIOUS
  <2>2. IsFiniteSet(RequestIds) /\ CONSULTATIONS \in Nat /\ remaining \in Nat
    BY <2>1, SemanticAssumption DEF SInv, TablesOK
  <2>3. Paid \subseteq RequestIds /\ Uncertain \subseteq RequestIds /\ Taking \subseteq RequestIds
    BY <2>1 DEF SInv, TablesOK, Paid, Uncertain, Taking, Consulted
  <2> DEFINE A == Paid \cup Taking
             B == Paid \cup (Uncertain \ Waiting)
             P == Paid
             U == Uncertain
  <2>4. P \subseteq A /\ B \subseteq P \cup U /\ A \subseteq RequestIds /\ P \cup U \subseteq RequestIds
        /\ P \subseteq RequestIds /\ U \subseteq RequestIds
    BY <2>3
  <2>5. Cardinality(A) <= CONSULTATIONS - remaining /\ CONSULTATIONS - remaining <= Cardinality(B)
    BY <2>1 DEF SInv, UnitsOK
  <2>6. ConsultationsCounted <=> /\ Cardinality(P) <= CONSULTATIONS - remaining
                                 /\ CONSULTATIONS - remaining <= Cardinality(P) + Cardinality(U)
    BY DEF ConsultationsCounted
  <2> HIDE DEF A, B, P, U
  <2>7. IsFiniteSet(A) /\ IsFiniteSet(P) /\ IsFiniteSet(U) /\ IsFiniteSet(P \cup U) /\ IsFiniteSet(P \cap U)
    <3>1. IsFiniteSet(A) /\ IsFiniteSet(P) /\ IsFiniteSet(U) /\ IsFiniteSet(P \cup U)
      BY <2>2, <2>4, FS_Subset
    <3>2. P \cap U \subseteq P
      OBVIOUS
    <3>3. QED
      BY <3>1, <3>2, FS_Subset
  <2>8. Cardinality(P) <= Cardinality(A)
    BY <2>4, <2>7, FS_Subset
  <2>9. Cardinality(B) <= Cardinality(P \cup U) /\ IsFiniteSet(B)
    BY <2>4, <2>7, FS_Subset
  <2>10. Cardinality(P \cup U) = Cardinality(P) + Cardinality(U) - Cardinality(P \cap U)
    BY <2>7, FS_Union
  <2>11. /\ Cardinality(A) \in Nat /\ Cardinality(B) \in Nat /\ Cardinality(P) \in Nat /\ Cardinality(U) \in Nat
         /\ Cardinality(P \cup U) \in Nat /\ Cardinality(P \cap U) \in Nat
    BY <2>7, <2>9, FS_CardinalityType
  <2>12. QED
    BY <2>2, <2>5, <2>6, <2>8, <2>9, <2>10, <2>11
<1>2. QED
  BY <1>1, SemanticInvariant, PTL
=============================================================================
