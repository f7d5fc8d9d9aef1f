---------------------------- MODULE EngineProofs ----------------------------
(***************************************************************************)
(* Theorems about Engine for every number of cases, capacities, prices and *)
(* interruptions.                                                          *)
(*                                                                         *)
(* The kernel's rows are taken care of by the theorems about Ledger and    *)
(* Market (M).  What is left is an argument about one task at one tick: the*)
(* states of its holds constrain each other (PairOK) wherever a step was   *)
(* interrupted, and where the step is (ProcOK) says which of the states    *)
(* the current task can be in; the holds of a tick that is over are never  *)
(* moved again.                                                            *)
(*                                                                         *)
(* Scarcity rests on two more invariants.  The counters of a pass are lost *)
(* with every interruption and read again from the traces; what is begun   *)
(* and has no trace is at most the task in front (ScarceInv).  An auction's*)
(* executions are its awarded bids, of which there are no more than units  *)
(* (AuctionInv).                                                           *)
(***************************************************************************)
EXTENDS Engine, FiniteSetTheorems, TLAPS

M == INSTANCE MarketProofs WITH
  AccountIds <- {Run, Workflow} \cup Agents, HoldIds <- Holds, Units <- {"SIM_COST_MICRO"},
  Requests <- DOMAIN COSTS, Premium <- {"premium"}, Fundings <- {Budget}, Bounds <- {COSTS[r] : r \in DOMAIN COSTS},
  Charges <- {COSTS[r] : r \in DOMAIN COSTS}, Lifecycles <- {}, Expiries <- (0 .. Deadline + 2) \cup {None},
  Times <- 0 .. Deadline + 1, BidIds <- 1 .. NTasks * (Deadline + 1), AuctionIds <- Ticks,
  Owners <- {Run, Workflow, Treasury, Operator} \cup Agents, Capacities <- {0, PremiumCapacity}, Deadlines <- 2 .. Deadline + 2, Issues <- {}, TransferIds <- {},
  Transferred <- {}

-----------------------------------------------------------------------------
(* The inductive invariant *)

Choosable == Resources \cup {"defer", "wait"}
PlanRow   == [task: Tasks, resource: Choosable, price: Prices \cup {None}]
Statuses  == {"PENDING", "WAITING", "ABANDONED", "DENIED", "UNRESOLVED", "VERIFIED", "FAILED"}

plan == checkpoint.plan

PlanTasks == {plan[j].task : j \in DOMAIN plan}

(* The plan names every task that waits and has arrived, once; at the last  *)
(* tick it defers them all.                                                 *)
CheckpointOK ==
  /\ checkpoint \in [tick: 0 .. Deadline + 1, plan: Seq(PlanRow) \cup {None}, finished: BOOLEAN]
  /\ ~ checkpoint.finished => now <= Deadline
  /\ plan # None =>
       /\ ~ checkpoint.finished
       /\ \A i, j \in DOMAIN plan : plan[i].task = plan[j].task => i = j
       /\ now = Deadline => \A j \in DOMAIN plan : plan[j].resource = "defer"
       /\ \A t \in Tasks : Arrived(t) /\ Waiting(t) => t \in PlanTasks

Execution(t, k)    == State(<<t, k, "execution">>)
Verification(t, k) == State(<<t, k, "verification">>)
Planning(t, k)     == State(<<t, k, "planning">>)

(* Holds are made for the tasks of the plan, and but for the planning only  *)
(* where the plan has a resource.                                           *)
HoldsInPlan ==
  \A t \in Tasks, k \in Ticks, kind \in Kinds : State(<<t, k, kind>>) # "NONE" =>
    /\ k <= now
    /\ k = now => /\ plan # None /\ t \in PlanTasks
                  /\ kind # "planning" => Chosen(t) \in Resources

(* What holds of an execution and its verification, wherever a step was     *)
(* interrupted; when the tick is over, neither is left open.                *)
PairOK(t, k) ==
  /\ Verification(t, k) # "NONE" => Execution(t, k) # "NONE"
  /\ Execution(t, k) \in Begun => Verification(t, k) # "NONE"
  /\ Verification(t, k) \in Begun => Execution(t, k) = "SETTLED"
  /\ Verification(t, k) = "RELEASED" => Execution(t, k) \in {"RELEASED", "UNRESOLVED"}
  /\ Execution(t, k) # "NONE" => /\ Planning(t, k) # "NONE"
                                 /\ t \in Mandatory => <<t, k>> \in DOMAIN approvals /\ approvals[<<t, k>>] = "APPROVED"
  /\ k < now => {Execution(t, k), Verification(t, k)} \cap {"RESERVED", "DISPATCHED"} = {}

PairsOK == \A t \in Tasks, k \in Ticks : PairOK(t, k)

ReceiptsOK == \A h \in receipts : h \in Holds /\ State(h) \in {"DISPATCHED", "SETTLED"}

TraceRow == [tick: Ticks, status: Statuses, resource: Choosable, attempts: SUBSET Holds, bid: BOOLEAN]

(* What the trace of task t at tick k says of its holds. *)
Says(t, k, status) ==
  CASE status \in {"VERIFIED", "FAILED"} ->
         Execution(t, k) = "SETTLED" /\ Verification(t, k) \in {"SETTLED", "UNRESOLVED"}
    [] status = "UNRESOLVED" ->
         Execution(t, k) = "UNRESOLVED" /\ Verification(t, k) \in {"RELEASED"}
    [] OTHER -> {Execution(t, k), Verification(t, k)} \subseteq {"NONE", "RELEASED"}

TraceOK(t, k) ==
  /\ Says(t, k, traces[t].status)
  /\ k <= now
  /\ k = now => plan # None /\ t \in PlanTasks
  /\ k = Deadline => traces[t].status # "WAITING"

(* An execution of a tick that is over is the one its task's trace is about.*)
TracesOK ==
  /\ DOMAIN traces \subseteq Tasks /\ traces \in [DOMAIN traces -> TraceRow]
  /\ \A t \in DOMAIN traces, k \in Ticks : traces[t].tick = k => TraceOK(t, k)
  /\ \A t \in Tasks, k \in Ticks : k < now /\ Execution(t, k) \in Begun =>
       t \in DOMAIN traces /\ traces[t].tick = k /\ traces[t].status # "WAITING"
  /\ plan # None => \A t \in PlanTasks \cap DOMAIN traces : traces[t].status = "WAITING" \/ traces[t].tick = now

(* A bid is backed by an execution. *)
BidsOK ==
  \A b \in DOMAIN bids :
    bids[b] \in [auction: Ticks, agent: Agents, price: Prices \cup {None},
                hold: Tasks \X Ticks \X {"execution"}, state: BidStates]

ApprovalsOK == DOMAIN approvals \subseteq Tasks \X Ticks

World == CheckpointOK /\ HoldsInPlan /\ PairsOK /\ ReceiptsOK /\ TracesOK /\ BidsOK /\ ApprovalsOK

-----------------------------------------------------------------------------
(* Where the step is *)

FirstPass  == {"item", "approval", "review", "bid", "giveback", "clear"}
SecondPass == {"candidate", "passover", "executed", "verdict", "finish"}
OnHold     == {"prepare", "claim", "doubt", "record", "settle"}
OnTask     == {"approval", "review", "bid", "giveback", "passover", "executed", "verdict", "unverify", "save"} \cup OnHold
InPass     == FirstPass \cup SecondPass \cup OnTask
ProcStates == {"idle", "plan", "open", "lapse", "sweep"} \cup InPass

Counters == [{"premium", "consultation"} -> Int]

ProcRow == [pc: ProcStates, i: Nat, cands: Seq(Tasks), caps: Counters \cup {None},
            kind: Kinds \cup {None}, status: Statuses \cup {None}, attempts: SUBSET Holds, executing: BOOLEAN]

(* The candidates have their two holds; each task of the plan that was      *)
(* looked at, and in the second pass each task of it, has its trace of this *)
(* tick or is a candidate that is still to come.                            *)
Ahead(m) == proc.executing => proc.i <= m

CandidateOK(m, t) ==
  /\ t \in PlanTasks /\ Chosen(t) \in Resources
  /\ <<t, now, "verification">> \in DOMAIN holds
  /\ Ahead(m) => ~ Taken(t)
  /\ ~ proc.executing => \E j \in DOMAIN plan : j < proc.i /\ plan[j].task = t

CandidatesOK ==
  /\ \A m \in DOMAIN proc.cands, t \in Tasks : proc.cands[m] = t => CandidateOK(m, t)
  /\ \A m, n \in DOMAIN proc.cands : proc.cands[m] = proc.cands[n] => m = n
  /\ \A j \in DOMAIN plan, t \in Tasks : plan[j].task = t /\ (proc.executing \/ j < proc.i) =>
       Taken(t) \/ \E m \in DOMAIN proc.cands : Ahead(m) /\ proc.cands[m] = t

PassOK ==
  /\ plan # None
  /\ proc.i >= 1 /\ proc.caps \in Counters
  /\ proc.pc \in FirstPass => ~ proc.executing
  /\ proc.pc \in SecondPass => proc.executing
  /\ At("clear") => proc.i > Len(plan)
  /\ At("finish") => proc.i > Len(proc.cands)
  /\ CandidatesOK

(* What is settled about task t, the current one, when a hold of a kind is  *)
(* prepared or executed.                                                    *)
KindOK(t, k, kind) ==
  /\ kind \in {"planning", "mandatory_review", "bidding"} => ~ proc.executing
  /\ kind \in Retries => proc.executing /\ proc.status = "UNRESOLVED" /\ Execution(t, k) = "UNRESOLVED"
  /\ kind # "planning" => Chosen(t) \in Resources /\ Planning(t, k) # "NONE"
  /\ kind \in {"planning", "mandatory_review"} => proc.attempts = {}
  /\ kind = "mandatory_review" => t \in Mandatory
  /\ kind \in {"mandatory_review", "execution"} /\ t \in Mandatory => <<t, k>> \in DOMAIN approvals
  /\ kind = "execution" => proc.executing \/ proc.attempts = {}
  /\ kind = "verification" /\ ~ proc.executing => Execution(t, k) # "NONE" /\ proc.attempts # {}
  /\ kind = "verification" /\ proc.executing => Execution(t, k) = "SETTLED"
  /\ kind = "bidding" => Verification(t, k) # "NONE" /\ proc.attempts # {}

HoldOK(t, k, kind) ==
  /\ KindOK(t, k, kind)
  /\ At("prepare") /\ kind \in {"execution", "verification"} => ~ proc.executing
  /\ At("prepare") /\ kind = "mandatory_review" => approvals[<<t, k>>] = "PENDING"
  /\ ~ At("prepare") => /\ kind \in {"execution", "verification"} => proc.executing
                        /\ State(<<t, k, kind>>) # "NONE"
  /\ proc.pc \in {"doubt", "record", "settle"} => State(<<t, k, kind>>) = "DISPATCHED"
  /\ At("doubt") => <<t, k, kind>> \notin receipts
  /\ At("settle") => <<t, k, kind>> \in receipts

(* What a conclusion has established. *)
ConclusionOK(t, k) ==
  /\ proc.status # "WAITING" \/ k # Deadline
  /\ At("giveback") => proc.status = "DENIED" /\ (proc.attempts = {} => Execution(t, k) = "NONE")
  /\ At("unverify") => \/ proc.status = "UNRESOLVED" /\ Execution(t, k) = "UNRESOLVED"
                       \/ proc.status \in {"WAITING", "ABANDONED", "DENIED"} /\ Execution(t, k) \in {"NONE", "RELEASED"}
  /\ At("save") => Says(t, k, proc.status)

TaskOK(t, k) ==
  /\ proc.pc \in OnHold => proc.kind \in Kinds /\ \A kind \in Kinds : proc.kind = kind => HoldOK(t, k, kind)
  /\ proc.pc \in {"approval", "review"} => /\ t \in Mandatory /\ Chosen(t) \in Resources
                                           /\ Planning(t, k) # "NONE" /\ proc.attempts = {}
  /\ At("review") => <<t, k>> \in DOMAIN approvals
  /\ At("bid") => Chosen(t) \in Resources /\ Verification(t, k) # "NONE" /\ proc.attempts # {}
  /\ proc.pc \in {"passover", "executed"} => proc.kind = "execution"
  /\ At("executed") => Execution(t, k) \in {"SETTLED", "UNRESOLVED", "RELEASED"}
  /\ At("verdict") => Execution(t, k) = "SETTLED" /\ Verification(t, k) \in {"SETTLED", "UNRESOLVED"}
  /\ ConclusionOK(t, k)

CurrentOK ==
  /\ IF proc.executing THEN proc.i \in DOMAIN proc.cands
     ELSE proc.i \in DOMAIN plan /\ ~ Taken(Task)
  /\ proc.status \in Statuses
  /\ \A t \in Tasks, k \in Ticks : t = Task /\ k = now => TaskOK(t, k)

ProcOK ==
  /\ proc \in ProcRow
  /\ At("plan") => plan = None /\ ~ checkpoint.finished
  /\ At("open") => plan # None
  /\ proc.pc \in {"lapse", "sweep"} => plan = None
  /\ proc.pc \in InPass => PassOK
  /\ proc.pc \in OnTask => CurrentOK

EInv == M!IInv /\ World /\ ProcOK

-----------------------------------------------------------------------------
(* The kernel beneath *)

LEMMA CostAmounts ==
  /\ DOMAIN COSTS = {"cheap", "premium", "consultation", "planning", "bidding", "verification", "mandatory_review"}
  /\ \A r \in DOMAIN COSTS : COSTS[r] \in 1 .. MAX_AMOUNT
  /\ MAX_AMOUNT \in Nat
<1>1. DOMAIN COSTS = {"cheap", "premium", "consultation", "planning", "bidding", "verification", "mandatory_review"}
  BY DEF COSTS
<1>2. \A r \in DOMAIN COSTS : COSTS[r] \in Nat \ {0}
  BY <1>1 DEF COSTS
<1>3. MAX_AMOUNT \in Nat /\ \A r \in DOMAIN COSTS : COSTS[r] <= MAX_AMOUNT
  BY EngineAssumption, NamesAssumption
<1>4. QED
  BY <1>1, <1>2, <1>3

LEMMA TasksType ==
  /\ NTasks \in Nat \ {0} /\ NAgents \in Nat \ {0} /\ Deadline \in Nat
  /\ Tasks \subseteq Nat /\ IsFiniteSet(Tasks) /\ IsFiniteSet(Ticks)
  /\ Mandatory \subseteq Tasks /\ Late \subseteq Tasks
  /\ \A t \in Tasks : Agent(t) \in Agents
<1>1. /\ NTasks \in Nat \ {0} /\ NAgents \in Nat \ {0} /\ Deadline \in Nat
      /\ Mandatory \subseteq Tasks /\ Late \subseteq Tasks
  BY EngineAssumption DEF Tasks
<1>2. IsFiniteSet(1 .. NTasks) /\ IsFiniteSet(0 .. Deadline)
  BY <1>1, FS_Interval
<1>3. QED
  BY <1>1, <1>2 DEF Tasks, Ticks, Agents

LEMMA FiniteNames == IsFiniteSet(Holds) /\ IsFiniteSet(Agents) /\ IsFiniteSet({Run, Workflow, Treasury, Operator} \cup Agents)
<1> DEFINE kinds == <<"planning", "bidding", "mandatory_review", "execution", "verification",
                      "retry-1", "retry-2", "retry-3">>
           pairs == (Tasks \X Ticks) \X Kinds
           flat  == [p \in pairs |-> <<p[1][1], p[1][2], p[2]>>]
           agent == [t \in Tasks |-> Agent(t)]
<1>1. IsFiniteSet(Kinds)
  <2>1. kinds \in [1 .. 8 -> Kinds] /\ \A kind \in Kinds : \E i \in 1 .. 8 : kinds[i] = kind
    BY DEF Kinds, Retries
  <2>2. kinds \in Surjection(1 .. 8, Kinds)
    BY <2>1 DEF Surjection
  <2>3. IsFiniteSet(1 .. 8)
    <3>1. PICK n \in Nat : n = 8
      OBVIOUS
    <3>2. IsFiniteSet(1 .. n)
      BY FS_Interval
    <3>3. QED
      BY <3>1, <3>2
  <2> HIDE DEF kinds
  <2>4. QED
    BY <2>2, <2>3, FS_Surjection
<1>2. IsFiniteSet(pairs)
  BY <1>1, TasksType, FS_Product
<1>3. flat \in Surjection(pairs, Holds)
  <2>1. \A p \in pairs : flat[p] \in Holds
    BY DEF Holds
  <2>2. \A h \in Holds : <<<<h[1], h[2]>>, h[3]>> \in pairs /\ flat[<<<<h[1], h[2]>>, h[3]>>] = h
    BY DEF Holds
  <2>3. QED
    BY <2>1, <2>2 DEF Surjection
<1>4. agent \in Surjection(Tasks, Agents)
  BY DEF Surjection, Agents
<1>5. IsFiniteSet(Holds) /\ IsFiniteSet(Agents)
  BY <1>2, <1>3, <1>4, TasksType, FS_Surjection
<1>6. IsFiniteSet({Run, Workflow, Treasury, Operator} \cup Agents)
  <2>1. IsFiniteSet(Agents \cup {Run})
    BY <1>5, FS_AddElement
  <2>2. IsFiniteSet((Agents \cup {Run}) \cup {Workflow})
    BY <2>1, FS_AddElement
  <2>3. IsFiniteSet(((Agents \cup {Run}) \cup {Workflow}) \cup {Treasury})
    BY <2>2, FS_AddElement
  <2>4. IsFiniteSet((((Agents \cup {Run}) \cup {Workflow}) \cup {Treasury}) \cup {Operator})
    BY <2>3, FS_AddElement
  <2>5. {Run, Workflow, Treasury, Operator} \cup Agents =
          (((Agents \cup {Run}) \cup {Workflow}) \cup {Treasury}) \cup {Operator}
    OBVIOUS
  <2>6. QED
    BY <2>4, <2>5
<1>7. QED
  BY <1>5, <1>6

(* What Ledger and Market assume of their constants holds of those they     *)
(* have here.                                                               *)
LEMMA KernelAssumptions ==
  /\ /\ MAX_AMOUNT \in Nat
     /\ {Budget} \subseteq 0 .. MAX_AMOUNT
     /\ {COSTS[r] : r \in DOMAIN COSTS} \subseteq 1 .. MAX_AMOUNT
     /\ {COSTS[r] : r \in DOMAIN COSTS} \subseteq 0 .. MAX_AMOUNT
     /\ 0 .. Deadline + 1 \subseteq 0 .. MAX_AMOUNT
     /\ (0 .. Deadline + 2) \cup {None} \subseteq (0 .. MAX_AMOUNT) \cup {None}
  /\ {} \subseteq {"ACTIVE", "SUSPENDED", "WINDING_DOWN"}
  /\ None \notin ({Run, Workflow} \cup Agents) \cup Holds \cup DOMAIN COSTS \cup (0 .. MAX_AMOUNT)
  /\ M!IsFiniteSet(Holds)
  /\ /\ 1 .. NTasks * (Deadline + 1) \subseteq Nat /\ M!IsFiniteSet(1 .. NTasks * (Deadline + 1))
     /\ ({Run, Workflow} \cup Agents) \cup {Operator} \subseteq {Run, Workflow, Treasury, Operator} \cup Agents
     /\ M!IsFiniteSet({Run, Workflow, Treasury, Operator} \cup Agents)
     /\ None \notin {Run, Workflow, Treasury, Operator} \cup Agents
     /\ \A b \in 1 .. NTasks * (Deadline + 1) : M!Escrow(b) \notin ({Run, Workflow, Treasury, Operator} \cup Agents) \cup {None}
     /\ {"premium"} \subseteq DOMAIN COSTS
     /\ Prices \subseteq 1 .. MAX_AMOUNT
     /\ {0, PremiumCapacity} \subseteq 0 .. MAX_AMOUNT
     /\ 2 .. Deadline + 2 \subseteq 1 .. MAX_AMOUNT
     /\ {} \subseteq M!Amount
     /\ {} \subseteq 1 .. MAX_AMOUNT
<1>1. /\ MAX_AMOUNT \in Nat /\ Deadline \in Nat /\ Deadline + 2 <= MAX_AMOUNT
      /\ Budget \in 0 .. MAX_AMOUNT /\ PremiumCapacity \in 0 .. MAX_AMOUNT /\ Prices \subseteq 1 .. MAX_AMOUNT
  BY EngineAssumption
<1>2. /\ {COSTS[r] : r \in DOMAIN COSTS} \subseteq 1 .. MAX_AMOUNT
      /\ {COSTS[r] : r \in DOMAIN COSTS} \subseteq 0 .. MAX_AMOUNT
      /\ {"premium"} \subseteq DOMAIN COSTS
  BY CostAmounts
<1>3. /\ 0 .. Deadline + 1 \subseteq 0 .. MAX_AMOUNT
      /\ (0 .. Deadline + 2) \cup {None} \subseteq (0 .. MAX_AMOUNT) \cup {None}
      /\ 2 .. Deadline + 2 \subseteq 1 .. MAX_AMOUNT
  BY <1>1
<1>4. /\ None \notin ({Run, Workflow} \cup Agents) \cup Holds \cup DOMAIN COSTS \cup (0 .. MAX_AMOUNT)
      /\ None \notin {Run, Workflow, Treasury, Operator} \cup Agents
  BY NamesAssumption
<1>5. NTasks * (Deadline + 1) \in Nat
  BY TasksType
<1>6. /\ M!IsFiniteSet(Holds) /\ M!IsFiniteSet(1 .. NTasks * (Deadline + 1))
      /\ M!IsFiniteSet({Run, Workflow, Treasury, Operator} \cup Agents)
  <2>1. IsFiniteSet(1 .. NTasks * (Deadline + 1))
    BY <1>5, FS_Interval
  <2>2. QED
    BY <2>1, FiniteNames DEF IsFiniteSet, M!IsFiniteSet
<1>7. ASSUME NEW b \in 1 .. NTasks * (Deadline + 1)
      PROVE  M!Escrow(b) \notin ({Run, Workflow, Treasury, Operator} \cup Agents) \cup {None}
  <2>1. M!Escrow(b) = Escrow(b) /\ Escrow(b) \notin {None, Run, Workflow, Treasury, Operator}
    BY NamesAssumption DEF M!Escrow, Escrow
  <2>2. Escrow(b) \notin Agents
    BY DEF Escrow, Agents, Agent
  <2>3. QED
    BY <2>1, <2>2
<1>8. 1 .. NTasks * (Deadline + 1) \subseteq Nat
  BY <1>5
<1>9. QED
  BY <1>1, <1>2, <1>3, <1>4, <1>6, <1>7, <1>8

LEMMA KernelNext == M!IInv /\ [M!Next]_(M!ledgerVars) => M!IInv'
BY KernelAssumptions, M!NextInductive

(* The rows of the kernel, as far as the engine looks at them. *)
HeldStates == {"RESERVED", "DISPATCHED", "UNRESOLVED", "SETTLED", "RELEASED"}

LEMMA KernelRows ==
  ASSUME M!IInv
  PROVE  /\ DOMAIN holds \subseteq Holds
         /\ \A h \in DOMAIN holds : "state" \in DOMAIN holds[h] /\ "actual" \in DOMAIN holds[h]
         /\ \A h \in DOMAIN holds : /\ holds[h].state \in HeldStates
                                    /\ holds[h].bound \in {COSTS[r] : r \in DOMAIN COSTS}
<1>1. M!TypeOK
  BY DEF M!IInv
<1>2. \A h \in DOMAIN holds : holds[h] \in M!HoldRow
  BY <1>1 DEF M!TypeOK
<1>3. \A row \in M!HoldRow : /\ "state" \in DOMAIN row /\ "actual" \in DOMAIN row
                             /\ row.state \in HeldStates /\ row.bound \in {COSTS[r] : r \in DOMAIN COSTS}
  BY DEF M!HoldRow, M!HoldStates, M!OUTSTANDING, HeldStates
<1>4. QED
  BY <1>1, <1>2, <1>3 DEF M!TypeOK

LEMMA StateType ==
  ASSUME M!IInv, NEW h
  PROVE  /\ State(h) \in {"NONE", "RESERVED", "DISPATCHED", "UNRESOLVED", "SETTLED", "RELEASED"}
         /\ State(h) = "NONE" <=> h \notin DOMAIN holds
         /\ h \in DOMAIN holds => State(h) = holds[h].state /\ h \in Holds
BY KernelRows DEF State, HeldStates

(* The states of holds after a step that moved one of them, at most. *)
Moves(t, k, kind, to) ==
  \A u \in Tasks, j \in Ticks, l \in Kinds :
    State(<<u, j, l>>)' = IF u = t /\ j = k /\ l = kind THEN to ELSE State(<<u, j, l>>)

Stay == \A u \in Tasks, j \in Ticks, l \in Kinds : State(<<u, j, l>>)' = State(<<u, j, l>>)

LEMMA RowMoves ==
  ASSUME NEW t, NEW k, NEW kind, NEW to, <<t, k, kind>> \in DOMAIN holds', holds'[<<t, k, kind>>].state = to,
         DOMAIN holds' = DOMAIN holds \cup {<<t, k, kind>>},
         \A g \in DOMAIN holds : g # <<t, k, kind>> => holds'[g].state = holds[g].state
  PROVE  Moves(t, k, kind, to)
<1>1. SUFFICES ASSUME NEW u \in Tasks, NEW j \in Ticks, NEW l \in Kinds
               PROVE  State(<<u, j, l>>)' = IF u = t /\ j = k /\ l = kind THEN to ELSE State(<<u, j, l>>)
  BY DEF Moves
<1>2. <<u, j, l>> = <<t, k, kind>> <=> u = t /\ j = k /\ l = kind
  OBVIOUS
<1>3. QED
  BY <1>2 DEF State

LEMMA KernelStutters == M!IInv /\ UNCHANGED kernel => M!IInv'
BY KernelNext DEF kernel, M!ledgerVars

LEMMA ReserveMoves ==
  ASSUME M!IInv, NEW t \in Tasks, NEW k \in Ticks, NEW kind \in Kinds, NEW r \in DOMAIN COSTS,
         NEW expires \in (0 .. Deadline + 2) \cup {None},
         Reserve(Agent(t), <<t, k, kind>>, COSTS[r], r, expires)
  PROVE  M!IInv' /\ State(<<t, k, kind>>) = "NONE" /\ Moves(t, k, kind, "RESERVED")
<1>1. M!Reserve(Agent(t), <<t, k, kind>>, COSTS[r], r, expires)
  BY DEF Reserve, M!Reserve, Record, M!Record, ChainActive, M!ChainActive, Fits, M!Fits, Ancestors, M!Ancestors,
         Active, M!Active, Spent, M!Spent, Chain, M!Chain
<1>2. M!MakeHold
  <2>1. <<t, k, kind>> \in Holds /\ COSTS[r] \in {COSTS[q] : q \in DOMAIN COSTS} /\ Agent(t) \in {Run, Workflow} \cup Agents
    BY TasksType DEF Holds
  <2>2. QED
    BY <1>1, <2>1 DEF M!MakeHold
<1>3. M!IInv'
  BY <1>2, KernelNext DEF M!Next
<1>4. State(<<t, k, kind>>) = "NONE"
  BY StateType DEF Reserve
<1>5. Moves(t, k, kind, "RESERVED")
  BY RowMoves DEF Reserve
<1>6. QED
  BY <1>3, <1>4, <1>5

LEMMA DispatchMoves ==
  ASSUME M!IInv, NEW t \in Tasks, NEW k \in Ticks, NEW kind \in Kinds, Dispatch(<<t, k, kind>>, k)
  PROVE  M!IInv' /\ State(<<t, k, kind>>) = "RESERVED" /\ Moves(t, k, kind, "DISPATCHED")
<1>1. M!Dispatch(<<t, k, kind>>, k)
  BY DEF Dispatch, M!Dispatch, Record, M!Record, ChainActive, M!ChainActive, Ancestors, M!Ancestors,
         Active, M!Active, Chain, M!Chain, Due, M!Due, SetState, M!SetState
<1>2. M!Claim
  BY <1>1, TasksType DEF M!Claim, Holds, Ticks
<1>3. M!IInv'
  BY <1>2, KernelNext DEF M!Next
<1>4. State(<<t, k, kind>>) = "RESERVED"
  BY StateType DEF Dispatch
<1>5. Moves(t, k, kind, "DISPATCHED")
  BY RowMoves, KernelRows DEF Dispatch, SetState
<1>6. QED
  BY <1>3, <1>4, <1>5

LEMMA DoubtMoves ==
  ASSUME M!IInv, NEW t \in Tasks, NEW k \in Ticks, NEW kind \in Kinds, MarkUnresolved(<<t, k, kind>>)
  PROVE  M!IInv' /\ State(<<t, k, kind>>) = "DISPATCHED" /\ Moves(t, k, kind, "UNRESOLVED")
<1>1. M!MarkUnresolved(<<t, k, kind>>)
  BY DEF MarkUnresolved, M!MarkUnresolved, Record, M!Record, SetState, M!SetState
<1>2. M!Doubt
  BY <1>1 DEF M!Doubt, Holds
<1>3. M!IInv'
  BY <1>2, KernelNext DEF M!Next
<1>4. State(<<t, k, kind>>) = "DISPATCHED"
  BY StateType DEF MarkUnresolved
<1>5. Moves(t, k, kind, "UNRESOLVED")
  BY RowMoves, KernelRows DEF MarkUnresolved, SetState
<1>6. QED
  BY <1>3, <1>4, <1>5

LEMMA SettleMoves ==
  ASSUME M!IInv, NEW t \in Tasks, NEW k \in Ticks, NEW kind \in Kinds,
         Settle(<<t, k, kind>>, holds[<<t, k, kind>>].bound)
  PROVE  M!IInv' /\ State(<<t, k, kind>>) \in {"DISPATCHED", "UNRESOLVED"} /\ Moves(t, k, kind, "SETTLED")
<1>1. M!Settle(<<t, k, kind>>, holds[<<t, k, kind>>].bound)
  BY DEF Settle, M!Settle, Record, M!Record, Ancestors, M!Ancestors, Chain, M!Chain,
         SettledAccount, M!SettledAccount, Spent, M!Spent
<1>2. holds[<<t, k, kind>>].bound \in {COSTS[r] : r \in DOMAIN COSTS}
  BY KernelRows DEF Settle
<1>3. M!Pay
  BY <1>1, <1>2 DEF M!Pay, Holds
<1>4. M!IInv'
  BY <1>3, KernelNext DEF M!Next
<1>5. State(<<t, k, kind>>) \in {"DISPATCHED", "UNRESOLVED"}
  BY StateType DEF Settle
<1>6. Moves(t, k, kind, "SETTLED")
  BY RowMoves, KernelRows DEF Settle
<1>7. QED
  BY <1>4, <1>5, <1>6

LEMMA ReleaseMoves ==
  ASSUME M!IInv, NEW t \in Tasks, NEW k \in Ticks, NEW kind \in Kinds, Release(<<t, k, kind>>)
  PROVE  M!IInv' /\ State(<<t, k, kind>>) = "RESERVED" /\ Moves(t, k, kind, "RELEASED")
<1>1. M!Release(<<t, k, kind>>)
  BY DEF Release, M!Release, Record, M!Record, Releasable, M!Releasable, Unreserve, M!Unreserve,
         HoldsUnder, M!HoldsUnder, UpperBounds, M!UpperBounds, Total, M!Total, Coins, M!Coins, M!Cardinality, Cardinality,
         Ancestors, M!Ancestors, Chain, M!Chain, SetState, M!SetState
<1>2. M!Cancel
  BY <1>1 DEF M!Cancel, Holds
<1>3. M!IInv'
  BY <1>2, KernelNext DEF M!Next
<1>4. State(<<t, k, kind>>) = "RESERVED"
  BY StateType DEF Release, Releasable
<1>5. Moves(t, k, kind, "RELEASED")
  BY RowMoves, KernelRows DEF Release, SetState
<1>6. QED
  BY <1>3, <1>4, <1>5

(* Steps that give back several holds nobody claimed. *)
GivenBack(kinds) ==
  \A t \in Tasks, k \in Ticks, kind \in Kinds :
    \/ State(<<t, k, kind>>)' = State(<<t, k, kind>>)
    \/ State(<<t, k, kind>>) = "RESERVED" /\ State(<<t, k, kind>>)' = "RELEASED" /\ kind \in kinds

LEMMA RefundGivesBack ==
  ASSUME M!IInv, BidsOK, NEW R \in SUBSET DOMAIN bids, ReleaseHolds(R)
  PROVE  M!IInv' /\ GivenBack({"execution"}) /\ DOMAIN holds' = DOMAIN holds
<1>1. M!ReleaseHolds(R)
  BY DEF ReleaseHolds, M!ReleaseHolds, Unreserve, M!Unreserve,
         HoldsUnder, M!HoldsUnder, UpperBounds, M!UpperBounds, Total, M!Total, Coins, M!Coins, M!Cardinality, Cardinality,
         Ancestors, M!Ancestors, Chain, M!Chain
<1>2. M!IInv'
  BY <1>1, KernelAssumptions, M!ReleaseHoldsInductive
<1>3. GivenBack({"execution"})
  <2>1. SUFFICES ASSUME NEW t \in Tasks, NEW k \in Ticks, NEW kind \in Kinds,
                        State(<<t, k, kind>>)' # State(<<t, k, kind>>)
                 PROVE  State(<<t, k, kind>>) = "RESERVED" /\ State(<<t, k, kind>>)' = "RELEASED" /\ kind = "execution"
    BY DEF GivenBack
  <2>2. /\ <<t, k, kind>> \in DOMAIN holds /\ holds[<<t, k, kind>>].state = "RESERVED"
        /\ holds'[<<t, k, kind>>] = [holds[<<t, k, kind>>] EXCEPT !.state = "RELEASED"]
        /\ \E b \in R : bids[b].hold = <<t, k, kind>>
        /\ DOMAIN holds' = DOMAIN holds
    BY <2>1 DEF ReleaseHolds, State
  <2>3. State(<<t, k, kind>>) = "RESERVED" /\ State(<<t, k, kind>>)' = "RELEASED"
    BY <2>2, KernelRows DEF State
  <2>4. kind = "execution"
    BY <2>2 DEF BidsOK
  <2>5. QED
    BY <2>3, <2>4
<1>4. DOMAIN holds' = DOMAIN holds
  BY DEF ReleaseHolds
<1>5. QED
  BY <1>2, <1>3, <1>4

LEMMA ClearGivesBack ==
  ASSUME M!IInv, BidsOK, NEW x, NEW n, Clear(x, n)
  PROVE  M!IInv' /\ GivenBack({"execution"}) /\ BidsOK' /\ DOMAIN holds' = DOMAIN holds
<1>1. Escrowed(x) \ Winners(x, n) \in SUBSET DOMAIN bids /\ ReleaseHolds(Escrowed(x) \ Winners(x, n))
  BY DEF Clear, Refund, Escrowed
<1>2. BidsOK'
  BY DEF Clear, BidsOK, BidStates
<1>3. QED
  BY <1>1, <1>2, RefundGivesBack

LEMMA LapseGivesBack ==
  ASSUME M!IInv, BidsOK, NEW n, NEW scope, ExpireBids(n, scope)
  PROVE  M!IInv' /\ GivenBack({"execution"}) /\ BidsOK' /\ DOMAIN holds' = DOMAIN holds
<1>1. Expirable(n, scope) \in SUBSET DOMAIN bids /\ ReleaseHolds(Expirable(n, scope))
  BY DEF ExpireBids, Refund, Expirable
<1>2. BidsOK'
  BY DEF ExpireBids, BidsOK, BidStates
<1>3. QED
  BY <1>1, <1>2, RefundGivesBack

LEMMA SweepGivesBack ==
  ASSUME M!IInv, NEW n \in 0 .. Deadline + 1, Expire(n, Run)
  PROVE  M!IInv' /\ GivenBack(Kinds) /\ DOMAIN holds' = DOMAIN holds
<1>1. M!Expire(n, Run)
  BY DEF Expire, M!Expire, Expiring, M!Expiring, Due, M!Due, Unreserve, M!Unreserve,
         HoldsUnder, M!HoldsUnder, UpperBounds, M!UpperBounds, Total, M!Total, Coins, M!Coins, M!Cardinality, Cardinality,
         Ancestors, M!Ancestors, Chain, M!Chain
<1>2. M!Sweep
  BY <1>1 DEF M!Sweep
<1>3. M!IInv'
  BY <1>2, KernelNext DEF M!Next
<1>4. GivenBack(Kinds)
  <2>1. SUFFICES ASSUME NEW t \in Tasks, NEW k \in Ticks, NEW kind \in Kinds,
                        State(<<t, k, kind>>)' # State(<<t, k, kind>>)
                 PROVE  State(<<t, k, kind>>) = "RESERVED" /\ State(<<t, k, kind>>)' = "RELEASED"
    BY DEF GivenBack
  <2>2. /\ <<t, k, kind>> \in DOMAIN holds /\ holds[<<t, k, kind>>].state = "RESERVED"
        /\ holds'[<<t, k, kind>>] = [holds[<<t, k, kind>>] EXCEPT !.state = "RELEASED"]
        /\ DOMAIN holds' = DOMAIN holds
    BY <2>1 DEF Expire, Expiring, State
  <2>3. QED
    BY <2>2, KernelRows DEF State
<1>5. DOMAIN holds' = DOMAIN holds
  BY DEF Expire
<1>6. QED
  BY <1>3, <1>4, <1>5

(* Where a run starts. *)
LEMMA EngineInitKernel ==
  ASSUME EngineInit
  PROVE  M!IInv /\ \A h : State(h) = "NONE"
<1>1. holds = [h \in {} |-> {}] /\ events = [h \in Holds |-> <<>>]
  BY DEF EngineInit
<1>2. DOMAIN holds = {} /\ holds \in [DOMAIN holds -> M!HoldRow]
  BY <1>1
<1>3. /\ DOMAIN accounts = {Run, Workflow} \cup Agents
      /\ \A a \in DOMAIN accounts :
           /\ accounts[a] = [unit |-> "SIM_COST_MICRO", funded |-> Budget, spent |-> 0, spent_high |-> 0,
                             reserved |-> 0, status |-> "ACTIVE", lifecycle |-> "ACTIVE",
                             parent |-> CASE a = Run -> None [] a = Workflow -> Run [] OTHER -> Workflow]
           /\ accounts[a].parent \in DOMAIN accounts \cup {None}
  BY DEF EngineInit
<1>4. accounts \in [DOMAIN accounts -> M!AccountRow]
  <2>1. ASSUME NEW a \in DOMAIN accounts
        PROVE  accounts[a] \in M!AccountRow
    <3>1. Budget \in M!Amount /\ 0 \in M!Amount
      BY EngineAssumption DEF M!Amount
    <3>2. accounts[a].parent \in ({Run, Workflow} \cup Agents) \cup {None}
      BY <1>3
    <3>3. PICK parent \in ({Run, Workflow} \cup Agents) \cup {None} :
            accounts[a] = [unit |-> "SIM_COST_MICRO", funded |-> Budget, spent |-> 0, spent_high |-> 0,
                           reserved |-> 0, status |-> "ACTIVE", lifecycle |-> "ACTIVE", parent |-> parent]
      BY <1>3, <3>2
    <3>4. QED
      BY <3>1, <3>3 DEF M!AccountRow
  <2>2. accounts = [a \in DOMAIN accounts |-> accounts[a]]
    BY DEF EngineInit
  <2>3. QED
    BY <2>1, <2>2
<1>5. M!IInv
  <2>1. \A a \in DOMAIN accounts : /\ accounts[a].spent = 0 /\ accounts[a].spent_high = 0 /\ accounts[a].reserved = 0
                                   /\ accounts[a].parent \in DOMAIN accounts \cup {None}
    <3>1. TAKE a \in DOMAIN accounts
    <3>2. PICK parent :
            accounts[a] = [unit |-> "SIM_COST_MICRO", funded |-> Budget, spent |-> 0, spent_high |-> 0,
                           reserved |-> 0, status |-> "ACTIVE", lifecycle |-> "ACTIVE", parent |-> parent]
      BY <1>3
    <3>3. accounts[a].spent = 0 /\ accounts[a].spent_high = 0 /\ accounts[a].reserved = 0
      BY <3>2
    <3>4. QED
      BY <1>3, <3>3
  <2>2. events = [h \in Holds |-> <<>>] /\ DOMAIN accounts \subseteq {Run, Workflow} \cup Agents
    BY <1>1, <1>3
  <2>3. QED
    BY <1>2, <1>4, <2>1, <2>2, KernelAssumptions, M!FundedInductive
<1>6. QED
  BY <1>2, <1>5 DEF State

-----------------------------------------------------------------------------
(* What the plan and the place of the step determine *)

LEMMA PlanFacts ==
  ASSUME CheckpointOK, plan # None
  PROVE  /\ plan \in Seq(PlanRow) /\ DOMAIN plan = 1 .. Len(plan) /\ Len(plan) \in Nat
         /\ now \in Ticks /\ now <= Deadline /\ ~ checkpoint.finished
         /\ \A j \in DOMAIN plan : /\ plan[j] \in PlanRow /\ plan[j].task \in Tasks
                                   /\ Chosen(plan[j].task) = plan[j].resource
         /\ PlanTasks \subseteq Tasks
         /\ \A t \in PlanTasks : /\ Chosen(t) \in Choosable /\ (now = Deadline => Chosen(t) = "defer")
                                 /\ Chosen(t) \in Resources => now # Deadline
<1>1. plan \in Seq(PlanRow) /\ now \in 0 .. Deadline + 1 /\ now <= Deadline /\ ~ checkpoint.finished
  BY DEF CheckpointOK, plan, now
<1>2. DOMAIN plan = 1 .. Len(plan) /\ Len(plan) \in Nat /\ \A j \in DOMAIN plan : plan[j] \in PlanRow
  BY <1>1
<1>3. \A j \in DOMAIN plan : plan[j].task \in Tasks /\ plan[j].resource \in Choosable
  BY <1>2 DEF PlanRow
<1>4. ASSUME NEW j \in DOMAIN plan
      PROVE  Chosen(plan[j].task) = plan[j].resource
  <2>1. \A e \in {plan[i] : i \in DOMAIN plan} : e.task = plan[j].task => e = plan[j]
    BY DEF CheckpointOK
  <2>2. (CHOOSE e \in {plan[i] : i \in DOMAIN plan} : e.task = plan[j].task) = plan[j]
    BY <2>1
  <2>3. QED
    BY <2>2 DEF Chosen, plan
<1>5. now \in Ticks
  BY <1>1, TasksType DEF Ticks
<1>6. \A t \in PlanTasks : /\ t \in Tasks /\ Chosen(t) \in Choosable /\ (now = Deadline => Chosen(t) = "defer")
                           /\ Chosen(t) \in Resources => now # Deadline
  <2>1. TAKE t \in PlanTasks
  <2>2. PICK j \in DOMAIN plan : plan[j].task = t
    BY DEF PlanTasks
  <2>3. Chosen(t) = plan[j].resource /\ t \in Tasks
    BY <1>3, <1>4, <2>2
  <2>4. now = Deadline => Chosen(t) = "defer"
    BY <2>3 DEF CheckpointOK
  <2>5. QED
    BY <1>3, <2>3, <2>4 DEF Resources
<1>7. QED
  BY <1>1, <1>2, <1>3, <1>4, <1>5, <1>6

LEMMA ProcFacts ==
  ASSUME ProcOK
  PROVE  /\ proc \in ProcRow /\ proc.i \in Nat /\ proc.cands \in Seq(Tasks) /\ proc.executing \in BOOLEAN
         /\ DOMAIN proc.cands = 1 .. Len(proc.cands) /\ Len(proc.cands) \in Nat
         /\ \A m \in DOMAIN proc.cands : proc.cands[m] \in Tasks
         /\ proc.attempts \in SUBSET Holds /\ proc.kind \in Kinds \cup {None} /\ proc.pc \in ProcStates
<1>1. proc \in ProcRow
  BY DEF ProcOK
<1>2. /\ proc.i \in Nat /\ proc.cands \in Seq(Tasks) /\ proc.executing \in BOOLEAN
      /\ proc.attempts \in SUBSET Holds /\ proc.kind \in Kinds \cup {None} /\ proc.pc \in ProcStates
  BY <1>1 DEF ProcRow
<1>3. QED
  BY <1>1, <1>2

(* The current task, wherever a step is on one. *)
LEMMA HereFacts ==
  ASSUME EInv, proc.pc \in OnTask
  PROVE  /\ PassOK /\ CurrentOK /\ plan # None
         /\ Task \in Tasks /\ Task \in PlanTasks /\ now \in Ticks /\ ~ Taken(Task)
         /\ TaskOK(Task, now) /\ PairOK(Task, now)
         /\ ~ proc.executing => /\ proc.i \in DOMAIN plan /\ Task = plan[proc.i].task
                                /\ item.task = Task /\ item.resource = Chosen(Task)
         /\ proc.executing => /\ proc.i \in DOMAIN proc.cands /\ Task = proc.cands[proc.i]
                              /\ Chosen(Task) \in Resources /\ <<Task, now, "verification">> \in DOMAIN holds
<1>1. PassOK /\ CurrentOK /\ plan # None /\ CheckpointOK
  BY DEF EInv, World, ProcOK, PassOK, InPass
<1>2. CASE ~ proc.executing
  <2>1. proc.i \in DOMAIN plan /\ ~ Taken(Task) /\ Task = plan[proc.i].task /\ item = plan[proc.i]
    BY <1>1, <1>2 DEF CurrentOK, Task, item, plan
  <2>2. Task \in Tasks /\ Task \in PlanTasks /\ now \in Ticks /\ item.task = Task /\ item.resource = Chosen(Task)
    BY <1>1, <2>1, PlanFacts DEF PlanTasks
  <2>3. PairOK(Task, now)
    BY <2>2 DEF EInv, World, PairsOK
  <2>4. TaskOK(Task, now)
    BY <1>1, <2>2 DEF CurrentOK
  <2>5. QED
    BY <1>1, <1>2, <2>1, <2>2, <2>3, <2>4
<1>3. CASE proc.executing
  <2>1. proc.i \in DOMAIN proc.cands /\ Task = proc.cands[proc.i] /\ proc.i \in Nat
    BY <1>1, <1>3, ProcFacts DEF CurrentOK, Task, EInv
  <2>2. CandidateOK(proc.i, Task) /\ Ahead(proc.i)
    BY <1>1, <2>1, ProcFacts DEF EInv, PassOK, CandidatesOK, Ahead
  <2>3. /\ Task \in PlanTasks /\ ~ Taken(Task) /\ Chosen(Task) \in Resources
        /\ <<Task, now, "verification">> \in DOMAIN holds
    BY <2>1, <2>2 DEF CandidateOK
  <2>4. Task \in Tasks /\ now \in Ticks
    BY <1>1, <2>3, PlanFacts
  <2>5. PairOK(Task, now)
    BY <2>4 DEF EInv, World, PairsOK
  <2>6. TaskOK(Task, now)
    BY <1>1, <2>4 DEF CurrentOK
  <2>7. QED
    BY <1>1, <1>3, <2>1, <2>3, <2>4, <2>5, <2>6
<1>4. QED
  BY <1>2, <1>3

-----------------------------------------------------------------------------
(* Steps that stay with their task *)

SameRow ==
  proc'.i = proc.i /\ proc'.cands = proc.cands /\ proc'.caps = proc.caps /\ proc'.executing = proc.executing

SamePlace == SameRow /\ UNCHANGED <<checkpoint, traces>>

LEMMA SamePlaceFacts ==
  ASSUME SamePlace
  PROVE  /\ Task' = Task /\ now' = now /\ plan' = plan /\ item' = item /\ PlanTasks' = PlanTasks
         /\ \A t : Chosen(t)' = Chosen(t) /\ Taken(t)' = Taken(t)
<1>1. checkpoint' = checkpoint /\ traces' = traces
  BY DEF SamePlace
<1>2. now' = now /\ plan' = plan /\ PlanTasks' = PlanTasks
  BY <1>1 DEF now, plan, PlanTasks
<1>3. item' = item
  BY <1>1 DEF item, SamePlace, SameRow
<1>4. Task' = Task
  BY <1>3 DEF Task, SamePlace, SameRow
<1>5. \A t : Chosen(t)' = Chosen(t)
  BY <1>1 DEF Chosen
<1>6. \A t : Taken(t)' = Taken(t)
  BY <1>1 DEF Taken, now
<1>7. QED
  BY <1>2, <1>3, <1>4, <1>5, <1>6

LEMMA PassKept ==
  ASSUME PassOK, SamePlace, DOMAIN holds \subseteq DOMAIN holds', proc'.pc \in OnTask,
         proc'.pc \in FirstPass => ~ proc.executing, proc'.pc \in SecondPass => proc.executing
  PROVE  PassOK'
<1>1. /\ now' = now /\ plan' = plan /\ PlanTasks' = PlanTasks
      /\ \A t : Chosen(t)' = Chosen(t) /\ Taken(t)' = Taken(t)
  BY SamePlaceFacts
<1>2. CandidatesOK'
  <2>1. \A m : Ahead(m)' = Ahead(m)
    BY DEF Ahead, SamePlace, SameRow
  <2>2. \A m \in DOMAIN proc.cands, t \in Tasks : proc.cands[m] = t => CandidateOK(m, t)'
    BY <1>1, <2>1 DEF PassOK, CandidatesOK, CandidateOK, SamePlace, SameRow
  <2>3. QED
    BY <1>1, <2>1, <2>2 DEF PassOK, CandidatesOK, SamePlace, SameRow
<1>3. proc'.pc # "clear" /\ proc'.pc # "finish"
  BY DEF OnTask, OnHold
<1>4. QED
  BY <1>1, <1>2, <1>3 DEF PassOK, At, SamePlace, SameRow

LEMMA ProcKept ==
  ASSUME EInv, proc.pc \in OnTask, SamePlace, DOMAIN holds \subseteq DOMAIN holds', proc' \in ProcRow, proc'.pc \in OnTask,
         proc'.pc \in FirstPass => ~ proc.executing, proc'.pc \in SecondPass => proc.executing,
         proc'.status \in Statuses, NEW t, t = Task, NEW k, k = now, TaskOK(t, k)'
  PROVE  ProcOK'
<1>1. PassOK'
  BY HereFacts, PassKept
<1>2. CurrentOK'
  <2>1. \A u \in Tasks, j \in Ticks : u = Task' /\ j = now' => TaskOK(u, j)'
    BY SamePlaceFacts
  <2>2. IF proc'.executing THEN proc'.i \in DOMAIN proc'.cands ELSE proc'.i \in DOMAIN plan' /\ ~ Taken(Task)'
    BY HereFacts, SamePlaceFacts DEF CurrentOK, SamePlace, SameRow
  <2>3. QED
    BY <2>1, <2>2 DEF CurrentOK
<1>3. proc'.pc \notin {"plan", "open", "lapse", "sweep"}
  BY DEF OnTask, OnHold
<1>4. QED
  BY <1>1, <1>2, <1>3 DEF ProcOK, At

-----------------------------------------------------------------------------
(* What steps do to the tables *)

LEMMA CheckpointStays ==
  ASSUME CheckpointOK, UNCHANGED <<checkpoint, traces>>
  PROVE  /\ CheckpointOK' /\ now' = now /\ plan' = plan /\ PlanTasks' = PlanTasks
         /\ \A t : Chosen(t)' = Chosen(t) /\ Taken(t)' = Taken(t)
<1>1. now' = now /\ plan' = plan /\ PlanTasks' = PlanTasks
  BY DEF now, plan, PlanTasks
<1>2. \A t : /\ Chosen(t)' = Chosen(t) /\ Taken(t)' = Taken(t)
             /\ Waiting(t)' = Waiting(t) /\ Arrived(t)' = Arrived(t)
  BY <1>1 DEF Chosen, Taken, Waiting, Arrived
<1>3. CheckpointOK'
  BY <1>1, <1>2 DEF CheckpointOK
<1>4. QED
  BY <1>1, <1>2, <1>3

(* An approval, once given, stays. *)
ApprovalsKept ==
  \A p \in DOMAIN approvals : p \in DOMAIN approvals' /\ (approvals[p] = "APPROVED" => approvals'[p] = "APPROVED")

LEMMA WorldGrows ==
  ASSUME World, UNCHANGED <<holds, checkpoint, traces>>, BidsOK', ReceiptsOK', ApprovalsOK', ApprovalsKept
  PROVE  World'
<1>1. /\ CheckpointOK' /\ now' = now /\ plan' = plan /\ PlanTasks' = PlanTasks
      /\ \A t : Chosen(t)' = Chosen(t)
  BY CheckpointStays DEF World
<1>2. \A h : State(h)' = State(h)
  BY DEF State
<1>3. \A t, k : Execution(t, k)' = Execution(t, k) /\ Verification(t, k)' = Verification(t, k) /\ Planning(t, k)' = Planning(t, k)
  BY <1>2 DEF Execution, Verification, Planning
<1>4. HoldsInPlan'
  BY <1>1, <1>2 DEF World, HoldsInPlan
<1>5. PairsOK'
  BY <1>1, <1>3 DEF World, PairsOK, PairOK, ApprovalsKept
<1>6. TracesOK'
  BY <1>1, <1>3 DEF World, TracesOK, TraceOK, Says
<1>7. QED
  BY <1>1, <1>4, <1>5, <1>6 DEF World

LEMMA WorldStays ==
  ASSUME World, UNCHANGED <<holds, receipts, approvals, checkpoint, traces>>, BidsOK'
  PROVE  World'
<1>1. ReceiptsOK' /\ ApprovalsOK' /\ ApprovalsKept
  BY DEF World, ReceiptsOK, ApprovalsOK, ApprovalsKept, State
<1>2. QED
  BY <1>1, WorldGrows

LEMMA BidsStay ==
  ASSUME World, UNCHANGED bids
  PROVE  BidsOK'
BY DEF World, BidsOK

(* The hold of the current task moves. *)
LEMMA WorldMoves ==
  ASSUME World, plan # None, NEW t \in Tasks, t \in PlanTasks, ~ Taken(t), NEW k \in Ticks, k = now,
         NEW kind \in Kinds, kind # "planning" => Chosen(t) \in Resources, NEW to, Moves(t, k, kind, to),
         PairOK(t, k)', <<t, k, kind>> \in receipts => to \in {"DISPATCHED", "SETTLED"},
         UNCHANGED <<receipts, approvals, checkpoint, traces, bids>>
  PROVE  World'
<1>1. /\ CheckpointOK' /\ now' = now /\ plan' = plan /\ PlanTasks' = PlanTasks
      /\ \A u : Chosen(u)' = Chosen(u)
  BY CheckpointStays DEF World
<1>2. /\ "execution" \in Kinds /\ "verification" \in Kinds /\ "planning" \in Kinds
  BY DEF Kinds
<1>3. \A u \in Tasks, j \in Ticks : u # t \/ j # k =>
        Execution(u, j)' = Execution(u, j) /\ Verification(u, j)' = Verification(u, j) /\ Planning(u, j)' = Planning(u, j)
  BY <1>2 DEF Moves, Execution, Verification, Planning
<1>4. HoldsInPlan'
  <2>1. SUFFICES ASSUME NEW u \in Tasks, NEW j \in Ticks, NEW l \in Kinds, State(<<u, j, l>>)' # "NONE"
                 PROVE  /\ j <= now
                        /\ j = now => /\ plan # None /\ u \in PlanTasks
                                      /\ l # "planning" => Chosen(u) \in Resources
    BY <1>1 DEF HoldsInPlan
  <2>2. CASE u = t /\ j = k /\ l = kind
    BY <2>2 DEF Ticks
  <2>3. CASE ~ (u = t /\ j = k /\ l = kind)
    BY <2>1, <2>3 DEF Moves, World, HoldsInPlan
  <2>4. QED
    BY <2>2, <2>3
<1>5. PairsOK'
  <2>1. ASSUME NEW u \in Tasks, NEW j \in Ticks
        PROVE  PairOK(u, j)'
    <3>1. CASE u # t \/ j # k
      <4>1. PairOK(u, j)
        BY DEF World, PairsOK
      <4>2. QED
        BY <1>1, <1>3, <3>1, <4>1 DEF PairOK
    <3>2. QED
      BY <3>1
  <2>2. QED
    BY <2>1 DEF PairsOK
<1>6. ReceiptsOK'
  <2>1. SUFFICES ASSUME NEW h \in receipts
                 PROVE  h \in Holds /\ State(h)' \in {"DISPATCHED", "SETTLED"}
    BY DEF ReceiptsOK
  <2>2. h \in Holds /\ State(h) \in {"DISPATCHED", "SETTLED"}
    BY DEF World, ReceiptsOK
  <2>3. PICK u \in Tasks, j \in Ticks, l \in Kinds : h = <<u, j, l>>
    BY <2>2 DEF Holds
  <2>4. QED
    BY <2>2, <2>3 DEF Moves
<1>7. TracesOK'
  <2>1. ASSUME NEW u \in DOMAIN traces, NEW j \in Ticks, traces[u].tick = j
        PROVE  TraceOK(u, j)'
    <3>1. TraceOK(u, j) /\ u \in Tasks
      BY <2>1 DEF World, TracesOK
    <3>2. u # t \/ j # k
      BY <2>1 DEF Taken
    <3>3. QED
      BY <1>1, <1>3, <3>1, <3>2 DEF TraceOK, Says
  <2>2. ASSUME NEW u \in Tasks, NEW j \in Ticks, j < now', Execution(u, j)' \in Begun
        PROVE  u \in DOMAIN traces /\ traces[u].tick = j /\ traces[u].status # "WAITING"
    <3>1. Execution(u, j)' = Execution(u, j)
      BY <1>1, <1>3, <2>2 DEF Ticks
    <3>2. QED
      BY <1>1, <2>2, <3>1 DEF World, TracesOK
  <2>3. QED
    BY <1>1, <2>1, <2>2 DEF World, TracesOK
<1>8. BidsOK' /\ ApprovalsOK'
  BY BidsStay DEF World, ApprovalsOK
<1>9. QED
  BY <1>1, <1>4, <1>5, <1>6, <1>7, <1>8 DEF World

(* Several holds are given back at once: executions, or, when no tick is    *)
(* under way, any.                                                          *)
LEMMA WorldGivesBack ==
  ASSUME World, NEW kinds, GivenBack(kinds), kinds = {"execution"} \/ plan = None,
         UNCHANGED <<receipts, approvals, checkpoint, traces>>, BidsOK'
  PROVE  World'
<1>1. /\ CheckpointOK' /\ now' = now /\ plan' = plan /\ PlanTasks' = PlanTasks
      /\ \A u : Chosen(u)' = Chosen(u)
  BY CheckpointStays DEF World
<1>2. /\ "execution" \in Kinds /\ "verification" \in Kinds /\ "planning" \in Kinds
  BY DEF Kinds
<1>3. ASSUME NEW t \in Tasks, NEW k \in Ticks
      PROVE  /\ \/ Execution(t, k)' = Execution(t, k)
                \/ Execution(t, k) = "RESERVED" /\ Execution(t, k)' = "RELEASED" /\ k >= now
             /\ Verification(t, k)' = Verification(t, k)
             /\ Planning(t, k) # "NONE" => Planning(t, k)' # "NONE"
  <2>1. PairOK(t, k)
    BY DEF World, PairsOK
  <2>2. now \in Int /\ k \in Int
    BY DEF World, CheckpointOK, now, Ticks
  <2>3. /\ \/ Execution(t, k)' = Execution(t, k)
           \/ Execution(t, k) = "RESERVED" /\ Execution(t, k)' = "RELEASED"
        /\ \/ Verification(t, k)' = Verification(t, k)
           \/ Verification(t, k) = "RESERVED" /\ "verification" \in kinds
        /\ Planning(t, k) # "NONE" => Planning(t, k)' # "NONE"
    BY <1>2 DEF GivenBack, Execution, Verification, Planning
  <2>4. Verification(t, k) = "RESERVED" /\ "verification" \in kinds => k < now
    BY <1>2, <2>2 DEF World, HoldsInPlan, Verification
  <2>5. k < now => Execution(t, k) # "RESERVED" /\ Verification(t, k) # "RESERVED"
    BY <2>1 DEF PairOK
  <2>6. QED
    BY <2>2, <2>3, <2>4, <2>5
<1>4. HoldsInPlan'
  <2>1. \A t \in Tasks, k \in Ticks, kind \in Kinds : State(<<t, k, kind>>)' # "NONE" => State(<<t, k, kind>>) # "NONE"
    BY DEF GivenBack
  <2>2. QED
    BY <1>1, <2>1 DEF World, HoldsInPlan
<1>5. PairsOK'
  <2>1. ASSUME NEW t \in Tasks, NEW k \in Ticks
        PROVE  PairOK(t, k)'
    <3>1. PairOK(t, k)
      BY DEF World, PairsOK
    <3>2. QED
      BY <1>1, <1>3, <3>1 DEF PairOK, Begun
  <2>2. QED
    BY <2>1 DEF PairsOK
<1>6. ReceiptsOK'
  <2>1. SUFFICES ASSUME NEW h \in receipts
                 PROVE  h \in Holds /\ State(h)' \in {"DISPATCHED", "SETTLED"}
    BY DEF ReceiptsOK
  <2>2. h \in Holds /\ State(h) \in {"DISPATCHED", "SETTLED"}
    BY DEF World, ReceiptsOK
  <2>3. PICK u \in Tasks, j \in Ticks, l \in Kinds : h = <<u, j, l>>
    BY <2>2 DEF Holds
  <2>4. QED
    BY <2>2, <2>3 DEF GivenBack
<1>7. TracesOK'
  <2>1. ASSUME NEW u \in DOMAIN traces, NEW j \in Ticks, traces[u].tick = j
        PROVE  TraceOK(u, j)'
    <3>1. TraceOK(u, j) /\ u \in Tasks
      BY <2>1 DEF World, TracesOK
    <3>2. QED
      BY <1>1, <1>3, <3>1 DEF TraceOK, Says
  <2>2. ASSUME NEW u \in Tasks, NEW j \in Ticks, j < now', Execution(u, j)' \in Begun
        PROVE  u \in DOMAIN traces /\ traces[u].tick = j /\ traces[u].status # "WAITING"
    <3>1. Execution(u, j)' = Execution(u, j)
      BY <1>1, <1>3, <2>2 DEF Begun
    <3>2. QED
      BY <1>1, <2>2, <3>1 DEF World, TracesOK
  <2>3. QED
    BY <1>1, <2>1, <2>2 DEF World, TracesOK
<1>8. ApprovalsOK'
  BY DEF World, ApprovalsOK
<1>9. QED
  BY <1>1, <1>4, <1>5, <1>6, <1>7, <1>8 DEF World

-----------------------------------------------------------------------------
(* The row of the process *)

LEMMA GotoRow ==
  ASSUME proc \in ProcRow, NEW pc \in ProcStates, Goto(pc)
  PROVE  /\ proc' \in ProcRow /\ SameRow /\ proc'.pc = pc
         /\ proc'.kind = proc.kind /\ proc'.status = proc.status /\ proc'.attempts = proc.attempts
BY DEF Goto, ProcRow, SameRow

LEMMA AttemptRow ==
  ASSUME proc \in ProcRow, NEW kind \in Kinds, Attempt(kind)
  PROVE  /\ proc' \in ProcRow /\ SameRow /\ proc'.pc = "prepare"
         /\ proc'.kind = kind /\ proc'.status = proc.status /\ proc'.attempts = proc.attempts
BY DEF Attempt, ProcRow, SameRow, ProcStates, InPass, OnTask, OnHold

LEMMA ExecuteRow ==
  ASSUME proc \in ProcRow, NEW kind \in Kinds, Execute(kind)
  PROVE  /\ proc' \in ProcRow /\ SameRow /\ proc'.pc = "claim"
         /\ proc'.kind = kind /\ proc'.status = proc.status /\ proc'.attempts = proc.attempts
BY DEF Execute, ProcRow, SameRow, ProcStates, InPass, OnTask, OnHold

LEMMA ConcludeRow ==
  ASSUME proc \in ProcRow, NEW s \in Statuses, Conclude(s)
  PROVE  /\ proc' \in ProcRow /\ SameRow /\ proc'.pc = "unverify"
         /\ proc'.kind = proc.kind /\ proc'.status = s /\ proc'.attempts = proc.attempts
BY DEF Conclude, ProcRow, SameRow, ProcStates, InPass, OnTask

LEMMA StoppedRow == Stopped \in ProcRow /\ Stopped.pc = "idle"
<1>1. <<>> \in Seq(Tasks)
  OBVIOUS
<1>2. QED
  BY <1>1 DEF Stopped, ProcRow, ProcStates

LEMMA IdleIsOK ==
  ASSUME proc' = Stopped
  PROVE  ProcOK'
BY StoppedRow DEF ProcOK, At, InPass, FirstPass, SecondPass, OnTask, OnHold

LEMMA ToHold ==
  ASSUME proc'.pc \in OnHold, NEW kind \in Kinds, proc'.kind = kind, NEW t, NEW k, HoldOK(t, k, kind)',
         proc'.status # "WAITING" \/ k # Deadline
  PROVE  TaskOK(t, k)'
<1>1. proc'.pc \notin {"approval", "review", "bid", "passover", "executed", "verdict", "giveback", "unverify", "save"}
  BY DEF OnHold
<1>2. ConclusionOK(t, k)'
  BY <1>1 DEF ConclusionOK, At
<1>3. QED
  BY <1>1, <1>2 DEF TaskOK, At

(* After the last step of a hold, whatever became of it. *)
LEMMA DoneKeeps ==
  ASSUME EInv, World', proc.pc \in {"claim", "doubt", "settle"},
         NEW t \in Tasks, t = Task, NEW k \in Ticks, k = now, NEW kind \in Kinds, kind = proc.kind,
         Done(kind), UNCHANGED <<checkpoint, traces, approvals>>, DOMAIN holds \subseteq DOMAIN holds',
         \A l \in Kinds \ {kind} : State(<<t, k, l>>)' = State(<<t, k, l>>),
         State(<<t, k, kind>>)' \in {"SETTLED", "RELEASED", "UNRESOLVED"}
  PROVE  ProcOK'
<1>1. /\ proc.pc \in OnTask /\ ~ At("prepare") /\ proc \in ProcRow /\ proc.status \in Statuses
  BY DEF EInv, ProcOK, CurrentOK, OnTask, OnHold, At
<1>2. /\ t \in PlanTasks /\ PairOK(t, k) /\ TaskOK(t, k) /\ plan # None
      /\ ~ proc.executing => item.task = t /\ item.resource = Chosen(t)
      /\ proc.executing => <<t, k, "verification">> \in DOMAIN holds
      /\ Chosen(t) \in Choosable /\ (k = Deadline => Chosen(t) = "defer")
  BY <1>1, HereFacts, PlanFacts DEF EInv, World
<1>3. HoldOK(t, k, kind) /\ (proc.status # "WAITING" \/ k # Deadline)
  BY <1>2 DEF TaskOK, ConclusionOK, OnHold
<1>4. /\ KindOK(t, k, kind) /\ (kind \in {"execution", "verification"} => proc.executing)
      /\ State(<<t, k, kind>>) # "NONE"
  BY <1>1, <1>3 DEF HoldOK
<1>5. /\ {"planning", "bidding", "mandatory_review", "execution", "verification"} \subseteq Kinds
      /\ Retries \subseteq Kinds /\ "execution" \notin Retries /\ "planning" \notin Retries /\ "verification" \notin Retries
      /\ "mandatory_review" \notin Retries /\ "bidding" \notin Retries
  BY DEF Kinds, Retries
<1>6. /\ kind # "execution" => Execution(t, k)' = Execution(t, k)
      /\ kind # "verification" => Verification(t, k)' = Verification(t, k)
      /\ Planning(t, k) # "NONE" => Planning(t, k)' # "NONE"
  BY <1>5 DEF Execution, Verification, Planning
<1>7. /\ PairOK(t, k)' /\ now' = now /\ Chosen(t)' = Chosen(t)
      /\ Execution(t, k)' # "NONE" => Chosen(t) \in Resources
  <2>1. now' = now /\ Chosen(t)' = Chosen(t)
    BY DEF now, Chosen
  <2>2. Execution(t, k)' # "NONE" => Chosen(t) \in Resources
    BY <1>5, <2>1 DEF World, HoldsInPlan, Execution
  <2>3. QED
    BY <2>1, <2>2 DEF World, PairsOK
<1>8. ASSUME SameRow, proc' \in ProcRow, proc'.pc \in OnTask, proc'.status \in Statuses, TaskOK(t, k)',
             proc'.pc \in FirstPass => ~ proc.executing, proc'.pc \in SecondPass => proc.executing
      PROVE  ProcOK'
  BY <1>1, <1>8, ProcKept DEF SamePlace
<1>9. CASE kind = "planning"
  <2>1. ~ proc.executing /\ proc.attempts = {} /\ Planning(t, k)' # "NONE"
    BY <1>4, <1>6, <1>9 DEF KindOK, Planning
  <2>2. CASE Chosen(t) \in {"wait", "defer"}
    <3>1. PICK s \in {"WAITING", "ABANDONED"} : Conclude(s) /\ (s = "WAITING" => k # Deadline)
      BY <1>2, <1>5, <1>9, <2>1, <2>2 DEF Done
    <3>2. s \in Statuses
      BY DEF Statuses
    <3>3. /\ proc' \in ProcRow /\ SameRow /\ proc'.pc = "unverify" /\ proc'.status = s
      BY <1>1, <3>1, <3>2, ConcludeRow
    <3>4. Execution(t, k)' = "NONE"
      BY <1>7, <2>2 DEF Resources
    <3>5. TaskOK(t, k)'
      BY <3>1, <3>3, <3>4 DEF TaskOK, ConclusionOK, At, OnHold
    <3>6. QED
      BY <1>8, <3>2, <3>3, <3>5 DEF OnTask, OnHold, FirstPass, SecondPass
  <2>3. CASE Chosen(t) \notin {"wait", "defer"} /\ t \in Mandatory
    <3>1. Goto("approval") /\ Chosen(t) \in Resources
      BY <1>2, <1>5, <1>9, <2>1, <2>3 DEF Done, Choosable
    <3>2. "approval" \in ProcStates
      BY DEF ProcStates, InPass, OnTask
    <3>3. /\ proc' \in ProcRow /\ SameRow /\ proc'.pc = "approval" /\ proc'.status = proc.status
          /\ proc'.attempts = proc.attempts
      BY <1>1, <3>1, <3>2, GotoRow
    <3>4. TaskOK(t, k)'
      BY <1>3, <1>7, <2>1, <2>3, <3>1, <3>3 DEF TaskOK, ConclusionOK, At, OnHold
    <3>5. QED
      BY <1>1, <1>8, <2>1, <3>3, <3>4 DEF OnTask, OnHold, FirstPass, SecondPass
  <2>4. CASE Chosen(t) \notin {"wait", "defer"} /\ t \notin Mandatory
    <3>1. Attempt("execution") /\ Chosen(t) \in Resources
      BY <1>2, <1>5, <1>9, <2>1, <2>4 DEF Done, Choosable
    <3>2. /\ proc' \in ProcRow /\ SameRow /\ proc'.pc = "prepare" /\ proc'.status = proc.status
          /\ proc'.attempts = {} /\ proc'.kind = "execution"
      BY <1>1, <1>5, <2>1, <3>1, AttemptRow
    <3>3. HoldOK(t, k, "execution")'
      BY <1>5, <1>7, <2>1, <2>4, <3>1, <3>2 DEF HoldOK, KindOK, At, SameRow
    <3>4. TaskOK(t, k)'
      BY <1>3, <1>5, <3>2, <3>3, ToHold DEF OnHold
    <3>5. QED
      BY <1>1, <1>8, <3>2, <3>4 DEF OnTask, OnHold, FirstPass, SecondPass
  <2>5. QED
    BY <2>2, <2>3, <2>4
<1>10. CASE kind \in {"mandatory_review", "bidding", "execution", "verification"}
  <2>0. /\ kind = "mandatory_review" => Goto("review")
        /\ kind = "bidding" => Goto("bid")
        /\ kind = "execution" => Goto("executed")
        /\ kind = "verification" => Goto("verdict")
    BY <1>5 DEF Done
  <2>1. PICK pc \in {"review", "bid", "executed", "verdict"} :
          /\ Goto(pc)
          /\ pc = "review" <=> kind = "mandatory_review"
          /\ pc = "bid" <=> kind = "bidding"
          /\ pc = "executed" <=> kind = "execution"
          /\ pc = "verdict" <=> kind = "verification"
    BY <1>10, <2>0
  <2>2. pc \in ProcStates /\ pc \in OnTask /\ pc \notin OnHold
    BY DEF ProcStates, InPass, OnTask, OnHold
  <2>3. /\ proc' \in ProcRow /\ SameRow /\ proc'.pc = pc /\ proc'.status = proc.status
        /\ proc'.attempts = proc.attempts /\ proc'.kind = kind
    BY <1>1, <2>1, <2>2, GotoRow
  <2>4. pc \in {"executed", "verdict"} <=> proc.executing
    BY <1>4, <2>1 DEF KindOK
  <2>5. /\ pc = "review" => t \in Mandatory /\ Chosen(t) \in Resources /\ Planning(t, k)' # "NONE"
                            /\ proc.attempts = {} /\ <<t, k>> \in DOMAIN approvals
        /\ pc = "bid" => Chosen(t) \in Resources /\ Verification(t, k)' # "NONE" /\ proc.attempts # {}
    BY <1>4, <1>6, <2>1 DEF KindOK
  <2>6. pc = "executed" => Execution(t, k)' \in {"SETTLED", "UNRESOLVED", "RELEASED"}
    BY <2>1 DEF Execution
  <2>7. pc = "verdict" => Execution(t, k)' = "SETTLED" /\ Verification(t, k)' \in {"SETTLED", "UNRESOLVED"}
    <3>1. pc = "verdict" => Execution(t, k)' = "SETTLED" /\ Verification(t, k)' \in {"SETTLED", "UNRESOLVED", "RELEASED"}
      BY <1>4, <1>6, <2>1, <2>4 DEF KindOK, Verification
    <3>2. QED
      BY <1>7, <3>1 DEF PairOK
  <2>8. TaskOK(t, k)'
    BY <1>3, <1>7, <2>2, <2>3, <2>5, <2>6, <2>7, <2>1 DEF TaskOK, ConclusionOK, At
  <2>9. QED
    BY <1>1, <1>8, <2>2, <2>3, <2>4, <2>8 DEF FirstPass, SecondPass
<1>11. CASE kind \in Retries
  <2>1. /\ proc.executing /\ proc.status = "UNRESOLVED" /\ Execution(t, k)' = "UNRESOLVED"
        /\ Chosen(t) \in Resources /\ Planning(t, k)' # "NONE"
    BY <1>4, <1>5, <1>6, <1>11 DEF KindOK
  <2>2. (\E next \in Retries : Attempt(next)) \/ Goto("unverify")
    BY <1>11 DEF Done, Retries
  <2>3. CASE \E next \in Retries : Attempt(next)
    <3>1. PICK next \in Retries : Attempt(next)
      BY <2>3
    <3>2. /\ proc' \in ProcRow /\ SameRow /\ proc'.pc = "prepare" /\ proc'.status = proc.status
          /\ proc'.kind = next /\ next \in Kinds
      BY <1>1, <1>5, <3>1, AttemptRow
    <3>3. HoldOK(t, k, next)'
      BY <1>5, <1>7, <2>1, <3>1, <3>2 DEF HoldOK, KindOK, At, SameRow
    <3>4. TaskOK(t, k)'
      BY <1>3, <3>2, <3>3, ToHold DEF OnHold
    <3>5. QED
      BY <1>1, <1>8, <3>2, <3>4 DEF OnTask, OnHold, FirstPass, SecondPass
  <2>4. CASE Goto("unverify")
    <3>1. "unverify" \in ProcStates
      BY DEF ProcStates, InPass, OnTask
    <3>2. /\ proc' \in ProcRow /\ SameRow /\ proc'.pc = "unverify" /\ proc'.status = "UNRESOLVED"
      BY <1>1, <2>1, <2>4, <3>1, GotoRow
    <3>3. TaskOK(t, k)'
      BY <2>1, <3>2 DEF TaskOK, ConclusionOK, At, OnHold
    <3>4. QED
      BY <1>1, <1>8, <2>1, <3>2, <3>3 DEF OnTask, OnHold, FirstPass, SecondPass
  <2>5. QED
    BY <2>2, <2>3, <2>4
<1>12. QED
  BY <1>9, <1>10, <1>11 DEF Kinds

-----------------------------------------------------------------------------
(* The steps on a hold *)

LEMMA TablesStay ==
  ASSUME EInv, UNCHANGED <<tables, receipts, approvals, checkpoint, traces>>
  PROVE  M!IInv' /\ World' /\ UNCHANGED holds /\ \A h : State(h)' = State(h)
<1>1. UNCHANGED kernel /\ UNCHANGED holds /\ UNCHANGED bids
  BY DEF tables, kernel
<1>2. M!IInv' /\ World'
  BY <1>1, KernelStutters, WorldStays, BidsStay DEF EInv
<1>3. \A h : State(h)' = State(h)
  BY <1>1 DEF State
<1>4. QED
  BY <1>1, <1>2, <1>3

LEMMA KindNames ==
  /\ {"planning", "bidding", "mandatory_review", "execution", "verification"} \subseteq Kinds
  /\ Retries \subseteq Kinds
  /\ Retries \cap {"planning", "bidding", "mandatory_review", "execution", "verification"} = {}
BY DEF Kinds, Retries

(* The current hold is that of a task t at tick k. *)
IsHold(t, k, kind) ==
  /\ t = Task /\ k = now /\ kind = proc.kind /\ Hold(proc.kind) = <<t, k, kind>>
  /\ plan # None /\ t \in PlanTasks /\ ~ Taken(t)
  /\ Chosen(t) \in Choosable /\ (kind # "planning" => Chosen(t) \in Resources)
  /\ proc.executing => Verification(t, k) # "NONE"
  /\ ~ proc.executing => item.task = t /\ item.resource = Chosen(t)
  /\ PairOK(t, k) /\ HoldOK(t, k, kind)
  /\ proc.status \in Statuses /\ (proc.status # "WAITING" \/ k # Deadline)

LEMMA HoldFacts ==
  ASSUME EInv, proc.pc \in OnHold
  PROVE  \E t \in Tasks, k \in Ticks, kind \in Kinds : IsHold(t, k, kind)
<1>1. proc.pc \in OnTask /\ proc.pc \in InPass
  BY DEF OnTask, InPass
<1>2. PICK t \in Tasks, k \in Ticks : t = Task /\ k = now
  BY <1>1, HereFacts
<1>3. /\ plan # None /\ t \in PlanTasks /\ ~ Taken(t) /\ TaskOK(t, k) /\ PairOK(t, k) /\ CurrentOK
      /\ proc.executing => <<t, k, "verification">> \in DOMAIN holds
      /\ ~ proc.executing => item.task = t /\ item.resource = Chosen(t)
  BY <1>1, <1>2, HereFacts
<1>4. Chosen(t) \in Choosable
  BY <1>3, PlanFacts DEF EInv, World
<1>5. PICK kind \in Kinds : kind = proc.kind /\ HoldOK(t, k, kind)
  BY <1>3 DEF TaskOK
<1>6. Hold(proc.kind) = <<t, k, kind>>
  BY <1>2, <1>5 DEF Hold
<1>7. kind # "planning" => Chosen(t) \in Resources
  BY <1>5 DEF HoldOK, KindOK
<1>8. proc.executing => Verification(t, k) # "NONE"
  BY <1>3, StateType DEF EInv, Verification
<1>9. proc.status \in Statuses /\ (proc.status # "WAITING" \/ k # Deadline)
  BY <1>3 DEF CurrentOK, TaskOK, ConclusionOK
<1>10. IsHold(t, k, kind)
  BY <1>2, <1>3, <1>4, <1>5, <1>6, <1>7, <1>8, <1>9 DEF IsHold
<1>11. QED
  BY <1>10

(* Between claim and settlement the kind stays what it is. *)
LEMMA OnHoldKeeps ==
  ASSUME EInv, proc.pc \in {"claim", "record"}, NEW t \in Tasks, NEW k \in Ticks, NEW kind \in Kinds, IsHold(t, k, kind),
         NEW pc \in {"doubt", "record", "settle"}, Goto(pc), State(<<t, k, kind>>)' = "DISPATCHED",
         pc = "doubt" => <<t, k, kind>> \notin receipts', pc = "settle" => <<t, k, kind>> \in receipts',
         \A l \in Kinds \ {kind} : State(<<t, k, l>>)' = State(<<t, k, l>>),
         UNCHANGED <<checkpoint, traces, approvals>>, DOMAIN holds \subseteq DOMAIN holds'
  PROVE  ProcOK'
<1>1. /\ proc.pc \in OnTask /\ ~ At("prepare") /\ proc \in ProcRow /\ t = Task /\ k = now /\ kind = proc.kind
      /\ pc \in OnHold /\ pc \in OnTask /\ pc \in ProcStates /\ pc \notin FirstPass /\ pc \notin SecondPass
  BY DEF EInv, ProcOK, OnTask, OnHold, At, IsHold, ProcStates, InPass, FirstPass, SecondPass
<1>2. HoldOK(t, k, kind) /\ proc.status \in Statuses /\ (proc.status # "WAITING" \/ k # Deadline)
  BY DEF IsHold
<1>3. /\ proc' \in ProcRow /\ SameRow /\ proc'.pc = pc
      /\ proc'.kind = proc.kind /\ proc'.status = proc.status /\ proc'.attempts = proc.attempts
  BY <1>1, GotoRow
<1>4. /\ kind # "execution" => Execution(t, k)' = Execution(t, k)
      /\ kind # "verification" => Verification(t, k)' = Verification(t, k)
      /\ Planning(t, k) # "NONE" => Planning(t, k)' # "NONE"
  BY KindNames DEF Execution, Verification, Planning
<1>5. now' = now /\ Chosen(t)' = Chosen(t)
  BY DEF now, Chosen
<1>6. KindOK(t, k, kind)'
  BY <1>2, <1>3, <1>4, <1>5, KindNames DEF HoldOK, KindOK, SameRow
<1>7. HoldOK(t, k, kind)'
  BY <1>1, <1>2, <1>3, <1>6 DEF HoldOK, At, SameRow
<1>8. TaskOK(t, k)'
  BY <1>1, <1>2, <1>3, <1>7, ToHold
<1>9. QED
  BY <1>1, <1>2, <1>3, <1>8, ProcKept DEF SamePlace

(* The states at the tick after the current hold moved. *)
LEMMA MovesHere ==
  ASSUME M!IInv, NEW t \in Tasks, NEW k \in Ticks, NEW kind \in Kinds, NEW to, to # "NONE", Moves(t, k, kind, to)
  PROVE  /\ State(<<t, k, kind>>)' = to
         /\ \A l \in Kinds \ {kind} : State(<<t, k, l>>)' = State(<<t, k, l>>)
         /\ Execution(t, k)' = IF kind = "execution" THEN to ELSE Execution(t, k)
         /\ Verification(t, k)' = IF kind = "verification" THEN to ELSE Verification(t, k)
         /\ Planning(t, k)' = IF kind = "planning" THEN to ELSE Planning(t, k)
         /\ DOMAIN holds \subseteq DOMAIN holds'
<1>1. ASSUME NEW h \in DOMAIN holds
      PROVE  h \in DOMAIN holds'
  <2>1. PICK u \in Tasks, j \in Ticks, l \in Kinds : h = <<u, j, l>>
    BY KernelRows DEF Holds
  <2>2. State(h) # "NONE"
    BY StateType
  <2>3. State(h)' # "NONE"
    BY <2>1, <2>2 DEF Moves
  <2>4. QED
    BY <2>3 DEF State
<1>2. QED
  BY <1>1, KindNames DEF Moves, Execution, Verification, Planning

LEMMA ClaimHoldInductive ==
  ASSUME EInv, ClaimHold
  PROVE  EInv'
<1>1. At("claim") /\ proc.pc = "claim" /\ proc.pc \in OnHold
  BY DEF ClaimHold, At, OnHold
<1>2. PICK t \in Tasks, k \in Ticks, kind \in Kinds : IsHold(t, k, kind)
  BY <1>1, HoldFacts
<1>3. /\ Hold(proc.kind) = <<t, k, kind>> /\ kind = proc.kind /\ t = Task /\ k = now
      /\ plan # None /\ t \in PlanTasks /\ ~ Taken(t) /\ (kind # "planning" => Chosen(t) \in Resources)
      /\ KindOK(t, k, kind) /\ PairOK(t, k) /\ (kind \in {"execution", "verification"} => proc.executing)
      /\ proc.executing => Verification(t, k) # "NONE"
  BY <1>1, <1>2 DEF IsHold, HoldOK, At
<1>4. UNCHANGED <<receipts, approvals, checkpoint, traces>>
  BY DEF ClaimHold
<1> DEFINE h == <<t, k, kind>>
<1>5. \/ State(h) \in {"SETTLED", "RELEASED"} /\ Done(kind) /\ UNCHANGED tables
      \/ State(h) \in {"DISPATCHED", "UNRESOLVED"} /\ h \in receipts /\ Goto("settle") /\ UNCHANGED tables
      \/ State(h) = "DISPATCHED" /\ h \notin receipts /\ Goto("doubt") /\ UNCHANGED tables
      \/ State(h) = "UNRESOLVED" /\ h \notin receipts /\ Done(kind) /\ UNCHANGED tables
      \/ Dispatch(h, k) /\ (Goto("doubt") \/ Goto("record")) /\ UNCHANGED market
  BY <1>3 DEF ClaimHold
<1>6. h \in receipts => State(h) \in {"DISPATCHED", "SETTLED"}
  BY DEF EInv, World, ReceiptsOK
<1>7. CASE State(h) \in {"SETTLED", "RELEASED", "UNRESOLVED"} /\ Done(kind) /\ UNCHANGED tables
  <2>1. M!IInv' /\ World' /\ UNCHANGED holds /\ \A g : State(g)' = State(g)
    BY <1>4, <1>7, TablesStay
  <2>2. ProcOK'
    BY <1>1, <1>3, <1>4, <1>7, <2>1, DoneKeeps
  <2>3. QED
    BY <2>1, <2>2 DEF EInv
<1>8. ASSUME NEW pc \in {"settle", "doubt"}, State(h) = "DISPATCHED", Goto(pc), UNCHANGED tables,
             pc = "settle" => h \in receipts, pc = "doubt" => h \notin receipts
      PROVE  EInv'
  <2>1. M!IInv' /\ World' /\ UNCHANGED holds /\ \A g : State(g)' = State(g)
    BY <1>4, <1>8, TablesStay
  <2>2. ProcOK'
    BY <1>1, <1>2, <1>4, <1>8, <2>1, OnHoldKeeps
  <2>3. QED
    BY <2>1, <2>2 DEF EInv
<1>9. CASE Dispatch(h, k) /\ (Goto("doubt") \/ Goto("record")) /\ UNCHANGED market
  <2>1. M!IInv' /\ State(h) = "RESERVED" /\ Moves(t, k, kind, "DISPATCHED")
    BY <1>9, DispatchMoves DEF EInv
  <2>2. /\ State(h)' = "DISPATCHED" /\ \A l \in Kinds \ {kind} : State(<<t, k, l>>)' = State(<<t, k, l>>)
        /\ Execution(t, k)' = IF kind = "execution" THEN "DISPATCHED" ELSE Execution(t, k)
        /\ Verification(t, k)' = IF kind = "verification" THEN "DISPATCHED" ELSE Verification(t, k)
        /\ Planning(t, k)' = IF kind = "planning" THEN "DISPATCHED" ELSE Planning(t, k)
        /\ DOMAIN holds \subseteq DOMAIN holds'
    BY <2>1, MovesHere DEF EInv
  <2>3. PairOK(t, k)'
    <3>1. now' = now /\ k \in Nat
      BY <1>4, TasksType DEF now, Ticks
    <3>2. /\ kind = "execution" => Execution(t, k) = "RESERVED"
          /\ kind = "verification" => Verification(t, k) = "RESERVED" /\ Execution(t, k) = "SETTLED"
      BY <1>3, <2>1 DEF Execution, Verification, KindOK
    <3>3. ~ (k < now')
      BY <1>3, <3>1
    <3>4. QED
      BY <1>3, <1>4, <2>2, <3>1, <3>2, <3>3 DEF PairOK, Begun
  <2>4. World'
    BY <1>3, <1>4, <1>6, <1>9, <2>1, <2>3, WorldMoves DEF EInv, market
  <2>5. ProcOK'
    BY <1>1, <1>2, <1>4, <1>6, <1>9, <2>1, <2>2, OnHoldKeeps
  <2>6. QED
    BY <2>1, <2>4, <2>5 DEF EInv
<1>10. QED
  BY <1>5, <1>6, <1>7, <1>8, <1>9

LEMMA DoubtHoldInductive ==
  ASSUME EInv, DoubtHold
  PROVE  EInv'
<1>1. At("doubt") /\ proc.pc = "doubt" /\ proc.pc \in OnHold
  BY DEF DoubtHold, At, OnHold
<1>2. PICK t \in Tasks, k \in Ticks, kind \in Kinds : IsHold(t, k, kind)
  BY <1>1, HoldFacts
<1>3. /\ Hold(proc.kind) = <<t, k, kind>> /\ kind = proc.kind /\ t = Task /\ k = now
      /\ plan # None /\ t \in PlanTasks /\ ~ Taken(t) /\ (kind # "planning" => Chosen(t) \in Resources)
      /\ PairOK(t, k) /\ State(<<t, k, kind>>) = "DISPATCHED" /\ <<t, k, kind>> \notin receipts
  BY <1>1, <1>2 DEF IsHold, HoldOK, At
<1>4. UNCHANGED <<receipts, approvals, checkpoint, traces>> /\ UNCHANGED bids
      /\ MarkUnresolved(<<t, k, kind>>) /\ Done(kind)
  BY <1>3 DEF DoubtHold, market
<1>5. M!IInv' /\ Moves(t, k, kind, "UNRESOLVED")
  BY <1>4, DoubtMoves DEF EInv
<1>6. /\ State(<<t, k, kind>>)' = "UNRESOLVED" /\ \A l \in Kinds \ {kind} : State(<<t, k, l>>)' = State(<<t, k, l>>)
      /\ Execution(t, k)' = IF kind = "execution" THEN "UNRESOLVED" ELSE Execution(t, k)
      /\ Verification(t, k)' = IF kind = "verification" THEN "UNRESOLVED" ELSE Verification(t, k)
      /\ Planning(t, k)' = IF kind = "planning" THEN "UNRESOLVED" ELSE Planning(t, k)
      /\ DOMAIN holds \subseteq DOMAIN holds'
  BY <1>5, MovesHere DEF EInv
<1>7. PairOK(t, k)'
  <2>1. now' = now
    BY <1>4 DEF now
  <2>2. /\ kind = "execution" => Execution(t, k) = "DISPATCHED"
        /\ kind = "verification" => Verification(t, k) = "DISPATCHED"
    BY <1>3 DEF Execution, Verification
  <2>3. QED
    BY <1>3, <1>4, <1>6, <2>1, <2>2 DEF PairOK, Begun
<1>8. World'
  BY <1>3, <1>4, <1>5, <1>7, WorldMoves DEF EInv
<1>9. ProcOK'
  BY <1>1, <1>3, <1>4, <1>6, <1>8, DoneKeeps
<1>10. QED
  BY <1>5, <1>8, <1>9 DEF EInv

LEMMA SettleHoldInductive ==
  ASSUME EInv, SettleHold
  PROVE  EInv'
<1>1. At("settle") /\ proc.pc = "settle" /\ proc.pc \in OnHold
  BY DEF SettleHold, At, OnHold
<1>2. PICK t \in Tasks, k \in Ticks, kind \in Kinds : IsHold(t, k, kind)
  BY <1>1, HoldFacts
<1>3. /\ Hold(proc.kind) = <<t, k, kind>> /\ kind = proc.kind /\ t = Task /\ k = now
      /\ plan # None /\ t \in PlanTasks /\ ~ Taken(t) /\ (kind # "planning" => Chosen(t) \in Resources)
      /\ PairOK(t, k) /\ State(<<t, k, kind>>) = "DISPATCHED"
  BY <1>1, <1>2 DEF IsHold, HoldOK, At
<1>4. UNCHANGED <<receipts, approvals, checkpoint, traces>> /\ UNCHANGED bids
      /\ Settle(<<t, k, kind>>, holds[<<t, k, kind>>].bound) /\ Done(kind)
  BY <1>3 DEF SettleHold, market
<1>5. M!IInv' /\ Moves(t, k, kind, "SETTLED")
  BY <1>4, SettleMoves DEF EInv
<1>6. /\ State(<<t, k, kind>>)' = "SETTLED" /\ \A l \in Kinds \ {kind} : State(<<t, k, l>>)' = State(<<t, k, l>>)
      /\ Execution(t, k)' = IF kind = "execution" THEN "SETTLED" ELSE Execution(t, k)
      /\ Verification(t, k)' = IF kind = "verification" THEN "SETTLED" ELSE Verification(t, k)
      /\ Planning(t, k)' = IF kind = "planning" THEN "SETTLED" ELSE Planning(t, k)
      /\ DOMAIN holds \subseteq DOMAIN holds'
  BY <1>5, MovesHere DEF EInv
<1>7. PairOK(t, k)'
  <2>1. now' = now
    BY <1>4 DEF now
  <2>2. /\ kind = "execution" => Execution(t, k) = "DISPATCHED"
        /\ kind = "verification" => Verification(t, k) = "DISPATCHED"
    BY <1>3 DEF Execution, Verification
  <2>3. QED
    BY <1>3, <1>4, <1>6, <2>1, <2>2 DEF PairOK, Begun
<1>8. World'
  BY <1>3, <1>4, <1>5, <1>7, WorldMoves DEF EInv
<1>9. ProcOK'
  BY <1>1, <1>3, <1>4, <1>6, <1>8, DoneKeeps
<1>10. QED
  BY <1>5, <1>8, <1>9 DEF EInv

LEMMA RecordReceiptInductive ==
  ASSUME EInv, RecordReceipt
  PROVE  EInv'
<1>1. At("record") /\ proc.pc = "record" /\ proc.pc \in OnHold
  BY DEF RecordReceipt, At, OnHold
<1>2. PICK t \in Tasks, k \in Ticks, kind \in Kinds : IsHold(t, k, kind)
  BY <1>1, HoldFacts
<1>3. /\ Hold(proc.kind) = <<t, k, kind>> /\ State(<<t, k, kind>>) = "DISPATCHED"
  BY <1>1, <1>2 DEF IsHold, HoldOK, At
<1>4. /\ receipts' = receipts \cup {<<t, k, kind>>} /\ Goto("settle")
      /\ UNCHANGED <<kernel, holds, bids, approvals, checkpoint, traces>>
  BY <1>3 DEF RecordReceipt, tables, kernel
<1>5. M!IInv' /\ \A h : State(h)' = State(h)
  BY <1>4, KernelStutters DEF EInv, State
<1>6. World'
  <2>1. ReceiptsOK'
    <3>1. <<t, k, kind>> \in Holds
      BY DEF Holds
    <3>2. QED
      BY <1>3, <1>4, <1>5, <3>1 DEF EInv, World, ReceiptsOK
  <2>2. BidsOK' /\ ApprovalsOK' /\ ApprovalsKept
    BY <1>4, BidsStay DEF EInv, World, ApprovalsOK, ApprovalsKept
  <2>3. QED
    BY <1>4, <2>1, <2>2, WorldGrows DEF EInv
<1>7. ProcOK'
  BY <1>1, <1>2, <1>3, <1>4, <1>5, OnHoldKeeps
<1>8. QED
  BY <1>5, <1>6, <1>7 DEF EInv

-----------------------------------------------------------------------------
(* The other steps on a task *)

IsTask(t, k) ==
  /\ t = Task /\ k = now /\ plan # None /\ t \in PlanTasks /\ ~ Taken(t)
  /\ Chosen(t) \in Choosable /\ (Chosen(t) \in Resources => k # Deadline)
  /\ proc.executing => Verification(t, k) # "NONE" /\ Chosen(t) \in Resources
  /\ ~ proc.executing => item.task = t /\ item.resource = Chosen(t)
  /\ PairOK(t, k) /\ TaskOK(t, k)
  /\ proc \in ProcRow /\ proc.status \in Statuses /\ (proc.status # "WAITING" \/ k # Deadline)
  /\ proc.pc \in FirstPass => ~ proc.executing
  /\ proc.pc \in SecondPass => proc.executing

LEMMA TaskFacts ==
  ASSUME EInv, proc.pc \in OnTask
  PROVE  \E t \in Tasks, k \in Ticks : IsTask(t, k)
<1>1. PICK t \in Tasks, k \in Ticks : t = Task /\ k = now
  BY HereFacts
<1>2. /\ plan # None /\ t \in PlanTasks /\ ~ Taken(t) /\ TaskOK(t, k) /\ PairOK(t, k) /\ CurrentOK /\ PassOK
      /\ proc.executing => <<t, k, "verification">> \in DOMAIN holds /\ Chosen(t) \in Resources
      /\ ~ proc.executing => item.task = t /\ item.resource = Chosen(t)
  BY <1>1, HereFacts
<1>3. Chosen(t) \in Choosable /\ (Chosen(t) \in Resources => k # Deadline)
  BY <1>1, <1>2, PlanFacts DEF EInv, World
<1>4. proc.executing => Verification(t, k) # "NONE"
  BY <1>2, StateType DEF EInv, Verification
<1>5. proc.status \in Statuses /\ (proc.status # "WAITING" \/ k # Deadline) /\ proc \in ProcRow
  BY <1>2 DEF CurrentOK, TaskOK, ConclusionOK, EInv, ProcOK
<1>6. IsTask(t, k)
  BY <1>1, <1>2, <1>3, <1>4, <1>5 DEF IsTask, PassOK
<1>7. QED
  BY <1>6

(* The row of the process moves on and its new state suits the task. *)
LEMMA TaskKept ==
  ASSUME EInv, proc.pc \in OnTask, NEW t, NEW k, IsTask(t, k), SamePlace, DOMAIN holds \subseteq DOMAIN holds',
         proc' \in ProcRow, NEW pc, proc'.pc = pc, pc \in OnTask,
         pc \in FirstPass => ~ proc.executing, pc \in SecondPass => proc.executing,
         proc'.status \in Statuses, TaskOK(t, k)'
  PROVE  ProcOK'
<1>1. t = Task /\ k = now
  BY DEF IsTask
<1>2. QED
  BY <1>1, ProcKept

LEMMA LeaveUnresolvedInductive ==
  ASSUME EInv, LeaveUnresolved
  PROVE  EInv'
<1>1. proc.pc = "executed" /\ proc.pc \in OnTask
  BY DEF LeaveUnresolved, At, OnTask
<1>2. PICK t \in Tasks, k \in Ticks : IsTask(t, k)
  BY <1>1, TaskFacts
<1>3. /\ proc.executing /\ Execution(t, k) = "UNRESOLVED" /\ Chosen(t) \in Resources /\ Planning(t, k) # "NONE"
      /\ proc \in ProcRow
  BY <1>1, <1>2 DEF IsTask, LeaveUnresolved, Hold, Execution, PairOK, SecondPass
<1>4. UNCHANGED <<tables, receipts, approvals, checkpoint, traces>>
  BY DEF LeaveUnresolved
<1>5. M!IInv' /\ World' /\ UNCHANGED holds /\ \A h : State(h)' = State(h)
  BY <1>4, TablesStay
<1>6. /\ Execution(t, k)' = Execution(t, k) /\ Planning(t, k)' = Planning(t, k) /\ Chosen(t)' = Chosen(t)
  BY <1>4, <1>5 DEF Execution, Planning, Chosen
<1>7. CASE RetryPressure
  <2>1. proc' = [proc EXCEPT !.pc = "prepare", !.kind = "retry-1", !.status = "UNRESOLVED"]
    BY <1>7 DEF LeaveUnresolved
  <2>2. "retry-1" \in Retries /\ "retry-1" \in Kinds /\ "prepare" \in ProcStates /\ "UNRESOLVED" \in Statuses
    BY DEF Retries, Kinds, ProcStates, InPass, OnTask, OnHold, Statuses
  <2>3. /\ proc' \in ProcRow /\ SameRow /\ proc'.pc = "prepare" /\ proc'.kind = "retry-1" /\ proc'.status = "UNRESOLVED"
    BY <1>3, <2>1, <2>2 DEF ProcRow, SameRow
  <2>4. HoldOK(t, k, "retry-1")'
    BY <1>3, <1>6, <2>2, <2>3, KindNames DEF HoldOK, KindOK, At, SameRow
  <2>5. TaskOK(t, k)'
    BY <2>2, <2>3, <2>4, ToHold DEF OnHold
  <2>6. ProcOK'
    BY <1>1, <1>2, <1>4, <1>5, <2>2, <2>3, <2>5, TaskKept DEF SamePlace, OnTask, OnHold, FirstPass, SecondPass
  <2>7. QED
    BY <1>5, <2>6 DEF EInv
<1>8. CASE ~ RetryPressure
  <2>1. proc' = [proc EXCEPT !.pc = "unverify", !.status = "UNRESOLVED"]
    BY <1>8 DEF LeaveUnresolved
  <2>2. "unverify" \in ProcStates /\ "UNRESOLVED" \in Statuses
    BY DEF ProcStates, InPass, OnTask, OnHold, Statuses
  <2>3. /\ proc' \in ProcRow /\ SameRow /\ proc'.pc = "unverify" /\ proc'.status = "UNRESOLVED"
    BY <1>3, <2>1, <2>2 DEF ProcRow, SameRow
  <2>4. TaskOK(t, k)'
    BY <1>3, <1>6, <2>3 DEF TaskOK, ConclusionOK, At, OnHold
  <2>5. ProcOK'
    BY <1>1, <1>2, <1>4, <1>5, <2>2, <2>3, <2>4, TaskKept DEF SamePlace, OnTask, OnHold, FirstPass, SecondPass
  <2>6. QED
    BY <1>5, <2>5 DEF EInv
<1>9. QED
  BY <1>7, <1>8

(* A step that stops the process. *)
LEMMA StopInductive ==
  ASSUME EInv, proc' = Stopped, UNCHANGED <<tables, receipts, approvals, checkpoint, traces>>
  PROVE  EInv'
BY TablesStay, IdleIsOK DEF EInv

LEMMA VerdictInductive ==
  ASSUME EInv, Verdict
  PROVE  EInv'
<1>1. proc.pc = "verdict" /\ proc.pc \in OnTask
  BY DEF Verdict, At, OnTask
<1>2. PICK t \in Tasks, k \in Ticks : IsTask(t, k)
  BY <1>1, TaskFacts
<1>3. /\ Execution(t, k) = "SETTLED" /\ Verification(t, k) \in {"SETTLED", "UNRESOLVED"} /\ proc \in ProcRow
  BY <1>1, <1>2 DEF IsTask, TaskOK, At
<1>4. UNCHANGED <<tables, receipts, approvals, checkpoint, traces>>
  BY DEF Verdict
<1>5. M!IInv' /\ World' /\ UNCHANGED holds /\ \A h : State(h)' = State(h)
  BY <1>4, TablesStay
<1>6. /\ Execution(t, k)' = Execution(t, k) /\ Verification(t, k)' = Verification(t, k)
  BY <1>4, <1>5 DEF Execution, Verification
<1>7. PICK s \in {"VERIFIED", "FAILED"} : proc' = [proc EXCEPT !.pc = "save", !.status = s]
  BY DEF Verdict
<1>8. "save" \in ProcStates /\ s \in Statuses
  BY DEF ProcStates, InPass, OnTask, Statuses
<1>9. /\ proc' \in ProcRow /\ SameRow /\ proc'.pc = "save" /\ proc'.status = s
  BY <1>3, <1>7, <1>8 DEF ProcRow, SameRow
<1>10. TaskOK(t, k)'
  <2>1. Says(t, k, proc.status)'
    BY <1>3, <1>6, <1>9 DEF Says
  <2>2. QED
    BY <1>9, <2>1 DEF TaskOK, ConclusionOK, At, OnHold
<1>11. ProcOK'
  BY <1>1, <1>2, <1>4, <1>5, <1>8, <1>9, <1>10, TaskKept DEF SamePlace, OnTask, OnHold, FirstPass, SecondPass
<1>12. QED
  BY <1>5, <1>11 DEF EInv

LEMMA DeliverInductive ==
  ASSUME EInv, DeliverAndVerify
  PROVE  EInv'
<1>1. proc.pc = "executed" /\ proc.pc \in OnTask
  BY DEF DeliverAndVerify, At, OnTask
<1>2. PICK t \in Tasks, k \in Ticks : IsTask(t, k)
  BY <1>1, TaskFacts
<1>3. /\ proc.executing /\ Execution(t, k) = "SETTLED" /\ Chosen(t) \in Resources /\ Planning(t, k) # "NONE"
      /\ proc \in ProcRow /\ proc.status \in Statuses /\ (proc.status # "WAITING" \/ k # Deadline)
      /\ Verification(t, k) # "NONE"
  BY <1>1, <1>2 DEF IsTask, DeliverAndVerify, Hold, Execution, PairOK, SecondPass
<1>4. UNCHANGED <<kernel, holds, receipts, approvals, checkpoint, traces>>
  BY DEF DeliverAndVerify, tables, kernel, FinishDelivered, ledgerVars
<1>5. BidsOK'
  <2>1. ASSUME FinishDelivered(BidOf(Task, now))
        PROVE  BidsOK'
    BY <2>1 DEF EInv, World, FinishDelivered, BidsOK, BidStates
  <2>2. ASSUME UNCHANGED tables
        PROVE  BidsOK'
    BY <2>2, BidsStay DEF tables, EInv
  <2>3. QED
    BY <2>1, <2>2 DEF DeliverAndVerify
<1>6. M!IInv' /\ World' /\ \A h : State(h)' = State(h)
  BY <1>4, <1>5, KernelStutters, WorldStays DEF EInv, State
<1>7. /\ Execution(t, k)' = Execution(t, k) /\ Planning(t, k)' = Planning(t, k) /\ Chosen(t)' = Chosen(t)
      /\ Verification(t, k)' = Verification(t, k)
  BY <1>4, <1>6 DEF Execution, Planning, Chosen, Verification
<1>8. Execute("verification") /\ "verification" \in Kinds
  BY KindNames DEF DeliverAndVerify
<1>9. /\ proc' \in ProcRow /\ SameRow /\ proc'.pc = "claim" /\ proc'.kind = "verification" /\ proc'.status = proc.status
  BY <1>3, <1>8, ExecuteRow
<1>10. HoldOK(t, k, "verification")'
  BY <1>3, <1>7, <1>9, KindNames DEF HoldOK, KindOK, At, SameRow, Verification
<1>11. TaskOK(t, k)'
  BY <1>3, <1>8, <1>9, <1>10, ToHold DEF OnHold
<1>12. ProcOK'
  BY <1>1, <1>2, <1>3, <1>4, <1>9, <1>11, TaskKept DEF SamePlace, OnTask, OnHold, FirstPass, SecondPass
<1>13. QED
  BY <1>6, <1>12 DEF EInv

(* The execution or the verification of the current task is given back. *)
LEMMA ReleaseHere ==
  ASSUME EInv, NEW t \in Tasks, NEW k \in Ticks, IsTask(t, k), NEW kind \in {"execution", "verification"},
         kind = "verification" => Execution(t, k) \in {"RELEASED", "UNRESOLVED"},
         Release(<<t, k, kind>>), UNCHANGED <<market, receipts, approvals, checkpoint, traces>>
  PROVE  /\ M!IInv' /\ World' /\ DOMAIN holds \subseteq DOMAIN holds'
         /\ kind = "execution" => Execution(t, k)' = "RELEASED" /\ Verification(t, k)' = Verification(t, k)
         /\ kind = "verification" => Execution(t, k)' = Execution(t, k) /\ Verification(t, k)' = "RELEASED"
<1>1. kind \in Kinds /\ kind # "planning"
  BY KindNames
<1>2. M!IInv' /\ State(<<t, k, kind>>) = "RESERVED" /\ Moves(t, k, kind, "RELEASED")
  BY <1>1, ReleaseMoves DEF EInv
<1>3. /\ State(<<t, k, kind>>)' = "RELEASED"
      /\ Execution(t, k)' = IF kind = "execution" THEN "RELEASED" ELSE Execution(t, k)
      /\ Verification(t, k)' = IF kind = "verification" THEN "RELEASED" ELSE Verification(t, k)
      /\ Planning(t, k)' = Planning(t, k)
      /\ DOMAIN holds \subseteq DOMAIN holds'
  BY <1>1, <1>2, MovesHere DEF EInv
<1>4. /\ k = now /\ now' = now /\ plan # None /\ t \in PlanTasks /\ ~ Taken(t) /\ PairOK(t, k)
  BY DEF IsTask, now
<1>5. PairOK(t, k)'
  <2>1. /\ kind = "execution" => Execution(t, k) = "RESERVED"
        /\ kind = "verification" => Verification(t, k) = "RESERVED"
    BY <1>2 DEF Execution, Verification
  <2>2. QED
    BY <1>3, <1>4, <2>1 DEF PairOK, Begun
<1>6. Chosen(t) \in Resources /\ (<<t, k, kind>> \notin receipts)
  BY <1>1, <1>2, <1>4 DEF EInv, World, HoldsInPlan, ReceiptsOK
<1>7. World'
  BY <1>1, <1>2, <1>4, <1>5, <1>6, WorldMoves DEF EInv, market
<1>8. QED
  BY <1>2, <1>3, <1>7

LEMMA UnverifyInductive ==
  ASSUME EInv, Unverify
  PROVE  EInv'
<1>1. proc.pc = "unverify" /\ proc.pc \in OnTask
  BY DEF Unverify, At, OnTask
<1>2. PICK t \in Tasks, k \in Ticks : IsTask(t, k)
  BY <1>1, TaskFacts
<1>3. /\ PairOK(t, k) /\ proc \in ProcRow /\ proc.status \in Statuses /\ (proc.status # "WAITING" \/ k # Deadline)
      /\ \/ proc.status = "UNRESOLVED" /\ Execution(t, k) = "UNRESOLVED"
         \/ proc.status \in {"WAITING", "ABANDONED", "DENIED"} /\ Execution(t, k) \in {"NONE", "RELEASED"}
      /\ Hold("verification") = <<t, k, "verification">>
  BY <1>1, <1>2 DEF IsTask, TaskOK, ConclusionOK, At, Hold
<1>4. UNCHANGED <<receipts, approvals, checkpoint, traces>> /\ Goto("save")
  BY DEF Unverify
<1>5. /\ M!IInv' /\ World' /\ DOMAIN holds \subseteq DOMAIN holds'
      /\ Execution(t, k)' = Execution(t, k)
      /\ Verification(t, k) = "RESERVED" => Verification(t, k)' = "RELEASED"
      /\ Verification(t, k) # "RESERVED" => Verification(t, k)' = Verification(t, k)
  <2>1. CASE Verification(t, k) = "RESERVED"
    <3>1. Release(<<t, k, "verification">>) /\ UNCHANGED market
      BY <1>3, <2>1 DEF Unverify, FreeVerification, Verification
    <3>2. Execution(t, k) \in {"RELEASED", "UNRESOLVED"}
      BY <1>3, <2>1 DEF PairOK
    <3>3. QED
      BY <1>2, <1>4, <2>1, <3>1, <3>2, ReleaseHere
  <2>2. CASE Verification(t, k) # "RESERVED"
    <3>1. UNCHANGED tables
      BY <1>3, <2>2 DEF Unverify, FreeVerification, Verification
    <3>2. QED
      BY <1>4, <2>2, <3>1, TablesStay DEF Execution, Verification
  <2>3. QED
    BY <2>1, <2>2
<1>6. "save" \in ProcStates
  BY DEF ProcStates, InPass, OnTask
<1>7. /\ proc' \in ProcRow /\ SameRow /\ proc'.pc = "save" /\ proc'.status = proc.status
  BY <1>3, <1>4, <1>6, GotoRow
<1>8. Says(t, k, proc.status)'
  <2>1. Verification(t, k) \in {"NONE", "RESERVED", "RELEASED", "DISPATCHED", "UNRESOLVED", "SETTLED"}
    BY StateType DEF EInv, Verification
  <2>2. QED
    BY <1>3, <1>5, <1>7, <2>1 DEF Says, PairOK, Begun
<1>9. TaskOK(t, k)'
  BY <1>3, <1>7, <1>8 DEF TaskOK, ConclusionOK, At, OnHold
<1>10. ProcOK'
  BY <1>1, <1>2, <1>3, <1>4, <1>5, <1>7, <1>9, TaskKept DEF SamePlace, OnTask, OnHold, FirstPass, SecondPass
<1>11. QED
  BY <1>5, <1>10 DEF EInv

(* The execution of the current task is given back, unless it was. *)
LEMMA ReleaseOnceHere ==
  ASSUME EInv, NEW t \in Tasks, NEW k \in Ticks, IsTask(t, k), ReleaseOnce(Hold("execution")),
         UNCHANGED <<receipts, approvals, checkpoint, traces>>
  PROVE  M!IInv' /\ World' /\ DOMAIN holds \subseteq DOMAIN holds' /\ Execution(t, k)' = "RELEASED"
<1>1. Hold("execution") = <<t, k, "execution">>
  BY DEF IsTask, Hold
<1>2. CASE Release(<<t, k, "execution">>) /\ UNCHANGED market
  BY <1>2, ReleaseHere
<1>3. CASE Execution(t, k) = "RELEASED" /\ UNCHANGED tables
  BY <1>3, TablesStay DEF Execution
<1>4. QED
  BY <1>1, <1>2, <1>3 DEF ReleaseOnce, Execution

LEMMA PassOverInductive ==
  ASSUME EInv, PassOver
  PROVE  EInv'
<1>1. proc.pc = "passover" /\ proc.pc \in OnTask
  BY DEF PassOver, At, OnTask
<1>2. PICK t \in Tasks, k \in Ticks : IsTask(t, k)
  BY <1>1, TaskFacts
<1>3. proc.executing /\ k # Deadline /\ proc \in ProcRow
  BY <1>1, <1>2 DEF IsTask, SecondPass
<1>4. UNCHANGED <<receipts, approvals, checkpoint, traces>> /\ Conclude("WAITING") /\ "WAITING" \in Statuses
  BY DEF PassOver, Statuses
<1>5. M!IInv' /\ World' /\ DOMAIN holds \subseteq DOMAIN holds' /\ Execution(t, k)' = "RELEASED"
  BY <1>2, <1>4, ReleaseOnceHere DEF PassOver
<1>6. /\ proc' \in ProcRow /\ SameRow /\ proc'.pc = "unverify" /\ proc'.status = "WAITING"
  BY <1>3, <1>4, ConcludeRow
<1>7. TaskOK(t, k)'
  BY <1>3, <1>5, <1>6 DEF TaskOK, ConclusionOK, At, OnHold
<1>8. ProcOK'
  BY <1>1, <1>2, <1>4, <1>5, <1>6, <1>7, TaskKept DEF SamePlace, OnTask, OnHold, FirstPass, SecondPass
<1>9. QED
  BY <1>5, <1>8 DEF EInv

LEMMA GiveBackInductive ==
  ASSUME EInv, GiveBack
  PROVE  EInv'
<1>1. proc.pc = "giveback" /\ proc.pc \in OnTask
  BY DEF GiveBack, At, OnTask
<1>2. PICK t \in Tasks, k \in Ticks : IsTask(t, k)
  BY <1>1, TaskFacts
<1>3. proc.status = "DENIED" /\ (proc.attempts = {} => Execution(t, k) = "NONE") /\ proc \in ProcRow
  BY <1>1, <1>2 DEF IsTask, TaskOK, ConclusionOK, At
<1>4. UNCHANGED <<receipts, approvals, checkpoint, traces>> /\ Goto("unverify") /\ "unverify" \in ProcStates /\ "DENIED" \in Statuses
  BY DEF GiveBack, ProcStates, InPass, OnTask, Statuses
<1>5. /\ M!IInv' /\ World' /\ DOMAIN holds \subseteq DOMAIN holds'
      /\ Execution(t, k)' \in {"NONE", "RELEASED"}
  <2>1. CASE proc.attempts # {}
    BY <1>2, <1>4, <2>1, ReleaseOnceHere DEF GiveBack
  <2>2. CASE proc.attempts = {}
    BY <1>3, <1>4, <2>2, TablesStay DEF GiveBack, Execution
  <2>3. QED
    BY <2>1, <2>2
<1>6. /\ proc' \in ProcRow /\ SameRow /\ proc'.pc = "unverify" /\ proc'.status = "DENIED"
  BY <1>3, <1>4, GotoRow
<1>7. TaskOK(t, k)'
  BY <1>3, <1>5, <1>6 DEF TaskOK, ConclusionOK, At, OnHold
<1>8. ProcOK'
  BY <1>1, <1>2, <1>4, <1>5, <1>6, <1>7, TaskKept DEF SamePlace, OnTask, OnHold, FirstPass, SecondPass
<1>9. QED
  BY <1>5, <1>8 DEF EInv

(* What follows an approval's request or review. *)
LEMMA ApprovalKeeps ==
  ASSUME EInv, proc.pc \in {"approval", "review"}, NEW t \in Tasks, NEW k \in Ticks, IsTask(t, k),
         UNCHANGED <<tables, receipts, checkpoint, traces>>, ApprovalsKept, ApprovalsOK', <<t, k>> \in DOMAIN approvals',
         NEW kind \in {"mandatory_review", "execution"}, Attempt(kind),
         kind = "mandatory_review" => approvals'[<<t, k>>] = "PENDING"
  PROVE  EInv'
<1>1. /\ t \in Mandatory /\ Chosen(t) \in Resources /\ Planning(t, k) # "NONE" /\ proc.attempts = {}
      /\ ~ proc.executing /\ proc \in ProcRow /\ proc.status \in Statuses /\ (proc.status # "WAITING" \/ k # Deadline)
      /\ proc.pc \in OnTask
  BY DEF IsTask, TaskOK, FirstPass, OnTask
<1>2. UNCHANGED <<kernel, holds, bids>>
  BY DEF tables, kernel
<1>3. M!IInv' /\ \A h : State(h)' = State(h)
  BY <1>2, KernelStutters DEF EInv, State
<1>4. World'
  <2>1. ReceiptsOK' /\ BidsOK'
    BY <1>2, <1>3, BidsStay DEF EInv, World, ReceiptsOK
  <2>2. QED
    BY <1>2, <2>1, WorldGrows DEF EInv
<1>5. Planning(t, k)' = Planning(t, k) /\ Chosen(t)' = Chosen(t)
  BY <1>3 DEF Planning, Chosen
<1>6. /\ proc' \in ProcRow /\ SameRow /\ proc'.pc = "prepare" /\ proc'.kind = kind /\ proc'.status = proc.status
      /\ proc'.attempts = {}
  BY <1>1, AttemptRow, KindNames
<1>7. HoldOK(t, k, kind)'
  BY <1>1, <1>5, <1>6, KindNames DEF HoldOK, KindOK, At, SameRow
<1>8. TaskOK(t, k)'
  BY <1>1, <1>6, <1>7, ToHold, KindNames DEF OnHold
<1>9. ProcOK'
  BY <1>1, <1>2, <1>6, <1>8, TaskKept DEF SamePlace, OnTask, OnHold, FirstPass, SecondPass
<1>10. QED
  BY <1>3, <1>4, <1>9 DEF EInv

LEMMA AskApprovalInductive ==
  ASSUME EInv, AskApproval
  PROVE  EInv'
<1>1. proc.pc = "approval" /\ proc.pc \in OnTask
  BY DEF AskApproval, At, OnTask
<1>2. PICK t \in Tasks, k \in Ticks : IsTask(t, k)
  BY <1>1, TaskFacts
<1> DEFINE state == IF <<t, k>> \in DOMAIN approvals THEN approvals[<<t, k>>] ELSE "PENDING"
<1>3. /\ UNCHANGED <<tables, receipts, checkpoint, traces>>
      /\ approvals' = Insert(approvals, <<t, k>>, state)
      /\ (state = "PENDING" /\ Attempt("mandatory_review")) \/ Attempt("execution")
  BY <1>2 DEF IsTask, AskApproval
<1>4. /\ DOMAIN approvals' = DOMAIN approvals \cup {<<t, k>>} /\ approvals'[<<t, k>>] = state
      /\ \A p \in DOMAIN approvals : approvals'[p] = approvals[p]
  BY <1>3 DEF Insert
<1>5. ApprovalsKept /\ ApprovalsOK'
  BY <1>4 DEF ApprovalsKept, ApprovalsOK, EInv, World
<1>6. PICK kind \in {"mandatory_review", "execution"} : Attempt(kind) /\ (kind = "mandatory_review" => state = "PENDING")
  BY <1>3
<1>7. QED
  BY <1>1, <1>2, <1>3, <1>4, <1>5, <1>6, ApprovalKeeps

LEMMA ReviewApprovalInductive ==
  ASSUME EInv, ReviewApproval
  PROVE  EInv'
<1>1. proc.pc = "review" /\ proc.pc \in OnTask
  BY DEF ReviewApproval, At, OnTask
<1>2. PICK t \in Tasks, k \in Ticks : IsTask(t, k)
  BY <1>1, TaskFacts
<1>3. /\ UNCHANGED <<tables, receipts, checkpoint, traces>> /\ Attempt("execution")
      /\ approvals' = [approvals EXCEPT ![<<t, k>>] = "APPROVED"]
      /\ <<t, k>> \in DOMAIN approvals
  BY <1>1, <1>2 DEF IsTask, TaskOK, At, ReviewApproval
<1>4. ApprovalsKept /\ ApprovalsOK'
  BY <1>3 DEF ApprovalsKept, ApprovalsOK, EInv, World
<1>5. QED
  BY <1>1, <1>2, <1>3, <1>4, ApprovalKeeps

(* The task is denied, or was retried for the last time. *)
LEMMA RaiseKeeps ==
  ASSUME EInv, proc.pc \in {"prepare", "bid"}, NEW t \in Tasks, NEW k \in Ticks, IsTask(t, k), Raise,
         UNCHANGED <<tables, receipts, approvals, checkpoint, traces>>,
         proc.executing => proc.status = "UNRESOLVED" /\ Execution(t, k) = "UNRESOLVED",
         ~ proc.executing => (proc.attempts = {} => Execution(t, k) = "NONE")
  PROVE  EInv'
<1>1. M!IInv' /\ World' /\ UNCHANGED holds /\ \A h : State(h)' = State(h)
  BY TablesStay
<1>2. Execution(t, k)' = Execution(t, k)
  BY <1>1 DEF Execution
<1>3. proc \in ProcRow /\ proc.pc \in OnTask /\ proc.status \in Statuses /\ proc.executing \in BOOLEAN
  BY ProcFacts DEF IsTask, OnTask, OnHold, EInv
<1>4. {"unverify", "giveback"} \subseteq ProcStates /\ "DENIED" \in Statuses
  BY DEF ProcStates, InPass, OnTask, Statuses
<1>5. CASE proc.executing
  <2>1. Goto("unverify")
    BY <1>5 DEF Raise
  <2>2. /\ proc' \in ProcRow /\ SameRow /\ proc'.pc = "unverify" /\ proc'.status = proc.status
    BY <1>3, <1>4, <2>1, GotoRow
  <2>3. TaskOK(t, k)'
    BY <1>2, <1>5, <2>2 DEF TaskOK, ConclusionOK, At, OnHold
  <2>4. ProcOK'
    BY <1>1, <1>3, <2>2, <2>3, TaskKept DEF SamePlace, OnTask, OnHold, FirstPass, SecondPass
  <2>5. QED
    BY <1>1, <2>4 DEF EInv
<1>6. CASE ~ proc.executing
  <2>1. proc' = [proc EXCEPT !.pc = "giveback", !.status = "DENIED"]
    BY <1>6 DEF Raise
  <2>2. /\ proc' \in ProcRow /\ SameRow /\ proc'.pc = "giveback" /\ proc'.status = "DENIED"
        /\ proc'.attempts = proc.attempts
    BY <1>3, <1>4, <2>1 DEF ProcRow, SameRow
  <2>3. TaskOK(t, k)'
    BY <1>2, <1>6, <2>2 DEF TaskOK, ConclusionOK, At, OnHold
  <2>4. ProcOK'
    BY <1>1, <1>3, <1>4, <1>6, <2>2, <2>3, TaskKept DEF SamePlace, OnTask, OnHold, FirstPass, SecondPass
  <2>5. QED
    BY <1>1, <2>4 DEF EInv
<1>7. QED
  BY <1>3, <1>5, <1>6

(* The task is a candidate, and the next of the plan is looked at. *)
LEMMA CandidateKeeps ==
  ASSUME EInv, proc.pc \in OnTask, NEW t \in Tasks, NEW k \in Ticks, IsTask(t, k), ~ proc.executing, Candidate,
         UNCHANGED <<checkpoint, traces>>, DOMAIN holds \subseteq DOMAIN holds', Chosen(t) \in Resources,
         <<t, k, "verification">> \in DOMAIN holds'
  PROVE  ProcOK'
<1>1. /\ t = item.task /\ k = now /\ t \in PlanTasks /\ ~ Taken(t) /\ proc \in ProcRow
  BY DEF IsTask
<1>2. /\ PassOK /\ CurrentOK /\ plan # None /\ CheckpointOK
  BY HereFacts DEF EInv, World
<1>3. /\ proc.i \in DOMAIN plan /\ plan[proc.i].task = t /\ plan \in Seq(PlanRow) /\ DOMAIN plan \subseteq Nat
  BY <1>1, <1>2, HereFacts, PlanFacts DEF IsTask
<1>4. /\ proc.i \in Nat /\ proc.cands \in Seq(Tasks) /\ DOMAIN proc.cands = 1 .. Len(proc.cands) /\ Len(proc.cands) \in Nat
  BY ProcFacts DEF EInv
<1>5. proc' = [proc EXCEPT !.pc = "item", !.i = @ + 1, !.cands = Append(@, t)]
  BY <1>1 DEF Candidate
<1>6. proc.i + 1 \in Nat /\ Append(proc.cands, t) \in Seq(Tasks) /\ "item" \in ProcStates
  BY <1>4 DEF ProcStates, InPass, FirstPass
<1>7. /\ proc' \in ProcRow /\ proc'.pc = "item" /\ proc'.i = proc.i + 1 /\ proc'.cands = Append(proc.cands, t)
      /\ proc'.caps = proc.caps /\ proc'.executing = proc.executing
  BY <1>1, <1>5, <1>6 DEF ProcRow
<1>n. PICK n \in Nat : n = Len(proc.cands) + 1
  BY <1>4
<1>8. /\ DOMAIN proc'.cands = 1 .. n /\ proc'.cands[n] = t
      /\ \A m \in 1 .. n : m # n => m \in DOMAIN proc.cands /\ proc'.cands[m] = proc.cands[m]
      /\ n \in DOMAIN proc'.cands /\ DOMAIN proc.cands \subseteq DOMAIN proc'.cands
      /\ \A m \in DOMAIN proc.cands : m # n
  BY <1>4, <1>7, <1>n
<1>9. now' = now /\ plan' = plan /\ PlanTasks' = PlanTasks /\ (\A u : Chosen(u)' = Chosen(u) /\ Taken(u)' = Taken(u))
  BY <1>2, CheckpointStays
<1>10. \A m : Ahead(m) /\ Ahead(m)'
  BY <1>7 DEF Ahead
<1>11. ASSUME NEW m \in DOMAIN proc.cands, NEW u \in Tasks, proc.cands[m] = u
       PROVE  /\ CandidateOK(m, u)' /\ u # t
  <2>1. CandidateOK(m, u)
    BY <1>2, <1>11 DEF PassOK, CandidatesOK
  <2>2. PICK j \in DOMAIN plan : j < proc.i /\ plan[j].task = u
    BY <2>1 DEF CandidateOK
  <2>3. j < proc.i + 1
    BY <1>3, <1>4, <2>2
  <2>4. u # t
    BY <1>2, <1>3, <1>4, <2>2 DEF CheckpointOK
  <2>5. CandidateOK(m, u)'
    BY <1>7, <1>9, <1>10, <2>1, <2>2, <2>3 DEF CandidateOK
  <2>6. QED
    BY <2>4, <2>5
<1>12. CandidateOK(n, t)'
  <2>1. proc.i < proc.i + 1
    BY <1>4
  <2>2. <<t, now, "verification">> \in DOMAIN holds'
    BY <1>1
  <2>3. QED
    BY <1>1, <1>3, <1>7, <1>9, <2>1, <2>2 DEF CandidateOK
<1>13. CandidatesOK'
  <2>1. \A m \in DOMAIN proc'.cands, u \in Tasks : proc'.cands[m] = u => CandidateOK(m, u)'
    <3>1. SUFFICES ASSUME NEW m \in DOMAIN proc'.cands, NEW u \in Tasks, proc'.cands[m] = u
                   PROVE  CandidateOK(m, u)'
      OBVIOUS
    <3>2. CASE m = n
      BY <1>8, <1>12, <3>1, <3>2
    <3>3. CASE m # n
      BY <1>8, <1>11, <3>1, <3>3
    <3>4. QED
      BY <3>2, <3>3
  <2>2. \A m, l \in DOMAIN proc'.cands : proc'.cands[m] = proc'.cands[l] => m = l
    <3>1. SUFFICES ASSUME NEW m \in DOMAIN proc'.cands, NEW l \in DOMAIN proc'.cands, proc'.cands[m] = proc'.cands[l]
                   PROVE  m = l
      OBVIOUS
    <3>2. \A q \in DOMAIN proc.cands : proc.cands[q] # t
      BY <1>11
    <3>3. QED
      BY <1>2, <1>8, <3>1, <3>2 DEF PassOK, CandidatesOK
  <2>3. ASSUME NEW j \in DOMAIN plan, NEW u \in Tasks, plan[j].task = u, j < proc.i + 1
        PROVE  Taken(u) \/ \E m \in DOMAIN proc'.cands : proc'.cands[m] = u
    <3>1. CASE j = proc.i
      BY <1>3, <1>8, <2>3, <3>1
    <3>2. CASE j < proc.i
      <4>1. Taken(u) \/ \E m \in DOMAIN proc.cands : proc.cands[m] = u
        BY <1>2, <2>3, <3>2 DEF PassOK, CandidatesOK
      <4>2. QED
        BY <1>8, <4>1
    <3>3. QED
      BY <1>3, <1>4, <2>3, <3>1, <3>2
  <2>4. QED
    BY <1>7, <1>9, <1>10, <2>1, <2>2, <2>3 DEF CandidatesOK
<1>14. PassOK'
  BY <1>2, <1>4, <1>7, <1>9, <1>13 DEF PassOK, At, SecondPass
<1>16. QED
  BY <1>7, <1>14 DEF ProcOK, At, OnTask, OnHold

LEMMA PlaceBidInductive ==
  ASSUME EInv, PlaceBid
  PROVE  EInv'
<1>1. proc.pc = "bid" /\ proc.pc \in OnTask
  BY DEF PlaceBid, At, OnTask
<1>2. PICK t \in Tasks, k \in Ticks : IsTask(t, k)
  BY <1>1, TaskFacts
<1>3. /\ ~ proc.executing /\ Chosen(t) \in Resources /\ Verification(t, k) # "NONE" /\ proc.attempts # {}
      /\ t = Task /\ k = now /\ Hold("execution") = <<t, k, "execution">> /\ plan # None /\ item = plan[proc.i]
  BY <1>1, <1>2 DEF IsTask, TaskOK, At, FirstPass, Hold, item, plan
<1>4. UNCHANGED <<receipts, approvals, checkpoint, traces>>
  BY DEF PlaceBid
<1>5. <<t, k, "verification">> \in DOMAIN holds
  BY <1>3, StateType DEF EInv, Verification
<1>6. CASE Candidate /\ UNCHANGED tables
  <2>1. M!IInv' /\ World' /\ UNCHANGED holds
    BY <1>4, <1>6, TablesStay
  <2>2. ProcOK'
    BY <1>1, <1>2, <1>3, <1>4, <1>5, <1>6, <2>1, CandidateKeeps
  <2>3. QED
    BY <2>1, <2>2 DEF EInv
<1>7. CASE Candidate /\ Bid(BidOf(Task, now), now, Agent(Task), item.price, Hold("execution"), now)
  <2>1. UNCHANGED <<kernel, holds>>
    BY <1>7 DEF Bid, kernel
  <2>2. BidsOK'
    <3>1. PICK b, price : bids' = Insert(bids, b, [auction |-> k, agent |-> Agent(t), price |-> price,
                                                   hold |-> <<t, k, "execution">>, state |-> "ESCROWED"])
                          /\ price \in Prices \cup {None}
      <4>1. item.price \in Prices \cup {None}
        <5>1. proc.i \in DOMAIN plan
          BY <1>1, <1>3, HereFacts
        <5>2. plan[proc.i] \in PlanRow
          BY <1>3, <5>1, PlanFacts DEF EInv, World
        <5>3. QED
          BY <1>3, <5>2 DEF PlanRow
      <4>2. QED
        BY <1>3, <1>7, <4>1 DEF Bid
    <3>2. [auction |-> k, agent |-> Agent(t), price |-> price, hold |-> <<t, k, "execution">>, state |-> "ESCROWED"]
            \in [auction: Ticks, agent: Agents, price: Prices \cup {None},
                 hold: Tasks \X Ticks \X {"execution"}, state: BidStates]
      BY <3>1, TasksType DEF BidStates
    <3>3. QED
      BY <3>1, <3>2 DEF EInv, World, BidsOK, Insert
  <2>3. M!IInv' /\ World'
    BY <1>4, <2>1, <2>2, KernelStutters, WorldStays DEF EInv
  <2>4. ProcOK'
    BY <1>1, <1>2, <1>3, <1>4, <1>5, <1>7, <2>1, CandidateKeeps
  <2>5. QED
    BY <2>3, <2>4 DEF EInv
<1>8. CASE Raise /\ UNCHANGED tables
  BY <1>1, <1>2, <1>3, <1>4, <1>8, RaiseKeeps
<1>9. QED
  BY <1>6, <1>7, <1>8 DEF PlaceBid

-----------------------------------------------------------------------------
(* prepare *)

(* Once the hold exists, the step goes on. *)
LEMMA PreparedKeeps ==
  ASSUME EInv, World', M!IInv', proc.pc = "prepare",
         NEW t \in Tasks, NEW k \in Ticks, NEW kind \in Kinds, IsHold(t, k, kind), IsTask(t, k),
         Prepared(kind), UNCHANGED <<checkpoint, traces, approvals>>, DOMAIN holds \subseteq DOMAIN holds',
         \A l \in Kinds \ {kind} : State(<<t, k, l>>)' = State(<<t, k, l>>),
         State(<<t, k, kind>>)' # "NONE"
  PROVE  ProcOK'
<1>1. /\ proc.pc \in OnTask /\ At("prepare") /\ proc \in ProcRow /\ proc.executing \in BOOLEAN
      /\ proc.attempts \in SUBSET Holds
  BY ProcFacts DEF EInv, ProcOK, OnTask, OnHold, At
<1>2. /\ HoldOK(t, k, kind) /\ proc.status \in Statuses /\ (proc.status # "WAITING" \/ k # Deadline)
      /\ kind = proc.kind /\ Hold(kind) = <<t, k, kind>> /\ (~ proc.executing => item.task = t)
  BY DEF IsHold
<1>3. /\ KindOK(t, k, kind) /\ (kind \in {"execution", "verification"} => ~ proc.executing)
      /\ kind = "mandatory_review" => approvals[<<t, k>>] = "PENDING"
  BY <1>1, <1>2 DEF HoldOK
<1>4. /\ kind # "execution" => Execution(t, k)' = Execution(t, k)
      /\ kind # "verification" => Verification(t, k)' = Verification(t, k)
      /\ Planning(t, k) # "NONE" => Planning(t, k)' # "NONE"
  BY KindNames DEF Execution, Verification, Planning
<1>5. now' = now /\ Chosen(t)' = Chosen(t)
  BY DEF now, Chosen
<1>6. {"prepare", "claim", "item"} \subseteq ProcStates /\ <<t, k, kind>> \in Holds
  BY DEF ProcStates, InPass, OnTask, OnHold, FirstPass, Holds
<1>7. ASSUME SameRow, proc' \in ProcRow, proc'.pc \in {"prepare", "claim"}, proc'.status = proc.status,
             NEW next \in Kinds, proc'.kind = next, HoldOK(t, k, next)'
      PROVE  ProcOK'
  <2>1. TaskOK(t, k)'
    BY <1>2, <1>7, ToHold DEF OnHold
  <2>2. QED
    BY <1>1, <1>2, <1>7, <2>1, TaskKept DEF SamePlace, OnTask, OnHold, FirstPass, SecondPass
<1>8. CASE kind = "execution"
  <2>1. proc' = [proc EXCEPT !.kind = "verification", !.attempts = @ \cup {<<t, k, kind>>}]
    BY <1>2, <1>8, KindNames DEF Prepared
  <2>2. /\ proc' \in ProcRow /\ SameRow /\ proc'.pc = "prepare" /\ proc'.kind = "verification"
        /\ proc'.status = proc.status /\ proc'.attempts = proc.attempts \cup {<<t, k, kind>>}
    BY <1>1, <1>6, <2>1, KindNames DEF ProcRow, SameRow, At
  <2>3. Execution(t, k)' # "NONE" /\ ~ proc.executing
    BY <1>3, <1>8 DEF Execution
  <2>4. HoldOK(t, k, "verification")'
    BY <1>3, <1>4, <1>5, <1>8, <2>2, <2>3, KindNames DEF HoldOK, KindOK, At, SameRow
  <2>5. QED
    BY <1>7, <2>2, <2>4, KindNames
<1>9. CASE kind = "verification"
  <2>1. ~ proc.executing /\ Chosen(t) \in Resources /\ proc.attempts # {} /\ Verification(t, k)' # "NONE"
        /\ Planning(t, k) # "NONE"
    BY <1>3, <1>9 DEF KindOK, Verification
  <2>2. Attempt("bidding") \/ Candidate
    BY <1>9, KindNames DEF Prepared
  <2>3. CASE Attempt("bidding")
    <3>1. /\ proc' \in ProcRow /\ SameRow /\ proc'.pc = "prepare" /\ proc'.kind = "bidding"
          /\ proc'.status = proc.status /\ proc'.attempts = proc.attempts
      BY <1>1, <2>3, AttemptRow, KindNames
    <3>2. HoldOK(t, k, "bidding")'
      BY <1>4, <1>5, <2>1, <3>1, KindNames DEF HoldOK, KindOK, At, SameRow
    <3>3. QED
      BY <1>7, <3>1, <3>2, KindNames
  <2>4. CASE Candidate
    <3>1. <<t, k, "verification">> \in DOMAIN holds'
      BY <2>1 DEF Verification, State
    <3>2. QED
      BY <1>1, <2>1, <2>4, <3>1, CandidateKeeps
  <2>5. QED
    BY <2>2, <2>3, <2>4
<1>10. CASE kind \in Retries
  <2>1. proc' = [proc EXCEPT !.pc = "claim", !.attempts = @ \cup {<<t, k, kind>>}]
    BY <1>2, <1>10, KindNames DEF Prepared
  <2>2. /\ proc' \in ProcRow /\ SameRow /\ proc'.pc = "claim" /\ proc'.kind = kind
        /\ proc'.status = proc.status
    BY <1>1, <1>2, <1>6, <2>1 DEF ProcRow, SameRow
  <2>3. HoldOK(t, k, kind)'
    BY <1>3, <1>4, <1>5, <1>10, <2>2, KindNames DEF HoldOK, KindOK, At, SameRow
  <2>4. QED
    BY <1>7, <2>2, <2>3
<1>11. CASE kind \in {"planning", "mandatory_review", "bidding"}
  <2>1. Goto("claim")
    BY <1>11, KindNames DEF Prepared
  <2>2. /\ proc' \in ProcRow /\ SameRow /\ proc'.pc = "claim" /\ proc'.kind = kind
        /\ proc'.status = proc.status /\ proc'.attempts = proc.attempts
    BY <1>1, <1>2, <1>6, <2>1, GotoRow
  <2>3. HoldOK(t, k, kind)'
    BY <1>3, <1>4, <1>5, <1>11, <2>2, KindNames DEF HoldOK, KindOK, At, SameRow
  <2>4. QED
    BY <1>7, <2>2, <2>3
<1>12. QED
  BY <1>8, <1>9, <1>10, <1>11 DEF Kinds

LEMMA PrepareInductive ==
  ASSUME EInv, Prepare
  PROVE  EInv'
<1>1. proc.pc = "prepare" /\ At("prepare") /\ proc.pc \in OnHold /\ proc.pc \in OnTask
  BY DEF Prepare, At, OnHold, OnTask
<1>2. PICK t \in Tasks, k \in Ticks, kind \in Kinds : IsHold(t, k, kind) /\ IsTask(t, k)
  <2>1. PICK t \in Tasks, k \in Ticks, kind \in Kinds : IsHold(t, k, kind)
    BY <1>1, HoldFacts
  <2>2. PICK u \in Tasks, j \in Ticks : IsTask(u, j)
    BY <1>1, TaskFacts
  <2>3. u = t /\ j = k
    BY <2>1, <2>2 DEF IsHold, IsTask
  <2>4. QED
    BY <2>1, <2>2, <2>3
<1>3. /\ Hold(proc.kind) = <<t, k, kind>> /\ kind = proc.kind /\ t = Task /\ k = now
      /\ plan # None /\ t \in PlanTasks /\ ~ Taken(t) /\ (kind # "planning" => Chosen(t) \in Resources)
      /\ KindOK(t, k, kind) /\ PairOK(t, k) /\ (kind \in {"execution", "verification"} => ~ proc.executing)
      /\ kind = "mandatory_review" => approvals[<<t, k>>] = "PENDING"
  BY <1>1, <1>2 DEF IsHold, HoldOK
<1>4. UNCHANGED <<receipts, approvals, checkpoint, traces>>
  BY DEF Prepare
<1>5. Authorized(kind) => (kind = "execution" /\ t \in Mandatory => approvals[<<t, k>>] = "APPROVED")
  BY <1>3 DEF Authorized
<1>6. CASE <<t, k, kind>> \in DOMAIN holds /\ Prepared(kind) /\ UNCHANGED tables
  <2>1. M!IInv' /\ World' /\ UNCHANGED holds /\ \A h : State(h)' = State(h)
    BY <1>4, <1>6, TablesStay
  <2>2. State(<<t, k, kind>>)' # "NONE"
    BY <1>6, <2>1, StateType DEF EInv
  <2>3. ProcOK'
    BY <1>1, <1>2, <1>4, <1>6, <2>1, <2>2, PreparedKeeps
  <2>4. QED
    BY <2>1, <2>3 DEF EInv
<1>7. CASE /\ Authorized(kind) /\ Prepared(kind) /\ UNCHANGED market
           /\ Reserve(Agent(t), <<t, k, kind>>, COSTS[ResourceOf(kind)], ResourceOf(kind), ExpiryOf(kind))
  <2>1. PICK r \in DOMAIN COSTS, expires \in (0 .. Deadline + 2) \cup {None} :
          Reserve(Agent(t), <<t, k, kind>>, COSTS[r], r, expires)
    <3>1. ResourceOf(kind) \in DOMAIN COSTS
      <4>1. kind \in Retries \/ kind = "execution" => ResourceOf(kind) \in Resources
        BY <1>3, KindNames DEF ResourceOf
      <4>2. kind \notin Retries \/ kind = "execution" => ResourceOf(kind) \in {Chosen(Task), kind}
        BY DEF ResourceOf
      <4>3. kind \notin Retries /\ kind # "execution" => ResourceOf(kind) = kind
        BY DEF ResourceOf
      <4>4. kind \in Retries \/ kind \in {"planning", "bidding", "mandatory_review", "execution", "verification"}
        BY DEF Kinds
      <4>5. QED
        BY <4>1, <4>3, <4>4, CostAmounts DEF Resources
    <3>2. ExpiryOf(kind) \in (0 .. Deadline + 2) \cup {None}
      BY <1>3, TasksType DEF ExpiryOf, Ticks
    <3>3. QED
      BY <1>7, <3>1, <3>2
  <2>2. M!IInv' /\ State(<<t, k, kind>>) = "NONE" /\ Moves(t, k, kind, "RESERVED")
    BY <2>1, ReserveMoves DEF EInv
  <2>3. /\ State(<<t, k, kind>>)' = "RESERVED" /\ \A l \in Kinds \ {kind} : State(<<t, k, l>>)' = State(<<t, k, l>>)
        /\ Execution(t, k)' = IF kind = "execution" THEN "RESERVED" ELSE Execution(t, k)
        /\ Verification(t, k)' = IF kind = "verification" THEN "RESERVED" ELSE Verification(t, k)
        /\ Planning(t, k)' = IF kind = "planning" THEN "RESERVED" ELSE Planning(t, k)
        /\ DOMAIN holds \subseteq DOMAIN holds'
    BY <2>2, MovesHere DEF EInv
  <2>4. PairOK(t, k)'
    <3>1. now' = now /\ k \in Nat /\ ~ (k < now')
      BY <1>3, <1>4, TasksType DEF now, Ticks
    <3>2. /\ kind = "execution" => Execution(t, k) = "NONE" /\ Planning(t, k) # "NONE"
          /\ kind = "verification" => Verification(t, k) = "NONE" /\ Execution(t, k) # "NONE"
      BY <1>3, <2>2 DEF Execution, Verification, KindOK
    <3>3. kind = "execution" /\ t \in Mandatory => <<t, k>> \in DOMAIN approvals /\ approvals[<<t, k>>] = "APPROVED"
      BY <1>3, <1>5, <1>7 DEF KindOK
    <3>4. QED
      BY <1>3, <1>4, <2>3, <3>1, <3>2, <3>3 DEF PairOK, Begun
  <2>5. World'
    <3>1. <<t, k, kind>> \notin receipts /\ UNCHANGED bids
      BY <1>7, <2>2 DEF EInv, World, ReceiptsOK, market
    <3>2. QED
      BY <1>3, <1>4, <2>2, <2>4, <3>1, WorldMoves DEF EInv
  <2>6. ProcOK'
    BY <1>1, <1>2, <1>4, <1>7, <2>2, <2>3, <2>5, PreparedKeeps
  <2>7. QED
    BY <2>2, <2>5, <2>6 DEF EInv
<1>8. CASE (~ Authorized(kind) \/ <<t, k, kind>> \notin DOMAIN holds) /\ Raise /\ UNCHANGED tables
  <2>1. proc.executing => proc.status = "UNRESOLVED" /\ Execution(t, k) = "UNRESOLVED"
    <3>1. proc.executing => kind \in Retries
      BY <1>3 DEF KindOK, Kinds
    <3>2. QED
      BY <1>3, <3>1 DEF KindOK
  <2>2. ~ proc.executing => (proc.attempts = {} => Execution(t, k) = "NONE")
    <3>1. SUFFICES ASSUME ~ proc.executing, proc.attempts = {}
                   PROVE  Execution(t, k) = "NONE"
      OBVIOUS
    <3>2. kind \in {"planning", "mandatory_review", "execution"}
      BY <1>3, <3>1 DEF KindOK, Kinds
    <3>3. CASE kind = "planning"
      <4>1. Authorized(kind)
        BY <3>3, KindNames DEF Authorized
      <4>2. Planning(t, k) = "NONE"
        BY <1>8, <3>3, <4>1 DEF Planning, State
      <4>3. QED
        BY <1>3, <4>2 DEF PairOK
    <3>4. CASE kind = "mandatory_review"
      BY <1>3, <3>4 DEF PairOK, KindOK
    <3>5. CASE kind = "execution"
      <4>1. CASE <<t, k, kind>> \notin DOMAIN holds
        BY <3>5, <4>1 DEF Execution, State
      <4>2. CASE ~ Authorized(kind)
        BY <1>3, <3>5, <4>2 DEF Authorized, PairOK
      <4>3. QED
        BY <1>8, <4>1, <4>2
    <3>6. QED
      BY <3>2, <3>3, <3>4, <3>5
  <2>3. QED
    BY <1>1, <1>2, <1>4, <1>8, <2>1, <2>2, RaiseKeeps
<1>9. QED
  BY <1>3, <1>6, <1>7, <1>8 DEF Prepare

-----------------------------------------------------------------------------
(* The passes *)

LEMMA PassFacts ==
  ASSUME EInv, proc.pc \in InPass
  PROVE  /\ PassOK /\ CandidatesOK /\ plan # None /\ CheckpointOK /\ proc \in ProcRow
         /\ plan \in Seq(PlanRow) /\ DOMAIN plan = 1 .. Len(plan) /\ Len(plan) \in Nat
         /\ \A j \in DOMAIN plan : plan[j].task \in Tasks /\ plan[j].task \in PlanTasks
         /\ proc.i \in Nat /\ proc.i >= 1 /\ proc.executing \in BOOLEAN
         /\ DOMAIN proc.cands = 1 .. Len(proc.cands) /\ Len(proc.cands) \in Nat
         /\ \A m \in DOMAIN proc.cands : proc.cands[m] \in Tasks
         /\ now \in Ticks /\ proc.caps \in Counters
<1>1. PassOK /\ CheckpointOK
  BY DEF EInv, ProcOK, World
<1>2. CandidatesOK /\ plan # None /\ proc.i >= 1 /\ proc.caps \in Counters
  BY <1>1 DEF PassOK
<1>3. QED
  BY <1>1, <1>2, PlanFacts, ProcFacts DEF EInv, PlanTasks

LEMMA NextItemInductive ==
  ASSUME EInv, NextItem
  PROVE  EInv'
<1>1. proc.pc = "item" /\ proc.pc \in InPass /\ ~ proc.executing
  BY DEF NextItem, At, InPass, FirstPass, EInv, ProcOK, PassOK
<1>2. UNCHANGED <<tables, receipts, approvals, checkpoint, traces>>
  BY DEF NextItem
<1>3. M!IInv' /\ World' /\ UNCHANGED holds
  BY <1>2, TablesStay
<1>4. now' = now /\ plan' = plan /\ PlanTasks' = PlanTasks /\ (\A u : Chosen(u)' = Chosen(u) /\ Taken(u)' = Taken(u))
  BY <1>1, <1>2, PassFacts, CheckpointStays
<1>5. PassOK /\ CandidatesOK /\ proc \in ProcRow /\ proc.i \in Nat /\ proc.i >= 1 /\ plan # None
  BY <1>1, PassFacts
<1>6. CASE proc.i > Len(plan)
  <2>1. Goto("clear") /\ "clear" \in ProcStates
    BY <1>6 DEF NextItem, Goto, plan, ProcStates, InPass, FirstPass
  <2>2. /\ proc' \in ProcRow /\ SameRow /\ proc'.pc = "clear"
    BY <1>5, <2>1, GotoRow
  <2>3. CandidatesOK'
    <3>1. \A m : Ahead(m)' = Ahead(m)
      BY <2>2 DEF Ahead, SameRow
    <3>2. \A m \in DOMAIN proc.cands, u \in Tasks : proc.cands[m] = u => CandidateOK(m, u)'
      BY <1>3, <1>4, <1>5, <2>2, <3>1 DEF CandidatesOK, CandidateOK, SameRow
    <3>3. QED
      BY <1>4, <1>5, <2>2, <3>1, <3>2 DEF CandidatesOK, SameRow
  <2>4. PassOK'
    BY <1>1, <1>4, <1>5, <1>6, <2>2, <2>3 DEF PassOK, At, SameRow, SecondPass
  <2>5. ProcOK'
    BY <2>2, <2>4 DEF ProcOK, At, OnTask, OnHold
  <2>6. QED
    BY <1>3, <2>5 DEF EInv
<1>7. CASE ~ (proc.i > Len(plan)) /\ Taken(item.task)
  <2>1. /\ proc' = [proc EXCEPT !.i = proc.i + 1] /\ proc.i \in DOMAIN plan /\ plan[proc.i] = item
    BY <1>1, <1>7, PassFacts DEF NextItem, plan, item
  <2>2. proc' \in ProcRow /\ proc'.pc = "item" /\ proc'.i = proc.i + 1 /\ proc'.cands = proc.cands
        /\ proc'.executing = proc.executing /\ proc'.caps = proc.caps
    BY <1>1, <1>5, <2>1 DEF ProcRow
  <2>3. CandidatesOK'
    <3>1. \A m : Ahead(m)' /\ Ahead(m)
      BY <1>1, <2>2 DEF Ahead
    <3>2. ASSUME NEW m \in DOMAIN proc.cands, NEW u \in Tasks, proc.cands[m] = u
          PROVE  CandidateOK(m, u)'
      <4>1. CandidateOK(m, u)
        BY <1>5, <3>2 DEF CandidatesOK
      <4>2. \A j \in DOMAIN plan : j < proc.i => j < proc.i + 1
        BY <1>1, PassFacts
      <4>3. QED
        BY <1>1, <1>3, <1>4, <2>2, <3>1, <4>1, <4>2 DEF CandidateOK
    <3>3. ASSUME NEW j \in DOMAIN plan, NEW u \in Tasks, plan[j].task = u, j < proc.i + 1
          PROVE  Taken(u) \/ \E m \in DOMAIN proc.cands : proc.cands[m] = u
      <4>1. j < proc.i \/ j = proc.i
        BY <1>1, <3>3, PassFacts
      <4>2. QED
        BY <1>5, <1>7, <2>1, <3>3, <4>1 DEF CandidatesOK
    <3>4. QED
      BY <1>1, <1>4, <1>5, <2>2, <3>1, <3>2, <3>3 DEF CandidatesOK
  <2>4. PassOK'
    BY <1>1, <1>4, <1>5, <2>2, <2>3 DEF PassOK, At, SecondPass
  <2>5. ProcOK'
    BY <2>2, <2>4 DEF ProcOK, At, OnTask, OnHold
  <2>6. QED
    BY <1>3, <2>5 DEF EInv
<1>8. CASE ~ (proc.i > Len(plan)) /\ ~ Taken(item.task)
  <2>1. /\ proc' = [proc EXCEPT !.pc = "prepare", !.kind = "planning", !.status = "PENDING", !.attempts = {}]
        /\ proc.i \in DOMAIN plan /\ plan[proc.i] = item
    BY <1>1, <1>8, PassFacts DEF NextItem, plan, item
  <2>2. "prepare" \in ProcStates /\ "PENDING" \in Statuses
    BY DEF ProcStates, InPass, OnTask, OnHold, Statuses
  <2>3. proc' \in ProcRow /\ proc'.pc = "prepare" /\ SameRow /\ proc'.kind = "planning" /\ proc'.status = "PENDING"
        /\ proc'.attempts = {}
    BY <1>5, <2>1, <2>2, KindNames DEF ProcRow, SameRow
  <2>4. PassOK'
    BY <1>2, <1>3, <1>5, <2>3, PassKept DEF SamePlace, OnTask, OnHold, FirstPass, SecondPass
  <2>5. CurrentOK'
    <3>1. ASSUME NEW t \in Tasks, NEW k \in Ticks
          PROVE  TaskOK(t, k)'
      <4>1. HoldOK(t, k, "planning")'
        BY <1>1, <2>3, KindNames DEF HoldOK, KindOK, At, SameRow
      <4>2. QED
        BY <2>3, <4>1, ToHold, KindNames DEF OnHold
    <3>2. proc'.i \in DOMAIN plan' /\ ~ Taken(Task)' /\ ~ proc'.executing
      <4>1. Task' = plan[proc.i].task
        BY <1>1, <1>2, <2>1, <2>3 DEF Task, item, SameRow
      <4>2. ~ Taken(Task)'
        BY <1>2, <1>8, <2>1, <4>1 DEF Taken, now
      <4>3. QED
        BY <1>1, <1>4, <2>1, <2>3, <4>2 DEF SameRow
    <3>3. QED
      BY <2>2, <2>3, <3>1, <3>2 DEF CurrentOK
  <2>6. ProcOK'
    BY <2>3, <2>4, <2>5 DEF ProcOK, At
  <2>7. QED
    BY <1>3, <2>6 DEF EInv
<1>9. QED
  BY <1>6, <1>7, <1>8

LEMMA ClearAuctionInductive ==
  ASSUME EInv, ClearAuction
  PROVE  EInv'
<1>1. proc.pc = "clear" /\ At("clear") /\ proc.pc \in InPass /\ ~ proc.executing
  BY DEF ClearAuction, At, InPass, FirstPass, EInv, ProcOK, PassOK
<1>2. UNCHANGED <<receipts, approvals, checkpoint, traces>>
  BY DEF ClearAuction
<1>3. M!IInv' /\ World' /\ DOMAIN holds' = DOMAIN holds
  <2>1. CASE UNCHANGED tables
    BY <1>2, <2>1, TablesStay
  <2>2. CASE Clear(now, now)
    <3>1. M!IInv' /\ GivenBack({"execution"}) /\ BidsOK' /\ DOMAIN holds' = DOMAIN holds
      BY <2>2, ClearGivesBack DEF EInv, World
    <3>2. QED
      BY <1>2, <3>1, WorldGivesBack DEF EInv
  <2>3. QED
    BY <2>1, <2>2 DEF ClearAuction
<1>4. now' = now /\ plan' = plan /\ PlanTasks' = PlanTasks /\ (\A u : Chosen(u)' = Chosen(u) /\ Taken(u)' = Taken(u))
  BY <1>1, <1>2, PassFacts, CheckpointStays
<1>5. PassOK /\ CandidatesOK /\ proc \in ProcRow /\ proc.i > Len(plan) /\ plan # None
  BY <1>1, PassFacts DEF PassOK
<1>6. /\ proc' \in ProcRow /\ proc'.pc = "candidate" /\ proc'.i = 1 /\ proc'.cands = proc.cands
      /\ proc'.executing = TRUE /\ proc'.caps = proc.caps
  <2>1. "candidate" \in ProcStates
    BY DEF ProcStates, InPass, SecondPass
  <2>2. QED
    BY <1>5, <2>1 DEF ClearAuction, ProcRow
<1>7. CandidatesOK'
  <2>1. \A m \in DOMAIN proc.cands : Ahead(m) /\ Ahead(m)'
    BY <1>1, <1>6, PassFacts DEF Ahead
  <2>2. \A m \in DOMAIN proc.cands, u \in Tasks : proc.cands[m] = u => CandidateOK(m, u)'
    BY <1>3, <1>4, <1>5, <1>6, <2>1 DEF CandidatesOK, CandidateOK
  <2>3. \A j \in DOMAIN plan : j < proc.i
    BY <1>1, <1>5, PassFacts
  <2>4. QED
    BY <1>4, <1>5, <1>6, <2>1, <2>2, <2>3 DEF CandidatesOK
<1>8. PassOK'
  BY <1>4, <1>5, <1>6, <1>7 DEF PassOK, At, FirstPass
<1>9. ProcOK'
  BY <1>6, <1>8 DEF ProcOK, At, OnTask, OnHold
<1>10. QED
  BY <1>3, <1>9 DEF EInv

LEMMA NextCandidateInductive ==
  ASSUME EInv, NextCandidate
  PROVE  EInv'
<1>1. proc.pc = "candidate" /\ proc.pc \in InPass /\ proc.executing
  BY DEF NextCandidate, At, InPass, SecondPass, EInv, ProcOK, PassOK
<1>2. UNCHANGED <<tables, receipts, approvals, checkpoint, traces>>
  BY DEF NextCandidate
<1>3. M!IInv' /\ World' /\ UNCHANGED holds /\ \A h : State(h)' = State(h)
  BY <1>2, TablesStay
<1>4. now' = now /\ plan' = plan /\ PlanTasks' = PlanTasks /\ (\A u : Chosen(u)' = Chosen(u) /\ Taken(u)' = Taken(u))
  BY <1>1, <1>2, PassFacts, CheckpointStays
<1>5. PassOK /\ CandidatesOK /\ proc \in ProcRow /\ proc.i \in Nat /\ proc.i >= 1 /\ plan # None /\ proc.caps \in Counters
  BY <1>1, PassFacts
<1>6. ASSUME proc' \in ProcRow, proc'.i = proc.i, proc'.cands = proc.cands, proc'.executing = proc.executing,
             proc'.caps \in Counters, proc'.pc \notin FirstPass, proc'.pc = "finish" => proc.i > Len(proc.cands)
      PROVE  PassOK'
  <2>1. \A m : Ahead(m)' = Ahead(m)
    BY <1>6 DEF Ahead
  <2>2. \A m \in DOMAIN proc.cands, u \in Tasks : proc.cands[m] = u => CandidateOK(m, u)'
    BY <1>3, <1>4, <1>5, <1>6, <2>1 DEF CandidatesOK, CandidateOK
  <2>3. CandidatesOK'
    BY <1>4, <1>5, <1>6, <2>1, <2>2 DEF CandidatesOK
  <2>4. proc'.pc # "clear"
    BY <1>6 DEF FirstPass
  <2>5. QED
    BY <1>1, <1>4, <1>5, <1>6, <2>3, <2>4 DEF PassOK, At
<1>7. CASE proc.i > Len(proc.cands)
  <2>1. Goto("finish") /\ "finish" \in ProcStates
    BY <1>7 DEF NextCandidate, Goto, ProcStates, InPass, SecondPass
  <2>2. /\ proc' \in ProcRow /\ SameRow /\ proc'.pc = "finish"
    BY <1>5, <2>1, GotoRow
  <2>3. PassOK'
    BY <1>5, <1>6, <1>7, <2>2 DEF SameRow, FirstPass
  <2>4. ProcOK'
    BY <2>2, <2>3 DEF ProcOK, At, OnTask, OnHold
  <2>5. QED
    BY <1>3, <2>4 DEF EInv
<1>8. CASE ~ (proc.i > Len(proc.cands))
  <2>1. proc.i \in DOMAIN proc.cands
    BY <1>1, <1>8, PassFacts
  <2>2. PICK t \in Tasks, k \in Ticks : t = proc.cands[proc.i] /\ k = now
    BY <1>1, <2>1, PassFacts
  <2>3. Task = t /\ Hold("execution") = <<t, k, "execution">> /\ <<t, k, "execution">> \in Holds
    BY <1>1, <2>2, KindNames DEF Task, Hold, Holds
  <2>4. CandidateOK(proc.i, t) /\ Ahead(proc.i)
    BY <1>5, <2>1, <2>2 DEF CandidatesOK, Ahead
  <2>5. /\ t \in PlanTasks /\ Chosen(t) \in Resources /\ ~ Taken(t) /\ <<t, k, "verification">> \in DOMAIN holds
    BY <2>2, <2>4 DEF CandidateOK
  <2>6. PICK pc \in {"claim", "passover"}, caps \in Counters :
          proc' = [proc EXCEPT !.pc = pc, !.kind = "execution", !.status = "PENDING",
                               !.attempts = {<<t, k, "execution">>}, !.caps = caps]
    <3>1. PICK caps : caps = [r \in DOMAIN proc.caps |->
                        IF r = Chosen(Task) /\ ~ Auctions(Task) /\ proc.caps[r] > 0 THEN proc.caps[r] - 1 ELSE proc.caps[r]]
      OBVIOUS
    <3>2. caps \in Counters
      BY <1>5, <3>1 DEF Counters
    <3>3. proc' = [proc EXCEPT !.pc = IF Allocated(Task) THEN "claim" ELSE "passover",
                     !.kind = "execution", !.status = "PENDING", !.attempts = {Hold("execution")}, !.caps = caps]
      BY <1>8, <3>1 DEF NextCandidate
    <3>4. QED
      BY <2>3, <3>2, <3>3
  <2>7. "PENDING" \in Statuses /\ {"claim", "passover"} \subseteq ProcStates /\ {"claim", "passover"} \subseteq OnTask
    BY DEF Statuses, ProcStates, InPass, OnTask, OnHold
  <2>8. /\ proc' \in ProcRow /\ proc'.pc = pc /\ proc'.kind = "execution" /\ proc'.status = "PENDING"
        /\ proc'.i = proc.i /\ proc'.cands = proc.cands /\ proc'.caps = caps /\ proc'.executing = proc.executing
    BY <1>5, <2>3, <2>6, <2>7, KindNames DEF ProcRow
  <2>9. PassOK'
    BY <1>6, <2>6, <2>8 DEF FirstPass
  <2>10. TaskOK(t, k)'
    <3>1. /\ Chosen(t)' \in Resources /\ Planning(t, k)' # "NONE" /\ Execution(t, k)' # "NONE"
          /\ t \in Mandatory => <<t, k>> \in DOMAIN approvals'
      <4>1. Verification(t, k) # "NONE"
        BY <2>5, StateType DEF EInv, Verification
      <4>2. PairOK(t, k)
        BY DEF EInv, World, PairsOK
      <4>3. Execution(t, k)' = Execution(t, k) /\ Planning(t, k)' = Planning(t, k)
        BY <1>3 DEF Execution, Planning
      <4>4. QED
        BY <1>2, <1>4, <2>5, <4>1, <4>2, <4>3 DEF PairOK
    <3>2. CASE pc = "claim"
      <4>1. HoldOK(t, k, "execution")'
        BY <1>1, <2>8, <3>1, <3>2, KindNames DEF HoldOK, KindOK, At, Execution
      <4>2. QED
        BY <2>8, <3>2, <4>1, ToHold, KindNames DEF OnHold
    <3>3. CASE pc = "passover"
      BY <2>8, <3>3 DEF TaskOK, ConclusionOK, At, OnHold
    <3>4. QED
      BY <3>2, <3>3
  <2>11. CurrentOK'
    <3>1. Task' = t
      BY <1>1, <2>2, <2>8 DEF Task
    <3>2. \A u \in Tasks, j \in Ticks : u = Task' /\ j = now' => TaskOK(u, j)'
      BY <1>4, <2>2, <2>10, <3>1
    <3>3. QED
      BY <1>1, <2>1, <2>7, <2>8, <3>2 DEF CurrentOK
  <2>12. ProcOK'
    BY <2>6, <2>8, <2>9, <2>11 DEF ProcOK, At
  <2>13. QED
    BY <1>3, <2>12 DEF EInv
<1>9. QED
  BY <1>7, <1>8

-----------------------------------------------------------------------------
(* The trace of a task, and the end of a tick *)

LEMMA SaveTraceInductive ==
  ASSUME EInv, SaveTrace
  PROVE  EInv'
<1>1. proc.pc = "save" /\ proc.pc \in OnTask /\ proc.pc \in InPass
  BY DEF SaveTrace, At, OnTask, InPass
<1>2. PICK t \in Tasks, k \in Ticks : IsTask(t, k)
  BY <1>1, TaskFacts
<1>3. /\ t = Task /\ k = now /\ t \in PlanTasks /\ ~ Taken(t) /\ Says(t, k, proc.status)
      /\ Chosen(t) \in Choosable /\ proc.status \in Statuses /\ (proc.status # "WAITING" \/ k # Deadline)
      /\ proc.attempts \in SUBSET Holds
  BY <1>1, <1>2, ProcFacts DEF IsTask, TaskOK, ConclusionOK, At, EInv
<1>4. /\ PassOK /\ CandidatesOK /\ plan # None /\ CheckpointOK /\ proc \in ProcRow
      /\ proc.i \in Nat /\ proc.i >= 1 /\ proc.executing \in BOOLEAN
      /\ DOMAIN proc.cands = 1 .. Len(proc.cands) /\ Len(proc.cands) \in Nat
      /\ DOMAIN plan = 1 .. Len(plan)
  BY <1>1, PassFacts
<1>5. /\ ~ proc.executing => proc.i \in DOMAIN plan /\ t = plan[proc.i].task
      /\ proc.executing => proc.i \in DOMAIN proc.cands /\ t = proc.cands[proc.i]
  BY <1>1, <1>3, HereFacts
<1>6. UNCHANGED <<kernel, holds, bids, receipts, approvals, checkpoint>>
  BY DEF SaveTrace, tables, kernel
<1>7. PICK row \in TraceRow : /\ traces' = Insert(traces, t, row) /\ row.tick = k /\ row.status = proc.status
  <2>1. [tick |-> k, status |-> proc.status, resource |-> Chosen(t), attempts |-> proc.attempts,
         bid |-> (proc.executing /\ Auctions(Task))] \in TraceRow
    BY <1>3 DEF TraceRow
  <2>2. QED
    BY <1>3, <2>1 DEF SaveTrace
<1>8. /\ DOMAIN traces' = DOMAIN traces \cup {t} /\ traces'[t] = row
      /\ \A u \in DOMAIN traces : u # t => traces'[u] = traces[u]
  BY <1>7 DEF Insert
<1>9. now' = now /\ plan' = plan /\ PlanTasks' = PlanTasks /\ (\A u : Chosen(u)' = Chosen(u)) /\ (\A h : State(h)' = State(h))
  BY <1>6 DEF now, plan, PlanTasks, Chosen, State
<1>10. /\ \A u : u # t => Taken(u)' = Taken(u)
       /\ Taken(t)'
  <2>1. ASSUME NEW u, u # t
        PROVE  Taken(u)' = Taken(u)
    BY <1>8, <1>9, <2>1 DEF Taken
  <2>2. Taken(t)'
    BY <1>3, <1>7, <1>8, <1>9 DEF Taken
  <2>3. QED
    BY <2>1, <2>2
<1>11. M!IInv'
  BY <1>6, KernelStutters DEF EInv
<1>12. World'
  <2>1. CheckpointOK'
    <3>1. \A u \in Tasks : Arrived(u)' = Arrived(u) /\ (u # t => Waiting(u)' = Waiting(u))
      BY <1>8, <1>9 DEF Arrived, Waiting
    <3>2. QED
      BY <1>3, <1>6, <1>9, <3>1 DEF CheckpointOK, EInv, World
  <2>2. \A u, j : Execution(u, j)' = Execution(u, j) /\ Verification(u, j)' = Verification(u, j) /\ Planning(u, j)' = Planning(u, j)
    BY <1>9 DEF Execution, Verification, Planning
  <2>3. HoldsInPlan'
    BY <1>9 DEF EInv, World, HoldsInPlan
  <2>4. PairsOK'
    BY <1>6, <1>9, <2>2 DEF EInv, World, PairsOK, PairOK
  <2>5. ReceiptsOK' /\ ApprovalsOK' /\ BidsOK'
    BY <1>6, <1>9 DEF EInv, World, ReceiptsOK, ApprovalsOK, BidsOK
  <2>6. TracesOK'
    <3>1. traces' \in [DOMAIN traces' -> TraceRow] /\ DOMAIN traces' \subseteq Tasks
      BY <1>7 DEF EInv, World, TracesOK, Insert
    <3>2. ASSUME NEW u \in DOMAIN traces', NEW j \in Ticks, traces'[u].tick = j
          PROVE  TraceOK(u, j)'
      <4>1. CASE u = t
        <5>1. j = k
          BY <1>7, <1>8, <3>2, <4>1
        <5>2. Says(t, k, row.status)'
          BY <1>3, <1>7, <2>2 DEF Says
        <5>3. Says(t, k, traces[t].status)'
          BY <1>8, <5>2 DEF Says
        <5>4. QED
          BY <1>3, <1>4, <1>7, <1>8, <1>9, <4>1, <5>1, <5>3 DEF TraceOK, Ticks
      <4>2. CASE u # t
        <5>1. u \in DOMAIN traces /\ TraceOK(u, j)
          BY <1>8, <3>2, <4>2 DEF EInv, World, TracesOK
        <5>2. QED
          BY <1>8, <1>9, <2>2, <4>2, <5>1 DEF TraceOK, Says
      <4>3. QED
        BY <4>1, <4>2
    <3>3. ASSUME NEW u \in Tasks, NEW j \in Ticks, j < now, Execution(u, j) \in Begun
          PROVE  u \in DOMAIN traces' /\ traces'[u].tick = j /\ traces'[u].status # "WAITING"
      <4>1. u \in DOMAIN traces /\ traces[u].tick = j /\ traces[u].status # "WAITING"
        BY <3>3 DEF EInv, World, TracesOK
      <4>2. u # t
        BY <1>3, <4>1 DEF Taken
      <4>3. QED
        BY <1>8, <4>1, <4>2
    <3>4. \A u \in PlanTasks \cap DOMAIN traces' : traces'[u].status = "WAITING" \/ traces'[u].tick = now
      BY <1>3, <1>4, <1>7, <1>8 DEF EInv, World, TracesOK
    <3>5. QED
      BY <1>9, <2>2, <3>1, <3>2, <3>3, <3>4 DEF TracesOK
  <2>7. QED
    BY <2>1, <2>3, <2>4, <2>5, <2>6 DEF World
<1>13. PICK pc \in {"candidate", "item"} : /\ proc' = [proc EXCEPT !.pc = pc, !.i = proc.i + 1]
                                           /\ pc = "candidate" <=> proc.executing
  BY <1>4 DEF SaveTrace
<1>14. /\ proc' \in ProcRow /\ proc'.pc = pc /\ proc'.i = proc.i + 1 /\ proc'.cands = proc.cands
       /\ proc'.caps = proc.caps /\ proc'.executing = proc.executing
  <2>1. pc \in ProcStates
    BY DEF ProcStates, InPass, FirstPass, SecondPass
  <2>2. proc \in ProcRow /\ proc.i + 1 \in Nat /\ proc' = [proc EXCEPT !.pc = pc, !.i = proc.i + 1]
    BY <1>4, <1>13
  <2>3. QED
    BY <2>1, <2>2 DEF ProcRow
<1>15. ASSUME NEW m \in DOMAIN proc.cands, Ahead(m)'
       PROVE  Ahead(m) /\ proc.cands[m] # t
  <2>1. m \in Nat /\ Ahead(m)
    BY <1>4, <1>14, <1>15 DEF Ahead
  <2>2. CASE proc.executing
    <3>1. m # proc.i
      BY <1>4, <1>14, <1>15, <2>1, <2>2 DEF Ahead
    <3>2. QED
      BY <1>4, <1>5, <2>1, <2>2, <3>1 DEF CandidatesOK
  <2>3. CASE ~ proc.executing
    <3>1. SUFFICES ASSUME proc.cands[m] = t
                   PROVE  FALSE
      BY <2>1
    <3>2. CandidateOK(m, t)
      BY <1>4, <3>1 DEF CandidatesOK
    <3>3. PICK j \in DOMAIN plan : j < proc.i /\ plan[j].task = t
      BY <2>3, <3>2 DEF CandidateOK
    <3>4. QED
      BY <1>4, <1>5, <2>3, <3>3 DEF CheckpointOK
  <2>4. QED
    BY <2>2, <2>3
<1>16. CandidatesOK'
  <2>1. ASSUME NEW m \in DOMAIN proc.cands, NEW u \in Tasks, proc.cands[m] = u
        PROVE  CandidateOK(m, u)'
    <3>1. CandidateOK(m, u)
      BY <1>4, <2>1 DEF CandidatesOK
    <3>2. Ahead(m)' => ~ Taken(u)'
      BY <1>10, <1>15, <2>1, <3>1 DEF CandidateOK
    <3>3. \A j \in DOMAIN plan : j < proc.i => j < proc.i + 1
      BY <1>4
    <3>4. QED
      BY <1>6, <1>9, <1>14, <3>1, <3>2, <3>3 DEF CandidateOK
  <2>2. ASSUME NEW j \in DOMAIN plan, NEW u \in Tasks, plan[j].task = u, proc.executing \/ j < proc.i + 1
        PROVE  Taken(u)' \/ \E m \in DOMAIN proc.cands : Ahead(m)' /\ proc.cands[m] = u
    <3>1. CASE u = t
      BY <1>10, <3>1
    <3>2. CASE u # t
      <4>1. proc.executing \/ j < proc.i
        BY <1>4, <1>5, <2>2, <3>2
      <4>2. Taken(u) \/ \E m \in DOMAIN proc.cands : Ahead(m) /\ proc.cands[m] = u
        BY <1>4, <2>2, <4>1 DEF CandidatesOK
      <4>3. ASSUME NEW m \in DOMAIN proc.cands, Ahead(m), proc.cands[m] = u
            PROVE  Ahead(m)'
        <5>1. proc.executing => m # proc.i
          BY <1>5, <3>2, <4>3
        <5>2. QED
          BY <1>4, <1>14, <4>3, <5>1 DEF Ahead
      <4>4. QED
        BY <1>10, <3>2, <4>2, <4>3
    <3>3. QED
      BY <3>1, <3>2
  <2>3. QED
    BY <1>4, <1>9, <1>14, <2>1, <2>2 DEF CandidatesOK
<1>17. PassOK'
  BY <1>4, <1>9, <1>13, <1>14, <1>16 DEF PassOK, At, FirstPass, SecondPass
<1>18. ProcOK'
  BY <1>13, <1>14, <1>17 DEF ProcOK, At, OnTask, OnHold
<1>19. QED
  BY <1>11, <1>12, <1>18 DEF EInv

(* When every candidate has been executed, every task of the plan has its   *)
(* trace of this tick, and none of their two holds is open.                 *)
LEMMA TickIsOver ==
  ASSUME EInv, proc.pc = "finish"
  PROVE  /\ \A t \in PlanTasks : t \in DOMAIN traces /\ traces[t].tick = now /\ TraceOK(t, now)
         /\ \A t \in Tasks : Execution(t, now) # "NONE" => t \in PlanTasks
<1>1. proc.pc \in InPass /\ proc.executing /\ proc.i > Len(proc.cands)
  BY DEF At, InPass, SecondPass, EInv, ProcOK, PassOK
<1>2. /\ CandidatesOK /\ plan # None /\ now \in Ticks /\ DOMAIN proc.cands = 1 .. Len(proc.cands) /\ proc.i \in Nat
      /\ Len(proc.cands) \in Nat /\ \A j \in DOMAIN plan : plan[j].task \in Tasks
  BY <1>1, PassFacts
<1>3. \A m \in DOMAIN proc.cands : ~ Ahead(m)
  BY <1>1, <1>2 DEF Ahead
<1>4. ASSUME NEW t \in PlanTasks
      PROVE  t \in DOMAIN traces /\ traces[t].tick = now /\ TraceOK(t, now)
  <2>1. PICK j \in DOMAIN plan : plan[j].task = t
    BY DEF PlanTasks
  <2>2. Taken(t) /\ t \in Tasks
    BY <1>1, <1>2, <1>3, <2>1 DEF CandidatesOK
  <2>3. t \in DOMAIN traces /\ traces[t].tick = now
    BY <1>2, <2>2 DEF Taken, EInv, World, TracesOK
  <2>4. QED
    BY <1>2, <2>3 DEF EInv, World, TracesOK
<1>5. ASSUME NEW t \in Tasks, Execution(t, now) # "NONE"
      PROVE  t \in PlanTasks
  BY <1>2, <1>5, KindNames DEF EInv, World, HoldsInPlan, Execution
<1>6. QED
  BY <1>4, <1>5

LEMMA FinishTickInductive ==
  ASSUME EInv, FinishTick
  PROVE  EInv'
<1>1. proc.pc = "finish" /\ proc.pc \in InPass
  BY DEF FinishTick, At, InPass, SecondPass
<1>2. UNCHANGED <<kernel, holds, bids, receipts, approvals, traces>>
  BY DEF FinishTick, tables, kernel
<1>3. /\ plan # None /\ CheckpointOK /\ now \in Ticks /\ proc \in ProcRow
  BY <1>1, PassFacts
<1>4. /\ \A t \in PlanTasks : t \in DOMAIN traces /\ traces[t].tick = now /\ TraceOK(t, now)
      /\ \A t \in Tasks : Execution(t, now) # "NONE" => t \in PlanTasks
  BY <1>1, TickIsOver
<1>5. PICK k \in Ticks, done \in BOOLEAN :
        /\ k = now /\ checkpoint' = [tick |-> k + 1, plan |-> None, finished |-> done]
        /\ done <=> (DOMAIN traces = Tasks /\ \A t \in Tasks : traces[t].status # "WAITING")
  BY <1>3 DEF FinishTick
<1>6. now' = k + 1 /\ plan' = None /\ checkpoint'.finished = done /\ k \in Nat /\ k <= Deadline
  BY <1>5, TasksType DEF now, plan, Ticks
<1>7. /\ \A h : State(h)' = State(h)
      /\ \A t, j : Execution(t, j)' = Execution(t, j) /\ Verification(t, j)' = Verification(t, j) /\ Planning(t, j)' = Planning(t, j)
  BY <1>2 DEF State, Execution, Verification, Planning
<1>8. M!IInv'
  BY <1>2, KernelStutters DEF EInv
<1>9. CheckpointOK'
  <2>1. checkpoint' \in [tick: 0 .. Deadline + 1, plan: Seq(PlanRow) \cup {None}, finished: BOOLEAN]
    BY <1>5, <1>6, TasksType
  <2>2. k = Deadline => done
    <3>1. SUFFICES ASSUME k = Deadline
                   PROVE  done
      OBVIOUS
    <3>2. ASSUME NEW t \in Tasks
          PROVE  t \in DOMAIN traces /\ traces[t].status # "WAITING"
      <4>1. Arrived(t)
        BY <1>5, <3>1, EngineAssumption DEF Arrived
      <4>2. CASE Waiting(t)
        <5>1. t \in PlanTasks
          BY <1>3, <4>1, <4>2 DEF CheckpointOK
        <5>2. QED
          BY <1>4, <1>5, <3>1, <5>1 DEF TraceOK
      <4>3. CASE ~ Waiting(t)
        BY <4>3 DEF Waiting
      <4>4. QED
        BY <4>2, <4>3
    <3>3. DOMAIN traces = Tasks
      BY <3>2 DEF EInv, World, TracesOK
    <3>4. QED
      BY <1>5, <3>2, <3>3
  <2>3. ~ done => k + 1 <= Deadline
    BY <1>6, <2>2, TasksType
  <2>4. QED
    BY <1>6, <2>1, <2>3 DEF CheckpointOK
<1>10. HoldsInPlan'
  <2>1. SUFFICES ASSUME NEW t \in Tasks, NEW j \in Ticks, NEW kind \in Kinds, State(<<t, j, kind>>) # "NONE"
                 PROVE  j <= k + 1 /\ j # k + 1
    BY <1>6, <1>7 DEF HoldsInPlan
  <2>2. j <= k /\ j \in Nat
    BY <1>5, <2>1, TasksType DEF EInv, World, HoldsInPlan, Ticks
  <2>3. QED
    BY <1>6, <2>2
<1>11. PairsOK'
  <2>1. ASSUME NEW t \in Tasks, NEW j \in Ticks
        PROVE  PairOK(t, j)'
    <3>1. PairOK(t, j) /\ j \in Nat
      BY TasksType DEF EInv, World, PairsOK, Ticks
    <3>2. j < k + 1 => {Execution(t, j), Verification(t, j)} \cap {"RESERVED", "DISPATCHED"} = {}
      <4>1. CASE j < k
        BY <1>5, <3>1, <4>1 DEF PairOK
      <4>2. CASE j = k
        <5>1. CASE Execution(t, j) = "NONE"
          BY <3>1, <5>1 DEF PairOK
        <5>2. CASE Execution(t, j) # "NONE"
          <6>1. Says(t, j, traces[t].status)
            BY <1>4, <1>5, <4>2, <5>2 DEF TraceOK
          <6>2. QED
            BY <6>1 DEF Says
        <5>3. QED
          BY <5>1, <5>2
      <4>3. QED
        BY <1>6, <3>1, <4>1, <4>2
    <3>3. QED
      BY <1>2, <1>6, <1>7, <3>1, <3>2 DEF PairOK
  <2>2. QED
    BY <2>1 DEF PairsOK
<1>12. ReceiptsOK' /\ ApprovalsOK' /\ BidsOK'
  BY <1>2, <1>7 DEF EInv, World, ReceiptsOK, ApprovalsOK, BidsOK
<1>13. TracesOK'
  <2>1. ASSUME NEW t \in DOMAIN traces, NEW j \in Ticks, traces[t].tick = j
        PROVE  TraceOK(t, j)'
    <3>1. TraceOK(t, j) /\ j \in Nat /\ j <= k
      BY <1>5, <2>1, TasksType DEF EInv, World, TracesOK, TraceOK, Ticks
    <3>2. QED
      BY <1>2, <1>6, <1>7, <3>1 DEF TraceOK, Says
  <2>2. ASSUME NEW t \in Tasks, NEW j \in Ticks, j < k + 1, Execution(t, j) \in Begun
        PROVE  t \in DOMAIN traces /\ traces[t].tick = j /\ traces[t].status # "WAITING"
    <3>1. CASE j < k
      BY <1>5, <2>2, <3>1 DEF EInv, World, TracesOK
    <3>2. CASE j = k
      <4>1. t \in DOMAIN traces /\ traces[t].tick = j /\ Says(t, j, traces[t].status)
        BY <1>4, <1>5, <2>2, <3>2 DEF TraceOK, Begun
      <4>2. QED
        BY <2>2, <4>1 DEF Says, Begun
    <3>3. QED
      BY <1>6, <2>2, <3>1, <3>2, TasksType DEF Ticks
  <2>3. QED
    BY <1>2, <1>6, <1>7, <2>1, <2>2 DEF EInv, World, TracesOK
<1>14. World'
  BY <1>9, <1>10, <1>11, <1>12, <1>13 DEF World
<1>15. ProcOK'
  <2>1. "lapse" \in ProcStates /\ Goto("lapse")
    BY DEF ProcStates, FinishTick
  <2>2. proc' \in ProcRow /\ proc'.pc = "lapse"
    BY <1>3, <2>1, GotoRow
  <2>3. QED
    BY <1>6, <2>2 DEF ProcOK, At, InPass, OnTask, OnHold, FirstPass, SecondPass
<1>16. QED
  BY <1>8, <1>14, <1>15 DEF EInv

(* Between two ticks. *)
LEMMA LapseBidsInductive ==
  ASSUME EInv, LapseBids
  PROVE  EInv'
<1>1. At("lapse") /\ plan = None /\ proc \in ProcRow
  BY DEF LapseBids, At, EInv, ProcOK
<1>2. UNCHANGED <<receipts, approvals, checkpoint, traces>>
  BY DEF LapseBids
<1>3. M!IInv' /\ World'
  <2>1. CASE UNCHANGED tables
    BY <1>2, <2>1, TablesStay
  <2>2. CASE ExpireBids(now, Run)
    <3>1. M!IInv' /\ GivenBack({"execution"}) /\ BidsOK'
      BY <2>2, LapseGivesBack DEF EInv, World
    <3>2. QED
      BY <1>2, <3>1, WorldGivesBack DEF EInv
  <2>3. QED
    BY <2>1, <2>2 DEF LapseBids
<1>4. ProcOK'
  <2>1. "sweep" \in ProcStates /\ Goto("sweep")
    BY DEF ProcStates, LapseBids
  <2>2. proc' \in ProcRow /\ proc'.pc = "sweep"
    BY <1>1, <2>1, GotoRow
  <2>3. plan' = None
    BY <1>1, <1>2 DEF plan
  <2>4. QED
    BY <2>2, <2>3 DEF ProcOK, At, InPass, OnTask, OnHold, FirstPass, SecondPass
<1>5. QED
  BY <1>3, <1>4 DEF EInv

LEMMA SweepRunInductive ==
  ASSUME EInv, SweepRun
  PROVE  EInv'
<1>1. At("sweep") /\ plan = None /\ now \in 0 .. Deadline + 1
  BY DEF SweepRun, At, EInv, ProcOK, World, CheckpointOK, now
<1>2. UNCHANGED <<receipts, approvals, checkpoint, traces>> /\ proc' = Stopped
  BY DEF SweepRun
<1>3. M!IInv' /\ World'
  <2>1. CASE UNCHANGED tables
    BY <1>2, <2>1, TablesStay
  <2>2. CASE Expire(now, Run) /\ UNCHANGED market
    <3>1. M!IInv' /\ GivenBack(Kinds)
      BY <1>1, <2>2, SweepGivesBack DEF EInv
    <3>2. BidsOK'
      BY <2>2, BidsStay DEF EInv, market
    <3>3. QED
      BY <1>1, <1>2, <3>1, <3>2, WorldGivesBack DEF EInv
  <2>3. QED
    BY <2>1, <2>2 DEF SweepRun
<1>4. QED
  BY <1>2, <1>3, IdleIsOK DEF EInv

LEMMA BeginInductive ==
  ASSUME EInv, Begin
  PROVE  EInv'
<1>1. UNCHANGED <<tables, receipts, approvals, checkpoint, traces>> /\ ~ checkpoint.finished /\ proc \in ProcRow
  BY DEF Begin, EInv, ProcOK
<1>2. M!IInv' /\ World' /\ plan' = plan
  BY <1>1, TablesStay DEF plan
<1>3. PICK pc \in {"plan", "open"} : Goto(pc) /\ (pc = "plan" <=> plan = None)
  BY DEF Begin, plan
<1>4. pc \in ProcStates
  BY DEF ProcStates
<1>5. proc' \in ProcRow /\ proc'.pc = pc
  BY <1>1, <1>3, <1>4, GotoRow
<1>6. ProcOK'
  BY <1>1, <1>2, <1>3, <1>5 DEF ProcOK, At, InPass, OnTask, OnHold, FirstPass, SecondPass
<1>7. QED
  BY <1>2, <1>6 DEF EInv

(* An order of a finite set is a sequence of its elements, each once. *)
LEMMA OrderFacts ==
  ASSUME NEW S, IsFiniteSet(S), NEW order \in SetToSeqs(S)
  PROVE  /\ order \in Seq(S)
         /\ \A i, j \in DOMAIN order : order[i] = order[j] => i = j
         /\ \A e \in S : \E i \in DOMAIN order : order[i] = e
<1>1. PICK n \in Nat : n = Cardinality(S)
  BY FS_CardinalityType
<1>2. order \in [1 .. n -> S] /\ \A i, j \in 1 .. n : i # j => order[i] # order[j]
  BY <1>1 DEF SetToSeqs
<1>3. order \in Injection(1 .. n, S)
  BY <1>2 DEF Injection, IsInjective
<1>4. Cardinality(1 .. n) = n
  BY FS_Interval
<1>5. order \in Surjection(1 .. n, S)
  BY <1>1, <1>3, <1>4, FS_Injection
<1>6. QED
  BY <1>2, <1>5 DEF Surjection

LEMMA PlanInductive ==
  ASSUME EInv, Plan
  PROVE  EInv'
<1>1. At("plan") /\ plan = None /\ ~ checkpoint.finished /\ proc \in ProcRow /\ CheckpointOK
  BY DEF Plan, EInv, ProcOK, World
<1>2. now \in Ticks /\ now <= Deadline /\ now \in Nat
  BY <1>1, TasksType DEF CheckpointOK, now, Ticks
<1>3. UNCHANGED <<tables, receipts, approvals, traces>> /\ Goto("open")
  BY DEF Plan
<1>4. UNCHANGED <<kernel, holds, bids>>
  BY <1>3 DEF tables, kernel
<1>5. PICK choice, order :
        /\ choice \in [{t \in Tasks : Arrived(t) /\ Waiting(t)} -> UNION {Decisions(t) : t \in Tasks}]
        /\ \A t \in DOMAIN choice : choice[t].task = t
        /\ order \in SetToSeqs({choice[t] : t \in DOMAIN choice})
        /\ checkpoint' = [checkpoint EXCEPT !.plan = order]
  BY DEF Plan
<1> DEFINE S == {choice[t] : t \in DOMAIN choice}
<1>6. DOMAIN choice = {t \in Tasks : Arrived(t) /\ Waiting(t)}
  BY <1>5
<1>7. ASSUME NEW e \in S
      PROVE  e \in PlanRow /\ (now = Deadline => e.resource = "defer") /\ e.task \in DOMAIN choice /\ e = choice[e.task]
  <2>1. PICK t \in DOMAIN choice : e = choice[t]
    OBVIOUS
  <2>2. PICK u \in Tasks : e \in Decisions(u)
    BY <1>5, <2>1
  <2>3. Options \subseteq Choosable /\ (now = Deadline => Options = {"defer"})
    BY <1>2 DEF Options, Affordable, Choosable, Resources
  <2>4. e \in PlanRow /\ (now = Deadline => e.resource = "defer")
    BY <2>2, <2>3 DEF Decisions, PlanRow
  <2>5. QED
    BY <1>5, <2>1, <2>4
<1>8. IsFiniteSet(S)
  <2>1. IsFiniteSet(DOMAIN choice)
    BY <1>6, TasksType, FS_Subset
  <2>2. choice \in Surjection(DOMAIN choice, S)
    BY <1>5 DEF Surjection
  <2>3. QED
    BY <2>1, <2>2, FS_Surjection
<1>9. /\ order \in Seq(S)
      /\ \A i, j \in DOMAIN order : order[i] = order[j] => i = j
      /\ \A e \in S : \E i \in DOMAIN order : order[i] = e
  BY <1>5, <1>8, OrderFacts
<1> HIDE DEF S
<1>10. /\ order \in Seq(PlanRow) /\ order # None
       /\ \A i \in DOMAIN order : order[i] \in S
  <2>1. S \subseteq PlanRow
    BY <1>7
  <2>2. order \in Seq(PlanRow) /\ \A i \in DOMAIN order : order[i] \in S
    BY <1>9, <2>1
  <2>3. QED
    BY <2>2, NamesAssumption DEF PlanRow, Choosable
<1>11. \A i, j \in DOMAIN order : order[i].task = order[j].task => i = j
  BY <1>7, <1>9, <1>10
<1>12. \A t \in DOMAIN choice : \E i \in DOMAIN order : order[i].task = t
  <2>1. TAKE t \in DOMAIN choice
  <2>2. choice[t] \in S /\ choice[t].task = t
    BY <1>5 DEF S
  <2>3. QED
    BY <1>9, <2>2
<1>13. now' = now /\ plan' = order /\ checkpoint'.finished = FALSE
  BY <1>1, <1>5 DEF CheckpointOK, now, plan
<1>14. PlanTasks' = {order[j].task : j \in DOMAIN order}
  BY <1>13 DEF PlanTasks
<1>15. PlanTasks' = DOMAIN choice
  BY <1>7, <1>10, <1>12, <1>14
<1>16. CheckpointOK'
  <2>1. checkpoint' \in [tick: 0 .. Deadline + 1, plan: Seq(PlanRow) \cup {None}, finished: BOOLEAN]
    BY <1>1, <1>5, <1>10 DEF CheckpointOK
  <2>2. \A t \in Tasks : Arrived(t)' = Arrived(t) /\ Waiting(t)' = Waiting(t)
    BY <1>3, <1>13 DEF Arrived, Waiting
  <2>3. now = Deadline => \A j \in DOMAIN order : order[j].resource = "defer"
    BY <1>7, <1>10
  <2>4. QED
    BY <1>2, <1>6, <1>11, <1>13, <1>15, <2>1, <2>2, <2>3 DEF CheckpointOK
<1>17. /\ \A h : State(h)' = State(h)
       /\ \A t, j : Execution(t, j)' = Execution(t, j) /\ Verification(t, j)' = Verification(t, j) /\ Planning(t, j)' = Planning(t, j)
  BY <1>4 DEF State, Execution, Verification, Planning
<1>18. HoldsInPlan'
  BY <1>1, <1>13, <1>17 DEF EInv, World, HoldsInPlan
<1>19. PairsOK'
  BY <1>3, <1>13, <1>17 DEF EInv, World, PairsOK, PairOK
<1>20. ReceiptsOK' /\ ApprovalsOK' /\ BidsOK'
  BY <1>3, <1>4, <1>17 DEF EInv, World, ReceiptsOK, ApprovalsOK, BidsOK
<1>21. TracesOK'
  <2>1. ASSUME NEW t \in DOMAIN traces, NEW j \in Ticks, traces[t].tick = j
        PROVE  TraceOK(t, j)'
    BY <1>1, <1>3, <1>13, <1>17, <2>1 DEF EInv, World, TracesOK, TraceOK, Says
  <2>2. \A t \in PlanTasks' \cap DOMAIN traces : traces[t].status = "WAITING"
    BY <1>6, <1>15 DEF Waiting
  <2>3. QED
    BY <1>3, <1>13, <1>17, <2>1, <2>2 DEF EInv, World, TracesOK
<1>22. World' /\ M!IInv'
  BY <1>4, <1>16, <1>18, <1>19, <1>20, <1>21, KernelStutters DEF World, EInv
<1>23. ProcOK'
  <2>1. "open" \in ProcStates
    BY DEF ProcStates
  <2>2. proc' \in ProcRow /\ proc'.pc = "open"
    BY <1>1, <1>3, <2>1, GotoRow
  <2>3. QED
    BY <1>10, <1>13, <2>2 DEF ProcOK, At, InPass, OnTask, OnHold, FirstPass, SecondPass
<1>24. QED
  BY <1>22, <1>23 DEF EInv

LEMMA OpenAuctionInductive ==
  ASSUME EInv, OpenAuction
  PROVE  EInv'
<1>1. At("open") /\ plan # None /\ proc \in ProcRow
  BY DEF OpenAuction, EInv, ProcOK
<1>2. UNCHANGED <<receipts, approvals, checkpoint, traces>>
  BY DEF OpenAuction
<1>3. UNCHANGED <<kernel, holds, bids>>
  BY DEF OpenAuction, Open, tables, kernel
<1>4. M!IInv' /\ World' /\ plan' = plan
  BY <1>2, <1>3, KernelStutters, WorldStays, BidsStay DEF EInv, plan
<1>5. \A r : Used(r) \in Nat
  <2>1. TAKE r
  <2>2. IsFiniteSet(DOMAIN traces)
    BY TasksType, FS_Subset DEF EInv, World, TracesOK
  <2>3. PICK U : /\ U = {t \in DOMAIN traces : /\ traces[t].tick = now /\ traces[t].resource = r
                                               /\ ~ traces[t].bid
                                               /\ \E h \in traces[t].attempts : State(h) \in Begun}
                 /\ U \in SUBSET DOMAIN traces
    OBVIOUS
  <2>4. Cardinality(U) \in Nat
    BY <2>2, <2>3, FS_Subset, FS_CardinalityType
  <2>5. QED
    BY <2>3, <2>4 DEF Used
<1>6. PICK caps \in Counters : proc' = [Stopped EXCEPT !.pc = "item", !.i = 1, !.caps = caps]
  <2>1. PremiumAt(now) \in Nat /\ ConsultationCapacity \in Nat
    BY EngineAssumption DEF PremiumAt
  <2>2. [premium |-> PremiumAt(now) - Used("premium"), consultation |-> ConsultationCapacity - Used("consultation")] \in Counters
    BY <1>5, <2>1 DEF Counters
  <2>3. QED
    BY <2>2 DEF OpenAuction
<1>7. /\ proc' \in ProcRow /\ proc'.pc = "item" /\ proc'.i = 1 /\ proc'.cands = <<>> /\ proc'.caps = caps
      /\ proc'.executing = FALSE
  <2>1. "item" \in ProcStates
    BY DEF ProcStates, InPass, FirstPass
  <2>2. QED
    BY <1>6, <2>1, StoppedRow DEF ProcRow, Stopped
<1>8. CandidatesOK'
  <2>1. \A j \in DOMAIN plan : ~ (j < 1)
    BY <1>1, PlanFacts DEF EInv, World
  <2>2. QED
    BY <1>4, <1>7, <2>1 DEF CandidatesOK
<1>9. PassOK'
  BY <1>1, <1>4, <1>7, <1>8 DEF PassOK, At, SecondPass
<1>10. ProcOK'
  BY <1>7, <1>9 DEF ProcOK, At, OnTask, OnHold
<1>11. QED
  BY <1>4, <1>10 DEF EInv

-----------------------------------------------------------------------------
(* The invariant of every run *)

LEMMA EngineInitial == EngineInit => EInv
<1>1. SUFFICES ASSUME EngineInit
               PROVE  EInv
  OBVIOUS
<1>2. M!IInv /\ \A h : State(h) = "NONE"
  BY <1>1, EngineInitKernel
<1>3. /\ checkpoint = [tick |-> 0, plan |-> None, finished |-> FALSE] /\ proc = Stopped /\ receipts = {}
      /\ DOMAIN approvals = {} /\ traces = [t \in {} |-> {}] /\ DOMAIN bids = {}
  BY <1>1 DEF EngineInit
<1>4. now = 0 /\ plan = None /\ DOMAIN traces = {} /\ Deadline \in Nat
  BY <1>3, TasksType DEF now, plan
<1>5. \A t, k : Execution(t, k) = "NONE" /\ Verification(t, k) = "NONE" /\ Planning(t, k) = "NONE"
  BY <1>2 DEF Execution, Verification, Planning
<1>6. CheckpointOK
  BY <1>3, <1>4 DEF CheckpointOK
<1>7. HoldsInPlan /\ PairsOK /\ ReceiptsOK /\ BidsOK /\ ApprovalsOK
  BY <1>2, <1>3, <1>5 DEF HoldsInPlan, PairsOK, PairOK, ReceiptsOK, BidsOK, ApprovalsOK, Begun
<1>8. TracesOK
  BY <1>3, <1>4, <1>5 DEF TracesOK, Begun
<1>9. ProcOK
  BY <1>3, StoppedRow DEF ProcOK, At, InPass, FirstPass, SecondPass, OnTask, OnHold
<1>10. QED
  BY <1>2, <1>6, <1>7, <1>8, <1>9 DEF EInv, World

LEMMA EngineInductive == EInv /\ [EngineNext]_engineVars => EInv'
<1>1. SUFFICES ASSUME EInv, [EngineNext]_engineVars
               PROVE  EInv'
  OBVIOUS
<1>2. CASE Begin
  BY <1>1, <1>2, BeginInductive
<1>3. CASE Plan
  BY <1>1, <1>3, PlanInductive
<1>4. CASE OpenAuction
  BY <1>1, <1>4, OpenAuctionInductive
<1>5. CASE NextItem
  BY <1>1, <1>5, NextItemInductive
<1>6. CASE Prepare
  BY <1>1, <1>6, PrepareInductive
<1>7. CASE AskApproval
  BY <1>1, <1>7, AskApprovalInductive
<1>8. CASE ReviewApproval
  BY <1>1, <1>8, ReviewApprovalInductive
<1>9. CASE PlaceBid
  BY <1>1, <1>9, PlaceBidInductive
<1>10. CASE ClearAuction
  BY <1>1, <1>10, ClearAuctionInductive
<1>11. CASE NextCandidate
  BY <1>1, <1>11, NextCandidateInductive
<1>12. CASE PassOver
  BY <1>1, <1>12, PassOverInductive
<1>13. CASE ClaimHold
  BY <1>1, <1>13, ClaimHoldInductive
<1>14. CASE DoubtHold
  BY <1>1, <1>14, DoubtHoldInductive
<1>15. CASE RecordReceipt
  BY <1>1, <1>15, RecordReceiptInductive
<1>16. CASE SettleHold
  BY <1>1, <1>16, SettleHoldInductive
<1>17. CASE DeliverAndVerify
  BY <1>1, <1>17, DeliverInductive
<1>18. CASE LeaveUnresolved
  BY <1>1, <1>18, LeaveUnresolvedInductive
<1>19. CASE NoResult
  BY <1>1, <1>19, StopInductive DEF NoResult
<1>20. CASE Verdict
  BY <1>1, <1>20, VerdictInductive
<1>21. CASE GiveBack
  BY <1>1, <1>21, GiveBackInductive
<1>22. CASE Unverify
  BY <1>1, <1>22, UnverifyInductive
<1>23. CASE SaveTrace
  BY <1>1, <1>23, SaveTraceInductive
<1>24. CASE FinishTick
  BY <1>1, <1>24, FinishTickInductive
<1>25. CASE LapseBids
  BY <1>1, <1>25, LapseBidsInductive
<1>26. CASE SweepRun
  BY <1>1, <1>26, SweepRunInductive
<1>27. CASE Crash
  BY <1>1, <1>27, StopInductive DEF Crash
<1>28. CASE UNCHANGED engineVars
  <2>1. UNCHANGED <<tables, receipts, approvals, checkpoint, traces, proc>>
    BY <1>28 DEF engineVars
  <2>2. M!IInv' /\ World' /\ UNCHANGED holds /\ \A h : State(h)' = State(h)
    BY <1>1, <2>1, TablesStay
  <2>3. ProcOK'
    <3>1. now' = now /\ plan' = plan /\ PlanTasks' = PlanTasks /\ (\A u : Chosen(u)' = Chosen(u) /\ Taken(u)' = Taken(u))
      BY <1>1, <2>1, CheckpointStays DEF EInv, World
    <3>2. CASE proc.pc \in OnTask
      <4>1. PICK t \in Tasks, k \in Ticks : IsTask(t, k)
        BY <1>1, <3>2, TaskFacts
      <4>2. /\ \A u, j : Execution(u, j)' = Execution(u, j) /\ Verification(u, j)' = Verification(u, j) /\ Planning(u, j)' = Planning(u, j)
        BY <2>2 DEF Execution, Verification, Planning
      <4>3. TaskOK(t, k)'
        BY <2>1, <2>2, <3>1, <4>1, <4>2 DEF IsTask, TaskOK, HoldOK, KindOK, ConclusionOK, Says, At
      <4>4. /\ SamePlace /\ proc' \in ProcRow /\ proc'.status \in Statuses
        BY <2>1, <4>1 DEF SamePlace, SameRow, IsTask
      <4>5. PICK pc : pc = proc.pc
        OBVIOUS
      <4>6. QED
        BY <1>1, <2>1, <2>2, <3>2, <4>1, <4>3, <4>4, <4>5, TaskKept DEF IsTask
    <3>3. CASE proc.pc \notin OnTask
      <4>1. proc' = proc /\ checkpoint' = checkpoint
        BY <2>1
      <4>2. proc.pc \in InPass => CandidatesOK'
        BY <1>1, <2>2, <3>1, <4>1, PassFacts DEF CandidatesOK, CandidateOK, Ahead
      <4>3. proc.pc \in InPass => PassOK'
        BY <1>1, <3>1, <4>1, <4>2, PassFacts DEF PassOK, At
      <4>4. QED
        BY <1>1, <3>1, <3>3, <4>1, <4>3 DEF EInv, ProcOK, At
    <3>4. QED
      BY <3>2, <3>3
  <2>4. QED
    BY <2>2, <2>3 DEF EInv
<1>29. QED
  BY <1>1, <1>2, <1>3, <1>4, <1>5, <1>6, <1>7, <1>8, <1>9, <1>10, <1>11, <1>12, <1>13, <1>14, <1>15, <1>16, <1>17, <1>18,
     <1>19, <1>20, <1>21, <1>22, <1>23, <1>24, <1>25, <1>26, <1>27, <1>28 DEF EngineNext, Step

(* Wherever steps are interrupted and repeated, the tables, the saved plan  *)
(* and traces and the place of the step fit together: the holds of a task   *)
(* are open only while its tick is, and the trace says what became of them. *)
THEOREM EngineInvariant == EngineSpec => []EInv
BY EngineInitial, EngineInductive, PTL DEF EngineSpec

(* The first conjunct is the type invariant.  A trace says what the kernel  *)
(* says, however often its step was interrupted and repeated: delivered     *)
(* work was paid for, uncertain work is still a liability, and a task that  *)
(* waits, was dropped or was denied keeps no authority.                     *)
THEOREM TracesMatch == EngineSpec => []TracesMatchHolds
<1>1. EInv => TracesMatchHolds
  <2>1. SUFFICES ASSUME EInv
                 PROVE  TracesMatchHolds
    OBVIOUS
  <2>2. TypeOK
    <3>1. M!TypeOK
      BY <2>1 DEF EInv, M!IInv
    <3>2. QED
      BY <3>1 DEF TypeOK, M!TypeOK, AccountRow, M!AccountRow, HoldRow, M!HoldRow, HoldStates, M!HoldStates,
                  OUTSTANDING, M!OUTSTANDING, EventKinds, M!EventKinds, Amount, M!Amount
  <2>3. receipts \subseteq DOMAIN holds
    BY <2>1 DEF EInv, World, ReceiptsOK, State
  <2>4. checkpoint.tick \in 0 .. Deadline + 1 /\ checkpoint.finished \in BOOLEAN /\ DOMAIN traces \subseteq Tasks
    BY <2>1 DEF EInv, World, CheckpointOK, TracesOK
  <2>5. ASSUME NEW t \in DOMAIN traces
        PROVE  Says(t, traces[t].tick, traces[t].status)
    <3>1. PICK k \in Ticks : k = traces[t].tick
      BY <2>1 DEF EInv, World, TracesOK, TraceRow
    <3>2. TraceOK(t, k)
      BY <2>1, <3>1 DEF EInv, World, TracesOK
    <3>3. QED
      BY <3>1, <3>2 DEF TraceOK
  <2>6. QED
    BY <2>2, <2>3, <2>4, <2>5 DEF TracesMatchHolds, EngineTypeOK, Says, Execution, Verification
<1>2. QED
  BY <1>1, EngineInvariant, PTL

(* A task that was executed at one tick is never executed at another.       *)
THEOREM ExecutedOnce == EngineSpec => []ExecutedAtOneTick
<1>1. EInv => ExecutedAtOneTick
  <2>1. SUFFICES ASSUME EInv, NEW t \in Tasks
                 PROVE  Cardinality({k \in Ticks : State(<<t, k, "execution">>) \in Begun}) <= 1
    BY DEF ExecutedAtOneTick
  <2>2. PICK S \in SUBSET Ticks : S = {k \in Ticks : State(<<t, k, "execution">>) \in Begun}
    OBVIOUS
  <2>3. ASSUME NEW k \in S
        PROVE  \/ k < now /\ t \in DOMAIN traces /\ traces[t].tick = k /\ traces[t].status # "WAITING"
               \/ k = now /\ plan # None /\ t \in PlanTasks
    <3>1. Execution(t, k) \in Begun /\ k \in Nat
      BY <2>2, TasksType DEF Execution, Ticks
    <3>2. k <= now /\ now \in Int /\ (k = now => plan # None /\ t \in PlanTasks)
      BY <2>1, <2>2, <3>1, KindNames DEF EInv, World, HoldsInPlan, Execution, Begun, CheckpointOK, now
    <3>3. QED
      BY <2>1, <3>1, <3>2 DEF EInv, World, TracesOK
  <2>4. \A j, k \in S : j = k
    BY <2>1, <2>3 DEF EInv, World, TracesOK
  <2>5. IsFiniteSet(S)
    BY <2>2, TasksType, FS_Subset
  <2>6. CASE S = {}
    <3>1. Cardinality(S) = 0
      BY <2>6, FS_EmptySet
    <3>2. QED
      BY <2>2, <3>1
  <2>7. CASE S # {}
    <3>1. PICK k : S = {k}
      BY <2>4, <2>7
    <3>2. Cardinality(S) = 1
      BY <3>1, FS_Singleton
    <3>3. QED
      BY <2>2, <3>2
  <2>8. QED
    BY <2>6, <2>7
<1>2. QED
  BY <1>1, EngineInvariant, PTL
-----------------------------------------------------------------------------
(* The second invariant: what is scarce *)

Scarce == IF Auctioned THEN {"consultation"} ELSE {"premium", "consultation"}

CapacityAt(r, k) == IF r = "premium" THEN PremiumAt(k) ELSE ConsultationCapacity

(* The executions of this tick that a trace counts against a capacity.      *)
Counted(r) == {t \in DOMAIN traces : traces[t].tick = now /\ traces[t].resource = r /\ Execution(t, now) \in Begun}

(* The current task has a unit of the capacity to itself. *)
Holding(r) == /\ proc.executing /\ proc.pc \in OnTask /\ proc.pc # "passover"
              /\ Chosen(Task) = r /\ Execution(Task, now) # "RELEASED"

Approved(k) == {p \in DOMAIN approvals : p[2] = k /\ approvals[p] = "APPROVED"}

Reviewing == (proc.pc \in OnHold /\ proc.kind = "mandatory_review") \/ At("review")

(* An execution is of the resource that the plan has, and a trace of this   *)
(* tick says so and names it.                                               *)
RequestedOK ==
  /\ \A t \in Tasks : <<t, now, "execution">> \in DOMAIN holds => holds[<<t, now, "execution">>].request = Chosen(t)
  /\ \A t \in DOMAIN traces : traces[t].tick = now =>
       /\ traces[t].resource = Chosen(t)
       /\ traces[t].bid => Auctions(t)
       /\ Execution(t, now) \in Begun => <<t, now, "execution">> \in traces[t].attempts

(* Of the executions that were begun one at most has no trace yet: every    *)
(* task before it in the plan has one.                                      *)
FrontOK ==
  plan # None => \A i, j \in DOMAIN plan :
    i < j /\ Execution(plan[j].task, now) \in Begun /\ ~ Taken(plan[j].task) => Taken(plan[i].task)

(* Candidates execute in the order of the plan. *)
InOrder ==
  \A m, n \in DOMAIN proc.cands, i, j \in DOMAIN plan :
    m < n /\ plan[i].task = proc.cands[m] /\ plan[j].task = proc.cands[n] => i < j

(* The counter of a pass has no more left than the traces, and the task that *)
(* took a unit without a trace yet, leave it.                                *)
CountersOK ==
  \A r \in Scarce : /\ Holding(r) => proc.caps[r] >= 0
                    /\ proc.caps[r] + Cardinality(Counted(r)) + (IF Holding(r) THEN 1 ELSE 0) <= CapacityAt(r, now)

(* A trace that will be saved names the execution, or says that none began. *)
AttemptsOK ==
  /\ proc.executing => <<Task, now, "execution">> \in proc.attempts
  /\ ~ proc.executing /\ proc.pc \in {"unverify", "save"} => proc.status \in {"WAITING", "ABANDONED", "DENIED"}

ScarceOK == \A k \in Ticks, r \in Scarce : Cardinality(Executions(r, k)) <= CapacityAt(r, k)

(* Reviews are counted by the approvals themselves, before one is asked for. *)
ReviewsOK ==
  /\ \A k \in Ticks : Cardinality(Approved(k)) <= ReviewCapacity
  /\ Reviewing => Cardinality(Approved(now)) < ReviewCapacity

ScarceInv ==
  /\ RequestedOK /\ FrontOK /\ ScarceOK /\ ReviewsOK
  /\ proc.pc \in InPass => InOrder /\ CountersOK
  /\ proc.pc \in OnTask => AttemptsOK

(* The third invariant: auctions *)

Awarded == {"ALLOCATED", "DELIVERED"}

Won(k) == {b \in DOMAIN bids : bids[b].auction = k /\ bids[b].state \in Awarded}

(* A bid is for the hold of its task in the auction of its tick. *)
BidNames ==
  \A b \in DOMAIN bids :
    /\ bids[b].price \in Prices /\ bids[b].auction \in DOMAIN auctions
    /\ \E t \in Tasks, k \in Ticks : b = BidOf(t, k) /\ bids[b].hold = <<t, k, "execution">> /\ bids[b].auction = k

(* An auction awards no more bids than it has units, and none while it is open. *)
AuctionsFit ==
  \A k \in DOMAIN auctions : /\ k \in Ticks /\ auctions[k] \in AuctionRow /\ auctions[k].capacity = PremiumAt(k)
                             /\ Cardinality(Won(k)) <= PremiumAt(k)
                             /\ auctions[k].state = "OPEN" => Won(k) = {}

(* Whatever has begun in an auction has its award. *)
AwardsOK ==
  \A t \in Tasks, k \in Ticks :
    Auctioned /\ Execution(t, k) \in Begun /\ holds[<<t, k, "execution">>].request = "premium" =>
      BidOf(t, k) \in DOMAIN bids /\ bids[BidOf(t, k)].state \in Awarded

Bidding == (proc.pc \in OnHold /\ proc.kind = "bidding") \/ At("bid")

(* What the step knows of bids where it is. *)
BiddingOK ==
  /\ plan # None => \A j \in DOMAIN plan : plan[j].resource = "premium" => plan[j].price \in Prices
  /\ proc.pc \in InPass => \A m \in DOMAIN proc.cands : Auctions(proc.cands[m]) => BidOf(proc.cands[m], now) \in DOMAIN bids
  /\ Bidding => Auctions(Task)
  /\ At("claim") /\ proc.kind = "execution" /\ Auctions(Task) => bids[BidOf(Task, now)].state \in Awarded

AuctionInv == BidNames /\ AuctionsFit /\ AwardsOK /\ BiddingOK
-----------------------------------------------------------------------------
(* What steps do to holds *)

(* No step but a claim begins anything, and what was begun or given back    *)
(* stays so; a new hold is of what the plan has.                            *)
Persists(h) ==
  /\ h \in DOMAIN holds' /\ holds'[h].request = holds[h].request
  /\ holds[h].state \in Begun => holds'[h].state \in Begun
  /\ holds[h].state = "RELEASED" => holds'[h].state = "RELEASED"

Claims(h) == At("claim") /\ h = Hold(proc.kind) /\ holds[h].state = "RESERVED"

Makes(h) == /\ At("prepare") /\ h = Hold(proc.kind)
            /\ holds'[h].request = ResourceOf(proc.kind) /\ holds'[h].state = "RESERVED"

HoldsStep ==
  /\ \A h \in DOMAIN holds : Persists(h) /\ (holds'[h].state \in Begun => holds[h].state \in Begun \/ Claims(h))
  /\ \A h \in DOMAIN holds' : h \notin DOMAIN holds => Makes(h)

LEMMA SameHoldsStep ==
  ASSUME UNCHANGED holds
  PROVE  HoldsStep
BY DEF HoldsStep, Persists

(* One hold gets a new state, or several are given back. *)
LEMMA RowsStep ==
  ASSUME DOMAIN holds' = DOMAIN holds,
         \A h \in DOMAIN holds :
           \/ holds'[h] = holds[h]
           \/ /\ holds'[h].request = holds[h].request
              /\ \/ holds[h].state = "RESERVED" /\ holds'[h].state = "RELEASED"
                 \/ holds[h].state \in {"DISPATCHED", "UNRESOLVED"} /\ holds'[h].state \in {"UNRESOLVED", "SETTLED"}
                 \/ Claims(h) /\ holds'[h].state = "DISPATCHED"
  PROVE  HoldsStep
<1>1. ASSUME NEW h \in DOMAIN holds
      PROVE  Persists(h) /\ (holds'[h].state \in Begun => holds[h].state \in Begun \/ Claims(h))
  <2>1. Claims(h) => holds[h].state = "RESERVED"
    BY DEF Claims
  <2>2. QED
    BY <2>1 DEF Persists, Begun
<1>2. QED
  BY <1>1 DEF HoldsStep

LEMMA HoldFields ==
  ASSUME M!IInv, NEW h \in DOMAIN holds
  PROVE  /\ {"request", "state", "actual"} \subseteq DOMAIN holds[h]
         /\ \A s : LET row == [holds[h] EXCEPT !.state = s] IN row.state = s /\ row.request = holds[h].request
<1>1. holds[h] \in M!HoldRow
  BY DEF M!IInv, M!TypeOK
<1>2. \A row \in M!HoldRow : {"request", "state", "actual"} \subseteq DOMAIN row
  BY DEF M!HoldRow
<1>3. QED
  BY <1>1, <1>2

LEMMA SetStateStep ==
  ASSUME M!IInv, NEW h \in DOMAIN holds, NEW s, SetState(h, s),
         \/ holds[h].state = "RESERVED" /\ s = "RELEASED"
         \/ holds[h].state \in {"DISPATCHED", "UNRESOLVED"} /\ s \in {"UNRESOLVED", "SETTLED"}
         \/ Claims(h) /\ s = "DISPATCHED"
  PROVE  HoldsStep
<1>1. /\ DOMAIN holds' = DOMAIN holds /\ \A g \in DOMAIN holds : g # h => holds'[g] = holds[g]
      /\ holds'[h] = [holds[h] EXCEPT !.state = s]
  BY DEF SetState
<1>2. holds'[h].state = s /\ holds'[h].request = holds[h].request
  BY <1>1, HoldFields
<1>3. QED
  BY <1>1, <1>2, RowsStep

LEMMA SettleStep ==
  ASSUME M!IInv, NEW h, NEW n, Settle(h, n)
  PROVE  HoldsStep
<1>1. h \in DOMAIN holds /\ holds[h].state \in {"DISPATCHED", "UNRESOLVED"}
  BY DEF Settle
<1>2. holds' = [holds EXCEPT ![h].state = "SETTLED", ![h].actual = n]
  BY DEF Settle
<1>3. /\ DOMAIN holds' = DOMAIN holds /\ \A g \in DOMAIN holds : g # h => holds'[g] = holds[g]
      /\ holds'[h] = [[holds[h] EXCEPT !.state = "SETTLED"] EXCEPT !.actual = n]
  BY <1>1, <1>2
<1>4. holds'[h].state = "SETTLED" /\ holds'[h].request = holds[h].request
  BY <1>1, <1>3, HoldFields
<1>5. QED
  BY <1>1, <1>3, <1>4, RowsStep

LEMMA GiveBackStep ==
  ASSUME M!IInv, NEW H, \A h \in H : h \in DOMAIN holds => holds[h].state = "RESERVED",
         holds' = [h \in DOMAIN holds |-> IF h \in H THEN [holds[h] EXCEPT !.state = "RELEASED"] ELSE holds[h]]
  PROVE  HoldsStep
<1>1. \A h \in DOMAIN holds : h \in H => holds'[h].state = "RELEASED" /\ holds'[h].request = holds[h].request
  BY HoldFields
<1>2. QED
  BY <1>1, RowsStep

LEMMA ReleaseStep ==
  ASSUME M!IInv, NEW h, Release(h)
  PROVE  HoldsStep
BY SetStateStep DEF Release, Releasable

LEMMA RefundStep ==
  ASSUME M!IInv, NEW R, ReleaseHolds(R)
  PROVE  HoldsStep
<1>1. PICK H : /\ H = {h \in DOMAIN holds : holds[h].state = "RESERVED" /\ \E b \in R : bids[b].hold = h}
               /\ holds' = [h \in DOMAIN holds |-> IF h \in H THEN [holds[h] EXCEPT !.state = "RELEASED"] ELSE holds[h]]
  BY DEF ReleaseHolds
<1>2. \A h \in H : h \in DOMAIN holds => holds[h].state = "RESERVED"
  BY <1>1
<1>3. QED
  BY <1>1, <1>2, GiveBackStep

LEMMA SweepStep ==
  ASSUME M!IInv, NEW n, NEW scope, Expire(n, scope)
  PROVE  HoldsStep
<1>1. PICK H : /\ H = Expiring(n, scope)
               /\ holds' = [h \in DOMAIN holds |-> IF h \in H THEN [holds[h] EXCEPT !.state = "RELEASED"] ELSE holds[h]]
  BY DEF Expire
<1>2. QED
  BY <1>1, GiveBackStep DEF Expiring

LEMMA ReserveStep ==
  ASSUME NEW h, NEW a, NEW r, NEW n, NEW e, Reserve(a, h, n, r, e), At("prepare"), h = Hold(proc.kind), r = ResourceOf(proc.kind)
  PROVE  HoldsStep
<1>1. /\ DOMAIN holds' = DOMAIN holds \cup {h} /\ h \notin DOMAIN holds
      /\ \A g \in DOMAIN holds : holds'[g] = holds[g]
      /\ holds'[h] = [account |-> a, bound |-> n, request |-> r, expires_at |-> e, state |-> "RESERVED", actual |-> None]
  BY DEF Reserve
<1>2. Makes(h)
  BY <1>1 DEF Makes
<1>3. QED
  BY <1>1, <1>2 DEF HoldsStep, Persists

LEMMA ReleaseOnceStep ==
  ASSUME M!IInv, NEW h, ReleaseOnce(h)
  PROVE  HoldsStep
BY ReleaseStep, SameHoldsStep DEF ReleaseOnce, tables

LEMMA StepHolds ==
  ASSUME EInv, [EngineNext]_engineVars
  PROVE  HoldsStep
<1>1. M!IInv
  BY DEF EInv
<1>2. CASE Prepare
  BY <1>2, ReserveStep, SameHoldsStep DEF Prepare, tables
<1>3. CASE PassOver
  BY <1>1, <1>3, ReleaseOnceStep DEF PassOver
<1>4. CASE GiveBack
  BY <1>1, <1>4, ReleaseOnceStep, SameHoldsStep DEF GiveBack, tables
<1>5. CASE Unverify
  BY <1>1, <1>5, ReleaseStep, SameHoldsStep DEF Unverify, FreeVerification, tables
<1>6. CASE ClaimHold
  <2>1. CASE Dispatch(Hold(proc.kind), now)
    BY <1>1, <1>6, <2>1, SetStateStep DEF Dispatch, Claims, ClaimHold
  <2>2. CASE UNCHANGED tables
    BY <2>2, SameHoldsStep DEF tables
  <2>3. QED
    BY <1>6, <2>1, <2>2 DEF ClaimHold
<1>7. CASE DoubtHold
  BY <1>1, <1>7, SetStateStep DEF DoubtHold, MarkUnresolved
<1>8. CASE SettleHold
  BY <1>1, <1>8, SettleStep DEF SettleHold
<1>9. CASE ClearAuction
  BY <1>1, <1>9, RefundStep, SameHoldsStep DEF ClearAuction, Clear, Refund, tables
<1>10. CASE LapseBids
  BY <1>1, <1>10, RefundStep, SameHoldsStep DEF LapseBids, ExpireBids, Refund, tables
<1>11. CASE SweepRun
  BY <1>1, <1>11, SweepStep, SameHoldsStep DEF SweepRun, tables
<1>12. CASE OpenAuction \/ PlaceBid \/ DeliverAndVerify
  <2>1. UNCHANGED holds
    BY <1>12 DEF OpenAuction, PlaceBid, DeliverAndVerify, Open, Bid, FinishDelivered, tables
  <2>2. QED
    BY <2>1, SameHoldsStep
<1>13. CASE \/ Begin \/ Plan \/ NextItem \/ AskApproval \/ ReviewApproval \/ NextCandidate \/ RecordReceipt
            \/ LeaveUnresolved \/ NoResult \/ Verdict \/ SaveTrace \/ FinishTick \/ Crash \/ UNCHANGED engineVars
  <2>1. UNCHANGED holds
    BY <1>13 DEF Begin, Plan, NextItem, AskApproval, ReviewApproval, NextCandidate, RecordReceipt,
                 LeaveUnresolved, NoResult, Verdict, SaveTrace, FinishTick, Crash, engineVars, tables
  <2>2. QED
    BY <2>1, SameHoldsStep
<1>14. QED
  BY <1>2, <1>3, <1>4, <1>5, <1>6, <1>7, <1>8, <1>9, <1>10, <1>11, <1>12, <1>13 DEF EngineNext, Step

-----------------------------------------------------------------------------
(* Where steps go *)

Dropped == {"WAITING", "ABANDONED", "DENIED"}

(* The step stays with its task. *)
OnSameTask ==
  /\ SamePlace /\ proc.pc \in OnTask /\ proc'.pc \in OnTask \ {"passover"}
  /\ proc.attempts \subseteq proc'.attempts
  /\ proc.pc = "passover" => Execution(Task, now)' = "RELEASED"
  /\ ~ proc.executing /\ proc'.pc \in {"unverify", "save"} =>
       proc'.status \in Dropped \/ (At("unverify") /\ proc'.status = proc.status)
  /\ Reviewing' => Reviewing \/ (At("approval") /\ Cardinality(Reviewed) < ReviewCapacity)
  /\ Bidding' => Bidding \/ Auctions(Task)
  /\ ~ (proc'.pc = "claim" /\ proc'.kind = "execution")

(* The task becomes a candidate. *)
Joins ==
  /\ UNCHANGED <<checkpoint, traces>> /\ proc.pc \in OnTask /\ ~ proc.executing
  /\ proc'.cands = Append(proc.cands, Task) /\ proc'.i = proc.i + 1 /\ proc'.caps = proc.caps
  /\ proc'.executing = FALSE /\ proc'.pc = "item"
  /\ Auctions(Task) => BidOf(Task, now) \in DOMAIN bids'

LEMMA PcNames ==
  /\ OnHold \subseteq OnTask /\ {"giveback", "unverify", "save", "approval", "review", "bid", "executed", "verdict"} \subseteq OnTask
  /\ {"prepare", "claim", "doubt", "record", "settle"} = OnHold
  /\ {"giveback", "unverify", "save", "approval", "review", "bid", "executed", "verdict", "passover", "item"} \cap OnHold = {}
  /\ OnTask \subseteq InPass /\ OnTask \subseteq ProcStates /\ "item" \notin OnTask /\ "candidate" \notin OnTask
  /\ "clear" \notin OnTask /\ "finish" \notin OnTask
  /\ {"item", "clear", "candidate", "finish"} \subseteq InPass
  /\ {"idle", "plan", "open", "lapse", "sweep"} \cap InPass = {}
BY DEF OnHold, OnTask, InPass, ProcStates, FirstPass, SecondPass

(* The row goes to a place that is none of a hold. *)
LEMMA GoesOn ==
  ASSUME proc.pc \in OnTask, SamePlace, proc.attempts \subseteq proc'.attempts,
         proc'.pc \in OnTask \ (OnHold \cup {"passover", "unverify", "save", "review", "bid"}),
         proc.pc # "passover"
  PROVE  OnSameTask
BY PcNames DEF OnSameTask, Reviewing, Bidding, At

LEMMA DoneGoes ==
  ASSUME EInv, NEW t \in Tasks, NEW k \in Ticks, NEW kind \in Kinds, IsHold(t, k, kind), proc.pc \in OnHold, Done(kind),
         UNCHANGED <<checkpoint, traces>>
  PROVE  OnSameTask
<1>1. proc \in ProcRow /\ proc.kind = kind /\ KindOK(t, k, kind) /\ proc.pc \in OnTask /\ proc.pc # "passover"
  BY PcNames DEF EInv, ProcOK, IsHold, HoldOK
<1>2. ASSUME NEW s \in {"WAITING", "ABANDONED"}, Conclude(s)
      PROVE  OnSameTask
  <2>1. s \in Statuses /\ s \in Dropped
    BY DEF Statuses, Dropped
  <2>2. SameRow /\ proc'.pc = "unverify" /\ proc'.status = s /\ proc'.attempts = proc.attempts
    BY <1>1, <1>2, <2>1, ConcludeRow
  <2>3. QED
    BY <1>1, <2>1, <2>2, PcNames DEF OnSameTask, SamePlace, Reviewing, Bidding, At
<1>3. ASSUME NEW l \in {"execution", "retry-2", "retry-3"}, Attempt(l)
      PROVE  OnSameTask
  <2>1. l \in Kinds /\ l \notin {"mandatory_review", "bidding"}
    BY DEF Kinds, Retries
  <2>2. SameRow /\ proc'.pc = "prepare" /\ proc'.kind = l /\ proc'.attempts = proc.attempts
    BY <1>1, <1>3, <2>1, AttemptRow
  <2>3. QED
    BY <1>1, <2>1, <2>2, PcNames DEF OnSameTask, SamePlace, Reviewing, Bidding, At
<1>4. ASSUME NEW pc \in {"approval", "executed", "verdict"}, Goto(pc)
      PROVE  OnSameTask
  <2>1. pc \in ProcStates /\ pc \in OnTask \ (OnHold \cup {"passover", "unverify", "save", "review", "bid"})
    BY PcNames
  <2>2. SameRow /\ proc'.pc = pc /\ proc'.attempts = proc.attempts
    BY <1>1, <1>4, <2>1, GotoRow
  <2>3. QED
    BY <1>1, <2>1, <2>2, GoesOn DEF SamePlace
<1>5. ASSUME NEW pc \in {"review", "bid", "unverify"}, Goto(pc),
             pc = "review" => kind = "mandatory_review", pc = "bid" => kind = "bidding", pc = "unverify" => proc.executing
      PROVE  OnSameTask
  <2>1. pc \in ProcStates /\ pc \in OnTask \ (OnHold \cup {"passover", "save"})
    BY PcNames
  <2>2. SameRow /\ proc'.pc = pc /\ proc'.attempts = proc.attempts
    BY <1>1, <1>5, <2>1, GotoRow
  <2>3. QED
    BY <1>1, <1>5, <2>1, <2>2, PcNames DEF OnSameTask, SamePlace, Reviewing, Bidding, At
<1>6. CASE kind = "planning"
  BY <1>2, <1>3, <1>4, <1>6, KindNames DEF Done
<1>7. CASE kind = "mandatory_review"
  <2>1. Goto("review")
    BY <1>7, KindNames DEF Done
  <2>2. QED
    BY <1>5, <1>7, <2>1
<1>8. CASE kind = "bidding"
  <2>1. Goto("bid")
    BY <1>8, KindNames DEF Done
  <2>2. QED
    BY <1>5, <1>8, <2>1
<1>9. CASE kind \in {"execution", "verification"}
  <2>1. Goto("executed") \/ Goto("verdict")
    BY <1>9, KindNames DEF Done
  <2>2. QED
    BY <1>4, <2>1
<1>10. CASE kind \in Retries
  <2>1. proc.executing
    BY <1>1, <1>10 DEF KindOK
  <2>2. kind \notin {"planning", "mandatory_review", "bidding", "execution", "verification"}
    BY <1>10, KindNames
  <2>3. kind \in {"retry-1", "retry-2", "retry-3"}
    BY <1>10 DEF Retries
  <2>4. Attempt("retry-2") \/ Attempt("retry-3") \/ Goto("unverify")
    BY <1>10, <2>2, <2>3 DEF Done
  <2>5. QED
    BY <1>3, <1>5, <2>1, <2>4
<1>11. QED
  BY <1>6, <1>7, <1>8, <1>9, <1>10 DEF Kinds

LEMMA HoldSteps ==
  ASSUME EInv, ClaimHold \/ DoubtHold \/ RecordReceipt \/ SettleHold
  PROVE  OnSameTask
<1>1. proc.pc \in OnHold /\ UNCHANGED <<checkpoint, traces>> /\ proc \in ProcRow
      /\ (ClaimHold => At("claim")) /\ (RecordReceipt => At("record"))
  BY PcNames DEF ClaimHold, DoubtHold, RecordReceipt, SettleHold, At, EInv, ProcOK
<1>2. PICK t \in Tasks, k \in Ticks, kind \in Kinds : IsHold(t, k, kind)
  BY <1>1, HoldFacts
<1>3. \/ Done(kind)
      \/ (At("claim") \/ At("record")) /\ \E pc \in {"settle", "doubt", "record"} : Goto(pc)
  BY <1>1, <1>2 DEF ClaimHold, DoubtHold, RecordReceipt, SettleHold, IsHold
<1>4. ASSUME NEW pc \in {"settle", "doubt", "record"}, Goto(pc), At("claim") \/ At("record")
      PROVE  OnSameTask
  <2>1. pc \in ProcStates /\ pc \in OnHold /\ pc # "claim"
    BY PcNames
  <2>2. SameRow /\ proc'.pc = pc /\ proc'.kind = proc.kind /\ proc'.attempts = proc.attempts
    BY <1>1, <1>4, <2>1, GotoRow
  <2>3. proc.pc \notin {"passover"} /\ proc.pc \in OnTask /\ pc \in OnTask /\ pc \notin {"passover", "unverify", "save", "review", "bid"}
    BY <1>1, <2>1, PcNames
  <2>4. QED
    BY <1>1, <2>1, <2>2, <2>3 DEF OnSameTask, SamePlace, Reviewing, Bidding, At
<1>5. QED
  BY <1>1, <1>2, <1>3, <1>4, DoneGoes

LEMMA OtherSteps ==
  ASSUME EInv, AskApproval \/ ReviewApproval \/ DeliverAndVerify \/ LeaveUnresolved \/ Verdict \/ GiveBack \/ Unverify
  PROVE  OnSameTask
<1>1. proc.pc \in {"approval", "review", "executed", "verdict", "giveback", "unverify"} /\ UNCHANGED <<checkpoint, traces>>
  BY DEF AskApproval, ReviewApproval, DeliverAndVerify, LeaveUnresolved, Verdict, GiveBack, Unverify, At
<1>2. proc \in ProcRow /\ proc.pc \in OnTask /\ proc.pc # "passover" /\ proc.pc \notin OnHold
      /\ (proc.pc \in {"executed", "verdict"} => proc.executing)
  BY <1>1, PcNames DEF EInv, ProcOK, PassOK, SecondPass
<1>3. ASSUME NEW kind \in {"mandatory_review", "execution"}, Attempt(kind),
             kind = "mandatory_review" => At("approval") /\ Cardinality(Reviewed) < ReviewCapacity
      PROVE  OnSameTask
  <2>1. kind \in Kinds
    BY KindNames
  <2>2. SameRow /\ proc'.pc = "prepare" /\ proc'.kind = kind /\ proc'.attempts = proc.attempts
    BY <1>2, <1>3, <2>1, AttemptRow
  <2>3. QED
    BY <1>1, <1>2, <1>3, <2>2, PcNames DEF OnSameTask, SamePlace, Reviewing, Bidding, At
<1>4. CASE AskApproval
  <2>1. Attempt("execution") \/ (Attempt("mandatory_review") /\ At("approval") /\ Cardinality(Reviewed) < ReviewCapacity)
    BY <1>4 DEF AskApproval
  <2>2. QED
    BY <1>3, <2>1
<1>5. CASE ReviewApproval
  BY <1>3, <1>5 DEF ReviewApproval
<1>6. CASE DeliverAndVerify
  <2>1. SameRow /\ proc'.pc = "claim" /\ proc'.kind = "verification" /\ proc'.attempts = proc.attempts
    BY <1>2, <1>6, KindNames, ExecuteRow DEF DeliverAndVerify
  <2>2. QED
    BY <1>1, <1>2, <2>1, PcNames DEF OnSameTask, SamePlace, Reviewing, Bidding, At
<1>7. CASE LeaveUnresolved
  <2>1. /\ SameRow /\ proc'.attempts = proc.attempts /\ proc.executing
        /\ (proc'.pc = "prepare" /\ proc'.kind = "retry-1") \/ proc'.pc = "unverify"
    BY <1>2, <1>7 DEF LeaveUnresolved, ProcRow, SameRow, At
  <2>2. QED
    BY <1>1, <1>2, <2>1, PcNames DEF OnSameTask, SamePlace, Reviewing, Bidding, At
<1>8. CASE Verdict
  <2>1. SameRow /\ proc'.attempts = proc.attempts /\ proc.executing /\ proc'.pc = "save"
    BY <1>2, <1>8 DEF Verdict, ProcRow, SameRow, At
  <2>2. QED
    BY <1>1, <1>2, <2>1, PcNames DEF OnSameTask, SamePlace, Reviewing, Bidding, At
<1>9. CASE GiveBack
  <2>1. SameRow /\ proc'.attempts = proc.attempts /\ proc'.status = proc.status /\ proc'.pc = "unverify"
    BY <1>2, <1>9, PcNames, GotoRow DEF GiveBack
  <2>2. proc.status \in Dropped
    <3>1. PICK t \in Tasks, k \in Ticks : IsTask(t, k)
      BY <1>2, TaskFacts
    <3>2. QED
      BY <1>9, <3>1 DEF IsTask, TaskOK, ConclusionOK, GiveBack, Dropped
  <2>3. QED
    BY <1>1, <1>2, <2>1, <2>2, PcNames DEF OnSameTask, SamePlace, Reviewing, Bidding, At
<1>10. CASE Unverify
  <2>1. SameRow /\ proc'.attempts = proc.attempts /\ proc'.status = proc.status /\ proc'.pc = "save" /\ At("unverify")
    BY <1>2, <1>10, PcNames, GotoRow DEF Unverify
  <2>2. QED
    BY <1>1, <1>2, <2>1, PcNames DEF OnSameTask, SamePlace, Reviewing, Bidding, At
<1>11. QED
  BY <1>4, <1>5, <1>6, <1>7, <1>8, <1>9, <1>10

LEMMA PassOverStep ==
  ASSUME EInv, PassOver
  PROVE  OnSameTask
<1>1. proc.pc = "passover" /\ UNCHANGED <<checkpoint, traces>> /\ proc \in ProcRow /\ proc.pc \in OnTask /\ proc.executing
  BY DEF PassOver, At, EInv, ProcOK, OnTask, InPass, PassOK, SecondPass
<1>2. SameRow /\ proc'.pc = "unverify" /\ proc'.attempts = proc.attempts
  BY <1>1, ConcludeRow DEF PassOver, Statuses
<1>3. Execution(Task, now)' = "RELEASED"
  <2>1. PICK t \in Tasks, k \in Ticks : IsTask(t, k)
    BY <1>1, TaskFacts
  <2>2. t = Task /\ k = now /\ Hold("execution") = <<t, k, "execution">> /\ "execution" \in Kinds /\ M!IInv
    BY <2>1, KindNames DEF IsTask, Hold, EInv
  <2>3. Execution(t, k)' = "RELEASED"
    <3>1. CASE Release(<<t, k, "execution">>)
      <4>1. Moves(t, k, "execution", "RELEASED")
        BY <2>2, <3>1, ReleaseMoves
      <4>2. QED
        BY <2>2, <4>1 DEF Moves, Execution
    <3>2. CASE State(<<t, k, "execution">>) = "RELEASED" /\ UNCHANGED tables
      BY <3>2 DEF tables, State, Execution
    <3>3. QED
      BY <2>2, <3>1, <3>2 DEF PassOver, ReleaseOnce
  <2>4. Task' = Task /\ now' = now
    BY <1>1, <1>2, SamePlaceFacts DEF SamePlace
  <2>5. QED
    BY <2>2, <2>3, <2>4
<1>4. QED
  BY <1>1, <1>2, <1>3, PcNames DEF OnSameTask, SamePlace, Reviewing, Bidding, At

LEMMA RaiseGoes ==
  ASSUME EInv, proc.pc \in {"prepare", "bid"}, Raise, UNCHANGED <<checkpoint, traces>>
  PROVE  OnSameTask
<1>1. proc \in ProcRow /\ proc.pc \in OnTask /\ proc.pc # "passover"
  BY PcNames DEF EInv, ProcOK
<1>2. CASE proc.executing
  <2>1. SameRow /\ proc'.pc = "unverify" /\ proc'.attempts = proc.attempts
    BY <1>1, <1>2, PcNames, GotoRow DEF Raise
  <2>2. QED
    BY <1>1, <1>2, <2>1, PcNames DEF OnSameTask, SamePlace, Reviewing, Bidding, At
<1>3. CASE ~ proc.executing
  <2>1. SameRow /\ proc'.pc = "giveback" /\ proc'.attempts = proc.attempts
    BY <1>1, <1>3 DEF Raise, SameRow, ProcRow
  <2>2. QED
    BY <1>1, <1>3, <2>1, PcNames DEF OnSameTask, SamePlace, Reviewing, Bidding, At
<1>4. QED
  BY <1>2, <1>3

LEMMA CandidateGoes ==
  ASSUME EInv, proc.pc \in OnTask, ~ proc.executing, Candidate, proc'.pc = "item", UNCHANGED <<checkpoint, traces>>,
         Auctions(Task) => BidOf(Task, now) \in DOMAIN bids'
  PROVE  Joins
<1>1. proc \in ProcRow /\ item.task = Task
  BY HereFacts DEF EInv, ProcOK
<1>2. proc'.cands = Append(proc.cands, Task) /\ proc'.i = proc.i + 1 /\ proc'.caps = proc.caps
      /\ proc'.executing = proc.executing
  BY <1>1 DEF Candidate, ProcRow
<1>3. proc.executing = FALSE
  BY <1>1 DEF ProcRow
<1>4. QED
  BY <1>1, <1>2, <1>3 DEF Joins

LEMMA PreparedGoes ==
  ASSUME EInv, proc.pc = "prepare", NEW t \in Tasks, NEW k \in Ticks, NEW kind \in Kinds, IsHold(t, k, kind),
         Prepared(kind), UNCHANGED <<checkpoint, traces>>
  PROVE  OnSameTask \/ Joins
<1>1. proc \in ProcRow /\ proc.kind = kind /\ proc.pc \in OnTask /\ proc.pc # "passover" /\ t = Task /\ k = now
      /\ (kind \in {"execution", "verification"} => ~ proc.executing /\ item.task = Task)
  BY PcNames DEF EInv, ProcOK, IsHold, HoldOK, At
<1>2. CASE kind = "execution"
  <2>1. proc' = [proc EXCEPT !.kind = "verification", !.attempts = @ \cup {Hold("execution")}]
    BY <1>2, KindNames DEF Prepared
  <2>2. SameRow /\ proc'.pc = "prepare" /\ proc'.kind = "verification" /\ proc.attempts \subseteq proc'.attempts
    BY <1>1, <2>1 DEF SameRow, ProcRow
  <2>3. QED
    BY <1>1, <2>2, PcNames DEF OnSameTask, SamePlace, Reviewing, Bidding, At
<1>3. CASE kind = "verification"
  <2>1. CASE Auctions(item.task)
    <3>1. Attempt("bidding")
      BY <1>3, <2>1, KindNames DEF Prepared
    <3>2. SameRow /\ proc'.pc = "prepare" /\ proc'.kind = "bidding" /\ proc'.attempts = proc.attempts
      BY <1>1, <3>1, KindNames, AttemptRow
    <3>3. Auctions(Task)
      BY <1>1, <1>3, <2>1
    <3>4. QED
      BY <1>1, <3>2, <3>3, PcNames DEF OnSameTask, SamePlace, Reviewing, Bidding, At
  <2>2. CASE ~ Auctions(item.task)
    <3>1. Candidate
      BY <1>3, <2>2, KindNames DEF Prepared
    <3>2. proc'.pc = "item"
      BY <1>1, <3>1 DEF Candidate, ProcRow
    <3>3. QED
      BY <1>1, <1>3, <2>2, <3>1, <3>2, CandidateGoes
  <2>3. QED
    BY <2>1, <2>2
<1>4. CASE kind \in Retries
  <2>1. proc' = [proc EXCEPT !.pc = "claim", !.attempts = @ \cup {Hold(kind)}]
    BY <1>4, KindNames DEF Prepared
  <2>2. SameRow /\ proc'.pc = "claim" /\ proc'.kind = kind /\ proc.attempts \subseteq proc'.attempts
    BY <1>1, <2>1 DEF SameRow, ProcRow
  <2>3. kind \notin {"execution", "mandatory_review", "bidding"}
    BY <1>4, KindNames
  <2>4. QED
    BY <1>1, <2>2, <2>3, PcNames DEF OnSameTask, SamePlace, Reviewing, Bidding, At
<1>5. CASE kind \in {"planning", "mandatory_review", "bidding"}
  <2>1. Goto("claim")
    BY <1>5, KindNames DEF Prepared
  <2>2. SameRow /\ proc'.pc = "claim" /\ proc'.kind = kind /\ proc'.attempts = proc.attempts
    BY <1>1, <2>1, PcNames, GotoRow
  <2>3. QED
    BY <1>1, <1>5, <2>2, PcNames DEF OnSameTask, SamePlace, Reviewing, Bidding, At
<1>6. QED
  BY <1>2, <1>3, <1>4, <1>5 DEF Kinds

LEMMA PrepareGoes ==
  ASSUME EInv, Prepare
  PROVE  OnSameTask \/ Joins
<1>1. proc.pc = "prepare" /\ UNCHANGED <<checkpoint, traces>> /\ proc.pc \in OnHold
  BY PcNames DEF Prepare, At
<1>2. PICK t \in Tasks, k \in Ticks, kind \in Kinds : IsHold(t, k, kind)
  BY <1>1, HoldFacts
<1>3. Prepared(kind) \/ Raise
  BY <1>2 DEF Prepare, IsHold
<1>4. QED
  BY <1>1, <1>2, <1>3, PreparedGoes, RaiseGoes

LEMMA PlaceBidGoes ==
  ASSUME EInv, PlaceBid
  PROVE  OnSameTask \/ Joins
<1>1. proc.pc = "bid" /\ UNCHANGED <<checkpoint, traces>> /\ proc.pc \in OnTask /\ ~ proc.executing /\ proc \in ProcRow
  BY PcNames DEF PlaceBid, At, EInv, ProcOK, PassOK, FirstPass
<1>2. Raise \/ (Candidate /\ BidOf(Task, now) \in DOMAIN bids')
  <2>1. ASSUME NEW b, b = BidOf(Task, now), b \in DOMAIN bids, UNCHANGED tables
        PROVE  b \in DOMAIN bids'
    BY <2>1 DEF tables
  <2>2. ASSUME NEW b, NEW x, NEW a, NEW price, NEW h, NEW n, Bid(b, x, a, price, h, n)
        PROVE  b \in DOMAIN bids'
    BY <2>2 DEF Bid, Insert
  <2>3. ASSUME NEW b, b = BidOf(Task, now)
        PROVE  Raise \/ (Candidate /\ b \in DOMAIN bids')
    BY <2>1, <2>2, <2>3 DEF PlaceBid
  <2>4. QED
    BY <2>3
<1>3. CASE Candidate /\ BidOf(Task, now) \in DOMAIN bids'
  <2>1. proc'.pc = "item"
    BY <1>1, <1>3 DEF Candidate, ProcRow
  <2>2. QED
    BY <1>1, <1>3, <2>1, CandidateGoes
<1>4. QED
  BY <1>1, <1>2, <1>3, RaiseGoes

-----------------------------------------------------------------------------
(* What a claim adds to the executions of a tick *)

(* When a candidate executes, the tasks before it in the plan have their    *)
(* traces: candidates are taken in the order of the plan.                   *)
LEMMA FirstInLine ==
  ASSUME EInv, InOrder, proc.pc \in OnTask, proc.executing, NEW a \in DOMAIN plan, plan[a].task = Task,
         NEW b \in DOMAIN plan, b < a
  PROVE  Taken(plan[b].task)
<1>1. PassOK /\ proc.i \in DOMAIN proc.cands /\ Task = proc.cands[proc.i] /\ CheckpointOK /\ plan # None
  BY HereFacts DEF EInv, World
<1>2. plan[b].task \in Tasks /\ proc.i \in Nat /\ DOMAIN plan = 1 .. Len(plan)
      /\ DOMAIN proc.cands = 1 .. Len(proc.cands) /\ Len(proc.cands) \in Nat /\ Len(plan) \in Nat
  BY <1>1, PlanFacts, ProcFacts DEF EInv
<1>3. SUFFICES ASSUME NEW m \in DOMAIN proc.cands, Ahead(m), proc.cands[m] = plan[b].task
               PROVE  FALSE
  BY <1>1, <1>2 DEF PassOK, CandidatesOK
<1>4. proc.i <= m
  BY <1>3 DEF Ahead
<1>5. plan[b].task # plan[a].task
  BY <1>1, <1>2 DEF CheckpointOK
<1>6. proc.i < m
  BY <1>1, <1>2, <1>3, <1>4, <1>5
<1>7. a < b
  BY <1>1, <1>3, <1>6 DEF InOrder
<1>8. QED
  BY <1>2, <1>7

LEMMA ScarceFacts ==
  ASSUME EInv
  PROVE  /\ \A r, k : IsFiniteSet(Executions(r, k)) /\ Cardinality(Executions(r, k)) \in Nat
         /\ \A r : Counted(r) \subseteq Tasks /\ IsFiniteSet(Counted(r)) /\ Cardinality(Counted(r)) \in Nat
         /\ \A r \in Scarce, k \in Ticks : CapacityAt(r, k) \in Nat
<1>1. DOMAIN traces \subseteq Tasks /\ IsFiniteSet(Tasks)
  BY TasksType DEF EInv, World, TracesOK
<1>2. \A r, k : Executions(r, k) \subseteq Tasks
  BY DEF Executions
<1>3. \A r : Counted(r) \subseteq Tasks
  BY <1>1 DEF Counted
<1>4. \A S : S \subseteq Tasks => IsFiniteSet(S) /\ Cardinality(S) \in Nat
  BY <1>1, FS_Subset, FS_CardinalityType
<1>5. \A r \in Scarce, k \in Ticks : CapacityAt(r, k) \in Nat
  BY EngineAssumption DEF CapacityAt, PremiumAt
<1>6. QED
  BY <1>2, <1>3, <1>4, <1>5

(* Whatever executes at this tick and is not the current task's has its     *)
(* trace, as long as the current one is still to be claimed.                *)
LEMMA ClaimFacts ==
  ASSUME EInv, RequestedOK, FrontOK, InOrder, At("claim"), proc.kind = "execution", Execution(Task, now) = "RESERVED"
  PROVE  /\ proc.executing /\ Task \in Tasks /\ now \in Ticks
         /\ \A r : Executions(r, now) \subseteq Counted(r)
         /\ \A r \in Scarce : r = Chosen(Task) => Holding(r)
<1>1. proc.pc \in OnTask /\ proc.pc \in OnHold /\ proc.pc # "passover" /\ proc.pc # "prepare"
  BY PcNames DEF At
<1>2. PICK t \in Tasks, k \in Ticks, kind \in Kinds : IsHold(t, k, kind)
  BY <1>1, HoldFacts
<1>3. proc.executing /\ t = Task /\ k = now
  BY <1>1, <1>2 DEF IsHold, HoldOK, At
<1>4. ASSUME NEW r, NEW u \in Executions(r, now)
      PROVE  u \in Counted(r)
  <2>1. u \in Tasks /\ State(<<u, now, "execution">>) \in Begun /\ holds[<<u, now, "execution">>].request = r
        /\ Execution(u, now) \in Begun
    BY <1>4 DEF Executions, Execution
  <2>2. State(<<u, now, "execution">>) # "NONE" /\ <<u, now, "execution">> \in DOMAIN holds
    BY <2>1 DEF Begun, State
  <2>3. u \in PlanTasks /\ plan # None
    BY <1>3, <2>1, <2>2, KindNames DEF EInv, World, HoldsInPlan
  <2>4. PICK j \in DOMAIN plan : plan[j].task = u
    BY <2>3 DEF PlanTasks
  <2>5. PICK a \in DOMAIN plan : plan[a].task = Task
    BY <1>1, HereFacts DEF PlanTasks
  <2>6. a \in Int /\ j \in Int
    BY <2>3, <2>4, <2>5, PlanFacts DEF EInv, World
  <2>7. u # Task /\ ~ Taken(Task)
    BY <1>1, <2>1, HereFacts DEF Begun
  <2>8. Taken(u)
    <3>1. CASE j < a
      BY <1>1, <1>3, <2>4, <2>5, <3>1, FirstInLine
    <3>2. CASE a < j
      BY <2>1, <2>3, <2>4, <2>5, <2>7, <3>2 DEF FrontOK
    <3>3. QED
      BY <2>4, <2>5, <2>6, <2>7, <3>1, <3>2
  <2>9. u \in DOMAIN traces /\ traces[u].tick = now
    BY <2>3, <2>8 DEF Taken, EInv, World, TracesOK
  <2>10. traces[u].resource = r
    BY <2>1, <2>2, <2>9 DEF RequestedOK
  <2>11. QED
    BY <2>1, <2>9, <2>10 DEF Counted
<1>5. \A r \in Scarce : r = Chosen(Task) => Holding(r)
  BY <1>1, <1>3 DEF Holding
<1>6. QED
  BY <1>3, <1>4, <1>5

LEMMA BegunStep ==
  ASSUME HoldsStep, NEW t, NEW k, Execution(t, k)' \in Begun
  PROVE  /\ <<t, k, "execution">> \in DOMAIN holds /\ holds'[<<t, k, "execution">>].request = holds[<<t, k, "execution">>].request
         /\ \/ Execution(t, k) \in Begun
            \/ At("claim") /\ proc.kind = "execution" /\ t = Task /\ k = now /\ Execution(t, k) = "RESERVED"
<1> DEFINE h == <<t, k, "execution">>
<1>1. h \in DOMAIN holds' /\ holds'[h].state \in Begun
  BY DEF Execution, State, Begun
<1>2. h \in DOMAIN holds
  <2>1. SUFFICES ASSUME h \notin DOMAIN holds PROVE FALSE
    OBVIOUS
  <2>2. holds'[h].state = "RESERVED"
    BY <1>1, <2>1 DEF HoldsStep, Makes
  <2>3. QED
    BY <1>1, <2>2 DEF Begun
<1>3. holds'[h].request = holds[h].request /\ (holds[h].state \in Begun \/ Claims(h))
  BY <1>1, <1>2 DEF HoldsStep, Persists
<1>4. Execution(t, k) = holds[h].state
  BY <1>2 DEF Execution, State
<1>5. CASE holds[h].state \in Begun
  BY <1>2, <1>3, <1>4, <1>5
<1>6. CASE Claims(h)
  BY <1>2, <1>3, <1>4, <1>6 DEF Claims, Hold
<1>7. QED
  BY <1>3, <1>5, <1>6

LEMMA StillReleased ==
  ASSUME HoldsStep, NEW t, NEW k, Execution(t, k) = "RELEASED"
  PROVE  Execution(t, k)' = "RELEASED"
<1>1. <<t, k, "execution">> \in DOMAIN holds /\ holds[<<t, k, "execution">>].state = "RELEASED"
  BY DEF Execution, State
<1>2. QED
  BY <1>1 DEF HoldsStep, Persists, Execution, State

LEMMA AddOne ==
  ASSUME NEW S, IsFiniteSet(S), NEW x, NEW T, T \subseteq S \cup {x}
  PROVE  /\ IsFiniteSet(T) /\ Cardinality(T) \in Nat /\ Cardinality(S) \in Nat
         /\ Cardinality(T) <= Cardinality(S) + 1
<1>1. PICK U : U = S \cup {x}
  OBVIOUS
<1>2. IsFiniteSet(U) /\ Cardinality(U) = IF x \in S THEN Cardinality(S) ELSE Cardinality(S) + 1
  BY <1>1, FS_AddElement
<1>3. IsFiniteSet(T) /\ Cardinality(T) <= Cardinality(U)
  BY <1>1, <1>2, FS_Subset
<1>4. Cardinality(S) \in Nat /\ Cardinality(T) \in Nat
  BY <1>3, FS_CardinalityType
<1>5. QED
  BY <1>2, <1>3, <1>4

(* With the plan and the traces as they were, a step adds to the executions *)
(* what it claims, and nothing to those that are counted.                   *)
LEMMA TickStays ==
  ASSUME EInv, RequestedOK, FrontOK, ScarceOK, proc.pc \in InPass => InOrder /\ CountersOK, HoldsStep,
         UNCHANGED <<checkpoint, traces>>
  PROVE  /\ RequestedOK' /\ FrontOK' /\ ScarceOK'
         /\ \A r : Counted(r)' \subseteq Counted(r)
<1>1. /\ now' = now /\ plan' = plan /\ traces' = traces /\ \A t : Chosen(t)' = Chosen(t) /\ Taken(t)' = Taken(t)
      /\ (plan # None => now \in Ticks) /\ CheckpointOK
  BY CheckpointStays, PlanFacts DEF EInv, World
<1>2. At("claim") => InOrder /\ CountersOK /\ proc.pc \in OnTask /\ ~ Taken(Task) /\ plan # None
  BY PcNames, HereFacts DEF At
<1> PICK n : n = now
  OBVIOUS
<1>3. RequestedOK'
  <2>1. ASSUME NEW t \in Tasks, <<t, now, "execution">> \in DOMAIN holds'
        PROVE  holds'[<<t, now, "execution">>].request = Chosen(t)
    <3>1. CASE <<t, now, "execution">> \in DOMAIN holds
      BY <2>1, <3>1 DEF HoldsStep, Persists, RequestedOK
    <3>2. CASE <<t, now, "execution">> \notin DOMAIN holds
      <4>1. Makes(<<t, now, "execution">>)
        BY <2>1, <3>2 DEF HoldsStep
      <4>2. t = Task /\ proc.kind = "execution"
        BY <4>1 DEF Makes, Hold
      <4>3. QED
        BY <4>1, <4>2 DEF Makes, ResourceOf
    <3>3. QED
      BY <3>1, <3>2
  <2>2. ASSUME NEW t \in DOMAIN traces, traces[t].tick = n, Execution(t, n)' \in Begun
        PROVE  <<t, now, "execution">> \in traces[t].attempts
    <3>1. t # Task \/ ~ At("claim")
      BY <1>2, <2>2 DEF Taken
    <3>2. Execution(t, n) \in Begun
      BY <2>2, <3>1, BegunStep
    <3>3. QED
      BY <2>2, <3>2 DEF RequestedOK
  <2>3. \A t : Auctions(t)' = Auctions(t)
    BY <1>1 DEF Auctions
  <2>4. now' = n
    BY <1>1
  <2>5. QED
    BY <1>1, <2>1, <2>2, <2>3, <2>4 DEF RequestedOK
<1>4. FrontOK'
  <2>1. SUFFICES ASSUME plan # None, NEW i \in DOMAIN plan, NEW j \in DOMAIN plan, i < j,
                        NEW u, u = plan[j].task, Execution(u, n)' \in Begun, ~ Taken(plan[j].task)
                 PROVE  Taken(plan[i].task)
    BY <1>1 DEF FrontOK
  <2>2. CASE Execution(u, n) \in Begun
    BY <2>1, <2>2 DEF FrontOK
  <2>3. CASE At("claim") /\ proc.kind = "execution" /\ u = Task /\ Execution(u, n) = "RESERVED"
    BY <1>2, <2>1, <2>3, ClaimFacts, FirstInLine
  <2>4. QED
    BY <2>1, <2>2, <2>3, BegunStep
<1>5. ASSUME NEW r
      PROVE  Counted(r)' \subseteq Counted(r)
  <2>1. SUFFICES ASSUME NEW t \in Counted(r)' PROVE t \in Counted(r)
    OBVIOUS
  <2>2. t \in DOMAIN traces /\ traces[t].tick = now /\ traces[t].resource = r /\ Execution(t, n)' \in Begun
    BY <1>1, <2>1 DEF Counted
  <2>3. t # Task \/ ~ At("claim")
    BY <1>2, <2>2 DEF Taken
  <2>4. Execution(t, n) \in Begun
    BY <2>2, <2>3, BegunStep
  <2>5. QED
    BY <2>2, <2>4 DEF Counted
<1>6. ASSUME NEW k \in Ticks, NEW r \in Scarce
      PROVE  Cardinality(Executions(r, k)') <= CapacityAt(r, k)
  <2>1. Cardinality(Executions(r, k)) <= CapacityAt(r, k) /\ Cardinality(Executions(r, k)) \in Nat /\ CapacityAt(r, k) \in Nat
        /\ IsFiniteSet(Executions(r, k))
    BY ScarceFacts DEF ScarceOK
  <2>2. ASSUME NEW t \in Executions(r, k)', t \notin Executions(r, k)
        PROVE  At("claim") /\ proc.kind = "execution" /\ t = Task /\ k = now /\ Execution(t, k) = "RESERVED" /\ r = Chosen(t)
    <3>1. t \in Tasks /\ Execution(t, k)' \in Begun /\ holds'[<<t, k, "execution">>].request = r
      BY <2>2 DEF Executions, Execution
    <3>2. <<t, k, "execution">> \in DOMAIN holds /\ holds[<<t, k, "execution">>].request = r
      BY <3>1, BegunStep
    <3>3. ~ (Execution(t, k) \in Begun)
      BY <2>2, <3>1, <3>2 DEF Executions, Execution
    <3>4. At("claim") /\ proc.kind = "execution" /\ t = Task /\ k = now /\ Execution(t, k) = "RESERVED"
      BY <3>1, <3>3, BegunStep
    <3>5. QED
      BY <3>1, <3>2, <3>4 DEF RequestedOK
  <2>3. CASE Executions(r, k)' \subseteq Executions(r, k)
    <3>1. PICK S : S = Executions(r, k)'
      OBVIOUS
    <3>2. Cardinality(S) <= Cardinality(Executions(r, k)) /\ Cardinality(S) \in Nat
      BY <2>1, <2>3, <3>1, FS_Subset, FS_CardinalityType
    <3>3. QED
      BY <2>1, <3>1, <3>2
  <2>4. ASSUME NEW t \in Executions(r, k)', t \notin Executions(r, k)
        PROVE  Cardinality(Executions(r, k)') <= CapacityAt(r, k)
    <3>1. At("claim") /\ proc.kind = "execution" /\ t = Task /\ k = now /\ Execution(Task, now) = "RESERVED" /\ r = Chosen(Task)
      BY <2>2, <2>4
    <3>2. Executions(r, k) \subseteq Counted(r) /\ Holding(r)
      BY <1>2, <3>1, ClaimFacts
    <3>3. PICK S : S = Executions(r, k)'
      OBVIOUS
    <3>4. S \subseteq Counted(r) \cup {Task}
      BY <2>2, <3>1, <3>2, <3>3
    <3>5. IsFiniteSet(Counted(r)) /\ Cardinality(Counted(r)) \in Nat
      BY ScarceFacts
    <3>6. Cardinality(S) <= Cardinality(Counted(r)) + 1 /\ Cardinality(S) \in Nat
      BY <3>4, <3>5, AddOne
    <3>8. proc.caps[r] >= 0 /\ proc.caps[r] + Cardinality(Counted(r)) + 1 <= CapacityAt(r, k)
      BY <1>2, <3>1, <3>2 DEF CountersOK
    <3>9. proc.caps[r] \in Int
      <4>1. proc.caps \in Counters
        BY <1>2, <3>1, HereFacts DEF PassOK
      <4>2. r \in {"premium", "consultation"}
        BY DEF Scarce
      <4>3. QED
        BY <4>1, <4>2 DEF Counters
    <3>10. QED
      BY <2>1, <3>3, <3>5, <3>6, <3>8, <3>9
  <2>5. QED
    BY <2>3, <2>4
<1>7. ScarceOK'
  BY <1>6 DEF ScarceOK, CapacityAt, PremiumAt
<1>8. QED
  BY <1>3, <1>4, <1>5, <1>7

-----------------------------------------------------------------------------
(* The steps of a pass *)

LEMMA CountersStay ==
  ASSUME EInv, proc.pc \in InPass, CountersOK, UNCHANGED <<checkpoint>>, proc'.caps = proc.caps,
         \A r : Counted(r)' \subseteq Counted(r), \A r \in Scarce : Holding(r)' => Holding(r)
  PROVE  CountersOK'
<1>1. now' = now /\ now \in Ticks /\ proc.caps \in Counters
  BY PassFacts DEF now
<1>2. SUFFICES ASSUME NEW r \in Scarce, NEW n, n = now
               PROVE  /\ Holding(r)' => proc.caps[r] >= 0
                      /\ proc.caps[r] + Cardinality(Counted(r)') + (IF Holding(r)' THEN 1 ELSE 0) <= CapacityAt(r, n)
  BY <1>1 DEF CountersOK, Scarce, CapacityAt, PremiumAt
<1>3. PICK S : S = Counted(r)'
  OBVIOUS
<1>4. IsFiniteSet(Counted(r)) /\ Cardinality(Counted(r)) \in Nat /\ S \subseteq Counted(r) /\ CapacityAt(r, n) \in Nat
  BY <1>1, <1>2, <1>3, ScarceFacts
<1>5. Cardinality(S) <= Cardinality(Counted(r)) /\ Cardinality(S) \in Nat
  BY <1>4, FS_Subset, FS_CardinalityType
<1>6. proc.caps[r] \in Int
  BY <1>1 DEF Counters, Scarce
<1>7. /\ Holding(r) => proc.caps[r] >= 0
      /\ proc.caps[r] + Cardinality(Counted(r)) + (IF Holding(r) THEN 1 ELSE 0) <= CapacityAt(r, n)
  BY <1>2 DEF CountersOK
<1>8. PICK x \in {0, 1} : x = IF Holding(r) THEN 1 ELSE 0
  OBVIOUS
<1>9. PICK y \in {0, 1} : y = IF Holding(r)' THEN 1 ELSE 0
  OBVIOUS
<1>10. y <= x
  BY <1>8, <1>9
<1>11. proc.caps[r] + Cardinality(S) + y <= CapacityAt(r, n)
  BY <1>4, <1>5, <1>6, <1>7, <1>8, <1>10
<1>12. QED
  BY <1>3, <1>7, <1>9, <1>11

LEMMA OrderStays ==
  ASSUME InOrder, UNCHANGED checkpoint, proc'.cands = proc.cands
  PROVE  InOrder'
BY DEF InOrder, plan

LEMMA StopKeepsScarce ==
  ASSUME EInv, ScarceInv, HoldsStep, UNCHANGED <<checkpoint, traces>>, ReviewsOK', proc'.pc \notin InPass
  PROVE  ScarceInv'
<1>1. RequestedOK' /\ FrontOK' /\ ScarceOK'
  BY TickStays DEF ScarceInv
<1>2. QED
  BY <1>1, PcNames DEF ScarceInv

LEMMA SameTaskKeepsScarce ==
  ASSUME EInv, ScarceInv, HoldsStep, ReviewsOK', OnSameTask
  PROVE  ScarceInv'
<1>1. proc.pc \in OnTask /\ proc'.pc \in OnTask \ {"passover"} /\ SamePlace /\ proc.pc \in InPass
      /\ UNCHANGED <<checkpoint, traces>> /\ SameRow
  BY PcNames DEF OnSameTask, SamePlace
<1>2. RequestedOK' /\ FrontOK' /\ ScarceOK' /\ (\A r : Counted(r)' \subseteq Counted(r))
  BY <1>1, TickStays DEF ScarceInv
<1>3. PICK t, n : t = Task /\ n = now
  OBVIOUS
<1>4. Task' = t /\ now' = n /\ Chosen(t)' = Chosen(t)
  BY <1>1, <1>3, SamePlaceFacts
<1>5. ASSUME NEW r \in Scarce, Holding(r)'
      PROVE  Holding(r)
  <2>1. proc.executing /\ Chosen(t) = r /\ Execution(t, n)' # "RELEASED"
    BY <1>1, <1>4, <1>5 DEF Holding, SameRow
  <2>2. Execution(t, n) # "RELEASED"
    BY <2>1, StillReleased
  <2>3. proc.pc # "passover"
    <3>1. proc.pc = "passover" => Execution(Task, now)' = "RELEASED"
      BY DEF OnSameTask
    <3>2. QED
      BY <1>3, <1>4, <2>1, <3>1
  <2>4. QED
    BY <1>1, <1>3, <2>1, <2>2, <2>3 DEF Holding
<1>6. CountersOK'
  BY <1>1, <1>2, <1>5, CountersStay DEF ScarceInv, SameRow
<1>7. InOrder'
  BY <1>1, OrderStays DEF ScarceInv, SameRow
<1>8. AttemptsOK'
  <2>1. proc.executing => <<t, n, "execution">> \in proc'.attempts
    BY <1>1, <1>3 DEF ScarceInv, AttemptsOK, OnSameTask
  <2>2. ~ proc.executing /\ proc'.pc \in {"unverify", "save"} => proc'.status \in {"WAITING", "ABANDONED", "DENIED"}
    BY <1>1 DEF ScarceInv, AttemptsOK, OnSameTask, Dropped, At
  <2>3. QED
    BY <1>1, <1>4, <2>1, <2>2 DEF AttemptsOK, SameRow
<1>9. QED
  BY <1>2, <1>6, <1>7, <1>8 DEF ScarceInv

LEMMA JoinKeepsScarce ==
  ASSUME EInv, ScarceInv, HoldsStep, ReviewsOK', Joins
  PROVE  ScarceInv'
<1>1. proc.pc \in OnTask /\ proc.pc \in InPass /\ proc'.pc = "item" /\ proc'.executing = FALSE /\ ~ proc.executing
      /\ UNCHANGED <<checkpoint, traces>> /\ proc'.caps = proc.caps /\ proc'.pc \notin OnTask
  BY PcNames DEF Joins
<1>2. RequestedOK' /\ FrontOK' /\ ScarceOK' /\ (\A r : Counted(r)' \subseteq Counted(r))
  BY <1>1, TickStays DEF ScarceInv
<1>3. CountersOK'
  <2>1. \A r : ~ Holding(r)'
    BY <1>1 DEF Holding
  <2>2. QED
    BY <1>1, <1>2, <2>1, CountersStay DEF ScarceInv
<1>4. InOrder'
  <2>1. /\ PassOK /\ CheckpointOK /\ plan # None /\ proc.i \in DOMAIN plan /\ Task = plan[proc.i].task /\ Task \in Tasks
        /\ proc.cands \in Seq(Tasks) /\ Len(proc.cands) \in Nat /\ DOMAIN proc.cands = 1 .. Len(proc.cands)
        /\ (\A m \in DOMAIN proc.cands : proc.cands[m] \in Tasks) /\ DOMAIN plan = 1 .. Len(plan)
    BY <1>1, HereFacts, ProcFacts, PlanFacts DEF EInv, World
  <2>2. plan' = plan /\ proc'.cands = Append(proc.cands, Task)
    BY <1>1 DEF Joins, plan
  <2>3. SUFFICES ASSUME NEW m \in DOMAIN Append(proc.cands, Task), NEW n \in DOMAIN Append(proc.cands, Task),
                        NEW i \in DOMAIN plan, NEW j \in DOMAIN plan, m < n,
                        plan[i].task = Append(proc.cands, Task)[m], plan[j].task = Append(proc.cands, Task)[n]
                 PROVE  i < j
    BY <2>2 DEF InOrder
  <2>4. m \in DOMAIN proc.cands /\ Append(proc.cands, Task)[m] = proc.cands[m]
        /\ (n \in DOMAIN proc.cands \/ Append(proc.cands, Task)[n] = Task)
        /\ (n \in DOMAIN proc.cands => Append(proc.cands, Task)[n] = proc.cands[n])
    BY <2>1, <2>3
  <2>5. CASE n \in DOMAIN proc.cands
    BY <1>1, <2>3, <2>4, <2>5 DEF ScarceInv, InOrder
  <2>6. CASE n \notin DOMAIN proc.cands
    <3>1. j = proc.i
      BY <2>1, <2>3, <2>4, <2>6 DEF CheckpointOK
    <3>2. CandidateOK(m, proc.cands[m])
      BY <2>1, <2>4 DEF PassOK, CandidatesOK
    <3>3. PICK b \in DOMAIN plan : b < proc.i /\ plan[b].task = proc.cands[m]
      BY <1>1, <3>2 DEF CandidateOK
    <3>4. b = i
      BY <2>1, <2>3, <2>4, <3>3 DEF CheckpointOK
    <3>5. QED
      BY <3>1, <3>3, <3>4
  <2>7. QED
    BY <2>5, <2>6
<1>5. QED
  BY <1>1, <1>2, <1>3, <1>4 DEF ScarceInv

(* The step turns to the next task, or to the next pass. *)
LEMMA TurnKeepsScarce ==
  ASSUME EInv, ScarceInv, HoldsStep, UNCHANGED <<checkpoint, traces>>, ReviewsOK', proc.pc \in InPass \ OnTask,
         proc'.pc \in InPass, proc'.cands = proc.cands, proc'.caps = proc.caps,
         proc'.pc \in OnTask => ~ proc'.executing /\ proc'.pc \notin {"unverify", "save"}
  PROVE  ScarceInv'
<1>1. RequestedOK' /\ FrontOK' /\ ScarceOK' /\ (\A r : Counted(r)' \subseteq Counted(r))
  BY TickStays DEF ScarceInv
<1>2. \A r : ~ Holding(r)'
  BY DEF Holding
<1>3. CountersOK'
  BY <1>1, <1>2, CountersStay DEF ScarceInv
<1>4. InOrder'
  BY OrderStays DEF ScarceInv
<1>5. proc'.pc \in OnTask => AttemptsOK'
  BY DEF AttemptsOK
<1>6. QED
  BY <1>1, <1>3, <1>4, <1>5 DEF ScarceInv

LEMMA NextItemKeepsScarce ==
  ASSUME EInv, ScarceInv, HoldsStep, ReviewsOK', NextItem
  PROVE  ScarceInv'
<1>1. proc.pc = "item" /\ UNCHANGED <<checkpoint, traces>> /\ proc \in ProcRow /\ ~ proc.executing
  BY PcNames DEF NextItem, At, EInv, ProcOK, PassOK, FirstPass
<1>2. proc'.pc \in {"clear", "item", "prepare"} /\ proc'.cands = proc.cands /\ proc'.caps = proc.caps
      /\ proc'.executing = proc.executing
  BY <1>1 DEF NextItem, ProcRow
<1>3. QED
  BY <1>1, <1>2, PcNames, TurnKeepsScarce

LEMMA ClearKeepsScarce ==
  ASSUME EInv, ScarceInv, HoldsStep, ReviewsOK', ClearAuction
  PROVE  ScarceInv'
<1>1. proc.pc = "clear" /\ UNCHANGED <<checkpoint, traces>> /\ proc \in ProcRow
  BY DEF ClearAuction, At, EInv, ProcOK
<1>2. proc'.pc = "candidate" /\ proc'.cands = proc.cands /\ proc'.caps = proc.caps
  BY <1>1 DEF ClearAuction, ProcRow
<1>3. QED
  BY <1>1, <1>2, PcNames, TurnKeepsScarce

(* A candidate that goes on to its execution takes a unit of the capacity.  *)
LEMMA NextCandidateKeepsScarce ==
  ASSUME EInv, ScarceInv, HoldsStep, ReviewsOK', NextCandidate
  PROVE  ScarceInv'
<1>1. /\ proc.pc = "candidate" /\ UNCHANGED <<checkpoint, traces>> /\ proc \in ProcRow /\ proc.executing = TRUE
      /\ proc.pc \in InPass /\ proc.pc \notin OnTask /\ proc.caps \in Counters
  BY PcNames DEF NextCandidate, At, EInv, ProcOK, PassOK, SecondPass, ProcRow
<1>2. CASE proc.i > Len(proc.cands)
  <2>1. proc'.pc = "finish" /\ proc'.cands = proc.cands /\ proc'.caps = proc.caps
    <3>1. Goto("finish") /\ "finish" \in ProcStates
      BY <1>2 DEF NextCandidate, ProcStates, InPass, SecondPass
    <3>2. QED
      BY <1>1, <3>1, GotoRow DEF SameRow
  <2>2. QED
    BY <1>1, <2>1, PcNames, TurnKeepsScarce
<1>3. CASE ~ (proc.i > Len(proc.cands))
  <2>1. PICK t, n, pc : t = Task /\ n = now /\ pc = IF Allocated(Task) THEN "claim" ELSE "passover"
    OBVIOUS
  <2>2. /\ proc'.pc = pc /\ proc'.cands = proc.cands /\ proc'.i = proc.i /\ proc'.executing = TRUE
        /\ proc'.attempts = {Hold("execution")}
        /\ proc'.caps = [r \in DOMAIN proc.caps |-> IF r = Chosen(Task) /\ ~ Auctions(Task) /\ proc.caps[r] > 0
                                                     THEN proc.caps[r] - 1 ELSE proc.caps[r]]
    BY <1>1, <1>3, <2>1 DEF NextCandidate, ProcRow
  <2>3. Task' = t /\ now' = n /\ Chosen(t)' = Chosen(t)
    <3>1. \A u : Chosen(u)' = Chosen(u)
      BY <1>1, CheckpointStays DEF EInv, World
    <3>2. QED
      BY <1>1, <2>1, <2>2, <3>1 DEF Task, now
  <2>4. RequestedOK' /\ FrontOK' /\ ScarceOK' /\ (\A r : Counted(r)' \subseteq Counted(r))
    BY <1>1, TickStays DEF ScarceInv
  <2>5. InOrder'
    BY <1>1, <2>2, OrderStays DEF ScarceInv
  <2>6. AttemptsOK'
    BY <2>1, <2>2, <2>3 DEF AttemptsOK, Hold
  <2>7. CountersOK'
    <3>1. SUFFICES ASSUME NEW r \in Scarce
                   PROVE  /\ Holding(r)' => proc'.caps[r] >= 0
                          /\ proc'.caps[r] + Cardinality(Counted(r)') + (IF Holding(r)' THEN 1 ELSE 0) <= CapacityAt(r, n)
      BY <2>3 DEF CountersOK, Scarce, CapacityAt, PremiumAt
    <3>2. PICK S : S = Counted(r)'
      OBVIOUS
    <3>3. n \in Ticks /\ IsFiniteSet(Counted(r)) /\ Cardinality(Counted(r)) \in Nat /\ S \subseteq Counted(r)
          /\ CapacityAt(r, n) \in Nat
      BY <1>1, <2>1, <2>4, <3>1, <3>2, ScarceFacts, PassFacts
    <3>4. Cardinality(S) <= Cardinality(Counted(r)) /\ Cardinality(S) \in Nat
      BY <3>3, FS_Subset, FS_CardinalityType
    <3>5. r \in DOMAIN proc.caps /\ proc.caps[r] \in Int
      BY <1>1 DEF Counters, Scarce
    <3>6. proc.caps[r] + Cardinality(Counted(r)) <= CapacityAt(r, n)
      <4>1. ~ Holding(r) /\ CountersOK
        BY <1>1 DEF Holding, ScarceInv
      <4>2. QED
        BY <2>1, <3>3, <3>5, <4>1 DEF CountersOK
    <3>7. CASE Holding(r)'
      <4>1. Chosen(t) = r /\ pc = "claim"
        BY <2>1, <2>2, <2>3, <3>7 DEF Holding
      <4>2. Allocated(t)
        BY <2>1, <4>1
      <4>3. ~ Auctions(t) /\ r # "cheap"
        BY <4>1 DEF Auctions, Scarce
      <4>4. proc.caps[r] > 0
        BY <4>1, <4>2, <4>3 DEF Allocated
      <4>5. proc'.caps[r] = proc.caps[r] - 1
        BY <2>1, <2>2, <3>5, <4>1, <4>3, <4>4
      <4>6. QED
        BY <3>2, <3>3, <3>4, <3>5, <3>6, <3>7, <4>4, <4>5
    <3>8. CASE ~ Holding(r)'
      <4>1. proc'.caps[r] \in Int /\ proc'.caps[r] <= proc.caps[r]
        BY <2>2, <3>5
      <4>2. QED
        BY <3>2, <3>3, <3>4, <3>5, <3>6, <3>8, <4>1
    <3>9. QED
      BY <3>7, <3>8
  <2>8. QED
    BY <2>4, <2>5, <2>6, <2>7 DEF ScarceInv
<1>4. QED
  BY <1>2, <1>3

(* After an interruption the counters start from what the traces say. *)
LEMMA OpenKeepsScarce ==
  ASSUME EInv, ScarceInv, HoldsStep, ReviewsOK', OpenAuction
  PROVE  ScarceInv'
<1>1. /\ proc.pc = "open" /\ UNCHANGED <<checkpoint, traces>> /\ proc.pc \notin InPass /\ plan # None
  BY PcNames DEF OpenAuction, At, EInv, ProcOK
<1>2. /\ proc'.pc = "item" /\ proc'.cands = <<>> /\ proc'.executing = FALSE
      /\ proc'.caps = [premium |-> PremiumAt(now) - Used("premium"),
                       consultation |-> ConsultationCapacity - Used("consultation")]
  BY DEF OpenAuction, Stopped
<1>3. RequestedOK' /\ FrontOK' /\ ScarceOK' /\ (\A r : Counted(r)' \subseteq Counted(r))
  BY <1>1, TickStays DEF ScarceInv
<1>4. InOrder'
  BY <1>2 DEF InOrder
<1>5. CountersOK'
  <2>1. PICK n : n = now /\ now' = n
    BY <1>1 DEF now
  <2>2. SUFFICES ASSUME NEW r \in Scarce
                 PROVE  proc'.caps[r] + Cardinality(Counted(r)') + 0 <= CapacityAt(r, n)
    BY <1>2, <2>1 DEF CountersOK, Scarce, CapacityAt, PremiumAt, Holding
  <2>3. PICK S, U : /\ S = Counted(r)'
                    /\ U = {t \in DOMAIN traces : /\ traces[t].tick = now /\ traces[t].resource = r /\ ~ traces[t].bid
                                                  /\ \E h \in traces[t].attempts : State(h) \in Begun}
    OBVIOUS
  <2>4. S \subseteq U
    <3>1. SUFFICES ASSUME NEW t \in Counted(r) PROVE t \in U
      BY <1>3, <2>3
    <3>2. t \in DOMAIN traces /\ traces[t].tick = now /\ traces[t].resource = r /\ Execution(t, now) \in Begun
      BY DEF Counted
    <3>3. traces[t].resource = Chosen(t) /\ (traces[t].bid => Auctions(t)) /\ <<t, now, "execution">> \in traces[t].attempts
      BY <3>2 DEF ScarceInv, RequestedOK
    <3>4. ~ Auctions(t)
      BY <2>2, <3>2, <3>3 DEF Auctions, Scarce
    <3>5. QED
      BY <2>3, <3>2, <3>3, <3>4 DEF Execution
  <2>5. IsFiniteSet(U) /\ n \in Ticks /\ CapacityAt(r, n) \in Nat
    <3>1. U \subseteq Tasks /\ IsFiniteSet(Tasks)
      BY <2>3, TasksType DEF EInv, World, TracesOK
    <3>2. n \in Ticks
      BY <1>1, <2>1, PlanFacts DEF EInv, World
    <3>3. QED
      BY <2>2, <3>1, <3>2, FS_Subset, ScarceFacts
  <2>6. Cardinality(S) <= Cardinality(U) /\ Cardinality(S) \in Nat /\ Cardinality(U) \in Nat
    BY <2>4, <2>5, FS_Subset, FS_CardinalityType
  <2>7. proc'.caps[r] = CapacityAt(r, n) - Cardinality(U)
    <3>1. Cardinality(U) = Used(r)
      BY <2>3 DEF Used
    <3>2. QED
      BY <1>2, <2>1, <2>2, <3>1 DEF Scarce, CapacityAt
  <2>8. QED
    BY <2>3, <2>5, <2>6, <2>7
<1>6. QED
  BY <1>2, <1>3, <1>4, <1>5, PcNames DEF ScarceInv

LEMMA SaveKeepsScarce ==
  ASSUME EInv, ScarceInv, EInv', ReviewsOK', SaveTrace
  PROVE  ScarceInv'
<1>1. proc.pc = "save" /\ proc.pc \in OnTask /\ proc.pc \in InPass /\ UNCHANGED <<holds, checkpoint>> /\ proc \in ProcRow
      /\ proc.executing \in BOOLEAN
  BY PcNames DEF SaveTrace, At, EInv, ProcOK, ProcRow, tables
<1>2. proc'.pc \in {"candidate", "item"} /\ proc'.cands = proc.cands /\ proc'.caps = proc.caps
  BY <1>1 DEF SaveTrace, ProcRow
<1>3. PICK u, n : u = Task /\ n = now
  OBVIOUS
<1>4. /\ u \in Tasks /\ n \in Ticks /\ ~ Taken(u) /\ now' = n /\ plan' = plan /\ plan # None
      /\ \A t : Chosen(t)' = Chosen(t) /\ Auctions(t)' = Auctions(t)
  BY <1>1, <1>3, HereFacts DEF now, plan, Chosen, Auctions
<1>5. \A t, k : Execution(t, k)' = Execution(t, k)
  BY <1>1 DEF Execution, State
<1>6. /\ DOMAIN traces' = DOMAIN traces \cup {u}
      /\ \A t \in DOMAIN traces : t # u => traces'[t] = traces[t]
      /\ traces'[u] = [tick |-> n, status |-> proc.status, resource |-> Chosen(u), attempts |-> proc.attempts,
                       bid |-> proc.executing /\ Auctions(u)]
  BY <1>3 DEF SaveTrace, Insert
<1>7. Execution(u, n) \in Begun => proc.executing /\ <<u, n, "execution">> \in proc.attempts
  <2>1. Says(u, n, proc.status)
    BY <1>1, <1>3, HereFacts DEF TaskOK, ConclusionOK, At
  <2>2. ~ proc.executing => proc.status \in {"WAITING", "ABANDONED", "DENIED"}
    BY <1>1 DEF ScarceInv, AttemptsOK
  <2>3. proc.status \in {"WAITING", "ABANDONED", "DENIED"} => Execution(u, n) \in {"NONE", "RELEASED"}
    BY <2>1 DEF Says
  <2>4. proc.executing => <<u, n, "execution">> \in proc.attempts
    BY <1>1, <1>3 DEF ScarceInv, AttemptsOK
  <2>5. QED
    BY <2>2, <2>3, <2>4 DEF Begun
<1>8. RequestedOK'
  <2>1. ASSUME NEW t \in Tasks, <<t, n, "execution">> \in DOMAIN holds'
        PROVE  holds'[<<t, n, "execution">>].request = Chosen(t)
    BY <1>1, <1>3, <2>1 DEF ScarceInv, RequestedOK
  <2>2. ASSUME NEW t \in DOMAIN traces', traces'[t].tick = n
        PROVE  /\ traces'[t].resource = Chosen(t)
               /\ traces'[t].bid => Auctions(t)
               /\ Execution(t, n) \in Begun => <<t, n, "execution">> \in traces'[t].attempts
    <3>1. CASE t = u
      <4>1. PICK bid : bid = (proc.executing /\ Auctions(u))
        OBVIOUS
      <4>2. traces'[u] = [tick |-> n, status |-> proc.status, resource |-> Chosen(u), attempts |-> proc.attempts, bid |-> bid]
        BY <1>6, <4>1, Zenon
      <4>3. traces'[u].resource = Chosen(u) /\ traces'[u].attempts = proc.attempts /\ traces'[u].bid = bid
        BY <4>2
      <4>4. traces'[u].bid => Auctions(u)
        BY <4>1, <4>3, Zenon
      <4>5. QED
        BY <1>7, <3>1, <4>3, <4>4
    <3>2. CASE t # u
      BY <1>3, <1>6, <2>2, <3>2 DEF ScarceInv, RequestedOK
    <3>3. QED
      BY <3>1, <3>2
  <2>3. QED
    BY <1>4, <1>5, <2>1, <2>2 DEF RequestedOK
<1>9. \A t : Taken(t) => Taken(t)'
  BY <1>3, <1>4, <1>6 DEF Taken
<1>10. FrontOK'
  <2>1. SUFFICES ASSUME NEW i \in DOMAIN plan, NEW j \in DOMAIN plan, NEW t, t = plan[i].task, NEW v, v = plan[j].task,
                        i < j, Execution(v, n) \in Begun, ~ Taken(v)'
                 PROVE  Taken(t)'
    BY <1>4, <1>5 DEF FrontOK
  <2>2. ~ Taken(v)
    BY <1>9, <2>1
  <2>3. Taken(t)
    BY <1>3, <1>4, <2>1, <2>2 DEF ScarceInv, FrontOK
  <2>4. QED
    BY <1>9, <2>3
<1>11. ScarceOK'
  BY <1>1 DEF ScarceInv, ScarceOK, Executions, State, CapacityAt, PremiumAt
<1>12. InOrder'
  BY <1>1, <1>2, OrderStays DEF ScarceInv
<1>13. CountersOK'
  <2>1. SUFFICES ASSUME NEW r \in Scarce
                 PROVE  proc.caps[r] + Cardinality(Counted(r)') + 0 <= CapacityAt(r, n)
    BY <1>2, <1>4, PcNames DEF CountersOK, Scarce, CapacityAt, PremiumAt, Holding
  <2>2. PICK S : S = Counted(r)'
    OBVIOUS
  <2>3. ASSUME NEW t \in S
        PROVE  t \in Counted(r) \/ (t = u /\ Holding(r))
    <3>1. t \in DOMAIN traces' /\ traces'[t].tick = n /\ traces'[t].resource = r /\ Execution(t, n) \in Begun
      BY <1>4, <1>5, <2>2, <2>3 DEF Counted
    <3>2. CASE t = u
      <4>1. proc.executing /\ Chosen(u) = r /\ Execution(u, n) # "RELEASED"
        BY <1>6, <1>7, <3>1, <3>2 DEF Begun
      <4>2. QED
        BY <1>1, <1>3, <3>2, <4>1 DEF Holding
    <3>3. CASE t # u
      BY <1>3, <1>6, <3>1, <3>3 DEF Counted
    <3>4. QED
      BY <3>2, <3>3
  <2>4. IsFiniteSet(Counted(r)) /\ Cardinality(Counted(r)) \in Nat /\ CapacityAt(r, n) \in Nat
    BY <1>4, <2>1, ScarceFacts
  <2>5. proc.caps[r] \in Int
    <3>1. proc.caps \in Counters
      BY <1>1, PassFacts
    <3>2. QED
      BY <2>1, <3>1 DEF Counters, Scarce
  <2>6. proc.caps[r] + Cardinality(Counted(r)) + (IF Holding(r) THEN 1 ELSE 0) <= CapacityAt(r, n)
    BY <1>1, <1>3, <2>1 DEF ScarceInv, CountersOK
  <2>7. CASE Holding(r)
    <3>1. S \subseteq Counted(r) \cup {u}
      BY <2>3
    <3>2. Cardinality(S) <= Cardinality(Counted(r)) + 1 /\ Cardinality(S) \in Nat
      BY <2>4, <3>1, AddOne
    <3>3. QED
      BY <2>2, <2>4, <2>5, <2>6, <2>7, <3>2
  <2>8. CASE ~ Holding(r)
    <3>1. S \subseteq Counted(r)
      BY <2>3, <2>8
    <3>2. Cardinality(S) <= Cardinality(Counted(r)) /\ Cardinality(S) \in Nat
      BY <2>4, <3>1, FS_Subset, FS_CardinalityType
    <3>3. QED
      BY <2>2, <2>4, <2>5, <2>6, <2>8, <3>2
  <2>9. QED
    BY <2>7, <2>8
<1>14. QED
  BY <1>2, <1>8, <1>10, <1>11, <1>12, <1>13, PcNames DEF ScarceInv

(* Nothing is done yet at a tick that begins. *)
ClearTick == /\ \A t : <<t, now, "execution">> \notin DOMAIN holds
             /\ \A t \in DOMAIN traces : traces[t].tick # now

LEMMA NewTickIsClear == EInv /\ plan = None => ClearTick
<1> SUFFICES ASSUME EInv, plan = None PROVE ClearTick
  OBVIOUS
<1>1. ASSUME NEW t, <<t, now, "execution">> \in DOMAIN holds
      PROVE  FALSE
  <2>1. <<t, now, "execution">> \in Holds /\ State(<<t, now, "execution">>) # "NONE"
    BY <1>1, StateType DEF EInv
  <2>2. t \in Tasks /\ now \in Ticks
    BY <2>1 DEF Holds
  <2>3. QED
    BY <2>1, <2>2, KindNames DEF EInv, World, HoldsInPlan
<1>2. ASSUME NEW t \in DOMAIN traces, traces[t].tick = now
      PROVE  FALSE
  <2>1. now \in Ticks
    BY <1>2 DEF EInv, World, TracesOK, TraceRow
  <2>2. QED
    BY <1>2, <2>1 DEF EInv, World, TracesOK, TraceOK
<1>3. QED
  BY <1>1, <1>2 DEF ClearTick

LEMMA ClearTickIsOK == ClearTick => RequestedOK /\ FrontOK
<1> SUFFICES ASSUME ClearTick PROVE RequestedOK /\ FrontOK
  OBVIOUS
<1> USE DEF ClearTick
<1>1. \A t : ~ (Execution(t, now) \in Begun)
  BY DEF Execution, State, Begun
<1>2. QED
  BY <1>1 DEF RequestedOK, FrontOK

LEMMA PlanKeepsScarce ==
  ASSUME EInv, ScarceInv, ReviewsOK', Plan
  PROVE  ScarceInv'
<1>1. /\ UNCHANGED <<holds, traces>> /\ now' = now /\ plan = None /\ proc'.pc = "open"
  BY PcNames, GotoRow DEF Plan, At, EInv, ProcOK, World, CheckpointOK, tables, now, plan, ProcStates
<1>2. ScarceOK'
  BY <1>1 DEF ScarceInv, ScarceOK, Executions, State, CapacityAt, PremiumAt
<1>3. ClearTick
  BY <1>1, NewTickIsClear
<1>4. ClearTick'
  BY <1>1, <1>3 DEF ClearTick
<1>5. RequestedOK' /\ FrontOK'
  BY <1>4, ClearTickIsOK, PTL
<1>6. QED
  BY <1>1, <1>2, <1>5, PcNames DEF ScarceInv

LEMMA FinishKeepsScarce ==
  ASSUME EInv, ScarceInv, EInv', ReviewsOK', FinishTick
  PROVE  ScarceInv'
<1>1. UNCHANGED holds /\ plan' = None /\ proc'.pc = "lapse"
  BY PcNames, GotoRow DEF FinishTick, EInv, ProcOK, tables, plan, ProcStates
<1>2. ScarceOK'
  BY <1>1 DEF ScarceInv, ScarceOK, Executions, State, CapacityAt, PremiumAt
<1>3. RequestedOK' /\ FrontOK'
  <2>1. (plan = None)'
    BY <1>1
  <2>2. QED
    BY <2>1, NewTickIsClear, ClearTickIsOK, PTL
<1>4. QED
  BY <1>1, <1>2, <1>3, PcNames DEF ScarceInv

LEMMA ReviewsKept ==
  ASSUME ReviewsOK, \A k : Approved(k)' = Approved(k),
         Reviewing' => now' = now /\ Cardinality(Approved(now)) < ReviewCapacity
  PROVE  ReviewsOK'
<1>1. \A k \in Ticks : Cardinality(Approved(k)') <= ReviewCapacity
  BY DEF ReviewsOK
<1>2. ASSUME Reviewing', NEW n, n = now
      PROVE  now' = n /\ Cardinality(Approved(n)') < ReviewCapacity
  BY <1>2
<1>3. QED
  BY <1>1, <1>2 DEF ReviewsOK

LEMMA ReviewsStay ==
  ASSUME ReviewsOK, UNCHANGED approvals, Reviewing' => now' = now /\ Cardinality(Approved(now)) < ReviewCapacity
  PROVE  ReviewsOK'
BY ReviewsKept DEF Approved

LEMMA ReviewIsOnce ==
  ASSUME EInv, ReviewsOK, ReviewApproval
  PROVE  ReviewsOK'
<1>1. proc.pc = "review" /\ proc \in ProcRow /\ proc.pc \in OnTask /\ DOMAIN approvals \subseteq Tasks \X Ticks
  BY PcNames DEF ReviewApproval, At, EInv, ProcOK, World, ApprovalsOK
<1>2. PICK t \in Tasks, n \in Ticks : t = Task /\ n = now
  BY <1>1, HereFacts
<1>3. approvals' = [approvals EXCEPT ![<<t, n>>] = "APPROVED"] /\ proc'.pc = "prepare" /\ proc'.kind = "execution"
  BY <1>1, <1>2, KindNames, AttemptRow DEF ReviewApproval
<1>4. ~ Reviewing'
  BY <1>3 DEF Reviewing, At
<1>5. Cardinality(Approved(n)) < ReviewCapacity
  BY <1>1, <1>2 DEF ReviewsOK, Reviewing, At
<1>6. ReviewCapacity \in Nat /\ IsFiniteSet(Tasks \X Ticks)
  BY EngineAssumption, TasksType, FS_Product
<1>7. ASSUME NEW k \in Ticks
      PROVE  Cardinality(Approved(k)') <= ReviewCapacity
  <2>1. IsFiniteSet(Approved(k)) /\ Cardinality(Approved(k)) \in Nat /\ Cardinality(Approved(k)) <= ReviewCapacity
    <3>1. Approved(k) \subseteq Tasks \X Ticks
      BY <1>1 DEF Approved
    <3>2. QED
      BY <1>6, <3>1, FS_Subset, FS_CardinalityType DEF ReviewsOK
  <2>2. PICK S : S = Approved(k)'
    OBVIOUS
  <2>3. S \subseteq Approved(k) \cup {<<t, n>>} /\ (k # n => S \subseteq Approved(k))
    BY <1>3, <2>2 DEF Approved
  <2>4. CASE k = n
    <3>1. Cardinality(S) <= Cardinality(Approved(k)) + 1 /\ Cardinality(S) \in Nat
      BY <2>1, <2>3, AddOne
    <3>2. QED
      BY <1>5, <1>6, <2>1, <2>2, <2>4, <3>1
  <2>5. CASE k # n
    <3>1. Cardinality(S) <= Cardinality(Approved(k)) /\ Cardinality(S) \in Nat
      BY <2>1, <2>3, <2>5, FS_Subset, FS_CardinalityType
    <3>2. QED
      BY <1>6, <2>1, <2>2, <3>1
  <2>6. QED
    BY <2>4, <2>5
<1>8. QED
  BY <1>4, <1>7 DEF ReviewsOK

LEMMA AskedIsPending ==
  ASSUME AskApproval
  PROVE  \A k : Approved(k)' = Approved(k)
<1>1. PICK p, s : p = <<Task, now>> /\ s = IF p \in DOMAIN approvals THEN approvals[p] ELSE "PENDING"
  OBVIOUS
<1>2. /\ DOMAIN approvals' = DOMAIN approvals \cup {p} /\ approvals'[p] = s
      /\ \A q \in DOMAIN approvals : q # p => approvals'[q] = approvals[q]
  BY <1>1 DEF AskApproval, Insert
<1>3. QED
  BY <1>1, <1>2 DEF Approved

LEMMA SameTaskReviews ==
  ASSUME ReviewsOK, OnSameTask, \A k : Approved(k)' = Approved(k)
  PROVE  ReviewsOK'
<1>1. now' = now
  BY DEF OnSameTask, SamePlace, now
<1>2. Reviewing' => Cardinality(Approved(now)) < ReviewCapacity
  BY DEF ReviewsOK, OnSameTask, Approved, Reviewed
<1>3. QED
  BY <1>1, <1>2, ReviewsKept

LEMMA OtherReviews ==
  ASSUME EInv, ReviewsOK, UNCHANGED approvals, ~ Reviewing'
  PROVE  ReviewsOK'
BY ReviewsStay

LEMMA ScarceInductive == EInv /\ ScarceInv /\ [EngineNext]_engineVars => ScarceInv'
<1> SUFFICES ASSUME EInv, ScarceInv, [EngineNext]_engineVars PROVE ScarceInv'
  OBVIOUS
<1>1. HoldsStep /\ EInv' /\ ReviewsOK /\ proc \in ProcRow
  BY StepHolds, EngineInductive DEF ScarceInv, EInv, ProcOK
<1>2. ASSUME OnSameTask, UNCHANGED approvals
      PROVE  ScarceInv'
  <2>1. \A k : Approved(k)' = Approved(k)
    BY <1>2 DEF Approved
  <2>2. QED
    BY <1>1, <1>2, <2>1, SameTaskReviews, SameTaskKeepsScarce
<1>3. ASSUME Joins, UNCHANGED approvals
      PROVE  ScarceInv'
  <2>1. ~ Reviewing'
    BY <1>3, PcNames DEF Joins, Reviewing, At
  <2>2. QED
    BY <1>1, <1>3, <2>1, OtherReviews, JoinKeepsScarce
<1>4. ASSUME UNCHANGED <<approvals, checkpoint, traces>>, proc'.pc \notin InPass
      PROVE  ScarceInv'
  <2>1. ~ Reviewing'
    BY <1>4, PcNames DEF Reviewing, At
  <2>2. QED
    BY <1>1, <1>4, <2>1, OtherReviews, StopKeepsScarce
<1>5. CASE Prepare
  BY <1>2, <1>3, <1>5, PrepareGoes DEF Prepare
<1>6. CASE PlaceBid
  BY <1>2, <1>3, <1>6, PlaceBidGoes DEF PlaceBid
<1>7. CASE ClaimHold \/ DoubtHold \/ RecordReceipt \/ SettleHold
  <2>1. OnSameTask
    BY <1>7, HoldSteps
  <2>2. UNCHANGED approvals
    BY <1>7 DEF ClaimHold, DoubtHold, RecordReceipt, SettleHold
  <2>3. QED
    BY <1>2, <2>1, <2>2
<1>8. CASE DeliverAndVerify \/ LeaveUnresolved \/ Verdict \/ GiveBack \/ Unverify
  <2>1. OnSameTask
    BY <1>8, OtherSteps
  <2>2. UNCHANGED approvals
    BY <1>8 DEF DeliverAndVerify, LeaveUnresolved, Verdict, GiveBack, Unverify
  <2>3. QED
    BY <1>2, <2>1, <2>2
<1>9. CASE AskApproval
  <2>1. OnSameTask
    BY <1>9, OtherSteps
  <2>2. ReviewsOK'
    BY <1>1, <1>9, <2>1, AskedIsPending, SameTaskReviews
  <2>3. QED
    BY <1>1, <2>1, <2>2, SameTaskKeepsScarce
<1>10. CASE ReviewApproval
  <2>1. OnSameTask
    BY <1>10, OtherSteps
  <2>2. ReviewsOK'
    BY <1>1, <1>10, ReviewIsOnce
  <2>3. QED
    BY <1>1, <2>1, <2>2, SameTaskKeepsScarce
<1>11. CASE PassOver
  BY <1>2, <1>11, PassOverStep DEF PassOver
<1>12. CASE NextItem
  <2>1. proc'.pc \in {"clear", "item"} \/ (proc'.pc = "prepare" /\ proc'.kind = "planning")
    BY <1>1, <1>12 DEF NextItem, ProcRow, At
  <2>2. ~ Reviewing'
    BY <2>1, PcNames DEF Reviewing, At
  <2>3. ReviewsOK'
    BY <1>1, <1>12, <2>2, OtherReviews DEF NextItem
  <2>4. QED
    BY <1>1, <1>12, <2>3, NextItemKeepsScarce
<1>13. CASE ClearAuction
  <2>1. proc'.pc = "candidate"
    BY <1>1, <1>13 DEF ClearAuction, ProcRow
  <2>2. ~ Reviewing'
    BY <2>1, PcNames DEF Reviewing, At
  <2>3. ReviewsOK'
    BY <1>1, <1>13, <2>2, OtherReviews DEF ClearAuction
  <2>4. QED
    BY <1>1, <1>13, <2>3, ClearKeepsScarce
<1>14. CASE NextCandidate
  <2>1. proc'.pc = "finish" \/ (proc'.pc \in {"claim", "passover"} /\ proc'.kind = "execution")
    <3>1. Goto("finish") => proc'.pc = "finish"
      BY <1>1 DEF Goto, ProcRow
    <3>2. QED
      BY <1>1, <1>14, <3>1 DEF NextCandidate, ProcRow
  <2>2. ~ Reviewing'
    BY <2>1, PcNames DEF Reviewing, At, OnHold
  <2>3. ReviewsOK'
    BY <1>1, <1>14, <2>2, OtherReviews DEF NextCandidate
  <2>4. QED
    BY <1>1, <1>14, <2>3, NextCandidateKeepsScarce
<1>15. CASE OpenAuction
  <2>1. proc'.pc = "item"
    BY <1>15 DEF OpenAuction, Stopped
  <2>2. ~ Reviewing'
    BY <2>1, PcNames DEF Reviewing, At
  <2>3. ReviewsOK'
    BY <1>1, <1>15, <2>2, OtherReviews DEF OpenAuction
  <2>4. QED
    BY <1>1, <1>15, <2>3, OpenKeepsScarce
<1>16. CASE SaveTrace
  <2>1. proc'.pc \in {"candidate", "item"}
    BY <1>1, <1>16 DEF SaveTrace, ProcRow
  <2>2. ~ Reviewing'
    BY <2>1, PcNames DEF Reviewing, At, OnHold
  <2>3. ReviewsOK'
    BY <1>1, <1>16, <2>2, OtherReviews DEF SaveTrace
  <2>4. QED
    BY <1>1, <1>16, <2>3, SaveKeepsScarce
<1>17. CASE Plan
  <2>1. proc'.pc = "open"
    BY <1>1, <1>17 DEF Plan, Goto, ProcRow
  <2>2. ~ Reviewing'
    BY <2>1 DEF Reviewing, At, OnHold
  <2>3. ReviewsOK'
    BY <1>1, <1>17, <2>2, OtherReviews DEF Plan
  <2>4. QED
    BY <1>17, <2>3, PlanKeepsScarce
<1>18. CASE FinishTick
  <2>1. proc'.pc = "lapse"
    BY <1>1, <1>18 DEF FinishTick, Goto, ProcRow
  <2>2. ~ Reviewing'
    BY <2>1 DEF Reviewing, At, OnHold
  <2>3. ReviewsOK'
    BY <1>1, <1>18, <2>2, OtherReviews DEF FinishTick
  <2>4. QED
    BY <1>1, <1>18, <2>3, FinishKeepsScarce
<1>19. CASE Begin \/ NoResult \/ LapseBids \/ SweepRun \/ Crash
  <2>1. proc'.pc \in {"plan", "open", "idle", "sweep"}
    <3>1. \A pc : Goto(pc) => proc'.pc = pc
      BY <1>1 DEF Goto, ProcRow
    <3>2. QED
      BY <1>19, <3>1 DEF Begin, NoResult, LapseBids, SweepRun, Crash, Stopped
  <2>2. proc'.pc \notin InPass
    BY <2>1, PcNames
  <2>3. UNCHANGED <<approvals, checkpoint, traces>>
    BY <1>19 DEF Begin, NoResult, LapseBids, SweepRun, Crash
  <2>4. QED
    BY <1>4, <2>2, <2>3
<1>20. CASE UNCHANGED engineVars
  <2>1. UNCHANGED <<holds, approvals, checkpoint, traces, proc>>
    BY <1>20 DEF engineVars, tables
  <2>2. RequestedOK' /\ FrontOK' /\ ScarceOK' /\ (\A r : Counted(r)' \subseteq Counted(r))
    BY <1>1, <2>1, TickStays DEF ScarceInv
  <2>3. Reviewing' = Reviewing /\ now' = now
    BY <2>1 DEF Reviewing, At, now
  <2>4. ReviewsOK'
    BY <1>1, <2>1, <2>3, ReviewsStay DEF ReviewsOK
  <2>5. Task' = Task /\ \A t, k : Execution(t, k)' = Execution(t, k) /\ Chosen(t)' = Chosen(t)
    BY <2>1 DEF Task, item, Execution, State, Chosen
  <2>6. \A r : Holding(r)' = Holding(r)
    BY <2>1, <2>3, <2>5 DEF Holding, now, Task, item, Execution, State, Chosen
  <2>7. proc.pc \in InPass => InOrder' /\ CountersOK'
    BY <2>1, <2>2, <2>6, OrderStays, CountersStay DEF ScarceInv
  <2>8. proc.pc \in OnTask => AttemptsOK'
    BY <2>1, <2>3, <2>5 DEF ScarceInv, AttemptsOK
  <2>9. QED
    BY <2>1, <2>2, <2>4, <2>7, <2>8 DEF ScarceInv
<1>21. QED
  BY <1>5, <1>6, <1>7, <1>8, <1>9, <1>10, <1>11, <1>12, <1>13, <1>14, <1>15, <1>16, <1>17, <1>18, <1>19, <1>20
  DEF EngineNext, Step

LEMMA ScarceInitial == EngineInit => ScarceInv
<1> SUFFICES ASSUME EngineInit PROVE ScarceInv
  OBVIOUS
<1>1. holds = [h \in {} |-> {}] /\ approvals = [p \in {} |-> {}] /\ traces = [t \in {} |-> {}] /\ proc = Stopped
      /\ plan = None
  BY DEF EngineInit, plan
<1>2. DOMAIN holds = {} /\ DOMAIN traces = {} /\ DOMAIN approvals = {} /\ proc.pc = "idle"
  BY <1>1 DEF Stopped
<1>3. RequestedOK /\ FrontOK
  BY <1>2, ClearTickIsOK DEF ClearTick
<1>4. ScarceOK
  <2>1. \A r, k : Executions(r, k) = {}
    BY <1>2 DEF Executions, State, Begun
  <2>2. \A r \in Scarce, k \in Ticks : CapacityAt(r, k) \in Nat
    BY EngineInitial, ScarceFacts
  <2>3. QED
    BY <2>1, <2>2, FS_EmptySet DEF ScarceOK
<1>5. ReviewsOK
  <2>1. \A k : Approved(k) = {}
    BY <1>2 DEF Approved
  <2>2. ~ Reviewing
    BY <1>2, PcNames DEF Reviewing, At, OnHold
  <2>3. QED
    BY <2>1, <2>2, FS_EmptySet, EngineAssumption DEF ReviewsOK
<1>6. QED
  BY <1>2, <1>3, <1>4, <1>5, PcNames DEF ScarceInv

-----------------------------------------------------------------------------
(* What steps do to bids and auctions *)

LEMMA BidOfOne ==
  ASSUME NEW t \in Tasks, NEW u \in Tasks, NEW j \in Ticks, NEW k \in Ticks, BidOf(t, j) = BidOf(u, k)
  PROVE  t = u /\ j = k
<1>1. NTasks \in Nat /\ t \in 1 .. NTasks /\ u \in 1 .. NTasks /\ j \in Nat /\ k \in Nat
  BY TasksType DEF Tasks, Ticks
<1>2. ASSUME NEW m \in Nat, NEW n \in Nat, m < n, NEW v \in 1 .. NTasks, NEW w \in 1 .. NTasks
      PROVE  m * NTasks + v # n * NTasks + w
  <2>1. (m + 1) * NTasks <= n * NTasks
    BY <1>1, <1>2
  <2>2. (m + 1) * NTasks = m * NTasks + NTasks /\ m * NTasks \in Nat /\ n * NTasks \in Nat
    BY <1>1
  <2>3. QED
    BY <1>1, <1>2, <2>1, <2>2
<1>3. j = k
  BY <1>1, <1>2 DEF BidOf
<1>4. j * NTasks \in Nat
  BY <1>1
<1>5. QED
  BY <1>1, <1>3, <1>4 DEF BidOf

(* A bid keeps its terms; an award is only ever taken back from work that   *)
(* never began.                                                             *)
BidStays(b) ==
  /\ b \in DOMAIN bids' /\ bids'[b].auction = bids[b].auction /\ bids'[b].price = bids[b].price
  /\ bids'[b].hold = bids[b].hold
  /\ bids[b].state \in Awarded => bids'[b].state \in Awarded \/ (At("lapse") /\ NeverBegan(bids[b].hold))

NewBid(b) ==
  /\ At("bid") /\ b = BidOf(Task, now) /\ now \in DOMAIN auctions
  /\ bids'[b] = [auction |-> now, agent |-> Agent(Task), price |-> item.price, hold |-> Hold("execution"), state |-> "ESCROWED"]

Wins(b) ==
  /\ now \in DOMAIN auctions /\ auctions[now].state = "OPEN" /\ b \in Winners(now, now)
  /\ auctions'[now].state = "CLEARED"

BidsStep ==
  /\ \A b \in DOMAIN bids : BidStays(b) /\ (bids'[b].state \in Awarded => bids[b].state \in Awarded \/ Wins(b))
  /\ \A b \in DOMAIN bids' : b \notin DOMAIN bids => NewBid(b)

AuctionsStep ==
  /\ \A x \in DOMAIN auctions :
       /\ x \in DOMAIN auctions' /\ auctions'[x] \in AuctionRow /\ auctions'[x].capacity = auctions[x].capacity
       /\ auctions'[x].state = "OPEN" => auctions[x].state = "OPEN"
  /\ \A x \in DOMAIN auctions' : x \notin DOMAIN auctions =>
       At("open") /\ x = now /\ auctions'[x] = [capacity |-> PremiumAt(now), expires_at |-> now + 2, state |-> "OPEN"]

LEMMA SameBidsStep ==
  ASSUME UNCHANGED bids
  PROVE  BidsStep
BY DEF BidsStep, BidStays

LEMMA SameAuctionsStep ==
  ASSUME AuctionsFit, UNCHANGED auctions
  PROVE  AuctionsStep
BY DEF AuctionsStep, AuctionsFit

LEMMA BidFields ==
  ASSUME BidsOK, NEW b \in DOMAIN bids, NEW s
  PROVE  LET row == [bids[b] EXCEPT !.state = s]
         IN  row.state = s /\ row.auction = bids[b].auction /\ row.price = bids[b].price /\ row.hold = bids[b].hold
<1>1. bids[b] \in [auction: Ticks, agent: Agents, price: Prices \cup {None}, hold: Tasks \X Ticks \X {"execution"}, state: BidStates]
  BY DEF BidsOK
<1>2. QED
  BY <1>1

LEMMA StepBids ==
  ASSUME EInv, AuctionsFit, [EngineNext]_engineVars
  PROVE  BidsStep
<1>1. BidsOK
  BY DEF EInv, World
<1>2. CASE PlaceBid
  <2>1. CASE UNCHANGED tables
    BY <2>1, SameBidsStep DEF tables
  <2>2. ASSUME NEW b, b = BidOf(Task, now), Bid(b, now, Agent(Task), item.price, Hold("execution"), now), At("bid")
        PROVE  BidsStep
    <3>1. /\ DOMAIN bids' = DOMAIN bids \cup {b} /\ \A c \in DOMAIN bids : bids'[c] = bids[c]
          /\ bids'[b] = [auction |-> now, agent |-> Agent(Task), price |-> item.price, hold |-> Hold("execution"), state |-> "ESCROWED"]
      BY <2>2 DEF Bid, Insert
    <3>2. NewBid(b)
      BY <2>2, <3>1 DEF NewBid, Bid, Admissible
    <3>3. QED
      BY <3>1, <3>2 DEF BidsStep, BidStays
  <2>3. QED
    BY <1>2, <2>1, <2>2 DEF PlaceBid
<1>3. CASE ClearAuction
  <2>1. CASE UNCHANGED tables
    BY <2>1, SameBidsStep DEF tables
  <2>2. CASE Clear(now, now)
    <3>1. PICK W, X : W = Winners(now, now) /\ X = Escrowed(now)
      OBVIOUS
    <3>2. /\ now \in DOMAIN auctions /\ auctions[now].state = "OPEN"
          /\ bids' = [b \in DOMAIN bids |-> IF b \in W THEN [bids[b] EXCEPT !.state = "ALLOCATED"]
                                            ELSE IF b \in X THEN [bids[b] EXCEPT !.state = "LOST"] ELSE bids[b]]
          /\ auctions' = [auctions EXCEPT ![now].state = "CLEARED"]
      BY <2>2, <3>1 DEF Clear
    <3>3. \A b \in W : b \in X
      BY <3>1 DEF Winners, Eligible
    <3>4. \A b \in X : b \in DOMAIN bids /\ bids[b].state = "ESCROWED"
      BY <3>1 DEF Escrowed
    <3>5. auctions'[now].state = "CLEARED"
      <4>1. auctions[now] \in AuctionRow
        BY <3>2 DEF AuctionsFit
      <4>2. auctions'[now] = [auctions[now] EXCEPT !.state = "CLEARED"]
        BY <3>2
      <4>3. QED
        BY <4>1, <4>2 DEF AuctionRow
    <3>6. ASSUME NEW b \in DOMAIN bids
          PROVE  BidStays(b) /\ (bids'[b].state \in Awarded => bids[b].state \in Awarded \/ Wins(b))
      <4>1. CASE b \in W
        <5>1. bids'[b] = [bids[b] EXCEPT !.state = "ALLOCATED"] /\ bids[b].state = "ESCROWED"
          BY <3>2, <3>3, <3>4, <4>1
        <5>2. BidStays(b)
          BY <1>1, <3>2, <5>1, BidFields DEF BidStays, Awarded
        <5>3. Wins(b)
          BY <3>1, <3>2, <3>5, <4>1 DEF Wins
        <5>4. QED
          BY <5>2, <5>3
      <4>2. CASE b \in X \ W
        <5>1. bids'[b] = [bids[b] EXCEPT !.state = "LOST"] /\ bids[b].state = "ESCROWED"
          BY <3>2, <3>4, <4>2
        <5>2. /\ bids'[b].state = "LOST" /\ bids'[b].auction = bids[b].auction /\ bids'[b].price = bids[b].price
              /\ bids'[b].hold = bids[b].hold
          BY <1>1, <5>1, BidFields
        <5>3. QED
          BY <3>2, <5>1, <5>2 DEF BidStays, Awarded
      <4>3. CASE b \notin X
        <5>1. bids'[b] = bids[b]
          BY <3>2, <3>3, <4>3
        <5>2. QED
          BY <3>2, <5>1 DEF BidStays
      <4>4. QED
        BY <4>1, <4>2, <4>3
    <3>7. QED
      BY <3>2, <3>6 DEF BidsStep
  <2>3. QED
    BY <1>3, <2>1, <2>2 DEF ClearAuction
<1>4. CASE DeliverAndVerify
  <2>1. CASE UNCHANGED tables
    BY <2>1, SameBidsStep DEF tables
  <2>2. ASSUME NEW b, FinishDelivered(b)
        PROVE  BidsStep
    <3>1. /\ b \in DOMAIN bids /\ bids[b].state = "ALLOCATED" /\ DOMAIN bids' = DOMAIN bids
          /\ \A c \in DOMAIN bids : c # b => bids'[c] = bids[c]
          /\ bids'[b] = [bids[b] EXCEPT !.state = "DELIVERED"]
      BY <2>2 DEF FinishDelivered
    <3>2. BidStays(b) /\ bids[b].state \in Awarded
      BY <1>1, <3>1, BidFields DEF BidStays, Awarded
    <3>3. QED
      BY <3>1, <3>2 DEF BidsStep, BidStays
  <2>3. QED
    BY <1>4, <2>1, <2>2 DEF DeliverAndVerify
<1>5. CASE LapseBids
  <2>1. CASE UNCHANGED tables
    BY <2>1, SameBidsStep DEF tables
  <2>2. CASE ExpireBids(now, Run)
    <3>1. PICK E : /\ E = Expirable(now, Run)
                   /\ bids' = [b \in DOMAIN bids |-> IF b \in E THEN [bids[b] EXCEPT !.state = "EXPIRED"] ELSE bids[b]]
      BY <2>2 DEF ExpireBids
    <3>2. \A b \in E : NeverBegan(bids[b].hold)
      BY <3>1 DEF Expirable
    <3>3. ASSUME NEW b \in DOMAIN bids
          PROVE  BidStays(b) /\ (bids'[b].state \in Awarded => bids[b].state \in Awarded)
      <4>1. CASE b \in E
        <5>1. bids'[b] = [bids[b] EXCEPT !.state = "EXPIRED"]
          BY <3>1, <4>1
        <5>2. /\ bids'[b].state = "EXPIRED" /\ bids'[b].auction = bids[b].auction /\ bids'[b].price = bids[b].price
              /\ bids'[b].hold = bids[b].hold
          BY <1>1, <5>1, BidFields
        <5>3. QED
          BY <1>5, <3>1, <3>2, <4>1, <5>2 DEF BidStays, Awarded, LapseBids
      <4>2. CASE b \notin E
        BY <3>1, <4>2 DEF BidStays
      <4>3. QED
        BY <4>1, <4>2
    <3>4. QED
      BY <3>1, <3>3 DEF BidsStep
  <2>3. QED
    BY <1>5, <2>1, <2>2 DEF LapseBids
<1>6. CASE \/ Begin \/ Plan \/ NextItem \/ AskApproval \/ ReviewApproval \/ NextCandidate \/ RecordReceipt
           \/ LeaveUnresolved \/ NoResult \/ Verdict \/ SaveTrace \/ FinishTick \/ Crash \/ UNCHANGED engineVars
  <2>1. UNCHANGED bids
    BY <1>6 DEF Begin, Plan, NextItem, AskApproval, ReviewApproval, NextCandidate, RecordReceipt,
                LeaveUnresolved, NoResult, Verdict, SaveTrace, FinishTick, Crash, engineVars, tables
  <2>2. QED
    BY <2>1, SameBidsStep
<1>7. CASE Prepare \/ PassOver \/ ClaimHold \/ DoubtHold \/ SettleHold \/ GiveBack \/ Unverify \/ SweepRun \/ OpenAuction
  <2>1. UNCHANGED bids
    BY <1>7 DEF Prepare, PassOver, ReleaseOnce, ClaimHold, DoubtHold, SettleHold, GiveBack, Unverify, FreeVerification,
                SweepRun, OpenAuction, Open, tables, market
  <2>2. QED
    BY <2>1, SameBidsStep
<1>8. QED
  BY <1>2, <1>3, <1>4, <1>5, <1>6, <1>7 DEF EngineNext, Step

LEMMA StepAuctions ==
  ASSUME EInv, AuctionsFit, [EngineNext]_engineVars
  PROVE  AuctionsStep
<1>1. CASE ClearAuction
  <2>1. CASE UNCHANGED tables
    BY <2>1, SameAuctionsStep DEF tables
  <2>2. CASE Clear(now, now)
    <3>1. now \in DOMAIN auctions /\ auctions' = [auctions EXCEPT ![now].state = "CLEARED"]
      BY <2>2 DEF Clear
    <3>2. auctions[now] \in AuctionRow
      BY <3>1 DEF AuctionsFit
    <3>3. auctions'[now] = [auctions[now] EXCEPT !.state = "CLEARED"]
      BY <3>1
    <3>4. auctions'[now] \in AuctionRow /\ auctions'[now].capacity = auctions[now].capacity /\ auctions'[now].state = "CLEARED"
      BY <3>2, <3>3 DEF AuctionRow
    <3>5. DOMAIN auctions' = DOMAIN auctions /\ \A x \in DOMAIN auctions : x # now => auctions'[x] = auctions[x]
      BY <3>1
    <3>6. QED
      BY <3>4, <3>5 DEF AuctionsStep, AuctionsFit
  <2>3. QED
    BY <1>1, <2>1, <2>2 DEF ClearAuction
<1>2. CASE OpenAuction
  <2>1. CASE UNCHANGED tables
    BY <2>1, SameAuctionsStep DEF tables
  <2>2. CASE Open(now, PremiumAt(now), now + 2)
    <3>1. DOMAIN auctions' = DOMAIN auctions \cup {now} /\ now \notin DOMAIN auctions
          /\ (\A x \in DOMAIN auctions : auctions'[x] = auctions[x])
          /\ auctions'[now] = [capacity |-> PremiumAt(now), expires_at |-> now + 2, state |-> "OPEN"]
      BY <2>2 DEF Open, Insert
    <3>2. QED
      BY <1>2, <3>1 DEF AuctionsStep, AuctionsFit, OpenAuction
  <2>3. QED
    BY <1>2, <2>1, <2>2 DEF OpenAuction
<1>3. CASE \/ Begin \/ Plan \/ NextItem \/ AskApproval \/ ReviewApproval \/ NextCandidate \/ RecordReceipt
           \/ LeaveUnresolved \/ NoResult \/ Verdict \/ SaveTrace \/ FinishTick \/ Crash \/ UNCHANGED engineVars
  <2>1. UNCHANGED auctions
    BY <1>3 DEF Begin, Plan, NextItem, AskApproval, ReviewApproval, NextCandidate, RecordReceipt,
                LeaveUnresolved, NoResult, Verdict, SaveTrace, FinishTick, Crash, engineVars, tables
  <2>2. QED
    BY <2>1, SameAuctionsStep
<1>4. CASE \/ Prepare \/ PassOver \/ ClaimHold \/ DoubtHold \/ SettleHold \/ GiveBack \/ Unverify \/ SweepRun
           \/ PlaceBid \/ DeliverAndVerify \/ LapseBids
  <2>1. UNCHANGED auctions
    BY <1>4 DEF Prepare, PassOver, ReleaseOnce, ClaimHold, DoubtHold, SettleHold, GiveBack, Unverify, FreeVerification,
                SweepRun, PlaceBid, Bid, DeliverAndVerify, FinishDelivered, LapseBids, ExpireBids, tables, market
  <2>2. QED
    BY <2>1, SameAuctionsStep
<1>5. QED
  BY <1>1, <1>2, <1>3, <1>4 DEF EngineNext, Step

-----------------------------------------------------------------------------
(* Auctions give away what there is *)

LEMMA BidFacts ==
  ASSUME BidNames
  PROVE  IsFiniteSet(DOMAIN bids) /\ \A b \in DOMAIN bids : b \in Nat /\ bids[b].price \in Nat
<1>1. NTasks \in Nat /\ Deadline \in Nat /\ NTasks * (Deadline + 1) \in Nat
  BY TasksType
<1>2. ASSUME NEW t \in Tasks, NEW k \in Ticks
      PROVE  BidOf(t, k) \in 1 .. NTasks * (Deadline + 1)
  <2>1. t \in 1 .. NTasks /\ k \in Nat /\ k <= Deadline
    BY TasksType DEF Tasks, Ticks
  <2>2. k * NTasks \in Nat /\ k * NTasks <= Deadline * NTasks
    BY <1>1, <2>1
  <2>3. NTasks * (Deadline + 1) = Deadline * NTasks + NTasks /\ Deadline * NTasks \in Nat
    BY <1>1
  <2>4. QED
    BY <1>1, <2>1, <2>2, <2>3 DEF BidOf
<1>3. DOMAIN bids \subseteq 1 .. NTasks * (Deadline + 1)
  BY <1>2 DEF BidNames
<1>4. IsFiniteSet(DOMAIN bids)
  <2>1. PICK n \in Nat : n = NTasks * (Deadline + 1)
    BY <1>1
  <2>2. IsFiniteSet(1 .. n)
    BY FS_Interval
  <2>3. QED
    BY <1>3, <2>1, <2>2, FS_Subset
<1>5. \A n \in Prices : n \in Nat
  BY EngineAssumption
<1>6. \A b \in DOMAIN bids : b \in Nat
  BY <1>3
<1>7. QED
  BY <1>4, <1>5, <1>6 DEF BidNames

LEMMA BidNamesKept ==
  ASSUME EInv, AuctionInv, BidsStep, AuctionsStep
  PROVE  BidNames'
<1>1. DOMAIN auctions \subseteq DOMAIN auctions'
  BY DEF AuctionsStep
<1>2. SUFFICES ASSUME NEW b \in DOMAIN bids'
               PROVE  /\ bids'[b].price \in Prices /\ bids'[b].auction \in DOMAIN auctions'
                      /\ \E t \in Tasks, k \in Ticks : b = BidOf(t, k) /\ bids'[b].hold = <<t, k, "execution">> /\ bids'[b].auction = k
  BY DEF BidNames
<1>3. CASE b \in DOMAIN bids
  BY <1>1, <1>3 DEF AuctionInv, BidNames, BidsStep, BidStays
<1>4. CASE b \notin DOMAIN bids
  <2>1. NewBid(b)
    BY <1>2, <1>4 DEF BidsStep
  <2>2. proc.pc = "bid" /\ proc.pc \in OnTask /\ ~ proc.executing
    BY <2>1, PcNames DEF NewBid, At, EInv, ProcOK, PassOK, FirstPass
  <2>3. PICK t \in Tasks, k \in Ticks : t = Task /\ k = now
    BY <2>2, HereFacts
  <2>4. bids'[b] = [auction |-> k, agent |-> Agent(t), price |-> item.price, hold |-> <<t, k, "execution">>, state |-> "ESCROWED"]
        /\ b = BidOf(t, k) /\ k \in DOMAIN auctions
    BY <2>1, <2>3 DEF NewBid, Hold
  <2>5. item.price \in Prices
    <3>1. Chosen(Task) = "premium"
      BY <2>2 DEF AuctionInv, BiddingOK, Bidding, At, Auctions
    <3>2. proc.i \in DOMAIN plan /\ item.resource = "premium" /\ plan # None
      BY <2>2, <3>1, HereFacts
    <3>3. QED
      BY <3>2 DEF AuctionInv, BiddingOK, item, plan
  <2>6. QED
    BY <1>1, <2>4, <2>5
<1>5. QED
  BY <1>3, <1>4

LEMMA WinnersFit ==
  ASSUME AuctionInv, NEW k, k = now, k \in DOMAIN auctions
  PROVE  IsFiniteSet(Winners(k, k)) /\ Cardinality(Winners(k, k)) <= PremiumAt(k) /\ PremiumAt(k) \in Nat
<1>1. PICK E, W : E = Eligible(k) /\ W = Winners(k, k)
  OBVIOUS
<1>2. IsFiniteSet(DOMAIN bids) /\ \A b \in DOMAIN bids : b \in Nat /\ bids[b].price \in Nat
  BY BidFacts DEF AuctionInv
<1>3. E \subseteq DOMAIN bids
  BY <1>1 DEF Eligible, Escrowed
<1>4. IsFiniteSet(E) /\ \A b \in E : b \in Nat /\ bids[b].price \in Nat
  BY <1>2, <1>3, FS_Subset
<1>5. PremiumAt(k) \in Nat /\ auctions[k].capacity = PremiumAt(k)
  BY EngineAssumption DEF AuctionInv, AuctionsFit, PremiumAt
<1>6. PICK n, F : n = PremiumAt(k) /\ F = {b \in E : Cardinality({c \in E : M!Before(c, b)}) < n}
  OBVIOUS
<1>7. IsFiniteSet(F) /\ Cardinality(F) <= n
  <2>1. \A S : M!IsFiniteSet(S) = IsFiniteSet(S) /\ M!Cardinality(S) = Cardinality(S)
    BY DEF IsFiniteSet, M!IsFiniteSet, Cardinality, M!Cardinality
  <2>2. M!IsFiniteSet(E) /\ n \in Nat /\ (\A b \in E : b \in Nat /\ bids[b].price \in Nat)
    BY <1>4, <1>5, <1>6, <2>1
  <2>3. LET First == {b \in E : M!Cardinality({c \in E : M!Before(c, b)}) < n}
        IN  M!IsFiniteSet(First) /\ M!Cardinality(First) <= n
    BY <2>2, KernelAssumptions, M!FirstBids
  <2>4. QED
    BY <1>6, <2>1, <2>3
<1>8. W \subseteq F
  BY <1>1, <1>5, <1>6 DEF Winners, Before, M!Before
<1>9. IsFiniteSet(W) /\ Cardinality(W) <= Cardinality(F) /\ Cardinality(W) \in Nat /\ Cardinality(F) \in Nat
  BY <1>7, <1>8, FS_Subset, FS_CardinalityType
<1>10. QED
  BY <1>1, <1>5, <1>6, <1>7, <1>9

LEMMA AuctionsFitKept ==
  ASSUME EInv, AuctionInv, BidsStep, AuctionsStep, proc.pc \in {"open", "clear"} => now \in Ticks
  PROVE  AuctionsFit'
<1>1. ASSUME NEW k, NEW b \in Won(k)'
      PROVE  b \in DOMAIN bids /\ bids[b].auction = k /\ (b \in Won(k) \/ (Wins(b) /\ k = now /\ b \in Winners(k, k)))
  <2>1. b \in DOMAIN bids' /\ bids'[b].auction = k /\ bids'[b].state \in Awarded
    BY <1>1 DEF Won
  <2>2. b \in DOMAIN bids
    BY <2>1 DEF BidsStep, NewBid, Awarded
  <2>3. bids[b].auction = k /\ (bids[b].state \in Awarded \/ Wins(b))
    BY <2>1, <2>2 DEF BidsStep, BidStays
  <2>4. Wins(b) => bids[b].auction = now /\ b \in Winners(now, now)
    BY DEF Wins, Winners, Eligible, Escrowed
  <2>5. QED
    BY <2>2, <2>3, <2>4 DEF Won
<1>2. SUFFICES ASSUME NEW k \in DOMAIN auctions'
               PROVE  /\ k \in Ticks /\ auctions'[k] \in AuctionRow /\ auctions'[k].capacity = PremiumAt(k)
                      /\ Cardinality(Won(k)') <= PremiumAt(k)
                      /\ auctions'[k].state = "OPEN" => Won(k)' = {}
  BY DEF AuctionsFit, PremiumAt
<1>3. PICK S : S = Won(k)'
  OBVIOUS
<1>4. PremiumAt(k) \in Nat /\ PremiumCapacity \in Nat
  BY EngineAssumption DEF PremiumAt
<1>5. CASE k \in DOMAIN auctions
  <2>1. k \in Ticks /\ auctions'[k] \in AuctionRow /\ auctions'[k].capacity = PremiumAt(k)
        /\ (auctions'[k].state = "OPEN" => auctions[k].state = "OPEN")
    BY <1>5 DEF AuctionsStep, AuctionInv, AuctionsFit
  <2>2. Cardinality(Won(k)) <= PremiumAt(k) /\ (auctions[k].state = "OPEN" => Won(k) = {}) /\ IsFiniteSet(Won(k))
    <3>1. Won(k) \subseteq DOMAIN bids
      BY DEF Won
    <3>2. QED
      BY <1>5, <3>1, BidFacts, FS_Subset DEF AuctionInv, AuctionsFit
  <2>3. ASSUME auctions'[k].state = "OPEN", NEW b \in S
        PROVE  FALSE
    <3>1. Wins(b) /\ k = now
      BY <1>1, <1>3, <2>1, <2>2, <2>3
    <3>2. QED
      BY <2>3, <3>1 DEF Wins
  <2>4. CASE S \subseteq Won(k)
    <3>1. Cardinality(S) <= Cardinality(Won(k)) /\ Cardinality(S) \in Nat /\ Cardinality(Won(k)) \in Nat
      BY <2>2, <2>4, FS_Subset, FS_CardinalityType
    <3>2. QED
      BY <1>3, <1>4, <2>1, <2>2, <2>3, <3>1
  <2>5. ASSUME NEW b \in S, b \notin Won(k)
        PROVE  Cardinality(S) <= PremiumAt(k)
    <3>1. Wins(b) /\ k = now
      BY <1>1, <1>3, <2>5
    <3>2. Won(k) = {}
      BY <2>2, <3>1 DEF Wins
    <3>3. S \subseteq Winners(k, k)
      BY <1>1, <1>3, <3>2
    <3>4. IsFiniteSet(Winners(k, k)) /\ Cardinality(Winners(k, k)) <= PremiumAt(k)
      BY <1>5, <3>1, WinnersFit
    <3>5. Cardinality(S) <= Cardinality(Winners(k, k)) /\ Cardinality(S) \in Nat /\ Cardinality(Winners(k, k)) \in Nat
      BY <3>3, <3>4, FS_Subset, FS_CardinalityType
    <3>6. QED
      BY <1>4, <3>4, <3>5
  <2>6. QED
    BY <1>3, <2>1, <2>3, <2>4, <2>5
<1>6. CASE k \notin DOMAIN auctions
  <2>1. At("open") /\ k = now /\ auctions'[k] = [capacity |-> PremiumAt(k), expires_at |-> k + 2, state |-> "OPEN"]
    BY <1>2, <1>6 DEF AuctionsStep
  <2>2. S = {}
    BY <1>1, <1>3, <1>6 DEF AuctionInv, BidNames
  <2>3. k \in Ticks
    BY <2>1 DEF At
  <2>4. auctions'[k] \in AuctionRow
    <3>1. PremiumAt(k) \in {0, PremiumCapacity}
      BY DEF PremiumAt
    <3>2. k + 2 \in 2 .. Deadline + 2
      BY <2>3, TasksType DEF Ticks
    <3>3. QED
      BY <2>1, <3>1, <3>2 DEF AuctionRow
  <2>5. Cardinality(S) = 0
    BY <2>2, FS_EmptySet
  <2>6. QED
    BY <1>3, <1>4, <2>1, <2>2, <2>3, <2>4, <2>5
<1>7. QED
  BY <1>5, <1>6

LEMMA AwardsKept ==
  ASSUME EInv, ScarceInv, AuctionInv, HoldsStep, BidsStep
  PROVE  AwardsOK'
<1>1. SUFFICES ASSUME NEW t \in Tasks, NEW k \in Ticks, Auctioned, Execution(t, k)' \in Begun,
                      holds'[<<t, k, "execution">>].request = "premium", NEW b, b = BidOf(t, k)
               PROVE  b \in DOMAIN bids' /\ bids'[b].state \in Awarded
  BY DEF AwardsOK, BidOf
<1>2. <<t, k, "execution">> \in DOMAIN holds /\ holds[<<t, k, "execution">>].request = "premium"
  BY <1>1, BegunStep
<1>3. CASE Execution(t, k) \in Begun
  <2>1. b \in DOMAIN bids /\ bids[b].state \in Awarded
    BY <1>1, <1>2, <1>3 DEF AuctionInv, AwardsOK
  <2>2. ~ NeverBegan(bids[b].hold)
    <3>1. PICK u \in Tasks, j \in Ticks : b = BidOf(u, j) /\ bids[b].hold = <<u, j, "execution">>
      BY <2>1 DEF AuctionInv, BidNames
    <3>2. u = t /\ j = k
      <4>1. BidOf(u, j) = BidOf(t, k)
        BY <1>1, <3>1
      <4>2. QED
        BY <4>1, BidOfOne
    <3>3. holds[bids[b].hold].state \in Begun
      BY <1>2, <1>3, <3>1, <3>2 DEF Execution, State
    <3>4. QED
      BY <3>3 DEF NeverBegan, Begun
  <2>3. QED
    BY <2>1, <2>2 DEF BidsStep, BidStays
<1>4. CASE At("claim") /\ proc.kind = "execution" /\ t = Task /\ k = now /\ Execution(t, k) = "RESERVED"
  <2>1. Auctions(Task)
    BY <1>1, <1>2, <1>4 DEF ScarceInv, RequestedOK, Auctions
  <2>2. bids[b].state \in Awarded
    BY <1>1, <1>4, <2>1 DEF AuctionInv, BiddingOK
  <2>3. proc.pc \in OnTask /\ proc.pc \in InPass
    BY <1>4, PcNames DEF At
  <2>4. proc.executing
    BY <1>4, <2>3, ClaimFacts DEF ScarceInv
  <2>5. proc.i \in DOMAIN proc.cands /\ Task = proc.cands[proc.i]
    BY <2>3, <2>4, HereFacts
  <2>6. b \in DOMAIN bids
    BY <1>1, <1>4, <2>1, <2>3, <2>5 DEF AuctionInv, BiddingOK
  <2>7. QED
    BY <1>4, <2>2, <2>6 DEF BidsStep, BidStays, At
<1>5. QED
  BY <1>1, <1>3, <1>4, BegunStep

LEMMA PlannedPrices ==
  ASSUME EInv, Plan
  PROVE  \A j \in DOMAIN plan' : plan'[j].resource = "premium" => plan'[j].price \in Prices
<1>1. PICK choice, order :
        /\ choice \in [{t \in Tasks : Arrived(t) /\ Waiting(t)} -> UNION {Decisions(t) : t \in Tasks}]
        /\ order \in SetToSeqs({choice[t] : t \in DOMAIN choice})
        /\ checkpoint' = [checkpoint EXCEPT !.plan = order]
  BY DEF Plan
<1>2. PICK S : S = {choice[t] : t \in DOMAIN choice}
  OBVIOUS
<1>3. \A j \in DOMAIN order : order[j] \in S
  BY <1>1, <1>2 DEF SetToSeqs
<1>4. plan' = order
  BY <1>1 DEF plan, EInv, World, CheckpointOK
<1>5. ASSUME NEW e \in S, e.resource = "premium"
      PROVE  e.price \in Prices
  <2>1. PICK t \in DOMAIN choice : e = choice[t]
    BY <1>2
  <2>2. PICK u \in Tasks : e \in Decisions(u)
    BY <1>1, <2>1
  <2>3. QED
    BY <1>5, <2>2 DEF Decisions
<1>6. QED
  BY <1>3, <1>4, <1>5

(* What the step knows of bids, when it goes on to a place that is not      *)
(* about a bid, with candidates it had. *)
LEMMA BiddingTurns ==
  ASSUME BiddingOK, BidsStep, UNCHANGED checkpoint, ~ Bidding', ~ (proc'.pc = "claim" /\ proc'.kind = "execution"),
         proc'.pc \in InPass => (proc.pc \in InPass /\ proc'.cands = proc.cands) \/ proc'.cands = <<>>
  PROVE  BiddingOK'
<1>1. plan' = plan /\ now' = now /\ \A t : Auctions(t)' = Auctions(t)
  BY DEF plan, now, Auctions, Chosen
<1>2. \A b \in DOMAIN bids : b \in DOMAIN bids'
  BY DEF BidsStep, BidStays
<1>3. proc'.pc \in InPass => \A m \in DOMAIN proc'.cands : Auctions(proc'.cands[m]) => BidOf(proc'.cands[m], now) \in DOMAIN bids'
  BY <1>2 DEF BiddingOK
<1>4. \A t : BidOf(t, now') = BidOf(t, now)
  BY <1>1
<1>5. QED
  BY <1>1, <1>3, <1>4 DEF BiddingOK, At, BidOf

LEMMA BiddingSameTask ==
  ASSUME BiddingOK, BidsStep, OnSameTask
  PROVE  BiddingOK'
<1>1. /\ plan' = plan /\ now' = now /\ Task' = Task /\ (\A t : Chosen(t)' = Chosen(t))
      /\ proc'.cands = proc.cands /\ proc.pc \in InPass
  BY SamePlaceFacts, PcNames DEF OnSameTask, SamePlace, SameRow
<1>2. \A t : Auctions(t)' = Auctions(t)
  BY <1>1 DEF Auctions
<1>3. \A b \in DOMAIN bids : b \in DOMAIN bids'
  BY DEF BidsStep, BidStays
<1>4. PICK u : u = Task
  OBVIOUS
<1>5. Bidding' => Auctions(u)
  BY <1>4 DEF OnSameTask, BiddingOK
<1>6. ~ (proc'.pc = "claim" /\ proc'.kind = "execution")
  BY DEF OnSameTask
<1>7. QED
  BY <1>1, <1>2, <1>3, <1>4, <1>5, <1>6 DEF BiddingOK, At, BidOf

LEMMA BiddingJoins ==
  ASSUME EInv, BiddingOK, BidsStep, Joins
  PROVE  BiddingOK'
<1>1. /\ plan' = plan /\ now' = now /\ proc.pc \in InPass /\ proc'.pc = "item" /\ proc'.cands = Append(proc.cands, Task)
      /\ Task \in Tasks /\ proc.cands \in Seq(Tasks) /\ \A t : Auctions(t)' = Auctions(t)
  BY PcNames, HereFacts, ProcFacts DEF Joins, plan, now, Auctions, Chosen, EInv
<1>2. \A b \in DOMAIN bids : b \in DOMAIN bids'
  BY DEF BidsStep, BidStays
<1>3. ASSUME NEW m \in DOMAIN Append(proc.cands, Task), NEW t, t = Append(proc.cands, Task)[m], Auctions(t)
      PROVE  BidOf(t, now) \in DOMAIN bids'
  <2>1. t = Task \/ (m \in DOMAIN proc.cands /\ t = proc.cands[m])
    BY <1>1, <1>3
  <2>2. QED
    BY <1>1, <1>2, <1>3, <2>1 DEF BiddingOK, Joins
<1>4. ~ Bidding' /\ proc'.pc # "claim"
  BY <1>1, PcNames DEF Bidding, At
<1>5. QED
  BY <1>1, <1>3, <1>4 DEF BiddingOK, At, BidOf

LEMMA BiddingCandidate ==
  ASSUME EInv, BiddingOK, NextCandidate
  PROVE  BiddingOK'
<1>1. /\ proc.pc = "candidate" /\ UNCHANGED <<tables, checkpoint>> /\ proc \in ProcRow /\ proc.executing = TRUE /\ proc.pc \in InPass
  BY PcNames DEF NextCandidate, At, EInv, ProcOK, PassOK, SecondPass, ProcRow
<1>2. BidsStep /\ bids' = bids
  BY <1>1, SameBidsStep DEF tables
<1>3. CASE proc.i > Len(proc.cands)
  <2>1. proc'.pc = "finish" /\ proc'.cands = proc.cands
    BY <1>1, <1>3 DEF NextCandidate, Goto, ProcRow
  <2>2. QED
    BY <1>1, <1>2, <2>1, PcNames, BiddingTurns DEF Bidding, At
<1>4. CASE ~ (proc.i > Len(proc.cands))
  <2>1. PICK t, n, pc : t = Task /\ n = now /\ pc = IF Allocated(Task) THEN "claim" ELSE "passover"
    OBVIOUS
  <2>2. proc'.pc = pc /\ proc'.cands = proc.cands /\ proc'.i = proc.i /\ proc'.executing = TRUE /\ proc'.kind = "execution"
    BY <1>1, <1>4, <2>1 DEF NextCandidate, ProcRow
  <2>3. Task' = t /\ now' = n /\ plan' = plan /\ \A u : Auctions(u)' = Auctions(u)
    BY <1>1, <2>1, <2>2 DEF Task, now, plan, Auctions, Chosen
  <2>4. ~ Bidding'
    BY <2>1, <2>2, PcNames DEF Bidding, At
  <2>5. pc = "claim" /\ Auctions(t) => bids[BidOf(t, n)].state \in Awarded
    BY <2>1 DEF Allocated, Awarded
  <2>6. QED
    BY <1>1, <1>2, <2>1, <2>2, <2>3, <2>4, <2>5 DEF BiddingOK, At, BidOf
<1>5. QED
  BY <1>3, <1>4

LEMMA BiddingKept ==
  ASSUME EInv, BiddingOK, BidsStep, [EngineNext]_engineVars
  PROVE  BiddingOK'
<1>1. proc \in ProcRow
  BY DEF EInv, ProcOK
<1>2. \A pc : Goto(pc) => proc'.pc = pc /\ proc'.cands = proc.cands /\ proc'.kind = proc.kind
  BY <1>1 DEF Goto, ProcRow
<1>3. CASE Prepare
  BY <1>3, PrepareGoes, BiddingSameTask, BiddingJoins
<1>4. CASE PlaceBid
  BY <1>4, PlaceBidGoes, BiddingSameTask, BiddingJoins
<1>5. CASE ClaimHold \/ DoubtHold \/ RecordReceipt \/ SettleHold
  BY <1>5, HoldSteps, BiddingSameTask
<1>6. CASE \/ AskApproval \/ ReviewApproval \/ DeliverAndVerify \/ LeaveUnresolved \/ Verdict \/ GiveBack \/ Unverify
  BY <1>6, OtherSteps, BiddingSameTask
<1>7. CASE PassOver
  BY <1>7, PassOverStep, BiddingSameTask
<1>8. CASE NextCandidate
  BY <1>8, BiddingCandidate
<1>9. CASE NextItem \/ ClearAuction \/ SaveTrace
  <2>1. /\ proc.pc \in {"item", "clear", "save"} /\ UNCHANGED checkpoint /\ proc'.cands = proc.cands
        /\ proc'.pc \in {"clear", "item", "candidate"} \/ (proc'.pc = "prepare" /\ proc'.kind = "planning")
    BY <1>1, <1>9 DEF NextItem, ClearAuction, SaveTrace, At, ProcRow
  <2>2. ~ Bidding' /\ proc'.pc # "claim"
    BY <2>1, PcNames DEF Bidding, At
  <2>3. QED
    BY <2>1, <2>2, PcNames, BiddingTurns
<1>10. CASE OpenAuction \/ Begin \/ NoResult \/ LapseBids \/ SweepRun \/ Crash
  <2>1. /\ UNCHANGED checkpoint
        /\ (proc'.pc = "item" /\ proc'.cands = <<>>) \/ proc'.pc \in {"plan", "open", "idle", "sweep"}
    <3>1. CASE OpenAuction
      BY <3>1 DEF OpenAuction, Stopped
    <3>2. CASE Begin \/ LapseBids
      BY <1>2, <3>2 DEF Begin, LapseBids
    <3>3. CASE NoResult \/ SweepRun \/ Crash
      BY <3>3 DEF NoResult, SweepRun, Crash, Stopped
    <3>4. QED
      BY <1>10, <3>1, <3>2, <3>3
  <2>2. ~ Bidding' /\ proc'.pc # "claim" /\ (proc'.pc \in InPass => proc'.cands = <<>>)
    BY <2>1, PcNames DEF Bidding, At, OnHold
  <2>3. QED
    BY <2>1, <2>2, BiddingTurns
<1>11. CASE Plan \/ FinishTick
  <2>1. proc'.pc \in {"open", "lapse"}
    BY <1>2, <1>11 DEF Plan, FinishTick
  <2>2. proc'.pc \notin InPass /\ ~ Bidding' /\ proc'.pc # "claim"
    BY <2>1, PcNames DEF Bidding, At, OnHold
  <2>3. plan' # None => \A j \in DOMAIN plan' : plan'[j].resource = "premium" => plan'[j].price \in Prices
    <3>1. FinishTick => plan' = None
      BY DEF FinishTick, plan
    <3>2. QED
      BY <1>11, <3>1, PlannedPrices
  <2>4. QED
    BY <2>2, <2>3 DEF BiddingOK, At
<1>12. CASE UNCHANGED engineVars
  <2>1. UNCHANGED <<bids, checkpoint, proc>>
    BY <1>12 DEF engineVars, tables
  <2>2. /\ plan' = plan /\ now' = now /\ Task' = Task /\ Bidding' = Bidding /\ \A t : Auctions(t)' = Auctions(t)
    BY <2>1 DEF plan, now, Task, item, Bidding, At, Auctions, Chosen
  <2>3. QED
    BY <2>1, <2>2 DEF BiddingOK, At, BidOf
<1>13. QED
  BY <1>3, <1>4, <1>5, <1>6, <1>7, <1>8, <1>9, <1>10, <1>11, <1>12 DEF EngineNext, Step

LEMMA AuctionInductive == EInv /\ ScarceInv /\ AuctionInv /\ [EngineNext]_engineVars => AuctionInv'
<1> SUFFICES ASSUME EInv, ScarceInv, AuctionInv, [EngineNext]_engineVars PROVE AuctionInv'
  OBVIOUS
<1>1. HoldsStep /\ BidsStep /\ AuctionsStep
  BY StepHolds, StepBids, StepAuctions DEF AuctionInv
<1>2. proc.pc \in {"open", "clear"} => now \in Ticks
  <2>1. proc.pc \in {"open", "clear"} => plan # None
    BY PcNames DEF EInv, ProcOK, PassOK, At
  <2>2. QED
    BY <2>1, PlanFacts DEF EInv, World
<1>3. BidNames' /\ AuctionsFit' /\ AwardsOK'
  BY <1>1, <1>2, BidNamesKept, AuctionsFitKept, AwardsKept
<1>4. BiddingOK'
  BY <1>1, BiddingKept DEF AuctionInv
<1>5. QED
  BY <1>3, <1>4 DEF AuctionInv

LEMMA AuctionInitial == EngineInit => AuctionInv
<1> SUFFICES ASSUME EngineInit PROVE AuctionInv
  OBVIOUS
<1>1. DOMAIN bids = {} /\ DOMAIN auctions = {} /\ DOMAIN holds = {} /\ proc.pc = "idle" /\ plan = None
  BY DEF EngineInit, plan, Stopped
<1>2. BidNames /\ AuctionsFit
  BY <1>1 DEF BidNames, AuctionsFit
<1>3. AwardsOK
  BY <1>1 DEF AwardsOK, Execution, State, Begun
<1>4. ~ Bidding /\ proc.pc \notin InPass /\ ~ At("claim")
  BY <1>1, PcNames DEF Bidding, At, OnHold
<1>5. QED
  BY <1>1, <1>2, <1>3, <1>4 DEF AuctionInv, BiddingOK

(* An auctioned execution has a bid of its own among the winners. *)
LEMMA AuctionedFit ==
  ASSUME AuctionInv, Auctioned, NEW k \in Ticks
  PROVE  Cardinality(Executions("premium", k)) <= PremiumAt(k)
<1>1. PICK S, W, rank : S = Executions("premium", k) /\ W = Won(k) /\ rank = [t \in S |-> BidOf(t, k)]
  OBVIOUS
<1>2. PremiumAt(k) \in Nat
  BY EngineAssumption DEF PremiumAt
<1>3. \A t \in S : t \in Tasks
  BY <1>1 DEF Executions
<1>4. ASSUME NEW t \in S
      PROVE  rank[t] \in W /\ k \in DOMAIN auctions
  <2>1. t \in Tasks /\ Execution(t, k) \in Begun /\ holds[<<t, k, "execution">>].request = "premium"
    BY <1>1, <1>4 DEF Executions, Execution
  <2>2. BidOf(t, k) \in DOMAIN bids /\ bids[BidOf(t, k)].state \in Awarded
    BY <2>1 DEF AuctionInv, AwardsOK
  <2>3. PICK u \in Tasks, j \in Ticks : BidOf(t, k) = BidOf(u, j) /\ bids[BidOf(t, k)].auction = j
    BY <2>2 DEF AuctionInv, BidNames
  <2>4. j = k
    BY <2>1, <2>3, BidOfOne
  <2>5. k \in DOMAIN auctions
    BY <2>2, <2>3, <2>4 DEF AuctionInv, BidNames
  <2>6. QED
    BY <1>1, <2>2, <2>3, <2>4, <2>5 DEF Won
<1>5. CASE S = {}
  BY <1>1, <1>2, <1>5, FS_EmptySet
<1>6. CASE S # {}
  <2>1. k \in DOMAIN auctions
    BY <1>4, <1>6
  <2>2. IsFiniteSet(W) /\ Cardinality(W) <= PremiumAt(k)
    <3>1. W \subseteq DOMAIN bids
      BY <1>1 DEF Won
    <3>2. QED
      BY <1>1, <2>1, <3>1, BidFacts, FS_Subset DEF AuctionInv, AuctionsFit
  <2>3. rank \in Injection(S, W)
    <3>1. \A t, u \in S : rank[t] = rank[u] => t = u
      BY <1>1, <1>3, BidOfOne
    <3>2. rank \in [S -> W]
      BY <1>1, <1>4
    <3>3. QED
      BY <3>1, <3>2 DEF Injection, IsInjective
  <2>4. Cardinality(S) <= Cardinality(W) /\ IsFiniteSet(S)
    BY <2>2, <2>3, FS_Injection
  <2>5. Cardinality(S) \in Nat /\ Cardinality(W) \in Nat
    BY <2>2, <2>4, FS_CardinalityType
  <2>6. QED
    BY <1>1, <1>2, <2>2, <2>4, <2>5
<1>7. QED
  BY <1>5, <1>6

(* Whatever the capacities, the order of the plan and the interruptions: no *)
(* tick executes more scarce work, or approves more, than it has capacity   *)
(* for, although the counters are lost with every interruption.             *)
THEOREM ScarcityIsKept == EngineSpec => []ScarcityHolds
<1>1. EngineInit => EInv /\ ScarceInv /\ AuctionInv
  BY EngineInitial, ScarceInitial, AuctionInitial
<1>2. EInv /\ ScarceInv /\ AuctionInv /\ [EngineNext]_engineVars => EInv' /\ ScarceInv' /\ AuctionInv'
  BY EngineInductive, ScarceInductive, AuctionInductive
<1>3. EInv /\ ScarceInv /\ AuctionInv => ScarcityHolds
  <2>1. SUFFICES ASSUME EInv, ScarceInv, AuctionInv, NEW k \in Ticks
                 PROVE  /\ Cardinality(Executions("premium", k)) <= PremiumAt(k)
                        /\ Cardinality(Executions("consultation", k)) <= ConsultationCapacity
                        /\ Cardinality({p \in DOMAIN approvals : p[2] = k /\ approvals[p] = "APPROVED"}) <= ReviewCapacity
    BY DEF ScarcityHolds
  <2>2. \A r \in Scarce : Cardinality(Executions(r, k)) <= CapacityAt(r, k)
    BY <2>1 DEF ScarceInv, ScarceOK
  <2>3. CapacityAt("premium", k) = PremiumAt(k) /\ CapacityAt("consultation", k) = ConsultationCapacity
    BY DEF CapacityAt
  <2>4. Cardinality(Executions("consultation", k)) <= ConsultationCapacity
    BY <2>2, <2>3 DEF Scarce
  <2>5. Cardinality(Executions("premium", k)) <= PremiumAt(k)
    <3>1. CASE Auctioned
      BY <2>1, <3>1, AuctionedFit
    <3>2. CASE ~ Auctioned
      BY <2>2, <2>3, <3>2 DEF Scarce
    <3>3. QED
      BY <3>1, <3>2
  <2>6. Cardinality(Approved(k)) <= ReviewCapacity
    BY <2>1 DEF ScarceInv, ReviewsOK
  <2>7. QED
    BY <2>4, <2>5, <2>6 DEF Approved
<1>4. QED
  BY <1>1, <1>2, <1>3, PTL DEF EngineSpec
=============================================================================
