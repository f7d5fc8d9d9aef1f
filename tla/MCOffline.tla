------------------------------ MODULE MCOffline ------------------------------
(***************************************************************************)
(* The programs that run off line, on small instances: the plan of one     *)
(* tick by the central allocator, the allocation and reporting studies,    *)
(* the failure-conformance benchmark, and the arithmetic of bills.  They   *)
(* share nothing: one of them is chosen at the start, and the variables of *)
(* the others stay.                                                        *)
(*                                                                         *)
(* The plan has three items, which is what it takes for a choice to        *)
(* replace one of the same use; a policy may have deferred the last.  The  *)
(* studies have two rounds, each one of four batches; between them the     *)
(* cases tie and differ in value, their signals are right and wrong, their *)
(* evidence arrives and does not.  The bills have two dimensions, with     *)
(* whole prices and fractions.                                             *)
(***************************************************************************)
EXTENDS CentralPlan, Reporting, Conformance, Billing

CONSTANTS c1, c2, c3, c4, c5, c6, input, output

MCTasks == <<c1, c2, c3, c4, c5, c6>>

Case(value, unposted, delivered, signal) ==
  [value |-> value, unposted |-> unposted, delivered |-> delivered, signal |-> signal]

Batch(a, b, c) == [i \in Persons |-> CASE i = 0 -> a [] i = 1 -> b [] i = 2 -> c]

MCBatches ==
  { Batch(Case(30, TRUE, TRUE, TRUE), Case(150, FALSE, TRUE, FALSE), Case(150, TRUE, FALSE, TRUE)),
    Batch(Case(150, TRUE, TRUE, TRUE), Case(150, TRUE, TRUE, FALSE), Case(30, FALSE, FALSE, TRUE)),
    Batch(Case(80, FALSE, TRUE, TRUE), Case(30, TRUE, FALSE, TRUE), Case(80, TRUE, TRUE, TRUE)),
    Batch(Case(30, FALSE, TRUE, FALSE), Case(30, FALSE, TRUE, FALSE), Case(150, TRUE, FALSE, FALSE)) }

PricesOf(c, p, s) == [defer |-> 0, cheap |-> c, premium |-> p, consultation |-> s]

MCTariffs == { Batch(PricesOf(4, 14, 24), PricesOf(4, 14, 24), PricesOf(4, 14, 24)),
               Batch(PricesOf(2, 22, 18), PricesOf(8, 10, 36), PricesOf(5, 15, 25)) }

VARIABLE program

CentralOff ==
  /\ plan = <<>> /\ headroom = 0 /\ collapsed = FALSE
  /\ states = <<>> /\ index = 0 /\ decisions = <<>>

StudyOff == study = [stage |-> "none"] /\ play = NoPlay

ConformanceOff == Vacant /\ OpenAccounts(0, None) /\ bench = Fresh("reject_all")

BillingOff == contract = [kind |-> "none"] /\ bill = NoBill

MCInit ==
  \/ program = "central" /\ CentralInit /\ (\A i \in {1, 2} : plan[i].deferred => ~ plan[i].due) /\ StudyOff /\ ConformanceOff /\ BillingOff
  \/ program = "study" /\ CentralOff /\ StudyInit /\ ConformanceOff /\ BillingOff
  \/ program = "conformance" /\ CentralOff /\ StudyOff /\ ConformanceInit /\ BillingOff
  \/ program = "billing" /\ CentralOff /\ StudyOff /\ ConformanceOff /\ BillingInit

MCNext ==
  /\ \/ program = "central" /\ CentralNext /\ UNCHANGED <<studyVars, benchVars, billingVars>>
     \/ program = "study" /\ (StudyNext \/ ReportingNext) /\ UNCHANGED <<centralVars, benchVars, billingVars>>
     \/ program = "conformance" /\ ConformanceNext /\ UNCHANGED <<centralVars, studyVars, billingVars>>
     \/ program = "billing" /\ BillingNext /\ UNCHANGED <<centralVars, studyVars, benchVars>>
  /\ UNCHANGED program

MCSpec == MCInit /\ [][MCNext]_<<centralVars, studyVars, benchVars, billingVars, program>>
=============================================================================
