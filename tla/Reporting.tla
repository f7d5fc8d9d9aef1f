------------------------------ MODULE Reporting ------------------------------
(***************************************************************************)
(* The reporting study, aecp/reporting_study.py: the cases, the capacities *)
(* and the oracle of Study, with a tariff of its own for every person, and *)
(* policies in which a central planner may buy reports of what the persons *)
(* know.  A report costs a fee; it may be flipped by noise or, by a person *)
(* who gains from it, be a lie.  What later rounds yield (forecast) and    *)
(* the bound (offline_bound) are Study's, under this tariff.               *)
(***************************************************************************)
EXTENDS Study

CONSTANTS
  REPORT_COST,
  REPORT_NOISE  \* in percent

ASSUME ReportingAssumption == REPORT_COST \in Nat /\ REPORT_NOISE \in 0 .. 50

Sharing  == {"shared-truthful", "shared-selective", "shared-noisy", "shared-strategic"}
Planned  == Sharing \cup {"paced-public"}
Asking   == {"market-private", "private-request-rotation"}
Local    == Asking \cup {"private-no-market"}
Policies == Planned \cup Local \cup Rotating

(* Some policies have the name of an allocator of Study; these plays go     *)
(* through phases of their own.                                             *)
In(phase) == play.phase = phase /\ UNCHANGED study

BeginReporting ==
  /\ Begun
  /\ \E policy \in Policies : play' = [StartPlay(policy, "unshaded") EXCEPT !.phase = "start"]

StartRound ==
  /\ In("start")
  /\ play' = [play EXCEPT !.remaining = @ - Least(@, 3),
                          !.phase = CASE ~ CanPlan                                  -> "over"
                                      [] CanPlan /\ play.allocator \in Sharing      -> "report"
                                      [] CanPlan /\ play.allocator = "paced-public" -> "consult"
                                      [] CanPlan /\ play.allocator \notin Planned   -> "ask",
                          !.choices = Deferred, !.reports = Unheard, !.quality = SIGNAL_QUALITY,
                          !.queue = InOrder(Persons, Sooner), !.entrants = {}, !.wagers = Nobody]

-----------------------------------------------------------------------------
(* report_subset: before anything is reported, the planner compares what    *)
(* each set of reports is worth on average, less what they cost.            *)
Objective(headroom, signals) ==
  LET funded == {choices \in Bundles(round) : Bill(round, choices) <= headroom}
  IN Max({Over([i \in Persons |-> Yield(i, c[i], signals[i])]) + Continuation(round + 1, headroom - Bill(round, c)) :
            c \in funded})

(* eight times the average *)
Scored(S) ==
  LET headroom == play.remaining - REPORT_COST * Cardinality(S)
      heard    == [S -> {"true", "false"}]
  IN 2 ^ (3 - Cardinality(S)) *
       FoldSet(LAMBDA h, total : total + Objective(headroom, [i \in Persons |-> IF i \in S THEN h[i] ELSE "none"]),
               0, heard)

Selections ==
  LET payable == {S \in SUBSET Persons : REPORT_COST * Cardinality(S) <= play.remaining}
      score   == [S \in payable |-> Scored(S)]
      best    == {S \in payable : \A T \in payable : score[T] <= score[S]}
  IN {S \in best : \A T \in best : Cardinality(S) <= Cardinality(T)}

Asked == IF play.allocator = "shared-selective" THEN Selections ELSE {Persons}

(* What a person may report. *)
Told(i) ==
  CASE play.allocator = "shared-noisy"                -> {"true", "false"}
    [] play.allocator = "shared-strategic" /\ i = 0   -> {"true"}
    [] play.allocator # "shared-noisy" /\ ~ (play.allocator = "shared-strategic" /\ i = 0) -> {SignalOf(i)}

NoisyQuality == Max({50, (SIGNAL_QUALITY * (100 - REPORT_NOISE) + (100 - SIGNAL_QUALITY) * REPORT_NOISE) \div 100})

Payable(S) == S # {} /\ REPORT_COST * Cardinality(S) <= play.remaining

BuyReports ==
  /\ In("report")
  /\ \E S \in Asked :
       IF Payable(S)
         THEN \E reports \in [Persons -> {"none", "true", "false"}] :
                /\ \A i \in Persons : IF i \in S THEN reports[i] \in Told(i) ELSE reports[i] = "none"
                /\ play' = [play EXCEPT !.phase = "consult", !.reports = reports,
                                        !.remaining = @ - REPORT_COST * Cardinality(S),
                                        !.quality = IF play.allocator = "shared-noisy" THEN NoisyQuality ELSE @]
         ELSE play' = [play EXCEPT !.phase = "consult"]

PlanWithReports ==
  /\ In("consult")
  /\ \E choices \in Favourites(play.reports, TRUE) : play' = [play EXCEPT !.choices = choices, !.phase = "finish"]

-----------------------------------------------------------------------------
(* The policies without a planner: requests for the premium resource in     *)
(* turn, the grants, and the rest.                                          *)
Joins(i, wager) ==
  /\ wager > 0
  /\ i \in ReviewEligible(round)
  /\ Outlay(i, round, "premium") + Fee <= play.remaining

AskForPremium ==
  /\ In("ask") /\ play.queue # <<>>
  /\ LET i     == Head(play.queue)
         gain  == Gain(i, SignalOf(i))
         wager == IF play.allocator = "market-private" THEN Least(gain, play.credits[i]) ELSE gain
     IN play' = IF play.allocator \in Asking /\ PREMIUM_CAPACITY > 0 /\ Joins(i, wager)
                THEN [play EXCEPT !.queue = Tail(@), !.remaining = @ - Fee, !.wagers[i] = wager,
                                  !.entrants = @ \cup {i}]
                ELSE [play EXCEPT !.queue = Tail(@)]

RankRequests ==
  /\ In("ask") /\ play.queue = <<>>
  /\ play' = [play EXCEPT !.phase = "order", !.queue = InOrder(play.entrants, Precedes)]

Suits(i, resource) ==
  Feasible(round, Served(i, resource)) /\ Outlay(i, round, resource) <= play.remaining

GrantRequest ==
  /\ In("order") /\ play.queue # <<>>
  /\ play' = IF Suits(Head(play.queue), "premium") THEN Granted(Head(play.queue)) ELSE [play EXCEPT !.queue = Tail(@)]

(* The rotation decides between equals. *)
ByValue(i, j) == batch[i].value > batch[j].value \/ (batch[i].value = batch[j].value /\ Sooner(i, j))

ByYield(i, j) ==
  LET left  == Expected(batch[i].value, "cheap", "none", SIGNAL_QUALITY) * Outlay(j, round, "cheap")
      right == Expected(batch[j].value, "cheap", "none", SIGNAL_QUALITY) * Outlay(i, round, "cheap")
  IN left > right \/ (left = right /\ Sooner(i, j))

InTurn ==
  CASE play.allocator = "priority"              -> InOrder(Persons, ByValue)
    [] play.allocator = "evcost"                -> InOrder(Persons, ByYield)
    [] play.allocator \notin {"priority", "evcost"} -> InOrder(Persons, Sooner)

OrderRest ==
  /\ In("order") /\ play.queue = <<>>
  /\ play' = [play EXCEPT !.phase = "pick", !.queue = InTurn]

Candidates(i) ==
  {resource \in Resources \ {"defer"} :
     ~ (play.allocator \in Asking /\ resource = "premium") /\ Suits(i, resource)}

(* a yields more for its cost than b, or as much and more of it *)
Outranks(i, a, b, signal) ==
  LET left  == Yield(i, a, signal) * Outlay(i, round, b)
      right == Yield(i, b, signal) * Outlay(i, round, a)
  IN left > right \/ (left = right /\ Yield(i, a, signal) >= Yield(i, b, signal))

PickNext ==
  /\ In("pick") /\ play.queue # <<>>
  /\ LET i      == Head(play.queue)
         signal == IF play.allocator \in Local THEN SignalOf(i) ELSE "none"
     IN IF play.choices[i] = "defer" /\ Candidates(i) # {}
        THEN \E a \in Candidates(i) :
               /\ \A b \in Candidates(i) : Outranks(i, a, b, signal)
               /\ play' = [play EXCEPT !.queue = Tail(@), !.choices = Served(i, a),
                                       !.remaining = @ - Outlay(i, round, a)]
        ELSE play' = [play EXCEPT !.queue = Tail(@)]

PicksEnd == In("pick") /\ play.queue = <<>> /\ play' = [play EXCEPT !.phase = "finish"]

(* A planner pays now; the others have paid as they chose. *)
ToPay == IF play.allocator \in Planned THEN Bill(round, play.choices) ELSE 0

FinishRound ==
  /\ In("finish")
  /\ play' = [Closed(ToPay) EXCEPT !.phase = IF round + 1 < Rounds THEN "start" ELSE "over"]

-----------------------------------------------------------------------------
ReportingNext ==
  \/ BeginReporting \/ StartRound \/ BuyReports \/ PlanWithReports
  \/ AskForPremium \/ RankRequests \/ GrantRequest \/ OrderRest \/ PickNext \/ PicksEnd \/ FinishRound

StudiesSpec == StudyInit /\ [][StudyNext \/ ReportingNext]_studyVars

(* The assertions of both programs, for every allocator and every policy:   *)
(* rounds are feasible and paid for, reports and fees included, whatever is *)
(* reported and in whatever order budget is set aside, given back and       *)
(* spent; credits are neither made nor lost.                                *)
PlaysAreFunded ==
  /\ RoundsAreFunded
  /\ play.phase = "finish" => Feasible(round, play.choices) /\ ToPay <= play.remaining
=============================================================================
