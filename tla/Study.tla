------------------------------- MODULE Study --------------------------------
(***************************************************************************)
(* The allocation study, aecp/study.py: the same rounds of three cases are *)
(* played by every allocator, and an oracle that knows the truth says what *)
(* could have been had.  It is a program without concurrency; what is hard *)
(* in it is that ten allocators spend one budget along different paths,    *)
(* in which fees, tentative commitments, capacities and credits interact.  *)
(*                                                                         *)
(* The tables that the code caches (what later rounds are expected to      *)
(* yield) and the states of the oracle's dynamic program are computed      *)
(* round by round, in the variable study; a play of an allocator is in the *)
(* variable play, one step of a loop at a time.  Of choices that tie, any  *)
(* may be taken.  Schedules, traces and statistics are left out.           *)
(***************************************************************************)
EXTENDS Integers, Sequences, FiniteSets, FiniteSetsExt, Functions

CONSTANTS
  Rounds,              \* config.rounds
  StudyBudgets,        \* config.budget
  Batches,             \* the three cases of a round: person -> value, unposted, delivered, signal
  Tariffs,             \* person -> resource -> price; RESOURCE_COST for all in study.py
  PREMIUM_CAPACITY, CONSULTATION_CAPACITY, MANDATORY_CAPACITY,
  BID_COST,
  SIGNAL_QUALITY, PROVIDER_RELIABILITY,   \* in percent
  Strategies,          \* of the first person's bids, with its allocator: unshaded, shade, overstate, hoard
  ENDOWMENT            \* credits of each

Persons   == 0 .. 2
Resources == {"defer", "cheap", "premium", "consultation"}

(* StudyConfig.validate, and what study_corpus and tariffs produce. *)
ASSUME StudyAssumption ==
  /\ Rounds \in Nat \ {0} /\ StudyBudgets \subseteq Nat
  /\ {PREMIUM_CAPACITY, CONSULTATION_CAPACITY, MANDATORY_CAPACITY, BID_COST, ENDOWMENT} \subseteq Nat
  /\ Strategies \subseteq {"unshaded", "shade", "overstate", "hoard"}
  /\ SIGNAL_QUALITY \in 50 .. 95 /\ PROVIDER_RELIABILITY \in 0 .. 100
  /\ Tariffs \subseteq [Persons -> [Resources -> Nat]]
  /\ \A prices \in Tariffs, i \in Persons : prices[i]["defer"] = 0
  /\ Batches \subseteq [Persons -> [value : Nat, unposted : BOOLEAN, delivered : BOOLEAN, signal : BOOLEAN]]

VARIABLES
  study, \* budget, prices, cases, outlook (by round and budget), frontier (spent -> value), stage
  play   \* the round of an allocator that is being played

studyVars == <<study, play>>

Nobody   == [i \in Persons |-> 0]
Deferred == [i \in Persons |-> "defer"]
Unheard  == [i \in Persons |-> "none"]

Over(S) == FoldFunction(+, 0, S)

(* sorted: those in S by the order op, in which no two are equal. *)
InOrder(S, op(_, _)) ==
  CHOOSE q \in [1 .. Cardinality(S) -> S] : \A m, n \in DOMAIN q : m < n => op(q[m], q[n])

-----------------------------------------------------------------------------
(* Cases *)

Mandatory(i, r) == r % 2 = 0 \/ i = 0

(* Premium evidence that did not arrive is what was visible already.       *)
Correct(case, resource) ==
  CASE resource = "defer"        -> FALSE
    [] resource = "cheap"        -> ~ case.unposted
    [] resource = "premium"      -> ~ case.unposted \/ case.delivered
    [] resource = "consultation" -> TRUE

(* A signal is "none", or whether a payment is missing. *)
Missing(signal, quality) ==
  CASE signal = "none"  -> 50
    [] signal = "true"  -> quality
    [] signal = "false" -> 100 - quality

Expected(value, resource, signal, quality) ==
  LET missing == Missing(signal, quality)
  IN value * CASE resource = "defer"        -> 0
               [] resource = "cheap"        -> 100 - missing
               [] resource = "consultation" -> 100
               [] resource = "premium"      -> 100 - (missing * (100 - PROVIDER_RELIABILITY)) \div 100

Outlay(i, r, resource) ==
  study.prices[i][resource] + (IF resource = "defer" THEN 0 ELSE 2 + (IF Mandatory(i, r) THEN 3 ELSE 0))

(* A rotation decides whose mandatory case is reviewed. *)
Turn(i, r) == (i - r) % 3

ReviewEligible(r) ==
  {i \in Persons :
     Mandatory(i, r) => Cardinality({j \in Persons : Mandatory(j, r) /\ Turn(j, r) < Turn(i, r)}) < MANDATORY_CAPACITY}

Takers(choices, resource) == {i \in Persons : choices[i] = resource}
Reviewed(r, choices)      == {i \in Persons : Mandatory(i, r) /\ choices[i] # "defer"}

Feasible(r, choices) ==
  /\ Cardinality(Takers(choices, "premium")) <= PREMIUM_CAPACITY
  /\ Persons \ Takers(choices, "defer") \subseteq ReviewEligible(r)
  /\ Cardinality(Takers(choices, "consultation")) <= CONSULTATION_CAPACITY
  /\ Cardinality(Reviewed(r, choices)) <= MANDATORY_CAPACITY

Bill(r, choices) == Over([i \in Persons |-> Outlay(i, r, choices[i])])
Bundles(r)       == {choices \in [Persons -> Resources] : Feasible(r, choices)}

-----------------------------------------------------------------------------
(* future_budget_values: from the last round back, for every budget, with   *)
(* the mean of the values in place of those to come.                        *)
MEAN == 110

Foresee ==
  /\ study.stage = "foresee"
  /\ LET r       == Rounds - Len(study.outlook)
         options == {<<Bill(r, choices) + 3,
                       Over([i \in Persons |-> Expected(MEAN, choices[i], "none", SIGNAL_QUALITY)])>> :
                       choices \in Bundles(r)}
         later   == Head(study.outlook)
         now     == [b \in 0 .. study.budget |->
                       Max({0} \cup {o[2] + later[b - o[1]] : o \in {p \in options : p[1] <= b}})]
     IN study' = IF r = 0 THEN [study EXCEPT !.stage = "draw"] ELSE [study EXCEPT !.outlook = <<now>> \o @]
  /\ UNCHANGED play

(* What is expected of the rounds from r on, with b to spend. *)
Continuation(r, b) == study.outlook[r][b]

(* study_corpus *)
Draw ==
  /\ study.stage = "draw"
  /\ \E cases \in [0 .. Rounds - 1 -> Batches] : study' = [study EXCEPT !.cases = cases, !.stage = "oracle"]
  /\ UNCHANGED play

(* oracle: three units of planning are paid in a round in which anything is *)
(* executed.  Mutant: they are paid for everything that is executed.        *)
PlanningEach(choices) == 3 * Cardinality(Persons \ Takers(choices, "defer"))

PlanningOf(choices) == IF choices = Deferred THEN 0 ELSE 3

Worth(r, choices) ==
  Over([i \in Persons |-> IF Correct(study.cases[r][i], choices[i]) THEN study.cases[r][i].value ELSE 0])

Outcomes(r) == {<<Bill(r, choices) + PlanningOf(choices), Worth(r, choices)>> : choices \in Bundles(r)}

(* What is attained from the states before, within the budget, and the most    *)
(* that each amount can have bought.                                        *)
Attained(r) ==
  {p \in {<<spent + o[1], study.frontier[spent] + o[2]>> : spent \in DOMAIN study.frontier, o \in Outcomes(r)} :
     p[1] <= study.budget}

Frontier(r) == [t \in {p[1] : p \in Attained(r)} |-> Max({p[2] : p \in {q \in Attained(r) : q[1] = t}})]

OracleRound ==
  /\ study.stage = "oracle" /\ study.round < Rounds
  /\ study' = [study EXCEPT !.frontier = Frontier(study.round), !.round = @ + 1]
  /\ UNCHANGED play

OracleValue == Max({study.frontier[t] : t \in DOMAIN study.frontier})

-----------------------------------------------------------------------------
(* run_policy *)

CentralAllocators == {"central-public", "central-shared", "central-paced-public", "central-paced-shared"}
Markets           == {"market-public", "market-private"}
Requesting        == Markets \cup {"decentralized-private-no-market"}
Rotating          == {"priority", "equal", "evcost"}
Allocators        == CentralAllocators \cup Requesting \cup Rotating
Informed          == {"central-shared", "central-paced-shared", "market-private", "decentralized-private-no-market"}

Paced(allocator) == allocator \in {"central-paced-public", "central-paced-shared"}

NoPlay == [allocator |-> "none", phase |-> "none"]

StartPlay(allocator, strategy) ==
  [allocator |-> allocator, strategy |-> strategy, phase |-> "plan", round |-> 0, queue |-> <<>>,
   remaining |-> study.budget, reserved |-> 0, wagers |-> Nobody, entrants |-> {}, choices |-> Deferred,
   reports |-> Unheard, quality |-> SIGNAL_QUALITY,
   credits |-> [i \in Persons |-> ENDOWMENT], revenue |-> 0, utility |-> 0]

Begun ==
  /\ study.stage = "oracle" /\ study.round = Rounds
  /\ study' = [study EXCEPT !.stage = "play"]

BeginPlay ==
  /\ Begun
  /\ \E allocator \in Allocators, strategy \in Strategies :
       /\ allocator \notin Markets => strategy = "unshaded"
       /\ play' = StartPlay(allocator, strategy)

Studied == play.allocator \in Allocators /\ UNCHANGED study

round == play.round
batch == study.cases[round]

SignalOf(i) == IF batch[i].signal THEN "true" ELSE "false"

(* What an allocator may know of a case. *)
Seen(i) == IF play.allocator \in Informed THEN SignalOf(i) ELSE "none"

Yield(i, resource, signal) == Expected(batch[i].value, resource, signal, play.quality)

Least(a, b) == IF a < b THEN a ELSE b

(* Planning is paid for all three, or what is left is lost and it ends.     *)
CanPlan == play.remaining >= 3

PlanRound ==
  /\ Studied /\ play.phase = "plan"
  /\ play' = [play EXCEPT !.remaining = @ - Least(@, 3),
                          !.phase = CASE ~ CanPlan                                   -> "over"
                                      [] CanPlan /\ play.allocator \in CentralAllocators -> "central"
                                      [] CanPlan /\ play.allocator \in Requesting      -> "bid"
                                      [] CanPlan /\ play.allocator \in Rotating        -> "turns",
                          !.queue = <<0, 1, 2>>, !.choices = Deferred, !.entrants = {}, !.wagers = Nobody,
                          !.reserved = 0]

(* choose_public and choose_paced: the bundles with the greatest value and, *)
(* of these, the least cost.                                                *)
Prospect(choices, signals, paced) ==
  Over([i \in Persons |-> Yield(i, choices[i], signals[i])])
    + (IF paced THEN Continuation(round + 1, play.remaining - Bill(round, choices)) ELSE 0)

Favourites(signals, paced) ==
  LET funded   == {choices \in Bundles(round) : Bill(round, choices) <= play.remaining}
      prospect == [choices \in funded |-> Prospect(choices, signals, paced)]
      best     == {c \in funded : \A d \in funded : prospect[d] <= prospect[c]}
  IN {c \in best : \A d \in best : Bill(round, c) <= Bill(round, d)}

ChooseCentrally ==
  /\ Studied /\ play.phase = "central"
  /\ \E choices \in Favourites([i \in Persons |-> Seen(i)], Paced(play.allocator)) :
       play' = [play EXCEPT !.choices = choices, !.phase = "close"]

(* The bids, one person after the other.  A bidder pays the fee if all that *)
(* is asked for so far stays funded.                                        *)
Gain(i, signal) == Max({0, (Yield(i, "premium", signal) - Yield(i, "cheap", signal)) \div 100})

Shaded(i, gain) ==
  CASE i # 0 \/ play.strategy = "unshaded" -> gain
    [] i = 0 /\ play.strategy = "shade"     -> gain \div 2
    [] i = 0 /\ play.strategy = "overstate" -> gain * 3
    [] i = 0 /\ play.strategy = "hoard"     -> IF round < Rounds \div 2 THEN 0 ELSE gain

Wager(i) == IF play.allocator \in Markets THEN Least(Shaded(i, Gain(i, Seen(i))), play.credits[i]) ELSE Gain(i, Seen(i))
Fee      == IF play.allocator \in Markets THEN BID_COST ELSE 0

(* By bid or, without prices, by rotation. *)
Precedes(i, j) ==
  IF play.allocator \in Markets
    THEN play.wagers[i] > play.wagers[j] \/ (play.wagers[i] = play.wagers[j] /\ i < j)
    ELSE Turn(i, round) < Turn(j, round)

BidForPremium ==
  /\ Studied /\ play.phase = "bid" /\ play.queue # <<>>
  /\ LET i      == Head(play.queue)
         bound  == Outlay(i, round, "premium")
         enters == i \in ReviewEligible(round) /\ Wager(i) > 0 /\ play.remaining >= Fee + play.reserved + bound
     IN play' = [play EXCEPT !.queue = Tail(@),
                             !.remaining = IF enters THEN @ - Fee ELSE @,
                             !.reserved  = IF enters THEN @ + bound ELSE @,
                             !.wagers    = IF enters THEN [@ EXCEPT ![i] = Wager(i)] ELSE @,
                             !.entrants  = IF enters THEN @ \cup {i} ELSE @]

RankBids ==
  /\ Studied /\ play.phase = "bid" /\ play.queue = <<>>
  /\ play' = [play EXCEPT !.phase = "grant", !.queue = InOrder(play.entrants, Precedes)]

Served(i, resource) == [play.choices EXCEPT ![i] = resource]

(* The price is paid, in credits, by the one that is granted. *)
Price(i) == IF play.allocator \in Markets THEN play.wagers[i] ELSE 0

Granted(i) ==
  [play EXCEPT !.queue = Tail(@), !.choices = Served(i, "premium"), !.remaining = @ - Outlay(i, round, "premium"),
               !.credits[i] = @ - Price(i), !.revenue = @ + Price(i)]

HasReview(i) == Mandatory(i, round) => Cardinality(Reviewed(round, play.choices)) < MANDATORY_CAPACITY

GrantPremium ==
  /\ Studied /\ play.phase = "grant" /\ play.queue # <<>>
  /\ LET i == Head(play.queue)
     IN play' = IF /\ Cardinality(Takers(play.choices, "premium")) < PREMIUM_CAPACITY
                   /\ play.remaining >= Outlay(i, round, "premium")
                   /\ HasReview(i)
                THEN Granted(i) ELSE [play EXCEPT !.queue = Tail(@)]

(* The rest are served in the allocator's order, each with the resource     *)
(* that yields most for its cost.                                           *)
MoreValue(i, j) == batch[i].value > batch[j].value \/ (batch[i].value = batch[j].value /\ i < j)

MoreForCost(i, j) ==
  LET left  == batch[i].value * Outlay(j, round, "cheap")
      right == batch[j].value * Outlay(i, round, "cheap")
  IN left > right \/ (left = right /\ i < j)

Sooner(i, j) == Turn(i, round) < Turn(j, round)

Ordered ==
  CASE play.allocator = "equal"               -> InOrder(Persons, Sooner)
    [] play.allocator = "evcost"              -> InOrder(Persons, MoreForCost)
    [] play.allocator \notin {"equal", "evcost"} -> InOrder(Persons, MoreValue)

OrderFill ==
  /\ Studied
  /\ play.phase = "turns" \/ (play.phase = "grant" /\ play.queue = <<>>)
  /\ play' = [play EXCEPT !.phase = "fill", !.queue = Ordered]

(* Mutant: the consultations that are given already are not counted. *)
AllowedUncounted(i) ==
  {resource \in {"cheap", "consultation", "premium"} :
     /\ play.remaining >= Outlay(i, round, resource)
     /\ resource = "premium" => /\ play.allocator \notin Requesting
                                /\ Cardinality(Takers(play.choices, "premium")) < PREMIUM_CAPACITY}

Allowed(i) ==
  {resource \in {"cheap", "consultation", "premium"} :
     /\ play.remaining >= Outlay(i, round, resource)
     /\ resource = "premium" => /\ play.allocator \notin Requesting
                                /\ Cardinality(Takers(play.choices, "premium")) < PREMIUM_CAPACITY
     /\ resource = "consultation" => Cardinality(Takers(play.choices, "consultation")) < CONSULTATION_CAPACITY}

(* a yields more for its cost than b, or as much and costs less *)
Outdoes(i, a, b, signal) ==
  LET left  == Yield(i, a, signal) * Outlay(i, round, b)
      right == Yield(i, b, signal) * Outlay(i, round, a)
  IN left > right \/ (left = right /\ Outlay(i, round, a) <= Outlay(i, round, b))

FillNext ==
  /\ Studied /\ play.phase = "fill" /\ play.queue # <<>>
  /\ LET i == Head(play.queue)
     IN IF play.choices[i] = "defer" /\ i \in ReviewEligible(round) /\ Allowed(i) # {} /\ HasReview(i)
        THEN \E a \in Allowed(i) :
               /\ \A b \in Allowed(i) : Outdoes(i, a, b, Seen(i))
               /\ play' = [play EXCEPT !.queue = Tail(@), !.choices = Served(i, a), !.remaining = @ - Outlay(i, round, a)]
        ELSE play' = [play EXCEPT !.queue = Tail(@)]

(* What was put aside is given back, to be spent at the close. *)
FillEnds ==
  /\ Studied /\ play.phase = "fill" /\ play.queue = <<>>
  /\ play' = [play EXCEPT !.phase = "close", !.remaining = @ + Bill(round, play.choices)]

Closed(spent) ==
  [play EXCEPT !.remaining = @ - spent, !.utility = @ + Worth(round, play.choices), !.round = @ + 1,
               !.phase = IF round + 1 < Rounds THEN "plan" ELSE "over"]

CloseRound == Studied /\ play.phase = "close" /\ play' = Closed(Bill(round, play.choices))

-----------------------------------------------------------------------------
StudyInit ==
  /\ \E budget \in StudyBudgets, prices \in Tariffs :
       study = [budget |-> budget, prices |-> prices, cases |-> <<>>, outlook |-> <<[b \in 0 .. budget |-> 0]>>,
                frontier |-> [t \in {0} |-> 0], round |-> 0, stage |-> "foresee"]
  /\ play = NoPlay

Preparation == Foresee \/ Draw \/ OracleRound

StudyNext ==
  \/ Preparation \/ BeginPlay
  \/ PlanRound \/ ChooseCentrally \/ BidForPremium \/ RankBids \/ GrantPremium \/ OrderFill
  \/ FillNext \/ FillEnds \/ CloseRound

-----------------------------------------------------------------------------
(* The program's own assertions, for every allocator: when a round closes,  *)
(* its choices keep within the capacities and what is left pays for them    *)
(* (fees, tentative commitments and their return notwithstanding); no       *)
(* credit is made or lost; nothing is ever spent that was not there.        *)
RoundsAreFunded ==
  play.phase # "none" =>
    /\ play.phase = "close" => Feasible(round, play.choices) /\ Bill(round, play.choices) <= play.remaining
    /\ play.remaining >= 0
    /\ Over(play.credits) + play.revenue = 3 * ENDOWMENT

(* "Exact relaxed omniscient bound": no allocator, whatever it knows, is    *)
(* paid more value than the oracle found for the same cases and budget.     *)
OracleIsBound == play.phase = "over" => play.utility <= OracleValue
=============================================================================
