---------------------------- MODULE CentralPlan -----------------------------
(***************************************************************************)
(* The central allocator, Engine._central_plan of aecp/engine.py: "exact   *)
(* tick-local multiple-choice knapsack".  It goes through the items of a   *)
(* plan once and keeps, for every amount of budget and of each scarce      *)
(* resource that a choice for the items so far can use, the most valuable  *)
(* such choice.                                                            *)
(*                                                                         *)
(* A choice is a function from some of the items to the resource each one  *)
(* gets.  What an item is estimated to yield with a resource is any of a   *)
(* few values.  Of two choices with the same use and the same value the    *)
(* code keeps the one its dictionary comes to first, here it is CHOOSEn.   *)
(***************************************************************************)
EXTENDS Integers, FiniteSets, FiniteSetsExt, Functions

CONSTANTS
  Items,       \* 1 .. n, the indices of the plan
  Estimates,   \* observation.value * probability // 10000
  Headrooms,   \* of the run's account
  PREMIUM,     \* premium_capacity, 0 in a throttled tick
  CONSULTATION,
  MANDATORY    \* mandatory_capacity

ASSUME CentralAssumption ==
  /\ IsFiniteSet(Items) /\ Items = 1 .. Cardinality(Items)
  /\ Estimates \subseteq Nat /\ Headrooms \subseteq Nat
  /\ {PREMIUM, CONSULTATION, MANDATORY} \subseteq Nat

COSTS == [cheap |-> 4, premium |-> 14, consultation |-> 24, planning |-> 1, verification |-> 2, mandatory_review |-> 3]
Options == {"cheap", "premium", "consultation"}

VARIABLES
  plan,      \* item -> whether it is due, mandatory, deferred by its policy, and its estimates
  headroom,
  collapsed, \* scenario "review-collapse"
  states,    \* use of budget and capacities -> the best choice with that use
  index,     \* the item considered next
  decisions  \* item -> the resource decided on: filled in at the end

centralVars == <<plan, headroom, collapsed, states, index, decisions>>

(* An item past its deadline was deferred by its policy, and is passed over. *)
DueItem  == [due: {TRUE}, mandatory: BOOLEAN, deferred: BOOLEAN, estimate: [Options -> Estimates]]
PastItem == [due: {FALSE}, mandatory: {FALSE}, deferred: {TRUE}, estimate: [Options -> {0}]]

-----------------------------------------------------------------------------
(* budget: planning is paid for every item before anything is executed.     *)
Budget == LET planning == Cardinality(Items) * COSTS.planning
          IN IF headroom > planning THEN headroom - planning ELSE 0

Cost(i, r) == COSTS[r] + COSTS.verification + (IF plan[i].mandatory THEN COSTS.mandatory_review ELSE 0)

Nothing == <<0, 0, 0, 0>>

Adding(use, i, r) ==
  <<use[1] + Cost(i, r),
    use[2] + (IF r = "premium" THEN 1 ELSE 0),
    use[3] + (IF r = "consultation" THEN 1 ELSE 0),
    use[4] + (IF plan[i].mandatory THEN 1 ELSE 0)>>

Within(use) ==
  /\ use[1] <= Budget
  /\ use[2] <= PREMIUM
  /\ use[3] <= (IF collapsed THEN 0 ELSE CONSULTATION)
  /\ use[4] <= (IF collapsed THEN 0 ELSE MANDATORY)

Value(choice) == FoldFunction(+, 0, [i \in DOMAIN choice |-> plan[i].estimate[choice[i]]])

Extended(choice, i, r) == [j \in DOMAIN choice \cup {i} |-> IF j = i THEN r ELSE choice[j]]

Best(choices) == CHOOSE c \in choices : \A d \in choices : Value(d) <= Value(c)

-----------------------------------------------------------------------------
(* updated: what was reached without the item, and with it.  An item that   *)
(* is past its deadline is passed over.  Mutant: each way to serve the item *)
(* that has room is taken at once, the choice without it is not kept.       *)
ReachedServing(i) ==
  LET served == {<<Adding(use, i, r), Extended(states[use], i, r)>> : use \in DOMAIN states, r \in Options}
      room   == {s \in served : plan[i].due /\ Within(s[1])}
  IN IF room = {} THEN {<<use, states[use]>> : use \in DOMAIN states} ELSE room

Reached(i) ==
  LET served == {<<Adding(use, i, r), Extended(states[use], i, r)>> : use \in DOMAIN states, r \in Options}
  IN {<<use, states[use]>> : use \in DOMAIN states} \cup {s \in served : plan[i].due /\ Within(s[1])}

Consider ==
  /\ index \in Items
  /\ states' = [use \in {s[1] : s \in Reached(index)} |->
                  Best({s[2] : s \in {t \in Reached(index) : t[1] = use}})]
  /\ index' = index + 1
  /\ UNCHANGED <<plan, headroom, collapsed, decisions>>

(* max by value, and by what is left of the budget. *)
Better(use, other) ==
  \/ Value(states[other]) < Value(states[use])
  \/ Value(states[other]) = Value(states[use]) /\ use[1] <= other[1]

Selected == states[CHOOSE use \in DOMAIN states : \A other \in DOMAIN states : Better(use, other)]

Decide ==
  /\ index \notin Items /\ decisions = <<>>
  /\ decisions' = [i \in Items |->
                     IF i \in DOMAIN Selected THEN Selected[i]
                     ELSE IF plan[i].due /\ ~ plan[i].deferred THEN "wait" ELSE "defer"]
  /\ UNCHANGED <<plan, headroom, collapsed, states, index>>

CentralInit ==
  /\ plan \in [Items -> DueItem \cup PastItem]
  /\ headroom \in Headrooms /\ collapsed \in BOOLEAN
  /\ states = [use \in {Nothing} |-> <<>>]
  /\ index = 1
  /\ decisions = <<>>

CentralNext == Consider \/ Decide

CentralSpec == CentralInit /\ [][CentralNext]_centralVars

-----------------------------------------------------------------------------
(* What a choice costs, and what it takes of the capacities. *)
Use(choice) ==
  LET Count(P(_)) == Cardinality({i \in DOMAIN choice : P(i)})
  IN <<FoldFunction(+, 0, [i \in DOMAIN choice |-> Cost(i, choice[i])]),
       Count(LAMBDA i : choice[i] = "premium"), Count(LAMBDA i : choice[i] = "consultation"),
       Count(LAMBDA i : plan[i].mandatory)>>

Alternatives == UNION {[D -> Options] : D \in SUBSET {i \in Items : plan[i].due}}

Decided == LET D == {i \in Items : decisions[i] \in Options} IN [i \in D |-> decisions[i]]

(* "Exact": no choice whatever that keeps within the budget and the         *)
(* capacities is worth more than the decisions, and none that is worth as   *)
(* much costs less.  And what the tick will cost if all goes well, planning *)
(* for the items that are not served included, is there before anything of  *)
(* it is spent: no item is decided on that the account has no room for.     *)
PlanIsExact ==
  decisions # <<>> =>
    /\ \A c \in Alternatives :
         Within(Use(c)) => \/ Value(c) < Value(Decided)
                           \/ Value(c) = Value(Decided) /\ Use(Decided)[1] <= Use(c)[1]
    /\ Within(Use(Decided))
    /\ DOMAIN Decided # {} => Cardinality(Items) * COSTS.planning + Use(Decided)[1] <= headroom
=============================================================================
