------------------------------- MODULE Ledger -------------------------------
(***************************************************************************)
(* The reservation kernel, aecp/ledger.py.  Every public method of the     *)
(* class is one SQLite transaction (BEGIN IMMEDIATE ... commit, rolled     *)
(* back on any exception), so every method is one atomic action here and a *)
(* method that raises is an action that is not enabled.  Methods that find *)
(* nothing to do (an idempotent repeat) change no table and have no action.*)
(*                                                                         *)
(* accounts, holds and events are the three tables, as functions from the  *)
(* primary key to the row.  Of the events table the rows that carry a hold *)
(* id are kept, per hold and in order of seq; rows about accounts and the  *)
(* reservation_denied rows are logging that no code reads back.            *)
(***************************************************************************)
EXTENDS Integers, Sequences, Totals, Delegation

CONSTANTS
  AccountIds,   \* primary keys a caller may use for an account
  HoldIds,      \* primary keys a caller may use for a reservation
  Units,        \* UNITS: the currencies an account may be kept in
  Requests,     \* the task, operation, request hash and resource of a hold
  Fundings,     \* amounts create_account is called with
  Bounds,       \* upper bounds reserve is called with
  Charges,      \* actual charges settle is called with
  Lifecycles,   \* lifecycles set_lifecycle is called with
  Expiries,     \* expires_at of a reservation: a time, or None
  Times,        \* clock readings used as now
  MAX_AMOUNT    \* 2^63 - 1 in the code: the largest integer of a column

ASSUME AmountAssumption ==
  /\ MAX_AMOUNT \in Nat
  /\ Fundings \subseteq 0 .. MAX_AMOUNT
  /\ Bounds \subseteq 1 .. MAX_AMOUNT
  /\ Charges \subseteq 0 .. MAX_AMOUNT
  /\ Times \subseteq 0 .. MAX_AMOUNT
  /\ Expiries \subseteq (0 .. MAX_AMOUNT) \cup {None}

ASSUME LifecycleAssumption == Lifecycles \subseteq {"ACTIVE", "SUSPENDED", "WINDING_DOWN"}

ASSUME NoneAssumption ==
  None \notin AccountIds \cup HoldIds \cup Requests \cup (0 .. MAX_AMOUNT)

ASSUME FiniteHolds == IsFiniteSet(HoldIds)

VARIABLES accounts, holds, events

ledgerVars == <<accounts, holds, events>>

Amount      == 0 .. MAX_AMOUNT
OUTSTANDING == {"RESERVED", "DISPATCHED", "UNRESOLVED"}
HoldStates  == OUTSTANDING \cup {"SETTLED", "RELEASED"}
EventKinds  == {"reserved", "dispatched", "unresolved", "settled", "released", "expired",
                "reconciled_no_charge", "liability_bound_breached"}

AccountRow == [unit: Units, funded: Amount, spent: Amount, spent_high: Nat, reserved: Amount,
               status: {"ACTIVE", "FROZEN"}, lifecycle: Lifecycles \cup {"ACTIVE"}, parent: AccountIds \cup {None}]
HoldRow    == [account: AccountIds, bound: Bounds, request: Requests,
               expires_at: Expiries, state: HoldStates, actual: Charges \cup {None}]

-----------------------------------------------------------------------------
(* Reading the tables *)

Ancestors(a) == Chain(accounts, a)

(* The holds of an account and of everything delegated from it. *)
HoldsUnder(a) == {h \in DOMAIN holds : a \in Ancestors(holds[h].account)}

OutstandingUnder(a) == {h \in HoldsUnder(a) : holds[h].state \in OUTSTANDING}

(* _account joins the two limbs of the spent column. *)
Spent(a) == accounts[a].spent + accounts[a].spent_high * (MAX_AMOUNT + 1)

Active(a)      == accounts[a].status = "ACTIVE" /\ accounts[a].lifecycle = "ACTIVE"

(* Mutants: a guard that looks at the account and forgets its ancestors.    *)
ActiveAccountOnly(a)      == a \in DOMAIN accounts /\ Active(a)
FitsAccountOnly(a, bound) == Spent(a) + accounts[a].reserved + bound <= accounts[a].funded

ChainActive(a) == \A s \in Ancestors(a) : Active(s)

Fits(a, bound) == \A s \in Ancestors(a) : Spent(s) + accounts[s].reserved + bound <= accounts[s].funded

Due(h, now) == holds[h].expires_at # None /\ holds[h].expires_at <= now

UpperBounds   == [h \in DOMAIN holds |-> holds[h].bound]
ActualCharges == [h \in DOMAIN holds |-> IF holds[h].state = "SETTLED" THEN holds[h].actual ELSE 0]

-----------------------------------------------------------------------------
(* Writing the tables *)

(* _event, for the events of one hold *)
Record(h, kinds) == events' = [events EXCEPT ![h] = @ \o kinds]

(* UPDATE holds SET state = ? WHERE id = ? *)
SetState(h, state) == holds' = [holds EXCEPT ![h].state = state]

(* Each scope of a chain gives up the bounds of the holds that leave it. *)
Unreserve(H) ==
  accounts' = [s \in DOMAIN accounts |->
                 [accounts[s] EXCEPT !.reserved = @ - Total(H \cap HoldsUnder(s), UpperBounds)]]

(* settle's row for a scope: the charge in full, carried into the high limb. *)
(* Mutants: the low limb alone, and a breach that freezes the payer only.    *)
SettledWithoutCarry(s, h, actual) ==
  [accounts[s] EXCEPT !.spent    = (@ + actual) % (MAX_AMOUNT + 1),
                      !.reserved = @ - holds[h].bound,
                      !.status   = IF actual > holds[h].bound THEN "FROZEN" ELSE @]

SettledFreezingPayer(s, h, actual) ==
  [accounts[s] EXCEPT !.spent      = (Spent(s) + actual) % (MAX_AMOUNT + 1),
                      !.spent_high = (Spent(s) + actual) \div (MAX_AMOUNT + 1),
                      !.reserved   = @ - holds[h].bound,
                      !.status     = IF actual > holds[h].bound /\ s = holds[h].account
                                       THEN "FROZEN" ELSE @]

SettledAccount(s, h, actual) ==
  [accounts[s] EXCEPT !.spent      = (Spent(s) + actual) % (MAX_AMOUNT + 1),
                      !.spent_high = (Spent(s) + actual) \div (MAX_AMOUNT + 1),
                      !.reserved   = @ - holds[h].bound,
                      !.status     = IF actual > holds[h].bound THEN "FROZEN" ELSE @]

-----------------------------------------------------------------------------
(* The methods *)

Init ==
  /\ accounts = [a \in {} |-> {}]
  /\ holds    = [h \in {} |-> {}]
  /\ events   = [h \in HoldIds |-> <<>>]

(* create_account: the trusted initial funding of a root, or a delegation   *)
(* that fits its parent, keeps its unit and finds the whole chain active.   *)
CreateAccount(a, funded, unit, parent) ==
  /\ a \notin DOMAIN accounts
  /\ parent # None => /\ parent \in DOMAIN accounts
                      /\ accounts[parent].unit = unit
                      /\ funded <= accounts[parent].funded
                      /\ ChainActive(parent)
  /\ accounts' = [b \in DOMAIN accounts \cup {a} |->
                    IF b = a THEN [unit |-> unit, funded |-> funded, spent |-> 0, spent_high |-> 0,
                                   reserved |-> 0, status |-> "ACTIVE", lifecycle |-> "ACTIVE",
                                   parent |-> parent]
                             ELSE accounts[b]]
  /\ UNCHANGED <<holds, events>>

(* reserve: every scope of the chain must be active and have room, and each *)
(* one's reserved column takes the bound.                                   *)
Reserve(a, h, bound, request, expires) ==
  /\ h \notin DOMAIN holds
  /\ a \in DOMAIN accounts
  /\ ChainActive(a)
  /\ Fits(a, bound)
  /\ holds' = [g \in DOMAIN holds \cup {h} |->
                 IF g = h THEN [account |-> a, bound |-> bound, request |-> request,
                                expires_at |-> expires, state |-> "RESERVED", actual |-> None]
                          ELSE holds[g]]
  /\ accounts' = [s \in DOMAIN accounts |->
                    IF s \in Ancestors(a) THEN [accounts[s] EXCEPT !.reserved = @ + bound]
                                          ELSE accounts[s]]
  /\ Record(h, <<"reserved">>)

(* mark_dispatched and _dispatch: a RESERVED hold is claimed once, before   *)
(* it expires, and only while its whole chain is active.                    *)
(* Mutant: the state the caller saw is taken for the state of the row.      *)
DispatchUnclaimed(h, now) ==
  /\ h \in DOMAIN holds
  /\ ~ Due(h, now)
  /\ ChainActive(holds[h].account)
  /\ SetState(h, "DISPATCHED")
  /\ Record(h, <<"dispatched">>)
  /\ UNCHANGED accounts

Dispatch(h, now) ==
  /\ h \in DOMAIN holds
  /\ holds[h].state = "RESERVED"
  /\ ~ Due(h, now)
  /\ ChainActive(holds[h].account)
  /\ SetState(h, "DISPATCHED")
  /\ Record(h, <<"dispatched">>)
  /\ UNCHANGED accounts

(* mark_unresolved: the outcome is uncertain, the liability is kept whole. *)
MarkUnresolved(h) ==
  /\ h \in DOMAIN holds
  /\ holds[h].state = "DISPATCHED"
  /\ SetState(h, "UNRESOLVED")
  /\ Record(h, <<"unresolved">>)
  /\ UNCHANGED accounts

(* settle: the actual charge replaces the bound in every scope of the chain *)
(* and freezes the chain when it exceeds the bound.                         *)
(* Mutant: a repeated settlement is one more settlement.                    *)
SettleRepeatedly(h, actual) ==
  /\ h \in DOMAIN holds
  /\ holds[h].state \in {"DISPATCHED", "UNRESOLVED", "SETTLED"}
  /\ accounts' = [s \in DOMAIN accounts |->
                    IF s \in Ancestors(holds[h].account) THEN SettledAccount(s, h, actual)
                                                         ELSE accounts[s]]
  /\ holds' = [holds EXCEPT ![h].state = "SETTLED", ![h].actual = actual]
  /\ Record(h, <<"settled">>)

Settle(h, actual) ==
  /\ h \in DOMAIN holds
  /\ holds[h].state \in {"DISPATCHED", "UNRESOLVED"}
  /\ accounts' = [s \in DOMAIN accounts |->
                    IF s \in Ancestors(holds[h].account) THEN SettledAccount(s, h, actual)
                                                         ELSE accounts[s]]
  /\ holds' = [holds EXCEPT ![h].state = "SETTLED", ![h].actual = actual]
  /\ Record(h, IF actual > holds[h].bound THEN <<"settled", "liability_bound_breached">>
                                          ELSE <<"settled">>)

(* _release accepts a hold nobody dispatched, or evidence about one that    *)
(* somebody did.  Mutant: a timeout is taken as evidence.                   *)
ReleasableAnyTime(h, evidence) == holds[h].state \in OUTSTANDING

Releasable(h, evidence) ==
  holds[h].state \in (IF evidence THEN {"DISPATCHED", "UNRESOLVED"} ELSE {"RESERVED"})

Release(h) ==
  /\ h \in DOMAIN holds
  /\ Releasable(h, FALSE)
  /\ Unreserve({h})
  /\ SetState(h, "RELEASED")
  /\ Record(h, <<"released">>)

ReconcileNoCharge(h) ==
  /\ h \in DOMAIN holds
  /\ Releasable(h, TRUE)
  /\ Unreserve({h})
  /\ SetState(h, "RELEASED")
  /\ Record(h, <<"reconciled_no_charge">>)

(* set_lifecycle: the operator suspends, winds down or reactivates a scope. *)
SetLifecycle(a, lifecycle) ==
  /\ a \in DOMAIN accounts
  /\ accounts' = [accounts EXCEPT ![a].lifecycle = lifecycle]
  /\ UNCHANGED <<holds, events>>

(* expire: every RESERVED hold whose time has come, everywhere or beneath   *)
(* one scope, is released in one transaction.                               *)
Expiring(now, scope) ==
  {h \in DOMAIN holds : holds[h].state = "RESERVED" /\ Due(h, now)
                          /\ (scope = None \/ scope \in Ancestors(holds[h].account))}

Expire(now, scope) ==
  LET E == Expiring(now, scope) IN
  /\ E # {}
  /\ Unreserve(E)
  /\ holds'  = [h \in DOMAIN holds |-> IF h \in E THEN [holds[h] EXCEPT !.state = "RELEASED"]
                                                  ELSE holds[h]]
  /\ events' = [h \in HoldIds |-> IF h \in E THEN Append(events[h], "expired") ELSE events[h]]

-----------------------------------------------------------------------------
OpenAccount == \E a \in AccountIds, f \in Fundings, u \in Units, p \in AccountIds \cup {None} :
                 CreateAccount(a, f, u, p)
MakeHold    == \E a \in AccountIds, h \in HoldIds, b \in Bounds, r \in Requests,
                  t \in Expiries : Reserve(a, h, b, r, t)
Claim       == \E h \in HoldIds, now \in Times : Dispatch(h, now)
Doubt       == \E h \in HoldIds : MarkUnresolved(h)
Pay         == \E h \in HoldIds, actual \in Charges : Settle(h, actual)
Cancel      == \E h \in HoldIds : Release(h)
Reconcile   == \E h \in HoldIds : ReconcileNoCharge(h)
Operate     == \E a \in AccountIds, l \in Lifecycles : SetLifecycle(a, l)
Sweep       == \E now \in Times, scope \in AccountIds \cup {None} : Expire(now, scope)

Next == OpenAccount \/ MakeHold \/ Claim \/ Doubt \/ Pay \/ Cancel \/ Reconcile \/ Operate \/ Sweep

Spec == Init /\ [][Next]_ledgerVars

-----------------------------------------------------------------------------
(* Every row has the shape its table declares: in particular the CHECKs     *)
(* spent >= 0 and reserved >= 0 never reject a settlement or a release, and *)
(* both columns stay within SQLite's integers.                              *)
TypeOK ==
  /\ DOMAIN accounts \subseteq AccountIds
  /\ accounts \in [DOMAIN accounts -> AccountRow]
  /\ DOMAIN holds \subseteq HoldIds
  /\ holds \in [DOMAIN holds -> HoldRow]
  /\ events \in [HoldIds -> Seq(EventKinds)]

(* audit: what the holds beneath an account add up to *)
AuditedSpent(a)    == Total(HoldsUnder(a), ActualCharges)
AuditedReserved(a) == Total(OutstandingUnder(a), UpperBounds)

(* audit()["consistent"]: the spent and reserved columns, kept up to date   *)
(* one transaction at a time in every scope of a chain, always equal what   *)
(* the holds beneath the account add up to, limbs included.                 *)
Consistent ==
  \A a \in DOMAIN accounts : /\ Spent(a) = AuditedSpent(a)
                             /\ accounts[a].reserved = AuditedReserved(a)

(* A settled hold whose charge was more than its bound, and by how much. *)
Breached(h) == holds[h].state = "SETTLED" /\ holds[h].actual > holds[h].bound
Excesses    == [h \in DOMAIN holds |-> IF Breached(h) THEN holds[h].actual - holds[h].bound ELSE 0]

(* "settled spend + outstanding upper-bound liabilities <= funded budget":  *)
(* whatever the delegation tree and the order of the calls, an account goes *)
(* past its funding by at most the excess of the bound breaches recorded    *)
(* beneath it, and not at all when there is none.                           *)
OverrunIsBreach ==
  \A a \in DOMAIN accounts :
    Spent(a) + accounts[a].reserved <= accounts[a].funded + Total(HoldsUnder(a), Excesses)

(* The events of a hold, in order, tell its state and nothing illegal: it   *)
(* was claimed at most once, settled or released at most once and only one  *)
(* of the two, charged only after a claim, given back without evidence only *)
(* before it, and the breach is recorded exactly when there is one.         *)
Claimed == {<<"reserved", "dispatched">>, <<"reserved", "dispatched", "unresolved">>}

History(h) ==
  CASE holds[h].state = "RESERVED"   -> {<<"reserved">>}
    [] holds[h].state = "DISPATCHED" -> {<<"reserved", "dispatched">>}
    [] holds[h].state = "UNRESOLVED" -> {<<"reserved", "dispatched", "unresolved">>}
    [] holds[h].state = "SETTLED"    ->
         {c \o (IF Breached(h) THEN <<"settled", "liability_bound_breached">> ELSE <<"settled">>) :
            c \in Claimed}
    [] holds[h].state = "RELEASED"   ->
         {<<"reserved", "released">>, <<"reserved", "expired">>}
           \cup {c \o <<"reconciled_no_charge">> : c \in Claimed}

EventsExplainHolds ==
  \A h \in HoldIds : IF h \in DOMAIN holds THEN events[h] \in History(h) ELSE events[h] = <<>>

(* A breach freezes the whole chain of the account that paid, for good. *)
BreachFreezes ==
  \A h \in DOMAIN holds : Breached(h) =>
    \A s \in Ancestors(holds[h].account) : accounts[s].status = "FROZEN"

(* Once a bound breach is on record anywhere beneath a scope, no hold       *)
(* beneath that scope, a sibling's included, is ever created or dispatched  *)
(* again, also if the operator reactivates the lifecycle.                   *)
Starts(h) ==
  \/ h \notin DOMAIN holds /\ h \in DOMAIN holds'
  \/ h \in DOMAIN holds /\ holds[h].state = "RESERVED" /\ holds'[h].state = "DISPATCHED"

NoWorkAfterBreach ==
  [][\A h \in HoldIds, g \in DOMAIN holds :
       Starts(h) /\ Breached(g) =>
         Ancestors(holds[g].account) \cap Ancestors(holds'[h].account) = {}]_ledgerVars
=============================================================================
