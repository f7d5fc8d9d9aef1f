------------------------------- MODULE Billing -------------------------------
(***************************************************************************)
(* The billing contracts, aecp/billing.py: a quote has a price and a       *)
(* maximum for every billable dimension; the charge of a dimension is      *)
(* rounded up to whole units of account.  Before the work the quote gives  *)
(* the bound that a hold may reserve; after it, reported usage gives the   *)
(* calculated cost and the dimensions that exceeded their maximum.         *)
(*                                                                         *)
(* Names, versions, units and currencies are left out.  A quote with       *)
(* unsupported dimensions has no bound, and usage that does not name       *)
(* exactly the dimensions of the quote is refused.                         *)
(***************************************************************************)
EXTENDS Integers, Totals

CONSTANTS
  Dimensions,   \* the names of billable dimensions
  UnitCounts,   \* maxima and usage
  Numerators, Denominators,
  Invoices      \* amounts of trusted invoices

ASSUME BillingAssumption ==
  /\ IsFiniteSet(Dimensions)
  /\ UnitCounts \subseteq Nat /\ Numerators \subseteq Nat /\ Invoices \subseteq Nat
  /\ Denominators \subseteq Nat \ {0}

VARIABLES
  contract,  \* kind, dimensions with their prices, whether all of them are supported
  bill       \* what reconcile returned last

billingVars == <<contract, bill>>

PricedDimension == [maximum : UnitCounts, numerator : Numerators, denominator : Denominators]
Kinds == {"modeled", "allocated", "commercial_quote"}

NoBill == [usage |-> <<>>, cost |-> 0, breached |-> {}, status |-> "none", cash |-> "unknown"]

-----------------------------------------------------------------------------
(* charge.  Mutant: rounded down. *)
ChargeRoundedDown(price, units) == (units * price.numerator) \div price.denominator

Charge(price, units) == (units * price.numerator + price.denominator - 1) \div price.denominator

DimensionCosts(usage) == [d \in DOMAIN contract.prices |-> Charge(contract.prices[d], usage[d])]

CalculatedCost(usage) == Total(DOMAIN contract.prices, DimensionCosts(usage))

UpperBound == CalculatedCost([d \in DOMAIN contract.prices |-> contract.prices[d].maximum])

Exceeding(usage) == {d \in DOMAIN contract.prices : usage[d] > contract.prices[d].maximum}

(* Cash is known only from a trusted invoice for a commercial quote, or if  *)
(* access was declared free: it is not the calculated cost.                 *)
Cash(status, amount) ==
  CASE status = "free_access_declared"      -> 0
    [] status = "confirmed"                 -> amount
    [] status \in {"unavailable", "pending"} -> "unknown"

ReconcileUsage(usage, status, amount) ==
  /\ status = "confirmed" => contract.kind = "commercial_quote"
  /\ bill' = [usage |-> usage, cost |-> CalculatedCost(usage), breached |-> Exceeding(usage),
              status |-> status, cash |-> Cash(status, amount)]
  /\ UNCHANGED contract

BillingInit ==
  /\ \E D \in SUBSET Dimensions \ {{}}, kind \in Kinds, supported \in BOOLEAN :
       \E prices \in [D -> PricedDimension] : contract = [kind |-> kind, prices |-> prices, supported |-> supported]
  /\ bill = NoBill

BillingNext ==
  \E usage \in [DOMAIN contract.prices -> UnitCounts], amount \in Invoices,
     status \in {"unavailable", "pending", "confirmed", "free_access_declared"} :
    ReconcileUsage(usage, status, amount)

BillingSpec == BillingInit /\ [][BillingNext]_billingVars

-----------------------------------------------------------------------------
(* A hold for the quote's bound covers the work: the calculated cost is     *)
(* above it only if some dimension is reported as breached.  And what is    *)
(* charged for a dimension covers its price, by less than one unit: nothing *)
(* is lost in the rounding, however small the usage.                        *)
BillIsCovered ==
  bill # NoBill =>
    /\ contract.supported /\ bill.breached = {} => bill.cost <= UpperBound
    /\ \A d \in DOMAIN contract.prices :
         LET price == contract.prices[d]
             exact == bill.usage[d] * price.numerator
             whole == Charge(price, bill.usage[d]) * price.denominator
         IN exact <= whole /\ whole < exact + price.denominator
=============================================================================
