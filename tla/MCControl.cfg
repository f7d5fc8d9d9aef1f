SPECIFICATION MCSpec
CONSTANTS
  agent = agent
  reviewer = reviewer
  h1 = h1
  w1 = w1
  w2 = w2
  q = q
  p = p
  ap = ap
  None = None
  Funded = 2
  AccountIds = {agent}
  HoldIds = {h1}
  Units = {"SIM_COST_MICRO"}
  Requests = {q, p}
  Payments = {p}
  Premium = {}
  Fundings = {2}
  Bounds = {1, 2}
  Charges = {0, 2}
  Lifecycles = {"SUSPENDED"}
  Expiries = {1}
  Times = {0, 1}
  MAX_AMOUNT = 3
  BidIds = {}
  AuctionIds = {}
  Owners = {agent}
  Operator = agent
  Prices = {}
  Capacities = {}
  Deadlines = {}
  Issues = {}
  TransferIds = {}
  Transferred = {}
  Workers = {w1, w2}
  ApprovalIds = {ap}
  Reviewers = {agent, reviewer}
  ApprovalExpiries = {1}
  Trust = {FALSE}
  Ambiguity = {FALSE, TRUE}
SYMMETRY Symmetry
INVARIANTS AtMostOneEffect EffectIsLiable ChargeIsEvidence PaymentsReviewed
CHECK_DEADLOCK FALSE
