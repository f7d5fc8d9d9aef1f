SPECIFICATION MCSpec
CONSTANTS
  gateway = gateway
  agent = agent
  reviewer = reviewer
  h1 = h1
  w1 = w1
  w2 = w2
  q = q
  ap = ap
  None = None
  Funded = 1
  AccountIds = {gateway, agent}
  HoldIds = {h1}
  Units = {"SIM_COST_MICRO"}
  Requests = {q}
  Payments = {}
  Premium = {}
  Fundings = {1}
  Bounds = {1}
  Charges = {0, 1}
  Lifecycles = {"SUSPENDED"}
  Expiries = {1, 2, 3}
  Times = {0, 1, 2, 3}
  MAX_AMOUNT = 3
  BidIds = {}
  AuctionIds = {}
  Owners = {gateway, agent}
  Operator = agent
  Prices = {}
  Capacities = {}
  Deadlines = {}
  Issues = {}
  TransferIds = {}
  Transferred = {}
  Workers = {w1}
  ApprovalIds = {}
  Reviewers = {reviewer}
  ApprovalExpiries = {1, 2}
  Trust = {FALSE}
  Ambiguity = {FALSE}
  Agents = {agent}
  Scope = gateway
  TTL = 1
  Horizon = 2
  MaxRestarts = 1
INVARIANT RepeatsAreTheSame
CHECK_DEADLOCK FALSE
