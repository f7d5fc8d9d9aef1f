SPECIFICATION MCFairSpec
CONSTANTS
  gateway = gateway
  agent = agent
  h1 = h1
  f1 = f1
  h2 = h2
  h3 = h3
  operator = operator
  chat = chat
  native = native
  None = None
  Balance = 1
  AccountIds = {gateway, agent}
  HoldIds = {h1, f1, h2, h3}
  ChatIds = {h2}
  NativeIds = {h3}
  Tasks = {chat, native}
  Chats = {chat}
  Fee <- MCFee
  Units = {"SIM_COST_MICRO"}
  Requests = {prem, bidding, chat, native}
  Payments = {}
  Premium = {prem}
  Bidding = bidding
  Fundings = {1, 2}
  Bounds = {1, 2}
  Charges = {0, 1}
  Lifecycles = {"SUSPENDED"}
  Expiries = {1, 2}
  Times = {0, 1, 2}
  MAX_AMOUNT = 3
  BidIds = {1}
  AuctionIds = {x1}
  Owners = {gateway, agent, operator}
  Operator = operator
  Prices = {1, 2}
  Capacities = {1}
  Deadlines = {1, 2}
  Issues = {}
  TransferIds = {}
  Transferred = {}
  Workers = {m}
  Mutator = m
  PremiumIds = {h1}
  ApprovalIds = {}
  Reviewers = {}
  ApprovalExpiries = {}
  Trust = {FALSE}
  Ambiguity = {FALSE}
  Agents = {agent}
  Scope = gateway
  TTL = 1
  Horizon = 1
  MaxRestarts = 2
INVARIANTS RoutesEndWhole BidsPayTheirFee
PROPERTIES BackingIsKept EscrowComesBack ExecutionsArePaid AnswersAreScored
CHECK_DEADLOCK FALSE
