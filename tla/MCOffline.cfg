SPECIFICATION MCSpec
CONSTANTS
  Items = {1, 2, 3}
  Estimates = {3, 10}
  Headrooms = {37}
  PREMIUM = 1
  CONSULTATION = 1
  MANDATORY = 1
  Rounds = 2
  StudyBudgets = {5, 40, 110}
  Batches <- MCBatches
  Tariffs <- MCTariffs
  PREMIUM_CAPACITY = 1
  CONSULTATION_CAPACITY = 1
  MANDATORY_CAPACITY = 2
  BID_COST = 2
  SIGNAL_QUALITY = 75
  PROVIDER_RELIABILITY = 90
  Strategies = {"unshaded", "shade", "overstate", "hoard"}
  ENDOWMENT = 40
  REPORT_COST = 2
  REPORT_NOISE = 20
  c1 = c1
  c2 = c2
  c3 = c3
  c4 = c4
  c5 = c5
  c6 = c6
  Tasks <- MCTasks
  Root = root
  Agent = agent
  Other = other
  Job = job1
  ChangedJob = job2
  Ticks = 6
  TrialBudgets = {12, 20}
  Delays = {None, 1, 4}
  None = None
  AccountIds = {root, agent, other}
  HoldIds = {c1, c2, c3, c4, c5, c6}
  Units = {"SIM_COST_MICRO"}
  Requests = {job1, job2}
  Payments = {}
  Premium = {}
  Fundings = {4}
  Bounds = {4}
  Charges = {0, 3, 7}
  Lifecycles = {"SUSPENDED"}
  Expiries = {1}
  Times = {0}
  MAX_AMOUNT = 30
  BidIds = {}
  AuctionIds = {}
  Owners = {root, agent, other}
  Operator = agent
  Prices = {}
  Capacities = {}
  Deadlines = {}
  Issues = {}
  TransferIds = {}
  Transferred = {}
  Workers = {w1}
  Runner = w1
  ApprovalIds = {}
  Reviewers = {}
  ApprovalExpiries = {}
  Trust = {FALSE}
  Ambiguity = {FALSE}
  input = input
  output = output
  Dimensions = {input, output}
  UnitCounts = {0, 1, 3}
  Numerators = {0, 3}
  Denominators = {1, 2}
  Invoices = {5}
INVARIANTS PlanIsExact BillIsCovered PlaysAreFunded OracleIsBound ScenariosEndAsTested ExposureAccounted
CHECK_DEADLOCK FALSE
