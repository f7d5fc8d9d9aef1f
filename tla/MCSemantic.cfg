SPECIFICATION MCSpec
CONSTANTS
  None = None
  MAX_AMOUNT = 2000
  a = a
  b = b
  one = one
  two = two
  Decidable = {"execution"}
  Agent = Agent
  Funded = 1204
  CASES = {one, two}
  MandatoryReview = {two}
  StateAware = {one}
  RequestIds = {a, b}
  Workers = {w1, w2}
  DEADLINE_STEPS = 2
  CONSULTATIONS = 1
  MaxCrashes = 1
SYMMETRY Alike
INVARIANTS CasesFollowActions AnswersMatchHolds NothingLeftReserved ConsultationsCounted
CHECK_DEADLOCK FALSE
