SPECIFICATION Spec
CONSTANTS
  a = a
  b = b
  Nobody = Nobody
  Work = {a}
  Agents = {g1}
  Reviewers = {r1}
  Observers = {o1}
  MaxAttempts = 2
  MaxLease = 2
  RetryFailed = {a}
  RetryExpired = {a}
  RequiresApproval = {a}
  Deadlines = {a}
  Containers = {}
  Deps <- NoDeps
  Legacy = {a}
INVARIANTS
  LeaseExclusion
  AttemptsCounted
  NoExecutionBehindOutcome
  SuccessIsEarned
  RevisionFence
PROPERTIES
  OutcomesStand
  HoldOnIdleWorkStands
