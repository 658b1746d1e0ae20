SPECIFICATION FairSpec
CONSTANTS
  a = a
  b = b
  Nobody = Nobody
  Work = {a, b}
  Agents = {}
  Reviewers = {r1}
  Observers = {}
  MaxAttempts = 1
  MaxLease = 1
  RetryFailed = {}
  RetryExpired = {}
  RequiresApproval = {}
  Deadlines = {b}
  Containers = {}
  Deps <- Chain
  Legacy = {a, b}
PROPERTIES
  NoClaimBeforeDependencies
  LapsedAttemptIsClosed
  DerivedWaitIsLifted
  DeadlineTakesEffect
