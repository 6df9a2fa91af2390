CONSTANTS
  get = get
  post = post
  login = login
  Idempotent = {get}
  Posts = {post}
  Logins = {login}
  Intervals = {0, 2}
  PauseLengths = {1, 3}
  ConflictWait = 1
  Retries = 1
  Conflicts = 1
  LoginAttempts = 2
SPECIFICATION FairSpec
INVARIANTS
  TypeOK
  PostAppliedOnce
  RetryBudgets
PROPERTIES
  StartsSpaced
  SilentWhilePaused
  EveryExchangeReturns
