\* A login whose process crashes while it is being recorded.
SPECIFICATION Spec
CONSTANTS
  None = None
  Account = {a}
  Persisted = {}
  MaxLaunch = 2
  Env = {"login", "crash"}
INVARIANT RecordedWhenUp
CHECK_DEADLOCK FALSE
