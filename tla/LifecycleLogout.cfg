\* A logout that races a crash restart.
SPECIFICATION Spec
CONSTANTS
  None = None
  Account = {a}
  Persisted = {a}
  MaxLaunch = 3
  Env = {"logout", "crash"}
PROPERTY LoggedOutStaysDown
CHECK_DEADLOCK FALSE
