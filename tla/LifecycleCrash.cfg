\* Restore and crash restart of two persisted accounts; failed and slow starts,
\* and a manager that is stopped and started again.
SPECIFICATION FairSpec
CONSTANTS
  None = None
  Account = {a, b}
  Persisted = {a, b}
  MaxLaunch = 4
  Env = {"crash", "stop", "spawnFail", "slowStart"}
INVARIANTS TypeOK UniqueIds RegisteredSupervised OneSupervisor
PROPERTIES CrashRecovery BecomesReady
\* The system may be quiescent: every account up, nothing asked of it.
CHECK_DEADLOCK FALSE
