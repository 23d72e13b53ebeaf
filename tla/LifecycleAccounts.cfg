\* Logins, logouts and account failures of accounts whose processes do not
\* crash on their own.
SPECIFICATION FairSpec
CONSTANTS
  None = None
  Account = {a}
  Persisted = {a}
  MaxLaunch = 4
  Env = {"login", "logout", "health"}
INVARIANTS SingleProcess RecordedWhenUp
PROPERTIES LoggedOutStaysDown SealedStaysDown RemovalCompletes
\* The system may be quiescent: every account up or out, nothing asked of it.
CHECK_DEADLOCK FALSE
