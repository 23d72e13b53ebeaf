\* Two handlers and two logins of one account, overlapping in every way.
SPECIFICATION FairSpec
CONSTANTS
  Client = {c, d}
  MaxLogin = 2
  None = None
INVARIANTS TypeOK PromptedOnce SuccessIsOwn RegisteredIsActive
PROPERTY LoginResolves
