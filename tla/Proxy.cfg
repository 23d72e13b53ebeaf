\* One candidate more than the attempts, with the timeouts of the
\* code in seconds; slots and answers come at once, late or just in time.
SPECIFICATION FairSpec
CONSTANTS
  Instance = {a, b, c}
  MaxRetryAttempts = 2
  Budget = 20
  SlotTimeout = 15
  UpstreamTimeout = 12
  Waits = {0, 15}
  Delays = {1, 12}
  Unstable = {a, b}
  None = None
INVARIANTS TypeOK RetryBounded ReplyIsLastAnswer VerdictIsFinal
PROPERTY RequestAnswered

