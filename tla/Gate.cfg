\* One instance with one slot for two requests, and an object that replaces the
\* registered one at any time.  The threshold and the cooldown are small, but above
\* one so that counting and waiting take several steps.  MaxInflight exceeds Cap:
\* only the slots bound what is forwarded.
SPECIFICATION FairGateSpec
CONSTANTS
  Id = {x}
  Self = x
  Threshold = 2
  Cooldown = 2
  MaxWaiting = 2
  MaxInflight = 2
  Prompt = TRUE
  Req = {r1, r2}
  Obj = {o1, o2}
  Cap = 1
  None = None
INVARIANTS GateTypeOK ExcludedForCooldown ThresholdExcludes CappedPerChannel ReleaseNeverBlocks
PROPERTIES AnotherChance RequestsEnd
