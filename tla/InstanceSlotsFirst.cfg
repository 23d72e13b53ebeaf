\* The first requests of an instance arrive together.
SPECIFICATION SlotsSpec
CONSTANTS
  Req = {r1, r2, r3}
  Obj = {o1}
  Cap = 2
  None = None
INVARIANT ConcurrencyCapped
