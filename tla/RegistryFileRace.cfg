\* Two goroutines save at the same time.
SPECIFICATION Spec
CONSTANTS
  Account = {a, b}
  Saver = {s, t}
  None = None
INVARIANT NeverTorn
