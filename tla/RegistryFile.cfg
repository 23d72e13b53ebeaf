\* Two goroutines save while the registry changes, with failing calls and kills at
\* every point.
SPECIFICATION Spec
CONSTANTS
  Account = {a, b}
  Saver = {s, t}
  None = None
SYMMETRY Symmetry
INVARIANTS TypeOK RecordedWhenQuiet
PROPERTY SavesAreAtomic
