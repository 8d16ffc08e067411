SPECIFICATION Spec
CONSTANTS
  Blob = Blob
  Mangled = Mangled
  Absent = Absent
  NoSnapshot = NoSnapshot
  Unreadable = Unreadable
  Files = {f1}
  Texts = {a, b}
  Initially = {a, Absent}
  MaxRetries = 1
  MaxSteps = 2
CHECK_DEADLOCK FALSE
INVARIANT FailureRestores
