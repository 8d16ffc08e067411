SPECIFICATION FairSpec
CONSTANTS
  Blob = Blob
  Mangled = Mangled
  Absent = Absent
  NoSnapshot = NoSnapshot
  Unreadable = Unreadable
  Files = {f1, f2}
  Texts = {a, b}
  Initially = {a, Absent}
  MaxRetries = 2
  MaxSteps = 2
CHECK_DEADLOCK FALSE
INVARIANTS TypeOK ExecutionsBounded CompletedIsVerified 
PROPERTY AlwaysReturns
