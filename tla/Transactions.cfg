\* Two files, two texts, three transactions.
SPECIFICATION Spec
CONSTANTS
  Files = {f1, f2}
  Texts = {a, b}
  Lockable = {}
  Initially = {a, Absent}
  Blob = Blob
  Mangled = Mangled
  Absent = Absent
  NoSnapshot = NoSnapshot
  Unreadable = Unreadable
  MaxTx = 3
  UndoWhile = FALSE
CHECK_DEADLOCK FALSE
INVARIANTS TypeOK SnapshotsCover
PROPERTIES  CommitSticks
