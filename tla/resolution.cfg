\* A name resolved while a pod or an object comes, goes or changes.
SPECIFICATION FewSpec
CONSTANTS
  Pods = {p1, db}
  Name = db
  Labels = {a, b}
  Absent = Absent
  None = None
  NoSelector = NoSelector
  MaxChanges = 2
SYMMETRY Symmetry
INVARIANTS NotPassedOver MembersExact
