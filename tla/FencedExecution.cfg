SPECIFICATION Spec
CONSTANTS
  e1 = e1
  e2 = e2
  commit = commit
  Entries = {e1, e2}
  Daemons = {d1, d2}
  Workflows = {w1, w2}
  Subjects <- MCSubjects
  SubjectOf <- MCSubjectOf
  Reserved <- MCReserved
  Folded <- MCFolded
  Publishing = {e1}
  Proof = commit
  ObjectIds = {commit}
  SafeRefs = {"main", "work"}
  Blank = Blank
  None = None
  MaxLease = 3
  MaxRun = 2
SYMMETRY MCSymmetry
INVARIANTS OneHolderPerRef
PROPERTIES StaleForever ExecutionSpec
CHECK_DEADLOCK FALSE
