\* Calls of every kind, two of them reconciliation passes; an edit, a crash; a sprint that settles, is opened again and settles
SPECIFICATION Spec
CONSTANTS
  p1 = p1
  p2 = p2
  e1 = e1
  r1 = r1
  r2 = r2
  k1 = k1
  None = None
  Pollers = {p1}
  Executors = {e1}
  Reconcilers = {r1, r2}
  Commenters = {k1}
  MaxSprint = 1
  MaxStarts = 2
  MaxEdits = 1
  Overlap = TRUE
  CompactAfter = 1
SYMMETRY Symmetry
INVARIANTS OneSupervisor ReconcileOnce WakeOwned NothingLeftBehind
PROPERTIES MarkImplemented
