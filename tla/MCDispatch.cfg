\* Two orders that compete for two executors, far enough to finish both.
SPECIFICATION Spec
CONSTANTS
  Orders = {o1, o2}
  Sessions = {s1, s2}
  Executors = {e1, e2}
  Coordinators = {c1}
  Evidence = {photo}
  NoActor = NoActor
  MaxVersion = 7
  MaxPoints = 1
SYMMETRY Symmetry
INVARIANTS
  TypeOK OneOpenOrderPerExecutor ResponsesResolved
  TrackingFollowsOrder OneSessionPerOrder EventsMatchVersions NumbersAreDense
PROPERTIES
  FinishedOrdersStay NoHandover
CHECK_DEADLOCK FALSE
