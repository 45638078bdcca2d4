\* One order, two executors, two buttons, two presses, two workers, one fault.
SPECIFICATION CallbackSpec
CONSTANTS
  Orders = {o1}
  Sessions = {s1}
  Executors = {e1, e2}
  Coordinators = {c1}
  Evidence = {}
  NoActor = NoActor
  MaxVersion = 5
  MaxPoints = 0
  Tokens = {t1, t2}
  Presses = {p1, p2}
  Workers = {w1, w2}
  MaxAttempts = 2
  MaxFaults = 1
  NoPress = NoPress
SYMMETRY Symmetry
INVARIANTS
  CallbackTypeOK TokenSpentOnce ForwardActionsOnce DoneMeansReached
  RefusalsChangeNothing
CHECK_DEADLOCK FALSE
