\* Two executors press the ready button; nothing crashes.
SPECIFICATION CallbackSpec
CONSTANTS
  Orders = {o1}
  Sessions = {s1}
  Executors = {e1, e2}
  Coordinators = {c1}
  Evidence = {}
  NoActor = NoActor
  MaxVersion = 5
  MaxPoints = 0
  Tokens = {t1}
  Presses = {p1, p2}
  Workers = {w1}
  MaxAttempts = 2
  MaxFaults = 0
  NoPress = NoPress
SYMMETRY Symmetry
PROPERTY ReadyIsStored
CHECK_DEADLOCK FALSE
