\* One press, one worker, one crash.
SPECIFICATION CallbackSpec
CONSTANTS
  Orders = {o1}
  Sessions = {s1}
  Executors = {e1, e2}
  Coordinators = {c1}
  Evidence = {}
  NoActor = NoActor
  MaxVersion = 5
  MaxPoints = 0
  Tokens = {t1, t2}
  Presses = {p1}
  Workers = {w1}
  MaxAttempts = 2
  MaxFaults = 1
  NoPress = NoPress
SYMMETRY Symmetry
INVARIANT EffectOnce
CHECK_DEADLOCK FALSE
