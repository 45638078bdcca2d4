\* Two calls that overlap.
SPECIFICATION Spec
CONSTANTS
  Requests = {r1, r2}
  Events = {v1, v2}
  MaxTime = 1
  NoOne = NoOne
SYMMETRY Symmetry
INVARIANT PointsAreOrdered
CHECK_DEADLOCK FALSE
