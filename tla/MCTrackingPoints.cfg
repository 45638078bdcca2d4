\* Three calls, two events, three moments.
SPECIFICATION Spec
CONSTANTS
  Requests = {r1, r2, r3}
  Events = {v1, v2}
  MaxTime = 2
  NoOne = NoOne
SYMMETRY Symmetry
INVARIANTS TypeOK RouteIsDense CallsNeverConflict AnsweredIsStored
PROPERTIES ClosedRouteStays
CHECK_DEADLOCK FALSE
