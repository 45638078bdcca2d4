-------------------------- MODULE TrackingSession --------------------------
(***************************************************************************)
(* The TrackingSession aggregate of domain/tracking.py, in the style of    *)
(* WorkOrder: a method returns the set of sessions it can leave behind.    *)
(* The two capability tokens are minted and cleared together, so one flag  *)
(* says whether they are set.  A point is counted, its place and time are  *)
(* not kept here.                                                          *)
(***************************************************************************)
EXTENDS Naturals

CONSTANTS OrderIds, SessionExecutors, Nothing

TrackingStatus == {"active", "completed", "cancelled"}

TrackingSessions ==
  [status : TrackingStatus \cup {"absent"},
   workOrder : OrderIds \cup {Nothing},
   executor : SessionExecutors \cup {Nothing},
   capability : BOOLEAN,
   pointCount : Nat,
   version : Nat,
   events : SUBSET Nat]

NoSession ==
  [status |-> "absent", workOrder |-> Nothing, executor |-> Nothing,
   capability |-> FALSE, pointCount |-> 0, version |-> 0, events |-> {}]

Record(session) ==
  [session EXCEPT !.version = @ + 1, !.events = @ \cup {session.version + 1}]

Stored(session) == [session EXCEPT !.events = {}]

IsActive(session) == session.status = "active"

Start(workOrder, executor) ==
  {Record([NoSession EXCEPT !.status = "active", !.workOrder = workOrder,
                            !.executor = executor, !.capability = TRUE])}

\* A point whose source event is new to the session.
AddPoint(session) ==
  IF IsActive(session)
    THEN {Record([session EXCEPT !.pointCount = @ + 1])} ELSE {}

\* Defect: the tokens outlive the session.
EndKeepingTokens(session, status) ==
  IF IsActive(session) THEN {Record([session EXCEPT !.status = status])} ELSE {}

\* complete and cancel differ in the status they reach: both clear the tokens.
End(session, status) ==
  IF IsActive(session)
    THEN {Record([session EXCEPT !.status = status, !.capability = FALSE])}
    ELSE {}
=============================================================================
