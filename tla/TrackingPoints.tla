--------------------------- MODULE TrackingPoints ---------------------------
(***************************************************************************)
(* record_location (application/async_service.py) against the end of the   *)
(* same tracking session, statement by statement, under the READ COMMITTED *)
(* isolation the unit of work runs in (infrastructure/postgres.py).        *)
(*                                                                         *)
(* PostgresTrackingRepository.get reads the session row and its latest     *)
(* point in one statement and locks the row.  A statement that has to wait *)
(* for the lock goes on with the row as it is then, but with the point it  *)
(* found in the snapshot it started with.                                  *)
(***************************************************************************)
EXTENDS Naturals, FiniteSets

CONSTANTS
  Requests,       \* calls of record_location
  Events,         \* source event ids
  MaxTime,        \* bound on the clock
  NoOne           \* no request, no event, no time

ASSUME TimeAssumption == MaxTime \in Nat
ASSUME NoOneAssumption == NoOne \notin Requests \cup Events \cup 0 .. MaxTime

VARIABLES
  session,        \* the row of tracking_sessions
  points,         \* the rows of tracking_points
  locker,         \* the transaction that holds the row lock
  requests,       \* the calls
  now

vars == <<session, points, locker, requests, now>>

Times == 0 .. MaxTime
Points == [seq : Nat, time : Times, event : Events \cup {NoOne}]
SessionRows == [open : BOOLEAN, count : Nat, version : Nat]
Results == {"recorded", "repeated", "closed", "conflict", "failed"}
Calls ==
  [step : {"new", "waiting", "locked"} \cup Results,
   event : Events \cup {NoOne}, captured : Times \cup {NoOne},
   latest : Points \cup {NoOne}, row : SessionRows]

FirstRow == [open |-> TRUE, count |-> 0, version |-> 1]
NewCall ==
  [step |-> "new", event |-> NoOne, captured |-> NoOne, latest |-> NoOne,
   row |-> FirstRow]

Init ==
  /\ session = FirstRow
  /\ points = {}
  /\ locker = NoOne
  /\ requests = [r \in Requests |-> NewCall]
  /\ now = 0

-----------------------------------------------------------------------------

\* ORDER BY sequence_no DESC LIMIT 1
Latest == IF points = {} THEN NoOne
          ELSE CHOOSE p \in points : \A q \in points : q.seq <= p.seq
EventsOf(rows) == {p.event : p \in rows} \ {NoOne}

\* The statement of get starts: its snapshot is taken.  A messenger's position
\* has no capture time of its own.
Begin(r, event, captured) ==
  /\ requests[r].step = "new"
  /\ requests' = [requests EXCEPT ![r] =
       [NewCall EXCEPT !.step = "waiting", !.event = event, !.captured = captured,
                       !.latest = Latest, !.row = session]]
  /\ UNCHANGED <<session, points, locker, now>>

\* Defect: the row comes from the snapshot, too.
RowSeenOld(r) == requests[r].row

\* FOR UPDATE: the row is read anew once the lock is there.
RowSeen(r) == session

Lock(r) ==
  /\ requests[r].step = "waiting"
  /\ locker = NoOne
  /\ locker' = r
  /\ requests' = [requests EXCEPT ![r].step = "locked", ![r].row = RowSeen(r)]
  /\ UNCHANGED <<session, points, now>>

Unlock(r, result) ==
  /\ locker' = NoOne
  /\ requests' = [requests EXCEPT ![r].step = result]

\* Defect: a position without a capture time stays without one.
ObservedAtAsSent(r) == requests[r].captured

\* A capture time before the latest point's is replaced.
ObservedAt(r) ==
  LET observed == IF requests[r].captured = NoOne THEN now ELSE requests[r].captured
      latest == requests[r].latest
  IN  IF latest = NoOne \/ observed >= latest.time THEN observed
      ELSE IF now >= latest.time THEN now ELSE latest.time

\* Defect: a call under way with the same event counts as stored.
KnownOrUnderWay(r) ==
  \/ requests[r].event \in EventsOf(points)
  \/ requests[r].event # NoOne /\ \E q \in Requests \ {r} :
       requests[q].step \in {"waiting", "locked"} /\ requests[q].event = requests[r].event

\* has_source_event is a statement of its own, after the lock.
HasSourceEvent(r) == requests[r].event \in EventsOf(points)

Repeat(r) ==
  /\ locker = r
  /\ HasSourceEvent(r)
  /\ Unlock(r, "repeated")
  /\ UNCHANGED <<session, points, now>>

Refuse(r) ==
  /\ locker = r
  /\ ~HasSourceEvent(r)
  /\ ~requests[r].row.open
  /\ Unlock(r, "closed")
  /\ UNCHANGED <<session, points, now>>

\* Defect: numbering starts from the count that includes the new point.
NextSequenceSkipping(r) == requests[r].row.count + 2

NextSequence(r) == requests[r].row.count + 1
NewPoint(r) ==
  [seq |-> NextSequence(r), time |-> ObservedAt(r), event |-> requests[r].event]

\* The version check of save, the primary key and uq_tracking_point_source_event.
Storable(r) ==
  /\ requests[r].row.version = session.version
  /\ \A p \in points : p.seq # NextSequence(r)
  /\ requests[r].event = NoOne \/ requests[r].event \notin EventsOf(points)

\* Save and commit, nobody sees what is in between; or ConcurrencyConflict,
\* and the transaction is rolled back.
Store(r) ==
  IF Storable(r)
    THEN /\ points' = points \cup {NewPoint(r)}
         /\ session' = [requests[r].row EXCEPT !.count = @ + 1, !.version = @ + 1]
         /\ Unlock(r, "recorded")
    ELSE /\ Unlock(r, "conflict")
         /\ UNCHANGED <<session, points>>

\* Defect: a point is stored for a session that is over.
SaveAnyTime(r) ==
  /\ locker = r
  /\ ~HasSourceEvent(r)
  /\ Store(r)
  /\ UNCHANGED now

Save(r) ==
  /\ locker = r
  /\ ~HasSourceEvent(r)
  /\ requests[r].row.open
  /\ Store(r)
  /\ UNCHANGED now

\* The connection is lost: the transaction is rolled back, the lock released.
Break(r) ==
  /\ requests[r].step \in {"waiting", "locked"}
  /\ locker' = IF locker = r THEN NoOne ELSE locker
  /\ requests' = [requests EXCEPT ![r].step = "failed"]
  /\ UNCHANGED <<session, points, now>>

\* complete_order or cancel_order ends the session, under the same lock.
EndSession ==
  /\ locker = NoOne
  /\ session.open
  /\ session' = [session EXCEPT !.open = FALSE, !.version = @ + 1]
  /\ UNCHANGED <<points, locker, requests, now>>

Tick ==
  /\ now < MaxTime
  /\ now' = now + 1
  /\ UNCHANGED <<session, points, locker, requests>>

Record(r) ==
  \/ \E event \in Events \cup {NoOne}, captured \in 0 .. now \cup {NoOne} :
       Begin(r, event, captured)
  \/ Lock(r) \/ Repeat(r) \/ Refuse(r) \/ Save(r) \/ Break(r)

Next == EndSession \/ Tick \/ \E r \in Requests : Record(r)

Spec == Init /\ [][Next]_vars
-----------------------------------------------------------------------------
(* Properties.                                                             *)

\* Rows and calls hold what the code can hold.
TypeOK ==
  /\ session \in SessionRows
  /\ points \subseteq Points
  /\ locker \in Requests \cup {NoOne}
  /\ requests \in [Requests -> Calls]
  /\ now \in Times

\* The route has no holes and no doubles: the points of a session are numbered
\* 1 .. point_count (_append_new_points starts from the count of the row that
\* was read under the lock).
RouteIsDense ==
  /\ {p.seq : p \in points} = 1 .. session.count
  /\ Cardinality(points) = session.count

\* Calls for one session never run into a ConcurrencyConflict, and a position
\* that is sent again is answered as a repetition: the row lock makes the
\* version check and the unique index a second line of defence.
CallsNeverConflict == \A r \in Requests : requests[r].step # "conflict"

\* A call that says "recorded" or "repeated" left its event on the route.
AnsweredIsStored ==
  \A r \in Requests :
    (requests[r].step \in {"recorded", "repeated"} /\ requests[r].event # NoOne) =>
      Cardinality({p \in points : p.event = requests[r].event}) = 1

\* Nothing is added to a session that is over, also by calls that waited for
\* the lock while it ended.
ClosedRouteStays == [][~session.open => points' = points]_vars

\* domain/tracking.py:142: "tracking points must be ordered by capture time".
PointsAreOrdered == \A p, q \in points : p.seq < q.seq => p.time <= q.time
=============================================================================
