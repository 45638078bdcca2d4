------------------------ MODULE TrackingPoints_proofs ------------------------
(***************************************************************************)
(* Theorems about TrackingPoints, for any number of calls, events and      *)
(* moments: what the row lock of a tracking session is worth.              *)
(***************************************************************************)
EXTENDS TrackingPoints, TLAPS, FiniteSetTheorems

\* The transaction that holds the lock sees the session as it is.
LockHeld ==
  /\ locker # NoOne => requests[locker].step = "locked"
  /\ \A r \in Requests :
       requests[r].step = "locked" => locker = r /\ requests[r].row = session

\* The points as they are stored.
EventsOnce ==
  \A p, q \in points : p.event = q.event /\ p.event # NoOne => p = q

\* A call that was answered has its event among them.
Answered ==
  \A r \in Requests :
    requests[r].step \in {"recorded", "repeated"} /\ requests[r].event # NoOne =>
      requests[r].event \in EventsOf(points)

IInv ==
  /\ TypeOK
  /\ LockHeld
  /\ IsFiniteSet(points) /\ RouteIsDense
  /\ EventsOnce
  /\ Answered
  /\ CallsNeverConflict

-----------------------------------------------------------------------------

\* The snapshot of get holds a point of the route, if there is one: the route
\* has a last point.
LEMMA LatestIsPoint ==
  ASSUME IInv
  PROVE  Latest \in Points \cup {NoOne}
<1>1. CASE points = {}
  BY <1>1 DEF Latest
<1>2. CASE points # {}
  <2>1. session.count \in Nat /\ session.count # 0 /\ \A p \in points : p.seq \in 1 .. session.count
    BY <1>2, FS_EmptySet DEF IInv, RouteIsDense, TypeOK, SessionRows
  <2>2. PICK p \in points : p.seq = session.count
    BY <2>1 DEF IInv, RouteIsDense
  <2>3. \A q \in points : q.seq <= p.seq
    BY <2>1, <2>2
  <2>4. Latest \in points
    BY <1>2, <2>2, <2>3 DEF Latest
  <2> QED BY <2>4 DEF IInv, TypeOK
<1> QED BY <1>1, <1>2

\* The time a point is stored with is a moment of the clock.
LEMMA ObservedTyped ==
  ASSUME IInv, NEW r \in Requests
  PROVE  ObservedAt(r) \in Times
<1>1. /\ requests[r].captured \in Times \cup {NoOne} /\ requests[r].latest \in Points \cup {NoOne}
      /\ now \in Times
  BY DEF IInv, TypeOK, Calls
<1>2. requests[r].latest # NoOne => requests[r].latest.time \in Times
  BY <1>1 DEF Points
<1> QED BY <1>1, <1>2 DEF ObservedAt

\* A call that moves on, and nothing else of it.
LEMMA StepTyped ==
  ASSUME TypeOK, NEW r \in Requests, NEW step \in {"new", "waiting", "locked"} \cup Results,
         requests' = [requests EXCEPT ![r].step = step]
  PROVE  /\ requests' \in [Requests -> Calls]
         /\ \A q \in Requests : q # r => requests'[q] = requests[q]
         /\ requests'[r].step = step /\ requests'[r].event = requests[r].event
<1>1. [requests[r] EXCEPT !.step = step] \in Calls
  BY DEF TypeOK, Calls
<1>2. requests' = [requests EXCEPT ![r] = [requests[r] EXCEPT !.step = step]]
  BY DEF TypeOK
<1> QED BY <1>1, <1>2 DEF TypeOK, Calls

\* The next point is new to the route: its number and its event are.
LEMMA SaveFacts ==
  ASSUME IInv, NEW r \in Requests, Save(r)
  PROVE  /\ points' = points \cup {NewPoint(r)} /\ NewPoint(r) \in Points
         /\ NewPoint(r).seq = session.count + 1 /\ NewPoint(r).event = requests[r].event
         /\ session' \in SessionRows
         /\ session'.count = session.count + 1 /\ session'.open /\ session.open
         /\ requests[r].event \notin EventsOf(points)
         /\ locker' = NoOne /\ requests' = [requests EXCEPT ![r].step = "recorded"]
<1>1. locker = r /\ requests[r].row = session /\ session.open /\ ~HasSourceEvent(r)
  BY NoOneAssumption DEF Save, IInv, LockHeld
<1>2. session \in SessionRows /\ session.count \in Nat /\ session.version \in Nat
  BY DEF IInv, TypeOK, SessionRows
<1>3. \A p \in points : p.seq \in 1 .. session.count
  BY DEF IInv, RouteIsDense
<1>4. \A p \in points : p.seq # session.count + 1
  BY <1>2, <1>3
<1>5. Storable(r)
  BY <1>1, <1>4 DEF Storable, HasSourceEvent, NextSequence
<1>6. /\ points' = points \cup {NewPoint(r)}
      /\ session' = [session EXCEPT !.count = @ + 1, !.version = @ + 1]
      /\ locker' = NoOne /\ requests' = [requests EXCEPT ![r].step = "recorded"]
  BY <1>1, <1>5 DEF Save, Store, Unlock
<1>7. NewPoint(r).seq = session.count + 1 /\ NewPoint(r).event = requests[r].event
  BY <1>1 DEF NewPoint, NextSequence
<1>8. NewPoint(r) \in Points
  <2>1. ObservedAt(r) \in Times /\ NextSequence(r) \in Nat
    BY <1>1, <1>2, ObservedTyped DEF NextSequence
  <2>2. requests[r].event \in Events \cup {NoOne}
    BY DEF IInv, TypeOK, Calls
  <2> QED BY <2>1, <2>2 DEF NewPoint, Points
<1>9. session' \in SessionRows /\ session'.count = session.count + 1 /\ session'.open
  <2> DEFINE c == session.count + 1
             v == session.version + 1
             row == [session EXCEPT !.count = c, !.version = v]
  <2>1. c \in Nat /\ v \in Nat /\ session' = row
    BY <1>2, <1>6
  <2> HIDE DEF c, v
  <2>2. row \in SessionRows
    BY <1>2, <2>1 DEF SessionRows
  <2>3. row.count = c /\ row.open = session.open
    BY <1>2 DEF SessionRows
  <2> HIDE DEF row
  <2> QED BY <1>1, <2>1, <2>2, <2>3 DEF c
<1> QED BY <1>1, <1>6, <1>7, <1>8, <1>9 DEF HasSourceEvent

\* The invariant holds before the first call.
LEMMA InitHolds == Init => IInv
<1> SUFFICES ASSUME Init PROVE IInv
  OBVIOUS
<1>1. FirstRow \in SessionRows /\ NewCall \in Calls /\ 0 \in Times
  BY TimeAssumption DEF FirstRow, NewCall, SessionRows, Calls, Times
<1>2. TypeOK
  BY <1>1 DEF Init, TypeOK
<1>3. IsFiniteSet(points) /\ RouteIsDense
  BY FS_EmptySet DEF Init, RouteIsDense, FirstRow
<1>4. LockHeld /\ EventsOnce /\ Answered /\ CallsNeverConflict
  BY DEF Init, LockHeld, EventsOnce, Answered, CallsNeverConflict, NewCall
<1> QED BY <1>2, <1>3, <1>4 DEF IInv

\* A point is added under the lock.
LEMMA SaveKeeps ==
  ASSUME IInv, NEW r \in Requests, Save(r)
  PROVE  IInv'
<1> DEFINE p == NewPoint(r)
<1>1. /\ points' = points \cup {p} /\ p \in Points
      /\ p.seq = session.count + 1 /\ p.event = requests[r].event
      /\ session' \in SessionRows /\ session'.count = session.count + 1
      /\ requests[r].event \notin EventsOf(points)
      /\ locker' = NoOne /\ requests' = [requests EXCEPT ![r].step = "recorded"]
  BY SaveFacts
<1> HIDE DEF p
<1>2. /\ session.count \in Nat /\ now' \in Times
      /\ \A q \in points : q.seq \in 1 .. session.count
  BY DEF IInv, TypeOK, SessionRows, RouteIsDense, Save
<1>3. /\ requests' \in [Requests -> Calls]
      /\ \A q \in Requests : q # r => requests'[q] = requests[q]
      /\ requests'[r].step = "recorded" /\ requests'[r].event = requests[r].event
  BY <1>1, StepTyped DEF IInv, Results
<1>4. TypeOK'
  BY <1>1, <1>2, <1>3 DEF IInv, TypeOK
<1>5. LockHeld'
  <2>1. \A q \in Requests : q # r => requests[q].step # "locked"
    BY DEF IInv, LockHeld, Save
  <2> QED BY <1>1, <1>3, <2>1 DEF LockHeld
<1>6. IsFiniteSet(points)' /\ RouteIsDense'
  <2>1. p \notin points
    BY <1>1, <1>2
  <2>2. IsFiniteSet(points') /\ Cardinality(points') = Cardinality(points) + 1
    BY <1>1, <2>1, FS_AddElement DEF IInv
  <2>3. {q.seq : q \in points'} = {q.seq : q \in points} \cup {session.count + 1}
    BY <1>1
  <2>4. 1 .. (session.count + 1) = (1 .. session.count) \cup {session.count + 1}
    BY <1>2
  <2>5. {q.seq : q \in points'} = 1 .. (session.count + 1)
    BY <2>3, <2>4 DEF IInv, RouteIsDense
  <2> QED BY <1>1, <2>2, <2>5 DEF IInv, RouteIsDense
<1>7. EventsOnce'
  BY <1>1 DEF IInv, EventsOnce, EventsOf
<1>8. Answered'
  BY <1>1, <1>3 DEF IInv, Answered, EventsOf
<1>9. CallsNeverConflict'
  BY <1>3 DEF IInv, CallsNeverConflict
<1> QED BY <1>4, <1>5, <1>6, <1>7, <1>8, <1>9 DEF IInv

\* A call that ends without a point leaves the route as it is.
LEMMA CallEndKeeps ==
  ASSUME IInv, NEW r \in Requests, NEW step \in {"repeated", "closed", "failed"},
         requests' = [requests EXCEPT ![r].step = step],
         locker' = IF locker = r THEN NoOne ELSE locker,
         step = "repeated" => HasSourceEvent(r),
         UNCHANGED <<session, points, now>>
  PROVE  IInv'
<1>1. /\ requests' \in [Requests -> Calls]
      /\ \A q \in Requests : q # r => requests'[q] = requests[q]
      /\ requests'[r].step = step /\ requests'[r].event = requests[r].event
  BY StepTyped DEF IInv, Results
<1>2. TypeOK'
  BY <1>1 DEF IInv, TypeOK
<1>3. LockHeld'
  BY <1>1, <1>2 DEF IInv, TypeOK, LockHeld
<1>4. Answered'
  BY <1>1 DEF IInv, Answered, HasSourceEvent, EventsOf
<1>5. CallsNeverConflict'
  BY <1>1 DEF IInv, CallsNeverConflict
<1> QED BY <1>2, <1>3, <1>4, <1>5 DEF IInv, RouteIsDense, EventsOnce

\* Every step keeps the invariant.
LEMMA StepKeeps == IInv /\ [Next]_vars => IInv'
<1> SUFFICES ASSUME IInv, [Next]_vars PROVE IInv'
  OBVIOUS
<1>1. CASE UNCHANGED vars
  BY <1>1 DEF vars, IInv, TypeOK, LockHeld, RouteIsDense, EventsOnce, Answered, EventsOf,
              CallsNeverConflict
<1>2. CASE EndSession
  <2>1. session' \in SessionRows /\ session'.count = session.count
    <3> DEFINE v == session.version + 1
               row == [session EXCEPT !.open = FALSE, !.version = v]
    <3>1. session \in SessionRows
      BY DEF IInv, TypeOK
    <3>2. v \in Nat /\ session' = row
      BY <1>2, <3>1 DEF EndSession, SessionRows
    <3> HIDE DEF v
    <3>3. row \in SessionRows /\ row.count = session.count
      BY <3>1, <3>2 DEF SessionRows
    <3> QED BY <3>2, <3>3
  <2>2. TypeOK'
    BY <1>2, <2>1 DEF EndSession, IInv, TypeOK
  <2>3. LockHeld'
    BY <1>2, NoOneAssumption DEF EndSession, IInv, LockHeld
  <2> QED BY <1>2, <2>1, <2>2, <2>3 DEF EndSession, IInv, RouteIsDense, EventsOnce, Answered,
                                        EventsOf, CallsNeverConflict
<1>3. CASE Tick
  <2>1. now' \in Times
    BY <1>3, TimeAssumption DEF Tick, IInv, TypeOK, Times
  <2> QED BY <1>3, <2>1 DEF Tick, IInv, TypeOK, LockHeld, RouteIsDense, EventsOnce, Answered,
                            EventsOf, CallsNeverConflict
<1>4. ASSUME NEW r \in Requests, Record(r)
      PROVE  IInv'
  <2>1. ASSUME NEW event \in Events \cup {NoOne}, NEW captured \in 0 .. now \cup {NoOne},
               Begin(r, event, captured)
        PROVE  IInv'
    <3> DEFINE call == [NewCall EXCEPT !.step = "waiting", !.event = event,
                          !.captured = captured, !.latest = Latest, !.row = session]
    <3>1. /\ requests' = [requests EXCEPT ![r] = call]
          /\ UNCHANGED <<session, points, locker, now>>
      BY <2>1 DEF Begin
    <3>2. captured \in Times \cup {NoOne}
      BY TimeAssumption DEF IInv, TypeOK, Times
    <3>3. call \in Calls /\ call.step = "waiting"
      BY <3>2, LatestIsPoint DEF IInv, TypeOK, Calls, NewCall
    <3> HIDE DEF call
    <3>4. /\ requests' \in [Requests -> Calls] /\ requests'[r].step = "waiting"
          /\ \A q \in Requests : q # r => requests'[q] = requests[q]
      BY <3>1, <3>3 DEF IInv, TypeOK
    <3>5. requests[r].step = "new"
      BY <2>1 DEF Begin
    <3>6. LockHeld'
      BY <3>1, <3>4, <3>5 DEF IInv, TypeOK, LockHeld
    <3> QED BY <3>1, <3>4, <3>6 DEF IInv, TypeOK, RouteIsDense, EventsOnce, Answered, EventsOf,
                                    CallsNeverConflict
  <2>2. CASE Lock(r)
    <3> DEFINE call == [requests[r] EXCEPT !.step = "locked", !.row = session]
    <3>1. /\ requests' = [requests EXCEPT ![r] = call] /\ locker = NoOne /\ locker' = r
          /\ UNCHANGED <<session, points, now>>
      BY <2>2 DEF Lock, RowSeen, IInv, TypeOK
    <3>2. call \in Calls /\ call.step = "locked" /\ call.row = session
      BY DEF IInv, TypeOK, Calls
    <3> HIDE DEF call
    <3>3. /\ requests' \in [Requests -> Calls] /\ requests'[r] = call
          /\ \A q \in Requests : q # r => requests'[q] = requests[q]
      BY <3>1, <3>2 DEF IInv, TypeOK
    <3>4. LockHeld'
      BY <3>1, <3>2, <3>3, NoOneAssumption DEF IInv, LockHeld
    <3> QED BY <3>1, <3>2, <3>3, <3>4 DEF IInv, TypeOK, RouteIsDense, EventsOnce, Answered,
                                          EventsOf, CallsNeverConflict
  <2>3. CASE Repeat(r) \/ Refuse(r)
    BY <2>3, CallEndKeeps DEF Repeat, Refuse, Unlock
  <2>4. CASE Break(r)
    BY <2>4, CallEndKeeps DEF Break
  <2>5. CASE Save(r)
    BY <2>5, SaveKeeps
  <2> QED BY <1>4, <2>1, <2>2, <2>3, <2>4, <2>5 DEF Record
<1> QED BY <1>1, <1>2, <1>3, <1>4 DEF Next

-----------------------------------------------------------------------------
(* Theorems.                                                               *)

\* The inductive invariant holds of every behaviour.
THEOREM Invariance == Spec => []IInv
BY InitHolds, StepKeeps, PTL DEF Spec

\* Rows and calls hold what the code can hold.
THEOREM TypeCorrect == Spec => []TypeOK
BY Invariance, PTL DEF IInv

\* The points of a session are numbered without holes and doubles, whichever
\* calls wait, fail or find the session over (_append_new_points).
THEOREM RouteStaysDense == Spec => []RouteIsDense
BY Invariance, PTL DEF IInv

\* The row lock leaves the version check and the unique indexes nothing to
\* refuse (PostgresTrackingRepository.get and save).
THEOREM NeverConflicts == Spec => []CallsNeverConflict
BY Invariance, PTL DEF IInv

\* What a call was answered is on the route, once (has_source_event).
THEOREM AnswersAreStored == Spec => []AnsweredIsStored
<1>1. IInv => AnsweredIsStored
  <2> SUFFICES ASSUME IInv, NEW r \in Requests, requests[r].step \in {"recorded", "repeated"},
                      requests[r].event # NoOne
               PROVE  Cardinality({p \in points : p.event = requests[r].event}) = 1
    BY DEF AnsweredIsStored
  <2>1. PICK p \in points : p.event = requests[r].event
    BY DEF IInv, Answered, EventsOf
  <2>2. {q \in points : q.event = requests[r].event} = {p}
    BY <2>1 DEF IInv, EventsOnce
  <2> QED BY <2>2, FS_Singleton
<1> QED BY <1>1, Invariance, PTL

\* A session that is over gets no more points (record_location and the check
\* of add_point, under the lock).
THEOREM ClosedStays == Spec => ClosedRouteStays
<1>1. IInv /\ [Next]_vars => [~session.open => points' = points]_vars
  <2> SUFFICES ASSUME IInv, Next, ~session.open PROVE points' = points
    BY DEF vars
  <2>1. ASSUME NEW r \in Requests, Record(r) PROVE points' = points
    <3>1. ~Save(r)
      BY SaveFacts
    <3> QED BY <2>1, <3>1 DEF Record, Begin, Lock, Repeat, Refuse, Break
  <2> QED BY <2>1 DEF Next, EndSession, Tick
<1> QED BY <1>1, Invariance, PTL DEF Spec, ClosedRouteStays
=============================================================================
