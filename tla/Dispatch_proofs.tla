--------------------------- MODULE Dispatch_proofs ---------------------------
(***************************************************************************)
(* Proofs about Dispatch.  A method of an aggregate is summarised once, by *)
(* OrderStep and the lemma that every method obeys it; the invariants are  *)
(* then proved action by action from that summary.                         *)
(***************************************************************************)
EXTENDS Dispatch, TLAPS

\* What each order satisfies by itself: its executor and its pool responses
\* agree with its status.
OrderOK(order) ==
  /\ order.status \in {"absent", "submitted", "pool_open"} =>
       order.assignee = NoActor
  /\ order.status \in ActiveStatuses \cup {"completed"} =>
       order.assignee \in Executors
  /\ \A e \in Executors :
       /\ order.responses[e] = "interested" =>
            /\ order.status \in {"pool_open", "cancelled"}
            /\ order.poolMode = "curated"
       /\ order.responses[e] = "selected" => order.assignee = e

\* What a method does to an order that was saved: nothing, or one event with
\* the next version, and never after the last status.
OrderStep(order, new) ==
  /\ new \in WorkOrders
  /\ OrderOK(new)
  /\ Exists(new)
  /\ new.number = order.number
  /\ \/ new = order
     \/ /\ ~IsTerminal(order)
        /\ new.version = order.version + 1
        /\ new.events = {order.version + 1}
  /\ (order.assignee # NoActor /\ new.assignee # order.assignee) =>
       order.status = "assigned" /\ new.assignee = NoActor

\* What the commands that leave the tracking session alone keep: they neither
\* start the travel of an order nor take one that is under way from its executor.
OnCourse(order, new) ==
  /\ new.status = "en_route" => order.status = "en_route"
  /\ order.status \in {"en_route", "in_progress"} =>
       /\ new.status \in {"en_route", "in_progress"}
       /\ new.assignee = order.assignee

USE DEF When, Respond, InPool, IsTerminal, CoordinatorMayAct

-----------------------------------------------------------------------------
(* The methods of the order obey OrderStep.                                *)

\* Recording keeps an order in its type, whatever natural number follows.
LEMMA RecordTyped ==
  ASSUME NEW order \in WorkOrders, NEW v \in Nat
  PROVE  [order EXCEPT !.version = v, !.events = @ \cup {v}] \in WorkOrders
BY DEF WorkOrders

\* A recorded order has the next version, one more event and all else as before.
LEMMA RecordFacts ==
  ASSUME NEW order \in WorkOrders,
         NEW new, new = Record(order)
  PROVE  /\ new \in WorkOrders
         /\ new.version = order.version + 1
         /\ new.events = order.events \cup {order.version + 1}
         /\ new.status = order.status
         /\ new.poolMode = order.poolMode
         /\ new.assignee = order.assignee
         /\ new.coordinator = order.coordinator
         /\ new.responses = order.responses
         /\ new.requirements = order.requirements
         /\ new.report = order.report
         /\ new.number = order.number
<1> DEFINE v == order.version + 1
<1>1. v \in Nat
  BY DEF WorkOrders
<1>2. new = [order EXCEPT !.version = v, !.events = @ \cup {v}]
  BY DEF Record
<1> HIDE DEF v
<1>3. new \in WorkOrders
  BY <1>1, <1>2, RecordTyped
<1>4. /\ new.version = v
      /\ new.events = order.events \cup {v}
      /\ new.status = order.status
      /\ new.poolMode = order.poolMode
      /\ new.assignee = order.assignee
      /\ new.coordinator = order.coordinator
      /\ new.responses = order.responses
      /\ new.requirements = order.requirements
      /\ new.report = order.report
      /\ new.number = order.number
  BY <1>1, <1>2 DEF WorkOrders
<1> QED
  BY <1>3, <1>4 DEF v

\* What is left to show of a method that records its change.
LEMMA RecordStep ==
  ASSUME NEW order \in WorkOrders, NEW changed \in WorkOrders,
         NEW new, new = Record(changed),
         order.events = {}, ~IsTerminal(order),
         changed.version = order.version, changed.events = order.events,
         changed.number = order.number,
         OrderOK(changed), Exists(changed),
         (order.assignee # NoActor /\ changed.assignee # order.assignee) =>
           order.status = "assigned" /\ changed.assignee = NoActor
  PROVE  OrderStep(order, new)
BY RecordFacts DEF OrderStep, OrderOK, Exists

\* claim_coordination leaves an order that obeys OrderStep and stays on course.
LEMMA ClaimCoordinationStep ==
  ASSUME NEW order \in WorkOrders, order.events = {}, Exists(order),
         OrderOK(order), NEW c \in Coordinators,
         NEW new \in ClaimCoordination(order, c)
  PROVE  OrderStep(order, new) /\ OnCourse(order, new)
<1> DEFINE changed == [order EXCEPT !.coordinator = c]
<1>1. new = order \/ (~IsTerminal(order) /\ new = Record(changed))
  BY DEF ClaimCoordination
<1>2. changed \in WorkOrders
  BY DEF WorkOrders
<1>3. /\ changed.version = order.version /\ changed.events = order.events
      /\ changed.number = order.number /\ changed.status = order.status
      /\ changed.assignee = order.assignee /\ changed.responses = order.responses
      /\ changed.poolMode = order.poolMode
  BY DEF WorkOrders
<1> HIDE DEF changed
<1>4. OrderOK(changed) /\ Exists(changed)
  BY <1>3 DEF OrderOK, Exists
<1>5. CASE new = order
  BY <1>5 DEF OrderStep, OnCourse
<1>6. CASE ~IsTerminal(order) /\ new = Record(changed)
  <2>1. OrderStep(order, new)
    BY <1>2, <1>3, <1>4, <1>6, RecordStep
  <2> QED
    BY <1>2, <1>3, <1>6, <2>1, RecordFacts DEF OnCourse
<1> QED
  BY <1>1, <1>5, <1>6

\* publish_pool: no executor is set before the pool opens, and none after.
LEMMA PublishPoolStep ==
  ASSUME NEW order \in WorkOrders, order.events = {}, Exists(order),
         OrderOK(order), NEW mode \in PoolMode, NEW actor \in Actors,
         NEW new \in PublishPool(order, mode, actor)
  PROVE  OrderStep(order, new) /\ OnCourse(order, new)
<1> DEFINE changed == [order EXCEPT !.poolMode = mode, !.status = "pool_open"]
<1>1. order.status = "submitted" /\ new = Record(changed)
  BY DEF PublishPool
<1>2. changed \in WorkOrders
  BY <1>1 DEF WorkOrders, WorkOrderStatus
<1>3. /\ changed.version = order.version /\ changed.events = order.events
      /\ changed.number = order.number
      /\ changed.status = "pool_open"
      /\ changed.assignee = order.assignee
      /\ changed.responses = order.responses
  BY <1>1 DEF WorkOrders
<1> HIDE DEF changed
<1>4. OrderOK(changed) /\ Exists(changed)
  BY <1>1, <1>3 DEF OrderOK, Exists, ActiveStatuses, WorkOrders
<1>5. ~IsTerminal(order)
  BY <1>1 DEF TerminalStatuses
<1>6. OrderStep(order, new)
  BY <1>1, <1>2, <1>3, <1>4, <1>5, RecordStep
<1> QED
  BY <1>1, <1>3, <1>6, RecordFacts, <1>2 DEF OnCourse

\* express_interest: an interest is recorded only in a curated pool.
LEMMA ExpressInterestStep ==
  ASSUME NEW order \in WorkOrders, order.events = {}, Exists(order),
         OrderOK(order), NEW e \in Executors,
         NEW new \in ExpressInterest(order, e)
  PROVE  OrderStep(order, new) /\ OnCourse(order, new)
<1> DEFINE changed == [order EXCEPT !.responses[e] = "interested"]
<1>1. /\ order.status = "pool_open" /\ order.poolMode = "curated"
      /\ new = order \/ new = Record(changed)
  BY DEF ExpressInterest
<1>2. changed \in WorkOrders
  BY <1>1 DEF WorkOrders, PoolResponseStatus
<1>3. /\ changed.version = order.version /\ changed.events = order.events
      /\ changed.number = order.number
      /\ changed.status = "pool_open"
      /\ changed.assignee = order.assignee
      /\ changed.responses = [order.responses EXCEPT ![e] = "interested"]
      /\ changed.poolMode = order.poolMode
  BY <1>1 DEF WorkOrders
<1> HIDE DEF changed
<1>4. OrderOK(changed) /\ Exists(changed)
  BY <1>1, <1>3 DEF OrderOK, Exists, ActiveStatuses, WorkOrders
<1>5. ~IsTerminal(order)
  BY <1>1 DEF TerminalStatuses
<1>6. CASE new = order
  BY <1>6 DEF OrderStep, OnCourse
<1>7. CASE new = Record(changed)
  <2>1. OrderStep(order, new)
    BY <1>2, <1>3, <1>4, <1>5, <1>7, RecordStep
  <2> QED
    BY <1>1, <1>2, <1>3, <1>7, <2>1, RecordFacts DEF OnCourse
<1> QED
  BY <1>1, <1>6, <1>7

\* withdraw_interest: the interest is answered by the executor himself.
LEMMA WithdrawInterestStep ==
  ASSUME NEW order \in WorkOrders, order.events = {}, Exists(order),
         OrderOK(order), NEW e \in Executors,
         NEW new \in WithdrawInterest(order, e)
  PROVE  OrderStep(order, new) /\ OnCourse(order, new)
<1> DEFINE changed == [order EXCEPT !.responses[e] = "withdrawn"]
<1>1. order.status = "pool_open" /\ new = Record(changed)
  BY DEF WithdrawInterest
<1>2. changed \in WorkOrders
  BY <1>1 DEF WorkOrders, PoolResponseStatus
<1>3. /\ changed.version = order.version /\ changed.events = order.events
      /\ changed.number = order.number
      /\ changed.status = "pool_open"
      /\ changed.assignee = order.assignee
      /\ changed.responses = [order.responses EXCEPT ![e] = "withdrawn"]
      /\ changed.poolMode = order.poolMode
  BY <1>1 DEF WorkOrders
<1> HIDE DEF changed
<1>4. OrderOK(changed) /\ Exists(changed)
  BY <1>1, <1>3 DEF OrderOK, Exists, ActiveStatuses, WorkOrders
<1>5. ~IsTerminal(order)
  BY <1>1 DEF TerminalStatuses
<1>6. OrderStep(order, new)
  BY <1>1, <1>2, <1>3, <1>4, <1>5, RecordStep
<1> QED
  BY <1>1, <1>3, <1>6, RecordFacts, <1>2 DEF OnCourse

\* claim_first: the only selected response is the new assignee's, and a
\* first-claim pool has no interests to answer.
LEMMA ClaimFirstStep ==
  ASSUME NEW order \in WorkOrders, order.events = {}, Exists(order),
         OrderOK(order), NEW e \in Executors,
         NEW new \in ClaimFirst(order, e)
  PROVE  OrderStep(order, new) /\ OnCourse(order, new)
<1> DEFINE assigned == [order EXCEPT !.assignee = e, !.status = "assigned"]
           changed == [assigned EXCEPT !.responses[e] = "selected"]
<1>1. /\ order.status = "pool_open" /\ order.poolMode = "first_claim"
      /\ new = Record(changed)
  BY DEF ClaimFirst
<1>2. /\ assigned \in WorkOrders
      /\ assigned.version = order.version /\ assigned.events = order.events
      /\ assigned.number = order.number /\ assigned.status = "assigned"
      /\ assigned.assignee = e /\ assigned.responses = order.responses
      /\ assigned.poolMode = order.poolMode
  BY DEF WorkOrders, WorkOrderStatus
<1> HIDE DEF assigned
<1>3. changed \in WorkOrders
  BY <1>2 DEF WorkOrders, PoolResponseStatus
<1>4. /\ changed.version = order.version /\ changed.events = order.events
      /\ changed.number = order.number /\ changed.status = "assigned"
      /\ changed.assignee = e
      /\ changed.responses = [order.responses EXCEPT ![e] = "selected"]
      /\ changed.poolMode = order.poolMode
  BY <1>2 DEF WorkOrders
<1> HIDE DEF changed
<1>5. order.assignee = NoActor /\ ~IsTerminal(order)
  BY <1>1 DEF OrderOK, TerminalStatuses
<1>6. OrderOK(changed) /\ Exists(changed)
  BY <1>1, <1>4, <1>5, ActorsAssumption DEF OrderOK, Exists, ActiveStatuses, WorkOrders
<1>7. OrderStep(order, new)
  BY <1>1, <1>3, <1>4, <1>5, <1>6, RecordStep
<1> QED
  BY <1>1, <1>3, <1>4, <1>7, RecordFacts DEF OnCourse

\* assign: every open interest is answered as the executor is set.
LEMMA AssignStep ==
  ASSUME NEW order \in WorkOrders, order.events = {}, Exists(order),
         OrderOK(order), NEW e \in Executors, NEW actor \in Actors,
         NEW new \in Assign(order, e, actor)
  PROVE  OrderStep(order, new) /\ OnCourse(order, new)
<1> DEFINE assigned == [order EXCEPT !.assignee = e, !.status = "assigned"]
           resolved == ResolveCurated(assigned, e)
           changed == IF order.poolMode = "curated" THEN resolved ELSE assigned
<1>1. /\ assigned \in WorkOrders
      /\ assigned.version = order.version /\ assigned.events = order.events
      /\ assigned.number = order.number /\ assigned.status = "assigned"
      /\ assigned.assignee = e /\ assigned.responses = order.responses
      /\ assigned.poolMode = order.poolMode
  BY DEF WorkOrders, WorkOrderStatus
<1>2. /\ order.status \in {"submitted", "pool_open"}
      /\ new = Record(changed)
  BY <1>1 DEF Assign
<1>3. order.assignee = NoActor /\ ~IsTerminal(order)
  BY <1>2 DEF OrderOK, TerminalStatuses
<1> HIDE DEF assigned
<1>4. /\ resolved \in WorkOrders
      /\ resolved.version = order.version /\ resolved.events = order.events
      /\ resolved.number = order.number /\ resolved.status = "assigned"
      /\ resolved.assignee = e /\ resolved.poolMode = order.poolMode
  BY <1>1 DEF ResolveCurated, WorkOrders, PoolResponseStatus
<1>5. \A x \in Executors :
        /\ resolved.responses[x] # "interested"
        /\ resolved.responses[x] = "selected" =>
             x = e \/ order.responses[x] = "selected"
  BY <1>1 DEF ResolveCurated, WorkOrders
<1> HIDE DEF resolved
<1>6. /\ changed \in WorkOrders
      /\ changed.version = order.version /\ changed.events = order.events
      /\ changed.number = order.number /\ changed.status = "assigned"
      /\ changed.assignee = e /\ changed.poolMode = order.poolMode
  BY <1>1, <1>4
<1>7. OrderOK(changed) /\ Exists(changed)
  <2>1. CASE order.poolMode = "curated"
    BY <1>2, <1>3, <1>4, <1>5, <1>6, <2>1, ActorsAssumption
    DEF OrderOK, Exists, ActiveStatuses, WorkOrders
  <2>2. CASE order.poolMode # "curated"
    BY <1>1, <1>2, <1>3, <1>6, <2>2, ActorsAssumption
    DEF OrderOK, Exists, ActiveStatuses, WorkOrders
  <2> QED
    BY <2>1, <2>2
<1> HIDE DEF changed
<1>8. OrderStep(order, new)
  BY <1>2, <1>3, <1>6, <1>7, RecordStep
<1> QED
  BY <1>2, <1>6, <1>8, RecordFacts DEF OnCourse

\* accept keeps the assignee and the responses.
LEMMA AcceptStep ==
  ASSUME NEW order \in WorkOrders, order.events = {}, Exists(order),
         OrderOK(order), NEW e \in Executors,
         NEW new \in Accept(order, e)
  PROVE  OrderStep(order, new) /\ OnCourse(order, new)
<1> DEFINE changed == [order EXCEPT !.status = "accepted"]
<1>1. order.status = "assigned" /\ order.assignee = e /\ new = Record(changed)
  BY DEF Accept
<1>2. changed \in WorkOrders
  BY DEF WorkOrders, WorkOrderStatus
<1>3. /\ changed.version = order.version /\ changed.events = order.events
      /\ changed.number = order.number /\ changed.status = "accepted"
      /\ changed.assignee = order.assignee /\ changed.responses = order.responses
  BY DEF WorkOrders
<1> HIDE DEF changed
<1>4. OrderOK(changed) /\ Exists(changed) /\ ~IsTerminal(order)
  BY <1>1, <1>3 DEF OrderOK, Exists, ActiveStatuses, TerminalStatuses
<1>5. OrderStep(order, new)
  BY <1>1, <1>2, <1>3, <1>4, RecordStep
<1> QED
  BY <1>1, <1>2, <1>3, <1>5, RecordFacts DEF OnCourse

\* start_work keeps the assignee and an order under way.
LEMMA StartWorkStep ==
  ASSUME NEW order \in WorkOrders, order.events = {}, Exists(order),
         OrderOK(order), NEW e \in Executors,
         NEW new \in StartWork(order, e)
  PROVE  OrderStep(order, new) /\ OnCourse(order, new)
<1> DEFINE changed == [order EXCEPT !.status = "in_progress"]
<1>1. /\ order.status \in {"accepted", "en_route"} /\ order.assignee = e
      /\ new = Record(changed)
  BY DEF StartWork
<1>2. changed \in WorkOrders
  BY DEF WorkOrders, WorkOrderStatus
<1>3. /\ changed.version = order.version /\ changed.events = order.events
      /\ changed.number = order.number /\ changed.status = "in_progress"
      /\ changed.assignee = order.assignee /\ changed.responses = order.responses
  BY DEF WorkOrders
<1> HIDE DEF changed
<1>4. OrderOK(changed) /\ Exists(changed) /\ ~IsTerminal(order)
  BY <1>1, <1>3 DEF OrderOK, Exists, ActiveStatuses, TerminalStatuses
<1>5. OrderStep(order, new)
  BY <1>1, <1>2, <1>3, <1>4, RecordStep
<1> QED
  BY <1>1, <1>2, <1>3, <1>5, RecordFacts DEF OnCourse

\* reject_assignment gives the executor back, and the selection with him.
LEMMA RejectAssignmentStep ==
  ASSUME NEW order \in WorkOrders, order.events = {}, Exists(order),
         OrderOK(order), NEW e \in Executors,
         NEW new \in RejectAssignment(order, e)
  PROVE  OrderStep(order, new) /\ OnCourse(order, new)
<1> DEFINE status == IF order.poolMode # "none" THEN "pool_open" ELSE "submitted"
           returned == [order EXCEPT !.assignee = NoActor, !.status = status]
           withdrawn == [returned EXCEPT !.responses[e] = "withdrawn"]
           changed == IF order.responses[e] # "none" THEN withdrawn ELSE returned
<1>1. /\ returned \in WorkOrders
      /\ returned.version = order.version /\ returned.events = order.events
      /\ returned.number = order.number /\ returned.status = status
      /\ returned.assignee = NoActor /\ returned.responses = order.responses
  BY DEF WorkOrders, WorkOrderStatus
<1>2. /\ order.status = "assigned" /\ order.assignee = e
      /\ new = Record(changed)
  BY <1>1 DEF RejectAssignment
<1> HIDE DEF returned
<1>3. /\ withdrawn \in WorkOrders
      /\ withdrawn.version = order.version /\ withdrawn.events = order.events
      /\ withdrawn.number = order.number /\ withdrawn.status = status
      /\ withdrawn.assignee = NoActor
      /\ withdrawn.responses = [order.responses EXCEPT ![e] = "withdrawn"]
  BY <1>1 DEF WorkOrders, PoolResponseStatus
<1> HIDE DEF withdrawn
<1>4. \A x \in Executors :
        /\ changed.responses[x] # "interested"
        /\ changed.responses[x] # "selected"
  BY <1>1, <1>2, <1>3 DEF OrderOK, WorkOrders
<1>5. /\ changed \in WorkOrders
      /\ changed.version = order.version /\ changed.events = order.events
      /\ changed.number = order.number
      /\ changed.status \in {"pool_open", "submitted"}
      /\ changed.assignee = NoActor
  BY <1>1, <1>3
<1> HIDE DEF changed
<1>6. OrderOK(changed) /\ Exists(changed) /\ ~IsTerminal(order)
  BY <1>2, <1>4, <1>5 DEF OrderOK, Exists, ActiveStatuses, TerminalStatuses
<1>7. OrderStep(order, new)
  BY <1>2, <1>5, <1>6, RecordStep
<1> QED
  BY <1>2, <1>5, <1>7, RecordFacts DEF OnCourse

\* start_travel takes an accepted order of the executor on its way.
LEMMA StartTravelStep ==
  ASSUME NEW order \in WorkOrders, order.events = {}, Exists(order),
         OrderOK(order), NEW e \in Executors,
         NEW new \in StartTravel(order, e)
  PROVE  /\ OrderStep(order, new)
         /\ order.status = "accepted" /\ new.status = "en_route"
         /\ new.assignee = order.assignee /\ order.assignee = e
<1> DEFINE changed == [order EXCEPT !.status = "en_route"]
<1>1. order.status = "accepted" /\ order.assignee = e /\ new = Record(changed)
  BY DEF StartTravel
<1>2. changed \in WorkOrders
  BY DEF WorkOrders, WorkOrderStatus
<1>3. /\ changed.version = order.version /\ changed.events = order.events
      /\ changed.number = order.number /\ changed.status = "en_route"
      /\ changed.assignee = order.assignee /\ changed.responses = order.responses
  BY DEF WorkOrders
<1> HIDE DEF changed
<1>4. OrderOK(changed) /\ Exists(changed) /\ ~IsTerminal(order)
  BY <1>1, <1>3 DEF OrderOK, Exists, ActiveStatuses, TerminalStatuses
<1>5. OrderStep(order, new)
  BY <1>1, <1>2, <1>3, <1>4, RecordStep
<1> QED
  BY <1>1, <1>2, <1>3, <1>5, RecordFacts

\* complete finishes an order that was not finished, with its assignee.
LEMMA CompleteStep ==
  ASSUME NEW order \in WorkOrders, order.events = {}, Exists(order),
         OrderOK(order), NEW e \in Executors, NEW report \in SUBSET Evidence,
         NEW new \in Complete(order, e, report)
  PROVE  /\ OrderStep(order, new) /\ ~IsTerminal(order)
         /\ new.status = "completed" /\ new.assignee = order.assignee
<1> DEFINE changed == [order EXCEPT !.report = report, !.status = "completed"]
<1>1. /\ order.status = "in_progress" /\ order.assignee = e
      /\ new = Record(changed)
  BY DEF Complete
<1>2. changed \in WorkOrders
  BY DEF WorkOrders, WorkOrderStatus, TerminalStatuses
<1>3. /\ changed.version = order.version /\ changed.events = order.events
      /\ changed.number = order.number /\ changed.status = "completed"
      /\ changed.assignee = order.assignee /\ changed.responses = order.responses
  BY DEF WorkOrders
<1> HIDE DEF changed
<1>4. OrderOK(changed) /\ Exists(changed) /\ ~IsTerminal(order)
  BY <1>1, <1>3 DEF OrderOK, Exists, ActiveStatuses, TerminalStatuses
<1>5. OrderStep(order, new)
  BY <1>1, <1>2, <1>3, <1>4, RecordStep
<1> QED
  BY <1>1, <1>2, <1>3, <1>4, <1>5, RecordFacts

\* cancel finishes an order that was not finished, with its assignee.
LEMMA CancelStep ==
  ASSUME NEW order \in WorkOrders, order.events = {}, Exists(order),
         OrderOK(order), NEW actor \in Actors,
         NEW new \in Cancel(order, actor)
  PROVE  /\ OrderStep(order, new) /\ ~IsTerminal(order)
         /\ new.status = "cancelled" /\ new.assignee = order.assignee
<1> DEFINE changed == [order EXCEPT !.status = "cancelled"]
<1>1. ~IsTerminal(order) /\ new = Record(changed)
  BY DEF Cancel
<1>2. changed \in WorkOrders
  BY DEF WorkOrders, WorkOrderStatus, TerminalStatuses
<1>3. /\ changed.version = order.version /\ changed.events = order.events
      /\ changed.number = order.number /\ changed.status = "cancelled"
      /\ changed.assignee = order.assignee /\ changed.responses = order.responses
      /\ changed.poolMode = order.poolMode
  BY DEF WorkOrders
<1> HIDE DEF changed
<1>4. OrderOK(changed) /\ Exists(changed)
  BY <1>1, <1>3 DEF OrderOK, Exists, ActiveStatuses, TerminalStatuses
<1>5. OrderStep(order, new)
  BY <1>1, <1>2, <1>3, <1>4, RecordStep
<1> QED
  BY <1>1, <1>2, <1>3, <1>5, RecordFacts

\* create leaves a submitted order with the number given and one event.
LEMMA CreateFacts ==
  ASSUME NEW number \in Nat, NEW requirements \in SUBSET Evidence,
         NEW new \in Create(number, requirements)
  PROVE  /\ new \in WorkOrders /\ OrderOK(new)
         /\ new.status = "submitted" /\ new.assignee = NoActor
         /\ new.number = number
         /\ new.version = 1 /\ new.events = {1}
<1> DEFINE changed == [NoOrder EXCEPT !.status = "submitted", !.number = number,
                                      !.requirements = requirements]
<1>1. new = Record(changed)
  BY DEF Create
<1>2. changed \in WorkOrders
  BY DEF NoOrder, WorkOrders, WorkOrderStatus
<1>3. /\ changed.version = 0 /\ changed.events = {}
      /\ changed.number = number /\ changed.status = "submitted"
      /\ changed.assignee = NoActor
      /\ changed.responses = [e \in Executors |-> "none"]
  BY DEF NoOrder
<1> HIDE DEF changed
<1>4. new.responses = changed.responses
  BY <1>1, <1>2, RecordFacts
<1> QED
  BY <1>1, <1>2, <1>3, <1>4, RecordFacts DEF OrderOK, ActiveStatuses

-----------------------------------------------------------------------------
(* The methods of the tracking session.                                    *)

\* Recording a session change raises its version, adds one event to it and
\* keeps the rest.
LEMMA SessionRecordFacts ==
  ASSUME NEW session \in TS!TrackingSessions,
         NEW new, new = TS!Record(session)
  PROVE  /\ new \in TS!TrackingSessions
         /\ new.version = session.version + 1
         /\ new.events = session.events \cup {session.version + 1}
         /\ new.status = session.status
         /\ new.workOrder = session.workOrder
         /\ new.executor = session.executor
         /\ new.capability = session.capability
<1> DEFINE v == session.version + 1
<1>1. v \in Nat
  BY DEF TS!TrackingSessions
<1>2. new = [session EXCEPT !.version = v, !.events = @ \cup {v}]
  BY DEF TS!Record
<1> HIDE DEF v
<1>3. new \in TS!TrackingSessions
  BY <1>1, <1>2 DEF TS!TrackingSessions
<1>4. /\ new.version = v
      /\ new.events = session.events \cup {v}
      /\ new.status = session.status
      /\ new.workOrder = session.workOrder
      /\ new.executor = session.executor
      /\ new.capability = session.capability
  BY <1>1, <1>2 DEF TS!TrackingSessions
<1> QED
  BY <1>3, <1>4 DEF v

\* TrackingSession.start leaves an open session of the order and the executor,
\* with its tokens and its first event.
LEMMA StartSessionFacts ==
  ASSUME NEW i \in Orders, NEW e \in Executors, NEW new \in TS!Start(i, e)
  PROVE  /\ new \in TS!TrackingSessions
         /\ new.status = "active" /\ new.workOrder = i /\ new.executor = e
         /\ new.capability
         /\ new.version = 1 /\ new.events = {1}
<1> DEFINE changed == [TS!NoSession EXCEPT !.status = "active", !.workOrder = i,
                                           !.executor = e, !.capability = TRUE]
<1>1. new = TS!Record(changed)
  BY DEF TS!Start
<1>2. changed \in TS!TrackingSessions
  BY DEF TS!NoSession, TS!TrackingSessions, TS!TrackingStatus
<1>3. /\ changed.version = 0 /\ changed.events = {}
      /\ changed.status = "active" /\ changed.workOrder = i
      /\ changed.executor = e /\ changed.capability = TRUE
  BY DEF TS!NoSession
<1> HIDE DEF changed
<1> QED
  BY <1>1, <1>2, <1>3, SessionRecordFacts

\* add_point changes nothing of an open session but its points and version.
LEMMA AddPointFacts ==
  ASSUME NEW session \in TS!TrackingSessions, session.events = {},
         NEW new \in TS!AddPoint(session)
  PROVE  /\ new \in TS!TrackingSessions
         /\ session.status = "active" /\ new.status = "active"
         /\ new.workOrder = session.workOrder
         /\ new.executor = session.executor
         /\ new.capability = session.capability
         /\ new.version = session.version + 1
         /\ new.events = {session.version + 1}
<1> DEFINE count == session.pointCount + 1
           changed == [session EXCEPT !.pointCount = count]
<1>1. session.status = "active" /\ new = TS!Record(changed)
  BY DEF TS!AddPoint, TS!IsActive
<1>2. count \in Nat
  BY DEF TS!TrackingSessions
<1> HIDE DEF count
<1>3. changed \in TS!TrackingSessions
  BY <1>2 DEF TS!TrackingSessions
<1>4. /\ changed.version = session.version /\ changed.events = {}
      /\ changed.status = session.status
      /\ changed.workOrder = session.workOrder
      /\ changed.executor = session.executor
      /\ changed.capability = session.capability
  BY DEF TS!TrackingSessions
<1> HIDE DEF changed
<1> QED
  BY <1>1, <1>3, <1>4, SessionRecordFacts

\* complete and cancel close an open session and clear its tokens.
LEMMA EndSessionFacts ==
  ASSUME NEW session \in TS!TrackingSessions, session.events = {},
         NEW status \in {"completed", "cancelled"},
         NEW new \in TS!End(session, status)
  PROVE  /\ new \in TS!TrackingSessions
         /\ session.status = "active" /\ new.status = status
         /\ new.workOrder = session.workOrder
         /\ new.executor = session.executor
         /\ ~new.capability
         /\ new.version = session.version + 1
         /\ new.events = {session.version + 1}
<1> DEFINE changed == [session EXCEPT !.status = status, !.capability = FALSE]
<1>1. session.status = "active" /\ new = TS!Record(changed)
  BY DEF TS!End, TS!IsActive
<1>2. changed \in TS!TrackingSessions
  BY DEF TS!TrackingSessions, TS!TrackingStatus
<1>3. /\ changed.version = session.version /\ changed.events = {}
      /\ changed.status = status
      /\ changed.workOrder = session.workOrder
      /\ changed.executor = session.executor
      /\ changed.capability = FALSE
  BY DEF TS!TrackingSessions
<1> HIDE DEF changed
<1> QED
  BY <1>1, <1>2, <1>3, SessionRecordFacts

-----------------------------------------------------------------------------
(* The inductive invariant.                                                *)

\* The stored orders: typed, without unsaved events, each consistent with its
\* own status, and nothing under an id that was never used.
OrdersInv ==
  /\ orders \in [Orders -> WorkOrders]
  /\ \A i \in Orders :
       /\ orders[i].events = {}
       /\ OrderOK(orders[i])
       /\ ~Exists(orders[i]) => orders[i] = NoOrder

\* The stored sessions, likewise.
SessionsInv ==
  /\ tracking \in [Sessions -> TS!TrackingSessions]
  /\ \A s \in Sessions :
       /\ tracking[s].events = {}
       /\ tracking[s].status = "absent" => tracking[s] = TS!NoSession

\* The two halves of EventsMatchVersions, one for each kind of aggregate.
OrderHistory ==
  /\ \A i \in Orders : \A v \in 1 .. orders[i].version :
       WorkOrderEvent(i, v) \in outbox
  /\ \A x \in outbox :
       x.aggregate = "work_order" => x.version \in 1 .. orders[x.id].version
SessionHistory ==
  /\ \A s \in Sessions : \A v \in 1 .. tracking[s].version :
       TrackingEvent(s, v) \in outbox
  /\ \A x \in outbox :
       x.aggregate = "tracking_session" =>
         x.version \in 1 .. tracking[x.id].version

IInv ==
  /\ OrdersInv
  /\ SessionsInv
  /\ outbox \in SUBSET OutboxEvents
  /\ lastNumber \in Nat
  /\ OneOpenOrderPerExecutor
  /\ TrackingFollowsOrder
  /\ OneSessionPerOrder
  /\ OrderHistory
  /\ SessionHistory
  /\ NumbersAreDense

-----------------------------------------------------------------------------
(* The commands of Next come in five kinds.  A kind says of a step what the *)
(* invariants need to know, in terms of the rows it writes.                 *)

Creation(i, new) ==
  /\ ~Exists(orders[i])
  /\ new \in WorkOrders /\ OrderOK(new)
  /\ new.status = "submitted" /\ new.assignee = NoActor
  /\ new.number = lastNumber + 1 /\ new.version = 1 /\ new.events = {1}
  /\ SaveOrder(i, new)
  /\ AddEvents(OrderEvents(i, new))
  /\ lastNumber' = lastNumber + 1
  /\ UNCHANGED tracking

OrderChange(i, new) ==
  /\ Exists(orders[i])
  /\ OrderStep(orders[i], new)
  /\ OnCourse(orders[i], new)
  /\ SaveOrder(i, new)
  /\ AddEvents(OrderEvents(i, new))
  /\ UNCHANGED <<tracking, lastNumber>>

Departure(i, s, new, session) ==
  /\ Exists(orders[i])
  /\ OrderStep(orders[i], new)
  /\ orders[i].status = "accepted" /\ new.status = "en_route"
  /\ new.assignee = orders[i].assignee
  /\ tracking[s].status = "absent"
  /\ session \in TS!TrackingSessions
  /\ session.status = "active" /\ session.workOrder = i
  /\ session.executor = orders[i].assignee /\ session.capability
  /\ session.version = 1 /\ session.events = {1}
  /\ SaveOrder(i, new)
  /\ SaveSession(s, session)
  /\ AddEvents(OrderEvents(i, new) \cup SessionEvents(s, session))
  /\ UNCHANGED lastNumber

SessionChange(s, session, status) ==
  /\ session \in TS!TrackingSessions
  /\ tracking[s].status = "active" /\ session.status = status
  /\ session.workOrder = tracking[s].workOrder
  /\ session.executor = tracking[s].executor
  /\ session.capability <=> status = "active"
  /\ session.version = tracking[s].version + 1
  /\ session.events = {tracking[s].version + 1}

Location(s, session) ==
  /\ SessionChange(s, session, "active")
  /\ SaveSession(s, session)
  /\ AddEvents(SessionEvents(s, session))
  /\ UNCHANGED <<orders, lastNumber>>

Finish(i, new) ==
  /\ Exists(orders[i])
  /\ OrderStep(orders[i], new)
  /\ ~IsTerminal(orders[i]) /\ IsTerminal(new)
  /\ new.assignee = orders[i].assignee
  /\ SaveOrder(i, new)
  /\ UNCHANGED lastNumber

FinishAlone(i, new) ==
  /\ Finish(i, new)
  /\ ActiveSessionsOf(i) = {}
  /\ AddEvents(OrderEvents(i, new))
  /\ UNCHANGED tracking

FinishTracked(i, s, new, session) ==
  /\ Finish(i, new)
  /\ s \in ActiveSessionsOf(i)
  /\ SessionChange(s, session, new.status)
  /\ SaveSession(s, session)
  /\ AddEvents(OrderEvents(i, new) \cup SessionEvents(s, session))

\* A step of one of the five kinds (finishing has two forms).
KnownStep ==
  \/ \E i \in Orders, new \in WorkOrders :
       \/ Creation(i, new)
       \/ OrderChange(i, new)
       \/ FinishAlone(i, new)
       \/ \E s \in Sessions, session \in TS!TrackingSessions :
            Departure(i, s, new, session) \/ FinishTracked(i, s, new, session)
  \/ \E s \in Sessions, session \in TS!TrackingSessions : Location(s, session)

\* A command over _change_order is an OrderChange when all its results obey
\* the method's lemma.
LEMMA ChangeOrderKind ==
  ASSUME IInv, NEW i \in Orders, NEW results, ChangeOrder(i, results),
         \A new \in results :
           OrderStep(orders[i], new) /\ OnCourse(orders[i], new)
  PROVE  KnownStep
<1>1. PICK new \in results : SaveOrder(i, new) /\ AddEvents(OrderEvents(i, new))
  BY DEF ChangeOrder
<1>2. new \in WorkOrders /\ OrderChange(i, new)
  BY <1>1 DEF ChangeOrder, OrderChange, OrderStep
<1> QED
  BY <1>2 DEF KnownStep

\* complete_order and cancel_order finish the order, alone or with its session.
LEMMA FinishKind ==
  ASSUME IInv, NEW i \in Orders, NEW results,
         NEW status \in {"completed", "cancelled"},
         FinishOrder(i, results, status),
         \A new \in results :
           /\ OrderStep(orders[i], new) /\ ~IsTerminal(orders[i])
           /\ new.status = status /\ new.assignee = orders[i].assignee
  PROVE  KnownStep
<1>1. PICK new \in results :
        /\ SaveOrder(i, new)
        /\ \/ /\ ActiveSessionsOf(i) = {}
              /\ AddEvents(OrderEvents(i, new))
              /\ UNCHANGED tracking
           \/ \E s \in ActiveSessionsOf(i) :
              \E session \in TS!End(tracking[s], status) :
                /\ SaveSession(s, session)
                /\ AddEvents(OrderEvents(i, new) \cup SessionEvents(s, session))
  BY DEF FinishOrder
<1>2. new \in WorkOrders /\ Finish(i, new)
  BY <1>1 DEF FinishOrder, Finish, OrderStep, TerminalStatuses
<1>3. CASE ActiveSessionsOf(i) = {} /\ AddEvents(OrderEvents(i, new))
             /\ UNCHANGED tracking
  BY <1>2, <1>3 DEF KnownStep, FinishAlone
<1>4. CASE \E s \in ActiveSessionsOf(i) :
           \E session \in TS!End(tracking[s], status) :
             /\ SaveSession(s, session)
             /\ AddEvents(OrderEvents(i, new) \cup SessionEvents(s, session))
  <2>0. PICK s \in ActiveSessionsOf(i) :
          \E session \in TS!End(tracking[s], status) :
            /\ SaveSession(s, session)
            /\ AddEvents(OrderEvents(i, new) \cup SessionEvents(s, session))
    BY <1>4
  <2>1. PICK session \in TS!End(tracking[s], status) :
          /\ SaveSession(s, session)
          /\ AddEvents(OrderEvents(i, new) \cup SessionEvents(s, session))
    BY <2>0
  <2>2. s \in Sessions /\ tracking[s] \in TS!TrackingSessions
          /\ tracking[s].events = {}
    BY DEF ActiveSessionsOf, IInv, SessionsInv
  <2>3. session \in TS!TrackingSessions /\ SessionChange(s, session, status)
    BY <2>2, EndSessionFacts DEF SessionChange
  <2>4. FinishTracked(i, s, new, session)
    BY <1>1, <1>2, <2>1, <2>3 DEF FinishTracked
  <2> QED
    BY <1>2, <2>2, <2>3, <2>4 DEF KnownStep
<1> QED
  BY <1>1, <1>3, <1>4

\* Every command of every actor is a step of one of the kinds.
LEMMA NextKind == IInv /\ Next => KnownStep
<1> SUFFICES ASSUME IInv, Next PROVE KnownStep
  OBVIOUS
<1>0. \A i \in Orders : /\ orders[i] \in WorkOrders /\ orders[i].events = {}
                        /\ OrderOK(orders[i])
  BY DEF IInv, OrdersInv
<1>1. ASSUME NEW i \in Orders, NEW requirements \in SUBSET Evidence,
             CreateOrder(i, requirements)
      PROVE  KnownStep
  <2>1. lastNumber + 1 \in Nat
    BY DEF IInv
  <2>2. PICK new \in Create(lastNumber + 1, requirements) :
          SaveOrder(i, new) /\ AddEvents(OrderEvents(i, new))
    BY <1>1 DEF CreateOrder
  <2>3. Creation(i, new) /\ new \in WorkOrders
    BY <1>1, <2>1, <2>2, CreateFacts DEF Creation, CreateOrder
  <2> QED
    BY <2>3 DEF KnownStep
<1>2. ASSUME NEW i \in Orders, NEW e \in Executors, ExecutorStep(i, e)
      PROVE  KnownStep
  <2>1. CASE ExpressOrderInterest(i, e)
    <3>1. Exists(orders[i]) /\ ChangeOrder(i, ExpressInterest(orders[i], e))
      BY <2>1 DEF ExpressOrderInterest, ChangeOrder
    <3> QED
      BY <1>0, <3>1, ExpressInterestStep, ChangeOrderKind
  <2>2. CASE WithdrawOrderInterest(i, e)
    <3>1. Exists(orders[i]) /\ ChangeOrder(i, WithdrawInterest(orders[i], e))
      BY <2>2 DEF WithdrawOrderInterest, ChangeOrder
    <3> QED
      BY <1>0, <3>1, WithdrawInterestStep, ChangeOrderKind
  <2>3. CASE ClaimOrderFirst(i, e)
    <3>1. Exists(orders[i]) /\ ChangeOrder(i, ClaimFirst(orders[i], e))
      BY <2>3 DEF ClaimOrderFirst, ChangeOrder
    <3> QED
      BY <1>0, <3>1, ClaimFirstStep, ChangeOrderKind
  <2>4. CASE AcceptOrder(i, e)
    <3>1. Exists(orders[i]) /\ ChangeOrder(i, Accept(orders[i], e))
      BY <2>4 DEF AcceptOrder, ChangeOrder
    <3> QED
      BY <1>0, <3>1, AcceptStep, ChangeOrderKind
  <2>5. CASE RejectOrder(i, e)
    <3>1. Exists(orders[i]) /\ ChangeOrder(i, RejectAssignment(orders[i], e))
      BY <2>5 DEF RejectOrder, ChangeOrder
    <3> QED
      BY <1>0, <3>1, RejectAssignmentStep, ChangeOrderKind
  <2>6. CASE StartOrderWork(i, e)
    <3>1. Exists(orders[i]) /\ ChangeOrder(i, StartWork(orders[i], e))
      BY <2>6 DEF StartOrderWork, ChangeOrder
    <3> QED
      BY <1>0, <3>1, StartWorkStep, ChangeOrderKind
  <2>7. CASE \E s \in Sessions : StartOrderTravel(i, e, s)
    <3>1. PICK s \in Sessions : StartOrderTravel(i, e, s)
      BY <2>7
    <3>a. PICK new \in StartTravel(orders[i], e) :
            \E session \in TS!Start(i, e) :
              /\ SaveOrder(i, new)
              /\ SaveSession(s, session)
              /\ AddEvents(OrderEvents(i, new) \cup SessionEvents(s, session))
      BY <3>1 DEF StartOrderTravel
    <3>2. PICK session \in TS!Start(i, e) :
            /\ SaveOrder(i, new)
            /\ SaveSession(s, session)
            /\ AddEvents(OrderEvents(i, new) \cup SessionEvents(s, session))
      BY <3>a
    <3>3. Exists(orders[i]) /\ tracking[s].status = "absent"
            /\ UNCHANGED lastNumber
      BY <3>1 DEF StartOrderTravel
    <3>4. Departure(i, s, new, session)
      <4>1. /\ OrderStep(orders[i], new)
            /\ orders[i].status = "accepted" /\ new.status = "en_route"
            /\ new.assignee = orders[i].assignee /\ orders[i].assignee = e
        BY <1>0, <3>2, <3>3, StartTravelStep
      <4>2. /\ session \in TS!TrackingSessions
            /\ session.status = "active" /\ session.workOrder = i
            /\ session.executor = e /\ session.capability
            /\ session.version = 1 /\ session.events = {1}
        BY StartSessionFacts
      <4> QED
        BY <3>2, <3>3, <4>1, <4>2 DEF Departure
    <3>5. new \in WorkOrders /\ session \in TS!TrackingSessions
      BY <3>4 DEF Departure, OrderStep
    <3> QED
      BY <3>4, <3>5 DEF KnownStep
  <2>8. CASE \E report \in SUBSET Evidence : CompleteOrder(i, e, report)
    <3>1. PICK report \in SUBSET Evidence : CompleteOrder(i, e, report)
      BY <2>8
    <3>2. Exists(orders[i])
            /\ FinishOrder(i, Complete(orders[i], e, report), "completed")
      BY <3>1 DEF CompleteOrder, FinishOrder
    <3> QED
      BY <1>0, <3>2, CompleteStep, FinishKind
  <2> QED
    BY <1>2, <2>1, <2>2, <2>3, <2>4, <2>5, <2>6, <2>7, <2>8 DEF ExecutorStep
<1>3. ASSUME NEW i \in Orders, CoordinatorStep(i)
      PROVE  KnownStep
  <2>1. CASE \E c \in Coordinators : ClaimOrderCoordination(i, c)
    <3>1. PICK c \in Coordinators : ClaimOrderCoordination(i, c)
      BY <2>1
    <3>2. Exists(orders[i]) /\ ChangeOrder(i, ClaimCoordination(orders[i], c))
      BY <3>1 DEF ClaimOrderCoordination, ChangeOrder
    <3> QED
      BY <1>0, <3>2, ClaimCoordinationStep, ChangeOrderKind
  <2>2. ASSUME NEW actor \in Actors, NEW mode \in PoolMode,
               PublishOrder(i, mode, actor)
        PROVE  KnownStep
    <3>1. Exists(orders[i]) /\ ChangeOrder(i, PublishPool(orders[i], mode, actor))
      BY <2>2 DEF PublishOrder, ChangeOrder
    <3> QED
      BY <1>0, <3>1, PublishPoolStep, ChangeOrderKind
  <2>3. ASSUME NEW actor \in Actors, NEW e \in Executors, AssignOrder(i, e, actor)
        PROVE  KnownStep
    <3>1. Exists(orders[i]) /\ ChangeOrder(i, Assign(orders[i], e, actor))
      BY <2>3 DEF AssignOrder, ChangeOrder
    <3> QED
      BY <1>0, <3>1, AssignStep, ChangeOrderKind
  <2>4. ASSUME NEW actor \in Actors, CancelOrder(i, actor)
        PROVE  KnownStep
    <3>1. Exists(orders[i])
            /\ FinishOrder(i, Cancel(orders[i], actor), "cancelled")
      BY <2>4 DEF CancelOrder, FinishOrder
    <3> QED
      BY <1>0, <3>1, CancelStep, FinishKind
  <2> QED
    BY <1>3, <2>1, <2>2, <2>3, <2>4 DEF CoordinatorStep
<1>4. ASSUME NEW s \in Sessions, NEW e \in Executors, RecordLocation(s, e)
      PROVE  KnownStep
  <2>1. PICK session \in TS!AddPoint(tracking[s]) :
          SaveSession(s, session) /\ AddEvents(SessionEvents(s, session))
    BY <1>4 DEF RecordLocation
  <2>2. tracking[s] \in TS!TrackingSessions /\ tracking[s].events = {}
    BY DEF IInv, SessionsInv
  <2>3. UNCHANGED <<orders, lastNumber>>
    BY <1>4 DEF RecordLocation
  <2>4. tracking[s].status = "active" => tracking[s].capability
    BY DEF IInv, TrackingFollowsOrder, TS!IsActive
  <2>5. session \in TS!TrackingSessions /\ Location(s, session)
    BY <2>1, <2>2, <2>3, <2>4, AddPointFacts DEF Location, SessionChange
  <2> QED
    BY <2>5 DEF KnownStep
<1> QED
  BY <1>1, <1>2, <1>3, <1>4 DEF Next

-----------------------------------------------------------------------------
(* What saving a row keeps.                                                *)

\* A stored order differs from the saved one in its events only.
LEMMA StoredFacts ==
  ASSUME NEW new \in WorkOrders
  PROVE  /\ Stored(new) \in WorkOrders
         /\ Stored(new).events = {}
         /\ Stored(new).status = new.status
         /\ Stored(new).poolMode = new.poolMode
         /\ Stored(new).assignee = new.assignee
         /\ Stored(new).responses = new.responses
         /\ Stored(new).number = new.number
         /\ Stored(new).version = new.version
         /\ new.events = {} => Stored(new) = new
BY DEF Stored, WorkOrders

\* A stored session differs from the saved one in its events only.
LEMMA SessionStoredFacts ==
  ASSUME NEW new \in TS!TrackingSessions
  PROVE  /\ TS!Stored(new) \in TS!TrackingSessions
         /\ TS!Stored(new).events = {}
         /\ TS!Stored(new).status = new.status
         /\ TS!Stored(new).workOrder = new.workOrder
         /\ TS!Stored(new).executor = new.executor
         /\ TS!Stored(new).capability = new.capability
         /\ TS!Stored(new).version = new.version
BY DEF TS!Stored, TS!TrackingSessions

\* Saving a consistent order keeps the table consistent, and the index on the
\* assignee keeps every executor at one open order.
LEMMA OrderSaved ==
  ASSUME OrdersInv, OneOpenOrderPerExecutor,
         NEW i \in Orders, NEW new \in WorkOrders,
         OrderOK(new), Exists(new), SaveOrder(i, new)
  PROVE  /\ OrdersInv' /\ OneOpenOrderPerExecutor'
         /\ \A j \in Orders \ {i} : orders'[j] = orders[j]
         /\ orders'[i] = Stored(new)
         /\ orders'[i].status = new.status
         /\ orders'[i].assignee = new.assignee
         /\ orders'[i].number = new.number
         /\ orders'[i].version = new.version
<1>1. /\ orders' \in [Orders -> WorkOrders]
      /\ orders'[i] = Stored(new)
      /\ \A j \in Orders \ {i} : orders'[j] = orders[j]
  BY StoredFacts DEF SaveOrder, OrdersInv
<1>2. /\ orders'[i].status = new.status
      /\ orders'[i].assignee = new.assignee
      /\ orders'[i].number = new.number
      /\ orders'[i].version = new.version
      /\ orders'[i].events = {}
      /\ orders'[i].responses = new.responses
      /\ orders'[i].poolMode = new.poolMode
  BY <1>1, StoredFacts
<1>3. OrderOK(orders'[i]) /\ Exists(orders'[i])
  BY <1>2 DEF OrderOK, Exists
<1>4. OrdersInv'
  BY <1>1, <1>2, <1>3 DEF OrdersInv, OrderOK, Exists
<1>5. \A j \in Orders :
        (orders'[j].assignee # NoActor /\ ~(orders'[j].status \in TerminalStatuses))
          => orders'[j].status \in ActiveStatuses
  BY <1>4 DEF OrdersInv, OrderOK, ActiveStatuses, WorkOrders, WorkOrderStatus
<1>6. OneOpenOrderPerExecutor'
  BY <1>1, <1>2, <1>5 DEF OneOpenOrderPerExecutor, SaveOrder, AssigneeIsFree,
                          ActiveStatuses, TerminalStatuses
<1> QED
  BY <1>1, <1>2, <1>4, <1>6

\* Saving a session keeps the table of sessions consistent.
LEMMA SessionSaved ==
  ASSUME SessionsInv, NEW s \in Sessions, NEW new \in TS!TrackingSessions,
         new.status # "absent", SaveSession(s, new)
  PROVE  /\ SessionsInv'
         /\ \A t \in Sessions \ {s} : tracking'[t] = tracking[t]
         /\ tracking'[s].status = new.status
         /\ tracking'[s].workOrder = new.workOrder
         /\ tracking'[s].executor = new.executor
         /\ tracking'[s].capability = new.capability
         /\ tracking'[s].version = new.version
<1>1. /\ tracking' \in [Sessions -> TS!TrackingSessions]
      /\ tracking'[s] = TS!Stored(new)
      /\ \A t \in Sessions \ {s} : tracking'[t] = tracking[t]
  BY SessionStoredFacts DEF SaveSession, SessionsInv
<1>2. /\ tracking'[s].status = new.status
      /\ tracking'[s].workOrder = new.workOrder
      /\ tracking'[s].executor = new.executor
      /\ tracking'[s].capability = new.capability
      /\ tracking'[s].version = new.version
      /\ tracking'[s].events = {}
  BY <1>1, SessionStoredFacts
<1> QED
  BY <1>1, <1>2 DEF SessionsInv

\* A row that moves to the next version with the event of that version, or
\* stays, keeps the history of the orders; events of sessions do not touch it.
LEMMA OrderHistoryKept ==
  ASSUME orders \in [Orders -> WorkOrders], outbox \in SUBSET OutboxEvents,
         OrderHistory, NEW i \in Orders, NEW new \in WorkOrders,
         \A j \in Orders \ {i} : orders'[j] = orders[j],
         orders'[i].version = new.version,
         \/ new.version = orders[i].version /\ new.events = {}
         \/ /\ new.version = orders[i].version + 1
            /\ new.events = {orders[i].version + 1},
         NEW others, \A x \in others : x.aggregate = "tracking_session",
         outbox' = outbox \cup (OrderEvents(i, new) \cup others)
  PROVE  OrderHistory'
<1>1. /\ \A j \in Orders : orders[j].version \in Nat
      /\ new.version \in Nat
      /\ orders[i].version + 1 \in Nat
  BY DEF WorkOrders
<1>2. ASSUME NEW j \in Orders, NEW v \in 1 .. orders'[j].version
      PROVE  WorkOrderEvent(j, v) \in outbox'
  <2>1. CASE v \in 1 .. orders[j].version
    BY <2>1 DEF OrderHistory
  <2>2. CASE ~(v \in 1 .. orders[j].version)
    <3>1. j = i /\ v = orders[i].version + 1 /\ v \in new.events
      BY <1>1, <1>2, <2>2
    <3> QED
      BY <3>1 DEF OrderEvents
  <2> QED
    BY <2>1, <2>2
<1>3. ASSUME NEW x \in outbox', x.aggregate = "work_order"
      PROVE  x.version \in 1 .. orders'[x.id].version
  <2>1. CASE x \in outbox
    <3>1. x.version \in 1 .. orders[x.id].version /\ x.id \in Orders
      BY <1>3, <2>1 DEF OrderHistory, OutboxEvents
    <3> QED
      BY <1>1, <3>1
  <2>2. CASE x \in OrderEvents(i, new)
    <3>1. PICK v \in new.events : x = WorkOrderEvent(i, v)
      BY <2>2 DEF OrderEvents
    <3>2. x.id = i /\ x.version = v
      BY <3>1 DEF WorkOrderEvent
    <3> QED
      BY <1>1, <3>1, <3>2
  <2>3. ~(x \in others)
    BY <1>3
  <2> QED
    BY <2>1, <2>2, <2>3
<1> QED
  BY <1>2, <1>3 DEF OrderHistory, WorkOrderEvent

\* The same for the history of the sessions.
LEMMA SessionHistoryKept ==
  ASSUME tracking \in [Sessions -> TS!TrackingSessions],
         outbox \in SUBSET OutboxEvents, SessionHistory,
         NEW s \in Sessions, NEW new \in TS!TrackingSessions,
         \A t \in Sessions \ {s} : tracking'[t] = tracking[t],
         tracking'[s].version = new.version,
         new.version = tracking[s].version + 1,
         new.events = {tracking[s].version + 1},
         NEW others, \A x \in others : x.aggregate = "work_order",
         outbox' = outbox \cup (others \cup SessionEvents(s, new))
  PROVE  SessionHistory'
<1>1. /\ \A t \in Sessions : tracking[t].version \in Nat
      /\ new.version \in Nat
      /\ tracking[s].version + 1 \in Nat
  BY DEF TS!TrackingSessions
<1>2. ASSUME NEW t \in Sessions, NEW v \in 1 .. tracking'[t].version
      PROVE  TrackingEvent(t, v) \in outbox'
  <2>1. CASE v \in 1 .. tracking[t].version
    BY <2>1 DEF SessionHistory
  <2>2. CASE ~(v \in 1 .. tracking[t].version)
    <3>1. t = s /\ v = tracking[s].version + 1 /\ v \in new.events
      BY <1>1, <1>2, <2>2
    <3> QED
      BY <3>1 DEF SessionEvents
  <2> QED
    BY <2>1, <2>2
<1>3. ASSUME NEW x \in outbox', x.aggregate = "tracking_session"
      PROVE  x.version \in 1 .. tracking'[x.id].version
  <2>1. CASE x \in outbox
    <3>1. x.version \in 1 .. tracking[x.id].version /\ x.id \in Sessions
      BY <1>3, <2>1 DEF SessionHistory, OutboxEvents
    <3> QED
      BY <1>1, <3>1
  <2>2. CASE x \in SessionEvents(s, new)
    <3>1. PICK v \in new.events : x = TrackingEvent(s, v)
      BY <2>2 DEF SessionEvents
    <3>2. x.id = s /\ x.version = v
      BY <3>1 DEF TrackingEvent
    <3> QED
      BY <1>1, <3>1, <3>2
  <2>3. ~(x \in others)
    BY <1>3
  <2> QED
    BY <2>1, <2>2, <2>3
<1> QED
  BY <1>2, <1>3 DEF SessionHistory, TrackingEvent

\* The events of an order and of a session are events of their tables.
LEMMA EventsTyped ==
  /\ \A i \in Orders, new \in WorkOrders :
       /\ OrderEvents(i, new) \in SUBSET OutboxEvents
       /\ \A x \in OrderEvents(i, new) : x.aggregate = "work_order"
  /\ \A s \in Sessions, new \in TS!TrackingSessions :
       /\ SessionEvents(s, new) \in SUBSET OutboxEvents
       /\ \A x \in SessionEvents(s, new) : x.aggregate = "tracking_session"
BY DEF OrderEvents, SessionEvents, WorkOrderEvent, TrackingEvent, OutboxEvents,
       WorkOrders, TS!TrackingSessions

-----------------------------------------------------------------------------
(* Each kind of step keeps the invariant, conjunct by conjunct.            *)

\* The facts of an order step that the conjuncts need: the row written and
\* its history, whether or not the method changed anything.
LEMMA OrderStepSaved ==
  ASSUME IInv, NEW i \in Orders, NEW new \in WorkOrders,
         OrderStep(orders[i], new), Exists(orders[i]), SaveOrder(i, new)
  PROVE  /\ OrdersInv' /\ OneOpenOrderPerExecutor'
         /\ \A j \in Orders \ {i} : orders'[j] = orders[j]
         /\ orders'[i] = Stored(new)
         /\ orders'[i].status = new.status
         /\ orders'[i].assignee = new.assignee
         /\ orders'[i].number = orders[i].number
         /\ orders'[i].version = new.version
         /\ IsTerminal(orders[i]) => orders'[i] = orders[i]
         /\ \/ new.version = orders[i].version /\ new.events = {}
            \/ /\ new.version = orders[i].version + 1
               /\ new.events = {orders[i].version + 1}
<1>1. /\ OrdersInv /\ OneOpenOrderPerExecutor
      /\ OrderOK(new) /\ Exists(new)
      /\ new.number = orders[i].number
      /\ orders[i].events = {}
  BY DEF IInv, OrdersInv, OrderStep
<1>2. new = orders[i] => orders'[i] = orders[i]
  BY <1>1, OrderSaved, StoredFacts
<1>3. \/ new.version = orders[i].version /\ new.events = {}
      \/ /\ new.version = orders[i].version + 1
         /\ new.events = {orders[i].version + 1}
  BY <1>1 DEF OrderStep
<1>4. IsTerminal(orders[i]) => new = orders[i]
  BY DEF OrderStep
<1> QED
  BY <1>1, <1>2, <1>3, <1>4, OrderSaved

\* When no order comes or goes and the numbers stay, they stay dense.
LEMMA NumbersKept ==
  ASSUME NumbersAreDense, lastNumber' = lastNumber,
         \A i \in Orders : /\ orders'[i].number = orders[i].number
                           /\ Exists(orders'[i]) <=> Exists(orders[i])
  PROVE  NumbersAreDense'
<1>1. {i \in Orders : Exists(orders'[i])} = {i \in Orders : Exists(orders[i])}
  OBVIOUS
<1>2. {orders'[i].number : i \in {j \in Orders : Exists(orders'[j])}}
        = {orders[i].number : i \in {j \in Orders : Exists(orders[j])}}
  BY <1>1
<1> QED
  BY <1>2 DEF NumbersAreDense, Exists

\* CreateOrder keeps the invariant.
LEMMA CreationInv ==
  ASSUME IInv, NEW i \in Orders, NEW new \in WorkOrders, Creation(i, new)
  PROVE  IInv'
<1> USE DEF Creation
<1>1. OrdersInv /\ OneOpenOrderPerExecutor /\ OrderOK(new) /\ Exists(new)
  BY DEF IInv, Exists
<1>2. /\ OrdersInv' /\ OneOpenOrderPerExecutor'
      /\ \A j \in Orders \ {i} : orders'[j] = orders[j]
      /\ orders'[i].status = "submitted" /\ orders'[i].assignee = NoActor
      /\ orders'[i].number = lastNumber + 1 /\ orders'[i].version = 1
  BY <1>1, OrderSaved
<1>3. tracking' = tracking /\ lastNumber' = lastNumber + 1
        /\ lastNumber \in Nat /\ outbox' = outbox \cup OrderEvents(i, new)
  BY DEF IInv, AddEvents
<1>4. SessionsInv' /\ OneSessionPerOrder' /\ lastNumber' \in Nat
  BY <1>3 DEF IInv, SessionsInv, OneSessionPerOrder
<1>5. outbox' \in SUBSET OutboxEvents
  BY <1>3, EventsTyped DEF IInv
<1>6. orders[i] = NoOrder /\ orders[i].version = 0
        /\ orders[i].status = "absent"
  BY DEF IInv, OrdersInv, NoOrder, Exists
<1>7. TrackingFollowsOrder'
  <2>1. ASSUME NEW s \in Sessions, tracking[s].status # "absent"
        PROVE  tracking[s].workOrder \in Orders \ {i}
    BY <1>6, <2>1 DEF IInv, TrackingFollowsOrder, SessionsInv,
                      TS!TrackingSessions, TS!TrackingStatus
  <2> QED
    BY <1>2, <1>3, <2>1 DEF IInv, TrackingFollowsOrder, ActiveSessionsOf
<1>8. OrderHistory'
  <2> DEFINE others == {}
  <2>1. /\ outbox' = outbox \cup (OrderEvents(i, new) \cup others)
        /\ \A x \in others : x.aggregate = "tracking_session"
    BY <1>3
  <2> HIDE DEF others
  <2>2. /\ orders \in [Orders -> WorkOrders] /\ outbox \in SUBSET OutboxEvents
        /\ OrderHistory
        /\ new.version = orders[i].version + 1
        /\ new.events = {orders[i].version + 1}
        /\ orders'[i].version = new.version
    BY <1>2, <1>6 DEF IInv, OrdersInv
  <2> QED
    BY <1>2, <2>1, <2>2, OrderHistoryKept
<1>9. SessionHistory'
  BY <1>3, EventsTyped DEF IInv, SessionHistory, TrackingEvent
<1>10. NumbersAreDense'
  <2>1. {j \in Orders : Exists(orders'[j])}
          = {j \in Orders : Exists(orders[j])} \cup {i}
    BY <1>2, <1>6 DEF Exists
  <2>2. {orders'[j].number : j \in {k \in Orders : Exists(orders'[k])}}
          = {orders[j].number : j \in {k \in Orders : Exists(orders[k])}}
              \cup {lastNumber + 1}
    BY <1>2, <1>6, <2>1 DEF Exists
  <2>3. {orders[j].number : j \in {k \in Orders : Exists(orders[k])}}
          = 1 .. lastNumber
    BY DEF IInv, NumbersAreDense
  <2>4. (1 .. lastNumber) \cup {lastNumber + 1} = 1 .. lastNumber + 1
    BY <1>3
  <2>5. \A j \in Orders : Exists(orders[j]) => orders[j].number \in 1 .. lastNumber
    BY <2>3
  <2>6. \A j, k \in Orders : (j # k /\ Exists(orders'[j])) =>
           orders'[j].number # orders'[k].number
    BY <1>2, <1>3, <1>6, <2>5 DEF IInv, NumbersAreDense, Exists, OrdersInv, NoOrder
  <2> QED
    BY <1>3, <2>2, <2>3, <2>4, <2>6 DEF NumbersAreDense
<1> QED
  BY <1>2, <1>4, <1>5, <1>7, <1>8, <1>9, <1>10 DEF IInv

\* A command over _change_order keeps the invariant.
LEMMA OrderChangeInv ==
  ASSUME IInv, NEW i \in Orders, NEW new \in WorkOrders, OrderChange(i, new)
  PROVE  IInv'
<1> USE DEF OrderChange
<1>1. /\ OrdersInv' /\ OneOpenOrderPerExecutor'
      /\ \A j \in Orders \ {i} : orders'[j] = orders[j]
      /\ orders'[i].status = new.status /\ orders'[i].assignee = new.assignee
      /\ orders'[i].number = orders[i].number
      /\ orders'[i].version = new.version
      /\ IsTerminal(orders[i]) => orders'[i] = orders[i]
      /\ \/ new.version = orders[i].version /\ new.events = {}
         \/ /\ new.version = orders[i].version + 1
            /\ new.events = {orders[i].version + 1}
  BY OrderStepSaved
<1>2. tracking' = tracking /\ lastNumber' = lastNumber
        /\ outbox' = outbox \cup OrderEvents(i, new)
  BY DEF AddEvents
<1>3. SessionsInv' /\ OneSessionPerOrder' /\ lastNumber' \in Nat
  BY <1>2 DEF IInv, SessionsInv, OneSessionPerOrder
<1>4. outbox' \in SUBSET OutboxEvents
  BY <1>2, EventsTyped DEF IInv
<1>5. TrackingFollowsOrder'
  <2>1. ASSUME NEW s \in Sessions, tracking[s].status # "absent",
               tracking[s].workOrder = i
        PROVE  /\ tracking[s].executor = orders'[i].assignee
               /\ IF TS!IsActive(tracking[s])
                    THEN orders'[i].status \in {"en_route", "in_progress"}
                    ELSE orders'[i].status = tracking[s].status
    <3>1. CASE TS!IsActive(tracking[s])
      BY <1>1, <2>1, <3>1 DEF IInv, TrackingFollowsOrder, OnCourse
    <3>2. CASE ~TS!IsActive(tracking[s])
      <4>1. IsTerminal(orders[i])
        BY <2>1, <3>2 DEF IInv, TrackingFollowsOrder, TS!IsActive, SessionsInv,
             TS!TrackingSessions, TS!TrackingStatus, TerminalStatuses
      <4> QED
        BY <1>1, <2>1, <3>2, <4>1 DEF IInv, TrackingFollowsOrder
    <3> QED
      BY <3>1, <3>2
  <2>2. \A j \in Orders : orders'[j].status = "en_route" =>
          orders[j].status = "en_route"
    BY <1>1 DEF OnCourse
  <2> QED
    BY <1>1, <1>2, <2>1, <2>2 DEF IInv, TrackingFollowsOrder, ActiveSessionsOf
<1>6. OrderHistory'
  <2> DEFINE others == {}
  <2>1. /\ outbox' = outbox \cup (OrderEvents(i, new) \cup others)
        /\ \A x \in others : x.aggregate = "tracking_session"
    BY <1>2
  <2> HIDE DEF others
  <2>2. /\ orders \in [Orders -> WorkOrders] /\ outbox \in SUBSET OutboxEvents
        /\ OrderHistory
    BY DEF IInv, OrdersInv
  <2> QED
    BY <1>1, <2>1, <2>2, OrderHistoryKept
<1>7. SessionHistory'
  BY <1>2, EventsTyped DEF IInv, SessionHistory, TrackingEvent
<1>8. NumbersAreDense'
  <2>1. \A j \in Orders : /\ orders'[j].number = orders[j].number
                          /\ Exists(orders'[j]) <=> Exists(orders[j])
    BY <1>1 DEF OrderStep, Exists
  <2> QED
    BY <1>2, <2>1, NumbersKept DEF IInv
<1> QED
  BY <1>1, <1>3, <1>4, <1>5, <1>6, <1>7, <1>8 DEF IInv

\* start_travel keeps the invariant: an accepted order was never tracked, so
\* the new session is its only one.
LEMMA DepartureInv ==
  ASSUME IInv, NEW i \in Orders, NEW s \in Sessions,
         NEW new \in WorkOrders, NEW session \in TS!TrackingSessions,
         Departure(i, s, new, session)
  PROVE  IInv'
<1> USE DEF Departure
<1>1. /\ OrdersInv' /\ OneOpenOrderPerExecutor'
      /\ \A j \in Orders \ {i} : orders'[j] = orders[j]
      /\ orders'[i].status = "en_route"
      /\ orders'[i].assignee = orders[i].assignee
      /\ orders'[i].number = orders[i].number
      /\ orders'[i].version = new.version
      /\ \/ new.version = orders[i].version /\ new.events = {}
         \/ /\ new.version = orders[i].version + 1
            /\ new.events = {orders[i].version + 1}
  BY OrderStepSaved
<1>2. /\ SessionsInv'
      /\ \A t \in Sessions \ {s} : tracking'[t] = tracking[t]
      /\ tracking'[s].status = "active" /\ tracking'[s].workOrder = i
      /\ tracking'[s].executor = orders[i].assignee
      /\ tracking'[s].capability
      /\ tracking'[s].version = session.version
  BY SessionSaved DEF IInv
<1>3. lastNumber' = lastNumber /\ outbox' =
        outbox \cup (OrderEvents(i, new) \cup SessionEvents(s, session))
  BY DEF AddEvents
<1>4. outbox' \in SUBSET OutboxEvents /\ lastNumber' \in Nat
  BY <1>3, EventsTyped DEF IInv
<1>5. \A t \in Sessions :
        tracking[t].status # "absent" => tracking[t].workOrder # i
  BY DEF IInv, TrackingFollowsOrder, SessionsInv, TS!TrackingSessions,
         TS!TrackingStatus
<1>6. OneSessionPerOrder'
  BY <1>2, <1>5 DEF IInv, OneSessionPerOrder
<1>7. TrackingFollowsOrder'
  <2>1. ASSUME NEW t \in Sessions, tracking'[t].status # "absent"
        PROVE  /\ tracking'[t].workOrder \in Orders
               /\ tracking'[t].capability <=> TS!IsActive(tracking'[t])
               /\ tracking'[t].executor = orders'[tracking'[t].workOrder].assignee
               /\ IF TS!IsActive(tracking'[t])
                    THEN orders'[tracking'[t].workOrder].status
                           \in {"en_route", "in_progress"}
                    ELSE orders'[tracking'[t].workOrder].status = tracking'[t].status
    <3>1. CASE t = s
      BY <1>1, <1>2, <3>1 DEF TS!IsActive
    <3>2. CASE t # s
      BY <1>1, <1>2, <1>5, <2>1, <3>2 DEF IInv, TrackingFollowsOrder
    <3> QED
      BY <3>1, <3>2
  <2>2. ASSUME NEW j \in Orders, orders'[j].status = "en_route"
        PROVE  ActiveSessionsOf(j)' # {}
    <3>1. CASE j = i
      <4>1. s \in ActiveSessionsOf(j)'
        BY <1>2, <3>1 DEF ActiveSessionsOf, TS!IsActive
      <4> QED
        BY <4>1
    <3>2. CASE j # i
      <4>1. PICK t \in Sessions :
              TS!IsActive(tracking[t]) /\ tracking[t].workOrder = j
        BY <1>1, <2>2, <3>2 DEF IInv, TrackingFollowsOrder, ActiveSessionsOf
      <4>2. t # s
        BY <4>1 DEF TS!IsActive
      <4>3. t \in ActiveSessionsOf(j)'
        BY <1>2, <4>1, <4>2 DEF ActiveSessionsOf, TS!IsActive
      <4> QED
        BY <4>3
    <3> QED
      BY <3>1, <3>2
  <2> QED
    BY <2>1, <2>2 DEF TrackingFollowsOrder
<1>8. OrderHistory'
  <2>1. /\ orders \in [Orders -> WorkOrders] /\ outbox \in SUBSET OutboxEvents
        /\ OrderHistory
        /\ \A x \in SessionEvents(s, session) : x.aggregate = "tracking_session"
    BY EventsTyped DEF IInv, OrdersInv
  <2> QED
    BY <1>1, <1>3, <2>1, OrderHistoryKept
<1>9. SessionHistory'
  <2>1. /\ tracking \in [Sessions -> TS!TrackingSessions]
        /\ outbox \in SUBSET OutboxEvents /\ SessionHistory
        /\ \A x \in OrderEvents(i, new) : x.aggregate = "work_order"
    BY EventsTyped DEF IInv, SessionsInv
  <2>2. tracking[s].version = 0
    BY DEF IInv, SessionsInv, TS!NoSession
  <2>3. /\ session.version = tracking[s].version + 1
        /\ session.events = {tracking[s].version + 1}
    BY <2>2
  <2> QED
    BY <1>2, <1>3, <2>1, <2>3, SessionHistoryKept
<1>10. NumbersAreDense'
  <2>1. \A j \in Orders : /\ orders'[j].number = orders[j].number
                          /\ Exists(orders'[j]) <=> Exists(orders[j])
    BY <1>1 DEF Exists
  <2> QED
    BY <1>3, <2>1, NumbersKept DEF IInv
<1> QED
  BY <1>1, <1>2, <1>4, <1>6, <1>7, <1>8, <1>9, <1>10 DEF IInv

\* record_location keeps the invariant: the session stays what it was.
LEMMA LocationInv ==
  ASSUME IInv, NEW s \in Sessions, NEW session \in TS!TrackingSessions,
         Location(s, session)
  PROVE  IInv'
<1> USE DEF Location, SessionChange
<1>1. orders' = orders /\ lastNumber' = lastNumber
        /\ outbox' = outbox \cup SessionEvents(s, session)
  BY DEF AddEvents
<1>2. /\ SessionsInv'
      /\ \A t \in Sessions \ {s} : tracking'[t] = tracking[t]
      /\ tracking'[s].status = "active" /\ tracking[s].status = "active"
      /\ tracking'[s].workOrder = tracking[s].workOrder
      /\ tracking'[s].executor = tracking[s].executor
      /\ tracking'[s].capability
      /\ tracking'[s].version = session.version
  BY SessionSaved DEF IInv
<1>3. OrdersInv' /\ OneOpenOrderPerExecutor' /\ lastNumber' \in Nat
        /\ NumbersAreDense'
  BY <1>1 DEF IInv, OrdersInv, OneOpenOrderPerExecutor, NumbersAreDense
<1>4. outbox' \in SUBSET OutboxEvents
  BY <1>1, EventsTyped DEF IInv
<1>5. OneSessionPerOrder'
  BY <1>2 DEF IInv, OneSessionPerOrder
<1>6. TrackingFollowsOrder'
  <2>1. ASSUME NEW t \in Sessions, tracking'[t].status # "absent"
        PROVE  /\ tracking'[t].workOrder \in Orders
               /\ tracking'[t].capability <=> TS!IsActive(tracking'[t])
               /\ tracking'[t].executor = orders'[tracking'[t].workOrder].assignee
               /\ IF TS!IsActive(tracking'[t])
                    THEN orders'[tracking'[t].workOrder].status
                           \in {"en_route", "in_progress"}
                    ELSE orders'[tracking'[t].workOrder].status = tracking'[t].status
    BY <1>1, <1>2, <2>1 DEF IInv, TrackingFollowsOrder, TS!IsActive
  <2>2. \A j \in Orders : ActiveSessionsOf(j)' = ActiveSessionsOf(j)
    BY <1>2 DEF ActiveSessionsOf, TS!IsActive
  <2> QED
    BY <1>1, <2>1, <2>2 DEF IInv, TrackingFollowsOrder
<1>7. OrderHistory'
  BY <1>1, EventsTyped DEF IInv, OrderHistory, WorkOrderEvent
<1>8. SessionHistory'
  <2> DEFINE others == {}
  <2>1. /\ outbox' = outbox \cup (others \cup SessionEvents(s, session))
        /\ \A x \in others : x.aggregate = "work_order"
    BY <1>1
  <2> HIDE DEF others
  <2>2. /\ tracking \in [Sessions -> TS!TrackingSessions]
        /\ outbox \in SUBSET OutboxEvents /\ SessionHistory
    BY DEF IInv, SessionsInv
  <2> QED
    BY <1>2, <2>1, <2>2, SessionHistoryKept
<1> QED
  BY <1>2, <1>3, <1>4, <1>5, <1>6, <1>7, <1>8 DEF IInv

\* Finishing an order that is not tracked keeps the invariant: it never was.
LEMMA FinishAloneInv ==
  ASSUME IInv, NEW i \in Orders, NEW new \in WorkOrders, FinishAlone(i, new)
  PROVE  IInv'
<1> USE DEF FinishAlone, Finish
<1>1. /\ OrdersInv' /\ OneOpenOrderPerExecutor'
      /\ \A j \in Orders \ {i} : orders'[j] = orders[j]
      /\ orders'[i].status = new.status
      /\ orders'[i].assignee = orders[i].assignee
      /\ orders'[i].number = orders[i].number
      /\ orders'[i].version = new.version
      /\ \/ new.version = orders[i].version /\ new.events = {}
         \/ /\ new.version = orders[i].version + 1
            /\ new.events = {orders[i].version + 1}
  BY OrderStepSaved
<1>2. tracking' = tracking /\ lastNumber' = lastNumber
        /\ outbox' = outbox \cup OrderEvents(i, new)
  BY DEF AddEvents
<1>3. SessionsInv' /\ OneSessionPerOrder' /\ lastNumber' \in Nat
  BY <1>2 DEF IInv, SessionsInv, OneSessionPerOrder
<1>4. outbox' \in SUBSET OutboxEvents
  BY <1>2, EventsTyped DEF IInv
<1>5. TrackingFollowsOrder'
  <2>1. \A t \in Sessions :
          tracking[t].status # "absent" => tracking[t].workOrder # i
    BY DEF IInv, TrackingFollowsOrder, SessionsInv, ActiveSessionsOf, TS!IsActive,
           TS!TrackingSessions, TS!TrackingStatus, TerminalStatuses
  <2>2. orders'[i].status # "en_route"
    BY <1>1 DEF TerminalStatuses
  <2> QED
    BY <1>1, <1>2, <2>1, <2>2 DEF IInv, TrackingFollowsOrder, ActiveSessionsOf
<1>6. OrderHistory'
  <2> DEFINE others == {}
  <2>1. /\ outbox' = outbox \cup (OrderEvents(i, new) \cup others)
        /\ \A x \in others : x.aggregate = "tracking_session"
    BY <1>2
  <2> HIDE DEF others
  <2>2. /\ orders \in [Orders -> WorkOrders] /\ outbox \in SUBSET OutboxEvents
        /\ OrderHistory
    BY DEF IInv, OrdersInv
  <2> QED
    BY <1>1, <2>1, <2>2, OrderHistoryKept
<1>7. SessionHistory'
  BY <1>2, EventsTyped DEF IInv, SessionHistory, TrackingEvent
<1>8. NumbersAreDense'
  <2>1. \A j \in Orders : /\ orders'[j].number = orders[j].number
                          /\ Exists(orders'[j]) <=> Exists(orders[j])
    BY <1>1 DEF OrderStep, Exists
  <2> QED
    BY <1>2, <2>1, NumbersKept DEF IInv
<1> QED
  BY <1>1, <1>3, <1>4, <1>5, <1>6, <1>7, <1>8 DEF IInv

\* Finishing an order with its open session keeps the invariant: the session
\* is the order's only one and takes its status.
LEMMA FinishTrackedInv ==
  ASSUME IInv, NEW i \in Orders, NEW s \in Sessions,
         NEW new \in WorkOrders, NEW session \in TS!TrackingSessions,
         FinishTracked(i, s, new, session)
  PROVE  IInv'
<1> USE DEF FinishTracked, Finish, SessionChange
<1>1. /\ OrdersInv' /\ OneOpenOrderPerExecutor'
      /\ \A j \in Orders \ {i} : orders'[j] = orders[j]
      /\ orders'[i].status = new.status
      /\ orders'[i].assignee = orders[i].assignee
      /\ orders'[i].number = orders[i].number
      /\ orders'[i].version = new.version
      /\ \/ new.version = orders[i].version /\ new.events = {}
         \/ /\ new.version = orders[i].version + 1
            /\ new.events = {orders[i].version + 1}
  BY OrderStepSaved
<1>2. tracking[s].workOrder = i /\ TS!IsActive(tracking[s])
  BY DEF ActiveSessionsOf
<1>3. new.status \in {"completed", "cancelled"} /\ session.status # "absent"
  BY DEF TerminalStatuses
<1>4. /\ SessionsInv'
      /\ \A t \in Sessions \ {s} : tracking'[t] = tracking[t]
      /\ tracking'[s].status = new.status /\ tracking'[s].workOrder = i
      /\ tracking'[s].executor = tracking[s].executor
      /\ ~tracking'[s].capability
      /\ tracking'[s].version = session.version
  BY <1>2, <1>3, SessionSaved DEF IInv
<1>5. lastNumber' = lastNumber /\ outbox' =
        outbox \cup (OrderEvents(i, new) \cup SessionEvents(s, session))
  BY DEF AddEvents
<1>6. outbox' \in SUBSET OutboxEvents /\ lastNumber' \in Nat
  BY <1>5, EventsTyped DEF IInv
<1>7. \A t \in Sessions \ {s} :
        tracking[t].status # "absent" => tracking[t].workOrder # i
  BY <1>2 DEF IInv, OneSessionPerOrder, TS!IsActive
<1>8. OneSessionPerOrder'
  BY <1>4, <1>7 DEF IInv, OneSessionPerOrder
<1>9. TrackingFollowsOrder'
  <2>1. ASSUME NEW t \in Sessions, tracking'[t].status # "absent"
        PROVE  /\ tracking'[t].workOrder \in Orders
               /\ tracking'[t].capability <=> TS!IsActive(tracking'[t])
               /\ tracking'[t].executor = orders'[tracking'[t].workOrder].assignee
               /\ IF TS!IsActive(tracking'[t])
                    THEN orders'[tracking'[t].workOrder].status
                           \in {"en_route", "in_progress"}
                    ELSE orders'[tracking'[t].workOrder].status = tracking'[t].status
    <3>1. CASE t = s
      BY <1>1, <1>2, <1>3, <1>4, <3>1 DEF TS!IsActive, IInv, TrackingFollowsOrder
    <3>2. CASE t # s
      BY <1>1, <1>4, <1>7, <2>1, <3>2 DEF IInv, TrackingFollowsOrder
    <3> QED
      BY <3>1, <3>2
  <2>2. ASSUME NEW j \in Orders, orders'[j].status = "en_route"
        PROVE  ActiveSessionsOf(j)' # {}
    <3>1. j # i
      BY <1>1, <1>3, <2>2
    <3>2. PICK t \in Sessions :
            TS!IsActive(tracking[t]) /\ tracking[t].workOrder = j
      BY <1>1, <2>2, <3>1 DEF IInv, TrackingFollowsOrder, ActiveSessionsOf
    <3>3. t \in ActiveSessionsOf(j)'
      BY <1>2, <1>4, <3>1, <3>2 DEF ActiveSessionsOf, TS!IsActive
    <3> QED
      BY <3>3
  <2> QED
    BY <2>1, <2>2 DEF TrackingFollowsOrder
<1>10. OrderHistory'
  <2>1. /\ orders \in [Orders -> WorkOrders] /\ outbox \in SUBSET OutboxEvents
        /\ OrderHistory
        /\ \A x \in SessionEvents(s, session) : x.aggregate = "tracking_session"
    BY EventsTyped DEF IInv, OrdersInv
  <2> QED
    BY <1>1, <1>5, <2>1, OrderHistoryKept
<1>11. SessionHistory'
  <2>1. /\ tracking \in [Sessions -> TS!TrackingSessions]
        /\ outbox \in SUBSET OutboxEvents /\ SessionHistory
        /\ \A x \in OrderEvents(i, new) : x.aggregate = "work_order"
    BY EventsTyped DEF IInv, SessionsInv
  <2> QED
    BY <1>4, <1>5, <2>1, SessionHistoryKept
<1>12. NumbersAreDense'
  <2>1. \A j \in Orders : /\ orders'[j].number = orders[j].number
                          /\ Exists(orders'[j]) <=> Exists(orders[j])
    BY <1>1 DEF Exists, OrderStep
  <2> QED
    BY <1>5, <2>1, NumbersKept DEF IInv
<1> QED
  BY <1>1, <1>4, <1>6, <1>8, <1>9, <1>10, <1>11, <1>12 DEF IInv

-----------------------------------------------------------------------------
(* The theorems.                                                           *)

\* The invariant holds of the empty tables.
LEMMA InitInv == Init => IInv
<1> SUFFICES ASSUME Init PROVE IInv
  OBVIOUS
<1>1. NoOrder \in WorkOrders /\ OrderOK(NoOrder)
  BY DEF NoOrder, WorkOrders, OrderOK, ActiveStatuses
<1>2. TS!NoSession \in TS!TrackingSessions
  BY DEF TS!NoSession, TS!TrackingSessions
<1>3. OrdersInv /\ OneOpenOrderPerExecutor
  BY <1>1 DEF Init, OrdersInv, NoOrder, OneOpenOrderPerExecutor
<1>4. SessionsInv /\ OneSessionPerOrder
  BY <1>2 DEF Init, SessionsInv, TS!NoSession, OneSessionPerOrder
<1>5. TrackingFollowsOrder
  BY DEF Init, TrackingFollowsOrder, NoOrder, TS!NoSession
<1>6. OrderHistory /\ SessionHistory
  BY DEF Init, OrderHistory, SessionHistory, NoOrder, TS!NoSession
<1>7. NumbersAreDense
  BY DEF Init, NumbersAreDense, NoOrder, Exists
<1> QED
  BY <1>3, <1>4, <1>5, <1>6, <1>7 DEF Init, IInv

\* Every step of the specification keeps the invariant.
LEMMA StepInv == IInv /\ [Next]_vars => IInv'
<1> SUFFICES ASSUME IInv, [Next]_vars PROVE IInv'
  OBVIOUS
<1>1. CASE UNCHANGED vars
  BY <1>1 DEF vars, IInv, OrdersInv, SessionsInv, OneOpenOrderPerExecutor,
       TrackingFollowsOrder, ActiveSessionsOf, OneSessionPerOrder,
       OrderHistory, SessionHistory, NumbersAreDense
<1>2. CASE Next
  BY <1>2, NextKind, CreationInv, OrderChangeInv, DepartureInv, LocationInv,
     FinishAloneInv, FinishTrackedInv DEF KnownStep
<1> QED
  BY <1>1, <1>2

\* The inductive invariant holds throughout.
THEOREM Invariance == Spec => []IInv
BY InitInv, StepInv, PTL DEF Spec

\* Type correctness.
THEOREM TypeCorrect == Spec => []TypeOK
<1>1. IInv => TypeOK
  BY DEF IInv, OrdersInv, SessionsInv, TypeOK
<1> QED
  BY <1>1, Invariance, PTL

\* The assignee of an order agrees with its status.
THEOREM AssigneeFollows == Spec => []AssigneeFollowsStatus
<1>1. IInv => AssigneeFollowsStatus
  BY DEF IInv, OrdersInv, OrderOK, AssigneeFollowsStatus
<1> QED
  BY <1>1, Invariance, PTL

\* No executor ever holds two orders that are not finished.
THEOREM Exclusive == Spec => []OneOpenOrderPerExecutor
<1>1. IInv => OneOpenOrderPerExecutor
  BY DEF IInv
<1> QED
  BY <1>1, Invariance, PTL

\* No interest stays open on an assigned order, and a selection is the
\* assignee's.
THEOREM Resolved == Spec => []ResponsesResolved
<1>1. IInv => ResponsesResolved
  BY DEF IInv, OrdersInv, OrderOK, ResponsesResolved
<1> QED
  BY <1>1, Invariance, PTL

\* A session is open, with its tokens, just while its order is under way.
THEOREM TrackingFollows == Spec => []TrackingFollowsOrder
<1>1. IInv => TrackingFollowsOrder
  BY DEF IInv
<1> QED
  BY <1>1, Invariance, PTL

\* An order has one tracking session in its whole life.
THEOREM TrackedOnce == Spec => []OneSessionPerOrder
<1>1. IInv => OneSessionPerOrder
  BY DEF IInv
<1> QED
  BY <1>1, Invariance, PTL

\* The outbox is the gap-free history of every aggregate.
THEOREM History == Spec => []EventsMatchVersions
<1>1. IInv => EventsMatchVersions
  BY DEF IInv, OrderHistory, SessionHistory, EventsMatchVersions, OutboxEvents
<1> QED
  BY <1>1, Invariance, PTL

\* The public numbers are allocated without gap or repetition.
THEOREM Numbers == Spec => []NumbersAreDense
<1>1. IInv => NumbersAreDense
  BY DEF IInv
<1> QED
  BY <1>1, Invariance, PTL

\* No step changes a finished order or a session of it.
LEMMA FinishedStep ==
  ASSUME IInv, [Next]_vars, NEW i \in Orders, IsTerminal(orders[i])
  PROVE  /\ orders'[i] = orders[i]
         /\ \A s \in Sessions :
              tracking[s].workOrder = i => tracking'[s] = tracking[s]
<1>1. CASE UNCHANGED vars
  BY <1>1 DEF vars
<1>2. CASE Next
  <2>0. KnownStep
    BY <1>2, NextKind
  <2>1. ASSUME NEW j \in Orders, NEW new \in WorkOrders, Creation(j, new)
        PROVE  orders'[i] = orders[i] /\ tracking' = tracking
    <3>1. j # i
      BY <2>1 DEF Creation, Exists, TerminalStatuses
    <3> QED
      BY <2>1, <3>1 DEF Creation, SaveOrder, IInv, OrdersInv
  <2>2. ASSUME NEW j \in Orders, NEW new \in WorkOrders, OrderChange(j, new)
        PROVE  orders'[i] = orders[i] /\ tracking' = tracking
    BY <2>2, OrderStepSaved DEF OrderChange
  <2>3. ASSUME NEW j \in Orders, NEW new \in WorkOrders, FinishAlone(j, new)
        PROVE  orders'[i] = orders[i] /\ tracking' = tracking
    BY <2>3, OrderStepSaved DEF FinishAlone, Finish
  <2>4. ASSUME NEW j \in Orders, NEW s \in Sessions, NEW new \in WorkOrders,
               NEW session \in TS!TrackingSessions,
               \/ Departure(j, s, new, session)
               \/ FinishTracked(j, s, new, session)
        PROVE  /\ orders'[i] = orders[i]
               /\ tracking[s].workOrder # i
               /\ \A t \in Sessions \ {s} : tracking'[t] = tracking[t]
    <3>1. orders'[i] = orders[i] /\ j # i
      BY <2>4, OrderStepSaved DEF Departure, FinishTracked, Finish, TerminalStatuses
    <3>2. tracking[s].workOrder # i
      BY <2>4, <3>1, KeysAssumption DEF Departure, FinishTracked, ActiveSessionsOf,
         IInv, SessionsInv, TS!NoSession
    <3>3. \A t \in Sessions \ {s} : tracking'[t] = tracking[t]
      BY <2>4 DEF Departure, FinishTracked, SaveSession, IInv, SessionsInv
    <3> QED
      BY <3>1, <3>2, <3>3
  <2>5. ASSUME NEW s \in Sessions, NEW session \in TS!TrackingSessions,
               Location(s, session)
        PROVE  /\ orders' = orders
               /\ tracking[s].workOrder # i
               /\ \A t \in Sessions \ {s} : tracking'[t] = tracking[t]
    <3>1. tracking[s].workOrder # i
      BY <2>5 DEF Location, SessionChange, IInv, TrackingFollowsOrder,
         TS!IsActive, TerminalStatuses
    <3> QED
      BY <2>5, <3>1 DEF Location, SaveSession, IInv, SessionsInv
  <2> QED
    BY <2>0, <2>1, <2>2, <2>3, <2>4, <2>5 DEF KnownStep
<1> QED
  BY <1>1, <1>2

\* No command changes a finished order or its sessions.
THEOREM FinishedStay == Spec => FinishedOrdersStay
<1>1. IInv /\ [Next]_vars =>
        \A i \in Orders :
          IsTerminal(orders[i]) =>
            /\ orders'[i] = orders[i]
            /\ \A s \in Sessions :
                 tracking[s].workOrder = i => tracking'[s] = tracking[s]
  BY FinishedStep
<1> QED
  BY <1>1, Invariance, PTL DEF Spec, FinishedOrdersStay

\* No step takes an order from its executor but a rejection before acceptance.
LEMMA HandoverStep ==
  ASSUME IInv, [Next]_vars, NEW i \in Orders, orders[i].assignee # NoActor,
         orders'[i].assignee # orders[i].assignee
  PROVE  orders[i].status = "assigned" /\ orders'[i].assignee = NoActor
<1>1. ~ UNCHANGED vars
  BY DEF vars
<1>2. KnownStep
  BY <1>1, NextKind
<1>3. ASSUME NEW j \in Orders, NEW new \in WorkOrders, Creation(j, new)
      PROVE  FALSE
  <2>1. j = i
    BY <1>3 DEF Creation, SaveOrder, IInv, OrdersInv
  <2> QED
    BY <1>3, <2>1 DEF Creation, IInv, OrdersInv, NoOrder
<1>4. ASSUME NEW j \in Orders, NEW new \in WorkOrders, Exists(orders[j]),
             OrderStep(orders[j], new), SaveOrder(j, new)
      PROVE  orders[i].status = "assigned" /\ orders'[i].assignee = NoActor
  <2>1. j = i /\ orders'[i].assignee = new.assignee
    BY <1>4, OrderStepSaved
  <2> QED
    BY <1>4, <2>1 DEF OrderStep
<1>5. ASSUME NEW j \in Orders, NEW new \in WorkOrders,
             \/ OrderChange(j, new) \/ FinishAlone(j, new)
             \/ \E s \in Sessions, session \in TS!TrackingSessions :
                  Departure(j, s, new, session) \/ FinishTracked(j, s, new, session)
      PROVE  Exists(orders[j]) /\ OrderStep(orders[j], new) /\ SaveOrder(j, new)
  BY <1>5 DEF OrderChange, Departure, FinishAlone, FinishTracked, Finish
<1>6. \A s \in Sessions, session \in TS!TrackingSessions : ~Location(s, session)
  BY DEF Location
<1> QED
  BY <1>2, <1>3, <1>4, <1>5, <1>6 DEF KnownStep

\* An order never passes from one executor to another in a step.
THEOREM NeverHandedOver == Spec => NoHandover
<1>1. IInv /\ [Next]_vars =>
        \A i \in Orders :
          (orders[i].assignee # NoActor /\ orders'[i].assignee # orders[i].assignee)
            => /\ orders[i].status = "assigned"
               /\ orders'[i].assignee = NoActor
  BY HandoverStep
<1> QED
  BY <1>1, Invariance, PTL DEF Spec, NoHandover
=============================================================================
