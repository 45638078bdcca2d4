------------------------------ MODULE Dispatch ------------------------------
(***************************************************************************)
(* The application service (application/async_service.py) over PostgreSQL  *)
(* (infrastructure/postgres.py): one action per command, one step per      *)
(* transaction.  A command locks the row of its aggregate (SELECT ... FOR  *)
(* UPDATE), changes the aggregate, saves it and adds its events to the     *)
(* outbox; a check that raises rolls everything back, which is no step.    *)
(* One organization is modelled: every key, index and counter of the       *)
(* schema is scoped by organization_id.                                    *)
(***************************************************************************)
EXTENDS WorkOrder, FiniteSets

CONSTANTS
  Orders,         \* work order ids
  Sessions,       \* tracking session ids
  MaxVersion,     \* bound on the version an order reaches
  MaxPoints       \* bound on the points of a tracking session

ASSUME BoundsAssumption == MaxVersion \in Nat /\ MaxPoints \in Nat
ASSUME KeysAssumption == NoActor \notin Orders

VARIABLES
  orders,         \* table work_orders, with pool_responses
  tracking,       \* table tracking_sessions
  outbox,         \* every event ever added to outbox_events
  lastNumber      \* organization_order_counters.last_value

vars == <<orders, tracking, outbox, lastNumber>>

TS == INSTANCE TrackingSession
        WITH OrderIds <- Orders, SessionExecutors <- Executors,
             Nothing <- NoActor

\* Defect: the predicate of the index forgets a status.
ActiveStatusesButEnRoute == {"assigned", "accepted", "in_progress"}

ActiveStatuses == {"assigned", "accepted", "en_route", "in_progress"}
OutboxEvents ==
  [aggregate : {"work_order"}, id : Orders, version : Nat] \cup
  [aggregate : {"tracking_session"}, id : Sessions, version : Nat]

Exists(order) == order.status # "absent"
Actors == Coordinators \cup {NoActor}

Init ==
  /\ orders = [i \in Orders |-> NoOrder]
  /\ tracking = [s \in Sessions |-> TS!NoSession]
  /\ outbox = {}
  /\ lastNumber = 0

-----------------------------------------------------------------------------
(* The repositories.                                                       *)

\* uq_executor_one_active_order: a row that enters the partial index finds
\* no other row of its assignee there.
AssigneeIsFree(i, new) ==
  (new.assignee # NoActor /\ new.status \in ActiveStatuses) =>
    \A j \in Orders \ {i} :
      orders[j].status \in ActiveStatuses => orders[j].assignee # new.assignee

SaveOrder(i, new) ==
  /\ AssigneeIsFree(i, new)
  /\ orders' = [orders EXCEPT ![i] = Stored(new)]

WorkOrderEvent(i, v) == [aggregate |-> "work_order", id |-> i, version |-> v]
OrderEvents(i, new) == {WorkOrderEvent(i, v) : v \in new.events}

\* uq_tracking_one_active_per_order, as AssigneeIsFree.
OrderIsUntracked(s, new) ==
  TS!IsActive(new) =>
    \A t \in Sessions \ {s} :
      ~(TS!IsActive(tracking[t]) /\ tracking[t].workOrder = new.workOrder)

SaveSession(s, new) ==
  /\ OrderIsUntracked(s, new)
  /\ tracking' = [tracking EXCEPT ![s] = TS!Stored(new)]

\* Defect: the events of the session are not pulled.
NoSessionEvents(s, new) == {}

TrackingEvent(s, v) == [aggregate |-> "tracking_session", id |-> s, version |-> v]
SessionEvents(s, new) == {TrackingEvent(s, v) : v \in new.events}

\* The key (aggregate type, aggregate id, version) of outbox_events is unique.
AddEvents(events) ==
  /\ events \cap outbox = {}
  /\ outbox' = outbox \cup events

\* find_active_for_order
ActiveSessionsOf(i) ==
  {s \in Sessions : TS!IsActive(tracking[s]) /\ tracking[s].workOrder = i}

-----------------------------------------------------------------------------
(* The commands.                                                           *)

\* Defect: the number is allocated outside the transaction, a taken id burns it.
CreateOrderBurningNumbers(i, requirements) ==
  /\ lastNumber < MaxVersion
  /\ lastNumber' = lastNumber + 1
  /\ IF Exists(orders[i])
       THEN UNCHANGED <<orders, outbox>>
       ELSE \E new \in Create(lastNumber + 1, requirements) :
              SaveOrder(i, new) /\ AddEvents(OrderEvents(i, new))
  /\ UNCHANGED tracking

\* An id that is taken leaves everything as it was: the counter goes back
\* with the transaction, create_order_once returns the stored order.
CreateOrder(i, requirements) ==
  /\ ~Exists(orders[i])
  /\ 0 < MaxVersion
  /\ lastNumber' = lastNumber + 1
  /\ \E new \in Create(lastNumber + 1, requirements) :
       SaveOrder(i, new) /\ AddEvents(OrderEvents(i, new))
  /\ UNCHANGED tracking

\* _change_order with the orders the method can leave behind.
ChangeOrder(i, results) ==
  /\ Exists(orders[i])
  /\ orders[i].version < MaxVersion
  /\ \E new \in results : SaveOrder(i, new) /\ AddEvents(OrderEvents(i, new))
  /\ UNCHANGED <<tracking, lastNumber>>

ClaimOrderCoordination(i, c) ==
  ChangeOrder(i, ClaimCoordination(orders[i], c))
PublishOrder(i, mode, actor) ==
  ChangeOrder(i, PublishPool(orders[i], mode, actor))
ExpressOrderInterest(i, e) == ChangeOrder(i, ExpressInterest(orders[i], e))
WithdrawOrderInterest(i, e) == ChangeOrder(i, WithdrawInterest(orders[i], e))
ClaimOrderFirst(i, e) == ChangeOrder(i, ClaimFirst(orders[i], e))
AssignOrder(i, e, actor) == ChangeOrder(i, Assign(orders[i], e, actor))
AcceptOrder(i, e) == ChangeOrder(i, Accept(orders[i], e))
RejectOrder(i, e) == ChangeOrder(i, RejectAssignment(orders[i], e))
StartOrderWork(i, e) == ChangeOrder(i, StartWork(orders[i], e))

StartOrderTravel(i, e, s) ==
  /\ Exists(orders[i])
  /\ orders[i].version < MaxVersion
  /\ tracking[s].status = "absent"
  /\ \E new \in StartTravel(orders[i], e), session \in TS!Start(i, e) :
       /\ SaveOrder(i, new)
       /\ SaveSession(s, session)
       /\ AddEvents(OrderEvents(i, new) \cup SessionEvents(s, session))
  /\ UNCHANGED lastNumber

\* A source event recorded before changes nothing and is no step.
RecordLocation(s, e) ==
  /\ tracking[s].status # "absent"
  /\ tracking[s].executor = e
  /\ tracking[s].pointCount < MaxPoints
  /\ \E new \in TS!AddPoint(tracking[s]) :
       SaveSession(s, new) /\ AddEvents(SessionEvents(s, new))
  /\ UNCHANGED <<orders, lastNumber>>

\* complete_order and cancel_order: the order reaches its last status and the
\* open tracking session, if there is one, ends with it.
FinishOrder(i, results, sessionStatus) ==
  /\ Exists(orders[i])
  /\ orders[i].version < MaxVersion
  /\ \E new \in results :
       /\ SaveOrder(i, new)
       /\ \/ /\ ActiveSessionsOf(i) = {}
             /\ AddEvents(OrderEvents(i, new))
             /\ UNCHANGED tracking
          \/ \E s \in ActiveSessionsOf(i) :
             \E session \in TS!End(tracking[s], sessionStatus) :
               /\ SaveSession(s, session)
               /\ AddEvents(OrderEvents(i, new) \cup SessionEvents(s, session))
  /\ UNCHANGED lastNumber

CompleteOrder(i, e, report) ==
  FinishOrder(i, Complete(orders[i], e, report), "completed")
CancelOrder(i, actor) == FinishOrder(i, Cancel(orders[i], actor), "cancelled")

-----------------------------------------------------------------------------

ExecutorStep(i, e) ==
  \/ ExpressOrderInterest(i, e)
  \/ WithdrawOrderInterest(i, e)
  \/ ClaimOrderFirst(i, e)
  \/ AcceptOrder(i, e)
  \/ RejectOrder(i, e)
  \/ StartOrderWork(i, e)
  \/ \E s \in Sessions : StartOrderTravel(i, e, s)
  \/ \E report \in SUBSET Evidence : CompleteOrder(i, e, report)

CoordinatorStep(i) ==
  \/ \E c \in Coordinators : ClaimOrderCoordination(i, c)
  \/ \E actor \in Actors :
       \/ \E mode \in PoolMode : PublishOrder(i, mode, actor)
       \/ \E e \in Executors : AssignOrder(i, e, actor)
       \/ CancelOrder(i, actor)

Next ==
  \/ \E i \in Orders, requirements \in SUBSET Evidence :
       CreateOrder(i, requirements)
  \/ \E i \in Orders, e \in Executors : ExecutorStep(i, e)
  \/ \E i \in Orders : CoordinatorStep(i)
  \/ \E s \in Sessions, e \in Executors : RecordLocation(s, e)

Spec == Init /\ [][Next]_vars
-----------------------------------------------------------------------------
(* Properties.                                                             *)

\* Every table holds rows the code can read back (rows carry no unsaved
\* events) and every outbox event belongs to a known aggregate.
TypeOK ==
  /\ orders \in [Orders -> WorkOrders]
  /\ \A i \in Orders : orders[i].events = {}
  /\ tracking \in [Sessions -> TS!TrackingSessions]
  /\ \A s \in Sessions : tracking[s].events = {}
  /\ outbox \in SUBSET OutboxEvents
  /\ lastNumber \in Nat

\* An order past the pool has an executor, one before or in it has none.  A
\* rejection gives the executor back, a cancellation keeps him on the record
\* (reject_assignment, cancel).
AssigneeFollowsStatus ==
  \A i \in Orders :
    /\ orders[i].status \in {"absent", "submitted", "pool_open"} =>
         orders[i].assignee = NoActor
    /\ orders[i].status \in ActiveStatuses \cup {"completed"} =>
         orders[i].assignee \in Executors

\* An executor never holds two orders that are not finished, whatever mix of
\* assignments, first claims, rejections and cancellations led there: the
\* predicate of uq_executor_one_active_order covers every status in which an
\* order has an assignee and is not terminal.
OneOpenOrderPerExecutor ==
  \A i, j \in Orders :
    (/\ i # j
     /\ orders[i].assignee = orders[j].assignee
     /\ orders[i].assignee # NoActor) =>
      IsTerminal(orders[i]) \/ IsTerminal(orders[j])

\* When an order is assigned no interest is left open on it, and the response
\* that was selected is the assignee's (_resolve_curated_responses,
\* reject_assignment, claim_first).  A cancellation leaves interests open.
ResponsesResolved ==
  \A i \in Orders, e \in Executors :
    /\ orders[i].responses[e] = "interested" =>
         orders[i].status \in {"pool_open", "cancelled"}
    /\ orders[i].responses[e] = "selected" => orders[i].assignee = e

\* The tracking session follows its order: it is open, with its capability
\* tokens live, exactly while the order is travelled to or worked on, belongs
\* to the order's executor, and ends as the order ends; an order that is
\* en route has a session (start_travel, complete_order, cancel_order).
TrackingFollowsOrder ==
  /\ \A s \in Sessions :
       LET session == tracking[s] IN
       session.status # "absent" =>
         /\ session.workOrder \in Orders
         /\ session.capability <=> TS!IsActive(session)
         /\ session.executor = orders[session.workOrder].assignee
         /\ IF TS!IsActive(session)
              THEN orders[session.workOrder].status \in {"en_route", "in_progress"}
              ELSE orders[session.workOrder].status = session.status
  /\ \A i \in Orders :
       orders[i].status = "en_route" => ActiveSessionsOf(i) # {}

\* An order is tracked by one session in its whole life, so the index on open
\* sessions has nothing left to reject.
OneSessionPerOrder ==
  \A s, t \in Sessions :
    (s # t /\ tracking[s].status # "absent" /\ tracking[t].status # "absent") =>
      tracking[s].workOrder # tracking[t].workOrder

\* The outbox is the history of every aggregate: the versions its events
\* carry are 1, 2, ... up to the version of the stored row, none missing and
\* none ahead of it (pull_events and outbox.add in one transaction with save).
EventsMatchVersions ==
  /\ \A i \in Orders : \A v \in 1 .. orders[i].version :
       WorkOrderEvent(i, v) \in outbox
  /\ \A s \in Sessions : \A v \in 1 .. tracking[s].version :
       TrackingEvent(s, v) \in outbox
  /\ \A x \in outbox :
       x.version \in 1 .. (IF x.aggregate = "work_order"
                             THEN orders[x.id].version ELSE tracking[x.id].version)

\* The public numbers of the stored orders are 1 .. lastNumber, each used
\* once: no number is skipped or given to two orders (allocate_public_number).
NumbersAreDense ==
  /\ {orders[i].number : i \in {j \in Orders : Exists(orders[j])}} = 1 .. lastNumber
  /\ \A i, j \in Orders :
       (i # j /\ Exists(orders[i])) => orders[i].number # orders[j].number

\* A finished order is history: no later command of any actor changes it, its
\* sessions or their events.
FinishedOrdersStay ==
  [][\A i \in Orders :
       IsTerminal(orders[i]) =>
         /\ orders'[i] = orders[i]
         /\ \A s \in Sessions :
              tracking[s].workOrder = i => tracking'[s] = tracking[s]]_vars

\* An order never goes from one executor straight to another: it is given
\* back by a rejection first, and only before it was accepted.
NoHandover ==
  [][\A i \in Orders :
       (orders[i].assignee # NoActor /\ orders'[i].assignee # orders[i].assignee)
         => /\ orders[i].status = "assigned"
            /\ orders'[i].assignee = NoActor]_vars
=============================================================================
