------------------------------ MODULE WorkOrder ------------------------------
(***************************************************************************)
(* The WorkOrder aggregate of domain/work_order.py as a pure state         *)
(* machine.  Every method of the class is an operator that returns the set *)
(* of orders the call can leave behind: one order when the call returns,   *)
(* none when it raises (InvalidTransition, EvidenceMissing), so a caller   *)
(* that needs the change writes \E new \in Method(order, ...).             *)
(*                                                                         *)
(* An order carries the events it recorded since it was loaded, as the     *)
(* class does in _events; the repositories store it with none.             *)
(***************************************************************************)
EXTENDS Naturals

CONSTANTS
  Executors,      \* executor ids (masters)
  Coordinators,   \* ids of actors that may coordinate an order (operators)
  Evidence,       \* what a completion report may have to contain
  NoActor         \* None, for an id that is not set

ASSUME ActorsAssumption == NoActor \notin Executors \cup Coordinators

PoolMode == {"curated", "first_claim"}
PoolResponseStatus == {"interested", "selected", "rejected", "withdrawn"}
TerminalStatuses == {"completed", "cancelled"}
WorkOrderStatus ==
  {"submitted", "pool_open", "assigned", "accepted", "en_route", "in_progress"}
    \cup TerminalStatuses

\* "none" stands for an absent pool mode or an executor without a response;
\* "absent" is the status of an id under which no order was ever saved.
WorkOrders ==
  [status : WorkOrderStatus \cup {"absent"},
   poolMode : PoolMode \cup {"none"},
   assignee : Executors \cup {NoActor},
   coordinator : Coordinators \cup {NoActor},
   responses : [Executors -> PoolResponseStatus \cup {"none"}],
   requirements : SUBSET Evidence,
   report : SUBSET Evidence,
   number : Nat,
   version : Nat,
   events : SUBSET Nat]

NoOrder ==
  [status |-> "absent", poolMode |-> "none", assignee |-> NoActor,
   coordinator |-> NoActor, responses |-> [e \in Executors |-> "none"],
   requirements |-> {}, report |-> {}, number |-> 0, version |-> 0,
   events |-> {}]

-----------------------------------------------------------------------------

\* _record: the next version, and one event that carries it.
Record(order) ==
  [order EXCEPT !.version = @ + 1, !.events = @ \cup {order.version + 1}]

\* Defect: the pulled events are not cleared.
StoredWithEvents(order) == order

\* pull_events, as the repositories use it: the stored order has no events.
Stored(order) == [order EXCEPT !.events = {}]

\* The order a method leaves behind: none if one of its checks raised.
When(allowed, order) == IF allowed THEN {order} ELSE {}

IsTerminal(order) == order.status \in TerminalStatuses
CoordinatorMayAct(order, actor) == order.coordinator \in {NoActor, actor}
InPool(order, mode) == order.status = "pool_open" /\ order.poolMode = mode
Respond(order, executor, response) ==
  [order EXCEPT !.responses[executor] = response]

-----------------------------------------------------------------------------

Create(number, requirements) ==
  {Record([NoOrder EXCEPT !.status = "submitted", !.number = number,
                          !.requirements = requirements])}

ClaimCoordination(order, coordinator) ==
  IF order.coordinator = coordinator
    THEN When(~IsTerminal(order), order)
    ELSE When(~IsTerminal(order) /\ order.coordinator = NoActor,
              Record([order EXCEPT !.coordinator = coordinator]))

PublishPool(order, mode, actor) ==
  When(order.status = "submitted" /\ CoordinatorMayAct(order, actor),
       Record([order EXCEPT !.poolMode = mode, !.status = "pool_open"]))

ExpressInterest(order, executor) ==
  IF order.responses[executor] = "interested"
    THEN When(InPool(order, "curated"), order)
    ELSE When(InPool(order, "curated"),
              Record(Respond(order, executor, "interested")))

WithdrawInterest(order, executor) ==
  When(InPool(order, "curated") /\ order.responses[executor] = "interested",
       Record(Respond(order, executor, "withdrawn")))

ClaimFirst(order, executor) ==
  When(InPool(order, "first_claim"),
       Record(Respond([order EXCEPT !.assignee = executor, !.status = "assigned"],
                      executor, "selected")))

\* Defect: the executors that were not chosen are not answered.
ResolveChosenOnly(order, selected) ==
  [order EXCEPT !.responses =
     [e \in Executors |-> IF e = selected /\ @[e] = "interested"
                            THEN "selected" ELSE @[e]]]

\* _resolve_curated_responses: only open interests are decided.
ResolveCurated(order, selected) ==
  [order EXCEPT !.responses =
     [e \in Executors |-> IF @[e] # "interested" THEN @[e]
                          ELSE IF e = selected THEN "selected" ELSE "rejected"]]

\* Defect: an order that is assigned can be assigned to someone else.
AssignOver(order, executor, actor) ==
  When(order.status \in {"submitted", "pool_open", "assigned"}
         /\ CoordinatorMayAct(order, actor),
       Record([order EXCEPT !.assignee = executor, !.status = "assigned"]))

Assign(order, executor, actor) ==
  LET assigned == [order EXCEPT !.assignee = executor, !.status = "assigned"]
  IN  When(order.status \in {"submitted", "pool_open"}
             /\ CoordinatorMayAct(order, actor),
           Record(IF order.poolMode = "curated"
                    THEN ResolveCurated(assigned, executor) ELSE assigned))

\* Defect: an order can be accepted again.
AcceptAgain(order, executor) ==
  When(order.status \in {"assigned", "accepted"} /\ order.assignee = executor,
       Record([order EXCEPT !.status = "accepted"]))

Accept(order, executor) ==
  When(order.status = "assigned" /\ order.assignee = executor,
       Record([order EXCEPT !.status = "accepted"]))

RejectAssignment(order, executor) ==
  LET returned == [order EXCEPT
                     !.assignee = NoActor,
                     !.status = IF order.poolMode # "none"
                                  THEN "pool_open" ELSE "submitted"]
  IN  When(order.status = "assigned" /\ order.assignee = executor,
           Record(IF order.responses[executor] # "none"
                    THEN Respond(returned, executor, "withdrawn")
                    ELSE returned))

\* Defect: the status is not checked.
StartTravelAnyTime(order, executor) ==
  When(order.assignee = executor, Record([order EXCEPT !.status = "en_route"]))

StartTravel(order, executor) ==
  When(order.assignee = executor /\ order.status = "accepted",
       Record([order EXCEPT !.status = "en_route"]))

StartWork(order, executor) ==
  When(order.assignee = executor /\ order.status \in {"accepted", "en_route"},
       Record([order EXCEPT !.status = "in_progress"]))

\* _validate_report raises EvidenceMissing unless the report has all that the
\* order requires.
Complete(order, executor, report) ==
  When(/\ order.assignee = executor
       /\ order.status = "in_progress"
       /\ order.requirements \subseteq report,
       Record([order EXCEPT !.report = report, !.status = "completed"]))

\* Defect: the order may be finished already.
CancelAnyTime(order, actor) ==
  When(CoordinatorMayAct(order, actor),
       Record([order EXCEPT !.status = "cancelled"]))

\* The assignee and the pool responses stay as they are.
Cancel(order, actor) ==
  When(~IsTerminal(order) /\ CoordinatorMayAct(order, actor),
       Record([order EXCEPT !.status = "cancelled"]))
=============================================================================
