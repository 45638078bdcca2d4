-------------------------- MODULE Callbacks_proofs --------------------------
(***************************************************************************)
(* Theorems about Callbacks, for any number of orders, buttons, presses,   *)
(* workers and faults: the composition implements Dispatch, so all that is *)
(* proved of Dispatch holds of it; a button works for one press; a press   *)
(* that moves an order forward does so once; what an executor is told      *)
(* holds.                                                                  *)
(***************************************************************************)
EXTENDS Callbacks, Dispatch_proofs

-----------------------------------------------------------------------------
(* The inductive invariant, in four layers.                                *)

\* Layer 1: rows and workers.  A button names an order and goes to those who
\* may press it; an event and a worker refer to what exists.
ButtonOK(c) ==
  /\ c \in CallbackActions
  /\ c.action = "none" => c = NoCallback
  /\ c.action # "none" =>
       /\ c.order \in Orders
       /\ c.to \subseteq (IF c.action \in {"pool_publish", "assign"}
                            THEN Coordinators ELSE Executors)
  /\ c.action = "assign" => c.executor \in Executors

NoticeOK(n) ==
  /\ n \in Notices
  /\ n.name \notin TerminalStatuses
  /\ n.name = "interest" => n.executor \in Executors

PressOK(row) ==
  /\ row \in InboxEvents
  /\ row.status = "absent" => row = NoEvent
  /\ row.status # "absent" =>
       /\ row.token \in Tokens
       /\ row.actor \in callbacks[row.token].to

Busy(w) == workers[w].step # "idle"

WorkerOK(w) ==
  /\ workers[w] \in WorkerStates
  /\ Busy(w) => /\ PressOf(w) \in Presses
                /\ inbox[PressOf(w)].status # "absent"

RowsOK ==
  /\ \A n \in notices : NoticeOK(n)
  /\ callbacks \in [Tokens -> CallbackActions]
  /\ \A t \in Tokens : ButtonOK(callbacks[t])
  /\ inbox \in [Presses -> InboxEvents]
  /\ \A p \in Presses : PressOK(inbox[p])
  /\ workers \in [Workers -> WorkerStates]
  /\ \A w \in Workers : WorkerOK(w)
  /\ effects \in [Presses -> Nat]
  /\ replies \in [Presses -> Verdicts]
  /\ faults \in 0 .. MaxFaults

Base == IInv /\ RowsOK

\* Layer 2: whoever is past resolve holds the claim, and so does every press
\* that had an effect.  A claim is held by an event that was received, and only
\* a claim is completed.
ButtonOf(p) == callbacks[inbox[p].token]

ClaimsHeld ==
  /\ \A w \in Workers :
       workers[w].step \in {"look", "execute", "recheck", "complete"} =>
         CallbackOf(w).claim = PressOf(w)
  /\ \A w \in Workers :
       workers[w].step = "look" => CallbackOf(w).action = "start_travel"
  /\ \A t \in Tokens :
       /\ callbacks[t].claim # NoPress => inbox[callbacks[t].claim].status # "absent"
       /\ callbacks[t].completed => callbacks[t].claim # NoPress
  /\ \A p \in Presses :
       effects[p] > 0 => inbox[p].status # "absent" /\ ButtonOf(p).claim = p

\* Layer 3: how far an order is.  No step leads back from these sets of
\* statuses, and an order that has a pool mode is not submitted again.
SinceAccepted == {"accepted", "en_route", "in_progress"} \cup TerminalStatuses
SinceTravel == {"en_route", "in_progress"} \cup TerminalStatuses
SinceWork == {"in_progress"} \cup TerminalStatuses

Beyond(order, action) ==
  \/ /\ action = "pool_publish"
     /\ order.poolMode # "none" /\ order.status \notin {"absent", "submitted"}
  \/ action = "accept" /\ order.status \in SinceAccepted
  \/ action = "start_travel" /\ order.status \in SinceTravel
  \/ action = "start_work" /\ order.status \in SinceWork
  \/ action = "submit_report" /\ order.status = "completed"

Reached(c, actor) ==
  /\ c.action \in {"accept", "start_work"} =>
       /\ orders[c.order].assignee = actor
       /\ Beyond(orders[c.order], c.action)
  /\ c.action = "submit_report" => Beyond(orders[c.order], c.action)

Progress ==
  /\ \A p \in Presses :
       /\ effects[p] > 0 /\ ButtonOf(p).action \in ForwardActions =>
            effects[p] = 1 /\ Beyond(orders[ButtonOf(p).order], ButtonOf(p).action)
       /\ replies[p] = "done" =>
            inbox[p].status # "absent" /\ Reached(ButtonOf(p), inbox[p].actor)
  /\ \A w \in Workers :
       workers[w].step \in {"complete", "reply"} /\ workers[w].verdict = "done" =>
         Reached(CallbackOf(w), ActorOf(w))

\* Layer 4: while nothing went wrong a press is handled once, by one worker.
Untouched(p) ==
  /\ effects[p] = 0 /\ replies[p] = "none"
  /\ ~(ButtonOf(p).claim = p /\ ButtonOf(p).completed)

Once(w) ==
  LET p == PressOf(w) IN
  /\ inbox[p].status = "processing" /\ workers[w].attempt = inbox[p].attempts
  /\ \A v \in Workers : Busy(v) /\ PressOf(v) = p => v = w
  /\ workers[w].step \in {"resolve", "look", "execute", "recheck", "fail"} => Untouched(p)
  /\ workers[w].step = "complete" => ~ButtonOf(p).completed
  /\ workers[w].step \in {"complete", "reply"} =>
       /\ replies[p] = "none"
       /\ workers[w].verdict = "refused" => effects[p] = 0

Settled(p) ==
  /\ inbox[p].status = "processing" => \E w \in Workers : Busy(w) /\ PressOf(w) = p
  /\ inbox[p].status = "pending" => Untouched(p)
  /\ inbox[p].status = "absent" => effects[p] = 0 /\ replies[p] = "none"
  /\ replies[p] = "refused" => effects[p] = 0

HandledOnce ==
  /\ \A w \in Workers : Busy(w) => Once(w)
  /\ \A p \in Presses : Settled(p)

CallbackInv == Base /\ ClaimsHeld /\ Progress /\ (faults = 0 => HandledOnce)

-----------------------------------------------------------------------------
(* Where each method takes an order.                                       *)

\* What no method undoes.
Moved(order, new) ==
  /\ Exists(order) => Exists(new)
  /\ \A action \in ForwardActions : Beyond(order, action) => Beyond(new, action)
  /\ order.status \in SinceAccepted => new.assignee = order.assignee

USE DEF Exists, When, Respond, InPool, IsTerminal, CoordinatorMayAct

\* The three fields that Moved speaks of decide it.
LEMMA MovedByFields ==
  ASSUME NEW order \in WorkOrders, NEW changed \in WorkOrders, NEW new,
         new \in {changed, Record(changed)}, Moved(order, changed)
  PROVE  /\ new \in WorkOrders /\ Moved(order, new)
         /\ new.status = changed.status /\ new.poolMode = changed.poolMode
         /\ new.assignee = changed.assignee
<1>1. /\ new \in WorkOrders
      /\ new.status = changed.status /\ new.poolMode = changed.poolMode
      /\ new.assignee = changed.assignee
  BY RecordFacts
<1>2. \A action \in ForwardActions : Beyond(changed, action) => Beyond(new, action)
  BY <1>1 DEF Beyond, ForwardActions
<1> QED BY <1>1, <1>2 DEF Moved

\* claim_coordination changes the coordinator only.
LEMMA ClaimCoordinationMoves ==
  ASSUME NEW order \in WorkOrders, NEW c \in Coordinators,
         NEW new \in ClaimCoordination(order, c)
  PROVE  new \in WorkOrders /\ Moved(order, new)
<1> DEFINE changed == [order EXCEPT !.coordinator = c]
<1>1. new \in {order, Record(order), changed, Record(changed)}
  BY DEF ClaimCoordination
<1>2. changed \in WorkOrders /\ changed.status = order.status
      /\ changed.poolMode = order.poolMode /\ changed.assignee = order.assignee
  BY DEF WorkOrders
<1> HIDE DEF changed
<1>3. Moved(order, order) /\ Moved(order, changed)
  BY <1>2 DEF Moved, Beyond, ForwardActions
<1> QED BY <1>1, <1>2, <1>3, MovedByFields

\* publish_pool takes the order beyond its button, where it was not before.
LEMMA PublishPoolMoves ==
  ASSUME NEW order \in WorkOrders, NEW mode \in PoolMode, NEW actor,
         NEW new \in PublishPool(order, mode, actor)
  PROVE  /\ new \in WorkOrders /\ Moved(order, new)
         /\ ~Beyond(order, "pool_publish") /\ Beyond(new, "pool_publish")
<1> DEFINE changed == [order EXCEPT !.poolMode = mode, !.status = "pool_open"]
<1>1. order.status = "submitted" /\ new \in {changed, Record(changed)}
  BY DEF PublishPool
<1>2. changed \in WorkOrders /\ changed.status = "pool_open"
      /\ changed.poolMode = mode /\ mode # "none"
  BY DEF WorkOrders, WorkOrderStatus, PoolMode
<1> HIDE DEF changed
<1>3. Moved(order, changed)
  BY <1>1, <1>2 DEF Moved, Beyond, ForwardActions, SinceAccepted, SinceTravel, SinceWork,
                    TerminalStatuses
<1>4. /\ new \in WorkOrders /\ Moved(order, new)
      /\ new.status = changed.status /\ new.poolMode = changed.poolMode
  BY <1>1, <1>2, <1>3, MovedByFields
<1> QED BY <1>1, <1>2, <1>4 DEF Beyond

\* Interests change a response only.
LEMMA InterestMoves ==
  ASSUME NEW order \in WorkOrders, NEW e \in Executors,
         NEW new \in ExpressInterest(order, e) \cup WithdrawInterest(order, e)
  PROVE  new \in WorkOrders /\ Moved(order, new)
<1> DEFINE asked == [order EXCEPT !.responses[e] = "interested"]
           taken == [order EXCEPT !.responses[e] = "withdrawn"]
<1>1. new \in {order, Record(order)} \cup {asked, Record(asked)} \cup {taken, Record(taken)}
  BY DEF ExpressInterest, WithdrawInterest
<1>2. /\ asked \in WorkOrders /\ asked.status = order.status
      /\ asked.poolMode = order.poolMode /\ asked.assignee = order.assignee
      /\ taken \in WorkOrders /\ taken.status = order.status
      /\ taken.poolMode = order.poolMode /\ taken.assignee = order.assignee
  BY DEF WorkOrders, PoolResponseStatus
<1> HIDE DEF asked, taken
<1>3. Moved(order, order) /\ Moved(order, asked) /\ Moved(order, taken)
  BY <1>2 DEF Moved, Beyond, ForwardActions
<1> QED BY <1>1, <1>2, <1>3, MovedByFields

\* claim_first assigns an order that was in the pool.
LEMMA ClaimFirstMoves ==
  ASSUME NEW order \in WorkOrders, NEW e \in Executors,
         NEW new \in ClaimFirst(order, e)
  PROVE  new \in WorkOrders /\ Moved(order, new)
<1> DEFINE assigned == [order EXCEPT !.assignee = e, !.status = "assigned"]
           changed == [assigned EXCEPT !.responses[e] = "selected"]
<1>1. /\ order.status = "pool_open" /\ order.poolMode = "first_claim"
      /\ new \in {changed, Record(changed)}
  BY DEF ClaimFirst
<1>2. assigned \in WorkOrders /\ assigned.status = "assigned"
      /\ assigned.poolMode = order.poolMode
  BY DEF WorkOrders, WorkOrderStatus
<1> HIDE DEF assigned
<1>3. changed \in WorkOrders /\ changed.status = "assigned"
      /\ changed.poolMode = order.poolMode
  BY <1>2 DEF WorkOrders, PoolResponseStatus
<1> HIDE DEF changed
<1>4. Moved(order, changed)
  BY <1>1, <1>3 DEF Moved, Beyond, ForwardActions, SinceAccepted, SinceTravel, SinceWork,
                    TerminalStatuses
<1> QED BY <1>1, <1>3, <1>4, MovedByFields

\* assign takes an order that was submitted or in the pool.
LEMMA AssignMoves ==
  ASSUME NEW order \in WorkOrders, NEW e \in Executors, NEW actor,
         NEW new \in Assign(order, e, actor)
  PROVE  new \in WorkOrders /\ Moved(order, new)
<1> DEFINE assigned == [order EXCEPT !.assignee = e, !.status = "assigned"]
           resolved == ResolveCurated(assigned, e)
<1>1. /\ order.status \in {"submitted", "pool_open"}
      /\ new \in {assigned, Record(assigned)} \cup {resolved, Record(resolved)}
  BY DEF Assign
<1>2. assigned \in WorkOrders /\ assigned.status = "assigned"
      /\ assigned.poolMode = order.poolMode
  BY DEF WorkOrders, WorkOrderStatus
<1> HIDE DEF assigned
<1>3. resolved \in WorkOrders /\ resolved.status = "assigned"
      /\ resolved.poolMode = order.poolMode
  BY <1>2 DEF ResolveCurated, WorkOrders, PoolResponseStatus
<1> HIDE DEF resolved
<1>4. Moved(order, assigned) /\ Moved(order, resolved)
  BY <1>1, <1>2, <1>3 DEF Moved, Beyond, ForwardActions, SinceAccepted, SinceTravel,
                          SinceWork, TerminalStatuses
<1> QED BY <1>1, <1>2, <1>3, <1>4, MovedByFields

\* reject_assignment gives back an assigned order, to the pool if it had one.
LEMMA RejectAssignmentMoves ==
  ASSUME NEW order \in WorkOrders, NEW e \in Executors,
         NEW new \in RejectAssignment(order, e)
  PROVE  new \in WorkOrders /\ Moved(order, new)
<1> DEFINE status == IF order.poolMode # "none" THEN "pool_open" ELSE "submitted"
           returned == [order EXCEPT !.assignee = NoActor, !.status = status]
           withdrawn == [returned EXCEPT !.responses[e] = "withdrawn"]
<1>1. /\ order.status = "assigned"
      /\ new \in {returned, Record(returned)} \cup {withdrawn, Record(withdrawn)}
  BY DEF RejectAssignment
<1>2. /\ status \in {"pool_open", "submitted"}
      /\ order.poolMode # "none" => status = "pool_open"
  OBVIOUS
<1> HIDE DEF status
<1>3. returned \in WorkOrders /\ returned.status = status
      /\ returned.poolMode = order.poolMode
  BY <1>2 DEF WorkOrders, WorkOrderStatus
<1> HIDE DEF returned
<1>4. withdrawn \in WorkOrders /\ withdrawn.status = status
      /\ withdrawn.poolMode = order.poolMode
  BY <1>3 DEF WorkOrders, PoolResponseStatus
<1> HIDE DEF withdrawn
<1>5. Moved(order, returned) /\ Moved(order, withdrawn)
  BY <1>1, <1>2, <1>3, <1>4 DEF Moved, Beyond, ForwardActions, SinceAccepted, SinceTravel,
                                SinceWork, TerminalStatuses
<1> QED BY <1>1, <1>3, <1>4, <1>5, MovedByFields

\* The methods of the assignee that take the order one status further.
LEMMA ForwardMoves ==
  ASSUME NEW order \in WorkOrders, NEW e \in Executors, NEW report \in SUBSET Evidence,
         NEW action \in ForwardActions \ {"pool_publish"},
         NEW new,
         \/ action = "accept" /\ new \in Accept(order, e)
         \/ action = "start_travel" /\ new \in StartTravel(order, e)
         \/ action = "start_work" /\ new \in StartWork(order, e)
         \/ action = "submit_report" /\ new \in Complete(order, e, report)
  PROVE  /\ new \in WorkOrders /\ Moved(order, new)
         /\ ~Beyond(order, action) /\ Beyond(new, action)
         /\ order.assignee = e /\ new.assignee = e
<1> DEFINE To(status) == [order EXCEPT !.status = status]
           reported == [order EXCEPT !.report = report, !.status = "completed"]
           after == CASE action = "accept" -> To("accepted")
                      [] action = "start_travel" -> To("en_route")
                      [] action = "start_work" -> To("in_progress")
                      [] action = "submit_report" -> reported
<1>1. /\ order.assignee = e /\ new \in {after, Record(after)}
      /\ action = "accept" => order.status = "assigned"
      /\ action = "start_travel" => order.status = "accepted"
      /\ action = "start_work" => order.status \in {"accepted", "en_route"}
      /\ action = "submit_report" => order.status = "in_progress"
  BY DEF ForwardActions, Accept, StartTravel, StartWork, Complete
<1>2. /\ after \in WorkOrders /\ after.poolMode = order.poolMode
      /\ after.assignee = order.assignee
      /\ action = "accept" => after.status = "accepted"
      /\ action = "start_travel" => after.status = "en_route"
      /\ action = "start_work" => after.status = "in_progress"
      /\ action = "submit_report" => after.status = "completed"
  BY DEF ForwardActions, WorkOrders, WorkOrderStatus, TerminalStatuses
<1> HIDE DEF after
<1>3. Moved(order, after)
  BY <1>1, <1>2 DEF Moved, Beyond, ForwardActions, SinceAccepted, SinceTravel,
                    SinceWork, TerminalStatuses
<1>4. /\ new \in WorkOrders /\ Moved(order, new)
      /\ new.status = after.status /\ new.assignee = order.assignee
  BY <1>1, <1>2, <1>3, MovedByFields
<1>5. ~Beyond(order, action) /\ Beyond(new, action)
  BY <1>1, <1>2, <1>4 DEF Beyond, ForwardActions, SinceAccepted, SinceTravel,
                          SinceWork, TerminalStatuses
<1> QED BY <1>1, <1>4, <1>5

\* cancel leaves the executor on the record and completes nothing.
LEMMA CancelMoves ==
  ASSUME NEW order \in WorkOrders, NEW actor, NEW new \in Cancel(order, actor)
  PROVE  new \in WorkOrders /\ Moved(order, new)
<1> DEFINE changed == [order EXCEPT !.status = "cancelled"]
<1>1. ~IsTerminal(order) /\ new \in {changed, Record(changed)}
  BY DEF Cancel
<1>2. changed \in WorkOrders /\ changed.status = "cancelled"
      /\ changed.poolMode = order.poolMode /\ changed.assignee = order.assignee
  BY DEF WorkOrders, WorkOrderStatus, TerminalStatuses
<1> HIDE DEF changed
<1>3. Moved(order, changed)
  BY <1>1, <1>2 DEF Moved, Beyond, ForwardActions, SinceAccepted, SinceTravel,
                    SinceWork, TerminalStatuses
<1> QED BY <1>1, <1>2, <1>3, MovedByFields

-----------------------------------------------------------------------------
(* Where a step of Dispatch takes the orders.                              *)

\* Saving an order that moved moves the table.
LEMMA SavedMoves ==
  ASSUME IInv, NEW i \in Orders, NEW new \in WorkOrders,
         Moved(orders[i], new), SaveOrder(i, new)
  PROVE  /\ \A j \in Orders : Moved(orders[j], orders'[j])
         /\ orders'[i].status = new.status /\ orders'[i].poolMode = new.poolMode
         /\ orders'[i].assignee = new.assignee
<1>1. /\ orders' = [orders EXCEPT ![i] = Stored(new)]
      /\ orders \in [Orders -> WorkOrders]
  BY DEF SaveOrder, IInv, OrdersInv
<1>2. /\ Stored(new).status = new.status /\ Stored(new).poolMode = new.poolMode
      /\ Stored(new).assignee = new.assignee
  BY StoredFacts
<1>3. /\ orders'[i] = Stored(new)
      /\ \A j \in Orders : j # i => orders'[j] = orders[j]
  BY <1>1
<1>4. Moved(orders[i], orders'[i])
  BY <1>2, <1>3 DEF Moved, Beyond, ForwardActions
<1>5. \A j \in Orders : Moved(orders[j], orders[j])
  BY DEF Moved
<1> QED BY <1>2, <1>3, <1>4, <1>5

\* A command over _change_order moves the table when its method moves the order.
LEMMA ChangeMoves ==
  ASSUME IInv, NEW i \in Orders, NEW results, ChangeOrder(i, results),
         \A new \in results : new \in WorkOrders /\ Moved(orders[i], new)
  PROVE  \A j \in Orders : Moved(orders[j], orders'[j])
<1>1. PICK new \in results : SaveOrder(i, new)
  BY DEF ChangeOrder
<1> QED BY <1>1, SavedMoves

\* So do complete_order and cancel_order.
LEMMA FinishMoves ==
  ASSUME IInv, NEW i \in Orders, NEW results, NEW status, FinishOrder(i, results, status),
         \A new \in results : new \in WorkOrders /\ Moved(orders[i], new)
  PROVE  \A j \in Orders : Moved(orders[j], orders'[j])
<1>1. PICK new \in results : SaveOrder(i, new)
  BY DEF FinishOrder
<1> QED BY <1>1, SavedMoves

\* Every command of every actor, whatever it does to the one order it names.
LEMMA OrdersMove ==
  ASSUME IInv, Next
  PROVE  \A i \in Orders : Moved(orders[i], orders'[i])
<1>0. \A i \in Orders : orders[i] \in WorkOrders
  BY DEF IInv, OrdersInv
<1>1. ASSUME NEW i \in Orders, NEW requirements \in SUBSET Evidence,
             CreateOrder(i, requirements)
      PROVE  \A j \in Orders : Moved(orders[j], orders'[j])
  <2>1. PICK new \in Create(lastNumber + 1, requirements) : SaveOrder(i, new)
    BY <1>1 DEF CreateOrder
  <2>2. lastNumber + 1 \in Nat /\ orders[i].status = "absent"
    BY <1>1 DEF IInv, CreateOrder
  <2>3. new \in WorkOrders /\ new.status = "submitted"
    BY <2>1, <2>2, CreateFacts
  <2>4. Moved(orders[i], new)
    BY <2>2, <2>3 DEF Moved, Beyond, SinceAccepted, SinceTravel, SinceWork, TerminalStatuses
  <2> QED BY <2>1, <2>3, <2>4, SavedMoves
<1>2. ASSUME NEW i \in Orders, NEW e \in Executors, ExecutorStep(i, e)
      PROVE  \A j \in Orders : Moved(orders[j], orders'[j])
  <2>1. CASE ExpressOrderInterest(i, e) \/ WithdrawOrderInterest(i, e)
    BY <1>0, <2>1, InterestMoves, ChangeMoves
       DEF ExpressOrderInterest, WithdrawOrderInterest
  <2>2. CASE ClaimOrderFirst(i, e)
    BY <1>0, <2>2, ClaimFirstMoves, ChangeMoves DEF ClaimOrderFirst
  <2>3. CASE AcceptOrder(i, e)
    <3>1. \A new \in Accept(orders[i], e) : new \in WorkOrders /\ Moved(orders[i], new)
      BY <1>0, ForwardMoves DEF ForwardActions
    <3> QED BY <2>3, <3>1, ChangeMoves DEF AcceptOrder
  <2>4. CASE RejectOrder(i, e)
    BY <1>0, <2>4, RejectAssignmentMoves, ChangeMoves DEF RejectOrder
  <2>5. CASE StartOrderWork(i, e)
    <3>1. \A new \in StartWork(orders[i], e) : new \in WorkOrders /\ Moved(orders[i], new)
      BY <1>0, ForwardMoves DEF ForwardActions
    <3> QED BY <2>5, <3>1, ChangeMoves DEF StartOrderWork
  <2>6. ASSUME NEW s \in Sessions, StartOrderTravel(i, e, s)
        PROVE  \A j \in Orders : Moved(orders[j], orders'[j])
    <3>1. PICK new \in StartTravel(orders[i], e) : SaveOrder(i, new)
      BY <2>6 DEF StartOrderTravel
    <3>2. new \in WorkOrders /\ Moved(orders[i], new)
      BY <1>0, <3>1, ForwardMoves DEF ForwardActions
    <3> QED BY <3>1, <3>2, SavedMoves
  <2>7. ASSUME NEW report \in SUBSET Evidence, CompleteOrder(i, e, report)
        PROVE  \A j \in Orders : Moved(orders[j], orders'[j])
    <3> DEFINE action == "submit_report"
    <3>1. action \in ForwardActions \ {"pool_publish"}
      BY DEF ForwardActions
    <3>2. ASSUME NEW new \in Complete(orders[i], e, report)
          PROVE  new \in WorkOrders /\ Moved(orders[i], new)
      BY <1>0, <3>1, <3>2, ForwardMoves
    <3> QED BY <2>7, <3>2, FinishMoves DEF CompleteOrder
  <2> QED BY <1>2, <2>1, <2>2, <2>3, <2>4, <2>5, <2>6, <2>7 DEF ExecutorStep
<1>3. ASSUME NEW i \in Orders, CoordinatorStep(i)
      PROVE  \A j \in Orders : Moved(orders[j], orders'[j])
  <2>1. ASSUME NEW c \in Coordinators, ClaimOrderCoordination(i, c)
        PROVE  \A j \in Orders : Moved(orders[j], orders'[j])
    BY <1>0, <2>1, ClaimCoordinationMoves, ChangeMoves DEF ClaimOrderCoordination
  <2>2. ASSUME NEW actor \in Actors, NEW mode \in PoolMode, PublishOrder(i, mode, actor)
        PROVE  \A j \in Orders : Moved(orders[j], orders'[j])
    BY <1>0, <2>2, PublishPoolMoves, ChangeMoves DEF PublishOrder
  <2>3. ASSUME NEW actor \in Actors, NEW e \in Executors, AssignOrder(i, e, actor)
        PROVE  \A j \in Orders : Moved(orders[j], orders'[j])
    BY <1>0, <2>3, AssignMoves, ChangeMoves DEF AssignOrder
  <2>4. ASSUME NEW actor \in Actors, CancelOrder(i, actor)
        PROVE  \A j \in Orders : Moved(orders[j], orders'[j])
    BY <1>0, <2>4, CancelMoves, FinishMoves DEF CancelOrder
  <2> QED BY <1>3, <2>1, <2>2, <2>3, <2>4 DEF CoordinatorStep
<1>4. ASSUME NEW s \in Sessions, NEW e \in Executors, RecordLocation(s, e)
      PROVE  \A j \in Orders : Moved(orders[j], orders'[j])
  BY <1>4 DEF RecordLocation, Moved
<1> QED BY <1>1, <1>2, <1>3, <1>4 DEF Next

-----------------------------------------------------------------------------
(* The command of a press.                                                 *)

\* What a received press refers to: a button that was minted, and someone who
\* may press it.
LEMMA PressFacts ==
  ASSUME RowsOK, NEW p \in Presses, inbox[p].status # "absent"
  PROVE  /\ inbox[p].token \in Tokens
         /\ ButtonOf(p) \in CallbackActions /\ ButtonOf(p).action \in Actions
         /\ ButtonOf(p).order \in Orders
         /\ ButtonOf(p).action = "assign" => ButtonOf(p).executor \in Executors
         /\ inbox[p].actor \in (IF ButtonOf(p).action \in {"pool_publish", "assign"}
                                  THEN Coordinators ELSE Executors)
<1>1. inbox[p].token \in Tokens /\ inbox[p].actor \in ButtonOf(p).to
  BY DEF RowsOK, PressOK, ButtonOf
<1>2. ButtonOK(ButtonOf(p))
  BY <1>1 DEF RowsOK, ButtonOf
<1>3. ButtonOf(p).action # "none"
  BY <1>1, <1>2 DEF ButtonOK, NoCallback
<1>4. ButtonOf(p) \in CallbackActions /\ ButtonOf(p).action \in Actions
  BY <1>2, <1>3 DEF ButtonOK, CallbackActions
<1> QED BY <1>1, <1>2, <1>3, <1>4 DEF ButtonOK

\* A worker under way has such a press.
LEMMA BusyFacts ==
  ASSUME RowsOK, NEW w \in Workers, Busy(w)
  PROVE  /\ PressOf(w) \in Presses /\ inbox[PressOf(w)].status # "absent"
         /\ TokenOf(w) \in Tokens
         /\ CallbackOf(w) = ButtonOf(PressOf(w))
         /\ CallbackOf(w) \in CallbackActions /\ CallbackOf(w).action \in Actions
         /\ CallbackOf(w).order \in Orders
         /\ CallbackOf(w).action = "assign" => CallbackOf(w).executor \in Executors
         /\ ActorOf(w) \in (IF CallbackOf(w).action \in {"pool_publish", "assign"}
                              THEN Coordinators ELSE Executors)
<1>1. PressOf(w) \in Presses /\ inbox[PressOf(w)].status # "absent"
  BY DEF RowsOK, WorkerOK
<1>2. CallbackOf(w) = ButtonOf(PressOf(w)) /\ TokenOf(w) = inbox[PressOf(w)].token
      /\ ActorOf(w) = inbox[PressOf(w)].actor
  BY DEF CallbackOf, ButtonOf, TokenOf, ActorOf
<1> QED BY <1>1, <1>2, PressFacts

\* The command of a press is a command of Dispatch: an actor and an order of
\* the kinds it needs.
LEMMA CommandIsStep ==
  ASSUME RowsOK, NEW w \in Workers, Busy(w),
         NEW mode \in PoolMode, NEW report \in SUBSET Evidence, Command(w, mode, report)
  PROVE  Next
<1> DEFINE c == CallbackOf(w)
           i == c.order
           actor == ActorOf(w)
<1>1. /\ c.action \in Actions /\ i \in Orders
      /\ c.action = "assign" => c.executor \in Executors
      /\ actor \in (IF c.action \in {"pool_publish", "assign"}
                      THEN Coordinators ELSE Executors)
  BY BusyFacts
<1> HIDE DEF c, i, actor
<1>2. CASE c.action = "pool_publish"
  <2>1. PublishOrder(i, mode, actor) /\ actor \in Actors
    BY <1>1, <1>2 DEF Command, Outcomes, PublishOrder, Actors, c, i, actor
  <2> QED BY <1>1, <2>1 DEF Next, CoordinatorStep
<1>3. CASE c.action = "assign"
  <2>1. AssignOrder(i, c.executor, actor) /\ actor \in Actors
    BY <1>1, <1>3 DEF Command, Outcomes, AssignOrder, Actors, c, i, actor
  <2> QED BY <1>1, <1>3, <2>1 DEF Next, CoordinatorStep
<1>4. CASE c.action \notin {"pool_publish", "assign"}
  <2>1. ExecutorStep(i, actor)
    <3>1. CASE c.action = "pool_interest"
      BY <3>1 DEF ExecutorStep, Command, Outcomes, ExpressOrderInterest, c, i, actor
    <3>2. CASE c.action = "pool_claim"
      BY <3>2 DEF ExecutorStep, Command, Outcomes, ClaimOrderFirst, c, i, actor
    <3>3. CASE c.action = "accept"
      BY <3>3 DEF ExecutorStep, Command, Outcomes, AcceptOrder, c, i, actor
    <3>4. CASE c.action = "reject"
      BY <3>4 DEF ExecutorStep, Command, Outcomes, RejectOrder, c, i, actor
    <3>5. CASE c.action = "start_travel"
      BY <3>5 DEF ExecutorStep, Command, c, i, actor
    <3>6. CASE c.action = "start_work"
      BY <3>6 DEF ExecutorStep, Command, Outcomes, StartOrderWork, c, i, actor
    <3>7. CASE c.action = "submit_report"
      BY <3>7 DEF ExecutorStep, Command, c, i, actor
    <3> QED BY <1>1, <1>4, <3>1, <3>2, <3>3, <3>4, <3>5, <3>6, <3>7 DEF Actions
  <2> QED BY <1>1, <1>4, <2>1 DEF Next
<1> QED BY <1>2, <1>3, <1>4

\* The order is where the button promises, and was not there before.
LEMMA CommandReaches ==
  ASSUME Base, NEW w \in Workers, Busy(w),
         NEW mode \in PoolMode, NEW report \in SUBSET Evidence, Command(w, mode, report),
         CallbackOf(w).action \in ForwardActions
  PROVE  /\ ~Beyond(orders[CallbackOf(w).order], CallbackOf(w).action)
         /\ Beyond(orders'[CallbackOf(w).order], CallbackOf(w).action)
         /\ CallbackOf(w).action # "pool_publish" =>
              orders'[CallbackOf(w).order].assignee = ActorOf(w)
<1> DEFINE c == CallbackOf(w)
           i == c.order
           order == orders[i]
           actor == ActorOf(w)
<1>0. Base /\ IInv /\ RowsOK
  BY DEF Base
<1>1. /\ c.action \in ForwardActions /\ i \in Orders
      /\ actor \in (IF c.action \in {"pool_publish", "assign"}
                      THEN Coordinators ELSE Executors)
  BY <1>0, BusyFacts
<1>2. order \in WorkOrders
  BY <1>0, <1>1 DEF IInv, OrdersInv
<1> HIDE DEF c, i, order, actor
<1>3. CASE c.action = "pool_publish"
  <2>1. PICK new \in PublishPool(order, mode, actor) : SaveOrder(i, new)
    BY <1>3 DEF Command, Outcomes, ChangeOrder, c, i, order, actor
  <2>2. /\ new \in WorkOrders /\ Moved(order, new)
        /\ ~Beyond(order, c.action) /\ Beyond(new, c.action)
    BY <1>2, <1>3, PublishPoolMoves
  <2>3. orders'[i].status = new.status /\ orders'[i].poolMode = new.poolMode
    BY <1>0, <1>1, <2>1, <2>2, SavedMoves DEF order
  <2>4. Beyond(orders'[i], c.action)
    BY <2>2, <2>3 DEF Beyond
  <2> QED BY <1>3, <2>2, <2>4 DEF c, i, order
<1>4. CASE c.action # "pool_publish"
  <2>1. PICK new : /\ SaveOrder(i, new)
                   /\ \/ c.action = "accept" /\ new \in Accept(order, actor)
                      \/ c.action = "start_travel" /\ new \in StartTravel(order, actor)
                      \/ c.action = "start_work" /\ new \in StartWork(order, actor)
                      \/ c.action = "submit_report" /\ new \in Complete(order, actor, report)
    <3>1. CASE c.action = "accept"
      BY <3>1 DEF Command, Outcomes, ChangeOrder, c, i, order, actor
    <3>2. CASE c.action = "start_travel"
      BY <3>2 DEF Command, StartOrderTravel, c, i, order, actor
    <3>3. CASE c.action = "start_work"
      BY <3>3 DEF Command, Outcomes, ChangeOrder, c, i, order, actor
    <3>4. CASE c.action = "submit_report"
      BY <3>4 DEF Command, CompleteOrder, FinishOrder, c, i, order, actor
    <3> QED BY <1>1, <1>4, <3>1, <3>2, <3>3, <3>4 DEF ForwardActions
  <2>2. /\ c.action \in ForwardActions \ {"pool_publish"} /\ actor \in Executors
    BY <1>1, <1>4 DEF ForwardActions
  <2>3. /\ new \in WorkOrders /\ Moved(order, new)
        /\ ~Beyond(order, c.action) /\ Beyond(new, c.action) /\ new.assignee = actor
    BY <1>2, <2>1, <2>2, ForwardMoves
  <2>4. /\ orders'[i].status = new.status /\ orders'[i].poolMode = new.poolMode
        /\ orders'[i].assignee = new.assignee
    BY <1>0, <1>1, <2>1, <2>3, SavedMoves DEF order
  <2>5. Beyond(orders'[i], c.action)
    BY <2>3, <2>4 DEF Beyond
  <2> QED BY <2>3, <2>4, <2>5 DEF c, i, order, actor
<1> QED BY <1>3, <1>4

-----------------------------------------------------------------------------
(* Minting and announcing.                                                 *)

\* Only free tokens are given a button, and each is one that may exist.
LEMMA MintFacts ==
  ASSUME Base, NEW n, NoticeOK(n), Recipients(n) # {}, Mint(n)
  PROVE  /\ callbacks' \in [Tokens -> CallbackActions]
         /\ \A t \in Tokens :
              \/ callbacks'[t] = callbacks[t]
              \/ /\ callbacks[t] = NoCallback
                 /\ ButtonOK(callbacks'[t])
                 /\ callbacks'[t].claim = NoPress /\ ~callbacks'[t].completed
<1>1. PICK tokenOf \in [Buttons(n) -> FreeTokens] :
        callbacks' = [t \in Tokens |->
          IF \E b \in Buttons(n) : tokenOf[b] = t
            THEN LET button == CHOOSE b \in Buttons(n) : tokenOf[b] = t
                 IN  [NoCallback EXCEPT !.action = button.action, !.order = n.order,
                                        !.executor = button.executor, !.to = Recipients(n)]
            ELSE callbacks[t]]
  BY DEF Mint
<1>2. \A t \in Tokens : callbacks[t] \in CallbackActions
  BY DEF Base, RowsOK
<1>3. orders[n.order] \in WorkOrders /\ n.order \in Orders
  BY DEF Base, IInv, OrdersInv, NoticeOK, Notices
<1>4. \A b \in Buttons(n) :
        /\ b.action \in Actions /\ b.executor \in Executors \cup {NoActor}
        /\ b.action = "assign" => b.executor \in Executors
        /\ Recipients(n) \subseteq (IF b.action \in {"pool_publish", "assign"}
                                      THEN Coordinators ELSE Executors)
  <2>1. n.name \in {"submitted", "pool_open", "interest", "assigned", "accepted",
                    "en_route", "in_progress"}
    BY DEF NoticeOK, Notices, WorkOrderStatus
  <2>2. n.name = "interest" => n.executor \in Executors
    BY DEF NoticeOK
  <2>3. /\ orders[n.order].coordinator \in Coordinators \cup {NoActor}
        /\ orders[n.order].assignee \in Executors \cup {NoActor}
    BY <1>3 DEF WorkOrders
  <2>4. CASE n.name = "submitted"
    BY <2>4 DEF Buttons, OneButton, Recipients, Actions
  <2>5. CASE n.name = "pool_open"
    BY <2>5 DEF Buttons, OneButton, Recipients, Actions
  <2>6. CASE n.name = "interest"
    BY <2>2, <2>3, <2>6 DEF Buttons, OneButton, Recipients, Actions
  <2>7. CASE n.name \in {"assigned", "accepted", "en_route", "in_progress"}
    <3>1. Recipients(n) \subseteq Executors
      BY <2>3, <2>7 DEF Recipients
    <3>2. \A b \in Buttons(n) :
            /\ b.action \in {"accept", "reject", "start_travel", "start_work", "submit_report"}
            /\ b.executor = NoActor
      BY <2>7 DEF Buttons, OneButton
    <3> QED BY <3>1, <3>2 DEF Actions
  <2> QED BY <2>1, <2>4, <2>5, <2>6, <2>7
<1>5. ASSUME NEW t \in Tokens
      PROVE  /\ callbacks'[t] \in CallbackActions
             /\ \/ callbacks'[t] = callbacks[t]
                \/ /\ callbacks[t] = NoCallback
                   /\ ButtonOK(callbacks'[t])
                   /\ callbacks'[t].claim = NoPress /\ ~callbacks'[t].completed
  <2>1. CASE ~\E b \in Buttons(n) : tokenOf[b] = t
    BY <1>1, <1>2, <2>1
  <2>2. CASE \E b \in Buttons(n) : tokenOf[b] = t
    <3> DEFINE button == CHOOSE b \in Buttons(n) : tokenOf[b] = t
    <3>1. button \in Buttons(n) /\ tokenOf[button] = t
      BY <2>2
    <3>2. callbacks'[t] = [NoCallback EXCEPT !.action = button.action, !.order = n.order,
                             !.executor = button.executor, !.to = Recipients(n)]
      BY <1>1, <2>2
    <3> HIDE DEF button
    <3>3. callbacks[t] = NoCallback
      BY <3>1 DEF FreeTokens
    <3>4. /\ callbacks'[t].action = button.action /\ callbacks'[t].order = n.order
          /\ callbacks'[t].executor = button.executor /\ callbacks'[t].to = Recipients(n)
          /\ callbacks'[t].claim = NoPress /\ callbacks'[t].completed = FALSE
      BY <3>2 DEF NoCallback
    <3>5. Recipients(n) \in SUBSET (Executors \cup Coordinators)
      BY <1>4, <3>1
    <3>6. callbacks'[t] \in CallbackActions
      BY <1>3, <1>4, <3>1, <3>2, <3>5 DEF NoCallback, CallbackActions
    <3>7. callbacks'[t].action # "none"
      BY <1>4, <3>1, <3>4 DEF Actions
    <3> QED BY <1>3, <1>4, <3>1, <3>3, <3>4, <3>6, <3>7 DEF ButtonOK
  <2> QED BY <2>1, <2>2
<1> QED BY <1>1, <1>5

\* What a step of Dispatch announces can be projected.
LEMMA AnnounceFacts ==
  ASSUME Base, Announce, IInv', \A i \in Orders : Moved(orders[i], orders'[i])
  PROVE  \A n \in notices' : NoticeOK(n)
<1>1. ASSUME NEW i \in Orders, NEW n \in Announced(i)
      PROVE  NoticeOK(n)
  <2>1. /\ orders'[i] \in WorkOrders
        /\ Exists(orders[i]) => Exists(orders'[i])
    BY <1>1 DEF IInv, OrdersInv, Moved
  <2>2. /\ orders'[i].status \in WorkOrderStatus \cup {"absent"}
        /\ orders'[i].version \in Nat
        /\ orders'[i].poolMode \in PoolMode \cup {"none"}
    BY <2>1 DEF WorkOrders
  <2>3. CASE orders'[i].status # orders[i].status
    <3>1. n = NoticeOf(orders'[i].status, i, orders'[i], NoActor)
          /\ orders'[i].status \notin TerminalStatuses
      BY <1>1, <2>3 DEF Announced
    <3>2. orders'[i].status \in WorkOrderStatus
      BY <2>1, <2>2, <2>3
    <3> QED BY <2>2, <3>1, <3>2
            DEF NoticeOK, NoticeOf, Notices, WorkOrderStatus, TerminalStatuses
  <2>4. CASE orders'[i].status = orders[i].status
    <3>1. PICK e \in Executors : n = NoticeOf("interest", i, orders'[i], e)
      BY <1>1, <2>4 DEF Announced
    <3> QED BY <2>2, <3>1 DEF NoticeOK, NoticeOf, Notices, TerminalStatuses
  <2> QED BY <2>3, <2>4
<1>2. \A n \in notices : NoticeOK(n)
  BY DEF Base, RowsOK
<1>3. notices' \subseteq notices \cup UNION {Announced(i) : i \in Orders}
  BY DEF Announce, Waiting
<1> QED BY <1>1, <1>2, <1>3

-----------------------------------------------------------------------------
(* Every step of the composition is a step of Dispatch.                    *)

\* The press commands are commands, all else leaves the tables of Dispatch alone.
LEMMA StepIsDispatch ==
  ASSUME Base, [CallbackNext]_callbackVars
  PROVE  [Next]_vars
<1>1. CASE UNCHANGED callbackVars
  BY <1>1 DEF callbackVars, vars
<1>2. CASE ApiCommand
  BY <1>2 DEF ApiCommand
<1>3. ASSUME NEW notice \in notices, Project(notice) PROVE UNCHANGED vars
  BY <1>3 DEF Project, dispatchVars
<1>4. ASSUME NEW i \in Orders, OpenCard(i) PROVE UNCHANGED vars
  BY <1>4 DEF OpenCard, dispatchVars
<1>5. ASSUME NEW p \in Presses, NEW t \in Tokens, NEW actor, Press(p, t, actor)
      PROVE  UNCHANGED vars
  BY <1>5 DEF Press, dispatchVars
<1>6. ASSUME NEW t \in Tokens, Expire(t) PROVE UNCHANGED vars
  BY <1>6 DEF Expire, dispatchVars
<1>7. ASSUME NEW w \in Workers, WorkerStep(w) PROVE [Next]_vars
  <2>1. ASSUME NEW mode \in PoolMode, NEW report \in SUBSET Evidence, Execute(w, mode, report)
        PROVE  [Next]_vars
    <3>1. RowsOK /\ Busy(w)
      BY <2>1 DEF Base, Execute, At, Busy
    <3>2. CASE Perform(w, mode, report)
      BY <3>1, <3>2, CommandIsStep DEF Perform
    <3>3. CASE Conflict(w, mode, report) \/ Refuse(w, mode, report)
      BY <3>3 DEF Conflict, Refuse, dispatchVars
    <3> QED BY <2>1, <3>2, <3>3 DEF Execute
  <2>2. ASSUME NEW p \in Presses, Take(w, p) PROVE UNCHANGED vars
    BY <2>2 DEF Take, dispatchVars
  <2>3. CASE \/ Resolve(w) \/ Look(w) \/ Recheck(w) \/ CompleteClaim(w) \/ QueueReply(w)
             \/ FinishPress(w) \/ FailPress(w) \/ Crash(w)
    BY <2>3 DEF Resolve, Look, Recheck, CompleteClaim, QueueReply, FinishPress, FailPress,
                Crash, dispatchVars
  <2> QED BY <1>7, <2>1, <2>2, <2>3 DEF WorkerStep
<1> QED BY <1>1, <1>2, <1>3, <1>4, <1>5, <1>6, <1>7 DEF CallbackNext

\* What a step does to the orders, whoever takes it.
LEMMA OrdersStep ==
  ASSUME Base, [CallbackNext]_callbackVars
  PROVE  IInv' /\ \A i \in Orders : Moved(orders[i], orders'[i])
<1>1. IInv /\ [Next]_vars
  BY StepIsDispatch DEF Base
<1>2. IInv'
  BY <1>1, StepInv
<1>3. CASE Next
  BY <1>1, <1>2, <1>3, OrdersMove
<1>4. CASE UNCHANGED vars
  BY <1>2, <1>4 DEF vars, Moved
<1> QED BY <1>1, <1>3, <1>4

-----------------------------------------------------------------------------
(* What no step undoes: a button stays what it is, its claim and its       *)
(* completion stay, an event keeps its button and its sender.              *)

ButtonKept(c, new) ==
  c.action # "none" =>
    /\ new.action = c.action /\ new.order = c.order
    /\ new.executor = c.executor /\ new.to = c.to
    /\ c.claim # NoPress => new.claim = c.claim
    /\ c.completed => new.completed

Kept ==
  /\ \A i \in Orders : Moved(orders[i], orders'[i])
  /\ \A t \in Tokens : ButtonKept(callbacks[t], callbacks'[t])
  /\ \A p \in Presses :
       inbox[p].status # "absent" =>
         /\ inbox'[p].status # "absent"
         /\ inbox'[p].token = inbox[p].token /\ inbox'[p].actor = inbox[p].actor

\* What is left to show of a step for its tables to stay sound.
LEMMA RowsKept ==
  ASSUME RowsOK, Kept,
         \A n \in notices' : NoticeOK(n),
         callbacks' \in [Tokens -> CallbackActions],
         \A t \in Tokens : ButtonOK(callbacks'[t]),
         inbox' \in [Presses -> InboxEvents],
         \A p \in Presses :
           /\ inbox'[p].status = "absent" => inbox'[p] = NoEvent
           /\ inbox[p].status = "absent" /\ inbox'[p].status # "absent" =>
                inbox'[p].token \in Tokens /\ inbox'[p].actor \in callbacks'[inbox'[p].token].to,
         workers' \in [Workers -> WorkerStates],
         \A w \in Workers :
           workers'[w].step # "idle" =>
             workers'[w].press \in Presses /\ inbox[workers'[w].press].status # "absent",
         effects' \in [Presses -> Nat], replies' \in [Presses -> Verdicts],
         faults' \in 0 .. MaxFaults
  PROVE  RowsOK'
<1>1. ASSUME NEW p \in Presses PROVE PressOK(inbox[p])'
  <2>1. CASE inbox[p].status = "absent"
    BY <2>1 DEF PressOK, InboxEvents
  <2>2. CASE inbox[p].status # "absent"
    <3>1. /\ inbox[p].token \in Tokens /\ inbox[p].actor \in callbacks[inbox[p].token].to
          /\ ButtonOK(callbacks[inbox[p].token])
      BY <2>2 DEF RowsOK, PressOK
    <3>2. callbacks'[inbox[p].token].to = callbacks[inbox[p].token].to
      BY <3>1 DEF Kept, ButtonKept, ButtonOK, NoCallback
    <3> QED BY <2>2, <3>1, <3>2 DEF Kept, PressOK
  <2> QED BY <2>1, <2>2
<1>2. ASSUME NEW w \in Workers PROVE WorkerOK(w)'
  BY DEF WorkerOK, Busy, PressOf, Kept
<1> QED BY <1>1, <1>2 DEF RowsOK

\* A worker that moves on stays with its press; the others stay where they are.
LEMMA MoveFacts ==
  ASSUME RowsOK, NEW w \in Workers, NEW step \in Steps, NEW verdict \in Verdicts,
         Move(w, step, verdict)
  PROVE  /\ workers' \in [Workers -> WorkerStates]
         /\ \A v \in Workers : v # w => workers'[v] = workers[v]
         /\ workers'[w].press = workers[w].press /\ workers'[w].attempt = workers[w].attempt
         /\ workers'[w].step = step /\ workers'[w].verdict = verdict
<1>1. workers \in [Workers -> WorkerStates]
  BY DEF RowsOK
<1>2. workers' = [workers EXCEPT ![w] = [workers[w] EXCEPT !.step = step, !.verdict = verdict]]
  BY <1>1 DEF Move
<1>3. [workers[w] EXCEPT !.step = step, !.verdict = verdict] \in WorkerStates
  BY <1>1 DEF WorkerStates
<1> QED BY <1>1, <1>2, <1>3 DEF WorkerStates

\* A worker that lets go of its press.
LEMMA IdleFacts ==
  ASSUME RowsOK, NEW w \in Workers, workers' = [workers EXCEPT ![w] = Idle]
  PROVE  /\ workers' \in [Workers -> WorkerStates]
         /\ \A v \in Workers : v # w => workers'[v] = workers[v]
         /\ workers'[w].step = "idle"
BY DEF RowsOK, Idle, WorkerStates, Steps, Verdicts

\* resolve writes the claim of one button, and only where there is none.
LEMMA ResolveFacts ==
  ASSUME RowsOK, NEW w \in Workers, Busy(w), Resolve(w)
  PROVE  /\ callbacks' \in [Tokens -> CallbackActions]
         /\ \A t \in Tokens :
              /\ ButtonOK(callbacks'[t]) /\ ButtonKept(callbacks[t], callbacks'[t])
              /\ callbacks'[t].action = callbacks[t].action
              /\ callbacks'[t].completed = callbacks[t].completed
              /\ callbacks'[t].claim # callbacks[t].claim =>
                   callbacks[t].claim = NoPress /\ callbacks'[t].claim = PressOf(w)
         /\ IF Spendable(CallbackOf(w), PressOf(w))
              THEN /\ callbacks'[TokenOf(w)].claim = PressOf(w)
                   /\ Move(w, IF CallbackOf(w).action = "start_travel"
                                THEN "look" ELSE "execute", "none")
              ELSE Move(w, "reply", "refused") /\ UNCHANGED callbacks
<1>1. /\ PressOf(w) \in Presses /\ TokenOf(w) \in Tokens
      /\ CallbackOf(w).action \in Actions
      /\ CallbackOf(w) = callbacks[TokenOf(w)]
  BY BusyFacts DEF CallbackOf
<1>2. callbacks \in [Tokens -> CallbackActions] /\ \A t \in Tokens : ButtonOK(callbacks[t])
  BY DEF RowsOK
<1>3. CASE ~Spendable(CallbackOf(w), PressOf(w))
  BY <1>2, <1>3 DEF Resolve, ButtonKept
<1>4. CASE Spendable(CallbackOf(w), PressOf(w))
  <2> DEFINE t == TokenOf(w)
             c == callbacks[t]
             claimed == [c EXCEPT !.claim = IF c.claim = NoPress THEN PressOf(w) ELSE c.claim]
  <2>1. callbacks' = [callbacks EXCEPT ![t] = claimed]
    BY <1>1, <1>2, <1>4 DEF Resolve
  <2>2. c \in CallbackActions /\ ButtonOK(c) /\ c.action # "none"
    BY <1>1, <1>2 DEF Actions
  <2>3. claimed \in CallbackActions
    BY <1>1, <2>2 DEF CallbackActions
  <2>4. /\ claimed.action = c.action /\ claimed.order = c.order /\ claimed.to = c.to
        /\ claimed.executor = c.executor /\ claimed.completed = c.completed
        /\ claimed.claim = IF c.claim = NoPress THEN PressOf(w) ELSE c.claim
    BY <2>2 DEF CallbackActions
  <2>5. claimed.claim = PressOf(w)
    BY <1>1, <1>4, <2>4 DEF Spendable
  <2> HIDE DEF claimed
  <2>6. ButtonOK(claimed) /\ ButtonKept(c, claimed)
    BY <2>2, <2>3, <2>4 DEF ButtonOK, ButtonKept
  <2>7. callbacks'[t] = claimed /\ \A u \in Tokens : u # t => callbacks'[u] = callbacks[u]
    BY <1>1, <1>2, <2>1
  <2>8. callbacks' \in [Tokens -> CallbackActions]
    BY <1>1, <1>2, <2>1, <2>3
  <2>9. ASSUME NEW u \in Tokens
        PROVE  /\ ButtonOK(callbacks'[u]) /\ ButtonKept(callbacks[u], callbacks'[u])
               /\ callbacks'[u].action = callbacks[u].action
               /\ callbacks'[u].completed = callbacks[u].completed
               /\ callbacks'[u].claim # callbacks[u].claim =>
                    callbacks[u].claim = NoPress /\ callbacks'[u].claim = PressOf(w)
    BY <1>2, <2>4, <2>6, <2>7 DEF ButtonKept
  <2> QED BY <1>4, <2>5, <2>7, <2>8, <2>9 DEF Resolve
<1> QED BY <1>3, <1>4

\* complete_callback settles the claim of the press, and raises when there is
\* none to settle.
LEMMA CompleteFacts ==
  ASSUME RowsOK, NEW w \in Workers, Busy(w), CompleteClaim(w)
  PROVE  /\ callbacks' \in [Tokens -> CallbackActions]
         /\ \A t \in Tokens :
              /\ ButtonOK(callbacks'[t]) /\ ButtonKept(callbacks[t], callbacks'[t])
              /\ callbacks'[t].action = callbacks[t].action
              /\ callbacks'[t].claim = callbacks[t].claim
              /\ callbacks'[t].completed # callbacks[t].completed =>
                   t = TokenOf(w) /\ callbacks[t].claim = PressOf(w)
<1>1. /\ PressOf(w) \in Presses /\ TokenOf(w) \in Tokens
      /\ CallbackOf(w).action \in Actions
      /\ CallbackOf(w) = callbacks[TokenOf(w)]
  BY BusyFacts DEF CallbackOf
<1>2. callbacks \in [Tokens -> CallbackActions] /\ \A t \in Tokens : ButtonOK(callbacks[t])
  BY DEF RowsOK
<1>3. CASE UNCHANGED callbacks
  BY <1>2, <1>3 DEF ButtonKept
<1>4. CASE /\ CallbackOf(w).claim = PressOf(w)
           /\ callbacks' = [callbacks EXCEPT ![TokenOf(w)].completed = TRUE]
  <2> DEFINE t == TokenOf(w)
             c == callbacks[t]
             settled == [c EXCEPT !.completed = TRUE]
  <2>1. callbacks' = [callbacks EXCEPT ![t] = settled]
    BY <1>1, <1>2, <1>4
  <2>2. c \in CallbackActions /\ ButtonOK(c) /\ c.action # "none"
    BY <1>1, <1>2 DEF Actions
  <2>3. settled \in CallbackActions
    BY <2>2 DEF CallbackActions
  <2>4. /\ settled.action = c.action /\ settled.order = c.order /\ settled.to = c.to
        /\ settled.executor = c.executor /\ settled.claim = c.claim
        /\ settled.completed = TRUE
    BY <2>2 DEF CallbackActions
  <2> HIDE DEF settled
  <2>5. ButtonOK(settled) /\ ButtonKept(c, settled)
    BY <2>2, <2>3, <2>4 DEF ButtonOK, ButtonKept
  <2>6. callbacks'[t] = settled /\ \A u \in Tokens : u # t => callbacks'[u] = callbacks[u]
    BY <1>1, <1>2, <2>1
  <2>7. callbacks' \in [Tokens -> CallbackActions]
    BY <1>1, <1>2, <2>1, <2>3
  <2>8. ASSUME NEW u \in Tokens
        PROVE  /\ ButtonOK(callbacks'[u]) /\ ButtonKept(callbacks[u], callbacks'[u])
               /\ callbacks'[u].action = callbacks[u].action
               /\ callbacks'[u].claim = callbacks[u].claim
               /\ callbacks'[u].completed # callbacks[u].completed =>
                    u = TokenOf(w) /\ callbacks[u].claim = PressOf(w)
    BY <1>1, <1>2, <1>4, <2>4, <2>5, <2>6 DEF ButtonKept
  <2> QED BY <2>7, <2>8
<1> QED BY <1>3, <1>4 DEF CompleteClaim

\* Expiry is all that a button forgets.
LEMMA ExpireFacts ==
  ASSUME RowsOK, NEW t \in Tokens, Expire(t)
  PROVE  /\ callbacks' \in [Tokens -> CallbackActions]
         /\ \A u \in Tokens :
              /\ ButtonOK(callbacks'[u]) /\ ButtonKept(callbacks[u], callbacks'[u])
              /\ callbacks'[u].claim = callbacks[u].claim
              /\ callbacks'[u].completed = callbacks[u].completed
<1> DEFINE c == callbacks[t]
           over == [c EXCEPT !.expired = TRUE]
<1>1. callbacks \in [Tokens -> CallbackActions] /\ \A u \in Tokens : ButtonOK(callbacks[u])
  BY DEF RowsOK
<1>2. callbacks' = [callbacks EXCEPT ![t] = over] /\ c.action # "none"
  BY <1>1 DEF Expire
<1>3. c \in CallbackActions /\ over \in CallbackActions
  BY <1>1 DEF CallbackActions
<1>4. /\ over.action = c.action /\ over.order = c.order /\ over.to = c.to
      /\ over.executor = c.executor /\ over.claim = c.claim /\ over.completed = c.completed
  BY <1>3 DEF CallbackActions
<1> HIDE DEF over
<1>5. ButtonOK(over) /\ ButtonKept(c, over)
  BY <1>1, <1>2, <1>3, <1>4 DEF ButtonOK, ButtonKept
<1> QED BY <1>1, <1>2, <1>3, <1>4, <1>5 DEF ButtonKept

\* A mark or a claim changes the status of one event, and counts the attempt.
LEMMA EventFacts ==
  ASSUME RowsOK, NEW p \in Presses, inbox[p].status # "absent",
         NEW status \in {"pending", "processing", "processed", "dead"}, NEW attempts \in Nat,
         inbox' = [inbox EXCEPT ![p].status = status, ![p].attempts = attempts]
  PROVE  /\ inbox' \in [Presses -> InboxEvents]
         /\ \A q \in Presses :
              /\ q # p => inbox'[q] = inbox[q]
              /\ inbox'[q].token = inbox[q].token /\ inbox'[q].actor = inbox[q].actor
              /\ inbox'[q].status = "absent" => inbox[q].status = "absent" /\ inbox'[q] = NoEvent
         /\ inbox'[p].status = status /\ inbox'[p].attempts = attempts
<1> DEFINE row == inbox[p]
           moved == [row EXCEPT !.status = status, !.attempts = attempts]
<1>1. inbox \in [Presses -> InboxEvents] /\ \A q \in Presses : PressOK(inbox[q])
  BY DEF RowsOK
<1>2. inbox' = [inbox EXCEPT ![p] = moved]
  BY <1>1
<1>3. moved \in InboxEvents
  BY <1>1 DEF InboxEvents
<1>4. /\ moved.status = status /\ moved.attempts = attempts
      /\ moved.token = row.token /\ moved.actor = row.actor
  BY <1>1 DEF InboxEvents
<1> HIDE DEF moved
<1>5. inbox'[p] = moved /\ \A q \in Presses : q # p => inbox'[q] = inbox[q]
  BY <1>1, <1>2
<1>6. inbox' \in [Presses -> InboxEvents]
  BY <1>1, <1>2, <1>3
<1>7. \A q \in Presses : inbox'[q].status = "absent" => q # p
  BY <1>4, <1>5
<1> QED BY <1>1, <1>4, <1>5, <1>6, <1>7 DEF PressOK

\* A master's card has a notice of its own kind: the order has a master.
LEMMA CardFacts ==
  ASSUME IInv, NEW i \in Orders, OpenCard(i)
  PROVE  /\ NoticeOK(NoticeOf(orders[i].status, i, orders[i], NoActor))
         /\ Recipients(NoticeOf(orders[i].status, i, orders[i], NoActor)) # {}
<1> DEFINE n == NoticeOf(orders[i].status, i, orders[i], NoActor)
<1>1. orders[i] \in WorkOrders /\ OrderOK(orders[i]) /\ orders[i].status \in ActiveStatuses
  BY DEF IInv, OrdersInv, OpenCard
<1>2. /\ orders[i].status \in WorkOrderStatus \ TerminalStatuses
      /\ orders[i].version \in Nat /\ orders[i].poolMode \in PoolMode \cup {"none"}
      /\ orders[i].status # "interest"
      /\ orders[i].assignee \in Executors
  BY <1>1 DEF ActiveStatuses, WorkOrders, WorkOrderStatus, TerminalStatuses, OrderOK
<1>3. NoticeOK(n)
  BY <1>2 DEF NoticeOK, NoticeOf, Notices
<1>4. Recipients(n) = {orders[i].assignee} \ {NoActor}
  BY <1>1 DEF Recipients, NoticeOf, ActiveStatuses
<1> QED BY <1>2, <1>3, <1>4, ActorsAssumption

\* The tables stay sound and nothing is undone, action by action.
LEMMA RowsStep ==
  ASSUME Base, [CallbackNext]_callbackVars
  PROVE  Base' /\ Kept
<1>0. /\ RowsOK /\ IInv' /\ \A i \in Orders : Moved(orders[i], orders'[i])
  BY OrdersStep DEF Base
<1> SUFFICES RowsOK' /\ Kept
  BY <1>0 DEF Base
<1>a. /\ \A n \in notices : NoticeOK(n)
      /\ callbacks \in [Tokens -> CallbackActions]
      /\ \A t \in Tokens : ButtonOK(callbacks[t]) /\ ButtonKept(callbacks[t], callbacks[t])
      /\ inbox \in [Presses -> InboxEvents]
      /\ \A p \in Presses : inbox[p].status = "absent" => inbox[p] = NoEvent
      /\ workers \in [Workers -> WorkerStates]
      /\ \A w \in Workers : Busy(w) =>
           workers[w].press \in Presses /\ inbox[workers[w].press].status # "absent"
      /\ effects \in [Presses -> Nat] /\ replies \in [Presses -> Verdicts]
      /\ faults \in 0 .. MaxFaults
  BY <1>0 DEF RowsOK, PressOK, WorkerOK, PressOf, ButtonKept
<1>b. \A t \in Tokens : callbacks[t].action = "none" => callbacks[t] = NoCallback
  BY <1>0 DEF RowsOK, ButtonOK
<1>c. ASSUME NEW n, NoticeOK(n), Recipients(n) # {}, Mint(n)
      PROVE  /\ callbacks' \in [Tokens -> CallbackActions]
             /\ \A t \in Tokens :
                  ButtonOK(callbacks'[t]) /\ ButtonKept(callbacks[t], callbacks'[t])
  BY <1>a, <1>c, MintFacts DEF ButtonKept, NoCallback
<1>1. CASE UNCHANGED callbackVars
  <2>1. Kept
    BY <1>0, <1>1, <1>a DEF callbackVars, Kept
  <2> QED BY <1>0, <1>1, <1>a, <2>1, RowsKept DEF callbackVars, Busy
<1>2. CASE ApiCommand
  <2>1. UNCHANGED <<callbacks, effects, inbox, workers, replies, faults>>
        /\ \A n \in notices' : NoticeOK(n)
    BY <1>0, <1>2, AnnounceFacts DEF ApiCommand, queueVars
  <2>2. Kept
    BY <1>0, <1>a, <2>1 DEF Kept
  <2> QED BY <1>0, <1>a, <2>1, <2>2, RowsKept DEF Busy
<1>3. ASSUME NEW n \in notices, Project(n)
      PROVE  RowsOK' /\ Kept
  <2>1. /\ UNCHANGED <<effects, inbox, workers, replies, faults>>
        /\ notices' \subseteq notices
    BY <1>3 DEF Project, queueVars, Waiting
  <2>2. NoticeOK(n)
    BY <1>a
  <2>3. /\ callbacks' \in [Tokens -> CallbackActions]
        /\ \A t \in Tokens :
             ButtonOK(callbacks'[t]) /\ ButtonKept(callbacks[t], callbacks'[t])
    <3>1. CASE Recipients(n) = {}
      BY <1>3, <1>a, <3>1 DEF Project
    <3>2. CASE Recipients(n) # {}
      BY <1>3, <1>c, <2>2, <3>2 DEF Project
    <3> QED BY <3>1, <3>2
  <2>4. Kept
    BY <1>0, <2>1, <2>3 DEF Kept
  <2> QED BY <1>0, <1>a, <2>1, <2>3, <2>4, RowsKept DEF Busy
<1>4. ASSUME NEW i \in Orders, OpenCard(i)
      PROVE  RowsOK' /\ Kept
  <2> DEFINE n == NoticeOf(orders[i].status, i, orders[i], NoActor)
  <2>1. /\ UNCHANGED <<effects, inbox, workers, replies, faults>>
        /\ notices' \subseteq notices /\ Mint(n)
    BY <1>4 DEF OpenCard, queueVars, Waiting
  <2>2. NoticeOK(n) /\ Recipients(n) # {}
    BY <1>4, CardFacts DEF Base
  <2>6. /\ callbacks' \in [Tokens -> CallbackActions]
        /\ \A t \in Tokens :
             ButtonOK(callbacks'[t]) /\ ButtonKept(callbacks[t], callbacks'[t])
    BY <1>c, <2>1, <2>2
  <2>7. Kept
    BY <1>0, <2>1, <2>6 DEF Kept
  <2> QED BY <1>0, <1>a, <2>1, <2>6, <2>7, RowsKept DEF Busy
<1>5. ASSUME NEW p \in Presses, NEW t \in Tokens, NEW actor \in callbacks[t].to,
             Press(p, t, actor)
      PROVE  RowsOK' /\ Kept
  <2> DEFINE row == [status |-> "pending", token |-> t, actor |-> actor, attempts |-> 0]
  <2>1. /\ UNCHANGED <<notices, callbacks, effects, workers, replies, faults>>
        /\ inbox[p] = NoEvent /\ inbox' = [inbox EXCEPT ![p] = row]
    BY <1>5 DEF Press
  <2>2. row \in InboxEvents
    BY <1>a DEF InboxEvents, CallbackActions
  <2>3. /\ inbox'[p] = row /\ \A q \in Presses : q # p => inbox'[q] = inbox[q]
        /\ inbox' \in [Presses -> InboxEvents]
    BY <1>a, <2>1, <2>2
  <2>4. Kept
    BY <1>0, <1>a, <2>1, <2>3 DEF Kept, NoEvent
  <2>5. \A q \in Presses :
          /\ inbox'[q].status = "absent" => inbox'[q] = NoEvent
          /\ inbox[q].status = "absent" /\ inbox'[q].status # "absent" =>
               inbox'[q].token \in Tokens /\ inbox'[q].actor \in callbacks'[inbox'[q].token].to
    BY <1>a, <2>1, <2>3
  <2> QED BY <1>0, <1>a, <2>1, <2>3, <2>4, <2>5, RowsKept DEF Busy
<1>6. ASSUME NEW t \in Tokens, Expire(t)
      PROVE  RowsOK' /\ Kept
  <2>1. /\ UNCHANGED <<notices, effects, inbox, workers, replies>>
        /\ faults' \in 0 .. MaxFaults
    BY <1>6, <1>a, LimitsAssumption DEF Expire
  <2>2. /\ callbacks' \in [Tokens -> CallbackActions]
        /\ \A u \in Tokens :
             ButtonOK(callbacks'[u]) /\ ButtonKept(callbacks[u], callbacks'[u])
    BY <1>0, <1>6, ExpireFacts
  <2>3. Kept
    BY <1>0, <2>1, <2>2 DEF Kept
  <2> QED BY <1>0, <1>a, <2>1, <2>2, <2>3, RowsKept DEF Busy
<1>7. ASSUME NEW w \in Workers, WorkerStep(w)
      PROVE  RowsOK' /\ Kept
  <2>1. ASSUME NEW p \in Presses, Take(w, p)
        PROVE  RowsOK' /\ Kept
    <3> DEFINE attempt == inbox[p].attempts + 1
               state == [press |-> p, attempt |-> attempt,
                         step |-> "resolve", verdict |-> "none"]
    <3>1. /\ UNCHANGED <<notices, callbacks, effects, replies>>
          /\ inbox[p].status # "absent" /\ faults' \in 0 .. MaxFaults
          /\ workers' = [workers EXCEPT ![w] = state]
      BY <2>1, <1>a, LimitsAssumption DEF Take
    <3>2. attempt \in Nat
      BY <1>a DEF InboxEvents
    <3>3. inbox' = [inbox EXCEPT ![p].status = "processing", ![p].attempts = attempt]
      BY <2>1, <1>a DEF Take
    <3>4. state \in WorkerStates
      BY <3>2 DEF WorkerStates, Steps, Verdicts
    <3>5. /\ workers' \in [Workers -> WorkerStates] /\ workers'[w] = state
          /\ \A v \in Workers : v # w => workers'[v] = workers[v]
      BY <1>a, <3>1, <3>4
    <3> HIDE DEF attempt
    <3>6. /\ inbox' \in [Presses -> InboxEvents]
          /\ \A q \in Presses :
               /\ q # p => inbox'[q] = inbox[q]
               /\ inbox'[q].token = inbox[q].token /\ inbox'[q].actor = inbox[q].actor
               /\ inbox'[q].status = "absent" =>
                    inbox[q].status = "absent" /\ inbox'[q] = NoEvent
      BY <1>0, <3>1, <3>2, <3>3, EventFacts
    <3>7. Kept
      BY <1>0, <1>a, <3>1, <3>6 DEF Kept
    <3>8. \A v \in Workers :
            workers'[v].step # "idle" =>
              workers'[v].press \in Presses /\ inbox[workers'[v].press].status # "absent"
      BY <1>a, <3>1, <3>5 DEF Busy
    <3> QED BY <1>0, <1>a, <3>1, <3>5, <3>6, <3>7, <3>8, RowsKept
  <2>2. ASSUME Busy(w), NEW step \in Steps, NEW verdict \in Verdicts, Move(w, step, verdict),
               \A n \in notices' : NoticeOK(n),
               callbacks' \in [Tokens -> CallbackActions],
               \A t \in Tokens :
                 ButtonOK(callbacks'[t]) /\ ButtonKept(callbacks[t], callbacks'[t]),
               UNCHANGED <<inbox, faults>>,
               effects' \in [Presses -> Nat], replies' \in [Presses -> Verdicts]
        PROVE  RowsOK' /\ Kept
    <3>1. Kept
      BY <1>0, <2>2 DEF Kept
    <3>2. /\ workers' \in [Workers -> WorkerStates]
          /\ \A v \in Workers : v # w => workers'[v] = workers[v]
          /\ workers'[w].press = workers[w].press
      BY <1>0, <2>2, MoveFacts
    <3>3. \A v \in Workers :
            workers'[v].step # "idle" =>
              workers'[v].press \in Presses /\ inbox[workers'[v].press].status # "absent"
      BY <1>a, <2>2, <3>2 DEF Busy
    <3> QED BY <1>0, <1>a, <2>2, <3>1, <3>2, <3>3, RowsKept
  <2>3. CASE Resolve(w)
    <3>1. Busy(w) /\ UNCHANGED <<notices, effects, inbox, replies, faults>>
      BY <2>3 DEF Resolve, At, Busy
    <3>2. /\ callbacks' \in [Tokens -> CallbackActions]
          /\ \A t \in Tokens :
               ButtonOK(callbacks'[t]) /\ ButtonKept(callbacks[t], callbacks'[t])
      BY <1>0, <2>3, <3>1, ResolveFacts
    <3>3. \E step \in Steps, verdict \in Verdicts : Move(w, step, verdict)
      BY <2>3 DEF Resolve, Steps, Verdicts
    <3> QED BY <1>a, <2>2, <3>1, <3>2, <3>3
  <2>4. CASE Look(w) \/ Recheck(w)
    <3>1. Busy(w) /\ UNCHANGED <<notices, callbacks, effects, inbox, replies, faults>>
      BY <2>4 DEF Look, Recheck, At, Busy
    <3>2. \E step \in Steps, verdict \in Verdicts : Move(w, step, verdict)
      BY <2>4 DEF Look, Recheck, Steps, Verdicts
    <3> QED BY <1>a, <2>2, <3>1, <3>2
  <2>5. ASSUME NEW mode \in PoolMode, NEW report \in SUBSET Evidence, Execute(w, mode, report)
        PROVE  RowsOK' /\ Kept
    <3>1. Busy(w) /\ UNCHANGED <<callbacks, inbox, replies, faults>>
      BY <2>5 DEF Execute, At, Busy
    <3>2. CASE Perform(w, mode, report)
      <4>1. \A n \in notices' : NoticeOK(n)
        BY <1>0, <3>2, AnnounceFacts DEF Perform
      <4>2. effects' \in [Presses -> Nat]
        <5>1. PressOf(w) \in Presses
          BY <1>0, <3>1, BusyFacts
        <5> QED BY <1>a, <3>2, <5>1 DEF Perform
      <4>3. Move(w, "complete", "done")
        BY <3>2 DEF Perform
      <4> QED BY <1>a, <2>2, <3>1, <4>1, <4>2, <4>3 DEF Steps, Verdicts
    <3>3. CASE Conflict(w, mode, report) \/ Refuse(w, mode, report)
      <4>1. /\ UNCHANGED <<notices, effects>>
            /\ \E step \in Steps, verdict \in Verdicts : Move(w, step, verdict)
        BY <3>3 DEF Conflict, Refuse, Steps, Verdicts
      <4> QED BY <1>a, <2>2, <3>1, <4>1
    <3> QED BY <2>5, <3>2, <3>3 DEF Execute
  <2>6. CASE CompleteClaim(w)
    <3>1. Busy(w) /\ UNCHANGED <<notices, effects, inbox, replies, faults>>
      BY <2>6 DEF CompleteClaim, At, Busy
    <3>2. /\ callbacks' \in [Tokens -> CallbackActions]
          /\ \A t \in Tokens :
               ButtonOK(callbacks'[t]) /\ ButtonKept(callbacks[t], callbacks'[t])
      BY <1>0, <2>6, <3>1, CompleteFacts
    <3>3. workers[w].verdict \in Verdicts
      BY <1>a DEF WorkerStates
    <3>4. \E step \in Steps, verdict \in Verdicts : Move(w, step, verdict)
      BY <2>6, <3>3 DEF CompleteClaim, Steps, Verdicts
    <3> QED BY <1>a, <2>2, <3>1, <3>2, <3>4
  <2>7. CASE QueueReply(w)
    <3>1. Busy(w) /\ UNCHANGED <<notices, callbacks, effects, inbox, faults>>
          /\ Move(w, "mark", "none")
      BY <2>7 DEF QueueReply, At, Busy
    <3>2. workers[w].verdict \in Verdicts
      BY <1>a DEF WorkerStates
    <3>3. replies' \in [Presses -> Verdicts]
      BY <1>a, <2>7, <3>2 DEF QueueReply
    <3> QED BY <1>a, <2>2, <3>1, <3>3 DEF Steps, Verdicts
  <2>8. CASE FinishPress(w) \/ FailPress(w)
    <3> DEFINE p == workers[w].press
    <3>1. /\ Busy(w) /\ UNCHANGED <<notices, callbacks, effects, replies, faults>>
      BY <2>8 DEF FinishPress, FailPress, At, Busy
    <3>2. p \in Presses /\ inbox[p].status # "absent" /\ inbox[p].attempts \in Nat
          /\ inbox[p].status \in {"pending", "processing", "processed", "dead"}
      BY <1>a, <3>1 DEF InboxEvents
    <3>3. PICK status \in {"pending", "processing", "processed", "dead"} :
            inbox' = [inbox EXCEPT ![p].status = status]
      BY <2>8, <3>2 DEF FinishPress, FailPress
    <3>4. inbox' = [inbox EXCEPT ![p].status = status, ![p].attempts = inbox[p].attempts]
      BY <1>a, <3>2, <3>3 DEF InboxEvents
    <3> HIDE DEF p
    <3>5. /\ inbox' \in [Presses -> InboxEvents]
          /\ \A q \in Presses :
               /\ q # p => inbox'[q] = inbox[q]
               /\ inbox'[q].token = inbox[q].token /\ inbox'[q].actor = inbox[q].actor
               /\ inbox'[q].status = "absent" =>
                    inbox[q].status = "absent" /\ inbox'[q] = NoEvent
      BY <1>0, <3>2, <3>4, EventFacts
    <3>6. Kept
      BY <1>0, <1>a, <3>1, <3>5 DEF Kept
    <3>7. /\ workers' \in [Workers -> WorkerStates]
          /\ \A v \in Workers : v # w => workers'[v] = workers[v]
          /\ workers'[w].step = "idle"
      BY <1>0, <2>8, IdleFacts DEF FinishPress, FailPress
    <3>8. \A v \in Workers :
            workers'[v].step # "idle" =>
              workers'[v].press \in Presses /\ inbox[workers'[v].press].status # "absent"
      BY <1>a, <3>7 DEF Busy
    <3> QED BY <1>0, <1>a, <3>1, <3>2, <3>5, <3>6, <3>7, <3>8, RowsKept
  <2>9. CASE Crash(w)
    <3>1. /\ UNCHANGED <<notices, callbacks, effects, inbox, replies>>
          /\ workers' = [workers EXCEPT ![w] = Idle] /\ faults' \in 0 .. MaxFaults
      BY <2>9, <1>a, LimitsAssumption DEF Crash
    <3>2. /\ workers' \in [Workers -> WorkerStates]
          /\ \A v \in Workers : v # w => workers'[v] = workers[v]
          /\ workers'[w].step = "idle"
      BY <1>0, <3>1, IdleFacts
    <3>3. Kept
      BY <1>0, <1>a, <3>1 DEF Kept
    <3> QED BY <1>0, <1>a, <3>1, <3>2, <3>3, RowsKept DEF Busy
  <2> QED BY <1>7, <2>1, <2>3, <2>4, <2>5, <2>6, <2>7, <2>8, <2>9 DEF WorkerStep
<1> QED BY <1>1, <1>2, <1>3, <1>4, <1>5, <1>6, <1>7 DEF CallbackNext

-----------------------------------------------------------------------------
(* Who holds a claim and how far an order is: what is left to show of a    *)
(* step for these layers to hold after it.                                 *)

Reporting == {"complete", "reply"}
Holding == {"look", "execute", "recheck", "complete"}

\* A claim held before a step is held after it.
LEMMA ClaimsKept ==
  ASSUME Base, Base', Kept, ClaimsHeld,
         \A v \in Workers : workers'[v].step \in Holding =>
           \/ workers[v].step \in Holding /\ workers'[v].press = workers[v].press
           \/ (CallbackOf(v).claim = PressOf(v))',
         \A v \in Workers : workers'[v].step = "look" =>
           workers'[v] = workers[v] \/ (CallbackOf(v).action = "start_travel")',
         \A t \in Tokens :
           /\ callbacks'[t].claim # callbacks[t].claim =>
                callbacks'[t].claim \in Presses /\ inbox[callbacks'[t].claim].status # "absent"
           /\ callbacks'[t].completed =>
                callbacks[t].completed \/ callbacks[t].claim # NoPress,
         \A p \in Presses : effects'[p] > 0 =>
           effects[p] > 0 \/ (inbox[p].status # "absent" /\ ButtonOf(p).claim = p)
  PROVE  ClaimsHeld'
<1>0. RowsOK /\ RowsOK'
  BY DEF Base
<1>1. ASSUME NEW p \in Presses, inbox[p].status # "absent"
      PROVE  /\ inbox'[p].status # "absent"
             /\ ButtonOf(p)'.action = ButtonOf(p).action
             /\ ButtonOf(p).claim = p => ButtonOf(p)'.claim = p
  <2>1. inbox[p].token \in Tokens /\ ButtonOf(p).action # "none"
    BY <1>0, <1>1, PressFacts DEF Actions
  <2> QED BY <1>1, <2>1, PressAssumption DEF Kept, ButtonKept, ButtonOf
<1>2. ASSUME NEW t \in Tokens, callbacks[t].claim # NoPress
      PROVE  callbacks'[t].claim = callbacks[t].claim
  BY <1>0, <1>2 DEF Kept, ButtonKept, RowsOK, ButtonOK, NoCallback
<1>3. ASSUME NEW v \in Workers, workers'[v].step \in Holding
      PROVE  (CallbackOf(v).claim = PressOf(v))'
  <2>1. CASE workers[v].step \in Holding /\ workers'[v].press = workers[v].press
    <3>1. /\ Busy(v) /\ PressOf(v) \in Presses /\ inbox[PressOf(v)].status # "absent"
          /\ CallbackOf(v) = ButtonOf(PressOf(v)) /\ CallbackOf(v).claim = PressOf(v)
      BY <1>0, <2>1, BusyFacts DEF ClaimsHeld, Holding, Busy
    <3>2. ButtonOf(PressOf(v))'.claim = PressOf(v) /\ PressOf(v)' = PressOf(v)
      BY <1>1, <2>1, <3>1 DEF PressOf, ButtonOf
    <3> QED BY <2>1, <3>2 DEF CallbackOf, TokenOf, ButtonOf, PressOf
  <2> QED BY <1>3, <2>1
<1>4. ASSUME NEW v \in Workers, workers'[v].step = "look"
      PROVE  (CallbackOf(v).action = "start_travel")'
  <2>1. CASE workers'[v] = workers[v]
    <3>1. /\ Busy(v) /\ PressOf(v) \in Presses /\ inbox[PressOf(v)].status # "absent"
          /\ CallbackOf(v) = ButtonOf(PressOf(v)) /\ CallbackOf(v).action = "start_travel"
      BY <1>0, <1>4, <2>1, BusyFacts DEF ClaimsHeld, Busy
    <3>2. ButtonOf(PressOf(v))'.action = "start_travel" /\ PressOf(v)' = PressOf(v)
      BY <1>1, <2>1, <3>1 DEF PressOf, ButtonOf
    <3> QED BY <2>1, <3>2 DEF CallbackOf, TokenOf, ButtonOf, PressOf
  <2> QED BY <1>4, <2>1
<1>5. ASSUME NEW t \in Tokens
      PROVE  /\ callbacks'[t].claim # NoPress => inbox'[callbacks'[t].claim].status # "absent"
             /\ callbacks'[t].completed => callbacks'[t].claim # NoPress
  <2>1. callbacks[t].claim \in Presses \cup {NoPress}
    BY <1>0 DEF RowsOK, CallbackActions
  <2>2. /\ callbacks[t].claim # NoPress => inbox[callbacks[t].claim].status # "absent"
        /\ callbacks[t].completed => callbacks[t].claim # NoPress
    BY DEF ClaimsHeld
  <2> QED BY <1>1, <1>2, <2>1, <2>2
<1>6. ASSUME NEW p \in Presses, effects'[p] > 0
      PROVE  inbox'[p].status # "absent" /\ ButtonOf(p)'.claim = p
  BY <1>1, <1>6 DEF ClaimsHeld
<1> QED BY <1>3, <1>4, <1>5, <1>6 DEF ClaimsHeld, Holding

\* What a press has reached it has reached for good.
LEMMA ReachedKept ==
  ASSUME Base, Kept, NEW p \in Presses, inbox[p].status # "absent"
  PROVE  /\ ButtonOf(p)'.action = ButtonOf(p).action /\ ButtonOf(p)'.order = ButtonOf(p).order
         /\ inbox'[p].status # "absent"
         /\ Reached(ButtonOf(p), inbox[p].actor) => Reached(ButtonOf(p), inbox[p].actor)'
         /\ ButtonOf(p).action \in ForwardActions =>
              (Beyond(orders[ButtonOf(p).order], ButtonOf(p).action) =>
                 Beyond(orders[ButtonOf(p).order], ButtonOf(p).action)')
<1>1. /\ inbox[p].token \in Tokens /\ ButtonOf(p).order \in Orders
      /\ ButtonOf(p).action \in Actions
  BY PressFacts DEF Base
<1>2. /\ ButtonOf(p)'.action = ButtonOf(p).action /\ ButtonOf(p)'.order = ButtonOf(p).order
      /\ inbox'[p].actor = inbox[p].actor /\ inbox'[p].status # "absent"
  BY <1>1 DEF Kept, ButtonKept, ButtonOf, Actions
<1>3. Moved(orders[ButtonOf(p).order], orders'[ButtonOf(p).order])
  BY <1>1 DEF Kept
<1> DEFINE i == ButtonOf(p).order
           action == ButtonOf(p).action
<1>4. action \in ForwardActions => (Beyond(orders[i], action) => Beyond(orders'[i], action))
  BY <1>3 DEF Moved
<1>5. action \in {"accept", "start_work"} /\ Beyond(orders[i], action) =>
        orders'[i].assignee = orders[i].assignee
  BY <1>3 DEF Moved, Beyond, SinceAccepted, SinceWork
<1>6. {"accept", "start_work", "submit_report"} \subseteq ForwardActions
  BY DEF ForwardActions
<1>7. Reached(ButtonOf(p), inbox[p].actor) => Reached(ButtonOf(p), inbox[p].actor)'
  BY <1>2, <1>4, <1>5, <1>6 DEF Reached
<1> QED BY <1>2, <1>4, <1>7

\* The orders do not fall back behind what was counted, told or is about to be.
LEMMA ProgressKept ==
  ASSUME Base, Base', Kept, ClaimsHeld, Progress,
         \A p \in Presses :
           \/ effects'[p] = effects[p]
           \/ /\ effects'[p] = effects[p] + 1 /\ inbox[p].status # "absent"
              /\ ButtonOf(p).action \in ForwardActions =>
                   /\ ~Beyond(orders[ButtonOf(p).order], ButtonOf(p).action)
                   /\ Beyond(orders'[ButtonOf(p).order], ButtonOf(p).action),
         \A p \in Presses : replies'[p] = "done" =>
           \/ replies[p] = "done"
           \/ inbox[p].status # "absent" /\ Reached(ButtonOf(p), inbox[p].actor),
         \A v \in Workers : workers'[v].step \in Reporting /\ workers'[v].verdict = "done" =>
           \/ /\ workers[v].step \in Reporting /\ workers[v].verdict = "done"
              /\ workers'[v].press = workers[v].press
           \/ Reached(CallbackOf(v), ActorOf(v))'
  PROVE  Progress'
<1>0. RowsOK /\ effects \in [Presses -> Nat]
  BY DEF Base, RowsOK
<1>1. ASSUME NEW p \in Presses, effects'[p] > 0, ButtonOf(p)'.action \in ForwardActions
      PROVE  effects'[p] = 1 /\ Beyond(orders[ButtonOf(p).order], ButtonOf(p).action)'
  <2>1. inbox[p].status # "absent"
    BY <1>1 DEF ClaimsHeld
  <2>2. /\ ButtonOf(p)'.action = ButtonOf(p).action /\ ButtonOf(p)'.order = ButtonOf(p).order
        /\ Beyond(orders[ButtonOf(p).order], ButtonOf(p).action) =>
             Beyond(orders[ButtonOf(p).order], ButtonOf(p).action)'
    BY <1>1, <2>1, ReachedKept
  <2>3. effects[p] > 0 =>
          effects[p] = 1 /\ Beyond(orders[ButtonOf(p).order], ButtonOf(p).action)
    BY <1>1, <2>2 DEF Progress
  <2>4. CASE effects'[p] = effects[p]
    BY <1>1, <2>2, <2>3, <2>4
  <2>5. CASE effects'[p] # effects[p]
    <3>1. /\ effects'[p] = effects[p] + 1
          /\ ~Beyond(orders[ButtonOf(p).order], ButtonOf(p).action)
          /\ Beyond(orders'[ButtonOf(p).order], ButtonOf(p).action)
      BY <1>1, <2>2, <2>5
    <3>2. effects[p] = 0
      BY <1>0, <2>3, <3>1
    <3> QED BY <2>2, <3>1, <3>2
  <2> QED BY <2>4, <2>5
<1>2. ASSUME NEW p \in Presses, replies'[p] = "done"
      PROVE  inbox'[p].status # "absent" /\ Reached(ButtonOf(p), inbox[p].actor)'
  BY <1>2, ReachedKept DEF Progress
<1>3. ASSUME NEW v \in Workers, workers'[v].step \in Reporting, workers'[v].verdict = "done"
      PROVE  Reached(CallbackOf(v), ActorOf(v))'
  <2>1. CASE /\ workers[v].step \in Reporting /\ workers[v].verdict = "done"
             /\ workers'[v].press = workers[v].press
    <3>1. /\ PressOf(v) \in Presses /\ inbox[PressOf(v)].status # "absent"
          /\ CallbackOf(v) = ButtonOf(PressOf(v)) /\ ActorOf(v) = inbox[PressOf(v)].actor
      BY <1>0, <2>1, BusyFacts DEF Busy, Reporting, ActorOf
    <3>2. Reached(CallbackOf(v), ActorOf(v))
      BY <2>1 DEF Progress, Reporting
    <3>3. PICK p \in Presses : p = PressOf(v)
      BY <3>1
    <3>4. PressOf(v)' = p
      BY <2>1, <3>3 DEF PressOf
    <3>5. Reached(ButtonOf(p), inbox[p].actor)'
      BY <3>1, <3>2, <3>3, ReachedKept
    <3> QED BY <3>4, <3>5 DEF CallbackOf, TokenOf, ActorOf, ButtonOf
  <2> QED BY <1>3, <2>1
<1> QED BY <1>1, <1>2, <1>3 DEF Progress, Reporting

\* Steps in which no worker takes part.
Quiet ==
  \/ UNCHANGED callbackVars
  \/ ApiCommand
  \/ \E notice \in notices : Project(notice)
  \/ \E i \in Orders : OpenCard(i)
  \/ \E p \in Presses, t \in Tokens : \E actor \in callbacks[t].to : Press(p, t, actor)
  \/ \E t \in Tokens : Expire(t)

\* They leave the workers, the claims and what was done and told alone.
LEMMA QuietFacts ==
  ASSUME Base, Quiet
  PROVE  /\ UNCHANGED <<workers, effects, replies>>
         /\ \A t \in Tokens :
              /\ callbacks'[t].claim = callbacks[t].claim
              /\ callbacks'[t].completed = callbacks[t].completed
<1>0. RowsOK /\ \A n \in notices : NoticeOK(n)
  BY DEF Base, RowsOK
<1>1. ASSUME NEW n, NoticeOK(n), Recipients(n) # {}, Mint(n), NEW t \in Tokens
      PROVE  /\ callbacks'[t].claim = callbacks[t].claim
             /\ callbacks'[t].completed = callbacks[t].completed
  <2>1. /\ callbacks[t] \in CallbackActions
        /\ callbacks' \in [Tokens -> CallbackActions]
    BY <1>0, <1>1, MintFacts DEF RowsOK
  <2>2. callbacks[t].completed \in BOOLEAN /\ callbacks'[t].completed \in BOOLEAN
    BY <2>1 DEF CallbackActions
  <2>3. \/ callbacks'[t] = callbacks[t]
        \/ /\ callbacks[t] = NoCallback
           /\ callbacks'[t].claim = NoPress /\ ~callbacks'[t].completed
    BY <1>1, MintFacts
  <2> QED BY <2>2, <2>3 DEF NoCallback
<1>2. CASE UNCHANGED callbackVars \/ ApiCommand
  BY <1>2 DEF callbackVars, ApiCommand, queueVars
<1>3. ASSUME NEW n \in notices, Project(n)
      PROVE  /\ UNCHANGED <<workers, effects, replies>>
             /\ \A t \in Tokens :
                  /\ callbacks'[t].claim = callbacks[t].claim
                  /\ callbacks'[t].completed = callbacks[t].completed
  <2>1. UNCHANGED <<workers, effects, replies>>
    BY <1>3 DEF Project, queueVars
  <2>2. CASE Recipients(n) = {}
    BY <1>3, <2>1, <2>2 DEF Project
  <2>3. CASE Recipients(n) # {}
    BY <1>0, <1>1, <1>3, <2>1, <2>3 DEF Project
  <2> QED BY <2>2, <2>3
<1>4. ASSUME NEW i \in Orders, OpenCard(i)
      PROVE  /\ UNCHANGED <<workers, effects, replies>>
             /\ \A t \in Tokens :
                  /\ callbacks'[t].claim = callbacks[t].claim
                  /\ callbacks'[t].completed = callbacks[t].completed
  <2> DEFINE n == NoticeOf(orders[i].status, i, orders[i], NoActor)
  <2>1. Mint(n) /\ UNCHANGED <<workers, effects, replies>>
    BY <1>4 DEF OpenCard, queueVars
  <2>2. NoticeOK(n) /\ Recipients(n) # {}
    BY <1>4, CardFacts DEF Base
  <2> QED BY <1>1, <2>1, <2>2
<1>5. ASSUME NEW p \in Presses, NEW t \in Tokens, NEW actor, Press(p, t, actor)
      PROVE  UNCHANGED <<callbacks, workers, effects, replies>>
  BY <1>5 DEF Press
<1>6. ASSUME NEW t \in Tokens, Expire(t)
      PROVE  /\ UNCHANGED <<workers, effects, replies>>
             /\ \A u \in Tokens :
                  /\ callbacks'[u].claim = callbacks[u].claim
                  /\ callbacks'[u].completed = callbacks[u].completed
  BY <1>0, <1>6, ExpireFacts DEF Expire
<1> QED BY <1>2, <1>3, <1>4, <1>5, <1>6 DEF Quiet

\* A claim and what is told of it survive every step.
LEMMA LayersStep ==
  ASSUME Base, ClaimsHeld, Progress, [CallbackNext]_callbackVars
  PROVE  ClaimsHeld' /\ Progress'
<1>0. Base' /\ Kept /\ RowsOK /\ RowsOK'
  BY RowsStep DEF Base
<1>a. workers \in [Workers -> WorkerStates] /\ callbacks \in [Tokens -> CallbackActions]
  BY <1>0 DEF RowsOK
<1>1. CASE Quiet
  <2>1. /\ UNCHANGED <<workers, effects, replies>>
        /\ \A t \in Tokens :
             /\ callbacks'[t].claim = callbacks[t].claim
             /\ callbacks'[t].completed = callbacks[t].completed
    BY <1>1, QuietFacts
  <2> QED BY <1>0, <2>1, ClaimsKept, ProgressKept
<1>2. ASSUME NEW w \in Workers, WorkerStep(w)
      PROVE  ClaimsHeld' /\ Progress'
  \* A worker that takes an event or lets go of it claims and tells nothing.
  <2>1. ASSUME UNCHANGED <<callbacks, effects, replies>>,
               \A v \in Workers : v # w => workers'[v] = workers[v],
               workers'[w].step \notin Holding \cup Reporting
        PROVE  ClaimsHeld' /\ Progress'
    BY <1>0, <2>1, ClaimsKept, ProgressKept DEF Holding, Reporting
  <2>2. ASSUME NEW p \in Presses, Take(w, p)
        PROVE  ClaimsHeld' /\ Progress'
    <3>1. UNCHANGED <<callbacks, effects, replies>>
      BY <2>2 DEF Take
    <3>2. /\ \A v \in Workers : v # w => workers'[v] = workers[v]
          /\ workers'[w].step = "resolve"
      BY <1>a, <2>2 DEF Take
    <3> QED BY <2>1, <3>1, <3>2 DEF Holding, Reporting
  <2>3. CASE FinishPress(w) \/ FailPress(w) \/ Crash(w)
    <3>1. UNCHANGED <<callbacks, effects, replies>> /\ workers' = [workers EXCEPT ![w] = Idle]
      BY <2>3 DEF FinishPress, FailPress, Crash
    <3> QED BY <1>0, <2>1, <3>1, IdleFacts DEF Holding, Reporting
  \* The others go on with the press they have.
  <2>b. ASSUME ~At(w, "idle")
        PROVE  /\ Busy(w) /\ PressOf(w) \in Presses /\ inbox[PressOf(w)].status # "absent"
               /\ TokenOf(w) \in Tokens
               /\ CallbackOf(w) = ButtonOf(PressOf(w)) /\ ActorOf(w) = inbox[PressOf(w)].actor
               /\ CallbackOf(w).action \in Actions /\ CallbackOf(w).order \in Orders
               /\ CallbackOf(w) = callbacks[TokenOf(w)]
    BY <1>0, <2>b, BusyFacts DEF Busy, At, ActorOf, CallbackOf
  <2>c. ASSUME ~At(w, "idle"), workers'[w].press = workers[w].press
        PROVE  /\ PressOf(w)' = PressOf(w) /\ TokenOf(w)' = TokenOf(w)
               /\ ActorOf(w)' = ActorOf(w)
               /\ CallbackOf(w)' = callbacks'[TokenOf(w)]
               /\ CallbackOf(w)'.action = CallbackOf(w).action
    <3>1. PressOf(w)' = PressOf(w)
      BY <2>c DEF PressOf
    <3>2. TokenOf(w)' = TokenOf(w) /\ ActorOf(w)' = ActorOf(w)
      BY <1>0, <2>b, <2>c, <3>1 DEF TokenOf, ActorOf, Kept
    <3>3. CallbackOf(w)' = callbacks'[TokenOf(w)]
      BY <3>2 DEF CallbackOf
    <3> QED BY <1>0, <2>b, <2>c, <3>1, <3>2, <3>3 DEF Kept, ButtonKept, Actions
  <2>4. CASE Resolve(w)
    <3>1. ~At(w, "idle") /\ UNCHANGED <<effects, replies>>
      BY <2>4 DEF Resolve, At
    <3>2. /\ \A t \in Tokens :
               /\ callbacks'[t].completed = callbacks[t].completed
               /\ callbacks'[t].claim # callbacks[t].claim => callbacks'[t].claim = PressOf(w)
          /\ IF Spendable(CallbackOf(w), PressOf(w))
               THEN /\ callbacks'[TokenOf(w)].claim = PressOf(w)
                    /\ Move(w, IF CallbackOf(w).action = "start_travel"
                                 THEN "look" ELSE "execute", "none")
               ELSE Move(w, "reply", "refused")
      BY <1>0, <2>4, <2>b, <3>1, ResolveFacts
    <3>3. \A t \in Tokens : callbacks[t].completed => callbacks[t].claim # NoPress
      BY DEF ClaimsHeld
    <3>4. CASE Spendable(CallbackOf(w), PressOf(w))
      <4> DEFINE step == IF CallbackOf(w).action = "start_travel" THEN "look" ELSE "execute"
      <4>1. step \in Steps /\ "none" \in Verdicts /\ Move(w, step, "none")
        BY <3>2, <3>4 DEF Steps, Verdicts
      <4>2. /\ \A v \in Workers : v # w => workers'[v] = workers[v]
            /\ workers'[w].press = workers[w].press /\ workers'[w].step = step
            /\ workers'[w].verdict = "none"
        BY <1>0, <4>1, MoveFacts
      <4>3. /\ (CallbackOf(w).claim = PressOf(w))'
            /\ workers'[w].step = "look" => (CallbackOf(w).action = "start_travel")'
        BY <2>c, <3>1, <3>2, <3>4, <4>2
      <4> HIDE DEF step
      <4>4. ClaimsHeld'
        BY <1>0, <2>b, <3>1, <3>2, <3>3, <4>2, <4>3, ClaimsKept
      <4>5. Progress'
        BY <1>0, <3>1, <4>2, ProgressKept
      <4> QED BY <4>4, <4>5
    <3>5. CASE ~Spendable(CallbackOf(w), PressOf(w))
      <4>1. /\ \A v \in Workers : v # w => workers'[v] = workers[v]
            /\ workers'[w].step = "reply" /\ workers'[w].verdict = "refused"
        BY <1>0, <3>2, <3>5, MoveFacts DEF Steps, Verdicts
      <4>2. ClaimsHeld'
        BY <1>0, <2>b, <3>1, <3>2, <3>3, <4>1, ClaimsKept DEF Holding
      <4>3. Progress'
        BY <1>0, <3>1, <4>1, ProgressKept
      <4> QED BY <4>2, <4>3
    <3> QED BY <3>4, <3>5
  <2>5. CASE Look(w)
    <3>1. ~At(w, "idle") /\ UNCHANGED <<callbacks, effects, replies>>
          /\ workers[w].step = "look"
      BY <2>5 DEF Look, At
    <3>2. PICK step \in {"complete", "execute"}, verdict \in {"done", "none"} :
            Move(w, step, verdict)
      BY <2>5 DEF Look
    <3>3. /\ \A v \in Workers : v # w => workers'[v] = workers[v]
          /\ workers'[w].press = workers[w].press /\ workers'[w].step = step
      BY <1>0, <3>2, MoveFacts DEF Steps, Verdicts
    <3>4. ClaimsHeld'
      BY <1>0, <3>1, <3>3, ClaimsKept DEF Holding
    <3>5. CallbackOf(w)'.action = "start_travel"
      BY <2>c, <3>1, <3>3 DEF ClaimsHeld
    <3>6. Reached(CallbackOf(w), ActorOf(w))'
      BY <3>5 DEF Reached
    <3>7. Progress'
      BY <1>0, <3>1, <3>3, <3>6, ProgressKept
    <3> QED BY <3>4, <3>7
  <2>6. ASSUME NEW mode \in PoolMode, NEW report \in SUBSET Evidence, Execute(w, mode, report)
        PROVE  ClaimsHeld' /\ Progress'
    <3>1. ~At(w, "idle") /\ UNCHANGED <<callbacks, replies>> /\ workers[w].step = "execute"
      BY <2>6 DEF Execute, At
    <3>2. CallbackOf(w).claim = PressOf(w)
      BY <3>1 DEF ClaimsHeld
    <3>3. CASE Perform(w, mode, report)
      <4>1. Command(w, mode, report) /\ Move(w, "complete", "done")
            /\ effects' = [effects EXCEPT ![PressOf(w)] = IF orders' # orders THEN @ + 1 ELSE @]
        BY <3>3 DEF Perform
      <4>2. /\ \A v \in Workers : v # w => workers'[v] = workers[v]
            /\ workers'[w].press = workers[w].press /\ workers'[w].step = "complete"
        BY <1>0, <4>1, MoveFacts DEF Steps, Verdicts
      <4>3. \A p \in Presses : effects'[p] = effects[p] \/
                               (p = PressOf(w) /\ effects'[p] = effects[p] + 1)
        BY <1>0, <4>1 DEF RowsOK
      <4>4. ClaimsHeld'
        <5>1. \A p \in Presses : effects'[p] > 0 =>
                effects[p] > 0 \/ (inbox[p].status # "absent" /\ ButtonOf(p).claim = p)
          BY <2>b, <3>1, <3>2, <4>3
        <5> QED BY <1>0, <3>1, <4>2, <5>1, ClaimsKept DEF Holding
      <4>5. CallbackOf(w).action \in ForwardActions =>
              /\ ~Beyond(orders[CallbackOf(w).order], CallbackOf(w).action)
              /\ Beyond(orders'[CallbackOf(w).order], CallbackOf(w).action)
              /\ CallbackOf(w).action # "pool_publish" =>
                   orders'[CallbackOf(w).order].assignee = ActorOf(w)
        BY <2>b, <3>1, <4>1, CommandReaches
      <4>6. CallbackOf(w)' = CallbackOf(w) /\ ActorOf(w)' = ActorOf(w)
        BY <2>b, <2>c, <3>1, <4>2
      <4>7. Reached(CallbackOf(w), ActorOf(w))'
        BY <4>5, <4>6 DEF Reached, ForwardActions
      <4>8. Progress'
        <5>1. \A p \in Presses :
                \/ effects'[p] = effects[p]
                \/ /\ effects'[p] = effects[p] + 1 /\ inbox[p].status # "absent"
                   /\ ButtonOf(p).action \in ForwardActions =>
                        /\ ~Beyond(orders[ButtonOf(p).order], ButtonOf(p).action)
                        /\ Beyond(orders'[ButtonOf(p).order], ButtonOf(p).action)
          BY <2>b, <3>1, <4>3, <4>5
        <5> QED BY <1>0, <3>1, <4>2, <4>7, <5>1, ProgressKept
      <4> QED BY <4>4, <4>8
    <3>4. CASE Conflict(w, mode, report) \/ Refuse(w, mode, report)
      <4>1. PICK step \in {"fail", "complete", "recheck"}, verdict \in {"none", "refused"} :
              Move(w, step, verdict)
        BY <3>4 DEF Conflict, Refuse
      <4>2. UNCHANGED effects
        BY <3>4 DEF Conflict, Refuse
      <4>3. /\ \A v \in Workers : v # w => workers'[v] = workers[v]
            /\ workers'[w].press = workers[w].press /\ workers'[w].step = step
            /\ workers'[w].verdict # "done"
        BY <1>0, <4>1, MoveFacts DEF Steps, Verdicts
      <4>4. ClaimsHeld'
        BY <1>0, <3>1, <4>2, <4>3, ClaimsKept DEF Holding
      <4>5. Progress'
        BY <1>0, <3>1, <4>2, <4>3, ProgressKept
      <4> QED BY <4>4, <4>5
    <3> QED BY <2>6, <3>3, <3>4 DEF Execute
  <2>7. CASE Recheck(w)
    <3>1. ~At(w, "idle") /\ UNCHANGED <<vars, callbacks, effects, replies>>
          /\ workers[w].step = "recheck"
      BY <2>7 DEF Recheck, At, dispatchVars
    <3> DEFINE verdict == IF Recognised(w) THEN "done" ELSE "refused"
    <3>2. verdict \in Verdicts /\ Move(w, "complete", verdict)
      BY <2>7 DEF Recheck, Verdicts
    <3>3. /\ \A v \in Workers : v # w => workers'[v] = workers[v]
          /\ workers'[w].press = workers[w].press /\ workers'[w].step = "complete"
          /\ workers'[w].verdict = verdict
      BY <1>0, <3>2, MoveFacts DEF Steps
    <3>4. ClaimsHeld'
      BY <1>0, <3>1, <3>3, ClaimsKept DEF Holding
    <3>5. CallbackOf(w)' = CallbackOf(w) /\ ActorOf(w)' = ActorOf(w) /\ UNCHANGED orders
      BY <2>b, <2>c, <3>1, <3>3 DEF vars
    <3>6. Recognised(w) => Reached(CallbackOf(w), ActorOf(w))
      BY DEF Recognised, Reached, Beyond, SinceAccepted, SinceWork, TerminalStatuses
    <3>7. verdict = "done" => Reached(CallbackOf(w), ActorOf(w))'
      BY <3>5, <3>6 DEF Reached
    <3> HIDE DEF verdict
    <3>8. Progress'
      BY <1>0, <3>1, <3>3, <3>7, ProgressKept
    <3> QED BY <3>4, <3>8
  <2>8. CASE CompleteClaim(w)
    <3>1. ~At(w, "idle") /\ UNCHANGED <<effects, replies>> /\ workers[w].step = "complete"
      BY <2>8 DEF CompleteClaim, At
    <3>2. \A t \in Tokens :
            /\ callbacks'[t].claim = callbacks[t].claim
            /\ callbacks'[t].completed # callbacks[t].completed =>
                 callbacks[t].claim = PressOf(w)
      BY <1>0, <2>8, <2>b, <3>1, CompleteFacts
    <3>3. PressOf(w) # NoPress /\ workers[w].verdict \in Verdicts
      BY <1>a, <2>b, <3>1, PressAssumption DEF WorkerStates
    <3>4. PICK step \in {"reply", "fail"}, verdict \in {workers[w].verdict, "none"} :
            Move(w, step, verdict)
      BY <2>8 DEF CompleteClaim
    <3>5. /\ \A v \in Workers : v # w => workers'[v] = workers[v]
          /\ workers'[w].press = workers[w].press /\ workers'[w].step = step
          /\ workers'[w].verdict = verdict
      BY <1>0, <3>3, <3>4, MoveFacts DEF Steps, Verdicts
    <3>6. \A t \in Tokens :
            callbacks'[t].completed => callbacks[t].completed \/ callbacks[t].claim # NoPress
      BY <3>2, <3>3
    <3>7. ClaimsHeld'
      BY <1>0, <3>1, <3>2, <3>5, <3>6, ClaimsKept DEF Holding
    <3>8. Progress'
      BY <1>0, <3>1, <3>5, ProgressKept DEF Reporting
    <3> QED BY <3>7, <3>8
  <2>9. CASE QueueReply(w)
    <3>1. ~At(w, "idle") /\ UNCHANGED <<callbacks, effects>> /\ workers[w].step = "reply"
          /\ Move(w, "mark", "none")
          /\ replies' = [replies EXCEPT ![PressOf(w)] =
                           IF @ = "none" THEN workers[w].verdict ELSE @]
      BY <2>9 DEF QueueReply, At
    <3>2. /\ \A v \in Workers : v # w => workers'[v] = workers[v]
          /\ workers'[w].step = "mark"
      BY <1>0, <3>1, MoveFacts DEF Steps, Verdicts
    <3>3. ClaimsHeld'
      BY <1>0, <3>1, <3>2, ClaimsKept DEF Holding
    <3>4. workers[w].verdict = "done" => Reached(CallbackOf(w), ActorOf(w))
      BY <3>1 DEF Progress
    <3>5. \A p \in Presses : replies'[p] = "done" =>
            \/ replies[p] = "done"
            \/ p = PressOf(w) /\ workers[w].verdict = "done"
      BY <1>0, <3>1 DEF RowsOK
    <3>6. Progress'
      BY <1>0, <2>b, <3>1, <3>2, <3>4, <3>5, ProgressKept DEF Reporting
    <3> QED BY <3>3, <3>6
  <2> QED BY <1>2, <2>2, <2>3, <2>4, <2>5, <2>6, <2>7, <2>8, <2>9 DEF WorkerStep
<1> QED BY <1>1, <1>2 DEF CallbackNext, Quiet

-----------------------------------------------------------------------------
(* While nothing went wrong a press is handled once.                       *)

\* A step of worker w with press p leaves the others where they were: their
\* buttons are claimed or completed by nobody else.
LEMMA OthersOnce ==
  ASSUME Base, Kept, ClaimsHeld, HandledOnce, NEW w \in Workers, NEW p \in Presses,
         \A v \in Workers : v # w =>
           workers'[v] = workers[v] /\ (Busy(v) => PressOf(v) # p),
         Busy(w) => PressOf(w) = p,
         workers'[w].step # "idle" => workers'[w].press = p,
         \A q \in Presses : q # p =>
           inbox'[q] = inbox[q] /\ effects'[q] = effects[q] /\ replies'[q] = replies[q],
         \A t \in Tokens :
           /\ callbacks'[t].claim # callbacks[t].claim => callbacks'[t].claim = p
           /\ callbacks'[t].completed # callbacks[t].completed => callbacks[t].claim = p
  PROVE  /\ \A v \in Workers : v # w /\ Busy(v)' => Once(v)'
         /\ \A q \in Presses : q # p => Settled(q)'
<1>0. RowsOK
  BY DEF Base
<1>1. ASSUME NEW q \in Presses, q # p, inbox[q].status # "absent"
      PROVE  /\ ButtonOf(q).claim = q /\ ~ButtonOf(q).completed => ~ButtonOf(q)'.completed
             /\ Untouched(q) => Untouched(q)'
  <2>1. inbox[q].token \in Tokens
    BY <1>0, <1>1, PressFacts
  <2>2. /\ ButtonOf(q)'.claim # ButtonOf(q).claim => ButtonOf(q)'.claim = p
        /\ ButtonOf(q)'.completed # ButtonOf(q).completed => ButtonOf(q).claim = p
    BY <1>1, <2>1 DEF ButtonOf
  <2> QED BY <1>1, <2>2 DEF Untouched
<1>2. ASSUME NEW v \in Workers, v # w, Busy(v)'
      PROVE  Once(v)'
  <2>1. Busy(v) /\ Once(v) /\ workers'[v] = workers[v]
    BY <1>2 DEF HandledOnce, Busy
  <2>2. PICK q \in Presses : q = PressOf(v) /\ q # p /\ inbox[q].status # "absent"
    BY <1>0, <1>2, <2>1, BusyFacts
  <2>3. PressOf(v)' = q /\ inbox'[q] = inbox[q]
        /\ effects'[q] = effects[q] /\ replies'[q] = replies[q]
    BY <1>2, <2>1, <2>2 DEF PressOf
  <2>4. ASSUME NEW u \in Workers, Busy(u)', PressOf(u)' = q
        PROVE  u = v
    <3>1. u # w
      BY <2>2, <2>4 DEF Busy, PressOf
    <3>2. Busy(u) /\ PressOf(u) = q
      BY <2>4, <3>1 DEF Busy, PressOf
    <3> QED BY <2>1, <2>2, <3>2 DEF Once
  <2>5. workers[v].step = "complete" => ButtonOf(q).claim = q
    BY <1>0, <2>1, <2>2, BusyFacts DEF ClaimsHeld
  <2>6. /\ workers[v].step \in {"resolve", "look", "execute", "recheck", "fail"} => Untouched(q)'
        /\ workers[v].step = "complete" => ~ButtonOf(q)'.completed
    BY <1>1, <2>1, <2>2, <2>5 DEF Once
  <2>7. ButtonOf(PressOf(v))' = ButtonOf(q)' /\ Untouched(PressOf(v))' = Untouched(q)'
    BY <2>3 DEF ButtonOf, Untouched
  <2> QED BY <2>1, <2>2, <2>3, <2>4, <2>6, <2>7 DEF Once, Untouched, ButtonOf
<1>3. ASSUME NEW q \in Presses, q # p
      PROVE  Settled(q)'
  <2>1. /\ inbox'[q] = inbox[q] /\ effects'[q] = effects[q] /\ replies'[q] = replies[q]
        /\ Settled(q)
    BY <1>3 DEF HandledOnce
  <2>2. inbox[q].status = "processing" => \E v \in Workers : Busy(v)' /\ PressOf(v)' = q
    BY <1>3, <2>1 DEF Settled, Busy, PressOf
  <2>3. inbox[q].status = "pending" => Untouched(q)'
    BY <1>1, <1>3, <2>1 DEF Settled
  <2> QED BY <2>1, <2>2, <2>3 DEF Settled
<1> QED BY <1>2, <1>3

\* No step without a fault handles a press a second time.
LEMMA OnceStep ==
  ASSUME Base, ClaimsHeld, HandledOnce, [CallbackNext]_callbackVars, faults = 0, faults' = 0
  PROVE  HandledOnce'
<1>0. Base' /\ Kept /\ RowsOK /\ RowsOK'
  BY RowsStep DEF Base
<1>a. /\ workers \in [Workers -> WorkerStates] /\ inbox \in [Presses -> InboxEvents]
      /\ effects \in [Presses -> Nat] /\ replies \in [Presses -> Verdicts]
      /\ \A p \in Presses : inbox[p].status # "absent" => inbox[p].token \in Tokens
  BY <1>0 DEF RowsOK, PressOK
<1>1. CASE Quiet
  <2>1. /\ UNCHANGED <<workers, effects, replies>>
        /\ \A t \in Tokens :
             /\ callbacks'[t].claim = callbacks[t].claim
             /\ callbacks'[t].completed = callbacks[t].completed
    BY <1>1, QuietFacts
  <2>2. ASSUME NEW p \in Presses, inbox[p].status # "absent"
        PROVE  /\ Untouched(p) => Untouched(p)'
               /\ ~ButtonOf(p).completed => ~ButtonOf(p)'.completed
    BY <1>0, <1>a, <2>1, <2>2 DEF Untouched, ButtonOf, Kept
  <2>3. ASSUME NEW w \in Workers, Busy(w)',
               inbox'[PressOf(w)] = inbox[PressOf(w)]
        PROVE  Once(w)'
    <3>1. Busy(w) /\ Once(w) /\ PressOf(w)' = PressOf(w)
      BY <2>1, <2>3 DEF HandledOnce, Busy, PressOf
    <3>2. PICK p \in Presses : p = PressOf(w) /\ inbox[p].status # "absent"
      BY <1>0, <3>1, BusyFacts
    <3>3. /\ Untouched(p) => Untouched(p)'
          /\ ~ButtonOf(p).completed => ~ButtonOf(p)'.completed
      BY <2>2, <3>2
    <3>4. \A v \in Workers : (Busy(v) /\ PressOf(v) = p)' => v = w
      BY <2>1, <3>1, <3>2 DEF Once, Busy, PressOf
    <3>5. PressOf(w)' = p /\ inbox'[p] = inbox[p] /\ UNCHANGED <<workers, effects, replies>>
      BY <2>1, <2>3, <3>1, <3>2
    <3> QED BY <3>1, <3>2, <3>3, <3>4, <3>5 DEF Once, Untouched, ButtonOf
  <2>4. CASE UNCHANGED inbox
    <3>1. ASSUME NEW p \in Presses PROVE Settled(p)'
      <4>1. Settled(p)
        BY DEF HandledOnce
      <4>2. inbox[p].status = "processing" => \E w \in Workers : Busy(w)' /\ PressOf(w)' = p
        BY <2>1, <4>1 DEF Settled, Busy, PressOf
      <4>3. inbox[p].status = "pending" => Untouched(p)'
        BY <2>2, <4>1 DEF Settled
      <4> QED BY <2>1, <2>4, <4>1, <4>2, <4>3 DEF Settled
    <3> QED BY <2>3, <2>4, <3>1 DEF HandledOnce
  <2>5. ASSUME NEW p \in Presses, NEW t \in Tokens, NEW actor \in callbacks[t].to,
               Press(p, t, actor)
        PROVE  HandledOnce'
    <3>1. /\ inbox[p].status = "absent" /\ UNCHANGED callbacks
          /\ \A q \in Presses : q # p => inbox'[q] = inbox[q]
          /\ inbox'[p].status = "pending" /\ inbox'[p].token = t
      BY <1>a, <2>5 DEF Press, NoEvent
    <3>2. effects[p] = 0 /\ replies[p] = "none"
      BY <3>1 DEF HandledOnce, Settled
    <3>3. callbacks[t].claim # p
      BY <3>1, PressAssumption DEF ClaimsHeld
    <3>4. Untouched(p)'
      BY <2>1, <3>1, <3>2, <3>3 DEF Untouched, ButtonOf
    <3>5. Settled(p)'
      BY <2>1, <3>1, <3>2, <3>4 DEF Settled
    <3>6. ASSUME NEW q \in Presses, q # p PROVE Settled(q)'
      <4>1. Settled(q) /\ inbox'[q] = inbox[q]
        BY <3>1, <3>6 DEF HandledOnce
      <4>2. inbox[q].status = "processing" => \E w \in Workers : Busy(w)' /\ PressOf(w)' = q
        BY <2>1, <4>1 DEF Settled, Busy, PressOf
      <4>3. inbox[q].status = "pending" => Untouched(q)'
        BY <2>2, <4>1 DEF Settled
      <4> QED BY <2>1, <4>1, <4>2, <4>3 DEF Settled
    <3>7. ASSUME NEW w \in Workers, Busy(w)' PROVE Once(w)'
      <4>1. Busy(w)
        BY <2>1, <3>7 DEF Busy
      <4>2. PressOf(w) \in Presses /\ PressOf(w) # p
        BY <1>0, <3>1, <4>1, BusyFacts
      <4> QED BY <2>3, <3>1, <3>7, <4>2
    <3> QED BY <3>5, <3>6, <3>7 DEF HandledOnce
  <2>6. UNCHANGED inbox \/ \E p \in Presses, t \in Tokens : \E actor \in callbacks[t].to :
                             Press(p, t, actor)
    BY <1>1 DEF Quiet, callbackVars, ApiCommand, Project, OpenCard, Expire, queueVars
  <2> QED BY <2>4, <2>5, <2>6
<1>2. ASSUME NEW w \in Workers, WorkerStep(w)
      PROVE  HandledOnce'
  <2>1. ASSUME NEW p \in Presses, Take(w, p)
        PROVE  HandledOnce'
    <3>1. /\ ~Busy(w) /\ UNCHANGED <<callbacks, effects, replies>>
          /\ inbox[p].status \in {"pending", "processing"}
      BY <2>1 DEF Take, At, Busy
    <3>2. inbox[p].status = "pending"
      <4>1. SUFFICES ASSUME inbox[p].status = "processing" PROVE FALSE
        BY <3>1
      <4>2. PICK v \in Workers : Busy(v) /\ PressOf(v) = p
        BY <4>1 DEF HandledOnce, Settled
      <4>3. workers[v].press = p /\ workers[v].attempt = inbox[p].attempts
        BY <4>2 DEF HandledOnce, Once, PressOf
      <4> QED BY <2>1, <4>1, <4>3 DEF Take
    <3>3. /\ \A v \in Workers : v # w => workers'[v] = workers[v]
          /\ workers'[w].press = p /\ workers'[w].attempt = inbox[p].attempts + 1
          /\ workers'[w].step = "resolve"
      BY <1>a, <2>1 DEF Take
    <3>4. /\ \A q \in Presses : q # p => inbox'[q] = inbox[q]
          /\ inbox'[p].status = "processing" /\ inbox'[p].attempts = inbox[p].attempts + 1
          /\ inbox'[p].token = inbox[p].token
      BY <1>a, <2>1 DEF Take, InboxEvents
    <3>5. \A v \in Workers : Busy(v) => PressOf(v) # p
      BY <3>2 DEF HandledOnce, Once
    <3>6. /\ \A v \in Workers : v # w /\ Busy(v)' => Once(v)'
          /\ \A q \in Presses : q # p => Settled(q)'
      BY <1>0, <3>1, <3>3, <3>4, <3>5, OthersOnce
    <3>7. Untouched(p)'
      BY <3>1, <3>2, <3>4 DEF HandledOnce, Settled, Untouched, ButtonOf
    <3>8. Busy(w)' /\ PressOf(w)' = p
      BY <3>3 DEF Busy, PressOf
    <3>9. \A v \in Workers : (Busy(v) /\ PressOf(v) = p)' => v = w
      BY <3>3, <3>5 DEF Busy, PressOf
    <3>10. Untouched(PressOf(w))'
      BY <3>7, <3>8 DEF Untouched, ButtonOf
    <3>11. Once(w)'
      BY <3>3, <3>4, <3>8, <3>9, <3>10 DEF Once
    <3>12. Settled(p)'
      BY <3>1, <3>4, <3>7, <3>8 DEF Settled, Untouched
    <3> QED BY <3>6, <3>11, <3>12 DEF HandledOnce
  \* The worker that moves has its press for itself.
  <2>a. ASSUME ~At(w, "idle")
        PROVE  /\ Busy(w) /\ PressOf(w) \in Presses /\ TokenOf(w) \in Tokens
               /\ inbox[PressOf(w)].token = TokenOf(w)
               /\ CallbackOf(w) = callbacks[TokenOf(w)]
               /\ CallbackOf(w) = ButtonOf(PressOf(w)) /\ Once(w)
    BY <1>0, <2>a, BusyFacts DEF At, Busy, HandledOnce, TokenOf, CallbackOf
  \* What is left to show when it moves on ...
  <2>b. ASSUME NEW p \in Presses, p = PressOf(w), ~At(w, "idle"),
               NEW step \in Steps \ {"idle"}, NEW verdict \in Verdicts, Move(w, step, verdict),
               UNCHANGED inbox,
               \A q \in Presses : q # p => effects'[q] = effects[q] /\ replies'[q] = replies[q],
               \A t \in Tokens :
                 /\ callbacks'[t].claim # callbacks[t].claim => callbacks'[t].claim = p
                 /\ callbacks'[t].completed # callbacks[t].completed => callbacks[t].claim = p,
               step \in {"resolve", "look", "execute", "recheck", "fail"} => Untouched(p)',
               step = "complete" => ~ButtonOf(p)'.completed,
               step \in {"complete", "reply"} =>
                 replies'[p] = "none" /\ (verdict = "refused" => effects'[p] = 0),
               replies'[p] = "refused" => effects'[p] = 0
        PROVE  HandledOnce'
    <3>1. /\ \A v \in Workers : v # w => workers'[v] = workers[v]
          /\ workers'[w].press = p /\ workers'[w].attempt = workers[w].attempt
          /\ workers'[w].step = step /\ workers'[w].verdict = verdict
      BY <1>0, <2>b, MoveFacts DEF PressOf
    <3>2. \A v \in Workers : v # w /\ Busy(v) => PressOf(v) # p
      BY <2>a, <2>b DEF Once
    <3>3. /\ \A v \in Workers : v # w /\ Busy(v)' => Once(v)'
          /\ \A q \in Presses : q # p => Settled(q)'
      BY <1>0, <2>b, <3>1, <3>2, OthersOnce
    <3>4. Busy(w)' /\ PressOf(w)' = p
      BY <2>b, <3>1 DEF Busy, PressOf
    <3>5. \A v \in Workers : (Busy(v) /\ PressOf(v) = p)' => v = w
      BY <3>1, <3>2 DEF Busy, PressOf
    <3>6. inbox[p].status = "processing" /\ workers[w].attempt = inbox[p].attempts
      BY <2>a, <2>b DEF Once
    <3>7. Untouched(PressOf(w))' = Untouched(p)' /\ ButtonOf(PressOf(w))' = ButtonOf(p)'
      BY <3>4 DEF Untouched, ButtonOf
    <3>8. Once(w)'
      BY <2>b, <3>1, <3>4, <3>5, <3>6, <3>7 DEF Once
    <3>9. Settled(p)'
      BY <2>b, <3>4, <3>6 DEF Settled
    <3> QED BY <3>3, <3>8, <3>9 DEF HandledOnce
  \* ... and when it lets go of it.
  <2>c. ASSUME NEW p \in Presses, p = PressOf(w), ~At(w, "idle"),
               NEW status \in {"pending", "processed", "dead"},
               inbox' = [inbox EXCEPT ![p].status = status],
               workers' = [workers EXCEPT ![w] = Idle],
               UNCHANGED <<callbacks, effects, replies>>,
               status = "pending" => Untouched(p)
        PROVE  HandledOnce'
    <3>1. /\ \A v \in Workers : v # w => workers'[v] = workers[v]
          /\ workers'[w].step = "idle"
      BY <1>0, <2>c, IdleFacts
    <3>2. \A v \in Workers : v # w /\ Busy(v) => PressOf(v) # p
      BY <2>a, <2>c DEF Once
    <3>3. /\ \A q \in Presses : q # p => inbox'[q] = inbox[q]
          /\ inbox'[p].status = status /\ inbox'[p].token = inbox[p].token
      BY <1>a, <2>c DEF InboxEvents
    <3>4. /\ \A v \in Workers : v # w /\ Busy(v)' => Once(v)'
          /\ \A q \in Presses : q # p => Settled(q)'
      BY <1>0, <2>c, <3>1, <3>2, <3>3, OthersOnce
    <3>5. Settled(p)'
      <4>1. Settled(p)
        BY DEF HandledOnce
      <4>2. status = "pending" => Untouched(p)'
        BY <2>c, <3>3 DEF Untouched, ButtonOf
      <4> QED BY <2>c, <3>3, <4>1, <4>2 DEF Settled
    <3> QED BY <3>1, <3>4, <3>5 DEF HandledOnce, Busy
  <2>2. CASE Resolve(w)
    <3>1. ~At(w, "idle") /\ UNCHANGED <<effects, inbox, replies>>
          /\ workers[w].step = "resolve"
      BY <2>2 DEF Resolve, At
    <3>2. PICK p \in Presses : p = PressOf(w)
      BY <2>a, <3>1
    <3>3. Untouched(p) /\ Settled(p) /\ ButtonOf(p) = CallbackOf(w)
      BY <2>a, <3>1, <3>2 DEF Once, HandledOnce
    <3>4. /\ \A t \in Tokens :
               /\ callbacks'[t].completed = callbacks[t].completed
               /\ callbacks'[t].claim # callbacks[t].claim => callbacks'[t].claim = p
          /\ IF Spendable(CallbackOf(w), PressOf(w))
               THEN Move(w, IF CallbackOf(w).action = "start_travel"
                              THEN "look" ELSE "execute", "none")
               ELSE Move(w, "reply", "refused") /\ UNCHANGED callbacks
      BY <1>0, <2>2, <2>a, <3>1, <3>2, ResolveFacts
    <3>5. Untouched(p)'
      <4>1. CASE ~Spendable(CallbackOf(w), PressOf(w))
        BY <3>1, <3>3, <3>4, <4>1 DEF Untouched, ButtonOf
      <4>2. CASE Spendable(CallbackOf(w), PressOf(w))
        <5>1. ~CallbackOf(w).completed
          BY <2>a, <3>1, <3>2, <3>3, <4>2 DEF Spendable, Untouched, ClaimsHeld
        <5>2. ~callbacks'[inbox[p].token].completed
          BY <2>a, <3>1, <3>2, <3>4, <5>1
        <5> QED BY <3>1, <3>3, <5>2 DEF Untouched, ButtonOf
      <4> QED BY <4>1, <4>2
    <3>6. effects'[p] = 0 /\ replies'[p] = "none"
      BY <3>5 DEF Untouched
    <3>7. PICK step \in {"look", "execute", "reply"}, verdict \in {"none", "refused"} :
            Move(w, step, verdict)
      BY <3>4
    <3> QED BY <2>b, <3>1, <3>2, <3>4, <3>5, <3>6, <3>7 DEF Steps, Verdicts
  \* Steps that change nothing but the worker.
  <2>d. ASSUME ~At(w, "idle"), UNCHANGED <<callbacks, effects, inbox, replies>>,
               workers[w].step \in {"look", "execute", "recheck"},
               NEW step \in {"complete", "execute", "recheck", "fail"}, NEW verdict \in Verdicts,
               Move(w, step, verdict)
        PROVE  HandledOnce'
    <3>1. PICK p \in Presses : p = PressOf(w)
      BY <2>a, <2>d
    <3>2. Untouched(p) /\ ButtonOf(p).claim = p
      BY <2>a, <2>d, <3>1 DEF Once, ClaimsHeld
    <3>3. Untouched(p)' /\ ~ButtonOf(p)'.completed
      BY <2>d, <3>2 DEF Untouched, ButtonOf
    <3>4. effects'[p] = 0 /\ replies'[p] = "none"
      BY <3>3 DEF Untouched
    <3> QED BY <2>b, <2>d, <3>1, <3>3, <3>4 DEF Steps
  <2>3. CASE Look(w) \/ Recheck(w)
    <3>1. ~At(w, "idle") /\ UNCHANGED <<callbacks, effects, inbox, replies>>
          /\ workers[w].step \in {"look", "recheck"}
      BY <2>3 DEF Look, Recheck, At
    <3>2. PICK step \in {"complete", "execute"}, verdict \in Verdicts : Move(w, step, verdict)
      BY <2>3 DEF Look, Recheck, Verdicts
    <3> QED BY <2>d, <3>1, <3>2
  <2>4. ASSUME NEW mode \in PoolMode, NEW report \in SUBSET Evidence, Execute(w, mode, report)
        PROVE  HandledOnce'
    <3>1. ~At(w, "idle") /\ UNCHANGED <<callbacks, inbox, replies>>
          /\ workers[w].step = "execute"
      BY <2>4 DEF Execute, At
    <3>2. CASE Conflict(w, mode, report) \/ Refuse(w, mode, report)
      <4>1. /\ UNCHANGED effects
            /\ \E step \in {"complete", "recheck", "fail"}, verdict \in Verdicts :
                 Move(w, step, verdict)
        BY <3>2 DEF Conflict, Refuse, Verdicts
      <4> QED BY <2>d, <3>1, <4>1
    <3>3. CASE Perform(w, mode, report)
      <4>1. PICK p \in Presses : p = PressOf(w)
        BY <2>a, <3>1
      <4>2. Untouched(p) /\ ButtonOf(p).claim = p
        BY <2>a, <3>1, <4>1 DEF Once, ClaimsHeld
      <4>3. ~ButtonOf(p)'.completed /\ replies'[p] = "none"
        BY <3>1, <4>2 DEF Untouched, ButtonOf
      <4>4. /\ Move(w, "complete", "done")
            /\ \A q \in Presses : q # p => effects'[q] = effects[q]
        BY <1>a, <3>3, <4>1 DEF Perform
      <4> QED BY <2>b, <3>1, <4>1, <4>3, <4>4 DEF Steps, Verdicts
    <3> QED BY <2>4, <3>2, <3>3 DEF Execute
  <2>5. CASE CompleteClaim(w)
    <3>1. ~At(w, "idle") /\ UNCHANGED <<effects, inbox, replies>>
          /\ workers[w].step = "complete"
      BY <2>5 DEF CompleteClaim, At
    <3>2. PICK p \in Presses : p = PressOf(w)
      BY <2>a, <3>1
    <3>3. /\ ~ButtonOf(p).completed /\ ButtonOf(p).claim = p
          /\ replies[p] = "none" /\ (workers[w].verdict = "refused" => effects[p] = 0)
      BY <2>a, <3>1, <3>2 DEF Once, ClaimsHeld
    <3>4. Move(w, "reply", workers[w].verdict)
      BY <2>5, <2>a, <3>1, <3>2, <3>3 DEF CompleteClaim
    <3>5. \A t \in Tokens :
            /\ callbacks'[t].claim = callbacks[t].claim
            /\ callbacks'[t].completed # callbacks[t].completed => callbacks[t].claim = p
      BY <1>0, <2>5, <2>a, <3>1, <3>2, CompleteFacts
    <3>6. PICK verdict \in Verdicts : verdict = workers[w].verdict
      BY <1>a DEF WorkerStates
    <3> QED BY <2>b, <3>1, <3>2, <3>3, <3>4, <3>5, <3>6 DEF Steps
  <2>6. CASE QueueReply(w)
    <3>1. ~At(w, "idle") /\ UNCHANGED <<callbacks, effects, inbox>>
          /\ workers[w].step = "reply" /\ Move(w, "mark", "none")
          /\ replies' = [replies EXCEPT ![PressOf(w)] =
                           IF @ = "none" THEN workers[w].verdict ELSE @]
      BY <2>6 DEF QueueReply, At
    <3>2. PICK p \in Presses : p = PressOf(w)
      BY <2>a, <3>1
    <3>3. replies[p] = "none" /\ (workers[w].verdict = "refused" => effects[p] = 0)
      BY <2>a, <3>1, <3>2 DEF Once
    <3>4. /\ \A q \in Presses : q # p => replies'[q] = replies[q]
          /\ replies'[p] = workers[w].verdict
      BY <1>a, <3>1, <3>2, <3>3
    <3> QED BY <2>b, <3>1, <3>2, <3>3, <3>4 DEF Steps, Verdicts
  <2>7. CASE FinishPress(w) \/ FailPress(w)
    <3>1. /\ ~At(w, "idle") /\ UNCHANGED <<callbacks, effects, replies>>
          /\ workers' = [workers EXCEPT ![w] = Idle]
      BY <2>7 DEF FinishPress, FailPress, At
    <3>2. PICK p \in Presses : p = PressOf(w)
      BY <2>a, <3>1
    <3>3. inbox[p].status = "processing"
      BY <2>a, <3>1, <3>2 DEF Once
    <3>4. CASE FinishPress(w)
      <4>1. inbox' = [inbox EXCEPT ![p].status = "processed"]
        BY <3>2, <3>3, <3>4 DEF FinishPress, PressOf
      <4> QED BY <2>c, <3>1, <3>2, <4>1
    <3>5. CASE FailPress(w)
      <4>1. Untouched(p)
        BY <2>a, <3>1, <3>2, <3>5 DEF Once, FailPress, At
      <4>2. PICK status \in {"dead", "pending"} : inbox' = [inbox EXCEPT ![p].status = status]
        BY <3>2, <3>3, <3>5 DEF FailPress, PressOf
      <4> QED BY <2>c, <3>1, <3>2, <4>1, <4>2
    <3> QED BY <2>7, <3>4, <3>5
  <2>8. CASE Crash(w)
    BY <2>8 DEF Crash
  <2> QED BY <1>2, <2>1, <2>2, <2>3, <2>4, <2>5, <2>6, <2>7, <2>8 DEF WorkerStep
<1> QED BY <1>1, <1>2 DEF CallbackNext, Quiet

-----------------------------------------------------------------------------
(* The invariant and the theorems.                                         *)

\* Nothing is minted, pressed or counted at the start.
LEMMA CallbackInitInv == CallbackInit => CallbackInv
<1> SUFFICES ASSUME CallbackInit PROVE CallbackInv
  OBVIOUS
<1>1. IInv
  BY InitInv DEF CallbackInit
<1>2. /\ notices = {} /\ faults = 0
      /\ \A t \in Tokens : callbacks[t] = NoCallback
      /\ \A p \in Presses : inbox[p] = NoEvent /\ effects[p] = 0 /\ replies[p] = "none"
      /\ \A w \in Workers : workers[w] = Idle
  BY DEF CallbackInit
<1>3. NoCallback \in CallbackActions /\ NoEvent \in InboxEvents /\ Idle \in WorkerStates
  BY DEF NoCallback, CallbackActions, NoEvent, InboxEvents, Idle, WorkerStates, Steps, Verdicts
<1>4. RowsOK
  <2>1. \A t \in Tokens : ButtonOK(callbacks[t])
    <3>1. NoCallback.action = "none"
      BY DEF NoCallback
    <3> QED BY <1>2, <1>3, <3>1 DEF ButtonOK
  <2>2. \A p \in Presses : PressOK(inbox[p])
    BY <1>2, <1>3 DEF PressOK, NoEvent
  <2>3. \A w \in Workers : WorkerOK(w)
    BY <1>2, <1>3 DEF WorkerOK, Busy, Idle
  <2>4. /\ callbacks \in [Tokens -> CallbackActions] /\ inbox \in [Presses -> InboxEvents]
        /\ workers \in [Workers -> WorkerStates] /\ effects \in [Presses -> Nat]
        /\ replies \in [Presses -> Verdicts]
    BY <1>3 DEF CallbackInit, Verdicts
  <2> QED BY <1>2, <2>1, <2>2, <2>3, <2>4, LimitsAssumption DEF RowsOK
<1>5. ClaimsHeld
  BY <1>2 DEF ClaimsHeld, Idle, NoCallback
<1>6. Progress
  BY <1>2 DEF Progress, Idle
<1>7. HandledOnce
  BY <1>2 DEF HandledOnce, Settled, Busy, Idle, NoEvent
<1> QED BY <1>1, <1>4, <1>5, <1>6, <1>7 DEF CallbackInv, Base

\* Faults are only counted up.
LEMMA FaultsCount ==
  ASSUME [CallbackNext]_callbackVars
  PROVE  faults' = faults \/ faults' = faults + 1
<1>1. CASE Quiet
  BY <1>1 DEF Quiet, callbackVars, ApiCommand, Project, OpenCard, Press, Expire, queueVars
<1>2. ASSUME NEW w \in Workers, WorkerStep(w)
      PROVE  faults' = faults \/ faults' = faults + 1
  BY <1>2 DEF WorkerStep, Take, Resolve, Look, Execute, Recheck, CompleteClaim, QueueReply,
              FinishPress, FailPress, Crash
<1> QED BY <1>1, <1>2 DEF CallbackNext, Quiet

\* Every step keeps the four layers.
LEMMA CallbackStepInv == CallbackInv /\ [CallbackNext]_callbackVars => CallbackInv'
<1> SUFFICES ASSUME CallbackInv, [CallbackNext]_callbackVars PROVE CallbackInv'
  OBVIOUS
<1>1. Base /\ ClaimsHeld /\ Progress
  BY DEF CallbackInv
<1>2. Base' /\ ClaimsHeld' /\ Progress'
  BY <1>1, RowsStep, LayersStep
<1>3. ASSUME faults' = 0 PROVE HandledOnce'
  <2>1. faults \in Nat /\ (faults' = faults \/ faults' = faults + 1)
    BY <1>1, FaultsCount, LimitsAssumption DEF Base, RowsOK
  <2>2. faults = 0
    BY <1>3, <2>1
  <2> QED BY <1>1, <1>3, <2>2, OnceStep DEF CallbackInv
<1> QED BY <1>2, <1>3 DEF CallbackInv

\* The inductive invariant holds of every behaviour.
THEOREM CallbackInvariance == CallbackSpec => []CallbackInv
BY CallbackInitInv, CallbackStepInv, PTL DEF CallbackSpec

\* The tables and the workers hold what the code can hold.
THEOREM CallbackTypeCorrect == CallbackSpec => []CallbackTypeOK
<1>1. CallbackInv => CallbackTypeOK
  BY DEF CallbackInv, Base, RowsOK, CallbackTypeOK, NoticeOK
<1> QED BY <1>1, CallbackInvariance, PTL

\* Buttons, inbox and workers add no behaviour to the orders: whatever they do
\* is a command of Dispatch or leaves its tables alone.
THEOREM ImplementsDispatch == CallbackSpec => Spec
<1>1. CallbackInit => Init
  BY DEF CallbackInit
<1>2. CallbackInv /\ [CallbackNext]_callbackVars => [Next]_vars
  BY StepIsDispatch DEF CallbackInv
<1> QED BY <1>1, <1>2, CallbackInvariance, PTL DEF CallbackSpec, Spec

\* A button is worth one press: of two presses of it one changes nothing, for
\* all that workers crash, lose their claims and retry (resolve_callback).
THEOREM TokenIsSpentOnce == CallbackSpec => []TokenSpentOnce
<1>1. CallbackInv => TokenSpentOnce
  <2> SUFFICES ASSUME CallbackInv, NEW p \in Presses, NEW q \in Presses,
                      p # q, inbox[p].token = inbox[q].token, effects[p] > 0
               PROVE  effects[q] = 0
    BY DEF TokenSpentOnce
  <2>1. ButtonOf(p).claim = p /\ ButtonOf(p) = ButtonOf(q)
    BY DEF CallbackInv, ClaimsHeld, ButtonOf
  <2>2. ~(effects[q] > 0)
    BY <2>1 DEF CallbackInv, ClaimsHeld
  <2>3. effects[q] \in Nat
    BY DEF CallbackInv, Base, RowsOK
  <2> QED BY <2>2, <2>3
<1> QED BY <1>1, CallbackInvariance, PTL

\* A retry of a press never moves its order forward a second time
\* (_execute_callback over the guards of the aggregate).
THEOREM ForwardOnce == CallbackSpec => []ForwardActionsOnce
<1>1. CallbackInv => ForwardActionsOnce
  <2> SUFFICES ASSUME CallbackInv, NEW p \in Presses, ButtonOf(p).action \in ForwardActions
               PROVE  effects[p] <= 1
    BY DEF ForwardActionsOnce, ButtonOf
  <2>1. effects[p] \in Nat
    BY DEF CallbackInv, Base, RowsOK
  <2>2. effects[p] > 0 => effects[p] = 1
    BY DEF CallbackInv, Progress
  <2> QED BY <2>1, <2>2
<1> QED BY <1>1, CallbackInvariance, PTL

\* What an executor was told is done is done and stays so (the second reads of
\* _execute_callback).
THEOREM DoneIsReached == CallbackSpec => []DoneMeansReached
<1>1. CallbackInv => DoneMeansReached
  <2> SUFFICES ASSUME CallbackInv, NEW p \in Presses, replies[p] = "done"
               PROVE  LET c == callbacks[inbox[p].token]
                          order == orders[c.order]
                      IN  /\ c.action = "accept" =>
                               /\ order.assignee = inbox[p].actor
                               /\ order.status \in {"accepted", "en_route", "in_progress"}
                                                     \cup TerminalStatuses
                          /\ c.action = "start_work" =>
                               /\ order.assignee = inbox[p].actor
                               /\ order.status \in {"in_progress"} \cup TerminalStatuses
                          /\ c.action = "submit_report" => order.status = "completed"
    BY DEF DoneMeansReached
  <2>1. Reached(ButtonOf(p), inbox[p].actor)
    BY DEF CallbackInv, Progress
  <2> QED BY <2>1 DEF Reached, Beyond, ButtonOf, SinceAccepted, SinceWork
<1> QED BY <1>1, CallbackInvariance, PTL

\* Without a fault, whoever is refused has changed nothing.
THEOREM RefusedChangedNothing == CallbackSpec => []RefusalsChangeNothing
<1>1. CallbackInv => RefusalsChangeNothing
  BY DEF CallbackInv, HandledOnce, Settled, RefusalsChangeNothing
<1> QED BY <1>1, CallbackInvariance, PTL

\* With buttons and the API together, an executor has one open order at most.
THEOREM ExclusiveWithButtons == CallbackSpec => []OneOpenOrderPerExecutor
BY ImplementsDispatch, Exclusive, PTL
=============================================================================
