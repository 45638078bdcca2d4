----------------------------- MODULE Callbacks -----------------------------
(***************************************************************************)
(* Buttons in messenger chats: the projector mints a single-use token for  *)
(* each button (messaging/projector.py), a recipient presses it, the press *)
(* arrives as an inbox event, and inbound workers resolve the token, run   *)
(* its command, complete the claim, reply and mark the event               *)
(* (messaging/processor.py, infrastructure/messaging.py).  Every await of  *)
(* that sequence is a step of its own: commands of the API, other workers, *)
(* crashes and expiry come in between.                                     *)
(*                                                                         *)
(* allowed_role is left out: a button reaches only actors of its role.     *)
(***************************************************************************)
EXTENDS Dispatch

CONSTANTS
  Tokens,         \* callback tokens
  Presses,        \* inbox events that carry a pressed button
  Workers,        \* inbound workers
  MaxAttempts,    \* max_attempts of mark_failed
  MaxFaults,      \* bound on crashes and on claims that outlive the interval
  NoPress         \* no claim_key

ASSUME PressAssumption == NoPress \notin Presses
ASSUME LimitsAssumption == MaxAttempts \in Nat \ {0} /\ MaxFaults \in Nat

VARIABLES
  notices,        \* order events that the projector has still to project
  callbacks,      \* table callback_actions
  inbox,          \* table inbox_events
  workers,        \* what each worker is doing
  effects,        \* how often the command of a press changed its order
  replies,        \* the reply queued for a press (the first one stays)
  faults

dispatchVars == vars
queueVars == <<inbox, workers, replies, faults>>
callbackVars == <<vars, notices, callbacks, inbox, workers, effects, replies, faults>>

Actions == {"pool_publish", "pool_interest", "pool_claim", "assign", "accept",
            "reject", "start_travel", "start_work", "submit_report"}
Steps == {"idle", "resolve", "look", "execute", "recheck", "complete",
          "reply", "mark", "fail"}
Verdicts == {"none", "done", "refused"}

\* An event an order recorded, as far as its buttons depend on it: the status
\* it reached, or an interest.
Notices ==
  [name : WorkOrderStatus \cup {"interest"}, order : Orders, version : Nat,
   mode : PoolMode \cup {"none"}, executor : Executors \cup {NoActor}]
CallbackActions ==
  [action : Actions \cup {"none"}, order : Orders \cup {NoActor},
   executor : Executors \cup {NoActor}, to : SUBSET (Executors \cup Coordinators),
   claim : Presses \cup {NoPress}, completed : BOOLEAN, expired : BOOLEAN]
InboxEvents ==
  [status : {"absent", "pending", "processing", "processed", "dead"},
   token : Tokens \cup {NoPress},
   actor : Executors \cup Coordinators \cup {NoActor}, attempts : Nat]
WorkerStates ==
  [press : Presses \cup {NoPress}, attempt : Nat, step : Steps, verdict : Verdicts]

NoCallback ==
  [action |-> "none", order |-> NoActor, executor |-> NoActor, to |-> {},
   claim |-> NoPress, completed |-> FALSE, expired |-> FALSE]
NoEvent == [status |-> "absent", token |-> NoPress, actor |-> NoActor, attempts |-> 0]
Idle == [press |-> NoPress, attempt |-> 0, step |-> "idle", verdict |-> "none"]

CallbackInit ==
  /\ Init
  /\ notices = {}
  /\ callbacks = [t \in Tokens |-> NoCallback]
  /\ inbox = [p \in Presses |-> NoEvent]
  /\ workers = [w \in Workers |-> Idle]
  /\ effects = [p \in Presses |-> 0]
  /\ replies = [p \in Presses |-> "none"]
  /\ faults = 0

-----------------------------------------------------------------------------
(* The projector: which buttons an event is announced with, and to whom.   *)

NoticeOf(name, i, order, executor) ==
  [name |-> name, order |-> i, version |-> order.version,
   mode |-> order.poolMode, executor |-> executor]

\* The events of a step that are announced with buttons.  A rejection and a
\* withdrawn interest come without.
Announced(i) ==
  LET old == orders[i]
      new == orders'[i]
      rejected == old.status = "assigned" /\ new.status \in {"pool_open", "submitted"}
  IN  IF new.status # old.status
        THEN IF rejected \/ IsTerminal(new) THEN {}
             ELSE {NoticeOf(new.status, i, new, NoActor)}
        ELSE {NoticeOf("interest", i, new, e) : e \in
                {x \in Executors : /\ new.responses[x] = "interested"
                                   /\ old.responses[x] # "interested"}}

\* Bound: once all tokens are used no event can be projected any more, those
\* that wait are forgotten.
FreeTokens == {t \in Tokens : callbacks[t] = NoCallback}
Waiting(events) == IF FreeTokens' = {} THEN {} ELSE events
Announce == notices' = Waiting(notices \cup UNION {Announced(i) : i \in Orders})

OneButton(action) == {[action |-> action, executor |-> NoActor]}
Buttons(notice) ==
  CASE notice.name = "submitted" -> OneButton("pool_publish")
    [] notice.name = "pool_open" ->
         OneButton(IF notice.mode = "curated" THEN "pool_interest" ELSE "pool_claim")
    [] notice.name = "interest" ->
         {[action |-> "assign", executor |-> notice.executor]}
    [] notice.name = "assigned" -> OneButton("accept") \cup OneButton("reject")
    [] notice.name = "accepted" -> OneButton("start_travel") \cup OneButton("start_work")
    [] notice.name = "en_route" -> OneButton("start_work")
    [] notice.name = "in_progress" -> OneButton("submit_report")

\* The order is read when the event is projected, not when it was recorded.
Recipients(notice) ==
  LET order == orders[notice.order] IN
  CASE notice.name = "submitted" -> Coordinators
    [] notice.name = "pool_open" -> Executors
    [] notice.name = "interest" ->
         IF order.coordinator = NoActor THEN Coordinators ELSE {order.coordinator}
    [] OTHER -> {order.assignee} \ {NoActor}

\* One token for each button, whoever gets the message.
Mint(notice) ==
  \E tokenOf \in [Buttons(notice) -> FreeTokens] :
    /\ \A b, c \in Buttons(notice) : tokenOf[b] = tokenOf[c] => b = c
    /\ callbacks' = [t \in Tokens |->
         IF \E b \in Buttons(notice) : tokenOf[b] = t
           THEN LET button == CHOOSE b \in Buttons(notice) : tokenOf[b] = t
                IN  [NoCallback EXCEPT !.action = button.action, !.order = notice.order,
                                       !.executor = button.executor,
                                       !.to = Recipients(notice)]
           ELSE callbacks[t]]

\* A second projection of an event queues no message that anyone sees
\* (deduplication_key), so each event is projected once here.
Project(notice) ==
  /\ IF Recipients(notice) = {} THEN UNCHANGED callbacks ELSE Mint(notice)
  /\ notices' = Waiting(notices \ {notice})
  /\ UNCHANGED <<dispatchVars, effects, queueVars>>

\* The card a master opens shows the buttons of the order's current status.
OpenCard(i) ==
  /\ orders[i].status \in ActiveStatuses
  /\ Mint(NoticeOf(orders[i].status, i, orders[i], NoActor))
  /\ notices' = Waiting(notices)
  /\ UNCHANGED <<dispatchVars, effects, queueVars>>

Expire(t) ==
  /\ callbacks[t].action # "none" /\ ~callbacks[t].expired
  /\ faults < MaxFaults
  /\ faults' = faults + 1
  /\ callbacks' = [callbacks EXCEPT ![t].expired = TRUE]
  /\ UNCHANGED <<dispatchVars, notices, effects, inbox, workers, replies>>

-----------------------------------------------------------------------------
(* The inbox.                                                              *)

Press(p, t, actor) ==
  /\ inbox[p] = NoEvent
  /\ actor \in callbacks[t].to
  /\ inbox' = [inbox EXCEPT ![p] = [status |-> "pending", token |-> t,
                                    actor |-> actor, attempts |-> 0]]
  /\ UNCHANGED <<dispatchVars, notices, callbacks, effects, workers, replies, faults>>

Move(w, step, verdict) ==
  workers' = [workers EXCEPT ![w].step = step, ![w].verdict = verdict]
At(w, step) == workers[w].step = step

\* A row is free to claim when it is pending or when its claim is stale, that
\* the worker still goes by that claim is a fault of its own.
Take(w, p) ==
  LET row == inbox[p]
      inUse == \E v \in Workers : workers[v].press = p /\ workers[v].attempt = row.attempts
  IN  /\ At(w, "idle")
      /\ row.status \in {"pending", "processing"}
      /\ IF row.status = "processing" /\ inUse
           THEN faults < MaxFaults /\ faults' = faults + 1
           ELSE UNCHANGED faults
      /\ inbox' = [inbox EXCEPT ![p].status = "processing", ![p].attempts = @ + 1]
      /\ workers' = [workers EXCEPT ![w] = [press |-> p, attempt |-> row.attempts + 1,
                                            step |-> "resolve", verdict |-> "none"]]
      /\ UNCHANGED <<dispatchVars, notices, callbacks, effects, replies>>

\* Defect: the word the outbox uses, which the inbox does not know.
FinishPressAsDelivered(w) ==
  LET p == workers[w].press IN
  /\ At(w, "mark")
  /\ inbox' = [inbox EXCEPT ![p].status = IF @ = "processing" THEN "delivered" ELSE @]
  /\ workers' = [workers EXCEPT ![w] = Idle]
  /\ UNCHANGED <<dispatchVars, notices, callbacks, effects, replies, faults>>

FinishPress(w) ==
  LET p == workers[w].press IN
  /\ At(w, "mark")
  /\ inbox' = [inbox EXCEPT ![p].status = IF @ = "processing" THEN "processed" ELSE @]
  /\ workers' = [workers EXCEPT ![w] = Idle]
  /\ UNCHANGED <<dispatchVars, notices, callbacks, effects, replies, faults>>

FailPress(w) ==
  LET p == workers[w].press IN
  /\ At(w, "fail")
  /\ inbox' = [inbox EXCEPT ![p].status =
       IF @ # "processing" THEN @
       ELSE IF workers[w].attempt >= MaxAttempts THEN "dead" ELSE "pending"]
  /\ workers' = [workers EXCEPT ![w] = Idle]
  /\ UNCHANGED <<dispatchVars, notices, callbacks, effects, replies, faults>>

Crash(w) ==
  /\ ~At(w, "idle")
  /\ faults < MaxFaults
  /\ faults' = faults + 1
  /\ workers' = [workers EXCEPT ![w] = Idle]
  /\ UNCHANGED <<dispatchVars, notices, callbacks, effects, inbox, replies>>

-----------------------------------------------------------------------------
(* A press under way in worker w.                                          *)

PressOf(w) == workers[w].press
TokenOf(w) == inbox[PressOf(w)].token
ActorOf(w) == inbox[PressOf(w)].actor
CallbackOf(w) == callbacks[TokenOf(w)]

\* Defect: a claimed token is resolved for everyone until it is completed.
SpendableByAnyone(callback, p) == ~callback.expired /\ ~callback.completed

\* resolve: the first press claims the token, only its retries see it again.
Spendable(callback, p) ==
  /\ ~callback.expired
  /\ callback.claim = NoPress \/ (callback.claim = p /\ ~callback.completed)

\* Defect: resolving completes the claim.
ResolveCompleting(w) ==
  /\ At(w, "resolve")
  /\ IF Spendable(CallbackOf(w), PressOf(w))
       THEN /\ callbacks' = [callbacks EXCEPT ![TokenOf(w)].claim = PressOf(w),
                                              ![TokenOf(w)].completed = TRUE]
            /\ Move(w, IF CallbackOf(w).action = "start_travel"
                         THEN "look" ELSE "execute", "none")
       ELSE /\ Move(w, "reply", "refused")
            /\ UNCHANGED callbacks
  /\ UNCHANGED <<dispatchVars, notices, effects, inbox, replies, faults>>

Resolve(w) ==
  /\ At(w, "resolve")
  /\ IF Spendable(CallbackOf(w), PressOf(w))
       THEN /\ callbacks' = [callbacks EXCEPT
                 ![TokenOf(w)].claim = IF @ = NoPress THEN PressOf(w) ELSE @]
            /\ Move(w, IF CallbackOf(w).action = "start_travel"
                         THEN "look" ELSE "execute", "none")
       ELSE /\ Move(w, "reply", "refused")
            /\ UNCHANGED callbacks
  /\ UNCHANGED <<dispatchVars, notices, effects, inbox, replies, faults>>

\* start_travel asks first whether the executor is under way already, with
\* whatever order that is.
Look(w) ==
  /\ At(w, "look")
  /\ IF \E i \in Orders : /\ orders[i].assignee = ActorOf(w)
                          /\ orders[i].status \in {"en_route", "in_progress"}
       THEN Move(w, "complete", "done")
       ELSE Move(w, "execute", "none")
  /\ UNCHANGED <<dispatchVars, notices, callbacks, effects, inbox, replies, faults>>

\* The orders the command can leave behind; mode is the active pack's pool
\* mode, report the draft the master has collected.
Outcomes(w, mode, report) ==
  LET c == CallbackOf(w)
      actor == ActorOf(w)
      order == orders[c.order]
  IN  CASE c.action = "pool_publish" -> PublishPool(order, mode, actor)
        [] c.action = "pool_interest" -> ExpressInterest(order, actor)
        [] c.action = "pool_claim" -> ClaimFirst(order, actor)
        [] c.action = "assign" -> Assign(order, c.executor, actor)
        [] c.action = "accept" -> Accept(order, actor)
        [] c.action = "reject" -> RejectAssignment(order, actor)
        [] c.action = "start_travel" -> StartTravel(order, actor)
        [] c.action = "start_work" -> StartWork(order, actor)
        [] c.action = "submit_report" -> Complete(order, actor, report)

\* The transaction of the application service.
Command(w, mode, report) ==
  LET c == CallbackOf(w) IN
  CASE c.action = "start_travel" ->
         \E s \in Sessions : StartOrderTravel(c.order, ActorOf(w), s)
    [] c.action = "submit_report" -> CompleteOrder(c.order, ActorOf(w), report)
    [] OTHER -> ChangeOrder(c.order, Outcomes(w, mode, report))

\* EvidenceMissing and a refused start_travel are not looked into any further.
RefusedForGood(w) ==
  LET c == CallbackOf(w) IN
  \/ c.action = "start_travel"
  \/ /\ c.action = "submit_report"
     /\ orders[c.order].assignee = ActorOf(w)
     /\ orders[c.order].status = "in_progress"

Perform(w, mode, report) ==
  /\ Outcomes(w, mode, report) # {}
  /\ Command(w, mode, report)
  /\ Announce
  /\ effects' = [effects EXCEPT ![PressOf(w)] = IF orders' # orders THEN @ + 1 ELSE @]
  /\ Move(w, "complete", "done")

\* A unique index refuses the row: ConcurrencyConflict, no DomainError.
Conflict(w, mode, report) ==
  /\ \E new \in Outcomes(w, mode, report) : ~AssigneeIsFree(CallbackOf(w).order, new)
  /\ Move(w, "fail", "none")
  /\ UNCHANGED <<dispatchVars, notices, effects>>

Refuse(w, mode, report) ==
  /\ Outcomes(w, mode, report) = {}
  /\ IF RefusedForGood(w)
       THEN Move(w, "complete", "refused") ELSE Move(w, "recheck", "none")
  /\ UNCHANGED <<dispatchVars, notices, effects>>

Execute(w, mode, report) ==
  /\ At(w, "execute")
  /\ UNCHANGED <<callbacks, inbox, replies, faults>>
  /\ \/ Perform(w, mode, report)
     \/ Conflict(w, mode, report)
     \/ Refuse(w, mode, report)

\* Defect: a refused command is taken for a repetition whatever the order is.
RecognisedAlways(w) == TRUE

\* After InvalidTransition the handlers read the order again and take the
\* press for a repetition if the order is where the command would have put it.
Recognised(w) ==
  LET c == CallbackOf(w)
      actor == ActorOf(w)
      order == orders[c.order]
  IN  CASE c.action = "pool_publish" -> order.status # "submitted"
        [] c.action = "pool_interest" ->
             order.responses[actor] \in {"interested", "selected"}
        [] c.action = "pool_claim" -> order.assignee = actor
        [] c.action = "assign" -> order.assignee = c.executor
        [] c.action = "accept" ->
             /\ order.assignee = actor
             /\ order.status \in {"accepted", "en_route", "in_progress", "completed"}
        [] c.action = "reject" -> order.assignee = NoActor
        [] c.action = "start_work" ->
             order.assignee = actor /\ order.status \in {"in_progress", "completed"}
        [] c.action = "submit_report" -> order.status = "completed"

Recheck(w) ==
  /\ At(w, "recheck")
  /\ Move(w, "complete", IF Recognised(w) THEN "done" ELSE "refused")
  /\ UNCHANGED <<dispatchVars, notices, callbacks, effects, inbox, replies, faults>>

\* A claim that is completed already raises RuntimeError: the event is retried.
CompleteClaim(w) ==
  /\ At(w, "complete")
  /\ IF CallbackOf(w).claim = PressOf(w) /\ ~CallbackOf(w).completed
       THEN /\ callbacks' = [callbacks EXCEPT ![TokenOf(w)].completed = TRUE]
            /\ Move(w, "reply", workers[w].verdict)
       ELSE /\ Move(w, "fail", "none")
            /\ UNCHANGED callbacks
  /\ UNCHANGED <<dispatchVars, notices, effects, inbox, replies, faults>>

\* The deduplication key is the event's: a retry does not queue a second reply.
QueueReply(w) ==
  /\ At(w, "reply")
  /\ replies' = [replies EXCEPT ![PressOf(w)] =
                   IF @ = "none" THEN workers[w].verdict ELSE @]
  /\ Move(w, "mark", "none")
  /\ UNCHANGED <<dispatchVars, notices, callbacks, effects, inbox, faults>>

-----------------------------------------------------------------------------

\* A command that does not come from a button.
ApiCommand ==
  /\ Next
  /\ UNCHANGED <<callbacks, effects, queueVars>>
  /\ Announce

WorkerStep(w) ==
  \/ \E p \in Presses : Take(w, p)
  \/ Resolve(w) \/ Look(w)
  \/ \E mode \in PoolMode, report \in SUBSET Evidence : Execute(w, mode, report)
  \/ Recheck(w) \/ CompleteClaim(w) \/ QueueReply(w)
  \/ FinishPress(w) \/ FailPress(w) \/ Crash(w)

CallbackNext ==
  \/ ApiCommand
  \/ \E notice \in notices : Project(notice)
  \/ \E i \in Orders : OpenCard(i)
  \/ \E p \in Presses, t \in Tokens : \E actor \in callbacks[t].to : Press(p, t, actor)
  \/ \E t \in Tokens : Expire(t)
  \/ \E w \in Workers : WorkerStep(w)

CallbackSpec == CallbackInit /\ [][CallbackNext]_callbackVars
-----------------------------------------------------------------------------
(* Properties.                                                             *)

\* Every table and every worker holds what the code can hold.
CallbackTypeOK ==
  /\ notices \subseteq Notices
  /\ callbacks \in [Tokens -> CallbackActions]
  /\ inbox \in [Presses -> InboxEvents]
  /\ workers \in [Workers -> WorkerStates]
  /\ effects \in [Presses -> Nat]
  /\ replies \in [Presses -> Verdicts]
  /\ faults \in 0 .. MaxFaults

\* A button works for one press only, however often and by whomever it is
\* pressed, with workers that race, crash and retry (resolve's claim_key).
TokenSpentOnce ==
  \A p, q \in Presses :
    (p # q /\ inbox[p].token = inbox[q].token /\ effects[p] > 0) => effects[q] = 0

\* A press that moves an order forward does so once, retries included: the
\* order cannot come back to the status the command starts from
\* (docs/ARCHITECTURE.md, Transaction and delivery boundaries).
ForwardActions == {"pool_publish", "accept", "start_travel", "start_work", "submit_report"}
ForwardActionsOnce ==
  \A p \in Presses :
    (inbox[p] # NoEvent /\ callbacks[inbox[p].token].action \in ForwardActions)
      => effects[p] <= 1

\* An executor who is told that it is done finds it done, then and later:
\* an accepted order stays his, a started one is under way or over, a report
\* was taken (the rechecks of _execute_callback, made on a second read).
DoneMeansReached ==
  \A p \in Presses :
    replies[p] = "done" =>
      LET c == callbacks[inbox[p].token]
          order == orders[c.order]
      IN  /\ c.action = "accept" =>
               /\ order.assignee = inbox[p].actor
               /\ order.status \in {"accepted", "en_route", "in_progress"} \cup TerminalStatuses
          /\ c.action = "start_work" =>
               /\ order.assignee = inbox[p].actor
               /\ order.status \in {"in_progress"} \cup TerminalStatuses
          /\ c.action = "submit_report" => order.status = "completed"

\* As long as nothing crashes, gets stale or expires, a press that is answered
\* with a refusal changed nothing.
RefusalsChangeNothing ==
  \A p \in Presses : (faults = 0 /\ replies[p] = "refused") => effects[p] = 0

\* docs/ARCHITECTURE.md:104: "Callback handlers recognise a previously
\* committed target state, so a crash between command commit and inbox
\* completion does not repeat the business effect."
EffectOnce == \A p \in Presses : effects[p] <= 1

\* docs/ARCHITECTURE.md:67: "Executors press 'ready'; each response is stored
\* as `interested`."  A worker does not turn a ready press away while the
\* button has not expired and the pool is open, unless that executor's
\* response is there already.
ReadyIsStored ==
  [][\A w \in Workers :
       (/\ At(w, "resolve") /\ workers'[w].verdict = "refused"
        /\ CallbackOf(w).action = "pool_interest" /\ ~CallbackOf(w).expired
        /\ InPool(orders[CallbackOf(w).order], "curated"))
       => orders[CallbackOf(w).order].responses[ActorOf(w)] # "none"]_callbackVars
=============================================================================
