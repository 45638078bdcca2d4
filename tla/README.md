# dispatch-core in TLA+

A verification project for `dispatch-core`, a dispatch service for field work: clients
order a visit in a messenger, coordinators publish the order to a pool or assign it,
executors accept it, travel (their position is tracked), work and report; an owner edits in
a messenger which services and fields a client is asked for. The modules are
translated from the code under `src/dispatch_core` and `migrations`; TLC checks small
instances, TLAPS proves the safety properties of the passing runs for any number of orders, people,
workers, messages and failures. `PROJECT.json` maps each definition to its lines.

    tlc -workers 2 -config MCDispatch.cfg MCDispatch     # and so on, see "Runs"
    tlapm Dispatch_proofs.tla
    tlapm Callbacks_proofs.tla          # likewise TrackingPoints_proofs, Staff_proofs,
                                        # Intake_proofs, DurableQueue_proofs, Configurator_proofs
    tlapm ConfiguratorItems_proofs.tla  # the longest, about two minutes

## The system

```text
 messenger --webhook/poll--> inbox --claim--> InboundProcessor --command--> service/UoW
                                               |    ^  callback tokens        | orders, sessions
                                               v    |                         v outbox (same commit)
 messenger <--send-- OutboundSender <-- outbound <-- OutboxProjector <--claim-- outbox
 HTTP API --command--> service/UoW
```

Everything that lasts is in PostgreSQL. Processes share nothing else: API processes and
workers call the same service, every command is a transaction that locks the row of its
aggregate, and the parts talk to each other through three durable queues.

| Component | State | Operations | What is hard | What makes it correct |
|---|---|---|---|---|
| `WorkOrder` (`domain/work_order.py`) | status, pool mode, assignee, coordinator, pool responses, report, version, events | create, claim coordination, publish, interest, withdraw, first claim, assign, accept, reject, travel, work, complete, cancel | rounds of rejection and reassignment; cancellation from six statuses | responses resolved, no handover, finished orders stay |
| `TrackingSession` (`domain/tracking.py`) | status, capability tokens, points | start, add point, complete, cancel | late and repeated positions | ordered, dense route, closed when over |
| Service and repositories (`application/async_service.py`, `infrastructure/postgres.py`) | tables, indexes, number counter, outbox | one transaction for each command | two aggregates in one command, two orders of one executor, READ COMMITTED snapshots | one open order for each executor, session follows order, outbox equals history |
| Durable queues (`infrastructure/messaging.py`) | rows with status, attempts, next attempt, claim time | accept, claim a batch, mark handled, mark failed | crashes between effect and mark, stale claims, marks that are not fenced | at least once, settled in the end, settled once |
| Callback tokens and processor (`messaging/processor.py`) | token with claim key, completion, expiry | resolve, execute, recheck, complete, reply | retries after a commit, double presses, API commands in between | one effect for a press, truthful answers |
| Projector (`messaging/projector.py`) | - | event to messages, buttons and recipients | reads the order later than the event | every recipient can act on what he is shown |
| Sender (`messaging/sender.py`) | - | send, mark | provider answers late or not at all | at least once |
| Intake (`messaging/intake.py`, address page) | the session document: step, answers, address capability, pinned revision | text, button, location, address from the map, submit | page and handlers write one document back whole | an order is complete by its revision and is what the client was told |
| Identity and staff (`infrastructure/workflow_store.py`, `staff_workflows.py`, `messaging/workspaces.py`) | actors, bindings, codes, roles, attempts | create, bind, merge, grant, revoke | check-then-act across statements and transactions | a code binds once, a creation makes its actor once unless it was merged away, accounts stay with theirs |
| Report drafts (`workflow_store.py`) | photos, comment | append, comment, get, clear | a photo between get and clear | the report has what the master sent |
| Packs and configurator (`messaging/config.py`, `infrastructure/pack_store.py`) | draft and published documents, versions | edit, publish, restore, discard | two messengers edit one draft, retries, version reuse | what was published stays, is valid and in order; items are added once |
| Worker runtime (`runtime/worker.py`) | - | loops over `run_once` | stops, failures of a loop | every queue keeps being drained |
| HTTP API (`api/app.py`) | rate-limit windows | commands, tracking view, positions, webhooks | a bounded table of windows | commands as the service's |
| Operations (`infrastructure/operations.py`) | - | retention, queue figures | rows whose keys deduplicate | no repetition becomes new too early |
| In-memory stores (`infrastructure/async_memory.py`, `memory.py`) | copies with versions | optimistic commit | number counter outside the rollback | same promises as PostgreSQL |
| Transports, read models, pages, catalogues | - | parsing, HTTP, rendering | none of it changes the system's state | not modelled |

## Modules

| Module | Models | State |
|---|---|---|
| `WorkOrder` | the aggregate, every method as the set of orders it can leave behind (none: it raises) | - |
| `TrackingSession` | the aggregate without its points' contents | - |
| `Dispatch` | `AsyncDispatchService` over `postgres.py`, one step for each transaction; extends `WorkOrder`, instantiates `TrackingSession` | `orders`, `tracking`, `outbox`, `lastNumber` |
| `Dispatch_proofs` | the theorems about `Dispatch` | - |
| `TrackingPoints` | `record_location` statement by statement, with snapshots and the row lock | `session`, `points`, `locker`, `requests`, `now` |
| `TrackingPoints_proofs` | the theorems about `TrackingPoints` | - |
| `Mailbox` | the promise of a queue, without workers or claims | `stage`, `count` |
| `DurableQueue` | the three queue tables under the worker loops | `rows`, `held`, `executions`, `faults` |
| `DurableQueue_proofs` | the theorems about `DurableQueue`, and that it implements `Mailbox` | - |
| `Packs` | the revisions of a pack, one operator for each transaction of `pack_store.py` | `packs` |
| `Configurator` | the owner's flows and buttons in two messengers, statement by statement; extends `Packs` | `packs`, `sessions`, `work`, `failed`, counters |
| `Configurator_proofs` | the theorems about the revisions of `Packs` and `Configurator` | - |
| `ConfiguratorItems_proofs` | that items have keys of their own and are added once; extends `Configurator_proofs` | - |
| `Intake` | a client's conversation, the address page, the submission | `session`, `orders`, `active`, `work`, `failed`, histories |
| `Intake_proofs` | the theorems about `Intake` | - |
| `Staff` | actors, roles, accounts and codes under concurrent transactions | `actors`, `roles`, `identities`, `attempts`, `tx`, histories |
| `Staff_proofs` | the theorems about `Staff` | - |
| `Callbacks` | buttons: projector, tokens, inbox, worker; extends `Dispatch`, whose commands it takes for what the buttons and the API do | Dispatch's, and `notices`, `callbacks`, `inbox`, `workers`, `effects`, `replies`, `faults` |
| `Callbacks_proofs` | the theorems about `Callbacks`, and that it implements `Dispatch` | - |

The `MC` modules only add symmetry sets and the values of constants that are functions.
Operators whose comment begins with "Defect:" are not part of any specification. Each is a
definition with a plausible bug in it; put in the definition's place, it makes TLC find
the property named in `PROJECT.json` violated, which shows that the property is able to fail.

### Dispatch

A command reads its aggregate with `SELECT ... FOR UPDATE`, so two commands on one order are
one after the other and a transaction is one step. What two transactions on *different* rows
can do to each other goes through the unique indexes, which are guards of the saves
(`AssigneeIsFree`, `OrderIsUntracked`), the unique key of the outbox (`AddEvents`) and the
counter row. A command that raises, or that an index refuses, is rolled back: no step.
One organization is modelled, every key of the schema starts with it.

Left out: the order's details, timestamps, the reason of a cancellation, the caller's
authentication. Evidence is a set instead of "n photos and a comment": the check only asks
whether something required is missing.

### TrackingPoints

`PostgresTrackingRepository.get` finds the session row and its latest point in one statement
and locks the session row. `Begin` takes the snapshot, `Lock` gets the lock: the row is the
current one, the point still the snapshot's, as READ COMMITTED has it for a statement that
had to wait. `has_source_event` is a statement of its own and sees everything committed.
Inserting the points, updating the session and committing is one step, since others see it
all at once. `Break` is a lost connection. Clocks: one, that does not go back.

### DurableQueue and Mailbox

Inbox, outbox and outbound tables are claimed (`FOR UPDATE SKIP LOCKED`, pending rows whose
time has come or processing rows whose claim is stale) and marked by the same statements, so
there is one module. A worker goes through its batch item by item; the work of an item and
its mark are two steps, a crash can come in between. Times are reduced to the flag `ripe`.
A worker whose claim gets stale goes on working: that, and a crash, is a *fault* and is
counted. `Mailbox` says what is left when workers, claims and retries are taken away.

### Callbacks

`Project` mints the buttons of an event (the order is read at that moment), `Press` is the
accepted inbox event, `Take` a claim, and then one action for each await of
`InboundProcessor._callback`: `Resolve`, `Look` (only before `start_travel`), `Execute`
(`Perform`, `Conflict` or `Refuse`), `Recheck`, `CompleteClaim`, `QueueReply`, and the mark.
`effects` counts how often a press changed its order; `replies` holds the first reply queued
(the deduplication key drops the others). Commands are `Dispatch`'s own actions. Two things
are simplified: the role a token is minted for is left out, since messages go to actors of
that role only; and once all tokens are used, the events that wait to be projected are
forgotten (`Waiting`), which bounds the run and removes no behaviour of the tokens there are.
`Conflict` needs two orders of one executor and so cannot happen in the run's instance.

### Packs and Configurator

A row of `org_packs` is a record in the function `packs` from version numbers. Of a
definition the model keeps what `validate_definition` asks (a name, services, an address)
and the items with their keys, types and questions; every item also names the event that
added it. A key is a base and a number: `_slug` takes the first free one, and labels without
a Latin letter or digit all get the same base, which is the interesting case and the one
the run uses.

A handler of `messaging/config.py` is a *plan*: what it writes, in order, computed from the
session and the draft as it read them. `ServiceSave` for instance writes the session with
the chosen key, then the draft, then clears the session, and ends in a list view that may
make a draft anew. `TakeNew` takes an event and reads; `PutFirst`, `WriteDraft`, `PutLast`
and `View` are the transactions in turn; in every one the other messenger may publish,
discard or edit, and after every write the worker may fail (second disjunct of `Proceed`),
after which the inbox hands the event over again (`TakeAgain`), except for a text the
session remembers (`IsReplay`). The first reads come with the take, and the mark with the
last write: no other transaction can tell them apart.

Buttons that change only what the model leaves out are taken together: `retouch` (several
services at once, pool mode) and `evidence` (photos, comment). They still read the draft
and write all of it back, so they can overwrite as the code's do. The flow that renames
roles is left out: a text, like a question of a field. A handler that fails before it wrote
anything is left out too: its event is then like a new one.

### Intake

The session is one JSON document that `get` and `put` move in separate transactions.
`Handle` computes the next document as the coordinator's methods do (`FillPhone`,
`WithAddress`, `PickService`, `FillField`, ...), `Read` and `PutSession` are the two
transactions, `CreateOrder` and `ClearSession` the two of a submission; two handlers work
side by side, as two workers do for one client who writes from two messengers or presses
fast. `SelectAddress` is the page's transaction. `Publish` makes the next revision active;
the session has pinned its own (`PackForState`). Of answers the model keeps which keys have
one and where the address came from. Numbers of events are used again once nothing mentions
them (`FreshId`, `Forget`), so their number needs no bound. The instance has a revision with
several services and one with a single choice and a required field that the first lacks.

### Staff

READ COMMITTED transactions, split where another one's commit can matter: `tx[w]` is what a
worker has read and locked. Waiting for a row another transaction has locked is the guard
`ActorFree` or `MembershipsFree`; `FindByCode` looks at the row again after the wait, as
PostgreSQL does for a row that changed. Writes appear with the commit. `Rollback` is a crash
or the victim of a deadlock, which frees the others. `Register` is a client's first message,
`ApiUpsert` is `POST /v1/actors`, `LockKey` and `Create` the last message of adding a master
or an operator, `RevokeMembership` what follows a confirmed removal, `EnterCode` a code
typed in a staff bot. Codes do not expire by themselves and names, phones and the primary
role are left out; administrators are made by the installation only (migration 0021 keeps
exactly one), so the model has none.

## Runs

| Run | Instance | Shows |
|---|---|---|
| `dispatch` | 2 orders, 2 sessions, 2 executors, 1 coordinator, 1 kind of evidence, versions to 7, 1 point | all invariants and action properties of `Dispatch` |
| `durable_queue` | 2 items, 2 workers, batches to 2, 2 attempts, 2 faults | safety, liveness and the refinement of `Mailbox` |
| `callbacks` | 1 order, 2 executors, 2 tokens, 2 presses, 2 workers, 2 attempts, 1 fault | tokens are spent once, answers are truthful |
| `callback_retry` | as above with 1 press and 1 worker | finding 1 |
| `ready_button` | as above with 1 token, 2 presses, no fault | finding 2 |
| `tracking_points` | 3 calls, 2 source events, clock to 2 | the route is dense, calls do not conflict, nothing after the end |
| `tracking_order` | 2 calls, clock to 1 | finding 3 |
| `configurator` | 2 messengers, 1 label that gives no key of its own, versions to 3, 4 events, 1 fault | revisions stay, are valid and ordered; items added once |
| `intake` | 2 handlers, 2 revisions, 1 submission, 1 token, 1 overlap, 1 fault | orders are complete and are what the client was told |
| `address_capability` | as above without faults | finding 4 |
| `staff` | 2 accounts, 1 code, 1 creation handled twice, 2 workers, 1 attempt, operator and shared bot, the API gives `operator` | codes, creations, accounts |
| `staff_roles` | as above, creation handled once | finding 5 |

Bounds. `MaxVersion` 7 lets an order go through its longest straight life (submitted,
published, interest, assigned, accepted, on the way, at work is version 7; completion is
reached on the shorter paths) and through one round of rejection. Two orders and two
executors are what every property relates; the theorems lift all four numbers. Two attempts
are the least at which a retry and a dead letter differ, two faults allow a stale claim of a
worker that then crashes. Two tokens are one for each of two buttons of a message.
Four events are an item's flow in one messenger (three) and a publication, a discard or an
edit of the other in any of its gaps, or two additions side by side; three versions are an
archived, an active and a draft row. One overlap is enough for every stale write-back of
`Intake`, since a write-back is one handler beside one other event; the page's post and the
cleanup are not counted. One code and two accounts are what a merge and a race for a code
need; with one attempt the limit is met by two workers at once. Deadlock
is not checked: all orders finished, all items settled or all bounds reached is an end.

Properties that say most:

- `OneOpenOrderPerExecutor`: the partial index's predicate lists exactly the statuses in
  which an assigned order is open; with `en_route` forgotten TLC finds two open orders.
- `TrackingFollowsOrder`: order and session never part, tokens live only in between.
- `ResponsesResolved`: after any number of rejections no interest is left hanging on an
  assigned order and "selected" means the assignee. A cancelled order does keep open interests.
- `EventsMatchVersions`: the outbox is the exact history of all rows.
- `ClaimsAreDistinct`, `OnceForEachClaim`: the marks are not fenced by the claim, but the
  attempt numbers still tell claims apart, and an item is worked on at most once for each claim.
- `DoneMeansReached`: "done" is answered after a second read of the order, in another
  transaction; it is true nevertheless, then and later, for accept, start_work and submit_report.

- `RevisionsStay`: clients' intakes pin published revisions; an edit computed before a
  publication must not land on the row that was published.
- `ItemsAddedOnce`: keys are unique although two messengers choose them independently, and
  an event that is retried does not add its item twice, as long as no other event of its
  messenger was handled in between - a newer one, or an older one that was itself handed over
  again: the session remembers the last event only, and TLC shows the text added again or
  taken for another answer (`overtaken` is that exception). The other
  direction, that an item is added at least once, does not hold: see the hazards.
- `OrdersComplete`, `ToldIsOrdered`: stale write-backs can bring a submitted intake back to
  life, but a changed second submission is refused and an equal one adds nothing.
- `AccountsStay`: a merge deletes the code's actor; whoever is bound to it would lose his
  account. The check and the row lock keep that from happening.
- `MadeAgainAfterMerge`: the last message of a creation, handled side by side or again, finds
  the actor by its key as long as there is one. The property names the exception, because it
  happens: the key lasts as long as the actor's row, and entering the code with an account that
  has an actor of its own deletes that row (`workflow_store.py:788`). A handler of the same
  message that read the session before it was cleared, and comes to `create_staff_actor` only
  now - its claim was stale, or the message came twice -, makes the person again, with another
  code. So docs/OPERATIONS.md:81-82 ("cannot create a duplicate master") promises more than
  the code keeps: in the instance of `staff`, `made` reaches 2 for the one creation. The model
  lets a creation message be handled at any time, since its handler may have read the session
  long before.

### Findings

1. `callback_retry` violates `EffectOnce` (docs/ARCHITECTURE.md:104). Recognition of a
   repeated press comes only after the command was refused. A reject that was committed
   before a crash is carried out again if the order was assigned to the same executor in
   between. `ForwardActionsOnce`, for the actions an order cannot come back from, holds.
2. `ready_button` violates `ReadyIsStored` (docs/ARCHITECTURE.md:67). One `pool_interest`
   token goes to all executors, the first press claims it, the others are refused.
3. `tracking_order` violates `PointsAreOrdered` (domain/tracking.py:142). A call that waited
   for the lock compares its time with an outdated latest point. Numbering, deduplication and
   the closing of the route do not depend on that point and hold.
4. `address_capability` violates `CapabilityOnce` (README.en.md:165-167). A handler that
   read the session before the page saved the point puts it back afterwards, with the token
   and without the point. The link saves a second point.
5. `staff_roles` violates `DeactivatedHaveNoRoles` (docstring, workflow_store.py:628).
   `revoke_role` reads what remains before it locks the actor; a role granted in between
   belongs to an actor that is then deactivated and can neither be resolved nor be granted a
   role again. Two revocations at once show the converse: each sees the other's membership,
   and the actor stays active without a role.

## Fairness

Only `DurableQueue` has liveness: the others start when a person does something. Weak fairness of `ClaimSome(w)` and `Work(w)`: the worker
runs `run_once` in an endless loop (`_repeat`, `runtime/worker.py:301`) that survives
exceptions, and a batch is worked through without conditions. Weak fairness of `Ripen(i)`:
clocks advance, so a retry becomes due and an abandoned claim stale. Crashes have no
fairness and are finitely many. `EventuallySettled` needs all three; without `Ripen` for
abandoned claims TLC shows the item that stays in processing. Failing work is not assumed to
succeed: it ends as a dead letter.

## Proofs

`Dispatch_proofs` proves for `Dispatch!Spec`, for any sets of orders, sessions, executors,
coordinators and evidence and any bounds, from `ActorsAssumption`, `KeysAssumption` and
`BoundsAssumption` only (the id that stands for None is no actor and no order; bounds are
naturals):

| Theorem | States |
|---|---|
| `Invariance` | `IInv` always holds |
| `TypeCorrect`, `AssigneeFollows`, `Exclusive`, `Resolved`, `TrackingFollows`, `TrackedOnce`, `History`, `Numbers` | the invariants of the run `dispatch`, and that an assignee fits the status |
| `FinishedStay`, `NeverHandedOver` | its action properties |

The properties are not inductive one by one. `OneOpenOrderPerExecutor` speaks of assignees
and needs that an order in no active status and not finished has none; `ResponsesResolved`
needs that only curated pools have open interests; `TrackingFollowsOrder` and
`OneSessionPerOrder` need each other, since a second session could start only for an accepted
order, which has none yet; that `AddEvents` never meets a used key needs
`EventsMatchVersions`. `IInv` is the conjunction: types, `OrdersInv` (each order by itself),
`SessionsInv` (each session with its order), the two halves of the history, numbers, and
the exclusiveness of executors.

The argument has three layers. (1) One lemma for each method of the aggregates: the order it
leaves obeys `OrderStep` (well-formed; unchanged, or one version further with one event and
not from a last status; an assignee lost only from "assigned") and stays `OnCourse` (does not
begin or break off a journey). (2) `NextKind` sorts every action of `Next` into six kinds of
steps: creation, change of one order, departure, position, finish with and without session.
(3) One lemma for each kind shows `IInv'`; `StepInv` puts them together.

`Configurator_proofs` proves, from `PacksAssumption` and `ConfiguratorAssumption` only, for
any messengers, labels, keys, events and faults:

| Theorem | States |
|---|---|
| `Invariance` | `IInv` always holds |
| `NumbersFollow`, `OnlyValid` | `VersionsFollowPublication`, `PublishedIsValid` |
| `PublishedStay` | `RevisionsStay` |

`IInv` adds to the two invariants that versions are 1 to k without holes (`Numbered`) and
that rows have the right shape. The hole-free numbering is what makes `NextVersion` (one more
than the greatest) newer than everything, and it survives a discard because the draft is the
last row (`DraftIsNewest`, from `VersionsFollowPublication`). `NextIsPacksStep` sorts all
actions into five changes of the table - insert where there is no draft, update of the draft,
discard, publication, none -, and one lemma for each shows `IInv'`. What the handlers compute
does not matter: validity is checked at publication, under the row lock.

`ConfiguratorItems_proofs` proves, from the same two assumptions, what does depend on what the
handlers compute:

| Theorem | States |
|---|---|
| `ItemsInvariance` | `ItemsInv` always holds |
| `ItemsOnce` | `ItemsAddedOnce` |
| `TypesHold` | `TypeOK` |

A definition a handler has read may be written back at any time, by either messenger, over
whatever was stored meanwhile. So `ItemsInv` speaks of all definitions that circulate
(`Circulates`): the rows and what the handlers hold. In each of them keys are distinct, and no
two items are of one event unless it was overtaken. The second half needs to know what happens when an
event is handed over again: an event that may be (`Pending`) and was not overtaken finds in
its session what it has added to any circulating definition (`Safe`) - the session remembers
the event, holds the key of that item, or has left the flow. Each handler gets a lemma that what it plans
to write fits that (`PlanFits`); `OthersAreSafe` and `OwnIsSafe` carry it over the steps of
the other messenger and of the same one, and there is one lemma for each action. A new key
is new because of n + 1 numbers one is not taken by n items (`SlugIs`), and removing or
moving items leaves distinct items of the same list (`WithoutIs`, `MoveItemIs`).

`DurableQueue_proofs` proves, from `QueueAssumption` only, for any items and workers (finitely
many or not), batch limits and numbers of faults:

| Theorem | States |
|---|---|
| `Invariance` | `IInv` always holds |
| `TypeCorrect`, `ClaimsDistinct`, `OncePerClaim`, `DeadLettersAreLate`, `Exclusive` | the invariants of the run `durable_queue` |
| `Settled` | `SettledStays` |
| `ImplementsMailbox` | every behaviour of the queue is one of `Mailbox!Safety` |

`IInv` adds two facts the invariants need: without faults a row in use is not ripe (`Fresh`;
otherwise `Claim` could take it from its holder), and work that was done was counted
(`Accounted`; otherwise `Finish` would settle what nobody handled). A new claim is told apart
from all older ones because no claim is ahead of its row. `OnceForEachClaim` has an invariant
of its own, `CInv`: a batch has an item once, and `Counted` carries along that the set of
workers who still owe the work is finite, which is what lets `Cardinality` be counted up and
down. For the refinement, `StepIsMailboxStep` maps `Accept` to `Accept`, `Execute` to `Handle`,
`Finish` and `Fail` of a processing row to `Settle`, `Bury` or nothing, and the rest to nothing.

`Callbacks_proofs` proves, from `PressAssumption`, `LimitsAssumption` and `Dispatch`'s own
assumptions, for any orders, people, tokens, presses, workers, attempts and faults:

| Theorem | States |
|---|---|
| `CallbackInvariance` | `CallbackInv` always holds |
| `CallbackTypeCorrect`, `TokenIsSpentOnce`, `ForwardOnce`, `DoneIsReached`, `RefusedChangedNothing` | the invariants of the run `callbacks` |
| `ImplementsDispatch` | `CallbackSpec => Spec`: buttons, workers and API only ever do what `Dispatch` does |
| `ExclusiveWithButtons` | `OneOpenOrderPerExecutor`, as one example of what `ImplementsDispatch` hands over |

`CallbackInv` has four layers, each of which needs the ones before. (1) `Base`: `Dispatch`'s
`IInv`, and rows and workers that refer to what exists. (2) `ClaimsHeld`: a worker past
`resolve`, and every press that had an effect, holds the claim of its token; hence
`TokenSpentOnce`. (3) `Progress`: a press that had an effect by a forward action, or is
answered "done", has its order in a set of statuses that no step of `Dispatch` leaves
(`Beyond`); hence the command cannot succeed again, and the answer stays true. (4) As long as
nothing went wrong, `HandledOnce`: one worker for a press and no attempt before it.

`TrackingPoints_proofs` proves, from `TimeAssumption` and `NoOneAssumption`, for any number of
calls, source events and moments:

| Theorem | States |
|---|---|
| `Invariance` | `IInv` always holds |
| `TypeCorrect`, `RouteStaysDense`, `NeverConflicts`, `AnswersAreStored` | the invariants of the run `tracking_points` |
| `ClosedStays` | `ClosedRouteStays` |

`IInv` adds that the call that holds the lock has read the row as it still is (`LockHeld`),
so that the count it numbers from is the number of points there are. It says nothing of
the snapshot's latest point, and could not: that one may be outdated (finding 3).

`Staff_proofs` proves, from `StaffAssumption`, for any accounts, codes, creations, workers, bots
and limits:

| Theorem | States |
|---|---|
| `Invariance` | `IInv` always holds |
| `TypeCorrect`, `CodeIsUsedOnce`, `MadeAgainOnlyAfterMerge` | the invariants of the run `staff` |
| `AccountsAreKept` | `AccountsStay` |

The argument is about row locks: no two transactions have locked one actor (`Locks`), and as
long as one holds it no other changes its code or binds an account to it (`Kept`). So what
`CheckBinding` has read is still so when `Bind` writes (`SeenOK`): the account has the actor
it had, and an actor that is merged away has no accounts. A used code is gone with its
actor or from it (`BoundOK`), and identifiers that were given are not given again (`Old`).
`MadeOK`, inductive together with `IInv`, adds that the last actor of a creation has its key
while it exists; `Persists` says what every step but `Create` leaves of that.

`Intake_proofs` proves, from `IntakeAssumption`, for any revisions, fields, services, handlers
and bounds:

| Theorem | States |
|---|---|
| `Invariance` | `IInv` always holds |
| `TypeCorrect`, `OrdersAreComplete`, `ToldIsTrue` | the invariants of the run `intake` |

Any document may be written back at any time, so nothing can be said that relates a document
to the current one. `IInv` therefore says of each document by itself, in the row or in a
handler's hands, that it holds the answers its step stands for (`DocOK`): at a field, all
required fields before it; at the confirmation, all of them, and an address. That needs what
is chosen to be distinct and offered by the pinned revision (`SelectedOK`). `HandleIs` shows,
with one lemma for each of the coordinator's methods, that a good document leads to a good
one. `ToldIsOrdered` holds because between `CreateOrder` and `ClearSession` a handler holds
exactly the content the order has, and orders do not change (`Grow`).

Induction over data is done, where it is needed, through the least counterexample: `MinIs` and
`LeastIs` (a set of numbers has a least one) are proved from the library's `WFMin`. `Without`
is defined by the places that remain, not by recursion along the list, so that it can be
reasoned about.

Only model-checked:

- Liveness, which the prover does not reach: `EventuallySettled`, and the fairness of
  `Mailbox!Spec` in `AtLeastOnce`.
- The five findings, which are counterexamples.

## Not modelled

- Rendering and wording of messages, provider formats and HTTP, HTML pages, settings, static
  catalogues, lists, statistics and read models: no state of the system depends on them.
- Authentication, signatures, rate limits.
- Real time: the value of the retry delay, the seven days of a code, the age at which
  retention deletes rows. Where time decides, the models let it pass at any moment (`Ripen`,
  `Expire`, `ExpireWindow`, `CleanupStale`).
- The polling cursor: one poller for each bot is assumed by the deployment, and a repeated
  batch is caught by the inbox's key, which is modelled.
- Report drafts and the role chosen in the shared staff bot, the flow of role names, the
  administrator's own roles.
- The in-memory stores: a second implementation for tests, in one process.
- Small algorithms without state (order numbers, link encoding, egress policy).

## Plan

1. `ReportDrafts` with `Dispatch`: photos and comment collected during the work, read,
   completed and cleared in three transactions.
2. A run of `Callbacks` with two orders and no rejection, for `Conflict` and for the branch
   of `start_travel` that looks at another order.
3. `Staff` beside `Dispatch`: a role taken while an order is being assigned.

Proofs to come: with each of these its invariants. Of the modules there are, the
safety properties of every passing run are proved.
