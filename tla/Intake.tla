------------------------------- MODULE Intake -------------------------------
(***************************************************************************)
(* A client's order from the first message to its submission               *)
(* (messaging/intake.py, PostgresIntakeSessionStore).                      *)
(*                                                                         *)
(* The session is one JSON document.  A handler reads it, computes the     *)
(* next document and puts it back whole, with no version to check; nothing *)
(* orders the events of one client, who may write from two messengers, and *)
(* the address page changes the same row in a transaction of its own.  So  *)
(* a handler may write back a document that is no longer the latest.       *)
(*                                                                         *)
(* Of the answers the document keeps which keys have one and where the     *)
(* address came from.  Numbers of events are used again once nothing       *)
(* mentions them, which keeps the model finite without a bound on events.  *)
(***************************************************************************)
EXTENDS Naturals, SequencesExt

CONSTANTS
  Handlers,         \* events handled at a time
  Pack,             \* the published revisions: [Versions -> definitions]
  MaxSubmissions,   \* bound on submission identifiers
  MaxTokens,        \* bound on address tokens
  MaxOverlaps,      \* bound on events begun while another is handled
  MaxFaults         \* bound on handlers that fail

Versions == DOMAIN Pack
Services == UNION {Pack[v].services : v \in Versions}
FieldKeys == UNION {{Pack[v].fields[i].key : i \in DOMAIN Pack[v].fields} : v \in Versions}

ASSUME IntakeAssumption ==
  /\ MaxSubmissions \in Nat /\ MaxTokens \in Nat /\ MaxOverlaps \in Nat /\ MaxFaults \in Nat
  /\ 1 \in Versions
  /\ IsFiniteSet(Handlers) /\ IsFiniteSet(Services)
  /\ \A v \in Versions : /\ Pack[v].multi_select \in BOOLEAN
                         /\ Pack[v].fields \in Seq([key : FieldKeys, required : BOOLEAN])

VARIABLES
  active,           \* the revision that is active
  session,          \* the client's row of intake_sessions
  orders,           \* details by submission
  work,             \* what each handler does
  failed,           \* events to be handed over again
  submissions, tokens, overlaps, faults,    \* how many there were
  saved,            \* tokens a point was saved with
  savedAgain,       \* those a second point was saved with
  told              \* contents the client was told are sent

counters == <<submissions, tokens, overlaps, faults>>
history == <<saved, savedAgain, told>>
vars == <<active, session, orders, work, failed, counters, history>>

-----------------------------------------------------------------------------
(* Documents.                                                              *)

NoSession == [step |-> "none"]

NewSession(n, v) ==
  [step |-> "phone", answered |-> {}, address |-> "none", selected |-> <<>>,
   index |-> 0, token |-> 0, submission |-> n, version |-> v, last |-> 0]

\* What a handler does with the session when it has computed.
Write(kind, doc) == [kind |-> kind, doc |-> doc]
Answer == Write("answer", NoSession)
Clear == Write("clear", NoSession)
Start == Write("start", NoSession)
Put(doc) == Write("put", doc)
Submit(doc) == Write("submit", doc)

FillPhone(d) == Put([d EXCEPT !.answered = @ \cup {"phone"}, !.step = "address",
                              !.token = tokens + 1])

\* Defect: the token is kept.
WithAddressKeepingToken(d, how) ==
  [d EXCEPT !.answered = @ \cup {"address"}, !.address = how, !.step = "services"]

\* Text, native location and the address page give the address alike.
WithAddress(d, how) ==
  [d EXCEPT !.answered = @ \cup {"address"}, !.address = how, !.step = "services", !.token = 0]

ToConfirmation(d) == Put([d EXCEPT !.step = "confirm"])

AskFrom(pack, d, start) ==
  LET open == {i \in start..Len(pack.fields) : pack.fields[i].key \notin d.answered}
  IN  IF open = {} THEN ToConfirmation([d EXCEPT !.index = Len(pack.fields) + 1])
      ELSE Put([d EXCEPT !.step = "fields", !.index = Min(open)])

FinishServices(pack, d) ==
  IF d.selected = <<>> THEN Answer ELSE AskFrom(pack, d, 1)

Toggle(selected, s) ==
  IF s \in Range(selected) THEN RemoveFirst(selected, s) ELSE Append(selected, s)

PickService(pack, d, s) ==
  CASE s \notin pack.services -> Answer
    [] s \in pack.services /\ ~pack.multi_select -> FinishServices(pack, [d EXCEPT !.selected = <<s>>])
    [] OTHER -> Put([d EXCEPT !.selected = Toggle(@, s)])

FillField(pack, d, skip) ==
  LET field == pack.fields[d.index] IN
  CASE d.index \notin DOMAIN pack.fields -> ToConfirmation(d)
    [] d.index \in DOMAIN pack.fields /\ skip /\ field.required -> Answer
    [] OTHER -> AskFrom(pack, IF skip THEN d ELSE [d EXCEPT !.answered = @ \cup {field.key}],
                        d.index + 1)

\* handle_text; "-" is too short for a phone number or an address.
HandleText(pack, d, skip) ==
  CASE d.step = "phone" /\ ~skip   -> FillPhone(d)
    [] d.step = "address" /\ ~skip -> Put(WithAddress(d, "text"))
    [] d.step = "fields"           -> FillField(pack, d, skip)
    [] OTHER                       -> Answer

\* handle_callback and handle_location.  Asking for the location or for a text
\* puts the document back for the sake of address_mode, which nothing reads.
HandlePress(pack, d, e) ==
  CASE e.kind = "location" /\ d.step = "address" -> Put(WithAddress(d, "native"))
    [] e.kind = "address_mode" /\ d.step = "address" -> Put(d)
    [] e.kind = "pick" /\ d.step \in {"services", "fields", "confirm"} -> PickService(pack, d, e.arg)
    [] e.kind = "choice" /\ d.step = "fields" -> FillField(pack, d, FALSE)
    [] e.kind = "done" /\ d.step = "services" -> FinishServices(pack, d)
    [] e.kind = "confirm" /\ d.step = "confirm" -> IF d.selected = <<>> THEN Start ELSE Submit(d)
    [] OTHER -> Answer

\* Defect: the revision that is active now.
PackForActive(d) == Pack[active]

\* _pack_for_state: the revision the session has pinned.
PackForState(d) == Pack[d.version]

Texts == {"text", "skip"}

Handle(d, e) ==
  CASE e.kind = "cancel" -> Clear
    [] e.kind = "start" -> Start
    [] e.kind \notin {"cancel", "start"} /\ d = NoSession -> Start
    [] e.kind \in Texts /\ d # NoSession -> HandleText(PackForState(d), d, e.kind = "skip")
    [] OTHER -> HandlePress(PackForState(d), d, e)

-----------------------------------------------------------------------------
(* Handlers.                                                               *)

Event(id, kind, arg) == [id |-> id, kind |-> kind, arg |-> arg]
NoEvent == Event(0, "none", "none")
NoWork == [phase |-> "idle", event |-> NoEvent, write |-> Answer]
Idle(h) == work[h].phase = "idle"
At(h, phase) == work[h].phase = phase
To(h, phase) == work' = [work EXCEPT ![h].phase = phase]

Init ==
  /\ active = 1
  /\ session = NoSession
  /\ orders = << >>
  /\ work = [h \in Handlers |-> NoWork]
  /\ failed = {}
  /\ submissions = 0 /\ tokens = 0 /\ overlaps = 0 /\ faults = 0
  /\ saved = {} /\ savedAgain = {} /\ told = {}

LastEvent == IF session = NoSession THEN 0 ELSE session.last

FreshId ==
  Min(1..(Cardinality(Handlers) + MaxFaults + 1)
          \ ({work[h].event.id : h \in Handlers} \cup {e.id : e \in failed} \cup {LastEvent}))

\* Texts have a number; presses are never looked up by theirs and have none.
Presses == {"start", "cancel", "location", "address_mode", "choice", "done", "confirm"}
Events == {Event(FreshId, k, "none") : k \in Texts}
          \cup {Event(0, k, "none") : k \in Presses}
          \cup {Event(0, "pick", s) : s \in Services}

Begin(h, e) ==
  /\ Idle(h)
  /\ \/ \A g \in Handlers : Idle(g)
        /\ UNCHANGED overlaps
     \/ /\ \E g \in Handlers : ~Idle(g)
        /\ overlaps < MaxOverlaps
        /\ overlaps' = overlaps + 1
  /\ work' = [work EXCEPT ![h] = [NoWork EXCEPT !.phase = "begun", !.event = e]]

TakeNew(h, e) ==
  /\ Begin(h, e)
  /\ UNCHANGED <<active, session, orders, failed, submissions, tokens, faults, history>>

\* Texts that the session says were handled are answered so; presses are not
\* looked up (_is_replayed_session_event).
TakeAgain(h, e) ==
  /\ failed' = failed \ {e}
  /\ \/ e.kind \in Texts /\ LastEvent = e.id /\ Idle(h) /\ UNCHANGED <<work, overlaps>>
     \/ ~(e.kind \in Texts /\ LastEvent = e.id) /\ Begin(h, e)
  /\ UNCHANGED <<active, session, orders, submissions, tokens, faults, history>>

NextPhase(w) ==
  CASE w.kind = "answer" -> "done" [] w.kind = "submit" -> "submitting"
    [] w.kind = "clear" -> "clearing" [] OTHER -> "putting"

\* put gives a document the event it is put for.
Forget(doc) == IF doc = NoSession THEN doc ELSE [doc EXCEPT !.last = 0]

\* The document is read, and the next one computed from it.  start pins the
\* active revision and makes a submission identifier.
Read(h) ==
  LET w == Handle(session, work[h].event)
      begins == w.kind = "start"
      doc == IF begins THEN NewSession(submissions + 1, active) ELSE w.doc
      issues == w.kind = "put" /\ doc.token > tokens
  IN  /\ At(h, "begun")
      /\ begins => submissions < MaxSubmissions
      /\ issues => tokens < MaxTokens
      /\ submissions' = submissions + (IF begins THEN 1 ELSE 0)
      /\ tokens' = tokens + (IF issues THEN 1 ELSE 0)
      /\ work' = [work EXCEPT ![h].phase = NextPhase(w), ![h].write = Write(w.kind, Forget(doc))]
      /\ UNCHANGED <<active, session, orders, failed, overlaps, faults, history>>

\* put replaces the row and stores the event with it.
PutSession(h) ==
  /\ At(h, "putting")
  /\ session' = [work[h].write.doc EXCEPT !.last = work[h].event.id]
  /\ To(h, "done")
  /\ UNCHANGED <<active, orders, failed, counters, history>>

Content(d) == [services |-> d.selected, version |-> d.version,
               answered |-> d.answered, address |-> d.address]

\* Defect: whatever order has the identifier is taken for this one.
SameSubmissionAlways(n, content) == TRUE

\* _same_submission: the order that is there has the same content.
SameSubmission(n, content) == orders[n] = content

\* create_order_once; a different submission under the same identifier is a
\* conflict, which is an answer.
CreateOrder(h) ==
  LET d == work[h].write.doc IN
  /\ At(h, "submitting")
  /\ \/ /\ d.submission \notin DOMAIN orders
        /\ orders' = [n \in DOMAIN orders \cup {d.submission} |->
                        IF n = d.submission THEN Content(d) ELSE orders[n]]
        /\ To(h, "clearing")
     \/ /\ d.submission \in DOMAIN orders /\ SameSubmission(d.submission, Content(d))
        /\ To(h, "clearing")
        /\ UNCHANGED orders
     \/ /\ d.submission \in DOMAIN orders /\ ~SameSubmission(d.submission, Content(d))
        /\ To(h, "done")
        /\ UNCHANGED orders
  /\ UNCHANGED <<active, session, failed, counters, history>>

\* The last write of cancel and of confirm; the answer follows it.
ClearSession(h) ==
  LET w == work[h].write IN
  /\ At(h, "clearing")
  /\ session' = NoSession
  /\ told' = IF w.kind = "submit"
               THEN told \cup {[submission |-> w.doc.submission, content |-> Content(w.doc)]}
               ELSE told
  /\ To(h, "done")
  /\ UNCHANGED <<active, orders, failed, counters, saved, savedAgain>>

\* The inbox has the event done.  As its number is used again, the session
\* forgets it: the event itself cannot come back.
Finish(h) ==
  /\ At(h, "done")
  /\ work' = [work EXCEPT ![h] = NoWork]
  /\ session' = IF LastEvent = work[h].event.id THEN Forget(session) ELSE session
  /\ UNCHANGED <<active, orders, failed, counters, history>>

\* The worker or the database fails; the inbox hands the event over again.
\* A handler that fails before it has written leaves an event like one the
\* client has yet to send, so only the others are followed.
Fail(h) ==
  /\ \/ At(h, "clearing") /\ work[h].write.kind = "submit"
     \/ At(h, "done") /\ work[h].write.kind # "answer"
  /\ faults < MaxFaults
  /\ faults' = faults + 1
  /\ failed' = failed \cup {work[h].event}
  /\ work' = [work EXCEPT ![h] = NoWork]
  /\ UNCHANGED <<active, session, orders, submissions, tokens, overlaps, history>>

\* select_address_by_token: the row is locked, changed and its token removed.
SelectAddress(t) ==
  /\ session # NoSession
  /\ session.step = "address" /\ session.token = t
  /\ session' = WithAddress(session, "map")
  /\ saved' = saved \cup {t}
  /\ savedAgain' = savedAgain \cup (saved \cap {t})
  /\ UNCHANGED <<active, orders, work, failed, counters, told>>

\* cleanup_stale deletes what was not touched for a day.
CleanupStale ==
  /\ session # NoSession
  /\ session' = NoSession
  /\ UNCHANGED <<active, orders, work, failed, counters, history>>

\* An administrator publishes the next revision (Packs).
Publish ==
  /\ active + 1 \in Versions
  /\ active' = active + 1
  /\ UNCHANGED <<session, orders, work, failed, counters, history>>

Next ==
  \/ \E h \in Handlers :
       \/ \E e \in Events : TakeNew(h, e)
       \/ \E e \in failed : TakeAgain(h, e)
       \/ Read(h) \/ PutSession(h) \/ CreateOrder(h) \/ ClearSession(h)
       \/ Finish(h) \/ Fail(h)
  \/ \E t \in 1..tokens : SelectAddress(t)
  \/ CleanupStale
  \/ Publish

Spec == Init /\ [][Next]_vars

-----------------------------------------------------------------------------
(* Properties.                                                             *)

Sessions ==
  [step : {"phone", "address", "services", "fields", "confirm"},
   answered : SUBSET (FieldKeys \cup {"phone", "address"}),
   address : {"none", "text", "native", "map"},
   selected : UNION {[1..n -> Services] : n \in 0..Cardinality(Services)},
   index : Nat, token : 0..MaxTokens, submission : 1..MaxSubmissions,
   version : Versions, last : Nat]

\* Types, and what the steps of a document stand for: the token is there to
\* be used at the address step only, and the field that is asked has no
\* answer (_fill_phone, _fill_address, select_address_by_token, _fill_field).
TypeOK ==
  /\ active \in Versions
  /\ session # NoSession =>
       /\ session \in Sessions
       /\ (session.token # 0) <=> (session.step = "address")
       /\ session.step = "fields" =>
            Pack[session.version].fields[session.index].key \notin session.answered
  /\ DOMAIN orders \subseteq 1..submissions

IsComplete(content) ==
  LET pack == Pack[content.version] IN
  /\ {"phone", "address"} \subseteq content.answered
  /\ content.address # "none"
  /\ content.services # <<>> /\ Range(content.services) \subseteq pack.services
  /\ ~pack.multi_select => Len(content.services) = 1
  /\ \A i \in DOMAIN pack.fields :
       pack.fields[i].required => pack.fields[i].key \in content.answered

\* An order has a phone, an address, a service and an answer to every required
\* field of the revision the client was shown, whatever was pressed late,
\* written back stale or published meanwhile (_confirm, _pack_for_state).
OrdersComplete == \A n \in DOMAIN orders : IsComplete(orders[n])

\* What the client was told is sent is the order there is: an old document
\* that was written back after the submission, changed and confirmed again is
\* refused (create_order_once, _same_submission).
ToldIsOrdered ==
  \A t \in told : t.submission \in DOMAIN orders /\ orders[t.submission] = t.content

\* Saving the point consumes the capability (README.en.md:167): no token saves
\* a second point.
CapabilityOnce == savedAgain = {}
=============================================================================
