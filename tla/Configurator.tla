---------------------------- MODULE Configurator ----------------------------
(***************************************************************************)
(* The owner edits the draft from two messengers at once                   *)
(* (messaging/config.py): each channel has its own session and its own     *)
(* worker; the draft is shared.  A handler reads the session and the       *)
(* draft, computes, and writes each back whole in a transaction of its     *)
(* own, so the other channel's steps fall in between, and so do crashes    *)
(* after which the inbox hands the same event over again.                  *)
(*                                                                         *)
(* Taking an event and the first reads are one step, and so are the last   *)
(* write and the inbox's mark: nothing another worker could tell happens   *)
(* in between.  A crash before the mark leaves the event unmarked.         *)
(***************************************************************************)
EXTENDS Packs

CONSTANTS
  Channels,       \* messengers the owner writes from
  MaxEvents,      \* bound on the events the owner sends
  MaxFaults       \* bound on handlers that fail

ASSUME ConfiguratorAssumption ==
  MaxEvents \in Nat /\ MaxFaults \in Nat

VARIABLES
  sessions,       \* config_sessions
  work,           \* the event each channel's worker is handling
  failed,         \* events to be handed over again
  sent,           \* how many events were sent
  faults,         \* failures so far
  overtaken       \* events that waited to be handed over again while another
                  \* one of their channel was taken

vars == <<packs, sessions, work, failed, sent, faults, overtaken>>

-----------------------------------------------------------------------------
(* Events and sessions.                                                    *)

Event(c, n, kind, arg) == [channel |-> c, n |-> n, kind |-> kind, arg |-> arg]
Id(e) == [channel |-> e.channel, n |-> e.n]

NoArg == Key(Address, 0)

\* Buttons whose handlers replace a part of the draft.  "retouch" and
\* "evidence" stand for those that change only what the model leaves out: the
\* choice of several services and the pool mode; photos, comment and so on.
EditKinds == {"service_delete", "service_up", "service_down",
              "field_delete", "field_up", "field_down", "retouch", "evidence"}
\* Buttons that start a flow, leave it, go on with it, or show a list.
FlowKinds == {"brand", "service_add", "field_add", "field_prompt", "cancel",
              "type_address", "type_enum", "type_text", "required", "view"}
\* Buttons that are one transaction of the pack store.
StoreKinds == {"publish", "discard", "restore"}
TextKind == "text"
Kinds == EditKinds \cup FlowKinds \cup StoreKinds \cup {TextKind}

NoSession == [flow |-> "none", step |-> "none", key |-> NoArg, label |-> NoLabel,
              type |-> "none", choices |-> FALSE, last |-> NoEvent]
Flow(flow, step) == [NoSession EXCEPT !.flow = flow, !.step = step]

-----------------------------------------------------------------------------
(* What a handler does when it has read: it writes a session, the draft and *)
(* a session again, and shows a list, which reads the draft anew and makes  *)
(* one if there is none.  Keep stands for a write it does not make.         *)

Keep == [keep |-> TRUE]
Plan(first, draft, last) ==
  [first |-> first, raises |-> FALSE, draft |-> draft, last |-> last, view |-> FALSE]
Nothing == Plan(Keep, Keep, Keep)
Raises(first) == [Nothing EXCEPT !.first = first, !.raises = TRUE]
Set(session) == Plan(Keep, Keep, session)
Replace(draft) == Plan(Keep, draft, Keep)
ReplaceAndClear(draft) == Plan(Keep, draft, NoSession)
ThenView(plan) == [plan EXCEPT !.view = TRUE]

\* The items with other keys, in their order.
Without(items, key) ==
  LET kept == {i \in DOMAIN items : items[i].key # key}
      place(n) == CHOOSE i \in kept : Cardinality({j \in kept : j <= i}) = n
  IN  [n \in 1..Cardinality(kept) |-> items[place(n)]]

\* _move_item: swap with the neighbour, if there is one.
MoveItem(items, key, up) ==
  LET at == {i \in DOMAIN items : items[i].key = key}
      i  == CHOOSE j \in at : TRUE
      t  == IF up THEN i - 1 ELSE i + 1
  IN  IF at # {} /\ t \in DOMAIN items
        THEN [items EXCEPT ![i] = items[t], ![t] = items[i]]
        ELSE items

DeleteService(d, key) == ThenView(Replace([d EXCEPT !.services = Without(@, key)]))
MoveService(d, key, up) == ThenView(Replace([d EXCEPT !.services = MoveItem(@, key, up)]))
DeleteField(d, key) == ThenView(Replace([d EXCEPT !.fields = Without(@, key)]))
MoveField(d, key, up) == ThenView(Replace([d EXCEPT !.fields = MoveItem(@, key, up)]))
Retouch(d) == ThenView(Replace(d))
EvidenceToggle(d) == Replace(d)

\* _brand_step: name, greeting, support; the session follows each.
BrandStep(s, d) ==
  CASE s.step = "name"     -> Plan(Keep, [d EXCEPT !.name = TRUE], Flow("brand", "greeting"))
    [] s.step = "greeting" -> Plan(Keep, d, Flow("brand", "support"))
    [] OTHER               -> ReplaceAndClear(d)

\* The key is chosen and kept in the session before the draft is written.
AddService(s, d, label, id) ==
  LET fresh == s.key = NoArg \/ s.label # label
      key   == IF fresh THEN Slug(Base[label], KeysOf(d.services)) ELSE s.key
  IN  ThenView(Plan(IF fresh THEN [s EXCEPT !.key = key, !.label = label] ELSE Keep,
                    [d EXCEPT !.services = Append(@, Item(key, "service", id))],
                    NoSession))

\* _service_save: a key that is in the draft already means it was written.
ServiceSave(s, d, label, id) ==
  IF s.key \in KeysOf(d.services) THEN ThenView(Set(NoSession))
  ELSE AddService(s, d, label, id)

FieldLabel(d, label) ==
  Set([Flow("field_add", "type") EXCEPT !.label = label,
                                        !.key = Slug(Base[label], KeysOf(d.fields))])

\* _field_type looks at the flow, not at the step.  The first address field
\* has a key of its own.
FieldType(s, d, type) ==
  IF s.flow # "field_add" THEN ThenView(Nothing)
  ELSE Set([s EXCEPT !.type = type,
                     !.key = IF type = "address" /\ AddressKey \notin KeysOf(d.fields)
                               THEN AddressKey ELSE @,
                     !.step = IF type = "enum" THEN "choices" ELSE "required"])

FieldChoices(s) == Set([s EXCEPT !.choices = TRUE, !.step = "required"])

\* _field_required looks at the flow, not at the step: the label and the type
\* may be missing.  FieldDefinition refuses an empty label, choices of
\* another type than enum, and an enum without choices.
FieldRequired(s, d, id) ==
  LET type == IF s.type = "none" THEN "text" ELSE s.type
      key  == IF s.key = NoArg THEN Slug(Prefix, KeysOf(d.fields)) ELSE s.key
      first == IF s.key = NoArg THEN [s EXCEPT !.key = key] ELSE Keep
      refused == s.label = NoLabel \/ (type = "enum") # s.choices
      known == key \in KeysOf(d.fields)
  IN  CASE s.flow # "field_add" -> ThenView(Nothing)
        [] s.flow = "field_add" /\ known -> ThenView(Set(NoSession))
        [] s.flow = "field_add" /\ ~known /\ refused -> Raises(first)
        [] OTHER -> ThenView(ReplaceAndClear(
                      [d EXCEPT !.fields = Append(@, Item(key, type, id))]))

FieldPrompt(d, key) ==
  IF key \in KeysOf(d.fields) THEN Set([Flow("field_prompt", "prompt") EXCEPT !.key = key])
  ELSE ThenView(Nothing)

\* _field_prompt_save: a question that is there already is not written again.
FieldPromptSave(s, d, text) ==
  LET fields == [i \in DOMAIN d.fields |->
                   IF d.fields[i].key = s.key THEN [d.fields[i] EXCEPT !.prompt = text]
                   ELSE d.fields[i]]
  IN  ThenView(IF fields = d.fields THEN Set(NoSession)
               ELSE ReplaceAndClear([d EXCEPT !.fields = fields]))

\* _consume: what a text means is up to the session.
Consume(s, d, e) ==
  CASE s.flow = "brand" -> BrandStep(s, d)
    [] s.flow = "service_add" -> ServiceSave(s, d, e.arg, Id(e))
    [] s.flow = "field_add" /\ s.step = "label" -> FieldLabel(d, e.arg)
    [] s.flow = "field_add" /\ s.step = "choices" -> FieldChoices(s)
    [] s.flow = "field_prompt" -> FieldPromptSave(s, d, e.arg)
    [] OTHER -> Nothing

\* handle_text and handle_callback.
PlanOf(s, d, e) ==
  CASE e.kind = TextKind         -> Consume(s, d, e)
    [] e.kind = "service_delete" -> DeleteService(d, e.arg)
    [] e.kind = "service_up"     -> MoveService(d, e.arg, TRUE)
    [] e.kind = "service_down"   -> MoveService(d, e.arg, FALSE)
    [] e.kind = "field_delete"   -> DeleteField(d, e.arg)
    [] e.kind = "field_up"       -> MoveField(d, e.arg, TRUE)
    [] e.kind = "field_down"     -> MoveField(d, e.arg, FALSE)
    [] e.kind = "retouch"        -> Retouch(d)
    [] e.kind = "evidence"       -> EvidenceToggle(d)
    [] e.kind = "brand"          -> Set(Flow("brand", "name"))
    [] e.kind = "service_add"    -> Set(Flow("service_add", "label"))
    [] e.kind = "field_add"      -> Set(Flow("field_add", "label"))
    [] e.kind = "field_prompt"   -> FieldPrompt(d, e.arg)
    [] e.kind = "cancel"         -> Set(NoSession)
    [] e.kind = "type_address"   -> FieldType(s, d, "address")
    [] e.kind = "type_enum"      -> FieldType(s, d, "enum")
    [] e.kind = "type_text"      -> FieldType(s, d, "text")
    [] e.kind = "required"       -> FieldRequired(s, d, Id(e))
    [] e.kind = "view"           -> Nothing

\* Handlers that have no use for the draft, or not in this session.
NeedsDraft(s, e) ==
  CASE e.kind \in {"cancel", "type_enum", "type_text"} -> FALSE
    [] e.kind \in {"type_address", "required"} -> s.flow = "field_add"
    [] e.kind = TextKind -> s.flow \notin {"none", "field_add"} \/ s.step = "label"
    [] OTHER -> TRUE

-----------------------------------------------------------------------------
(* The worker of a channel.                                                *)

NoWork == [phase |-> "idle", event |-> Event("none", 0, "none", NoArg),
           draft |-> Keep, plan |-> Nothing]
InPhase(c, phases) == work[c].phase \in phases

Init ==
  /\ packs = Bootstrapped
  /\ sessions = [c \in Channels |-> NoSession]
  /\ work = [c \in Channels |-> NoWork]
  /\ failed = [c \in Channels |-> {}]
  /\ sent = 0 /\ faults = 0
  /\ overtaken = {}

\* The first thing a plan has yet to do.
PhaseOf(plan) ==
  IF plan.first # Keep THEN "planned" ELSE
  IF plan.raises THEN "raising" ELSE
  IF plan.draft # Keep THEN "keyed" ELSE
  IF plan.last # Keep THEN "written" ELSE "viewing"

\* The event e goes on with a plan, or is marked when nothing is left to do.
GoOn(c, e, plan) ==
  work' = [work EXCEPT ![c] = IF plan = Nothing THEN NoWork
             ELSE [phase |-> PhaseOf(plan), event |-> e, draft |-> Keep, plan |-> plan]]

\* What is left of a plan, after a write that the worker may not survive.
Proceed(c, e, plan, waiting) ==
  \/ GoOn(c, e, plan) /\ failed' = [failed EXCEPT ![c] = waiting]
     /\ UNCHANGED faults
  \/ /\ faults < MaxFaults /\ faults' = faults + 1
     /\ failed' = [failed EXCEPT ![c] = waiting \cup {e}]
     /\ work' = [work EXCEPT ![c] = NoWork]

\* Without a draft _ensure_draft reads the active revision, which a later
\* transaction makes the draft.  (There is always an active revision: the
\* worker bootstraps one before it takes an event.)
Seeding(c, e, phase) ==
  work' = [work EXCEPT ![c] = [phase |-> phase, event |-> e, plan |-> Nothing,
                               draft |-> packs[ActiveVersion].definition]]

\* The plan is made from the session and the draft as they are read.
Answer(c, e, waiting) ==
  LET s == sessions[c] IN
  /\ e.kind \notin StoreKinds
  /\ \/ /\ ~NeedsDraft(s, e)
        /\ GoOn(c, e, PlanOf(s, Keep, e))
     \/ /\ NeedsDraft(s, e) /\ HasDraft
        /\ GoOn(c, e, PlanOf(s, packs[DraftVersion].definition, e))
     \/ /\ NeedsDraft(s, e) /\ ~HasDraft
        /\ Seeding(c, e, "seeded")
  /\ failed' = [failed EXCEPT ![c] = waiting]
  /\ UNCHANGED <<packs, faults>>

\* _publish, _discard_draft_confirm and _restore_version_confirm; one that is
\* refused is answered and changes nothing.
PublishEvent(c, e, waiting) ==
  /\ e.kind = "publish"
  /\ \/ PublishDraft
     \/ UNCHANGED packs /\ ~(HasDraft /\ Valid(packs[DraftVersion].definition))
  /\ Proceed(c, e, Nothing, waiting)

DiscardEvent(c, e, waiting) ==
  /\ e.kind = "discard"
  /\ DiscardDraft
  /\ Proceed(c, e, Nothing, waiting)

RestoreEvent(c, e, waiting) ==
  /\ e.kind = "restore"
  /\ RestoreAsDraft(e.arg.n)
  /\ Proceed(c, e, Nothing, waiting)

Handle(c, e, waiting) ==
  \/ Answer(c, e, waiting)
  \/ PublishEvent(c, e, waiting) \/ DiscardEvent(c, e, waiting) \/ RestoreEvent(c, e, waiting)

\* Keys that buttons carry: they were rendered from some revision.
ServiceKeys == UNION {KeysOf(packs[v].definition.services) : v \in DOMAIN packs}
FieldKeys == UNION {KeysOf(packs[v].definition.fields) : v \in DOMAIN packs}

Args(kind) ==
  CASE kind = TextKind -> Labels
    [] kind \in {"service_delete", "service_up", "service_down"} -> ServiceKeys
    [] kind \in {"field_delete", "field_up", "field_down", "field_prompt"} -> FieldKeys
    [] kind = "restore" -> {Key(Address, v) : v \in InState(Published)}
    [] OTHER -> {NoArg}

\* Events that without a session only show a menu or a list.
SessionKinds == {TextKind, "cancel", "type_address", "type_enum", "type_text", "required"}

TakeNew(c) ==
  /\ InPhase(c, {"idle"}) /\ sent < MaxEvents
  /\ \E kind \in Kinds : \E arg \in Args(kind) :
       /\ kind \in SessionKinds => sessions[c] # NoSession
       /\ Handle(c, Event(c, sent + 1, kind, arg), failed[c])
  /\ sent' = sent + 1
  /\ overtaken' = overtaken \cup {Id(e) : e \in failed[c]}
  /\ UNCHANGED sessions

\* A session writes the event it was put for; the events of a session read
\* back as handled only if they are texts (_is_replayed_session_event).
IsReplay(e) == e.kind = TextKind /\ sessions[e.channel].last = Id(e)

TakeAgain(c, e) ==
  /\ InPhase(c, {"idle"})
  /\ \/ /\ IsReplay(e)
        /\ failed' = [failed EXCEPT ![c] = @ \ {e}]
        /\ UNCHANGED <<packs, work, faults, overtaken>>
     \/ /\ ~IsReplay(e)
        /\ Handle(c, e, failed[c] \ {e})
        /\ overtaken' = overtaken \cup {Id(other) : other \in failed[c] \ {e}}
  /\ UNCHANGED <<sessions, sent>>

MakeDraft(c) ==
  LET e == work[c].event
      d == IF HasDraft THEN packs[DraftVersion].definition ELSE work[c].draft
  IN  /\ EnsureDraft(work[c].draft)
      /\ \/ InPhase(c, {"seeded"}) /\ GoOn(c, e, PlanOf(sessions[c], d, e))
            /\ UNCHANGED <<failed, faults>>
         \/ InPhase(c, {"reseeded"}) /\ Proceed(c, e, Nothing, failed[c])
      /\ UNCHANGED <<sessions, sent, overtaken>>

\* A put stores the event; a clear leaves nothing.
Stored(session, e) ==
  IF session = NoSession THEN NoSession ELSE [session EXCEPT !.last = Id(e)]

PutFirst(c) ==
  LET e == work[c].event
      p == work[c].plan
  IN  /\ InPhase(c, {"planned"})
      /\ sessions' = [sessions EXCEPT ![c] = Stored(p.first, e)]
      /\ Proceed(c, e, [p EXCEPT !.first = Keep], failed[c])
      /\ UNCHANGED <<packs, sent, overtaken>>

\* _replace: with no draft to write the handler ends in NotFound, which is an
\* answer to the owner.
WriteDraft(c) ==
  LET e == work[c].event
      p == work[c].plan
  IN  /\ InPhase(c, {"keyed"})
      /\ \/ UpdateDraft(p.draft) /\ Proceed(c, e, [p EXCEPT !.draft = Keep], failed[c])
         \/ ~HasDraft /\ GoOn(c, e, Nothing) /\ UNCHANGED <<packs, failed, faults>>
      /\ UNCHANGED <<sessions, sent, overtaken>>

PutLast(c) ==
  LET e == work[c].event
      p == work[c].plan
  IN  /\ InPhase(c, {"written"})
      /\ sessions' = [sessions EXCEPT ![c] = Stored(p.last, e)]
      /\ Proceed(c, e, [p EXCEPT !.last = Keep], failed[c])
      /\ UNCHANGED <<packs, sent, overtaken>>

\* _services, _fields, _allocation and _role_labels end most handlers; they
\* go through _ensure_draft, and so may make a draft anew.
View(c) ==
  /\ InPhase(c, {"viewing"})
  /\ \/ HasDraft /\ GoOn(c, work[c].event, Nothing)
     \/ ~HasDraft /\ Seeding(c, work[c].event, "reseeded")
  /\ UNCHANGED <<packs, sessions, failed, sent, faults, overtaken>>

\* The handler raises: the inbox hands the event over again, or gives it up
\* after its last attempt.
Raise(c) ==
  /\ InPhase(c, {"raising"})
  /\ \/ /\ work' = [work EXCEPT ![c] = NoWork]
        /\ UNCHANGED <<failed, faults>>
     \/ /\ faults < MaxFaults /\ faults' = faults + 1
        /\ failed' = [failed EXCEPT ![c] = @ \cup {work[c].event}]
        /\ work' = [work EXCEPT ![c] = NoWork]
  /\ UNCHANGED <<packs, sessions, sent, overtaken>>

Next ==
  \E c \in Channels :
    \/ MakeDraft(c)
    \/ PutFirst(c) \/ WriteDraft(c) \/ PutLast(c) \/ View(c) \/ Raise(c)
    \/ \E e \in failed[c] : TakeAgain(c, e)
    \/ TakeNew(c)

Spec == Init /\ [][Next]_vars

-----------------------------------------------------------------------------
(* Properties.                                                             *)

Items == [key : [base : {Base[l] : l \in Labels} \cup {Address}, n : Nat],
          type : {"service", "address", "enum", "text"},
          prompt : Labels \cup {NoLabel},
          by : [channel : Channels \cup {"none"}, n : Nat]]

IsDefinition(d) ==
  /\ d.name \in BOOLEAN
  /\ \A i \in DOMAIN d.services : d.services[i] \in Items
  /\ \A i \in DOMAIN d.fields : d.fields[i] \in Items

\* Types: the table holds at most one draft and one active revision
\* (uq_org_packs_one_draft, uq_org_packs_one_active), numbered from 1.
TypeOK ==
  /\ DOMAIN packs \subseteq 1..MaxVersion
  /\ \A v \in DOMAIN packs :
       packs[v].state \in States /\ IsDefinition(packs[v].definition)
  /\ Cardinality(InState({"draft"})) <= 1 /\ Cardinality(InState({"active"})) <= 1
  /\ sent \in 0..MaxEvents /\ faults \in 0..MaxFaults
  /\ \A c \in Channels : \A e \in failed[c] : e.channel = c

\* A revision that was published is found by its number ever after, with the
\* definition it had - intakes that began with it pin it -: no edit computed
\* from a draft that has since been published or discarded lands on it
\* (update_draft, revision, publish_draft, discard_draft).
RevisionsStay ==
  [][\A v \in InState(Published) :
       v \in DOMAIN packs' /\ packs'[v].state \in Published
       /\ packs'[v].definition = packs[v].definition]_packs

\* Whatever the two channels write while one of them publishes, what is
\* published has a name, a service and an address (publish_draft,
\* validate_definition).
PublishedIsValid == \A v \in InState(Published) : Valid(packs[v].definition)

\* Revision numbers follow the order of publication: the draft is newest, the
\* active revision next, and no number given up by a discarded draft returns
\* below one that was published (_next_version, discard_draft,
\* restore_as_draft, publish_draft).
VersionsFollowPublication ==
  \A v, w \in DOMAIN packs : v < w =>
    \/ packs[v].state = "archived"
    \/ packs[v].state = "active" /\ packs[w].state = "draft"

DistinctItems(items) ==
  \A i, j \in DOMAIN items : i # j =>
    /\ items[i].key # items[j].key
    /\ items[i].by = items[j].by => items[i].by \in overtaken \cup {NoEvent}

\* An item has a key of its own, whatever the other channel adds meanwhile,
\* and is added once, however often the event that adds it is handed over -
\* unless another event of the channel was handled before it was, a newer one
\* or an older one handed over again: the session then remembers that event and
\* takes this one for another answer (item_key of _service_save, scratch of
\* _field_required, state_handled_event).
ItemsAddedOnce ==
  \A v \in DOMAIN packs : /\ DistinctItems(packs[v].definition.services)
                          /\ DistinctItems(packs[v].definition.fields)
=============================================================================
