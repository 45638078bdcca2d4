------------------------------- MODULE Packs -------------------------------
(***************************************************************************)
(* The revisions of one organization's industry pack: table org_packs and  *)
(* the transactions of infrastructure/pack_store.py.                       *)
(*                                                                         *)
(* Of a definition the model keeps what publication is judged by and what  *)
(* the keys of its items must satisfy; the rest is left out: most texts,   *)
(* choice of services, evidence, the pool mode, names of roles.  A key     *)
(* made from a label is a base and a number (_slug); Base gives the base.  *)
(* A label without a Latin letter or a digit has the base Prefix, so       *)
(* different labels may share one.                                         *)
(***************************************************************************)
EXTENDS Integers, Sequences, FiniteSets

CONSTANTS
  Labels,         \* labels an administrator types
  NoLabel,        \* stands for the empty label
  Base,           \* the base of the key made from a label
  Address,        \* the base of the key "address"
  Prefix,         \* the base of keys of labels that give none
  SeedLabel,      \* the label of the seed's service
  MaxVersion      \* bound on revision numbers

ASSUME PacksAssumption ==
  /\ MaxVersion \in Nat \ {0}
  /\ SeedLabel \in Labels /\ NoLabel \notin Labels
  /\ Labels \subseteq DOMAIN Base /\ Address # Prefix

VARIABLE packs    \* the table: a function from version numbers to rows

States == {"draft", "active", "archived"}
Published == {"active", "archived"}

-----------------------------------------------------------------------------
(* Definitions.                                                            *)

Key(base, n) == [base |-> base, n |-> n]
AddressKey == Key(Address, 1)
KeysOf(items) == {items[i].key : i \in DOMAIN items}

\* Defect: the number is not raised past the keys that are taken.
SlugUnchecked(base, taken) == Key(base, 1)

\* The base itself, or the first of base_2, base_3, ... that is not taken.
Slug(base, taken) ==
  LET free == {n \in 1..(Cardinality(taken) + 1) : Key(base, n) \notin taken}
  IN  Key(base, CHOOSE n \in free : \A m \in free : n <= m)

\* prompt is the question an administrator gave it.
Item(key, type, by) == [key |-> key, type |-> type, prompt |-> NoLabel, by |-> by]

\* What an item of the seed has where the others name the event that added
\* them.
NoEvent == [channel |-> "none", n |-> 0]

\* seed_definition gives one of the packs of the catalogue: they all have a
\* name, services and an address.
Seed ==
  [name |-> TRUE,
   services |-> <<Item(Key(Base[SeedLabel], 1), "service", NoEvent)>>,
   fields |-> <<Item(AddressKey, "address", NoEvent)>>]

Valid(d) ==
  /\ d.name
  /\ d.services # <<>>
  /\ \/ \E i \in DOMAIN d.fields : d.fields[i].type = "address"
     \/ AddressKey \in KeysOf(d.fields)

-----------------------------------------------------------------------------
(* Reads.                                                                  *)

InState(states) == {v \in DOMAIN packs : packs[v].state \in states}
DraftVersion == CHOOSE v \in InState({"draft"}) : TRUE
ActiveVersion == CHOOSE v \in InState({"active"}) : TRUE

HasDraft == InState({"draft"}) # {}

\* revision: only what was published is found by its number.
Resolves(v) == v \in InState(Published)

\* _next_version: one more than the greatest.
NextVersion ==
  CHOOSE n \in 1..(MaxVersion + 1) :
    /\ \A v \in DOMAIN packs : v < n
    /\ n = 1 \/ n - 1 \in DOMAIN packs

Row(state, definition) == [state |-> state, definition |-> definition]

-----------------------------------------------------------------------------
(* Transactions.                                                           *)

InsertDraft(definition) ==
  LET n == NextVersion IN
  /\ n <= MaxVersion
  /\ packs' = [v \in DOMAIN packs \cup {n} |->
                 IF v = n THEN Row("draft", definition) ELSE packs[v]]

EnsureDraft(seed) ==
  \/ HasDraft /\ UNCHANGED packs
  \/ ~HasDraft /\ InsertDraft(seed)

\* Defect: the row is found by the number the editor read.
UpdateAnyState(definition) ==
  LET v == CHOOSE n \in DOMAIN packs : \A m \in DOMAIN packs : m <= n
  IN  packs' = [packs EXCEPT ![v].definition = definition]

\* update_draft writes whatever row is the draft now.
UpdateDraft(definition) ==
  /\ HasDraft
  /\ packs' = [packs EXCEPT ![DraftVersion].definition = definition]

DiscardDraft ==
  packs' = [v \in DOMAIN packs \ InState({"draft"}) |-> packs[v]]

\* Defect: the published row itself becomes the draft.
RestoreInPlace(version) ==
  /\ Resolves(version)
  /\ \/ UpdateDraft(packs[version].definition)
     \/ /\ ~HasDraft /\ version \in InState({"archived"})
        /\ packs' = [packs EXCEPT ![version].state = "draft"]

\* A published revision becomes the draft, in the draft's row if there is one.
RestoreAsDraft(version) ==
  /\ Resolves(version)
  /\ \/ UpdateDraft(packs[version].definition)
     \/ ~HasDraft /\ InsertDraft(packs[version].definition)

\* Defect: the definition is not validated.
PublishUnchecked ==
  /\ HasDraft
  /\ packs' = [v \in DOMAIN packs |->
       CASE packs[v].state = "active" -> [packs[v] EXCEPT !.state = "archived"]
         [] packs[v].state = "draft" -> [packs[v] EXCEPT !.state = "active"]
         [] OTHER -> packs[v]]

\* Defect: the revision that was active stays active.
PublishBeside ==
  /\ HasDraft
  /\ Valid(packs[DraftVersion].definition)
  /\ packs' = [packs EXCEPT ![DraftVersion].state = "active"]

\* publish_draft: the draft is locked, validated and made the active revision.
PublishDraft ==
  /\ HasDraft
  /\ Valid(packs[DraftVersion].definition)
  /\ packs' = [v \in DOMAIN packs |->
       CASE packs[v].state = "active" -> [packs[v] EXCEPT !.state = "archived"]
         [] packs[v].state = "draft" -> [packs[v] EXCEPT !.state = "active"]
         [] OTHER -> packs[v]]

\* bootstrap_active, at the start of every worker, before it takes an event:
\* it inserts the seed into an empty table.
Bootstrapped == [v \in {1} |-> Row("active", Seed)]
=============================================================================
