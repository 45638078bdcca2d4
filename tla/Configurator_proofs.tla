------------------------ MODULE Configurator_proofs ------------------------
(***************************************************************************)
(* Proofs about the table of revisions.  Whatever the two channels write,  *)
(* a step does one of five things to the table (PacksStep); the invariant  *)
(* is shown for each of them.                                              *)
(***************************************************************************)
EXTENDS Configurator, TLAPS

\* Numbers run from 1 without gaps, so that the next one is well defined.
Numbered == \E k \in 0..MaxVersion : DOMAIN packs = 1..k

\* Rows are rows, for whatever definition.
Rows ==
  /\ packs = [v \in DOMAIN packs |-> packs[v]]
  /\ \A v \in DOMAIN packs :
       /\ packs[v].state \in States
       /\ packs[v] = Row(packs[v].state, packs[v].definition)

IInv == Numbered /\ Rows /\ VersionsFollowPublication /\ PublishedIsValid

PacksStep ==
  \/ ~HasDraft /\ \E d : InsertDraft(d)
  \/ \E d : UpdateDraft(d)
  \/ DiscardDraft
  \/ PublishDraft
  \/ UNCHANGED packs

-----------------------------------------------------------------------------
(* The transactions.                                                       *)

\* The number after 1..k is k + 1.
LEMMA NextVersionIs ==
  ASSUME NEW k \in 0..MaxVersion, DOMAIN packs = 1..k
  PROVE  NextVersion = k + 1
<1> DEFINE P(n) == (\A v \in DOMAIN packs : v < n) /\ (n = 1 \/ n - 1 \in DOMAIN packs)
<1>1. k + 1 \in 1..(MaxVersion + 1) /\ P(k + 1)
  BY PacksAssumption
<1>2. \A n \in 1..(MaxVersion + 1) : P(n) => n = k + 1
  BY PacksAssumption
<1> QED BY <1>1, <1>2 DEF NextVersion

\* A draft has the greatest number, and there is only one.
LEMMA DraftIsNewest ==
  ASSUME Rows, VersionsFollowPublication, HasDraft,
         \A v \in DOMAIN packs : v \in Int
  PROVE  /\ DraftVersion \in DOMAIN packs
         /\ packs[DraftVersion].state = "draft"
         /\ \A v \in DOMAIN packs : v # DraftVersion =>
              v < DraftVersion /\ packs[v].state \in Published
<1>1. DraftVersion \in InState({"draft"})
  BY DEF DraftVersion, HasDraft
<1>2. DraftVersion \in DOMAIN packs /\ packs[DraftVersion].state = "draft"
  BY <1>1 DEF InState
<1>3. ASSUME NEW v \in DOMAIN packs, v # DraftVersion
      PROVE  v < DraftVersion /\ packs[v].state \in Published
  <2>1. ~(DraftVersion < v)
    BY <1>2 DEF VersionsFollowPublication
  <2>2. v < DraftVersion
    BY <2>1, <1>2, <1>3
  <2> QED BY <2>2, <1>2 DEF VersionsFollowPublication, Published
<1> QED BY <1>2, <1>3

\* Versions are numbers.
LEMMA Integral == IInv => \A v \in DOMAIN packs : v \in Int
BY DEF IInv, Numbered

\* A new draft follows all that was published.
LEMMA InsertKeeps ==
  ASSUME IInv, ~HasDraft, NEW d, InsertDraft(d)
  PROVE  IInv'
<1> PICK k \in 0..MaxVersion : DOMAIN packs = 1..k
  BY DEF IInv, Numbered
<1>1. /\ k + 1 <= MaxVersion
      /\ packs' = [v \in 1..(k + 1) |-> IF v = k + 1 THEN Row("draft", d) ELSE packs[v]]
  <2>1. NextVersion = k + 1
    BY NextVersionIs
  <2>2. DOMAIN packs \cup {k + 1} = 1..(k + 1)
    OBVIOUS
  <2> QED BY <2>1, <2>2 DEF InsertDraft
<1>2. \A v \in 1..k : packs[v].state \in Published
  BY DEF HasDraft, InState, IInv, Rows, States, Published
<1>3. Numbered'
  BY <1>1 DEF Numbered
<1>4. Rows'
  BY <1>1 DEF IInv, Rows, Row, States
<1>5. VersionsFollowPublication'
  BY <1>1, <1>2 DEF IInv, VersionsFollowPublication, Row, Published
<1>6. PublishedIsValid'
  <2> SUFFICES ASSUME NEW v \in InState(Published)'
               PROVE  Valid(packs[v].definition)'
    BY DEF PublishedIsValid
  <2>1. v \in 1..k /\ packs'[v] = packs[v]
    BY <1>1 DEF InState, Published, Row
  <2>2. v \in InState(Published)
    BY <2>1, <1>2 DEF InState
  <2>3. Valid(packs[v].definition)
    BY <2>2 DEF IInv, PublishedIsValid
  <2> QED BY <2>1, <2>3 DEF Valid, KeysOf
<1> QED BY <1>3, <1>4, <1>5, <1>6 DEF IInv

\* What is written to the draft touches no other row.
LEMMA UpdateKeeps ==
  ASSUME IInv, NEW d, UpdateDraft(d)
  PROVE  IInv'
<1>1. HasDraft /\ packs' = [packs EXCEPT ![DraftVersion].definition = d]
  BY DEF UpdateDraft
<1>2. /\ DraftVersion \in DOMAIN packs /\ packs[DraftVersion].state = "draft"
      /\ \A v \in DOMAIN packs : v # DraftVersion => packs[v].state \in Published
  BY <1>1, DraftIsNewest, Integral DEF IInv
<1>3. /\ DOMAIN packs' = DOMAIN packs
      /\ packs' = [v \in DOMAIN packs' |-> packs'[v]]
      /\ packs'[DraftVersion] = Row("draft", d)
      /\ \A v \in DOMAIN packs : v # DraftVersion => packs'[v] = packs[v]
  <2>1. packs[DraftVersion] = Row("draft", packs[DraftVersion].definition)
    BY <1>2 DEF IInv, Rows
  <2> QED BY <1>1, <1>2, <2>1 DEF IInv, Rows, Row
<1>4. Numbered'
  BY <1>3 DEF IInv, Numbered
<1>5. Rows'
  BY <1>2, <1>3 DEF IInv, Rows, Row, States
<1>6. VersionsFollowPublication'
  BY <1>2, <1>3 DEF IInv, VersionsFollowPublication, Row
<1>7. PublishedIsValid'
  <2> SUFFICES ASSUME NEW v \in InState(Published)'
               PROVE  Valid(packs[v].definition)'
    BY DEF PublishedIsValid
  <2>1. v \in DOMAIN packs /\ v # DraftVersion /\ packs'[v] = packs[v]
    BY <1>3 DEF InState, Published, Row
  <2>2. Valid(packs[v].definition)
    BY <1>2, <2>1 DEF InState, IInv, PublishedIsValid
  <2> QED BY <2>1, <2>2 DEF Valid, KeysOf
<1> QED BY <1>4, <1>5, <1>6, <1>7 DEF IInv

\* Discarding removes the greatest number, if there is a draft.
LEMMA DiscardKeeps ==
  ASSUME IInv, DiscardDraft
  PROVE  IInv'
<1> PICK k \in 0..MaxVersion : DOMAIN packs = 1..k
  BY DEF IInv, Numbered
<1>1. packs' = [v \in DOMAIN packs \ InState({"draft"}) |-> packs[v]]
  BY DEF DiscardDraft
<1>2. \E n \in 0..MaxVersion : DOMAIN packs \ InState({"draft"}) = 1..n
  <2>1. CASE ~HasDraft
    BY <2>1 DEF HasDraft
  <2>2. CASE HasDraft
    <3>1. /\ DraftVersion \in 1..k /\ packs[DraftVersion].state = "draft"
          /\ \A v \in 1..k : v # DraftVersion => v < DraftVersion /\ packs[v].state \in Published
      BY <2>2, DraftIsNewest DEF IInv
    <3>2. DraftVersion = k
      BY <3>1
    <3>3. \A v \in 1..k : v \in InState({"draft"}) <=> v = k
      BY <3>1, <3>2 DEF InState, Published
    <3>4. DOMAIN packs \ InState({"draft"}) = 1..(k - 1)
      BY <3>1, <3>2, <3>3
    <3>5. k - 1 \in 0..MaxVersion
      BY <3>1, PacksAssumption
    <3> QED BY <3>4, <3>5
  <2> QED BY <2>1, <2>2
<1>3. Numbered'
  BY <1>1, <1>2 DEF Numbered
<1>4. Rows'
  BY <1>1 DEF IInv, Rows, Row
<1>5. VersionsFollowPublication'
  BY <1>1 DEF IInv, VersionsFollowPublication
<1>6. PublishedIsValid'
  <2> SUFFICES ASSUME NEW v \in InState(Published)'
               PROVE  Valid(packs[v].definition)'
    BY DEF PublishedIsValid
  <2>1. v \in InState(Published) /\ packs'[v] = packs[v]
    BY <1>1 DEF InState
  <2>2. Valid(packs[v].definition)
    BY <2>1 DEF IInv, PublishedIsValid
  <2> QED BY <2>1, <2>2 DEF Valid, KeysOf
<1> QED BY <1>3, <1>4, <1>5, <1>6 DEF IInv

\* Publication moves the one draft, the newest row, past the active one.
LEMMA PublishKeeps ==
  ASSUME IInv, PublishDraft
  PROVE  IInv'
<1>1. HasDraft /\ Valid(packs[DraftVersion].definition)
  BY DEF PublishDraft
<1>2. /\ DraftVersion \in DOMAIN packs /\ packs[DraftVersion].state = "draft"
      /\ \A v \in DOMAIN packs : v # DraftVersion =>
           v < DraftVersion /\ packs[v].state \in Published
  BY <1>1, DraftIsNewest, Integral DEF IInv
<1>3. /\ packs' = [v \in DOMAIN packs |-> packs'[v]]
      /\ packs'[DraftVersion] = Row("active", packs[DraftVersion].definition)
      /\ \A v \in DOMAIN packs : v # DraftVersion =>
           packs'[v] = Row("archived", packs[v].definition)
  <2>1. \A v \in DOMAIN packs : packs[v] = Row(packs[v].state, packs[v].definition)
    BY DEF IInv, Rows
  <2>2. packs' = [v \in DOMAIN packs |->
          CASE packs[v].state = "active" -> [packs[v] EXCEPT !.state = "archived"]
            [] packs[v].state = "draft" -> [packs[v] EXCEPT !.state = "active"]
            [] OTHER -> packs[v]]
    BY DEF PublishDraft
  <2>3. packs'[DraftVersion] = [packs[DraftVersion] EXCEPT !.state = "active"]
    BY <1>2, <2>2
  <2>4. ASSUME NEW v \in DOMAIN packs, v # DraftVersion
        PROVE  packs'[v] = Row("archived", packs[v].definition)
    <3>1. CASE packs[v].state = "active"
      BY <2>1, <2>2, <3>1 DEF Row
    <3>2. CASE packs[v].state = "archived"
      BY <2>1, <2>2, <3>2 DEF Row
    <3> QED BY <1>2, <2>4, <3>1, <3>2 DEF Published
  <2> QED BY <1>2, <2>1, <2>2, <2>3, <2>4 DEF Row
<1>4. Numbered'
  BY <1>3 DEF IInv, Numbered
<1>5. Rows'
  BY <1>3 DEF Rows, Row, States
<1>6. VersionsFollowPublication'
  BY <1>2, <1>3, Integral DEF VersionsFollowPublication, Row
<1>7. PublishedIsValid'
  <2> SUFFICES ASSUME NEW v \in DOMAIN packs
               PROVE  Valid(packs'[v].definition)
    BY <1>3 DEF PublishedIsValid, InState, Valid, KeysOf
  <2>1. packs'[v].definition = packs[v].definition
    BY <1>3 DEF Row
  <2>2. Valid(packs[v].definition)
    BY <1>1, <1>2 DEF InState, IInv, PublishedIsValid
  <2> QED BY <2>1, <2>2
<1> QED BY <1>4, <1>5, <1>6, <1>7 DEF IInv

-----------------------------------------------------------------------------
(* The channels.                                                           *)

\* The first step of a handler.
LEMMA HandleIsPacksStep ==
  ASSUME NEW c, NEW e, NEW waiting, Handle(c, e, waiting)
  PROVE  PacksStep
<1>1. CASE Answer(c, e, waiting)
  BY <1>1 DEF Answer, PacksStep
<1>2. CASE PublishEvent(c, e, waiting)
  BY <1>2 DEF PublishEvent, PacksStep
<1>3. CASE DiscardEvent(c, e, waiting)
  BY <1>3 DEF DiscardEvent, PacksStep
<1>4. CASE RestoreEvent(c, e, waiting)
  BY <1>4 DEF RestoreEvent, RestoreAsDraft, PacksStep
<1> QED BY <1>1, <1>2, <1>3, <1>4 DEF Handle

\* What an action does to the pack versions, whoever takes it.
LEMMA NextIsPacksStep ==
  ASSUME [Next]_vars
  PROVE  PacksStep
<1>1. CASE UNCHANGED vars
  BY <1>1 DEF vars, PacksStep
<1>2. ASSUME NEW c \in Channels, MakeDraft(c)
      PROVE  PacksStep
  BY <1>2 DEF MakeDraft, EnsureDraft, PacksStep
<1>3. ASSUME NEW c \in Channels, WriteDraft(c)
      PROVE  PacksStep
  BY <1>3 DEF WriteDraft, PacksStep
<1>4. ASSUME NEW c \in Channels, PutFirst(c) \/ PutLast(c) \/ View(c) \/ Raise(c)
      PROVE  PacksStep
  BY <1>4 DEF PutFirst, PutLast, View, Raise, PacksStep
<1>5. ASSUME NEW c \in Channels, NEW e \in failed[c], TakeAgain(c, e)
      PROVE  PacksStep
  BY <1>5, HandleIsPacksStep DEF TakeAgain, PacksStep
<1>6. ASSUME NEW c \in Channels, TakeNew(c)
      PROVE  PacksStep
  BY <1>6, HandleIsPacksStep DEF TakeNew
<1> QED BY <1>1, <1>2, <1>3, <1>4, <1>5, <1>6 DEF Next

\* Every step keeps the invariant.
LEMMA StepKeeps == IInv /\ [Next]_vars => IInv'
<1> SUFFICES ASSUME IInv, [Next]_vars PROVE IInv'
  OBVIOUS
<1>1. CASE ~HasDraft /\ \E d : InsertDraft(d)
  BY <1>1, InsertKeeps
<1>2. CASE \E d : UpdateDraft(d)
  BY <1>2, UpdateKeeps
<1>3. CASE UNCHANGED packs
  BY <1>3 DEF IInv, Numbered, Rows, VersionsFollowPublication, PublishedIsValid,
              InState, Valid, KeysOf
<1> QED BY <1>1, <1>2, <1>3, DiscardKeeps, PublishKeeps, NextIsPacksStep DEF PacksStep

\* The table begins with the seed, which is valid and active.
LEMMA InitHolds == Init => IInv
<1> SUFFICES ASSUME Init PROVE IInv
  OBVIOUS
<1>1. packs = [v \in {1} |-> Row("active", Seed)]
  BY DEF Init, Bootstrapped
<1>2. Valid(Seed)
  BY DEF Valid, Seed, Item
<1>3. Numbered
  BY <1>1, PacksAssumption DEF Numbered
<1>4. Rows
  BY <1>1 DEF Rows, Row, States
<1>5. VersionsFollowPublication
  BY <1>1 DEF VersionsFollowPublication
<1>6. PublishedIsValid
  BY <1>1, <1>2 DEF PublishedIsValid, InState, Row
<1> QED BY <1>3, <1>4, <1>5, <1>6 DEF IInv

-----------------------------------------------------------------------------
(* Theorems.                                                               *)

\* The table is well numbered and in order, whatever is edited where.
THEOREM Invariance == Spec => []IInv
BY InitHolds, StepKeeps, PTL DEF Spec

\* Numbers follow publication, for any number of messengers, events and
\* failures (_next_version, restore_as_draft, discard_draft, publish_draft).
THEOREM NumbersFollow == Spec => []VersionsFollowPublication
<1>1. IInv => VersionsFollowPublication
  BY DEF IInv
<1> QED BY <1>1, Invariance, PTL

\* Only valid definitions are ever published (publish_draft).
THEOREM OnlyValid == Spec => []PublishedIsValid
<1>1. IInv => PublishedIsValid
  BY DEF IInv
<1> QED BY <1>1, Invariance, PTL

\* No step of any handler changes or removes a published revision
\* (update_draft, restore_as_draft, discard_draft, publish_draft).
THEOREM PublishedStay == Spec => RevisionsStay
<1> DEFINE Stays(v) ==
      v \in DOMAIN packs' /\ packs'[v].state \in Published
      /\ packs'[v].definition = packs[v].definition
<1>1. ASSUME IInv, [Next]_vars, NEW v \in InState(Published)
      PROVE  Stays(v)
  <2>1. v \in DOMAIN packs /\ packs[v].state \in {"active", "archived"}
    BY <1>1 DEF InState, Published
  <2>2. CASE \E d : InsertDraft(d)
    <3>1. v # NextVersion
      <4> PICK k \in 0..MaxVersion : DOMAIN packs = 1..k
        BY <1>1 DEF IInv, Numbered
      <4> QED BY <2>1, NextVersionIs
    <3> QED BY <2>1, <2>2, <3>1 DEF InsertDraft, Published
  <2>3. CASE \E d : UpdateDraft(d)
    <3>1. PICK d : HasDraft /\ packs' = [packs EXCEPT ![DraftVersion].definition = d]
      BY <2>3 DEF UpdateDraft
    <3>2. packs[DraftVersion].state = "draft"
      BY <1>1, <3>1, DraftIsNewest, Integral DEF IInv
    <3>3. packs'[v] = packs[v] /\ v \in DOMAIN packs'
      BY <2>1, <3>1, <3>2
    <3> QED BY <2>1, <3>3 DEF Published
  <2>4. CASE DiscardDraft
    BY <2>1, <2>4 DEF DiscardDraft, InState, Published
  <2>5. CASE PublishDraft
    <3>1. packs[v] = Row(packs[v].state, packs[v].definition)
      BY <1>1, <2>1 DEF IInv, Rows
    <3>2. CASE packs[v].state = "active"
      BY <2>1, <2>5, <3>1, <3>2 DEF PublishDraft, Published, Row
    <3>3. CASE packs[v].state = "archived"
      BY <2>1, <2>5, <3>1, <3>3 DEF PublishDraft, Published, Row
    <3> QED BY <2>1, <3>2, <3>3
  <2>6. CASE UNCHANGED packs
    BY <2>1, <2>6 DEF Published
  <2> QED BY <1>1, <2>2, <2>3, <2>4, <2>5, <2>6, NextIsPacksStep DEF PacksStep
<1>2. IInv /\ [Next]_vars =>
        [\A v \in InState(Published) : Stays(v)]_packs
  BY <1>1
<1> QED BY <1>2, Invariance, PTL DEF Spec, RevisionsStay
=============================================================================
