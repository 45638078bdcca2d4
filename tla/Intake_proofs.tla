--------------------------- MODULE Intake_proofs ---------------------------
(***************************************************************************)
(* That every order of Intake is complete and that the client is told of   *)
(* no order but the one there is, for any revisions, handlers and bounds.  *)
(*                                                                         *)
(* The row is replaced by documents that may be stale, so what a document  *)
(* promises must not depend on what else happened.  It does not: whichever *)
(* step a document is at, it holds by itself the answers that lead there   *)
(* under the revision it has pinned (DocOK), and each handler computes     *)
(* such a document from such a document.                                   *)
(***************************************************************************)
EXTENDS Intake, TLAPS, SequenceTheorems, FiniteSetTheorems, WellFoundedInduction

Steps == {"phone", "address", "services", "fields", "confirm"}

Docs ==
  [step : Steps, answered : SUBSET (FieldKeys \cup {"phone", "address"}),
   address : {"none", "text", "native", "map"}, selected : Seq(Services),
   index : Nat, token : Nat, submission : Nat, version : Versions, last : Nat]

\* The required fields before the n-th have an answer.
RequiredBefore(d, n) ==
  LET fields == Pack[d.version].fields IN
  \A i \in DOMAIN fields : i < n /\ fields[i].required => fields[i].key \in d.answered

\* What is chosen is offered by the revision, once each, and one at most when
\* only one may be.
SelectedOK(d) ==
  /\ Range(d.selected) \subseteq Pack[d.version].services
  /\ \A i, j \in DOMAIN d.selected : d.selected[i] = d.selected[j] => i = j
  /\ ~Pack[d.version].multi_select => Len(d.selected) <= 1

\* The client has given a phone and an address.
HasAddress(d) == {"phone", "address"} \subseteq d.answered /\ d.address # "none" /\ d.token = 0

StepOK(d) ==
  \/ d.step = "phone" /\ d.token = 0
  \/ d.step = "address" /\ "phone" \in d.answered /\ d.token # 0
  \/ d.step = "services" /\ HasAddress(d)
  \/ /\ d.step = "fields" /\ HasAddress(d)
     /\ d.index \in DOMAIN Pack[d.version].fields
     /\ Pack[d.version].fields[d.index].key \notin d.answered
     /\ RequiredBefore(d, d.index)
  \/ /\ d.step = "confirm" /\ HasAddress(d)
     /\ RequiredBefore(d, Len(Pack[d.version].fields) + 1)

\* A document by itself, and one whose numbers were issued.
Good(d) == d \in Docs /\ SelectedOK(d) /\ StepOK(d)
DocOK(d) == Good(d) /\ d.token \in 0..tokens /\ d.submission \in 1..submissions

\* A document that can be submitted.
Complete(d) == DocOK(d) /\ d.step = "confirm" /\ d.selected # <<>>

EventOK(e) == e = [id |-> e.id, kind |-> e.kind, arg |-> e.arg] /\ e.id \in Nat

\* What the work of a handler may hold.
WorkOK(k) ==
  /\ k = [phase |-> k.phase, event |-> k.event, write |-> k.write]
  /\ k.write = [kind |-> k.write.kind, doc |-> k.write.doc]
  /\ EventOK(k.event)
  /\ k.phase = "idle" => k.event.id = 0
  /\ k.phase = "putting" => DocOK(k.write.doc)
  /\ k.phase = "submitting" => k.write.kind = "submit" /\ Complete(k.write.doc)
  /\ k.phase = "clearing" /\ k.write.kind = "submit" =>
       /\ k.write.doc.submission \in DOMAIN orders
       /\ orders[k.write.doc.submission] = Content(k.write.doc)

SessionOK == session # NoSession => DocOK(session)

WorksOK == DOMAIN work = Handlers /\ \A h \in Handlers : WorkOK(work[h])

CountersOK ==
  /\ active \in Versions
  /\ submissions \in 0..MaxSubmissions /\ tokens \in 0..MaxTokens /\ faults \in 0..MaxFaults

FailedOK ==
  /\ IsFiniteSet(failed) /\ Cardinality(failed) <= faults
  /\ \A e \in failed : EventOK(e)

OrdersOK == DOMAIN orders \subseteq 1..submissions /\ OrdersComplete

IInv == SessionOK /\ WorksOK /\ CountersOK /\ FailedOK /\ OrdersOK /\ ToldIsOrdered

-----------------------------------------------------------------------------
(* Sequences and numbers.                                                  *)

\* A set of numbers has a least one.
LEMMA MinIs ==
  ASSUME NEW S \in SUBSET Nat, S # {}
  PROVE  Min(S) \in S /\ \A m \in S : Min(S) <= m
<1>1. IsWellFoundedOn({ss \in Nat \X Nat : ss[1] < ss[2]}, Nat)
  BY NatLessThanWellFounded DEF OpToRel
<1>2. PICK n \in S : \A m \in S : ~(<<m, n>> \in {ss \in Nat \X Nat : ss[1] < ss[2]})
  BY <1>1, WFMin
<1>3. \A m \in S : ~(m < n)
  BY <1>2
<1>4. \A m \in S : n <= m
  BY <1>3
<1> QED BY <1>4 DEF Min

\* What is left after the k-th of n elements.
LEMMA AfterLength ==
  ASSUME NEW n \in Nat, NEW k \in 1..n
  PROVE  /\ (IF k + 1 <= n THEN n - (k + 1) + 1 ELSE 0) = n - k
         /\ n - (k + 1) + 1 = n - k
         /\ \A i \in Nat : (k + 1) + i - 1 = k + i
  OBVIOUS

\* list.remove: one element less, the others in their order.
LEMMA RemoveFirstIs ==
  ASSUME NEW S, NEW s \in Seq(S), NEW e \in Range(s)
  PROVE  \E k \in 1..Len(s) :
           /\ s[k] = e
           /\ RemoveFirst(s, e) \in Seq(S)
           /\ Len(RemoveFirst(s, e)) = Len(s) - 1
           /\ \A i \in 1..(Len(s) - 1) :
                RemoveFirst(s, e)[i] = IF i < k THEN s[i] ELSE s[i + 1]
<1> DEFINE I == {i \in 1..Len(s) : s[i] = e}
           k == Min(I)
<1>1. Len(s) \in Nat /\ DOMAIN s = 1..Len(s)
  OBVIOUS
<1>2. I \in SUBSET Nat /\ I # {}
  BY <1>1 DEF Range
<1>3. k \in 1..Len(s) /\ s[k] = e
  BY <1>2, MinIs
<1>4. RemoveFirst(s, e) = SubSeq(s, 1, k - 1) \o SubSeq(s, k + 1, Len(s))
  BY <1>2 DEF RemoveFirst, RemoveAt, SelectInSeq
<1> HIDE DEF k, I
<1> DEFINE before == SubSeq(s, 1, k - 1)
           after == SubSeq(s, k + 1, Len(s))
<1>5. /\ before \in Seq(S) /\ Len(before) = k - 1
      /\ \A i \in 1..(k - 1) : before[i] = s[i]
  <2>1. \A i \in 1..(k - 1) : s[i] \in S
    BY <1>1, <1>3
  <2>2. 1 \in Int /\ k - 1 \in Int
    BY <1>3
  <2>3. /\ before \in Seq(S) /\ Len(before) = IF 1 <= k - 1 THEN (k - 1) - 1 + 1 ELSE 0
        /\ \A i \in 1..((k - 1) - 1 + 1) : before[i] = s[1 + i - 1]
    BY <2>1, <2>2, SubSeqProperties
  <2> QED BY <1>3, <2>3
<1>6. /\ after \in Seq(S) /\ Len(after) = Len(s) - k
      /\ \A i \in 1..(Len(s) - k) : after[i] = s[k + i]
  <2>1. \A i \in (k + 1)..Len(s) : s[i] \in S
    BY <1>1, <1>3
  <2>2. k + 1 \in Int /\ Len(s) \in Int
    BY <1>1, <1>3
  <2>3. /\ after \in Seq(S) /\ Len(after) = IF k + 1 <= Len(s) THEN Len(s) - (k + 1) + 1 ELSE 0
        /\ \A i \in 1..(Len(s) - (k + 1) + 1) : after[i] = s[(k + 1) + i - 1]
    BY <2>1, <2>2, SubSeqProperties
  <2>4. /\ (IF k + 1 <= Len(s) THEN Len(s) - (k + 1) + 1 ELSE 0) = Len(s) - k
        /\ Len(s) - (k + 1) + 1 = Len(s) - k
        /\ \A i \in Nat : (k + 1) + i - 1 = k + i
    BY <1>1, <1>3, AfterLength, Zenon
  <2> HIDE DEF after
  <2>5. Len(after) = Len(s) - k
    BY <2>3, <2>4, Zenon
  <2>6. \A i \in 1..(Len(s) - k) : after[i] = s[(k + 1) + i - 1]
    BY <2>3, <2>4, Zenon
  <2>7. \A i \in 1..(Len(s) - k) : i \in Nat
    BY <1>1, <1>3
  <2>8. \A i \in 1..(Len(s) - k) : after[i] = s[k + i]
    BY <2>4, <2>6, <2>7, Zenon
  <2> QED BY <2>3, <2>5, <2>8
<1> HIDE DEF before, after
<1>7. /\ before \o after \in Seq(S) /\ Len(before \o after) = Len(before) + Len(after)
      /\ \A i \in 1..(Len(before) + Len(after)) :
           (before \o after)[i] = IF i <= Len(before) THEN before[i] ELSE after[i - Len(before)]
  BY <1>5, <1>6, ConcatProperties
<1>8. RemoveFirst(s, e) = before \o after
  BY <1>4 DEF before, after
<1>9. \A i \in 1..(Len(s) - 1) : (before \o after)[i] = IF i < k THEN s[i] ELSE s[i + 1]
  <2> SUFFICES ASSUME NEW i \in 1..(Len(s) - 1)
               PROVE  (before \o after)[i] = IF i < k THEN s[i] ELSE s[i + 1]
    OBVIOUS
  <2>1. CASE i < k
    BY <2>1, <1>1, <1>3, <1>5, <1>6, <1>7
  <2>2. CASE ~(i < k)
    <3>1. i - Len(before) \in 1..(Len(s) - k) /\ k + (i - Len(before)) = i + 1
      BY <2>2, <1>1, <1>3, <1>5
    <3>2. (before \o after)[i] = after[i - Len(before)]
      BY <2>2, <1>1, <1>3, <1>5, <1>6, <1>7
    <3> QED BY <2>2, <3>1, <3>2, <1>6
  <2> QED BY <2>1, <2>2
<1>10. Len(before \o after) = Len(s) - 1
  BY <1>1, <1>3, <1>5, <1>6, <1>7
<1> QED BY <1>3, <1>7, <1>8, <1>9, <1>10

\* What is chosen stays distinct and offered (_pick_service).
LEMMA ToggleKeeps ==
  ASSUME NEW S, NEW s \in Seq(S), NEW e \in S,
         \A i, j \in DOMAIN s : s[i] = s[j] => i = j
  PROVE  /\ Toggle(s, e) \in Seq(S)
         /\ Range(Toggle(s, e)) \subseteq Range(s) \cup {e}
         /\ \A i, j \in DOMAIN Toggle(s, e) : Toggle(s, e)[i] = Toggle(s, e)[j] => i = j
<1>1. Len(s) \in Nat /\ DOMAIN s = 1..Len(s)
  OBVIOUS
<1>2. CASE e \in Range(s)
  <2> DEFINE u == RemoveFirst(s, e)
  <2>1. PICK k \in 1..Len(s) :
           /\ s[k] = e /\ u \in Seq(S) /\ Len(u) = Len(s) - 1
           /\ \A i \in 1..(Len(s) - 1) : u[i] = IF i < k THEN s[i] ELSE s[i + 1]
    BY <1>2, RemoveFirstIs
  <2> HIDE DEF u
  <2>2. DOMAIN u = 1..(Len(s) - 1)
    BY <2>1
  <2>3. \A i \in DOMAIN u : u[i] \in Range(s)
    <3> SUFFICES ASSUME NEW i \in 1..(Len(s) - 1) PROVE u[i] \in Range(s)
      BY <2>2
    <3>1. i \in DOMAIN s /\ i + 1 \in DOMAIN s
      BY <1>1
    <3>2. u[i] = s[i] \/ u[i] = s[i + 1]
      BY <2>1
    <3> QED BY <3>1, <3>2 DEF Range
  <2>4. \A i, j \in DOMAIN u : u[i] = u[j] => i = j
    <3> SUFFICES ASSUME NEW i \in 1..(Len(s) - 1), NEW j \in 1..(Len(s) - 1), u[i] = u[j]
                 PROVE  i = j
      BY <2>2
    <3>1. i \in 1..Len(s) /\ j \in 1..Len(s) /\ i + 1 \in 1..Len(s) /\ j + 1 \in 1..Len(s)
      BY <1>1
    <3> QED BY <1>1, <2>1, <3>1
  <2>5. Toggle(s, e) = u
    BY <1>2 DEF Toggle, u
  <2> QED BY <2>1, <2>3, <2>4, <2>5 DEF Range
<1>3. CASE e \notin Range(s)
  <2> DEFINE u == Append(s, e)
  <2>1. /\ u \in Seq(S) /\ Len(u) = Len(s) + 1 /\ u[Len(s) + 1] = e
        /\ \A i \in 1..Len(s) : u[i] = s[i]
    BY AppendProperties
  <2> HIDE DEF u
  <2>2. DOMAIN u = 1..(Len(s) + 1)
    BY <2>1
  <2>3. \A i \in DOMAIN u : u[i] \in Range(s) \cup {e}
    BY <1>1, <2>1, <2>2 DEF Range
  <2>4. \A i \in 1..Len(s) : u[i] # e
    BY <1>1, <1>3, <2>1 DEF Range
  <2>5. \A i, j \in DOMAIN u : u[i] = u[j] => i = j
    BY <1>1, <2>1, <2>2, <2>4
  <2>6. Toggle(s, e) = u
    BY <1>3 DEF Toggle, u
  <2> QED BY <2>1, <2>3, <2>5, <2>6 DEF Range
<1> QED BY <1>2, <1>3

-----------------------------------------------------------------------------
(* What a handler computes from a document.                                *)

\* A revision.
LEMMA PackIs ==
  ASSUME NEW v \in Versions
  PROVE  /\ Pack[v].multi_select \in BOOLEAN
         /\ Pack[v].fields \in Seq([key : FieldKeys, required : BOOLEAN])
         /\ DOMAIN Pack[v].fields = 1..Len(Pack[v].fields) /\ Len(Pack[v].fields) \in Nat
         /\ \A i \in DOMAIN Pack[v].fields : Pack[v].fields[i].key \in FieldKeys
<1>1. Pack[v].fields \in Seq([key : FieldKeys, required : BOOLEAN]) /\ Pack[v].multi_select \in BOOLEAN
  BY IntakeAssumption
<1>2. DOMAIN Pack[v].fields = 1..Len(Pack[v].fields) /\ Len(Pack[v].fields) \in Nat
  BY <1>1
<1>3. \A i \in DOMAIN Pack[v].fields : Pack[v].fields[i] \in [key : FieldKeys, required : BOOLEAN]
  BY <1>1, <1>2, ElementOfSeq
<1> QED BY <1>1, <1>2, <1>3

\* The fields of a document.
LEMMA Fields ==
  ASSUME NEW d \in Docs
  PROVE  /\ d = [step |-> d.step, answered |-> d.answered, address |-> d.address,
                 selected |-> d.selected, index |-> d.index, token |-> d.token,
                 submission |-> d.submission, version |-> d.version, last |-> d.last]
         /\ d.step \in Steps /\ d.answered \subseteq FieldKeys \cup {"phone", "address"}
         /\ d.address \in {"none", "text", "native", "map"} /\ d.selected \in Seq(Services)
         /\ d.index \in Nat /\ d.token \in Nat /\ d.submission \in Nat /\ d.version \in Versions
         /\ d.last \in Nat
  BY DEF Docs

\* A document at a field.
LEMMA WithFields ==
  ASSUME NEW d \in Docs, NEW u, NEW n, u = [d EXCEPT !.step = "fields", !.index = n],
         n \in Nat
  PROVE  /\ u \in Docs
         /\ u.step = "fields" /\ u.answered = d.answered /\ u.address = d.address
         /\ u.selected = d.selected /\ u.index = n /\ u.token = d.token
         /\ u.submission = d.submission /\ u.version = d.version
  BY Fields DEF Docs, Steps

\* A document at the confirmation.
LEMMA WithConfirm ==
  ASSUME NEW d \in Docs, NEW u, u = [d EXCEPT !.step = "confirm"]
  PROVE  /\ u \in Docs
         /\ u.step = "confirm" /\ u.answered = d.answered /\ u.address = d.address
         /\ u.selected = d.selected /\ u.index = d.index /\ u.token = d.token
         /\ u.submission = d.submission /\ u.version = d.version
  BY Fields DEF Docs, Steps

\* A document with another index.
LEMMA WithIndex ==
  ASSUME NEW d \in Docs, NEW u, NEW n, u = [d EXCEPT !.index = n],
         n \in Nat
  PROVE  /\ u \in Docs
         /\ u.step = d.step /\ u.answered = d.answered /\ u.address = d.address
         /\ u.selected = d.selected /\ u.index = n /\ u.token = d.token
         /\ u.submission = d.submission /\ u.version = d.version
  BY Fields DEF Docs, Steps

\* A document with other services.
LEMMA WithSelected ==
  ASSUME NEW d \in Docs, NEW u, NEW s, u = [d EXCEPT !.selected = s],
         s \in Seq(Services)
  PROVE  /\ u \in Docs
         /\ u.step = d.step /\ u.answered = d.answered /\ u.address = d.address
         /\ u.selected = s /\ u.index = d.index /\ u.token = d.token
         /\ u.submission = d.submission /\ u.version = d.version
  BY Fields DEF Docs, Steps

\* A document with other answers.
LEMMA WithAnswered ==
  ASSUME NEW d \in Docs, NEW u, NEW a, u = [d EXCEPT !.answered = a],
         a \subseteq FieldKeys \cup {"phone", "address"}
  PROVE  /\ u \in Docs
         /\ u.step = d.step /\ u.answered = a /\ u.address = d.address
         /\ u.selected = d.selected /\ u.index = d.index /\ u.token = d.token
         /\ u.submission = d.submission /\ u.version = d.version
  BY Fields DEF Docs, Steps

\* A document with the event it was put for.
LEMMA WithLast ==
  ASSUME NEW d \in Docs, NEW u, NEW n, u = [d EXCEPT !.last = n],
         n \in Nat
  PROVE  /\ u \in Docs
         /\ u.step = d.step /\ u.answered = d.answered /\ u.address = d.address
         /\ u.selected = d.selected /\ u.index = d.index /\ u.token = d.token
         /\ u.submission = d.submission /\ u.version = d.version
  BY Fields DEF Docs, Steps

\* What a handler may do with the session after it has read the document d.
Result(w, d) ==
  /\ w = [kind |-> w.kind, doc |-> w.doc]
  /\ \/ w.kind \in {"answer", "clear", "start"}
     \/ /\ w.kind = "put" /\ Good(w.doc)
        /\ w.doc.submission = d.submission /\ w.doc.token \in {0, d.token, tokens + 1}
     \/ w.kind = "submit" /\ w.doc = d /\ d.step = "confirm" /\ d.selected # <<>>

\* An answer, or a document with an address.
LEMMA PutIs ==
  ASSUME NEW d, NEW u, Good(u), u.submission = d.submission, u.token \in {0, d.token, tokens + 1}
  PROVE  Result(Put(u), d)
  BY DEF Put, Write, Result

\* An answer writes nothing.
LEMMA AnswerIs == \A d : Result(Answer, d) /\ Result(Start, d) /\ Result(Clear, d)
  BY DEF Answer, Start, Clear, Write, Result

\* The selection does not depend on the rest of the document.
LEMMA SelectionStays ==
  ASSUME NEW d, NEW u, SelectedOK(d), u.selected = d.selected, u.version = d.version
  PROVE  SelectedOK(u)
  BY DEF SelectedOK

\* The next field without an answer is asked, or the order is shown.
LEMMA AskFromIs ==
  ASSUME NEW d \in Docs, SelectedOK(d), HasAddress(d),
         NEW start \in 1..(Len(Pack[d.version].fields) + 1), RequiredBefore(d, start)
  PROVE  Result(AskFrom(Pack[d.version], d, start), d)
<1> DEFINE pack == Pack[d.version]
           open == {i \in start..Len(pack.fields) : pack.fields[i].key \notin d.answered}
<1>1. /\ DOMAIN pack.fields = 1..Len(pack.fields) /\ Len(pack.fields) \in Nat
      /\ d.version \in Versions
  BY PackIs, Fields
<1>a. PICK len \in Nat : len = Len(pack.fields)
  BY <1>1
<1>b. start \in Nat /\ 1 <= start /\ len + 1 \in Nat
  BY <1>a
<1>2. CASE open = {}
  <2>1. PICK t : t = [d EXCEPT !.index = Len(pack.fields) + 1]
    OBVIOUS
  <2>2. /\ t \in Docs /\ t.answered = d.answered /\ t.address = d.address
        /\ t.selected = d.selected /\ t.token = d.token /\ t.submission = d.submission
        /\ t.version = d.version
    BY <1>a, <1>b, <2>1, WithIndex
  <2>3. PICK u : u = [t EXCEPT !.step = "confirm"]
    OBVIOUS
  <2>4. /\ u \in Docs /\ u.step = "confirm" /\ u.answered = d.answered /\ u.address = d.address
        /\ u.selected = d.selected /\ u.token = d.token /\ u.submission = d.submission
        /\ u.version = d.version
    BY <2>2, <2>3, WithConfirm
  <2>5. AskFrom(pack, d, start) = Put(u)
    BY <1>2, <2>1, <2>3 DEF AskFrom, ToConfirmation
  <2>6. RequiredBefore(d, Len(pack.fields) + 1)
    <3> SUFFICES ASSUME NEW i \in DOMAIN pack.fields, pack.fields[i].required
                 PROVE  pack.fields[i].key \in d.answered
      BY DEF RequiredBefore
    <3>1. CASE i < start
      BY <3>1 DEF RequiredBefore
    <3>2. CASE ~(i < start)
      <4>1. i \in start..Len(pack.fields)
        BY <1>1, <3>2
      <4> QED BY <1>2, <4>1
    <3> QED BY <3>1, <3>2
  <2>7. Good(u)
    BY <2>4, <2>6, SelectionStays DEF Good, StepOK, HasAddress, RequiredBefore
  <2> QED BY <2>4, <2>5, <2>7, PutIs
<1>3. CASE open # {}
  <2> DEFINE n == Min(open)
  <2>1. open \in SUBSET Nat
    BY <1>1
  <2>2. n \in open /\ \A m \in open : n <= m
    BY <1>3, <2>1, MinIs
  <2>3. /\ n \in start..Len(pack.fields) /\ n \in DOMAIN pack.fields /\ n \in Nat
        /\ pack.fields[n].key \notin d.answered
    <3>1. n \in start..len /\ pack.fields[n].key \notin d.answered
      BY <1>a, <2>2
    <3> HIDE DEF n, open
    <3>2. n \in 1..len /\ n \in Nat
      BY <1>b, <3>1
    <3> QED BY <1>1, <1>a, <3>1, <3>2
  <2>4. PICK u : u = [d EXCEPT !.step = "fields", !.index = n]
    OBVIOUS
  <2>5. AskFrom(pack, d, start) = Put(u)
    BY <1>3, <2>4 DEF AskFrom
  <2>6. RequiredBefore(d, n)
    <3> SUFFICES ASSUME NEW i \in DOMAIN pack.fields, pack.fields[i].required, i < n
                 PROVE  pack.fields[i].key \in d.answered
      BY DEF RequiredBefore
    <3>1. CASE i < start
      BY <3>1 DEF RequiredBefore
    <3>2. CASE ~(i < start)
      <4>1. i \in 1..len
        BY <1>1, <1>a
      <4>2. i \in start..len /\ ~(n <= i)
        <5> HIDE DEF n, open, pack
        <5> QED BY <1>b, <2>3, <3>2, <4>1
      <4>3. i \in start..Len(pack.fields) /\ ~(n <= i)
        BY <1>a, <4>2
      <4> QED BY <2>2, <4>3
    <3> QED BY <3>1, <3>2
  <2> HIDE DEF n, open
  <2>7. /\ u \in Docs /\ u.step = "fields" /\ u.index = n /\ u.answered = d.answered
        /\ u.address = d.address /\ u.selected = d.selected /\ u.token = d.token
        /\ u.submission = d.submission /\ u.version = d.version
    BY <2>3, <2>4, WithFields
  <2>8. Good(u)
    BY <2>3, <2>6, <2>7, SelectionStays DEF Good, StepOK, HasAddress, RequiredBefore
  <2> QED BY <2>5, <2>7, <2>8, PutIs
<1> QED BY <1>2, <1>3

\* Nothing is required before the first field.
LEMMA AskFromFirst ==
  ASSUME NEW d \in Docs, SelectedOK(d), HasAddress(d)
  PROVE  Result(FinishServices(Pack[d.version], d), d)
<1>1. Len(Pack[d.version].fields) \in Nat /\ DOMAIN Pack[d.version].fields = 1..Len(Pack[d.version].fields)
  BY PackIs, Fields
<1>2. \A n \in Nat : 1 \in 1..(n + 1) /\ \A i \in 1..n : ~(i < 1)
  OBVIOUS
<1>3. RequiredBefore(d, 1)
  BY <1>1, <1>2 DEF RequiredBefore
<1>4. 1 \in 1..(Len(Pack[d.version].fields) + 1)
  BY <1>1, <1>2
<1>5. Result(AskFrom(Pack[d.version], d, 1), d)
  BY <1>3, <1>4, AskFromIs
<1> QED BY <1>5, AnswerIs DEF FinishServices

\* What only differs in what was answered or chosen does not differ for Result.
LEMMA ResultFor ==
  ASSUME NEW d, NEW u, NEW w, Result(w, u), w.kind # "submit",
         u.submission = d.submission, u.token = d.token
  PROVE  Result(w, d)
  BY DEF Result

\* AskFrom and FinishServices do not submit.
LEMMA NoSubmit ==
  ASSUME NEW pack, NEW d, NEW n
  PROVE  AskFrom(pack, d, n).kind # "submit" /\ FinishServices(pack, d).kind # "submit"
<1>1. \A u : Put(u).kind = "put" /\ ToConfirmation(u).kind = "put" /\ Answer.kind = "answer"
  BY DEF Put, ToConfirmation, Write, Answer
<1>2. \A k : AskFrom(pack, d, k).kind # "submit"
  BY <1>1 DEF AskFrom
<1> QED BY <1>1, <1>2 DEF FinishServices

\* A service is chosen, instead of another one or beside others.
LEMMA PickServiceIs ==
  ASSUME NEW d, Good(d), HasAddress(d), NEW s
  PROVE  Result(PickService(Pack[d.version], d, s), d)
<1> DEFINE pack == Pack[d.version]
<1>1. d \in Docs /\ SelectedOK(d) /\ d.version \in Versions /\ d.selected \in Seq(Services)
  BY Fields DEF Good
<1>2. pack.services \subseteq Services
  BY <1>1 DEF Services
<1>3. CASE s \notin pack.services
  BY <1>3, AnswerIs DEF PickService
<1>4. CASE s \in pack.services /\ ~pack.multi_select
  <2>1. PICK t : t = <<s>>
    OBVIOUS
  <2>2. /\ t \in Seq(Services) /\ Len(t) = 1 /\ Range(t) \subseteq pack.services
        /\ \A i, j \in DOMAIN t : t[i] = t[j] => i = j
    BY <1>2, <1>4, <2>1 DEF Range
  <2>a. PICK u : u = [d EXCEPT !.selected = t]
    OBVIOUS
  <2>3. /\ u \in Docs /\ u.answered = d.answered /\ u.address = d.address /\ u.selected = t
        /\ u.token = d.token /\ u.submission = d.submission /\ u.version = d.version
    BY <1>1, <2>a, <2>2, WithSelected
  <2>4. SelectedOK(u) /\ HasAddress(u)
    <3>1. HasAddress(u)
      BY <2>3 DEF HasAddress
    <3>2. Range(u.selected) \subseteq Pack[u.version].services /\ Len(u.selected) <= 1
      BY <2>2, <2>3
    <3>3. \A i, j \in DOMAIN u.selected : u.selected[i] = u.selected[j] => i = j
      BY <2>2, <2>3
    <3> QED BY <3>1, <3>2, <3>3 DEF SelectedOK
  <2>5. Result(FinishServices(pack, u), u)
    BY <2>3, <2>4, AskFromFirst
  <2>6. PickService(pack, d, s) = FinishServices(pack, u)
    BY <1>4, <2>1, <2>a DEF PickService
  <2> QED BY <2>3, <2>5, <2>6, NoSubmit, ResultFor
<1>5. CASE s \in pack.services /\ pack.multi_select
  <2>1. PICK t : t = Toggle(d.selected, s)
    OBVIOUS
  <2>2. /\ t \in Seq(Services) /\ Range(t) \subseteq Range(d.selected) \cup {s}
        /\ \A i, j \in DOMAIN t : t[i] = t[j] => i = j
    BY <1>1, <1>2, <1>5, <2>1, ToggleKeeps DEF SelectedOK
  <2>3. PICK u : u = [d EXCEPT !.selected = t]
    OBVIOUS
  <2>4. /\ u \in Docs /\ u.step = d.step /\ u.index = d.index /\ u.answered = d.answered
        /\ u.address = d.address /\ u.selected = t /\ u.token = d.token
        /\ u.submission = d.submission /\ u.version = d.version
    BY <1>1, <2>2, <2>3, WithSelected
  <2>5. SelectedOK(u)
    BY <1>1, <1>5, <2>2, <2>4 DEF SelectedOK
  <2>6. StepOK(u)
    BY <2>4 DEF Good, StepOK, HasAddress, RequiredBefore
  <2>7. PickService(pack, d, s) = Put(u)
    BY <1>5, <2>1, <2>3 DEF PickService
  <2> QED BY <2>4, <2>5, <2>6, <2>7, PutIs DEF Good
<1>6. pack.multi_select \in BOOLEAN
  BY <1>1, PackIs
<1> QED BY <1>3, <1>4, <1>5, <1>6

\* A field is answered or passed over, and the next one is asked.
LEMMA FillFieldIs ==
  ASSUME NEW d, Good(d), d.step = "fields", NEW skip \in BOOLEAN
  PROVE  Result(FillField(Pack[d.version], d, skip), d)
<1> DEFINE pack == Pack[d.version]
           field == pack.fields[d.index]
<1>1. /\ d \in Docs /\ SelectedOK(d) /\ d.version \in Versions /\ d.index \in DOMAIN pack.fields
      /\ HasAddress(d) /\ RequiredBefore(d, d.index)
  BY Fields DEF Good, StepOK
<1>2. DOMAIN pack.fields = 1..Len(pack.fields) /\ Len(pack.fields) \in Nat /\ field.key \in FieldKeys
  BY <1>1, PackIs
<1>3. CASE skip /\ field.required
  BY <1>1, <1>3, AnswerIs DEF FillField
<1>4. CASE ~(skip /\ field.required)
  <2>1. PICK u : u = IF skip THEN d ELSE [d EXCEPT !.answered = d.answered \cup {field.key}]
    OBVIOUS
  <2>2. /\ u \in Docs /\ d.answered \subseteq u.answered /\ (skip \/ field.key \in u.answered)
        /\ u.address = d.address /\ u.selected = d.selected /\ u.token = d.token
        /\ u.submission = d.submission /\ u.version = d.version
    <3>1. CASE skip
      BY <1>1, <2>1, <3>1
    <3>2. CASE ~skip
      <4>1. PICK a : a = d.answered \cup {field.key}
        OBVIOUS
      <4>2. a \subseteq FieldKeys \cup {"phone", "address"}
        BY <1>1, <1>2, <4>1, Fields
      <4>3. u = [d EXCEPT !.answered = a]
        BY <2>1, <3>2, <4>1
      <4> QED BY <1>1, <4>1, <4>2, <4>3, WithAnswered
    <3> QED BY <3>1, <3>2
  <2>3. SelectedOK(u) /\ HasAddress(u)
    BY <1>1, <2>2, SelectionStays DEF HasAddress
  <2>4. \A i \in DOMAIN pack.fields : i < d.index + 1 => i < d.index \/ i = d.index
    BY <1>1, <1>2
  <2>5. RequiredBefore(u, d.index + 1)
    BY <1>1, <1>4, <2>2, <2>4 DEF RequiredBefore
  <2>6. d.index + 1 \in 1..(Len(pack.fields) + 1)
    BY <1>1, <1>2
  <2>7. Result(AskFrom(pack, u, d.index + 1), u)
    BY <2>2, <2>3, <2>5, <2>6, AskFromIs
  <2>8. FillField(pack, d, skip) = AskFrom(pack, u, d.index + 1)
    BY <1>1, <1>4, <2>1 DEF FillField
  <2> QED BY <2>2, <2>7, <2>8, NoSubmit, ResultFor
<1> QED BY <1>3, <1>4

\* The address is given, in whatever way.
LEMMA WithAddressIs ==
  ASSUME NEW d, Good(d), d.step = "address", NEW how \in {"text", "native", "map"}
  PROVE  /\ Good(WithAddress(d, how)) /\ WithAddress(d, how).token = 0
         /\ WithAddress(d, how).submission = d.submission
<1> DEFINE u == WithAddress(d, how)
<1>1. d \in Docs /\ SelectedOK(d) /\ "phone" \in d.answered
  BY DEF Good, StepOK
<1>2. PICK a : a = d.answered \cup {"address"}
  OBVIOUS
<1>3. a \subseteq FieldKeys \cup {"phone", "address"} /\ {"phone", "address"} \subseteq a
  BY <1>1, <1>2, Fields
<1>b. u = [d EXCEPT !.answered = a, !.address = how, !.step = "services", !.token = 0]
  BY <1>2 DEF WithAddress
<1>4. u = [step |-> "services", answered |-> a, address |-> how,
           selected |-> d.selected, index |-> d.index, token |-> 0,
           submission |-> d.submission, version |-> d.version, last |-> d.last]
  BY <1>1, <1>b, Fields
<1>5. u \in Docs
  BY <1>1, <1>3, <1>4, Fields DEF Docs, Steps
<1>6. SelectedOK(u)
  BY <1>1, <1>4, SelectionStays
<1>7. StepOK(u)
  BY <1>3, <1>4 DEF StepOK, HasAddress
<1> QED BY <1>4, <1>5, <1>6, <1>7 DEF Good

\* The phone is given, and a token is issued for the address page.
LEMMA FillPhoneIs ==
  ASSUME NEW d, Good(d), d.step = "phone", tokens \in Nat
  PROVE  Result(FillPhone(d), d)
<1>1. d \in Docs /\ SelectedOK(d)
  BY DEF Good
<1>2. PICK a : a = d.answered \cup {"phone"}
  OBVIOUS
<1>3. a \subseteq FieldKeys \cup {"phone", "address"} /\ "phone" \in a
  BY <1>1, <1>2, Fields
<1>4. PICK n \in Nat : n = tokens + 1 /\ n # 0
  OBVIOUS
<1>5. PICK u : u = [d EXCEPT !.answered = a, !.step = "address", !.token = n]
  OBVIOUS
<1>6. FillPhone(d) = Put(u)
  BY <1>2, <1>4, <1>5 DEF FillPhone
<1>b. d = [step |-> d.step, answered |-> d.answered, address |-> d.address,
           selected |-> d.selected, index |-> d.index, token |-> d.token,
           submission |-> d.submission, version |-> d.version, last |-> d.last]
  BY <1>1, Fields
<1>a. u = [step |-> "address", answered |-> a, address |-> d.address,
           selected |-> d.selected, index |-> d.index, token |-> n,
           submission |-> d.submission, version |-> d.version, last |-> d.last]
  BY <1>5, <1>b
<1>7. u \in Docs
  BY <1>1, <1>3, <1>4, <1>a, Fields DEF Docs, Steps
<1>8. SelectedOK(u)
  BY <1>1, <1>a, SelectionStays
<1>9. StepOK(u)
  BY <1>3, <1>4, <1>a DEF StepOK
<1> QED BY <1>4, <1>6, <1>7, <1>8, <1>9, <1>a, PutIs DEF Good

\* A handler computes a good document from a good document.
LEMMA HandleIs ==
  ASSUME NEW d, d = NoSession \/ Good(d), NEW e, tokens \in Nat
  PROVE  Result(Handle(d, e), d)
<1> DEFINE pack == PackForState(d)
<1>1. pack = Pack[d.version]
  BY DEF PackForState
<1>2. CASE e.kind = "cancel"
  BY <1>2, AnswerIs DEF Handle, Texts
<1>3. CASE e.kind = "start"
  BY <1>3, AnswerIs DEF Handle, Texts
<1>4. CASE e.kind \notin {"cancel", "start"} /\ d = NoSession
  BY <1>4, AnswerIs DEF Handle, Texts
<1>5. CASE e.kind \in Texts /\ d # NoSession
  <2>1. PICK skip \in BOOLEAN : skip = (e.kind = "skip")
    OBVIOUS
  <2>2. Handle(d, e) = HandleText(pack, d, skip)
    BY <1>5, <2>1 DEF Handle, Texts
  <2>3. CASE d.step = "phone" /\ ~skip
    BY <1>5, <2>2, <2>3, FillPhoneIs DEF HandleText
  <2>4. CASE d.step = "address" /\ ~skip
    BY <1>5, <2>2, <2>4, WithAddressIs, PutIs DEF HandleText
  <2>5. CASE d.step = "fields"
    BY <1>1, <1>5, <2>2, <2>5, FillFieldIs DEF HandleText
  <2>6. CASE d.step # "fields" /\ (skip \/ d.step \notin {"phone", "address"})
    BY <2>2, <2>6, AnswerIs DEF HandleText
  <2> QED BY <2>3, <2>4, <2>5, <2>6
<1>6. CASE e.kind \notin Texts \cup {"cancel", "start"} /\ d # NoSession
  <2>1. Handle(d, e) = HandlePress(pack, d, e)
    BY <1>6 DEF Handle
  <2>2. CASE e.kind = "location" /\ d.step = "address"
    BY <1>6, <2>1, <2>2, WithAddressIs, PutIs DEF HandlePress
  <2>3. CASE e.kind = "address_mode" /\ d.step = "address"
    BY <1>6, <2>1, <2>3, PutIs DEF HandlePress
  <2>4. CASE e.kind = "pick" /\ d.step \in {"services", "fields", "confirm"}
    <3>1. HasAddress(d)
      BY <1>6, <2>4 DEF Good, StepOK
    <3> QED BY <1>1, <1>6, <2>1, <2>4, <3>1, PickServiceIs DEF HandlePress
  <2>5. CASE e.kind = "choice" /\ d.step = "fields"
    BY <1>1, <1>6, <2>1, <2>5, FillFieldIs DEF HandlePress
  <2>6. CASE e.kind = "done" /\ d.step = "services"
    <3>1. HasAddress(d) /\ d \in Docs /\ SelectedOK(d)
      BY <1>6, <2>6 DEF Good, StepOK
    <3> QED BY <1>1, <2>1, <2>6, <3>1, AskFromFirst DEF HandlePress
  <2>7. CASE e.kind = "confirm" /\ d.step = "confirm"
    <3>1. d.selected # <<>> => Result(Submit(d), d)
      BY <2>7 DEF Submit, Write, Result
    <3> QED BY <2>1, <2>7, <3>1, AnswerIs DEF HandlePress
  <2>8. CASE /\ ~(e.kind = "location" /\ d.step = "address")
             /\ ~(e.kind = "address_mode" /\ d.step = "address")
             /\ ~(e.kind = "pick" /\ d.step \in {"services", "fields", "confirm"})
             /\ ~(e.kind = "choice" /\ d.step = "fields")
             /\ ~(e.kind = "done" /\ d.step = "services")
             /\ ~(e.kind = "confirm" /\ d.step = "confirm")
    BY <2>1, <2>8, AnswerIs DEF HandlePress
  <2> QED BY <2>2, <2>3, <2>4, <2>5, <2>6, <2>7, <2>8
<1> QED BY <1>2, <1>3, <1>4, <1>5, <1>6

-----------------------------------------------------------------------------
(* Steps.                                                                  *)

\* Numbers are issued and orders are made; neither is taken back.
Grow ==
  /\ tokens' >= tokens /\ submissions' >= submissions
  /\ \A n \in DOMAIN orders : n \in DOMAIN orders' /\ orders'[n] = orders[n]

\* Numbers that were issued stay issued.
LEMMA IssuedStays ==
  ASSUME IInv, CountersOK', Grow, NEW d, DocOK(d)
  PROVE  Good(d) /\ d.token \in 0..tokens' /\ d.submission \in 1..submissions'
<1>1. d.token \in 0..tokens /\ d.submission \in 1..submissions /\ Good(d)
  BY DEF DocOK
<1>2. tokens \in Nat /\ submissions \in Nat /\ tokens' \in Nat /\ submissions' \in Nat
  BY IntakeAssumption DEF IInv, CountersOK
<1> QED BY <1>1, <1>2 DEF Grow

\* What a handler holds stays good while others write.
LEMMA WorkStays ==
  ASSUME IInv, CountersOK', Grow, NEW g \in Handlers, work'[g] = work[g]
  PROVE  WorkOK(work[g])'
<1>1. WorkOK(work[g])
  BY DEF IInv, WorksOK
<1>2. work[g].phase = "putting" => DocOK(work[g].write.doc)'
  BY <1>1, IssuedStays DEF WorkOK, DocOK
<1>3. work[g].phase = "submitting" => Complete(work[g].write.doc)'
  BY <1>1, IssuedStays DEF WorkOK, Complete, DocOK
<1>4. work[g].phase = "clearing" /\ work[g].write.kind = "submit" =>
        /\ work[g].write.doc.submission \in DOMAIN orders'
        /\ orders'[work[g].write.doc.submission] = Content(work[g].write.doc)
  BY <1>1 DEF WorkOK, Grow
<1> QED BY <1>1, <1>2, <1>3, <1>4 DEF WorkOK, EventOK, Content

\* What is left to show of a step of a handler.
LEMMA StepKeeps ==
  ASSUME IInv, NEW h \in Handlers, work' = [work EXCEPT ![h] = work'[h]], Grow, WorkOK(work[h])',
         SessionOK', CountersOK', FailedOK', OrdersOK', ToldIsOrdered'
  PROVE  IInv'
<1>1. DOMAIN work = Handlers
  BY DEF IInv, WorksOK
<1>2. DOMAIN work' = Handlers /\ \A g \in Handlers \ {h} : work'[g] = work[g]
  BY <1>1
<1>3. \A g \in Handlers : WorkOK(work[g])'
  BY <1>2, WorkStays
<1>4. WorksOK'
  BY <1>2, <1>3 DEF WorksOK
<1> QED BY <1>4 DEF IInv

\* And of one that no handler takes.
LEMMA OtherKeeps ==
  ASSUME IInv, UNCHANGED <<work, orders, failed, submissions, tokens, faults, told>>,
         SessionOK', active' \in Versions
  PROVE  IInv'
<1>1. CountersOK' /\ Grow
  BY IntakeAssumption DEF IInv, CountersOK, Grow
<1>2. WorksOK'
  BY <1>1, WorkStays DEF IInv, WorksOK
<1>3. FailedOK' /\ OrdersOK' /\ ToldIsOrdered'
  BY DEF IInv, FailedOK, EventOK, OrdersOK, OrdersComplete, IsComplete, ToldIsOrdered
<1> QED BY <1>1, <1>2, <1>3 DEF IInv

\* What a step that leaves these variables alone preserves.
LEMMA Same ==
  ASSUME IInv
  PROVE  /\ UNCHANGED <<session, tokens, submissions>> => SessionOK'
         /\ UNCHANGED <<active, submissions, tokens, faults>> => CountersOK'
         /\ UNCHANGED <<failed, faults>> => FailedOK'
         /\ UNCHANGED <<orders, submissions>> => OrdersOK'
         /\ UNCHANGED <<orders, told>> => ToldIsOrdered'
         /\ UNCHANGED <<orders, submissions, tokens>> => Grow
<1>1. UNCHANGED <<session, tokens, submissions>> => SessionOK'
  BY DEF IInv, SessionOK, DocOK
<1>2. UNCHANGED <<active, submissions, tokens, faults>> => CountersOK'
  BY DEF IInv, CountersOK
<1>3. UNCHANGED <<failed, faults>> => FailedOK'
  BY DEF IInv, FailedOK, EventOK
<1>4. UNCHANGED <<orders, submissions>> => OrdersOK'
  BY DEF IInv, OrdersOK, OrdersComplete, IsComplete
<1>5. UNCHANGED <<orders, told>> => ToldIsOrdered'
  BY DEF IInv, ToldIsOrdered
<1>6. UNCHANGED <<orders, submissions, tokens>> => Grow
  BY IntakeAssumption DEF IInv, CountersOK, Grow
<1> QED BY <1>1, <1>2, <1>3, <1>4, <1>5, <1>6

\* What is known of the work of a handler.
LEMMA WorkKnown ==
  ASSUME IInv, NEW h \in Handlers
  PROVE  /\ DOMAIN work = Handlers /\ WorkOK(work[h])
         /\ work[h] = [phase |-> work[h].phase, event |-> work[h].event, write |-> work[h].write]
         /\ EventOK(work[h].event)
  BY DEF IInv, WorksOK, WorkOK

\* A handler without work.
LEMMA NoWorkIs == WorkOK(NoWork) /\ NoWork.event.id = 0
  BY DEF WorkOK, NoWork, NoEvent, Event, EventOK, Answer, Write

\* A handler goes on to another phase.
LEMMA ToPhase ==
  ASSUME IInv, NEW h \in Handlers, NEW s, To(h, s)
  PROVE  /\ work' = [work EXCEPT ![h] = work'[h]]
         /\ work'[h] = [phase |-> s, event |-> work[h].event, write |-> work[h].write]
<1>1. DOMAIN work = Handlers
  BY WorkKnown
<1>2. work'[h] = [work[h] EXCEPT !.phase = s] /\ work' = [work EXCEPT ![h] = work'[h]]
  BY <1>1 DEF To
<1>3. work[h] = [phase |-> work[h].phase, event |-> work[h].event, write |-> work[h].write]
  BY WorkKnown
<1>4. [work[h] EXCEPT !.phase = s] = [phase |-> s, event |-> work[h].event, write |-> work[h].write]
  BY <1>3
<1> QED BY <1>2, <1>4

-----------------------------------------------------------------------------
(* Numbers of events.                                                      *)

\* The numbers of the events of some handlers, or of some failed events.
LEMMA FewNumbers ==
  ASSUME NEW S, IsFiniteSet(S), NEW f, DOMAIN f = S
  PROVE  IsFiniteSet({f[x] : x \in S}) /\ Cardinality({f[x] : x \in S}) <= Cardinality(S)
<1> DEFINE T == {f[x] : x \in S}
           g == [x \in S |-> f[x]]
<1>1. g \in Surjection(S, T)
  BY DEF Surjection
<1> HIDE DEF T, g
<1>2. IsFiniteSet(T) /\ Cardinality(T) <= Cardinality(S)
  BY <1>1, FS_Surjection
<1> QED BY <1>2 DEF T

\* Two sets together are no larger than both.
LEMMA UnionIsSmall ==
  ASSUME NEW S, IsFiniteSet(S), NEW T, IsFiniteSet(T)
  PROVE  IsFiniteSet(S \cup T) /\ Cardinality(S \cup T) <= Cardinality(S) + Cardinality(T)
<1>1. /\ IsFiniteSet(S \cup T)
      /\ Cardinality(S \cup T) = Cardinality(S) + Cardinality(T) - Cardinality(S \cap T)
  BY FS_Union
<1>2. IsFiniteSet(S \cap T)
  BY FS_Subset
<1>3. Cardinality(S) \in Nat /\ Cardinality(T) \in Nat /\ Cardinality(S \cap T) \in Nat
  BY <1>2, FS_CardinalityType
<1> QED BY <1>1, <1>3

\* There is a number for another event: the handler that takes it has none.
LEMMA FreshIdIs ==
  ASSUME IInv, NEW h \in Handlers, Idle(h)
  PROVE  FreshId \in Nat
<1> DEFINE N == Cardinality(Handlers) + MaxFaults + 1
           ids == [g \in Handlers |-> work[g].event.id]
           fids == [e \in failed |-> e.id]
           others == Handlers \ {h}
           W == {ids[g] : g \in others}
           F == {fids[e] : e \in failed}
           U == (W \cup F) \cup {LastEvent}
           free == 1..N \ ({work[g].event.id : g \in Handlers} \cup {e.id : e \in failed} \cup {LastEvent})
<1>1. /\ Cardinality(Handlers) \in Nat /\ MaxFaults \in Nat
      /\ IsFiniteSet(others) /\ Cardinality(others) = Cardinality(Handlers) - 1
  BY IntakeAssumption, FS_CardinalityType, FS_RemoveElement
<1>2. IsFiniteSet(W) /\ Cardinality(W) <= Cardinality(Handlers) - 1
  <2> DEFINE f == [g \in others |-> ids[g]]
  <2>1. W = {f[g] : g \in others} /\ DOMAIN f = others
    OBVIOUS
  <2> HIDE DEF W, f, others
  <2> QED BY <1>1, <2>1, FewNumbers
<1>3. IsFiniteSet(F) /\ Cardinality(F) <= MaxFaults
  <2>1. IsFiniteSet(failed) /\ Cardinality(failed) <= faults /\ faults \in 0..MaxFaults
    BY DEF IInv, FailedOK, CountersOK
  <2>2. Cardinality(failed) \in Nat
    BY <2>1, FS_CardinalityType
  <2>3. DOMAIN fids = failed
    OBVIOUS
  <2> HIDE DEF fids
  <2>4. IsFiniteSet(F) /\ Cardinality(F) <= Cardinality(failed)
    BY <2>1, <2>3, FewNumbers
  <2>5. Cardinality(F) \in Nat
    BY <2>4, FS_CardinalityType
  <2> HIDE DEF F
  <2> QED BY <1>1, <2>1, <2>2, <2>4, <2>5
<1>4. IsFiniteSet({LastEvent}) /\ Cardinality({LastEvent}) = 1
  BY FS_Singleton
<1> HIDE DEF W, F
<1>5. IsFiniteSet(W \cup F) /\ Cardinality(W \cup F) <= Cardinality(W) + Cardinality(F)
  BY <1>2, <1>3, UnionIsSmall
<1>6. IsFiniteSet(U) /\ Cardinality(U) <= Cardinality(W \cup F) + 1
  BY <1>4, <1>5, UnionIsSmall
<1>7. Cardinality(W) \in Nat /\ Cardinality(F) \in Nat /\ Cardinality(W \cup F) \in Nat /\ Cardinality(U) \in Nat
  BY <1>2, <1>3, <1>5, <1>6, FS_CardinalityType
<1>8. N \in Nat /\ Cardinality(U) < N
  <2> HIDE DEF U
  <2> QED BY <1>1, <1>2, <1>3, <1>5, <1>6, <1>7
<1> HIDE DEF N, U
<1>9. \E n \in 1..N : n \notin U
  <2> SUFFICES ASSUME 1..N \subseteq U PROVE FALSE
    OBVIOUS
  <2>1. Cardinality(1..N) <= Cardinality(U)
    BY <1>6, FS_Subset
  <2>2. Cardinality(1..N) = N
    BY <1>8, FS_Interval
  <2> QED BY <1>7, <1>8, <2>1, <2>2
<1>10. work[h].event.id = 0
  BY WorkKnown DEF Idle, WorkOK
<1>11. free # {} /\ free \in SUBSET Nat
  <2>1. PICK n \in 1..N : n \notin U
    BY <1>9
  <2>2. n # 0 /\ n \in Nat
    BY <1>8
  <2>3. n \notin {work[g].event.id : g \in Handlers}
    BY <1>10, <2>1, <2>2 DEF U, W
  <2>4. n \notin {e.id : e \in failed} \cup {LastEvent}
    BY <2>1 DEF U, F
  <2> QED BY <1>8, <2>1, <2>3, <2>4
<1>12. FreshId = Min(free)
  BY DEF FreshId, N
<1> HIDE DEF free
<1> QED BY <1>11, <1>12, MinIs

-----------------------------------------------------------------------------
(* Actions.                                                                *)

\* An event is taken.
LEMMA Begun ==
  ASSUME IInv, NEW h \in Handlers, NEW e, EventOK(e), Begin(h, e)
  PROVE  work' = [work EXCEPT ![h] = work'[h]] /\ WorkOK(work[h])'
<1>1. work' = [work EXCEPT ![h] = work'[h]] /\ work'[h] = [NoWork EXCEPT !.phase = "begun", !.event = e]
  BY WorkKnown DEF Begin
<1>2. work'[h] = [phase |-> "begun", event |-> e, write |-> Answer]
  BY <1>1 DEF NoWork
<1>3. WorkOK(work[h])'
  BY <1>2 DEF WorkOK, EventOK, Answer, Write
<1> QED BY <1>1, <1>3

\* A new event has a number of its own, or none.
LEMMA TakeNewKeeps ==
  ASSUME IInv, NEW h \in Handlers, NEW e \in Events, TakeNew(h, e)
  PROVE  IInv'
<1>1. Idle(h) /\ Begin(h, e) /\ UNCHANGED <<active, session, orders, failed, submissions, tokens, faults, told>>
  BY DEF TakeNew, Begin, history
<1>2. FreshId \in Nat
  BY <1>1, FreshIdIs
<1>3. EventOK(e)
  BY <1>2 DEF Events, Event, EventOK
<1> QED BY <1>1, <1>3, Begun, Same, StepKeeps

\* A failed event is taken again, or answered.
LEMMA TakeAgainKeeps ==
  ASSUME IInv, NEW h \in Handlers, NEW e \in failed, TakeAgain(h, e)
  PROVE  IInv'
<1>1. failed' = failed \ {e} /\ UNCHANGED <<active, session, orders, submissions, tokens, faults, told>>
  BY DEF TakeAgain, history
<1>2. FailedOK'
  <2>1. IsFiniteSet(failed) /\ Cardinality(failed) <= faults /\ faults \in Nat
    BY IntakeAssumption DEF IInv, FailedOK, CountersOK
  <2>2. IsFiniteSet(failed \ {e}) /\ Cardinality(failed \ {e}) <= Cardinality(failed)
    BY <2>1, FS_Subset
  <2>3. Cardinality(failed) \in Nat /\ Cardinality(failed \ {e}) \in Nat
    BY <2>1, <2>2, FS_CardinalityType
  <2>4. Cardinality(failed \ {e}) <= faults
    BY <2>1, <2>2, <2>3
  <2> QED BY <1>1, <2>2, <2>4 DEF IInv, FailedOK, EventOK
<1>3. EventOK(e)
  BY DEF IInv, FailedOK
<1>4. CASE Begin(h, e)
  BY <1>1, <1>2, <1>3, <1>4, Begun, Same, StepKeeps
<1>5. CASE UNCHANGED work
  <2>1. Grow /\ CountersOK' /\ SessionOK' /\ OrdersOK' /\ ToldIsOrdered'
    BY <1>1, Same
  <2>2. \A g \in Handlers : WorkOK(work[g])'
    BY <1>5, <2>1, WorkStays
  <2>3. WorksOK'
    BY <1>5, <2>2 DEF IInv, WorksOK
  <2> QED BY <1>2, <2>1, <2>3 DEF IInv
<1> QED BY <1>4, <1>5 DEF TakeAgain

\* The document that a client begins with.
LEMMA NewSessionIs ==
  ASSUME NEW n \in Nat, NEW v \in Versions
  PROVE  /\ Good(NewSession(n, v)) /\ NewSession(n, v).token = 0
         /\ NewSession(n, v).submission = n
<1> DEFINE d == NewSession(n, v)
<1>1. d = [step |-> "phone", answered |-> {}, address |-> "none", selected |-> <<>>,
           index |-> 0, token |-> 0, submission |-> n, version |-> v, last |-> 0]
  BY DEF NewSession
<1>2. <<>> \in Seq(Services) /\ Len(<<>>) = 0 /\ DOMAIN <<>> = {}
  OBVIOUS
<1>3. d \in Docs
  BY <1>1, <1>2 DEF Docs, Steps
<1>4. SelectedOK(d)
  BY <1>1, <1>2 DEF SelectedOK, Range
<1> QED BY <1>1, <1>3, <1>4 DEF Good, StepOK

\* put forgets nothing that matters.
LEMMA GoodForgotten ==
  ASSUME NEW d, Good(d), NEW n \in Nat, NEW u, u = [d EXCEPT !.last = n]
  PROVE  /\ Good(u) /\ u.token = d.token /\ u.submission = d.submission /\ u.step = d.step
         /\ u.selected = d.selected
<1>1. d \in Docs /\ SelectedOK(d) /\ StepOK(d)
  BY DEF Good
<1>2. /\ u \in Docs /\ u.step = d.step /\ u.index = d.index /\ u.answered = d.answered
      /\ u.address = d.address /\ u.selected = d.selected /\ u.token = d.token
      /\ u.submission = d.submission /\ u.version = d.version
  BY <1>1, WithLast
<1>3. StepOK(u)
  BY <1>1, <1>2 DEF StepOK, HasAddress, RequiredBefore
<1> QED BY <1>1, <1>2, <1>3, SelectionStays DEF Good

\* A document is not NoSession.
LEMMA GoodIsSession == \A d : Good(d) => d # NoSession /\ d.step # "none"
  BY DEF Good, Docs, Steps, NoSession

\* Without a session the form is begun, whatever is pressed.
LEMMA HandleNone == \A e : Handle(NoSession, e).kind \in {"clear", "start"}
  BY DEF Handle, Texts, Clear, Start, Write

\* A document is read and the next one computed.
LEMMA ReadKeeps == ASSUME IInv, NEW h \in Handlers, Read(h) PROVE IInv'
<1>1. PICK w : w = Handle(session, work[h].event)
  OBVIOUS
<1>2. PICK doc : doc = IF w.kind = "start" THEN NewSession(submissions + 1, active) ELSE w.doc
  OBVIOUS
<1>3. /\ w.kind = "start" => submissions < MaxSubmissions
      /\ w.kind = "put" /\ doc.token > tokens => tokens < MaxTokens
      /\ submissions' = submissions + (IF w.kind = "start" THEN 1 ELSE 0)
      /\ tokens' = tokens + (IF w.kind = "put" /\ doc.token > tokens THEN 1 ELSE 0)
      /\ work' = [work EXCEPT ![h].phase = NextPhase(w), ![h].write = Write(w.kind, Forget(doc))]
      /\ UNCHANGED <<active, session, orders, failed, faults, told>>
  BY <1>1, <1>2 DEF Read, history
<1>4. tokens \in Nat /\ submissions \in Nat /\ active \in Versions
  BY IntakeAssumption DEF IInv, CountersOK
<1>5. Result(w, session)
  BY <1>1, <1>4, HandleIs DEF IInv, SessionOK, DocOK
<1>6. CountersOK'
  <2>1. submissions' \in 0..MaxSubmissions
    BY <1>3, IntakeAssumption DEF IInv, CountersOK
  <2>2. tokens' \in 0..MaxTokens
    BY <1>3, IntakeAssumption DEF IInv, CountersOK
  <2> QED BY <1>3, <2>1, <2>2 DEF IInv, CountersOK
<1>7. Grow
  <2>1. tokens' >= tokens /\ submissions' >= submissions
    BY <1>3, <1>4
  <2> QED BY <1>3, <2>1 DEF Grow
<1>8. work' = [work EXCEPT ![h] = work'[h]] /\ work'[h] = [phase |-> NextPhase(w),
        event |-> work[h].event, write |-> [kind |-> w.kind, doc |-> Forget(doc)]]
  <2>1. DOMAIN work = Handlers
    BY WorkKnown
  <2>2. PICK k : k = [work[h] EXCEPT !.phase = NextPhase(w), !.write = Write(w.kind, Forget(doc))]
    OBVIOUS
  <2>3. work' = [work EXCEPT ![h] = k]
    BY <1>3, <2>1, <2>2
  <2>4. work[h] = [phase |-> work[h].phase, event |-> work[h].event, write |-> work[h].write]
    BY WorkKnown
  <2>5. k = [phase |-> NextPhase(w), event |-> work[h].event, write |-> Write(w.kind, Forget(doc))]
    BY <2>2, <2>4
  <2> QED BY <2>1, <2>3, <2>5 DEF Write
<1>9. w.kind = "start" \/ w.kind = "put" =>
        /\ Good(doc) /\ doc.token \in 0..tokens' /\ doc.submission \in 1..submissions'
  <2>1. CASE w.kind = "start"
    <3>1. doc = NewSession(submissions + 1, active) /\ submissions + 1 \in Nat
      BY <1>2, <1>4, <2>1
    <3>2. Good(doc) /\ doc.token = 0 /\ doc.submission = submissions + 1
      BY <1>4, <3>1, NewSessionIs
    <3> QED BY <1>3, <1>4, <2>1, <3>2
  <2>2. CASE w.kind = "put"
    <3>1. /\ Good(w.doc) /\ doc = w.doc
          /\ doc.submission = session.submission /\ doc.token \in {0, session.token, tokens + 1}
      BY <1>2, <1>5, <2>2 DEF Result
    <3>2. session # NoSession
      BY <1>1, <2>2, HandleNone
    <3>3. session.token \in 0..tokens /\ session.submission \in 1..submissions
      BY <3>2 DEF IInv, SessionOK, DocOK
    <3> QED BY <1>3, <1>4, <2>2, <3>1, <3>3
  <2> QED BY <2>1, <2>2
<1>10. w.kind = "submit" => Complete(doc)
  <2> SUFFICES ASSUME w.kind = "submit" PROVE Complete(doc)
    OBVIOUS
  <2>1. doc = session /\ session.step = "confirm" /\ session.selected # <<>>
    BY <1>2, <1>5 DEF Result
  <2>2. session # NoSession
    BY <1>1, HandleNone
  <2> QED BY <2>1, <2>2 DEF IInv, SessionOK, Complete
<1>11. work'[h].phase \in {"done", "submitting", "clearing", "putting"}
  BY <1>8 DEF NextPhase
<1>12. work'[h].phase = "putting" => DocOK(work[h].write.doc)'
  <2> SUFFICES ASSUME NextPhase(w) = "putting" PROVE DocOK(work[h].write.doc)'
    BY <1>8
  <2>1. w.kind = "start" \/ w.kind = "put"
    BY <1>5 DEF Result, NextPhase
  <2>2. PICK u : u = Forget(doc)
    OBVIOUS
  <2>3. Good(u) /\ u.token = doc.token /\ u.submission = doc.submission
    BY <1>9, <2>1, <2>2, GoodIsSession, GoodForgotten DEF Forget
  <2> QED BY <1>8, <1>9, <2>1, <2>2, <2>3 DEF DocOK
<1>13. work'[h].phase = "submitting" => work'[h].write.kind = "submit" /\ Complete(work[h].write.doc)'
  <2> SUFFICES ASSUME NextPhase(w) = "submitting"
               PROVE  work'[h].write.kind = "submit" /\ Complete(work[h].write.doc)'
    BY <1>8
  <2>1. w.kind = "submit"
    BY <1>5 DEF Result, NextPhase
  <2>2. PICK u : u = Forget(doc)
    OBVIOUS
  <2>3. Good(doc) /\ DocOK(doc) /\ doc.step = "confirm" /\ doc.selected # <<>>
    BY <1>10, <2>1 DEF Complete, DocOK
  <2>4. Good(u) /\ u.token = doc.token /\ u.submission = doc.submission /\ u.step = doc.step
        /\ u.selected = doc.selected
    BY <2>2, <2>3, GoodIsSession, GoodForgotten DEF Forget
  <2>5. doc.token \in 0..tokens' /\ doc.submission \in 1..submissions'
    BY <1>6, <1>7, <2>3, IssuedStays
  <2> QED BY <1>8, <2>1, <2>2, <2>3, <2>4, <2>5 DEF DocOK, Complete
<1>14. work'[h].phase = "clearing" => work'[h].write.kind # "submit"
  BY <1>8 DEF NextPhase
<1>15. WorkOK(work[h])'
  <2>1. work'[h].event = work[h].event
    BY <1>8
  <2>2. EventOK(work'[h].event)
    BY <2>1, WorkKnown
  <2>3. work'[h].phase # "idle"
    BY <1>11
  <2> QED BY <1>8, <1>12, <1>13, <1>14, <2>2, <2>3 DEF WorkOK, EventOK
<1>16. SessionOK'
  BY <1>3, <1>6, <1>7, IssuedStays DEF IInv, SessionOK, DocOK
<1>17. OrdersOK'
  <2>1. DOMAIN orders \subseteq 1..submissions'
    BY <1>3, <1>4 DEF IInv, OrdersOK
  <2> QED BY <1>3, <2>1 DEF IInv, OrdersOK, OrdersComplete, IsComplete
<1> QED BY <1>3, <1>6, <1>7, <1>8, <1>15, <1>16, <1>17, Same, StepKeeps

\* A handler goes on to clear the session, or to answer.
LEMMA Moved ==
  ASSUME IInv, NEW h \in Handlers, NEW s \in {"clearing", "done"},
         work'[h] = [phase |-> s, event |-> work[h].event, write |-> work[h].write],
         s = "clearing" /\ work[h].write.kind = "submit" =>
           /\ work[h].write.doc.submission \in DOMAIN orders'
           /\ orders'[work[h].write.doc.submission] = Content(work[h].write.doc)
  PROVE  WorkOK(work[h])'
<1>1. PICK w, e : w = work[h].write /\ e = work[h].event
  OBVIOUS
<1>2. w = [kind |-> w.kind, doc |-> w.doc] /\ EventOK(e)
  BY <1>1, WorkKnown DEF WorkOK
<1>3. work'[h] = [phase |-> s, event |-> e, write |-> w]
  BY <1>1
<1>4. /\ work'[h].phase = s /\ work'[h].event = e /\ work'[h].write = w
      /\ work'[h] = [phase |-> work'[h].phase, event |-> work'[h].event, write |-> work'[h].write]
  BY <1>3
<1>5. s = "clearing" /\ w.kind = "submit" =>
        w.doc.submission \in DOMAIN orders' /\ orders'[w.doc.submission] = Content(w.doc)
  BY <1>1
<1> QED BY <1>2, <1>4, <1>5 DEF WorkOK, EventOK, Content

\* A handler has only the answer left to give.
LEMMA MovesOn ==
  ASSUME IInv, NEW h \in Handlers, To(h, "done")
  PROVE  WorkOK(work[h])' /\ work' = [work EXCEPT ![h] = work'[h]]
<1>1. /\ work' = [work EXCEPT ![h] = work'[h]]
      /\ work'[h] = [phase |-> "done", event |-> work[h].event, write |-> work[h].write]
  BY ToPhase
<1>2. WorkOK(work[h])'
  BY <1>1, Moved, WorkKnown
<1> QED BY <1>1, <1>2

\* A handler has no work any more.
LEMMA Rests ==
  ASSUME IInv, NEW h \in Handlers, work' = [work EXCEPT ![h] = NoWork]
  PROVE  WorkOK(work[h])' /\ work' = [work EXCEPT ![h] = work'[h]]
<1>1. work'[h] = NoWork /\ work' = [work EXCEPT ![h] = work'[h]]
  BY WorkKnown
<1>2. WorkOK(work[h])'
  BY <1>1 DEF WorkOK, NoWork, NoEvent, Event, EventOK, Answer, Write
<1> QED BY <1>1, <1>2

\* The document is put with the number of the event.
LEMMA PutSessionKeeps == ASSUME IInv, NEW h \in Handlers, PutSession(h) PROVE IInv'
<1>1. /\ work[h].phase = "putting" /\ To(h, "done")
      /\ UNCHANGED <<active, orders, failed, submissions, tokens, faults, told>>
  BY DEF PutSession, At, counters, history
<1>2. DocOK(work[h].write.doc) /\ work[h].event.id \in Nat
  BY <1>1, WorkKnown DEF WorkOK, EventOK
<1>3. SessionOK'
  <2>1. PICK u : u = [work[h].write.doc EXCEPT !.last = work[h].event.id]
    OBVIOUS
  <2>2. session' = u
    BY <2>1 DEF PutSession
  <2>3. Good(u) /\ u.token = work[h].write.doc.token /\ u.submission = work[h].write.doc.submission
    BY <1>2, <2>1, GoodForgotten DEF DocOK
  <2> QED BY <1>1, <1>2, <2>2, <2>3 DEF SessionOK, DocOK
<1>4. WorkOK(work[h])' /\ work' = [work EXCEPT ![h] = work'[h]]
  BY <1>1, MovesOn
<1> QED BY <1>1, <1>3, <1>4, Same, StepKeeps

\* What can be submitted is a complete order.
LEMMA CompleteIsComplete ==
  ASSUME NEW d, Complete(d)
  PROVE  IsComplete(Content(d))
<1>1. /\ d \in Docs /\ SelectedOK(d) /\ HasAddress(d) /\ d.selected # <<>>
      /\ RequiredBefore(d, Len(Pack[d.version].fields) + 1)
  BY DEF Complete, DocOK, Good, StepOK
<1>2. d.version \in Versions /\ d.selected \in Seq(Services)
  BY <1>1, Fields
<1>3. PICK c : c = Content(d)
  OBVIOUS
<1>4. c.services = d.selected /\ c.version = d.version /\ c.answered = d.answered /\ c.address = d.address
  BY <1>3 DEF Content
<1>5. ~Pack[d.version].multi_select => Len(d.selected) = 1
  <2>1. PICK n \in Nat : n = Len(d.selected)
    BY <1>2
  <2>2. n # 0
    BY <1>1, <1>2, <2>1, EmptySeq
  <2>3. ~Pack[d.version].multi_select => n <= 1
    BY <1>1, <2>1 DEF SelectedOK
  <2>4. ~Pack[d.version].multi_select => n = 1
    BY <2>2, <2>3
  <2> QED BY <2>1, <2>4
<1>6. \A i \in DOMAIN Pack[d.version].fields :
        Pack[d.version].fields[i].required => Pack[d.version].fields[i].key \in d.answered
  <2>1. DOMAIN Pack[d.version].fields = 1..Len(Pack[d.version].fields) /\ Len(Pack[d.version].fields) \in Nat
    BY <1>2, PackIs
  <2>2. \A n \in Nat : \A i \in 1..n : i < n + 1
    OBVIOUS
  <2>3. \A i \in DOMAIN Pack[d.version].fields : i < Len(Pack[d.version].fields) + 1
    BY <2>1, <2>2
  <2> QED BY <1>1, <2>3 DEF RequiredBefore
<1>7. IsComplete(c)
  BY <1>1, <1>4, <1>5, <1>6 DEF IsComplete, HasAddress, SelectedOK
<1> QED BY <1>3, <1>7

\* An order is made, found, or refused.
LEMMA CreateOrderKeeps == ASSUME IInv, NEW h \in Handlers, CreateOrder(h) PROVE IInv'
<1> DEFINE d == work[h].write.doc
<1>1. /\ work[h].phase = "submitting"
      /\ UNCHANGED <<active, session, failed, submissions, tokens, faults, told>>
  BY DEF CreateOrder, At, counters, history
<1>2. work[h].write.kind = "submit" /\ Complete(d)
  BY <1>1, WorkKnown DEF WorkOK
<1>3. SessionOK' /\ CountersOK' /\ FailedOK'
  BY <1>1, Same
<1>4. ASSUME d.submission \in DOMAIN orders, orders[d.submission] = Content(d),
             To(h, "clearing"), UNCHANGED orders
      PROVE  IInv'
  <2>1. /\ work' = [work EXCEPT ![h] = work'[h]]
        /\ work'[h] = [phase |-> "clearing", event |-> work[h].event, write |-> work[h].write]
    BY <1>4, ToPhase
  <2>2. WorkOK(work[h])'
    BY <1>4, <2>1, Moved
  <2> QED BY <1>1, <1>3, <1>4, <2>1, <2>2, Same, StepKeeps
<1>5. ASSUME To(h, "done"), UNCHANGED orders PROVE IInv'
  <2>1. WorkOK(work[h])' /\ work' = [work EXCEPT ![h] = work'[h]]
    BY <1>5, MovesOn
  <2> QED BY <1>1, <1>3, <1>5, <2>1, Same, StepKeeps
<1>6. ASSUME d.submission \notin DOMAIN orders, To(h, "clearing"),
             orders' = [n \in DOMAIN orders \cup {d.submission} |->
                          IF n = d.submission THEN Content(d) ELSE orders[n]]
      PROVE  IInv'
  <2>1. /\ DOMAIN orders' = DOMAIN orders \cup {d.submission} /\ orders'[d.submission] = Content(d)
        /\ \A n \in DOMAIN orders : orders'[n] = orders[n]
    BY <1>6
  <2>2. Grow
    BY <1>1, <2>1, IntakeAssumption DEF Grow, IInv, CountersOK
  <2>3. OrdersOK'
    <3>1. DOMAIN orders' \subseteq 1..submissions'
      BY <1>1, <1>2, <2>1 DEF IInv, OrdersOK, Complete, DocOK
    <3>2. \A n \in DOMAIN orders : IsComplete(orders[n])
      BY DEF IInv, OrdersOK, OrdersComplete
    <3>3. \A n \in DOMAIN orders' : IsComplete(orders'[n])
      BY <1>2, <2>1, <3>2, CompleteIsComplete
    <3> QED BY <3>1, <3>3 DEF OrdersOK, OrdersComplete, IsComplete
  <2>4. ToldIsOrdered'
    BY <1>1, <2>1 DEF IInv, ToldIsOrdered
  <2>5. /\ work' = [work EXCEPT ![h] = work'[h]]
        /\ work'[h] = [phase |-> "clearing", event |-> work[h].event, write |-> work[h].write]
    BY <1>6, ToPhase
  <2>6. WorkOK(work[h])'
    BY <2>1, <2>5, Moved
  <2> QED BY <1>3, <2>2, <2>3, <2>4, <2>5, <2>6, StepKeeps
<1> QED BY <1>4, <1>5, <1>6 DEF CreateOrder, SameSubmission

\* The session is deleted and the client told.
LEMMA ClearSessionKeeps == ASSUME IInv, NEW h \in Handlers, ClearSession(h) PROVE IInv'
<1> DEFINE w == work[h].write
<1>1. /\ work[h].phase = "clearing" /\ To(h, "done") /\ session' = NoSession
      /\ UNCHANGED <<active, orders, failed, submissions, tokens, faults>>
      /\ told' = IF w.kind = "submit"
                   THEN told \cup {[submission |-> w.doc.submission, content |-> Content(w.doc)]}
                   ELSE told
  BY DEF ClearSession, At, counters
<1>2. w.kind = "submit" =>
        w.doc.submission \in DOMAIN orders /\ orders[w.doc.submission] = Content(w.doc)
  BY <1>1, WorkKnown DEF WorkOK
<1>3. ToldIsOrdered'
  <2>1. \A t \in told : t.submission \in DOMAIN orders /\ orders[t.submission] = t.content
    BY DEF IInv, ToldIsOrdered
  <2>2. \A t \in told' : t.submission \in DOMAIN orders /\ orders[t.submission] = t.content
    BY <1>1, <1>2, <2>1
  <2> QED BY <1>1, <2>2 DEF ToldIsOrdered
<1>4. SessionOK'
  BY <1>1 DEF SessionOK
<1>5. WorkOK(work[h])' /\ work' = [work EXCEPT ![h] = work'[h]]
  BY <1>1, MovesOn
<1> QED BY <1>1, <1>3, <1>4, <1>5, Same, StepKeeps

\* A handler has finished.
LEMMA FinishKeeps == ASSUME IInv, NEW h \in Handlers, Finish(h) PROVE IInv'
<1>1. /\ work' = [work EXCEPT ![h] = NoWork]
      /\ session' = session \/ session' = Forget(session)
      /\ UNCHANGED <<active, orders, failed, submissions, tokens, faults, told>>
  BY DEF Finish, counters, history
<1>2. SessionOK'
  <2>1. CASE session' = session
    BY <1>1, <2>1, Same
  <2>2. CASE session' = Forget(session)
    <3>1. CASE session = NoSession
      BY <2>2, <3>1 DEF Forget, SessionOK
    <3>2. CASE session # NoSession
      <4>1. PICK u : u = [session EXCEPT !.last = 0]
        OBVIOUS
      <4>2. session' = u
        BY <2>2, <3>2, <4>1 DEF Forget
      <4>3. DocOK(session)
        BY <3>2 DEF IInv, SessionOK
      <4>4. Good(u) /\ u.token = session.token /\ u.submission = session.submission
        BY <4>1, <4>3, GoodForgotten DEF DocOK
      <4> QED BY <1>1, <4>2, <4>3, <4>4 DEF SessionOK, DocOK
    <3> QED BY <3>1, <3>2
  <2> QED BY <1>1, <2>1, <2>2
<1>3. WorkOK(work[h])' /\ work' = [work EXCEPT ![h] = work'[h]]
  BY <1>1, Rests
<1> QED BY <1>1, <1>2, <1>3, Same, StepKeeps

\* A handler has failed, and its event is to be handed over again.
LEMMA FailKeeps == ASSUME IInv, NEW h \in Handlers, Fail(h) PROVE IInv'
<1>1. /\ work' = [work EXCEPT ![h] = NoWork] /\ failed' = failed \cup {work[h].event}
      /\ faults < MaxFaults /\ faults' = faults + 1
      /\ UNCHANGED <<active, session, orders, submissions, tokens, told>>
  BY DEF Fail, history
<1>2. faults \in Nat /\ MaxFaults \in Nat
  BY IntakeAssumption DEF IInv, CountersOK
<1>3. CountersOK'
  BY <1>1, <1>2 DEF IInv, CountersOK
<1>4. FailedOK'
  <2>1. IsFiniteSet(failed) /\ Cardinality(failed) <= faults /\ \A e \in failed : EventOK(e)
    BY DEF IInv, FailedOK
  <2>2. IsFiniteSet({work[h].event}) /\ Cardinality({work[h].event}) = 1
    BY FS_Singleton
  <2>3. /\ IsFiniteSet(failed \cup {work[h].event})
        /\ Cardinality(failed \cup {work[h].event}) <= Cardinality(failed) + 1
    BY <2>1, <2>2, UnionIsSmall
  <2>4. Cardinality(failed) \in Nat /\ Cardinality(failed \cup {work[h].event}) \in Nat
    BY <2>1, <2>3, FS_CardinalityType
  <2>5. Cardinality(failed \cup {work[h].event}) <= faults + 1
    BY <1>2, <2>1, <2>3, <2>4
  <2>6. EventOK(work[h].event)
    BY WorkKnown
  <2>7. \A e \in failed' : EventOK(e)
    BY <1>1, <2>1, <2>6
  <2> QED BY <1>1, <2>3, <2>5, <2>7 DEF FailedOK, EventOK
<1>5. WorkOK(work[h])' /\ work' = [work EXCEPT ![h] = work'[h]]
  BY <1>1, Rests
<1>6. SessionOK' /\ OrdersOK' /\ ToldIsOrdered' /\ Grow
  BY <1>1, Same
<1> QED BY <1>3, <1>4, <1>5, <1>6, StepKeeps

\* The address page gives the address, whatever the handlers do meanwhile.
LEMMA SelectAddressKeeps == ASSUME IInv, NEW t, SelectAddress(t) PROVE IInv'
<1>1. /\ session # NoSession /\ session.step = "address" /\ session' = WithAddress(session, "map")
      /\ UNCHANGED <<active, work, orders, failed, submissions, tokens, faults, told>>
  BY DEF SelectAddress, counters
<1>2. DocOK(session) /\ tokens \in Nat
  BY <1>1, IntakeAssumption DEF IInv, SessionOK, CountersOK
<1>3. SessionOK'
  <2>1. Good(session') /\ session'.token = 0 /\ session'.submission = session.submission
    BY <1>1, <1>2, WithAddressIs DEF DocOK
  <2> QED BY <1>1, <1>2, <2>1 DEF SessionOK, DocOK
<1> QED BY <1>1, <1>3, OtherKeeps DEF IInv, CountersOK

\* The administrator and the clean-up.
LEMMA OthersKeep == ASSUME IInv, CleanupStale \/ Publish PROVE IInv'
<1>1. CASE CleanupStale
  <2>1. SessionOK' /\ UNCHANGED <<active, work, orders, failed, submissions, tokens, faults, told>>
    BY <1>1 DEF CleanupStale, SessionOK, counters, history
  <2> QED BY <2>1, OtherKeeps DEF IInv, CountersOK
<1>2. CASE Publish
  <2>1. /\ active' \in Versions
        /\ UNCHANGED <<session, work, orders, failed, submissions, tokens, faults, told>>
    BY <1>2 DEF Publish, counters, history
  <2> QED BY <2>1, Same, OtherKeeps
<1> QED BY <1>1, <1>2

\* Nothing is promised at the beginning.
LEMMA InitEstablishes == Init => IInv
<1> SUFFICES ASSUME Init PROVE IInv
  OBVIOUS
<1>1. SessionOK
  BY DEF Init, SessionOK
<1>2. WorksOK
  BY NoWorkIs DEF Init, WorksOK
<1>3. CountersOK
  BY IntakeAssumption DEF Init, CountersOK
<1>4. FailedOK
  BY FS_EmptySet DEF Init, FailedOK
<1>5. OrdersOK
  BY DEF Init, OrdersOK, OrdersComplete
<1>6. ToldIsOrdered
  BY DEF Init, ToldIsOrdered
<1> QED BY <1>1, <1>2, <1>3, <1>4, <1>5, <1>6 DEF IInv

\* Every step keeps it.
LEMMA NextKeeps == IInv /\ [Next]_vars => IInv'
<1> SUFFICES ASSUME IInv, [Next]_vars PROVE IInv'
  OBVIOUS
<1>1. ASSUME NEW h \in Handlers, NEW e \in Events, TakeNew(h, e) PROVE IInv'
  BY <1>1, TakeNewKeeps
<1>2. ASSUME NEW h \in Handlers, NEW e \in failed, TakeAgain(h, e) PROVE IInv'
  BY <1>2, TakeAgainKeeps
<1>3. ASSUME NEW h \in Handlers,
             \/ Read(h) \/ PutSession(h) \/ CreateOrder(h) \/ ClearSession(h)
             \/ Finish(h) \/ Fail(h)
      PROVE  IInv'
  BY <1>3, ReadKeeps, PutSessionKeeps, CreateOrderKeeps, ClearSessionKeeps, FinishKeeps, FailKeeps
<1>4. ASSUME NEW t \in 1..tokens, SelectAddress(t) PROVE IInv'
  BY <1>4, SelectAddressKeeps
<1>5. CASE CleanupStale \/ Publish
  BY <1>5, OthersKeep
<1>6. CASE UNCHANGED vars
  <2>1. /\ UNCHANGED <<active, session, work, orders, failed, submissions, tokens, faults, told>>
    BY <1>6 DEF vars, counters, history
  <2> QED BY <2>1, Same, OtherKeeps DEF IInv, CountersOK
<1> QED BY <1>1, <1>2, <1>3, <1>4, <1>5, <1>6 DEF Next

-----------------------------------------------------------------------------
(* Theorems.                                                               *)

\* The invariant holds throughout.
THEOREM Invariance == Spec => []IInv
BY InitEstablishes, NextKeeps, PTL DEF Spec

\* As many services are chosen as there are, at most.
LEMMA FewSelected ==
  ASSUME NEW d, d \in Docs, SelectedOK(d)
  PROVE  d.selected \in UNION {[1..n -> Services] : n \in 0..Cardinality(Services)}
<1> DEFINE s == d.selected
<1>1. s \in Seq(Services)
  BY Fields
<1>2. PICK n \in Nat : n = Len(s)
  BY <1>1
<1>3. s \in [1..n -> Services]
  BY <1>1, <1>2
<1>4. s \in Injection(1..n, Services)
  BY <1>3 DEF SelectedOK, Injection, IsInjective
<1>5. IsFiniteSet(Services) /\ Cardinality(Services) \in Nat
  BY IntakeAssumption, FS_CardinalityType
<1>6. Cardinality(1..n) = n
  BY FS_Interval
<1> HIDE DEF s
<1>7. Cardinality(1..n) <= Cardinality(Services)
  BY <1>4, <1>5, FS_Injection
<1>8. n \in 0..Cardinality(Services)
  BY <1>2, <1>5, <1>6, <1>7
<1> QED BY <1>3, <1>8 DEF s

\* The row holds a document of the form, with the token that the address page
\* needs while it is needed, and asks for no field that has an answer.
THEOREM TypeCorrect == Spec => []TypeOK
<1>1. IInv => TypeOK
  <2> SUFFICES ASSUME IInv PROVE TypeOK
    OBVIOUS
  <2>1. active \in Versions /\ DOMAIN orders \subseteq 1..submissions
    BY DEF IInv, CountersOK, OrdersOK
  <2>2. ASSUME session # NoSession
        PROVE  /\ session \in Sessions
               /\ (session.token # 0) <=> (session.step = "address")
               /\ session.step = "fields" =>
                    Pack[session.version].fields[session.index].key \notin session.answered
    <3>1. /\ session \in Docs /\ SelectedOK(session) /\ StepOK(session)
          /\ session.token \in 0..tokens /\ session.submission \in 1..submissions
      BY <2>2 DEF IInv, SessionOK, DocOK, Good
    <3>2. session.token \in 0..MaxTokens /\ session.submission \in 1..MaxSubmissions
      BY <3>1, IntakeAssumption DEF IInv, CountersOK
    <3>3. session.selected \in UNION {[1..n -> Services] : n \in 0..Cardinality(Services)}
      BY <3>1, FewSelected
    <3>4. session \in Sessions
      BY <3>1, <3>2, <3>3, Fields DEF Sessions, Steps
    <3> QED BY <3>1, <3>4 DEF StepOK, HasAddress
  <2> QED BY <2>1, <2>2 DEF TypeOK
<1> QED BY <1>1, Invariance, PTL

\* Every order there is has what its revision requires, whatever was pressed
\* late, written back stale or published meanwhile (_confirm, _pack_for_state).
THEOREM OrdersAreComplete == Spec => []OrdersComplete
<1>1. IInv => OrdersComplete
  BY DEF IInv, OrdersOK
<1> QED BY <1>1, Invariance, PTL

\* The client is told of no order but the one there is (_same_submission).
THEOREM ToldIsTrue == Spec => []ToldIsOrdered
<1>1. IInv => ToldIsOrdered
  BY DEF IInv
<1> QED BY <1>1, Invariance, PTL
=============================================================================
