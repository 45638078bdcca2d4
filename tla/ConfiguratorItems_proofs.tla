---------------------- MODULE ConfiguratorItems_proofs ----------------------
(***************************************************************************)
(* That an item of the form has a key of its own and is added once, for    *)
(* any messengers, labels, events and failures.                            *)
(*                                                                         *)
(* A definition that a handler has read may be written back at any time,   *)
(* by either messenger, so what is claimed of definitions is claimed of    *)
(* all that circulate: the rows and what the handlers hold.  An event that *)
(* may be handed over again and was not overtaken finds the session as it  *)
(* left it.  Wherever an item of that event circulates already, the session*)
(* shows it (SafeIn): it remembers the event, or has the key of that item, *)
(* or is not in the flow any more.                                         *)
(***************************************************************************)
EXTENDS Configurator_proofs, FiniteSetTheorems, SequenceTheorems, WellFoundedInduction

Bases == {Base[l] : l \in Labels} \cup {Address}

\* Keys of items; NoArg is none.
KeyOK(key) == key \in [base : Bases, n : Nat \ {0}]

\* Of a list, after N events of which those in O were overtaken.
Distinct(items, O) ==
  \A i, j \in DOMAIN items : i # j =>
    /\ items[i].key # items[j].key
    /\ items[i].by = items[j].by => items[i].by \in O \cup {NoEvent}

ItemOK(x, N) ==
  /\ x \in Items /\ KeyOK(x.key)
  /\ x.by = NoEvent \/ x.by \in [channel : Channels, n : 1..N]

ListOK(items, O, N) ==
  /\ items \in Seq(Items)
  /\ \A i \in DOMAIN items : ItemOK(items[i], N)
  /\ Distinct(items, O)

DefOK(d, O, N) ==
  /\ d = [name |-> d.name, services |-> d.services, fields |-> d.fields]
  /\ d.name \in BOOLEAN /\ ListOK(d.services, O, N) /\ ListOK(d.fields, O, N)

EventOK(c, e, N) ==
  /\ e = [channel |-> c, n |-> e.n, kind |-> e.kind, arg |-> e.arg]
  /\ e.n \in 1..N /\ e.kind \in Kinds /\ (e.kind = TextKind => e.arg \in Labels)

\* A service's key is kept with its label; a field has its key before its type.
SessOK(s, N) ==
  /\ s = [flow |-> s.flow, step |-> s.step, key |-> s.key, label |-> s.label,
          type |-> s.type, choices |-> s.choices, last |-> s.last]
  /\ s.label \in Labels \cup {NoLabel} /\ s.type \in {"none", "address", "enum", "text"}
  /\ s.flow = "service_add" => s.key = NoArg \/ KeyOK(s.key)
  /\ s.flow = "field_add" => s.label = NoLabel \/ KeyOK(s.key)
  /\ s.last.n \in 0..N

\* With this session the event e adds no item it has added to d before.
SafeIn(s, e, d) ==
  /\ e.kind = TextKind => \A i \in DOMAIN d.services : d.services[i].by = Id(e) =>
       s.last = Id(e) \/ s.flow # "service_add" \/ s.key = d.services[i].key
  /\ e.kind = "required" => \A i \in DOMAIN d.fields : d.fields[i].by = Id(e) =>
       s.flow # "field_add" \/ s.key = d.fields[i].key

\* What a handler may have left to do of an event e.
PlanOK(e, p, O, N) ==
  /\ p = [first |-> p.first, raises |-> p.raises, draft |-> p.draft, last |-> p.last,
          view |-> p.view]
  /\ p.first = Keep \/ (SessOK(p.first, N) /\ p.first.flow # "none")
  /\ p.draft = Keep \/ DefOK(p.draft, O, N)
  /\ p.last = Keep \/ SessOK(p.last, N)
  /\ p.raises => p.draft = Keep
  /\ e.kind = "required" => /\ p.last = Keep \/ p.last.flow = "none"
                            /\ p.first = Keep \/ p.draft = Keep

\* And what must be so of the session it has read.
PlanFits(s, e, p, O) ==
  /\ e.kind = "required" /\ p.first # Keep => s.flow = "field_add" /\ s.key = NoArg
  /\ p.draft # Keep /\ p.first = Keep /\ Id(e) \notin O => SafeIn(s, e, p.draft)

\* Items of t come from items, or from the event with the number id.
Comes(t, items, id) ==
  \A i \in DOMAIN t : \/ t[i].by = id
                      \/ \E j \in DOMAIN items : items[j].key = t[i].key /\ items[j].by = t[i].by

\* What a worker w may hold, with its channel's session s and failed events F.
WorkFits(c, s, w, F, O, N) ==
  /\ w = [phase |-> w.phase, event |-> w.event, draft |-> w.draft, plan |-> w.plan]
  /\ w.phase = "idle" => w = NoWork
  /\ PlanOK(w.event, w.plan, O, N)
  /\ w.phase = "planned" <=> w.plan.first # Keep
  /\ w.phase \notin {"planned", "keyed"} => w.plan.draft = Keep
  /\ w.phase = "keyed" => w.plan.draft # Keep
  /\ w.phase = "written" => w.plan.last # Keep
  /\ w.draft # Keep => DefOK(w.draft, O, N)
  /\ w.phase \in {"seeded", "reseeded"} => w.draft # Keep
  /\ w.phase # "idle" =>
       /\ EventOK(c, w.event, N)
       /\ w.phase = "planned" /\ w.event.kind = "required" => s.flow = "field_add" /\ s.key = NoArg
       /\ w.phase = "seeded" => w.event.kind \notin StoreKinds
       /\ w.phase = "seeded" /\ w.event.kind = TextKind => s.last # Id(w.event)
       /\ \A f \in F : Id(f) \in O

\* The definitions that circulate when the table is P and the workers are W;
\* what the handler of c has yet to keep a key for does not.
Circulates(c, d, P, W) ==
  /\ d # Keep
  /\ \/ \E v \in DOMAIN P : d = P[v].definition
     \/ \E b \in Channels : d = W[b].draft
     \/ \E b \in Channels : d = W[b].plan.draft /\ ~(b = c /\ W[c].phase = "planned")

\* Events that may be handed over (again).
Pending(e, w, F) == e \in F \/ (w.phase # "idle" /\ w.event = e)

Safe(c, s, F, O, P, W) ==
  \A e : Pending(e, W[c], F) /\ Id(e) \notin O =>
    \A d : Circulates(c, d, P, W) => SafeIn(s, e, d)

HasActive == InState({"active"}) # {}
CountsOK == sent \in 0..MaxEvents /\ faults \in 0..MaxFaults
RowsOK == \A v \in DOMAIN packs : DefOK(packs[v].definition, overtaken, sent)
SessionsOK ==
  /\ sessions = [c \in Channels |-> sessions[c]]
  /\ \A c \in Channels : SessOK(sessions[c], sent)
FailedOK ==
  /\ failed = [c \in Channels |-> failed[c]]
  /\ \A c \in Channels : \A e \in failed[c] : EventOK(c, e, sent)
WorksOK ==
  /\ work = [c \in Channels |-> work[c]]
  /\ \A c \in Channels : WorkFits(c, sessions[c], work[c], failed[c], overtaken, sent)
SafeOK == \A c \in Channels : Safe(c, sessions[c], failed[c], overtaken, packs, work)

ItemsInv ==
  /\ IInv /\ HasActive /\ CountsOK /\ RowsOK /\ SessionsOK /\ FailedOK /\ WorksOK /\ SafeOK

-----------------------------------------------------------------------------
(* Lists.                                                                  *)

\* All of t comes from items.
Old(t, items) ==
  \A i \in DOMAIN t : \E j \in DOMAIN items : items[j].key = t[i].key /\ items[j].by = t[i].by

\* A set of numbers has a least one.
LEMMA LeastIs ==
  ASSUME NEW S \in SUBSET Nat, S # {}
  PROVE  \E n \in S : \A m \in S : n <= m
<1>1. IsWellFoundedOn({ss \in Nat \X Nat : ss[1] < ss[2]}, Nat)
  BY NatLessThanWellFounded DEF OpToRel
<1>2. PICK n \in S : \A m \in S : ~(<<m, n>> \in {ss \in Nat \X Nat : ss[1] < ss[2]})
  BY <1>1, WFMin
<1>3. \A m \in S : ~(m < n)
  BY <1>2
<1>4. \A m \in S : n <= m
  BY <1>3
<1> QED BY <1>4

\* The keys of a list are finitely many.
LEMMA KeysAreFew ==
  ASSUME NEW items \in Seq(Items)
  PROVE  IsFiniteSet(KeysOf(items)) /\ Cardinality(KeysOf(items)) \in Nat
<1> DEFINE f == [i \in DOMAIN items |-> items[i].key]
<1>1. DOMAIN items = 1..Len(items) /\ Len(items) \in Nat
  OBVIOUS
<1>2. IsFiniteSet(DOMAIN items)
  BY <1>1, FS_Interval
<1>3. f \in Surjection(DOMAIN items, KeysOf(items))
  BY DEF Surjection, KeysOf
<1> HIDE DEF f
<1>4. IsFiniteSet(KeysOf(items))
  BY <1>2, <1>3, FS_Surjection
<1> QED BY <1>4, FS_CardinalityType

\* _slug finds a key that is not taken.
LEMMA SlugIs ==
  ASSUME NEW base, NEW taken, IsFiniteSet(taken)
  PROVE  \E n \in Nat \ {0} : Slug(base, taken) = Key(base, n) /\ Slug(base, taken) \notin taken
<1> DEFINE C == Cardinality(taken)
           free == {n \in 1..(C + 1) : Key(base, n) \notin taken}
<1>1. C \in Nat
  BY FS_CardinalityType
<1> HIDE DEF C
<1>2. free # {}
  <2> SUFFICES ASSUME \A n \in 1..(C + 1) : Key(base, n) \in taken PROVE FALSE
    OBVIOUS
  <2> DEFINE f == [n \in 1..(C + 1) |-> Key(base, n)]
  <2>1. f \in [1..(C + 1) -> taken]
    OBVIOUS
  <2>2. \A m, n \in 1..(C + 1) : f[m] = f[n] => m = n
    BY DEF Key
  <2>3. f \in Injection(1..(C + 1), taken)
    BY <2>1, <2>2 DEF Injection, IsInjective
  <2> HIDE DEF f
  <2>4. Cardinality(1..(C + 1)) <= C
    BY <2>3, FS_Injection DEF C
  <2>5. Cardinality(1..(C + 1)) = C + 1
    BY <1>1, FS_Interval
  <2> QED BY <1>1, <2>4, <2>5
<1>3. free \in SUBSET Nat
  BY <1>1
<1>4. \E n \in free : \A m \in free : n <= m
  BY <1>2, <1>3, LeastIs
<1>5. PICK n : n = CHOOSE k \in free : \A m \in free : k <= m
  OBVIOUS
<1>6. n \in free
  BY <1>4, <1>5
<1>7. Slug(base, taken) = Key(base, n)
  BY <1>5 DEF Slug, C
<1> QED BY <1>1, <1>6, <1>7

\* The n-th element of a finite set of numbers.
LEMMA PlaceIs ==
  ASSUME NEW K \in SUBSET Nat, IsFiniteSet(K), NEW n \in 1..Cardinality(K)
  PROVE  \E i \in K : Cardinality({j \in K : j <= i}) = n
<1> DEFINE Upto(i) == {j \in K : j <= i}
           Bad == {m \in 1..Cardinality(K) : ~\E i \in K : Cardinality(Upto(i)) = m}
<1>1. Cardinality(K) \in Nat
  BY FS_CardinalityType
<1>2. \A i : IsFiniteSet(Upto(i)) /\ Cardinality(Upto(i)) \in Nat
  BY FS_Subset, FS_CardinalityType
<1> SUFFICES ASSUME Bad # {} PROVE FALSE
  OBVIOUS
<1>a. \A i \in K : i \in Nat
  OBVIOUS
<1>b. Bad \in SUBSET Nat
  BY <1>1
<1>3. PICK m \in Bad : \A k \in Bad : m <= k
  <2> HIDE DEF Bad
  <2> QED BY <1>b, LeastIs
<1>4. m \in 1..Cardinality(K) /\ ~\E i \in K : Cardinality(Upto(i)) = m
  BY <1>3
<1>5. \E L \in SUBSET K : /\ Cardinality(L) = m - 1 /\ IsFiniteSet(L)
                          /\ \A i \in K \ L : L \subseteq Upto(i)
                          /\ \A i \in L : Upto(i) \subseteq L
  <2>1. CASE m = 1
    <3>1. Cardinality({}) = 0 /\ IsFiniteSet({})
      BY FS_EmptySet
    <3> QED BY <2>1, <3>1
  <2>2. CASE m # 1
    <3>1. m - 1 \in 1..Cardinality(K) /\ ~(m <= m - 1)
      BY <1>1, <1>4, <2>2
    <3>2. PICK i \in K : Cardinality(Upto(i)) = m - 1
      BY <1>3, <3>1
    <3>3. \A k \in K \ Upto(i) : Upto(i) \subseteq Upto(k)
      <4> SUFFICES ASSUME NEW k \in K, ~(k <= i), NEW j \in K, j <= i PROVE j <= k
        OBVIOUS
      <4>1. i \in Nat /\ j \in Nat /\ k \in Nat
        BY <1>a
      <4> QED BY <4>1
    <3>4. \A k \in Upto(i) : Upto(k) \subseteq Upto(i)
      <4> SUFFICES ASSUME NEW k \in K, k <= i, NEW j \in K, j <= k PROVE j <= i
        OBVIOUS
      <4>1. i \in Nat /\ j \in Nat /\ k \in Nat
        BY <1>a
      <4> QED BY <4>1
    <3> QED BY <1>2, <3>2, <3>3, <3>4
  <2> QED BY <2>1, <2>2
<1>6. PICK L \in SUBSET K : /\ Cardinality(L) = m - 1 /\ IsFiniteSet(L)
                            /\ \A i \in K \ L : L \subseteq Upto(i)
                            /\ \A i \in L : Upto(i) \subseteq L
  BY <1>5
<1>7. K \ L # {}
  <2> SUFFICES ASSUME K = L PROVE FALSE
    OBVIOUS
  <2>1. Cardinality(K) = m - 1
    BY <1>6
  <2> QED BY <1>1, <1>4, <2>1
<1>8. PICK i \in K \ L : \A k \in K \ L : i <= k
  BY <1>7, LeastIs
<1>9. Upto(i) = L \cup {i}
  <2>1. L \cup {i} \subseteq Upto(i)
    BY <1>a, <1>6
  <2>2. \A k \in Upto(i) : k \notin L => k = i
    BY <1>a, <1>8
  <2> QED BY <2>1, <2>2
<1>10. Cardinality(L \cup {i}) = Cardinality(L) + 1
  BY <1>6, FS_AddElement
<1>11. Cardinality(Upto(i)) = (m - 1) + 1
  BY <1>6, <1>9, <1>10
<1>12. (m - 1) + 1 = m
  BY <1>1, <1>4
<1> QED BY <1>4, <1>11, <1>12, Zenon

\* A list whose items were taken from another one, each once, is as good.
LEMMA TakenFrom ==
  ASSUME NEW O, NEW N, NEW items, ListOK(items, O, N), NEW t \in Seq(Items),
         NEW f \in [DOMAIN t -> DOMAIN items],
         \A i, j \in DOMAIN t : f[i] = f[j] => i = j,
         \A i \in DOMAIN t : t[i].key = items[f[i]].key /\ t[i].by = items[f[i]].by
  PROVE  ListOK(t, O, N) /\ Old(t, items)
<1>1. \A i \in DOMAIN t : f[i] \in DOMAIN items /\ ItemOK(items[f[i]], N)
  BY DEF ListOK
<1>2. DOMAIN t = 1..Len(t) /\ \A i \in DOMAIN t : t[i] \in Items
  BY ElementOfSeq
<1>3. \A i \in DOMAIN t : ItemOK(t[i], N)
  BY <1>1, <1>2 DEF ItemOK
<1>4. Distinct(t, O)
  BY <1>1 DEF ListOK, Distinct
<1> QED BY <1>1, <1>3, <1>4 DEF ListOK, Old

\* tuple(item for item in ... if item.key != key).
LEMMA WithoutIs ==
  ASSUME NEW O, NEW N, NEW items, ListOK(items, O, N), NEW key
  PROVE  ListOK(Without(items, key), O, N) /\ Old(Without(items, key), items)
<1> DEFINE K == {i \in DOMAIN items : items[i].key # key}
           C == Cardinality(K)
           place(n) == CHOOSE i \in K : Cardinality({j \in K : j <= i}) = n
           f == [n \in 1..C |-> place(n)]
           t == [n \in 1..C |-> items[f[n]]]
<1>1. items \in Seq(Items) /\ DOMAIN items = 1..Len(items) /\ Len(items) \in Nat
  BY DEF ListOK
<1>2. K \in SUBSET Nat /\ IsFiniteSet(K)
  <2>1. K \subseteq 1..Len(items) /\ IsFiniteSet(1..Len(items))
    BY <1>1, FS_Interval
  <2>2. IsFiniteSet(K)
    <3> HIDE DEF K
    <3> QED BY <2>1, FS_Subset
  <2> QED BY <1>1, <2>1, <2>2
<1>3. C \in Nat
  BY <1>2, FS_CardinalityType
<1>4. \A n \in 1..C : f[n] \in K /\ Cardinality({j \in K : j <= f[n]}) = n
  BY <1>2, PlaceIs
<1>5. Without(items, key) = t
  BY DEF Without
<1> HIDE DEF f, C
<1>6. \A n \in 1..C : f[n] \in DOMAIN items /\ items[f[n]] \in Items
  BY <1>1, <1>4, ElementOfSeq
<1>7. t \in Seq(Items) /\ DOMAIN t = 1..C
  BY <1>3, <1>6
<1>8. \A m, n \in 1..C : f[m] = f[n] => m = n
  BY <1>4
<1>9. f \in [DOMAIN t -> DOMAIN items]
  BY <1>6, <1>7 DEF f
<1>10. \A n \in DOMAIN t : t[n] = items[f[n]]
  BY <1>7
<1>11. \A n \in DOMAIN t : t[n].key = items[f[n]].key /\ t[n].by = items[f[n]].by
  BY <1>10
<1>12. \A m, n \in DOMAIN t : f[m] = f[n] => m = n
  BY <1>7, <1>8
<1> HIDE DEF t, K
<1>13. ListOK(t, O, N) /\ Old(t, items)
  BY <1>7, <1>9, <1>11, <1>12, TakenFrom
<1> QED BY <1>5, <1>13

\* _move_item swaps two of them.
LEMMA MoveItemIs ==
  ASSUME NEW O, NEW N, NEW items, ListOK(items, O, N), NEW key, NEW up \in BOOLEAN
  PROVE  ListOK(MoveItem(items, key, up), O, N) /\ Old(MoveItem(items, key, up), items)
<1> DEFINE at == {i \in DOMAIN items : items[i].key = key}
<1>1. items \in Seq(Items) /\ DOMAIN items = 1..Len(items) /\ Len(items) \in Nat
  BY DEF ListOK
<1>2. PICK i : i = CHOOSE j \in at : TRUE
  OBVIOUS
<1>3. PICK k : k = IF up THEN i - 1 ELSE i + 1
  OBVIOUS
<1>4. MoveItem(items, key, up) = IF at # {} /\ k \in DOMAIN items
                                   THEN [items EXCEPT ![i] = items[k], ![k] = items[i]]
                                   ELSE items
  BY <1>2, <1>3 DEF MoveItem
<1>5. CASE at # {} /\ k \in DOMAIN items
  <2>1. i \in DOMAIN items
    BY <1>2, <1>5
  <2>2. PICK t : t = [items EXCEPT ![i] = items[k], ![k] = items[i]]
    OBVIOUS
  <2> DEFINE f == [n \in DOMAIN items |-> IF n = k THEN i ELSE IF n = i THEN k ELSE n]
  <2>3. DOMAIN t = DOMAIN items /\ \A n \in DOMAIN items : t[n] = items[f[n]]
    BY <1>5, <2>1, <2>2
  <2>4. \A n \in DOMAIN items : items[n] \in Items
    BY <1>1, ElementOfSeq
  <2>5. f \in [DOMAIN items -> DOMAIN items]
    BY <1>5, <2>1
  <2>6. \A m, n \in DOMAIN items : f[m] = f[n] => m = n
    OBVIOUS
  <2>a. t = [n \in 1..Len(items) |-> t[n]]
    BY <1>1, <2>2
  <2> HIDE DEF f
  <2>7. t \in Seq(Items)
    BY <1>1, <2>3, <2>4, <2>5, <2>a
  <2>8. ListOK(t, O, N) /\ Old(t, items)
    BY <2>3, <2>5, <2>6, <2>7, TakenFrom
  <2> QED BY <1>4, <1>5, <2>2, <2>8
<1>6. CASE ~(at # {} /\ k \in DOMAIN items)
  BY <1>4, <1>6 DEF Old
<1> QED BY <1>5, <1>6

\* An item is added at the end.
LEMMA AppendIs ==
  ASSUME NEW O, NEW N, NEW items, ListOK(items, O, N), NEW x, ItemOK(x, N),
         x.key \notin KeysOf(items),
         x.by \in O \cup {NoEvent} \/ \A i \in DOMAIN items : items[i].by # x.by
  PROVE  /\ ListOK(Append(items, x), O, N)
         /\ \A i \in DOMAIN Append(items, x) : \/ Append(items, x)[i] = x
                                               \/ \E j \in DOMAIN items : Append(items, x)[i] = items[j]
<1> DEFINE t == Append(items, x)
<1>1. items \in Seq(Items) /\ DOMAIN items = 1..Len(items) /\ Len(items) \in Nat /\ x \in Items
  BY DEF ListOK, ItemOK
<1>2. /\ t \in Seq(Items) /\ Len(t) = Len(items) + 1 /\ t[Len(items) + 1] = x
      /\ \A i \in 1..Len(items) : t[i] = items[i]
  BY <1>1, AppendProperties
<1> HIDE DEF t
<1>3. DOMAIN t = 1..(Len(items) + 1)
  BY <1>2
<1>4. \A i \in DOMAIN t : (i \in DOMAIN items /\ t[i] = items[i]) \/ (i = Len(items) + 1 /\ t[i] = x)
  BY <1>1, <1>2, <1>3
<1>5. \A i \in DOMAIN t : ItemOK(t[i], N)
  BY <1>4 DEF ListOK
<1>6. \A i \in DOMAIN items : items[i].key # x.key
  BY DEF KeysOf
<1>7. Distinct(t, O)
  BY <1>4, <1>6 DEF ListOK, Distinct
<1>8. \A i \in DOMAIN t : t[i] = x \/ \E j \in DOMAIN items : t[i] = items[j]
  BY <1>4
<1> QED BY <1>2, <1>5, <1>7, <1>8 DEF ListOK, t

-----------------------------------------------------------------------------
(* Definitions, sessions and plans.                                        *)

\* A definition or a session is there.
LEMMA KeepIsNone ==
  /\ \A a, b, c : [name |-> a, services |-> b, fields |-> c] # Keep
  /\ \A d, O, N : DefOK(d, O, N) => d # Keep
  /\ \A s, N : SessOK(s, N) => s # Keep
<1>1. DOMAIN Keep = {"keep"}
  BY DEF Keep
<1>2. \A a, b, c : DOMAIN [name |-> a, services |-> b, fields |-> c] # {"keep"}
  OBVIOUS
<1>3. \A a, b, c, d, e, f, g : DOMAIN [flow |-> a, step |-> b, key |-> c, label |-> d, type |-> e,
                                       choices |-> f, last |-> g] # {"keep"}
  OBVIOUS
<1>4. \A a, b, c : [name |-> a, services |-> b, fields |-> c] # Keep
  BY <1>1, <1>2
<1>5. \A d, O, N : DefOK(d, O, N) => d # Keep
  BY <1>4 DEF DefOK
<1>6. ASSUME NEW s, NEW N, SessOK(s, N), s = Keep PROVE FALSE
  <2>1. s = [flow |-> s.flow, step |-> s.step, key |-> s.key, label |-> s.label, type |-> s.type,
             choices |-> s.choices, last |-> s.last]
    BY <1>6 DEF SessOK
  <2>2. DOMAIN s # {"keep"}
    BY <1>3, <2>1
  <2> QED BY <1>1, <1>6, <2>2
<1> QED BY <1>4, <1>5, <1>6

\* Part of a definition is replaced.
LEMMA Replaced ==
  ASSUME NEW O, NEW N, NEW d, DefOK(d, O, N), NEW t, ListOK(t, O, N)
  PROVE  /\ \A u : u = [d EXCEPT !.services = t] =>
              DefOK(u, O, N) /\ u.services = t /\ u.fields = d.fields
         /\ \A u : u = [d EXCEPT !.fields = t] =>
              DefOK(u, O, N) /\ u.services = d.services /\ u.fields = t
         /\ \A u : u = [d EXCEPT !.name = TRUE] =>
              DefOK(u, O, N) /\ u.services = d.services /\ u.fields = d.fields
<1>1. d = [name |-> d.name, services |-> d.services, fields |-> d.fields]
  BY DEF DefOK
<1>2. ASSUME NEW u, u = [d EXCEPT !.services = t]
      PROVE  DefOK(u, O, N) /\ u.services = t /\ u.fields = d.fields
  <2>1. u = [name |-> d.name, services |-> t, fields |-> d.fields]
    BY <1>1, <1>2
  <2> QED BY <2>1 DEF DefOK
<1>3. ASSUME NEW u, u = [d EXCEPT !.fields = t]
      PROVE  DefOK(u, O, N) /\ u.services = d.services /\ u.fields = t
  <2>1. u = [name |-> d.name, services |-> d.services, fields |-> t]
    BY <1>1, <1>3
  <2> QED BY <2>1 DEF DefOK
<1>4. ASSUME NEW u, u = [d EXCEPT !.name = TRUE]
      PROVE  DefOK(u, O, N) /\ u.services = d.services /\ u.fields = d.fields
  <2>1. u = [name |-> TRUE, services |-> d.services, fields |-> d.fields]
    BY <1>1, <1>4
  <2> QED BY <2>1 DEF DefOK
<1> QED BY <1>2, <1>3, <1>4

\* Nothing of it is new.
OldDef(u, d) == Old(u.services, d.services) /\ Old(u.fields, d.fields)

\* And so it is as safe.
LEMMA OldIsSafe ==
  ASSUME NEW s, NEW e, NEW d, SafeIn(s, e, d), NEW u, OldDef(u, d)
  PROVE  SafeIn(s, e, u)
  BY DEF SafeIn, OldDef, Old

\* A definition has nothing that it has not.
LEMMA OldItself == \A t, d : Old(t, t) /\ OldDef(d, d)
  BY DEF Old, OldDef

\* What a plan made from s and d for the event e is like.
Fits(s, e, d, p, O, N) ==
  /\ PlanOK(e, p, O, N) /\ PlanFits(s, e, p, O)
  /\ p.draft # Keep => /\ Comes(p.draft.services, d.services, Id(e))
                       /\ Comes(p.draft.fields, d.fields, Id(e))

\* A session that may be put for the event e.
LastOK(e, s, N) == SessOK(s, N) /\ (e.kind = "required" => s.flow = "none")

\* Without a session no flow is open.
LEMMA NoSessionIs == \A e : \A N \in Nat : LastOK(e, NoSession, N) /\ NoSession.flow = "none"
  BY DEF NoSession, LastOK, SessOK, NoEvent

\* A flow that has just been opened.
LEMMA FlowIs ==
  ASSUME NEW e, e.kind # "required", NEW N \in Nat, NEW flow, NEW step
  PROVE  /\ LastOK(e, Flow(flow, step), N)
         /\ Flow(flow, step) = [flow |-> flow, step |-> step, key |-> NoArg, label |-> NoLabel,
                                type |-> "none", choices |-> FALSE, last |-> NoEvent]
<1>1. Flow(flow, step) = [flow |-> flow, step |-> step, key |-> NoArg, label |-> NoLabel,
                          type |-> "none", choices |-> FALSE, last |-> NoEvent]
  <2>1. PICK s : s = NoSession
    OBVIOUS
  <2>2. PICK none : none = "none"
    OBVIOUS
  <2>3. s = [flow |-> none, step |-> none, key |-> NoArg, label |-> NoLabel,
             type |-> none, choices |-> FALSE, last |-> NoEvent]
    BY <2>1, <2>2 DEF NoSession
  <2>4. PICK r : r = [s EXCEPT !.flow = flow]
    OBVIOUS
  <2>5. r = [flow |-> flow, step |-> none, key |-> NoArg, label |-> NoLabel,
             type |-> none, choices |-> FALSE, last |-> NoEvent]
    BY <2>3, <2>4
  <2>6. PICK t : t = [r EXCEPT !.step = step]
    OBVIOUS
  <2>7. t = [flow |-> flow, step |-> step, key |-> NoArg, label |-> NoLabel,
             type |-> none, choices |-> FALSE, last |-> NoEvent]
    BY <2>5, <2>6
  <2>8. Flow(flow, step) = t
    BY <2>1, <2>4, <2>6 DEF Flow
  <2> QED BY <2>2, <2>7, <2>8, Zenon
<1> QED BY <1>1 DEF LastOK, SessOK, NoEvent

\* Plans of one or two writes, and the list that follows.
LEMMA PlanIs ==
  ASSUME NEW O, NEW N, NEW s, NEW e, NEW d, NEW first, NEW draft, NEW last, NEW raises \in BOOLEAN,
         NEW view,
         first = Keep \/ (SessOK(first, N) /\ first.flow # "none"),
         e.kind = "required" /\ first # Keep => s.flow = "field_add" /\ s.key = NoArg,
         last = Keep \/ LastOK(e, last, N),
         raises => draft = Keep,
         e.kind = "required" => first = Keep \/ raises,
         draft # Keep => /\ DefOK(draft, O, N)
                         /\ Comes(draft.services, d.services, Id(e))
                         /\ Comes(draft.fields, d.fields, Id(e)),
         draft # Keep /\ first = Keep /\ Id(e) \notin O => SafeIn(s, e, draft),
         NEW p, p = [first |-> first, raises |-> raises, draft |-> draft, last |-> last, view |-> view]
  PROVE  Fits(s, e, d, p, O, N)
<1>1. /\ p.first = first /\ p.raises = raises /\ p.draft = draft /\ p.last = last
      /\ p = [first |-> p.first, raises |-> p.raises, draft |-> p.draft, last |-> p.last,
              view |-> p.view]
  OBVIOUS
<1>2. PlanOK(e, p, O, N)
  BY <1>1 DEF PlanOK, LastOK
<1>3. PlanFits(s, e, p, O)
  BY <1>1 DEF PlanFits
<1> QED BY <1>1, <1>2, <1>3 DEF Fits

\* A list is shown at the end.
LEMMA ViewIs ==
  ASSUME NEW O, NEW N, NEW s, NEW e, NEW d, NEW p, Fits(s, e, d, p, O, N)
  PROVE  Fits(s, e, d, ThenView(p), O, N)
<1>1. p = [first |-> p.first, raises |-> p.raises, draft |-> p.draft, last |-> p.last,
           view |-> p.view]
  BY DEF Fits, PlanOK
<1>2. PICK q : q = ThenView(p)
  OBVIOUS
<1>3. q = [first |-> p.first, raises |-> p.raises, draft |-> p.draft, last |-> p.last, view |-> TRUE]
  BY <1>1, <1>2 DEF ThenView
<1>4. /\ q.first = p.first /\ q.raises = p.raises /\ q.draft = p.draft /\ q.last = p.last
      /\ q = [first |-> q.first, raises |-> q.raises, draft |-> q.draft, last |-> q.last,
              view |-> q.view]
  BY <1>3
<1>5. Fits(s, e, d, q, O, N)
  BY <1>4 DEF Fits, PlanOK, PlanFits
<1> QED BY <1>2, <1>5

\* Nothing is to be done.
LEMMA NothingIs ==
  ASSUME NEW O, NEW N, NEW s, NEW e, NEW d
  PROVE  Fits(s, e, d, Nothing, O, N) /\ Nothing.first = Keep /\ Nothing.draft = Keep
         /\ Nothing.last = Keep
<1>1. Nothing = [first |-> Keep, raises |-> FALSE, draft |-> Keep, last |-> Keep, view |-> FALSE]
  BY DEF Nothing, Plan
<1> QED BY <1>1, PlanIs

\* Only the session is put.
LEMMA SetIs ==
  ASSUME NEW O, NEW N, NEW s, NEW e, NEW d, NEW x, LastOK(e, x, N)
  PROVE  Fits(s, e, d, Set(x), O, N)
<1>1. Set(x) = [first |-> Keep, raises |-> FALSE, draft |-> Keep, last |-> x, view |-> FALSE]
  BY DEF Set, Plan
<1> QED BY <1>1, PlanIs

\* The draft is replaced by one that has nothing new.
LEMMA EditIs ==
  ASSUME NEW O, NEW N, NEW s, NEW e, NEW d, Id(e) \in O \/ SafeIn(s, e, d),
         NEW u, DefOK(u, O, N), OldDef(u, d), NEW last, last = Keep \/ LastOK(e, last, N)
  PROVE  Fits(s, e, d, Plan(Keep, u, last), O, N)
<1>1. Plan(Keep, u, last) =
        [first |-> Keep, raises |-> FALSE, draft |-> u, last |-> last, view |-> FALSE]
  BY DEF Plan
<1>2. Comes(u.services, d.services, Id(e)) /\ Comes(u.fields, d.fields, Id(e))
  BY DEF OldDef, Old, Comes
<1>3. Id(e) \in O \/ SafeIn(s, e, u)
  BY OldIsSafe
<1> QED BY <1>1, <1>2, <1>3, PlanIs

-----------------------------------------------------------------------------
(* What the handlers plan.                                                 *)

\* What is known when an event is handled: if it was not overtaken, nothing of
\* it circulates that the session does not show.
Ready(c, s, e, d, O, N) ==
  /\ N \in Nat /\ EventOK(c, e, N) /\ SessOK(s, N) /\ DefOK(d, O, N)
  /\ Id(e) \in O \/ SafeIn(s, e, d)
  /\ e.kind = TextKind => s.last # Id(e)

\* Buttons that take items away or change their order.
LEMMA EditsAre ==
  ASSUME NEW O, NEW N, NEW c, NEW s, NEW e, NEW d, Ready(c, s, e, d, O, N), NEW key,
         NEW up \in BOOLEAN
  PROVE  /\ Fits(s, e, d, DeleteService(d, key), O, N) /\ Fits(s, e, d, MoveService(d, key, up), O, N)
         /\ Fits(s, e, d, DeleteField(d, key), O, N) /\ Fits(s, e, d, MoveField(d, key, up), O, N)
         /\ Fits(s, e, d, Retouch(d), O, N) /\ Fits(s, e, d, EvidenceToggle(d), O, N)
<1>1. /\ DefOK(d, O, N) /\ ListOK(d.services, O, N) /\ ListOK(d.fields, O, N)
      /\ Id(e) \in O \/ SafeIn(s, e, d)
  BY DEF Ready, DefOK
<1>2. ASSUME NEW u, DefOK(u, O, N), OldDef(u, d)
      PROVE  Fits(s, e, d, Replace(u), O, N) /\ Fits(s, e, d, ThenView(Replace(u)), O, N)
  <2>1. Fits(s, e, d, Replace(u), O, N)
    BY <1>1, <1>2, EditIs DEF Replace
  <2> QED BY <2>1, ViewIs
<1>3. ASSUME NEW t, ListOK(t, O, N), Old(t, d.services)
      PROVE  Fits(s, e, d, ThenView(Replace([d EXCEPT !.services = t])), O, N)
  <2>1. PICK u : u = [d EXCEPT !.services = t]
    OBVIOUS
  <2>2. DefOK(u, O, N) /\ OldDef(u, d)
    BY <1>1, <1>3, <2>1, Replaced, OldItself DEF OldDef
  <2> QED BY <1>2, <2>1, <2>2
<1>4. ASSUME NEW t, ListOK(t, O, N), Old(t, d.fields)
      PROVE  Fits(s, e, d, ThenView(Replace([d EXCEPT !.fields = t])), O, N)
  <2>1. PICK u : u = [d EXCEPT !.fields = t]
    OBVIOUS
  <2>2. DefOK(u, O, N) /\ OldDef(u, d)
    BY <1>1, <1>4, <2>1, Replaced, OldItself DEF OldDef
  <2> QED BY <1>2, <2>1, <2>2
<1>5. Fits(s, e, d, DeleteService(d, key), O, N)
  BY <1>1, <1>3, WithoutIs DEF DeleteService
<1>6. Fits(s, e, d, DeleteField(d, key), O, N)
  BY <1>1, <1>4, WithoutIs DEF DeleteField
<1>7. Fits(s, e, d, MoveService(d, key, up), O, N)
  BY <1>1, <1>3, MoveItemIs DEF MoveService
<1>8. Fits(s, e, d, MoveField(d, key, up), O, N)
  BY <1>1, <1>4, MoveItemIs DEF MoveField
<1>9. Fits(s, e, d, Retouch(d), O, N) /\ Fits(s, e, d, EvidenceToggle(d), O, N)
  BY <1>1, <1>2, OldItself DEF Retouch, EvidenceToggle
<1> QED BY <1>5, <1>6, <1>7, <1>8, <1>9

\* The name, the greeting, the support.
LEMMA BrandStepIs ==
  ASSUME NEW O, NEW N, NEW c, NEW s, NEW e, NEW d, Ready(c, s, e, d, O, N), e.kind # "required"
  PROVE  Fits(s, e, d, BrandStep(s, d), O, N)
<1>1. /\ DefOK(d, O, N) /\ ListOK(d.services, O, N) /\ N \in Nat
      /\ Id(e) \in O \/ SafeIn(s, e, d)
  BY DEF Ready, DefOK
<1>2. PICK u : u = [d EXCEPT !.name = TRUE]
  OBVIOUS
<1>3. DefOK(u, O, N) /\ OldDef(u, d)
  BY <1>1, <1>2, Replaced, OldItself DEF OldDef
<1>4. \A flow, step : LastOK(e, Flow(flow, step), N)
  BY <1>1, FlowIs
<1>5. LastOK(e, NoSession, N)
  BY <1>1, NoSessionIs
<1>6. CASE s.step = "name"
  <2>1. BrandStep(s, d) = Plan(Keep, u, Flow("brand", "greeting"))
    BY <1>2, <1>6 DEF BrandStep
  <2> QED BY <1>1, <1>3, <1>4, <2>1, EditIs
<1>7. CASE s.step = "greeting"
  <2>1. BrandStep(s, d) = Plan(Keep, d, Flow("brand", "support"))
    BY <1>7 DEF BrandStep
  <2> QED BY <1>1, <1>4, <2>1, EditIs, OldItself
<1>8. CASE s.step \notin {"name", "greeting"}
  <2>1. BrandStep(s, d) = Plan(Keep, d, NoSession)
    BY <1>8 DEF BrandStep, ReplaceAndClear
  <2> QED BY <1>1, <1>5, <2>1, EditIs, OldItself
<1> QED BY <1>6, <1>7, <1>8

\* The item that an event adds.
LEMMA NewItemIs ==
  ASSUME NEW N \in Nat, NEW c \in Channels, NEW e, EventOK(c, e, N), NEW key, KeyOK(key),
         NEW type \in {"service", "address", "enum", "text"}
  PROVE  /\ ItemOK(Item(key, type, Id(e)), N)
         /\ Item(key, type, Id(e)).key = key /\ Item(key, type, Id(e)).by = Id(e)
<1>1. Id(e) = [channel |-> c, n |-> e.n] /\ e.n \in 1..N
  BY DEF EventOK, Id
<1>2. PICK x : x = Item(key, type, Id(e))
  OBVIOUS
<1>3. x = [key |-> key, type |-> type, prompt |-> NoLabel, by |-> [channel |-> c, n |-> e.n]]
  BY <1>1, <1>2 DEF Item
<1>4. x \in Items /\ x.by \in [channel : Channels, n : 1..N]
  BY <1>1, <1>3 DEF Items, KeyOK, Bases
<1> QED BY <1>1, <1>2, <1>3, <1>4 DEF ItemOK

\* The key made from a label.
LEMMA KeyOfLabel ==
  ASSUME NEW O, NEW N, NEW items, ListOK(items, O, N), NEW label \in Labels
  PROVE  KeyOK(Slug(Base[label], KeysOf(items))) /\ Slug(Base[label], KeysOf(items)) \notin KeysOf(items)
<1>1. IsFiniteSet(KeysOf(items))
  BY KeysAreFew DEF ListOK
<1>2. PICK n \in Nat \ {0} : /\ Slug(Base[label], KeysOf(items)) = Key(Base[label], n)
                             /\ Slug(Base[label], KeysOf(items)) \notin KeysOf(items)
  BY <1>1, SlugIs
<1> QED BY <1>2 DEF KeyOK, Key, Bases

\* A key that is none is not a key of an item.
LEMMA NoArgIs == ~KeyOK(NoArg)
  BY DEF KeyOK, NoArg, Key

\* With one more.
Appended(items, x) == Append(items, x)

\* An event adds its item, once.
LEMMA AddedIs ==
  ASSUME NEW O, NEW N, NEW items, ListOK(items, O, N), NEW x, ItemOK(x, N),
         x.key \notin KeysOf(items),
         x.by \in O \/ \A i \in DOMAIN items : items[i].by # x.by,
         NEW t, t = Appended(items, x)
  PROVE  /\ ListOK(t, O, N) /\ Comes(t, items, x.by)
         /\ x.by \in O \/ \A i \in DOMAIN t : t[i].by = x.by => t[i].key = x.key
<1>1. x.by \in O \cup {NoEvent} \/ \A i \in DOMAIN items : items[i].by # x.by
  OBVIOUS
<1>2. ListOK(t, O, N) /\ \A i \in DOMAIN t : t[i] = x \/ \E j \in DOMAIN items : t[i] = items[j]
  BY <1>1, AppendIs DEF Appended
<1>3. Comes(t, items, x.by)
  BY <1>2 DEF Comes
<1>4. x.by \in O \/ \A i \in DOMAIN t : t[i].by = x.by => t[i].key = x.key
  BY <1>2
<1> QED BY <1>2, <1>3, <1>4

\* A service is added under the key that is kept in the session.
LEMMA AddServiceIs ==
  ASSUME NEW O, NEW N, NEW c \in Channels, NEW s, NEW e, NEW d, Ready(c, s, e, d, O, N),
         e.kind = TextKind, s.flow = "service_add", s.key \notin KeysOf(d.services)
  PROVE  Fits(s, e, d, AddService(s, d, e.arg, Id(e)), O, N)
<1>1. /\ N \in Nat /\ EventOK(c, e, N) /\ SessOK(s, N) /\ DefOK(d, O, N)
      /\ ListOK(d.services, O, N) /\ e.arg \in Labels /\ e.kind # "required"
      /\ s.last # Id(e)
      /\ Id(e) \in O \/ SafeIn(s, e, d)
  BY DEF Ready, DefOK, EventOK, TextKind
<1>2. PICK fresh \in BOOLEAN : fresh = (s.key = NoArg \/ s.label # e.arg)
  OBVIOUS
<1>3. PICK key : key = IF fresh THEN Slug(Base[e.arg], KeysOf(d.services)) ELSE s.key
  OBVIOUS
<1>4. KeyOK(key) /\ key \notin KeysOf(d.services)
  <2>1. CASE fresh
    BY <1>1, <1>3, <2>1, KeyOfLabel
  <2>2. CASE ~fresh
    BY <1>1, <1>2, <1>3, <2>2 DEF SessOK
  <2> QED BY <2>1, <2>2
<1>5. Id(e) \in O \/ \A i \in DOMAIN d.services : d.services[i].by # Id(e)
  BY <1>1 DEF SafeIn, KeysOf
<1>a. PICK type \in {"service", "address", "enum", "text"} : type = "service"
  OBVIOUS
<1>b. PICK x : x = Item(key, type, Id(e))
  OBVIOUS
<1>c. ItemOK(x, N) /\ x.key = key /\ x.by = Id(e)
  BY <1>1, <1>4, <1>b, NewItemIs
<1>6. PICK t : t = Appended(d.services, x)
  OBVIOUS
<1>7. /\ ListOK(t, O, N) /\ Comes(t, d.services, Id(e))
      /\ Id(e) \in O \/ \A i \in DOMAIN t : t[i].by = Id(e) => t[i].key = key
  <2>1. x.key \notin KeysOf(d.services)
    BY <1>4, <1>c
  <2>2. x.by \in O \/ \A i \in DOMAIN d.services : d.services[i].by # x.by
    BY <1>5, <1>c
  <2>3. ListOK(d.services, O, N) /\ ItemOK(x, N)
    BY <1>1, <1>c
  <2>4. /\ ListOK(t, O, N) /\ Comes(t, d.services, x.by)
        /\ x.by \in O \/ \A i \in DOMAIN t : t[i].by = x.by => t[i].key = x.key
    BY <1>6, <2>1, <2>2, <2>3, AddedIs
  <2> QED BY <1>c, <2>4
<1>8. PICK u : u = [d EXCEPT !.services = t]
  OBVIOUS
<1>9. DefOK(u, O, N) /\ u.services = t /\ u.fields = d.fields
  BY <1>1, <1>7, <1>8, Replaced
<1>10. Comes(u.services, d.services, Id(e)) /\ Comes(u.fields, d.fields, Id(e))
  BY <1>7, <1>9 DEF Comes
<1>11. PICK kept : kept = [s EXCEPT !.key = key, !.label = e.arg]
  OBVIOUS
<1>12. SessOK(kept, N) /\ kept.flow # "none"
  <2>1. s = [flow |-> s.flow, step |-> s.step, key |-> s.key, label |-> s.label, type |-> s.type,
             choices |-> s.choices, last |-> s.last]
    BY <1>1 DEF SessOK
  <2>2. kept = [flow |-> s.flow, step |-> s.step, key |-> key, label |-> e.arg, type |-> s.type,
                choices |-> s.choices, last |-> s.last]
    BY <1>11, <2>1
  <2> QED BY <1>1, <1>4, <2>2 DEF SessOK
<1>13. PICK first : first = IF fresh THEN kept ELSE Keep
  OBVIOUS
<1>14. first = Keep \/ (SessOK(first, N) /\ first.flow # "none")
  BY <1>12, <1>13
<1>15. first = Keep /\ Id(e) \notin O => SafeIn(s, e, u)
  <2> SUFFICES ASSUME first = Keep, Id(e) \notin O PROVE SafeIn(s, e, u)
    OBVIOUS
  <2>1. ~fresh
    BY <1>12, <1>13, KeepIsNone
  <2> QED BY <1>1, <1>3, <1>7, <1>9, <2>1 DEF SafeIn
<1>16. PICK p : p = Plan(first, u, NoSession)
  OBVIOUS
<1>17. p = [first |-> first, raises |-> FALSE, draft |-> u, last |-> NoSession, view |-> FALSE]
  BY <1>16 DEF Plan
<1>18. LastOK(e, NoSession, N)
  BY <1>1, NoSessionIs
<1>19. Fits(s, e, d, p, O, N)
  BY <1>1, <1>9, <1>10, <1>14, <1>15, <1>17, <1>18, PlanIs
<1>20. AddService(s, d, e.arg, Id(e)) = ThenView(p)
  BY <1>2, <1>3, <1>6, <1>8, <1>11, <1>13, <1>16, <1>a, <1>b DEF AddService, Appended
<1> QED BY <1>19, <1>20, ViewIs

\* A service that is there already is not added again.
LEMMA ServiceSaveIs ==
  ASSUME NEW O, NEW N, NEW c \in Channels, NEW s, NEW e, NEW d, Ready(c, s, e, d, O, N),
         e.kind = TextKind, s.flow = "service_add"
  PROVE  Fits(s, e, d, ServiceSave(s, d, e.arg, Id(e)), O, N)
<1>1. CASE s.key \in KeysOf(d.services)
  <2>1. LastOK(e, NoSession, N)
    BY NoSessionIs DEF Ready
  <2>2. Fits(s, e, d, ThenView(Set(NoSession)), O, N)
    BY <2>1, SetIs, ViewIs
  <2> QED BY <1>1, <2>2 DEF ServiceSave
<1>2. CASE s.key \notin KeysOf(d.services)
  BY <1>2, AddServiceIs DEF ServiceSave
<1> QED BY <1>1, <1>2

\* Steps of a field that only change the session.
LEMMA FieldStepsAre ==
  ASSUME NEW O, NEW N \in Nat, NEW s, SessOK(s, N), NEW e, e.kind # "required", NEW d, NEW read
  PROVE  /\ \A type \in {"address", "enum", "text"} : Fits(s, e, d, FieldType(s, read, type), O, N)
         /\ s.flow = "field_add" => Fits(s, e, d, FieldChoices(s), O, N)
         /\ \A key : Fits(s, e, d, FieldPrompt(read, key), O, N)
<1>1. s = [flow |-> s.flow, step |-> s.step, key |-> s.key, label |-> s.label, type |-> s.type,
           choices |-> s.choices, last |-> s.last]
  BY DEF SessOK
<1>2. Fits(s, e, d, ThenView(Nothing), O, N)
  BY NothingIs, ViewIs
<1>3. ASSUME NEW type \in {"address", "enum", "text"}
      PROVE  Fits(s, e, d, FieldType(s, read, type), O, N)
  <2>1. CASE s.flow # "field_add"
    BY <1>2, <2>1 DEF FieldType
  <2>2. CASE s.flow = "field_add"
    <3>1. PICK key : key = IF type = "address" /\ AddressKey \notin KeysOf(read.fields)
                             THEN AddressKey ELSE s.key
      OBVIOUS
    <3>2. PICK step : step = IF type = "enum" THEN "choices" ELSE "required"
      OBVIOUS
    <3>3. PICK x : x = [s EXCEPT !.type = type,
                                 !.key = IF type = "address" /\ AddressKey \notin KeysOf(read.fields)
                                           THEN AddressKey ELSE @,
                                 !.step = IF type = "enum" THEN "choices" ELSE "required"]
      OBVIOUS
    <3>4. x = [flow |-> s.flow, step |-> step, key |-> key, label |-> s.label, type |-> type,
               choices |-> s.choices, last |-> s.last]
      BY <1>1, <3>1, <3>2, <3>3
    <3>5. KeyOK(AddressKey)
      BY DEF KeyOK, AddressKey, Key, Bases
    <3>6. LastOK(e, x, N)
      BY <2>2, <3>1, <3>4, <3>5 DEF LastOK, SessOK
    <3> QED BY <2>2, <3>3, <3>6, SetIs DEF FieldType
  <2> QED BY <2>1, <2>2
<1>4. ASSUME s.flow = "field_add" PROVE Fits(s, e, d, FieldChoices(s), O, N)
  <2>1. PICK x : x = [s EXCEPT !.choices = TRUE, !.step = "required"]
    OBVIOUS
  <2>2. x = [flow |-> s.flow, step |-> "required", key |-> s.key, label |-> s.label, type |-> s.type,
             choices |-> TRUE, last |-> s.last]
    BY <1>1, <2>1
  <2>3. LastOK(e, x, N)
    BY <1>4, <2>2 DEF LastOK, SessOK
  <2> QED BY <2>1, <2>3, SetIs DEF FieldChoices
<1>5. ASSUME NEW key PROVE Fits(s, e, d, FieldPrompt(read, key), O, N)
  <2>1. PICK r : r = Flow("field_prompt", "prompt")
    OBVIOUS
  <2>2. r = [flow |-> "field_prompt", step |-> "prompt", key |-> NoArg, label |-> NoLabel,
             type |-> "none", choices |-> FALSE, last |-> NoEvent]
    BY <2>1, FlowIs
  <2>3. PICK x : x = [r EXCEPT !.key = key]
    OBVIOUS
  <2>4. x = [flow |-> "field_prompt", step |-> "prompt", key |-> key, label |-> NoLabel,
             type |-> "none", choices |-> FALSE, last |-> NoEvent]
    BY <2>2, <2>3
  <2>5. LastOK(e, x, N)
    BY <2>4 DEF LastOK, SessOK, NoEvent
  <2>6. Fits(s, e, d, Set(x), O, N)
    BY <2>5, SetIs
  <2> QED BY <1>2, <2>1, <2>3, <2>6 DEF FieldPrompt
<1> QED BY <1>3, <1>4, <1>5

\* The label gives the key.
LEMMA FieldLabelIs ==
  ASSUME NEW O, NEW N, NEW c, NEW s, NEW e, NEW d, Ready(c, s, e, d, O, N), e.kind = TextKind
  PROVE  Fits(s, e, d, FieldLabel(d, e.arg), O, N)
<1>1. N \in Nat /\ ListOK(d.fields, O, N) /\ e.arg \in Labels /\ e.kind # "required"
  BY DEF Ready, DefOK, EventOK, TextKind
<1>2. PICK key : key = Slug(Base[e.arg], KeysOf(d.fields))
  OBVIOUS
<1>3. KeyOK(key)
  BY <1>1, <1>2, KeyOfLabel
<1>4. PICK r : r = Flow("field_add", "type")
  OBVIOUS
<1>5. r = [flow |-> "field_add", step |-> "type", key |-> NoArg, label |-> NoLabel,
           type |-> "none", choices |-> FALSE, last |-> NoEvent]
  BY <1>1, <1>4, FlowIs
<1>6. PICK x : x = [r EXCEPT !.label = e.arg, !.key = key]
  OBVIOUS
<1>7. x = [flow |-> "field_add", step |-> "type", key |-> key, label |-> e.arg,
           type |-> "none", choices |-> FALSE, last |-> NoEvent]
  BY <1>5, <1>6
<1>8. LastOK(e, x, N)
  BY <1>1, <1>3, <1>7 DEF LastOK, SessOK, NoEvent
<1> QED BY <1>2, <1>4, <1>6, <1>8, SetIs DEF FieldLabel

\* A question is given to the field of the session.
LEMMA FieldPromptSaveIs ==
  ASSUME NEW O, NEW N, NEW c, NEW s, NEW e, NEW d, Ready(c, s, e, d, O, N), e.kind = TextKind
  PROVE  Fits(s, e, d, FieldPromptSave(s, d, e.arg), O, N)
<1>1. /\ N \in Nat /\ DefOK(d, O, N) /\ ListOK(d.fields, O, N) /\ d.fields \in Seq(Items)
      /\ e.arg \in Labels
      /\ Id(e) \in O \/ SafeIn(s, e, d)
  BY DEF Ready, DefOK, ListOK, EventOK, TextKind
<1>2. PICK fields : fields = d.fields
  OBVIOUS
<1>3. PICK t : t = [i \in DOMAIN fields |->
                      IF fields[i].key = s.key THEN [fields[i] EXCEPT !.prompt = e.arg] ELSE fields[i]]
  OBVIOUS
<1>4. DOMAIN fields = 1..Len(fields) /\ Len(fields) \in Nat /\ \A i \in DOMAIN fields : fields[i] \in Items
  BY <1>1, <1>2, ElementOfSeq
<1>5. \A i \in DOMAIN fields : t[i] \in Items /\ t[i].key = fields[i].key /\ t[i].by = fields[i].by
  <2> SUFFICES ASSUME NEW i \in DOMAIN fields
               PROVE  t[i] \in Items /\ t[i].key = fields[i].key /\ t[i].by = fields[i].by
    OBVIOUS
  <2>1. PICK x \in Items : x = fields[i]
    BY <1>4
  <2>2. PICK y : y = [x EXCEPT !.prompt = e.arg]
    OBVIOUS
  <2>3. y \in Items /\ y.key = x.key /\ y.by = x.by
    BY <1>1, <2>2 DEF Items
  <2>4. t[i] = x \/ t[i] = y
    BY <1>3, <2>1, <2>2
  <2> QED BY <2>1, <2>3, <2>4
<1>6. t \in Seq(Items) /\ DOMAIN t = DOMAIN fields
  <2>1. t = [i \in 1..Len(fields) |-> t[i]]
    BY <1>3, <1>4
  <2>2. \A i \in 1..Len(fields) : t[i] \in Items
    BY <1>4, <1>5
  <2> QED BY <1>3, <1>4, <2>1, <2>2
<1>7. PICK f : f = [i \in DOMAIN fields |-> i]
  OBVIOUS
<1>8. f \in [DOMAIN t -> DOMAIN fields] /\ \A i \in DOMAIN t : f[i] = i
  BY <1>6, <1>7
<1>9. ListOK(t, O, N) /\ Old(t, fields)
  <2>1. ListOK(fields, O, N)
    BY <1>1, <1>2
  <2>2. \A i, j \in DOMAIN t : f[i] = f[j] => i = j
    BY <1>8
  <2>3. \A i \in DOMAIN t : t[i].key = fields[f[i]].key /\ t[i].by = fields[f[i]].by
    BY <1>5, <1>6, <1>8
  <2> QED BY <1>6, <1>8, <2>1, <2>2, <2>3, TakenFrom
<1>10. PICK u : u = [d EXCEPT !.fields = t]
  OBVIOUS
<1>11. DefOK(u, O, N) /\ OldDef(u, d)
  BY <1>1, <1>2, <1>9, <1>10, Replaced, OldItself DEF OldDef
<1>12. LastOK(e, NoSession, N)
  BY <1>1, NoSessionIs
<1>13. Fits(s, e, d, ThenView(Set(NoSession)), O, N)
  BY <1>12, SetIs, ViewIs
<1>14. Fits(s, e, d, ThenView(ReplaceAndClear(u)), O, N)
  BY <1>1, <1>11, <1>12, EditIs, ViewIs DEF ReplaceAndClear
<1>15. FieldPromptSave(s, d, e.arg) =
         ThenView(IF t = d.fields THEN Set(NoSession) ELSE ReplaceAndClear(u))
  BY <1>2, <1>3, <1>10 DEF FieldPromptSave
<1> QED BY <1>13, <1>14, <1>15

\* A field with a label and a key is added under it.
LEMMA FieldAddIs ==
  ASSUME NEW O, NEW N, NEW c \in Channels, NEW s, NEW e, NEW d, Ready(c, s, e, d, O, N),
         e.kind = "required", s.flow = "field_add", KeyOK(s.key), s.key \notin KeysOf(d.fields),
         NEW type \in {"service", "address", "enum", "text"},
         NEW u, u = [d EXCEPT !.fields = Append(@, Item(s.key, type, Id(e)))]
  PROVE  Fits(s, e, d, ReplaceAndClear(u), O, N)
<1>1. /\ N \in Nat /\ EventOK(c, e, N) /\ DefOK(d, O, N) /\ ListOK(d.fields, O, N)
      /\ e.kind # TextKind
      /\ Id(e) \in O \/ SafeIn(s, e, d)
  BY DEF Ready, DefOK, TextKind
<1>2. Id(e) \in O \/ \A i \in DOMAIN d.fields : d.fields[i].by # Id(e)
  BY <1>1 DEF SafeIn, KeysOf
<1>3. PICK x : x = Item(s.key, type, Id(e))
  OBVIOUS
<1>4. ItemOK(x, N) /\ x.key = s.key /\ x.by = Id(e)
  BY <1>1, <1>3, NewItemIs
<1>5. PICK t : t = Appended(d.fields, x)
  OBVIOUS
<1>6. /\ ListOK(t, O, N) /\ Comes(t, d.fields, Id(e))
      /\ Id(e) \in O \/ \A i \in DOMAIN t : t[i].by = Id(e) => t[i].key = s.key
  <2>1. x.key \notin KeysOf(d.fields)
    BY <1>4
  <2>2. x.by \in O \/ \A i \in DOMAIN d.fields : d.fields[i].by # x.by
    BY <1>2, <1>4
  <2>3. ListOK(d.fields, O, N) /\ ItemOK(x, N)
    BY <1>1, <1>4
  <2>4. /\ ListOK(t, O, N) /\ Comes(t, d.fields, x.by)
        /\ x.by \in O \/ \A i \in DOMAIN t : t[i].by = x.by => t[i].key = x.key
    BY <1>5, <2>1, <2>2, <2>3, AddedIs
  <2> QED BY <1>4, <2>4
<1>7. u = [d EXCEPT !.fields = t]
  BY <1>3, <1>5 DEF Appended
<1>8. DefOK(u, O, N) /\ u.services = d.services /\ u.fields = t
  <2>1. ListOK(t, O, N) /\ DefOK(d, O, N)
    BY <1>1, <1>6
  <2>2. PICK r : r = [d EXCEPT !.fields = t]
    OBVIOUS
  <2>3. DefOK(r, O, N) /\ r.services = d.services /\ r.fields = t
    BY <2>1, <2>2, Replaced
  <2> QED BY <1>7, <2>2, <2>3, Zenon
<1>9. Comes(u.services, d.services, Id(e)) /\ Comes(u.fields, d.fields, Id(e))
  BY <1>6, <1>8 DEF Comes
<1>10. Id(e) \notin O => SafeIn(s, e, u)
  BY <1>1, <1>6, <1>8 DEF SafeIn
<1>11. LastOK(e, NoSession, N)
  BY <1>1, NoSessionIs
<1>12. PICK p : p = ReplaceAndClear(u)
  OBVIOUS
<1>13. p = [first |-> Keep, raises |-> FALSE, draft |-> u, last |-> NoSession, view |-> FALSE]
  BY <1>12 DEF ReplaceAndClear, Plan
<1>14. Fits(s, e, d, p, O, N)
  BY <1>8, <1>9, <1>10, <1>11, <1>13, PlanIs
<1> QED BY <1>12, <1>14

\* The last answer about a field.
LEMMA FieldRequiredIs ==
  ASSUME NEW O, NEW N, NEW c \in Channels, NEW s, NEW e, NEW d, Ready(c, s, e, d, O, N),
         e.kind = "required"
  PROVE  Fits(s, e, d, FieldRequired(s, d, Id(e)), O, N)
<1>1. N \in Nat /\ SessOK(s, N)
  BY DEF Ready
<1>2. PICK type : type = IF s.type = "none" THEN "text" ELSE s.type
  OBVIOUS
<1>3. PICK key : key = IF s.key = NoArg THEN Slug(Prefix, KeysOf(d.fields)) ELSE s.key
  OBVIOUS
<1>4. PICK kept : kept = [s EXCEPT !.key = key]
  OBVIOUS
<1>5. PICK first : first = IF s.key = NoArg THEN kept ELSE Keep
  OBVIOUS
<1>6. PICK refused \in BOOLEAN : refused = (s.label = NoLabel \/ (type = "enum") # s.choices)
  OBVIOUS
<1>7. PICK u : u = [d EXCEPT !.fields = Append(@, Item(key, type, Id(e)))]
  OBVIOUS
<1>8. FieldRequired(s, d, Id(e)) =
        CASE s.flow # "field_add" -> ThenView(Nothing)
          [] s.flow = "field_add" /\ key \in KeysOf(d.fields) -> ThenView(Set(NoSession))
          [] s.flow = "field_add" /\ key \notin KeysOf(d.fields) /\ refused -> Raises(first)
          [] OTHER -> ThenView(ReplaceAndClear(u))
  BY <1>2, <1>3, <1>4, <1>5, <1>6, <1>7 DEF FieldRequired
<1>9. CASE s.flow # "field_add"
  <2>1. FieldRequired(s, d, Id(e)) = ThenView(Nothing)
    BY <1>8, <1>9
  <2> QED BY <2>1, NothingIs, ViewIs
<1>10. CASE s.flow = "field_add" /\ key \in KeysOf(d.fields)
  <2>1. FieldRequired(s, d, Id(e)) = ThenView(Set(NoSession))
    BY <1>8, <1>10
  <2>2. LastOK(e, NoSession, N)
    BY <1>1, NoSessionIs
  <2> QED BY <2>1, <2>2, SetIs, ViewIs
<1>11. CASE s.flow = "field_add" /\ key \notin KeysOf(d.fields) /\ refused
  <2>1. FieldRequired(s, d, Id(e)) = Raises(first)
    BY <1>8, <1>11
  <2>2. s = [flow |-> s.flow, step |-> s.step, key |-> s.key, label |-> s.label, type |-> s.type,
             choices |-> s.choices, last |-> s.last]
    BY <1>1 DEF SessOK
  <2>3. kept = [flow |-> s.flow, step |-> s.step, key |-> key, label |-> s.label, type |-> s.type,
                choices |-> s.choices, last |-> s.last]
    BY <1>4, <2>2
  <2>4. s.key = NoArg => s.label = NoLabel
    BY <1>1, <1>11, NoArgIs DEF SessOK
  <2>5. s.key = NoArg => SessOK(kept, N) /\ kept.flow # "none"
    BY <1>1, <1>11, <2>3, <2>4 DEF SessOK
  <2>6. PICK p : p = Raises(first)
    OBVIOUS
  <2>7. p = [first |-> first, raises |-> TRUE, draft |-> Keep, last |-> Keep, view |-> FALSE]
    <3>1. PICK q : q = Nothing
      OBVIOUS
    <3>2. q = [first |-> Keep, raises |-> FALSE, draft |-> Keep, last |-> Keep, view |-> FALSE]
      BY <3>1 DEF Nothing, Plan
    <3>3. p = [q EXCEPT !.first = first, !.raises = TRUE]
      BY <2>6, <3>1 DEF Raises
    <3> QED BY <3>2, <3>3
  <2>8. first = Keep \/ (SessOK(first, N) /\ first.flow # "none" /\ s.key = NoArg)
    BY <1>5, <2>5
  <2>9. Fits(s, e, d, p, O, N)
    BY <1>11, <2>7, <2>8, PlanIs
  <2> QED BY <2>1, <2>6, <2>9
<1>12. CASE s.flow = "field_add" /\ key \notin KeysOf(d.fields) /\ ~refused
  <2>1. FieldRequired(s, d, Id(e)) = ThenView(ReplaceAndClear(u))
    BY <1>8, <1>12
  <2>2. KeyOK(s.key) /\ key = s.key
    BY <1>1, <1>3, <1>6, <1>12, NoArgIs DEF SessOK
  <2>3. type \in {"service", "address", "enum", "text"}
    BY <1>1, <1>2 DEF SessOK
  <2>4. Fits(s, e, d, ReplaceAndClear(u), O, N)
    BY <1>7, <1>12, <2>2, <2>3, FieldAddIs
  <2> QED BY <2>1, <2>4, ViewIs
<1> QED BY <1>9, <1>10, <1>11, <1>12

\* What a text means is up to the session.
LEMMA ConsumeIs ==
  ASSUME NEW O, NEW N, NEW c \in Channels, NEW s, NEW e, NEW d, Ready(c, s, e, d, O, N),
         e.kind = TextKind
  PROVE  Fits(s, e, d, Consume(s, d, e), O, N)
<1>1. N \in Nat /\ SessOK(s, N) /\ e.kind # "required"
  BY DEF Ready, TextKind
<1>2. CASE s.flow = "brand"
  <2>1. Consume(s, d, e) = BrandStep(s, d)
    BY <1>2 DEF Consume
  <2> QED BY <1>1, <2>1, BrandStepIs
<1>3. CASE s.flow = "service_add"
  <2>1. Consume(s, d, e) = ServiceSave(s, d, e.arg, Id(e))
    BY <1>3 DEF Consume
  <2> QED BY <1>3, <2>1, ServiceSaveIs
<1>4. CASE s.flow = "field_add" /\ s.step = "label"
  <2>1. Consume(s, d, e) = FieldLabel(d, e.arg)
    BY <1>4 DEF Consume
  <2> QED BY <2>1, FieldLabelIs
<1>5. CASE s.flow = "field_add" /\ s.step = "choices"
  <2>1. Consume(s, d, e) = FieldChoices(s)
    BY <1>5 DEF Consume
  <2> QED BY <1>1, <1>5, <2>1, FieldStepsAre
<1>6. CASE s.flow = "field_prompt"
  <2>1. Consume(s, d, e) = FieldPromptSave(s, d, e.arg)
    BY <1>6 DEF Consume
  <2> QED BY <2>1, FieldPromptSaveIs
<1>7. CASE /\ s.flow \notin {"brand", "service_add", "field_prompt"}
           /\ ~(s.flow = "field_add" /\ s.step \in {"label", "choices"})
  <2>1. Consume(s, d, e) = Nothing
    BY <1>7 DEF Consume
  <2> QED BY <2>1, NothingIs
<1> QED BY <1>2, <1>3, <1>4, <1>5, <1>6, <1>7

\* handle_text and handle_callback, with the draft that was read.
LEMMA PlanOfIs ==
  ASSUME NEW O, NEW N, NEW c \in Channels, NEW s, NEW e, NEW d, Ready(c, s, e, d, O, N),
         e.kind \notin StoreKinds
  PROVE  Fits(s, e, d, PlanOf(s, d, e), O, N)
<1>1. N \in Nat /\ SessOK(s, N) /\ e.kind \in Kinds
  BY DEF Ready, EventOK
<1>2. \A flow, step : e.kind # "required" => Fits(s, e, d, Set(Flow(flow, step)), O, N)
  BY <1>1, FlowIs, SetIs
<1>3. CASE e.kind = TextKind
  <2>1. PlanOf(s, d, e) = Consume(s, d, e)
    BY <1>3 DEF PlanOf, TextKind
  <2> QED BY <1>3, <2>1, ConsumeIs
<1>4. CASE e.kind \in EditKinds
  <2>1. \/ PlanOf(s, d, e) = DeleteService(d, e.arg) \/ PlanOf(s, d, e) = MoveService(d, e.arg, TRUE)
        \/ PlanOf(s, d, e) = MoveService(d, e.arg, FALSE) \/ PlanOf(s, d, e) = DeleteField(d, e.arg)
        \/ PlanOf(s, d, e) = MoveField(d, e.arg, TRUE) \/ PlanOf(s, d, e) = MoveField(d, e.arg, FALSE)
        \/ PlanOf(s, d, e) = Retouch(d) \/ PlanOf(s, d, e) = EvidenceToggle(d)
    BY <1>4 DEF PlanOf, EditKinds, TextKind
  <2>2. \A up \in BOOLEAN : \A key :
          /\ Fits(s, e, d, DeleteService(d, key), O, N) /\ Fits(s, e, d, MoveService(d, key, up), O, N)
          /\ Fits(s, e, d, DeleteField(d, key), O, N) /\ Fits(s, e, d, MoveField(d, key, up), O, N)
          /\ Fits(s, e, d, Retouch(d), O, N) /\ Fits(s, e, d, EvidenceToggle(d), O, N)
    BY EditsAre
  <2> QED BY <2>1, <2>2
<1>5. CASE e.kind = "brand"
  <2>1. PlanOf(s, d, e) = Set(Flow("brand", "name"))
    BY <1>5 DEF PlanOf, TextKind
  <2> QED BY <1>2, <1>5, <2>1
<1>6. CASE e.kind = "service_add"
  <2>1. PlanOf(s, d, e) = Set(Flow("service_add", "label"))
    BY <1>6 DEF PlanOf, TextKind
  <2> QED BY <1>2, <1>6, <2>1
<1>7. CASE e.kind = "field_add"
  <2>1. PlanOf(s, d, e) = Set(Flow("field_add", "label"))
    BY <1>7 DEF PlanOf, TextKind
  <2> QED BY <1>2, <1>7, <2>1
<1>8. CASE e.kind = "field_prompt"
  <2>1. PlanOf(s, d, e) = FieldPrompt(d, e.arg)
    BY <1>8 DEF PlanOf, TextKind
  <2> QED BY <1>1, <1>8, <2>1, FieldStepsAre
<1>9. CASE e.kind = "cancel"
  <2>1. PlanOf(s, d, e) = Set(NoSession)
    BY <1>9 DEF PlanOf, TextKind
  <2>2. LastOK(e, NoSession, N)
    BY <1>1, NoSessionIs
  <2> QED BY <2>1, <2>2, SetIs
<1>10. CASE e.kind \in {"type_address", "type_enum", "type_text"}
  <2>1. \/ PlanOf(s, d, e) = FieldType(s, d, "address") \/ PlanOf(s, d, e) = FieldType(s, d, "enum")
        \/ PlanOf(s, d, e) = FieldType(s, d, "text")
    BY <1>10 DEF PlanOf, TextKind
  <2>2. \A type \in {"address", "enum", "text"} : Fits(s, e, d, FieldType(s, d, type), O, N)
    BY <1>1, <1>10, FieldStepsAre
  <2> QED BY <2>1, <2>2
<1>11. CASE e.kind = "required"
  <2>1. PlanOf(s, d, e) = FieldRequired(s, d, Id(e))
    BY <1>11 DEF PlanOf, TextKind
  <2> QED BY <1>11, <2>1, FieldRequiredIs
<1>12. CASE e.kind = "view"
  <2>1. PlanOf(s, d, e) = Nothing
    BY <1>12 DEF PlanOf, TextKind
  <2> QED BY <2>1, NothingIs
<1> QED BY <1>1, <1>3, <1>4, <1>5, <1>6, <1>7, <1>8, <1>9, <1>10, <1>11, <1>12
    DEF Kinds, FlowKinds

\* And without one, when it has no use for it.
LEMMA PlanWithoutDraft ==
  ASSUME NEW O, NEW N \in Nat, NEW c, NEW s, SessOK(s, N), NEW e, EventOK(c, e, N),
         e.kind \notin StoreKinds, ~NeedsDraft(s, e), NEW d
  PROVE  Fits(s, e, d, PlanOf(s, Keep, e), O, N)
<1>1. CASE e.kind = "cancel"
  <2>1. PlanOf(s, Keep, e) = Set(NoSession)
    BY <1>1 DEF PlanOf, TextKind
  <2>2. LastOK(e, NoSession, N)
    BY NoSessionIs
  <2> QED BY <2>1, <2>2, SetIs
<1>2. CASE e.kind \in {"type_address", "type_enum", "type_text"}
  <2>1. \/ PlanOf(s, Keep, e) = FieldType(s, Keep, "address")
        \/ PlanOf(s, Keep, e) = FieldType(s, Keep, "enum")
        \/ PlanOf(s, Keep, e) = FieldType(s, Keep, "text")
    BY <1>2 DEF PlanOf, TextKind
  <2>2. \A type \in {"address", "enum", "text"} : Fits(s, e, d, FieldType(s, Keep, type), O, N)
    BY <1>2, FieldStepsAre
  <2> QED BY <2>1, <2>2
<1>3. CASE e.kind = "required"
  <2>1. s.flow # "field_add"
    BY <1>3 DEF NeedsDraft, TextKind
  <2>2. PlanOf(s, Keep, e) = FieldRequired(s, Keep, Id(e))
    BY <1>3 DEF PlanOf, TextKind
  <2>3. FieldRequired(s, Keep, Id(e)) = ThenView(Nothing)
    BY <2>1 DEF FieldRequired
  <2> QED BY <2>2, <2>3, NothingIs, ViewIs
<1>4. CASE e.kind = TextKind
  <2>1. s.flow \in {"none", "field_add"} /\ s.step # "label"
    BY <1>4 DEF NeedsDraft, TextKind
  <2>2. PlanOf(s, Keep, e) = Consume(s, Keep, e)
    BY <1>4 DEF PlanOf, TextKind
  <2>3. CASE s.flow = "field_add" /\ s.step = "choices"
    <3>1. Consume(s, Keep, e) = FieldChoices(s)
      BY <2>3 DEF Consume
    <3>2. e.kind # "required"
      BY <1>4 DEF TextKind
    <3> QED BY <2>2, <2>3, <3>1, <3>2, FieldStepsAre
  <2>4. CASE ~(s.flow = "field_add" /\ s.step = "choices")
    <3>1. Consume(s, Keep, e) = Nothing
      BY <2>1, <2>4 DEF Consume
    <3> QED BY <2>2, <3>1, NothingIs
  <2> QED BY <2>3, <2>4
<1>5. e.kind \in {"cancel", "type_address", "type_enum", "type_text", "required", TextKind}
  BY DEF NeedsDraft
<1> QED BY <1>1, <1>2, <1>3, <1>4, <1>5

-----------------------------------------------------------------------------
(* More events and more that were overtaken change nothing.               *)

LEMMA StillOK ==
  ASSUME NEW O, NEW O2, O \subseteq O2, NEW N \in Nat, NEW N2 \in Nat, N <= N2
  PROVE  /\ \A items : ListOK(items, O, N) => ListOK(items, O2, N2)
         /\ \A d : DefOK(d, O, N) => DefOK(d, O2, N2)
         /\ \A s : SessOK(s, N) => SessOK(s, N2)
         /\ \A c, e : EventOK(c, e, N) => EventOK(c, e, N2)
         /\ \A e, p : PlanOK(e, p, O, N) => PlanOK(e, p, O2, N2)
<1>1. 1..N \subseteq 1..N2 /\ 0..N \subseteq 0..N2
  OBVIOUS
<1>2. ASSUME NEW x, ItemOK(x, N) PROVE ItemOK(x, N2)
  BY <1>1, <1>2 DEF ItemOK
<1>3. ASSUME NEW items, ListOK(items, O, N) PROVE ListOK(items, O2, N2)
  <2>1. Distinct(items, O2)
    BY <1>3 DEF ListOK, Distinct
  <2> QED BY <1>2, <1>3, <2>1 DEF ListOK
<1>4. ASSUME NEW d, DefOK(d, O, N) PROVE DefOK(d, O2, N2)
  BY <1>3, <1>4 DEF DefOK
<1>5. ASSUME NEW s, SessOK(s, N) PROVE SessOK(s, N2)
  BY <1>1, <1>5 DEF SessOK
<1>6. ASSUME NEW c, NEW e, EventOK(c, e, N) PROVE EventOK(c, e, N2)
  BY <1>1, <1>6 DEF EventOK
<1>7. ASSUME NEW e, NEW p, PlanOK(e, p, O, N) PROVE PlanOK(e, p, O2, N2)
  BY <1>4, <1>5, <1>7 DEF PlanOK
<1> QED BY <1>3, <1>4, <1>5, <1>6, <1>7

LEMMA WorkStillFits ==
  ASSUME NEW O, NEW O2, O \subseteq O2, NEW N \in Nat, NEW N2 \in Nat, N <= N2,
         NEW c, NEW s, NEW w, NEW F, WorkFits(c, s, w, F, O, N)
  PROVE  WorkFits(c, s, w, F, O2, N2)
<1>1. PlanOK(w.event, w.plan, O2, N2)
  BY StillOK DEF WorkFits
<1>2. w.draft # Keep => DefOK(w.draft, O2, N2)
  BY StillOK DEF WorkFits
<1>3. w.phase # "idle" => EventOK(c, w.event, N2) /\ \A f \in F : Id(f) \in O2
  BY StillOK DEF WorkFits
<1> QED BY <1>1, <1>2, <1>3 DEF WorkFits

-----------------------------------------------------------------------------
(* A step of the handler of b.                                             *)

\* What it may have read.
Read(d, P, w) == d # Keep /\ ((\E v \in DOMAIN P : d = P[v].definition) \/ d = w.draft)

\* The rows are old ones, but for what the worker w wrote.
RowsFrom(P2, P, w) ==
  \A v \in DOMAIN P2 : \/ \E u \in DOMAIN P : P2[v].definition = P[u].definition
                       \/ P2[v].definition = w.draft /\ w.draft # Keep
                       \/ /\ P2[v].definition = w.plan.draft
                          /\ w.phase = "keyed" /\ w.plan.draft # Keep

\* The worker goes on as w2 from w, with an event of its channel b.
WorkFrom(w2, b, P, w) ==
  /\ w2.draft = Keep \/ Read(w2.draft, P, w)
  /\ \/ w2.plan.draft \in {Keep, w.plan.draft}
     \/ \E d, n : /\ Read(d, P, w)
                  /\ Comes(w2.plan.draft.services, d.services, [channel |-> b, n |-> n])
                  /\ Comes(w2.plan.draft.fields, d.fields, [channel |-> b, n |-> n])

\* Items of other channels' events come from old lists.
LEMMA ComesIsSafe ==
  ASSUME NEW s, NEW e, NEW d, SafeIn(s, e, d), NEW u, NEW id, id # Id(e),
         Comes(u.services, d.services, id), Comes(u.fields, d.fields, id)
  PROVE  SafeIn(s, e, u)
<1>1. e.kind = TextKind => \A i \in DOMAIN u.services : u.services[i].by = Id(e) =>
        s.last = Id(e) \/ s.flow # "service_add" \/ s.key = u.services[i].key
  BY DEF SafeIn, Comes
<1>2. e.kind = "required" => \A i \in DOMAIN u.fields : u.fields[i].by = Id(e) =>
        s.flow # "field_add" \/ s.key = u.fields[i].key
  BY DEF SafeIn, Comes
<1> QED BY <1>1, <1>2 DEF SafeIn

\* For the other channels nothing new circulates.
LEMMA OthersAreSafe ==
  ASSUME NEW P, NEW P2, NEW W, NEW b \in Channels, NEW w, NEW W2,
         W2[b] = w, \A a \in Channels : a # b => W2[a] = W[a],
         RowsFrom(P2, P, W[b]), WorkFrom(w, b, P, W[b]),
         NEW c \in Channels, c # b, NEW s, NEW F, NEW O, NEW O2, O \subseteq O2,
         \A e : Pending(e, W[c], F) => Id(e).channel = c,
         Safe(c, s, F, O, P, W)
  PROVE  Safe(c, s, F, O2, P2, W2)
<1>1. W2[c] = W[c] /\ W2[b] = w /\ \A a \in Channels : a # b => W2[a] = W[a]
  OBVIOUS
<1> SUFFICES ASSUME NEW e, Pending(e, W[c], F), Id(e) \notin O, NEW u, Circulates(c, u, P2, W2)
             PROVE  SafeIn(s, e, u)
  BY <1>1 DEF Safe
<1>2. \A d : Circulates(c, d, P, W) => SafeIn(s, e, d)
  BY DEF Safe
<1>3. \A d : Read(d, P, W[b]) => Circulates(c, d, P, W)
  BY DEF Read, Circulates
<1>4. W[b].plan.draft # Keep => Circulates(c, W[b].plan.draft, P, W)
  BY DEF Circulates
<1>5. ASSUME NEW v \in DOMAIN P2, u = P2[v].definition PROVE SafeIn(s, e, u)
  <2>1. u # Keep
    BY DEF Circulates
  <2>2. Read(u, P, W[b]) \/ u = W[b].plan.draft
    BY <1>5, <2>1 DEF RowsFrom, Read
  <2> QED BY <1>2, <1>3, <1>4, <2>1, <2>2
<1>6. ASSUME NEW a \in Channels, u = W2[a].draft PROVE SafeIn(s, e, u)
  <2>1. u # Keep
    BY DEF Circulates
  <2>2. CASE a = b
    <3>1. Read(u, P, W[b])
      BY <1>1, <1>6, <2>1, <2>2 DEF WorkFrom
    <3> QED BY <1>2, <1>3, <3>1
  <2>3. CASE a # b
    <3>1. Circulates(c, u, P, W)
      BY <1>1, <1>6, <2>1, <2>3 DEF Circulates
    <3> QED BY <1>2, <3>1
  <2> QED BY <2>2, <2>3
<1>7. ASSUME NEW a \in Channels, u = W2[a].plan.draft, ~(a = c /\ W2[c].phase = "planned")
      PROVE  SafeIn(s, e, u)
  <2>1. u # Keep
    BY DEF Circulates
  <2>2. CASE a = b
    <3>1. CASE u = W[b].plan.draft
      BY <1>2, <1>4, <2>1, <3>1
    <3>2. CASE u # W[b].plan.draft
      <4>1. PICK d, n : /\ Read(d, P, W[b])
                        /\ Comes(u.services, d.services, [channel |-> b, n |-> n])
                        /\ Comes(u.fields, d.fields, [channel |-> b, n |-> n])
        BY <1>1, <1>7, <2>1, <2>2, <3>2 DEF WorkFrom
      <4>2. SafeIn(s, e, d)
        BY <1>2, <1>3, <4>1
      <4>3. PICK id : id = [channel |-> b, n |-> n]
        OBVIOUS
      <4>4. id.channel = b
        BY <4>3
      <4>5. id # Id(e)
        BY <4>4
      <4> QED BY <4>1, <4>2, <4>3, <4>5, ComesIsSafe
    <3> QED BY <3>1, <3>2
  <2>3. CASE a # b
    <3>1. Circulates(c, u, P, W)
      BY <1>1, <1>7, <2>1, <2>3 DEF Circulates
    <3> QED BY <1>2, <3>1
  <2> QED BY <2>2, <2>3
<1> QED BY <1>5, <1>6, <1>7 DEF Circulates

\* Of the events F of its channel that are to be handed over again all but e
\* were overtaken, and the session s shows what e has added.
Shows(b, s, e, w, F, O, P, W) ==
  /\ \A f \in F : f = e \/ Id(f) \in O
  /\ w.phase # "idle" => w.event = e
  /\ Id(e) \notin O => \A d : Circulates(b, d, P, W) => SafeIn(s, e, d)
  /\ Id(e) \notin O /\ w.phase # "planned" /\ w.plan.draft # Keep => SafeIn(s, e, w.plan.draft)

\* For its own channel what is planned is new.
LEMMA OwnIsSafe ==
  ASSUME NEW P, NEW P2, NEW W, NEW b \in Channels, NEW w, NEW W2,
         W2[b] = w, \A a \in Channels : a # b => W2[a] = W[a],
         RowsFrom(P2, P, W[b]), WorkFrom(w, b, P, W[b]),
         NEW s, NEW F, NEW O, NEW e, Shows(b, s, e, w, F, O, P, W)
  PROVE  Safe(b, s, F, O, P2, W2)
<1>1. W2[b] = w /\ \A a \in Channels : a # b => W2[a] = W[a]
  OBVIOUS
<1> SUFFICES ASSUME Id(e) \notin O, NEW u, Circulates(b, u, P2, W2) PROVE SafeIn(s, e, u)
  BY <1>1 DEF Safe, Pending, Shows
<1>2. \A d : Circulates(b, d, P, W) => SafeIn(s, e, d)
  BY DEF Shows
<1>3. \A d : Read(d, P, W[b]) => Circulates(b, d, P, W)
  BY DEF Read, Circulates
<1>4. ASSUME NEW v \in DOMAIN P2, u = P2[v].definition PROVE SafeIn(s, e, u)
  <2>1. u # Keep
    BY DEF Circulates
  <2>2. Read(u, P, W[b]) \/ (u = W[b].plan.draft /\ W[b].phase = "keyed")
    BY <1>4, <2>1 DEF RowsFrom, Read
  <2>3. u = W[b].plan.draft /\ W[b].phase = "keyed" => Circulates(b, u, P, W)
    BY <2>1 DEF Circulates
  <2> QED BY <1>2, <1>3, <2>2, <2>3
<1>5. ASSUME NEW a \in Channels, u = W2[a].draft PROVE SafeIn(s, e, u)
  <2>1. u # Keep
    BY DEF Circulates
  <2>2. CASE a = b
    <3>1. Read(u, P, W[b])
      BY <1>1, <1>5, <2>1, <2>2 DEF WorkFrom
    <3> QED BY <1>2, <1>3, <3>1
  <2>3. CASE a # b
    <3>1. Circulates(b, u, P, W)
      BY <1>1, <1>5, <2>1, <2>3 DEF Circulates
    <3> QED BY <1>2, <3>1
  <2> QED BY <2>2, <2>3
<1>6. ASSUME NEW a \in Channels, u = W2[a].plan.draft, ~(a = b /\ W2[b].phase = "planned")
      PROVE  SafeIn(s, e, u)
  <2>1. u # Keep
    BY DEF Circulates
  <2>2. CASE a = b
    BY <1>1, <1>6, <2>1, <2>2 DEF Shows
  <2>3. CASE a # b
    <3>1. Circulates(b, u, P, W)
      BY <1>1, <1>6, <2>1, <2>3 DEF Circulates
    <3> QED BY <1>2, <3>1
  <2> QED BY <2>2, <2>3
<1> QED BY <1>4, <1>5, <1>6 DEF Circulates

-----------------------------------------------------------------------------
(* The table of revisions.                                                 *)

\* Some revision is active, always.
LEMMA ActiveStays ==
  ASSUME IInv, HasActive, PacksStep
  PROVE  HasActive'
<1>1. PICK v \in DOMAIN packs : packs[v].state = "active"
  BY DEF HasActive, InState
<1>2. CASE \E d : InsertDraft(d)
  <2>1. v # NextVersion
    <3> PICK k \in 0..MaxVersion : DOMAIN packs = 1..k
      BY DEF IInv, Numbered
    <3> QED BY <1>1, NextVersionIs
  <2>2. v \in DOMAIN packs' /\ packs'[v] = packs[v]
    BY <1>1, <1>2, <2>1 DEF InsertDraft
  <2> QED BY <1>1, <2>2 DEF HasActive, InState
<1>3. CASE \E d : UpdateDraft(d)
  <2>1. PICK d : HasDraft /\ packs' = [packs EXCEPT ![DraftVersion].definition = d]
    BY <1>3 DEF UpdateDraft
  <2>2. packs[DraftVersion].state = "draft"
    BY <2>1, DraftIsNewest, Integral DEF IInv
  <2>3. v \in DOMAIN packs' /\ packs'[v] = packs[v]
    BY <1>1, <2>1, <2>2
  <2> QED BY <1>1, <2>3 DEF HasActive, InState
<1>4. CASE DiscardDraft
  <2>1. v \in DOMAIN packs' /\ packs'[v] = packs[v]
    BY <1>1, <1>4 DEF DiscardDraft, InState
  <2> QED BY <1>1, <2>1 DEF HasActive, InState
<1>5. CASE PublishDraft
  <2>1. DraftVersion \in DOMAIN packs /\ packs[DraftVersion].state = "draft"
    BY <1>5, DraftIsNewest, Integral DEF IInv, PublishDraft
  <2>2. packs[DraftVersion] = Row("draft", packs[DraftVersion].definition)
    BY <2>1 DEF IInv, Rows
  <2>3. DraftVersion \in DOMAIN packs'
    BY <1>5, <2>1 DEF PublishDraft
  <2>4. packs'[DraftVersion] = [packs[DraftVersion] EXCEPT !.state = "active"]
    BY <1>5, <2>1 DEF PublishDraft
  <2>5. packs'[DraftVersion].state = "active"
    BY <2>2, <2>4 DEF Row
  <2> QED BY <2>3, <2>5 DEF HasActive, InState
<1>6. CASE UNCHANGED packs
  BY <1>6 DEF HasActive, InState
<1> QED BY <1>2, <1>3, <1>4, <1>5, <1>6 DEF PacksStep

\* The rows are old ones, but for d.
Only(d) ==
  \A v \in DOMAIN packs' : \/ \E u \in DOMAIN packs : packs'[v].definition = packs[u].definition
                           \/ packs'[v].definition = d

LEMMA InsertedIs ==
  ASSUME IInv, NEW d, InsertDraft(d)
  PROVE  Only(d)
<1>1. packs' = [v \in DOMAIN packs \cup {NextVersion} |->
                  IF v = NextVersion THEN Row("draft", d) ELSE packs[v]]
  BY DEF InsertDraft
<1> QED BY <1>1 DEF Only, Row

LEMMA UpdatedIs ==
  ASSUME IInv, NEW d, UpdateDraft(d)
  PROVE  Only(d)
<1>1. packs' = [packs EXCEPT ![DraftVersion].definition = d] /\ HasDraft
  BY DEF UpdateDraft
<1>2. DraftVersion \in DOMAIN packs
  BY <1>1, DraftIsNewest, Integral DEF IInv
<1>3. packs[DraftVersion] = Row(packs[DraftVersion].state, packs[DraftVersion].definition)
  BY <1>2 DEF IInv, Rows
<1>4. DOMAIN packs' = DOMAIN packs /\ \A v \in DOMAIN packs : v # DraftVersion => packs'[v] = packs[v]
  BY <1>1
<1>5. packs'[DraftVersion].definition = d
  BY <1>1, <1>2, <1>3 DEF Row
<1> QED BY <1>4, <1>5 DEF Only

LEMMA DiscardedIs ==
  ASSUME NEW d, DiscardDraft
  PROVE  Only(d)
BY DEF DiscardDraft, Only

LEMMA PublishedIs ==
  ASSUME IInv, NEW d, PublishDraft
  PROVE  Only(d)
<1>1. packs' = [v \in DOMAIN packs |->
                  CASE packs[v].state = "active" -> [packs[v] EXCEPT !.state = "archived"]
                    [] packs[v].state = "draft" -> [packs[v] EXCEPT !.state = "active"]
                    [] OTHER -> packs[v]]
  BY DEF PublishDraft
<1>2. \A v \in DOMAIN packs : packs[v] = Row(packs[v].state, packs[v].definition)
  BY DEF IInv, Rows
<1>3. ASSUME NEW v \in DOMAIN packs PROVE packs'[v].definition = packs[v].definition
  <2>1. PICK r : r = packs[v]
    OBVIOUS
  <2>2. r = [state |-> r.state, definition |-> r.definition]
    BY <1>2, <2>1 DEF Row
  <2>3. \/ packs'[v] = [r EXCEPT !.state = "archived"]
        \/ packs'[v] = [r EXCEPT !.state = "active"]
        \/ packs'[v] = r
    BY <1>1, <2>1
  <2> QED BY <2>1, <2>2, <2>3
<1>4. DOMAIN packs' = DOMAIN packs
  BY <1>1
<1> QED BY <1>3, <1>4 DEF Only

-----------------------------------------------------------------------------
(* A step keeps the invariant.                                             *)

LEMMA ItemsKept ==
  ASSUME ItemsInv, [Next]_vars, NEW b \in Channels, NEW w, NEW s, NEW F, NEW O, NEW N,
         work' = [work EXCEPT ![b] = w], sessions' = [sessions EXCEPT ![b] = s],
         failed' = [failed EXCEPT ![b] = F], overtaken' = O, sent' = N,
         faults' \in 0..MaxFaults, N \in 0..MaxEvents, sent <= N, overtaken \subseteq O,
         RowsFrom(packs', packs, work[b]), WorkFrom(w, b, packs, work[b]),
         WorkFits(b, s, w, F, O, N), SessOK(s, N), \A f \in F : EventOK(b, f, N),
         \E e : Shows(b, s, e, w, F, O, packs, work)
  PROVE  ItemsInv'
<1>1. /\ IInv /\ HasActive /\ RowsOK /\ SessionsOK /\ FailedOK /\ WorksOK /\ SafeOK
      /\ sent \in Nat /\ N \in Nat
  BY ConfiguratorAssumption DEF ItemsInv, CountsOK
<1>2. IInv' /\ HasActive'
  BY <1>1, StepKeeps, ActiveStays, NextIsPacksStep
<1>3. CountsOK'
  BY DEF CountsOK
<1>4. PICK P2, S2, F2, W2 : P2 = packs' /\ S2 = sessions' /\ F2 = failed' /\ W2 = work'
  OBVIOUS
<1>5. /\ W2 = [work EXCEPT ![b] = w] /\ work = [c \in Channels |-> work[c]]
      /\ S2 = [sessions EXCEPT ![b] = s] /\ sessions = [c \in Channels |-> sessions[c]]
      /\ F2 = [failed EXCEPT ![b] = F] /\ failed = [c \in Channels |-> failed[c]]
  BY <1>1, <1>4 DEF SessionsOK, FailedOK, WorksOK
<1>6. /\ W2 = [c \in Channels |-> W2[c]] /\ W2[b] = w /\ \A c \in Channels : c # b => W2[c] = work[c]
      /\ S2 = [c \in Channels |-> S2[c]] /\ S2[b] = s /\ \A c \in Channels : c # b => S2[c] = sessions[c]
      /\ F2 = [c \in Channels |-> F2[c]] /\ F2[b] = F /\ \A c \in Channels : c # b => F2[c] = failed[c]
  BY <1>5
<1>7. WorkFits(b, sessions[b], work[b], failed[b], overtaken, sent)
  BY <1>1 DEF WorksOK
<1>8. RowsOK'
  <2> SUFFICES ASSUME NEW v \in DOMAIN P2 PROVE DefOK(P2[v].definition, O, N)
    BY <1>4 DEF RowsOK
  <2>1. DefOK(P2[v].definition, overtaken, sent)
    <3>1. CASE \E u \in DOMAIN packs : P2[v].definition = packs[u].definition
      BY <1>1, <3>1 DEF RowsOK
    <3>2. CASE P2[v].definition = work[b].draft /\ work[b].draft # Keep
      BY <1>7, <3>2 DEF WorkFits
    <3>3. CASE P2[v].definition = work[b].plan.draft /\ work[b].plan.draft # Keep
      BY <1>7, <3>3 DEF WorkFits, PlanOK
    <3> QED BY <1>4, <3>1, <3>2, <3>3 DEF RowsFrom
  <2> QED BY <1>1, <2>1, StillOK
<1>9. SessionsOK'
  <2>1. ASSUME NEW c \in Channels PROVE SessOK(S2[c], N)
    <3>1. CASE c = b
      BY <1>6, <3>1
    <3>2. CASE c # b
      <4>1. SessOK(sessions[c], sent)
        BY <1>1 DEF SessionsOK
      <4> QED BY <1>1, <1>6, <3>2, <4>1, StillOK
    <3> QED BY <3>1, <3>2
  <2> QED BY <1>4, <1>6, <2>1 DEF SessionsOK
<1>10. FailedOK'
  <2>1. ASSUME NEW c \in Channels, NEW e \in F2[c] PROVE EventOK(c, e, N)
    <3>1. CASE c = b
      BY <1>6, <2>1, <3>1
    <3>2. CASE c # b
      <4>1. EventOK(c, e, sent)
        BY <1>1, <1>6, <3>2 DEF FailedOK
      <4> QED BY <1>1, <4>1, StillOK
    <3> QED BY <3>1, <3>2
  <2> QED BY <1>4, <1>6, <2>1 DEF FailedOK
<1>11. WorksOK'
  <2>1. ASSUME NEW c \in Channels PROVE WorkFits(c, S2[c], W2[c], F2[c], O, N)
    <3>1. CASE c = b
      BY <1>6, <3>1
    <3>2. CASE c # b
      <4>1. WorkFits(c, sessions[c], work[c], failed[c], overtaken, sent)
        BY <1>1 DEF WorksOK
      <4>2. WorkFits(c, sessions[c], work[c], failed[c], O, N)
        BY <1>1, <4>1, WorkStillFits
      <4> QED BY <1>6, <3>2, <4>2
    <3> QED BY <3>1, <3>2
  <2> QED BY <1>4, <1>6, <2>1 DEF WorksOK
<1>12. SafeOK'
  <2>1. ASSUME NEW c \in Channels PROVE Safe(c, S2[c], F2[c], O, P2, W2)
    <3>1. CASE c = b
      <4>1. Safe(b, s, F, O, P2, W2)
        <5>1. PICK e : Shows(b, s, e, w, F, O, packs, work)
          OBVIOUS
        <5>2. RowsFrom(P2, packs, work[b])
          BY <1>4
        <5>3. W2[b] = w /\ \A a \in Channels : a # b => W2[a] = work[a]
          BY <1>6
        <5> QED BY <5>1, <5>2, <5>3, OwnIsSafe
      <4> QED BY <1>6, <3>1, <4>1
    <3>2. CASE c # b
      <4>1. Safe(c, sessions[c], failed[c], overtaken, packs, work)
        BY <1>1 DEF SafeOK
      <4>2. WorkFits(c, sessions[c], work[c], failed[c], overtaken, sent)
        BY <1>1 DEF WorksOK
      <4>3. ASSUME NEW e, Pending(e, work[c], failed[c]) PROVE Id(e).channel = c
        <5>1. EventOK(c, e, sent)
          BY <1>1, <4>2, <4>3 DEF Pending, FailedOK, WorkFits
        <5> QED BY <5>1 DEF EventOK, Id
      <4>4. Safe(c, sessions[c], failed[c], O, P2, W2)
        <5>1. RowsFrom(P2, packs, work[b])
          BY <1>4
        <5> QED BY <1>1, <1>6, <3>2, <4>1, <4>3, <5>1, OthersAreSafe
      <4> QED BY <1>6, <3>2, <4>4
    <3> QED BY <3>1, <3>2
  <2> QED BY <1>4, <2>1 DEF SafeOK
<1> QED BY <1>2, <1>3, <1>8, <1>9, <1>10, <1>11, <1>12 DEF ItemsInv

-----------------------------------------------------------------------------
(* What is left to do.                                                     *)

\* An idle worker.
LEMMA NoWorkIs ==
  /\ NoWork.phase = "idle" /\ NoWork.draft = Keep /\ NoWork.plan.draft = Keep
  /\ \A c, s, F, O, N : WorkFits(c, s, NoWork, F, O, N)
<1>1. PICK w : w = NoWork
  OBVIOUS
<1>2. PICK e : e = Event("none", 0, "none", NoArg)
  OBVIOUS
<1>3. PICK p : p = Nothing
  OBVIOUS
<1>4. p = [first |-> Keep, raises |-> FALSE, draft |-> Keep, last |-> Keep, view |-> FALSE]
  BY <1>3 DEF Nothing, Plan
<1>5. w = [phase |-> "idle", event |-> e, draft |-> Keep, plan |-> p]
  BY <1>1, <1>2, <1>3 DEF NoWork
<1>6. e.kind = "none"
  BY <1>2 DEF Event
<1>7. w.phase = "idle" /\ w.draft = Keep /\ w.plan = p /\ w.event = e /\ p.draft = Keep
  BY <1>4, <1>5
<1>8. \A O, N : PlanOK(e, p, O, N)
  BY <1>4, <1>6 DEF PlanOK
<1>9. w = [phase |-> w.phase, event |-> w.event, draft |-> w.draft, plan |-> w.plan]
  BY <1>5
<1>10. p.first = Keep
  BY <1>4
<1>11. ASSUME NEW c, NEW s, NEW F, NEW O, NEW N PROVE WorkFits(c, s, w, F, O, N)
  BY <1>1, <1>7, <1>8, <1>9, <1>10 DEF WorkFits
<1> QED BY <1>1, <1>7, <1>11

\* A worker that goes on with a plan, or is done.
Went(w, e, plan) ==
  /\ w.draft = Keep /\ w.plan.draft \in {Keep, plan.draft}
  /\ w.phase # "idle" => w.event = e
  /\ w.phase # "planned" /\ w.plan.draft # Keep => plan.first = Keep

LEMMA GoOnIs ==
  ASSUME NEW b, NEW e, NEW plan, GoOn(b, e, plan), NEW s, NEW F, NEW O, NEW N,
         PlanOK(e, plan, O, N), EventOK(b, e, N), \A f \in F : Id(f) \in O,
         e.kind = "required" /\ plan.first # Keep => s.flow = "field_add" /\ s.key = NoArg
  PROVE  \E w : work' = [work EXCEPT ![b] = w] /\ WorkFits(b, s, w, F, O, N) /\ Went(w, e, plan)
<1>1. PICK w : w = IF plan = Nothing THEN NoWork
                   ELSE [phase |-> PhaseOf(plan), event |-> e, draft |-> Keep, plan |-> plan]
  OBVIOUS
<1>2. work' = [work EXCEPT ![b] = w]
  BY <1>1 DEF GoOn
<1>3. CASE plan = Nothing
  <2>1. w = NoWork
    BY <1>1, <1>3
  <2> QED BY <1>2, <2>1, NoWorkIs DEF Went
<1>4. CASE plan # Nothing
  <2>1. PICK phase : phase = PhaseOf(plan)
    OBVIOUS
  <2>2. w = [phase |-> phase, event |-> e, draft |-> Keep, plan |-> plan]
    BY <1>1, <1>4, <2>1
  <2>3. /\ w.phase = phase /\ w.event = e /\ w.draft = Keep /\ w.plan = plan
        /\ w = [phase |-> w.phase, event |-> w.event, draft |-> w.draft, plan |-> w.plan]
    BY <2>2
  <2>4. /\ phase \in {"planned", "raising", "keyed", "written", "viewing"}
        /\ phase # "planned" => plan.first = Keep
        /\ phase = "planned" => plan.first # Keep
        /\ phase \notin {"planned", "keyed"} => plan.draft = Keep
        /\ phase = "keyed" => plan.draft # Keep
        /\ phase = "written" => plan.last # Keep
    BY <2>1 DEF PhaseOf, PlanOK
  <2>5. WorkFits(b, s, w, F, O, N)
    BY <2>3, <2>4 DEF WorkFits
  <2>6. Went(w, e, plan)
    BY <2>3, <2>4 DEF Went
  <2> QED BY <1>2, <2>5, <2>6
<1> QED BY <1>3, <1>4

LEMMA ProceedIs ==
  ASSUME NEW b, NEW e, NEW plan, NEW waiting, Proceed(b, e, plan, waiting), NEW s, NEW O, NEW N,
         PlanOK(e, plan, O, N), EventOK(b, e, N), \A f \in waiting : Id(f) \in O,
         e.kind = "required" /\ plan.first # Keep => s.flow = "field_add" /\ s.key = NoArg,
         faults \in 0..MaxFaults
  PROVE  \E w, F : /\ work' = [work EXCEPT ![b] = w] /\ failed' = [failed EXCEPT ![b] = F]
                   /\ WorkFits(b, s, w, F, O, N) /\ Went(w, e, plan)
                   /\ \A f \in F : f = e \/ f \in waiting
                   /\ faults' \in 0..MaxFaults
<1>1. CASE GoOn(b, e, plan) /\ failed' = [failed EXCEPT ![b] = waiting] /\ UNCHANGED faults
  <2>1. PICK w : work' = [work EXCEPT ![b] = w] /\ WorkFits(b, s, w, waiting, O, N) /\ Went(w, e, plan)
    BY <1>1, GoOnIs
  <2> QED BY <1>1, <2>1
<1>2. CASE /\ faults < MaxFaults /\ faults' = faults + 1
           /\ failed' = [failed EXCEPT ![b] = waiting \cup {e}]
           /\ work' = [work EXCEPT ![b] = NoWork]
  <2>1. faults' \in 0..MaxFaults
    BY <1>2, ConfiguratorAssumption
  <2>2. PICK w, F : w = NoWork /\ F = waiting \cup {e}
    OBVIOUS
  <2>3. WorkFits(b, s, w, F, O, N) /\ Went(w, e, plan)
    BY <2>2, NoWorkIs DEF Went
  <2>4. \A f \in F : f = e \/ f \in waiting
    BY <2>2
  <2>5. work' = [work EXCEPT ![b] = w] /\ failed' = [failed EXCEPT ![b] = F]
    BY <1>2, <2>2
  <2> QED BY <2>1, <2>3, <2>4, <2>5
<1> QED BY <1>1, <1>2 DEF Proceed

\* There is nothing left of a plan that is nothing.
LEMMA NothingIsOK ==
  \A e, O, N : PlanOK(e, Nothing, O, N) /\ Nothing.first = Keep /\ Nothing.draft = Keep
<1> SUFFICES ASSUME NEW e, NEW O, NEW N
             PROVE  PlanOK(e, Nothing, O, N) /\ Nothing.first = Keep /\ Nothing.draft = Keep
  OBVIOUS
<1>1. PICK p : p = Nothing
  OBVIOUS
<1>2. p = [first |-> Keep, raises |-> FALSE, draft |-> Keep, last |-> Keep, view |-> FALSE]
  BY <1>1 DEF Nothing, Plan
<1>3. PlanOK(e, p, O, N) /\ p.first = Keep /\ p.draft = Keep
  BY <1>2 DEF PlanOK
<1> QED BY <1>1, <1>3

-----------------------------------------------------------------------------
(* An event is handled.                                                    *)

\* What is read is a row.
LEMMA RowIsRead ==
  /\ HasDraft => DraftVersion \in DOMAIN packs
  /\ HasActive => ActiveVersion \in DOMAIN packs
BY DEF HasDraft, HasActive, InState, DraftVersion, ActiveVersion

\* The event e of b is handled, N events were sent, those in O overtaken, and
\* those in waiting are to be handed over again.
Handled(b, e, waiting, O, N) ==
  /\ ItemsInv /\ [Next]_vars
  /\ overtaken' = O /\ sent' = N /\ UNCHANGED sessions
  /\ N \in 0..MaxEvents /\ sent <= N /\ overtaken \subseteq O
  /\ EventOK(b, e, N)
  /\ \A f \in waiting : Id(f) \in O /\ EventOK(b, f, N)
  /\ Id(e) \notin O => \A d : Circulates(b, d, packs, work) => SafeIn(sessions[b], e, d)

\* Whatever was found in the rows, the worker goes on as w.
LEMMA HandledKeeps ==
  ASSUME NEW b \in Channels, NEW e, NEW waiting, NEW O, NEW N, Handled(b, e, waiting, O, N),
         NEW w, NEW F, work' = [work EXCEPT ![b] = w], failed' = [failed EXCEPT ![b] = F],
         \A f \in F : f = e \/ f \in waiting, faults' \in 0..MaxFaults,
         RowsFrom(packs', packs, work[b]),
         WorkFits(b, sessions[b], w, F, O, N), WorkFrom(w, b, packs, work[b]),
         w.phase # "idle" => w.event = e,
         Id(e) \notin O /\ w.phase # "planned" /\ w.plan.draft # Keep => SafeIn(sessions[b], e, w.plan.draft)
  PROVE  ItemsInv'
<1>1. /\ ItemsInv /\ [Next]_vars /\ sessions' = sessions /\ overtaken' = O /\ sent' = N
      /\ N \in 0..MaxEvents /\ sent <= N /\ overtaken \subseteq O /\ EventOK(b, e, N)
      /\ \A f \in waiting : Id(f) \in O /\ EventOK(b, f, N)
      /\ sent \in Nat /\ N \in Nat /\ SessionsOK
  BY ConfiguratorAssumption DEF Handled, ItemsInv, CountsOK
<1>2. PICK s : s = sessions[b]
  OBVIOUS
<1>3. sessions' = [sessions EXCEPT ![b] = s] /\ SessOK(s, N)
  BY <1>1, <1>2, StillOK DEF SessionsOK
<1>5. Shows(b, s, e, w, F, O, packs, work)
  <2>1. Id(e) \notin O => \A d : Circulates(b, d, packs, work) => SafeIn(s, e, d)
    BY <1>2 DEF Handled
  <2> QED BY <1>1, <1>2, <2>1 DEF Shows
<1>6. \A f \in F : EventOK(b, f, N)
  BY <1>1
<1>7. WorkFits(b, s, w, F, O, N)
  BY <1>2
<1> QED BY <1>1, <1>3, <1>5, <1>6, <1>7, ItemsKept

\* It goes on with a plan made from d.
LEMMA PlannedKeeps ==
  ASSUME NEW b \in Channels, NEW e, NEW waiting, NEW O, NEW N, Handled(b, e, waiting, O, N),
         NEW plan, NEW d, Read(d, packs, work[b]), Fits(sessions[b], e, d, plan, O, N),
         GoOn(b, e, plan), failed' = [failed EXCEPT ![b] = waiting], UNCHANGED faults,
         RowsFrom(packs', packs, work[b])
  PROVE  ItemsInv'
<1>1. PICK s : s = sessions[b]
  OBVIOUS
<1>2. /\ PlanOK(e, plan, O, N) /\ PlanFits(s, e, plan, O) /\ EventOK(b, e, N)
      /\ \A f \in waiting : Id(f) \in O
      /\ faults' \in 0..MaxFaults
  BY <1>1 DEF Fits, Handled, ItemsInv, CountsOK
<1>3. PICK w : work' = [work EXCEPT ![b] = w] /\ WorkFits(b, s, w, waiting, O, N) /\ Went(w, e, plan)
  BY <1>2, GoOnIs DEF PlanFits
<1>4. Id(e) = [channel |-> b, n |-> e.n]
  BY <1>2 DEF EventOK, Id
<1>5. WorkFrom(w, b, packs, work[b])
  <2>1. CASE w.plan.draft = Keep
    BY <1>3, <2>1 DEF WorkFrom, Went
  <2>2. CASE w.plan.draft = plan.draft /\ plan.draft # Keep
    <3>1. Comes(plan.draft.services, d.services, Id(e)) /\ Comes(plan.draft.fields, d.fields, Id(e))
      BY <2>2 DEF Fits
    <3>2. w.draft = Keep
      BY <1>3 DEF Went
    <3> QED BY <1>4, <2>2, <3>1, <3>2 DEF WorkFrom
  <2> QED BY <1>3, <2>1, <2>2 DEF Went
<1>6. Id(e) \notin O /\ w.phase # "planned" /\ w.plan.draft # Keep => SafeIn(s, e, w.plan.draft)
  BY <1>2, <1>3 DEF Went, PlanFits
<1>7. w.phase # "idle" => w.event = e
  BY <1>3 DEF Went
<1> QED BY <1>1, <1>2, <1>3, <1>5, <1>6, <1>7, HandledKeeps

\* It reads the active revision first.
LEMMA SeedingKeeps ==
  ASSUME NEW b \in Channels, NEW e, NEW waiting, NEW O, NEW N, Handled(b, e, waiting, O, N),
         NEW phase \in {"seeded", "reseeded"}, Seeding(b, e, phase),
         phase = "seeded" => /\ e.kind \notin StoreKinds
                             /\ e.kind = TextKind => sessions[b].last # Id(e),
         failed' = [failed EXCEPT ![b] = waiting], UNCHANGED <<faults, packs>>
  PROVE  ItemsInv'
<1>1. PICK s : s = sessions[b]
  OBVIOUS
<1>2. /\ EventOK(b, e, N) /\ \A f \in waiting : Id(f) \in O
      /\ faults' \in 0..MaxFaults
      /\ HasActive /\ RowsOK /\ overtaken \subseteq O /\ sent <= N /\ sent \in Nat /\ N \in Nat
  BY <1>1, ConfiguratorAssumption DEF Handled, ItemsInv, CountsOK
<1>3. PICK v \in DOMAIN packs : v = ActiveVersion
  BY <1>2, RowIsRead
<1>4. PICK d : d = packs[v].definition
  OBVIOUS
<1>5. DefOK(d, O, N)
  BY <1>2, <1>4, StillOK DEF RowsOK
<1>6. d # Keep
  BY <1>5, KeepIsNone
<1>7. PICK w : w = [phase |-> phase, event |-> e, plan |-> Nothing, draft |-> d]
  OBVIOUS
<1>8. work' = [work EXCEPT ![b] = w]
  BY <1>3, <1>4, <1>7 DEF Seeding
<1>9. w.phase = phase /\ w.event = e /\ w.plan = Nothing /\ w.draft = d
      /\ w = [phase |-> w.phase, event |-> w.event, draft |-> w.draft, plan |-> w.plan]
  BY <1>7
<1>10. PlanOK(e, w.plan, O, N) /\ w.plan.first = Keep /\ w.plan.draft = Keep
  BY <1>9, NothingIsOK
<1>11. WorkFits(b, s, w, waiting, O, N)
  BY <1>1, <1>2, <1>5, <1>6, <1>9, <1>10 DEF WorkFits
<1>12. WorkFrom(w, b, packs, work[b])
  BY <1>4, <1>6, <1>9, <1>10 DEF WorkFrom, Read
<1>13. RowsFrom(packs', packs, work[b])
  BY DEF RowsFrom
<1> QED BY <1>1, <1>2, <1>8, <1>9, <1>10, <1>11, <1>12, <1>13, HandledKeeps

\* It has nothing left to do, or fails after its write.
LEMMA DoneKeeps ==
  ASSUME NEW b \in Channels, NEW e, NEW waiting, NEW O, NEW N, Handled(b, e, waiting, O, N),
         Proceed(b, e, Nothing, waiting), RowsFrom(packs', packs, work[b])
  PROVE  ItemsInv'
<1>1. PICK s : s = sessions[b]
  OBVIOUS
<1>2. EventOK(b, e, N) /\ (\A f \in waiting : Id(f) \in O) /\ faults \in 0..MaxFaults
  BY DEF Handled, ItemsInv, CountsOK
<1>3. PICK w, F : /\ work' = [work EXCEPT ![b] = w] /\ failed' = [failed EXCEPT ![b] = F]
                  /\ WorkFits(b, s, w, F, O, N) /\ Went(w, e, Nothing)
                  /\ \A f \in F : f = e \/ f \in waiting
                  /\ faults' \in 0..MaxFaults
  BY <1>2, NothingIsOK, ProceedIs
<1>4. w.draft = Keep /\ w.plan.draft = Keep /\ (w.phase # "idle" => w.event = e)
  BY <1>3, NothingIsOK DEF Went
<1>5. WorkFrom(w, b, packs, work[b])
  BY <1>4 DEF WorkFrom
<1> QED BY <1>1, <1>3, <1>4, <1>5, HandledKeeps

\* A handler has read the session and the draft.
LEMMA AnswerKeeps ==
  ASSUME NEW b \in Channels, NEW e, NEW waiting, NEW O, NEW N, Handled(b, e, waiting, O, N),
         e.kind = TextKind => sessions[b].last # Id(e),
         Answer(b, e, waiting)
  PROVE  ItemsInv'
<1>1. PICK s : s = sessions[b]
  OBVIOUS
<1>2. /\ EventOK(b, e, N) /\ SessionsOK /\ RowsOK /\ HasActive
      /\ overtaken \subseteq O /\ sent <= N /\ sent \in Nat /\ N \in Nat
  BY <1>1, ConfiguratorAssumption DEF Handled, ItemsInv, CountsOK
<1>3. SessOK(s, N)
  BY <1>1, <1>2, StillOK DEF SessionsOK
<1>4. /\ e.kind \notin StoreKinds /\ failed' = [failed EXCEPT ![b] = waiting]
      /\ UNCHANGED <<packs, faults>>
      /\ RowsFrom(packs', packs, work[b])
  BY DEF Answer, RowsFrom
<1>5. CASE ~NeedsDraft(s, e) /\ GoOn(b, e, PlanOf(s, Keep, e))
  <2>1. PICK d : d = packs[ActiveVersion].definition /\ Read(d, packs, work[b])
    <3>1. ActiveVersion \in DOMAIN packs
      BY <1>2, RowIsRead
    <3>2. DefOK(packs[ActiveVersion].definition, overtaken, sent)
      BY <1>2, <3>1 DEF RowsOK
    <3> QED BY <3>1, <3>2, KeepIsNone DEF Read
  <2>2. Fits(s, e, d, PlanOf(s, Keep, e), O, N)
    BY <1>2, <1>3, <1>4, <1>5, PlanWithoutDraft
  <2> QED BY <1>1, <1>4, <1>5, <2>1, <2>2, PlannedKeeps
<1>6. CASE NeedsDraft(s, e) /\ HasDraft /\ GoOn(b, e, PlanOf(s, packs[DraftVersion].definition, e))
  <2>1. PICK d : d = packs[DraftVersion].definition
    OBVIOUS
  <2>2. DraftVersion \in DOMAIN packs
    BY <1>6, RowIsRead
  <2>3. DefOK(d, overtaken, sent)
    BY <1>2, <2>1, <2>2 DEF RowsOK
  <2>4. DefOK(d, O, N) /\ d # Keep
    BY <1>2, <2>3, StillOK, KeepIsNone
  <2>5. Read(d, packs, work[b]) /\ Circulates(b, d, packs, work)
    BY <2>1, <2>2, <2>4 DEF Read, Circulates
  <2>6. Id(e) \in O \/ SafeIn(s, e, d)
    BY <1>1, <2>5 DEF Handled
  <2>7. Ready(b, s, e, d, O, N)
    BY <1>1, <1>2, <1>3, <2>4, <2>6 DEF Ready
  <2>8. Fits(s, e, d, PlanOf(s, d, e), O, N)
    BY <1>4, <2>7, PlanOfIs
  <2>9. GoOn(b, e, PlanOf(s, d, e))
    BY <1>6, <2>1
  <2> QED BY <1>1, <1>4, <2>5, <2>8, <2>9, PlannedKeeps
<1>7. CASE Seeding(b, e, "seeded")
  BY <1>4, <1>7, SeedingKeeps
<1> QED BY <1>1, <1>5, <1>6, <1>7 DEF Answer

\* Any event that is taken.
LEMMA HandleKeeps ==
  ASSUME NEW b \in Channels, NEW e, NEW waiting, NEW O, NEW N, Handled(b, e, waiting, O, N),
         e.kind = TextKind => sessions[b].last # Id(e),
         Handle(b, e, waiting)
  PROVE  ItemsInv'
<1>1. IInv
  BY DEF Handled, ItemsInv
<1>2. ASSUME NEW v \in DOMAIN packs, Only(packs[v].definition) PROVE RowsFrom(packs', packs, work[b])
  BY <1>2 DEF Only, RowsFrom
<1>3. ActiveVersion \in DOMAIN packs
  BY RowIsRead DEF Handled, ItemsInv
<1>4. CASE PublishEvent(b, e, waiting)
  <2>1. RowsFrom(packs', packs, work[b])
    <3>1. CASE PublishDraft
      BY <1>1, <1>2, <1>3, <3>1, PublishedIs
    <3>2. CASE UNCHANGED packs
      BY <3>2 DEF RowsFrom
    <3> QED BY <1>4, <3>1, <3>2 DEF PublishEvent
  <2> QED BY <1>4, <2>1, DoneKeeps DEF PublishEvent
<1>5. CASE DiscardEvent(b, e, waiting)
  <2>1. RowsFrom(packs', packs, work[b])
    BY <1>2, <1>3, <1>5, DiscardedIs DEF DiscardEvent
  <2> QED BY <1>5, <2>1, DoneKeeps DEF DiscardEvent
<1>6. CASE RestoreEvent(b, e, waiting)
  <2>1. PICK v : v = e.arg.n /\ RestoreAsDraft(v)
    BY <1>6 DEF RestoreEvent
  <2>2. v \in DOMAIN packs
    BY <2>1 DEF RestoreAsDraft, Resolves, InState
  <2>3. Only(packs[v].definition)
    BY <1>1, <2>1, InsertedIs, UpdatedIs DEF RestoreAsDraft
  <2>4. RowsFrom(packs', packs, work[b])
    BY <1>2, <2>2, <2>3
  <2> QED BY <1>6, <2>4, DoneKeeps DEF RestoreEvent
<1>7. CASE Answer(b, e, waiting)
  BY <1>7, AnswerKeeps
<1> QED BY <1>4, <1>5, <1>6, <1>7 DEF Handle

-----------------------------------------------------------------------------
(* The actions.                                                            *)

\* All that circulates is as it should be.
LEMMA CirculatingIsOK ==
  ASSUME ItemsInv, NEW b, NEW d, Circulates(b, d, packs, work)
  PROVE  DefOK(d, overtaken, sent)
<1>1. RowsOK /\ \A c \in Channels : WorkFits(c, sessions[c], work[c], failed[c], overtaken, sent)
  BY DEF ItemsInv, WorksOK
<1>2. CASE \E v \in DOMAIN packs : d = packs[v].definition
  BY <1>1, <1>2 DEF RowsOK
<1>3. CASE \E c \in Channels : d = work[c].draft
  BY <1>1, <1>3 DEF Circulates, WorkFits
<1>4. CASE \E c \in Channels : d = work[c].plan.draft
  BY <1>1, <1>4 DEF Circulates, WorkFits, PlanOK
<1> QED BY <1>2, <1>3, <1>4 DEF Circulates

LEMMA TakeNewKeeps ==
  ASSUME ItemsInv, [Next]_vars, NEW b \in Channels, TakeNew(b)
  PROVE  ItemsInv'
<1>1. PICK kind \in Kinds : \E arg \in Args(kind) :
        Handle(b, Event(b, sent + 1, kind, arg), failed[b])
  BY DEF TakeNew
<1>a. PICK arg \in Args(kind) : Handle(b, Event(b, sent + 1, kind, arg), failed[b])
  BY <1>1
<1>2. PICK e : e = Event(b, sent + 1, kind, arg)
  OBVIOUS
<1>3. PICK O, N : O = overtaken \cup {Id(f) : f \in failed[b]} /\ N = sent + 1
  OBVIOUS
<1>4. /\ sent \in Nat /\ N \in Nat /\ N \in 0..MaxEvents /\ sent <= N /\ ~(N <= sent)
      /\ overtaken \subseteq O /\ overtaken' = O /\ sent' = N /\ UNCHANGED sessions
      /\ FailedOK /\ SessionsOK
  BY <1>3, ConfiguratorAssumption DEF TakeNew, ItemsInv, CountsOK
<1>5. /\ EventOK(b, e, N) /\ Id(e).n = N
      /\ e.kind = TextKind => e.arg \in Labels
  <2>1. e = [channel |-> b, n |-> N, kind |-> kind, arg |-> arg]
    BY <1>2, <1>3 DEF Event
  <2>2. kind = TextKind => arg \in Labels
    BY <1>a DEF Args, TextKind
  <2>3. N \in 1..N
    BY <1>4
  <2> QED BY <2>1, <2>2, <2>3 DEF EventOK, Id
<1>6. \A f \in failed[b] : Id(f) \in O /\ EventOK(b, f, N)
  <2>1. \A f \in failed[b] : EventOK(b, f, sent)
    BY <1>4 DEF FailedOK
  <2> QED BY <1>3, <1>4, <2>1, StillOK
<1>7. ASSUME NEW d, Circulates(b, d, packs, work) PROVE SafeIn(sessions[b], e, d)
  <2>1. DefOK(d, overtaken, sent)
    BY <1>7, CirculatingIsOK
  <2>2. ASSUME NEW x, ItemOK(x, sent) PROVE x.by # Id(e)
    <3>1. x.by = NoEvent => x.by.n = 0
      BY DEF NoEvent
    <3>2. x.by # NoEvent => x.by.n \in 1..sent
      BY <2>2 DEF ItemOK
    <3>3. x.by.n # N
      BY <1>4, <3>1, <3>2
    <3> QED BY <1>5, <3>3
  <2> QED BY <2>1, <2>2 DEF DefOK, ListOK, SafeIn
<1>8. sessions[b].last # Id(e)
  <2>1. sessions[b].last.n \in 0..sent
    BY <1>4 DEF SessionsOK, SessOK
  <2>2. sessions[b].last.n # N
    BY <1>4, <2>1
  <2> QED BY <1>5, <2>2
<1>9. Handled(b, e, failed[b], O, N)
  BY <1>4, <1>5, <1>6, <1>7 DEF Handled
<1> QED BY <1>2, <1>8, <1>9, <1>a, HandleKeeps

\* An event is marked that was handled before: it need not be handed over.
LEMMA ReplayKeeps ==
  ASSUME ItemsInv, NEW b \in Channels, NEW e \in failed[b], InPhase(b, {"idle"}),
         failed' = [failed EXCEPT ![b] = @ \ {e}],
         UNCHANGED <<packs, work, faults, overtaken, sessions, sent>>, [Next]_vars
  PROVE  ItemsInv'
<1>1. /\ IInv /\ HasActive /\ CountsOK /\ RowsOK /\ SessionsOK /\ FailedOK /\ WorksOK /\ SafeOK
  BY DEF ItemsInv
<1>2. PICK F2 : F2 = failed'
  OBVIOUS
<1>3. /\ F2 = [c \in Channels |-> F2[c]] /\ \A c \in Channels : F2[c] \subseteq failed[c]
  BY <1>1, <1>2 DEF FailedOK
<1>4. IInv' /\ HasActive' /\ CountsOK' /\ RowsOK' /\ SessionsOK'
  <2>1. IInv' /\ HasActive'
    BY <1>1, StepKeeps, ActiveStays, NextIsPacksStep
  <2>2. CountsOK' /\ RowsOK' /\ SessionsOK'
    BY <1>1 DEF CountsOK, RowsOK, SessionsOK
  <2> QED BY <2>1, <2>2
<1>5. FailedOK'
  <2>1. \A c \in Channels : \A f \in F2[c] : EventOK(c, f, sent)
    BY <1>1, <1>3 DEF FailedOK
  <2> QED BY <1>2, <1>3, <2>1 DEF FailedOK
<1>6. WorksOK'
  <2>1. ASSUME NEW c \in Channels
        PROVE  WorkFits(c, sessions[c], work[c], F2[c], overtaken, sent)
    <3>1. WorkFits(c, sessions[c], work[c], failed[c], overtaken, sent)
      BY <1>1 DEF WorksOK
    <3> QED BY <1>3, <3>1 DEF WorkFits
  <2> QED BY <1>1, <1>2, <2>1 DEF WorksOK
<1>7. SafeOK'
  <2>1. ASSUME NEW c \in Channels PROVE Safe(c, sessions[c], F2[c], overtaken, packs, work)
    <3>1. Safe(c, sessions[c], failed[c], overtaken, packs, work)
      BY <1>1 DEF SafeOK
    <3> QED BY <1>3, <3>1 DEF Safe, Pending
  <2> QED BY <1>2, <2>1 DEF SafeOK
<1> QED BY <1>4, <1>5, <1>6, <1>7 DEF ItemsInv

LEMMA TakeAgainKeeps ==
  ASSUME ItemsInv, [Next]_vars, NEW b \in Channels, NEW e \in failed[b], TakeAgain(b, e)
  PROVE  ItemsInv'
<1>1. CASE IsReplay(e)
  BY <1>1, ReplayKeeps DEF TakeAgain
<1>2. CASE ~IsReplay(e)
  <2>1. PICK O : O = overtaken \cup {Id(f) : f \in failed[b] \ {e}}
    OBVIOUS
  <2>2. /\ Handle(b, e, failed[b] \ {e}) /\ overtaken' = O /\ UNCHANGED <<sessions, sent>>
        /\ sent \in 0..MaxEvents /\ sent <= sent /\ overtaken \subseteq O
        /\ \A f \in failed[b] : EventOK(b, f, sent)
    BY <1>2, <2>1, ConfiguratorAssumption DEF TakeAgain, ItemsInv, CountsOK, FailedOK
  <2>3. e.channel = b
    BY <2>2 DEF EventOK
  <2>4. e.kind = TextKind => sessions[b].last # Id(e)
    BY <1>2, <2>3 DEF IsReplay
  <2>5. Id(e) \notin O => \A d : Circulates(b, d, packs, work) => SafeIn(sessions[b], e, d)
    <3>1. Safe(b, sessions[b], failed[b], overtaken, packs, work)
      BY DEF ItemsInv, SafeOK
    <3> QED BY <2>1, <3>1 DEF Safe, Pending
  <2>6. \A f \in failed[b] \ {e} : Id(f) \in O
    BY <2>1
  <2>7. PICK N : N = sent
    OBVIOUS
  <2>8. Handled(b, e, failed[b] \ {e}, O, N)
    BY <2>2, <2>5, <2>6, <2>7 DEF Handled
  <2> QED BY <2>2, <2>4, <2>8, HandleKeeps
<1> QED BY <1>1, <1>2

\* A worker that is at its event has it handled as one that takes it.
LEMMA BusyIsHandled ==
  ASSUME ItemsInv, [Next]_vars, NEW b \in Channels, work[b].phase # "idle",
         UNCHANGED <<sessions, overtaken, sent>>
  PROVE  /\ Handled(b, work[b].event, failed[b], overtaken, sent)
         /\ WorkFits(b, sessions[b], work[b], failed[b], overtaken, sent)
<1>1. /\ sent \in 0..MaxEvents /\ sent <= sent
      /\ \A f \in failed[b] : EventOK(b, f, sent)
      /\ WorkFits(b, sessions[b], work[b], failed[b], overtaken, sent)
      /\ Safe(b, sessions[b], failed[b], overtaken, packs, work)
  BY ConfiguratorAssumption DEF ItemsInv, CountsOK, FailedOK, WorksOK, SafeOK
<1>2. EventOK(b, work[b].event, sent) /\ \A f \in failed[b] : Id(f) \in overtaken
  BY <1>1 DEF WorkFits
<1>3. Id(work[b].event) \notin overtaken =>
        \A d : Circulates(b, d, packs, work) => SafeIn(sessions[b], work[b].event, d)
  BY <1>1 DEF Safe, Pending
<1> QED BY <1>1, <1>2, <1>3 DEF Handled

LEMMA MakeDraftKeeps ==
  ASSUME ItemsInv, [Next]_vars, NEW b \in Channels, MakeDraft(b)
  PROVE  ItemsInv'
<1>1. PICK e, s : e = work[b].event /\ s = sessions[b]
  OBVIOUS
<1>2. PICK d : d = IF HasDraft THEN packs[DraftVersion].definition ELSE work[b].draft
  OBVIOUS
<1>3. /\ EnsureDraft(work[b].draft) /\ UNCHANGED <<sessions, sent, overtaken>>
      /\ \/ InPhase(b, {"seeded"}) /\ GoOn(b, e, PlanOf(s, d, e)) /\ UNCHANGED <<failed, faults>>
         \/ InPhase(b, {"reseeded"}) /\ Proceed(b, e, Nothing, failed[b])
  BY <1>1, <1>2 DEF MakeDraft
<1>4. Handled(b, e, failed[b], overtaken, sent) /\ WorkFits(b, s, work[b], failed[b], overtaken, sent)
  BY <1>1, <1>3, BusyIsHandled DEF InPhase
<1>5. work[b].draft # Keep
  BY <1>3, <1>4 DEF WorkFits, InPhase
<1>6. RowsFrom(packs', packs, work[b])
  <2>1. Only(work[b].draft)
    <3>1. CASE UNCHANGED packs
      BY <3>1 DEF Only
    <3>2. CASE InsertDraft(work[b].draft)
      BY <3>2, InsertedIs DEF ItemsInv
    <3> QED BY <1>3, <3>1, <3>2 DEF EnsureDraft
  <2> QED BY <1>5, <2>1 DEF Only, RowsFrom
<1>7. CASE InPhase(b, {"seeded"}) /\ GoOn(b, e, PlanOf(s, d, e)) /\ UNCHANGED <<failed, faults>>
  <2>1. work[b].phase = "seeded"
    BY <1>7 DEF InPhase
  <2>2. Circulates(b, d, packs, work) /\ Read(d, packs, work[b])
    <3>1. CASE HasDraft
      <4>1. DraftVersion \in DOMAIN packs /\ d = packs[DraftVersion].definition
        BY <1>2, <3>1, RowIsRead
      <4>2. d # Keep
        BY <4>1, KeepIsNone DEF ItemsInv, RowsOK
      <4> QED BY <4>1, <4>2 DEF Circulates, Read
    <3>2. CASE ~HasDraft
      BY <1>2, <1>5, <3>2 DEF Circulates, Read
    <3> QED BY <3>1, <3>2
  <2>3. Ready(b, s, e, d, overtaken, sent) /\ e.kind \notin StoreKinds
    <3>1. DefOK(d, overtaken, sent)
      BY <2>2, CirculatingIsOK
    <3>2. Id(e) \in overtaken \/ SafeIn(s, e, d)
      BY <1>1, <1>4, <2>2 DEF Handled
    <3>3. SessOK(s, sent) /\ sent \in Nat
      BY <1>1, ConfiguratorAssumption DEF ItemsInv, SessionsOK, CountsOK
    <3>4. /\ EventOK(b, e, sent) /\ e.kind \notin StoreKinds
          /\ e.kind = TextKind => s.last # Id(e)
      BY <1>1, <1>4, <2>1 DEF WorkFits
    <3> QED BY <3>1, <3>2, <3>3, <3>4 DEF Ready
  <2>4. PICK plan : plan = PlanOf(s, d, e)
    OBVIOUS
  <2>5. Fits(s, e, d, plan, overtaken, sent)
    BY <2>3, <2>4, PlanOfIs
  <2>6. failed' = [failed EXCEPT ![b] = failed[b]]
    BY <1>7 DEF ItemsInv, FailedOK
  <2>7. GoOn(b, e, plan) /\ UNCHANGED faults
    BY <1>7, <2>4
  <2> QED BY <1>1, <1>4, <1>6, <2>2, <2>5, <2>6, <2>7, PlannedKeeps
<1>8. CASE Proceed(b, e, Nothing, failed[b])
  BY <1>4, <1>6, <1>8, DoneKeeps
<1> QED BY <1>3, <1>7, <1>8

\* Nothing is left to do and nothing fails.
LEMMA MarkedIsDone ==
  ASSUME ItemsInv, NEW b \in Channels, NEW e, UNCHANGED <<failed, faults>>,
         GoOn(b, e, Nothing) \/ work' = [work EXCEPT ![b] = NoWork]
  PROVE  Proceed(b, e, Nothing, failed[b])
<1>1. failed' = [failed EXCEPT ![b] = failed[b]]
  BY DEF ItemsInv, FailedOK
<1>2. GoOn(b, e, Nothing)
  BY DEF GoOn
<1> QED BY <1>1, <1>2 DEF Proceed

LEMMA WriteDraftKeeps ==
  ASSUME ItemsInv, [Next]_vars, NEW b \in Channels, WriteDraft(b)
  PROVE  ItemsInv'
<1>1. PICK e, s, p : e = work[b].event /\ s = sessions[b] /\ p = work[b].plan
  OBVIOUS
<1>2. PICK q : q = [p EXCEPT !.draft = Keep]
  OBVIOUS
<1>3. /\ work[b].phase = "keyed" /\ UNCHANGED <<sessions, sent, overtaken>>
      /\ \/ UpdateDraft(p.draft) /\ Proceed(b, e, q, failed[b])
         \/ ~HasDraft /\ GoOn(b, e, Nothing) /\ UNCHANGED <<packs, failed, faults>>
  BY <1>1, <1>2 DEF WriteDraft, InPhase
<1>4. Handled(b, e, failed[b], overtaken, sent) /\ WorkFits(b, s, work[b], failed[b], overtaken, sent)
  BY <1>1, <1>3, BusyIsHandled
<1>5. CASE UpdateDraft(p.draft) /\ Proceed(b, e, q, failed[b])
  <2>1. PlanOK(e, p, overtaken, sent) /\ p.first = Keep /\ p.draft # Keep
    BY <1>1, <1>3, <1>4 DEF WorkFits
  <2>2. p = [first |-> p.first, raises |-> p.raises, draft |-> p.draft, last |-> p.last, view |-> p.view]
    BY <2>1 DEF PlanOK
  <2>3. q = [first |-> p.first, raises |-> p.raises, draft |-> Keep, last |-> p.last, view |-> p.view]
    BY <1>2, <2>2
  <2>4. /\ q.first = p.first /\ q.raises = p.raises /\ q.draft = Keep /\ q.last = p.last
        /\ q = [first |-> q.first, raises |-> q.raises, draft |-> q.draft, last |-> q.last, view |-> q.view]
    BY <2>3
  <2>5. PlanOK(e, q, overtaken, sent)
    BY <2>1, <2>4 DEF PlanOK
  <2>6. /\ EventOK(b, e, sent) /\ (\A f \in failed[b] : Id(f) \in overtaken)
        /\ faults \in 0..MaxFaults
    BY <1>4 DEF Handled, ItemsInv, CountsOK
  <2>7. PICK w, F : /\ work' = [work EXCEPT ![b] = w] /\ failed' = [failed EXCEPT ![b] = F]
                    /\ WorkFits(b, s, w, F, overtaken, sent) /\ Went(w, e, q)
                    /\ \A f \in F : f = e \/ f \in failed[b]
                    /\ faults' \in 0..MaxFaults
    BY <1>5, <2>1, <2>4, <2>5, <2>6, ProceedIs
  <2>8. w.draft = Keep /\ w.plan.draft = Keep /\ (w.phase # "idle" => w.event = e)
    BY <2>4, <2>7 DEF Went
  <2>9. WorkFrom(w, b, packs, work[b])
    BY <2>8 DEF WorkFrom
  <2>10. RowsFrom(packs', packs, work[b])
    <3>1. Only(p.draft)
      BY <1>5, UpdatedIs DEF ItemsInv
    <3> QED BY <1>1, <1>3, <2>1, <3>1 DEF Only, RowsFrom
  <2> QED BY <1>1, <1>4, <2>7, <2>8, <2>9, <2>10, HandledKeeps
<1>6. CASE GoOn(b, e, Nothing) /\ UNCHANGED <<packs, failed, faults>>
  <2>1. Proceed(b, e, Nothing, failed[b])
    BY <1>6, MarkedIsDone
  <2>2. RowsFrom(packs', packs, work[b])
    BY <1>6 DEF RowsFrom
  <2> QED BY <1>4, <2>1, <2>2, DoneKeeps
<1> QED BY <1>3, <1>5, <1>6

LEMMA ViewKeeps ==
  ASSUME ItemsInv, [Next]_vars, NEW b \in Channels, View(b)
  PROVE  ItemsInv'
<1>1. PICK e : e = work[b].event
  OBVIOUS
<1>2. /\ work[b].phase = "viewing" /\ UNCHANGED <<packs, sessions, failed, sent, faults, overtaken>>
      /\ GoOn(b, e, Nothing) \/ Seeding(b, e, "reseeded")
  BY <1>1 DEF View, InPhase
<1>3. Handled(b, e, failed[b], overtaken, sent)
  BY <1>1, <1>2, BusyIsHandled
<1>4. RowsFrom(packs', packs, work[b])
  BY <1>2 DEF RowsFrom
<1>5. CASE GoOn(b, e, Nothing)
  <2>1. Proceed(b, e, Nothing, failed[b])
    BY <1>2, <1>5, MarkedIsDone
  <2> QED BY <1>3, <1>4, <2>1, DoneKeeps
<1>6. CASE Seeding(b, e, "reseeded")
  <2>1. failed' = [failed EXCEPT ![b] = failed[b]]
    BY <1>2 DEF ItemsInv, FailedOK
  <2> QED BY <1>2, <1>3, <1>6, <2>1, SeedingKeeps
<1> QED BY <1>2, <1>5, <1>6

LEMMA RaiseKeeps ==
  ASSUME ItemsInv, [Next]_vars, NEW b \in Channels, Raise(b)
  PROVE  ItemsInv'
<1>1. PICK e : e = work[b].event
  OBVIOUS
<1>2. work[b].phase = "raising" /\ UNCHANGED <<packs, sessions, sent, overtaken>>
  BY DEF Raise, InPhase
<1>3. Handled(b, e, failed[b], overtaken, sent)
  BY <1>1, <1>2, BusyIsHandled
<1>4. RowsFrom(packs', packs, work[b])
  BY <1>2 DEF RowsFrom
<1>5. CASE work' = [work EXCEPT ![b] = NoWork] /\ UNCHANGED <<failed, faults>>
  <2>1. Proceed(b, e, Nothing, failed[b])
    BY <1>5, MarkedIsDone
  <2> QED BY <1>3, <1>4, <2>1, DoneKeeps
<1>6. CASE /\ faults < MaxFaults /\ faults' = faults + 1
           /\ failed' = [failed EXCEPT ![b] = @ \cup {work[b].event}]
           /\ work' = [work EXCEPT ![b] = NoWork]
  <2>1. failed' = [failed EXCEPT ![b] = failed[b] \cup {e}]
    BY <1>1, <1>6
  <2>2. Proceed(b, e, Nothing, failed[b])
    BY <1>6, <2>1 DEF Proceed
  <2> QED BY <1>3, <1>4, <2>2, DoneKeeps
<1> QED BY <1>5, <1>6 DEF Raise

\* A put stores the event.
LEMMA StoredIs ==
  ASSUME NEW s, NEW N \in Nat, SessOK(s, N), NEW b, NEW e, EventOK(b, e, N)
  PROVE  /\ SessOK(Stored(s, e), N)
         /\ Stored(s, e).last = Id(e) \/ Stored(s, e).flow = "none"
         /\ s.flow # "none" => Stored(s, e).last = Id(e)
         /\ s.flow = "none" => Stored(s, e).flow = "none"
<1>1. NoSession.flow = "none" /\ SessOK(NoSession, N)
  BY NoSessionIs DEF LastOK
<1>2. CASE s = NoSession
  <2>1. Stored(s, e) = NoSession
    BY <1>2 DEF Stored
  <2> QED BY <1>1, <1>2, <2>1
<1>3. CASE s # NoSession
  <2>1. PICK t : t = [s EXCEPT !.last = Id(e)]
    OBVIOUS
  <2>2. Stored(s, e) = t
    BY <1>3, <2>1 DEF Stored
  <2>3. s = [flow |-> s.flow, step |-> s.step, key |-> s.key, label |-> s.label, type |-> s.type,
             choices |-> s.choices, last |-> s.last]
    BY DEF SessOK
  <2>4. t = [flow |-> s.flow, step |-> s.step, key |-> s.key, label |-> s.label, type |-> s.type,
             choices |-> s.choices, last |-> Id(e)]
    BY <2>1, <2>3
  <2>5. Id(e).n \in 0..N
    BY DEF EventOK, Id
  <2>6. SessOK(t, N) /\ t.last = Id(e) /\ t.flow = s.flow
    BY <2>4, <2>5 DEF SessOK
  <2> QED BY <2>2, <2>6
<1> QED BY <1>2, <1>3

\* What is common to the two puts: the session is put, then comes q.
LEMMA PutKeeps ==
  ASSUME ItemsInv, [Next]_vars, NEW b \in Channels, work[b].phase # "idle",
         UNCHANGED <<packs, sent, overtaken>>,
         NEW e, e = work[b].event, NEW s, SessOK(s, sent), sessions' = [sessions EXCEPT ![b] = s],
         NEW q, q.first = Keep, q.draft = work[b].plan.draft,
         PlanOK(e, q, overtaken, sent), Proceed(b, e, q, failed[b]),
         Id(e) \notin overtaken =>
           /\ \A d : Circulates(b, d, packs, work) => SafeIn(s, e, d)
           /\ q.draft # Keep => SafeIn(s, e, q.draft)
  PROVE  ItemsInv'
<1>1. /\ EventOK(b, e, sent) /\ (\A f \in failed[b] : Id(f) \in overtaken)
      /\ \A f \in failed[b] : EventOK(b, f, sent)
      /\ faults \in 0..MaxFaults /\ sent \in 0..MaxEvents /\ sent <= sent
  BY ConfiguratorAssumption DEF ItemsInv, WorksOK, WorkFits, FailedOK, CountsOK
<1>2. PICK O, N : O = overtaken /\ N = sent
  OBVIOUS
<1>3. PICK w, F : /\ work' = [work EXCEPT ![b] = w] /\ failed' = [failed EXCEPT ![b] = F]
                  /\ WorkFits(b, s, w, F, O, N) /\ Went(w, e, q)
                  /\ \A f \in F : f = e \/ f \in failed[b]
                  /\ faults' \in 0..MaxFaults
  <2>1. \A f \in failed[b] : Id(f) \in O
    BY <1>1, <1>2
  <2>2. PlanOK(e, q, O, N) /\ EventOK(b, e, N)
    BY <1>1, <1>2
  <2> QED BY <1>1, <2>1, <2>2, ProceedIs
<1>4. WorkFrom(w, b, packs, work[b])
  BY <1>3 DEF WorkFrom, Went
<1>5. RowsFrom(packs', packs, work[b])
  BY DEF RowsFrom
<1>6. Shows(b, s, e, w, F, O, packs, work)
  <2>1. \A f \in F : f = e \/ Id(f) \in O
    BY <1>1, <1>2, <1>3
  <2>2. w.phase # "idle" => w.event = e
    BY <1>3 DEF Went
  <2>3. Id(e) \notin O => \A d : Circulates(b, d, packs, work) => SafeIn(s, e, d)
    BY <1>2
  <2>4. Id(e) \notin O /\ w.plan.draft # Keep => SafeIn(s, e, w.plan.draft)
    BY <1>2, <1>3 DEF Went
  <2> QED BY <2>1, <2>2, <2>3, <2>4 DEF Shows
<1>7. \A f \in F : EventOK(b, f, N)
  BY <1>1, <1>2, <1>3
<1>8. overtaken' = O /\ sent' = N /\ N \in 0..MaxEvents /\ sent <= N /\ overtaken \subseteq O
  BY <1>1, <1>2
<1>9. SessOK(s, N)
  BY <1>2
<1> QED BY <1>3, <1>4, <1>5, <1>6, <1>7, <1>8, <1>9, ItemsKept

LEMMA PutFirstKeeps ==
  ASSUME ItemsInv, [Next]_vars, NEW b \in Channels, PutFirst(b)
  PROVE  ItemsInv'
<1>1. PICK e, s, p : e = work[b].event /\ s = sessions[b] /\ p = work[b].plan
  OBVIOUS
<1>2. PICK q, t : q = [p EXCEPT !.first = Keep] /\ t = Stored(p.first, e)
  OBVIOUS
<1>3. /\ work[b].phase = "planned" /\ UNCHANGED <<packs, sent, overtaken>>
      /\ sessions' = [sessions EXCEPT ![b] = t] /\ Proceed(b, e, q, failed[b])
  BY <1>1, <1>2 DEF PutFirst, InPhase
<1>4. /\ WorkFits(b, s, work[b], failed[b], overtaken, sent)
      /\ Safe(b, s, failed[b], overtaken, packs, work)
      /\ sent \in Nat
  BY <1>1, ConfiguratorAssumption DEF ItemsInv, WorksOK, SafeOK, CountsOK
<1>5. /\ PlanOK(e, p, overtaken, sent) /\ p.first # Keep /\ EventOK(b, e, sent)
      /\ e.kind = "required" => s.flow = "field_add" /\ s.key = NoArg
  BY <1>1, <1>3, <1>4 DEF WorkFits
<1>6. /\ p = [first |-> p.first, raises |-> p.raises, draft |-> p.draft, last |-> p.last, view |-> p.view]
      /\ SessOK(p.first, sent) /\ p.first.flow # "none"
      /\ e.kind = "required" => p.draft = Keep
  BY <1>5 DEF PlanOK
<1>7. q = [first |-> Keep, raises |-> p.raises, draft |-> p.draft, last |-> p.last, view |-> p.view]
  BY <1>2, <1>6
<1>8. /\ q.first = Keep /\ q.raises = p.raises /\ q.draft = p.draft /\ q.last = p.last
      /\ q = [first |-> q.first, raises |-> q.raises, draft |-> q.draft, last |-> q.last, view |-> q.view]
  BY <1>7
<1>9. PlanOK(e, q, overtaken, sent)
  BY <1>5, <1>8 DEF PlanOK
<1>10. SessOK(t, sent) /\ t.last = Id(e)
  BY <1>2, <1>4, <1>5, <1>6, StoredIs
<1>11. ASSUME Id(e) \notin overtaken, NEW d, Circulates(b, d, packs, work) PROVE SafeIn(t, e, d)
  <2>1. CASE e.kind = "required"
    <3>1. DefOK(d, overtaken, sent)
      BY <1>11, CirculatingIsOK
    <3>2. SafeIn(s, e, d)
      BY <1>1, <1>3, <1>4, <1>11 DEF Safe, Pending
    <3>3. \A i \in DOMAIN d.fields : d.fields[i].key # NoArg
      BY <3>1, NoArgIs DEF DefOK, ListOK, ItemOK
    <3>4. \A i \in DOMAIN d.fields : d.fields[i].by # Id(e)
      BY <1>5, <2>1, <3>2, <3>3 DEF SafeIn
    <3> QED BY <2>1, <3>4 DEF SafeIn, TextKind
  <2>2. CASE e.kind # "required"
    BY <1>10, <2>2 DEF SafeIn
  <2> QED BY <2>1, <2>2
<1>12. q.draft # Keep => SafeIn(t, e, q.draft)
  BY <1>6, <1>8, <1>10 DEF SafeIn
<1>13. q.draft = work[b].plan.draft
  BY <1>1, <1>8
<1> QED BY <1>1, <1>3, <1>8, <1>9, <1>10, <1>11, <1>12, <1>13, PutKeeps

LEMMA PutLastKeeps ==
  ASSUME ItemsInv, [Next]_vars, NEW b \in Channels, PutLast(b)
  PROVE  ItemsInv'
<1>1. PICK e, s, p : e = work[b].event /\ s = sessions[b] /\ p = work[b].plan
  OBVIOUS
<1>2. PICK q, t : q = [p EXCEPT !.last = Keep] /\ t = Stored(p.last, e)
  OBVIOUS
<1>3. /\ work[b].phase = "written" /\ UNCHANGED <<packs, sent, overtaken>>
      /\ sessions' = [sessions EXCEPT ![b] = t] /\ Proceed(b, e, q, failed[b])
  BY <1>1, <1>2 DEF PutLast, InPhase
<1>4. WorkFits(b, s, work[b], failed[b], overtaken, sent) /\ sent \in Nat
  BY <1>1, ConfiguratorAssumption DEF ItemsInv, WorksOK, CountsOK
<1>5. /\ PlanOK(e, p, overtaken, sent) /\ p.first = Keep /\ p.draft = Keep /\ p.last # Keep
      /\ EventOK(b, e, sent)
  BY <1>1, <1>3, <1>4 DEF WorkFits
<1>6. /\ p = [first |-> p.first, raises |-> p.raises, draft |-> p.draft, last |-> p.last, view |-> p.view]
      /\ SessOK(p.last, sent) /\ (e.kind = "required" => p.last.flow = "none")
  BY <1>5 DEF PlanOK
<1>7. q = [first |-> p.first, raises |-> p.raises, draft |-> p.draft, last |-> Keep, view |-> p.view]
  BY <1>2, <1>6
<1>8. /\ q.first = Keep /\ q.raises = p.raises /\ q.draft = Keep /\ q.last = Keep
      /\ q = [first |-> q.first, raises |-> q.raises, draft |-> q.draft, last |-> q.last, view |-> q.view]
  BY <1>5, <1>7
<1>9. PlanOK(e, q, overtaken, sent)
  BY <1>5, <1>8 DEF PlanOK
<1>10. /\ SessOK(t, sent) /\ (t.last = Id(e) \/ t.flow = "none")
       /\ e.kind = "required" => t.flow = "none"
  BY <1>2, <1>4, <1>5, <1>6, StoredIs
<1>11. \A d : SafeIn(t, e, d)
  BY <1>10 DEF SafeIn
<1>12. q.draft = work[b].plan.draft
  BY <1>1, <1>5, <1>8
<1> QED BY <1>1, <1>3, <1>8, <1>9, <1>10, <1>11, <1>12, PutKeeps

-----------------------------------------------------------------------------
(* Theorems.                                                               *)

\* The seed is a definition whose items no event added.
LEMMA SeedIsOK == \A O : DefOK(Seed, O, 0)
<1> SUFFICES ASSUME NEW O PROVE DefOK(Seed, O, 0)
  OBVIOUS
<1>1. ASSUME NEW base \in Bases, NEW type \in {"service", "address", "enum", "text"}
      PROVE  ListOK(<<Item(Key(base, 1), type, NoEvent)>>, O, 0)
  <2>1. PICK x : x = Item(Key(base, 1), type, NoEvent)
    OBVIOUS
  <2>2. x = [key |-> Key(base, 1), type |-> type, prompt |-> NoLabel, by |-> NoEvent]
    BY <2>1 DEF Item
  <2>3. KeyOK(Key(base, 1))
    BY DEF KeyOK, Key
  <2>4. Key(base, 1) \in [base : {Base[l] : l \in Labels} \cup {Address}, n : Nat]
    BY DEF Key, Bases
  <2>5. NoEvent \in [channel : Channels \cup {"none"}, n : Nat]
    BY DEF NoEvent
  <2>6. x \in Items
    BY <2>2, <2>4, <2>5 DEF Items
  <2>7. ItemOK(x, 0)
    BY <2>2, <2>3, <2>6 DEF ItemOK
  <2>8. <<x>> \in Seq(Items) /\ DOMAIN <<x>> = {1} /\ <<x>>[1] = x
    BY <2>6
  <2>9. ListOK(<<x>>, O, 0)
    BY <2>7, <2>8 DEF ListOK, Distinct
  <2> QED BY <2>1, <2>9
<1>2. Base[SeedLabel] \in Bases /\ Address \in Bases
  BY PacksAssumption DEF Bases
<1>3. PICK d : d = Seed
  OBVIOUS
<1>4. PICK services, fields :
        /\ services = <<Item(Key(Base[SeedLabel], 1), "service", NoEvent)>>
        /\ fields = <<Item(AddressKey, "address", NoEvent)>>
  OBVIOUS
<1>5. ListOK(services, O, 0) /\ ListOK(fields, O, 0)
  BY <1>1, <1>2, <1>4 DEF AddressKey
<1>6. d = [name |-> TRUE, services |-> services, fields |-> fields]
  BY <1>3, <1>4 DEF Seed
<1>7. DefOK(d, O, 0)
  BY <1>5, <1>6 DEF DefOK
<1> QED BY <1>3, <1>7

\* At first only the seed circulates.
LEMMA ItemsBegin == Init => ItemsInv
<1> SUFFICES ASSUME Init PROVE ItemsInv
  OBVIOUS
<1>1. /\ packs = [v \in {1} |-> Row("active", Seed)]
      /\ sessions = [c \in Channels |-> NoSession] /\ work = [c \in Channels |-> NoWork]
      /\ failed = [c \in Channels |-> {}] /\ sent = 0 /\ faults = 0 /\ overtaken = {}
  BY DEF Init, Bootstrapped
<1>2. IInv
  BY InitHolds
<1>3. DOMAIN packs = {1} /\ packs[1].state = "active" /\ packs[1].definition = Seed
  BY <1>1 DEF Row
<1>4. HasActive
  BY <1>3 DEF HasActive, InState
<1>5. CountsOK
  BY <1>1, ConfiguratorAssumption DEF CountsOK
<1>6. RowsOK
  BY <1>1, <1>3, SeedIsOK DEF RowsOK
<1>7. SessionsOK
  <2>1. SessOK(NoSession, 0)
    BY NoSessionIs DEF LastOK
  <2> QED BY <1>1, <2>1 DEF SessionsOK
<1>8. FailedOK
  BY <1>1 DEF FailedOK
<1>9. WorksOK
  BY <1>1, NoWorkIs DEF WorksOK
<1>10. SafeOK
  <2>1. \A c \in Channels : work[c] = NoWork /\ failed[c] = {}
    BY <1>1
  <2>2. \A c \in Channels : \A e : ~Pending(e, work[c], failed[c])
    BY <2>1, NoWorkIs DEF Pending
  <2> QED BY <2>2 DEF SafeOK, Safe
<1> QED BY <1>2, <1>4, <1>5, <1>6, <1>7, <1>8, <1>9, <1>10 DEF ItemsInv

\* Every step keeps the invariant.
LEMMA ItemsStep == ItemsInv /\ [Next]_vars => ItemsInv'
<1> SUFFICES ASSUME ItemsInv, [Next]_vars PROVE ItemsInv'
  OBVIOUS
<1>1. CASE UNCHANGED vars
  BY <1>1 DEF vars, ItemsInv, IInv, Numbered, Rows, VersionsFollowPublication, PublishedIsValid,
              HasActive, InState, CountsOK, RowsOK, SessionsOK, FailedOK, WorksOK, SafeOK
<1>2. CASE Next
  <2>1. PICK b \in Channels :
          \/ MakeDraft(b) \/ PutFirst(b) \/ WriteDraft(b) \/ PutLast(b) \/ View(b) \/ Raise(b)
          \/ \E e \in failed[b] : TakeAgain(b, e)
          \/ TakeNew(b)
    BY <1>2 DEF Next
  <2> QED BY <2>1, MakeDraftKeeps, PutFirstKeeps, WriteDraftKeeps, PutLastKeeps, ViewKeeps,
             RaiseKeeps, TakeAgainKeeps, TakeNewKeeps
<1> QED BY <1>1, <1>2

\* All that circulates is in order, and sessions show what their events have
\* added, whatever is handled, fails and is handed over again.
THEOREM ItemsInvariance == Spec => []ItemsInv
BY ItemsBegin, ItemsStep, PTL DEF Spec

\* An item has a key of its own and is added once, for any number of
\* messengers, events and failures (item_key of _service_save, scratch of
\* _field_required, state_handled_event, _slug).
THEOREM ItemsOnce == Spec => []ItemsAddedOnce
<1>1. ItemsInv => ItemsAddedOnce
  BY DEF ItemsInv, RowsOK, DefOK, ListOK, Distinct, ItemsAddedOnce, DistinctItems
<1> QED BY <1>1, ItemsInvariance, PTL

\* At most one revision is a draft, and at most one is active.
LEMMA OneOfEach ==
  ASSUME IInv, NEW state \in {"draft", "active"}
  PROVE  Cardinality(InState({state})) <= 1
<1>1. \A v, w \in InState({state}) : v = w
  <2> SUFFICES ASSUME NEW v \in InState({state}), NEW w \in InState({state}), v < w PROVE FALSE
    BY Integral DEF InState
  <2>1. v \in DOMAIN packs /\ w \in DOMAIN packs /\ packs[v].state = state /\ packs[w].state = state
    BY DEF InState
  <2> QED BY <2>1 DEF IInv, VersionsFollowPublication
<1>2. PICK S : S = InState({state})
  OBVIOUS
<1>3. CASE S = {}
  <2>1. Cardinality(S) = 0
    BY <1>3, FS_EmptySet
  <2> QED BY <1>2, <2>1
<1>4. CASE S # {}
  <2>1. PICK v : v \in S
    BY <1>4
  <2>2. S = {v}
    BY <1>1, <1>2, <2>1
  <2>3. Cardinality(S) = 1
    BY <2>2, FS_Singleton
  <2> QED BY <1>2, <2>3
<1> QED BY <1>3, <1>4

\* The table has at most one draft and one active revision
\* (uq_org_packs_one_draft, uq_org_packs_one_active), well-formed definitions
\* and numbers from 1.
THEOREM TypesHold == Spec => []TypeOK
<1>1. ASSUME ItemsInv PROVE TypeOK
  <2>1. IInv /\ CountsOK /\ RowsOK /\ FailedOK
    BY <1>1 DEF ItemsInv
  <2>2. DOMAIN packs \subseteq 1..MaxVersion
    BY <2>1, PacksAssumption DEF IInv, Numbered
  <2>3. \A v \in DOMAIN packs : packs[v].state \in States /\ IsDefinition(packs[v].definition)
    BY <2>1 DEF IInv, Rows, RowsOK, DefOK, ListOK, ItemOK, IsDefinition
  <2>4. Cardinality(InState({"draft"})) <= 1 /\ Cardinality(InState({"active"})) <= 1
    BY <2>1, OneOfEach
  <2>5. \A c \in Channels : \A e \in failed[c] : e.channel = c
    BY <2>1 DEF FailedOK, EventOK
  <2> QED BY <2>1, <2>2, <2>3, <2>4, <2>5 DEF TypeOK, CountsOK
<1> QED BY <1>1, ItemsInvariance, PTL
=============================================================================
