------------------------ MODULE DurableQueue_proofs ------------------------
(***************************************************************************)
(* Theorems about DurableQueue, for any items, workers, batches and        *)
(* limits: claims are told apart, an item is dead-lettered only after its  *)
(* attempts, the work is done at most once for each claim, nothing settled *)
(* comes back, and the queue implements the safety of Mailbox.             *)
(***************************************************************************)
EXTENDS DurableQueue, FiniteSetTheorems, TLAPS

\* While nothing went wrong, a claim in use is the row's last one, and the row
\* waits for its mark: it is not ripe, so nobody may claim it.
Fresh ==
  faults = 0 =>
    \A w \in Workers : \A c \in held[w] :
      /\ rows[c.item].status = "processing"
      /\ c.attempt = rows[c.item].attempts
      /\ rows[c.item].ripe = FALSE

\* A claim is of a row that was accepted; work that was done was counted.
Accounted ==
  \A w \in Workers : \A c \in held[w] :
    /\ rows[c.item].status # "absent"
    /\ c.done => executions[c.item] > 0

IInv == TypeOK /\ ClaimsAreDistinct /\ DeadAfterLimit /\ Fresh /\ Accounted

-----------------------------------------------------------------------------
(* Rows.                                                                   *)

\* The row operations lead from rows to rows.
LEMMA RowsStayRows ==
  /\ NoRow \in Rows /\ Accepted \in Rows
  /\ \A r \in Rows : Claimed(r) \in Rows /\ MarkedProcessed(r) \in Rows
  /\ \A r \in Rows, n \in Nat : MarkedFailed(r, n) \in Rows
<1>1. NoRow \in Rows /\ Accepted \in Rows
  BY DEF Rows, NoRow, Accepted, Open, Terminal
<1>2. \A r \in Rows : Claimed(r) \in Rows
  BY DEF Rows, Claimed, Open, Terminal
<1>3. \A r \in Rows : MarkedProcessed(r) \in Rows
  BY DEF Rows, MarkedProcessed, Open, Terminal
<1>4. \A r \in Rows, n \in Nat : MarkedFailed(r, n) \in Rows
  BY DEF Rows, MarkedFailed, Open, Terminal
<1> QED BY <1>1, <1>2, <1>3, <1>4

\* The marks leave the attempts alone and change processing rows only.
LEMMA MarksKeep ==
  ASSUME NEW r \in Rows, NEW n \in Nat
  PROVE  /\ MarkedProcessed(r).attempts = r.attempts
         /\ MarkedFailed(r, n).attempts = r.attempts
         /\ r.status # "absent" => MarkedProcessed(r).status # "absent"
         /\ r.status # "absent" => MarkedFailed(r, n).status # "absent"
         /\ MarkedProcessed(r).status = "dead" => r.status = "dead"
         /\ MarkedFailed(r, n).status = "dead" => r.status = "dead" \/ n >= MaxAttempts
BY QueueAssumption DEF Rows, MarkedProcessed, MarkedFailed, Open, Terminal

-----------------------------------------------------------------------------
(* Every action keeps the invariant.                                       *)

\* The queue starts empty and unclaimed.
LEMMA InitHolds == Init => IInv
BY QueueAssumption, RowsStayRows
DEF Init, IInv, TypeOK, ClaimsAreDistinct, DeadAfterLimit, Fresh, Accounted, NoRow

\* accept: a new row that no claim refers to.
LEMMA AcceptKeeps ==
  ASSUME IInv, NEW i \in Items, Accept(i)
  PROVE  IInv'
<1>1. TypeOK'
  BY RowsStayRows DEF IInv, TypeOK, Accept
<1>2. \A w \in Workers : \A c \in held[w] : c.item # i /\ c \in Claims
  BY DEF IInv, TypeOK, Accept, Accounted
<1>3. \A w \in Workers : \A c \in held[w] : rows'[c.item] = rows[c.item]
  BY <1>2 DEF IInv, TypeOK, Accept, Claims
<1>4. ClaimsAreDistinct'
  BY <1>3 DEF IInv, ClaimsAreDistinct, Accept
<1>5. DeadAfterLimit'
  BY DEF IInv, TypeOK, DeadAfterLimit, Accept, Accepted
<1>6. Fresh' /\ Accounted'
  BY <1>3 DEF IInv, Fresh, Accounted, Accept
<1> QED BY <1>1, <1>4, <1>5, <1>6 DEF IInv

\* A row that gets due or stale keeps its claims.
LEMMA RipenKeeps ==
  ASSUME IInv, NEW i \in Items, Ripen(i)
  PROVE  IInv'
<1>1. TypeOK'
  <2>1. [rows[i] EXCEPT !.ripe = TRUE] \in Rows
    BY DEF IInv, TypeOK, Rows
  <2>2. rows' \in [Items -> Rows]
    BY <2>1 DEF IInv, TypeOK, Ripen
  <2>3. faults' \in 0 .. MaxFaults
    BY QueueAssumption DEF IInv, TypeOK, Ripen
  <2> QED BY <2>2, <2>3 DEF IInv, TypeOK, Ripen
<1>2. \A j \in Items : rows'[j].status = rows[j].status /\ rows'[j].attempts = rows[j].attempts
  BY DEF IInv, TypeOK, Ripen, Rows
<1>3. \A w \in Workers : \A c \in held[w] : c.item \in Items
  BY DEF IInv, TypeOK, Claims
<1>4. ClaimsAreDistinct' /\ DeadAfterLimit' /\ Accounted'
  BY <1>2, <1>3 DEF IInv, ClaimsAreDistinct, DeadAfterLimit, Accounted, Ripen
<1>5. Fresh'
  <2>1. SUFFICES ASSUME faults' = 0, NEW w \in Workers, NEW c \in held[w]
                 PROVE  rows'[c.item].status = "processing"
                        /\ c.attempt = rows'[c.item].attempts
                        /\ rows'[c.item].ripe = FALSE
    BY DEF Fresh, Ripen
  <2>2. faults = 0
    BY <2>1 DEF IInv, TypeOK, Ripen
  <2>3. c.item # i
    BY <2>1, <2>2 DEF IInv, TypeOK, Fresh, Ripen, HeldNow
  <2> QED BY <1>2, <1>3, <2>2, <2>3 DEF IInv, TypeOK, Fresh, Ripen
<1> QED BY <1>1, <1>4, <1>5 DEF IInv

\* claim_batch: each row of the batch gets a claim of its own.
LEMMA ClaimKeeps ==
  ASSUME IInv, NEW w \in Workers, NEW batch \in SUBSET Items, Claim(w, batch)
  PROVE  IInv'
<1> DEFINE New(i) == [item |-> i, attempt |-> Claimed(rows[i]).attempts, done |-> FALSE]
<1>1. /\ rows' = [i \in Items |-> IF i \in batch THEN Claimed(rows[i]) ELSE rows[i]]
      /\ held' = [held EXCEPT ![w] = {New(i) : i \in batch}]
      /\ UNCHANGED <<executions, faults>>
  BY DEF Claim
<1>2. \A i \in Items : New(i) \in Claims /\ New(i).attempt = rows[i].attempts + 1
                       /\ New(i).item = i /\ New(i).done = FALSE
  BY DEF IInv, TypeOK, Claims, Claimed, Rows
<1> HIDE DEF New
<1>3. TypeOK'
  <2>1. rows' \in [Items -> Rows]
    BY <1>1, RowsStayRows DEF IInv, TypeOK
  <2>2. held' \in [Workers -> SUBSET Claims]
    BY <1>1, <1>2 DEF IInv, TypeOK
  <2> QED BY <1>1, <2>1, <2>2 DEF IInv, TypeOK
<1>4. \A i \in Items : /\ i \in batch => /\ rows'[i].status = "processing"
                                         /\ rows'[i].ripe = FALSE
                                         /\ rows'[i].attempts = rows[i].attempts + 1
                       /\ i \notin batch => rows'[i] = rows[i]
  BY <1>1 DEF Claimed
<1>5. \A v \in Workers : \A c \in held'[v] :
        \/ v = w /\ c.item \in batch /\ c.item \in Items /\ c.attempt = rows[c.item].attempts + 1
           /\ c.done = FALSE /\ c = New(c.item)
        \/ v # w /\ c \in held[v]
  BY <1>1, <1>2 DEF IInv, TypeOK
<1>6. \A v \in Workers : \A c \in held[v] :
        c \in Claims /\ c.item \in Items /\ c.attempt \in Nat
        /\ c.attempt <= rows[c.item].attempts
  BY DEF IInv, TypeOK, Claims, ClaimsAreDistinct
<1>7. \A i \in Items : rows[i].attempts \in Nat /\ rows'[i].attempts >= rows[i].attempts
  <2>1. \A i \in Items : rows[i].attempts \in Nat
    BY DEF IInv, TypeOK, Rows
  <2> QED BY <1>4, <2>1
<1>8. ClaimsAreDistinct'
  <2>1. SUFFICES ASSUME NEW u \in Workers, NEW v \in Workers, NEW c \in held'[u], NEW d \in held'[v]
                 PROVE  /\ c.attempt <= rows'[c.item].attempts
                        /\ (c.item = d.item /\ c.attempt = d.attempt) => (u = v /\ c = d)
    BY DEF ClaimsAreDistinct
  <2>2. CASE u = w /\ v = w
    <3>1. c.item \in batch /\ c.item \in Items /\ c.attempt = rows[c.item].attempts + 1
          /\ c = New(c.item) /\ d = New(d.item)
      BY <1>5, <2>2
    <3>2. c.attempt <= rows'[c.item].attempts
      BY <1>4, <1>7, <3>1
    <3> QED BY <2>2, <3>1, <3>2
  <2>3. CASE u = w /\ v # w
    <3>1. c.item \in batch /\ c.item \in Items /\ c.attempt = rows[c.item].attempts + 1
      BY <1>5, <2>3
    <3>2. d.item \in Items /\ d.attempt \in Nat /\ d.attempt <= rows[d.item].attempts
      BY <1>5, <1>6, <2>3
    <3>3. c.attempt <= rows'[c.item].attempts
      BY <1>4, <1>7, <3>1
    <3>4. c.item = d.item => c.attempt # d.attempt
      BY <1>7, <3>1, <3>2
    <3> QED BY <3>3, <3>4
  <2>4. CASE u # w /\ v = w
    <3>1. d.item \in batch /\ d.item \in Items /\ d.attempt = rows[d.item].attempts + 1
      BY <1>5, <2>4
    <3>2. c.item \in Items /\ c.attempt \in Nat /\ c.attempt <= rows[c.item].attempts
      BY <1>5, <1>6, <2>4
    <3>3. c.attempt <= rows'[c.item].attempts
      <4>1. rows'[c.item].attempts \in Nat
        BY <1>4, <1>7, <3>2
      <4> QED BY <1>7, <3>2, <4>1
    <3>4. c.item = d.item => c.attempt # d.attempt
      BY <1>7, <3>1, <3>2
    <3> QED BY <3>3, <3>4
  <2>5. CASE u # w /\ v # w
    <3>1. c \in held[u] /\ d \in held[v]
      BY <1>5, <2>5
    <3>2. (c.item = d.item /\ c.attempt = d.attempt) => (u = v /\ c = d)
      BY <3>1 DEF IInv, ClaimsAreDistinct
    <3>3. c.item \in Items /\ c.attempt \in Nat /\ c.attempt <= rows[c.item].attempts
      BY <1>6, <3>1
    <3>4. rows'[c.item].attempts \in Nat
      BY <1>4, <1>7, <3>3
    <3>5. c.attempt <= rows'[c.item].attempts
      BY <1>7, <3>3, <3>4
    <3> QED BY <3>2, <3>5
  <2> QED BY <2>2, <2>3, <2>4, <2>5
<1>9. DeadAfterLimit'
  <2>1. SUFFICES ASSUME NEW i \in Items, rows'[i].status = "dead"
                 PROVE  rows'[i].attempts >= MaxAttempts
    BY DEF DeadAfterLimit
  <2>2. rows'[i] = rows[i]
    BY <1>4, <2>1
  <2> QED BY <2>1, <2>2 DEF IInv, DeadAfterLimit
<1>10. Fresh'
  <2>1. SUFFICES ASSUME faults' = 0, NEW v \in Workers, NEW c \in held'[v]
                 PROVE  rows'[c.item].status = "processing"
                        /\ c.attempt = rows'[c.item].attempts
                        /\ rows'[c.item].ripe = FALSE
    BY DEF Fresh
  <2>2. CASE v = w
    <3>1. c.item \in batch /\ c.item \in Items /\ c.attempt = rows[c.item].attempts + 1
      BY <1>5, <2>2
    <3> QED BY <1>4, <3>1
  <2>3. CASE v # w
    <3>1. c \in held[v] /\ faults = 0
      BY <1>1, <1>5, <2>1, <2>3
    <3>2. c.item \notin batch
      BY <1>6, <3>1 DEF IInv, Fresh, Claim, Claimable
    <3> QED BY <1>4, <1>6, <3>1, <3>2 DEF IInv, Fresh
  <2> QED BY <2>2, <2>3
<1>11. Accounted'
  <2>1. SUFFICES ASSUME NEW v \in Workers, NEW c \in held'[v]
                 PROVE  rows'[c.item].status # "absent" /\ (c.done => executions'[c.item] > 0)
    BY DEF Accounted
  <2>2. CASE v = w
    <3>1. c.item \in batch /\ c.item \in Items /\ c.done = FALSE
      BY <1>5, <2>2
    <3> QED BY <1>4, <3>1
  <2>3. CASE v # w
    <3>1. c \in held[v] /\ c.item \in Items
      BY <1>5, <1>6, <2>3
    <3>2. rows[c.item].status # "absent" /\ (c.done => executions[c.item] > 0)
      BY <3>1 DEF IInv, Accounted
    <3>3. rows'[c.item].status # "absent"
      BY <1>4, <3>1, <3>2
    <3>4. executions' = executions
      BY <1>1
    <3> QED BY <3>2, <3>3, <3>4
  <2> QED BY <2>2, <2>3
<1> QED BY <1>3, <1>8, <1>9, <1>10, <1>11 DEF IInv

\* Handling an item spends the claim.
LEMMA ExecuteKeeps ==
  ASSUME IInv, NEW w \in Workers, NEW claim \in held[w], Execute(w, claim)
  PROVE  IInv'
<1> DEFINE spent == [claim EXCEPT !.done = TRUE]
<1>1. /\ claim \in Claims /\ claim.item \in Items /\ claim.attempt \in Nat
      /\ spent \in Claims /\ spent.item = claim.item /\ spent.attempt = claim.attempt
  <2>1. claim \in Claims
    BY DEF IInv, TypeOK
  <2> QED BY <2>1 DEF Claims
<1>2. /\ executions' = [executions EXCEPT ![claim.item] = @ + 1]
      /\ held' = [held EXCEPT ![w] = (@ \ {claim}) \cup {spent}]
      /\ UNCHANGED <<rows, faults>>
  BY DEF Execute
<1> HIDE DEF spent
<1>3. TypeOK'
  <2>1. executions' \in [Items -> Nat]
    BY <1>1, <1>2 DEF IInv, TypeOK
  <2>2. held' \in [Workers -> SUBSET Claims]
    BY <1>1, <1>2 DEF IInv, TypeOK
  <2> QED BY <1>2, <2>1, <2>2 DEF IInv, TypeOK
<1>4. \A v \in Workers : \A c \in held'[v] :
        \/ v = w /\ c = spent
        \/ c \in held[v] /\ (v = w => c # claim)
  BY <1>2 DEF IInv, TypeOK
<1>5. ClaimsAreDistinct'
  <2>1. SUFFICES ASSUME NEW u \in Workers, NEW v \in Workers, NEW c \in held'[u], NEW d \in held'[v]
                 PROVE  /\ c.attempt <= rows[c.item].attempts
                        /\ (c.item = d.item /\ c.attempt = d.attempt) => (u = v /\ c = d)
    BY <1>2 DEF ClaimsAreDistinct
  <2>2. \A x \in Workers : \A e \in held'[x] : \E f \in held[x] :
          f.item = e.item /\ f.attempt = e.attempt
    BY <1>1, <1>4
  <2>3. c.attempt <= rows[c.item].attempts
    BY <2>2 DEF IInv, ClaimsAreDistinct
  <2>4. ASSUME c.item = d.item, c.attempt = d.attempt PROVE u = v /\ c = d
    <3>1. u = v
      BY <2>2, <2>4 DEF IInv, ClaimsAreDistinct
    <3>2. CASE c = spent /\ u = w
      BY <1>1, <1>4, <2>4, <3>1, <3>2 DEF IInv, ClaimsAreDistinct
    <3>3. CASE c \in held[u] /\ (u = w => c # claim)
      BY <1>1, <1>4, <2>4, <3>1, <3>3 DEF IInv, ClaimsAreDistinct
    <3> QED BY <1>4, <3>1, <3>2, <3>3
  <2> QED BY <2>3, <2>4
<1>6. DeadAfterLimit' /\ Fresh'
  <2>1. DeadAfterLimit'
    BY <1>2 DEF IInv, DeadAfterLimit
  <2>2. \A x \in Workers : \A e \in held'[x] : \E f \in held[x] :
          f.item = e.item /\ f.attempt = e.attempt
    BY <1>1, <1>4
  <2>3. Fresh'
    BY <1>2, <2>2 DEF IInv, Fresh
  <2> QED BY <2>1, <2>3
<1>7. \A i \in Items : executions'[i] >= executions[i] /\ executions'[claim.item] > 0
  BY <1>1, <1>2 DEF IInv, TypeOK, Claims
<1>8. Accounted'
  <2>1. SUFFICES ASSUME NEW v \in Workers, NEW c \in held'[v]
                 PROVE  rows[c.item].status # "absent" /\ (c.done => executions'[c.item] > 0)
    BY <1>2 DEF Accounted
  <2>2. CASE v = w /\ c = spent
    BY <1>1, <1>7, <2>2 DEF IInv, Accounted, Claims
  <2>3. CASE c \in held[v]
    <3>1. c.item \in Items
      BY <2>3 DEF IInv, TypeOK, Claims
    <3> QED BY <1>3, <1>7, <2>3, <3>1 DEF IInv, TypeOK, Accounted
  <2> QED BY <1>4, <2>2, <2>3
<1> QED BY <1>3, <1>5, <1>6, <1>8 DEF IInv

\* What Finish and Fail have in common: the row of a claim is marked, and the
\* claim is given back.
MarkStep(w, claim) ==
  /\ \E row \in {MarkedProcessed(rows[claim.item]), MarkedFailed(rows[claim.item], claim.attempt)} :
       rows' = [rows EXCEPT ![claim.item] = row]
  /\ held' = [held EXCEPT ![w] = @ \ {claim}]
  /\ UNCHANGED <<executions, faults>>

\* mark_processed and mark_failed, whoever calls them for whichever attempt.
LEMMA MarkKeeps ==
  ASSUME IInv, NEW w \in Workers, NEW claim \in held[w], MarkStep(w, claim)
  PROVE  IInv'
<1>1. PICK row \in {MarkedProcessed(rows[claim.item]), MarkedFailed(rows[claim.item], claim.attempt)} :
        rows' = [rows EXCEPT ![claim.item] = row]
  BY DEF MarkStep
<1>2. /\ held' = [held EXCEPT ![w] = @ \ {claim}]
      /\ UNCHANGED <<executions, faults>>
  BY DEF MarkStep
<1>3. claim \in Claims /\ claim.item \in Items /\ claim.attempt \in Nat /\ rows[claim.item] \in Rows
  BY DEF IInv, TypeOK, Claims
<1>4. row \in Rows
  BY <1>1, <1>3, RowsStayRows
<1>5. /\ row.attempts = rows[claim.item].attempts
      /\ rows[claim.item].status # "absent" => row.status # "absent"
      /\ row.status = "dead" => rows[claim.item].status = "dead" \/ claim.attempt >= MaxAttempts
  BY <1>1, <1>3, MarksKeep
<1>6. TypeOK'
  BY <1>1, <1>2, <1>3, <1>4 DEF IInv, TypeOK
<1>7. \A i \in Items : /\ i # claim.item => rows'[i] = rows[i]
                       /\ rows'[i].attempts = rows[i].attempts
                       /\ rows[i].status # "absent" => rows'[i].status # "absent"
  BY <1>1, <1>3, <1>5 DEF IInv, TypeOK
<1>8. \A v \in Workers : \A c \in held'[v] :
        c \in held[v] /\ c.item \in Items /\ (v = w => c # claim)
  BY <1>2 DEF IInv, TypeOK, Claims
<1>9. ClaimsAreDistinct' /\ Accounted'
  BY <1>2, <1>7, <1>8 DEF IInv, ClaimsAreDistinct, Accounted
<1>10. DeadAfterLimit'
  <2>1. claim.attempt <= rows[claim.item].attempts
    BY DEF IInv, ClaimsAreDistinct
  <2>2. SUFFICES ASSUME NEW i \in Items, rows'[i].status = "dead"
                 PROVE  rows'[i].attempts >= MaxAttempts
    BY DEF DeadAfterLimit
  <2>3. CASE i # claim.item
    BY <1>7, <2>2, <2>3 DEF IInv, DeadAfterLimit
  <2>4. CASE i = claim.item
    <3>1. rows'[i] = row
      BY <1>1, <1>3, <2>4 DEF IInv, TypeOK
    <3>2. rows[i].attempts \in Nat /\ MaxAttempts \in Nat
      BY <1>3, <2>4, QueueAssumption DEF Rows
    <3>3. CASE rows[claim.item].status = "dead"
      BY <1>3, <1>5, <2>4, <3>1, <3>3 DEF IInv, DeadAfterLimit
    <3>4. CASE claim.attempt >= MaxAttempts
      BY <1>3, <1>5, <2>1, <2>4, <3>1, <3>2, <3>4
    <3> QED BY <1>5, <2>2, <3>1, <3>3, <3>4
  <2> QED BY <2>3, <2>4
<1>11. Fresh'
  <2>1. SUFFICES ASSUME faults = 0, NEW v \in Workers, NEW c \in held'[v]
                 PROVE  rows'[c.item].status = "processing"
                        /\ c.attempt = rows'[c.item].attempts
                        /\ rows'[c.item].ripe = FALSE
    BY <1>2 DEF Fresh
  <2>2. c.item # claim.item
    <3>1. c.item = claim.item => c.attempt = claim.attempt
      BY <1>8, <2>1 DEF IInv, Fresh
    <3> QED BY <1>8, <3>1 DEF IInv, ClaimsAreDistinct
  <2> QED BY <1>7, <1>8, <2>1, <2>2 DEF IInv, Fresh
<1> QED BY <1>6, <1>9, <1>10, <1>11 DEF IInv

\* A crash drops claims only.
LEMMA AbandonKeeps ==
  ASSUME IInv, NEW w \in Workers, Abandon(w)
  PROVE  IInv'
<1>1. TypeOK' /\ faults' # 0
  BY QueueAssumption DEF IInv, TypeOK, Abandon
<1>2. \A v \in Workers : held'[v] \subseteq held[v]
  BY DEF IInv, TypeOK, Abandon
<1>3. ClaimsAreDistinct' /\ DeadAfterLimit' /\ Fresh' /\ Accounted'
  BY <1>1, <1>2 DEF IInv, ClaimsAreDistinct, DeadAfterLimit, Fresh, Accounted, Abandon
<1> QED BY <1>1, <1>3 DEF IInv

\* Every step keeps the invariant.
LEMMA StepKeeps == IInv /\ [Next]_vars => IInv'
<1> SUFFICES ASSUME IInv, [Next]_vars PROVE IInv'
  OBVIOUS
<1>1. CASE UNCHANGED vars
  BY <1>1 DEF vars, IInv, TypeOK, ClaimsAreDistinct, DeadAfterLimit, Fresh, Accounted
<1>2. ASSUME NEW i \in Items, Accept(i) PROVE IInv'
  BY <1>2, AcceptKeeps
<1>3. ASSUME NEW i \in Items, Ripen(i) PROVE IInv'
  BY <1>3, RipenKeeps
<1>4. ASSUME NEW w \in Workers, ClaimSome(w) PROVE IInv'
  BY <1>4, ClaimKeeps DEF ClaimSome
<1>5. ASSUME NEW w \in Workers, NEW c \in held[w], Execute(w, c) PROVE IInv'
  BY <1>5, ExecuteKeeps
<1>6. ASSUME NEW w \in Workers, NEW c \in held[w], Finish(w, c) \/ Fail(w, c) PROVE IInv'
  <2>1. rows \in [Items -> Rows] /\ c.item \in Items
    BY DEF IInv, TypeOK, Claims
  <2>2. MarkStep(w, c)
    BY <1>6, <2>1 DEF Finish, Fail, MarkStep
  <2> QED BY <2>2, MarkKeeps
<1>7. ASSUME NEW w \in Workers, Abandon(w) PROVE IInv'
  BY <1>7, AbandonKeeps
<1> QED BY <1>1, <1>2, <1>3, <1>4, <1>5, <1>6, <1>7 DEF Next, Work

-----------------------------------------------------------------------------
(* The invariants.                                                         *)

\* The inductive invariant holds in every reachable state (messaging.py).
THEOREM Invariance == Spec => []IInv
<1>1. Init => IInv
  BY InitHolds
<1>2. IInv /\ [Next]_vars => IInv'
  BY StepKeeps
<1> QED BY <1>1, <1>2, PTL DEF Spec, Safety

\* The rows are rows the table's checks admit, the batches are claims.
THEOREM TypeCorrect == Spec => []TypeOK
<1>1. IInv => TypeOK
  BY DEF IInv
<1> QED BY <1>1, Invariance, PTL

\* However many workers claim, mark late or die, no two of them ever go by the
\* same claim (PostgresInbox.claim).
THEOREM ClaimsDistinct == Spec => []ClaimsAreDistinct
<1>1. IInv => ClaimsAreDistinct
  BY DEF IInv
<1> QED BY <1>1, Invariance, PTL

\* No item is given up before its last attempt (mark_failed).
THEOREM DeadLettersAreLate == Spec => []DeadAfterLimit
<1>1. IInv => DeadAfterLimit
  BY DEF IInv
<1> QED BY <1>1, Invariance, PTL

\* Without faults a held item belongs to its holder (claim's stale interval).
THEOREM Exclusive == Spec => []ExclusiveUntilStale
<1>1. IInv => ExclusiveUntilStale
  BY DEF IInv, Fresh, ExclusiveUntilStale
<1> QED BY <1>1, Invariance, PTL

-----------------------------------------------------------------------------
(* What every step does to the rows.                                       *)

\* No step changes a settled row (the marks ask for status 'processing').
THEOREM Settled == Spec => SettledStays
<1>1. IInv /\ [Next]_vars => [\A i \in Items : rows[i].status \in Terminal => rows'[i] = rows[i]]_vars
  <2> SUFFICES ASSUME IInv, Next, NEW i \in Items, rows[i].status \in Terminal
               PROVE  rows'[i] = rows[i]
    OBVIOUS
  <2>1. rows \in [Items -> Rows] /\ held \in [Workers -> SUBSET Claims]
    BY DEF IInv, TypeOK
  <2>2. ASSUME NEW j \in Items, Accept(j) \/ Ripen(j) PROVE rows'[i] = rows[i]
    BY <2>1, <2>2 DEF Accept, Ripen, Open, Terminal
  <2>3. ASSUME NEW w \in Workers, ClaimSome(w) PROVE rows'[i] = rows[i]
    BY <2>1, <2>3 DEF ClaimSome, Claim, Claimable, Open, Terminal
  <2>4. ASSUME NEW w \in Workers, Work(w) PROVE rows'[i] = rows[i]
    BY <2>1, <2>4 DEF Work, Execute, Finish, Fail, MarkedProcessed, MarkedFailed, Terminal
  <2>5. ASSUME NEW w \in Workers, Abandon(w) PROVE rows'[i] = rows[i]
    BY <2>5 DEF Abandon
  <2> QED BY <2>2, <2>3, <2>4, <2>5 DEF Next
<1> QED BY <1>1, Invariance, PTL DEF Spec, Safety, SettledStays

-----------------------------------------------------------------------------
(* Work and claims are counted.                                            *)

\* The workers that have yet to do the work of an item they claimed.
Undone(i) == {w \in Workers : \E c \in held[w] : c.item = i /\ ~c.done}

\* A batch has an item once, and a row nobody accepted was never claimed.
OneEach ==
  /\ \A w \in Workers : \A c, d \in held[w] : c.item = d.item => c = d
  /\ \A i \in Items : rows[i].status = "absent" => rows[i].attempts = 0

Counted ==
  \A i \in Items :
    /\ IsFiniteSet(Undone(i))
    /\ executions[i] + Cardinality(Undone(i)) <= rows[i].attempts

CInv == OneEach /\ Counted

\* A step that claims nothing and does no work keeps the count.
LEMMA CountKept ==
  ASSUME IInv, Counted, NEW i \in Items, Undone(i)' \subseteq Undone(i),
         executions'[i] = executions[i],
         rows'[i].attempts = rows[i].attempts
  PROVE  IsFiniteSet(Undone(i)') /\ executions'[i] + Cardinality(Undone(i)') <= rows'[i].attempts
<1> DEFINE U == Undone(i)
           V == Undone(i)'
<1>1. IsFiniteSet(U) /\ executions[i] + Cardinality(U) <= rows[i].attempts
  BY DEF Counted
<1>2. V \subseteq U
  OBVIOUS
<1>3. executions[i] \in Nat /\ rows[i].attempts \in Nat
  BY DEF IInv, TypeOK, Rows
<1> HIDE DEF U, V
<1>4. IsFiniteSet(V) /\ Cardinality(V) <= Cardinality(U)
  BY <1>1, <1>2, FS_Subset
<1>5. Cardinality(U) \in Nat /\ Cardinality(V) \in Nat
  BY <1>1, <1>4, FS_CardinalityType
<1>6. executions[i] + Cardinality(V) <= rows[i].attempts
  BY <1>1, <1>3, <1>4, <1>5
<1> QED BY <1>4, <1>6 DEF V

\* Nothing was executed and no claim is out at the start.
LEMMA CountAtInit == Init => CInv
<1> SUFFICES ASSUME Init PROVE CInv
  OBVIOUS
<1>1. OneEach
  BY DEF Init, OneEach, NoRow
<1>2. ASSUME NEW i \in Items
      PROVE  IsFiniteSet(Undone(i)) /\ executions[i] + Cardinality(Undone(i)) <= rows[i].attempts
  <2>1. Undone(i) = {}
    BY DEF Init, Undone
  <2>2. executions[i] = 0 /\ rows[i].attempts = 0
    BY DEF Init, NoRow
  <2> QED BY <2>1, <2>2, FS_EmptySet
<1> QED BY <1>1, <1>2 DEF CInv, Counted

\* Accept, Ripen, Abandon, Finish and Fail.
LEMMA QuietStepKeepsCount ==
  ASSUME IInv, CInv,
         \A w \in Workers : held'[w] \subseteq held[w],
         UNCHANGED executions,
         \A i \in Items : rows'[i].attempts = rows[i].attempts,
         \A i \in Items : rows'[i].status = "absent" => rows[i].status = "absent"
  PROVE  CInv'
<1>1. OneEach'
  BY DEF CInv, OneEach
<1>2. ASSUME NEW i \in Items PROVE Undone(i)' \subseteq Undone(i)
  BY DEF Undone
<1>3. ASSUME NEW i \in Items
      PROVE  IsFiniteSet(Undone(i)') /\ executions'[i] + Cardinality(Undone(i)') <= rows'[i].attempts
  BY <1>2, CountKept DEF CInv
<1>4. Counted'
  BY <1>3 DEF Counted
<1> QED BY <1>1, <1>4 DEF CInv

\* Every claim that is handed out is paid for by an attempt.
LEMMA ClaimKeepsCount ==
  ASSUME IInv, CInv, NEW w \in Workers, NEW batch \in SUBSET Items, Claim(w, batch)
  PROVE  CInv'
<1> DEFINE New(i) == [item |-> i, attempt |-> Claimed(rows[i]).attempts, done |-> FALSE]
<1>1. /\ rows' = [i \in Items |-> IF i \in batch THEN Claimed(rows[i]) ELSE rows[i]]
      /\ held' = [held EXCEPT ![w] = {New(i) : i \in batch}]
      /\ held[w] = {} /\ UNCHANGED executions
  BY DEF Claim
<1>2. \A i \in Items : New(i).item = i /\ New(i).done = FALSE
  OBVIOUS
<1> HIDE DEF New
<1>3. /\ held'[w] = {New(i) : i \in batch}
      /\ \A v \in Workers : v # w => held'[v] = held[v]
  BY <1>1 DEF IInv, TypeOK
<1>4. OneEach'
  <2>1. \A v \in Workers : \A c, d \in held'[v] : c.item = d.item => c = d
    BY <1>2, <1>3 DEF CInv, OneEach
  <2>2. \A i \in Items : rows'[i].status = "absent" => rows'[i].attempts = 0
    BY <1>1 DEF CInv, OneEach, Claimed
  <2> QED BY <2>1, <2>2 DEF OneEach
<1>5. ASSUME NEW i \in Items
      PROVE  IsFiniteSet(Undone(i)') /\ executions'[i] + Cardinality(Undone(i)') <= rows'[i].attempts
  <2>1. CASE i \notin batch
    <3>1. Undone(i)' \subseteq Undone(i)
      BY <1>2, <1>3, <2>1 DEF Undone
    <3> QED BY <1>1, <2>1, <3>1, CountKept DEF CInv
  <2>2. CASE i \in batch
    <3> DEFINE U == Undone(i)
               V == Undone(i)'
    <3>1. V = U \cup {w} /\ w \notin U
      BY <1>1, <1>2, <1>3, <2>2 DEF Undone
    <3>2. IsFiniteSet(U) /\ executions[i] + Cardinality(U) <= rows[i].attempts
      BY DEF CInv, Counted
    <3>3. executions[i] \in Nat /\ rows[i].attempts \in Nat
      BY DEF IInv, TypeOK, Rows
    <3>4. rows'[i].attempts = rows[i].attempts + 1
      BY <1>1, <2>2 DEF Claimed
    <3> HIDE DEF U, V
    <3>5. IsFiniteSet(V) /\ Cardinality(V) = Cardinality(U) + 1 /\ Cardinality(U) \in Nat
      BY <3>1, <3>2, FS_AddElement, FS_CardinalityType
    <3>6. executions[i] + Cardinality(V) <= rows'[i].attempts
      BY <3>2, <3>3, <3>4, <3>5
    <3>7. IsFiniteSet(V) /\ executions'[i] + Cardinality(V) <= rows'[i].attempts
      BY <1>1, <3>5, <3>6
    <3> QED BY <3>7 DEF V
  <2> QED BY <2>1, <2>2
<1> QED BY <1>4, <1>5 DEF CInv, Counted

\* Every execution uses up a claim.
LEMMA ExecuteKeepsCount ==
  ASSUME IInv, CInv, NEW w \in Workers, NEW claim \in held[w], Execute(w, claim)
  PROVE  CInv'
<1> DEFINE spent == [claim EXCEPT !.done = TRUE]
<1>1. /\ claim \in Claims /\ claim.item \in Items /\ claim.done = FALSE
      /\ spent.item = claim.item /\ spent.done = TRUE
  <2>1. claim \in Claims
    BY DEF IInv, TypeOK
  <2> QED BY <2>1 DEF Claims, Execute
<1>2. /\ executions' = [executions EXCEPT ![claim.item] = executions[claim.item] + 1]
      /\ held' = [held EXCEPT ![w] = (held[w] \ {claim}) \cup {spent}]
      /\ UNCHANGED rows
  BY DEF Execute
<1> HIDE DEF spent
<1>3. /\ held'[w] = (held[w] \ {claim}) \cup {spent}
      /\ \A v \in Workers : v # w => held'[v] = held[v]
  BY <1>2 DEF IInv, TypeOK
<1>4. OneEach'
  BY <1>1, <1>2, <1>3 DEF CInv, OneEach
<1>5. ASSUME NEW i \in Items
      PROVE  IsFiniteSet(Undone(i)') /\ executions'[i] + Cardinality(Undone(i)') <= rows'[i].attempts
  <2>1. CASE i # claim.item
    <3>1. Undone(i)' \subseteq Undone(i)
      BY <1>1, <1>3, <2>1 DEF Undone
    <3>2. executions'[i] = executions[i] /\ rows'[i].attempts = rows[i].attempts
      BY <1>2, <2>1 DEF IInv, TypeOK
    <3> QED BY <3>1, <3>2, CountKept DEF CInv
  <2>2. CASE i = claim.item
    <3> DEFINE U == Undone(i)
               V == Undone(i)'
    <3>1. w \in U
      BY <1>1, <2>2 DEF Undone
    <3>2. w \notin V
      BY <1>1, <1>3, <2>2 DEF Undone, CInv, OneEach
    <3>3. V \subseteq U
      BY <1>1, <1>3, <2>2 DEF Undone
    <3>4. IsFiniteSet(U) /\ executions[i] + Cardinality(U) <= rows[i].attempts
      BY DEF CInv, Counted
    <3>5. executions[i] \in Nat /\ rows[i].attempts \in Nat
      BY DEF IInv, TypeOK, Rows
    <3>6. executions'[i] = executions[i] + 1 /\ rows' = rows
      BY <1>1, <1>2, <2>2 DEF IInv, TypeOK
    <3> HIDE DEF U, V
    <3>7. IsFiniteSet(U \ {w}) /\ Cardinality(U \ {w}) = Cardinality(U) - 1
      BY <3>1, <3>4, FS_RemoveElement
    <3>8. V \subseteq U \ {w}
      BY <3>2, <3>3
    <3>9. IsFiniteSet(V) /\ Cardinality(V) <= Cardinality(U \ {w})
      BY <3>7, <3>8, FS_Subset
    <3>10. Cardinality(U) \in Nat /\ Cardinality(V) \in Nat
      BY <3>4, <3>9, FS_CardinalityType
    <3>11. executions'[i] + Cardinality(V) <= rows'[i].attempts
      BY <3>4, <3>5, <3>6, <3>7, <3>9, <3>10
    <3>12. IsFiniteSet(V) /\ executions'[i] + Cardinality(V) <= rows'[i].attempts
      BY <3>9, <3>11
    <3> QED BY <3>12 DEF V
  <2> QED BY <2>1, <2>2
<1> QED BY <1>4, <1>5 DEF CInv, Counted

\* Every step keeps the count.
LEMMA StepKeepsCount == IInv /\ CInv /\ [Next]_vars => CInv'
<1> SUFFICES ASSUME IInv, CInv, [Next]_vars PROVE CInv'
  OBVIOUS
<1>1. CASE UNCHANGED vars
  BY <1>1, QuietStepKeepsCount DEF vars
<1>2. ASSUME NEW i \in Items, Accept(i) PROVE CInv'
  BY <1>2, QuietStepKeepsCount DEF Accept, Accepted, CInv, OneEach, IInv, TypeOK
<1>3. ASSUME NEW i \in Items, Ripen(i) PROVE CInv'
  <2>1. \A j \in Items : rows'[j].attempts = rows[j].attempts /\ rows'[j].status = rows[j].status
    BY <1>3 DEF Ripen, IInv, TypeOK, Rows
  <2> QED BY <1>3, <2>1, QuietStepKeepsCount DEF Ripen
<1>4. ASSUME NEW w \in Workers, ClaimSome(w) PROVE CInv'
  BY <1>4, ClaimKeepsCount DEF ClaimSome
<1>5. ASSUME NEW w \in Workers, NEW c \in held[w], Execute(w, c) PROVE CInv'
  BY <1>5, ExecuteKeepsCount
<1>6. ASSUME NEW w \in Workers, NEW c \in held[w], Finish(w, c) \/ Fail(w, c) PROVE CInv'
  <2>1. rows \in [Items -> Rows] /\ c.item \in Items /\ c.attempt \in Nat /\ rows[c.item] \in Rows
    BY DEF IInv, TypeOK, Claims
  <2>2. PICK row \in {MarkedProcessed(rows[c.item]), MarkedFailed(rows[c.item], c.attempt)} :
          rows' = [rows EXCEPT ![c.item] = row]
    BY <1>6, <2>1 DEF Finish, Fail
  <2>3. row.attempts = rows[c.item].attempts /\ (rows[c.item].status # "absent" => row.status # "absent")
    BY <2>1, <2>2, MarksKeep
  <2>4. \A j \in Items : /\ rows'[j].attempts = rows[j].attempts
                         /\ rows'[j].status = "absent" => rows[j].status = "absent"
    BY <2>1, <2>2, <2>3
  <2>5. UNCHANGED executions /\ \A v \in Workers : held'[v] \subseteq held[v]
    BY <1>6 DEF Finish, Fail, IInv, TypeOK
  <2> QED BY <2>4, <2>5, QuietStepKeepsCount
<1>7. ASSUME NEW w \in Workers, Abandon(w) PROVE CInv'
  BY <1>7, QuietStepKeepsCount DEF Abandon, IInv, TypeOK
<1> QED BY <1>1, <1>2, <1>3, <1>4, <1>5, <1>6, <1>7 DEF Next, Work

\* Whatever crashes and however stale claims are, the work of an item is done
\* at most once for each time it was claimed (run_once, PostgresInbox.claim).
THEOREM OncePerClaim == Spec => []OnceForEachClaim
<1>1. Init => CInv
  BY CountAtInit
<1>2. IInv /\ CInv /\ [Next]_vars => CInv'
  BY StepKeepsCount
<1>3. CInv => OnceForEachClaim
  BY DEF CInv, Counted, Undone, OnceForEachClaim
<1> QED BY <1>1, <1>2, <1>3, Invariance, PTL DEF Spec, Safety

-----------------------------------------------------------------------------
(* The queue implements the safety of the mailbox.                         *)

\* Changes of a row that the mailbox cannot see.
LEMMA StageDependsOnStatus ==
  ASSUME NEW r, NEW q
  PROVE  /\ r.status = q.status => StageOf(r) = StageOf(q)
         /\ r.status \in Open /\ q.status \in Open => StageOf(r) = StageOf(q)
         /\ r.status \in Open => StageOf(r) = "open"
         /\ r.status = "absent" => StageOf(r) = "absent"
         /\ r.status = "processed" => StageOf(r) = "handled"
         /\ r.status = "dead" => StageOf(r) = "dead"
BY DEF StageOf, Open

\* The stages the mailbox sees.
Stages == [i \in Items |-> StageOf(rows[i])]

\* The abstract mailbox stutters when no row changes its stage ...
LEMMA StagesStay ==
  ASSUME \A i \in Items : StageOf(rows'[i]) = StageOf(rows[i])
  PROVE  Stages' = Stages
BY DEF Stages

\* ... and changes one item when one row does.
LEMMA StagesMove ==
  ASSUME NEW i \in Items, \A j \in Items : j # i => StageOf(rows'[j]) = StageOf(rows[j])
  PROVE  Stages' = [Stages EXCEPT ![i] = StageOf(rows'[i])]
BY DEF Stages

\* Finish and Fail: the row is marked, its work is left alone.
LEMMA MarkIsMailboxStep ==
  ASSUME IInv, NEW w \in Workers, NEW claim \in held[w], Finish(w, claim) \/ Fail(w, claim)
  PROVE  \/ /\ Stages[claim.item] = "open" /\ executions[claim.item] > 0
            /\ Stages' = [Stages EXCEPT ![claim.item] = "handled"]
         \/ /\ Stages[claim.item] = "open"
            /\ Stages' = [Stages EXCEPT ![claim.item] = "dead"]
         \/ Stages' = Stages
<1> DEFINE i == claim.item
<1>1. /\ i \in Items /\ rows \in [Items -> Rows] /\ rows[i] \in Rows
      /\ claim.done => executions[i] > 0
  BY DEF IInv, TypeOK, Claims, Accounted
<1>2. \A j \in Items : j # i => StageOf(rows'[j]) = StageOf(rows[j])
  BY <1>1 DEF Finish, Fail
<1>3. Stages[i] = StageOf(rows[i])
  BY <1>1 DEF Stages
<1>4. CASE rows[i].status # "processing"
  <2>1. rows' = rows
    BY <1>1, <1>4 DEF Finish, Fail, MarkedProcessed, MarkedFailed
  <2> QED BY <2>1, StagesStay
<1>5. CASE rows[i].status = "processing"
  <2>1. Stages[i] = "open"
    BY <1>3, <1>5, StageDependsOnStatus DEF Open
  <2>2. CASE Finish(w, claim)
    <3>1. rows'[i].status = "processed" /\ executions[i] > 0
      BY <1>1, <1>5, <2>2 DEF Finish, MarkedProcessed, Rows
    <3>2. StageOf(rows'[i]) = "handled"
      BY <3>1, StageDependsOnStatus
    <3> QED BY <1>1, <1>2, <2>1, <3>1, <3>2, StagesMove
  <2>3. CASE Fail(w, claim) /\ claim.attempt >= MaxAttempts
    <3>1. rows'[i].status = "dead"
      BY <1>1, <1>5, <2>3 DEF Fail, MarkedFailed, Rows
    <3>2. StageOf(rows'[i]) = "dead"
      BY <3>1, StageDependsOnStatus
    <3> QED BY <1>1, <1>2, <2>1, <3>2, StagesMove
  <2>4. CASE Fail(w, claim) /\ ~(claim.attempt >= MaxAttempts)
    <3>1. rows'[i].status = "pending"
      BY <1>1, <1>5, <2>4 DEF Fail, MarkedFailed, Rows
    <3>2. StageOf(rows'[i]) = StageOf(rows[i])
      BY <1>5, <3>1, StageDependsOnStatus DEF Open
    <3> QED BY <1>2, <3>2, StagesStay
  <2> QED BY <2>2, <2>3, <2>4
<1> QED BY <1>4, <1>5

\* Every step of the queue is a step of the mailbox or leaves it alone.
LEMMA StepIsMailboxStep == IInv /\ [Next]_vars => [Promise!Next]_(Promise!vars)
<1> SUFFICES ASSUME IInv, [Next]_vars PROVE Promise!Next \/ UNCHANGED <<Stages, executions>>
  BY DEF Promise!vars, Stages
<1>1. CASE UNCHANGED vars
  BY <1>1 DEF vars, Stages
<1>2. ASSUME NEW i \in Items, Accept(i) PROVE Promise!Next
  <2>1. Stages[i] = "absent" /\ StageOf(rows'[i]) = "open"
    BY <1>2, StageDependsOnStatus DEF Accept, Accepted, Open, Stages, IInv, TypeOK
  <2>2. Stages' = [Stages EXCEPT ![i] = "open"]
    BY <1>2, <2>1, StagesMove DEF Accept, IInv, TypeOK
  <2>3. Promise!Accept(i)
    BY <1>2, <2>1, <2>2 DEF Promise!Accept, Stages, Accept
  <2> QED BY <2>3 DEF Promise!Next
<1>3. ASSUME NEW i \in Items, Ripen(i) PROVE UNCHANGED <<Stages, executions>>
  <2>1. \A j \in Items : rows'[j].status = rows[j].status
    BY <1>3 DEF Ripen, IInv, TypeOK, Rows
  <2> QED BY <1>3, <2>1, StageDependsOnStatus, StagesStay DEF Ripen
<1>4. ASSUME NEW w \in Workers, ClaimSome(w) PROVE UNCHANGED <<Stages, executions>>
  <2>1. PICK batch \in SUBSET Items : Claim(w, batch)
    BY <1>4 DEF ClaimSome
  <2>2. ASSUME NEW j \in Items PROVE StageOf(rows'[j]) = StageOf(rows[j])
    <3>1. CASE j \in batch
      <4>1. rows[j].status \in Open /\ rows'[j].status \in Open
        BY <2>1, <3>1 DEF Claim, Claimable, Claimed, Open
      <4> QED BY <4>1, StageDependsOnStatus
    <3>2. CASE j \notin batch
      BY <2>1, <3>2 DEF Claim
    <3> QED BY <3>1, <3>2
  <2> QED BY <2>1, <2>2, StagesStay DEF Claim
<1>5. ASSUME NEW w \in Workers, NEW c \in held[w], Execute(w, c) PROVE Promise!Next
  <2>1. c.item \in Items /\ rows[c.item].status # "absent" /\ rows[c.item] \in Rows
    BY DEF IInv, TypeOK, Claims, Accounted
  <2>2. Stages[c.item] # "absent"
    BY <2>1, StageDependsOnStatus DEF Stages, Rows, Open, Terminal
  <2>3. Stages' = Stages /\ executions' = [executions EXCEPT ![c.item] = @ + 1]
    BY <1>5 DEF Execute, Stages
  <2>4. Promise!Handle(c.item)
    BY <2>2, <2>3 DEF Promise!Handle, Stages
  <2> QED BY <2>1, <2>4 DEF Promise!Next
<1>6. ASSUME NEW w \in Workers, NEW c \in held[w], Finish(w, c) \/ Fail(w, c)
      PROVE  Promise!Next \/ UNCHANGED <<Stages, executions>>
  <2>1. c.item \in Items /\ UNCHANGED executions
    BY <1>6 DEF IInv, TypeOK, Claims, Finish, Fail
  <2>2. CASE /\ Stages[c.item] = "open" /\ executions[c.item] > 0
             /\ Stages' = [Stages EXCEPT ![c.item] = "handled"]
    <3>1. Promise!Settle(c.item)
      BY <2>1, <2>2 DEF Promise!Settle, Stages
    <3> QED BY <2>1, <3>1 DEF Promise!Next
  <2>3. CASE /\ Stages[c.item] = "open"
             /\ Stages' = [Stages EXCEPT ![c.item] = "dead"]
    <3>1. Promise!Bury(c.item)
      BY <2>1, <2>3 DEF Promise!Bury, Stages
    <3> QED BY <2>1, <3>1 DEF Promise!Next
  <2> QED BY <1>6, <2>1, <2>2, <2>3, MarkIsMailboxStep
<1>7. ASSUME NEW w \in Workers, Abandon(w) PROVE UNCHANGED <<Stages, executions>>
  BY <1>7 DEF Abandon, Stages
<1> QED BY <1>1, <1>2, <1>3, <1>4, <1>5, <1>6, <1>7 DEF Next, Work

\* The queue is a mailbox: nothing accepted is lost, nothing is settled as
\* handled before it was (docs/ARCHITECTURE.md, at-least-once delivery).
THEOREM ImplementsMailbox == Spec => Promise!Safety
<1>1. Init => Promise!Init
  <2> SUFFICES ASSUME Init PROVE Promise!Init
    OBVIOUS
  <2>1. \A i \in Items : StageOf(rows[i]) = "absent"
    BY StageDependsOnStatus DEF Init, NoRow
  <2> QED BY <2>1 DEF Promise!Init, Init
<1>2. IInv /\ [Next]_vars => [Promise!Next]_(Promise!vars)
  BY StepIsMailboxStep
<1> QED BY <1>1, <1>2, Invariance, PTL DEF Spec, Safety, Promise!Safety
=============================================================================
