---------------------------- MODULE DurableQueue ----------------------------
(***************************************************************************)
(* The durable queues of infrastructure/messaging.py (inbox, outbox and    *)
(* outbound tables) under the worker loops that drain them                 *)
(* (InboundProcessor.run_once, OutboxProjectorWorker.run_once,             *)
(* OutboundSender.run_once).  The three tables are claimed and marked by   *)
(* the same statements; one queue is modelled.                             *)
(*                                                                         *)
(* Time shows only in the flag ripe: a pending row is ripe when its        *)
(* next_attempt_at has come, a processing row when its claim is older than *)
(* the stale interval.                                                     *)
(***************************************************************************)
EXTENDS Naturals, FiniteSets

CONSTANTS
  Items,          \* keys of the queue's rows
  Workers,        \* worker instances that drain it
  MaxAttempts,    \* max_attempts of mark_failed
  BatchLimit,     \* limit of a claim
  MaxFaults       \* bound on crashes and on claims that outlive the interval

ASSUME QueueAssumption ==
  /\ MaxAttempts \in Nat \ {0}
  /\ BatchLimit \in Nat \ {0}
  /\ MaxFaults \in Nat

VARIABLES
  rows,           \* the table
  held,           \* the batch each worker is going through
  executions,     \* how often the work of each item was done
  faults          \* crashes and outlived claims so far

vars == <<rows, held, executions, faults>>

Open == {"pending", "processing"}
Terminal == {"processed", "dead"}
Rows == [status : Open \cup Terminal \cup {"absent"}, ripe : BOOLEAN, attempts : Nat]
Claims == [item : Items, attempt : Nat, done : BOOLEAN]

NoRow == [status |-> "absent", ripe |-> FALSE, attempts |-> 0]

Init ==
  /\ rows = [i \in Items |-> NoRow]
  /\ held = [w \in Workers |-> {}]
  /\ executions = [i \in Items |-> 0]
  /\ faults = 0

-----------------------------------------------------------------------------
(* What a statement leaves of a row.                                       *)

Accepted == [status |-> "pending", ripe |-> TRUE, attempts |-> 0]

\* Defect: a row being processed is claimed before its claim is stale.
ClaimableAnyTime(row) ==
  row.status = "processing" \/ (row.status = "pending" /\ row.ripe)

Claimable(row) == row.status \in Open /\ row.ripe

\* Defect: the claim does not count as an attempt.
ClaimedUncounted(row) == [row EXCEPT !.status = "processing", !.ripe = FALSE]

Claimed(row) ==
  [status |-> "processing", ripe |-> FALSE, attempts |-> row.attempts + 1]

\* Defect: the mark does not look at the status.
MarkedProcessedAnyTime(row) == [row EXCEPT !.status = "processed", !.ripe = FALSE]

\* mark_processed and mark_failed change a row only while it is processing;
\* whose claim that is they do not ask.
MarkedProcessed(row) ==
  IF row.status = "processing"
    THEN [row EXCEPT !.status = "processed", !.ripe = FALSE] ELSE row

\* Defect: a status the table's CHECK does not know.
MarkedFailedAsFailed(row, attempt) ==
  IF row.status = "processing"
    THEN [row EXCEPT !.status = IF attempt >= MaxAttempts THEN "failed" ELSE "pending",
                     !.ripe = FALSE]
    ELSE row

\* Defect: the limit is reached one attempt early.
MarkedFailedEarly(row, attempt) ==
  IF row.status = "processing"
    THEN [row EXCEPT !.status = IF attempt + 1 >= MaxAttempts THEN "dead" ELSE "pending",
                     !.ripe = FALSE]
    ELSE row

\* The limit is compared with the attempts the worker read when it claimed.
MarkedFailed(row, attempt) ==
  IF row.status = "processing"
    THEN [row EXCEPT !.status = IF attempt >= MaxAttempts THEN "dead" ELSE "pending",
                     !.ripe = FALSE]
    ELSE row

-----------------------------------------------------------------------------

\* An external event that was accepted before is left alone (ON CONFLICT DO
\* NOTHING), which is no step.
Accept(i) ==
  /\ rows[i].status = "absent"
  /\ rows' = [rows EXCEPT ![i] = Accepted]
  /\ UNCHANGED <<held, executions, faults>>

\* SKIP LOCKED: a claim takes any of the rows it may take.
Claim(w, batch) ==
  /\ held[w] = {}
  /\ batch # {} /\ Cardinality(batch) <= BatchLimit
  /\ \A i \in batch : Claimable(rows[i])
  /\ rows' = [i \in Items |-> IF i \in batch THEN Claimed(rows[i]) ELSE rows[i]]
  /\ held' = [held EXCEPT ![w] =
       {[item |-> i, attempt |-> Claimed(rows[i]).attempts, done |-> FALSE] : i \in batch}]
  /\ UNCHANGED <<executions, faults>>

\* Defect: nothing remembers that the work was done.
ExecuteAgain(w, claim) ==
  /\ \A c \in held[w] : ~c.done
  /\ executions' = [executions EXCEPT ![claim.item] = @ + 1]
  /\ executions[claim.item] < rows[claim.item].attempts + 1
  /\ UNCHANGED <<rows, held, faults>>

\* The work of one item: the batch is gone through one item at a time.
Execute(w, claim) ==
  /\ \A c \in held[w] : ~c.done
  /\ executions' = [executions EXCEPT ![claim.item] = @ + 1]
  /\ held' = [held EXCEPT ![w] = (@ \ {claim}) \cup {[claim EXCEPT !.done = TRUE]}]
  /\ UNCHANGED <<rows, faults>>

\* Defect: the item is marked before its work is done.
FinishFirst(w, claim) ==
  /\ rows' = [rows EXCEPT ![claim.item] = MarkedProcessed(@)]
  /\ held' = [held EXCEPT ![w] = @ \ {claim}]
  /\ UNCHANGED <<executions, faults>>

Finish(w, claim) ==
  /\ claim.done
  /\ rows' = [rows EXCEPT ![claim.item] = MarkedProcessed(@)]
  /\ held' = [held EXCEPT ![w] = @ \ {claim}]
  /\ UNCHANGED <<executions, faults>>

\* The work raised, before or after its effect was committed.
Fail(w, claim) ==
  /\ claim.done \/ \A c \in held[w] : ~c.done
  /\ rows' = [rows EXCEPT ![claim.item] = MarkedFailed(@, claim.attempt)]
  /\ held' = [held EXCEPT ![w] = @ \ {claim}]
  /\ UNCHANGED <<executions, faults>>

\* The process dies, or a mark raises and ends run_once: the rest of the
\* batch stays processing.
Abandon(w) ==
  /\ held[w] # {}
  /\ faults < MaxFaults
  /\ faults' = faults + 1
  /\ held' = [held EXCEPT ![w] = {}]
  /\ UNCHANGED <<rows, executions>>

HeldNow(i) ==
  \E w \in Workers : \E c \in held[w] :
    c.item = i /\ c.attempt = rows[i].attempts

\* Defect: a claim is never given up as stale.
RipenPendingOnly(i) ==
  /\ rows[i].status = "pending" /\ ~rows[i].ripe
  /\ rows' = [rows EXCEPT ![i].ripe = TRUE]
  /\ UNCHANGED <<held, executions, faults>>

\* Time passes until the row can be claimed again.  That a claim in use gets
\* that old is a fault of its own.
Ripen(i) ==
  /\ rows[i].status \in Open /\ ~rows[i].ripe
  /\ rows' = [rows EXCEPT ![i].ripe = TRUE]
  /\ IF rows[i].status = "processing" /\ HeldNow(i)
       THEN faults < MaxFaults /\ faults' = faults + 1
       ELSE UNCHANGED faults
  /\ UNCHANGED <<held, executions>>

ClaimSome(w) == \E batch \in SUBSET Items : Claim(w, batch)
Work(w) == \E c \in held[w] : Execute(w, c) \/ Finish(w, c) \/ Fail(w, c)

Next ==
  \/ \E i \in Items : Accept(i) \/ Ripen(i)
  \/ \E w \in Workers : ClaimSome(w) \/ Work(w) \/ Abandon(w)

\* The worker loops run while the process does (_repeat), and clocks advance.
Fairness ==
  /\ \A w \in Workers : WF_vars(ClaimSome(w)) /\ WF_vars(Work(w))
  /\ \A i \in Items : WF_vars(Ripen(i))

Safety == Init /\ [][Next]_vars
Spec == Safety /\ Fairness
-----------------------------------------------------------------------------
(* Properties.                                                             *)

TypeOK ==
  /\ rows \in [Items -> Rows]
  /\ held \in [Workers -> SUBSET Claims]
  /\ executions \in [Items -> Nat]
  /\ faults \in 0 .. MaxFaults

\* No two workers go by the same claim: the attempt number tells claims of one
\* item apart, no worker is ahead of the row, and while a claim is in use and
\* not stale every other worker that still holds the item holds an older one
\* (FOR UPDATE SKIP LOCKED, attempts + 1 in the claiming statement).
ClaimsAreDistinct ==
  \A v, w \in Workers : \A c \in held[v], d \in held[w] :
    /\ c.attempt <= rows[c.item].attempts
    /\ (c.item = d.item /\ c.attempt = d.attempt) => (v = w /\ c = d)

\* Each claim does the work at most once, so the work of an item is never
\* done more often than it was claimed, failures and crashes included.
OnceForEachClaim ==
  \A i \in Items :
    executions[i] + Cardinality({w \in Workers :
                      \E c \in held[w] : c.item = i /\ ~c.done})
      <= rows[i].attempts

\* An item is dead-lettered only when it was claimed as often as the limit
\* says, however many workers failed it and in whatever order.
DeadAfterLimit ==
  \A i \in Items : rows[i].status = "dead" => rows[i].attempts >= MaxAttempts

\* Without a crash and without a claim that got stale nobody works on an item
\* that someone else holds, and no item is settled under a worker's hands.
ExclusiveUntilStale ==
  faults = 0 =>
    \A w \in Workers : \A c \in held[w] :
      /\ rows[c.item].status = "processing"
      /\ c.attempt = rows[c.item].attempts

\* A settled item stays settled: a late worker with an old claim cannot bring
\* it back (the marks ask for status 'processing').
SettledStays ==
  [][\A i \in Items : rows[i].status \in Terminal => rows'[i] = rows[i]]_vars

\* Every accepted item is settled in the end, whatever crashes: abandoned
\* claims get stale and are taken again.
EventuallySettled ==
  \A i \in Items : rows[i].status = "pending" ~> rows[i].status \in Terminal

\* The queue implements the mailbox: at-least-once delivery.
StageOf(row) ==
  CASE row.status = "absent" -> "absent"
    [] row.status \in Open -> "open"
    [] row.status = "processed" -> "handled"
    [] row.status = "dead" -> "dead"
Promise == INSTANCE Mailbox
             WITH stage <- [i \in Items |-> StageOf(rows[i])], count <- executions
AtLeastOnce == Promise!Spec
=============================================================================
