---------------------------- MODULE Staff_proofs ----------------------------
(***************************************************************************)
(* That the transactions of Staff keep an account with its actor, bind a   *)
(* code once and make a second actor for a creation only when the first    *)
(* was merged away, for any accounts, codes, bots and workers.             *)
(*                                                                         *)
(* The argument is about row locks.  No two transactions have locked one   *)
(* actor, a row with a code is only changed by the transaction that has    *)
(* locked it, and an account is only given to an actor under the lock of   *)
(* that actor.  So what CheckBinding has read is still so when Bind writes:*)
(* the code is unused, the account has the actor it had, and an actor that *)
(* is merged away has no accounts.                                         *)
(***************************************************************************)
EXTENDS Staff, TLAPS

Rows == [active : BOOLEAN, code : Codes \cup {NoCode}, key : {NoKey} \cup (Requests \X {0})]

\* Not an identifier that is still to be made.
Old(a) == \A r \in Requests, n \in Nat : a = Made(r, n) => n <= made[r]

RowsOK ==
  /\ \A a \in DOMAIN actors : actors[a] \in Rows /\ Old(a)
  /\ \A a, b \in DOMAIN actors : actors[a].key = actors[b].key => a = b \/ actors[a].key = NoKey
  /\ made \in [Requests -> Nat]
  /\ DOMAIN identities = Accounts

\* A code that was used is gone, or its actor is.
BoundOK ==
  /\ \A b \in bound : Old(b.code) /\ (Exists(b.code) => actors[b.code].code = NoCode)
  /\ CodeBindsOnce

\* What a transaction may rely on.
GrantOK(t) ==
  /\ t.step \in {"begun", "locked"} /\ t.role \in Roles
  /\ t.step = "locked" => Exists(t.actor)

UpsertOK(t) ==
  /\ t.step \in {"begun", "locked"} /\ t.role \in Roles /\ t.account \in Accounts
  /\ t.actor = Own(t.account) \/ (t.step = "locked" /\ Exists(t.actor))

RevokeOK(t) == t.step \in {"revoked", "counted"}

CreateOK(t) == t.step = "keyed" /\ t.role \in Roles /\ \E r \in Requests : t.key = RequestKey(r)

\* The account has the actor that was read, and what is merged has no account.
SeenOK(t) ==
  \A a \in t.seen : /\ a # None => identities[t.account] = a
                    /\ a \notin {None, t.actor} => ~HasBindings(t.actor)

BindOK(t) ==
  /\ t.step \in {"begun", "locked", "refused", "clearing"}
  /\ t.account \in Accounts /\ t.code \in Codes
  /\ t.step = "begun" => t.seen = {}
  /\ t.step = "locked" => Exists(t.actor) /\ actors[t.actor].code = t.code /\ SeenOK(t)

Shaped(t) ==
  t = [kind |-> t.kind, step |-> t.step, actor |-> t.actor, role |-> t.role,
       account |-> t.account, code |-> t.code, seen |-> t.seen, key |-> t.key]

TxOK(t) ==
  /\ Shaped(t)
  /\ \/ t = NoTx
     \/ t.kind = "grant" /\ GrantOK(t)
     \/ t.kind = "upsert" /\ UpsertOK(t)
     \/ t.kind = "revoke" /\ RevokeOK(t)
     \/ t.kind = "create" /\ CreateOK(t)
     \/ t.kind = "bind" /\ BindOK(t)

TxsOK == DOMAIN tx = Workers /\ \A w \in Workers : TxOK(tx[w])

\* One transaction at a time has locked an actor.
Locked(w) == tx[w].step = "locked"
Locks == \A v, w \in Workers : v # w /\ Locked(v) /\ Locked(w) => tx[v].actor # tx[w].actor

IInv == TypeOK /\ RowsOK /\ BoundOK /\ TxsOK /\ Locks

-----------------------------------------------------------------------------
(* Steps.                                                                  *)

\* A step of w changes the transaction of no other worker,
Changed(w) == tx' = [tx EXCEPT ![w] = tx'[w]]

\* locks an actor only when nobody else has locked it,
LockTaken(w) ==
  tx'[w].step = "locked" =>
    \/ Locked(w) /\ tx'[w].actor = tx[w].actor
    \/ ActorFree(w, tx'[w].actor)

\* and leaves alone what the transaction of v relies on.
Kept(v) ==
  /\ \A x \in Accounts : identities[x] # None => identities'[x] = identities[x]
  /\ (Locked(v) /\ Exists(tx[v].actor)) =>
       /\ tx[v].actor \in DOMAIN actors'
       /\ actors'[tx[v].actor].code = actors[tx[v].actor].code
       /\ \A x \in Accounts : identities'[x] = tx[v].actor => identities[x] = tx[v].actor

\* A transaction still has what it relies on.
LEMMA TxKept ==
  ASSUME IInv, NEW v \in Workers, Kept(v), tx'[v] = tx[v]
  PROVE  TxOK(tx[v])'
<1>1. TxOK(tx[v])
  BY DEF IInv, TxsOK
<1>2. Shaped(tx[v]) /\ Shaped(tx[v])'
  BY <1>1 DEF TxOK, Shaped
<1>3. CASE tx[v] = NoTx
  BY <1>2, <1>3 DEF TxOK
<1>4. CASE tx[v].kind = "grant" /\ GrantOK(tx[v])
  BY <1>2, <1>4 DEF TxOK, GrantOK, Kept, Locked, Exists
<1>5. CASE tx[v].kind = "upsert" /\ UpsertOK(tx[v])
  BY <1>2, <1>5 DEF TxOK, UpsertOK, Kept, Locked, Exists
<1>6. CASE tx[v].kind = "revoke" /\ RevokeOK(tx[v])
  BY <1>2, <1>6 DEF TxOK, RevokeOK
<1>7. CASE tx[v].kind = "create" /\ CreateOK(tx[v])
  BY <1>2, <1>7 DEF TxOK, CreateOK
<1>8. CASE tx[v].kind = "bind" /\ BindOK(tx[v])
  <2>1. tx[v].step = "locked" => SeenOK(tx[v])'
    <3> SUFFICES ASSUME Locked(v), NEW a \in tx[v].seen
                 PROVE  /\ a # None => identities'[tx[v].account] = a
                        /\ a \notin {None, tx[v].actor} => ~HasBindings(tx[v].actor)'
      BY DEF SeenOK, Locked
    <3>1. /\ tx[v].account \in Accounts /\ Exists(tx[v].actor)
          /\ a # None => identities[tx[v].account] = a
          /\ a \notin {None, tx[v].actor} => ~HasBindings(tx[v].actor)
      BY <1>8 DEF BindOK, SeenOK, Locked
    <3>2. a # None => identities'[tx[v].account] = a
      BY <3>1 DEF Kept
    <3>3. HasBindings(tx[v].actor)' => HasBindings(tx[v].actor)
      BY <3>1 DEF Kept, HasBindings
    <3> QED BY <3>1, <3>2, <3>3
  <2>2. BindOK(tx[v])'
    BY <2>1, <1>8 DEF BindOK, Kept, Locked, Exists
  <2> QED BY <2>2, <1>2, <1>8 DEF TxOK
<1> QED BY <1>1, <1>3, <1>4, <1>5, <1>6, <1>7, <1>8 DEF TxOK

\* What is left to show of a step.
LEMMA StepKeeps ==
  ASSUME IInv, NEW w \in Workers, Changed(w), LockTaken(w), TxOK(tx[w])',
         \A v \in Workers \ {w} : Kept(v), TypeOK', RowsOK', BoundOK'
  PROVE  IInv'
<1>1. DOMAIN tx = Workers /\ DOMAIN tx' = Workers
  BY DEF IInv, TxsOK, Changed
<1>2. \A v \in Workers \ {w} : tx'[v] = tx[v]
  BY <1>1 DEF Changed
<1>3. TxsOK'
  <2> SUFFICES ASSUME NEW v \in Workers PROVE TxOK(tx[v])'
    BY <1>1 DEF TxsOK
  <2>1. CASE v = w
    BY <2>1
  <2>2. CASE v # w
    BY <2>2, <1>2, TxKept
  <2> QED BY <2>1, <2>2
<1>4. Locks'
  <2>1. \A v \in Workers \ {w} : Locked(v)' /\ Locked(w)' => tx'[v].actor # tx'[w].actor
    <3> SUFFICES ASSUME NEW v \in Workers \ {w}, Locked(v)', Locked(w)', tx'[v].actor = tx'[w].actor
                 PROVE  FALSE
      OBVIOUS
    <3>1. Locked(v) /\ tx[v].actor = tx'[w].actor
      BY <1>2 DEF Locked
    <3>2. ~ActorFree(w, tx'[w].actor)
      BY <3>1 DEF ActorFree, HoldsActor, Locked
    <3>3. Locked(w) /\ tx'[w].actor = tx[w].actor
      BY <3>2 DEF LockTaken, Locked
    <3> QED BY <3>1, <3>3 DEF IInv, Locks
  <2>2. \A u, v \in Workers \ {w} : u # v /\ Locked(u)' /\ Locked(v)' => tx'[u].actor # tx'[v].actor
    BY <1>2 DEF IInv, Locks, Locked
  <2> QED BY <2>1, <2>2 DEF Locks
<1> QED BY <1>3, <1>4 DEF IInv

Quiet == UNCHANGED <<actors, roles, identities, made, bound>>

\* A step that changes no table.
LEMMA QuietKeeps ==
  ASSUME IInv, NEW w \in Workers, Quiet, Changed(w), LockTaken(w), TxOK(tx[w])',
         attempts' \in [Accounts -> (0..MaxAttempts) \cup {NoSession}]
  PROVE  IInv'
<1>1. \A v \in Workers : Kept(v)
  BY DEF Quiet, Kept, Exists
<1>2. TypeOK'
  BY DEF IInv, TypeOK, Quiet, Exists
<1>3. RowsOK'
  BY DEF IInv, RowsOK, Quiet, Old
<1>4. BoundOK'
  BY DEF IInv, BoundOK, CodeBindsOnce, Quiet, Exists, Old
<1> QED BY <1>1, <1>2, <1>3, <1>4, StepKeeps

\* A transaction goes on to another step.
LEMMA Stepped ==
  ASSUME NEW t, Shaped(t), NEW s, NEW u, u = [t EXCEPT !.step = s]
  PROVE  /\ Shaped(u)
         /\ u.step = s /\ u.kind = t.kind /\ u.actor = t.actor /\ u.role = t.role
         /\ u.account = t.account /\ u.code = t.code /\ u.seen = t.seen /\ u.key = t.key
  BY DEF Shaped

\* What is known of the transaction of a worker.
LEMMA TxKnown ==
  ASSUME IInv, NEW w \in Workers
  PROVE  /\ DOMAIN tx = Workers
         /\ TxOK(tx[w]) /\ Shaped(tx[w])
         /\ tx[w].kind = "grant" => GrantOK(tx[w])
         /\ tx[w].kind = "upsert" => UpsertOK(tx[w])
         /\ tx[w].kind = "create" => CreateOK(tx[w])
         /\ tx[w].kind = "bind" => BindOK(tx[w])
  BY DEF IInv, TxsOK, TxOK, NoTx

\* A transaction ends and changes no table.
LEMMA EndKeeps ==
  ASSUME IInv, NEW w \in Workers, End(w), Quiet,
         attempts' \in [Accounts -> (0..MaxAttempts) \cup {NoSession}]
  PROVE  IInv'
<1>1. tx'[w] = NoTx /\ Changed(w)
  BY TxKnown DEF End, Changed
<1>2. TxOK(tx[w])' /\ LockTaken(w)
  BY <1>1 DEF TxOK, Shaped, NoTx, LockTaken
<1> QED BY <1>1, <1>2, QuietKeeps

\* A transaction begins.
LEMMA BeginKeeps ==
  ASSUME IInv, NEW w \in Workers, NEW t, Begin(w, t), Quiet, UNCHANGED attempts,
         TxOK(t), t.step = "locked" => ActorFree(w, t.actor)
  PROVE  IInv'
<1>1. tx'[w] = t /\ Changed(w)
  BY TxKnown DEF Begin, Changed
<1>2. TxOK(tx[w])'
  BY <1>1 DEF Quiet, TxOK, Shaped, NoTx, GrantOK, UpsertOK, RevokeOK, CreateOK, RequestKey,
              BindOK, SeenOK, HasBindings, Exists
<1>3. LockTaken(w)
  BY <1>1 DEF LockTaken
<1> QED BY <1>1, <1>2, <1>3, QuietKeeps DEF IInv, TypeOK

\* A transaction goes on and changes no table.
LEMMA ToKeeps ==
  ASSUME IInv, NEW w \in Workers, NEW t, tx' = [tx EXCEPT ![w] = t], Quiet, UNCHANGED attempts,
         TxOK(t), t.step = "locked" => (Locked(w) /\ t.actor = tx[w].actor) \/ ActorFree(w, t.actor)
  PROVE  IInv'
<1>1. tx'[w] = t /\ Changed(w)
  BY TxKnown DEF Changed
<1>2. TxOK(tx[w])'
  BY <1>1 DEF Quiet, TxOK, Shaped, NoTx, GrantOK, UpsertOK, RevokeOK, CreateOK, RequestKey,
              BindOK, SeenOK, HasBindings, Exists
<1>3. LockTaken(w)
  BY <1>1 DEF LockTaken
<1> QED BY <1>1, <1>2, <1>3, QuietKeeps DEF IInv, TypeOK

-----------------------------------------------------------------------------
(* The steps that change no table.                                         *)

\* grant_role finds its actor active and locks it, or gives up.
LEMMA LockToGrantKeeps == ASSUME IInv, NEW w \in Workers, LockToGrant(w) PROVE IInv'
<1>1. Quiet /\ attempts' = attempts
  BY DEF LockToGrant, Quiet, Tables, history
<1>2. CASE Active(tx[w].actor)
  <2>1. PICK t : t = [tx[w] EXCEPT !.step = "locked"]
    OBVIOUS
  <2>2. tx' = [tx EXCEPT ![w] = t] /\ tx[w].kind = "grant" /\ ActorFree(w, tx[w].actor)
    BY <1>2, <2>1 DEF LockToGrant, To, At
  <2>3. Shaped(t) /\ t.step = "locked" /\ t.kind = "grant" /\ t.actor = tx[w].actor /\ t.role = tx[w].role
    <3>1. Shaped(tx[w])
      BY TxKnown
    <3> QED BY <3>1, <2>1, <2>2, Stepped
  <2>4. TxOK(t)
    BY <1>2, <2>2, <2>3, TxKnown DEF TxOK, GrantOK, Active
  <2> QED BY <1>1, <2>2, <2>3, <2>4, ToKeeps
<1>3. CASE ~Active(tx[w].actor)
  BY <1>1, <1>3, EndKeeps DEF LockToGrant, IInv, TypeOK
<1> QED BY <1>2, <1>3

\* revoke_role takes a membership.
LEMMA RevokeMembershipKeeps ==
  ASSUME IInv, NEW w \in Workers, NEW a, NEW role, RevokeMembership(w, a, role) PROVE IInv'
<1>1. Quiet /\ attempts' = attempts
  BY DEF RevokeMembership, Quiet, Tables, history
<1>2. PICK t : t = [NoTx EXCEPT !.kind = "revoke", !.step = "revoked", !.role = role, !.actor = a]
  OBVIOUS
<1>3. Begin(w, t)
  BY <1>2 DEF RevokeMembership
<1>4. TxOK(t) /\ t.step # "locked"
  BY <1>2 DEF TxOK, Shaped, RevokeOK, NoTx
<1> QED BY <1>1, <1>3, <1>4, BeginKeeps

\* It reads what remains.
LEMMA CountRemainingKeeps == ASSUME IInv, NEW w \in Workers, CountRemaining(w) PROVE IInv'
<1>1. Quiet /\ attempts' = attempts
  BY DEF CountRemaining, Quiet, Tables, history
<1>2. PICK t : t = [tx[w] EXCEPT !.step = "counted", !.seen = RolesOf(tx[w].actor) \ {tx[w].role}]
  OBVIOUS
<1>3. tx' = [tx EXCEPT ![w] = t] /\ tx[w].kind = "revoke"
  BY <1>2, TxKnown DEF CountRemaining, At
<1>4. Shaped(tx[w])
  BY TxKnown
<1>5. Shaped(t) /\ t.kind = "revoke" /\ t.step = "counted"
  BY <1>2, <1>3, <1>4 DEF Shaped
<1>6. TxOK(t) /\ t.step # "locked"
  BY <1>5 DEF TxOK, RevokeOK
<1> QED BY <1>1, <1>3, <1>6, ToKeeps

\* upsert_actor locks the row it updates.
LEMMA LockToUpsertKeeps == ASSUME IInv, NEW w \in Workers, LockToUpsert(w) PROVE IInv'
<1>1. Quiet /\ attempts' = attempts
  BY DEF LockToUpsert, Quiet, Tables, history
<1>2. PICK t : t = [tx[w] EXCEPT !.step = "locked"]
  OBVIOUS
<1>3. /\ tx' = [tx EXCEPT ![w] = t] /\ ActorFree(w, tx[w].actor)
      /\ tx[w].kind = "upsert" /\ tx[w].step = "begun"
  BY <1>2 DEF LockToUpsert, To, At
<1>4. /\ Shaped(t) /\ t.step = "locked" /\ t.kind = "upsert" /\ t.actor = tx[w].actor
      /\ t.role = tx[w].role /\ t.account = tx[w].account
  BY <1>2, <1>3, TxKnown, Stepped
<1>5. TxOK(t)
  BY <1>3, <1>4, TxKnown DEF TxOK, UpsertOK
<1> QED BY <1>1, <1>3, <1>4, <1>5, ToKeeps

\* create_staff_actor locks the key.
LEMMA LockKeyKeeps == ASSUME IInv, NEW w \in Workers, NEW r \in Requests, LockKey(w, r) PROVE IInv'
<1>1. Quiet /\ attempts' = attempts
  BY DEF LockKey, Quiet, Tables
<1>2. PICK t : t = [NoTx EXCEPT !.kind = "create", !.step = "keyed", !.role = RequestRole[r],
                                !.key = RequestKey(r)]
  OBVIOUS
<1>3. Begin(w, t)
  BY <1>2 DEF LockKey
<1>4. RequestRole[r] \in Roles
  BY StaffAssumption DEF Roles
<1>5. TxOK(t) /\ t.step # "locked"
  BY <1>2, <1>4 DEF TxOK, Shaped, CreateOK, NoTx
<1> QED BY <1>1, <1>3, <1>5, BeginKeeps

\* bind_actor_by_code finds the row with the code and locks it, or refuses.
LEMMA FindByCodeKeeps == ASSUME IInv, NEW w \in Workers, FindByCode(w) PROVE IInv'
<1>1. Quiet /\ attempts' = attempts
  BY DEF FindByCode, Quiet, Tables, history
<1>2. Shaped(tx[w]) /\ BindOK(tx[w]) /\ tx[w].kind = "bind" /\ tx[w].step = "begun"
  BY TxKnown DEF FindByCode, At
<1>3. CASE \E a \in DOMAIN actors :
             /\ actors[a].code = tx[w].code /\ ActorFree(w, a)
             /\ tx' = [tx EXCEPT ![w].step = "locked", ![w].actor = a]
  <2>1. PICK a \in DOMAIN actors : /\ actors[a].code = tx[w].code /\ ActorFree(w, a)
                                   /\ tx' = [tx EXCEPT ![w].step = "locked", ![w].actor = a]
    BY <1>3
  <2>2. PICK t : t = [tx[w] EXCEPT !.step = "locked", !.actor = a]
    OBVIOUS
  <2>3. tx' = [tx EXCEPT ![w] = t]
    BY <2>1, <2>2, TxKnown
  <2>4. /\ Shaped(t) /\ t.kind = "bind" /\ t.step = "locked" /\ t.actor = a
        /\ t.account = tx[w].account /\ t.code = tx[w].code /\ t.seen = tx[w].seen
    BY <1>2, <2>2 DEF Shaped
  <2>5. TxOK(t)
    BY <1>2, <2>1, <2>4 DEF TxOK, BindOK, SeenOK, Exists
  <2> QED BY <1>1, <2>1, <2>3, <2>4, <2>5, ToKeeps
<1>4. CASE To(w, "refused")
  <2>1. PICK t : t = [tx[w] EXCEPT !.step = "refused"]
    OBVIOUS
  <2>2. /\ Shaped(t) /\ t.kind = "bind" /\ t.step = "refused"
        /\ t.account = tx[w].account /\ t.code = tx[w].code
    BY <1>2, <2>1, Stepped
  <2>3. TxOK(t)
    BY <1>2, <2>2 DEF TxOK, BindOK
  <2>4. tx' = [tx EXCEPT ![w] = t]
    BY <1>4, <2>1 DEF To
  <2> QED BY <1>1, <2>2, <2>3, <2>4, ToKeeps
<1> QED BY <1>3, <1>4 DEF FindByCode

\* It looks for the accounts of an actor that is to be merged away.
LEMMA CheckBindingKeeps == ASSUME IInv, NEW w \in Workers, CheckBinding(w) PROVE IInv'
<1> DEFINE p == tx[w].actor
           a == identities[tx[w].account]
<1>1. Quiet /\ attempts' = attempts
  BY DEF CheckBinding, Quiet, Tables, history
<1>2. Shaped(tx[w]) /\ BindOK(tx[w]) /\ tx[w].kind = "bind" /\ tx[w].step = "locked"
  BY TxKnown DEF CheckBinding, At, BindOK
<1>3. CASE ~(a \notin {None, p} /\ HasBindings(p)) /\ tx' = [tx EXCEPT ![w].seen = {a}]
  <2>1. PICK t : t = [tx[w] EXCEPT !.seen = {a}]
    OBVIOUS
  <2>2. /\ Shaped(t) /\ t.kind = "bind" /\ t.step = "locked" /\ t.actor = p
        /\ t.account = tx[w].account /\ t.code = tx[w].code /\ t.seen = {a}
    BY <1>2, <2>1 DEF Shaped
  <2>3. SeenOK(t)
    BY <1>3, <2>2 DEF SeenOK
  <2>4. TxOK(t)
    BY <1>2, <2>2, <2>3 DEF TxOK, BindOK, Exists
  <2>5. tx' = [tx EXCEPT ![w] = t]
    BY <1>3, <2>1
  <2> QED BY <1>1, <1>2, <2>2, <2>4, <2>5, ToKeeps DEF Locked
<1>4. CASE To(w, "refused")
  <2>1. PICK t : t = [tx[w] EXCEPT !.step = "refused"]
    OBVIOUS
  <2>2. /\ Shaped(t) /\ t.kind = "bind" /\ t.step = "refused"
        /\ t.account = tx[w].account /\ t.code = tx[w].code
    BY <1>2, <2>1, Stepped
  <2>3. TxOK(t)
    BY <1>2, <2>2 DEF TxOK, BindOK
  <2>4. tx' = [tx EXCEPT ![w] = t]
    BY <1>4, <2>1 DEF To
  <2> QED BY <1>1, <2>2, <2>3, <2>4, ToKeeps
<1> QED BY <1>3, <1>4 DEF CheckBinding

\* take_attempt counts up to the limit and no further.
LEMMA TakeAttemptKeeps == ASSUME IInv, NEW w \in Workers, TakeAttempt(w) PROVE IInv'
<1> DEFINE x == tx[w].account
           n == attempts[x]
<1>1. Quiet
  BY DEF TakeAttempt, Quiet, Tables, history
<1>2. x \in Accounts /\ attempts \in [Accounts -> (0..MaxAttempts) \cup {NoSession}]
  BY TxKnown DEF TakeAttempt, At, BindOK, IInv, TypeOK
<1>3. n \in (0..MaxAttempts) \cup {NoSession} /\ MaxAttempts \in Nat
  BY <1>2, StaffAssumption
<1>4. n < MaxAttempts => n + 1 \in 0..MaxAttempts
  BY <1>3 DEF NoSession
<1> HIDE DEF n, x
<1>5. attempts' = IF n < MaxAttempts THEN [attempts EXCEPT ![x] = n + 1] ELSE attempts
  BY DEF TakeAttempt, n, x
<1>6. attempts' \in [Accounts -> (0..MaxAttempts) \cup {NoSession}]
  BY <1>2, <1>4, <1>5
<1> QED BY <1>1, <1>6, EndKeeps DEF TakeAttempt

\* The window of an account that is bound is closed.
LEMMA ClearBindingSessionKeeps == ASSUME IInv, NEW w \in Workers, ClearBindingSession(w) PROVE IInv'
<1>1. Quiet
  BY DEF ClearBindingSession, Quiet, Tables, history
<1>2. attempts' \in [Accounts -> (0..MaxAttempts) \cup {NoSession}]
  BY DEF ClearBindingSession, IInv, TypeOK
<1> QED BY <1>1, <1>2, EndKeeps DEF ClearBindingSession

\* A transaction that is rolled back leaves nothing.
LEMMA RollbackKeeps == ASSUME IInv, NEW w \in Workers, Rollback(w) PROVE IInv'
  BY EndKeeps DEF Rollback, Quiet, Tables, history, IInv, TypeOK

\* A person writes to the client bot.
LEMMA RegisterKeeps == ASSUME IInv, NEW w \in Workers, NEW x \in Accounts, Register(w, x) PROVE IInv'
<1>1. Quiet /\ attempts' = attempts
  BY DEF Register, Quiet, Tables, history
<1>2. PICK t : t = IF Resolved(x)
       THEN [NoTx EXCEPT !.kind = "grant", !.step = "begun", !.role = "client",
                         !.actor = identities[x]]
       ELSE [NoTx EXCEPT !.kind = "upsert", !.step = "begun", !.role = "client",
                         !.actor = Own(x), !.account = x]
  OBVIOUS
<1>3. Begin(w, t)
  BY <1>2 DEF Register
<1>4. TxOK(t) /\ t.step # "locked"
  BY <1>2 DEF TxOK, Shaped, GrantOK, UpsertOK, NoTx, Roles
<1> QED BY <1>1, <1>3, <1>4, BeginKeeps

\* The admin API names an actor, a role and an account.
LEMMA ApiUpsertKeeps ==
  ASSUME IInv, NEW w \in Workers, NEW a \in DOMAIN actors, NEW role \in ApiRoles,
         NEW x \in Accounts, ApiUpsert(w, a, role, x)
  PROVE  IInv'
<1>1. Quiet /\ attempts' = attempts
  BY DEF ApiUpsert, Quiet, Tables, history
<1>2. PICK t : t = [NoTx EXCEPT !.kind = "upsert", !.step = "locked", !.role = role,
                                !.actor = a, !.account = x]
  OBVIOUS
<1>3. Begin(w, t) /\ ActorFree(w, a)
  BY <1>2 DEF ApiUpsert
<1>4. role \in Roles
  BY StaffAssumption
<1>5. t.actor = a /\ TxOK(t)
  BY <1>2, <1>4 DEF TxOK, Shaped, UpsertOK, NoTx, Exists
<1> QED BY <1>1, <1>3, <1>5, BeginKeeps

\* A code is typed.
LEMMA EnterCodeKeeps ==
  ASSUME IInv, NEW w \in Workers, NEW x \in Accounts, NEW c \in Codes, NEW f \in Frontends,
         EnterCode(w, x, c, f)
  PROVE  IInv'
<1>1. Quiet /\ attempts' = attempts
  BY DEF EnterCode, Quiet, Tables, history
<1>2. PICK t : t = [NoTx EXCEPT !.kind = "bind", !.step = "begun", !.role = f,
                                !.account = x, !.code = c]
  OBVIOUS
<1>3. Begin(w, t)
  BY <1>2 DEF EnterCode
<1>4. TxOK(t) /\ t.step # "locked"
  BY <1>2 DEF TxOK, Shaped, BindOK, NoTx
<1> QED BY <1>1, <1>3, <1>4, BeginKeeps

\* A window opens or ends; no transaction is part of it.
LEMMA WindowKeeps ==
  ASSUME IInv, NEW x \in Accounts, (\E f \in Frontends : StartBinding(x, f)) \/ ExpireWindow(x)
  PROVE  IInv'
<1>1. UNCHANGED <<actors, roles, identities, made, bound, tx>>
  BY DEF StartBinding, ExpireWindow, Tables, history
<1>2. attempts' \in [Accounts -> (0..MaxAttempts) \cup {NoSession}]
  BY StaffAssumption DEF StartBinding, ExpireWindow, IInv, TypeOK
<1>3. TypeOK'
  BY <1>1, <1>2 DEF IInv, TypeOK, Exists
<1>4. RowsOK' /\ Locks'
  BY <1>1 DEF IInv, RowsOK, Old, Locks, Locked
<1>5. BoundOK'
  BY <1>1 DEF IInv, BoundOK, CodeBindsOnce, Exists, Old
<1>6. TxsOK'
  <2>1. \A v \in Workers : Kept(v) /\ tx'[v] = tx[v]
    BY <1>1 DEF Kept, Exists
  <2> QED BY <1>1, <2>1, TxKept DEF IInv, TxsOK
<1> QED BY <1>3, <1>4, <1>5, <1>6 DEF IInv

-----------------------------------------------------------------------------
(* The steps that change the tables.                                       *)

\* A transaction that ends takes no lock.
LEMMA Ended ==
  ASSUME IInv, NEW w \in Workers, End(w)
  PROVE  Changed(w) /\ LockTaken(w) /\ TxOK(tx[w])'
<1>1. tx'[w] = NoTx /\ Changed(w)
  BY TxKnown DEF End, Changed
<1> QED BY <1>1 DEF TxOK, Shaped, NoTx, LockTaken

\* A role is given to an actor that is there.
LEMMA GrantKeeps == ASSUME IInv, NEW w \in Workers, Grant(w) PROVE IInv'
<1> DEFINE a == tx[w].actor
<1>1. /\ Exists(a) /\ tx[w].role \in Roles
      /\ UNCHANGED <<actors, identities, attempts, made, bound>>
      /\ roles' = WithRoles(a, {tx[w].role})
  BY TxKnown DEF Grant, At, GrantOK, history
<1>2. Changed(w) /\ LockTaken(w) /\ TxOK(tx[w])'
  BY Ended DEF Grant
<1>3. \A v \in Workers : Kept(v)
  BY <1>1 DEF Kept, Exists
<1>4. DOMAIN roles' = DOMAIN actors' /\ \A b \in DOMAIN roles' : roles'[b] \subseteq Roles
  BY <1>1 DEF IInv, TypeOK, WithRoles, RolesOf, Exists
<1>5. TypeOK'
  BY <1>1, <1>4 DEF IInv, TypeOK, Exists
<1>6. RowsOK'
  BY <1>1 DEF IInv, RowsOK, Old
<1>7. BoundOK'
  BY <1>1 DEF IInv, BoundOK, CodeBindsOnce, Exists, Old
<1> QED BY <1>2, <1>3, <1>5, <1>6, <1>7, StepKeeps

\* A row that is changed keeps its shape.
LEMMA RowKept ==
  ASSUME NEW row \in Rows, NEW b \in BOOLEAN
  PROVE  /\ [row EXCEPT !.active = b] \in Rows
         /\ [row EXCEPT !.active = b].code = row.code
         /\ [row EXCEPT !.active = b].key = row.key
         /\ [row EXCEPT !.code = NoCode] \in Rows
         /\ [row EXCEPT !.code = NoCode].code = NoCode
         /\ [row EXCEPT !.code = NoCode].key = row.key
  BY DEF Rows

\* What rows of the same actors, that keep their key and do not get a code,
\* preserve.
LEMMA SameActors ==
  ASSUME IInv, DOMAIN actors' = DOMAIN actors, UNCHANGED <<made, bound>>,
         DOMAIN identities' = Accounts,
         \A a \in DOMAIN actors : /\ actors'[a] \in Rows /\ actors'[a].key = actors[a].key
                                  /\ actors'[a].code \in {actors[a].code, NoCode}
  PROVE  /\ RowsOK' /\ BoundOK'
         /\ \A a, b \in DOMAIN actors' :
              actors'[a].code = actors'[b].code => a = b \/ actors'[a].code = NoCode
<1>1. RowsOK'
  BY DEF IInv, RowsOK, Old
<1>2. BoundOK'
  BY DEF IInv, BoundOK, CodeBindsOnce, Old, Exists
<1>3. \A a, b \in DOMAIN actors' :
        actors'[a].code = actors'[b].code => a = b \/ actors'[a].code = NoCode
  BY DEF IInv, TypeOK
<1> QED BY <1>1, <1>2, <1>3

\* What a transaction relies on when it has locked an actor, of the transaction
\* of another worker.
LEMMA NotMine ==
  ASSUME IInv, NEW v \in Workers, NEW w \in Workers, v # w, Locked(v), ActorFree(w, tx[w].actor)
  PROVE  tx[v].actor # tx[w].actor
  BY DEF ActorFree, HoldsActor, Locked

\* An actor that has no role left is deactivated and has no code.
LEMMA RevokeKeeps == ASSUME IInv, NEW w \in Workers, Revoke(w) PROVE IInv'
<1> DEFINE a == tx[w].actor
<1>1. /\ ActorFree(w, a)
      /\ roles' = [roles EXCEPT ![a] = @ \ {tx[w].role}]
      /\ \/ actors' = [actors EXCEPT ![a].active = FALSE, ![a].code = NoCode]
         \/ actors' = actors
      /\ UNCHANGED <<identities, attempts, made, bound>>
  BY DEF Revoke, history
<1>2. Changed(w) /\ LockTaken(w) /\ TxOK(tx[w])'
  BY Ended DEF Revoke
<1>3. DOMAIN actors' = DOMAIN actors /\ \A b \in DOMAIN actors \ {a} : actors'[b] = actors[b]
  BY <1>1
<1>4. \A b \in DOMAIN actors : /\ actors'[b] \in Rows /\ actors'[b].key = actors[b].key
                               /\ actors'[b].code \in {actors[b].code, NoCode}
  <2>1. CASE actors' = [actors EXCEPT ![a].active = FALSE, ![a].code = NoCode]
    <3> SUFFICES ASSUME a \in DOMAIN actors
                 PROVE  /\ actors'[a] \in Rows /\ actors'[a].key = actors[a].key
                        /\ actors'[a].code \in {actors[a].code, NoCode}
      BY <1>3 DEF IInv, RowsOK
    <3>1. PICK row \in Rows : row = actors[a]
      BY DEF IInv, RowsOK
    <3>2. PICK off \in Rows : off = [row EXCEPT !.active = FALSE] /\ off.key = row.key
      BY RowKept
    <3>3. actors'[a] = [off EXCEPT !.code = NoCode]
      BY <2>1, <3>1, <3>2
    <3> QED BY <3>1, <3>2, <3>3, RowKept
  <2>2. CASE actors' = actors
    BY <2>2 DEF IInv, RowsOK
  <2> QED BY <1>1, <2>1, <2>2
<1>5. RowsOK' /\ BoundOK' /\ \A b, c \in DOMAIN actors' :
        actors'[b].code = actors'[c].code => b = c \/ actors'[b].code = NoCode
  BY <1>1, <1>3, <1>4, SameActors DEF IInv, RowsOK
<1>6. DOMAIN roles' = DOMAIN actors' /\ \A b \in DOMAIN roles' : roles'[b] \subseteq Roles
  BY <1>1, <1>3 DEF IInv, TypeOK
<1>7. TypeOK'
  BY <1>1, <1>3, <1>4, <1>5, <1>6 DEF IInv, TypeOK, Exists, Rows
<1>8. \A v \in Workers \ {w} : Kept(v)
  BY <1>1, <1>3, NotMine DEF Kept, Exists
<1> QED BY <1>2, <1>5, <1>7, <1>8, StepKeeps

\* A new row of an identifier that is not used; its code is nobody's and its
\* key is no other row's.
LEMMA NewActor ==
  ASSUME IInv, NEW a, ~Exists(a), NEW row \in Rows, actors' = WithActor(a, row),
         Old(a)', \A r \in Requests : made'[r] >= made[r],
         made' \in [Requests -> Nat],
         UNCHANGED bound, DOMAIN identities' = Accounts,
         row.code = NoCode \/ \A b \in bound : b.code # a,
         row.code = NoCode \/ \A b \in DOMAIN actors : actors[b].code # row.code,
         row.key = NoKey \/ \A b \in DOMAIN actors : actors[b].key # row.key
  PROVE  /\ RowsOK' /\ BoundOK'
         /\ \A b, c \in DOMAIN actors' :
              actors'[b].code = actors'[c].code => b = c \/ actors'[b].code = NoCode
<1>1. /\ DOMAIN actors' = DOMAIN actors \cup {a} /\ actors'[a] = row
      /\ \A b \in DOMAIN actors : actors'[b] = actors[b] /\ b # a
  BY DEF WithActor, Exists
<1>2. \A b : Old(b) => Old(b)'
  <2> SUFFICES ASSUME NEW b, Old(b), NEW r \in Requests, NEW n \in Nat, b = Made(r, n)
               PROVE  n <= made'[r]
    BY DEF Old
  <2>1. n <= made[r] /\ made'[r] >= made[r] /\ made[r] \in Nat /\ made'[r] \in Nat
    BY DEF Old, IInv, RowsOK
  <2> QED BY <2>1
<1>3. RowsOK'
  <2>1. \A b \in DOMAIN actors' : actors'[b] \in Rows /\ Old(b)'
    BY <1>1, <1>2 DEF IInv, RowsOK
  <2>2. \A b, c \in DOMAIN actors' : actors'[b].key = actors'[c].key => b = c \/ actors'[b].key = NoKey
    BY <1>1 DEF IInv, RowsOK
  <2> QED BY <2>1, <2>2 DEF RowsOK
<1>4. BoundOK'
  BY <1>1, <1>2 DEF IInv, BoundOK, CodeBindsOnce, Exists
<1>5. \A b, c \in DOMAIN actors' :
        actors'[b].code = actors'[c].code => b = c \/ actors'[b].code = NoCode
  BY <1>1 DEF IInv, TypeOK
<1> QED BY <1>3, <1>4, <1>5

\* upsert_actor makes the actor or activates it, and binds the account.
LEMMA UpsertKeeps == ASSUME IInv, NEW w \in Workers, Upsert(w) PROVE IInv'
<1> DEFINE a == tx[w].actor
           x == tx[w].account
<1>1. /\ x \in Accounts /\ tx[w].role \in Roles /\ Locked(w)
      /\ a = Own(x) \/ Exists(a)
      /\ UNCHANGED <<attempts, made, bound>>
  BY TxKnown DEF Upsert, At, UpsertOK, history, Locked
<1>2. Changed(w) /\ LockTaken(w) /\ TxOK(tx[w])'
  BY Ended DEF Upsert
<1>3. CASE UNCHANGED Tables
  <2>1. Quiet /\ attempts' = attempts
    BY <1>1, <1>3 DEF Quiet, Tables
  <2> QED BY <2>1, EndKeeps DEF Upsert, IInv, TypeOK
<1>4. CASE /\ identities[x] \in {None, a}
           /\ actors' = IF Exists(a) THEN [actors EXCEPT ![a].active = TRUE]
                        ELSE WithActor(a, Row(NoCode, NoKey))
           /\ roles' = WithRoles(a, {tx[w].role})
           /\ identities' = [identities EXCEPT ![x] = a]
  <2> DEFINE CodesDiffer == \A b, c \in DOMAIN actors' :
               actors'[b].code = actors'[c].code => b = c \/ actors'[b].code = NoCode
  <2>1. DOMAIN identities' = Accounts /\ \A y \in Accounts : identities'[y] = IF y = x THEN a ELSE identities[y]
    BY <1>4 DEF IInv, RowsOK
  <2>2. /\ RowsOK' /\ BoundOK' /\ CodesDiffer /\ DOMAIN actors' = DOMAIN actors \cup {a}
        /\ \A b \in DOMAIN actors \ {a} : actors'[b] = actors[b]
    <3>1. CASE Exists(a)
      <4>1. PICK row \in Rows : row = actors[a]
        BY <3>1 DEF IInv, RowsOK, Exists
      <4>2. actors' = [actors EXCEPT ![a] = [row EXCEPT !.active = TRUE]]
        BY <1>4, <3>1, <4>1
      <4>3. DOMAIN actors' = DOMAIN actors /\ \A b \in DOMAIN actors \ {a} : actors'[b] = actors[b]
        BY <4>2
      <4>4. actors'[a] \in Rows /\ actors'[a].key = actors[a].key /\ actors'[a].code = actors[a].code
        BY <3>1, <4>1, <4>2, RowKept DEF Exists
      <4>5. \A b \in DOMAIN actors : /\ actors'[b] \in Rows /\ actors'[b].key = actors[b].key
                                     /\ actors'[b].code \in {actors[b].code, NoCode}
        BY <4>3, <4>4 DEF IInv, RowsOK
      <4> QED BY <1>1, <2>1, <3>1, <4>3, <4>5, SameActors DEF Exists
    <3>2. CASE ~Exists(a)
      <4>1. PICK row : row = Row(NoCode, NoKey)
        OBVIOUS
      <4>2. row \in Rows /\ row.code = NoCode /\ row.key = NoKey
        BY <4>1 DEF Row, Rows
      <4>3. PICK c : c = a
        OBVIOUS
      <4>4. actors' = WithActor(c, row) /\ ~Exists(c)
        BY <1>4, <3>2, <4>1, <4>3
      <4>5. Old(c)'
        BY <1>1, <3>2, <4>3 DEF Old, Own, Made
      <4>6. \A r \in Requests : made'[r] >= made[r]
        BY <1>1 DEF IInv, RowsOK
      <4>7. DOMAIN actors' = DOMAIN actors \cup {c} /\ \A b \in DOMAIN actors \ {c} : actors'[b] = actors[b]
        BY <4>4 DEF WithActor
      <4>8. RowsOK' /\ BoundOK' /\ CodesDiffer
        BY <1>1, <2>1, <4>2, <4>4, <4>5, <4>6, NewActor DEF IInv, RowsOK
      <4> QED BY <4>3, <4>7, <4>8
    <3> QED BY <3>1, <3>2
  <2>3. DOMAIN roles' = DOMAIN actors' /\ \A b \in DOMAIN roles' : roles'[b] \subseteq Roles
    BY <1>1, <1>4, <2>2 DEF IInv, TypeOK, WithRoles, RolesOf
  <2>4. \A y \in Accounts : identities'[y] = None \/ identities'[y] \in DOMAIN actors'
    BY <2>1, <2>2 DEF IInv, TypeOK, Exists
  <2>5. TypeOK'
    <3>1. \A b \in DOMAIN actors' :
            actors'[b].active \in BOOLEAN /\ actors'[b].code \in Codes \cup {NoCode}
      BY <2>2 DEF RowsOK, Rows
    <3> QED BY <1>1, <2>2, <2>3, <2>4, <3>1 DEF IInv, TypeOK, Exists
  <2>6. \A v \in Workers \ {w} : Locked(v) => tx[v].actor # a
    BY <1>1 DEF IInv, Locks
  <2>7. \A v \in Workers \ {w} : Kept(v)
    BY <1>4, <2>1, <2>2, <2>6 DEF Kept, Exists
  <2> QED BY <1>2, <2>2, <2>5, <2>7, StepKeeps
<1> QED BY <1>3, <1>4 DEF Upsert

\* create_staff_actor makes an actor unless one was made with the key.
LEMMA CreateKeeps == ASSUME IInv, NEW w \in Workers, Create(w) PROVE IInv'
<1>1. PICK q \in Requests : tx[w].key = <<q, 0>>
  BY TxKnown DEF Create, At, CreateOK, RequestKey
<1>2. /\ tx[w].role \in Roles /\ tx[w].key[1] = q
      /\ UNCHANGED <<identities, attempts, bound>>
  BY <1>1, TxKnown DEF Create, At, CreateOK
<1>3. Changed(w) /\ LockTaken(w) /\ TxOK(tx[w])'
  BY Ended DEF Create
<1>4. CASE UNCHANGED <<actors, roles, made>>
  <2>1. Quiet
    BY <1>2, <1>4 DEF Quiet
  <2> QED BY <1>2, <2>1, EndKeeps DEF Create, IInv, TypeOK
<1>5. ASSUME ~KeyIsUsed(tx[w].key), NEW c \in UnusedCodes, NEW a, a = Made(q, made[q] + 1),
             actors' = WithActor(a, Row(c, tx[w].key)),
             roles' = WithRoles(a, {tx[w].role}), made' = [made EXCEPT ![q] = made[q] + 1]
      PROVE  IInv'
  <2>1. made \in [Requests -> Nat] /\ made' \in [Requests -> Nat] /\ made'[q] = made[q] + 1
    BY <1>5 DEF IInv, RowsOK
  <2>2. \A r \in Requests : made'[r] >= made[r]
    BY <1>5, <2>1
  <2>3. ~Old(a) /\ Old(a)'
    BY <1>5, <2>1 DEF Old, Made
  <2>4. ~Exists(a) /\ \A b \in bound : b.code # a
    BY <2>3 DEF IInv, RowsOK, BoundOK, Exists
  <2>5. PICK row : row = Row(c, tx[w].key)
    OBVIOUS
  <2>6. row \in Rows /\ row.code = c /\ row.key = tx[w].key
    BY <1>1, <2>5 DEF Row, Rows, UnusedCodes
  <2>7. \A b \in DOMAIN actors : actors[b].code # row.code /\ actors[b].key # row.key
    BY <1>5, <2>6 DEF UnusedCodes, KeyIsUsed
  <2>8. RowsOK' /\ BoundOK' /\ \A b, d \in DOMAIN actors' :
          actors'[b].code = actors'[d].code => b = d \/ actors'[b].code = NoCode
    BY <1>2, <1>5, <2>1, <2>2, <2>3, <2>4, <2>5, <2>6, <2>7, NewActor DEF IInv, RowsOK
  <2>9. /\ DOMAIN actors' = DOMAIN actors \cup {a}
        /\ \A b \in DOMAIN actors : actors'[b] = actors[b]
    BY <1>5, <2>4 DEF WithActor, Exists
  <2>10. DOMAIN roles' = DOMAIN actors' /\ \A b \in DOMAIN roles' : roles'[b] \subseteq Roles
    BY <1>2, <1>5, <2>9 DEF IInv, TypeOK, WithRoles, RolesOf
  <2>11. TypeOK'
    <3>1. \A b \in DOMAIN actors' :
            actors'[b].active \in BOOLEAN /\ actors'[b].code \in Codes \cup {NoCode}
      BY <2>8 DEF RowsOK, Rows
    <3> QED BY <1>2, <2>8, <2>9, <2>10, <3>1 DEF IInv, TypeOK, Exists
  <2>12. \A v \in Workers : Kept(v)
    BY <1>2, <2>9 DEF Kept, Exists
  <2> QED BY <1>3, <2>8, <2>11, <2>12, StepKeeps
<1> QED BY <1>2, <1>4, <1>5 DEF Create

\* A code that is used up: its actor has no code any more, or is gone.
LEMMA UsedUp ==
  ASSUME IInv, NEW w \in Workers, At(w, "bind", "locked"),
         bound' = bound \cup {[code |-> tx[w].actor, account |-> tx[w].account]},
         UNCHANGED made, DOMAIN actors' \subseteq DOMAIN actors,
         \A b \in DOMAIN actors' : actors'[b].code \in {actors[b].code, NoCode},
         tx[w].actor \in DOMAIN actors' => actors'[tx[w].actor].code = NoCode
  PROVE  BoundOK'
<1> DEFINE p == tx[w].actor
           new == [code |-> p, account |-> tx[w].account]
<1>1. p \in DOMAIN actors /\ Old(p) /\ actors[p].code # NoCode
  BY TxKnown, StaffAssumption DEF At, BindOK, Exists, IInv, RowsOK, NoCode
<1>2. \A b \in bound : b.code # p
  BY <1>1 DEF IInv, BoundOK, Exists
<1>3. \A a : Old(a) => Old(a)'
  BY DEF Old
<1>4. \A b \in bound : /\ Old(b.code)'
                       /\ b.code \in DOMAIN actors' => actors'[b.code].code = NoCode
  BY <1>3 DEF IInv, BoundOK, Exists
<1>5. \A n : Old(n)' => \A r \in Requests, k \in Nat : n = Made(r, k) => k <= made'[r]
  BY DEF Old
<1>6. new.code = p
  OBVIOUS
<1>7. \A r \in Requests, k \in Nat : p = Made(r, k) => k <= made'[r]
  BY <1>1 DEF Old
<1>8. \A b \in bound' : /\ \A r \in Requests, k \in Nat : b.code = Made(r, k) => k <= made'[r]
                        /\ b.code \in DOMAIN actors' => actors'[b.code].code = NoCode
  BY <1>4, <1>5, <1>6, <1>7
<1>9. \A b, c \in bound' : b.code = c.code => b = c
  BY <1>2, <1>6 DEF IInv, BoundOK, CodeBindsOnce
<1> QED BY <1>8, <1>9 DEF BoundOK, Old, CodeBindsOnce, Exists

\* A transaction that has bound goes on to clear the window.
LEMMA BoundStep ==
  ASSUME IInv, NEW w \in Workers, At(w, "bind", "locked"), To(w, "clearing")
  PROVE  Changed(w) /\ LockTaken(w) /\ TxOK(tx[w])'
<1>1. PICK t : t = [tx[w] EXCEPT !.step = "clearing"]
  OBVIOUS
<1>2. Shaped(tx[w]) /\ BindOK(tx[w])
  BY TxKnown DEF At
<1>3. /\ Shaped(t) /\ t.kind = "bind" /\ t.step = "clearing"
      /\ t.account = tx[w].account /\ t.code = tx[w].code
  BY <1>1, <1>2, Stepped DEF At
<1>4. tx'[w] = t /\ Changed(w)
  BY <1>1, TxKnown DEF To, Changed
<1> QED BY <1>2, <1>3, <1>4 DEF TxOK, Shaped, BindOK, LockTaken

\* The account is given to the actor of the code, and the code is used up.
LEMMA BindAccountKeeps ==
  ASSUME IInv, NEW w \in Workers, At(w, "bind", "locked"), To(w, "clearing"),
         BindAccount(w, tx[w].actor, tx[w].account),
         bound' = bound \cup {[code |-> tx[w].actor, account |-> tx[w].account]},
         UNCHANGED <<attempts, made>>
  PROVE  IInv'
<1> DEFINE p == tx[w].actor
           x == tx[w].account
<1>1. p \in DOMAIN actors /\ x \in Accounts /\ Locked(w)
  BY TxKnown DEF At, BindOK, Exists, Locked
<1>2. PICK row \in Rows : row = actors[p]
  BY <1>1 DEF IInv, RowsOK
<1>3. actors' = [actors EXCEPT ![p] = [row EXCEPT !.code = NoCode]] /\ roles' = roles
  BY <1>2 DEF BindAccount
<1>4. DOMAIN actors' = DOMAIN actors /\ \A b \in DOMAIN actors \ {p} : actors'[b] = actors[b]
  BY <1>3
<1>5. actors'[p] \in Rows /\ actors'[p].key = actors[p].key /\ actors'[p].code = NoCode
  BY <1>1, <1>2, <1>3, RowKept
<1>6. DOMAIN identities' = Accounts /\ \A y \in Accounts :
        identities'[y] = IF y = x /\ identities[y] = None THEN p ELSE identities[y]
  BY <1>1 DEF BindAccount, IInv, RowsOK
<1>7. BoundOK'
  BY <1>4, <1>5, UsedUp
<1>8. RowsOK'
  <2>1. \A b \in DOMAIN actors' : actors'[b] \in Rows /\ actors'[b].key = actors[b].key
    BY <1>4, <1>5 DEF IInv, RowsOK
  <2> QED BY <2>1, <1>4, <1>6 DEF IInv, RowsOK, Old
<1>9. TypeOK'
  <2>1. \A b \in DOMAIN actors' :
          actors'[b].active \in BOOLEAN /\ actors'[b].code \in Codes \cup {NoCode}
    BY <1>8 DEF RowsOK, Rows
  <2>2. \A b, c \in DOMAIN actors' :
          actors'[b].code = actors'[c].code => b = c \/ actors'[b].code = NoCode
    BY <1>4, <1>5 DEF IInv, TypeOK
  <2> QED BY <2>1, <2>2, <1>1, <1>3, <1>4, <1>6 DEF IInv, TypeOK, Exists
<1>10. \A v \in Workers \ {w} : Locked(v) => tx[v].actor # p
  BY <1>1 DEF IInv, Locks
<1>11. \A v \in Workers \ {w} : Kept(v)
  BY <1>4, <1>6, <1>10 DEF Kept, Exists
<1> QED BY <1>7, <1>8, <1>9, <1>11, BoundStep, StepKeeps

\* The actor of the code is merged into the account's own actor.
LEMMA MergeKeeps ==
  ASSUME IInv, NEW w \in Workers, At(w, "bind", "locked"), To(w, "clearing"),
         NEW a \in tx[w].seen, a \notin {None, tx[w].actor}, Merge(w, tx[w].actor, a),
         bound' = bound \cup {[code |-> tx[w].actor, account |-> tx[w].account]},
         UNCHANGED <<attempts, made>>
  PROVE  IInv' /\ \A y \in Accounts : identities'[y] = identities[y]
<1> DEFINE p == tx[w].actor
           x == tx[w].account
<1>1. /\ p \in DOMAIN actors /\ x \in Accounts /\ Locked(w)
      /\ identities[x] = a /\ ~HasBindings(p)
  BY TxKnown DEF At, BindOK, Exists, Locked, SeenOK
<1>2. a \in DOMAIN actors /\ a # p
  BY <1>1 DEF IInv, TypeOK, Exists
<1>3. PICK row \in Rows : row = actors[a]
  BY <1>2 DEF IInv, RowsOK
<1>4. actors' = Without([actors EXCEPT ![a] = [row EXCEPT !.active = TRUE]], p)
  BY <1>3 DEF Merge
<1>5. /\ DOMAIN actors' = DOMAIN actors \ {p}
      /\ \A b \in DOMAIN actors' \ {a} : actors'[b] = actors[b]
      /\ actors'[a] = [row EXCEPT !.active = TRUE]
  BY <1>2, <1>4 DEF Without
<1>6. actors'[a] \in Rows /\ actors'[a].key = actors[a].key /\ actors'[a].code = actors[a].code
  BY <1>3, <1>5, RowKept
<1>7. \A b \in DOMAIN actors' : /\ actors'[b] \in Rows /\ actors'[b].key = actors[b].key
                                /\ actors'[b].code = actors[b].code
  BY <1>5, <1>6 DEF IInv, RowsOK
<1>8. DOMAIN identities' = Accounts /\ \A y \in Accounts : identities'[y] = identities[y] /\ identities[y] # p
  BY <1>1 DEF Merge, HasBindings
<1>9. BoundOK'
  BY <1>5, <1>7, UsedUp
<1>10. RowsOK'
  BY <1>5, <1>7, <1>8 DEF IInv, RowsOK, Old
<1>11. DOMAIN roles' = DOMAIN actors' /\ \A b \in DOMAIN roles' : roles'[b] \subseteq Roles
  BY <1>2, <1>5 DEF Merge, Without, WithRoles, RolesOf, IInv, TypeOK
<1>12. TypeOK'
  <2>1. \A b \in DOMAIN actors' :
          actors'[b].active \in BOOLEAN /\ actors'[b].code \in Codes \cup {NoCode}
    BY <1>7 DEF Rows
  <2>2. \A b, c \in DOMAIN actors' :
          actors'[b].code = actors'[c].code => b = c \/ actors'[b].code = NoCode
    BY <1>5, <1>7 DEF IInv, TypeOK
  <2> QED BY <2>1, <2>2, <1>5, <1>8, <1>11 DEF IInv, TypeOK, Exists
<1>13. \A v \in Workers \ {w} : Locked(v) => tx[v].actor # p
  BY <1>1 DEF IInv, Locks
<1>14. \A v \in Workers \ {w} : Kept(v)
  BY <1>5, <1>7, <1>8, <1>13 DEF Kept, Exists
<1> QED BY <1>8, <1>9, <1>10, <1>12, <1>14, BoundStep, StepKeeps

\* A binding transaction that writes has locked the row of the code.
LEMMA BindKnown ==
  ASSUME IInv, NEW w \in Workers, Bind(w)
  PROVE  /\ At(w, "bind", "locked") /\ To(w, "clearing") /\ UNCHANGED <<attempts, made>>
         /\ bound' = bound \cup {[code |-> tx[w].actor, account |-> tx[w].account]}
         /\ \/ BindAccount(w, tx[w].actor, tx[w].account)
            \/ \E a \in tx[w].seen : a \notin {None, tx[w].actor} /\ Merge(w, tx[w].actor, a)
<1>1. At(w, "bind", "locked")
  BY TxKnown DEF Bind, At, BindOK
<1> QED BY <1>1 DEF Bind

\* Binding, either way.
LEMMA BindKeeps == ASSUME IInv, NEW w \in Workers, Bind(w) PROVE IInv'
  BY BindKnown, BindAccountKeeps, MergeKeeps

-----------------------------------------------------------------------------
(* Theorems.                                                               *)

\* The tables are empty and no worker has begun.
LEMMA InitEstablishes == ASSUME Init PROVE IInv
<1>1. TypeOK
  BY StaffAssumption DEF Init, TypeOK, NoSession
<1>2. RowsOK
  BY DEF Init, RowsOK
<1>3. BoundOK
  BY DEF Init, BoundOK, CodeBindsOnce
<1>4. TxsOK
  BY DEF Init, TxsOK, TxOK, Shaped, NoTx
<1>5. Locks
  BY DEF Init, Locks, Locked, NoTx
<1> QED BY <1>1, <1>2, <1>3, <1>4, <1>5 DEF IInv

\* Each step keeps it.
LEMMA NextKeeps == ASSUME IInv, [Next]_vars PROVE IInv'
<1>1. CASE UNCHANGED vars
  <2>1. UNCHANGED <<actors, roles, identities, attempts, tx, made, bound>>
    BY <1>1 DEF vars, history
  <2>2. \A v \in Workers : Kept(v)
    BY <2>1 DEF Kept, Exists
  <2>3. TxsOK'
    BY <2>1, <2>2, TxKept DEF IInv, TxsOK
  <2>4. TypeOK' /\ RowsOK' /\ Locks'
    BY <2>1 DEF IInv, TypeOK, RowsOK, Locks, Locked, Exists, Old
  <2>5. BoundOK'
    BY <2>1 DEF IInv, BoundOK, CodeBindsOnce, Exists, Old
  <2> QED BY <2>3, <2>4, <2>5 DEF IInv
<1>2. ASSUME NEW w \in Workers, Step(w) PROVE IInv'
  BY <1>2, LockToGrantKeeps, GrantKeeps, CountRemainingKeeps, RevokeKeeps, LockToUpsertKeeps,
     UpsertKeeps, CreateKeeps, FindByCodeKeeps, CheckBindingKeeps, BindKeeps, TakeAttemptKeeps,
     ClearBindingSessionKeeps, RollbackKeeps DEF Step
<1>3. ASSUME NEW w \in Workers,
             \/ \E x \in Accounts : Register(w, x)
             \/ \E a \in DOMAIN actors, role \in ApiRoles, x \in Accounts : ApiUpsert(w, a, role, x)
             \/ \E a \in DOMAIN actors, role \in StaffRoles : RevokeMembership(w, a, role)
             \/ \E r \in Requests : LockKey(w, r)
             \/ \E x \in Accounts, c \in Codes, f \in Frontends : EnterCode(w, x, c, f)
      PROVE  IInv'
  BY <1>3, RegisterKeeps, ApiUpsertKeeps, RevokeMembershipKeeps, LockKeyKeeps, EnterCodeKeeps
<1>4. ASSUME NEW x \in Accounts, (\E f \in Frontends : StartBinding(x, f)) \/ ExpireWindow(x)
      PROVE  IInv'
  BY <1>4, WindowKeeps
<1> QED BY <1>1, <1>2, <1>3, <1>4 DEF Next

\* What the transactions rely on holds between any two of their steps.
THEOREM Invariance == Spec => []IInv
<1>1. Init => IInv
  BY InitEstablishes
<1>2. IInv /\ [Next]_vars => IInv'
  BY NextKeeps
<1> QED BY <1>1, <1>2, PTL DEF Spec

\* Types; the actor of an account exists, no two actors have one code, and
\* refused codes are counted up to the limit (take_attempt).
THEOREM TypeCorrect == Spec => []TypeOK
<1>1. IInv => TypeOK
  BY DEF IInv
<1> QED BY <1>1, Invariance, PTL

\* A code binds one account, however many workers take it at a time
\* (bind_actor_by_code).
THEOREM CodeIsUsedOnce == Spec => []CodeBindsOnce
<1>1. IInv => CodeBindsOnce
  BY DEF IInv, BoundOK
<1> QED BY <1>1, Invariance, PTL

-----------------------------------------------------------------------------
(* What is made for a creation.                                            *)

\* While the last actor of a creation is there, it has the creation's key, so
\* that create_staff_actor finds it; the others were merged away.
MadeOK ==
  \A r \in Requests : \A n \in 1..made[r] :
    \/ n = made[r] /\ Exists(Made(r, n)) /\ actors[Made(r, n)].key = RequestKey(r)
    \/ MergedAway(Made(r, n))

\* A step that makes nothing for a creation: keys stay, what is new is a
\* client's actor, and what is gone was merged.
Persists ==
  /\ made' = made /\ bound \subseteq bound'
  /\ \A a \in DOMAIN actors \cap DOMAIN actors' : actors'[a].key = actors[a].key
  /\ \A a \in DOMAIN actors' \ DOMAIN actors : \E x \in Accounts : a = Own(x)
  /\ \A a \in DOMAIN actors \ DOMAIN actors' : \E b \in bound' : b.code = a

LEMMA PersistsKeeps == ASSUME MadeOK, Persists PROVE MadeOK'
<1> SUFFICES ASSUME NEW r \in Requests, NEW n \in 1..made[r]
             PROVE  \/ /\ n = made[r] /\ Made(r, n) \in DOMAIN actors'
                       /\ actors'[Made(r, n)].key = RequestKey(r)
                    \/ MergedAway(Made(r, n))'
  BY DEF MadeOK, Persists, Exists, RequestKey, Made
<1> DEFINE a == Made(r, n)
<1>1. \A x \in Accounts : a # Own(x)
  BY DEF Made, Own
<1>2. CASE n = made[r] /\ Exists(a) /\ actors[a].key = RequestKey(r)
  BY <1>2 DEF Persists, MergedAway, Exists
<1>3. CASE MergedAway(a)
  BY <1>1, <1>3 DEF Persists, MergedAway, Exists
<1> QED BY <1>2, <1>3 DEF MadeOK

\* Only an actor without the creation's key, that is none, lets it make another.
LEMMA CreateMakes == ASSUME IInv, MadeOK, NEW w \in Workers, Create(w) PROVE MadeOK'
<1>1. PICK q \in Requests : tx[w].key = RequestKey(q) /\ tx[w].key[1] = q
  BY TxKnown DEF Create, At, CreateOK, RequestKey
<1>2. bound' = bound
  BY DEF Create
<1>3. CASE UNCHANGED <<actors, roles, made>>
  BY <1>2, <1>3, PersistsKeeps DEF Persists
<1>4. ASSUME ~KeyIsUsed(tx[w].key), NEW c \in UnusedCodes,
             actors' = WithActor(Made(q, made[q] + 1), Row(c, tx[w].key)),
             made' = [made EXCEPT ![q] = made[q] + 1]
      PROVE  MadeOK'
  <2> DEFINE a == Made(q, made[q] + 1)
  <2>1. /\ made \in [Requests -> Nat] /\ made'[q] = made[q] + 1
        /\ \A r \in Requests \ {q} : made'[r] = made[r]
    BY <1>4 DEF IInv, RowsOK
  <2>2. /\ DOMAIN actors' = DOMAIN actors \cup {a}
        /\ actors'[a] = Row(c, tx[w].key)
        /\ \A b \in DOMAIN actors \ {a} : actors'[b] = actors[b]
    BY <1>4 DEF WithActor
  <2>3. \A r \in Requests, n \in Nat : n <= made[r] => Made(r, n) # a
    BY <2>1 DEF Made
  <2>4. \A n \in 1..made[q] : MergedAway(Made(q, n))
    BY <1>1, <1>4 DEF MadeOK, KeyIsUsed, Exists
  <2> SUFFICES ASSUME NEW r \in Requests, NEW n \in 1..made'[r]
               PROVE  \/ /\ n = made'[r] /\ Made(r, n) \in DOMAIN actors'
                         /\ actors'[Made(r, n)].key = RequestKey(r)
                      \/ MergedAway(Made(r, n))'
    BY DEF MadeOK, Exists, RequestKey, Made
  <2>5. CASE r = q /\ n = made[q] + 1
    BY <1>1, <2>1, <2>2, <2>5 DEF Row
  <2>6. CASE r = q /\ n # made[q] + 1
    <3>1. n \in 1..made[q] /\ n \in Nat /\ n <= made[q]
      BY <2>1, <2>6
    <3>2. MergedAway(Made(q, n)) /\ Made(q, n) # a
      BY <3>1, <2>3, <2>4
    <3>3. MergedAway(Made(q, n))'
      BY <3>2, <1>2, <2>2 DEF MergedAway, Exists
    <3> QED BY <3>3, <2>6
  <2>7. CASE r # q
    <3>1. n \in 1..made[r] /\ n \in Nat /\ n <= made[r] /\ made'[r] = made[r]
      BY <2>1, <2>7
    <3>2. Made(r, n) # a
      BY <3>1, <2>3
    <3>3. \/ n = made[r] /\ Exists(Made(r, n)) /\ actors[Made(r, n)].key = RequestKey(r)
          \/ MergedAway(Made(r, n))
      BY <3>1 DEF MadeOK
    <3>4. MergedAway(Made(r, n)) => MergedAway(Made(r, n))'
      BY <3>2, <1>2, <2>2 DEF MergedAway, Exists
    <3> QED BY <3>1, <3>2, <3>3, <3>4, <2>2 DEF Exists
  <2> QED BY <2>5, <2>6, <2>7
<1> QED BY <1>1, <1>3, <1>4 DEF Create

\* revoke_role, upsert_actor and bind_actor_by_code change rows.
LEMMA RevokePersists == ASSUME IInv, NEW w \in Workers, Revoke(w) PROVE Persists
<1>1. DOMAIN actors' = DOMAIN actors /\ UNCHANGED <<made, bound>>
  BY DEF Revoke, history
<1>2. ASSUME NEW a \in DOMAIN actors PROVE actors'[a].key = actors[a].key
  <2>1. actors[a] \in Rows
    BY DEF IInv, RowsOK
  <2> QED BY <2>1 DEF Revoke, Rows
<1> QED BY <1>1, <1>2 DEF Persists

LEMMA UpsertPersists == ASSUME IInv, NEW w \in Workers, Upsert(w) PROVE Persists
<1> DEFINE a == tx[w].actor
<1>1. /\ a = Own(tx[w].account) \/ Exists(a)
      /\ tx[w].account \in Accounts /\ UNCHANGED <<made, bound>>
  BY TxKnown DEF Upsert, At, UpsertOK, history
<1>2. CASE UNCHANGED actors
  BY <1>1, <1>2 DEF Persists
<1>3. CASE Exists(a) /\ actors' = [actors EXCEPT ![a].active = TRUE]
  <2>1. actors[a] \in Rows
    BY <1>3 DEF IInv, RowsOK, Exists
  <2>2. \A b \in DOMAIN actors : actors'[b].key = actors[b].key
    BY <1>3, <2>1 DEF Rows
  <2> QED BY <1>1, <1>3, <2>2 DEF Persists
<1>4. CASE ~Exists(a) /\ actors' = WithActor(a, Row(NoCode, NoKey))
  BY <1>1, <1>4 DEF Persists, WithActor, Exists
<1> QED BY <1>2, <1>3, <1>4 DEF Upsert, Tables

LEMMA BindPersists == ASSUME IInv, NEW w \in Workers, Bind(w) PROVE Persists
<1> DEFINE p == tx[w].actor
           new == [code |-> p, account |-> tx[w].account]
<1>1. /\ made' = made /\ bound' = bound \cup {new} /\ new.code = p
      /\ BindAccount(w, p, tx[w].account) \/ \E a \in tx[w].seen : Merge(w, p, a)
  BY BindKnown
<1>2. \A b \in DOMAIN actors : actors[b] \in Rows
  BY DEF IInv, RowsOK
<1>3. CASE BindAccount(w, p, tx[w].account)
  <2>1. DOMAIN actors' = DOMAIN actors
    BY <1>3 DEF BindAccount
  <2>2. \A b \in DOMAIN actors : actors'[b].key = actors[b].key
    BY <1>2, <1>3 DEF BindAccount, Rows
  <2> QED BY <1>1, <2>1, <2>2 DEF Persists
<1>4. ASSUME NEW a, Merge(w, p, a) PROVE Persists
  <2>1. DOMAIN actors' = DOMAIN actors \ {p}
    BY <1>4 DEF Merge, Without
  <2>2. \A b \in DOMAIN actors' : actors'[b].key = actors[b].key
    BY <1>2, <1>4, <2>1 DEF Merge, Without, Rows
  <2> QED BY <1>1, <2>1, <2>2 DEF Persists
<1> QED BY <1>1, <1>3, <1>4

LEMMA MadeStep == ASSUME IInv, MadeOK, [Next]_vars PROVE MadeOK'
<1>1. CASE UNCHANGED <<actors, made, bound>>
  BY <1>1, PersistsKeeps DEF Persists
<1>2. ASSUME NEW w \in Workers, Step(w) PROVE MadeOK'
  <2>1. CASE Create(w)
    BY <2>1, CreateMakes
  <2>2. CASE Revoke(w) \/ Upsert(w) \/ Bind(w)
    BY <2>2, RevokePersists, UpsertPersists, BindPersists, PersistsKeeps
  <2>3. CASE ~(Create(w) \/ Revoke(w) \/ Upsert(w) \/ Bind(w))
    <3>1. UNCHANGED <<actors, made, bound>>
      BY <1>2, <2>3 DEF Step, LockToGrant, Grant, CountRemaining, LockToUpsert, FindByCode,
         CheckBinding, TakeAttempt, ClearBindingSession, Rollback, Tables, history
    <3> QED BY <3>1, <1>1
  <2> QED BY <2>1, <2>2, <2>3
<1>3. CASE ~\E w \in Workers : Step(w)
  <2>1. UNCHANGED <<actors, made, bound>>
    BY <1>3 DEF Next, Register, ApiUpsert, RevokeMembership, LockKey, EnterCode, StartBinding,
       ExpireWindow, Tables, history, vars
  <2> QED BY <2>1, <1>1
<1> QED BY <1>2, <1>3

\* A creation whose last message is handled again makes another actor only when
\* all it made before were merged away; what it made last is there until it is
\* merged (create_staff_actor, bind_actor_by_code).
THEOREM MadeAgainOnlyAfterMerge == Spec => []MadeAgainAfterMerge
<1>1. Init => MadeOK
  BY DEF Init, MadeOK
<1>2. IInv /\ MadeOK /\ [Next]_vars => MadeOK'
  BY MadeStep
<1>3. MadeOK => MadeAgainAfterMerge
  BY DEF MadeOK, MadeAgainAfterMerge
<1> QED BY <1>1, <1>2, <1>3, Invariance, PTL DEF Spec

-----------------------------------------------------------------------------
(* Accounts.                                                               *)

\* No account that is bound changes its actor in a step.
SameIdentities == \A x \in Accounts : identities[x] # None => identities'[x] = identities[x]

\* Only upsert_actor and bind_actor_by_code write identities.
LEMMA IdentitiesStay == ASSUME IInv, Next PROVE SameIdentities
<1>1. CASE identities' = identities
  BY <1>1 DEF SameIdentities
<1>2. ASSUME NEW w \in Workers, Upsert(w) PROVE SameIdentities
  <2>1. CASE UNCHANGED Tables
    BY <2>1, <1>1 DEF Tables
  <2>2. CASE /\ identities[tx[w].account] \in {None, tx[w].actor}
             /\ identities' = [identities EXCEPT ![tx[w].account] = tx[w].actor]
    BY <2>2 DEF SameIdentities, IInv, RowsOK
  <2> QED BY <1>2, <2>1, <2>2 DEF Upsert
<1>3. ASSUME NEW w \in Workers, Bind(w) PROVE SameIdentities
  <2>1. CASE BindAccount(w, tx[w].actor, tx[w].account)
    BY <2>1 DEF BindAccount, SameIdentities, IInv, RowsOK
  <2>2. ASSUME NEW a \in tx[w].seen, a \notin {None, tx[w].actor}, Merge(w, tx[w].actor, a)
        PROVE  SameIdentities
    BY <1>3, <2>2, BindKnown, MergeKeeps DEF SameIdentities
  <2> QED BY <1>3, <2>1, <2>2, BindKnown
<1>4. ASSUME NEW w \in Workers, Step(w), ~Upsert(w), ~Bind(w) PROVE identities' = identities
  BY <1>4 DEF Step, LockToGrant, Grant, CountRemaining, Revoke, LockToUpsert, Create, FindByCode,
     CheckBinding, TakeAttempt, ClearBindingSession, Rollback, Tables
<1>5. CASE identities' # identities
  <2>1. \E w \in Workers : Step(w)
    BY <1>5 DEF Next, Register, ApiUpsert, RevokeMembership, LockKey, EnterCode, StartBinding,
       ExpireWindow, Tables
  <2> QED BY <2>1, <1>2, <1>3, <1>4, <1>5
<1> QED BY <1>1, <1>5

\* An account that is bound stays with its actor: what is merged away has no
\* account, because it was locked when its accounts were looked for
\* (bind_actor_by_code, upsert_actor).
THEOREM AccountsAreKept == Spec => AccountsStay
<1>1. IInv /\ [Next]_vars => [SameIdentities]_identities
  BY IdentitiesStay DEF vars
<1> QED BY <1>1, Invariance, PTL DEF Spec, AccountsStay, SameIdentities
=============================================================================
