------------------------------- MODULE Staff -------------------------------
(***************************************************************************)
(* People, the roles they hold and the messenger accounts they write from  *)
(* (PostgresIdentityStore, PostgresStaffBindingSessionStore), as the       *)
(* inbox workers of several bots and the admin API change them.            *)
(*                                                                         *)
(* The transactions are READ COMMITTED, so a statement sees what has been  *)
(* committed when it starts.  A transaction is split where another one can *)
(* commit in between and matter; what it writes appears at its commit, and *)
(* it waits for the rows that another one has locked.  A transaction that  *)
(* is rolled back, by a crash or as the victim of a deadlock, leaves       *)
(* nothing, and the inbox hands its event over again.                      *)
(*                                                                         *)
(* Names, phones, the primary role (kept for compatibility, migration      *)
(* 0008) and the seven days a code lasts are left out.                     *)
(***************************************************************************)
EXTENDS Naturals

CONSTANTS
  Accounts,       \* messenger accounts
  Codes,          \* binding codes
  RequestRole,    \* creation requests: the role each one is for
  Frontends,      \* staff bots that take codes: of a role, or "staff" for all
  ApiRoles,       \* roles the admin API gives
  Workers,        \* workers that run transactions
  MaxAttempts,    \* codes that can be entered in a window
  MaxTries        \* bound on the times a creation message is handled

StaffRoles == {"operator", "master"}
Roles == StaffRoles \cup {"client"}
Requests == DOMAIN RequestRole

ASSUME StaffAssumption ==
  /\ MaxAttempts \in Nat \ {0} /\ MaxTries \in Nat \ {0}
  /\ RequestRole \in [Requests -> StaffRoles]
  /\ Frontends \subseteq StaffRoles \cup {"staff"} /\ ApiRoles \subseteq Roles
  /\ "none" \notin Codes \cup Requests

VARIABLES
  actors,         \* table actors: [active, code, key] by identifier
  roles,          \* active rows of actor_roles, by actor
  identities,     \* external_identities: the actor of an account
  attempts,       \* staff_binding_sessions: attempts, by account
  tx,             \* the transaction each worker runs
  tries,          \* how often each creation message was handled
  made,           \* how many actors were made for it
  bound           \* accounts that were bound by an actor's code

history == <<tries, made, bound>>
vars == <<actors, roles, identities, attempts, tx, history>>

-----------------------------------------------------------------------------
(* Tables.                                                                 *)

None == <<"none", 0>>
Own(x) == <<"own", x>>                    \* a client, named after the account
Made(r, n) == <<"made", <<r, n>>>>        \* staff, named at random
NoCode == "none"
NoKey == <<"none", 0>>
NoSession == MaxAttempts + 2        \* above every count

Exists(a) == a \in DOMAIN actors
Active(a) == Exists(a) /\ actors[a].active
RolesOf(a) == IF a \in DOMAIN roles THEN roles[a] ELSE {}
WithRoles(a, more) ==
  [b \in DOMAIN roles \cup {a} |-> IF b = a THEN RolesOf(a) \cup more ELSE roles[b]]
WithActor(a, row) == [b \in DOMAIN actors \cup {a} |-> IF b = a THEN row ELSE actors[b]]
Without(f, a) == [b \in DOMAIN f \ {a} |-> f[b]]

Row(code, key) == [active |-> TRUE, code |-> code, key |-> key]

\* _unused_bind_code; nobody else's by uq_actors_active_bind_code.
UnusedCodes == {c \in Codes : \A a \in DOMAIN actors : actors[a].code # c}

\* Defect: the accounts of the actor that is merged away are not looked for.
HasBindingsUnseen(a) == FALSE

HasBindings(a) == \E x \in Accounts : identities[x] = a

\* resolve and _effective_role: whom a message is from, in a bot.
Serves(frontend, held) ==
  IF frontend = "staff" THEN held \cap StaffRoles # {} ELSE frontend \in held

Resolved(x) == identities[x] # None /\ Active(identities[x]) /\ RolesOf(identities[x]) # {}
ResolvedIn(x, frontend) == Resolved(x) /\ Serves(frontend, RolesOf(identities[x]))

-----------------------------------------------------------------------------
(* Transactions.                                                           *)

NoTx == [kind |-> "none", step |-> "none", actor |-> None, role |-> "none",
         account |-> "none", code |-> NoCode, seen |-> {}, key |-> NoKey]
Idle(w) == tx[w] = NoTx
At(w, kind, step) == tx[w].kind = kind /\ tx[w].step = step
To(w, step) == tx' = [tx EXCEPT ![w].step = step]
End(w) == tx' = [tx EXCEPT ![w] = NoTx]

\* Which rows a transaction holds until its end.
HoldsActor(w, a) == tx[w].actor = a /\ tx[w].step = "locked"
HoldsMembership(w, a, role) ==
  /\ tx[w].kind = "revoke" /\ tx[w].step \in {"revoked", "counted"}
  /\ tx[w].actor = a /\ tx[w].role = role
HoldsKey(w, key) == tx[w].kind = "create" /\ tx[w].step = "keyed" /\ tx[w].key = key

ActorFree(w, a) == \A v \in Workers \ {w} : ~HoldsActor(v, a)
MembershipsFree(w, a, some) ==
  \A v \in Workers \ {w} : \A role \in some : ~HoldsMembership(v, a, role)

Begin(w, t) == Idle(w) /\ tx' = [tx EXCEPT ![w] = t]
Tables == <<actors, roles, identities>>

Init ==
  /\ actors = << >> /\ roles = << >>
  /\ identities = [x \in Accounts |-> None]
  /\ attempts = [x \in Accounts |-> NoSession]
  /\ tx = [w \in Workers |-> NoTx]
  /\ tries = [r \in Requests |-> 0]
  /\ made = [r \in Requests |-> 0]
  /\ bound = {}

\* grant_role: the actor's row is locked while it is active.
LockToGrant(w) ==
  /\ At(w, "grant", "begun")
  /\ ActorFree(w, tx[w].actor)
  /\ IF Active(tx[w].actor) THEN To(w, "locked") ELSE End(w)
  /\ UNCHANGED <<Tables, attempts, history>>

Grant(w) ==
  LET a == tx[w].actor IN
  /\ At(w, "grant", "locked")
  /\ MembershipsFree(w, a, {tx[w].role})
  /\ roles' = WithRoles(a, {tx[w].role})
  /\ End(w)
  /\ UNCHANGED <<actors, identities, attempts, history>>

\* delete_master_confirm and _del_operator_confirm call revoke_role: the
\* membership is revoked, what remains is read, and an actor with nothing left
\* is deactivated.
RevokeMembership(w, a, role) ==
  /\ role \in RolesOf(a)
  /\ MembershipsFree(w, a, {role})
  /\ Begin(w, [NoTx EXCEPT !.kind = "revoke", !.step = "revoked", !.role = role, !.actor = a])
  /\ UNCHANGED <<Tables, attempts, history>>

CountRemaining(w) ==
  /\ At(w, "revoke", "revoked")
  /\ tx' = [tx EXCEPT ![w].step = "counted", ![w].seen = RolesOf(tx[w].actor) \ {tx[w].role}]
  /\ UNCHANGED <<Tables, attempts, history>>

Revoke(w) ==
  LET a == tx[w].actor IN
  /\ At(w, "revoke", "counted")
  /\ ActorFree(w, a)
  /\ roles' = [roles EXCEPT ![a] = @ \ {tx[w].role}]
  /\ actors' = IF tx[w].seen = {}
                 THEN [actors EXCEPT ![a].active = FALSE, ![a].code = NoCode]
                 ELSE actors
  /\ End(w)
  /\ UNCHANGED <<identities, attempts, history>>

\* upsert_actor: the row is inserted, or updated and made active.
LockToUpsert(w) ==
  /\ At(w, "upsert", "begun")
  /\ ActorFree(w, tx[w].actor)
  /\ To(w, "locked")
  /\ UNCHANGED <<Tables, attempts, history>>

Upsert(w) ==
  LET a == tx[w].actor
      x == tx[w].account
  IN  /\ At(w, "upsert", "locked")
      /\ MembershipsFree(w, a, {tx[w].role})
      /\ \/ /\ identities[x] \in {None, a}
            /\ actors' = IF Exists(a) THEN [actors EXCEPT ![a].active = TRUE]
                         ELSE WithActor(a, Row(NoCode, NoKey))
            /\ roles' = WithRoles(a, {tx[w].role})
            /\ identities' = [identities EXCEPT ![x] = a]
         \/ identities[x] \notin {None, a} /\ UNCHANGED Tables
      /\ End(w)
      /\ UNCHANGED <<attempts, history>>

\* Defect: a key is made each time the message is handled.
RequestKeyEachTime(r) == <<r, tries[r]>>

\* The key is made when the flow starts and kept in the session (add_master,
\* _add_operator).
RequestKey(r) == <<r, 0>>

\* The last message of add_master and add_operator calls create_staff_actor
\* each time it is handled: an advisory lock on the key, then the actor made
\* before under it, or a new one with a code nobody has.  A handler that read
\* the session before another one cleared it comes as late as it likes.
LockKey(w, r) ==
  /\ tries[r] < MaxTries
  /\ \A v \in Workers : ~HoldsKey(v, RequestKey(r))
  /\ tries' = [tries EXCEPT ![r] = @ + 1]
  /\ Begin(w, [NoTx EXCEPT !.kind = "create", !.step = "keyed", !.role = RequestRole[r],
                           !.key = RequestKey(r)])
  /\ UNCHANGED <<Tables, attempts, made, bound>>

KeyIsUsed(key) == \E a \in DOMAIN actors : actors[a].key = key

Create(w) ==
  LET r == tx[w].key[1]
      a == Made(r, made[r] + 1)
  IN  /\ At(w, "create", "keyed")
      /\ \/ KeyIsUsed(tx[w].key) /\ UNCHANGED <<actors, roles, made>>
         \/ /\ ~KeyIsUsed(tx[w].key)
            /\ \E c \in UnusedCodes : actors' = WithActor(a, Row(c, tx[w].key))
            /\ roles' = WithRoles(a, {tx[w].role})
            /\ made' = [made EXCEPT ![r] = @ + 1]
      /\ End(w)
      /\ UNCHANGED <<identities, attempts, tries, bound>>

\* Defect: the actor's row is read and not locked.
FindByCodeUnlocked(w) ==
  /\ At(w, "bind", "begun")
  /\ \E a \in DOMAIN actors :
       /\ actors[a].code = tx[w].code /\ actors[a].active
       /\ tx' = [tx EXCEPT ![w].step = "found", ![w].actor = a]
  /\ UNCHANGED <<Tables, attempts, history>>

\* bind_actor_by_code: the row with the code is locked; waiting for the lock
\* ends in a second look at the row.
FindByCode(w) ==
  /\ At(w, "bind", "begun")
  /\ \/ \E a \in DOMAIN actors :
          /\ actors[a].code = tx[w].code /\ actors[a].active
          /\ ActorFree(w, a)
          /\ tx' = [tx EXCEPT ![w].step = "locked", ![w].actor = a]
     \/ /\ \A a \in DOMAIN actors : ~(actors[a].code = tx[w].code /\ actors[a].active)
        /\ To(w, "refused")
  /\ UNCHANGED <<Tables, attempts, history>>

\* Its role must be the bot's, and the account's own actor, if it has one, can
\* only take over the roles of an actor without accounts.
CheckBinding(w) ==
  LET p == tx[w].actor
      a == identities[tx[w].account]
  IN  /\ At(w, "bind", "locked") \/ At(w, "bind", "found")
      /\ tx[w].seen = {}
      /\ IF ~Serves(tx[w].role, RolesOf(p)) \/ (a \notin {None, p} /\ HasBindings(p))
           THEN To(w, "refused")
           ELSE tx' = [tx EXCEPT ![w].seen = {a}]
      /\ UNCHANGED <<Tables, attempts, history>>

Merge(w, p, a) ==
  /\ ActorFree(w, a)
  /\ MembershipsFree(w, a, RolesOf(p)) /\ MembershipsFree(w, p, Roles)
  /\ roles' = Without(WithRoles(a, RolesOf(p)), p)
  /\ actors' = Without([actors EXCEPT ![a].active = TRUE], p)
  /\ identities' = [x \in Accounts |-> IF identities[x] = p THEN None ELSE identities[x]]

BindAccount(w, p, x) ==
  /\ identities' = [identities EXCEPT ![x] = IF @ = None THEN p ELSE @]
  /\ actors' = [actors EXCEPT ![p].code = NoCode]
  /\ UNCHANGED roles

\* The identity of the account as CheckBinding read it decides; a binding made
\* since then is left as it is.
Bind(w) ==
  LET p == tx[w].actor
      x == tx[w].account
  IN  /\ At(w, "bind", "locked") \/ At(w, "bind", "found")
      /\ tx[w].seen # {}
      /\ \E a \in tx[w].seen :
           IF a \in {None, p} THEN BindAccount(w, p, x) ELSE Merge(w, p, a)
      /\ bound' = bound \cup {[code |-> p, account |-> x]}
      /\ To(w, "clearing")
      /\ UNCHANGED <<attempts, tries, made>>

\* Defect: the limit is not looked at when the attempt is counted.
TakeAttemptPastLimit(w) ==
  LET x == tx[w].account IN
  /\ At(w, "bind", "refused")
  /\ attempts' = IF attempts[x] # NoSession THEN [attempts EXCEPT ![x] = @ + 1] ELSE attempts
  /\ End(w)
  /\ UNCHANGED <<Tables, history>>

\* take_attempt counts a code that was refused, in one statement.
TakeAttempt(w) ==
  LET x == tx[w].account IN
  /\ At(w, "bind", "refused")
  /\ attempts' = IF attempts[x] < MaxAttempts THEN [attempts EXCEPT ![x] = @ + 1] ELSE attempts
  /\ End(w)
  /\ UNCHANGED <<Tables, history>>

ClearBindingSession(w) ==
  /\ At(w, "bind", "clearing")
  /\ attempts' = [attempts EXCEPT ![tx[w].account] = NoSession]
  /\ End(w)
  /\ UNCHANGED <<Tables, history>>

\* A crash, or the victim of a deadlock.
Rollback(w) ==
  /\ ~Idle(w)
  /\ End(w)
  /\ UNCHANGED <<Tables, attempts, history>>

-----------------------------------------------------------------------------
(* What starts them.                                                       *)

\* A message in the client bot: a person who is known gets the role of a
\* client, another one becomes an actor (_maybe_register_requester).
Register(w, x) ==
  /\ ~ResolvedIn(x, "client")
  /\ Begin(w, IF Resolved(x)
       THEN [NoTx EXCEPT !.kind = "grant", !.step = "begun", !.role = "client",
                         !.actor = identities[x]]
       ELSE [NoTx EXCEPT !.kind = "upsert", !.step = "begun", !.role = "client",
                         !.actor = Own(x), !.account = x])
  /\ UNCHANGED <<Tables, attempts, history>>

\* POST /v1/actors names an actor, a role and an account.
ApiUpsert(w, a, role, x) ==
  /\ ActorFree(w, a)
  /\ Begin(w, [NoTx EXCEPT !.kind = "upsert", !.step = "locked", !.role = role,
                           !.actor = a, !.account = x])
  /\ UNCHANGED <<Tables, attempts, history>>

\* /start in a staff bot (begin): a window that is open goes on.
StartBinding(x, frontend) ==
  /\ ~ResolvedIn(x, frontend) /\ attempts[x] = NoSession
  /\ attempts' = [attempts EXCEPT ![x] = 0]
  /\ UNCHANGED <<Tables, tx, history>>

\* The window ends (begin, is_active, cleanup_expired).
ExpireWindow(x) ==
  /\ attempts[x] # NoSession
  /\ attempts' = [attempts EXCEPT ![x] = NoSession]
  /\ UNCHANGED <<Tables, tx, history>>

\* A code is typed while the window is open (is_active, _maybe_bind_staff).
EnterCode(w, x, c, frontend) ==
  /\ ~ResolvedIn(x, frontend) /\ attempts[x] < MaxAttempts
  /\ Begin(w, [NoTx EXCEPT !.kind = "bind", !.step = "begun", !.role = frontend,
                           !.account = x, !.code = c])
  /\ UNCHANGED <<Tables, attempts, history>>

Step(w) ==
  \/ LockToGrant(w) \/ Grant(w)
  \/ CountRemaining(w) \/ Revoke(w)
  \/ LockToUpsert(w) \/ Upsert(w)
  \/ Create(w)
  \/ FindByCode(w) \/ CheckBinding(w) \/ Bind(w)
  \/ TakeAttempt(w) \/ ClearBindingSession(w)
  \/ Rollback(w)

Next ==
  \/ \E w \in Workers :
       \/ Step(w)
       \/ \E x \in Accounts : Register(w, x)
       \/ \E a \in DOMAIN actors, role \in ApiRoles, x \in Accounts : ApiUpsert(w, a, role, x)
       \/ \E a \in DOMAIN actors, role \in StaffRoles : RevokeMembership(w, a, role)
       \/ \E r \in Requests : LockKey(w, r)
       \/ \E x \in Accounts, c \in Codes, f \in Frontends : EnterCode(w, x, c, f)
  \/ \E x \in Accounts : (\E f \in Frontends : StartBinding(x, f)) \/ ExpireWindow(x)

Spec == Init /\ [][Next]_vars

-----------------------------------------------------------------------------
(* Properties.                                                             *)

\* Types: an account's actor exists, no two actors have one code, and codes
\* that are refused at the same time are counted up to the limit and no
\* further (take_attempt).
TypeOK ==
  /\ \A a \in DOMAIN actors :
       actors[a].active \in BOOLEAN /\ actors[a].code \in Codes \cup {NoCode}
  /\ \A a, b \in DOMAIN actors :
       actors[a].code = actors[b].code => a = b \/ actors[a].code = NoCode
  /\ DOMAIN roles = DOMAIN actors /\ \A a \in DOMAIN roles : roles[a] \subseteq Roles
  /\ \A x \in Accounts : identities[x] = None \/ Exists(identities[x])
  /\ attempts \in [Accounts -> (0..MaxAttempts) \cup {NoSession}]

\* A code is good for one account, however many people type it at a time
\* (bind_actor_by_code).
CodeBindsOnce == \A b, c \in bound : b.code = c.code => b = c

\* An actor that was merged into the actor of the account that entered its
\* code; its staff_creation_key is deleted with it (bind_actor_by_code).
MergedAway(a) == ~Exists(a) /\ \E b \in bound : b.code = a

\* A creation makes another actor only when every actor it made before was
\* merged away, however often and late its last message is handled; and the
\* last one stays until it is merged, too (create_staff_actor).  The merge is
\* an exception to docs/OPERATIONS.md:81, "cannot create a duplicate master".
MadeAgainAfterMerge ==
  \A r \in Requests : \A n \in 1..made[r] :
    \/ n = made[r] /\ Exists(Made(r, n))
    \/ MergedAway(Made(r, n))

\* An account that is bound stays with its actor: merging the actor of a code
\* into another one never takes the actor away from a third account
\* (bind_actor_by_code, upsert_actor).
AccountsStay ==
  [][\A x \in Accounts : identities[x] # None => identities'[x] = identities[x]]_identities

\* revoke_role deactivates "only an actor left with no roles".
DeactivatedHaveNoRoles == \A a \in DOMAIN actors : Active(a) \/ RolesOf(a) = {}
=============================================================================
