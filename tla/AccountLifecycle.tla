-------------------------- MODULE AccountLifecycle --------------------------
(***************************************************************************)
(* Accounts from registration to deletion: invitations, pending            *)
(* registrations and their clean-up, the tokens of account actions         *)
(* (password reset, verification and change of the address), and the       *)
(* administrator's operations.  All state is in PostgreSQL; a transaction  *)
(* is one step, except where the code holds a lock between a check and the *)
(* write that rests on it: there the two are steps of their own, and the   *)
(* lock is what the model must keep.  A request that reads before its      *)
(* transaction keeps what it has read in `asks`.                           *)
(*                                                                         *)
(* Passwords, names and quotas are left out; the rows queued for the mail  *)
(* dispatcher with a change are the subject of Outbox, the sessions        *)
(* and tokens an auth_version cuts off that of SecurityRevocation.         *)
(***************************************************************************)
EXTENDS Naturals, FiniteSets, Sequences

CONSTANTS Accounts,        \* user ids, never reused
          Mailboxes,       \* normalised addresses
          NoMailbox,
          Invites,         \* invitation codes
          NoInvite,
          AccountRequests, \* requests and background rounds under way
          NoAccount,
          InviteMaxUses,   \* max_uses of every invitation
          InviteTTL, PendingTTL, ActionTTL,
          AccountTokens,   \* bound: tokens ever made
          AccountsEnd,     \* bound: last instant
          MaxAsked         \* bound: requests accepted

ASSUME AccountAssumptions ==
    /\ NoMailbox \notin Mailboxes /\ NoInvite \notin Invites /\ NoAccount \notin Accounts
    /\ InviteMaxUses \in Nat \ {0} /\ InviteTTL \in Nat \ {0}
    /\ PendingTTL \in Nat \ {0} /\ ActionTTL \in Nat \ {0}
    /\ AccountTokens \in Nat /\ AccountsEnd \in Nat /\ MaxAsked \in Nat
    /\ IsFiniteSet(Accounts)

VARIABLES users,          \* table users
          registrations,  \* table self_registrations, by the user that made it
          invites,        \* table invites
          actionTokens,   \* table account_action_tokens
          asks,           \* what each request under way has read or locked
          asked,          \* number of requests accepted
          accountNow,     \* the clock
          proved,         \* history: <<user, mailbox>> whose owner has confirmed
          stranded        \* history: accounts suspended while they waited for verification
accountVars == <<users, registrations, invites, actionTokens, asks, asked, accountNow, proved, stranded>>

Actions == {"password_reset", "email_verification", "email_change"}

User == [status : {"unborn", "pending", "active", "suspended", "deleted"},
         role : {"admin", "user"}, email : Mailboxes \cup {NoMailbox},
         verified : BOOLEAN]
Unborn == [status |-> "unborn", role |-> "user", email |-> NoMailbox,
           verified |-> FALSE]
Deleted == [Unborn EXCEPT !.status = "deleted"]

Registration == [status : {"none", "pending", "completed", "released"},
                 invite : Invites \cup {NoInvite}, expires : Nat]
NoRegistration == [status |-> "none", invite |-> NoInvite, expires |-> 0]

\* expires = 0: not created yet.
Invite == [expires : Nat, revoked : BOOLEAN]

ActionToken == [user : Accounts, action : Actions, email : Mailboxes,
                previous : Mailboxes \cup {NoMailbox}, at : Nat, expires : Nat,
                state : {"usable", "consumed", "revoked"}]

Ask == [pc : {"idle", "register", "reserved", "ask", "resend", "confirm", "admin",
              "cleanup", "bootstrap"},
        user : Accounts \cup {NoAccount}, email : Mailboxes \cup {NoMailbox},
        invite : Invites \cup {NoInvite}, action : Actions \cup {"none"},
        previous : Mailboxes \cup {NoMailbox}, at : Nat, token : Nat,
        change : {"none", "suspend", "activate", "promote", "demote", "address", "delete"},
        verify : BOOLEAN, candidates : SUBSET Accounts]
NoAsk == [pc |-> "idle", user |-> NoAccount, email |-> NoMailbox, invite |-> NoInvite,
          action |-> "none", previous |-> NoMailbox, at |-> 0, token |-> 0,
          change |-> "none", verify |-> FALSE, candidates |-> {}]

AccountTypeOK ==
    /\ users \in [Accounts -> User]
    /\ registrations \in [Accounts -> Registration]
    /\ invites \in [Invites -> Invite]
    /\ actionTokens \in Seq(ActionToken) /\ Len(actionTokens) <= AccountTokens
    /\ asks \in [AccountRequests -> Ask]
    /\ asked \in 0 .. MaxAsked /\ accountNow \in 0 .. AccountsEnd
    /\ proved \subseteq Accounts \X Mailboxes

Exists(u) == users[u].status \in {"pending", "active", "suspended"}
ActiveAdmin(u) == users[u].status = "active" /\ users[u].role = "admin"
Tokens == 1 .. Len(actionTokens)
ActiveAdmins == {u \in Accounts : ActiveAdmin(u)}
\* An instance serves requests after the bootstrap of the first administrator.
Serving == \E u \in Accounts : users[u].status # "unborn"
\* A request let through by the administrator's middleware.
AdminOnly == ActiveAdmins # {}

\* Row lock an administrator's transaction holds on its target.
UserLocked(u) == \E r \in AccountRequests : asks[r].pc = "admin" /\ asks[r].user = u
\* Mutant: the count of administrators is not serialized.
LockNothing == TRUE
\* pg_advisory_xact_lock of the administrator invariant.
LockAdminInvariant == \A r \in AccountRequests : asks[r].pc # "admin"
\* Mutant: the row of the invitation is not held until the insert.
InviteUnlockedAnyway(i) == TRUE
\* SELECT ... FOR UPDATE of the invitation.
InviteUnlocked(i) ==
    \A r \in AccountRequests : ~(asks[r].pc = "reserved" /\ asks[r].invite = i)

Done(r) == asks' = [asks EXCEPT ![r] = NoAsk] /\ UNCHANGED asked
Hold(r, a) ==
    /\ asks[r].pc = "idle" /\ asked < MaxAsked
    /\ asks' = [asks EXCEPT ![r] = a] /\ asked' = asked + 1
\* A request that is refused, fails or is cut off; its transaction is rolled back.
Refused(r) ==
    /\ asks[r].pc # "idle"
    /\ Done(r)
    /\ UNCHANGED <<users, registrations, invites, actionTokens, accountNow, proved, stranded>>
-----------------------------------------------------------------------------
(* Invitations *)

CreateInvite(i, expires) == invites' = [invites EXCEPT ![i].expires = expires]
HandleCreateInvite(i) ==
    /\ AdminOnly /\ invites[i].expires = 0
    /\ CreateInvite(i, accountNow + InviteTTL)
    /\ UNCHANGED <<users, registrations, actionTokens, asks, asked, accountNow, proved, stranded>>

RevokeInvite(i) ==
    /\ invites[i].expires > 0 /\ ~invites[i].revoked /\ InviteUnlocked(i)
    /\ invites' = [invites EXCEPT ![i].revoked = TRUE]
HandleRevokeInvite(i) ==
    /\ AdminOnly /\ RevokeInvite(i)
    /\ UNCHANGED <<users, registrations, actionTokens, asks, asked, accountNow, proved, stranded>>

\* The registrations that take a place of the invitation.
Occupied(i) ==
    {u \in Accounts : registrations[u].invite = i
                      /\ registrations[u].status \in {"pending", "completed"}}
-----------------------------------------------------------------------------
(* Registration *)

\* A fresh user id.
NewId(u) == users[u].status = "unborn" /\ \A q \in AccountRequests : asks[q].user # u

\* The handler fixes its instant and inputs, then hashes the password.
HandleRegister(r, u, e, i, verify) ==
    /\ Serving /\ NewId(u)
    /\ i = NoInvite => verify    \* registrationVerificationRequired: open mode
    /\ Hold(r, [NoAsk EXCEPT !.pc = "register", !.user = u, !.email = e, !.invite = i,
                             !.verify = verify, !.at = accountNow])
    /\ UNCHANGED <<users, registrations, invites, actionTokens, accountNow, proved, stranded>>

\* In the transaction: lock the invitation, check it and count its places.
ReserveInvite(r) ==
    LET i == asks[r].invite IN
    /\ asks[r].pc = "register" /\ i # NoInvite
    /\ InviteUnlocked(i)
    /\ ~invites[i].revoked /\ invites[i].expires > asks[r].at
    /\ Cardinality(Occupied(i)) < InviteMaxUses
    /\ asks' = [asks EXCEPT ![r].pc = "reserved"] /\ UNCHANGED asked
    /\ UNCHANGED <<users, registrations, invites, actionTokens, accountNow, proved, stranded>>

EmailTaken(e, u) == \E v \in Accounts \ {u} : Exists(v) /\ users[v].email = e

NewToken(u, action, e, previous, expires) ==
    [user |-> u, action |-> action, email |-> e, previous |-> previous,
     at |-> accountNow, expires |-> expires, state |-> "usable"]

\* A token is superseded by the next one for the same action, except one whose
\* transaction overlapped and was not committed when the other looked.
Superseded(u, action, kept) ==
    [t \in Tokens |->
        IF /\ actionTokens[t].user = u /\ actionTokens[t].action = action
           /\ actionTokens[t].state = "usable" /\ t \notin kept
        THEN [actionTokens[t] EXCEPT !.state = "revoked"] ELSE actionTokens[t]]
Overlapping(u, action) ==
    {t \in Tokens : actionTokens[t].user = u /\ actionTokens[t].action = action
                    /\ actionTokens[t].state = "usable" /\ actionTokens[t].at = accountNow}
ReplaceActionAndQueueEmail(u, action, e, previous, expires) ==
    /\ Len(actionTokens) < AccountTokens
    /\ \E kept \in SUBSET Overlapping(u, action) :
         actionTokens' = Append(Superseded(u, action, kept),
                                NewToken(u, action, e, previous, expires))

InsertRegistration(u, i, status, expires) ==
    registrations' = [registrations EXCEPT
                        ![u] = [status |-> status, invite |-> i, expires |-> expires]]

InsertUser(u, status, role, e) ==
    users' = [users EXCEPT ![u] = [Unborn EXCEPT !.status = status, !.role = role, !.email = e]]

\* The rows service.Register prepares: the account, its registration and token.
PreparedStatus(a) == IF a.verify THEN "pending" ELSE "active"

\* User, registration, reservation and verification token are one transaction.
CreateRegistration(r) ==
    LET a == asks[r] IN
    /\ \/ a.pc = "reserved"
       \/ a.pc = "register" /\ a.invite = NoInvite
    /\ ~EmailTaken(a.email, a.user)
    /\ InsertUser(a.user, PreparedStatus(a), "user", a.email)
    /\ InsertRegistration(a.user, a.invite,
                          IF a.verify THEN "pending" ELSE "completed", a.at + PendingTTL)
    /\ IF a.verify
       THEN ReplaceActionAndQueueEmail(a.user, "email_verification", a.email,
                                       NoMailbox, a.at + PendingTTL)
       ELSE UNCHANGED actionTokens
    /\ Done(r)
    /\ UNCHANGED <<invites, accountNow, proved, stranded>>
-----------------------------------------------------------------------------
(* Tokens: the request reads the account, the token is stored afterwards. *)

AskAction(r, u, action, e, previous) ==
    /\ Hold(r, [NoAsk EXCEPT !.pc = "ask", !.user = u, !.action = action, !.email = e,
                             !.previous = previous, !.at = accountNow])
    /\ UNCHANGED <<users, registrations, invites, actionTokens, accountNow, proved, stranded>>

RequestPasswordReset(r, u) ==
    /\ users[u].status = "active" /\ users[u].email # NoMailbox /\ users[u].verified
    /\ AskAction(r, u, "password_reset", users[u].email, NoMailbox)

RequestEmailVerification(r, u) ==
    /\ users[u].status \in {"active", "pending"}
    /\ users[u].email # NoMailbox /\ ~users[u].verified
    /\ AskAction(r, u, "email_verification", users[u].email, NoMailbox)

\* Takes a session that has authenticated recently.
RequestEmailChange(r, u, e) ==
    /\ users[u].status = "active" /\ e # users[u].email /\ ~EmailTaken(e, u)
    /\ AskAction(r, u, "email_change", e, users[u].email)

CreateActionEmail(r) ==
    LET a == asks[r] IN
    /\ a.pc = "ask" /\ Exists(a.user)    \* foreign key
    /\ ReplaceActionAndQueueEmail(a.user, a.action, a.email, a.previous, a.at + ActionTTL)
    /\ Done(r)
    /\ UNCHANGED <<users, registrations, invites, accountNow, proved, stranded>>

HandleRequestPasswordReset(r, u) == Serving /\ RequestPasswordReset(r, u)
HandleRequestEmailVerification(r, u) == Serving /\ RequestEmailVerification(r, u)
HandleRequestEmailChange(r, u, e) == Serving /\ RequestEmailChange(r, u, e)

PendingRegistration(u, e, now) ==
    /\ users[u].status = "pending" /\ ~users[u].verified
    /\ users[u].email = e /\ e # NoMailbox
    /\ registrations[u].status = "pending" /\ registrations[u].expires > now

RequestPendingEmailVerification(r, u) ==
    /\ PendingRegistration(u, users[u].email, accountNow)
    /\ Hold(r, [NoAsk EXCEPT !.pc = "resend", !.user = u, !.email = users[u].email,
                             !.at = accountNow])
    /\ UNCHANGED <<users, registrations, invites, actionTokens, accountNow, proved, stranded>>

HandleResendPendingEmailVerification(r, u) == Serving /\ RequestPendingEmailVerification(r, u)

\* The registration is locked and checked again before the token is replaced.
ReplacePendingVerification(r) ==
    LET a == asks[r] IN
    /\ a.pc = "resend" /\ PendingRegistration(a.user, a.email, a.at) /\ ~UserLocked(a.user)
    /\ ReplaceActionAndQueueEmail(a.user, "email_verification", a.email, NoMailbox,
                                  registrations[a.user].expires)
    /\ Done(r)
    /\ UNCHANGED <<users, registrations, invites, accountNow, proved, stranded>>
-----------------------------------------------------------------------------
(* Confirmation: the token is read, then consumed in a transaction. *)

Usable(t, now) == actionTokens[t].state = "usable" /\ actionTokens[t].expires > now

LoadAction(r, t, action) ==
    /\ actionTokens[t].action = action /\ Usable(t, accountNow)
    /\ Hold(r, [NoAsk EXCEPT !.pc = "confirm", !.token = t, !.at = accountNow])
    /\ UNCHANGED <<users, registrations, invites, actionTokens, accountNow, proved, stranded>>

HandleConfirmPasswordReset(r, t) == LoadAction(r, t, "password_reset")
HandleConfirmEmailVerification(r, t) == LoadAction(r, t, "email_verification")
HandleConfirmEmailChange(r, t) == LoadAction(r, t, "email_change")

Presented(r) == actionTokens[asks[r].token]
Confirms(r, action) == asks[r].pc = "confirm" /\ Presented(r).action = action

\* The token row is locked and must still be usable at the request's instant.
\* Consuming it revokes the tokens in `others`.
ConsumeAction(r, others) ==
    LET t == asks[r].token IN
    /\ Usable(t, asks[r].at) /\ ~UserLocked(actionTokens[t].user)
    /\ actionTokens' = [x \in Tokens |->
         IF x = t THEN [actionTokens[x] EXCEPT !.state = "consumed"]
         ELSE IF x \in others /\ actionTokens[x].state = "usable"
              THEN [actionTokens[x] EXCEPT !.state = "revoked"] ELSE actionTokens[x]]
    /\ Done(r)

TokensOf(u) == {t \in Tokens : actionTokens[t].user = u}

ConsumePasswordReset(r) ==
    LET k == Presented(r)  u == k.user IN
    /\ users[u].status = "active" /\ users[u].email = k.email
    /\ ConsumeAction(r, TokensOf(u))
    /\ UNCHANGED <<users, registrations, invites, accountNow, proved, stranded>>

CompleteForUser(u) ==
    registrations' = [registrations EXCEPT ![u].status = "completed"]

\* An account that waits for verification becomes active only with its
\* registration, before the deadline.
ConsumeEmailVerification(r) ==
    LET k == Presented(r)  u == k.user IN
    /\ users[u].status \in {"active", "pending"} /\ users[u].email = k.email
    /\ IF users[u].status = "pending"
       THEN /\ registrations[u].status = "pending" /\ registrations[u].expires > asks[r].at
            /\ CompleteForUser(u)
       ELSE UNCHANGED registrations
    /\ ConsumeAction(r, {t \in TokensOf(u) : actionTokens[t].action = "email_verification"})
    /\ users' = [users EXCEPT ![u].verified = TRUE, ![u].status = "active"]
    /\ proved' = proved \cup {<<u, k.email>>}
    /\ UNCHANGED <<invites, accountNow, stranded>>

ConsumeEmailChange(r) ==
    LET k == Presented(r)  u == k.user IN
    /\ users[u].status = "active" /\ users[u].email = k.previous
    /\ ~EmailTaken(k.email, u)
    /\ ConsumeAction(r, TokensOf(u))
    /\ users' = [users EXCEPT ![u] = [@ EXCEPT !.email = k.email, !.verified = TRUE]]
    /\ proved' = proved \cup {<<u, k.email>>}
    /\ UNCHANGED <<registrations, invites, accountNow, stranded>>

ConfirmPasswordReset(r) == Confirms(r, "password_reset") /\ ConsumePasswordReset(r)
ConfirmEmailVerification(r) == Confirms(r, "email_verification") /\ ConsumeEmailVerification(r)
ConfirmEmailChange(r) == Confirms(r, "email_change") /\ ConsumeEmailChange(r)

ExpireActionTokens ==
    LET over == {t \in Tokens : actionTokens[t].state = "usable"
                                /\ actionTokens[t].expires <= accountNow}
    IN  /\ over # {}
        /\ actionTokens' = [t \in Tokens |-> IF t \in over
                              THEN [actionTokens[t] EXCEPT !.state = "revoked"]
                              ELSE actionTokens[t]]
        /\ UNCHANGED <<users, registrations, invites, asks, asked, accountNow, proved, stranded>>

-----------------------------------------------------------------------------
(* The administrator's operations *)

\* CREATE by an administrator: active at once, the address unverified.
CreateAdmin(u, e) ==
    /\ NewId(u) /\ (e # NoMailbox => ~EmailTaken(e, u))
    /\ InsertUser(u, "active", "user", e)
HandleCreateUser(u, e) ==
    /\ AdminOnly /\ CreateAdmin(u, e)
    /\ UNCHANGED <<registrations, invites, actionTokens, asks, asked, accountNow, proved, stranded>>

NoUsers == \A u \in Accounts : ~Exists(u)

\* BootstrapInitialAdmin: every instance looks for users when it starts, and
\* looks again under the lock.
BootstrapInitialAdmin(r) ==
    /\ NoUsers
    /\ Hold(r, [NoAsk EXCEPT !.pc = "bootstrap"])
    /\ UNCHANGED <<users, registrations, invites, actionTokens, accountNow, proved, stranded>>
BootstrapAdmin(r, u) ==
    /\ asks[r].pc = "bootstrap" /\ LockAdminInvariant
    /\ NewId(u)
    /\ NoUsers
    /\ InsertUser(u, "active", "admin", NoMailbox)
    /\ Done(r)
    /\ UNCHANGED <<registrations, invites, actionTokens, accountNow, proved, stranded>>

RemovesActiveAdmin(u, change) == ActiveAdmin(u) /\ change \in {"suspend", "demote", "delete"}

\* UpdateAdmin and Delete up to their checks: advisory lock, row lock, count of
\* the administrators.  A required second factor may refuse as well.
LockForAdminChange(r, u, change, e) ==
    /\ LockAdminInvariant
    /\ Exists(u)
    /\ RemovesActiveAdmin(u, change) => Cardinality(ActiveAdmins) > 1
    /\ Hold(r, [NoAsk EXCEPT !.pc = "admin", !.user = u, !.change = change, !.email = e])
    /\ UNCHANGED <<users, registrations, invites, actionTokens, accountNow, proved, stranded>>

\* Any account that exists: one that waits for verification too.
HandleUserStatus(r, u, change) ==
    AdminOnly /\ change \in {"suspend", "activate"} /\ LockForAdminChange(r, u, change, NoMailbox)
HandleUpdateUserRole(r, u, change) ==
    AdminOnly /\ change \in {"promote", "demote"} /\ LockForAdminChange(r, u, change, NoMailbox)
HandleAdminUpdateUser(r, u, e) == AdminOnly /\ LockForAdminChange(r, u, "address", e)
HandleDelete(r, u) == AdminOnly /\ LockForAdminChange(r, u, "delete", NoMailbox)

AdminRow(row, change, e) ==
    CASE change = "suspend"  -> [row EXCEPT !.status = "suspended"]
      [] change = "activate" -> [row EXCEPT !.status = "active"]
      [] change = "promote"  -> [row EXCEPT !.role = "admin"]
      [] change = "demote"   -> [row EXCEPT !.role = "user"]
      [] change = "address"  -> [row EXCEPT !.email = e, !.verified = @ /\ row.email = e]

UpdateAdmin(r) ==
    LET u == asks[r].user
        row == AdminRow(users[u], asks[r].change, asks[r].email)
    IN  /\ asks[r].pc = "admin" /\ asks[r].change # "delete"
        /\ (asks[r].change = "address" /\ row.email # NoMailbox) => ~EmailTaken(row.email, u)
        /\ users' = [users EXCEPT ![u] = row]
        /\ IF /\ asks[r].change = "activate" /\ users[u].status = "pending"
              /\ registrations[u].status = "pending"
           THEN CompleteForUser(u) ELSE UNCHANGED registrations
        /\ stranded' = IF asks[r].change = "suspend" /\ users[u].status = "pending"
                          THEN stranded \cup {u} ELSE stranded
        /\ Done(r)
        /\ UNCHANGED <<invites, actionTokens, accountNow, proved>>

\* Deleting a user deletes its tokens with it.
Without(gone) ==
    [t \in Tokens |-> IF actionTokens[t].user \in gone /\ actionTokens[t].state = "usable"
                      THEN [actionTokens[t] EXCEPT !.state = "revoked"] ELSE actionTokens[t]]
Release(us) ==
    [u \in Accounts |-> IF u \in us /\ registrations[u].status = "pending"
                        THEN [registrations[u] EXCEPT !.status = "released"]
                        ELSE registrations[u]]
DeleteUser(r) ==
    LET u == asks[r].user IN
    /\ asks[r].pc = "admin" /\ asks[r].change = "delete"
    /\ registrations' = Release({u})
    /\ users' = [users EXCEPT ![u] = Deleted]
    /\ actionTokens' = Without({u})
    /\ Done(r)
    /\ stranded' = stranded \ {u}
    /\ UNCHANGED <<invites, accountNow, proved>>
-----------------------------------------------------------------------------
(* Clean-up of registrations that were not verified in time *)

Expired(now) ==
    {u \in Accounts : registrations[u].status = "pending" /\ registrations[u].expires <= now}

\* One round at a time holds the session lock.
CleanupExpired(r) ==
    /\ \A q \in AccountRequests : asks[q].pc # "cleanup"
    /\ Expired(accountNow) # {}
    /\ Hold(r, [NoAsk EXCEPT !.pc = "cleanup", !.at = accountNow,
                             !.candidates = Expired(accountNow)])
    /\ UNCHANGED <<users, registrations, invites, actionTokens, accountNow, proved, stranded>>

\* Mutant: what was read before the lock is deleted without a second look.
CleanupRegistrationsStale(r) ==
    LET gone == {u \in asks[r].candidates : Exists(u)} IN
    /\ asks[r].pc = "cleanup"
    /\ registrations' = Release(gone)
    /\ users' = [u \in Accounts |-> IF u \in gone THEN Deleted ELSE users[u]]
    /\ actionTokens' = Without(gone)
    /\ Done(r)
    /\ UNCHANGED <<invites, accountNow, proved, stranded>>

\* The users are locked, the candidates checked again, their registrations
\* released and the users deleted.
CleanupRegistrations(r) ==
    LET gone == asks[r].candidates \cap Expired(asks[r].at) IN
    /\ asks[r].pc = "cleanup"
    /\ \A u \in asks[r].candidates : ~UserLocked(u)
    /\ \A u \in gone : Exists(u)     \* otherwise the whole batch fails
    /\ registrations' = Release(gone)
    /\ users' = [u \in Accounts |-> IF u \in gone THEN Deleted ELSE users[u]]
    /\ actionTokens' = Without(gone)
    /\ Done(r)
    /\ UNCHANGED <<invites, accountNow, proved, stranded>>

AccountTick ==
    /\ accountNow < AccountsEnd
    /\ accountNow' = accountNow + 1
    /\ UNCHANGED <<users, registrations, invites, actionTokens, asks, asked, proved, stranded>>
-----------------------------------------------------------------------------
AccountInit ==
    /\ users = [u \in Accounts |-> Unborn]
    /\ registrations = [u \in Accounts |-> NoRegistration]
    /\ invites = [i \in Invites |-> [expires |-> 0, revoked |-> FALSE]]
    /\ actionTokens = <<>>
    /\ asks = [r \in AccountRequests |-> NoAsk]
    /\ asked = 0 /\ accountNow = 0
    /\ proved = {} /\ stranded = {}

AccountRequestStep(r) ==
    \/ \E u \in Accounts, e \in Mailboxes, i \in Invites \cup {NoInvite}, v \in BOOLEAN :
         HandleRegister(r, u, e, i, v)
    \/ ReserveInvite(r) \/ CreateRegistration(r)
    \/ \E u \in Accounts : \/ HandleRequestPasswordReset(r, u)
                          \/ HandleRequestEmailVerification(r, u)
                          \/ HandleResendPendingEmailVerification(r, u)
                          \/ \E e \in Mailboxes : HandleRequestEmailChange(r, u, e)
    \/ CreateActionEmail(r) \/ ReplacePendingVerification(r)
    \/ \E t \in Tokens : \/ HandleConfirmPasswordReset(r, t)
                        \/ HandleConfirmEmailVerification(r, t)
                        \/ HandleConfirmEmailChange(r, t)
    \/ ConfirmPasswordReset(r) \/ ConfirmEmailVerification(r) \/ ConfirmEmailChange(r)
    \/ BootstrapInitialAdmin(r) \/ \E u \in Accounts : BootstrapAdmin(r, u)
    \/ \E u \in Accounts : \/ \E c \in {"suspend", "activate"} : HandleUserStatus(r, u, c)
                          \/ \E c \in {"promote", "demote"} : HandleUpdateUserRole(r, u, c)
                          \/ \E e \in Mailboxes \cup {NoMailbox} : HandleAdminUpdateUser(r, u, e)
                          \/ HandleDelete(r, u)
    \/ UpdateAdmin(r) \/ DeleteUser(r)
    \/ CleanupExpired(r) \/ CleanupRegistrations(r)
    \/ Refused(r)

AccountNext ==
    \/ \E r \in AccountRequests : AccountRequestStep(r)
    \/ \E i \in Invites : HandleCreateInvite(i) \/ HandleRevokeInvite(i)
    \/ \E u \in Accounts, e \in Mailboxes \cup {NoMailbox} : HandleCreateUser(u, e)
    \/ ExpireActionTokens \/ AccountTick

AccountSpec == AccountInit /\ [][AccountNext]_accountVars
-----------------------------------------------------------------------------
\* However many registrations compete for the last place, an invitation is
\* never reserved or used more often than it allows.
InviteCapacity == \A i \in Invites : Cardinality(Occupied(i)) <= InviteMaxUses

\* A pending registration always has its account, so that one row can never
\* make every round of the clean-up fail.
PendingHasUser == \A u \in Accounts : registrations[u].status = "pending" => Exists(u)

\* An address counts as verified only for the account whose token was confirmed
\* from that mailbox, whatever happened to either between request and confirmation.
\* Said of the accounts this module makes; one that CreateUserAndIdentity makes
\* for a provider's identity is stored as verified without a token (Providers).
VerifiedWasProved ==
    \A u \in Accounts : Exists(u) /\ users[u].verified => <<u, users[u].email>> \in proved

\* Accounts stay sound under overlapping requests: places of invitations,
\* clean-up, and the meaning of a verified address.
AccountsSound == InviteCapacity /\ PendingHasUser /\ VerifiedWasProved

\* Clean-up has deleted an account that was suspended while it waited (an
\* administrator's deletion takes the account out of `stranded`).
Swept == \E u \in stranded : users[u].status = "deleted"

\* Once the first administrator exists there is always an active one, although
\* suspensions, demotions and deletions of different accounts overlap, until the
\* clean-up takes an account that was suspended while it waited for verification.
AdminRemains == Serving => ActiveAdmins # {} \/ Swept

\* However long ago it looked, the clean-up deletes no active account, except one
\* that an administrator had suspended while it waited for verification.
CleanupSparesConfirmed ==
    [][\A r \in AccountRequests : CleanupRegistrations(r) =>
         \A u \in Accounts \ stranded : users[u].status = "active" => users'[u].status = "active"]_accountVars

\* What the documents say of the clean-up: it removes accounts that were never
\* verified or activated, and no others.
CleanupSparesAccounts ==
    [][\A r \in AccountRequests : CleanupRegistrations(r) =>
         \A u \in Accounts : users[u].status = "active" => users'[u].status = "active"]_accountVars
-----------------------------------------------------------------------------
(* Inductive strengthening *)

\* What a request under way has read or locked is still so when it writes: the
\* id it drew is unused, the invitation it locked has a place left, the token it
\* loaded is there, the account an administrator has locked exists.
AskOK(r) ==
    /\ asks[r].pc \in {"register", "reserved"} =>
         /\ Serving /\ asks[r].user \in Accounts /\ asks[r].email \in Mailboxes
         /\ users[asks[r].user].status = "unborn"
    /\ asks[r].pc = "reserved" =>
         asks[r].invite \in Invites /\ Cardinality(Occupied(asks[r].invite)) < InviteMaxUses
    /\ asks[r].pc \in {"ask", "resend"} => asks[r].user \in Accounts /\ asks[r].email \in Mailboxes
    /\ asks[r].pc = "ask" => asks[r].action \in Actions
    /\ asks[r].pc = "confirm" => asks[r].token \in Tokens
    /\ asks[r].pc = "admin" =>
         asks[r].user \in Accounts /\ Exists(asks[r].user) /\ asks[r].change # "none"

\* What two requests may not have at once: an id drawn for a registration, the
\* row of an invitation, the lock of the administrator invariant.
AsksApart(r, q) ==
    /\ asks[r].pc \in {"register", "reserved"} => asks[q].user # asks[r].user
    /\ asks[r].pc = "reserved" /\ asks[q].pc = "reserved" => asks[q].invite # asks[r].invite
    /\ ~(asks[r].pc = "admin" /\ asks[q].pc = "admin")

AccountInv ==
    /\ AccountTypeOK
    /\ \A r \in AccountRequests : AskOK(r)
    /\ \A r, q \in AccountRequests : r # q => AsksApart(r, q)
    /\ InviteCapacity /\ PendingHasUser /\ VerifiedWasProved

\* An administrator whose removal is under way is not the only active one.
ChecksHold(r) ==
    asks[r].pc = "admin" /\ RemovesActiveAdmin(asks[r].user, asks[r].change) =>
      Swept \/ \E v \in ActiveAdmins : v # asks[r].user

\* A registration is pending while its account waits for verification, and after
\* that only if the account was suspended meanwhile.
PendingWaits ==
    \A u \in Accounts : registrations[u].status = "pending" => users[u].status = "pending" \/ u \in stranded

AdminInv ==
    /\ stranded \subseteq Accounts
    /\ \A r \in AccountRequests : ChecksHold(r)
    /\ PendingWaits /\ AdminRemains
====
