------------------------ MODULE AccountLifecycleProof ------------------------
(***************************************************************************)
(* What holds of accounts for any number of accounts, invitations,         *)
(* requests and tokens.  AccountInv says that what a request has read,     *)
(* drawn or locked is still so when it writes; the places of invitations,  *)
(* the clean-up and the meaning of a verified address rest on it.  AdminInv *)
(* adds what the administrators' lock keeps true between check and write.  *)
(***************************************************************************)
EXTENDS AccountLifecycle, FiniteSetTheorems, TLAPS

-----------------------------------------------------------------------------
(* Tokens *)

\* A rewriting of every row of account_action_tokens keeps their number and type.
LEMMA RowsRewritten ==
    ASSUME NEW s \in Seq(ActionToken), NEW f, DOMAIN f = 1 .. Len(s),
           f = [t \in 1 .. Len(s) |-> f[t]],
           \A t \in 1 .. Len(s) : f[t] \in ActionToken
    PROVE  f \in Seq(ActionToken) /\ Len(f) = Len(s)
<1>1. Len(s) \in Nat
  OBVIOUS
<1>2. f \in [1 .. Len(s) -> ActionToken]
  OBVIOUS
<1> QED
  BY <1>1, <1>2

\* A row that leaves the usable state stays a row of the same token.
LEMMA RowState ==
    ASSUME NEW k \in ActionToken, NEW s \in {"usable", "consumed", "revoked"}
    PROVE  [k EXCEPT !.state = s] \in ActionToken
BY DEF ActionToken

\* replaceActionAndQueueEmail supersedes and inserts; no token disappears.
LEMMA TokenReplaced ==
    ASSUME AccountTypeOK, NEW u \in Accounts, NEW action \in Actions, NEW e \in Mailboxes,
           NEW previous \in Mailboxes \cup {NoMailbox}, NEW expires \in Nat,
           ReplaceActionAndQueueEmail(u, action, e, previous, expires)
    PROVE  /\ actionTokens' \in Seq(ActionToken) /\ Len(actionTokens') <= AccountTokens
           /\ Len(actionTokens') = Len(actionTokens) + 1
<1>1. PICK kept \in SUBSET Overlapping(u, action) :
         actionTokens' = Append(Superseded(u, action, kept),
                                NewToken(u, action, e, previous, expires))
  BY DEF ReplaceActionAndQueueEmail
<1> DEFINE s == Superseded(u, action, kept)
<1>2. \A t \in Tokens : actionTokens[t] \in ActionToken
  BY DEF AccountTypeOK, Tokens
<1>3. \A t \in Tokens : s[t] \in ActionToken
  BY <1>2, RowState DEF Superseded
<1>4. s \in Seq(ActionToken) /\ Len(s) = Len(actionTokens)
  <2>1. DOMAIN s = 1 .. Len(actionTokens) /\ s = [t \in 1 .. Len(actionTokens) |-> s[t]]
    BY DEF Superseded, Tokens
  <2> HIDE DEF s
  <2> QED
    BY <1>3, <2>1, RowsRewritten DEF AccountTypeOK, Tokens
<1>5. NewToken(u, action, e, previous, expires) \in ActionToken
  BY DEF NewToken, ActionToken, AccountTypeOK
<1>6. Len(actionTokens) < AccountTokens /\ Len(actionTokens) \in Nat /\ AccountTokens \in Nat
  BY AccountAssumptions DEF ReplaceActionAndQueueEmail, AccountTypeOK
<1> HIDE DEF s
<1> QED
  BY <1>1, <1>4, <1>5, <1>6 DEF s

\* Consuming a token, letting tokens expire and deleting those of removed
\* accounts change rows and no more.
LEMMA TokensMarked ==
    ASSUME AccountTypeOK, NEW f, f = [t \in Tokens |-> f[t]],
           \A t \in Tokens : \/ f[t] = actionTokens[t]
                             \/ f[t] = [actionTokens[t] EXCEPT !.state = "revoked"]
                             \/ f[t] = [actionTokens[t] EXCEPT !.state = "consumed"]
    PROVE  f \in Seq(ActionToken) /\ Len(f) = Len(actionTokens)
<1>1. \A t \in Tokens : actionTokens[t] \in ActionToken
  BY DEF AccountTypeOK, Tokens
<1>2. \A t \in Tokens : f[t] \in ActionToken
  <2> TAKE t \in Tokens
  <2>1. actionTokens[t] \in ActionToken
    BY <1>1
  <2> QED
    BY <2>1, RowState
<1>3. DOMAIN f = 1 .. Len(actionTokens) /\ f = [t \in 1 .. Len(actionTokens) |-> f[t]]
  BY DEF Tokens
<1> QED
  BY <1>2, <1>3, RowsRewritten DEF AccountTypeOK, Tokens

-----------------------------------------------------------------------------
(* What a step leaves to show *)

LEMMA Instant ==
    ASSUME AccountInv
    PROVE  accountNow \in Nat /\ Len(actionTokens) \in Nat /\ Tokens \subseteq Nat
BY AccountAssumptions DEF AccountInv, AccountTypeOK, Tokens

LEMMA IdleAskOK == NoAsk \in Ask
BY DEF NoAsk, Ask

\* What a request has read or drawn carries over a step in which ids stay used,
\* its own id stays unused, no place of its invitation is taken, tokens stay and
\* the account it has locked goes on existing.
LEMMA AskCarried ==
    ASSUME AccountInv, NEW q \in AccountRequests, asks'[q] = asks[q],
           \A u \in Accounts : users[u].status # "unborn" => users'[u].status # "unborn",
           asks[q].pc \in {"register", "reserved"} => users'[asks[q].user].status = "unborn",
           asks[q].pc = "reserved" =>
               Occupied(asks[q].invite)' \subseteq Occupied(asks[q].invite),
           Len(actionTokens) <= Len(actionTokens'), Len(actionTokens') \in Nat,
           asks[q].pc = "admin" =>
               users'[asks[q].user].status \in {"pending", "active", "suspended"}
    PROVE  AskOK(q)'
<1>1. AskOK(q)
  BY DEF AccountInv
<1>2. Serving => Serving'
  BY DEF Serving
<1>3. asks[q].pc = "reserved" => Cardinality(Occupied(asks[q].invite)') < InviteMaxUses
  <2> HAVE asks[q].pc = "reserved"
  <2> DEFINE old == Occupied(asks[q].invite)
             new == Occupied(asks[q].invite)'
  <2>1. new \subseteq old /\ Cardinality(old) < InviteMaxUses
    BY <1>1 DEF AskOK
  <2>2. IsFiniteSet(old)
    BY FS_Subset, AccountAssumptions DEF Occupied
  <2> HIDE DEF old, new
  <2>3. IsFiniteSet(new) /\ Cardinality(new) <= Cardinality(old)
    BY <2>1, <2>2, FS_Subset
  <2>4. Cardinality(new) \in Nat /\ Cardinality(old) \in Nat /\ InviteMaxUses \in Nat
    BY <2>2, <2>3, FS_CardinalityType, AccountAssumptions
  <2> QED
    BY <2>1, <2>3, <2>4 DEF new
<1>4. asks[q].pc = "confirm" => asks[q].token \in Tokens'
  BY <1>1 DEF AskOK, Tokens, AccountInv, AccountTypeOK
<1> QED
  BY <1>1, <1>2, <1>3, <1>4 DEF AskOK, Exists, Occupied

\* A request that is accepted, locks an invitation or ends changes nobody
\* else's; it is enough that its own entry is right.
LEMMA OwnEntry ==
    ASSUME AccountInv, NEW r \in AccountRequests, NEW a \in Ask,
           asks' = [asks EXCEPT ![r] = a], asked' \in 0 .. MaxAsked,
           UNCHANGED <<users, registrations, invites, actionTokens, accountNow, proved>>,
           AskOK(r)',
           \A q \in AccountRequests : q # r => AsksApart(r, q)' /\ AsksApart(q, r)'
    PROVE  AccountInv'
<1>1. \A q \in AccountRequests : q # r => asks'[q] = asks[q]
  BY DEF AccountInv, AccountTypeOK
<1>2. AccountTypeOK'
  BY DEF AccountInv, AccountTypeOK
<1>3. ASSUME NEW q \in AccountRequests PROVE AskOK(q)'
  <2>1. CASE q = r
    BY <2>1
  <2>2. CASE q # r
    BY <2>2, <1>1 DEF AccountInv, AskOK, Serving, Occupied, Tokens, Exists
  <2> QED
    BY <2>1, <2>2
<1>4. ASSUME NEW p \in AccountRequests, NEW q \in AccountRequests, p # q
      PROVE  AsksApart(p, q)'
  <2>1. CASE p = r \/ q = r
    BY <2>1, <1>4
  <2>2. CASE p # r /\ q # r
    BY <2>2, <1>1, <1>4 DEF AccountInv, AsksApart
  <2> QED
    BY <2>1, <2>2
<1>5. InviteCapacity' /\ PendingHasUser' /\ VerifiedWasProved'
  BY DEF AccountInv, InviteCapacity, Occupied, PendingHasUser, VerifiedWasProved, Exists
<1> QED
  BY <1>2, <1>3, <1>4, <1>5 DEF AccountInv

\* A request that ends leaves what the others have read; for them and for the
\* tables it has written there is something to show.
LEMMA EndsWell ==
    ASSUME AccountInv, NEW r \in AccountRequests, Done(r),
           users' \in [Accounts -> User], registrations' \in [Accounts -> Registration],
           actionTokens' \in Seq(ActionToken), Len(actionTokens') <= AccountTokens,
           UNCHANGED <<invites, accountNow>>, proved' \subseteq Accounts \X Mailboxes,
           \A q \in AccountRequests : q # r => AskOK(q)',
           InviteCapacity', PendingHasUser', VerifiedWasProved'
    PROVE  AccountInv'
<1>1. asks' = [asks EXCEPT ![r] = NoAsk] /\ asked' = asked
  BY DEF Done
<1>2. /\ \A q \in AccountRequests : q # r => asks'[q] = asks[q]
      /\ asks'[r] = NoAsk /\ asks' \in [AccountRequests -> Ask]
  BY <1>1, IdleAskOK DEF AccountInv, AccountTypeOK
<1>3. AccountTypeOK'
  BY <1>1, <1>2 DEF AccountInv, AccountTypeOK
<1>4. AskOK(r)'
  BY <1>2 DEF AskOK, NoAsk
<1>5. ASSUME NEW p \in AccountRequests, NEW q \in AccountRequests, p # q
      PROVE  AsksApart(p, q)'
  <2>1. CASE p = r
    BY <2>1, <1>2 DEF AsksApart, NoAsk
  <2>2. CASE q = r
    <3>1. asks[p].pc \in {"register", "reserved"} => asks[p].user # NoAccount
      BY AccountAssumptions DEF AccountInv, AskOK
    <3> QED
      BY <3>1, <2>2, <1>2, <1>5 DEF AsksApart, NoAsk
  <2>3. CASE p # r /\ q # r
    BY <2>3, <1>2, <1>5 DEF AccountInv, AsksApart
  <2> QED
    BY <2>1, <2>2, <2>3
<1> QED
  BY <1>3, <1>4, <1>5 DEF AccountInv

\* No place of an invitation is taken: its capacity stands.
LEMMA PlacesKept ==
    ASSUME AccountInv, \A i \in Invites : Occupied(i)' \subseteq Occupied(i)
    PROVE  InviteCapacity'
<1> SUFFICES ASSUME NEW i \in Invites PROVE Cardinality(Occupied(i)') <= InviteMaxUses
  BY DEF InviteCapacity, Occupied
<1> DEFINE old == Occupied(i)
           new == Occupied(i)'
<1>1. new \subseteq old /\ Cardinality(old) <= InviteMaxUses
  BY DEF AccountInv, InviteCapacity
<1>2. IsFiniteSet(old)
  BY FS_Subset, AccountAssumptions DEF Occupied
<1> HIDE DEF old, new
<1>3. IsFiniteSet(new) /\ Cardinality(new) <= Cardinality(old)
  BY <1>1, <1>2, FS_Subset
<1>4. Cardinality(new) \in Nat /\ Cardinality(old) \in Nat /\ InviteMaxUses \in Nat
  BY <1>2, <1>3, FS_CardinalityType, AccountAssumptions
<1> QED
  BY <1>1, <1>3, <1>4 DEF new

-----------------------------------------------------------------------------
(* Requests that are accepted, lock an invitation or are cut off *)

\* The bookkeeping of an accepted request.
LEMMA HeldEntry ==
    ASSUME AccountInv, NEW r \in AccountRequests, NEW a \in Ask, Hold(r, a)
    PROVE  /\ asks' = [asks EXCEPT ![r] = a] /\ asked' \in 0 .. MaxAsked
           /\ asks'[r] = a /\ \A q \in AccountRequests : q # r => asks'[q] = asks[q]
BY AccountAssumptions DEF AccountInv, AccountTypeOK, Hold

\* An id drawn for a registration was nobody's.
LEMMA HandleRegisterInv ==
    ASSUME AccountInv, NEW r \in AccountRequests, NEW u \in Accounts, NEW e \in Mailboxes,
           NEW i \in Invites \cup {NoInvite}, NEW v \in BOOLEAN, HandleRegister(r, u, e, i, v)
    PROVE  AccountInv'
<1> DEFINE a == [NoAsk EXCEPT !.pc = "register", !.user = u, !.email = e, !.invite = i,
                             !.verify = v, !.at = accountNow]
<1>1. a \in Ask
  BY Instant DEF NoAsk, Ask
<1>2. a.pc = "register" /\ a.user = u /\ a.email = e
  BY DEF NoAsk
<1>3. /\ Hold(r, a) /\ Serving /\ users[u].status = "unborn"
      /\ \A q \in AccountRequests : asks[q].user # u
      /\ UNCHANGED <<users, registrations, invites, actionTokens, accountNow, proved>>
  BY DEF HandleRegister, NewId
<1> HIDE DEF a
<1>4. /\ asks' = [asks EXCEPT ![r] = a] /\ asked' \in 0 .. MaxAsked
      /\ asks'[r] = a /\ \A q \in AccountRequests : q # r => asks'[q] = asks[q]
  BY <1>1, <1>3, HeldEntry
<1>5. AskOK(r)'
  BY <1>2, <1>3, <1>4 DEF AskOK, Serving
<1>6. ASSUME NEW q \in AccountRequests, q # r PROVE AsksApart(r, q)' /\ AsksApart(q, r)'
  <2>1. AskOK(q)
    BY DEF AccountInv
  <2> QED
    BY <2>1, <1>2, <1>3, <1>4, <1>6 DEF AsksApart, AskOK
<1> QED
  BY <1>1, <1>3, <1>4, <1>5, <1>6, OwnEntry

\* The place counted under the lock of the invitation is there until the insert.
LEMMA ReserveInviteInv ==
    ASSUME AccountInv, NEW r \in AccountRequests, ReserveInvite(r)
    PROVE  AccountInv'
<1> DEFINE a == [asks[r] EXCEPT !.pc = "reserved"]
<1>1. asks[r] \in Ask
  BY DEF AccountInv, AccountTypeOK
<1>2. a \in Ask /\ a.pc = "reserved" /\ a.user = asks[r].user /\ a.email = asks[r].email
      /\ a.invite = asks[r].invite
  BY <1>1 DEF Ask
<1>3. asks[r].invite \in Invites
  BY <1>1 DEF Ask, ReserveInvite
<1>4. /\ asks' = [asks EXCEPT ![r] = a] /\ asked' = asked /\ asks[r].pc = "register"
      /\ UNCHANGED <<users, registrations, invites, actionTokens, accountNow, proved>>
      /\ InviteUnlocked(asks[r].invite) /\ Cardinality(Occupied(asks[r].invite)) < InviteMaxUses
  BY DEF ReserveInvite
<1> HIDE DEF a
<1>5. asks'[r] = a /\ \A q \in AccountRequests : q # r => asks'[q] = asks[q]
  BY <1>4 DEF AccountInv, AccountTypeOK
<1>6. AskOK(r)'
  <2>1. AskOK(r)
    BY DEF AccountInv
  <2> QED
    BY <2>1, <1>2, <1>3, <1>4, <1>5 DEF AskOK, Serving, Occupied
<1>7. ASSUME NEW q \in AccountRequests, q # r PROVE AsksApart(r, q)' /\ AsksApart(q, r)'
  <2>1. AsksApart(r, q) /\ AsksApart(q, r)
    BY <1>7 DEF AccountInv
  <2> QED
    BY <2>1, <1>2, <1>4, <1>5, <1>7 DEF AsksApart, InviteUnlocked
<1>8. asked' \in 0 .. MaxAsked
  BY <1>4 DEF AccountInv, AccountTypeOK
<1> QED
  BY <1>2, <1>4, <1>6, <1>7, <1>8, OwnEntry

\* A request that neither draws an id nor takes a lock: what it has read is of
\* the right kind.
LEMMA ReadsInv ==
    ASSUME AccountInv, NEW r \in AccountRequests, NEW a \in Ask, Hold(r, a),
           a.pc \in {"ask", "resend", "confirm", "bootstrap", "cleanup"},
           a.pc \in {"ask", "resend"} => a.user \in Accounts /\ a.email \in Mailboxes
                                         /\ users[a.user].status # "unborn",
           a.pc \notin {"ask", "resend"} => a.user = NoAccount,
           a.pc = "ask" => a.action \in Actions,
           a.pc = "confirm" => a.token \in Tokens,
           UNCHANGED <<users, registrations, invites, actionTokens, accountNow, proved>>
    PROVE  AccountInv'
<1>1. /\ asks' = [asks EXCEPT ![r] = a] /\ asked' \in 0 .. MaxAsked
      /\ asks'[r] = a /\ \A q \in AccountRequests : q # r => asks'[q] = asks[q]
  BY HeldEntry
<1>2. AskOK(r)'
  BY <1>1 DEF AskOK, Tokens
<1>3. ASSUME NEW q \in AccountRequests, q # r PROVE AsksApart(r, q)' /\ AsksApart(q, r)'
  <2>1. AskOK(q)
    BY DEF AccountInv
  <2>2. asks[q].pc \in {"register", "reserved"} => a.user # asks[q].user
    BY <2>1, AccountAssumptions DEF AskOK
  <2> QED
    BY <2>2, <1>1, <1>3 DEF AsksApart
<1> QED
  BY <1>1, <1>2, <1>3, OwnEntry

LEMMA AskActionInv ==
    ASSUME AccountInv, NEW r \in AccountRequests, NEW u \in Accounts, NEW action \in Actions,
           NEW e \in Mailboxes, NEW previous \in Mailboxes \cup {NoMailbox},
           users[u].status # "unborn", AskAction(r, u, action, e, previous)
    PROVE  AccountInv'
<1> DEFINE a == [NoAsk EXCEPT !.pc = "ask", !.user = u, !.action = action, !.email = e,
                             !.previous = previous, !.at = accountNow]
<1>1. a \in Ask
  BY Instant DEF NoAsk, Ask
<1>2. a.pc = "ask" /\ a.user = u /\ a.email = e /\ a.action = action
  BY DEF NoAsk
<1>3. Hold(r, a) /\ UNCHANGED <<users, registrations, invites, actionTokens, accountNow, proved>>
  BY DEF AskAction
<1> HIDE DEF a
<1> QED
  BY <1>1, <1>2, <1>3, ReadsInv

\* Password reset, verification and change of the address ask for a token of an
\* account that exists.
LEMMA RequestsInv ==
    ASSUME AccountInv, NEW r \in AccountRequests, NEW u \in Accounts,
           \/ HandleRequestPasswordReset(r, u)
           \/ HandleRequestEmailVerification(r, u)
           \/ HandleResendPendingEmailVerification(r, u)
           \/ \E e \in Mailboxes : HandleRequestEmailChange(r, u, e)
    PROVE  AccountInv'
<1>1. users[u] \in User /\ users[u].email \in Mailboxes \cup {NoMailbox}
  BY DEF AccountInv, AccountTypeOK, User
<1>2. CASE HandleRequestPasswordReset(r, u)
  BY <1>1, <1>2, AskActionInv DEF HandleRequestPasswordReset, RequestPasswordReset, Actions
<1>3. CASE HandleRequestEmailVerification(r, u)
  BY <1>1, <1>3, AskActionInv DEF HandleRequestEmailVerification, RequestEmailVerification, Actions
<1>4. CASE HandleResendPendingEmailVerification(r, u)
  <2> DEFINE a == [NoAsk EXCEPT !.pc = "resend", !.user = u, !.email = users[u].email,
                               !.at = accountNow]
  <2>1. a \in Ask
    BY <1>1, Instant DEF NoAsk, Ask
  <2>2. a.pc = "resend" /\ a.user = u /\ a.email = users[u].email
    BY DEF NoAsk
  <2>3. /\ Hold(r, a) /\ UNCHANGED <<users, registrations, invites, actionTokens, accountNow, proved>>
        /\ users[u].status = "pending" /\ users[u].email # NoMailbox
    BY <1>4 DEF HandleResendPendingEmailVerification, RequestPendingEmailVerification,
                PendingRegistration
  <2> HIDE DEF a
  <2> QED
    BY <1>1, <2>1, <2>2, <2>3, ReadsInv
<1>5. ASSUME NEW e \in Mailboxes, HandleRequestEmailChange(r, u, e) PROVE AccountInv'
  BY <1>1, <1>5, AskActionInv DEF HandleRequestEmailChange, RequestEmailChange, Actions
<1> QED
  BY <1>2, <1>3, <1>4, <1>5

LEMMA LoadActionInv ==
    ASSUME AccountInv, NEW r \in AccountRequests, NEW t \in Tokens, NEW action,
           LoadAction(r, t, action)
    PROVE  AccountInv'
<1> DEFINE a == [NoAsk EXCEPT !.pc = "confirm", !.token = t, !.at = accountNow]
<1>1. a \in Ask
  BY Instant DEF NoAsk, Ask
<1>2. a.pc = "confirm" /\ a.user = NoAccount /\ a.token = t
  BY DEF NoAsk
<1>3. Hold(r, a) /\ UNCHANGED <<users, registrations, invites, actionTokens, accountNow, proved>>
  BY DEF LoadAction
<1> HIDE DEF a
<1> QED
  BY <1>1, <1>2, <1>3, ReadsInv

LEMMA BackgroundInv ==
    ASSUME AccountInv, NEW r \in AccountRequests,
           BootstrapInitialAdmin(r) \/ CleanupExpired(r)
    PROVE  AccountInv'
<1>1. CASE BootstrapInitialAdmin(r)
  <2> DEFINE a == [NoAsk EXCEPT !.pc = "bootstrap"]
  <2>1. a \in Ask /\ a.pc = "bootstrap" /\ a.user = NoAccount
    BY DEF NoAsk, Ask
  <2>2. Hold(r, a) /\ UNCHANGED <<users, registrations, invites, actionTokens, accountNow, proved>>
    BY <1>1 DEF BootstrapInitialAdmin
  <2> HIDE DEF a
  <2> QED
    BY <2>1, <2>2, ReadsInv
<1>2. CASE CleanupExpired(r)
  <2> DEFINE a == [NoAsk EXCEPT !.pc = "cleanup", !.at = accountNow,
                               !.candidates = Expired(accountNow)]
  <2>1. Expired(accountNow) \in SUBSET Accounts
    BY DEF Expired
  <2>2. a \in Ask /\ a.pc = "cleanup" /\ a.user = NoAccount
    BY <2>1, Instant DEF NoAsk, Ask
  <2>3. Hold(r, a) /\ UNCHANGED <<users, registrations, invites, actionTokens, accountNow, proved>>
    BY <1>2 DEF CleanupExpired
  <2> HIDE DEF a
  <2> QED
    BY <2>2, <2>3, ReadsInv
<1> QED
  BY <1>1, <1>2

\* The advisory lock admits one administrator's change at a time.
LEMMA LockInv ==
    ASSUME AccountInv, NEW r \in AccountRequests, NEW u \in Accounts,
           NEW change \in {"suspend", "activate", "promote", "demote", "address", "delete"},
           NEW e \in Mailboxes \cup {NoMailbox}, LockForAdminChange(r, u, change, e)
    PROVE  AccountInv'
<1> DEFINE a == [NoAsk EXCEPT !.pc = "admin", !.user = u, !.change = change, !.email = e]
<1>1. a \in Ask /\ a.pc = "admin" /\ a.user = u /\ a.change = change
  BY DEF NoAsk, Ask
<1>2. /\ Hold(r, a) /\ LockAdminInvariant /\ Exists(u)
      /\ UNCHANGED <<users, registrations, invites, actionTokens, accountNow, proved>>
  BY DEF LockForAdminChange
<1> HIDE DEF a
<1>3. /\ asks' = [asks EXCEPT ![r] = a] /\ asked' \in 0 .. MaxAsked
      /\ asks'[r] = a /\ \A q \in AccountRequests : q # r => asks'[q] = asks[q]
  BY <1>1, <1>2, HeldEntry
<1>4. AskOK(r)'
  BY <1>1, <1>2, <1>3 DEF AskOK, Exists
<1>5. ASSUME NEW q \in AccountRequests, q # r PROVE AsksApart(r, q)' /\ AsksApart(q, r)'
  <2>1. AskOK(q)
    BY DEF AccountInv
  <2> QED
    BY <2>1, <1>1, <1>2, <1>3, <1>5 DEF AsksApart, AskOK, LockAdminInvariant, Exists
<1> QED
  BY <1>1, <1>2, <1>3, <1>4, <1>5, OwnEntry

LEMMA RefusedInv ==
    ASSUME AccountInv, NEW r \in AccountRequests, Refused(r)
    PROVE  AccountInv'
<1>1. Done(r) /\ UNCHANGED <<users, registrations, invites, actionTokens, accountNow, proved>>
  BY DEF Refused
<1>2. ASSUME NEW q \in AccountRequests, q # r PROVE AskOK(q)'
  BY <1>1, <1>2 DEF AccountInv, AccountTypeOK, Done, AskOK, Serving, Occupied, Tokens, Exists
<1>3. InviteCapacity' /\ PendingHasUser' /\ VerifiedWasProved'
  BY <1>1 DEF AccountInv, InviteCapacity, Occupied, PendingHasUser, VerifiedWasProved, Exists
<1> QED
  BY <1>1, <1>2, <1>3, EndsWell DEF AccountInv, AccountTypeOK

-----------------------------------------------------------------------------
(* Requests that write *)

\* A request that writes the rows of one account.
LEMMA OneAccount ==
    ASSUME AccountInv, NEW r \in AccountRequests, NEW w \in Accounts, Done(r),
           NEW row \in User, users' = [users EXCEPT ![w] = row],
           NEW reg \in Registration, registrations' = [registrations EXCEPT ![w] = reg],
           actionTokens' \in Seq(ActionToken), Len(actionTokens') <= AccountTokens,
           Len(actionTokens) <= Len(actionTokens'),
           UNCHANGED <<invites, accountNow>>,
           proved \subseteq proved', proved' \subseteq Accounts \X Mailboxes,
           row.status # "unborn",
           \A q \in AccountRequests : q # r /\ asks[q].pc \in {"register", "reserved"}
                                        => asks[q].user # w,
           \A q \in AccountRequests : q # r /\ asks[q].pc = "admin" /\ asks[q].user = w
                                        => row.status \in {"pending", "active", "suspended"},
           \A q \in AccountRequests : q # r /\ asks[q].pc = "reserved"
                                        => Occupied(asks[q].invite)' \subseteq Occupied(asks[q].invite),
           InviteCapacity',
           reg.status = "pending" => row.status \in {"pending", "active", "suspended"},
           row.status \in {"pending", "active", "suspended"} /\ row.verified
               => <<w, row.email>> \in proved'
    PROVE  AccountInv'
<1>1. /\ users \in [Accounts -> User] /\ registrations \in [Accounts -> Registration]
      /\ asks \in [AccountRequests -> Ask]
  BY DEF AccountInv, AccountTypeOK
<1>2. /\ users' \in [Accounts -> User] /\ registrations' \in [Accounts -> Registration]
      /\ users'[w] = row /\ registrations'[w] = reg
      /\ \A u \in Accounts : u # w => users'[u] = users[u] /\ registrations'[u] = registrations[u]
  BY <1>1
<1>3. ASSUME NEW q \in AccountRequests, q # r PROVE AskOK(q)'
  <2>1. asks'[q] = asks[q]
    BY <1>1, <1>3 DEF Done
  <2>2. AskOK(q)
    BY DEF AccountInv
  <2>3. \A u \in Accounts : users[u].status # "unborn" => users'[u].status # "unborn"
    BY <1>2
  <2>4. asks[q].pc \in {"register", "reserved"} => users'[asks[q].user].status = "unborn"
    BY <1>2, <1>3, <2>2 DEF AskOK
  <2>5. asks[q].pc = "admin" =>
           users'[asks[q].user].status \in {"pending", "active", "suspended"}
    BY <1>2, <1>3, <2>2 DEF AskOK, Exists
  <2>6. Len(actionTokens') \in Nat
    OBVIOUS
  <2>7. asks[q].pc = "reserved" => Occupied(asks[q].invite)' \subseteq Occupied(asks[q].invite)
    BY <1>3
  <2> QED
    BY <2>1, <2>3, <2>4, <2>5, <2>6, <2>7, AskCarried
<1>4. PendingHasUser'
  BY <1>2 DEF AccountInv, PendingHasUser, Exists
<1>5. VerifiedWasProved'
  BY <1>2 DEF AccountInv, VerifiedWasProved, Exists
<1> QED
  BY <1>2, <1>3, <1>4, <1>5, EndsWell

\* A registration that does not take a place it had not keeps the others' places.
LEMMA NoPlaceTaken ==
    ASSUME AccountInv, NEW w \in Accounts, NEW reg \in Registration,
           registrations' = [registrations EXCEPT ![w] = reg],
           reg.status \in {"pending", "completed"} /\ reg.invite \in Invites =>
             /\ reg.invite = registrations[w].invite
             /\ registrations[w].status \in {"pending", "completed"}
    PROVE  \A i \in Invites : Occupied(i)' \subseteq Occupied(i)
BY DEF AccountInv, AccountTypeOK, Occupied

\* The last place of an invitation goes to the registration that has locked it.
LEMMA PlaceTaken ==
    ASSUME AccountInv, NEW w \in Accounts, NEW i \in Invites, NEW reg \in Registration,
           registrations' = [registrations EXCEPT ![w] = reg], reg.invite = i,
           Cardinality(Occupied(i)) < InviteMaxUses
    PROVE  InviteCapacity'
<1> SUFFICES ASSUME NEW j \in Invites PROVE Cardinality(Occupied(j)') <= InviteMaxUses
  BY DEF InviteCapacity, Occupied
<1> DEFINE old == Occupied(j)
           new == Occupied(j)'
<1>1. new \subseteq old \cup {w} /\ (j # i => new \subseteq old)
  BY DEF AccountInv, AccountTypeOK, Occupied
<1>2. IsFiniteSet(old)
  BY FS_Subset, AccountAssumptions DEF Occupied
<1>3. Cardinality(old) <= InviteMaxUses /\ (j = i => Cardinality(old) < InviteMaxUses)
  BY DEF AccountInv, InviteCapacity
<1> HIDE DEF old, new
<1>4. IsFiniteSet(old \cup {w}) /\ Cardinality(old \cup {w}) <= Cardinality(old) + 1
      /\ Cardinality(old) \in Nat /\ Cardinality(old \cup {w}) \in Nat
  <2>1. IsFiniteSet(old \cup {w})
        /\ \/ Cardinality(old \cup {w}) = Cardinality(old)
           \/ Cardinality(old \cup {w}) = Cardinality(old) + 1
    BY <1>2, FS_AddElement
  <2>2. Cardinality(old) \in Nat /\ Cardinality(old \cup {w}) \in Nat
    BY <1>2, <2>1, FS_CardinalityType
  <2> QED
    BY <2>1, <2>2
<1>5. IsFiniteSet(new) /\ Cardinality(new) <= Cardinality(old \cup {w})
      /\ (j # i => Cardinality(new) <= Cardinality(old))
  BY <1>1, <1>2, <1>4, FS_Subset
<1>6. Cardinality(new) \in Nat /\ InviteMaxUses \in Nat
  BY <1>5, FS_CardinalityType, AccountAssumptions
<1> QED
  BY <1>3, <1>4, <1>5, <1>6 DEF new

LEMMA CreateRegistrationInv ==
    ASSUME AccountInv, NEW r \in AccountRequests, CreateRegistration(r)
    PROVE  AccountInv'
<1> DEFINE a == asks[r]
           u == asks[r].user
           row == [Unborn EXCEPT !.status = PreparedStatus(a), !.role = "user", !.email = a.email]
           reg == [status |-> IF a.verify THEN "pending" ELSE "completed", invite |-> a.invite,
                   expires |-> a.at + PendingTTL]
<1>1. /\ Done(r) /\ users' = [users EXCEPT ![u] = row]
      /\ registrations' = [registrations EXCEPT ![u] = reg]
      /\ UNCHANGED <<invites, accountNow, proved>>
  BY DEF CreateRegistration, InsertUser, InsertRegistration
<1>2. a.pc = "reserved" \/ (a.pc = "register" /\ a.invite = NoInvite)
  BY DEF CreateRegistration
<1>3. AskOK(r) /\ a \in Ask
  BY DEF AccountInv, AccountTypeOK
<1>4. u \in Accounts /\ a.email \in Mailboxes /\ users[u].status = "unborn"
  BY <1>2, <1>3 DEF AskOK
<1>5. a.at \in Nat /\ a.verify \in BOOLEAN /\ a.invite \in Invites \cup {NoInvite}
      /\ a.at + PendingTTL \in Nat
  BY <1>3, AccountAssumptions DEF Ask
<1>6. row \in User /\ row.status \in {"pending", "active"} /\ ~row.verified
      /\ reg \in Registration /\ reg.invite = a.invite
  BY <1>4, <1>5 DEF User, Unborn, PreparedStatus, Registration
<1>7. /\ actionTokens' \in Seq(ActionToken) /\ Len(actionTokens') <= AccountTokens
      /\ Len(actionTokens) <= Len(actionTokens')
  <2>1. CASE a.verify
    <3>1. ReplaceActionAndQueueEmail(u, "email_verification", a.email, NoMailbox, a.at + PendingTTL)
      BY <2>1 DEF CreateRegistration
    <3>2. AccountTypeOK /\ Len(actionTokens) \in Nat
      BY Instant DEF AccountInv
    <3> HIDE DEF a, u
    <3>3. Len(actionTokens') = Len(actionTokens) + 1 /\ actionTokens' \in Seq(ActionToken)
          /\ Len(actionTokens') <= AccountTokens
      BY <3>1, <3>2, <1>4, <1>5, TokenReplaced DEF Actions
    <3> QED
      BY <3>2, <3>3
  <2>2. CASE ~a.verify
    BY <2>2, AccountAssumptions DEF CreateRegistration, AccountInv, AccountTypeOK
  <2> QED
    BY <2>1, <2>2
<1>8. ASSUME NEW q \in AccountRequests, q # r
      PROVE  /\ asks[q].pc \in {"register", "reserved"} => asks[q].user # u
             /\ ~(asks[q].pc = "admin" /\ asks[q].user = u)
             /\ asks[q].pc = "reserved" => asks[q].invite \in Invites /\ asks[q].invite # a.invite
  <2>1. AskOK(q) /\ AsksApart(q, r)
    BY <1>8 DEF AccountInv
  <2> QED
    BY <2>1, <1>2, <1>4, AccountAssumptions DEF AskOK, AsksApart, Exists
<1> HIDE DEF row, reg
<1>9. ASSUME NEW q \in AccountRequests, q # r, asks[q].pc = "reserved"
      PROVE  Occupied(asks[q].invite)' \subseteq Occupied(asks[q].invite)
  <2>1. asks'[q] = asks[q]
    BY <1>9, <1>1 DEF AccountInv, AccountTypeOK, Done
  <2> QED
    BY <2>1, <1>1, <1>6, <1>8, <1>9 DEF AccountInv, AccountTypeOK, Occupied
<1>10. InviteCapacity'
  <2>1. CASE a.pc = "reserved"
    <3>1. a.invite \in Invites /\ Cardinality(Occupied(a.invite)) < InviteMaxUses
      BY <2>1, <1>3 DEF AskOK
    <3> HIDE DEF a, u
    <3> QED
      BY <3>1, <1>1, <1>4, <1>6, PlaceTaken
  <2>2. CASE a.invite = NoInvite
    <3>1. reg.invite \notin Invites
      BY <2>2, <1>6, AccountAssumptions
    <3> HIDE DEF a, u
    <3>2. \A i \in Invites : Occupied(i)' \subseteq Occupied(i)
      BY <3>1, <1>1, <1>4, <1>6, NoPlaceTaken
    <3> QED
      BY <3>2, PlacesKept
  <2> QED
    BY <2>1, <2>2, <1>2
<1>11. proved \subseteq proved' /\ proved' \subseteq Accounts \X Mailboxes
  BY <1>1 DEF AccountInv, AccountTypeOK
<1>12. row.status # "unborn" /\ row.status \in {"pending", "active", "suspended"}
  BY <1>6
<1>13. /\ \A q \in AccountRequests : q # r /\ asks[q].pc \in {"register", "reserved"}
                                        => asks[q].user # u
       /\ \A q \in AccountRequests : q # r /\ asks[q].pc = "admin" /\ asks[q].user = u
                                        => row.status \in {"pending", "active", "suspended"}
       /\ \A q \in AccountRequests : q # r /\ asks[q].pc = "reserved"
                                        => Occupied(asks[q].invite)' \subseteq Occupied(asks[q].invite)
  BY <1>8, <1>9
<1> HIDE DEF a, u
<1> QED
  BY <1>1, <1>4, <1>6, <1>7, <1>10, <1>11, <1>12, <1>13, OneAccount

\* Request r ends by writing row w of users and registrations; it takes no place
\* of an invitation, keeps w existing for who has locked it, and lets an address
\* count as verified that was proved.
RowWritten(r, w, row, reg) ==
    /\ Done(r) /\ users' = [users EXCEPT ![w] = row]
    /\ registrations' = [registrations EXCEPT ![w] = reg]
    /\ row \in User /\ reg \in Registration
    /\ reg.invite = registrations[w].invite
    /\ reg.status \in {"pending", "completed"} =>
           registrations[w].status \in {"pending", "completed"}
    /\ actionTokens' \in Seq(ActionToken) /\ Len(actionTokens') <= AccountTokens
    /\ Len(actionTokens) <= Len(actionTokens')
    /\ invites' = invites /\ accountNow' = accountNow
    /\ proved \subseteq proved' /\ proved' \subseteq Accounts \X Mailboxes
    /\ row.status # "unborn"
    /\ \A q \in AccountRequests : q # r /\ asks[q].pc \in {"register", "reserved"}
                                   => asks[q].user # w
    /\ \A q \in AccountRequests : q # r /\ asks[q].pc = "admin" /\ asks[q].user = w
                                   => row.status \in {"pending", "active", "suspended"}
    /\ reg.status = "pending" => row.status \in {"pending", "active", "suspended"}
    /\ row.status \in {"pending", "active", "suspended"} /\ row.verified
          => <<w, row.email>> \in proved'

LEMMA OneRow ==
    ASSUME AccountInv, NEW r \in AccountRequests, NEW w \in Accounts, NEW row, NEW reg,
           RowWritten(r, w, row, reg)
    PROVE  AccountInv'
<1> USE DEF RowWritten
<1>1. \A i \in Invites : Occupied(i)' \subseteq Occupied(i)
  BY NoPlaceTaken
<1>2. InviteCapacity'
  BY <1>1, PlacesKept
<1>3. \A q \in AccountRequests : q # r /\ asks[q].pc = "reserved"
         => Occupied(asks[q].invite)' \subseteq Occupied(asks[q].invite)
  <2> SUFFICES ASSUME NEW q \in AccountRequests, q # r, asks[q].pc = "reserved"
               PROVE  Occupied(asks[q].invite)' \subseteq Occupied(asks[q].invite)
    OBVIOUS
  <2>1. asks'[q] = asks[q] /\ asks[q].invite \in Invites
    BY DEF AccountInv, AccountTypeOK, Done, AskOK
  <2> QED
    BY <2>1, <1>1 DEF Occupied
<1> QED
  BY <1>2, <1>3, OneAccount, ZenonT(60) DEF RowWritten

\* A request that writes tokens and nothing else.
LEMMA TokensOnly ==
    ASSUME AccountInv, NEW r \in AccountRequests, Done(r),
           actionTokens' \in Seq(ActionToken), Len(actionTokens') <= AccountTokens,
           Len(actionTokens) <= Len(actionTokens'),
           UNCHANGED <<users, registrations, invites, accountNow, proved>>
    PROVE  AccountInv'
<1>1. ASSUME NEW q \in AccountRequests, q # r PROVE AskOK(q)'
  <2>1. AskOK(q) /\ asks'[q] = asks[q]
    BY <1>1 DEF AccountInv, AccountTypeOK, Done
  <2>2. Occupied(asks[q].invite)' = Occupied(asks[q].invite)
    BY <2>1 DEF Occupied
  <2>3. Len(actionTokens') \in Nat
    OBVIOUS
  <2> QED
    BY <2>1, <2>2, <2>3, AskCarried DEF AskOK, Exists
<1>2. InviteCapacity' /\ PendingHasUser' /\ VerifiedWasProved'
  BY DEF AccountInv, InviteCapacity, Occupied, PendingHasUser, VerifiedWasProved, Exists
<1> QED
  BY <1>1, <1>2, EndsWell DEF AccountInv, AccountTypeOK

\* Nobody else draws the id of an account that exists.
LEMMA NotDrawn ==
    ASSUME AccountInv, NEW w \in Accounts, users[w].status # "unborn",
           NEW q \in AccountRequests, asks[q].pc \in {"register", "reserved"}
    PROVE  asks[q].user # w
BY DEF AccountInv, AskOK

LEMMA NewTokensInv ==
    ASSUME AccountInv, NEW r \in AccountRequests,
           CreateActionEmail(r) \/ ReplacePendingVerification(r)
    PROVE  AccountInv'
<1>1. AskOK(r) /\ asks[r] \in Ask /\ AccountTypeOK
  BY DEF AccountInv, AccountTypeOK
<1>2. /\ asks[r].at \in Nat /\ asks[r].at + ActionTTL \in Nat
      /\ asks[r].previous \in Mailboxes \cup {NoMailbox}
  BY <1>1, AccountAssumptions DEF Ask
<1>3. PICK u \in Accounts, action \in Actions, e \in Mailboxes,
           previous \in Mailboxes \cup {NoMailbox}, expires \in Nat :
         ReplaceActionAndQueueEmail(u, action, e, previous, expires)
  <2>1. CASE CreateActionEmail(r)
    BY <2>1, <1>1, <1>2 DEF CreateActionEmail, AskOK
  <2>2. CASE ReplacePendingVerification(r)
    <3>1. asks[r].pc = "resend"
          /\ ReplaceActionAndQueueEmail(asks[r].user, "email_verification", asks[r].email, NoMailbox,
                                        registrations[asks[r].user].expires)
      BY <2>2 DEF ReplacePendingVerification
    <3>2. asks[r].user \in Accounts /\ asks[r].email \in Mailboxes
      BY <3>1, <1>1 DEF AskOK
    <3>3. registrations[asks[r].user].expires \in Nat
      BY <3>2 DEF AccountInv, AccountTypeOK, Registration
    <3> QED
      BY <3>1, <3>2, <3>3 DEF Actions
  <2> QED
    BY <2>1, <2>2
<1>4. /\ actionTokens' \in Seq(ActionToken) /\ Len(actionTokens') <= AccountTokens
      /\ Len(actionTokens') = Len(actionTokens) + 1
  BY <1>1, <1>3, TokenReplaced
<1>5. Len(actionTokens) <= Len(actionTokens')
  BY <1>4, Instant
<1>6. Done(r) /\ UNCHANGED <<users, registrations, invites, accountNow, proved>>
  BY DEF CreateActionEmail, ReplacePendingVerification
<1> QED
  BY <1>4, <1>5, <1>6, TokensOnly

\* The token presented is a token, and consuming it changes no other fact of any.
LEMMA Consumed ==
    ASSUME AccountInv, NEW r \in AccountRequests, NEW others, ConsumeAction(r, others)
    PROVE  /\ actionTokens' \in Seq(ActionToken) /\ Len(actionTokens') <= AccountTokens
           /\ Len(actionTokens) <= Len(actionTokens') /\ Done(r)
<1> DEFINE t == asks[r].token
           f == [x \in Tokens |->
                   IF x = t THEN [actionTokens[x] EXCEPT !.state = "consumed"]
                   ELSE IF x \in others /\ actionTokens[x].state = "usable"
                        THEN [actionTokens[x] EXCEPT !.state = "revoked"] ELSE actionTokens[x]]
<1>1. actionTokens' = f /\ Done(r)
  BY DEF ConsumeAction
<1>2. /\ f = [x \in Tokens |-> f[x]]
      /\ \A x \in Tokens : \/ f[x] = actionTokens[x]
                           \/ f[x] = [actionTokens[x] EXCEPT !.state = "revoked"]
                           \/ f[x] = [actionTokens[x] EXCEPT !.state = "consumed"]
  OBVIOUS
<1> HIDE DEF f
<1>3. AccountTypeOK /\ Len(actionTokens) <= AccountTokens
  BY DEF AccountInv, AccountTypeOK
<1>4. f \in Seq(ActionToken) /\ Len(f) = Len(actionTokens)
  BY <1>2, <1>3, TokensMarked
<1> QED
  BY <1>1, <1>3, <1>4, Instant

LEMMA TokenPresented ==
    ASSUME AccountInv, NEW r \in AccountRequests, asks[r].pc = "confirm"
    PROVE  /\ Presented(r) \in ActionToken /\ Presented(r).user \in Accounts
           /\ Presented(r).email \in Mailboxes
<1>1. asks[r].token \in Tokens
  BY DEF AccountInv, AskOK
<1>2. actionTokens[asks[r].token] \in ActionToken
  BY <1>1 DEF AccountInv, AccountTypeOK, Tokens
<1> QED
  BY <1>2 DEF Presented, ActionToken

\* A password reset spends the account's tokens.
LEMMA ConfirmPasswordResetInv ==
    ASSUME AccountInv, NEW r \in AccountRequests, ConfirmPasswordReset(r)
    PROVE  AccountInv'
<1>1. /\ ConsumeAction(r, TokensOf(Presented(r).user))
      /\ UNCHANGED <<users, registrations, invites, accountNow, proved>>
  BY DEF ConfirmPasswordReset, ConsumePasswordReset
<1> QED
  BY <1>1, Consumed, TokensOnly

\* The address a verification proves is the one the account has when it commits.
LEMMA ConfirmEmailVerificationInv ==
    ASSUME AccountInv, NEW r \in AccountRequests, ConfirmEmailVerification(r)
    PROVE  AccountInv'
<1> DEFINE k == Presented(r)
           u == k.user
           row == [users[u] EXCEPT !.verified = TRUE, !.status = "active"]
           reg == IF users[u].status = "pending"
                  THEN [registrations[u] EXCEPT !.status = "completed"] ELSE registrations[u]
<1>1. k \in ActionToken /\ u \in Accounts /\ k.email \in Mailboxes
  BY TokenPresented DEF ConfirmEmailVerification, Confirms
<1>2. /\ users[u].status \in {"active", "pending"} /\ users[u].email = k.email
      /\ users[u].status = "pending" => registrations[u].status = "pending"
      /\ users' = [users EXCEPT ![u].verified = TRUE, ![u].status = "active"]
      /\ proved' = proved \cup {<<u, k.email>>} /\ UNCHANGED <<invites, accountNow>>
      /\ ConsumeAction(r, {t \in TokensOf(u) : actionTokens[t].action = "email_verification"})
  BY DEF ConfirmEmailVerification, ConsumeEmailVerification
<1>3. users[u] \in User /\ registrations[u] \in Registration
      /\ users \in [Accounts -> User] /\ registrations \in [Accounts -> Registration]
      /\ proved \subseteq Accounts \X Mailboxes
  BY <1>1 DEF AccountInv, AccountTypeOK
<1>4. users' = [users EXCEPT ![u] = row]
  BY <1>1, <1>2, <1>3
<1>5. registrations' = [registrations EXCEPT ![u] = reg]
  BY <1>1, <1>3 DEF ConfirmEmailVerification, ConsumeEmailVerification, CompleteForUser
<1>6. row \in User /\ row.status = "active" /\ row.email = k.email
  BY <1>2, <1>3 DEF User
<1>7. reg \in Registration /\ reg.invite = registrations[u].invite
      /\ (reg.status \in {"pending", "completed"} => registrations[u].status \in {"pending", "completed"})
  BY <1>2, <1>3 DEF Registration
<1>8. proved \subseteq proved' /\ proved' \subseteq Accounts \X Mailboxes /\ <<u, k.email>> \in proved'
  BY <1>1, <1>2, <1>3
<1>9. \A q \in AccountRequests : q # r /\ asks[q].pc \in {"register", "reserved"} => asks[q].user # u
  BY <1>1, <1>2, NotDrawn
<1>10. /\ actionTokens' \in Seq(ActionToken) /\ Len(actionTokens') <= AccountTokens
       /\ Len(actionTokens) <= Len(actionTokens') /\ Done(r)
  BY <1>2, Consumed
<1> HIDE DEF row, reg, u, k
<1>11. RowWritten(r, u, row, reg)
  BY <1>1, <1>2, <1>4, <1>5, <1>6, <1>7, <1>8, <1>9, <1>10 DEF RowWritten
<1> QED
  BY <1>1, <1>11, OneRow

LEMMA ConfirmEmailChangeInv ==
    ASSUME AccountInv, NEW r \in AccountRequests, ConfirmEmailChange(r)
    PROVE  AccountInv'
<1> DEFINE k == Presented(r)
           u == k.user
           row == [users[u] EXCEPT !.email = k.email, !.verified = TRUE]
           reg == registrations[u]
<1>1. k \in ActionToken /\ u \in Accounts /\ k.email \in Mailboxes
  BY TokenPresented DEF ConfirmEmailChange, Confirms
<1>2. /\ users[u].status = "active"
      /\ users' = [users EXCEPT ![u] = row]
      /\ proved' = proved \cup {<<u, k.email>>} /\ UNCHANGED <<registrations, invites, accountNow>>
      /\ ConsumeAction(r, TokensOf(u))
  BY DEF ConfirmEmailChange, ConsumeEmailChange
<1>3. users[u] \in User /\ registrations[u] \in Registration
      /\ registrations \in [Accounts -> Registration] /\ proved \subseteq Accounts \X Mailboxes
  BY <1>1 DEF AccountInv, AccountTypeOK
<1>4. registrations' = [registrations EXCEPT ![u] = reg] /\ reg \in Registration
  BY <1>1, <1>2, <1>3
<1>5. row \in User /\ row.status = "active" /\ row.email = k.email
  BY <1>1, <1>2, <1>3 DEF User
<1>6. proved \subseteq proved' /\ proved' \subseteq Accounts \X Mailboxes /\ <<u, k.email>> \in proved'
  BY <1>1, <1>2, <1>3
<1>7. \A q \in AccountRequests : q # r /\ asks[q].pc \in {"register", "reserved"} => asks[q].user # u
  BY <1>1, <1>2, NotDrawn
<1>8. /\ actionTokens' \in Seq(ActionToken) /\ Len(actionTokens') <= AccountTokens
      /\ Len(actionTokens) <= Len(actionTokens') /\ Done(r)
  BY <1>2, Consumed
<1>9. reg.invite = registrations[u].invite /\ reg.status = registrations[u].status
  OBVIOUS
<1> HIDE DEF row, reg, u, k
<1>10. RowWritten(r, u, row, reg)
  BY <1>1, <1>2, <1>4, <1>5, <1>6, <1>7, <1>8, <1>9 DEF RowWritten
<1> QED
  BY <1>1, <1>10, OneRow

\* The first administrator gets an id nobody has drawn.
LEMMA BootstrapAdminInv ==
    ASSUME AccountInv, NEW r \in AccountRequests, NEW u \in Accounts, BootstrapAdmin(r, u)
    PROVE  AccountInv'
<1> DEFINE row == [Unborn EXCEPT !.status = "active", !.role = "admin", !.email = NoMailbox]
           reg == registrations[u]
<1>1. /\ Done(r) /\ users' = [users EXCEPT ![u] = row]
      /\ UNCHANGED <<registrations, invites, actionTokens, accountNow, proved>>
      /\ \A q \in AccountRequests : asks[q].user # u
  BY DEF BootstrapAdmin, InsertUser, NewId
<1>2. row \in User /\ row.status = "active" /\ ~row.verified
  BY DEF User, Unborn
<1>3. registrations' = [registrations EXCEPT ![u] = reg] /\ reg \in Registration
      /\ actionTokens \in Seq(ActionToken) /\ Len(actionTokens) <= AccountTokens
      /\ proved \subseteq Accounts \X Mailboxes
  BY <1>1 DEF AccountInv, AccountTypeOK
<1>4. reg.invite = registrations[u].invite /\ reg.status = registrations[u].status
      /\ Len(actionTokens) <= Len(actionTokens)
  BY Instant
<1> HIDE DEF row, reg
<1>5. RowWritten(r, u, row, reg)
  BY <1>1, <1>2, <1>3, <1>4 DEF RowWritten
<1> QED
  BY <1>5, OneRow

\* What an administrator's change does to a row: the account goes on existing,
\* and a new address is not a verified one.
LEMMA AdminRowOK ==
    ASSUME NEW row \in User, row.status \in {"pending", "active", "suspended"},
           NEW change \in {"suspend", "activate", "promote", "demote", "address"},
           NEW e \in Mailboxes \cup {NoMailbox}
    PROVE  /\ AdminRow(row, change, e) \in User
           /\ AdminRow(row, change, e).status \in {"pending", "active", "suspended"}
           /\ AdminRow(row, change, e).verified =>
                row.verified /\ AdminRow(row, change, e).email = row.email
BY DEF AdminRow, User

LEMMA UpdateAdminInv ==
    ASSUME AccountInv, NEW r \in AccountRequests, UpdateAdmin(r)
    PROVE  AccountInv'
<1> DEFINE u == asks[r].user
           row == AdminRow(users[u], asks[r].change, asks[r].email)
           done == /\ asks[r].change = "activate" /\ users[u].status = "pending"
                   /\ registrations[u].status = "pending"
           reg == IF done THEN [registrations[u] EXCEPT !.status = "completed"]
                  ELSE registrations[u]
<1>1. AskOK(r) /\ asks[r] \in Ask /\ asks[r].pc = "admin" /\ asks[r].change # "delete"
  BY DEF AccountInv, AccountTypeOK, UpdateAdmin
<1>2. /\ u \in Accounts /\ users[u].status \in {"pending", "active", "suspended"}
      /\ asks[r].change \in {"suspend", "activate", "promote", "demote", "address"}
      /\ asks[r].email \in Mailboxes \cup {NoMailbox}
  BY <1>1 DEF AskOK, Exists, Ask
<1>3. users[u] \in User /\ registrations[u] \in Registration
      /\ registrations \in [Accounts -> Registration]
      /\ actionTokens \in Seq(ActionToken) /\ Len(actionTokens) <= AccountTokens
      /\ proved \subseteq Accounts \X Mailboxes
  BY <1>2 DEF AccountInv, AccountTypeOK
<1>4. /\ Done(r) /\ users' = [users EXCEPT ![u] = row]
      /\ UNCHANGED <<invites, actionTokens, accountNow, proved>>
  BY DEF UpdateAdmin
<1>5. registrations' = [registrations EXCEPT ![u] = reg]
  BY <1>2, <1>3 DEF UpdateAdmin, CompleteForUser
<1>6. /\ row \in User /\ row.status \in {"pending", "active", "suspended"}
      /\ row.verified => users[u].verified /\ row.email = users[u].email
  BY <1>2, <1>3, AdminRowOK
<1>7. users[u].verified => <<u, users[u].email>> \in proved
  BY <1>2 DEF AccountInv, VerifiedWasProved, Exists
<1>8. reg \in Registration /\ reg.invite = registrations[u].invite
      /\ (reg.status \in {"pending", "completed"} => registrations[u].status \in {"pending", "completed"})
  BY <1>3 DEF Registration
<1>9. \A q \in AccountRequests : q # r /\ asks[q].pc \in {"register", "reserved"} => asks[q].user # u
  BY <1>2, NotDrawn
<1>10. Len(actionTokens) <= Len(actionTokens)
  BY Instant
<1> HIDE DEF row, reg, u
<1>11. RowWritten(r, u, row, reg)
  BY <1>3, <1>4, <1>5, <1>6, <1>7, <1>8, <1>9, <1>10 DEF RowWritten
<1> QED
  BY <1>2, <1>11, OneRow

\* Deleting rows of users deletes their tokens, which the others keep.
LEMMA TokensWithout ==
    ASSUME AccountInv, NEW gone
    PROVE  /\ Without(gone) \in Seq(ActionToken) /\ Len(Without(gone)) = Len(actionTokens)
           /\ Len(actionTokens) <= AccountTokens /\ Len(actionTokens) <= Len(actionTokens)
<1> DEFINE f == Without(gone)
<1>1. /\ f = [x \in Tokens |-> f[x]]
      /\ \A x \in Tokens : \/ f[x] = actionTokens[x]
                           \/ f[x] = [actionTokens[x] EXCEPT !.state = "revoked"]
                           \/ f[x] = [actionTokens[x] EXCEPT !.state = "consumed"]
  BY DEF Without
<1> HIDE DEF f
<1>2. AccountTypeOK /\ Len(actionTokens) <= AccountTokens
  BY DEF AccountInv, AccountTypeOK
<1>3. f \in Seq(ActionToken) /\ Len(f) = Len(actionTokens)
  BY <1>1, <1>2, TokensMarked
<1> QED
  BY <1>2, <1>3, Instant DEF f

LEMMA DeleteUserInv ==
    ASSUME AccountInv, NEW r \in AccountRequests, DeleteUser(r)
    PROVE  AccountInv'
<1> DEFINE u == asks[r].user
           reg == IF registrations[u].status = "pending"
                  THEN [registrations[u] EXCEPT !.status = "released"] ELSE registrations[u]
<1>1. AskOK(r) /\ asks[r].pc = "admin"
  BY DEF AccountInv, DeleteUser
<1>2. u \in Accounts /\ users[u].status \in {"pending", "active", "suspended"}
  BY <1>1 DEF AskOK, Exists
<1>3. registrations[u] \in Registration /\ registrations \in [Accounts -> Registration]
      /\ proved \subseteq Accounts \X Mailboxes
  BY <1>2 DEF AccountInv, AccountTypeOK
<1>4. /\ Done(r) /\ users' = [users EXCEPT ![u] = Deleted] /\ actionTokens' = Without({u})
      /\ UNCHANGED <<invites, accountNow, proved>>
  BY DEF DeleteUser
<1>5. registrations' = [registrations EXCEPT ![u] = reg]
  BY <1>2, <1>3 DEF DeleteUser, Release
<1>6. Deleted \in User /\ Deleted.status = "deleted"
  BY DEF Deleted, Unborn, User
<1>7. reg \in Registration /\ reg.invite = registrations[u].invite /\ reg.status # "pending"
      /\ (reg.status \in {"pending", "completed"} => registrations[u].status \in {"pending", "completed"})
  BY <1>3 DEF Registration
<1>8. \A q \in AccountRequests : q # r /\ asks[q].pc \in {"register", "reserved"} => asks[q].user # u
  BY <1>2, NotDrawn
<1>9. \A q \in AccountRequests : q # r => asks[q].pc # "admin"
  BY <1>1 DEF AccountInv, AsksApart
<1>10. /\ actionTokens' \in Seq(ActionToken) /\ Len(actionTokens') <= AccountTokens
       /\ Len(actionTokens) <= Len(actionTokens')
  BY <1>4, TokensWithout
<1> HIDE DEF reg, u
<1>11. RowWritten(r, u, Deleted, reg)
  BY <1>3, <1>4, <1>5, <1>6, <1>7, <1>8, <1>9, <1>10 DEF RowWritten
<1> QED
  BY <1>2, <1>11, OneRow

\* Whom the clean-up removes.
Removed(r) == asks[r].candidates \cap Expired(asks[r].at)

\* The clean-up waits for the accounts an administrator has locked, and takes
\* the registration with the account.
LEMMA CleanupRegistrationsInv ==
    ASSUME AccountInv, NEW r \in AccountRequests, CleanupRegistrations(r)
    PROVE  AccountInv'
<1> DEFINE gone == Removed(r)
<1>1. /\ Done(r) /\ UNCHANGED <<invites, accountNow, proved>>
      /\ actionTokens' = Without(gone) /\ registrations' = Release(gone)
      /\ users' = [u \in Accounts |-> IF u \in gone THEN Deleted ELSE users[u]]
      /\ \A u \in asks[r].candidates : ~UserLocked(u)
      /\ \A u \in gone : users[u].status \in {"pending", "active", "suspended"}
  BY DEF CleanupRegistrations, Removed, Exists
<1>2. gone \subseteq Accounts /\ \A u \in gone : u \in asks[r].candidates /\ registrations[u].status = "pending"
  BY DEF Removed, Expired
<1> HIDE DEF gone
<1>3. /\ users \in [Accounts -> User] /\ registrations \in [Accounts -> Registration]
      /\ asks \in [AccountRequests -> Ask] /\ proved \subseteq Accounts \X Mailboxes
  BY DEF AccountInv, AccountTypeOK
<1>4. Deleted \in User /\ Deleted.status = "deleted"
  BY DEF Deleted, Unborn, User
<1>5. \A u \in Accounts : /\ u \in gone => users'[u] = Deleted
                          /\ u \notin gone => users'[u] = users[u]
  BY <1>1
<1>6. \A u \in Accounts :
        /\ registrations'[u].invite = registrations[u].invite /\ registrations'[u] \in Registration
        /\ u \in gone => registrations'[u].status = "released"
        /\ u \notin gone => registrations'[u] = registrations[u]
  BY <1>1, <1>2, <1>3 DEF Release, Registration
<1>7. users' \in [Accounts -> User] /\ registrations' \in [Accounts -> Registration]
  <2>1. users' \in [Accounts -> User]
    BY <1>1, <1>3, <1>4
  <2>2. registrations' = [u \in Accounts |-> registrations'[u]]
    BY <1>1 DEF Release
  <2> QED
    BY <2>1, <2>2, <1>6
<1>8. \A i \in Invites : Occupied(i)' \subseteq Occupied(i)
  BY <1>6 DEF Occupied
<1>9. InviteCapacity'
  BY <1>8, PlacesKept
<1>10. /\ actionTokens' \in Seq(ActionToken) /\ Len(actionTokens') <= AccountTokens
       /\ Len(actionTokens) <= Len(actionTokens')
  BY <1>1, TokensWithout
<1>11. ASSUME NEW q \in AccountRequests, q # r PROVE AskOK(q)'
  <2>1. asks'[q] = asks[q] /\ AskOK(q)
    BY <1>1, <1>3, <1>11 DEF Done, AccountInv
  <2>2. \A u \in Accounts : users[u].status # "unborn" => users'[u].status # "unborn"
    BY <1>4, <1>5
  <2>3. asks[q].pc \in {"register", "reserved"} => users'[asks[q].user].status = "unborn"
    BY <2>1, <1>1, <1>5 DEF AskOK
  <2>4. asks[q].pc = "admin" =>
           users'[asks[q].user].status \in {"pending", "active", "suspended"}
    BY <2>1, <1>1, <1>2, <1>5 DEF AskOK, Exists, UserLocked
  <2>5. asks[q].pc = "reserved" => Occupied(asks[q].invite)' \subseteq Occupied(asks[q].invite)
    BY <2>1, <1>8 DEF AskOK, Occupied
  <2>6. Len(actionTokens') \in Nat
    BY <1>10
  <2> QED
    BY <2>1, <2>2, <2>3, <2>4, <2>5, <2>6, <1>10, AskCarried
<1>12. PendingHasUser'
  BY <1>5, <1>6 DEF AccountInv, PendingHasUser, Exists
<1>13. VerifiedWasProved'
  BY <1>1, <1>4, <1>5 DEF AccountInv, VerifiedWasProved, Exists
<1>14. UNCHANGED <<invites, accountNow>> /\ proved' \subseteq Accounts \X Mailboxes
  BY <1>1, <1>3
<1> QED
  BY <1>1, <1>7, <1>9, <1>10, <1>11, <1>12, <1>13, <1>14, EndsWell

-----------------------------------------------------------------------------
(* Steps that are one transaction *)

\* They leave every request as it is.
LEMMA NoEntry ==
    ASSUME AccountInv, UNCHANGED <<asks, asked>>,
           users' \in [Accounts -> User], registrations' = registrations,
           invites' \in [Invites -> Invite], accountNow' \in 0 .. AccountsEnd,
           actionTokens' \in Seq(ActionToken), Len(actionTokens') <= AccountTokens,
           Len(actionTokens) <= Len(actionTokens'), proved' = proved,
           \A u \in Accounts : \/ users'[u] = users[u]
                               \/ /\ users'[u].status # "unborn" /\ ~users'[u].verified
                                  /\ users[u].status = "unborn"
                                  /\ \A q \in AccountRequests : asks[q].user # u
    PROVE  AccountInv'
<1>1. ASSUME NEW q \in AccountRequests PROVE AskOK(q)'
  <2>1. AskOK(q) /\ asks'[q] = asks[q]
    BY DEF AccountInv
  <2>2. Occupied(asks[q].invite)' = Occupied(asks[q].invite)
    BY DEF Occupied
  <2>3. asks[q].pc \in {"register", "reserved"} => users'[asks[q].user].status = "unborn"
    BY <2>1 DEF AskOK
  <2>4. asks[q].pc = "admin" =>
           users'[asks[q].user].status \in {"pending", "active", "suspended"}
    BY <2>1 DEF AskOK, Exists
  <2>5. \A u \in Accounts : users[u].status # "unborn" => users'[u].status # "unborn"
    OBVIOUS
  <2>6. Len(actionTokens') \in Nat
    OBVIOUS
  <2> QED
    BY <2>1, <2>2, <2>3, <2>4, <2>5, <2>6, AskCarried
<1>2. \A r, q \in AccountRequests : r # q => AsksApart(r, q)'
  BY DEF AccountInv, AsksApart
<1>3. InviteCapacity'
  BY DEF AccountInv, InviteCapacity, Occupied
<1>4. PendingHasUser'
  BY DEF AccountInv, PendingHasUser, Exists
<1>5. VerifiedWasProved'
  BY DEF AccountInv, VerifiedWasProved, Exists
<1>6. AccountTypeOK'
  BY DEF AccountInv, AccountTypeOK
<1> QED
  BY <1>1, <1>2, <1>3, <1>4, <1>5, <1>6 DEF AccountInv

LEMMA TransactionsInv ==
    ASSUME AccountInv,
           \/ \E i \in Invites : HandleCreateInvite(i) \/ HandleRevokeInvite(i)
           \/ \E u \in Accounts, e \in Mailboxes \cup {NoMailbox} : HandleCreateUser(u, e)
           \/ ExpireActionTokens \/ AccountTick \/ UNCHANGED accountVars
    PROVE  AccountInv'
<1>1. /\ AccountTypeOK /\ users \in [Accounts -> User] /\ invites \in [Invites -> Invite]
      /\ accountNow \in 0 .. AccountsEnd /\ accountNow \in Nat /\ AccountsEnd \in Nat
      /\ actionTokens \in Seq(ActionToken) /\ Len(actionTokens) <= AccountTokens
      /\ Len(actionTokens) <= Len(actionTokens)
  BY Instant, AccountAssumptions DEF AccountInv, AccountTypeOK
<1>2. ASSUME NEW i \in Invites, HandleCreateInvite(i) \/ HandleRevokeInvite(i) PROVE AccountInv'
  <2>1. UNCHANGED <<users, registrations, actionTokens, asks, asked, accountNow, proved>>
    BY <1>2 DEF HandleCreateInvite, HandleRevokeInvite
  <2>2. accountNow + InviteTTL \in Nat
    BY <1>1, AccountAssumptions
  <2>3. invites' \in [Invites -> Invite]
    BY <1>1, <1>2, <2>2 DEF HandleCreateInvite, HandleRevokeInvite, CreateInvite, RevokeInvite, Invite
  <2> QED
    BY <1>1, <2>1, <2>3, NoEntry
<1>3. ASSUME NEW u \in Accounts, NEW e \in Mailboxes \cup {NoMailbox}, HandleCreateUser(u, e)
      PROVE  AccountInv'
  <2> DEFINE row == [Unborn EXCEPT !.status = "active", !.role = "user", !.email = e]
  <2>1. /\ UNCHANGED <<registrations, invites, actionTokens, asks, asked, accountNow, proved>>
        /\ users' = [users EXCEPT ![u] = row] /\ users[u].status = "unborn"
        /\ \A q \in AccountRequests : asks[q].user # u
    BY <1>3 DEF HandleCreateUser, CreateAdmin, InsertUser, NewId
  <2>2. row \in User /\ row.status = "active" /\ ~row.verified
    BY DEF User, Unborn
  <2> HIDE DEF row
  <2>3. users' \in [Accounts -> User] /\ users'[u] = row
        /\ \A v \in Accounts : v # u => users'[v] = users[v]
    BY <1>1, <2>1, <2>2
  <2> QED
    BY <1>1, <2>1, <2>2, <2>3, NoEntry
<1>4. CASE ExpireActionTokens
  <2> DEFINE over == {t \in Tokens : actionTokens[t].state = "usable"
                                     /\ actionTokens[t].expires <= accountNow}
             f == [t \in Tokens |-> IF t \in over
                                    THEN [actionTokens[t] EXCEPT !.state = "revoked"]
                                    ELSE actionTokens[t]]
  <2>1. actionTokens' = f /\ UNCHANGED <<users, registrations, invites, asks, asked, accountNow, proved>>
    BY <1>4 DEF ExpireActionTokens
  <2>2. /\ f = [x \in Tokens |-> f[x]]
        /\ \A x \in Tokens : \/ f[x] = actionTokens[x]
                             \/ f[x] = [actionTokens[x] EXCEPT !.state = "revoked"]
                             \/ f[x] = [actionTokens[x] EXCEPT !.state = "consumed"]
    OBVIOUS
  <2> HIDE DEF f
  <2>3. f \in Seq(ActionToken) /\ Len(f) = Len(actionTokens)
    BY <1>1, <2>2, TokensMarked
  <2> QED
    BY <1>1, <2>1, <2>3, NoEntry
<1>5. CASE AccountTick
  <2>1. accountNow' \in 0 .. AccountsEnd
    BY <1>1, <1>5 DEF AccountTick
  <2> QED
    BY <1>1, <1>5, <2>1, NoEntry DEF AccountTick
<1>6. CASE UNCHANGED accountVars
  BY <1>1, <1>6, NoEntry DEF accountVars
<1> QED
  BY <1>2, <1>3, <1>4, <1>5, <1>6

-----------------------------------------------------------------------------
(* The first result *)

LEMMA AccountInitInv == ASSUME AccountInit PROVE AccountInv
<1>1. Unborn \in User /\ Unborn.status = "unborn"
  BY DEF Unborn, User
<1>2. NoRegistration \in Registration /\ NoRegistration.status = "none"
  BY DEF NoRegistration, Registration
<1>3. NoAsk \in Ask /\ NoAsk.pc = "idle"
  BY IdleAskOK DEF NoAsk
<1>4. actionTokens \in Seq(ActionToken) /\ Len(actionTokens) = 0
  BY DEF AccountInit
<1>5. [expires |-> 0, revoked |-> FALSE] \in Invite
  BY DEF Invite
<1>6. AccountTypeOK
  BY <1>1, <1>2, <1>3, <1>4, <1>5, AccountAssumptions DEF AccountInit, AccountTypeOK
<1>7. \A r \in AccountRequests : AskOK(r)
  BY <1>3 DEF AccountInit, AskOK
<1>8. \A r, q \in AccountRequests : r # q => AsksApart(r, q)
  BY <1>3 DEF AccountInit, AsksApart
<1>9. InviteCapacity
  <2>1. \A i \in Invites : Occupied(i) = {}
    BY <1>2 DEF AccountInit, Occupied
  <2> QED
    BY <2>1, FS_EmptySet, AccountAssumptions DEF InviteCapacity
<1>10. PendingHasUser /\ VerifiedWasProved
  BY <1>1, <1>2 DEF AccountInit, PendingHasUser, VerifiedWasProved, Exists
<1> QED
  BY <1>6, <1>7, <1>8, <1>9, <1>10 DEF AccountInv

LEMMA AccountNextInv ==
    ASSUME AccountInv, [AccountNext]_accountVars
    PROVE  AccountInv'
<1>1. ASSUME NEW r \in AccountRequests, AccountRequestStep(r) PROVE AccountInv'
  <2>1. ASSUME NEW u \in Accounts, NEW e \in Mailboxes, NEW i \in Invites \cup {NoInvite},
               NEW v \in BOOLEAN, HandleRegister(r, u, e, i, v)
        PROVE  AccountInv'
    BY <2>1, HandleRegisterInv
  <2>2. CASE ReserveInvite(r)
    BY <2>2, ReserveInviteInv
  <2>3. CASE CreateRegistration(r)
    BY <2>3, CreateRegistrationInv
  <2>4. ASSUME NEW u \in Accounts,
               \/ HandleRequestPasswordReset(r, u)
               \/ HandleRequestEmailVerification(r, u)
               \/ HandleResendPendingEmailVerification(r, u)
               \/ \E e \in Mailboxes : HandleRequestEmailChange(r, u, e)
        PROVE  AccountInv'
    BY <2>4, RequestsInv
  <2>5. CASE CreateActionEmail(r) \/ ReplacePendingVerification(r)
    BY <2>5, NewTokensInv
  <2>6. ASSUME NEW t \in Tokens,
               \/ HandleConfirmPasswordReset(r, t)
               \/ HandleConfirmEmailVerification(r, t)
               \/ HandleConfirmEmailChange(r, t)
        PROVE  AccountInv'
    BY <2>6, LoadActionInv DEF HandleConfirmPasswordReset, HandleConfirmEmailVerification,
                               HandleConfirmEmailChange
  <2>7. CASE ConfirmPasswordReset(r)
    BY <2>7, ConfirmPasswordResetInv
  <2>8. CASE ConfirmEmailVerification(r)
    BY <2>8, ConfirmEmailVerificationInv
  <2>9. CASE ConfirmEmailChange(r)
    BY <2>9, ConfirmEmailChangeInv
  <2>10. CASE BootstrapInitialAdmin(r) \/ CleanupExpired(r)
    BY <2>10, BackgroundInv
  <2>11. ASSUME NEW u \in Accounts, BootstrapAdmin(r, u) PROVE AccountInv'
    BY <2>11, BootstrapAdminInv
  <2>12. ASSUME NEW u \in Accounts,
                \/ \E c \in {"suspend", "activate"} : HandleUserStatus(r, u, c)
                \/ \E c \in {"promote", "demote"} : HandleUpdateUserRole(r, u, c)
                \/ \E e \in Mailboxes \cup {NoMailbox} : HandleAdminUpdateUser(r, u, e)
                \/ HandleDelete(r, u)
         PROVE  AccountInv'
    BY <2>12, LockInv DEF HandleUserStatus, HandleUpdateUserRole, HandleAdminUpdateUser,
                          HandleDelete
  <2>13. CASE UpdateAdmin(r)
    BY <2>13, UpdateAdminInv
  <2>14. CASE DeleteUser(r)
    BY <2>14, DeleteUserInv
  <2>15. CASE CleanupRegistrations(r)
    BY <2>15, CleanupRegistrationsInv
  <2>16. CASE Refused(r)
    BY <2>16, RefusedInv
  <2> QED
    BY <1>1, <2>1, <2>2, <2>3, <2>4, <2>5, <2>6, <2>7, <2>8, <2>9, <2>10, <2>11, <2>12, <2>13,
       <2>14, <2>15, <2>16 DEF AccountRequestStep
<1> QED
  BY <1>1, TransactionsInv DEF AccountNext

\* However registrations, confirmations, administrators' changes and the
\* clean-up overlap, no invitation admits more than max_uses accounts, no
\* pending registration is without its account, and an address counts as
\* verified only for the account whose token was confirmed from it.
THEOREM AccountsStaySound == AccountSpec => []AccountsSound
<1>1. AccountInit => AccountInv
  BY AccountInitInv
<1>2. AccountInv /\ [AccountNext]_accountVars => AccountInv'
  BY AccountNextInv
<1>3. AccountInv => AccountsSound
  BY DEF AccountInv, AccountsSound
<1> QED
  BY <1>1, <1>2, <1>3, PTL DEF AccountSpec

-----------------------------------------------------------------------------
(* Administrators.  An account that was suspended while it waited keeps    *)
(* its pending registration, and the clean-up may take it when it is       *)
(* active, an administrator's too: until then one remains.                 *)

\* A step in which no active administrator is lost, and which leaves the row an
\* administrator has locked as it is, keeps what was checked under the lock.
LEMMA AdminsKept ==
    ASSUME AccountInv, AdminInv,
           \A q \in AccountRequests : asks'[q].pc = "admin" =>
             asks'[q] = asks[q] /\ users'[asks[q].user] = users[asks[q].user],
           \A u \in Accounts : users[u].status = "active" /\ users[u].role = "admin" =>
             users'[u].status = "active" /\ users'[u].role = "admin",
           Serving' => Serving \/ ActiveAdmins' # {}, UNCHANGED stranded,
           \A u \in Accounts : users[u].status = "deleted" => users'[u].status = "deleted",
           PendingWaits'
    PROVE  AdminInv'
<1>0. Swept => Swept'
  BY DEF Swept, AdminInv
<1>1. ActiveAdmins \subseteq ActiveAdmins'
  BY DEF ActiveAdmins, ActiveAdmin
<1>2. AdminRemains'
  BY <1>0, <1>1 DEF AdminInv, AdminRemains
<1>3. ASSUME NEW q \in AccountRequests PROVE ChecksHold(q)'
  BY <1>0, <1>1 DEF AdminInv, ChecksHold, RemovesActiveAdmin, ActiveAdmin
<1> QED
  BY <1>2, <1>3 DEF AdminInv

\* Steps that write no account and no registration.
LEMMA AccountsUntouched ==
    ASSUME AccountInv, AdminInv, UNCHANGED <<users, registrations, stranded>>,
           \A q \in AccountRequests : asks'[q].pc = "admin" => asks'[q] = asks[q]
    PROVE  AdminInv'
<1>1. PendingWaits' /\ (Serving' => Serving)
  BY DEF AdminInv, PendingWaits, Serving
<1> QED
  BY <1>1, AdminsKept

\* A request that ends or is not an administrator's holds no lock.
LEMMA EntriesOf ==
    ASSUME AccountInv, NEW r \in AccountRequests, NEW a, a.pc # "admin",
           asks' = [asks EXCEPT ![r] = a]
    PROVE  \A q \in AccountRequests :
             /\ asks'[q].pc = "admin" => q # r
             /\ q # r => asks'[q] = asks[q]
BY DEF AccountInv, AccountTypeOK

LEMMA EndedEntry ==
    ASSUME AccountInv, NEW r \in AccountRequests, Done(r)
    PROVE  \A q \in AccountRequests : /\ asks'[q].pc = "admin" => q # r
                                      /\ q # r => asks'[q] = asks[q]
BY EntriesOf DEF Done, NoAsk

\* A removal is checked against the administrators there are: another one is left.
LEMMA LockChecks ==
    ASSUME AccountInv, AdminInv, NEW r \in AccountRequests, NEW u \in Accounts,
           NEW change, NEW e, LockForAdminChange(r, u, change, e)
    PROVE  AdminInv'
<1> DEFINE a == [NoAsk EXCEPT !.pc = "admin", !.user = u, !.change = change, !.email = e]
<1>1. a.pc = "admin" /\ a.user = u /\ a.change = change
  BY DEF NoAsk
<1>2. /\ asks' = [asks EXCEPT ![r] = a] /\ UNCHANGED <<users, registrations, stranded>>
      /\ RemovesActiveAdmin(u, change) => Cardinality(ActiveAdmins) > 1
  BY DEF LockForAdminChange, Hold
<1> HIDE DEF a
<1>3. asks'[r] = a /\ \A q \in AccountRequests : q # r => asks'[q] = asks[q]
  BY <1>2 DEF AccountInv, AccountTypeOK
<1>4. RemovesActiveAdmin(u, change) => \E v \in ActiveAdmins : v # u
  <2>1. SUFFICES ASSUME RemovesActiveAdmin(u, change), ~\E v \in ActiveAdmins : v # u
                 PROVE  FALSE
    OBVIOUS
  <2>2. ActiveAdmins = {u}
    BY <2>1 DEF RemovesActiveAdmin, ActiveAdmins
  <2>3. Cardinality({u}) = 1
    BY FS_Singleton
  <2> QED
    BY <1>2, <2>1, <2>2, <2>3
<1>5. ASSUME NEW q \in AccountRequests PROVE ChecksHold(q)'
  <2>1. ActiveAdmins' = ActiveAdmins /\ Swept' = Swept
    BY <1>2 DEF ActiveAdmins, ActiveAdmin, Swept
  <2>2. CASE q = r
    BY <2>1, <2>2, <1>1, <1>2, <1>3, <1>4 DEF ChecksHold, RemovesActiveAdmin, ActiveAdmin
  <2>3. CASE q # r
    BY <2>1, <2>3, <1>2, <1>3 DEF AdminInv, ChecksHold, RemovesActiveAdmin, ActiveAdmin
  <2> QED
    BY <2>2, <2>3
<1>6. PendingWaits' /\ AdminRemains' /\ (stranded \subseteq Accounts)'
  BY <1>2 DEF AdminInv, PendingWaits, AdminRemains, Swept, Serving, ActiveAdmins, ActiveAdmin
<1> QED
  BY <1>5, <1>6 DEF AdminInv

LEMMA AdminStepsChecked ==
    ASSUME AccountInv, AdminInv, NEW r \in AccountRequests, NEW u \in Accounts,
           \/ \E c \in {"suspend", "activate"} : HandleUserStatus(r, u, c)
           \/ \E c \in {"promote", "demote"} : HandleUpdateUserRole(r, u, c)
           \/ \E e \in Mailboxes \cup {NoMailbox} : HandleAdminUpdateUser(r, u, e)
           \/ HandleDelete(r, u)
    PROVE  AdminInv'
BY LockChecks DEF HandleUserStatus, HandleUpdateUserRole, HandleAdminUpdateUser, HandleDelete

\* An account made by a registration is no administrator's, and waits with it.
LEMMA RegistrationKeepsAdmins ==
    ASSUME AccountInv, AdminInv, NEW r \in AccountRequests, CreateRegistration(r)
    PROVE  AdminInv'
<1> DEFINE u == asks[r].user
           row == [Unborn EXCEPT !.status = PreparedStatus(asks[r]), !.role = "user",
                                 !.email = asks[r].email]
           reg == [status |-> IF asks[r].verify THEN "pending" ELSE "completed",
                   invite |-> asks[r].invite, expires |-> asks[r].at + PendingTTL]
<1>1. /\ Done(r) /\ users' = [users EXCEPT ![u] = row]
      /\ registrations' = [registrations EXCEPT ![u] = reg]
      /\ asks[r].pc \in {"register", "reserved"} /\ UNCHANGED stranded
  BY DEF CreateRegistration, InsertUser, InsertRegistration
<1>2. u \in Accounts /\ users[u].status = "unborn" /\ Serving
  BY <1>1 DEF AccountInv, AskOK
<1>3. reg.status = "pending" => row.status = "pending"
  BY DEF PreparedStatus, Unborn
<1> HIDE DEF row, reg
<1>4. /\ users'[u] = row /\ registrations'[u] = reg
      /\ \A v \in Accounts : v # u => users'[v] = users[v] /\ registrations'[v] = registrations[v]
  BY <1>1, <1>2 DEF AccountInv, AccountTypeOK
<1>5. PendingWaits'
  BY <1>1, <1>3, <1>4 DEF AdminInv, PendingWaits
<1>6. \A q \in AccountRequests : asks'[q].pc = "admin" =>
             asks'[q] = asks[q] /\ users'[asks[q].user] = users[asks[q].user]
  BY <1>1, <1>2, <1>4, EndedEntry DEF AccountInv, AskOK, Exists
<1>7. \A v \in Accounts : users[v].status = "active" /\ users[v].role = "admin" =>
             users'[v].status = "active" /\ users'[v].role = "admin"
  BY <1>2, <1>4
<1>8. \A v \in Accounts : users[v].status = "deleted" => users'[v].status = "deleted"
  BY <1>2, <1>4
<1> QED
  BY <1>1, <1>2, <1>5, <1>6, <1>7, <1>8, AdminsKept

\* A confirmation waits for an administrator's lock, and takes nobody's role.
LEMMA ConfirmationKeepsAdmins ==
    ASSUME AccountInv, AdminInv, NEW r \in AccountRequests,
           ConfirmEmailVerification(r) \/ ConfirmEmailChange(r)
    PROVE  AdminInv'
<1> DEFINE u == Presented(r).user
<1>1. u \in Accounts
  BY TokenPresented DEF ConfirmEmailVerification, ConfirmEmailChange, Confirms
<1>2. Done(r) /\ ~UserLocked(u) /\ users[u].status \in {"active", "pending"} /\ UNCHANGED stranded
  BY DEF ConfirmEmailVerification, ConfirmEmailChange, ConsumeEmailVerification,
         ConsumeEmailChange, ConsumeAction, Presented
<1>3. users \in [Accounts -> User] /\ registrations \in [Accounts -> Registration]
      /\ users[u] \in User /\ registrations[u] \in Registration
  BY <1>1 DEF AccountInv, AccountTypeOK
<1>4. /\ users'[u].status = "active" /\ users'[u].role = users[u].role
      /\ \A v \in Accounts : v # u => users'[v] = users[v] /\ registrations'[v] = registrations[v]
      /\ registrations'[u].status = "pending" => users[u].status # "pending" /\ registrations[u].status = "pending"
  <2>1. CASE ConfirmEmailVerification(r)
    <3>1. /\ users' = [users EXCEPT ![u].verified = TRUE, ![u].status = "active"]
          /\ IF users[u].status = "pending"
             THEN registrations' = [registrations EXCEPT ![u].status = "completed"]
             ELSE registrations' = registrations
      BY <2>1 DEF ConfirmEmailVerification, ConsumeEmailVerification, CompleteForUser
    <3> HIDE DEF u
    <3> QED
      BY <3>1, <1>1, <1>3 DEF User, Registration
  <2>2. CASE ConfirmEmailChange(r)
    <3>1. /\ users' = [users EXCEPT ![u] = [@ EXCEPT !.email = Presented(r).email, !.verified = TRUE]]
          /\ registrations' = registrations /\ users[u].status = "active"
      BY <2>2 DEF ConfirmEmailChange, ConsumeEmailChange
    <3> HIDE DEF u
    <3> QED
      BY <3>1, <1>1, <1>3 DEF User
  <2> QED
    BY <2>1, <2>2
<1> HIDE DEF u
<1>5. PendingWaits'
  BY <1>1, <1>2, <1>4 DEF AdminInv, PendingWaits
<1>6. \A q \in AccountRequests : asks'[q].pc = "admin" =>
             asks'[q] = asks[q] /\ users'[asks[q].user] = users[asks[q].user]
  BY <1>2, <1>4, EndedEntry DEF AccountInv, AskOK, UserLocked
<1>7. \A v \in Accounts : users[v].status = "active" /\ users[v].role = "admin" =>
             users'[v].status = "active" /\ users'[v].role = "admin"
  BY <1>1, <1>4
<1>8. Serving
  BY <1>1, <1>2 DEF Serving
<1>9. \A v \in Accounts : users[v].status = "deleted" => users'[v].status = "deleted"
  BY <1>1, <1>2, <1>4
<1> QED
  BY <1>2, <1>5, <1>6, <1>7, <1>8, <1>9, AdminsKept

\* After an administrator's own write nobody holds the lock; what remains to
\* show is that an administrator is left and no registration waits alone.
LEMMA LockReleased ==
    ASSUME AccountInv, AdminInv, NEW r \in AccountRequests, asks[r].pc = "admin", Done(r),
           PendingWaits', ActiveAdmins' # {} \/ Swept', (stranded \subseteq Accounts)'
    PROVE  AdminInv'
<1>1. \A q \in AccountRequests : asks'[q].pc # "admin"
  BY EndedEntry DEF AccountInv, AsksApart
<1> QED
  BY <1>1 DEF AdminInv, ChecksHold, AdminRemains

LEMMA SomeAdmin ==
    ASSUME AccountInv, AdminInv, NEW r \in AccountRequests, asks[r].pc = "admin"
    PROVE  asks[r].user \in Accounts /\ (Swept \/ \E v \in Accounts : ActiveAdmin(v))
<1>1. asks[r].user \in Accounts /\ Exists(asks[r].user)
  BY DEF AccountInv, AskOK
<1>2. Serving
  BY <1>1 DEF Serving, Exists
<1> QED
  BY <1>1, <1>2 DEF AdminInv, AdminRemains, ActiveAdmins

\* What an administrator's change does to standing and role.
LEMMA AdminRowStanding ==
    ASSUME NEW row \in User,
           NEW change \in {"suspend", "activate", "promote", "demote", "address"}, NEW e
    PROVE  LET new == AdminRow(row, change, e) IN
           /\ new.status = "pending" => row.status = "pending"
           /\ new.status # row.status => change \in {"suspend", "activate"}
           /\ change = "activate" => new.status = "active"
           /\ row.status = "active" /\ row.role = "admin" /\ change \notin {"suspend", "demote"}
                => new.status = "active" /\ new.role = "admin"
BY DEF AdminRow, User

LEMMA UpdateKeepsAdmins ==
    ASSUME AccountInv, AdminInv, NEW r \in AccountRequests, UpdateAdmin(r)
    PROVE  AdminInv'
<1> DEFINE u == asks[r].user
           row == AdminRow(users[u], asks[r].change, asks[r].email)
           done == /\ asks[r].change = "activate" /\ users[u].status = "pending"
                   /\ registrations[u].status = "pending"
<1>1. /\ asks[r].pc = "admin" /\ Done(r) /\ users' = [users EXCEPT ![u] = row]
      /\ asks[r].change # "delete"
      /\ registrations' = IF done THEN [registrations EXCEPT ![u].status = "completed"]
                          ELSE registrations
      /\ stranded' = IF asks[r].change = "suspend" /\ users[u].status = "pending"
                        THEN stranded \cup {u} ELSE stranded
  BY DEF UpdateAdmin, CompleteForUser
<1>2. u \in Accounts /\ asks[r].change # "none" /\ asks[r] \in Ask /\ Exists(u)
  BY <1>1 DEF AccountInv, AccountTypeOK, AskOK
<1>3. asks[r].change \in {"suspend", "activate", "promote", "demote", "address"}
  BY <1>1, <1>2 DEF Ask
<1>4. users[u] \in User /\ registrations \in [Accounts -> Registration]
      /\ registrations[u] \in Registration /\ users \in [Accounts -> User]
  BY <1>2 DEF AccountInv, AccountTypeOK
<1>5. /\ row.status # users[u].status => asks[r].change \in {"suspend", "activate"}
      /\ users[u].status = "active" /\ users[u].role = "admin" /\ asks[r].change \notin {"suspend", "demote"}
           => row.status = "active" /\ row.role = "admin"
  BY <1>3, <1>4, AdminRowStanding
<1> HIDE DEF row
<1>6. users'[u] = row /\ \A v \in Accounts : v # u => users'[v] = users[v]
  BY <1>1, <1>2, <1>4
<1>7. /\ registrations'[u].status = "pending" => ~done /\ registrations[u].status = "pending"
      /\ \A v \in Accounts : v # u => registrations'[v] = registrations[v]
  BY <1>1, <1>2, <1>4 DEF Registration
<1>8. ChecksHold(r)
  BY DEF AdminInv
<1>9. PendingWaits' /\ (stranded \subseteq Accounts)'
  <2>1. registrations'[u].status = "pending" => row.status = "pending" \/ u \in stranded'
    <3>1. SUFFICES ASSUME registrations[u].status = "pending", ~done, u \notin stranded' PROVE row.status = "pending"
      BY <1>7
    <3>2. users[u].status = "pending"
      BY <3>1, <1>1, <1>2 DEF AdminInv, PendingWaits
    <3>3. asks[r].change \notin {"suspend", "activate"}
      BY <3>1, <3>2, <1>1
    <3> QED
      BY <3>2, <3>3, <1>5
  <2> QED
    BY <2>1, <1>1, <1>2, <1>6, <1>7 DEF AdminInv, PendingWaits
<1>11. Swept => Swept'
  BY <1>1, <1>2, <1>6 DEF Swept, AdminInv, Exists
<1>10. ActiveAdmins' # {} \/ Swept'
  <2> SUFFICES ASSUME ~Swept PROVE ActiveAdmins' # {}
    BY <1>11
  <2>1. CASE RemovesActiveAdmin(u, asks[r].change)
    <3>1. PICK v \in ActiveAdmins : v # u
      BY <2>1, <1>1, <1>8 DEF ChecksHold
    <3> QED
      BY <3>1, <1>6 DEF ActiveAdmins, ActiveAdmin
  <2>2. CASE ~RemovesActiveAdmin(u, asks[r].change)
    <3>1. PICK v \in Accounts : ActiveAdmin(v)
      BY <1>1, SomeAdmin
    <3>2. CASE v = u
      <4>1. row.status = "active" /\ row.role = "admin"
        BY <3>1, <3>2, <2>2, <1>5 DEF RemovesActiveAdmin, ActiveAdmin
      <4> QED
        BY <4>1, <1>2, <1>6 DEF ActiveAdmins, ActiveAdmin
    <3>3. CASE v # u
      BY <3>1, <3>3, <1>6 DEF ActiveAdmins, ActiveAdmin
    <3> QED
      BY <3>2, <3>3
  <2> QED
    BY <2>1, <2>2
<1> QED
  BY <1>1, <1>9, <1>10, LockReleased

LEMMA DeleteKeepsAdmins ==
    ASSUME AccountInv, AdminInv, NEW r \in AccountRequests, DeleteUser(r)
    PROVE  AdminInv'
<1> DEFINE u == asks[r].user
<1>1. /\ asks[r].pc = "admin" /\ asks[r].change = "delete" /\ Done(r)
      /\ users' = [users EXCEPT ![u] = Deleted] /\ registrations' = Release({u})
      /\ stranded' = stranded \ {u}
  BY DEF DeleteUser
<1>2. /\ users \in [Accounts -> User] /\ registrations \in [Accounts -> Registration]
      /\ u \in Accounts /\ Exists(u)
  BY <1>1 DEF AccountInv, AccountTypeOK, AskOK
<1>3. \A v \in Accounts : v # u => users'[v] = users[v] /\ registrations'[v] = registrations[v]
  BY <1>1, <1>2 DEF Release
<1>4. registrations'[u].status # "pending"
  BY <1>1, <1>2 DEF Release, Registration
<1>5. PendingWaits' /\ (stranded \subseteq Accounts)'
  BY <1>1, <1>3, <1>4 DEF AdminInv, PendingWaits
<1>8. Swept => Swept'
  BY <1>1, <1>2, <1>3 DEF Swept, AdminInv, Exists
<1>6. ~Swept => \E v \in Accounts : v # u /\ ActiveAdmin(v)
  <2> HAVE ~Swept
  <2>1. PICK v \in Accounts : ActiveAdmin(v)
    BY <1>1, SomeAdmin
  <2>2. CASE v = u
    <3>1. RemovesActiveAdmin(u, "delete")
      BY <2>1, <2>2 DEF RemovesActiveAdmin
    <3>2. \E x \in ActiveAdmins : x # u
      BY <3>1, <1>1 DEF AdminInv, ChecksHold
    <3> QED
      BY <3>2 DEF ActiveAdmins
  <2> QED
    BY <2>1, <2>2
<1>7. ActiveAdmins' # {} \/ Swept'
  BY <1>3, <1>6, <1>8 DEF ActiveAdmins, ActiveAdmin
<1> QED
  BY <1>1, <1>5, <1>7, LockReleased

\* Whom the clean-up removes was waiting, or had been suspended while it waited.
LEMMA CleanupTakesPending ==
    ASSUME AccountInv, AdminInv, NEW r \in AccountRequests, CleanupRegistrations(r)
    PROVE  /\ \A u \in Accounts \ stranded : users[u].status # "pending" => users'[u] = users[u]
           /\ AdminInv'
<1> DEFINE gone == Removed(r)
<1>1. /\ Done(r) /\ registrations' = Release(gone) /\ UNCHANGED stranded
      /\ users' = [u \in Accounts |-> IF u \in gone THEN Deleted ELSE users[u]]
      /\ \A u \in asks[r].candidates : ~UserLocked(u)
  BY DEF CleanupRegistrations, Removed
<1>2. \A u \in gone : u \in Accounts /\ u \in asks[r].candidates /\ registrations[u].status = "pending"
  BY DEF Removed, Expired
<1>3. \A u \in gone : users[u].status = "pending" \/ u \in stranded
  BY <1>2 DEF AdminInv, PendingWaits
<1> HIDE DEF gone
<1>4. registrations \in [Accounts -> Registration] /\ Deleted.status = "deleted"
  BY DEF AccountInv, AccountTypeOK, Deleted, Unborn
<1>5. \A u \in Accounts \ stranded : users[u].status # "pending" => users'[u] = users[u]
  BY <1>1, <1>3
<1>6. \A u \in Accounts : /\ u \notin gone => users'[u] = users[u] /\ registrations'[u] = registrations[u]
                          /\ u \in gone => registrations'[u].status # "pending" /\ users'[u].status = "deleted"
  BY <1>1, <1>2, <1>4 DEF Release, Registration
<1>7. PendingWaits' /\ (stranded \subseteq Accounts)'
  BY <1>1, <1>6 DEF AdminInv, PendingWaits
<1>8. CASE gone \cap stranded # {}
  <2>1. Swept'
    BY <1>1, <1>2, <1>6, <1>8 DEF Swept
  <2>2. AdminInv'
    BY <1>7, <2>1 DEF AdminInv, AdminRemains, ChecksHold
  <2> QED
    BY <1>5, <2>2
<1>9. CASE gone \cap stranded = {}
  <2>1. \A q \in AccountRequests : asks'[q].pc = "admin" =>
               asks'[q] = asks[q] /\ users'[asks[q].user] = users[asks[q].user]
    BY <1>1, <1>2, <1>6, EndedEntry DEF AccountInv, AskOK, UserLocked
  <2>2. \A v \in Accounts : users[v].status # "pending" => users'[v] = users[v]
    BY <1>3, <1>6, <1>9
  <2>3. Serving' => Serving
    <3>1. \A u \in Accounts : users'[u].status # "unborn" => users[u].status # "unborn"
      BY <1>3, <1>6, <1>9
    <3> QED
      BY <3>1 DEF Serving
  <2>4. AdminInv'
    BY <1>1, <1>7, <2>1, <2>2, <2>3, AdminsKept
  <2> QED
    BY <1>5, <2>4
<1> QED
  BY <1>8, <1>9

\* A fresh account replaces nobody.
LEMMA FreshKeepsAdmins ==
    ASSUME AccountInv, AdminInv, NEW u \in Accounts, users[u].status = "unborn",
           NEW row, users' = [users EXCEPT ![u] = row], UNCHANGED <<registrations, stranded>>,
           \A q \in AccountRequests : asks'[q].pc = "admin" => asks'[q] = asks[q],
           \/ ActiveAdmins # {}
           \/ row.status = "active" /\ row.role = "admin"
    PROVE  AdminInv'
<1>1. users'[u] = row /\ \A v \in Accounts : v # u => users'[v] = users[v]
  BY DEF AccountInv, AccountTypeOK
<1>2. registrations[u].status # "pending"
  BY DEF AccountInv, PendingHasUser, Exists
<1>3. PendingWaits'
  BY <1>1, <1>2 DEF AdminInv, PendingWaits
<1>4. \A q \in AccountRequests : asks'[q].pc = "admin" =>
             asks'[q] = asks[q] /\ users'[asks[q].user] = users[asks[q].user]
  BY <1>1 DEF AccountInv, AskOK, Exists
<1>5. Serving \/ ActiveAdmins' # {}
  BY <1>1 DEF Serving, ActiveAdmins, ActiveAdmin
<1> QED
  BY <1>1, <1>3, <1>4, <1>5, AdminsKept

LEMMA HeldNotAdmin ==
    ASSUME AccountInv, AdminInv, NEW r \in AccountRequests, NEW a, Hold(r, a), a.pc # "admin",
           UNCHANGED <<users, registrations, stranded>>
    PROVE  AdminInv'
<1>1. asks' = [asks EXCEPT ![r] = a]
  BY DEF Hold
<1> QED
  BY <1>1, EntriesOf, AccountsUntouched

LEMMA AcceptedKeepsAdmins ==
    ASSUME AccountInv, AdminInv, NEW r \in AccountRequests,
           \/ \E u \in Accounts, e \in Mailboxes, i \in Invites \cup {NoInvite}, v \in BOOLEAN :
                HandleRegister(r, u, e, i, v)
           \/ \E u \in Accounts : \/ HandleRequestPasswordReset(r, u)
                                 \/ HandleRequestEmailVerification(r, u)
                                 \/ HandleResendPendingEmailVerification(r, u)
                                 \/ \E e \in Mailboxes : HandleRequestEmailChange(r, u, e)
           \/ \E t \in Tokens : \/ HandleConfirmPasswordReset(r, t)
                               \/ HandleConfirmEmailVerification(r, t)
                               \/ HandleConfirmEmailChange(r, t)
           \/ BootstrapInitialAdmin(r) \/ CleanupExpired(r)
    PROVE  AdminInv'
<1>1. \E a : Hold(r, a) /\ a.pc # "admin" /\ UNCHANGED <<users, registrations, stranded>>
  <2>1. CASE \E u \in Accounts, e \in Mailboxes, i \in Invites \cup {NoInvite}, v \in BOOLEAN :
               HandleRegister(r, u, e, i, v)
    BY <2>1 DEF HandleRegister, NoAsk
  <2>2. \A u, action, e, previous : AskAction(r, u, action, e, previous) =>
          \E a : Hold(r, a) /\ a.pc # "admin" /\ UNCHANGED <<users, registrations, stranded>>
    BY DEF AskAction, NoAsk
  <2>3. CASE \E u \in Accounts : \/ HandleRequestPasswordReset(r, u)
                                \/ HandleRequestEmailVerification(r, u)
                                \/ \E e \in Mailboxes : HandleRequestEmailChange(r, u, e)
    BY <2>2, <2>3 DEF HandleRequestPasswordReset, RequestPasswordReset, HandleRequestEmailVerification,
                      RequestEmailVerification, HandleRequestEmailChange, RequestEmailChange
  <2>4. CASE \E u \in Accounts : HandleResendPendingEmailVerification(r, u)
    BY <2>4 DEF HandleResendPendingEmailVerification, RequestPendingEmailVerification, NoAsk
  <2>5. CASE \E t \in Tokens : \/ HandleConfirmPasswordReset(r, t)
                              \/ HandleConfirmEmailVerification(r, t)
                              \/ HandleConfirmEmailChange(r, t)
    BY <2>5 DEF HandleConfirmPasswordReset, HandleConfirmEmailVerification, HandleConfirmEmailChange,
                LoadAction, NoAsk
  <2>6. CASE BootstrapInitialAdmin(r) \/ CleanupExpired(r)
    BY <2>6 DEF BootstrapInitialAdmin, CleanupExpired, NoAsk
  <2> QED
    BY <2>1, <2>3, <2>4, <2>5, <2>6
<1> QED
  BY <1>1, HeldNotAdmin

LEMMA AdminNextInv ==
    ASSUME AccountInv, AdminInv, [AccountNext]_accountVars
    PROVE  AdminInv'
<1>1. ASSUME NEW r \in AccountRequests, AccountRequestStep(r) PROVE AdminInv'
  <2>1. CASE \/ \E u \in Accounts, e \in Mailboxes, i \in Invites \cup {NoInvite}, v \in BOOLEAN :
                  HandleRegister(r, u, e, i, v)
             \/ \E u \in Accounts : \/ HandleRequestPasswordReset(r, u)
                                   \/ HandleRequestEmailVerification(r, u)
                                   \/ HandleResendPendingEmailVerification(r, u)
                                   \/ \E e \in Mailboxes : HandleRequestEmailChange(r, u, e)
             \/ \E t \in Tokens : \/ HandleConfirmPasswordReset(r, t)
                                 \/ HandleConfirmEmailVerification(r, t)
                                 \/ HandleConfirmEmailChange(r, t)
             \/ BootstrapInitialAdmin(r) \/ CleanupExpired(r)
    BY <2>1, AcceptedKeepsAdmins
  <2>2. CASE ReserveInvite(r)
    <3>1. /\ asks' = [asks EXCEPT ![r].pc = "reserved"] /\ UNCHANGED <<users, registrations, stranded>>
          /\ asks \in [AccountRequests -> Ask]
      BY <2>2 DEF ReserveInvite, AccountInv, AccountTypeOK
    <3>2. \A q \in AccountRequests : asks'[q].pc = "admin" => asks'[q] = asks[q]
      BY <3>1 DEF Ask
    <3> QED
      BY <3>1, <3>2, AccountsUntouched
  <2>3. CASE CreateRegistration(r)
    BY <2>3, RegistrationKeepsAdmins
  <2>4. CASE \/ CreateActionEmail(r) \/ ReplacePendingVerification(r) \/ ConfirmPasswordReset(r)
             \/ Refused(r)
    <3>1. Done(r) /\ UNCHANGED <<users, registrations, stranded>>
      BY <2>4 DEF CreateActionEmail, ReplacePendingVerification, ConfirmPasswordReset,
                  ConsumePasswordReset, ConsumeAction, Refused
    <3> QED
      BY <3>1, EndedEntry, AccountsUntouched
  <2>5. CASE ConfirmEmailVerification(r) \/ ConfirmEmailChange(r)
    BY <2>5, ConfirmationKeepsAdmins
  <2>6. ASSUME NEW u \in Accounts, BootstrapAdmin(r, u) PROVE AdminInv'
    <3> DEFINE row == [Unborn EXCEPT !.status = "active", !.role = "admin", !.email = NoMailbox]
    <3>1. /\ Done(r) /\ users' = [users EXCEPT ![u] = row] /\ UNCHANGED <<registrations, stranded>>
          /\ users[u].status = "unborn"
      BY <2>6 DEF BootstrapAdmin, InsertUser, NewId
    <3>2. row.status = "active" /\ row.role = "admin"
      BY DEF Unborn
    <3> HIDE DEF row
    <3> QED
      BY <3>1, <3>2, EndedEntry, FreshKeepsAdmins
  <2>7. ASSUME NEW u \in Accounts,
               \/ \E c \in {"suspend", "activate"} : HandleUserStatus(r, u, c)
               \/ \E c \in {"promote", "demote"} : HandleUpdateUserRole(r, u, c)
               \/ \E e \in Mailboxes \cup {NoMailbox} : HandleAdminUpdateUser(r, u, e)
               \/ HandleDelete(r, u)
        PROVE  AdminInv'
    BY <2>7, AdminStepsChecked
  <2>8. CASE UpdateAdmin(r)
    BY <2>8, UpdateKeepsAdmins
  <2>9. CASE DeleteUser(r)
    BY <2>9, DeleteKeepsAdmins
  <2>10. CASE CleanupRegistrations(r)
    BY <2>10, CleanupTakesPending
  <2> QED
    BY <1>1, <2>1, <2>2, <2>3, <2>4, <2>5, <2>6, <2>7, <2>8, <2>9, <2>10 DEF AccountRequestStep
<1>2. CASE \/ \E i \in Invites : HandleCreateInvite(i) \/ HandleRevokeInvite(i)
           \/ ExpireActionTokens \/ AccountTick \/ UNCHANGED accountVars
  <2>1. UNCHANGED <<users, registrations, asks, stranded>>
    BY <1>2 DEF HandleCreateInvite, HandleRevokeInvite, ExpireActionTokens, AccountTick, accountVars
  <2> QED
    BY <2>1, AccountsUntouched
<1>3. ASSUME NEW u \in Accounts, NEW e \in Mailboxes \cup {NoMailbox}, HandleCreateUser(u, e)
      PROVE  AdminInv'
  <2> DEFINE row == [Unborn EXCEPT !.status = "active", !.role = "user", !.email = e]
  <2>1. /\ users' = [users EXCEPT ![u] = row] /\ UNCHANGED <<registrations, asks, stranded>>
        /\ users[u].status = "unborn" /\ ActiveAdmins # {}
    BY <1>3 DEF HandleCreateUser, CreateAdmin, InsertUser, NewId, AdminOnly
  <2> HIDE DEF row
  <2> QED
    BY <2>1, FreshKeepsAdmins
<1> QED
  BY <1>1, <1>2, <1>3 DEF AccountNext

LEMMA AdminInitInv == ASSUME AccountInit PROVE AdminInv
<1>1. Unborn.status = "unborn" /\ NoRegistration.status = "none" /\ NoAsk.pc = "idle"
  BY DEF Unborn, NoRegistration, NoAsk
<1> QED
  BY <1>1 DEF AccountInit, AdminInv, ChecksHold, PendingWaits, AdminRemains, Serving

\* Suspensions, demotions and deletions never leave the system without an
\* active administrator: the advisory lock keeps the count true until the write.
\* The clean-up of CleanupExpired alone can, by deleting an account that was
\* suspended while it waited; the count no longer protects after that.
THEOREM AnAdministratorRemains == AccountSpec => []AdminRemains
<1>1. AccountInit => AccountInv /\ AdminInv
  BY AccountInitInv, AdminInitInv
<1>2. AccountInv /\ AdminInv /\ [AccountNext]_accountVars => AccountInv' /\ AdminInv'
  BY AccountNextInv, AdminNextInv
<1>3. AdminInv => AdminRemains
  BY DEF AdminInv
<1> QED
  BY <1>1, <1>2, <1>3, PTL DEF AccountSpec

\* The clean-up of registrations, however late it comes after its first look,
\* deletes an active account only if an administrator had suspended it while it
\* waited for verification: a confirmation or an activation that comes between
\* completes the registration that is checked again under the lock.
THEOREM CleanupSparesWhomItShould == AccountSpec => CleanupSparesConfirmed
<1>1. AccountInit => AccountInv /\ AdminInv
  BY AccountInitInv, AdminInitInv
<1>2. AccountInv /\ AdminInv /\ [AccountNext]_accountVars => AccountInv' /\ AdminInv'
  BY AccountNextInv, AdminNextInv
<1>3. AccountInv /\ AdminInv =>
        [\A r \in AccountRequests : CleanupRegistrations(r) =>
           \A u \in Accounts \ stranded : users[u].status = "active" => users'[u].status = "active"]_accountVars
  BY CleanupTakesPending
<1> QED
  BY <1>1, <1>2, <1>3, PTL DEF AccountSpec, CleanupSparesConfirmed
====
