------------------------------- MODULE Factors -------------------------------
(***************************************************************************)
(* The ways one account signs in, and the operations that change them: the *)
(* TOTP credential with its recovery codes, passkeys, links to external    *)
(* providers, the local password, the switch that makes a second factor    *)
(* compulsory for the account, the policy that does so for administrators, *)
(* and the operator's recovery reset.                                      *)
(*                                                                         *)
(* A transaction whose check and write rest on a lock is two steps, "lock" *)
(* and the operation; it holds its locks in between.  person.version       *)
(* stands for the pair auth_version, session_version: the code compares    *)
(* the two together everywhere.  How recent the authentication of a        *)
(* session is belongs to BrowserSession and is left open here.             *)
(***************************************************************************)
EXTENDS Naturals, FiniteSets

CONSTANTS Logins,          \* browser sessions
          NoLogin,
          Passkeys, Providers,
          NoItem,          \* no passkey and no provider
          Devices,         \* trusted devices
          Policies,        \* security settings that administrators store
          ChangeRequests,  \* management requests under way
          MaxChanges,      \* bound: management requests accepted
          LastStep         \* bound: last time step

ASSUME FactorAssumptions ==
    /\ NoLogin \notin Logins /\ NoItem \notin Passkeys \cup Providers
    /\ Passkeys \cap Providers = {} /\ MaxChanges \in Nat
    /\ LastStep \in Nat \ {0}
    /\ IsFiniteSet(Passkeys) /\ IsFiniteSet(Providers)

VARIABLES person,           \* row of table users
          factors,          \* user_totp_credentials, user_recovery_codes, user_passkey_credentials
          links,            \* identities: providers the account is linked to
          enabledProviders, \* oauth_providers.enabled
          security,         \* runtime_settings, key "security"
          cachedSecurity,   \* snapshot of the settings manager of the instance
          logins,           \* sessions: version 0 when there is none
          changes,          \* management requests under way
          changed,          \* number of them accepted
          devices,          \* user_trusted_devices: version 0 when there is none
          totpStep,         \* the clock, in time steps of TOTP
          waived            \* history: a recovery reset has left a required account without a factor
factorVars == <<person, factors, links, enabledProviders, security, cachedSecurity, logins,
                changes, changed, devices, totpStep, waived>>
policyVars == <<enabledProviders, security, cachedSecurity>>
restVars == <<devices, totpStep, waived>>

Person == [active : BOOLEAN, admin : BOOLEAN, version : Nat, loginMFA : BOOLEAN,
           password : BOOLEAN]
Login == [version : Nat, level : {1, 2}, by : {"login", "rotation"}]
NoSession == [version |-> 0, level |-> 1, by |-> "login"]
Security == [totp : BOOLEAN, passkeys : BOOLEAN, admins : BOOLEAN, trusted : BOOLEAN]
ASSUME PolicyAssumption == Policies \subseteq Security
Factor == [totp : {"none", "unconfirmed", "confirmed"}, secret : Nat, last : Nat,
           codes : SUBSET Nat, issued : Nat, passkeys : SUBSET Passkeys]

Shared == {"disable", "remove", "admin"}
Exclusive == {"settings", "reset"}
Operations == Shared \cup Exclusive
                \cup {"require", "begin", "confirm", "regenerate", "password", "unlink"}

Change == [pc : {"idle", "accepted", "locked", "rotate"}, op : Operations \cup {"none"},
           login : Logins \cup {NoLogin}, binding : Nat, secret : Nat,
           item : Passkeys \cup Providers \cup {NoItem},
           flag : BOOLEAN, active : BOOLEAN, policy : Security, scope : SUBSET {"totp", "passkeys"}]
DefaultSecurity == [totp |-> TRUE, passkeys |-> TRUE, admins |-> FALSE, trusted |-> TRUE]
NoChange == [pc |-> "idle", op |-> "none", login |-> NoLogin, binding |-> 0, secret |-> 0,
             item |-> NoItem, flag |-> FALSE, active |-> FALSE, policy |-> DefaultSecurity, scope |-> {}]

FactorTypeOK ==
    /\ person \in Person /\ factors \in Factor /\ security \in Security
    /\ cachedSecurity \in Security /\ links \subseteq Providers
    /\ enabledProviders \subseteq Providers /\ waived \in BOOLEAN
    /\ logins \in [Logins -> Login]
    /\ changes \in [ChangeRequests -> Change] /\ changed \in 0 .. MaxChanges
    /\ devices \in [Devices -> [version : Nat, live : BOOLEAN]]
    /\ totpStep \in 1 .. LastStep

\* The account has a second factor of its own.
Enrolled(f) == f.totp = "confirmed" \/ f.passkeys # {}
\* A request with this session passes the middleware.
Usable(l) == person.active /\ logins[l].version = person.version

\* Mutant: the policy is not locked against a change of what it counts.
LockSecurityNever == TRUE
LockSecurityShared ==
    \A c \in ChangeRequests : ~(changes[c].pc = "locked" /\ changes[c].op \in Exclusive)
LockSecurityExclusive ==
    \A c \in ChangeRequests :
        ~(changes[c].pc = "locked" /\ changes[c].op \in Shared \cup Exclusive)
\* SELECT ... FOR UPDATE of the row of the account.
LockUserRow == \A c \in ChangeRequests : changes[c].pc # "locked" \/ changes[c].op = "settings"
LockAuthenticationState(version) ==
    LockUserRow /\ person.active /\ person.version = version

\* Mutant: the version stays, and with it every session and every challenge.
KeepAuthVersion(p) == p
IncrementAuthVersion(p) == [p EXCEPT !.version = @ + 1]

\* What a second factor can be for this account.
LoginMethods ==
    (IF factors.totp = "confirmed"
        THEN {"totp"} \cup (IF factors.codes # {} THEN {"recovery_code"} ELSE {})
        ELSE {})
    \cup (IF factors.passkeys # {} THEN {"passkey"} ELSE {})

Accept(c, r) ==
    /\ changes[c].pc = "idle" /\ changed < MaxChanges
    /\ changes' = [changes EXCEPT ![c] = r]
    /\ changed' = changed + 1
    /\ UNCHANGED <<person, factors, links, policyVars, logins, restVars>>
AcceptFrom(c, l, r) ==
    Usable(l) /\ Accept(c, [r EXCEPT !.pc = "accepted", !.login = l,
                                     !.binding = logins[l].version])
Finish(c) == changes' = [changes EXCEPT ![c] = NoChange] /\ UNCHANGED changed
Rotating(c) == changes' = [changes EXCEPT ![c].pc = "rotate"] /\ UNCHANGED changed
Is(c, pc, op) == changes[c].pc = pc /\ changes[c].op = op
-----------------------------------------------------------------------------
(* Requests of the owner *)

HandleUpdateLoginMFARequirement(c, l, enabled) ==
    AcceptFrom(c, l, [NoChange EXCEPT !.op = "require", !.flag = enabled])
HandleBeginTOTPEnrollment(c, l) == AcceptFrom(c, l, [NoChange EXCEPT !.op = "begin"])
\* The pending secret is read, and the code checked against it, before the transaction.
HandleConfirmTOTPEnrollment(c, l) ==
    /\ factors.totp = "unconfirmed"
    /\ AcceptFrom(c, l, [NoChange EXCEPT !.op = "confirm", !.secret = factors.secret])
HandleRegenerateRecoveryCodes(c, l) == AcceptFrom(c, l, [NoChange EXCEPT !.op = "regenerate"])
HandleDisableTOTP(c, l) == AcceptFrom(c, l, [NoChange EXCEPT !.op = "disable"])
HandleDeletePasskey(c, l, k) == AcceptFrom(c, l, [NoChange EXCEPT !.op = "remove", !.item = k])
HandleDeleteMyIdentity(c, l, p) == AcceptFrom(c, l, [NoChange EXCEPT !.op = "unlink", !.item = p])
HandleSetPassword(c, l) == AcceptFrom(c, l, [NoChange EXCEPT !.op = "password"])

SetLoginMFARequirement(c) ==
    /\ Is(c, "accepted", "require") /\ LockAuthenticationState(changes[c].binding)
    /\ person.loginMFA # changes[c].flag
    /\ changes[c].flag => Enrolled(factors)
    /\ person' = IncrementAuthVersion([person EXCEPT !.loginMFA = changes[c].flag])
    /\ Rotating(c)
    /\ UNCHANGED <<factors, links, policyVars, logins, restVars>>

\* Upsert that leaves a confirmed credential alone.
BeginEnrollment(c) ==
    /\ Is(c, "accepted", "begin")
    /\ LockSecurityShared /\ security.totp /\ factors.totp # "confirmed"
    /\ factors' = [factors EXCEPT !.totp = "unconfirmed", !.secret = @ + 1, !.last = 0]
    /\ Finish(c)
    /\ UNCHANGED <<person, links, policyVars, logins, restVars>>

\* The time steps whose code is accepted now: RFC 6238 with a window of one step.
MatchTOTP == (totpStep - 1) .. (totpStep + 1)

\* One recovery code stands for the set that is made.
InsertRecoveryCodes(f) == [f EXCEPT !.codes = {f.issued + 1}, !.issued = @ + 1]

ConfirmEnrollment(c, matched) ==
    /\ Is(c, "accepted", "confirm")
    /\ LockSecurityShared /\ security.totp /\ LockAuthenticationState(changes[c].binding)
    /\ factors.totp = "unconfirmed" /\ factors.secret = changes[c].secret
    /\ factors' = InsertRecoveryCodes([factors EXCEPT !.totp = "confirmed", !.last = matched])
    /\ person' = IncrementAuthVersion(person)
    /\ Rotating(c)
    /\ UNCHANGED <<links, policyVars, logins, restVars>>

RegenerateRecoveryCodes(c) ==
    /\ Is(c, "accepted", "regenerate") /\ LockAuthenticationState(changes[c].binding)
    /\ factors.totp = "confirmed"
    /\ factors' = InsertRecoveryCodes(factors)
    /\ Finish(c)
    /\ UNCHANGED <<person, links, policyVars, logins, restVars>>

\* What the policy and the account ask of the factors that would be left.
LeftIsEnough(left) ==
    (security.admins /\ person.admin) \/ person.loginMFA => Enrolled(left)
WithoutTOTP == [factors EXCEPT !.totp = "none", !.last = 0, !.codes = {}]
WithoutPasskey(k) == [factors EXCEPT !.passkeys = @ \ {k}]

\* Another way in than the passkey: a password or a link to an enabled provider.
OtherWayIn == person.password \/ links \cap enabledProviders # {}

LockForDisable(c) ==
    /\ Is(c, "accepted", "disable") /\ LockSecurityShared
    /\ LockAuthenticationState(changes[c].binding)
    /\ factors.totp = "confirmed" /\ LeftIsEnough(WithoutTOTP)
LockForDeletePasskey(c) ==
    /\ Is(c, "accepted", "remove") /\ LockSecurityShared
    /\ LockAuthenticationState(changes[c].binding)
    /\ changes[c].item \in factors.passkeys
    /\ Cardinality(factors.passkeys) <= 1 => OtherWayIn
    /\ LeftIsEnough(WithoutPasskey(changes[c].item))
\* Mutant: the other ways in are counted without a lock on the account.
LockForDeleteOwnedMutant(c) ==
    /\ Is(c, "accepted", "unlink") /\ changes[c].item \in links
    /\ person.password \/ factors.passkeys # {} \/ Cardinality(links) > 1
\* The binding to the session's version is not checked here.
LockForDeleteOwned(c) ==
    /\ Is(c, "accepted", "unlink") /\ LockUserRow /\ changes[c].item \in links
    /\ person.password \/ factors.passkeys # {} \/ Cardinality(links) > 1

Disable(c) ==
    /\ Is(c, "locked", "disable")
    /\ factors' = WithoutTOTP /\ person' = IncrementAuthVersion(person)
    /\ Rotating(c)
    /\ UNCHANGED <<links, policyVars, logins, restVars>>
DeletePasskey(c) ==
    /\ Is(c, "locked", "remove")
    /\ factors' = WithoutPasskey(changes[c].item) /\ person' = IncrementAuthVersion(person)
    /\ Rotating(c)
    /\ UNCHANGED <<links, policyVars, logins, restVars>>
DeleteOwned(c) ==
    /\ Is(c, "locked", "unlink")
    /\ links' = links \ {changes[c].item} /\ person' = IncrementAuthVersion(person)
    /\ Rotating(c)
    /\ UNCHANGED <<factors, policyVars, logins, restVars>>

SetPasswordIfMissing(c) ==
    /\ Is(c, "accepted", "password") /\ LockUserRow /\ ~person.password
    /\ person' = IncrementAuthVersion([person EXCEPT !.password = TRUE])
    /\ changes' = [changes EXCEPT ![c].pc = "rotate", ![c].binding = person.version]
    /\ UNCHANGED changed
    /\ UNCHANGED <<factors, links, policyVars, logins, restVars>>

\* The response: a new session at level 1 for the version `updated` replaces all others.
RotateSession(c, updated) ==
    /\ logins' = [l \in Logins |-> IF l = changes[c].login THEN [version |-> updated, level |-> 1, by |-> "rotation"]
                                                             ELSE NoSession]
    /\ Finish(c)
    /\ UNCHANGED <<person, factors, links, policyVars, restVars>>
DestroySession(c) ==
    /\ logins' = [logins EXCEPT ![changes[c].login] = NoSession]
    /\ Finish(c)
    /\ UNCHANGED <<person, factors, links, policyVars, restVars>>
\* Only the operations on factors insist that nothing else has happened since:
\* handleDeleteMyIdentity takes the version it finds, handleSetPassword the one it made.
RespondRotated(c) ==
    /\ changes[c].pc = "rotate"
    /\ CASE changes[c].op = "unlink"   -> RotateSession(c, person.version)
         [] changes[c].op = "password" -> RotateSession(c, changes[c].binding + 1)
         [] OTHER -> IF person.active /\ person.version = changes[c].binding + 1
                        THEN RotateSession(c, person.version)
                        ELSE DestroySession(c)
-----------------------------------------------------------------------------
(* Administrators and operators *)

\* UpdateAdmin and SetSecurity are also requests of (other) administrators.
HandleUpdateUser(c, admin, active) ==
    Accept(c, [NoChange EXCEPT !.pc = "accepted", !.op = "admin", !.flag = admin,
                               !.active = active])
HandleUpdateSecuritySettings(c, s) ==
    Accept(c, [NoChange EXCEPT !.pc = "accepted", !.op = "settings", !.policy = s])
RecoveryReset(c, scope, disableAdminPolicy) ==
    Accept(c, [NoChange EXCEPT !.pc = "accepted", !.op = "reset", !.scope = scope,
                               !.flag = disableAdminPolicy])

LockForUpdateAdmin(c) ==
    /\ Is(c, "accepted", "admin") /\ LockSecurityShared /\ LockUserRow
    /\ security.admins /\ changes[c].active /\ changes[c].flag => Enrolled(factors)
\* Every active administrator must have a factor (the other accounts have one).
LockForSetSecurity(c) ==
    /\ Is(c, "accepted", "settings") /\ LockSecurityExclusive
    /\ changes[c].policy.admins => (person.active /\ person.admin => Enrolled(factors))

\* The factors a recovery reset of that scope leaves.
LeftAfterReset(scope) ==
    [factors EXCEPT !.totp = IF "totp" \in scope THEN "none" ELSE @,
                    !.codes = IF "totp" \in scope THEN {} ELSE @,
                    !.passkeys = IF "passkeys" \in scope THEN {} ELSE @]
LoadRecoveryFactorCounts(scope) ==
    ("totp" \in scope /\ factors.totp # "none") \/ ("passkeys" \in scope /\ factors.passkeys # {})
\* The policy for administrators would not hold for the target any more.
PolicyConflict(c) ==
    person.active /\ person.admin /\ security.admins /\ ~Enrolled(LeftAfterReset(changes[c].scope))
LockRecoveryTarget(c) ==
    /\ Is(c, "accepted", "reset") /\ LockSecurityExclusive /\ LockUserRow
    /\ LoadRecoveryFactorCounts(changes[c].scope)
    /\ OtherWayIn \/ LeftAfterReset(changes[c].scope).passkeys # {}
    /\ PolicyConflict(c) => changes[c].flag

\* The rows are read and checked under their locks.
LockRows(c) ==
    /\ \/ LockForDisable(c) \/ LockForDeletePasskey(c) \/ LockForDeleteOwned(c)
       \/ LockForUpdateAdmin(c) \/ LockForSetSecurity(c) \/ LockRecoveryTarget(c)
    /\ changes' = [changes EXCEPT ![c].pc = "locked"]
    /\ UNCHANGED <<changed, person, factors, links, policyVars, logins, restVars>>

UpdateAdmin(c) ==
    /\ Is(c, "locked", "admin")
    /\ person' = LET p == [person EXCEPT !.admin = changes[c].flag, !.active = changes[c].active]
                 IN IF p = person THEN p ELSE IncrementAuthVersion(p)
    /\ Finish(c)
    /\ UNCHANGED <<factors, links, policyVars, logins, restVars>>
\* The instance that stores the policy takes it over at once.
SetSecurity(c) ==
    /\ Is(c, "locked", "settings")
    /\ security' = changes[c].policy /\ cachedSecurity' = changes[c].policy
    /\ Finish(c)
    /\ devices' = [d \in Devices |-> IF security.trusted /\ ~changes[c].policy.trusted
                                       THEN [devices[d] EXCEPT !.live = FALSE] ELSE devices[d]]
    /\ UNCHANGED <<person, factors, links, enabledProviders, logins, totpStep, waived>>
\* LISTEN/NOTIFY or the reconciliation of the settings manager.
ReloadSecurity ==
    /\ cachedSecurity # security /\ cachedSecurity' = security
    /\ UNCHANGED <<person, factors, links, enabledProviders, security, logins, changes, changed, restVars>>

DisableAdminMFARequirementForRecovery(c) ==
    security' = IF PolicyConflict(c) THEN [security EXCEPT !.admins = FALSE] ELSE security
\* login_mfa_enabled is not changed.
ResetForRecovery(c) ==
    /\ Is(c, "locked", "reset")
    /\ DisableAdminMFARequirementForRecovery(c)
    /\ factors' = LeftAfterReset(changes[c].scope)
    /\ person' = IncrementAuthVersion(person)
    /\ waived' = (waived \/ (person.loginMFA /\ ~Enrolled(factors')))
    /\ Finish(c)
    /\ UNCHANGED <<links, enabledProviders, cachedSecurity, logins, devices, totpStep>>

\* An administrator switches a provider on or off.
EnableProvider(p) ==
    /\ changed < MaxChanges /\ changed' = changed + 1
    /\ enabledProviders' = IF p \in enabledProviders THEN enabledProviders \ {p}
                                                      ELSE enabledProviders \cup {p}
    /\ UNCHANGED <<person, factors, links, security, cachedSecurity, logins, changes, restVars>>
\* identity.Store.Create at the end of a provider's callback.
CreateIdentity(p) ==
    /\ changed < MaxChanges /\ changed' = changed + 1
    /\ LockUserRow /\ p \in enabledProviders \ links /\ \E l \in Logins : Usable(l)
    /\ links' = links \cup {p}
    /\ UNCHANGED <<person, factors, policyVars, logins, changes, restVars>>

\* A request that is refused or fails; its transaction is rolled back.
ChangeRefused(c) ==
    /\ changes[c].pc \in {"accepted", "locked"} /\ Finish(c)
    /\ UNCHANGED <<person, factors, links, policyVars, logins, restVars>>

TimeStep ==
    /\ totpStep < LastStep /\ totpStep' = totpStep + 1
    /\ UNCHANGED <<person, factors, links, policyVars, logins, changes, changed, devices, waived>>
-----------------------------------------------------------------------------
\* An account with a password or one link, with or without factors, signed in once.
FactorInit ==
    /\ person \in [active : {TRUE}, admin : BOOLEAN, version : {1}, loginMFA : BOOLEAN, password : BOOLEAN]
    /\ \E confirmed \in BOOLEAN, k \in SUBSET Passkeys :
          factors = [totp |-> IF confirmed THEN "confirmed" ELSE "none", secret |-> 1, last |-> 0,
                     codes |-> IF confirmed THEN {1} ELSE {}, issued |-> 1, passkeys |-> k]
    /\ person.loginMFA => Enrolled(factors)
    /\ links \in SUBSET Providers /\ enabledProviders = Providers
    /\ person.password \/ links # {} \/ factors.passkeys # {}
    /\ security \in {DefaultSecurity, [DefaultSecurity EXCEPT !.admins = TRUE]}
    /\ security.admins /\ person.admin => Enrolled(factors)
    /\ cachedSecurity = security
    /\ \E l \in Logins :
          logins = [x \in Logins |->
                       IF x = l THEN [NoSession EXCEPT !.version = 1, !.level = IF person.loginMFA THEN 2 ELSE 1]
                       ELSE NoSession]
    /\ changes = [c \in ChangeRequests |-> NoChange] /\ changed = 0
    /\ devices = [d \in Devices |-> [version |-> 0, live |-> FALSE]]
    /\ totpStep = 1 /\ waived = FALSE

OwnerRequest(c, l) ==
    \/ \E e \in BOOLEAN : HandleUpdateLoginMFARequirement(c, l, e)
    \/ HandleBeginTOTPEnrollment(c, l)
    \/ HandleConfirmTOTPEnrollment(c, l)
    \/ HandleRegenerateRecoveryCodes(c, l)
    \/ HandleDisableTOTP(c, l)
    \/ \E k \in Passkeys : HandleDeletePasskey(c, l, k)
    \/ \E p \in Providers : HandleDeleteMyIdentity(c, l, p)
    \/ HandleSetPassword(c, l)
OperatorRequest(c) ==
    \/ \E admin, active \in BOOLEAN : HandleUpdateUser(c, admin, active)
    \/ \E s \in Policies : HandleUpdateSecuritySettings(c, s)
    \/ \E scope \in SUBSET {"totp", "passkeys"} \ {{}}, d \in BOOLEAN : RecoveryReset(c, scope, d)
ChangeStep(c) ==
    \/ LockRows(c)
    \/ SetLoginMFARequirement(c)
    \/ BeginEnrollment(c)
    \/ \E k \in MatchTOTP : ConfirmEnrollment(c, k)
    \/ RegenerateRecoveryCodes(c)
    \/ Disable(c)
    \/ DeletePasskey(c)
    \/ DeleteOwned(c)
    \/ SetPasswordIfMissing(c)
    \/ RespondRotated(c)
    \/ UpdateAdmin(c)
    \/ SetSecurity(c)
    \/ ResetForRecovery(c)
    \/ ChangeRefused(c)
FactorNext ==
    \/ \E c \in ChangeRequests, l \in Logins : OwnerRequest(c, l)
    \/ \E c \in ChangeRequests : OperatorRequest(c)
    \/ \E c \in ChangeRequests : ChangeStep(c)
    \/ \E p \in Providers : EnableProvider(p)
    \/ \E p \in Providers : CreateIdentity(p)
    \/ ReloadSecurity
    \/ TimeStep
FactorSpec == FactorInit /\ [][FactorNext]_factorVars
-----------------------------------------------------------------------------
(* A factor that the policy for administrators or the account itself makes *)
(* compulsory is never the one that gets removed: while either holds the   *)
(* account has a confirmed TOTP credential or a passkey.  The check and    *)
(* the removal, the promotion or the change of the policy are separate     *)
(* statements of concurrent transactions.  A recovery reset may leave an   *)
(* account that asks for a factor without one (waived).                    *)
RequiredFactorKept ==
    /\ security.admins /\ person.active /\ person.admin => Enrolled(factors)
    /\ person.loginMFA /\ ~waived => Enrolled(factors)

(* The removals of passkeys and links and the recovery reset, each of      *)
(* which counts what the others remove, always leave a way to sign in.     *)
KeepsAWayIn == person.password \/ factors.passkeys # {} \/ links # {}
-----------------------------------------------------------------------------
(* Inductive strengthening.  What a transaction has checked under its locks *)
(* stays true until it writes, since the locks two transactions may hold    *)
(* together do not cover what either has checked; sessions and rotations    *)
(* are for a version the account has, or has had.                           *)
LockedOK(c) ==
    changes[c].pc = "locked" =>
        /\ changes[c].op \in Shared \cup Exclusive \cup {"unlink"}
        /\ changes[c].op = "disable" => LeftIsEnough(WithoutTOTP)
        /\ changes[c].op = "remove" =>
              /\ LeftIsEnough(WithoutPasskey(changes[c].item))
              /\ person.password \/ WithoutPasskey(changes[c].item).passkeys # {} \/ links # {}
        /\ changes[c].op = "unlink" =>
              person.password \/ factors.passkeys # {} \/ links \ {changes[c].item} # {}
        /\ changes[c].op = "admin" =>
              (security.admins /\ changes[c].active /\ changes[c].flag => Enrolled(factors))
        /\ changes[c].op = "settings" =>
              (changes[c].policy.admins /\ person.active /\ person.admin => Enrolled(factors))
        /\ changes[c].op = "reset" =>
              person.password \/ links # {} \/ LeftAfterReset(changes[c].scope).passkeys # {}
LocksInv ==
    /\ \A c \in ChangeRequests : LockedOK(c)
    /\ \A c, d \in ChangeRequests :
          c # d /\ changes[c].pc = "locked" /\ changes[d].pc = "locked" =>
             \/ changes[c].op = "settings" /\ changes[d].op = "unlink"
             \/ changes[c].op = "unlink" /\ changes[d].op = "settings"
VersionsInv ==
    /\ person.version >= 1
    /\ \A l \in Logins : logins[l].version <= person.version
    /\ \A c \in ChangeRequests :
          changes[c].pc = "rotate" /\ changes[c].op = "password" => changes[c].binding < person.version
FactorInv == FactorTypeOK /\ LocksInv /\ VersionsInv /\ RequiredFactorKept /\ KeepsAWayIn
=============================================================================
