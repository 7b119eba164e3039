------------------------------ MODULE SignInProof ------------------------------
(***************************************************************************)
(* Theorems about the factors of an account and the sign-ins that rest on  *)
(* them, for any number of sessions, passkeys, providers, challenges,      *)
(* ceremonies and concurrent requests.                                     *)
(***************************************************************************)
EXTENDS SignIn, FiniteSetTheorems, TLAPS

-----------------------------------------------------------------------------
(* Rows. *)

LEMMA NoChangeType == NoChange \in Change /\ NoChange.pc = "idle"
  BY FactorAssumptions DEF NoChange, Change, DefaultSecurity, Security

LEMMA NoSessionType == NoSession \in Login /\ NoSession.version = 0
  BY DEF NoSession, Login

LEMMA NextVersion ==
    ASSUME NEW p \in Person
    PROVE  /\ IncrementAuthVersion(p) \in Person /\ IncrementAuthVersion(p).version = p.version + 1
           /\ IncrementAuthVersion(p).active = p.active /\ IncrementAuthVersion(p).admin = p.admin
           /\ IncrementAuthVersion(p).loginMFA = p.loginMFA /\ IncrementAuthVersion(p).password = p.password
           /\ p.version \in Nat
  BY DEF IncrementAuthVersion, Person

(* Another passkey or link is left when there were two.                    *)
LEMMA OneIsLeft ==
    ASSUME NEW S, IsFiniteSet(S), NEW k \in S, ~(Cardinality(S) <= 1)
    PROVE  S \ {k} # {}
<1>1. Cardinality(S) \in Nat /\ Cardinality(S \ {k}) = Cardinality(S) - 1
  BY FS_CardinalityType, FS_RemoveElement
<1> QED
  BY <1>1, FS_EmptySet

(* A request is done or goes on to its response.                           *)
LEMMA Unlocks ==
    ASSUME changes \in [ChangeRequests -> Change], NEW c \in ChangeRequests, Finish(c) \/ Rotating(c)
    PROVE  /\ changes' \in [ChangeRequests -> Change] /\ changed' = changed
           /\ \A d \in ChangeRequests : d # c => changes'[d] = changes[d]
           /\ changes'[c].pc # "locked"
           /\ changes'[c].pc = "rotate" => changes'[c].op = changes[c].op
<1>1. CASE Finish(c)
  BY <1>1, NoChangeType DEF Finish
<1>2. CASE Rotating(c)
  BY <1>2 DEF Rotating, Change
<1> QED
  BY <1>1, <1>2

(* The locks that are left cover nothing that has been written.            *)
LEMMA LocksStep ==
    ASSUME LocksInv, NEW c, \A d \in ChangeRequests : d # c => changes'[d] = changes[d],
           c \in ChangeRequests => changes'[c].pc # "locked",
           \A d \in ChangeRequests : d # c /\ changes[d].pc = "locked" => LockedOK(d)'
    PROVE  LocksInv'
<1>1. \A d \in ChangeRequests : LockedOK(d)'
  BY DEF LockedOK
<1>2. \A d, e \in ChangeRequests :
          d # e /\ changes'[d].pc = "locked" /\ changes'[e].pc = "locked" =>
             \/ changes'[d].op = "settings" /\ changes'[e].op = "unlink"
             \/ changes'[d].op = "unlink" /\ changes'[e].op = "settings"
  BY DEF LocksInv
<1> QED
  BY <1>1, <1>2 DEF LocksInv

(* With the row of the account locked, only the policy can be too.         *)
LEMMA RowIsLocked ==
    ASSUME FactorInv, LockUserRow, NEW d \in ChangeRequests, changes[d].pc = "locked"
    PROVE  /\ changes[d].op = "settings"
           /\ changes[d].policy.admins /\ person.active /\ person.admin => Enrolled(factors)
  BY DEF FactorInv, LocksInv, LockedOK, LockUserRow

LEMMA RowAndPolicyAreLocked ==
    ASSUME FactorInv, LockUserRow, LockSecurityShared
    PROVE  \A d \in ChangeRequests : changes[d].pc # "locked"
  BY RowIsLocked DEF LockSecurityShared, Exclusive

-----------------------------------------------------------------------------
(* What a change of the factors leaves to the sign-ins: secrets, codes and *)
(* versions only go on, a session stays, goes, or comes from a rotation.   *)
FactorsGoOn ==
    /\ factors.secret <= factors'.secret /\ factors.issued <= factors'.issued
    /\ \A n \in factors'.codes : n \in factors.codes \/ (factors.issued < n /\ n <= factors'.issued)
    /\ factors'.secret = factors.secret =>
          \/ factors'.totp = "none" \/ factors.totp = "unconfirmed"
          \/ factors.totp = "confirmed" /\ factors'.totp = "confirmed" /\ factors.last <= factors'.last
PersonGoesOn ==
    /\ person.version <= person'.version
    /\ person'.version = person.version => person'.loginMFA = person.loginMFA
SessionsGoOn ==
    \A l \in Logins : logins'[l] = logins[l] \/ logins'[l].version = 0 \/ logins'[l].by = "rotation"
GoesOn == FactorsGoOn /\ PersonGoesOn /\ SessionsGoOn

LEMMA FactorFields ==
    ASSUME factors \in Factor
    PROVE  /\ factors.secret \in Nat /\ factors.issued \in Nat /\ factors.last \in Nat
           /\ factors.codes \subseteq Nat /\ factors.passkeys \subseteq Passkeys
           /\ factors.totp \in {"none", "unconfirmed", "confirmed"}
  BY DEF Factor

LEMMA SameGoOn ==
    ASSUME FactorTypeOK
    PROVE  /\ UNCHANGED factors => FactorsGoOn
           /\ UNCHANGED person => PersonGoesOn
           /\ UNCHANGED logins => SessionsGoOn
<1>1. UNCHANGED factors => FactorsGoOn
  BY FactorFields DEF FactorTypeOK, FactorsGoOn
<1>2. UNCHANGED person => PersonGoesOn
  BY NextVersion DEF FactorTypeOK, PersonGoesOn
<1> QED
  BY <1>1, <1>2 DEF SessionsGoOn

(* Only requests, sessions and the settings around them move.              *)
LEMMA AccountStays ==
    ASSUME FactorInv, FactorTypeOK', LocksInv', UNCHANGED <<person, factors, links, security, waived>>,
           \A l \in Logins : logins'[l].version <= person.version,
           \A c \in ChangeRequests :
              changes'[c].pc = "rotate" /\ changes'[c].op = "password" => changes'[c].binding < person.version
    PROVE  FactorInv'
<1>1. VersionsInv'
  BY DEF FactorInv, VersionsInv
<1>2. RequiredFactorKept' /\ KeepsAWayIn'
  BY DEF FactorInv, RequiredFactorKept, KeepsAWayIn, Enrolled
<1> QED
  BY <1>1, <1>2 DEF FactorInv

LEMMA LockedStays ==
    ASSUME NEW d, LockedOK(d), changes'[d] = changes[d], UNCHANGED <<person, factors, links, security>>
    PROVE  LockedOK(d)'
  BY DEF LockedOK, LeftIsEnough, WithoutTOTP, WithoutPasskey, Enrolled, LeftAfterReset

LEMMA AcceptInv ==
    ASSUME FactorInv, NEW c \in ChangeRequests, NEW r \in Change, r.pc = "accepted", Accept(c, r)
    PROVE  FactorInv' /\ GoesOn
<1>1. /\ changes' \in [ChangeRequests -> Change] /\ changes'[c] = r
      /\ \A d \in ChangeRequests : d # c => changes'[d] = changes[d]
  BY DEF Accept, FactorInv, FactorTypeOK
<1>2. changed' \in 0 .. MaxChanges
  BY FactorAssumptions DEF Accept, FactorInv, FactorTypeOK
<1>3. FactorTypeOK'
  BY <1>1, <1>2 DEF Accept, FactorInv, FactorTypeOK, policyVars, restVars
<1>4. \A d \in ChangeRequests : d # c => LockedOK(d)'
  BY <1>1, LockedStays DEF FactorInv, LocksInv, Accept, policyVars
<1>5. LocksInv'
  BY <1>1, <1>4, LocksStep DEF FactorInv
<1>6. FactorInv'
  BY <1>1, <1>3, <1>5, AccountStays DEF Accept, policyVars, restVars, FactorInv, VersionsInv
<1> QED
  BY <1>6, SameGoOn DEF GoesOn, Accept, FactorInv

LEMMA AcceptFromInv ==
    ASSUME FactorInv, NEW c \in ChangeRequests, NEW l \in Logins, NEW r \in Change, AcceptFrom(c, l, r)
    PROVE  FactorInv' /\ GoesOn
<1> DEFINE q == [r EXCEPT !.pc = "accepted", !.login = l, !.binding = logins[l].version]
<1>1. logins[l].version \in Nat
  BY DEF FactorInv, FactorTypeOK, Login
<1>2. q \in Change /\ q.pc = "accepted"
  BY <1>1 DEF Change
<1>3. Accept(c, q)
  BY DEF AcceptFrom
<1> HIDE DEF q
<1> QED
  BY <1>2, <1>3, AcceptInv

LEMMA OwnerRequestInv ==
    ASSUME FactorInv, NEW c \in ChangeRequests, NEW l \in Logins, OwnerRequest(c, l)
    PROVE  FactorInv' /\ GoesOn
<1>1. ASSUME NEW op \in Operations, NEW flag \in BOOLEAN, NEW secret \in Nat, NEW item \in Passkeys \cup Providers \cup {NoItem}
      PROVE  /\ [NoChange EXCEPT !.op = op] \in Change /\ [NoChange EXCEPT !.op = op, !.flag = flag] \in Change
             /\ [NoChange EXCEPT !.op = op, !.secret = secret] \in Change /\ [NoChange EXCEPT !.op = op, !.item = item] \in Change
  BY NoChangeType DEF Change
<1>2. {"require", "begin", "confirm", "regenerate", "password", "unlink", "disable", "remove"} \subseteq Operations
  BY DEF Operations, Shared, Exclusive
<1>3. CASE \E e \in BOOLEAN : HandleUpdateLoginMFARequirement(c, l, e)
  BY <1>1, <1>2, <1>3, AcceptFromInv DEF HandleUpdateLoginMFARequirement
<1>4. CASE HandleBeginTOTPEnrollment(c, l) \/ HandleRegenerateRecoveryCodes(c, l) \/ HandleDisableTOTP(c, l) \/ HandleSetPassword(c, l)
  BY <1>1, <1>2, <1>4, AcceptFromInv
     DEF HandleBeginTOTPEnrollment, HandleRegenerateRecoveryCodes, HandleDisableTOTP, HandleSetPassword
<1>5. CASE HandleConfirmTOTPEnrollment(c, l)
  <2>1. factors.secret \in Nat
    BY FactorFields DEF FactorInv, FactorTypeOK
  <2> QED
    BY <1>1, <1>2, <1>5, <2>1, AcceptFromInv DEF HandleConfirmTOTPEnrollment
<1>6. CASE \/ \E k \in Passkeys : HandleDeletePasskey(c, l, k)
           \/ \E p \in Providers : HandleDeleteMyIdentity(c, l, p)
  BY <1>1, <1>2, <1>6, AcceptFromInv DEF HandleDeletePasskey, HandleDeleteMyIdentity
<1> QED
  BY <1>3, <1>4, <1>5, <1>6 DEF OwnerRequest

LEMMA OperatorRequestInv ==
    ASSUME FactorInv, NEW c \in ChangeRequests, OperatorRequest(c)
    PROVE  FactorInv' /\ GoesOn
<1>1. CASE \E admin, active \in BOOLEAN : HandleUpdateUser(c, admin, active)
  <2> PICK admin \in BOOLEAN, active \in BOOLEAN : HandleUpdateUser(c, admin, active)
    BY <1>1
  <2> DEFINE r == [NoChange EXCEPT !.pc = "accepted", !.op = "admin", !.flag = admin, !.active = active]
  <2>1. r \in Change /\ r.pc = "accepted"
    BY NoChangeType DEF Change, Operations, Shared
  <2>2. Accept(c, r)
    BY DEF HandleUpdateUser
  <2> HIDE DEF r
  <2> QED
    BY <2>1, <2>2, AcceptInv
<1>2. CASE \E s \in Policies : HandleUpdateSecuritySettings(c, s)
  <2> PICK s \in Policies : HandleUpdateSecuritySettings(c, s)
    BY <1>2
  <2> DEFINE r == [NoChange EXCEPT !.pc = "accepted", !.op = "settings", !.policy = s]
  <2>1. r \in Change /\ r.pc = "accepted"
    BY NoChangeType, PolicyAssumption DEF Change, Operations, Exclusive
  <2>2. Accept(c, r)
    BY DEF HandleUpdateSecuritySettings
  <2> HIDE DEF r
  <2> QED
    BY <2>1, <2>2, AcceptInv
<1>3. CASE \E scope \in SUBSET {"totp", "passkeys"} \ {{}}, d \in BOOLEAN : RecoveryReset(c, scope, d)
  <2> PICK scope \in SUBSET {"totp", "passkeys"}, d \in BOOLEAN : RecoveryReset(c, scope, d)
    BY <1>3
  <2> DEFINE r == [NoChange EXCEPT !.pc = "accepted", !.op = "reset", !.scope = scope, !.flag = d]
  <2>1. r \in Change /\ r.pc = "accepted"
    BY NoChangeType DEF Change, Operations, Exclusive
  <2>2. Accept(c, r)
    BY DEF RecoveryReset
  <2> HIDE DEF r
  <2> QED
    BY <2>1, <2>2, AcceptInv
<1> QED
  BY <1>1, <1>2, <1>3 DEF OperatorRequest

-----------------------------------------------------------------------------
(* The transactions. *)

(* What is checked under the locks is what the write will rest on, and no  *)
(* other lock covers it.                                                   *)
LEMMA LockRowsInv ==
    ASSUME FactorInv, NEW c \in ChangeRequests, LockRows(c)
    PROVE  FactorInv' /\ GoesOn
<1>0. /\ UNCHANGED <<person, factors, links, enabledProviders, security, cachedSecurity, logins, devices, totpStep, waived, changed>>
      /\ changes \in [ChangeRequests -> Change] /\ changes' = [changes EXCEPT ![c].pc = "locked"]
      /\ factors \in Factor /\ links \subseteq Providers
  BY DEF LockRows, FactorInv, FactorTypeOK, policyVars, restVars
<1>1. /\ changes' \in [ChangeRequests -> Change] /\ changes'[c].pc = "locked"
      /\ changes'[c].op = changes[c].op /\ changes'[c].item = changes[c].item
      /\ changes'[c].flag = changes[c].flag /\ changes'[c].active = changes[c].active
      /\ changes'[c].policy = changes[c].policy /\ changes'[c].scope = changes[c].scope
      /\ \A d \in ChangeRequests : d # c => changes'[d] = changes[d]
  BY <1>0 DEF Change
<1>2. FactorTypeOK'
  BY <1>0, <1>1 DEF FactorInv, FactorTypeOK
<1>3. \A d \in ChangeRequests : d # c => LockedOK(d)'
  BY <1>0, <1>1, LockedStays DEF FactorInv, LocksInv
<1>4. LockedOK(c)' /\ \A d \in ChangeRequests : d # c /\ changes[d].pc = "locked" =>
             \/ changes[d].op = "settings" /\ changes[c].op = "unlink"
             \/ changes[d].op = "unlink" /\ changes[c].op = "settings"
  <2>1. CASE LockForDisable(c)
    <3>1. changes[c].op = "disable" /\ LeftIsEnough(WithoutTOTP) /\ LockUserRow /\ LockSecurityShared
      BY <2>1 DEF LockForDisable, Is, LockAuthenticationState
    <3>2. LeftIsEnough(WithoutTOTP)'
      BY <1>0, <3>1 DEF LeftIsEnough, WithoutTOTP, Enrolled
    <3> QED
      BY <1>1, <3>1, <3>2, RowAndPolicyAreLocked DEF LockedOK, Shared
  <2>2. CASE LockForDeletePasskey(c)
    <3> DEFINE k == changes[c].item
    <3>1. /\ changes[c].op = "remove" /\ LeftIsEnough(WithoutPasskey(k)) /\ LockUserRow /\ LockSecurityShared
          /\ k \in factors.passkeys /\ (Cardinality(factors.passkeys) <= 1 => OtherWayIn)
      BY <2>2 DEF LockForDeletePasskey, Is, LockAuthenticationState
    <3>2. factors.passkeys \subseteq Passkeys /\ IsFiniteSet(factors.passkeys)
      BY <1>0, FactorFields, FS_Subset, FactorAssumptions
    <3>3. WithoutPasskey(k).passkeys = factors.passkeys \ {k}
      BY <1>0 DEF WithoutPasskey, Factor
    <3>4. person.password \/ WithoutPasskey(k).passkeys # {} \/ links # {}
      <4>1. CASE Cardinality(factors.passkeys) <= 1
        BY <3>1, <4>1 DEF OtherWayIn
      <4>2. CASE ~(Cardinality(factors.passkeys) <= 1)
        BY <3>1, <3>2, <3>3, <4>2, OneIsLeft
      <4> QED
        BY <4>1, <4>2
    <3>5. LeftIsEnough(WithoutPasskey(k))' /\ (person.password \/ WithoutPasskey(k).passkeys # {} \/ links # {})'
      <4>1. k' = k
        BY <1>1
      <4>2. WithoutPasskey(k)' = WithoutPasskey(k)
        BY <1>0, <4>1 DEF WithoutPasskey
      <4> QED
        BY <1>0, <3>1, <3>4, <4>2 DEF LeftIsEnough, Enrolled
    <3> QED
      BY <1>1, <3>1, <3>5, RowAndPolicyAreLocked DEF LockedOK, Shared
  <2>3. CASE LockForDeleteOwned(c)
    <3> DEFINE p == changes[c].item
    <3>1. /\ changes[c].op = "unlink" /\ LockUserRow /\ p \in links
          /\ person.password \/ factors.passkeys # {} \/ Cardinality(links) > 1
      BY <2>3 DEF LockForDeleteOwned, Is
    <3>2. IsFiniteSet(links) /\ Cardinality(links) \in Nat
      BY <1>0, FS_Subset, FS_CardinalityType, FactorAssumptions
    <3>3. person.password \/ factors.passkeys # {} \/ links \ {p} # {}
      BY <3>1, <3>2, OneIsLeft
    <3> QED
      BY <1>0, <1>1, <3>1, <3>3, RowIsLocked DEF LockedOK
  <2>4. CASE LockForUpdateAdmin(c)
    <3>1. /\ changes[c].op = "admin" /\ LockUserRow /\ LockSecurityShared
          /\ security.admins /\ changes[c].active /\ changes[c].flag => Enrolled(factors)
      BY <2>4 DEF LockForUpdateAdmin, Is
    <3> QED
      BY <1>0, <1>1, <3>1, RowAndPolicyAreLocked DEF LockedOK, Shared, Enrolled
  <2>5. CASE LockForSetSecurity(c)
    <3>1. /\ changes[c].op = "settings" /\ LockSecurityExclusive
          /\ changes[c].policy.admins /\ person.active /\ person.admin => Enrolled(factors)
      BY <2>5 DEF LockForSetSecurity, Is
    <3>2. LockedOK(c)'
      BY <1>0, <1>1, <3>1 DEF LockedOK, Exclusive, Enrolled
    <3>3. \A d \in ChangeRequests : changes[d].pc = "locked" => changes[d].op = "unlink"
      BY <3>1 DEF LockSecurityExclusive, FactorInv, LocksInv, LockedOK
    <3> QED
      BY <3>1, <3>2, <3>3
  <2>6. CASE LockRecoveryTarget(c)
    <3>1. /\ changes[c].op = "reset" /\ LockSecurityExclusive /\ LockUserRow
          /\ person.password \/ links # {} \/ LeftAfterReset(changes[c].scope).passkeys # {}
      BY <2>6 DEF LockRecoveryTarget, Is, OtherWayIn
    <3>2. (person.password \/ links # {} \/ LeftAfterReset(changes[c].scope).passkeys # {})'
      BY <1>0, <1>1, <3>1 DEF LeftAfterReset
    <3>3. LockedOK(c)'
      BY <1>1, <3>1, <3>2 DEF LockedOK, Exclusive
    <3>4. LockSecurityShared
      BY <3>1 DEF LockSecurityExclusive, LockSecurityShared
    <3> QED
      BY <3>1, <3>3, <3>4, RowAndPolicyAreLocked
  <2> QED
    BY <2>1, <2>2, <2>3, <2>4, <2>5, <2>6 DEF LockRows
<1>5. LocksInv'
  <2>1. \A d \in ChangeRequests : LockedOK(d)'
    BY <1>3, <1>4
  <2>2. \A d, e \in ChangeRequests :
          d # e /\ changes'[d].pc = "locked" /\ changes'[e].pc = "locked" =>
             \/ changes'[d].op = "settings" /\ changes'[e].op = "unlink"
             \/ changes'[d].op = "unlink" /\ changes'[e].op = "settings"
    BY <1>1, <1>4 DEF FactorInv, LocksInv
  <2> QED
    BY <2>1, <2>2 DEF LocksInv
<1>6. FactorInv'
  BY <1>0, <1>1, <1>2, <1>5, AccountStays DEF FactorInv, VersionsInv
<1> QED
  BY <1>0, <1>6, SameGoOn DEF GoesOn, FactorInv

LEMMA SetLoginMFARequirementInv ==
    ASSUME FactorInv, NEW c \in ChangeRequests, SetLoginMFARequirement(c)
    PROVE  FactorInv' /\ GoesOn
<1> DEFINE p == [person EXCEPT !.loginMFA = changes[c].flag]
<1>0. /\ UNCHANGED <<factors, links, enabledProviders, security, cachedSecurity, logins, devices, totpStep, waived>>
      /\ changes \in [ChangeRequests -> Change] /\ LockUserRow /\ Rotating(c)
      /\ changes[c].op = "require" /\ (changes[c].flag => Enrolled(factors))
      /\ person \in Person /\ changes[c].flag \in BOOLEAN
  BY DEF SetLoginMFARequirement, Is, LockAuthenticationState, FactorInv, FactorTypeOK, policyVars, restVars, Change
<1>1. /\ p \in Person /\ p.loginMFA = changes[c].flag /\ p.active = person.active /\ p.admin = person.admin
      /\ p.version = person.version /\ p.password = person.password
  BY <1>0 DEF Person
<1>2. person' = IncrementAuthVersion(p)
  BY DEF SetLoginMFARequirement
<1> HIDE DEF p
<1>3. /\ person' \in Person /\ person'.loginMFA = changes[c].flag /\ person'.active = person.active
      /\ person'.admin = person.admin /\ person'.version = person.version + 1 /\ person'.password = person.password
      /\ person.version \in Nat
  BY <1>1, <1>2, NextVersion
<1>4. /\ changes' \in [ChangeRequests -> Change] /\ changed' = changed
      /\ \A d \in ChangeRequests : d # c => changes'[d] = changes[d]
      /\ changes'[c].pc # "locked"
      /\ changes'[c].pc = "rotate" => changes'[c].op = changes[c].op
  BY <1>0, Unlocks
<1>5. FactorTypeOK'
  BY <1>0, <1>3, <1>4 DEF FactorInv, FactorTypeOK
<1>6. \A d \in ChangeRequests : d # c /\ changes[d].pc = "locked" => LockedOK(d)'
  BY <1>0, <1>3, <1>4, RowIsLocked DEF LockedOK, Exclusive, Enrolled
<1>7. LocksInv'
  BY <1>4, <1>6, LocksStep DEF FactorInv
<1>8. VersionsInv'
  BY <1>0, <1>3, <1>4, <1>5 DEF FactorInv, VersionsInv, FactorTypeOK, Login, Change
<1>9. RequiredFactorKept' /\ KeepsAWayIn'
  BY <1>0, <1>3 DEF FactorInv, RequiredFactorKept, KeepsAWayIn, Enrolled
<1>10. PersonGoesOn
  BY <1>3 DEF PersonGoesOn
<1> QED
  BY <1>0, <1>5, <1>7, <1>8, <1>9, <1>10, SameGoOn DEF GoesOn, FactorInv

(* The row of the account is written and its version raised.               *)
LEMMA VersionRises ==
    ASSUME FactorInv, FactorTypeOK', person'.version = person.version + 1, UNCHANGED logins,
           NEW c, \A d \in ChangeRequests : d # c => changes'[d] = changes[d],
           c \in ChangeRequests /\ changes'[c].pc = "rotate" /\ changes'[c].op = "password"
              => changes'[c].binding = person.version
    PROVE  VersionsInv' /\ PersonGoesOn
<1>1. person.version \in Nat
  BY NextVersion DEF FactorInv, FactorTypeOK
<1>2. \A l \in Logins : logins[l].version \in Nat
  BY DEF FactorInv, FactorTypeOK, Login
<1>3. \A d \in ChangeRequests : changes[d].binding \in Nat
  BY DEF FactorInv, FactorTypeOK, Change
<1> QED
  BY <1>1, <1>2, <1>3 DEF FactorInv, VersionsInv, PersonGoesOn

LEMMA BeginEnrollmentInv ==
    ASSUME FactorInv, NEW c \in ChangeRequests, BeginEnrollment(c)
    PROVE  FactorInv' /\ GoesOn
<1>0. /\ UNCHANGED <<person, links, enabledProviders, security, cachedSecurity, logins, devices, totpStep, waived>>
      /\ changes \in [ChangeRequests -> Change] /\ Finish(c) /\ LockSecurityShared
      /\ factors \in Factor /\ factors.totp # "confirmed"
  BY DEF BeginEnrollment, Is, FactorInv, FactorTypeOK, policyVars, restVars
<1>1. factors' = [factors EXCEPT !.totp = "unconfirmed", !.secret = @ + 1, !.last = 0]
  BY DEF BeginEnrollment
<1>2. /\ factors' \in Factor /\ factors'.passkeys = factors.passkeys /\ factors'.totp = "unconfirmed"
      /\ factors'.secret = factors.secret + 1 /\ factors'.codes = factors.codes /\ factors'.issued = factors.issued
  <2> DEFINE s == factors.secret + 1
  <2>1. s \in Nat
    BY <1>0, FactorFields
  <2>2. factors' = [factors EXCEPT !.totp = "unconfirmed", !.secret = s, !.last = 0]
    BY <1>1
  <2> HIDE DEF s
  <2>3. /\ factors' \in Factor /\ factors'.passkeys = factors.passkeys /\ factors'.totp = "unconfirmed"
        /\ factors'.secret = s /\ factors'.codes = factors.codes /\ factors'.issued = factors.issued
    BY <1>0, <2>1, <2>2 DEF Factor
  <2> QED
    BY <2>3 DEF s
<1>3. /\ changes' \in [ChangeRequests -> Change] /\ changed' = changed
      /\ \A d \in ChangeRequests : d # c => changes'[d] = changes[d]
      /\ changes'[c].pc # "locked" /\ changes'[c].pc # "rotate"
  BY <1>0, Unlocks, NoChangeType DEF Finish
<1>4. FactorTypeOK'
  BY <1>0, <1>2, <1>3 DEF FactorInv, FactorTypeOK
<1>5. ASSUME NEW d \in ChangeRequests, d # c, changes[d].pc = "locked"
      PROVE  LockedOK(d)'
  <2>1. changes[d].op \notin Exclusive /\ LockedOK(d) /\ changes'[d] = changes[d]
    BY <1>0, <1>3, <1>5 DEF LockSecurityShared, FactorInv, LocksInv
  <2>2. Enrolled(factors)' = Enrolled(factors) /\ Enrolled(WithoutTOTP)' = Enrolled(WithoutTOTP)
    BY <1>0, <1>2 DEF Enrolled, WithoutTOTP, Factor
  <2>3. \A k : /\ Enrolled(WithoutPasskey(k))' = Enrolled(WithoutPasskey(k))
               /\ WithoutPasskey(k).passkeys' = WithoutPasskey(k).passkeys
    BY <1>0, <1>2 DEF Enrolled, WithoutPasskey, Factor
  <2>4. LeftIsEnough(WithoutTOTP) => LeftIsEnough(WithoutTOTP)'
    BY <1>0, <2>2 DEF LeftIsEnough
  <2>5. LeftIsEnough(WithoutPasskey(changes[d].item)) => LeftIsEnough(WithoutPasskey(changes[d].item))'
    BY <1>0, <2>1, <2>3 DEF LeftIsEnough, Enrolled, WithoutPasskey
  <2>6. WithoutPasskey(changes[d].item).passkeys' = WithoutPasskey(changes[d].item).passkeys
    BY <2>1, <2>3 DEF WithoutPasskey
  <2> QED
    BY <1>0, <1>2, <1>5, <2>1, <2>2, <2>4, <2>5, <2>6 DEF LockedOK, Exclusive
<1>6. LocksInv'
  BY <1>3, <1>5, LocksStep DEF FactorInv
<1>7. VersionsInv'
  BY <1>0, <1>3 DEF FactorInv, VersionsInv
<1>8. RequiredFactorKept' /\ KeepsAWayIn'
  BY <1>0, <1>2 DEF FactorInv, RequiredFactorKept, KeepsAWayIn, Enrolled
<1>9. FactorsGoOn
  BY <1>0, <1>2, FactorFields DEF FactorsGoOn
<1> QED
  BY <1>0, <1>4, <1>6, <1>7, <1>8, <1>9, SameGoOn DEF GoesOn, FactorInv

LEMMA NewCodes ==
    ASSUME NEW f \in Factor
    PROVE  /\ InsertRecoveryCodes(f) \in Factor /\ InsertRecoveryCodes(f).codes = {f.issued + 1}
           /\ InsertRecoveryCodes(f).issued = f.issued + 1 /\ InsertRecoveryCodes(f).totp = f.totp
           /\ InsertRecoveryCodes(f).secret = f.secret /\ InsertRecoveryCodes(f).last = f.last
           /\ InsertRecoveryCodes(f).passkeys = f.passkeys /\ f.issued \in Nat /\ f.secret \in Nat /\ f.last \in Nat
<1> DEFINE n == f.issued + 1
<1>1. f.issued \in Nat /\ f.secret \in Nat /\ f.last \in Nat /\ n \in Nat
  BY DEF Factor
<1>2. InsertRecoveryCodes(f) = [f EXCEPT !.codes = {n}, !.issued = n]
  BY DEF InsertRecoveryCodes
<1> HIDE DEF n
<1>3. {n} \in SUBSET Nat
  BY <1>1
<1>4. /\ InsertRecoveryCodes(f) \in Factor /\ InsertRecoveryCodes(f).codes = {n}
      /\ InsertRecoveryCodes(f).issued = n /\ InsertRecoveryCodes(f).totp = f.totp
      /\ InsertRecoveryCodes(f).secret = f.secret /\ InsertRecoveryCodes(f).last = f.last
      /\ InsertRecoveryCodes(f).passkeys = f.passkeys
  BY <1>1, <1>2, <1>3 DEF Factor
<1> QED
  BY <1>1, <1>4 DEF n

LEMMA ConfirmEnrollmentInv ==
    ASSUME FactorInv, NEW c \in ChangeRequests, NEW k \in MatchTOTP, ConfirmEnrollment(c, k)
    PROVE  FactorInv' /\ GoesOn
<1> DEFINE f == [factors EXCEPT !.totp = "confirmed", !.last = k]
<1>0. /\ UNCHANGED <<links, enabledProviders, security, cachedSecurity, logins, devices, totpStep, waived>>
      /\ changes \in [ChangeRequests -> Change] /\ Rotating(c) /\ LockSecurityShared /\ LockUserRow
      /\ factors \in Factor /\ factors.totp = "unconfirmed" /\ person \in Person /\ person' = IncrementAuthVersion(person)
      /\ changes[c].op = "confirm"
  BY DEF ConfirmEnrollment, LockAuthenticationState, Is, FactorInv, FactorTypeOK, policyVars, restVars
<1>1. k \in Nat
  BY FactorAssumptions DEF MatchTOTP, FactorInv, FactorTypeOK
<1>2. f \in Factor /\ f.totp = "confirmed" /\ f.secret = factors.secret /\ f.issued = factors.issued /\ f.passkeys = factors.passkeys
  BY <1>0, <1>1 DEF Factor
<1>3. factors' = InsertRecoveryCodes(f)
  BY DEF ConfirmEnrollment
<1> HIDE DEF f
<1>4. /\ factors' \in Factor /\ factors'.totp = "confirmed" /\ factors'.codes = {factors.issued + 1}
      /\ factors'.issued = factors.issued + 1 /\ factors'.secret = factors.secret /\ factors'.passkeys = factors.passkeys
      /\ factors.issued \in Nat /\ factors.secret \in Nat
  BY <1>2, <1>3, NewCodes
<1>5. /\ changes' \in [ChangeRequests -> Change] /\ changed' = changed
      /\ \A d \in ChangeRequests : d # c => changes'[d] = changes[d]
      /\ changes'[c].pc # "locked" /\ (changes'[c].pc = "rotate" => changes'[c].op = "confirm")
  BY <1>0, Unlocks
<1>6. FactorTypeOK'
  BY <1>0, <1>4, <1>5, NextVersion DEF FactorInv, FactorTypeOK
<1>7. LocksInv'
  BY <1>0, <1>5, RowAndPolicyAreLocked, LocksStep DEF FactorInv
<1>8. VersionsInv' /\ PersonGoesOn
  BY <1>0, <1>5, <1>6, NextVersion, VersionRises
<1>9. RequiredFactorKept' /\ KeepsAWayIn'
  BY <1>0, <1>4, NextVersion DEF FactorInv, RequiredFactorKept, KeepsAWayIn, Enrolled
<1>10. FactorsGoOn
  BY <1>0, <1>4 DEF FactorsGoOn
<1> QED
  BY <1>0, <1>6, <1>7, <1>8, <1>9, <1>10, SameGoOn DEF GoesOn, FactorInv

(* The codes and the time step of the last one go on under the lock of the *)
(* account; the account itself does not change.                            *)
LEMMA CodesInv ==
    ASSUME FactorInv, NEW c, factors' \in Factor, LockUserRow,
           factors'.totp = factors.totp, factors'.passkeys = factors.passkeys,
           changes' \in [ChangeRequests -> Change], c \in ChangeRequests => changes'[c].pc \notin {"locked", "rotate"},
           \A d \in ChangeRequests : d # c => changes'[d] = changes[d],
           UNCHANGED <<person, links, enabledProviders, security, cachedSecurity, logins, devices, totpStep, waived, changed>>
    PROVE  FactorInv'
<1>1. FactorTypeOK'
  BY DEF FactorInv, FactorTypeOK
<1>2. \A d \in ChangeRequests : d # c /\ changes[d].pc = "locked" => LockedOK(d)'
  BY RowIsLocked DEF LockedOK, Exclusive, Enrolled
<1>3. LocksInv'
  BY <1>2, LocksStep DEF FactorInv
<1>4. VersionsInv'
  BY DEF FactorInv, VersionsInv
<1>5. RequiredFactorKept' /\ KeepsAWayIn'
  BY DEF FactorInv, RequiredFactorKept, KeepsAWayIn, Enrolled
<1> QED
  BY <1>1, <1>3, <1>4, <1>5 DEF FactorInv

LEMMA RegenerateRecoveryCodesInv ==
    ASSUME FactorInv, NEW c \in ChangeRequests, RegenerateRecoveryCodes(c)
    PROVE  FactorInv' /\ GoesOn
<1>0. /\ UNCHANGED <<person, links, enabledProviders, security, cachedSecurity, logins, devices, totpStep, waived>>
      /\ changes \in [ChangeRequests -> Change] /\ Finish(c) /\ LockUserRow
      /\ factors \in Factor /\ factors.totp = "confirmed" /\ factors' = InsertRecoveryCodes(factors)
  BY DEF RegenerateRecoveryCodes, LockAuthenticationState, FactorInv, FactorTypeOK, policyVars, restVars
<1>1. /\ factors' \in Factor /\ factors'.totp = factors.totp /\ factors'.codes = {factors.issued + 1}
      /\ factors'.issued = factors.issued + 1 /\ factors'.secret = factors.secret /\ factors'.passkeys = factors.passkeys
      /\ factors'.last = factors.last /\ factors.issued \in Nat /\ factors.secret \in Nat /\ factors.last \in Nat
  BY <1>0, NewCodes
<1>2. /\ changes' \in [ChangeRequests -> Change] /\ changed' = changed
      /\ \A d \in ChangeRequests : d # c => changes'[d] = changes[d]
      /\ changes'[c].pc \notin {"locked", "rotate"}
  BY <1>0, Unlocks, NoChangeType DEF Finish
<1>3. FactorInv'
  BY <1>0, <1>1, <1>2, CodesInv
<1>4. FactorsGoOn
  BY <1>0, <1>1 DEF FactorsGoOn
<1> QED
  BY <1>0, <1>3, <1>4, SameGoOn DEF GoesOn, FactorInv

(* Disable, DeletePasskey, UpdateAdmin and ResetForRecovery hold locks no   *)
(* other transaction can hold with them.                                   *)
LEMMA Alone ==
    ASSUME FactorInv, NEW c \in ChangeRequests, changes[c].pc = "locked", changes[c].op \notin {"settings", "unlink"}
    PROVE  \A d \in ChangeRequests : d # c => changes[d].pc # "locked"
  BY DEF FactorInv, LocksInv

LEMMA DisableInv ==
    ASSUME FactorInv, NEW c \in ChangeRequests, Disable(c)
    PROVE  FactorInv' /\ GoesOn
<1>0. /\ UNCHANGED <<links, enabledProviders, security, cachedSecurity, logins, devices, totpStep, waived>>
      /\ changes \in [ChangeRequests -> Change] /\ Rotating(c) /\ factors' = WithoutTOTP
      /\ factors \in Factor /\ person \in Person /\ person' = IncrementAuthVersion(person)
      /\ changes[c].op = "disable" /\ changes[c].pc = "locked"
  BY DEF Disable, Is, FactorInv, FactorTypeOK, policyVars, restVars
<1>1. /\ factors' \in Factor /\ factors'.totp = "none" /\ factors'.codes = {} /\ factors'.issued = factors.issued
      /\ factors'.secret = factors.secret /\ factors'.passkeys = factors.passkeys
  BY <1>0 DEF WithoutTOTP, Factor
<1>2. /\ changes' \in [ChangeRequests -> Change] /\ changed' = changed
      /\ \A d \in ChangeRequests : d # c => changes'[d] = changes[d]
      /\ changes'[c].pc # "locked" /\ (changes'[c].pc = "rotate" => changes'[c].op = "disable")
  BY <1>0, Unlocks
<1>3. FactorTypeOK'
  BY <1>0, <1>1, <1>2, NextVersion DEF FactorInv, FactorTypeOK
<1>4. LocksInv'
  BY <1>0, <1>2, Alone, LocksStep DEF FactorInv
<1>5. VersionsInv' /\ PersonGoesOn
  BY <1>0, <1>2, <1>3, NextVersion, VersionRises
<1>6. LeftIsEnough(factors')
  BY <1>0 DEF FactorInv, LocksInv, LockedOK
<1>7. RequiredFactorKept' /\ KeepsAWayIn'
  BY <1>0, <1>1, <1>6, NextVersion DEF LeftIsEnough, FactorInv, RequiredFactorKept, KeepsAWayIn, Enrolled
<1>8. FactorsGoOn
  BY <1>0, <1>1, FactorFields DEF FactorsGoOn
<1> QED
  BY <1>0, <1>3, <1>4, <1>5, <1>7, <1>8, SameGoOn DEF GoesOn, FactorInv

LEMMA DeletePasskeyInv ==
    ASSUME FactorInv, NEW c \in ChangeRequests, DeletePasskey(c)
    PROVE  FactorInv' /\ GoesOn
<1>0. /\ UNCHANGED <<links, enabledProviders, security, cachedSecurity, logins, devices, totpStep, waived>>
      /\ changes \in [ChangeRequests -> Change] /\ Rotating(c) /\ factors' = WithoutPasskey(changes[c].item)
      /\ factors \in Factor /\ person \in Person /\ person' = IncrementAuthVersion(person)
      /\ changes[c].op = "remove" /\ changes[c].pc = "locked"
  BY DEF DeletePasskey, Is, FactorInv, FactorTypeOK, policyVars, restVars
<1>1. /\ factors' \in Factor /\ factors'.totp = factors.totp /\ factors'.codes = factors.codes
      /\ factors'.issued = factors.issued /\ factors'.secret = factors.secret /\ factors'.last = factors.last
  BY <1>0 DEF WithoutPasskey, Factor
<1>2. /\ changes' \in [ChangeRequests -> Change] /\ changed' = changed
      /\ \A d \in ChangeRequests : d # c => changes'[d] = changes[d]
      /\ changes'[c].pc # "locked" /\ (changes'[c].pc = "rotate" => changes'[c].op = "remove")
  BY <1>0, Unlocks
<1>3. FactorTypeOK'
  BY <1>0, <1>1, <1>2, NextVersion DEF FactorInv, FactorTypeOK
<1>4. LocksInv'
  BY <1>0, <1>2, Alone, LocksStep DEF FactorInv
<1>5. VersionsInv' /\ PersonGoesOn
  BY <1>0, <1>2, <1>3, NextVersion, VersionRises
<1>6. LeftIsEnough(factors') /\ (person.password \/ factors'.passkeys # {} \/ links # {})
  BY <1>0 DEF FactorInv, LocksInv, LockedOK
<1>7. RequiredFactorKept' /\ KeepsAWayIn'
  BY <1>0, <1>6, NextVersion DEF LeftIsEnough, RequiredFactorKept, KeepsAWayIn, Enrolled
<1>8. FactorsGoOn
  BY <1>0, <1>1, FactorFields DEF FactorsGoOn
<1> QED
  BY <1>0, <1>3, <1>4, <1>5, <1>7, <1>8, SameGoOn DEF GoesOn, FactorInv

LEMMA DeleteOwnedInv ==
    ASSUME FactorInv, NEW c \in ChangeRequests, DeleteOwned(c)
    PROVE  FactorInv' /\ GoesOn
<1>0. /\ UNCHANGED <<factors, enabledProviders, security, cachedSecurity, logins, devices, totpStep, waived>>
      /\ changes \in [ChangeRequests -> Change] /\ Rotating(c) /\ links' = links \ {changes[c].item}
      /\ person \in Person /\ person' = IncrementAuthVersion(person)
      /\ changes[c].op = "unlink" /\ changes[c].pc = "locked"
  BY DEF DeleteOwned, Is, FactorInv, FactorTypeOK, policyVars, restVars
<1>2. /\ changes' \in [ChangeRequests -> Change] /\ changed' = changed
      /\ \A d \in ChangeRequests : d # c => changes'[d] = changes[d]
      /\ changes'[c].pc # "locked" /\ (changes'[c].pc = "rotate" => changes'[c].op = "unlink")
  BY <1>0, Unlocks
<1>3. FactorTypeOK'
  BY <1>0, <1>2, NextVersion DEF FactorInv, FactorTypeOK
<1>4. \A d \in ChangeRequests : d # c /\ changes[d].pc = "locked" => changes[d].op = "settings" /\ LockedOK(d)
  BY <1>0 DEF FactorInv, LocksInv
<1>5. \A d \in ChangeRequests : d # c /\ changes[d].pc = "locked" => LockedOK(d)'
  BY <1>0, <1>2, <1>4, NextVersion DEF LockedOK, Exclusive, Enrolled
<1>6. LocksInv'
  BY <1>2, <1>5, LocksStep DEF FactorInv
<1>7. VersionsInv' /\ PersonGoesOn
  BY <1>0, <1>2, <1>3, NextVersion, VersionRises
<1>8. person.password \/ factors.passkeys # {} \/ links' # {}
  BY <1>0 DEF FactorInv, LocksInv, LockedOK
<1>9. RequiredFactorKept' /\ KeepsAWayIn'
  BY <1>0, <1>8, NextVersion DEF FactorInv, RequiredFactorKept, KeepsAWayIn, Enrolled
<1> QED
  BY <1>0, <1>3, <1>6, <1>7, <1>9, SameGoOn DEF GoesOn, FactorInv

LEMMA SetPasswordIfMissingInv ==
    ASSUME FactorInv, NEW c \in ChangeRequests, SetPasswordIfMissing(c)
    PROVE  FactorInv' /\ GoesOn
<1> DEFINE p == [person EXCEPT !.password = TRUE]
<1>0. /\ UNCHANGED <<factors, links, enabledProviders, security, cachedSecurity, logins, devices, totpStep, waived, changed>>
      /\ changes \in [ChangeRequests -> Change] /\ LockUserRow /\ person \in Person
      /\ changes' = [changes EXCEPT ![c].pc = "rotate", ![c].binding = person.version]
  BY DEF SetPasswordIfMissing, FactorInv, FactorTypeOK, policyVars, restVars
<1>1. /\ p \in Person /\ p.loginMFA = person.loginMFA /\ p.active = person.active /\ p.admin = person.admin
      /\ p.version = person.version /\ p.password
  BY <1>0 DEF Person
<1>2. person' = IncrementAuthVersion(p)
  BY DEF SetPasswordIfMissing
<1> HIDE DEF p
<1>3. /\ person' \in Person /\ person'.loginMFA = person.loginMFA /\ person'.active = person.active
      /\ person'.admin = person.admin /\ person'.version = person.version + 1 /\ person'.password
      /\ person.version \in Nat
  BY <1>1, <1>2, NextVersion
<1>4. /\ changes' \in [ChangeRequests -> Change]
      /\ \A d \in ChangeRequests : d # c => changes'[d] = changes[d]
      /\ changes'[c].pc = "rotate" /\ changes'[c].binding = person.version
  <2> DEFINE r == [changes[c] EXCEPT !.pc = "rotate", !.binding = person.version]
  <2>1. r \in Change /\ r.pc = "rotate" /\ r.binding = person.version
    BY <1>0, <1>3 DEF Change
  <2>2. changes' = [changes EXCEPT ![c] = r]
    BY <1>0
  <2> HIDE DEF r
  <2> QED
    BY <1>0, <2>1, <2>2
<1>5. FactorTypeOK'
  BY <1>0, <1>3, <1>4 DEF FactorInv, FactorTypeOK
<1>6. \A d \in ChangeRequests : d # c /\ changes[d].pc = "locked" => LockedOK(d)'
  BY <1>0, <1>3, <1>4, RowIsLocked DEF LockedOK, Exclusive, Enrolled
<1>7. LocksInv'
  BY <1>4, <1>6, LocksStep DEF FactorInv
<1>8. VersionsInv' /\ PersonGoesOn
  BY <1>0, <1>3, <1>4, <1>5, VersionRises
<1>9. RequiredFactorKept' /\ KeepsAWayIn'
  BY <1>0, <1>3 DEF FactorInv, RequiredFactorKept, KeepsAWayIn, Enrolled
<1> QED
  BY <1>0, <1>5, <1>7, <1>8, <1>9, SameGoOn DEF GoesOn, FactorInv

(* A request ends; sessions only go, or are rotated to a version the       *)
(* account has had.                                                        *)
LEMMA RespondInv ==
    ASSUME FactorInv, NEW c \in ChangeRequests, Finish(c), logins' \in [Logins -> Login],
           UNCHANGED <<person, factors, links, enabledProviders, security, cachedSecurity, devices, totpStep, waived>>,
           \A l \in Logins : \/ logins'[l] = logins[l] \/ logins'[l].version = 0
                             \/ logins'[l].by = "rotation" /\ logins'[l].version <= person.version
    PROVE  FactorInv' /\ GoesOn
<1>0. changes \in [ChangeRequests -> Change] /\ person.version \in Nat
  BY NextVersion DEF FactorInv, FactorTypeOK
<1>1. /\ changes' \in [ChangeRequests -> Change] /\ changed' = changed
      /\ \A d \in ChangeRequests : d # c => changes'[d] = changes[d]
      /\ changes'[c].pc \notin {"locked", "rotate"}
  BY <1>0, Unlocks, NoChangeType DEF Finish
<1>2. FactorTypeOK'
  BY <1>1 DEF FactorInv, FactorTypeOK
<1>3. \A d \in ChangeRequests : d # c => LockedOK(d)'
  BY <1>1, LockedStays DEF FactorInv, LocksInv
<1>4. LocksInv'
  BY <1>1, <1>3, LocksStep DEF FactorInv
<1>5. \A l \in Logins : logins'[l].version <= person.version
  BY <1>0 DEF FactorInv, VersionsInv
<1>6. FactorInv'
  BY <1>1, <1>2, <1>4, <1>5, AccountStays DEF FactorInv, VersionsInv
<1>7. SessionsGoOn
  BY DEF SessionsGoOn
<1> QED
  BY <1>6, <1>7, SameGoOn DEF GoesOn, FactorInv

LEMMA RespondRotatedInv ==
    ASSUME FactorInv, NEW c \in ChangeRequests, RespondRotated(c)
    PROVE  FactorInv' /\ GoesOn
<1>0. changes[c] \in Change /\ person.version \in Nat /\ logins \in [Logins -> Login] /\ changes[c].pc = "rotate"
      /\ changes[c].binding \in Nat
  BY NextVersion DEF FactorInv, FactorTypeOK, RespondRotated, Change
<1>1. ASSUME NEW updated \in Nat, updated <= person.version, RotateSession(c, updated)
      PROVE  FactorInv' /\ GoesOn
  <2>1. [version |-> updated, level |-> 1, by |-> "rotation"] \in Login
    BY DEF Login
  <2>2. /\ logins' \in [Logins -> Login]
        /\ \A l \in Logins : logins'[l] \in {[version |-> updated, level |-> 1, by |-> "rotation"], NoSession}
    BY <1>1, <2>1, NoSessionType DEF RotateSession
  <2> QED
    BY <1>1, <2>2, NoSessionType, RespondInv DEF RotateSession, policyVars, restVars
<1>2. CASE DestroySession(c)
  <2>1. logins' \in [Logins -> Login] /\ \A l \in Logins : logins'[l] \in {logins[l], NoSession}
    BY <1>0, <1>2, NoSessionType DEF DestroySession
  <2> QED
    BY <1>2, <2>1, NoSessionType, RespondInv DEF DestroySession, policyVars, restVars
<1>3. CASE changes[c].op = "unlink"
  <2>1. RotateSession(c, person.version)
    BY <1>3 DEF RespondRotated
  <2> QED
    BY <1>0, <1>1, <2>1
<1>4. CASE changes[c].op = "password"
  <2>1. RotateSession(c, changes[c].binding + 1)
    BY <1>4 DEF RespondRotated
  <2>2. changes[c].binding + 1 \in Nat /\ changes[c].binding + 1 <= person.version
    BY <1>0, <1>4 DEF FactorInv, VersionsInv
  <2> QED
    BY <1>1, <2>1, <2>2
<1>5. CASE changes[c].op \notin {"unlink", "password"}
  <2>1. RotateSession(c, person.version) \/ DestroySession(c)
    BY <1>5 DEF RespondRotated
  <2> QED
    BY <1>0, <1>1, <1>2, <2>1
<1> QED
  BY <1>3, <1>4, <1>5

LEMMA ChangeRefusedInv ==
    ASSUME FactorInv, NEW c \in ChangeRequests, ChangeRefused(c)
    PROVE  FactorInv' /\ GoesOn
<1>1. logins \in [Logins -> Login]
  BY DEF FactorInv, FactorTypeOK
<1> QED
  BY <1>1, RespondInv DEF ChangeRefused, policyVars, restVars

LEMMA UpdateAdminInv ==
    ASSUME FactorInv, NEW c \in ChangeRequests, UpdateAdmin(c)
    PROVE  FactorInv' /\ GoesOn
<1> DEFINE p == [person EXCEPT !.admin = changes[c].flag, !.active = changes[c].active]
<1>0. /\ UNCHANGED <<factors, links, enabledProviders, security, cachedSecurity, logins, devices, totpStep, waived>>
      /\ changes \in [ChangeRequests -> Change] /\ Finish(c) /\ person \in Person
      /\ changes[c].op = "admin" /\ changes[c].pc = "locked" /\ changes[c].flag \in BOOLEAN /\ changes[c].active \in BOOLEAN
  BY DEF UpdateAdmin, Is, FactorInv, FactorTypeOK, policyVars, restVars, Change
<1>1. /\ p \in Person /\ p.loginMFA = person.loginMFA /\ p.active = changes[c].active /\ p.admin = changes[c].flag
      /\ p.version = person.version /\ p.password = person.password
  BY <1>0 DEF Person
<1>2. IF p = person THEN person' = p ELSE person' = IncrementAuthVersion(p)
  BY DEF UpdateAdmin
<1>3. security.admins /\ changes[c].active /\ changes[c].flag => Enrolled(factors)
  BY <1>0 DEF FactorInv, LocksInv, LockedOK
<1>4. /\ changes' \in [ChangeRequests -> Change] /\ changed' = changed
      /\ \A d \in ChangeRequests : d # c => changes'[d] = changes[d]
      /\ changes'[c].pc \notin {"locked", "rotate"}
  BY <1>0, Unlocks, NoChangeType DEF Finish
<1>5. LocksInv'
  BY <1>0, <1>4, Alone, LocksStep DEF FactorInv
<1>6. CASE p = person
  <2>1. person' = person
    BY <1>2, <1>6
  <2>2. FactorTypeOK'
    BY <1>0, <1>4, <2>1 DEF FactorInv, FactorTypeOK
  <2>3. FactorInv'
    BY <1>0, <1>4, <1>5, <2>1, <2>2, AccountStays DEF FactorInv, VersionsInv
  <2> QED
    BY <1>0, <2>1, <2>3, SameGoOn DEF GoesOn, FactorInv
<1>7. CASE p # person
  <2>1. person' = IncrementAuthVersion(p)
    BY <1>2, <1>7
  <2> HIDE DEF p
  <2>2. /\ person' \in Person /\ person'.loginMFA = person.loginMFA /\ person'.active = changes[c].active
        /\ person'.admin = changes[c].flag /\ person'.version = person.version + 1 /\ person'.password = person.password
    BY <1>1, <2>1, NextVersion
  <2>3. FactorTypeOK'
    BY <1>0, <1>4, <2>2 DEF FactorInv, FactorTypeOK
  <2>4. VersionsInv' /\ PersonGoesOn
    BY <1>0, <1>4, <2>2, <2>3, VersionRises
  <2>5. RequiredFactorKept' /\ KeepsAWayIn'
    BY <1>0, <1>3, <2>2 DEF FactorInv, RequiredFactorKept, KeepsAWayIn, Enrolled
  <2> QED
    BY <1>0, <1>5, <2>3, <2>4, <2>5, SameGoOn DEF GoesOn, FactorInv
<1> QED
  BY <1>6, <1>7

LEMMA SetSecurityInv ==
    ASSUME FactorInv, NEW c \in ChangeRequests, SetSecurity(c)
    PROVE  FactorInv' /\ GoesOn
<1>0. /\ UNCHANGED <<person, factors, links, enabledProviders, logins, totpStep, waived>>
      /\ changes \in [ChangeRequests -> Change] /\ Finish(c)
      /\ security' = changes[c].policy /\ cachedSecurity' = changes[c].policy /\ changes[c].policy \in Security
      /\ changes[c].op = "settings" /\ changes[c].pc = "locked"
  BY DEF SetSecurity, Is, FactorInv, FactorTypeOK, Change
<1>1. devices' \in [Devices -> [version : Nat, live : BOOLEAN]]
  <2>1. \A d \in Devices : devices[d] \in [version : Nat, live : BOOLEAN] /\ [devices[d] EXCEPT !.live = FALSE] \in [version : Nat, live : BOOLEAN]
    BY DEF FactorInv, FactorTypeOK
  <2> QED
    BY <2>1 DEF SetSecurity
<1>2. /\ changes' \in [ChangeRequests -> Change] /\ changed' = changed
      /\ \A d \in ChangeRequests : d # c => changes'[d] = changes[d]
      /\ changes'[c].pc \notin {"locked", "rotate"}
  BY <1>0, Unlocks, NoChangeType DEF Finish
<1>3. FactorTypeOK'
  BY <1>0, <1>1, <1>2 DEF FactorInv, FactorTypeOK
<1>4. \A d \in ChangeRequests : d # c /\ changes[d].pc = "locked" => changes[d].op = "unlink" /\ LockedOK(d)
  BY <1>0 DEF FactorInv, LocksInv
<1>5. \A d \in ChangeRequests : d # c /\ changes[d].pc = "locked" => LockedOK(d)'
  BY <1>0, <1>2, <1>4 DEF LockedOK
<1>6. LocksInv'
  BY <1>2, <1>5, LocksStep DEF FactorInv
<1>7. VersionsInv'
  BY <1>0, <1>2 DEF FactorInv, VersionsInv
<1>8. changes[c].policy.admins /\ person.active /\ person.admin => Enrolled(factors)
  BY <1>0 DEF FactorInv, LocksInv, LockedOK
<1>9. RequiredFactorKept' /\ KeepsAWayIn'
  BY <1>0, <1>8 DEF FactorInv, RequiredFactorKept, KeepsAWayIn, Enrolled
<1> QED
  BY <1>0, <1>3, <1>6, <1>7, <1>9, SameGoOn DEF GoesOn, FactorInv

LEMMA ResetForRecoveryInv ==
    ASSUME FactorInv, NEW c \in ChangeRequests, ResetForRecovery(c)
    PROVE  FactorInv' /\ GoesOn
<1> DEFINE scope == changes[c].scope
<1>0. /\ UNCHANGED <<links, enabledProviders, cachedSecurity, logins, devices, totpStep>>
      /\ changes \in [ChangeRequests -> Change] /\ Finish(c) /\ factors' = LeftAfterReset(scope)
      /\ factors \in Factor /\ person \in Person /\ person' = IncrementAuthVersion(person)
      /\ changes[c].op = "reset" /\ changes[c].pc = "locked" /\ security \in Security
      /\ waived' = (waived \/ (person.loginMFA /\ ~Enrolled(factors')))
  BY DEF ResetForRecovery, Is, FactorInv, FactorTypeOK
<1>1. /\ factors' \in Factor /\ factors'.totp \in {factors.totp, "none"} /\ factors'.codes \in {factors.codes, {}}
      /\ factors'.issued = factors.issued /\ factors'.secret = factors.secret /\ factors'.last = factors.last
  BY <1>0 DEF LeftAfterReset, Factor
<1>2. /\ changes' \in [ChangeRequests -> Change] /\ changed' = changed
      /\ \A d \in ChangeRequests : d # c => changes'[d] = changes[d]
      /\ changes'[c].pc \notin {"locked", "rotate"}
  BY <1>0, Unlocks, NoChangeType DEF Finish
<1>3. /\ security' \in Security
      /\ security'.admins /\ person.active /\ person.admin => Enrolled(factors')
  <2>1. CASE PolicyConflict(c)
    <3>1. security' = [security EXCEPT !.admins = FALSE]
      BY <2>1 DEF ResetForRecovery, DisableAdminMFARequirementForRecovery
    <3> QED
      BY <1>0, <3>1 DEF Security
  <2>2. CASE ~PolicyConflict(c)
    <3>1. security' = security
      BY <2>2 DEF ResetForRecovery, DisableAdminMFARequirementForRecovery
    <3> QED
      BY <1>0, <2>2, <3>1 DEF PolicyConflict
  <2> QED
    BY <2>1, <2>2
<1>4. waived' \in BOOLEAN
  BY <1>0
<1>5. FactorTypeOK'
  BY <1>0, <1>1, <1>2, <1>3, <1>4, NextVersion DEF FactorInv, FactorTypeOK
<1>6. LocksInv'
  BY <1>0, <1>2, Alone, LocksStep DEF FactorInv
<1>7. VersionsInv' /\ PersonGoesOn
  BY <1>0, <1>2, <1>5, NextVersion, VersionRises
<1>8. person.password \/ links # {} \/ factors'.passkeys # {}
  BY <1>0 DEF FactorInv, LocksInv, LockedOK
<1>9. KeepsAWayIn'
  BY <1>0, <1>8, NextVersion DEF KeepsAWayIn
<1>10. RequiredFactorKept'
  BY <1>0, <1>3, NextVersion DEF RequiredFactorKept, Enrolled
<1>11. FactorsGoOn
  BY <1>0, <1>1, FactorFields DEF FactorsGoOn
<1> QED
  BY <1>0, <1>5, <1>6, <1>7, <1>9, <1>10, <1>11, SameGoOn DEF GoesOn, FactorInv

LEMMA AroundInv ==
    ASSUME FactorInv,
           ReloadSecurity \/ TimeStep \/ \E p \in Providers : EnableProvider(p)
    PROVE  FactorInv' /\ GoesOn
<1>0. UNCHANGED <<person, factors, links, security, logins, changes, devices, waived>>
  BY DEF ReloadSecurity, TimeStep, EnableProvider, policyVars, restVars
<1>1. totpStep' \in 1 .. LastStep /\ changed' \in 0 .. MaxChanges
  BY FactorAssumptions DEF ReloadSecurity, TimeStep, EnableProvider, restVars, FactorInv, FactorTypeOK
<1>2. cachedSecurity' \in Security /\ enabledProviders' \subseteq Providers
  BY DEF ReloadSecurity, TimeStep, EnableProvider, policyVars, FactorInv, FactorTypeOK
<1>3. FactorTypeOK'
  BY <1>0, <1>1, <1>2 DEF FactorInv, FactorTypeOK
<1>4. \A d \in ChangeRequests : LockedOK(d)'
  BY <1>0, LockedStays DEF FactorInv, LocksInv
<1>5. LocksInv'
  BY <1>0, <1>4 DEF FactorInv, LocksInv
<1>6. FactorInv'
  BY <1>0, <1>3, <1>5, AccountStays DEF FactorInv, VersionsInv
<1> QED
  BY <1>0, <1>6, SameGoOn DEF GoesOn, FactorInv

LEMMA CreateIdentityInv ==
    ASSUME FactorInv, NEW p \in Providers, CreateIdentity(p)
    PROVE  FactorInv' /\ GoesOn
<1>0. /\ UNCHANGED <<person, factors, enabledProviders, security, cachedSecurity, logins, changes, devices, totpStep, waived>>
      /\ LockUserRow /\ links' = links \cup {p}
  BY DEF CreateIdentity, policyVars, restVars
<1>1. changed' \in 0 .. MaxChanges
  BY FactorAssumptions DEF CreateIdentity, FactorInv, FactorTypeOK
<1>2. FactorTypeOK'
  BY <1>0, <1>1 DEF FactorInv, FactorTypeOK
<1>3. \A d \in ChangeRequests : LockedOK(d)'
  BY <1>0, RowIsLocked DEF LockedOK, Exclusive, Enrolled
<1>4. LocksInv'
  BY <1>0, <1>3 DEF FactorInv, LocksInv
<1>5. VersionsInv'
  BY <1>0 DEF FactorInv, VersionsInv
<1>6. RequiredFactorKept' /\ KeepsAWayIn'
  BY <1>0 DEF FactorInv, RequiredFactorKept, KeepsAWayIn, Enrolled
<1> QED
  BY <1>0, <1>2, <1>4, <1>5, <1>6, SameGoOn DEF GoesOn, FactorInv

LEMMA FactorNextInv == ASSUME FactorInv, FactorNext PROVE FactorInv' /\ GoesOn
<1>1. ASSUME NEW c \in ChangeRequests, ChangeStep(c) PROVE FactorInv' /\ GoesOn
  BY <1>1, LockRowsInv, SetLoginMFARequirementInv, BeginEnrollmentInv, ConfirmEnrollmentInv,
     RegenerateRecoveryCodesInv, DisableInv, DeletePasskeyInv, DeleteOwnedInv, SetPasswordIfMissingInv,
     RespondRotatedInv, UpdateAdminInv, SetSecurityInv, ResetForRecoveryInv, ChangeRefusedInv DEF ChangeStep
<1> QED
  BY <1>1, OwnerRequestInv, OperatorRequestInv, AroundInv, CreateIdentityInv DEF FactorNext

LEMMA FactorInitInv == FactorInit => FactorInv
<1> SUFFICES ASSUME FactorInit PROVE FactorInv
  OBVIOUS
<1>1. person \in Person /\ person.version = 1 /\ security \in Security /\ cachedSecurity \in Security
  <2>1. DefaultSecurity \in Security /\ [DefaultSecurity EXCEPT !.admins = TRUE] \in Security
    BY DEF DefaultSecurity, Security
  <2>2. person \in Person /\ person.version = 1
    <3>1. person \in [active : {TRUE}, admin : BOOLEAN, version : {1}, loginMFA : BOOLEAN, password : BOOLEAN]
      BY DEF FactorInit
    <3>2. TRUE \in BOOLEAN /\ 1 \in Nat
      OBVIOUS
    <3> QED
      BY <3>1, <3>2 DEF Person
  <2> QED
    BY <2>1, <2>2 DEF FactorInit
<1>2. factors \in Factor
  <2> PICK confirmed \in BOOLEAN, k \in SUBSET Passkeys :
          factors = [totp |-> IF confirmed THEN "confirmed" ELSE "none", secret |-> 1, last |-> 0,
                     codes |-> IF confirmed THEN {1} ELSE {}, issued |-> 1, passkeys |-> k]
    BY DEF FactorInit
  <2>1. (IF confirmed THEN "confirmed" ELSE "none") \in {"none", "unconfirmed", "confirmed"} /\ (IF confirmed THEN {1} ELSE {}) \in SUBSET Nat
    OBVIOUS
  <2> QED
    BY <2>1 DEF Factor
<1>3. logins \in [Logins -> Login] /\ \A l \in Logins : logins[l].version <= 1
  <2> PICK l \in Logins : logins = [x \in Logins |->
                       IF x = l THEN [NoSession EXCEPT !.version = 1, !.level = IF person.loginMFA THEN 2 ELSE 1]
                       ELSE NoSession]
    BY DEF FactorInit
  <2>1. /\ [NoSession EXCEPT !.version = 1, !.level = IF person.loginMFA THEN 2 ELSE 1] \in Login
        /\ [NoSession EXCEPT !.version = 1, !.level = IF person.loginMFA THEN 2 ELSE 1].version = 1
    BY NoSessionType DEF Login
  <2> QED
    BY <2>1, NoSessionType
<1>4. changes \in [ChangeRequests -> Change] /\ \A c \in ChangeRequests : changes[c] = NoChange
  BY NoChangeType DEF FactorInit
<1>5. changed \in 0 .. MaxChanges /\ totpStep \in 1 .. LastStep
  BY FactorAssumptions DEF FactorInit
<1>6. devices \in [Devices -> [version : Nat, live : BOOLEAN]] /\ links \subseteq Providers /\ enabledProviders \subseteq Providers
      /\ waived \in BOOLEAN
  BY DEF FactorInit
<1>7. FactorTypeOK
  BY <1>1, <1>2, <1>3, <1>4, <1>5, <1>6 DEF FactorTypeOK
<1>8. LocksInv /\ VersionsInv
  BY <1>1, <1>3, <1>4, NoChangeType DEF LocksInv, LockedOK, VersionsInv
<1>9. RequiredFactorKept /\ KeepsAWayIn
  BY DEF FactorInit, RequiredFactorKept, KeepsAWayIn
<1> QED
  BY <1>7, <1>8, <1>9 DEF FactorInv

-----------------------------------------------------------------------------
(* Signing in. *)

(* What has been taken out of Redis does not come back.                    *)
RedisGoesOn ==
    /\ \A ch \in Challenges : challenges[ch].state = "gone" => challenges'[ch].state = "gone"
    /\ \A cer \in Ceremonies : ceremonies[cer].state = "gone" => ceremonies'[cer].state = "gone"

LEMMA NoAttemptType == NoAttempt \in Attempt /\ NoAttempt.pc = "idle" /\ NoAttempt.version = 0
  BY DEF NoAttempt, Attempt, Purposes

LEMMA SpentStays ==
    ASSUME factors \in Factor, factors' \in Factor, FactorsGoOn, RedisGoesOn, NEW f, Spent(factors, ceremonies, f)
    PROVE  Spent(factors', ceremonies', f)
<1>1. f \in VerifiedFactor
  BY DEF Spent
<1>2. /\ factors.secret \in Nat /\ factors.issued \in Nat /\ factors.last \in Nat
      /\ factors'.secret \in Nat /\ factors'.issued \in Nat /\ factors'.last \in Nat
  BY DEF Factor
<1>3. CASE f \in {"totp"} \X Nat \X Nat
  <2>1. PICK s \in Nat, k \in Nat : f = <<"totp", s, k>>
    BY <1>3
  <2>2. SpentCode(factors, s, k)
    BY <2>1 DEF Spent
  <2>3. SpentCode(factors', s, k)
    BY <1>2, <2>2 DEF SpentCode, FactorsGoOn
  <2> QED
    BY <1>1, <2>1, <2>3 DEF Spent
<1>4. CASE f \in {"recovery_code"} \X Nat
  <2>1. PICK n \in Nat : f = <<"recovery_code", n>>
    BY <1>4
  <2>2. n <= factors.issued /\ n \notin factors.codes
    BY <2>1 DEF Spent
  <2>3. n <= factors'.issued /\ n \notin factors'.codes
    BY <1>2, <2>2 DEF FactorsGoOn
  <2> QED
    BY <1>1, <2>1, <2>3 DEF Spent
<1>5. CASE f \in {"passkey"} \X Ceremonies
  <2>1. PICK cer \in Ceremonies : f = <<"passkey", cer>>
    BY <1>5
  <2>2. ceremonies'[cer].state = "gone"
    BY <2>1 DEF Spent, RedisGoesOn
  <2> QED
    BY <1>1, <2>1, <2>2 DEF Spent
<1> QED
  BY <1>1, <1>3, <1>4, <1>5 DEF VerifiedFactor

LEMMA AnsweredStays == ASSUME RedisGoesOn, NEW ch, Answered(challenges, ch) PROVE Answered(challenges', ch)
  BY DEF RedisGoesOn, Answered

LEMMA UsedStays ==
    ASSUME factors \in Factor, factors' \in Factor, FactorsGoOn, RedisGoesOn, NEW x,
           Used(factors, ceremonies, challenges, x)
    PROVE  Used(factors', ceremonies', challenges', x)
  BY SpentStays, AnsweredStays DEF Used

(* No attempt gets a proof it did not have.                                *)
LEMMA ProofsStay ==
    ASSUME AccountInv, factors' \in Factor, FactorsGoOn, RedisGoesOn, UNCHANGED completions, NEW a,
           \A b \in Attempts : b # a => attempts'[b] = attempts[b],
           a \in Attempts => attempts'[a].pc # "complete",
           ProofsInv
    PROVE  ProofsInv'
<1>0. factors \in Factor
  BY DEF AccountInv, FactorInv, FactorTypeOK
<1>2. \A b \in Completing' : b \in Completing /\ attempts'[b] = attempts[b]
  BY DEF Completing
<1>3. \A x : Used(factors, ceremonies, challenges, x) => Used(factors', ceremonies', challenges', x)
  BY <1>0, UsedStays
<1>5. \A x \in completions' : Used(factors', ceremonies', challenges', x)
  BY <1>3 DEF ProofsInv
<1>6. \A b \in Completing' : Used(factors', ceremonies', challenges', attempts'[b])
  BY <1>2, <1>3 DEF ProofsInv
<1>8. /\ \A x, y \in completions' : x # y => Apart(x, y)
      /\ \A x \in completions', b \in Completing' : Apart(x, attempts'[b])
      /\ \A b, c \in Completing' : b # c => Apart(attempts'[b], attempts'[c])
  BY <1>2 DEF ProofsInv
<1> QED
  BY <1>5, <1>6, <1>8 DEF ProofsInv

(* An attempt whose factor has just been verified.                         *)
LEMMA ProofsVerified ==
    ASSUME AccountInv, factors' \in Factor, FactorsGoOn, RedisGoesOn, UNCHANGED completions,
           NEW a \in Attempts, \A b \in Attempts : b # a => attempts'[b] = attempts[b],
           attempts'[a].pc = "complete",
           \/ attempts'[a].factor = NoFactor
           \/ /\ ~Spent(factors, ceremonies, attempts'[a].factor) /\ Spent(factors', ceremonies', attempts'[a].factor)
              /\ ~Answered(challenges, attempts'[a].challenge) \/ attempts'[a].challenge = NoChallenge
              /\ Answered(challenges', attempts'[a].challenge),
           ProofsInv
    PROVE  ProofsInv'
<1>0. factors \in Factor
  BY DEF AccountInv, FactorInv, FactorTypeOK
<1>2. \A b \in Completing' : b # a => b \in Completing /\ attempts'[b] = attempts[b]
  BY DEF Completing
<1>3. \A x : Used(factors, ceremonies, challenges, x) => Used(factors', ceremonies', challenges', x)
  BY <1>0, UsedStays
<1>5. \A x \in completions' : Used(factors', ceremonies', challenges', x)
  BY <1>3 DEF ProofsInv
<1>6. \A b \in Completing' : Used(factors', ceremonies', challenges', attempts'[b])
  <2>1. Used(factors', ceremonies', challenges', attempts'[a])
    BY DEF Used
  <2> QED
    BY <1>2, <1>3, <2>1 DEF ProofsInv
<1>8. \A x \in completions : Apart(x, attempts'[a])
  BY DEF ProofsInv, Used, Apart
<1>9. \A b \in Completing' : b # a => Apart(attempts'[b], attempts'[a]) /\ Apart(attempts'[a], attempts'[b])
  BY <1>2 DEF ProofsInv, Used, Apart
<1>10. \A x \in completions', b \in Completing' : Apart(x, attempts'[b])
  BY <1>2, <1>8 DEF ProofsInv
<1>11. \A b, c \in Completing' : b # c => Apart(attempts'[b], attempts'[c])
  BY <1>2, <1>9 DEF ProofsInv
<1>12. \A x, y \in completions' : x # y => Apart(x, y)
  BY DEF ProofsInv
<1> QED
  BY <1>5, <1>6, <1>10, <1>11, <1>12 DEF ProofsInv

(* An attempt completes, and hands its proof over.                         *)
LEMMA ProofsComplete ==
    ASSUME UNCHANGED <<factors, challengeVars>>, NEW a \in Completing,
           \A b \in Attempts : b # a => attempts'[b] = attempts[b], attempts'[a].pc = "idle",
           NEW x, x.factor = attempts[a].factor, x.challenge = attempts[a].challenge,
           completions' = completions \cup {x}, ProofsInv
    PROVE  ProofsInv'
<1>1. \A b \in Completing' : b # a /\ b \in Completing /\ attempts'[b] = attempts[b]
  BY DEF Completing
<1>3. Used(factors, ceremonies, challenges, x)
  BY DEF ProofsInv, Used
<1>4. \A y \in completions : Apart(x, y) /\ Apart(y, x)
  BY DEF ProofsInv, Apart
<1>5. \A b \in Completing' : Apart(x, attempts'[b])
  BY <1>1 DEF ProofsInv, Apart
<1>6. \A y \in completions', b \in Completing' : Apart(y, attempts'[b])
  BY <1>1, <1>5 DEF ProofsInv
<1>7. \A y, z \in completions' : y # z => Apart(y, z)
  BY <1>4 DEF ProofsInv
<1>8. \A b, c \in Completing' : b # c => Apart(attempts'[b], attempts'[c])
  BY <1>1 DEF ProofsInv
<1>9. \A y \in completions' : Used(factors', ceremonies', challenges', y)
  BY <1>3 DEF ProofsInv, challengeVars
<1>10. \A b \in Completing' : Used(factors', ceremonies', challenges', attempts'[b])
  BY <1>1 DEF ProofsInv, challengeVars
<1> QED
  BY <1>6, <1>7, <1>8, <1>9, <1>10 DEF ProofsInv

(* Versions only rise; a session or a sign-in under an older one stays one. *)
LEMMA AccountStep ==
    ASSUME AccountInv, FactorInv', PersonGoesOn, FactorsGoOn,
           challenges' \in [Challenges -> Challenge], ceremonies' \in [Ceremonies -> Ceremony],
           attempts' \in [Attempts -> Attempt], attempted' \in 0 .. MaxAttempts,
           \A l \in Logins : \/ logins'[l] = logins[l]
                             \/ logins'[l].version = person'.version /\ person'.loginMFA /\ logins'[l].by = "login"
                                  => logins'[l].level = 2,
           NEW a, \A b \in Attempts : b # a => attempts'[b] = attempts[b],
           a \in Attempts => AttemptOK(a)'
    PROVE  AccountInv'
<1>1. SignInTypeOK'
  BY DEF FactorInv, SignInTypeOK
<1>2. person.version \in Nat /\ person'.version \in Nat
  BY NextVersion DEF AccountInv, FactorInv, FactorTypeOK
<1>3. \A l \in Logins : logins[l].version \in Nat /\ logins[l].version <= person.version
  BY DEF AccountInv, FactorInv, FactorTypeOK, VersionsInv, Login
<1>4. LevelsInv'
  <2> SUFFICES ASSUME NEW l \in Logins, logins'[l].version = person'.version, person'.loginMFA, logins'[l].by = "login"
               PROVE  logins'[l].level = 2
    BY DEF LevelsInv
  <2>1. CASE logins'[l] = logins[l]
    <3>1. person'.version = person.version
      BY <1>2, <1>3, <2>1 DEF PersonGoesOn
    <3>2. person.loginMFA
      BY <3>1 DEF PersonGoesOn
    <3> QED
      BY <2>1, <3>1, <3>2 DEF LevelsInv, AccountInv
  <2> QED
    BY <2>1
<1>5. \A b \in Attempts : attempts[b].version \in Nat
  BY DEF AccountInv, SignInTypeOK, Attempt
<1>6. \A b \in Attempts : b # a => AttemptOK(b)'
  BY <1>2, <1>5 DEF AttemptOK, AccountInv, PersonGoesOn
<1>7. \A n \in factors'.codes : n <= factors'.issued
  <2>1. factors \in Factor /\ factors' \in Factor
    BY DEF AccountInv, FactorInv, FactorTypeOK
  <2>2. /\ factors.issued \in Nat /\ factors'.issued \in Nat /\ factors'.codes \subseteq Nat
        /\ factors.codes \subseteq Nat
    BY <2>1 DEF Factor
  <2> QED
    BY <2>2 DEF FactorsGoOn, AccountInv
<1> QED
  BY <1>1, <1>4, <1>6, <1>7 DEF AccountInv

(* The steps that do not touch the account.                                *)
LEMMA OtherStep ==
    ASSUME AccountInv, UNCHANGED <<factorVars, completions>>, RedisGoesOn,
           challenges' \in [Challenges -> Challenge], ceremonies' \in [Ceremonies -> Ceremony],
           attempts' \in [Attempts -> Attempt], attempted' \in 0 .. MaxAttempts,
           NEW a, \A b \in Attempts : b # a => attempts'[b] = attempts[b],
           a \in Attempts => /\ AttemptOK(a)' /\ attempts'[a].pc # "complete"
    PROVE  AccountInv' /\ (ProofsInv => ProofsInv')
<1>1. FactorTypeOK' /\ factors' \in Factor
  BY DEF AccountInv, FactorInv, FactorTypeOK, factorVars
<1>2. FactorsGoOn /\ PersonGoesOn
  BY SameGoOn DEF AccountInv, FactorInv, factorVars
<1>3. FactorInv'
  <2>1. \A d \in ChangeRequests : LockedOK(d)'
    BY LockedStays DEF AccountInv, FactorInv, LocksInv, factorVars
  <2>2. LocksInv'
    BY <2>1 DEF AccountInv, FactorInv, LocksInv, factorVars
  <2> QED
    BY <1>1, <2>2, AccountStays DEF AccountInv, FactorInv, VersionsInv, factorVars
<1>4. AccountInv'
  BY <1>2, <1>3, AccountStep DEF factorVars
<1>5. ProofsInv => ProofsInv'
  BY <1>1, <1>2, ProofsStay
<1> QED
  BY <1>4, <1>5

LEMMA StartType ==
    ASSUME attempts \in [Attempts -> Attempt], attempted \in 0 .. MaxAttempts,
           NEW a \in Attempts, NEW r \in Attempt, StartAttempt(a, r)
    PROVE  /\ attempts' \in [Attempts -> Attempt] /\ attempted' \in 0 .. MaxAttempts
           /\ \A b \in Attempts : b # a => attempts'[b] = attempts[b]
           /\ attempts'[a].pc = r.pc /\ attempts'[a].version = r.version /\ attempts'[a].required = r.required
           /\ attempts'[a].challenge = r.challenge /\ attempts'[a].ceremony = r.ceremony /\ attempts'[a].method = r.method
<1> DEFINE q == [r EXCEPT !.serial = attempted + 1]
<1>1. attempted + 1 \in Nat /\ attempted' \in 0 .. MaxAttempts
  BY SignInAssumptions DEF StartAttempt
<1>2. /\ q \in Attempt /\ q.pc = r.pc /\ q.version = r.version /\ q.required = r.required
      /\ q.challenge = r.challenge /\ q.ceremony = r.ceremony /\ q.method = r.method
  BY <1>1 DEF Attempt
<1>3. attempts' = [attempts EXCEPT ![a] = q]
  BY DEF StartAttempt
<1> HIDE DEF q
<1> QED
  BY <1>1, <1>2, <1>3

(* A request begins.                                                       *)
LEMMA StartInv ==
    ASSUME AccountInv, NEW a \in Attempts, NEW r \in Attempt, StartAttempt(a, r),
           UNCHANGED <<factorVars, challengeVars, completions>>,
           r.version <= person.version, r.pc = "primary" /\ person.loginMFA => r.required, r.pc # "complete",
           r.pc = "verify" => r.challenge \in Challenges,
           r.pc \in {"assert", "register"} => r.ceremony \in Ceremonies
    PROVE  AccountInv' /\ (ProofsInv => ProofsInv')
<1>0. /\ attempts \in [Attempts -> Attempt] /\ attempted \in 0 .. MaxAttempts
      /\ challenges' \in [Challenges -> Challenge] /\ ceremonies' \in [Ceremonies -> Ceremony]
      /\ UNCHANGED person
  BY DEF AccountInv, SignInTypeOK, challengeVars, factorVars
<1>1. /\ attempts' \in [Attempts -> Attempt] /\ attempted' \in 0 .. MaxAttempts
      /\ \A b \in Attempts : b # a => attempts'[b] = attempts[b]
      /\ attempts'[a].pc = r.pc /\ attempts'[a].version = r.version /\ attempts'[a].required = r.required
      /\ attempts'[a].challenge = r.challenge /\ attempts'[a].ceremony = r.ceremony /\ attempts'[a].method = r.method
  BY <1>0, StartType
<1>2. AttemptOK(a)'
  BY <1>0, <1>1 DEF AttemptOK
<1>3. RedisGoesOn
  BY DEF RedisGoesOn, challengeVars
<1> QED
  BY <1>0, <1>1, <1>2, <1>3, OtherStep

LEMMA EndType ==
    ASSUME attempts \in [Attempts -> Attempt], NEW a \in Attempts, EndAttempt(a)
    PROVE  /\ attempts' \in [Attempts -> Attempt] /\ attempted' = attempted /\ attempts'[a] = NoAttempt
           /\ \A b \in Attempts : b # a => attempts'[b] = attempts[b]
  BY NoAttemptType DEF EndAttempt

LEMMA EndedOK ==
    ASSUME person' \in Person, NEW a, attempts'[a] = NoAttempt
    PROVE  AttemptOK(a)' /\ attempts'[a].pc \notin {"complete", "verify"}
  BY NextVersion, NoAttemptType DEF AttemptOK

-----------------------------------------------------------------------------
(* Redis. *)

LEMMA SaveChallenge ==
    ASSUME challenges \in [Challenges -> Challenge], NEW ch \in Challenges, NEW data \in Challenge, SaveMFAPending(ch, data)
    PROVE  /\ challenges' \in [Challenges -> Challenge]
           /\ \A x \in Challenges : challenges[x].state = "gone" => challenges'[x].state = "gone"
  BY DEF SaveMFAPending

LEMMA SaveCeremony ==
    ASSUME ceremonies \in [Ceremonies -> Ceremony], NEW cer \in Ceremonies, NEW data \in Ceremony, SaveWebAuthnCeremony(cer, data)
    PROVE  /\ ceremonies' \in [Ceremonies -> Ceremony]
           /\ \A x \in Ceremonies : ceremonies[x].state = "gone" => ceremonies'[x].state = "gone"
  BY DEF SaveWebAuthnCeremony

LEMMA TakeChallenge ==
    ASSUME challenges \in [Challenges -> Challenge], NEW ch \in Challenges, ConsumeMFAPending(ch)
    PROVE  /\ challenges' \in [Challenges -> Challenge]
           /\ challenges[ch].state = "open" /\ challenges'[ch].state = "gone"
           /\ \A x \in Challenges : challenges[x].state = "gone" => challenges'[x].state = "gone"
  BY DEF ConsumeMFAPending, Challenge

LEMMA TakeCeremony ==
    ASSUME ceremonies \in [Ceremonies -> Ceremony], NEW cer \in Ceremonies, ConsumeWebAuthnCeremony(cer)
    PROVE  /\ ceremonies' \in [Ceremonies -> Ceremony]
           /\ ceremonies[cer].state = "open" /\ ceremonies'[cer].state = "gone"
           /\ \A x \in Ceremonies : ceremonies[x].state = "gone" => ceremonies'[x].state = "gone"
  BY DEF ConsumeWebAuthnCeremony, Ceremony

LEMMA AccountFields ==
    ASSUME AccountInv
    PROVE  /\ FactorInv /\ person \in Person /\ person.version \in Nat /\ person.version >= 1 /\ factors \in Factor
           /\ logins \in [Logins -> Login] /\ changes \in [ChangeRequests -> Change]
           /\ challenges \in [Challenges -> Challenge] /\ ceremonies \in [Ceremonies -> Ceremony]
           /\ attempts \in [Attempts -> Attempt] /\ attempted \in 0 .. MaxAttempts
           /\ \A l \in Logins : logins[l].version \in Nat /\ logins[l].version <= person.version
           /\ \A a \in Attempts : attempts[a].version \in Nat /\ attempts[a].version <= person.version /\ AttemptOK(a)
<1>1. /\ FactorInv /\ person \in Person /\ person.version >= 1 /\ factors \in Factor
      /\ logins \in [Logins -> Login] /\ changes \in [ChangeRequests -> Change]
      /\ challenges \in [Challenges -> Challenge] /\ ceremonies \in [Ceremonies -> Ceremony]
      /\ attempts \in [Attempts -> Attempt] /\ attempted \in 0 .. MaxAttempts
  BY DEF AccountInv, FactorInv, FactorTypeOK, SignInTypeOK, VersionsInv
<1>2. \A l \in Logins : logins[l].version \in Nat /\ logins[l].version <= person.version
  BY <1>1 DEF FactorInv, VersionsInv, Login
<1>3. \A a \in Attempts : attempts[a].version \in Nat /\ attempts[a].version <= person.version /\ AttemptOK(a)
  BY <1>1 DEF AccountInv, AttemptOK, Attempt
<1> QED
  BY <1>1, <1>2, <1>3, NextVersion

LEMMA BeginStepInv ==
    ASSUME AccountInv, BeginStep
    PROVE  AccountInv' /\ (ProofsInv => ProofsInv')
<1> DEFINE none == CHOOSE s : s \notin Attempts
<1>0. none \notin Attempts
  BY NoSetContainsEverything
<1> HIDE DEF none
<1>1. ASSUME UNCHANGED <<factorVars, completions, attempts>>, RedisGoesOn, attempted' \in 0 .. MaxAttempts,
             challenges' \in [Challenges -> Challenge], ceremonies' \in [Ceremonies -> Ceremony]
      PROVE  AccountInv' /\ (ProofsInv => ProofsInv')
  BY <1>0, <1>1, AccountFields, OtherStep
<1>2. Counted => UNCHANGED attempts /\ attempted' \in 0 .. MaxAttempts
  BY AccountFields, SignInAssumptions DEF Counted
<1>3. ASSUME NEW l \in Logins, NEW ch \in Challenges,
             HandlePasswordReauthentication(l, ch) \/ HandleConsentStepUp(l, ch)
      PROVE  AccountInv' /\ (ProofsInv => ProofsInv')
  <2>1. \A p \in Purposes : [state |-> "open", purpose |-> p, version |-> person.version, login |-> l] \in Challenge
    BY AccountFields DEF Challenge
  <2>2. PICK p \in Purposes : SaveMFAPending(ch, [state |-> "open", purpose |-> p, version |-> person.version, login |-> l])
    BY <1>3 DEF HandlePasswordReauthentication, HandleConsentStepUp, BeginReauthenticationMFAPending,
                BeginOAuthStepUpMFAPending, Purposes
  <2>3. /\ challenges' \in [Challenges -> Challenge]
        /\ \A x \in Challenges : challenges[x].state = "gone" => challenges'[x].state = "gone"
    BY <2>1, <2>2, AccountFields, SaveChallenge
  <2>4. UNCHANGED <<factorVars, ceremonies, completions>> /\ Counted
    BY <1>3 DEF HandlePasswordReauthentication, HandleConsentStepUp
  <2>5. RedisGoesOn
    BY <2>3, <2>4 DEF RedisGoesOn
  <2> QED
    BY <1>1, <1>2, <2>3, <2>4, <2>5, AccountFields
<1>4. ASSUME NEW cer \in Ceremonies, NEW data \in Ceremony, SaveWebAuthnCeremony(cer, data), Counted,
             UNCHANGED <<factorVars, challenges, completions>>
      PROVE  AccountInv' /\ (ProofsInv => ProofsInv')
  <2>1. /\ ceremonies' \in [Ceremonies -> Ceremony]
        /\ \A x \in Ceremonies : ceremonies[x].state = "gone" => ceremonies'[x].state = "gone"
    BY <1>4, AccountFields, SaveCeremony
  <2>2. RedisGoesOn
    BY <1>4, <2>1 DEF RedisGoesOn
  <2> QED
    BY <1>1, <1>2, <1>4, <2>1, <2>2, AccountFields
<1>5. ASSUME NEW cer \in Ceremonies, HandleBeginPasskeyLogin(cer)
      PROVE  AccountInv' /\ (ProofsInv => ProofsInv')
  <2>1. BeginDiscoverablePasskeyLogin \in Ceremony
    BY DEF BeginDiscoverablePasskeyLogin, NoCeremonyData, Ceremony
  <2> QED
    BY <1>4, <1>5, <2>1 DEF HandleBeginPasskeyLogin
<1>6. ASSUME NEW cer \in Ceremonies, NEW ch \in Challenges, HandleBeginMFAPasskey(cer, ch)
      PROVE  AccountInv' /\ (ProofsInv => ProofsInv')
  <2>1. challenges[ch].version \in Nat
    BY AccountFields DEF Challenge
  <2>2. BeginKnownPasskeyAuthentication("mfa", challenges[ch].version, NoLogin, ch) \in Ceremony
    BY <2>1 DEF BeginKnownPasskeyAuthentication, Ceremony
  <2> QED
    BY <1>4, <1>6, <2>2 DEF HandleBeginMFAPasskey
<1>7. ASSUME NEW cer \in Ceremonies, NEW l \in Logins, HandleBeginPasskeyReauthentication(cer, l) \/ HandleBeginPasskeyRegistration(cer, l)
      PROVE  AccountInv' /\ (ProofsInv => ProofsInv')
  <2>1. logins[l].version \in Nat
    BY AccountFields
  <2>2. BeginKnownPasskeyAuthentication("reauthentication", logins[l].version, l, NoChallenge) \in Ceremony
    BY <2>1 DEF BeginKnownPasskeyAuthentication, Ceremony
  <2>3. BeginPasskeyRegistration(l) \in Ceremony
    BY <2>1 DEF BeginPasskeyRegistration, NoCeremonyData, Ceremony
  <2> QED
    BY <1>4, <1>7, <2>2, <2>3 DEF HandleBeginPasskeyReauthentication, HandleBeginPasskeyRegistration
<1>8. ASSUME NEW ch \in Challenges, DeleteMFAPending(ch)
      PROVE  AccountInv' /\ (ProofsInv => ProofsInv')
  <2>1. /\ challenges' \in [Challenges -> Challenge]
        /\ \A x \in Challenges : challenges[x].state = "gone" => challenges'[x].state = "gone"
    BY <1>8, AccountFields, TakeChallenge DEF DeleteMFAPending
  <2>2. UNCHANGED <<factorVars, ceremonies, attempts, attempted, completions>>
    BY <1>8 DEF DeleteMFAPending
  <2>3. RedisGoesOn
    BY <2>1, <2>2 DEF RedisGoesOn
  <2> QED
    BY <1>1, <2>1, <2>2, <2>3, AccountFields
<1>9. ASSUME NEW cer \in Ceremonies, CeremonyExpires(cer)
      PROVE  AccountInv' /\ (ProofsInv => ProofsInv')
  <2>1. /\ ceremonies' \in [Ceremonies -> Ceremony]
        /\ \A x \in Ceremonies : ceremonies[x].state = "gone" => ceremonies'[x].state = "gone"
    BY <1>9, AccountFields, TakeCeremony DEF CeremonyExpires
  <2>2. UNCHANGED <<factorVars, challenges, attempts, attempted, completions>>
    BY <1>9 DEF CeremonyExpires
  <2>3. RedisGoesOn
    BY <2>1, <2>2 DEF RedisGoesOn
  <2> QED
    BY <1>1, <2>1, <2>2, <2>3, AccountFields
<1>10. ASSUME NEW gone \in SUBSET Devices, RevokeDevices(gone)
      PROVE  AccountInv' /\ (ProofsInv => ProofsInv')
  <2>1. devices' \in [Devices -> [version : Nat, live : BOOLEAN]]
    <3>1. \A d \in Devices : devices[d] \in [version : Nat, live : BOOLEAN] /\ [devices[d] EXCEPT !.live = FALSE] \in [version : Nat, live : BOOLEAN]
      BY DEF AccountInv, FactorInv, FactorTypeOK
    <3> QED
      BY <1>10, <3>1 DEF RevokeDevices
  <2>2. UNCHANGED <<person, factors, links, policyVars, logins, changes, changed, totpStep, waived,
                   challengeVars, attempts, attempted, completions>>
    BY <1>10 DEF RevokeDevices
  <2>3. FactorTypeOK'
    BY <2>1, <2>2 DEF AccountInv, FactorInv, FactorTypeOK, policyVars
  <2>4. \A d \in ChangeRequests : LockedOK(d)'
    BY <2>2, LockedStays DEF AccountInv, FactorInv, LocksInv, policyVars
  <2>5. LocksInv'
    BY <2>2, <2>4 DEF AccountInv, FactorInv, LocksInv
  <2>6. FactorInv'
    BY <2>2, <2>3, <2>5, AccountStays DEF AccountInv, FactorInv, VersionsInv, policyVars
  <2>7. FactorsGoOn /\ PersonGoesOn /\ RedisGoesOn
    BY <2>2, SameGoOn DEF AccountInv, FactorInv, RedisGoesOn, challengeVars
  <2>8. AccountInv'
    BY <1>0, <2>2, <2>6, <2>7, AccountFields, AccountStep DEF challengeVars
  <2>9. ProofsInv => ProofsInv'
    BY <1>0, <2>2, <2>7, AccountFields, ProofsStay
  <2> QED
    BY <2>8, <2>9
<1> QED
  BY <1>3, <1>5, <1>6, <1>7, <1>8, <1>9, <1>10 DEF BeginStep

-----------------------------------------------------------------------------
(* The requests that sign in or prove a factor. *)

LEMMA RequestStarts ==
    ASSUME AccountInv, NEW a \in Attempts,
           \/ \E d \in Issued \cup {NoDevice} : Authenticate(a, d)
           \/ \E ch \in Challenges, m \in LoginMethods : HandleVerifyMFAChallenge(a, ch, m)
           \/ \E cer \in Ceremonies : HandleFinishPasskeyLogin(a, cer)
           \/ \E cer \in Ceremonies, ch \in Challenges : HandleFinishMFAPasskey(a, cer, ch)
           \/ \E cer \in Ceremonies, l \in Logins : HandleFinishPasskeyReauthentication(a, cer, l)
           \/ \E cer \in Ceremonies, l \in Logins : HandleFinishPasskeyRegistration(a, cer, l)
    PROVE  AccountInv' /\ (ProofsInv => ProofsInv')
<1>0. person \in Person /\ person.version \in Nat /\ person.loginMFA \in BOOLEAN /\ person.admin \in BOOLEAN
  BY AccountFields DEF Person
<1>1. ASSUME NEW d \in Issued \cup {NoDevice}, Authenticate(a, d)
      PROVE  AccountInv' /\ (ProofsInv => ProofsInv')
  <2> DEFINE r == [NoAttempt EXCEPT !.pc = "primary", !.version = person.version,
                                    !.required = person.loginMFA, !.admin = person.admin, !.device = d]
  <2>1. d \in Devices \cup {NoDevice}
    BY DEF Issued
  <2>2. r \in Attempt /\ r.pc = "primary" /\ r.version = person.version /\ r.required = person.loginMFA
    BY <1>0, <2>1, NoAttemptType DEF Attempt
  <2>3. StartAttempt(a, r) /\ UNCHANGED <<factorVars, challengeVars, completions>>
    BY <1>1 DEF Authenticate
  <2> HIDE DEF r
  <2> QED
    BY <1>0, <2>2, <2>3, StartInv
<1>2. ASSUME NEW ch \in Challenges, NEW pc \in {"verify", "assert"}, NEW m \in {"totp", "recovery_code", "passkey"}
      PROVE  /\ AnswerTo(ch, pc, m) \in Attempt /\ AnswerTo(ch, pc, m).pc = pc /\ AnswerTo(ch, pc, m).method = m
             /\ AnswerTo(ch, pc, m).challenge = ch /\ AnswerTo(ch, pc, m).version = challenges[ch].version
  <2>1. challenges[ch].purpose \in Purposes /\ challenges[ch].version \in Nat /\ challenges[ch].login \in Logins \cup {NoLogin}
    BY AccountFields DEF Challenge
  <2> QED
    BY <2>1, NoAttemptType DEF AnswerTo, Attempt
<1>3. ASSUME NEW ch \in Challenges, NEW m \in LoginMethods, HandleVerifyMFAChallenge(a, ch, m)
      PROVE  AccountInv' /\ (ProofsInv => ProofsInv')
  <2> DEFINE r == AnswerTo(ch, "verify", m)
  <2>1. m \in {"totp", "recovery_code", "passkey"}
    BY DEF LoginMethods
  <2>2. r \in Attempt /\ r.pc = "verify" /\ r.method = m /\ r.challenge = ch /\ r.version = challenges[ch].version
    BY <1>2, <2>1
  <2>3. /\ StartAttempt(a, r) /\ UNCHANGED <<factorVars, challengeVars, completions>>
        /\ challenges[ch].version = person.version
    BY <1>3 DEF HandleVerifyMFAChallenge, LoadMFAPendingUser
  <2> HIDE DEF r
  <2> QED
    BY <1>0, <2>2, <2>3, StartInv
<1>4. ASSUME NEW cer \in Ceremonies, HandleFinishPasskeyLogin(a, cer)
      PROVE  AccountInv' /\ (ProofsInv => ProofsInv')
  <2> DEFINE r == [NoAttempt EXCEPT !.pc = "assert", !.method = "passkey", !.ceremony = cer]
  <2>1. r \in Attempt /\ r.pc = "assert" /\ r.version = 0 /\ r.ceremony = cer
    BY NoAttemptType DEF Attempt
  <2>2. StartAttempt(a, r) /\ UNCHANGED <<factorVars, challengeVars, completions>>
    BY <1>4 DEF HandleFinishPasskeyLogin
  <2> HIDE DEF r
  <2> QED
    BY <1>0, <2>1, <2>2, StartInv
<1>5. ASSUME NEW cer \in Ceremonies, NEW ch \in Challenges, HandleFinishMFAPasskey(a, cer, ch)
      PROVE  AccountInv' /\ (ProofsInv => ProofsInv')
  <2> DEFINE q == AnswerTo(ch, "assert", "passkey")
             r == [q EXCEPT !.ceremony = cer]
  <2>1. q \in Attempt /\ q.pc = "assert" /\ q.version = challenges[ch].version
    BY <1>2
  <2>2. /\ StartAttempt(a, r) /\ UNCHANGED <<factorVars, challengeVars, completions>>
        /\ challenges[ch].version = person.version
    BY <1>5 DEF HandleFinishMFAPasskey, LoadMFAPendingUser
  <2> HIDE DEF q
  <2>3. r \in Attempt /\ r.pc = "assert" /\ r.ceremony = cer /\ r.version = challenges[ch].version
    BY <2>1 DEF Attempt
  <2> HIDE DEF r
  <2> QED
    BY <1>0, <2>2, <2>3, StartInv
<1>6. ASSUME NEW cer \in Ceremonies, NEW l \in Logins, HandleFinishPasskeyReauthentication(a, cer, l)
      PROVE  AccountInv' /\ (ProofsInv => ProofsInv')
  <2> DEFINE r == [NoAttempt EXCEPT !.pc = "assert", !.method = "passkey", !.ceremony = cer,
                            !.purpose = "reauthentication", !.version = logins[l].version, !.login = l]
  <2>1. logins[l].version \in Nat /\ logins[l].version <= person.version
    BY AccountFields
  <2>2. r \in Attempt /\ r.pc = "assert" /\ r.version = logins[l].version /\ r.ceremony = cer
    BY <2>1, NoAttemptType DEF Attempt, Purposes
  <2>3. StartAttempt(a, r) /\ UNCHANGED <<factorVars, challengeVars, completions>>
    BY <1>6 DEF HandleFinishPasskeyReauthentication
  <2> HIDE DEF r
  <2> QED
    BY <2>1, <2>2, <2>3, StartInv
<1>7. ASSUME NEW cer \in Ceremonies, NEW l \in Logins, HandleFinishPasskeyRegistration(a, cer, l)
      PROVE  AccountInv' /\ (ProofsInv => ProofsInv')
  <2> DEFINE r == [NoAttempt EXCEPT !.pc = "register", !.method = "passkey", !.ceremony = cer,
                            !.version = logins[l].version, !.login = l]
  <2>1. logins[l].version \in Nat /\ logins[l].version <= person.version
    BY AccountFields
  <2>2. r \in Attempt /\ r.pc = "register" /\ r.version = logins[l].version /\ r.ceremony = cer
    BY <2>1, NoAttemptType DEF Attempt
  <2>3. StartAttempt(a, r) /\ UNCHANGED <<factorVars, challengeVars, completions>>
    BY <1>7 DEF HandleFinishPasskeyRegistration
  <2> HIDE DEF r
  <2> QED
    BY <2>1, <2>2, <2>3, StartInv
<1> QED
  BY <1>1, <1>3, <1>4, <1>5, <1>6, <1>7

(* A request ends without a proof.                                         *)
LEMMA RequestEnds ==
    ASSUME AccountInv, NEW a \in Attempts, AttemptRefused(a) \/ CommitFails(a)
    PROVE  AccountInv' /\ (ProofsInv => ProofsInv')
<1>0. EndAttempt(a) /\ UNCHANGED <<factorVars, ceremonies, completions>>
  BY DEF AttemptRefused, CommitFails, challengeVars
<1>1. /\ attempts' \in [Attempts -> Attempt] /\ attempted' = attempted /\ attempts'[a] = NoAttempt
      /\ \A b \in Attempts : b # a => attempts'[b] = attempts[b]
  BY <1>0, AccountFields, EndType
<1>2. AttemptOK(a)' /\ attempts'[a].pc \notin {"complete", "verify"}
  BY <1>0, <1>1, AccountFields, EndedOK DEF factorVars
<1>3. /\ challenges' \in [Challenges -> Challenge]
      /\ \A x \in Challenges : challenges[x].state = "gone" => challenges'[x].state = "gone"
  <2>1. CASE UNCHANGED challenges
    BY <2>1, AccountFields
  <2>2. CASE attempts[a].pc = "verify" /\ ConsumeMFAPending(attempts[a].challenge)
    BY <2>2, AccountFields, TakeChallenge DEF AttemptOK
  <2> QED
    BY <2>1, <2>2 DEF AttemptRefused, CommitFails, challengeVars
<1>4. RedisGoesOn
  BY <1>0, <1>3 DEF RedisGoesOn
<1> QED
  BY <1>0, <1>1, <1>2, <1>3, <1>4, AccountFields, OtherStep

(* A session or a device is written; the account stays as it is.           *)
LEMMA SessionStays ==
    ASSUME AccountInv, UNCHANGED <<person, factors, links, policyVars, changes, changed, totpStep, waived>>,
           logins' \in [Logins -> Login], \A l \in Logins : logins'[l].version <= person.version,
           devices' \in [Devices -> [version : Nat, live : BOOLEAN]]
    PROVE  FactorInv' /\ FactorsGoOn /\ PersonGoesOn
<1>1. FactorTypeOK'
  BY DEF AccountInv, FactorInv, FactorTypeOK, policyVars
<1>2. \A d \in ChangeRequests : LockedOK(d)'
  BY LockedStays DEF AccountInv, FactorInv, LocksInv, policyVars
<1>3. LocksInv'
  BY <1>2 DEF AccountInv, FactorInv, LocksInv
<1>4. FactorInv'
  BY <1>1, <1>3, AccountStays DEF AccountInv, FactorInv, VersionsInv, policyVars
<1> QED
  BY <1>4, SameGoOn DEF AccountInv, FactorInv

LEMMA NewSession ==
    ASSUME AccountInv, NEW l \in Logins, NEW version \in Nat, NEW level \in {1, 2}, version <= person.version,
           CreateSession(l, version, level), UNCHANGED person, version = person.version /\ person.loginMFA => level = 2
    PROVE  /\ logins' \in [Logins -> Login]
           /\ \A x \in Logins : logins'[x].version <= person.version
           /\ \A x \in Logins : \/ logins'[x] = logins[x]
                                \/ logins'[x].version = person'.version /\ person'.loginMFA /\ logins'[x].by = "login"
                                     => logins'[x].level = 2
<1> DEFINE s == [version |-> version, level |-> level, by |-> "login"]
<1>1. s \in Login /\ s.version = version /\ s.level = level
  BY DEF Login
<1>2. logins' = [logins EXCEPT ![l] = s]
  BY DEF CreateSession
<1> HIDE DEF s
<1> QED
  BY <1>1, <1>2, AccountFields

LEMMA HandleLoginInv ==
    ASSUME AccountInv, NEW a \in Attempts, HandleLogin(a)
    PROVE  AccountInv' /\ (ProofsInv => ProofsInv')
<1>0. /\ attempts[a].pc = "primary" /\ EndAttempt(a)
      /\ UNCHANGED <<person, factors, links, policyVars, changes, changed, restVars, completions, ceremonies>>
  BY DEF HandleLogin, challengeVars
<1>1. /\ attempts' \in [Attempts -> Attempt] /\ attempted' = attempted /\ attempts'[a] = NoAttempt
      /\ \A b \in Attempts : b # a => attempts'[b] = attempts[b]
  BY <1>0, AccountFields, EndType
<1>2. AttemptOK(a)' /\ attempts'[a].pc \notin {"complete", "verify"}
  BY <1>0, <1>1, AccountFields, EndedOK
<1>3. CASE \E l \in Logins : CreateSession(l, attempts[a].version, IF LoginMFARequirement(a) THEN 2 ELSE 1) /\ UNCHANGED challengeVars
  <2> PICK l \in Logins : CreateSession(l, attempts[a].version, IF LoginMFARequirement(a) THEN 2 ELSE 1) /\ UNCHANGED challengeVars
    BY <1>3
  <2> DEFINE level == IF LoginMFARequirement(a) THEN 2 ELSE 1
  <2>1. attempts[a].version \in Nat /\ attempts[a].version <= person.version /\ AttemptOK(a)
    BY AccountFields
  <2>2. attempts[a].version = person.version /\ person.loginMFA => LoginMFARequirement(a)
    BY <1>0, <2>1 DEF AttemptOK, LoginMFARequirement
  <2>3. level \in {1, 2} /\ (attempts[a].version = person.version /\ person.loginMFA => level = 2)
    BY <2>2
  <2>4. CreateSession(l, attempts[a].version, level)
    OBVIOUS
  <2> HIDE DEF level
  <2>5. /\ logins' \in [Logins -> Login]
        /\ \A x \in Logins : logins'[x].version <= person.version
        /\ \A x \in Logins : \/ logins'[x] = logins[x]
                             \/ logins'[x].version = person'.version /\ person'.loginMFA /\ logins'[x].by = "login"
                                  => logins'[x].level = 2
    BY <1>0, <2>1, <2>3, <2>4, NewSession
  <2>6. devices' \in [Devices -> [version : Nat, live : BOOLEAN]]
    BY <1>0 DEF restVars, AccountInv, FactorInv, FactorTypeOK
  <2>7. FactorInv' /\ FactorsGoOn /\ PersonGoesOn
    BY <1>0, <2>5, <2>6, SessionStays DEF restVars
  <2>8. RedisGoesOn /\ challenges' = challenges
    BY <1>0 DEF RedisGoesOn, challengeVars
  <2>9. AccountInv'
    BY <1>0, <1>1, <1>2, <2>5, <2>7, <2>8, AccountFields, AccountStep
  <2>10. ProofsInv => ProofsInv'
    BY <1>0, <1>1, <1>2, <2>7, <2>8, AccountFields, ProofsStay
  <2> QED
    BY <2>9, <2>10
<1>4. CASE \E ch \in Challenges : BeginMFAPending(a, ch) /\ UNCHANGED logins
  <2> PICK ch \in Challenges : BeginMFAPending(a, ch) /\ UNCHANGED logins
    BY <1>4
  <2>1. [state |-> "open", purpose |-> "login", version |-> attempts[a].version, login |-> NoLogin] \in Challenge
    BY AccountFields DEF Challenge, Purposes
  <2>2. /\ challenges' \in [Challenges -> Challenge]
        /\ \A x \in Challenges : challenges[x].state = "gone" => challenges'[x].state = "gone"
    BY <2>1, AccountFields, SaveChallenge DEF BeginMFAPending
  <2>3. RedisGoesOn
    BY <1>0, <2>2 DEF RedisGoesOn
  <2>4. UNCHANGED factorVars
    BY <1>0 DEF factorVars, policyVars, restVars
  <2> QED
    BY <1>0, <1>1, <1>2, <2>2, <2>3, <2>4, AccountFields, OtherStep
<1> QED
  BY <1>3, <1>4 DEF HandleLogin

LEMMA VerifiedType ==
    ASSUME attempts \in [Attempts -> Attempt], NEW a \in Attempts, NEW f \in {NoFactor} \cup VerifiedFactor, Verified(a, f)
    PROVE  /\ attempts' \in [Attempts -> Attempt] /\ attempted' = attempted
           /\ \A b \in Attempts : b # a => attempts'[b] = attempts[b]
           /\ attempts'[a].pc = "complete" /\ attempts'[a].factor = f
           /\ attempts'[a].version = attempts[a].version /\ attempts'[a].challenge = attempts[a].challenge
<1> DEFINE r == [attempts[a] EXCEPT !.pc = "complete", !.factor = f]
<1>1. /\ r \in Attempt /\ r.pc = "complete" /\ r.factor = f /\ r.version = attempts[a].version
      /\ r.challenge = attempts[a].challenge
  BY DEF Attempt
<1>2. attempts' = [attempts EXCEPT ![a] = r] /\ attempted' = attempted
  BY DEF Verified
<1> HIDE DEF r
<1> QED
  BY <1>1, <1>2

(* A code has been verified and its challenge taken: both were unused.     *)
LEMMA CodeVerified ==
    ASSUME AccountInv, NEW a \in Attempts, NEW f \in VerifiedFactor, Verified(a, f), LockUserRow,
           attempts[a].pc = "verify", ConsumeMFAPending(attempts[a].challenge),
           factors' \in Factor, factors'.totp = factors.totp, factors'.passkeys = factors.passkeys, FactorsGoOn,
           ~Spent(factors, ceremonies, f), Spent(factors', ceremonies, f),
           UNCHANGED <<person, links, policyVars, logins, changes, changed, restVars, ceremonies, completions>>
    PROVE  AccountInv' /\ (ProofsInv => ProofsInv')
<1>1. /\ attempts' \in [Attempts -> Attempt] /\ attempted' = attempted
      /\ \A b \in Attempts : b # a => attempts'[b] = attempts[b]
      /\ attempts'[a].pc = "complete" /\ attempts'[a].factor = f
      /\ attempts'[a].version = attempts[a].version /\ attempts'[a].challenge = attempts[a].challenge
  BY AccountFields, VerifiedType
<1>2. attempts[a].challenge \in Challenges
  BY AccountFields DEF AttemptOK
<1>3. /\ challenges' \in [Challenges -> Challenge]
      /\ challenges[attempts[a].challenge].state = "open" /\ challenges'[attempts[a].challenge].state = "gone"
      /\ \A x \in Challenges : challenges[x].state = "gone" => challenges'[x].state = "gone"
  BY <1>2, AccountFields, TakeChallenge
<1>4. RedisGoesOn
  BY <1>3 DEF RedisGoesOn
<1> DEFINE none == CHOOSE s : s \notin ChangeRequests
<1>5. none \notin ChangeRequests
  BY NoSetContainsEverything
<1> HIDE DEF none
<1>6. FactorInv'
  BY <1>5, AccountFields, CodesInv DEF policyVars, restVars
<1>7. PersonGoesOn
  BY SameGoOn DEF AccountInv, FactorInv
<1>8. AttemptOK(a)'
  BY <1>1, AccountFields DEF AttemptOK
<1>9. AccountInv'
  BY <1>1, <1>3, <1>6, <1>7, <1>8, AccountFields, AccountStep
<1>10. ~Answered(challenges, attempts'[a].challenge) /\ Answered(challenges', attempts'[a].challenge)
  BY <1>1, <1>2, <1>3, SignInAssumptions DEF Answered
<1>11. ProofsInv => ProofsInv'
  BY <1>1, <1>4, <1>10, ProofsVerified
<1> QED
  BY <1>9, <1>11

LEMMA VerifyFactorInv ==
    ASSUME AccountInv, NEW a \in Attempts, VerifyFactor(a)
    PROVE  AccountInv' /\ (ProofsInv => ProofsInv')
<1>0. attempts[a].pc = "verify" /\ factors \in Factor
  BY AccountFields DEF VerifyFactor
<1>1. /\ factors.secret \in Nat /\ factors.issued \in Nat /\ factors.last \in Nat /\ factors.codes \subseteq Nat
  BY <1>0, FactorFields
<1>2. ASSUME NEW k \in MatchTOTP, VerifyTOTP(a, k)
      PROVE  AccountInv' /\ (ProofsInv => ProofsInv')
  <2> DEFINE f == <<"totp", factors.secret, k>>
  <2>1. k \in Nat
    BY FactorAssumptions DEF MatchTOTP, AccountInv, FactorInv, FactorTypeOK
  <2>2. f \in VerifiedFactor /\ f[1] = "totp" /\ f[2] = factors.secret /\ f[3] = k
    BY <1>1, <2>1 DEF VerifiedFactor
  <2>3. factors.totp = "confirmed" /\ k > factors.last /\ factors' = [factors EXCEPT !.last = k] /\ LockUserRow
    BY <1>2 DEF VerifyTOTP, LockAuthenticationState
  <2>4. /\ factors' \in Factor /\ factors'.totp = factors.totp /\ factors'.passkeys = factors.passkeys /\ factors'.last = k
        /\ factors'.secret = factors.secret /\ factors'.issued = factors.issued /\ factors'.codes = factors.codes
    BY <1>0, <2>1, <2>3 DEF Factor
  <2>5. FactorsGoOn
    BY <1>1, <2>1, <2>3, <2>4 DEF FactorsGoOn
  <2>6. Verified(a, f)
    BY <1>2 DEF VerifyTOTP
  <2> HIDE DEF f
  <2>7. ~Spent(factors, ceremonies, f)
    BY <1>1, <2>1, <2>2, <2>3 DEF Spent, SpentCode
  <2>8. Spent(factors', ceremonies, f)
    BY <1>1, <2>1, <2>2, <2>3, <2>4 DEF Spent, SpentCode
  <2> QED
    BY <1>0, <1>2, <2>2, <2>3, <2>4, <2>5, <2>6, <2>7, <2>8, CodeVerified DEF VerifyTOTP
<1>3. ASSUME NEW n \in factors.codes, ConsumeRecoveryCode(a, n)
      PROVE  AccountInv' /\ (ProofsInv => ProofsInv')
  <2> DEFINE f == <<"recovery_code", n>>
  <2>1. n \in Nat
    BY <1>1
  <2>2. f \in VerifiedFactor /\ f[1] = "recovery_code" /\ f[2] = n
    BY <2>1 DEF VerifiedFactor
  <2>3. factors' = [factors EXCEPT !.codes = @ \ {n}] /\ LockUserRow
    BY <1>3 DEF ConsumeRecoveryCode, LockAuthenticationState
  <2>4. /\ factors' \in Factor /\ factors'.totp = factors.totp /\ factors'.passkeys = factors.passkeys
        /\ factors'.last = factors.last /\ factors'.secret = factors.secret /\ factors'.issued = factors.issued
        /\ factors'.codes = factors.codes \ {n}
    BY <1>0, <2>3 DEF Factor
  <2>5. FactorsGoOn
    BY <1>0, <1>1, <2>4, FactorFields DEF FactorsGoOn
  <2>6. Verified(a, f)
    BY <1>3 DEF ConsumeRecoveryCode
  <2> HIDE DEF f
  <2>7. ~Spent(factors, ceremonies, f)
    BY <2>2 DEF Spent
  <2>8. Spent(factors', ceremonies, f)
    BY <1>1, <2>1, <2>2, <2>4 DEF Spent, AccountInv
  <2> QED
    BY <1>0, <1>3, <2>2, <2>3, <2>4, <2>5, <2>6, <2>7, <2>8, CodeVerified DEF ConsumeRecoveryCode
<1>4. ASSUME Verified(a, NoFactor), UNCHANGED <<factorVars, challengeVars, completions>>
      PROVE  AccountInv' /\ (ProofsInv => ProofsInv')
  <2>1. /\ attempts' \in [Attempts -> Attempt] /\ attempted' = attempted
        /\ \A b \in Attempts : b # a => attempts'[b] = attempts[b]
        /\ attempts'[a].pc = "complete" /\ attempts'[a].version = attempts[a].version
        /\ attempts'[a].factor = NoFactor
    BY <1>4, AccountFields, VerifiedType
  <2>2. AttemptOK(a)'
    BY <1>4, <2>1, AccountFields DEF AttemptOK, factorVars
  <2>3. FactorInv' /\ FactorsGoOn /\ PersonGoesOn
    <3>1. \A l \in Logins : logins'[l].version <= person.version
      BY <1>4, AccountFields DEF factorVars
    <3>2. devices' \in [Devices -> [version : Nat, live : BOOLEAN]]
      BY <1>4 DEF factorVars, AccountInv, FactorInv, FactorTypeOK
    <3> QED
      BY <1>4, <3>1, <3>2, AccountFields, SessionStays DEF factorVars, policyVars
  <2>4. AccountInv'
    BY <1>4, <2>1, <2>2, <2>3, AccountFields, AccountStep DEF factorVars, challengeVars
  <2>5. ProofsInv => ProofsInv'
    <3>1. RedisGoesOn /\ factors' \in Factor /\ UNCHANGED completions
      BY <1>0, <1>4 DEF RedisGoesOn, factorVars, challengeVars
    <3> QED
      BY <2>1, <2>3, <3>1, ProofsVerified
  <2> QED
    BY <2>4, <2>5
<1> QED
  BY <1>2, <1>3, <1>4 DEF VerifyFactor

(* The account is not written.                                             *)
LEMMA FactorsUntouched ==
    ASSUME AccountInv, UNCHANGED factorVars
    PROVE  FactorInv' /\ FactorsGoOn /\ PersonGoesOn
<1>1. \A l \in Logins : logins'[l].version <= person.version
  BY AccountFields DEF factorVars
<1>2. devices' \in [Devices -> [version : Nat, live : BOOLEAN]]
  BY DEF factorVars, AccountInv, FactorInv, FactorTypeOK
<1> QED
  BY <1>1, <1>2, AccountFields, SessionStays DEF factorVars, policyVars

(* A passkey has been verified, and its ceremony taken.                    *)
LEMMA PasskeyVerified ==
    ASSUME AccountInv, NEW a \in Attempts, attempts[a].pc = "assert", UNCHANGED <<factorVars, attempted, completions>>,
           ConsumeWebAuthnCeremony(attempts[a].ceremony),
           \/ attempts[a].challenge = NoChallenge /\ UNCHANGED challenges
           \/ attempts[a].challenge # NoChallenge /\ ConsumeMFAPending(attempts[a].challenge),
           attempts' \in [Attempts -> Attempt], \A b \in Attempts : b # a => attempts'[b] = attempts[b],
           attempts'[a].pc = "complete", attempts'[a].factor = <<"passkey", attempts[a].ceremony>>,
           attempts'[a].challenge = attempts[a].challenge, attempts'[a].version \in {attempts[a].version, person.version}
    PROVE  AccountInv' /\ (ProofsInv => ProofsInv')
<1> DEFINE cer == attempts[a].ceremony
           f == <<"passkey", cer>>
<1>1. cer \in Ceremonies /\ attempts[a].challenge \in Challenges \cup {NoChallenge}
  BY AccountFields DEF AttemptOK, Attempt
<1>2. /\ ceremonies' \in [Ceremonies -> Ceremony]
      /\ ceremonies[cer].state = "open" /\ ceremonies'[cer].state = "gone"
      /\ \A x \in Ceremonies : ceremonies[x].state = "gone" => ceremonies'[x].state = "gone"
  BY <1>1, AccountFields, TakeCeremony
<1>3. /\ challenges' \in [Challenges -> Challenge]
      /\ \A x \in Challenges : challenges[x].state = "gone" => challenges'[x].state = "gone"
      /\ \/ attempts[a].challenge = NoChallenge
         \/ ~Answered(challenges, attempts[a].challenge)
      /\ Answered(challenges', attempts[a].challenge)
  <2>1. CASE attempts[a].challenge = NoChallenge /\ UNCHANGED challenges
    BY <2>1, AccountFields DEF Answered
  <2>2. CASE attempts[a].challenge # NoChallenge /\ ConsumeMFAPending(attempts[a].challenge)
    BY <1>1, <2>2, AccountFields, TakeChallenge DEF Answered
  <2> QED
    BY <2>1, <2>2
<1>4. RedisGoesOn
  BY <1>2, <1>3 DEF RedisGoesOn
<1>5. FactorInv' /\ FactorsGoOn /\ PersonGoesOn
  BY FactorsUntouched
<1>6. AttemptOK(a)'
  BY AccountFields DEF AttemptOK, factorVars
<1>7. AccountInv'
  BY <1>2, <1>3, <1>5, <1>6, AccountFields, AccountStep DEF factorVars
<1>8. f \in VerifiedFactor /\ f[1] = "passkey" /\ f[2] = cer
  BY <1>1 DEF VerifiedFactor
<1>9. ~Spent(factors, ceremonies, f) /\ Spent(factors', ceremonies', f)
  <2> HIDE DEF f
  <2> QED
    BY <1>2, <1>8 DEF Spent
<1>10. ProofsInv => ProofsInv'
  BY <1>3, <1>4, <1>5, <1>9, AccountFields, ProofsVerified DEF factorVars
<1> QED
  BY <1>7, <1>10

LEMMA FinishAuthenticationInv ==
    ASSUME AccountInv, NEW a \in Attempts, FinishDiscoverablePasskeyLogin(a) \/ FinishKnownPasskeyAuthentication(a)
    PROVE  AccountInv' /\ (ProofsInv => ProofsInv')
<1> DEFINE f == <<"passkey", attempts[a].ceremony>>
<1>0. attempts[a].pc = "assert" /\ attempts[a].ceremony \in Ceremonies
  BY AccountFields DEF FinishDiscoverablePasskeyLogin, FinishKnownPasskeyAuthentication, AttemptOK
<1>1. f \in VerifiedFactor
  BY <1>0 DEF VerifiedFactor
<1>2. CASE FinishDiscoverablePasskeyLogin(a)
  <2> DEFINE r == [attempts[a] EXCEPT !.pc = "complete", !.version = person.version, !.factor = f]
  <2>1. /\ attempts[a].challenge = NoChallenge /\ UNCHANGED <<factorVars, attempted, challenges, completions>>
        /\ ConsumeWebAuthnCeremony(attempts[a].ceremony)
    BY <1>2 DEF FinishDiscoverablePasskeyLogin
  <2>2. attempts' = [attempts EXCEPT ![a] = r]
    BY <1>2, AccountFields DEF FinishDiscoverablePasskeyLogin
  <2> HIDE DEF f
  <2>3. /\ r \in Attempt /\ r.pc = "complete" /\ r.version = person.version /\ r.factor = f
        /\ r.challenge = attempts[a].challenge
    BY <1>1, AccountFields DEF Attempt
  <2> HIDE DEF r
  <2>4. /\ attempts' \in [Attempts -> Attempt] /\ attempts'[a] = r
        /\ \A b \in Attempts : b # a => attempts'[b] = attempts[b]
    BY <2>2, <2>3, AccountFields
  <2> QED
    BY <1>0, <2>1, <2>3, <2>4, PasskeyVerified DEF f
<1>3. CASE FinishKnownPasskeyAuthentication(a)
  <2>1. /\ UNCHANGED <<factorVars, completions>> /\ Verified(a, f) /\ ConsumeWebAuthnCeremony(attempts[a].ceremony)
        /\ \/ attempts[a].challenge = NoChallenge /\ UNCHANGED challenges
           \/ attempts[a].challenge # NoChallenge /\ ConsumeMFAPending(attempts[a].challenge)
    BY <1>3 DEF FinishKnownPasskeyAuthentication, ConsumeWebAuthnCeremonyAndMFAPending
  <2>2. /\ attempts' \in [Attempts -> Attempt] /\ attempted' = attempted
        /\ \A b \in Attempts : b # a => attempts'[b] = attempts[b]
        /\ attempts'[a].pc = "complete" /\ attempts'[a].factor = f
        /\ attempts'[a].version = attempts[a].version /\ attempts'[a].challenge = attempts[a].challenge
    BY <1>1, <2>1, AccountFields, VerifiedType
  <2> QED
    BY <1>0, <2>1, <2>2, PasskeyVerified
<1> QED
  BY <1>2, <1>3

(* A new passkey raises the version of the account.                        *)
LEMMA FinishPasskeyRegistrationInv ==
    ASSUME AccountInv, NEW a \in Attempts, NEW k \in Passkeys, FinishPasskeyRegistration(a, k)
    PROVE  AccountInv' /\ (ProofsInv => ProofsInv')
<1>0. /\ attempts[a].pc = "register" /\ LockSecurityShared /\ LockUserRow /\ person' = IncrementAuthVersion(person)
      /\ ConsumeWebAuthnCeremony(attempts[a].ceremony) /\ factors' = [factors EXCEPT !.passkeys = @ \cup {k}]
      /\ attempts' = [attempts EXCEPT ![a].pc = "rotate"]
      /\ UNCHANGED <<links, policyVars, logins, changes, changed, restVars, attempted, challenges, completions>>
  BY DEF FinishPasskeyRegistration, LockAuthenticationState, InsertPasskeyCredential
<1>1. /\ attempts' \in [Attempts -> Attempt] /\ attempts'[a].pc = "rotate" /\ attempts'[a].version = attempts[a].version
      /\ \A b \in Attempts : b # a => attempts'[b] = attempts[b]
  BY <1>0, AccountFields DEF Attempt
<1>2. /\ ceremonies' \in [Ceremonies -> Ceremony]
      /\ \A x \in Ceremonies : ceremonies[x].state = "gone" => ceremonies'[x].state = "gone"
  BY <1>0, AccountFields, TakeCeremony DEF AttemptOK
<1>3. RedisGoesOn
  BY <1>0, <1>2 DEF RedisGoesOn
<1>4. /\ factors' \in Factor /\ factors'.totp = factors.totp /\ factors'.passkeys # {} /\ factors'.codes = factors.codes
      /\ factors'.issued = factors.issued /\ factors'.secret = factors.secret /\ factors'.last = factors.last
  BY <1>0, AccountFields DEF Factor
<1>5. FactorsGoOn
  BY <1>4, AccountFields, FactorFields DEF FactorsGoOn
<1>6. /\ person' \in Person /\ person'.version = person.version + 1 /\ person'.active = person.active
      /\ person'.admin = person.admin /\ person'.loginMFA = person.loginMFA /\ person'.password = person.password
  BY <1>0, AccountFields, NextVersion
<1>7. FactorTypeOK'
  BY <1>0, <1>4, <1>6 DEF AccountInv, FactorInv, FactorTypeOK, policyVars, restVars
<1> DEFINE none == CHOOSE s : s \notin ChangeRequests
<1>8. none \notin ChangeRequests
  BY NoSetContainsEverything
<1> HIDE DEF none
<1>9. LocksInv'
  BY <1>0, <1>8, AccountFields, RowAndPolicyAreLocked, LocksStep DEF FactorInv
<1>10. VersionsInv' /\ PersonGoesOn
  BY <1>0, <1>6, <1>7, <1>8, AccountFields, VersionRises
<1>11. RequiredFactorKept' /\ KeepsAWayIn'
  BY <1>0, <1>4, <1>6 DEF RequiredFactorKept, KeepsAWayIn, Enrolled
<1>12. FactorInv'
  BY <1>7, <1>9, <1>10, <1>11 DEF FactorInv
<1>13. AttemptOK(a)'
  BY <1>1, <1>6, AccountFields DEF AttemptOK
<1>14. AccountInv'
  BY <1>0, <1>1, <1>2, <1>5, <1>10, <1>12, <1>13, AccountFields, AccountStep
<1>15. ProofsInv => ProofsInv'
  BY <1>0, <1>1, <1>3, <1>4, <1>5, ProofsStay
<1> QED
  BY <1>14, <1>15

(* The browser that added a passkey gets a new session, or loses its own.   *)
LEMMA RespondRegisteredInv ==
    ASSUME AccountInv, NEW a \in Attempts, RespondRegistered(a)
    PROVE  AccountInv' /\ (ProofsInv => ProofsInv')
<1>0. /\ EndAttempt(a)
      /\ UNCHANGED <<person, factors, links, policyVars, changes, changed, restVars, challengeVars, completions>>
  BY DEF RespondRegistered
<1>1. /\ attempts' \in [Attempts -> Attempt] /\ attempted' = attempted /\ attempts'[a] = NoAttempt
      /\ \A b \in Attempts : b # a => attempts'[b] = attempts[b]
  BY <1>0, AccountFields, EndType
<1>2. AttemptOK(a)' /\ attempts'[a].pc \notin {"complete", "verify"}
  BY <1>0, <1>1, AccountFields, EndedOK
<1> DEFINE s == [version |-> person.version, level |-> 1, by |-> "rotation"]
<1>3. s \in Login /\ s.version = person.version /\ s.by = "rotation"
  BY AccountFields DEF Login
<1>4. logins' \in [Logins -> Login] /\ \A l \in Logins : logins'[l] \in {logins[l], s, NoSession}
  <2>1. CASE person.active /\ person.version = attempts[a].version + 1
    <3>1. logins' = [l \in Logins |-> IF l = attempts[a].login THEN s ELSE NoSession]
      BY <2>1 DEF RespondRegistered
    <3> HIDE DEF s
    <3> QED
      BY <1>3, <3>1, NoSessionType
  <2>2. CASE ~(person.active /\ person.version = attempts[a].version + 1)
    <3>1. logins' = [logins EXCEPT ![attempts[a].login] = NoSession]
      BY <2>2 DEF RespondRegistered
    <3> QED
      BY <3>1, NoSessionType, AccountFields
  <2> QED
    BY <2>1, <2>2
<1> HIDE DEF s
<1>5. \A l \in Logins : logins'[l].version <= person.version
  BY <1>3, <1>4, NoSessionType, AccountFields
<1>6. devices' \in [Devices -> [version : Nat, live : BOOLEAN]]
  BY <1>0 DEF restVars, AccountInv, FactorInv, FactorTypeOK
<1>7. FactorInv' /\ FactorsGoOn /\ PersonGoesOn
  BY <1>0, <1>4, <1>5, <1>6, SessionStays DEF restVars
<1>8. \A l \in Logins : \/ logins'[l] = logins[l]
                        \/ logins'[l].version = person'.version /\ person'.loginMFA /\ logins'[l].by = "login"
                             => logins'[l].level = 2
  BY <1>0, <1>3, <1>4, NoSessionType, AccountFields
<1>9. RedisGoesOn
  BY <1>0 DEF RedisGoesOn, challengeVars
<1>10. AccountInv'
  BY <1>0, <1>1, <1>2, <1>7, <1>8, AccountFields, AccountStep DEF challengeVars
<1>11. ProofsInv => ProofsInv'
  BY <1>0, <1>1, <1>2, <1>7, <1>9, AccountFields, ProofsStay
<1> QED
  BY <1>10, <1>11

(* An attempt completes: it signs in at level 2, raises its session to it,  *)
(* or leaves the sessions alone.                                           *)
LEMMA CompleteInv ==
    ASSUME AccountInv, NEW a \in Attempts, attempts[a].pc = "complete", EndAttempt(a),
           UNCHANGED <<person, factors, links, policyVars, changes, changed, totpStep, waived, challengeVars>>,
           completions' = completions \cup {[serial |-> attempts[a].serial, factor |-> attempts[a].factor,
                                             challenge |-> attempts[a].challenge]},
           devices' \in [Devices -> [version : Nat, live : BOOLEAN]],
           \/ \E l \in Logins : CreateSession(l, attempts[a].version, 2)
           \/ logins' = [logins EXCEPT ![attempts[a].login].level = 2]
           \/ UNCHANGED logins
    PROVE  AccountInv' /\ (ProofsInv => ProofsInv')
<1>1. /\ attempts' \in [Attempts -> Attempt] /\ attempted' = attempted /\ attempts'[a] = NoAttempt
      /\ \A b \in Attempts : b # a => attempts'[b] = attempts[b]
  BY AccountFields, EndType
<1>2. AttemptOK(a)' /\ attempts'[a].pc = "idle"
  BY <1>1, AccountFields, EndedOK, NoAttemptType
<1>3. /\ logins' \in [Logins -> Login]
      /\ \A x \in Logins : logins'[x].version <= person.version
      /\ \A x \in Logins : \/ logins'[x] = logins[x]
                           \/ logins'[x].version = person'.version /\ person'.loginMFA /\ logins'[x].by = "login"
                                => logins'[x].level = 2
  <2>1. ASSUME NEW l \in Logins, CreateSession(l, attempts[a].version, 2) PROVE <1>3!:
    BY <2>1, AccountFields, NewSession
  <2>2. CASE logins' = [logins EXCEPT ![attempts[a].login].level = 2]
    <3>1. \A x \in Logins : /\ [logins[x] EXCEPT !.level = 2] \in Login /\ [logins[x] EXCEPT !.level = 2].level = 2
                            /\ [logins[x] EXCEPT !.level = 2].version = logins[x].version
      BY AccountFields DEF Login
    <3>2. logins' \in [Logins -> Login] /\ \A x \in Logins : logins'[x] \in {logins[x], [logins[x] EXCEPT !.level = 2]}
      BY <2>2, <3>1, AccountFields
    <3> QED
      BY <3>1, <3>2, AccountFields
  <2>3. CASE UNCHANGED logins
    BY <2>3, AccountFields
  <2> QED
    BY <2>1, <2>2, <2>3
<1>4. FactorInv' /\ FactorsGoOn /\ PersonGoesOn
  BY <1>3, SessionStays
<1>5. AccountInv'
  BY <1>1, <1>2, <1>3, <1>4, AccountFields, AccountStep DEF challengeVars
<1>6. a \in Completing
  BY DEF Completing
<1> DEFINE x == [serial |-> attempts[a].serial, factor |-> attempts[a].factor, challenge |-> attempts[a].challenge]
<1>7. x.factor = attempts[a].factor /\ x.challenge = attempts[a].challenge /\ completions' = completions \cup {x}
  OBVIOUS
<1> HIDE DEF x
<1>8. ProofsInv => ProofsInv'
  BY <1>1, <1>2, <1>6, <1>7, ProofsComplete
<1> QED
  BY <1>5, <1>8

LEMMA CompleteMFAChallengeInv ==
    ASSUME AccountInv, NEW a \in Attempts, NEW d \in (Devices \ Issued) \cup {NoDevice}, CompleteMFAChallenge(a, d)
    PROVE  AccountInv' /\ (ProofsInv => ProofsInv')
<1>0. /\ attempts[a].pc = "complete" /\ EndAttempt(a) /\ attempts[a].version \in Nat
      /\ devices \in [Devices -> [version : Nat, live : BOOLEAN]]
      /\ UNCHANGED <<person, factors, links, policyVars, changes, changed, totpStep, waived, challengeVars>>
      /\ completions' = completions \cup {[serial |-> attempts[a].serial, factor |-> attempts[a].factor,
                                           challenge |-> attempts[a].challenge]}
  BY AccountFields DEF CompleteMFAChallenge, AccountInv, FactorInv, FactorTypeOK
<1>1. devices' \in [Devices -> [version : Nat, live : BOOLEAN]]
  <2>1. CASE UNCHANGED devices
    BY <1>0, <2>1
  <2>2. CASE Issue(d, attempts[a].device, attempts[a].version)
    <3>1. PICK over : devices' = [x \in Devices |->
               IF x = d THEN [version |-> attempts[a].version, live |-> TRUE]
               ELSE IF x \in over \cup {attempts[a].device} THEN [devices[x] EXCEPT !.live = FALSE]
               ELSE devices[x]]
      BY <2>2 DEF Issue
    <3>2. \A x \in Devices : [devices[x] EXCEPT !.live = FALSE] \in [version : Nat, live : BOOLEAN]
      BY <1>0
    <3>3. [version |-> attempts[a].version, live |-> TRUE] \in [version : Nat, live : BOOLEAN]
      BY <1>0
    <3> QED
      BY <1>0, <3>1, <3>2, <3>3
  <2> QED
    BY <2>1, <2>2 DEF CompleteMFAChallenge, IssueTrustedDevice
<1>2. \/ \E l \in Logins : CreateSession(l, attempts[a].version, 2)
      \/ logins' = [logins EXCEPT ![attempts[a].login].level = 2]
  BY DEF CompleteMFAChallenge
<1> QED
  BY <1>0, <1>1, <1>2, CompleteInv

LEMMA CompletePasskeyInv ==
    ASSUME AccountInv, NEW a \in Attempts, CompletePasskey(a)
    PROVE  AccountInv' /\ (ProofsInv => ProofsInv')
<1>1. devices' \in [Devices -> [version : Nat, live : BOOLEAN]]
  BY DEF CompletePasskey, restVars, AccountInv, FactorInv, FactorTypeOK
<1>2. (\E l \in Logins : CreateSession(l, attempts[a].version, 2)) \/ UNCHANGED logins
  BY DEF CompletePasskey
<1>3. /\ attempts[a].pc = "complete" /\ EndAttempt(a)
      /\ UNCHANGED <<person, factors, links, policyVars, changes, changed, totpStep, waived, challengeVars>>
      /\ completions' = completions \cup {[serial |-> attempts[a].serial, factor |-> attempts[a].factor,
                                           challenge |-> attempts[a].challenge]}
  BY DEF CompletePasskey, restVars
<1> QED
  BY <1>1, <1>2, <1>3, CompleteInv

(* Every operation on the factors, between any two steps of a sign-in.     *)
LEMMA FactorStepInv ==
    ASSUME AccountInv, FactorNext, UNCHANGED <<challengeVars, attempts, attempted, completions>>
    PROVE  AccountInv' /\ (ProofsInv => ProofsInv')
<1> DEFINE none == CHOOSE s : s \notin Attempts
<1>0. none \notin Attempts
  BY NoSetContainsEverything
<1> HIDE DEF none
<1>1. FactorInv' /\ GoesOn
  BY AccountFields, FactorNextInv
<1>2. FactorsGoOn /\ PersonGoesOn /\ SessionsGoOn
  BY <1>1 DEF GoesOn
<1>3. \A l \in Logins : \/ logins'[l] = logins[l]
                        \/ logins'[l].version = person'.version /\ person'.loginMFA /\ logins'[l].by = "login"
                             => logins'[l].level = 2
  <2>1. person'.version \in Nat /\ person'.version >= 1
    BY <1>1, NextVersion DEF FactorInv, VersionsInv, FactorTypeOK
  <2> QED
    BY <1>2, <2>1 DEF SessionsGoOn
<1>4. RedisGoesOn /\ factors' \in Factor
  BY <1>1 DEF RedisGoesOn, challengeVars, FactorInv, FactorTypeOK
<1>5. AccountInv'
  BY <1>0, <1>1, <1>2, <1>3, AccountFields, AccountStep DEF challengeVars
<1>6. ProofsInv => ProofsInv'
  BY <1>0, <1>2, <1>4, ProofsStay
<1> QED
  BY <1>5, <1>6

LEMMA SignInNextInv ==
    ASSUME AccountInv, [SignInNext]_signInVars
    PROVE  AccountInv' /\ (ProofsInv => ProofsInv')
<1>1. CASE UNCHANGED signInVars
  <2> DEFINE none == CHOOSE s : s \notin Attempts
  <2>1. none \notin Attempts
    BY NoSetContainsEverything
  <2> HIDE DEF none
  <2>2. RedisGoesOn
    BY <1>1 DEF RedisGoesOn, signInVars
  <2> QED
    BY <1>1, <2>1, <2>2, AccountFields, OtherStep DEF signInVars
<1>2. ASSUME NEW a \in Attempts, PrimaryStep(a) \/ AnswerStep(a) \/ PasskeyStep(a)
      PROVE  AccountInv' /\ (ProofsInv => ProofsInv')
  BY <1>2, RequestStarts, RequestEnds, HandleLoginInv, VerifyFactorInv, FinishAuthenticationInv,
     FinishPasskeyRegistrationInv, RespondRegisteredInv, CompleteMFAChallengeInv, CompletePasskeyInv
     DEF PrimaryStep, AnswerStep, PasskeyStep
<1> QED
  BY <1>1, <1>2, BeginStepInv, FactorStepInv DEF SignInNext

LEMMA SignInInitInv == SignInInit => AccountInv /\ ProofsInv
<1> SUFFICES ASSUME SignInInit PROVE AccountInv /\ ProofsInv
  OBVIOUS
<1>1. FactorInit /\ FactorInv
  BY FactorInitInv DEF SignInInit
<1>2. challenges \in [Challenges -> Challenge]
  <2>1. NoPending \in Challenge /\ [NoPending EXCEPT !.state = "open", !.version = 1] \in Challenge
    BY DEF NoPending, Challenge, Purposes
  <2> QED
    BY <2>1 DEF SignInInit
<1>3. ceremonies \in [Ceremonies -> Ceremony]
  <2>1. NoCeremonyData \in Ceremony
    BY DEF NoCeremonyData, Ceremony
  <2> QED
    BY <2>1 DEF SignInInit
<1>4. attempts \in [Attempts -> Attempt] /\ attempted \in 0 .. MaxAttempts /\ \A a \in Attempts : attempts[a] = NoAttempt
  BY NoAttemptType, SignInAssumptions DEF SignInInit
<1>5. SignInTypeOK
  BY <1>1, <1>2, <1>3, <1>4 DEF SignInTypeOK, FactorInv
<1>6. \A a \in Attempts : AttemptOK(a)
  BY <1>1, <1>4, NoAttemptType, NextVersion DEF AttemptOK, FactorInv, FactorTypeOK
<1>7. LevelsInv
  <2>1. PICK l \in Logins : logins = [x \in Logins |->
                       IF x = l THEN [NoSession EXCEPT !.version = 1, !.level = IF person.loginMFA THEN 2 ELSE 1]
                       ELSE NoSession]
    BY <1>1 DEF FactorInit
  <2>2. person.version >= 1
    BY <1>1 DEF FactorInv, VersionsInv
  <2>3. person.loginMFA => logins[l].level = 2
    BY <2>1 DEF NoSession
  <2>4. \A x \in Logins : x # l => logins[x].version = 0
    BY <2>1, NoSessionType
  <2> QED
    BY <2>2, <2>3, <2>4 DEF LevelsInv
<1>8. \A n \in factors.codes : n <= factors.issued
  BY <1>1 DEF FactorInit
<1>9. AccountInv
  BY <1>1, <1>5, <1>6, <1>7, <1>8 DEF AccountInv
<1>10. ProofsInv
  BY <1>4, NoAttemptType DEF ProofsInv, Completing, SignInInit
<1> QED
  BY <1>9, <1>10

LEMMA AccountInvHolds == SignInSpec => []AccountInv
<1>1. AccountInv /\ [SignInNext]_signInVars => AccountInv'
  BY SignInNextInv
<1> QED
  BY <1>1, SignInInitInv, PTL DEF SignInSpec

-----------------------------------------------------------------------------
(* A compulsory factor is never the one that is removed: the check of      *)
(* DisableTOTP, DeletePasskey, UpdateAdmin, SetSecurity and                *)
(* ResetForRecovery (internal/mfa, internal/user, internal/settings) is    *)
(* made under locks no operation that undoes it can hold, for any number   *)
(* of requests and passkeys.                                               *)
THEOREM CompulsoryFactorsAreKept == SignInSpec => []RequiredFactorKept
<1>1. AccountInv => RequiredFactorKept
  BY DEF AccountInv, FactorInv
<1> QED
  BY <1>1, AccountInvHolds, PTL

(* Whatever removals of passkeys and links and recovery resets race, the   *)
(* account keeps a password, a passkey or a link: all of them count under  *)
(* the lock of its row (DeletePasskey, identity.DeleteOwned,               *)
(* LockRecoveryTarget).                                                    *)
THEOREM NobodyIsLockedOut == SignInSpec => []KeepsAWayIn
<1>1. AccountInv => KeepsAWayIn
  BY DEF AccountInv, FactorInv
<1> QED
  BY <1>1, AccountInvHolds, PTL

(* While the account asks for a second factor, each session signed in      *)
(* under its present version has level 2: handleLogin creates it for the   *)
(* version of the row whose switch it read.                                *)
THEOREM SignInsAreProved == SignInSpec => []CurrentSignInsAreProved
<1>1. AccountInv => CurrentSignInsAreProved
  BY DEF AccountInv, LevelsInv, CurrentSignInsAreProved, Usable
<1> QED
  BY <1>1, AccountInvHolds, PTL

(* A verified factor proves one completion, for any number of requests,    *)
(* challenges and ceremonies and whatever changes of the factors race      *)
(* them: challenges and ceremonies are taken out of Redis once, a time     *)
(* step and a recovery code are spent in the transaction that takes them   *)
(* (VerifyTOTPChallenge, ConsumeRecoveryCodeChallenge,                     *)
(* FinishKnownPasskeyAuthentication).  The completions without a verified  *)
(* factor, which the method "passkey" of POST /api/login/mfa gives, are in *)
(* the model and outside the statement.                                    *)
THEOREM FactorsAreUsedOnce == SignInSpec => []VerifiedFactorProvesOnce
<1>1. AccountInv /\ ProofsInv /\ [SignInNext]_signInVars => (AccountInv /\ ProofsInv)'
  BY SignInNextInv
<1>2. ProofsInv => VerifiedFactorProvesOnce
  BY DEF ProofsInv, VerifiedFactorProvesOnce
<1> QED
  BY <1>1, <1>2, SignInInitInv, PTL DEF SignInSpec
=============================================================================
