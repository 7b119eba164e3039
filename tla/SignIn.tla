------------------------------- MODULE SignIn -------------------------------
(***************************************************************************)
(* Signing in to the account of Factors, and proving a second factor: the  *)
(* password or a provider as the primary method, the pending challenge in  *)
(* Redis that a TOTP code, a recovery code or a passkey answers, the       *)
(* WebAuthn ceremonies, the devices that are trusted to skip it.           *)
(*                                                                         *)
(* A handler reads the challenge, verifies the factor in a transaction     *)
(* that takes the challenge out of Redis just before it commits, and then  *)
(* creates or upgrades a session: three steps, interleaved with those of   *)
(* other requests and with every operation of Factors.  The rows a         *)
(* transaction locks are held until it commits, so that the removal in     *)
(* Redis is the moment at which it takes effect.                           *)
(***************************************************************************)
EXTENDS Factors

CONSTANTS Challenges, NoChallenge,   \* mfa_pending tokens
          Ceremonies, NoCeremony,    \* WebAuthn ceremonies
          Attempts,                  \* requests that sign in or prove a factor
          NoDevice,
          MaxActivePerUser,          \* trusted devices of a user
          MaxAttempts                \* bound: requests accepted

ASSUME SignInAssumptions ==
    /\ NoChallenge \notin Challenges /\ NoCeremony \notin Ceremonies /\ NoDevice \notin Devices
    /\ MaxAttempts \in Nat /\ MaxActivePerUser \in Nat \ {0}

VARIABLES challenges, ceremonies, attempts, attempted,
          completions   \* history: the challenges completed and the factors they rest on
challengeVars == <<challenges, ceremonies>>
signInVars == <<factorVars, challenges, ceremonies, attempts, attempted, completions>>

Purposes == {"login", "reauthentication", "oauth_step_up"}
Challenge == [state : {"none", "open", "gone"}, purpose : Purposes, version : Nat,
              login : Logins \cup {NoLogin}]
NoPending == [state |-> "none", purpose |-> "login", version |-> 0, login |-> NoLogin]
Ceremony == [state : {"none", "open", "gone"},
             purpose : {"login", "mfa", "reauthentication", "registration"}, version : Nat,
             login : Logins \cup {NoLogin}, parent : Challenges \cup {NoChallenge}]
NoCeremonyData == [state |-> "none", purpose |-> "login", version |-> 0, login |-> NoLogin,
                   parent |-> NoChallenge]

\* The factor a completion rests on; <<>> when none was verified.
NoFactor == <<>>
VerifiedFactor ==
    ({"totp"} \X Nat \X Nat) \cup ({"recovery_code"} \X Nat) \cup ({"passkey"} \X Ceremonies)
Attempt == [pc : {"idle", "primary", "verify", "assert", "register", "complete", "rotate"},
            method : {"none", "totp", "recovery_code", "passkey"},
            challenge : Challenges \cup {NoChallenge}, ceremony : Ceremonies \cup {NoCeremony},
            purpose : Purposes, version : Nat, login : Logins \cup {NoLogin},
            required : BOOLEAN, admin : BOOLEAN, device : Devices \cup {NoDevice}, serial : Nat,
            factor : {NoFactor} \cup VerifiedFactor]
NoAttempt == [pc |-> "idle", method |-> "none", challenge |-> NoChallenge, ceremony |-> NoCeremony,
              purpose |-> "login", version |-> 0, login |-> NoLogin, required |-> FALSE, admin |-> FALSE,
              device |-> NoDevice, serial |-> 0, factor |-> NoFactor]

SignInTypeOK ==
    /\ FactorTypeOK
    /\ challenges \in [Challenges -> Challenge] /\ ceremonies \in [Ceremonies -> Ceremony]
    /\ attempts \in [Attempts -> Attempt] /\ attempted \in 0 .. MaxAttempts

StartAttempt(a, r) ==
    /\ attempts[a].pc = "idle" /\ attempted < MaxAttempts
    /\ attempts' = [attempts EXCEPT ![a] = [r EXCEPT !.serial = attempted + 1]]
    /\ attempted' = attempted + 1
EndAttempt(a) == attempts' = [attempts EXCEPT ![a] = NoAttempt] /\ UNCHANGED attempted
\* A request that needs no second step counts as an attempt too.
Counted == attempted < MaxAttempts /\ attempted' = attempted + 1 /\ UNCHANGED attempts
AttemptRefused(a) ==
    /\ attempts[a].pc \notin {"idle", "rotate"} /\ EndAttempt(a)
    /\ UNCHANGED <<factorVars, challengeVars, completions>>
-----------------------------------------------------------------------------
(* Redis: pending challenges and ceremonies, each kept for some minutes *)

SaveMFAPending(ch, data) ==
    /\ challenges[ch].state = "none"
    /\ challenges' = [challenges EXCEPT ![ch] = data]
SaveWebAuthnCeremony(cer, data) ==
    /\ ceremonies[cer].state = "none"
    /\ ceremonies' = [ceremonies EXCEPT ![cer] = data]
\* Mutant: the challenge is read, not taken.
ReadMFAPending(ch) == challenges[ch].state = "open" /\ UNCHANGED challenges
ConsumeMFAPending(ch) ==
    /\ challenges[ch].state = "open"
    /\ challenges' = [challenges EXCEPT ![ch].state = "gone"]
ConsumeWebAuthnCeremony(cer) ==
    /\ ceremonies[cer].state = "open"
    /\ ceremonies' = [ceremonies EXCEPT ![cer].state = "gone"]
\* One script: both or neither.
ConsumeWebAuthnCeremonyAndMFAPending(cer, ch) ==
    ConsumeWebAuthnCeremony(cer) /\ ConsumeMFAPending(ch)

\* Expiry, or handleCancelMFAChallenge.
DeleteMFAPending(ch) ==
    ConsumeMFAPending(ch) /\ UNCHANGED <<factorVars, ceremonies, attempts, attempted, completions>>
CeremonyExpires(cer) ==
    /\ ConsumeWebAuthnCeremony(cer)
    /\ UNCHANGED <<factorVars, challenges, attempts, attempted, completions>>
-----------------------------------------------------------------------------
(* Sessions and trusted devices *)

CreateSession(l, version, level) ==
    /\ ~Usable(l)
    /\ logins' = [logins EXCEPT ![l] = [version |-> version, level |-> level, by |-> "login"]]

ValidateAndTouch(d, version) == devices[d].live /\ devices[d].version = version
UseTrustedDevice(d, version) ==
    d # NoDevice /\ cachedSecurity.trusted /\ ValidateAndTouch(d, version)
\* The device of this browser is replaced; beyond the limit the least recently
\* used ones (here: any) are revoked.
Issue(d, old, version) ==
    \E over \in SUBSET (Devices \ {d}) :
      LET live == {x \in Devices \ {d, old} : devices[x].live /\ devices[x].version = version}
      IN /\ over \subseteq live
         /\ Cardinality(over) = IF Cardinality(live) >= MaxActivePerUser
                                   THEN Cardinality(live) + 1 - MaxActivePerUser ELSE 0
         /\ devices' = [x \in Devices |->
               IF x = d THEN [version |-> version, live |-> TRUE]
               ELSE IF x \in over \cup {old} THEN [devices[x] EXCEPT !.live = FALSE]
               ELSE devices[x]]
IssueTrustedDevice(a, d) ==
    IF d # NoDevice /\ cachedSecurity.trusted
       THEN Issue(d, attempts[a].device, attempts[a].version)
       ELSE UNCHANGED devices
\* handleDeleteMyTrustedDevice, handleRevokeOtherTrustedDevices; also expiry.
RevokeDevices(gone) ==
    /\ gone # {} /\ \A d \in gone : devices[d].live
    /\ devices' = [d \in Devices |-> IF d \in gone THEN [devices[d] EXCEPT !.live = FALSE] ELSE devices[d]]
    /\ UNCHANGED <<person, factors, links, policyVars, logins, changes, changed, totpStep, waived,
                   challengeVars, attempts, attempted, completions>>
-----------------------------------------------------------------------------
(* Primary sign-in *)

\* A switch of the account or of the policy the instance knows makes the factor compulsory.
LoginMFARequirement(a) == attempts[a].required \/ (attempts[a].admin /\ cachedSecurity.admins)

\* The password is right, or the provider has vouched for a linked identity; the
\* row that is read here is the one the session will be for.
Authenticate(a, d) ==
    /\ person.active /\ (person.password \/ links \cap enabledProviders # {})
    /\ StartAttempt(a, [NoAttempt EXCEPT !.pc = "primary", !.version = person.version,
                                         !.required = person.loginMFA, !.admin = person.admin,
                                         !.device = d])
    /\ UNCHANGED <<factorVars, challengeVars, completions>>

BeginMFAPending(a, ch) ==
    SaveMFAPending(ch, [state |-> "open", purpose |-> "login", version |-> attempts[a].version,
                        login |-> NoLogin])

\* What happens after the primary method: refused, a session without a second
\* factor, one that rests on a trusted device, or a challenge.
HandleLogin(a) ==
    LET required == LoginMFARequirement(a)
        trusted == UseTrustedDevice(attempts[a].device, attempts[a].version)
    IN /\ attempts[a].pc = "primary"
       /\ required => LoginMethods # {}
       /\ EndAttempt(a)
       /\ \/ /\ ~required \/ trusted
             /\ \E l \in Logins : CreateSession(l, attempts[a].version, IF required THEN 2 ELSE 1)
             /\ UNCHANGED challengeVars
          \/ /\ required /\ ~trusted
             /\ \E ch \in Challenges : BeginMFAPending(a, ch)
             /\ UNCHANGED <<logins, ceremonies>>
       /\ UNCHANGED <<person, factors, links, policyVars, changes, changed, restVars, completions>>

\* The password was right; with a factor the challenge is bound to the session.
\* Without one the session is only marked as recently authenticated.
BeginReauthenticationMFAPending(l, ch) ==
    /\ Usable(l) /\ LoginMethods # {}
    /\ SaveMFAPending(ch, [state |-> "open", purpose |-> "reauthentication",
                           version |-> person.version, login |-> l])
HandlePasswordReauthentication(l, ch) ==
    /\ person.password /\ BeginReauthenticationMFAPending(l, ch) /\ Counted
    /\ UNCHANGED <<factorVars, ceremonies, completions>>

BeginOAuthStepUpMFAPending(l, ch) ==
    /\ LoginMethods # {}
    /\ SaveMFAPending(ch, [state |-> "open", purpose |-> "oauth_step_up",
                           version |-> person.version, login |-> l])
\* A client asks for level 2 and the session has less.
HandleConsentStepUp(l, ch) ==
    /\ Usable(l) /\ logins[l].level < 2 /\ BeginOAuthStepUpMFAPending(l, ch) /\ Counted
    /\ UNCHANGED <<factorVars, ceremonies, completions>>
-----------------------------------------------------------------------------
(* Answering a challenge *)

LoadMFAPendingUser(ch) ==
    /\ challenges[ch].state = "open"
    /\ person.active /\ person.version = challenges[ch].version
    /\ LoginMethods # {}
    /\ challenges[ch].purpose # "login" =>
          Usable(challenges[ch].login) /\ logins[challenges[ch].login].version = challenges[ch].version

AnswerTo(ch, pc, method) ==
    [NoAttempt EXCEPT !.pc = pc, !.method = method, !.challenge = ch,
                      !.purpose = challenges[ch].purpose, !.version = challenges[ch].version,
                      !.login = challenges[ch].login]

\* The method must be one of the account's; that includes "passkey".
HandleVerifyMFAChallenge(a, ch, method) ==
    /\ LoadMFAPendingUser(ch) /\ method \in LoginMethods
    /\ StartAttempt(a, AnswerTo(ch, "verify", method))
    /\ UNCHANGED <<factorVars, challengeVars, completions>>

\* The factor has been verified, or the switch over the methods has no case for it.
Verified(a, factor) ==
    /\ attempts' = [attempts EXCEPT ![a].pc = "complete", ![a].factor = factor]
    /\ UNCHANGED attempted

VerifyTOTP(a, k) ==
    /\ LockAuthenticationState(attempts[a].version)
    /\ factors.totp = "confirmed" /\ k \in MatchTOTP /\ k > factors.last
    /\ ConsumeMFAPending(attempts[a].challenge)
    /\ factors' = [factors EXCEPT !.last = k]
    /\ Verified(a, <<"totp", factors.secret, k>>)
    /\ UNCHANGED <<person, links, policyVars, logins, changes, changed, restVars, ceremonies, completions>>
ConsumeRecoveryCode(a, code) ==
    /\ LockAuthenticationState(attempts[a].version)
    /\ code \in factors.codes
    /\ ConsumeMFAPending(attempts[a].challenge)
    /\ factors' = [factors EXCEPT !.codes = @ \ {code}]
    /\ Verified(a, <<"recovery_code", code>>)
    /\ UNCHANGED <<person, links, policyVars, logins, changes, changed, restVars, ceremonies, completions>>
\* The switch of handleVerifyMFAChallenge; a method without a case of its own is
\* neither verified nor does it take the challenge.
VerifyFactor(a) ==
    /\ attempts[a].pc = "verify"
    /\ CASE attempts[a].method = "totp" -> \E k \in MatchTOTP : VerifyTOTP(a, k)
         [] attempts[a].method = "recovery_code" -> \E code \in factors.codes : ConsumeRecoveryCode(a, code)
         [] OTHER -> Verified(a, NoFactor) /\ UNCHANGED <<factorVars, challengeVars, completions>>
\* The challenge is taken and the commit fails, or the instance stops: the
\* factor is as good as new, the challenge is lost.
CommitFails(a) ==
    /\ attempts[a].pc = "verify" /\ attempts[a].method # "passkey"
    /\ ConsumeMFAPending(attempts[a].challenge)
    /\ EndAttempt(a)
    /\ UNCHANGED <<factorVars, ceremonies, completions>>

\* The row is read again; the session is created or brought to level 2.
CompleteMFAChallenge(a, d) ==
    /\ attempts[a].pc = "complete" /\ attempts[a].challenge # NoChallenge
    /\ person.active /\ person.version = attempts[a].version
    /\ IF attempts[a].purpose = "login"
          THEN /\ \E l \in Logins : CreateSession(l, attempts[a].version, 2)
               /\ IssueTrustedDevice(a, d)
          ELSE /\ logins[attempts[a].login].version = attempts[a].version
               /\ logins' = [logins EXCEPT ![attempts[a].login].level = 2]
               /\ UNCHANGED devices
    /\ completions' = completions \cup {[serial |-> attempts[a].serial, factor |-> attempts[a].factor,
                                         challenge |-> attempts[a].challenge]}
    /\ EndAttempt(a)
    /\ UNCHANGED <<person, factors, links, policyVars, changes, changed, totpStep, waived, challengeVars>>
-----------------------------------------------------------------------------
(* Passkeys *)

\* What a ceremony is begun with, and for whom.
BeginDiscoverablePasskeyLogin == [NoCeremonyData EXCEPT !.state = "open"]
BeginKnownPasskeyAuthentication(purpose, version, l, ch) ==
    [state |-> "open", purpose |-> purpose, version |-> version, login |-> l, parent |-> ch]
BeginPasskeyRegistration(l) ==
    [NoCeremonyData EXCEPT !.state = "open", !.purpose = "registration",
                           !.version = logins[l].version, !.login = l]

HandleBeginPasskeyLogin(cer) ==
    /\ SaveWebAuthnCeremony(cer, BeginDiscoverablePasskeyLogin) /\ Counted
    /\ UNCHANGED <<factorVars, challenges, completions>>
HandleBeginMFAPasskey(cer, ch) ==
    /\ LoadMFAPendingUser(ch) /\ "passkey" \in LoginMethods
    /\ SaveWebAuthnCeremony(cer, BeginKnownPasskeyAuthentication("mfa", challenges[ch].version, NoLogin, ch))
    /\ Counted
    /\ UNCHANGED <<factorVars, challenges, completions>>
HandleBeginPasskeyReauthentication(cer, l) ==
    /\ Usable(l) /\ factors.passkeys # {}
    /\ SaveWebAuthnCeremony(cer, BeginKnownPasskeyAuthentication("reauthentication",
                                   logins[l].version, l, NoChallenge))
    /\ Counted
    /\ UNCHANGED <<factorVars, challenges, completions>>
\* The enrolment policy is read with the handle of the account.
LoadOrCreatePasskeyUser == security.passkeys
HandleBeginPasskeyRegistration(cer, l) ==
    /\ Usable(l) /\ LoadOrCreatePasskeyUser
    /\ SaveWebAuthnCeremony(cer, BeginPasskeyRegistration(l))
    /\ Counted
    /\ UNCHANGED <<factorVars, challenges, completions>>

LoadWebAuthnCeremony(cer, purpose) ==
    ceremonies[cer].state = "open" /\ ceremonies[cer].purpose = purpose

HandleFinishPasskeyLogin(a, cer) ==
    /\ LoadWebAuthnCeremony(cer, "login")
    /\ StartAttempt(a, [NoAttempt EXCEPT !.pc = "assert", !.method = "passkey", !.ceremony = cer])
    /\ UNCHANGED <<factorVars, challengeVars, completions>>
HandleFinishMFAPasskey(a, cer, ch) ==
    /\ LoadMFAPendingUser(ch) /\ "passkey" \in LoginMethods
    /\ LoadWebAuthnCeremony(cer, "mfa")
    /\ ceremonies[cer].parent = ch /\ ceremonies[cer].version = challenges[ch].version
    /\ StartAttempt(a, [AnswerTo(ch, "assert", "passkey") EXCEPT !.ceremony = cer])
    /\ UNCHANGED <<factorVars, challengeVars, completions>>
BoundToSession(cer, l) ==
    Usable(l) /\ ceremonies[cer].login = l /\ ceremonies[cer].version = logins[l].version
HandleFinishPasskeyReauthentication(a, cer, l) ==
    /\ LoadWebAuthnCeremony(cer, "reauthentication") /\ BoundToSession(cer, l)
    /\ StartAttempt(a, [NoAttempt EXCEPT !.pc = "assert", !.method = "passkey", !.ceremony = cer,
                            !.purpose = "reauthentication", !.version = logins[l].version, !.login = l])
    /\ UNCHANGED <<factorVars, challengeVars, completions>>
HandleFinishPasskeyRegistration(a, cer, l) ==
    /\ LoadWebAuthnCeremony(cer, "registration") /\ BoundToSession(cer, l)
    /\ StartAttempt(a, [NoAttempt EXCEPT !.pc = "register", !.method = "passkey", !.ceremony = cer,
                            !.version = logins[l].version, !.login = l])
    /\ UNCHANGED <<factorVars, challengeVars, completions>>

LoadDiscoverablePasskeyUser == LockUserRow /\ person.active /\ factors.passkeys # {}
InsertPasskeyCredential(k) ==
    k \notin factors.passkeys /\ factors' = [factors EXCEPT !.passkeys = @ \cup {k}]

\* The credential and its counter are checked against the rows locked now; what
\* the ceremony was begun for is taken out of Redis before the commit.
FinishDiscoverablePasskeyLogin(a) ==
    /\ attempts[a].pc = "assert" /\ attempts[a].purpose = "login" /\ attempts[a].challenge = NoChallenge
    /\ LoadDiscoverablePasskeyUser
    /\ ConsumeWebAuthnCeremony(attempts[a].ceremony)
    /\ attempts' = [attempts EXCEPT ![a].pc = "complete", ![a].version = person.version,
                                    ![a].factor = <<"passkey", attempts[a].ceremony>>]
    /\ UNCHANGED <<factorVars, attempted, challenges, completions>>
FinishKnownPasskeyAuthentication(a) ==
    /\ attempts[a].pc = "assert" /\ attempts[a].version # 0
    /\ LockAuthenticationState(attempts[a].version) /\ factors.passkeys # {}
    /\ IF attempts[a].challenge # NoChallenge
          THEN ConsumeWebAuthnCeremonyAndMFAPending(attempts[a].ceremony, attempts[a].challenge)
          ELSE ConsumeWebAuthnCeremony(attempts[a].ceremony) /\ UNCHANGED challenges
    /\ Verified(a, <<"passkey", attempts[a].ceremony>>)
    /\ UNCHANGED <<factorVars, completions>>
FinishPasskeyRegistration(a, k) ==
    /\ attempts[a].pc = "register"
    /\ LockSecurityShared /\ security.passkeys /\ LockAuthenticationState(attempts[a].version)
    /\ ConsumeWebAuthnCeremony(attempts[a].ceremony)
    /\ InsertPasskeyCredential(k)
    /\ person' = IncrementAuthVersion(person)
    /\ attempts' = [attempts EXCEPT ![a].pc = "rotate"]
    /\ UNCHANGED <<links, policyVars, logins, changes, changed, restVars, attempted, challenges, completions>>

\* The sign-in with a passkey alone, and the repeated authentication of a session.
CompletePasskey(a) ==
    /\ attempts[a].pc = "complete" /\ attempts[a].challenge = NoChallenge
    /\ person.active /\ person.version = attempts[a].version
    /\ IF attempts[a].purpose = "login"
          THEN \E l \in Logins : CreateSession(l, attempts[a].version, 2)
          ELSE UNCHANGED logins
    /\ completions' = completions \cup {[serial |-> attempts[a].serial, factor |-> attempts[a].factor,
                                         challenge |-> NoChallenge]}
    /\ EndAttempt(a)
    /\ UNCHANGED <<person, factors, links, policyVars, changes, changed, restVars, challengeVars>>
RespondRegistered(a) ==
    /\ attempts[a].pc = "rotate"
    /\ logins' = IF person.active /\ person.version = attempts[a].version + 1
                    THEN [l \in Logins |-> IF l = attempts[a].login
                                              THEN [version |-> person.version, level |-> 1, by |-> "rotation"]
                                              ELSE NoSession]
                    ELSE [logins EXCEPT ![attempts[a].login] = NoSession]
    /\ EndAttempt(a)
    /\ UNCHANGED <<person, factors, links, policyVars, changes, changed, restVars, challengeVars, completions>>
-----------------------------------------------------------------------------
SignInInit ==
    /\ FactorInit
    /\ \E pending \in Challenges \cup {NoChallenge} :  \* a sign-in may wait for its factor
          /\ pending # NoChallenge => person.loginMFA
          /\ challenges = [ch \in Challenges |->
                IF ch = pending THEN [NoPending EXCEPT !.state = "open", !.version = 1] ELSE NoPending]
    /\ ceremonies = [cer \in Ceremonies |-> NoCeremonyData]
    /\ attempts = [a \in Attempts |-> NoAttempt] /\ attempted = 0
    /\ completions = {}

\* The devices whose token some browser holds.
Issued == {d \in Devices : devices[d].version > 0}

PrimaryStep(a) ==
    \/ \E d \in Issued \cup {NoDevice} : Authenticate(a, d)
    \/ HandleLogin(a)
AnswerStep(a) ==
    \/ \E ch \in Challenges, m \in LoginMethods : HandleVerifyMFAChallenge(a, ch, m)
    \/ VerifyFactor(a)
    \/ CommitFails(a)
    \/ \E d \in (Devices \ Issued) \cup {NoDevice} : CompleteMFAChallenge(a, d)
    \/ AttemptRefused(a)
PasskeyStep(a) ==
    \/ \E cer \in Ceremonies : HandleFinishPasskeyLogin(a, cer)
    \/ \E cer \in Ceremonies, ch \in Challenges : HandleFinishMFAPasskey(a, cer, ch)
    \/ \E cer \in Ceremonies, l \in Logins : HandleFinishPasskeyReauthentication(a, cer, l)
    \/ \E cer \in Ceremonies, l \in Logins : HandleFinishPasskeyRegistration(a, cer, l)
    \/ FinishDiscoverablePasskeyLogin(a)
    \/ FinishKnownPasskeyAuthentication(a)
    \/ \E k \in Passkeys : FinishPasskeyRegistration(a, k)
    \/ CompletePasskey(a)
    \/ RespondRegistered(a)
BeginStep ==
    \/ \E l \in Logins, ch \in Challenges : HandlePasswordReauthentication(l, ch)
    \/ \E l \in Logins, ch \in Challenges : HandleConsentStepUp(l, ch)
    \/ \E cer \in Ceremonies : HandleBeginPasskeyLogin(cer)
    \/ \E cer \in Ceremonies, ch \in Challenges : HandleBeginMFAPasskey(cer, ch)
    \/ \E cer \in Ceremonies, l \in Logins : HandleBeginPasskeyReauthentication(cer, l)
    \/ \E cer \in Ceremonies, l \in Logins : HandleBeginPasskeyRegistration(cer, l)
    \/ \E ch \in Challenges : DeleteMFAPending(ch)
    \/ \E cer \in Ceremonies : CeremonyExpires(cer)
    \/ \E gone \in SUBSET Devices : RevokeDevices(gone)
SignInNext ==
    \/ \E a \in Attempts : PrimaryStep(a) \/ AnswerStep(a) \/ PasskeyStep(a)
    \/ BeginStep
    \/ FactorNext /\ UNCHANGED <<challengeVars, attempts, attempted, completions>>
SignInSpec == SignInInit /\ [][SignInNext]_signInVars
-----------------------------------------------------------------------------
Apart(x, y) ==
    x.factor # NoFactor /\ y.factor # NoFactor
       => x.factor # y.factor /\ (x.challenge = y.challenge => x.challenge = NoChallenge)

(* A factor that was verified proves one completion: no time step,         *)
(* recovery code or ceremony stands behind two, and of the completions of  *)
(* one challenge at most one rests on a verified factor, whatever requests *)
(* race for it (the transactions of VerifyTOTPChallenge,                   *)
(* ConsumeRecoveryCodeChallenge and FinishKnownPasskeyAuthentication).     *)
VerifiedFactorProvesOnce == \A x, y \in completions : x # y => Apart(x, y)

(* What the documents say of every challenge: it is completed by a factor  *)
(* that was verified for it, and by one only.  handleVerifyMFAChallenge    *)
(* does not keep it: its switch has no case for the method "passkey".      *)
OneFactorOneCompletion ==
    /\ \A x \in completions : x.factor # NoFactor
    /\ VerifiedFactorProvesOnce

(* While the account asks for a second factor, every session that was      *)
(* signed in under its present version has level 2: a sign-in that read    *)
(* the row before the switch was turned on has the older version.          *)
CurrentSignInsAreProved ==
    \A l \in Logins : Usable(l) /\ person.loginMFA /\ logins[l].by = "login" => logins[l].level = 2
-----------------------------------------------------------------------------
(* Inductive strengthening.  The factor verified for a completion, or for  *)
(* an attempt that is about to complete, is spent and its challenge is     *)
(* gone: neither can be used once more.  A sign-in that holds the          *)
(* account's present version has read its present switch.                  *)
SpentCode(fs, s, k) ==
    /\ s <= fs.secret /\ (s = fs.secret => fs.totp # "unconfirmed")
    /\ s = fs.secret /\ fs.totp = "confirmed" => k <= fs.last
Spent(fs, cers, f) ==
    /\ f \in VerifiedFactor
    /\ f[1] = "totp" => SpentCode(fs, f[2], f[3])
    /\ f[1] = "recovery_code" => f[2] <= fs.issued /\ f[2] \notin fs.codes
    /\ f[1] = "passkey" => cers[f[2]].state = "gone"
Answered(chs, ch) == ch = NoChallenge \/ (ch \in Challenges /\ chs[ch].state = "gone")
Used(fs, cers, chs, x) == x.factor # NoFactor => Spent(fs, cers, x.factor) /\ Answered(chs, x.challenge)
Completing == {a \in Attempts : attempts[a].pc = "complete"}
ProofsInv ==
    /\ \A x \in completions : Used(factors, ceremonies, challenges, x)
    /\ \A a \in Completing : Used(factors, ceremonies, challenges, attempts[a])
    /\ \A x, y \in completions : x # y => Apart(x, y)
    /\ \A x \in completions, a \in Completing : Apart(x, attempts[a])
    /\ \A a, b \in Completing : a # b => Apart(attempts[a], attempts[b])
AttemptOK(a) ==
    /\ attempts[a].version <= person.version
    /\ attempts[a].pc = "primary" /\ attempts[a].version = person.version /\ person.loginMFA => attempts[a].required
    /\ attempts[a].pc = "verify" => attempts[a].challenge \in Challenges
    /\ attempts[a].pc \in {"assert", "register"} => attempts[a].ceremony \in Ceremonies
LevelsInv ==
    \A l \in Logins : logins[l].version = person.version /\ person.loginMFA /\ logins[l].by = "login"
                         => logins[l].level = 2
AccountInv ==
    /\ SignInTypeOK /\ FactorInv /\ LevelsInv
    /\ \A a \in Attempts : AttemptOK(a)
    /\ \A n \in factors.codes : n <= factors.issued
SignInInv == AccountInv /\ ProofsInv
=============================================================================
