# Verification of Nyauth

Nyauth is an OAuth 2.0 / OpenID Connect identity provider. Its Go server
(`src/internal`) keeps durable state in PostgreSQL and short-lived state
(sessions, codes, tokens, challenges) in Redis; any number of instances share
both. This directory holds TLA+ models of its protocols, TLC runs for small
instances and TLAPS proofs for all instances.

A PostgreSQL statement or transaction, and a Redis Lua script or MULTI/EXEC
pipeline, is one atomic step of a model. A request is a sequence of such steps;
the requests of all instances interleave, and each may fail or be abandoned
between two of them. Where a transaction checks under a lock and writes later,
the check and the write are two steps and the lock is what keeps others out. A
Redis key is modelled by its remaining life, 0 for a key that does not exist,
wherever expiry matters.

## Inventory

| Component | State | Operations | Hard behaviour | What makes it correct |
|---|---|---|---|---|
| Refresh-token families (`session/store.go`, `auth/token.go`) | Redis: current and used refresh tokens, access tokens, member set and revocation marker of each family, index of a user's families | issue, rotate, detect reuse, revoke by token, by user, before a version | overlapping refreshes, writes that arrive after a revocation, keys that expire in different order | one exchangeable token per family, revoked families stay dead, the index reaches all |
| Authorization-code grant (`auth/handler.go`, `auth/consent.go`, `authorization`) | Redis: consent challenge, code, consumed code, logical clock and marker per user and client; PostgreSQL: `oauth_authorizations` | authorize, accept, exchange, reuse, refresh, list, revoke | two stores, a clock that may go back, marker and tokens expiring | a code is exchanged once, a revoked grant stays dead, what is valid is listed |
| Device grant (`deviceauthorization`, `auth/device_authorization.go`) | Redis: device record, user code, consent challenge | start, poll, slow down, prepare, approve, deny, consume | polls, users and windows overlap on copies of one record | tokens once, a decision is final |
| Browser sessions (`session/store.go`, `server/session.go`, `server/reauthentication.go`) | Redis: sessions and index of a user; PostgreSQL: `auth_version`, `session_version` | create with limit, touch, re-authenticate, rotate, list, revoke | read in one store and written to the other, concurrent revocation | no session returns from the dead or gets a generation nobody proved, the index reaches all |
| Security revocation outbox (`securityrevocation`, migration 000003) | PostgreSQL: outbox rows with revision, lease and back-off; Redis as above | enqueue (trigger), claim, clean, complete, retry | crashes, lost answers, leases that run out, newer revisions | no revocation is forgotten, none hits the newest generation, all happen in the end |
| Users, registration, invitations, account tokens (`user`, `registration`, `invite`, `account`) | PostgreSQL: users, pending registrations, invites and their uses, tokens | register, verify, redeem, request and consume tokens, change the address, create, suspend, promote, delete, clean up, bootstrap | a clean-up against a verification, the last place of an invite, two administrators removing each other | places are not exceeded, addresses were proved and are used once, an administrator remains, only pending accounts are cleaned up |
| MFA (`mfa`, `trusteddevice`, `recovery`) | factors, last TOTP step, recovery codes, pending challenges, ceremonies, trusted devices, security policy and its cached copy | enrol, verify, remove, reset, trust, step up | one code in two requests, factors changed during a login, a stale policy | a factor proves one completion, no current session without what was demanded, compulsory factors and a way in remain |
| External providers and links (`provider`, `identity`) | rows, a snapshot per instance, flow state, cookie, links | edit, reload, begin, callback, link, confirm, unlink | a callback in another browser, two first logins at once, overlapping reloads | accounts of different people stay apart, snapshots do not go back |
| OAuth clients (`client`) | rows, owners, allowlist, secrets; OAuth policy and quota | create, edit, rotate secret, transfer, verify, replace the allowlist, delete | policy and quota change between validation and commit | nobody is given a client beyond the quota, new scopes are those the stored policy allows |
| Mail runtime (`mailruntime`, `runtimecoord`, `settings`, `user`) | PostgreSQL: `mail_runtime_state` (mode, active, candidate and previous version, revision, circuit), versions, tests, registration policy; memory: a sender snapshot per instance | save, test, activate, roll back, disable; deliver, open the circuit, probe, recover; set the policy, register, claim a batch | instances with stale snapshots, checks that span two rows, slow probes, keys one instance lacks | registration only with mail, gates hold at the commit, the circuit closes on fresh evidence, what is sent with was tested, instances converge |
| Mail outbox, audit outbox (`account/outbox.go`, `audit`) | rows with status, lease and attempts, statistics, audit log | queue, claim, send or write, report, retry, expire, clean up | a lease that lapses at work, a dispatcher that dies | each row is accounted for exactly once |
| Service control (`servicecontrol`, `runtimecoord`) | state with revision, pauses, heartbeats; memory: gates and leases of a process | change, load, admit, report, expire, reset | instances that lag behind, work admitted before the pause | what is reported as applied has stopped, instances converge |
| Media storage (`avatar`, `mediaruntime`) | image rows, objects in several stores, storage state, migration items | upload, import, remove, clean up, test, activate, migrate | crash between object and row, workers that lose their claim | the current image is readable |
| Signing keys (`auth/jwk.go`) | key rows with status and retention | generate, rotate, publish, sign | a request signs with a key rotated in between | a token verifies until it expires |
| Server (`server`) | none of its own besides rate limits | routing, middleware, handlers | calls several components | modelled with the component it calls |
| Telemetry, human verification, notifications, configuration, crypto, statistics, frontend | see "Not modelled" | | | not modelled |

Interactions. The server's handlers call the stores directly; nothing is passed
between components except through PostgreSQL and Redis. Users' version numbers
bind the rest together: sessions, families, codes, consents, challenges and
device records carry the versions they were made for, and are compared with the
current ones wherever they are used. The trigger on `users` feeds the revocation
outbox, whose dispatcher deletes sessions and families of older versions. Mail
and self-registration are tied by an advisory lock and by shared locks of the
mail row (`runtimecoord`): whoever depends on mail holds one of them until it
commits. The registration lock also ties service control to the registration
policy, and the security lock ties the policy for administrators to the factors
and roles it is about. Uploads and migrations of media are admitted by service
control.

`PROJECT.json` lists the hazards at the lines where they bite, with the
properties that would catch them.

## Modules

| Module | Models | Actions |
|---|---|---|
| `RefreshFamily` | families of one user | the steps of issuing, refreshing and revoking requests, `AdvanceAuthVersion`, the clean-up by user and by version, `Tick` |
| `RefreshChain` | what a family promises: a chain of tokens of which the last can be exchanged, until the chain ends | `Start`, `Attach`, `Exchange`, `End`, `Lapse` |
| `SecurityRevocation` | outbox, dispatchers and the credentials they remove | user changes (with the trigger), logins, `Claim`, `NextTask`, the two clean-ups, `Complete`, `Retry`, faults |
| `BrowserSession` | sessions of one user | login, use (`GetSession` with its write back), password re-authentication, change of password, rotation, listing, revocation, clean-up, expiry |
| `OAuthGrant` | grants of one user to one client | authorize, accept, issue, exchange, reuse, refresh, revoke, change of the client, `Tick` |
| `DeviceAuthorization` | one device code, several users | device requests, polls, consents, decisions, changes of client, user and allowlist, `Tick` |
| `MailRuntime` | mail row, circuit, registration policy, several instances | administration (`CreateCandidate`, `RecordTest`, `Activate`, `Rollback`, `BeginDisable`/`CommitDisable`), policy and registration, `BeginClaim`/`CommitClaim`, `Deliver`, `ClaimProbe`, `RecordProbeOutcome`, `LoadSender`, `Restart`, `Tick` |
| `AccountLifecycle` | users, registrations, invitations, account tokens | registration, verification, redemption, requests and use of tokens, administration, clean-up, bootstrap, time |
| `Factors` | the ways one account signs in and what changes them | the owner's changes of TOTP, recovery codes, passkeys, links, password and login requirement; the administrators' changes of role, status and policy; the recovery reset; reload of the policy |
| `SignIn` | extends `Factors` with logins and second factors | primary login, challenges and the factors that answer them, passkey ceremonies, trusted devices, upgrade of a session |
| `ServiceControl` | pauses, the gates of every server, heartbeats | changes and registration policy under their lock, load and publish, acquire and release of work, heartbeats, staleness, expiry, reset |
| `MediaStorage` | images, objects, storage candidates, migration | upload and import with compensation, removal, clean-up, test and activation, the steps of a migration worker, pause of writes |
| `Providers` | provider rows and snapshots, flows of several people | edit and reload, begin, the callback's steps for login, bind, confirmation and diagnosis, logout, links |
| `Clients` | OAuth clients, OAuth policy, quota | creation, update and transfer (validated, locked, committed), secrets, verification, allowlist, deletion, changes of policy, quota and owners |
| `SigningKeys` | keys and the requests that sign | `GenerateKey`, `Rotate`, `GetPrivateKey`, `SignToken`, time |
| `Outbox` | mail and audit queues | queue, claim, send or deliver, report, lapse, retry, expiry, clean-up, crash |
| `MC...` | instances and symmetry of the above, and the selection of parts | |
| `RefreshFamilyProof`, `SecurityRevocationProof`, `MailRuntimeProof`, `DeviceAuthorizationProof`, `AccountLifecycleProof` | theorems about the module they are named after | |
| `GrantsProof` | theorems about `SigningKeys`, `ServiceControl`, `BrowserSession` and `OAuthGrant` | |
| `SignInProof` | theorems about `Factors` and `SignIn` | |
| `PlatformProof` | theorems about `Outbox`, `Clients`, `Providers` and `MediaStorage` | |

Random strings are numbers or model values, fresh whenever the code draws one.
Checks that only look at a request (client credentials, PKCE, scopes, claims,
redirect URIs, rate limits, codes typed in, assertions of an authenticator) are
a verdict chosen freely, so that the code after either outcome is explored.
History variables (`ended`, `spent`, `late`, `saved`, `proved`, `answers`,
`issued`, `completions`, `reports`, `waived`, `stranded`, `unclear`, `strayed` ...) are named as such
and never read by an action. `Mutant of X` marks a faulty variant of `X`, which
is used only to show that a property can fail.

In `MailRuntime` a transaction that locks the mail row and commits is one step.
One that reads under a lock and writes later (disabling, the policy, a
registration, a batch claim) has a begin and a commit, with its locks in `tx`,
and may be rolled back in between; an instance is in at most one of those at a
time. `HasSender` stands for the SMTP settings, the password envelope and the
environment: an instance can build the sender or it cannot (`Unreadable`,
`WithFallback`). Requests with another revision than the stored one are refused
and left out; a candidate test, which compares the same revision before and
after it sends, is one step. Instances' clocks agree. A remembered registration
policy may be any earlier one. `Deployed` starts a run after that many rounds of
save, test and activate.

In `Factors` and `SignIn` one account is modelled with one number for the pair
`auth_version`, `session_version`, which the code compares together, and the
policy exists twice: as stored and as cached by the instance. A recovery code,
a time step and a ceremony are the identities of a proof, so that using one
twice can be seen. In `ServiceControl` work is a lease on a set of capabilities,
and a process that restarts is a new one. In `MediaStorage` the four sizes of an
image are one object, and `PlaceOf` says which storages are the same bucket and
prefix or directory; a round of the clean-up is taken by a server or from the
command line, and several may be under way. In `Providers` a browser stands for a person, who answers
a flow with an identity of their own and may hand the address of a callback to
somebody else's browser. In `Outbox` the times of a row are flags (due, lapsed,
over).

## Runs

Several modules share a run where they are small: a variable of the MC module
selects the part that moves, the others stay in their initial state, and the
properties of all parts are checked. The parts use the same model values, so
that one symmetry serves them all.

| Run | Result | Bounds | Question |
|---|---|---|---|
| `Grants` | holds | sessions: 2 requests, 2 sessions, limit 1, versions to 2, lives 1 and 2; grants: 2 requests, 2 grants, stamps to 3, 1 change of the client, 2 exchanges; keys: 3 keys, rotation 2, lifetimes to 3, margin 2, clock to 8; service control: 2 servers, 2 operators, 2 revisions, stale after 1 tick; mail: 2 instances, 2 versions deployed, 6 revisions, failure limit 2, window, probe interval and test validity 1, clock to 2 | `IndexReachesAll`, `GenerationWasProved`, `NoResurrection`; `CodeExchangedOnce`, `RevokedGrantStaysDead`, `LiveGrantIsListed`; `TokensVerify`; `AppliedIsStopped`, `PausesAreConsistent`; `TransportOpensOnBurst`, `SnapshotIsFaithful`, `RecoveryIsFresh`, `ProbesAreSpaced` |
| `Tokens` | holds | families: 2 families, 2 requests, 2 tokens, 2 versions, marker 3, requests 1 tick; device: 2 users, 2 challenges, 2 requests, life 2, clock and interval to 3, 1 change | `OneLiveRefreshToken`, `EndedFamilyStaysDead`, `UserRevocationReachesAll`, refinement `ImplementsChain`; `TokensOnce`, `AnswerIsFinal` |
| `AccountLifecycle` | holds | 3 accounts, 2 addresses, 1 invite with 1 place, 2 requests at once and 4 in all, 2 tokens (1 once there is a third account), 1 tick | `AccountsSound`, `AdminRemains`, `CleanupSparesConfirmed` |
| `SignIn` | holds | 2 sessions, 1 passkey, 1 provider, 1 device, 2 changes, 2 challenges, 1 ceremony, 2 attempts at once and 3 in all, 2 time steps, 3 policies, in three scenarios: changes that race each other; answers to challenges that race each other and one change; sign-ins of an account that asks for no factor yet, with one change, while time passes | `VerifiedFactorProvesOnce`, `CurrentSignInsAreProved`, `RequiredFactorKept`, `KeepsAWayIn` |
| `Live` | holds | revocation: 1 user, 2 dispatchers, 1 login, versions to 2, 2 credentials at a time, 1 fault; service control: 1 server, 2 operators, 2 revisions; mail: from a fresh database, 2 instances of which one has the fallback and the other lacks the key of the candidate, 1 version, 4 revisions, 2 policies, 1 registration | `RevocationIsScheduled`, `CurrentCredentialsKept`; `RegistrationNeedsMail`, `GateHoldsAtCommit`, `SendersWereTested`; under fairness `RevocationHappens`, `PausesConverge`, `InstancesConverge` |
| `Platform` | holds | media: 1 owner, 2 images, 1 upload, 2 nodes, 2 profiles of which one is at the place of the deployment, 2 migrations (1 where uploads, removals or clean-ups take part), 2 rounds of the clean-up, 2 claims of an item; providers: 2 instances, 1 name, 2 people, 2 flows, 2 changes; clients: 2 clients, 2 owners, 2 requests, limits 1 and 2, 1 scope, 1 change of policy; outboxes: 2 rows and 2 workers each, 2 attempts; scenes in `MCPlatform` restrict which steps are combined | `ImagesOutliveMigrations`; `PeopleStayApart`, `SnapshotsDoNotGoBack`; `GivenWithinQuota`, `NewScopesAreAllowed`; `AccountedOnce` |
| `RefreshFamilyShrink` | violated | 1 request, two policies of different length | `UserRevocationReachesAll` when the refresh lifetime is lowered |
| `BrowserSessionUpgrade` | violated | 1 session | `RevokedNotUpgraded` |
| `DeviceAuthorizationAccess` | violated | life 2 | `AccessRechecked` |
| `AccountCleanup` | violated | 2 accounts, 5 requests | `CleanupSparesAccounts` |
| `SignInPasskey` | violated | as `SignIn` | `OneFactorOneCompletion` |
| `MediaMigrations` | violated | as `Platform`, 1 image; two migrations, the second to the place of the first one's source | `CurrentImageIsReadable` |

Why the bounds are enough for the questions: the races are between two requests
(a third only repeats what one of the two does), over one object and a second
one to tell it apart from; two versions separate old from new; lives of one to
four ticks order all expiries in every way the assumptions on the lifetimes
leave open, including equal ones. With a session limit of 1 and two sessions the
limit is exceeded and enforced; with one place two redemptions compete for it,
and with limits 1 and 2 a creation, a transfer and a lowered limit do. Three
keys allow a token of the first to outlive two rotations. For mail, two failures
open the circuit, and six revisions are enough to open it, probe it on both
instances, close it and open it again before the slower probe reports, or to
roll back and fail again. From a fresh database four are enough to save a
candidate, test it, activate it and disable mail, with a policy opened before
and after (five were checked once, with the same result). In `Grants` a
transaction that disables mail ends before anything else happens; in `Live` it
interleaves with the rest.

`RefreshFamilyShrink` is checked for deadlock; the other specifications end when
their bounded sessions, challenges, revisions, requests and time are used up.
Every property of a passing run is paired in `PROJECT.json` with a mutant of the
model that violates it.

### Limits of the runs

What the runs leave out on purpose, because the code behaves differently there
or because it relies on something it does not enforce:

* `ImagesOutliveMigrations` says that an owner's image stays readable except for
  two kinds of images, which history variables name: those whose activation was
  committed but answered with an error (`unclear`), whose objects the upload's
  compensation deletes, and those of which a source was deleted by a worker of
  an earlier migration or in a migration within one place (`strayed`), which
  `MediaMigrations` shows to happen. Everything else, workers that lose their
  claims in the migration under way included, is inside the property.
* `VerifiedFactorProvesOnce` is about completions that rest on a verified factor;
  that there are others is what `SignInPasskey` shows. Likewise level 2 in
  `CurrentSignInsAreProved` is what the session records.
* `AdminRemains` and `CleanupSparesConfirmed` make an exception for accounts that
  an administrator suspended while they waited for verification (`stranded`),
  because of what `AccountCleanup` shows. Suspending them is an ordinary action
  of the model.
* `VerifiedWasProved`, a part of `AccountsSound`, is about accounts that
  `AccountLifecycle` makes: registered, invited, created by an administrator or
  at the bootstrap. An account created for a provider's identity
  (`identity/store.go:129`) is stored with its address verified and without a
  token, on the provider's word; that path is in `Providers`.
* `Tokens` has one lifecycle policy. A rotation sets the life of the family set to
  the larger of the two new lives, even if more was left (`session/store.go:251`).
  After both lifetimes have been lowered, the set can expire while an access token
  of the longer policy lives; a revocation, by the user or because an old refresh
  token was reused, then finds an empty set and leaves that token. (One that comes
  with a new `auth_version` still has it refused.) No run of the list
  checks this case. `ShrinkingBoth` in `MCRefreshFamily` is such a pair of
  policies: with one family, one request and three tokens TLC finds
  `EndedFamilyStaysDead` violated. The theorem about it has the hypothesis
  `AccessWithinFamily` for that reason.
* `RequiredFactorKept` leaves out accounts whose factors an operator reset
  (`waived`): `login_mfa_enabled` stays on, and the owner has to enrol again.
* `SigningKeys` assumes that a request signs less than `defaultClockSkew` after
  it has read its key, and that clocks agree.
* `ServiceControl` assumes clocks of equal rate and round trips below a tick.
  `AppliedIsStopped` is about the servers whose heartbeats counted when a change
  was reported as applied; one that was inactive then may open its gates with
  its old state until its next load.
* Mail is delivered at least once: a courier that loses its lease after SMTP
  accepted the message leads to a second one. `AccountedOnce` is about rows and
  statistics. An audit event that is not delivered before the partition of its
  time is dropped is outside the model.
* Two replacements of a client's allowlist at once leave the union of both
  lists, which no property forbids, though the comment at `client/store.go:901`
  calls the replacement atomic.

### Findings

* `RefreshFamilyShrink`: saving a refresh token sets the life of the index of
  the user's families to the life of the new token. After an administrator has
  lowered that lifetime, the index can expire before older families, and a
  revocation for the user no longer reaches them. (Their tokens are refused by
  their `auth_version` where the revocation came with a new one.)
* `BrowserSessionUpgrade`: a re-authentication in flight lifts a session to the
  newest generation although a version change had revoked it, because the user
  is read again after the middleware's check. The holder has entered the current
  password, so this is a deviation from the comment of `UpdateSession`, and not
  from what a session must prove (`GenerationWasProved` holds).
* `DeviceAuthorizationAccess`: the documentation promises that the access policy
  is checked again when the device fetches its tokens; `handleDeviceCodeGrant`
  does not. The access token is refused later; the ID token is handed out.
* `AccountCleanup`: `UpdateAdmin` completes a registration only when it takes an
  account from pending to active. An account that is suspended while it is
  pending and activated later keeps its pending registration, and the clean-up,
  which looks at the registration alone, deletes the active account. The
  documentation speaks of pending users who did not verify. Such an account may
  have been promoted meanwhile and be the last administrator, hence the exception
  in `AdminRemains`.
* `SignInPasskey`: the documentation says that a second factor must be completed,
  and that the passkey factor deletes its ceremony and the challenge together.
  `handleVerifyMFAChallenge` accepts any of the account's methods, and its switch
  (`server/mfa_handlers.go:342`) has no case for `passkey`: a request that names
  it runs no verification and goes on to complete the challenge, which stays in
  Redis. A default case, or `passkey` refused in this handler, would restore
  `OneFactorOneCompletion`.
* `MediaMigrations`: the documentation says that a source is deleted after the
  image was switched to a verified copy. `migrateOnce` does so without asking
  whether its migration is still the current one: a worker delayed there, while
  others end that migration and a second one moves the image back, deletes the
  copy the row names again. The same happens without a delay in a migration
  between two profiles of the same bucket and prefix, which nothing refuses.

### Fairness

One run assumes any. In `Live`, `Dispatcher.Run` polls until its
process ends and always goes on to the next step of its batch, hence weak
fairness of each dispatcher's steps; leases and back-offs are waits for a time,
hence weak fairness of their ends; claims take the oldest due rows first, hence
weak fairness of the claim of each row that stays claimable. Faults are bounded
in number: with unboundedly many nothing could be promised. No fairness is
assumed of logins and user changes. In the part about service control the
reconciliation loop of a running server, its load of the row and the refresh
after it, is weakly fair (`ControlFairness`): it runs until the process ends,
whatever notifications are lost, and the row is readable from time to time, even
if the heartbeat after it fails. Admitted work ends, because handlers and workers
release their lease when they return. Nothing is assumed of operators, and a
server that stops is outside `PausesConverge`. In the part about mail each
instance's `LoadSender` is weakly fair (`MailFairness`): it runs on every
notification and, should one be lost, from the reconciliation ticker of
`Manager.reconcile`, which never stops while the process runs. Reading the row
succeeds from time to time; nothing is assumed of administrators and senders.
While one part is checked the others are at rest: the server has ended, no row
waits in the outbox, and the instances have loaded the mail row.

## Proofs

Every invariant, every action property and the refinement that a passing run
checks is also a theorem, for all values of the constants; only liveness is not.
The assumptions on the constants give them their types and sizes and say of the
lifetimes what the code's constants imply; whatever the code does not enforce is
a hypothesis of the theorem that needs it, and a run or a paragraph above shows
what happens without it. Each property rests on an inductive invariant, stated
at the end of the component's module or in its proof module, with one lemma per
step of the specification.

| Theorem | Property | Hypothesis beyond the assumptions |
|---|---|---|
| `RefreshFamilyProof`: `TypeCorrect`, `SingleRefreshToken` | `OneLiveRefreshToken` | |
| `RevocationIsFinal`, `StoreImplementsChain` | `EndedFamilyStaysDead`, `ImplementsChain` | `AccessWithinFamily` |
| `SteadyIndexReachesAll` | `UserRevocationReachesAll` | `SteadyLifetimes` |
| `SecurityRevocationProof`: `RevocationTypes`, `NoRevocationForgotten`, `CleanupIsSafe` | `RevocationIsScheduled`, `CurrentCredentialsKept` | |
| `MailRuntimeProof`: `RegistrationKeepsMail`, `GateIsCurrent`, `RevisionIdentifiesRow`, `RowIsConsistent`, `ProbesCloseFresh`, `ProbesKeepInterval`, `OnlyTestedSenders`, `BurstsOpenTheCircuit` | `RegistrationNeedsMail`, `GateHoldsAtCommit`, `SnapshotIsFaithful`, the table's constraints, `RecoveryIsFresh`, `ProbesAreSpaced`, `SendersWereTested`, `TransportOpensOnBurst` | |
| `GrantsProof`: `LiveTokensVerify` | `TokensVerify` | |
| `ControlStaysConsistent`, `AppliedPausesHold` | `PausesAreConsistent`, `AppliedIsStopped` | |
| `RevocationReachesEverySession`, `SessionGenerationsAreProved`, `SessionsStayDeleted` | `IndexReachesAll`, `GenerationWasProved`, `NoResurrection` | |
| `CodesAreExchangedOnce`, `RevocationIsFinal`, `AcceptedGrantsAreListed` | `CodeExchangedOnce`, `RevokedGrantStaysDead`, `LiveGrantIsListed` | |
| `DeviceAuthorizationProof`: `DeviceCodesYieldTokensOnce`, `DecisionsAreFinal` | `TokensOnce`, `AnswerIsFinal` | |
| `SignInProof`: `CompulsoryFactorsAreKept`, `NobodyIsLockedOut`, `SignInsAreProved` | `RequiredFactorKept`, `KeepsAWayIn`, `CurrentSignInsAreProved` | |
| `FactorsAreUsedOnce` | `VerifiedFactorProvesOnce` | |
| `AccountLifecycleProof`: `AccountsStaySound` | `AccountsSound` | |
| `AnAdministratorRemains`, `CleanupSparesWhomItShould` | `AdminRemains`, `CleanupSparesConfirmed` | |
| `PlatformProof`: `DeliveriesAreCountedOnce` | `AccountedOnce` | |
| `ClientsAreGivenWithinTheQuota`, `ClientScopesFollowThePolicy` | `GivenWithinQuota`, `NewScopesAreAllowed` | |
| `SnapshotsOnlyAdvance`, `ProvidersKeepPeopleApart` | `SnapshotsDoNotGoBack`, `PeopleStayApart` | |
| `CurrentImagesOutliveMigrations` | `ImagesOutliveMigrations` | |

### Token families

`LifetimesAssumption` says that requests (15 seconds) are over before a token or
marker they wrote has expired (minutes). `FamilyInv` adds to the types, per
family (`FamilyOK`): at most one token is exchangeable, it is a member of the
family set and the set outlives it (otherwise a revocation misses it), and an
ended family has no refresh token; and, per request (`RequestOK`): one that is
still going to store an access token holds a number already drawn, and if its
family has ended the marker outlives the request (otherwise its late write would
revive the family). What it says of access tokens (`AccessOK`) needs
`AccessWithinFamily`: no policy gives the family set a shorter life than another
gives an access token. One policy alone always satisfies it, since the set gets
the larger of its two lives; a change of policy may not, because the settings
bound each lifetime by itself (`settings/policies.go:32`), and
what happens then is told under "Limits of the runs". The scripts are functions on one
family, and one lemma about each of them carries most of the proof.

`StoreImplementsChain` maps the stored keys to `RefreshChain` (issued, current,
spent and bearer tokens). `ChainInv` adds that a spent token is not current any
more; every step of a request is then a step of the chain or a stutter.
`SteadyIndexReachesAll` is for policies with one refresh lifetime, longer than an
access token's by a request; `IndexInv` says that the index outlives every
family with a live token, and that a family about to get its access token has a
refresh token of that age or was revoked.

### Revocation outbox

`RevocationInv` says: a row carries the newest generation of its user; tasks are
never ahead of the user; as long as a dispatcher holds the lease, the row has its
task's revision and generation or a newer revision, so `Complete` removes a row
only for the generation that was cleaned; and what a dispatcher has cleaned under
its lease is gone except for credentials stored late. Late credentials are
outside `RevocationIsScheduled`: they are refused by their versions wherever they
are used.

### Mail

All but the row's own invariants rest on one lemma, `RowAdvances`: a step leaves
the mail row alone, or nobody holds it shared and its revision grows by one. The
invariants on top of it, each needed because the property alone does not survive
a step: `CountBelowLimit` (a closed circuit has room for one more failure);
`TxInv` (a disable or policy transaction excludes the others, and what a
transaction has read stays true until it commits); `SnapInv` (no snapshot is
newer than the row); `RowInv` (no version number exceeds the last one saved, so a
new candidate differs from the rest); `RecoveryInv` (a probe that still has the
stored revision was claimed after the circuit opened); `SpacingInv` (the next
probe is at least an interval after the last claim); `TestInv` (also snapshots
and open transactions name tested versions only); `BurstInv` (the row counts the
newest failures of the burst, the first of them began the window and the last
lies within it).

### Keys, service control, sessions and grants

* `SigningInv`: a key that a request holds was current less than `Skew` ago, and
  it, like the key of a live token, can be used for verification until the token
  could expire (`Covers`), even if it is replaced next.
* `ControlInv`: a transaction under the registration lock is alone and what it
  validated is still true (`OperationInv`); all copies of the state are earlier
  versions of it, one per revision (`CopiesInv`); a gate that has applied a
  revision has no work left that it pauses (`GatesInv`); heartbeats and reports
  are never ahead of their server (`ReportsInv`).
* `BrowserInv`: a request that will save a session has a number of its own that
  was never saved, and the generation it will write was proved for that session
  (`VisitsInv`). `SessionsStayDeleted` follows from the same invariant.
* `GrantInv`: logical times are given out in order (`StampsInv`); one request
  makes the grant of a challenge and stores its code (`MintInv`); the marker of
  the last revocation outlives what a revoked grant has left, its tokens, its code
  and requests under way at whatever age (`RevokedInv`); the row is revoked only
  for grants that are and lists all others (`RowInv`). `GrantLifetimes` is what
  `RevokedInv` needs of the constants: the marker lives longer than a token plus a
  request, and than a code plus two.

### Device codes

`DeviceInv`: the record is created once (`CreatedOnce`), has no answer while it is
pending and only its own later (`RecordOK`), consents are of a user
(`ConsentOK`), and all polls that have seen the approval are of the user who gave
it, at most one of them past `ConsumeApproved` (`PollsOK`).

### Accounts and factors

* `FactorInv`: what a change has checked under its locks is still true when it
  writes, and the locks leave at most a policy change and an unlinking side by
  side (`LocksInv`); sessions and changes are never ahead of the account's version
  (`VersionsInv`). `LevelsInv` and `AttemptOK` carry `SignInsAreProved`: a sign-in
  that holds the account's present version has read its present switch.
* `ProofsInv`: the verified factor behind a completion, and behind an attempt
  about to complete, is spent (a step not after the last one accepted, a code no longer
  stored, a ceremony gone), its challenge is gone, and no two share either.
* `AccountInv` of `AccountLifecycle`: the id a registration drew is unused, the
  invitation it locked has a place left, an administrator's target exists
  (`AskOK`), and no two requests hold the same of these (`AsksApart`). `AdminInv`
  adds that an administrator whose removal is under way is not the only one
  (`ChecksHold`) and that a registration is pending only while its account is, or
  after the account was suspended meanwhile (`PendingWaits`). `Accounts` is finite, since places are
  counted.

### Outboxes, clients, providers, media

* `DeliveriesAreCountedOnce`: the statistics equal the numbers of rows that ended
  in each way, which the report of an owner and nothing else changes (finite
  `Mails` and `Events`).
* `ClientsInv`: what a request was validated for (`Validated`) and what its
  transaction has checked under its locks (`Checked`) hold until it commits,
  because two transactions hold different rows (`LocksApart`).
* `SnapshotInv`: a snapshot, and what a load has read, is not ahead of the rows,
  and while it is being replaced it changes in no other way. `PeopleInv`: a flow
  acts for the person whose browser began it (`FlowOK`), because the cookie keeps
  it there (`CookieOK`).
* `MediaInv`: an upload has a staging row to itself (`UploadOK`), what the clean-up
  took is nobody's image (`TakenOK`), the row of an image follows its migration
  item (`MigrationOK`, `ItemOK`), a worker deletes a source only after the switch
  and its copy is there as long as the image is somebody's (`MoverOK`), and an
  owner's image is active, his only one and stored (`OwnerOK`). Of a worker of an
  earlier migration only the image is known, and that it is no upload's: enough,
  because all it can still delete is recorded in `strayed`.

### Only model-checked

Liveness: `RevocationHappens`, `InstancesConverge` and `PausesConverge` (fairness
and ENABLED are out of the prover's reach). The properties of the violated runs
are refuted in the setting of the run; where a theorem states one, its hypothesis
excludes that setting. What recursive definitions compute for all inputs cannot
be proved here (no induction over data); no module declares any.

## Plan

The model covers the parts whose state other parts depend on, and its safety
properties are proved. What could be added to the proofs:

1. the index of a user's families when policies only lengthen the refresh
   lifetime, between `SteadyLifetimes` and the counterexample of
   `RefreshFamilyShrink`;
2. type correctness of the remaining modules as theorems of their own; it is a
   conjunct of their inductive invariants already.

## Not modelled

* Observability runtime and telemetry: exporters and counters, pure output on
  which no other part depends. Its versions are saved, tested and activated like
  those of mail.
* Human verification: its runtime repeats the candidate, test and activation of
  the mail runtime; a challenge is answered by an external service, and its
  verdict is one of the free verdicts of the requests that ask for it.
* Notifications and communications: read marks and announcements in single rows,
  without a protocol between actors.
* Step-up rules, security actions, the OAuth operations log: a comparison of
  levels and append-only records; the step-up flow itself is in `SignIn`.
* Of users: profile fields, listing and search. Of the audit log: queries, export
  and the creation of partitions. Of settings: the validation of values, and the
  lifecycle, communications and observability settings. Of the server: routing,
  headers, rate limits and rendering.
* Configuration, database bootstrap, branding and statistics, which keep no
  protocol state, cryptographic primitives, which are assumed to work, and the
  web frontend, whose protocol state is on the server.
