-------------------------------- MODULE Clients --------------------------------
(***************************************************************************)
(* OAuth clients: who may create, change, own and verify them, under two   *)
(* rows of runtime_settings that administrators change at any time: the    *)
(* OAuth policy (which scopes may be given to clients, and by whom) and    *)
(* the number of clients a user may own.                                   *)
(*                                                                         *)
(* A request is validated against the policy snapshot of its instance,     *)
(* which may be old, and then runs a transaction.  The advisory locks and  *)
(* the row lock of the owner are taken when the transaction starts and     *)
(* kept to its end.  Grants, claims and redirect URIs follow the rule of   *)
(* the scopes.                                                             *)
(***************************************************************************)
EXTENDS Naturals, FiniteSets

CONSTANTS Clients,
          ClientOwners,        \* users who may own clients
          Requests,      \* transactions on clients under way
          PolicyInstances,
          Scopes,
          Limits,        \* values of owned_client_default_limit and of the override
          NoOwner,
          MaxPolicy      \* bound: revisions of the OAuth policy

ASSUME ClientAssumptions ==
    /\ Limits \subseteq Nat /\ MaxPolicy \in Nat
    /\ NoOwner \notin ClientOwners \cup Clients /\ IsFiniteSet(Clients)

VARIABLES policy,      \* runtime_settings 'oauth'
          limit,       \* runtime_settings 'protection': owned_client_default_limit
          policySnapshots,   \* the OAuth policy each instance has loaded
          owners,      \* users: status and owned_client_limit_override
          clients,     \* oauth_clients
          access,      \* client_access_users of a client
          requests     \* requests and the locks of their transactions
clientVars == <<policy, limit, policySnapshots, owners, clients, access, requests>>
settingVars == <<policy, limit, policySnapshots>>

\* assignable: scopes users may give to their own clients; selfService: users may create clients.
Policy == [revision : Nat, allowed : SUBSET Scopes, assignable : SUBSET Scopes, selfService : BOOLEAN]
Owner == [active : BOOLEAN, override : Limits \cup {NoOwner}]
Client == [there : BOOLEAN, owner : ClientOwners \cup {NoOwner}, scopes : SUBSET Scopes, secret : Nat, used : BOOLEAN,
           publisher : {"system", "unverified", "verified"}]
NoClient == [there |-> FALSE, owner |-> NoOwner, scopes |-> {}, secret |-> 0, used |-> FALSE, publisher |-> "system"]
Request == [step : {"idle", "built", "locked", "replacing"}, kind : {"create", "update", "transfer", "access"},
            admin : BOOLEAN, client : Clients \cup {NoOwner}, owner : ClientOwners \cup {NoOwner},
            scopes : SUBSET Scopes, policy : Policy, list : SUBSET ClientOwners, overtaken : BOOLEAN]

FirstPolicy == [revision |-> 0, allowed |-> Scopes, assignable |-> Scopes, selfService |-> TRUE]
Idle == [step |-> "idle", kind |-> "create", admin |-> FALSE, client |-> NoOwner, owner |-> NoOwner,
         scopes |-> {}, policy |-> FirstPolicy, list |-> {}, overtaken |-> FALSE]

ClientsTypeOK ==
    /\ policy \in Policy /\ limit \in Limits
    /\ policySnapshots \in [PolicyInstances -> Policy]
    /\ owners \in [ClientOwners -> Owner]
    /\ clients \in [Clients -> Client]
    /\ access \in [Clients -> SUBSET ClientOwners]
    /\ requests \in [Requests -> Request]

ClientsInit ==
    /\ policy = FirstPolicy /\ limit \in Limits
    /\ policySnapshots = [i \in PolicyInstances |-> FirstPolicy]
    /\ owners = [u \in ClientOwners |-> [active |-> TRUE, override |-> NoOwner]]
    /\ clients = [c \in Clients |-> NoClient]
    /\ access = [c \in Clients |-> {}]
    /\ requests = [r \in Requests |-> Idle]
-----------------------------------------------------------------------------
(***************************************************************************)
(* Locks, from the transactions that hold them.                            *)
(***************************************************************************)

\* The advisory lock of the OAuth policy: shared by creations and updates of clients.
PolicyLockIgnored == TRUE
LockOAuthPolicyExclusive == \A r \in Requests : requests[r].step = "locked" => requests[r].kind = "transfer"

\* A transaction gives a client to an owner who does not have it.
GivesClient(q) ==
    /\ q.kind \in {"create", "transfer"} /\ q.owner # NoOwner
    /\ q.kind = "transfer" => clients[q.client].owner # q.owner

\* The advisory lock of the quota: shared by those transactions.
LockClientQuotaExclusive == \A r \in Requests : requests[r].step = "locked" => ~GivesClient(requests[r])

\* FOR UPDATE on the row of user u: one of those at a time, and nothing else changes the row.
OwnerRowNotLocked(u) == TRUE
LockOwnerRow(u) ==
    \A r \in Requests : ~(requests[r].step = "locked" /\ requests[r].owner = u /\ GivesClient(requests[r]))

\* FOR UPDATE on the row of client c.
LockClientRow(c) ==
    \A r \in Requests : ~(requests[r].step = "locked" /\ requests[r].client = c /\ requests[r].kind # "create")

Limit(u) == IF owners[u].override = NoOwner THEN limit ELSE owners[u].override
Owned(u) == {c \in Clients : clients[c].there /\ clients[c].owner = u}
-----------------------------------------------------------------------------
(***************************************************************************)
(* Settings and users.                                                     *)
(***************************************************************************)

\* Load, on a notification or the reconciliation interval, under loadMu.
LoadPolicy(i) ==
    /\ policySnapshots[i] # policy
    /\ policySnapshots' = [policySnapshots EXCEPT ![i] = policy]
    /\ UNCHANGED <<policy, limit, owners, clients, access, requests>>

\* SetOAuthPolicy compares the revision; the instance that stores the policy uses it at once.
SetOAuthPolicy(i, allowed, assignable, selfService) ==
    /\ LockOAuthPolicyExclusive /\ policy.revision < MaxPolicy
    /\ policy' = [revision |-> policy.revision + 1, allowed |-> allowed, assignable |-> assignable,
                  selfService |-> selfService]
    /\ policySnapshots' = [policySnapshots EXCEPT ![i] = policy']
    /\ UNCHANGED <<limit, owners, clients, access, requests>>

\* SetProtection changes the default under the exclusive lock of the quota.
SetProtection(value) ==
    /\ LockClientQuotaExclusive /\ value # limit
    /\ limit' = value
    /\ UNCHANGED <<policy, policySnapshots, owners, clients, access, requests>>

\* UpdateOwnerQuota
UpdateOwnerQuota(u, override) ==
    /\ LockOwnerRow(u) /\ owners[u].override # override
    /\ owners' = [owners EXCEPT ![u].override = override]
    /\ UNCHANGED <<settingVars, clients, access, requests>>

\* An administrator suspends or activates a user.
SetOwnerActive(u, active) ==
    /\ LockOwnerRow(u) /\ owners[u].active # active
    /\ owners' = [owners EXCEPT ![u].active = active]
    /\ UNCHANGED <<settingVars, clients, access, requests>>
-----------------------------------------------------------------------------
(***************************************************************************)
(* Creation, change and transfer: validated against the snapshot, then a   *)
(* transaction.                                                            *)
(***************************************************************************)
Goto(r, step) == requests' = [requests EXCEPT ![r].step = step]
Finish(r) == requests' = [requests EXCEPT ![r] = Idle]

\* validateNewClientPolicyForActor
PolicyPermits(p, admin, scopes) == scopes \subseteq (IF admin THEN p.allowed ELSE p.allowed \cap p.assignable)

\* CreateForOwner (by a user, for itself), CreateAdmin (for a user or for nobody).
BuildClient(r, i, admin, owner, scopes) ==
    LET p == policySnapshots[i] IN
    /\ requests[r].step = "idle"
    /\ admin \/ (owner # NoOwner /\ p.selfService)
    /\ PolicyPermits(p, admin, scopes)
    /\ requests' = [requests EXCEPT ![r] = [Idle EXCEPT !.step = "built", !.admin = admin, !.owner = owner,
                                               !.scopes = scopes, !.policy = p]]
    /\ UNCHANGED <<settingVars, owners, clients, access>>

\* Update, UpdateOwned: only the snapshot is taken; the rest happens on the locked row.
UpdateRequest(r, i, admin, owner, c, scopes) ==
    /\ requests[r].step = "idle" /\ clients[c].there
    /\ admin <=> owner = NoOwner
    /\ requests' = [requests EXCEPT ![r] = [Idle EXCEPT !.step = "built", !.kind = "update", !.admin = admin,
                       !.owner = owner, !.client = c, !.scopes = scopes, !.policy = policySnapshots[i]]]
    /\ UNCHANGED <<settingVars, owners, clients, access>>

\* UpdateOwner: by an administrator, to a user or to nobody.
TransferRequest(r, c, owner) ==
    /\ requests[r].step = "idle" /\ clients[c].there
    /\ requests' = [requests EXCEPT ![r] = [Idle EXCEPT !.step = "built", !.kind = "transfer", !.admin = TRUE,
                                               !.owner = owner, !.client = c]]
    /\ UNCHANGED <<settingVars, owners, clients, access>>

\* RequireOAuthPolicyTx: the policy of the request is still the stored one.
RequireOAuthPolicy(r) == policy = requests[r].policy

\* lockActiveOwnerQuota: an active owner below the limit.
WithinQuota(u) == owners[u].active /\ Cardinality(Owned(u)) < Limit(u)

\* The checks of a transaction under its locks.
Passes(r) ==
    LET q == requests[r] IN
    CASE q.kind = "create" -> RequireOAuthPolicy(r) /\ (GivesClient(q) => WithinQuota(q.owner))
      [] q.kind = "update" ->
             /\ RequireOAuthPolicy(r) /\ clients[q.client].there
             /\ q.admin \/ clients[q.client].owner = q.owner
             /\ PolicyPermits(q.policy, q.admin, q.scopes \ clients[q.client].scopes)
      [] OTHER ->
             /\ clients[q.client].there
             /\ GivesClient(q) => WithinQuota(q.owner)

\* The transaction takes its locks and checks, or is rolled back.
LockAndCheck(r) ==
    LET q == requests[r] IN
    /\ q.step = "built"
    /\ GivesClient(q) => LockOwnerRow(q.owner)
    /\ q.client # NoOwner => LockClientRow(q.client)
    /\ IF Passes(r) THEN Goto(r, "locked") ELSE Finish(r)
    /\ UNCHANGED <<settingVars, owners, clients, access>>

\* The write and the commit.
Commit(r, c) ==
    LET q == requests[r] IN
    /\ q.step = "locked"
    /\ IF q.kind = "create"
       THEN /\ ~clients[c].there
            /\ clients' = [clients EXCEPT ![c] = [there |-> TRUE, owner |-> q.owner, scopes |-> q.scopes, secret |-> 1,
                  used |-> FALSE, publisher |-> IF q.admin THEN "system" ELSE "unverified"]]
       ELSE /\ c = q.client
            /\ clients' = IF q.kind = "update" THEN [clients EXCEPT ![c].scopes = q.scopes]
                          ELSE [clients EXCEPT ![c].owner = q.owner]
    /\ Finish(r)
    /\ UNCHANGED <<settingVars, owners, access>>

\* The commit fails.
RollBack(r) ==
    /\ requests[r].step \in {"locked", "replacing"}
    /\ Finish(r)
    /\ UNCHANGED <<settingVars, owners, clients, access>>

\* Delete, DeleteForOwner; allowlist rows go with the client, and requests for it find no row.
DeleteClient(c) ==
    /\ clients[c].there /\ LockClientRow(c)
    /\ clients' = [clients EXCEPT ![c] = NoClient]
    /\ access' = [access EXCEPT ![c] = {}]
    /\ requests' = [r \in Requests |-> IF requests[r].client = c THEN Idle ELSE requests[r]]
    /\ UNCHANGED <<settingVars, owners>>

\* UpdatePublisherVerification: clients that users registered only.
VerifyPublisher(c, status) ==
    /\ clients[c].there /\ LockClientRow(c)
    /\ clients[c].publisher \notin {"system", status}
    /\ clients' = [clients EXCEPT ![c].publisher = status]
    /\ UNCHANGED <<settingVars, owners, access, requests>>

\* RotateSecret, RotateSecretForOwner (two values tell a secret from the one before it).
RotateSecret(c) ==
    /\ clients[c].there /\ LockClientRow(c)
    /\ clients' = [clients EXCEPT ![c].secret = 3 - @, ![c].used = FALSE]
    /\ UNCHANGED <<settingVars, owners, access, requests>>

\* AuthenticateClient with the secret of version v.
AuthenticateClient(c, v) ==
    /\ clients[c].there /\ LockClientRow(c) /\ v = clients[c].secret /\ ~clients[c].used
    /\ clients' = [clients EXCEPT ![c].used = TRUE]
    /\ UNCHANGED <<settingVars, owners, access, requests>>
-----------------------------------------------------------------------------
(***************************************************************************)
(* The allowlist of a client.                                              *)
(***************************************************************************)

\* ReplaceAccessUsers deletes the rows it sees ...
ReplaceAccessUsers(r, c, list) ==
    /\ requests[r].step = "idle" /\ clients[c].there
    /\ requests' = [requests EXCEPT ![r] = [Idle EXCEPT !.step = "replacing", !.kind = "access", !.admin = TRUE,
                                               !.client = c, !.list = list]]
    /\ UNCHANGED <<settingVars, owners, clients, access>>

\* ... and inserts its own.  Rows another replacement has committed since are not among those it deleted;
\* one for the same user is a duplicate key, and the transaction fails.
ReplaceAccessUsersCommits(r) ==
    LET q == requests[r]  c == q.client IN
    /\ q.step = "replacing"
    /\ ~(q.overtaken /\ access[c] \cap q.list # {})
    /\ access' = [access EXCEPT ![c] = IF q.overtaken THEN access[c] \cup q.list ELSE q.list]
    /\ requests' = [s \in Requests |-> IF s = r THEN Idle
                      ELSE [requests[s] EXCEPT !.overtaken =
                               @ \/ (requests[s].step = "replacing" /\ requests[s].client = c)]]
    /\ UNCHANGED <<settingVars, owners, clients>>

SettingStep ==
    \/ \E i \in PolicyInstances : LoadPolicy(i)
    \/ \E i \in PolicyInstances, allowed, assignable \in SUBSET Scopes, selfService \in BOOLEAN :
          SetOAuthPolicy(i, allowed, assignable, selfService)
    \/ \E value \in Limits : SetProtection(value)
    \/ \E u \in ClientOwners, override \in Limits \cup {NoOwner} : UpdateOwnerQuota(u, override)
    \/ \E u \in ClientOwners, active \in BOOLEAN : SetOwnerActive(u, active)

ClientRequestStep(r) ==
    \/ \E i \in PolicyInstances, admin \in BOOLEAN, owner \in ClientOwners \cup {NoOwner}, scopes \in SUBSET Scopes :
          \/ BuildClient(r, i, admin, owner, scopes)
          \/ \E c \in Clients : UpdateRequest(r, i, admin, owner, c, scopes)
    \/ \E c \in Clients, owner \in ClientOwners \cup {NoOwner} : TransferRequest(r, c, owner)
    \/ LockAndCheck(r) \/ RollBack(r) \/ ReplaceAccessUsersCommits(r)
    \/ \E c \in Clients : Commit(r, c)
    \/ \E c \in Clients, list \in SUBSET ClientOwners : ReplaceAccessUsers(r, c, list)

ClientStep == \E c \in Clients :
    \/ DeleteClient(c) \/ RotateSecret(c)
    \/ \E status \in {"unverified", "verified"} : VerifyPublisher(c, status)
    \/ \E v \in {1, 2} : AuthenticateClient(c, v)

ClientsNext == SettingStep \/ ClientStep \/ \E r \in Requests : ClientRequestStep(r)
ClientsSpec == ClientsInit /\ [][ClientsNext]_clientVars
-----------------------------------------------------------------------------
(***************************************************************************)
(* Whoever is given a client, by creating it or by a transfer, is active   *)
(* at that moment and owns no more clients than the limit then in force,   *)
(* whatever other creations, transfers and changes of the limit are under  *)
(* way (LockClientQuotaShared, lockActiveOwnerQuota).                      *)
(***************************************************************************)
GivenWithinQuota ==
    [][\A u \in ClientOwners :
          Owned(u)' \ Owned(u) # {} => owners[u].active /\ Cardinality(Owned(u)') <= Limit(u)]_clientVars

(***************************************************************************)
(* A client gets only scopes that the policy stored at that moment allows, *)
(* and users create clients only while it lets them: "prevents a client    *)
(* write validated against an old runtime OAuth policy from crossing the   *)
(* policy update's commit boundary" (runtimecoord).                        *)
(***************************************************************************)
NewScopesAreAllowed ==
    [][\A c \in Clients :
          /\ clients'[c].scopes \ clients[c].scopes \subseteq policy.allowed
          /\ (~clients[c].there /\ clients'[c].publisher = "unverified")
                 => policy.selfService /\ clients'[c].scopes \subseteq policy.assignable]_clientVars

-----------------------------------------------------------------------------
(* Inductive strengthening *)

\* What a request has been validated for, against the policy it has read.
Validated(q) ==
    /\ q.kind = "create" => /\ q.client = NoOwner /\ PolicyPermits(q.policy, q.admin, q.scopes)
                            /\ q.admin \/ (q.owner # NoOwner /\ q.policy.selfService)
    /\ q.kind # "create" => q.client \in Clients

\* What a transaction has checked under its locks still holds when it commits.
Checked(q) ==
    /\ q.kind \in {"create", "update"} => policy = q.policy
    /\ GivesClient(q) => WithinQuota(q.owner)
    /\ q.kind # "create" => clients[q.client].there
    /\ q.kind = "update" => PolicyPermits(q.policy, q.admin, q.scopes \ clients[q.client].scopes)

RequestOK(q) ==
    /\ q.step \in {"built", "locked"} => q.kind # "access" /\ Validated(q)
    /\ q.step = "locked" => Checked(q)

\* Two transactions under way hold different rows.
LocksApart(q, p) ==
    q.step = "locked" /\ p.step = "locked" =>
        /\ q.kind # "create" /\ p.kind # "create" => q.client # p.client
        /\ GivesClient(q) /\ GivesClient(p) => q.owner # p.owner

\* A deleted client leaves nothing behind; a secret is one of two values.
ClientRowOK(c) ==
    IF clients[c].there THEN clients[c].secret \in {1, 2} ELSE clients[c] = NoClient

ClientsInv ==
    /\ ClientsTypeOK
    /\ \A c \in Clients : ClientRowOK(c)
    /\ \A r \in Requests : RequestOK(requests[r])
    /\ \A r, s \in Requests : r # s => LocksApart(requests[r], requests[s])
=============================================================================
