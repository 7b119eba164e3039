------------------------- MODULE DeviceAuthorization -------------------------
(***************************************************************************)
(* One device authorization (RFC 8628) of a client: the device obtains a   *)
(* device code and polls the token endpoint with it, while a user enters   *)
(* the user code in a browser and consents (internal/deviceauthorization,  *)
(* internal/auth/device_authorization.go, consent.go).  Several users may  *)
(* enter the code, one user may do so in several windows, and polls of the *)
(* device overlap.                                                         *)
(*                                                                         *)
(* The record and the user code live in Redis; each script is one step,    *)
(* and a request reads the client, the user and the record in other steps. *)
(* The logical time of the grant, the row in oauth_authorizations and what *)
(* becomes of the tokens are the subject of OAuthGrant.  Left to a verdict *)
(* (permitted): rate limits, client credentials, scopes and claims.        *)
(***************************************************************************)
EXTENDS Integers

CONSTANTS
    DeviceCalls,   \* request slots
    Users,         \* users with a session in some browser
    NoUser,        \* the user_id of a record that is not approved
    Challenges,    \* consent challenges
    TTL,           \* DefaultTTL
    Interval,      \* DefaultInterval
    SlowDownStep,  \* what an early poll adds to the interval
    MaxNow,        \* bound: time
    MaxInterval,   \* bound: the interval
    MaxDeviceChanges  \* bound: changes of the client, its allowlist and the users

ASSUME NoUserAssumption == NoUser \notin Users

ASSUME DeviceBounds ==
    /\ TTL \in Nat \ {0} /\ Interval \in Nat \ {0} /\ SlowDownStep \in Nat \ {0}
    /\ MaxNow \in Nat /\ MaxInterval \in Nat /\ MaxDeviceChanges \in Nat

VARIABLES
    now,            \* time since the record was created
    deviceClient,   \* identity and authorization revision of the client
    version,        \* auth_version of each user
    access,         \* the users the allowlist of the client admits
    changes,        \* how often these three have changed
    device,         \* Redis: the record
    userCode,       \* Redis: remaining life of the user code
    deviceConsent,  \* Redis: consent challenges
    deviceCall,     \* requests in flight
    created,        \* the device has asked for its code
    answers,        \* history: the decisions that users were told have been taken
    issued          \* history: how often (2: more than once) and for whom tokens were issued

deviceVars == <<now, deviceClient, version, access, changes, device, userCode, deviceConsent,
                deviceCall, created, answers, issued>>

(* What PostgreSQL has of the client and the users. *)
people == <<deviceClient, version, access, changes>>

Status == {"pending", "approved", "denied"}

(* life = 0: there is no record. *)
NoRecord == [life |-> 0, status |-> "pending", user |-> NoUser, version |-> 0,
             ident |-> 0, auth |-> 0, interval |-> 0, nextPoll |-> 0]

Record == [life : Nat, status : Status, user : Users \cup {NoUser}, version : Nat,
           ident : Nat, auth : Nat, interval : Nat, nextPoll : Nat]

NoConsent == [state |-> "new", user |-> NoUser, version |-> 0, ident |-> 0, auth |-> 0]

Consent == [state : {"new", "drawn", "open", "done"}, user : Users \cup {NoUser},
            version : Nat, ident : Nat, auth : Nat]

(* c: the challenge; cl, admitted: client and allowlist when the request   *)
(* began; seen: the record as it was read.                                 *)
DeviceCall == [pc : {"idle", "create", "saveConsent", "getToAccept", "getToDeny", "upsert",
                  "approve", "deny", "poll", "checkUser", "consume", "generate"},
            c : Challenges \cup {0}, cl : [ident : Nat, auth : Nat],
            admitted : SUBSET Users, seen : Record]

NoDeviceCall == [pc |-> "idle", c |-> 0, cl |-> [ident |-> 0, auth |-> 0],
              admitted |-> {}, seen |-> NoRecord]

DeviceInit ==
    /\ now = 0
    /\ deviceClient = [ident |-> 1, auth |-> 1]
    /\ version = [u \in Users |-> 1]
    /\ access = Users /\ changes = 0
    /\ device = NoRecord /\ userCode = 0
    /\ deviceConsent = [c \in Challenges |-> NoConsent]
    /\ deviceCall = [r \in DeviceCalls |-> NoDeviceCall]
    /\ created = FALSE
    /\ answers = {}
    /\ issued = [count |-> 0, user |-> NoUser, admitted |-> TRUE]

DeviceCallTo(r, pc) == deviceCall' = [deviceCall EXCEPT ![r].pc = pc]

DeviceCallDone(r) == deviceCall' = [deviceCall EXCEPT ![r] = NoDeviceCall]

SameClient(x) == x.ident = deviceClient.ident /\ x.auth = deviceClient.auth

-----------------------------------------------------------------------------
(* The device. *)

(* DeviceAuthorization reads the client ... *)
DeviceAuthorization(r) ==
    /\ deviceCall[r].pc = "idle"
    /\ ~created
    /\ \A s \in DeviceCalls : deviceCall[s].pc # "create"
    /\ deviceCall' = [deviceCall EXCEPT ![r].pc = "create", ![r].cl = deviceClient]
    /\ UNCHANGED <<now, people, device, userCode, deviceConsent, created, answers, issued>>

(* ... and stores the record and the user code under fresh keys. *)
Create(r) ==
    /\ deviceCall[r].pc = "create"
    /\ device' = [life |-> TTL, status |-> "pending", user |-> NoUser, version |-> 0,
                  ident |-> deviceCall[r].cl.ident, auth |-> deviceCall[r].cl.auth,
                  interval |-> Interval, nextPoll |-> now + Interval]
    /\ userCode' = TTL
    /\ created' = TRUE
    /\ DeviceCallDone(r)
    /\ UNCHANGED <<now, people, deviceConsent, answers, issued>>

(* handleDeviceCodeGrant reads the client ... *)
DeviceCodeGrant(r) ==
    /\ deviceCall[r].pc = "idle"
    /\ created
    /\ deviceCall' = [deviceCall EXCEPT ![r].pc = "poll", ![r].cl = deviceClient, ![r].admitted = access]
    /\ UNCHANGED <<now, people, device, userCode, deviceConsent, created, answers, issued>>

Early == now < device.nextPoll

(* What a poll of a pending record writes back; the record keeps its PTTL. *)
Paced(interval) == [device EXCEPT !.interval = interval, !.nextPoll = now + interval]

(* ... and runs the script. *)
Poll(r) ==
    LET interval == IF Early THEN device.interval + SlowDownStep ELSE device.interval
    IN  /\ deviceCall[r].pc = "poll"
        /\ \/ /\ device.life = 0
              /\ DeviceCallDone(r)
              /\ UNCHANGED device
           \/ /\ device.life > 0 /\ device.status = "denied"
              /\ device' = NoRecord
              /\ DeviceCallDone(r)
           \/ /\ device.life > 0 /\ device.status = "approved"
              /\ IF device.ident = deviceCall[r].cl.ident /\ device.auth = deviceCall[r].cl.auth
                 THEN deviceCall' = [deviceCall EXCEPT ![r].pc = "checkUser", ![r].seen = device]
                 ELSE DeviceCallDone(r)
              /\ UNCHANGED device
           \/ /\ device.life > 0 /\ device.status = "pending"
              /\ interval <= MaxInterval
              /\ device' = Paced(interval)
              /\ DeviceCallDone(r)
        /\ UNCHANGED <<now, people, userCode, deviceConsent, created, answers, issued>>

(* The approval is for the user as he still is; permitted: the scopes and  *)
(* claims are still those of the client.                                   *)
CheckUser(r, permitted) ==
    LET u == deviceCall[r].seen.user
    IN  /\ deviceCall[r].pc = "checkUser"
        /\ IF permitted /\ version[u] = deviceCall[r].seen.version
           THEN DeviceCallTo(r, "consume") ELSE DeviceCallDone(r)
        /\ UNCHANGED <<now, people, device, userCode, deviceConsent, created, answers, issued>>

(* Mutant of ConsumeApproved: the record that was read is good enough. *)
ConsumeSeen(r) ==
    /\ deviceCall[r].pc = "consume"
    /\ device' = NoRecord /\ userCode' = 0
    /\ DeviceCallTo(r, "generate")
    /\ UNCHANGED <<now, people, deviceConsent, created, answers, issued>>

(* ConsumeApproved: the script decides which poll has the approval. *)
ConsumeApproved(r) ==
    /\ deviceCall[r].pc = "consume"
    /\ IF device.life > 0 /\ device.status = "approved"
       THEN device' = NoRecord /\ userCode' = 0 /\ DeviceCallTo(r, "generate")
       ELSE DeviceCallDone(r) /\ UNCHANGED <<device, userCode>>
    /\ UNCHANGED <<now, people, deviceConsent, created, answers, issued>>

(* GenerateAuthorizationCodeTokenPair...; active: the grant is not revoked. *)
Generate(r, active) ==
    /\ deviceCall[r].pc = "generate"
    /\ issued' = IF active /\ deviceClient.auth = deviceCall[r].seen.auth
                 THEN [count |-> IF issued.count = 0 THEN 1 ELSE 2,
                       user |-> deviceCall[r].seen.user,
                       admitted |-> deviceCall[r].seen.user \in deviceCall[r].admitted]
                 ELSE issued
    /\ DeviceCallDone(r)
    /\ UNCHANGED <<now, people, device, userCode, deviceConsent, created, answers>>

-----------------------------------------------------------------------------
(* The browsers. *)

(* PrepareDeviceAuthorization: user u enters the user code; the record, the *)
(* client and the allowlist are read ...                                    *)
Prepare(r, c, u) ==
    /\ deviceCall[r].pc = "idle"
    /\ deviceConsent[c].state = "new"
    /\ userCode > 0 /\ device.life > 0 /\ device.status = "pending" /\ now < TTL
    /\ SameClient(device)
    /\ u \in access
    /\ deviceConsent' = [deviceConsent EXCEPT ![c] = [state |-> "drawn", user |-> u, version |-> version[u],
                                          ident |-> deviceClient.ident, auth |-> deviceClient.auth]]
    /\ deviceCall' = [deviceCall EXCEPT ![r].pc = "saveConsent", ![r].c = c]
    /\ UNCHANGED <<now, people, device, userCode, created, answers, issued>>

(* ... and the challenge is stored. *)
SaveConsent(r) ==
    /\ deviceCall[r].pc = "saveConsent"
    /\ deviceConsent' = [deviceConsent EXCEPT ![deviceCall[r].c].state = "open"]
    /\ DeviceCallDone(r)
    /\ UNCHANGED <<now, people, device, userCode, created, answers, issued>>

TakeConsent(r, c, pc) ==
    /\ deviceCall[r].pc = "idle"
    /\ deviceConsent[c].state = "open"
    /\ deviceConsent' = [deviceConsent EXCEPT ![c].state = "done"]
    /\ deviceCall' = [deviceCall EXCEPT ![r] = IF pc = "idle" THEN NoDeviceCall ELSE [@ EXCEPT !.pc = pc, !.c = c]]
    /\ UNCHANGED <<now, people, device, userCode, created, answers, issued>>

(* AcceptConsent: the script takes the challenge, which must be of the     *)
(* user as he still is.                                                    *)
AcceptDevice(r, c) ==
    TakeConsent(r, c, IF version[deviceConsent[c].user] = deviceConsent[c].version
                      THEN "getToAccept" ELSE "idle")

DenyConsent(r, c) == TakeConsent(r, c, "getToDeny")

(* A challenge expires. *)
DropDeviceConsent(c) ==
    /\ deviceConsent[c].state = "open"
    /\ deviceConsent' = [deviceConsent EXCEPT ![c].state = "done"]
    /\ UNCHANGED <<now, people, device, userCode, deviceCall, created, answers, issued>>

(* Both decisions read the record before they write it. *)
GetPending(r) ==
    /\ deviceCall[r].pc \in {"getToAccept", "getToDeny"}
    /\ IF device.life > 0 /\ device.status = "pending" /\ now < TTL
       THEN deviceCall' = [deviceCall EXCEPT ![r].pc = IF @ = "getToAccept" THEN "upsert" ELSE "deny",
                               ![r].seen = device]
       ELSE DeviceCallDone(r)
    /\ UNCHANGED <<now, people, device, userCode, deviceConsent, created, answers, issued>>

(* The grant is given its logical time and its row; UpsertExpected compares *)
(* the client with the one the user saw.                                    *)
UpsertExpectedDevice(r, permitted) ==
    /\ deviceCall[r].pc = "upsert"
    /\ IF permitted /\ SameClient(deviceConsent[deviceCall[r].c])
       THEN DeviceCallTo(r, "approve") ELSE DeviceCallDone(r)
    /\ UNCHANGED <<now, people, device, userCode, deviceConsent, created, answers, issued>>

(* Mutant of Decidable: the record is replaced whatever was decided. *)
DecidableAgain == device.life > 0

Decidable == device.life > 0 /\ device.status = "pending"

(* What the script stores: the record as it was read, with the decision; it *)
(* keeps the PTTL of the one it replaces, and the user code is deleted.     *)
Decided(r, status) ==
    LET u == deviceConsent[deviceCall[r].c]
    IN  /\ device' = [deviceCall[r].seen EXCEPT !.status = status, !.life = device.life,
                                         !.user = IF status = "approved" THEN u.user ELSE @,
                                         !.version = IF status = "approved" THEN u.version ELSE @]
        /\ userCode' = 0

(* ApproveWithAuthentication and Deny; heard: the answer reaches the user. *)
Decide(r, heard) ==
    LET status == IF deviceCall[r].pc = "approve" THEN "approved" ELSE "denied"
    IN  /\ deviceCall[r].pc \in {"approve", "deny"}
        /\ IF Decidable
           THEN /\ Decided(r, status)
                /\ answers' = IF heard THEN answers \cup {[user |-> deviceConsent[deviceCall[r].c].user,
                                                           status |-> status]} ELSE answers
           ELSE UNCHANGED <<device, userCode, answers>>
        /\ DeviceCallDone(r)
        /\ UNCHANGED <<now, people, deviceConsent, created, issued>>

-----------------------------------------------------------------------------
(* A store does not answer, the instance crashes, the peer goes away. *)
AbandonDeviceCall(r) ==
    /\ deviceCall[r].pc # "idle"
    /\ DeviceCallDone(r)
    /\ UNCHANGED <<now, people, device, userCode, deviceConsent, created, answers, issued>>

(* An administrator or the user changes what the flow has read before. *)
Change ==
    /\ changes < MaxDeviceChanges
    /\ changes' = changes + 1
    /\ UNCHANGED <<now, device, userCode, deviceConsent, deviceCall, created, answers, issued>>

(* The client's name or links, or what it is allowed to do. *)
ChangeDeviceClient(revision) ==
    /\ Change
    /\ deviceClient' = [deviceClient EXCEPT ![revision] = @ + 1]
    /\ UNCHANGED <<version, access>>

(* Whatever raises auth_version: password, status, role, factors. *)
ChangeUser(u) ==
    /\ Change
    /\ version' = [version EXCEPT ![u] = @ + 1]
    /\ UNCHANGED <<deviceClient, access>>

(* An allowlist without u; the allowlist has no revision. *)
ReplaceAccessUsers(u) ==
    /\ u \in access
    /\ Change
    /\ access' = access \ {u}
    /\ UNCHANGED <<deviceClient, version>>

OlderDevice(n) == IF n > 0 THEN n - 1 ELSE 0

(* Time passes. *)
DeviceTick ==
    /\ created /\ now < MaxNow
    /\ now' = now + 1
    /\ device' = IF device.life > 1 THEN [device EXCEPT !.life = OlderDevice(@)] ELSE NoRecord
    /\ userCode' = OlderDevice(userCode)
    /\ UNCHANGED <<people, deviceConsent, deviceCall, created, answers, issued>>

DeviceNext ==
    \/ \E r \in DeviceCalls :
          \/ DeviceAuthorization(r) \/ Create(r) \/ DeviceCodeGrant(r) \/ Poll(r) \/ ConsumeApproved(r)
          \/ \E b \in BOOLEAN : CheckUser(r, b) \/ Generate(r, b)
                                \/ UpsertExpectedDevice(r, b) \/ Decide(r, b)
          \/ \E c \in Challenges : AcceptDevice(r, c) \/ DenyConsent(r, c)
          \/ \E c \in Challenges, u \in Users : Prepare(r, c, u)
          \/ SaveConsent(r) \/ GetPending(r) \/ AbandonDeviceCall(r)
    \/ \E c \in Challenges : DropDeviceConsent(c)
    \/ \E revision \in {"ident", "auth"} : ChangeDeviceClient(revision)
    \/ \E u \in Users : ChangeUser(u) \/ ReplaceAccessUsers(u)
    \/ DeviceTick

DeviceSpec == DeviceInit /\ [][DeviceNext]_deviceVars

-----------------------------------------------------------------------------
(* Every variable has its type. *)
DeviceTypeOK ==
    /\ now \in Nat
    /\ deviceClient \in [ident : Nat, auth : Nat] /\ version \in [Users -> Nat]
    /\ access \subseteq Users /\ changes \in 0 .. MaxDeviceChanges
    /\ device \in Record /\ userCode \in Nat
    /\ deviceConsent \in [Challenges -> Consent]
    /\ deviceCall \in [DeviceCalls -> DeviceCall]
    /\ created \in BOOLEAN
    /\ answers \subseteq [user : Users, status : Status \ {"pending"}]
    /\ issued \in [count : 0 .. 2, user : Users \cup {NoUser}, admitted : BOOLEAN]

(* However polls overlap, a device code yields tokens at most once.         *)
TokensOnce == issued.count <= 1

(* What a user was told is what happens: nobody else is told anything, a    *)
(* denial he was told of never turns into tokens, and after an approval     *)
(* tokens are issued for nobody else and the record stays as he approved it *)
(* for as long as it exists; with other users, windows and polls going on.  *)
AnswerIsFinal ==
    \A a \in answers :
        /\ answers = {a}
        /\ device.life > 0 => device.status = a.status
        /\ a.status = "approved" /\ device.life > 0 => device.user = a.user
        /\ issued.count > 0 => a.status = "approved" /\ issued.user = a.user

(* docs/oauth-oidc-integration.md: when the tokens are fetched, the access  *)
(* policy is checked again.  No tokens are issued in a request that began   *)
(* after the user had been removed from the allowlist.                      *)
AccessRechecked == issued.admitted
-----------------------------------------------------------------------------
(* Inductive strengthening.  The record exists once and is decided once;    *)
(* polls that have seen the approval are all of the user it was of, and at  *)
(* most one of them has taken it.                                           *)
Approving == {"checkUser", "consume", "generate"}
ConsentOK ==
    /\ \A c \in Challenges : deviceConsent[c].state # "new" => deviceConsent[c].user \in Users
    /\ \A r \in DeviceCalls :
          deviceCall[r].pc \in {"saveConsent", "getToAccept", "getToDeny", "upsert", "approve", "deny"}
            => deviceCall[r].c \in Challenges /\ deviceConsent[deviceCall[r].c].state # "new"
ApprovalOf(u) == answers \subseteq {[user |-> u, status |-> "approved"]}
CreatedOnce ==
    /\ \A r, s \in DeviceCalls : deviceCall[r].pc = "create" /\ deviceCall[s].pc = "create" => r = s
    /\ \A r \in DeviceCalls : deviceCall[r].pc = "create" => ~created
    /\ ~created => /\ device.life = 0 /\ answers = {} /\ issued.count = 0
                   /\ \A r \in DeviceCalls : deviceCall[r].pc \notin Approving
RecordOK ==
    device.life > 0 => /\ issued.count = 0
                       /\ device.status = "pending" => answers = {}
                       /\ \A a \in answers : a.status = device.status /\ (a.status = "approved" => a.user = device.user)
PollsOK ==
    /\ \A r \in DeviceCalls : deviceCall[r].pc \in Approving =>
          /\ ApprovalOf(deviceCall[r].seen.user)
          /\ device.life > 0 => device.status = "approved" /\ device.user = deviceCall[r].seen.user
          /\ deviceCall[r].pc = "generate" => device.life = 0 /\ issued.count = 0
    /\ \A r, s \in DeviceCalls : deviceCall[r].pc = "generate" /\ deviceCall[s].pc = "generate" => r = s
    /\ issued.count > 0 => issued.count = 1 /\ ApprovalOf(issued.user)
DeviceInv ==
    /\ DeviceTypeOK /\ ConsentOK /\ CreatedOnce /\ RecordOK /\ PollsOK
    /\ \A a, b \in answers : a = b
=============================================================================
