----------------------- MODULE DeviceAuthorizationProof -----------------------
(***************************************************************************)
(* Theorems about one device authorization, for any number of users,       *)
(* windows, polls and changes: its code yields tokens at most once, and    *)
(* what a user was told is what happens.                                   *)
(***************************************************************************)
EXTENDS DeviceAuthorization, TLAPS

LEMMA NoRecordType == NoRecord \in Record /\ NoRecord.life = 0
  BY DEF NoRecord, Record, Status

LEMMA NoDeviceCallType == NoDeviceCall \in DeviceCall /\ NoDeviceCall.pc = "idle"
  BY NoRecordType DEF NoDeviceCall, DeviceCall

LEMMA DeviceInitInv == DeviceInit => DeviceInv
<1> SUFFICES ASSUME DeviceInit PROVE DeviceInv
  OBVIOUS
<1>1. DeviceTypeOK
  <2>1. NoConsent \in Consent
    BY DEF NoConsent, Consent
  <2>2. deviceConsent \in [Challenges -> Consent] /\ deviceCall \in [DeviceCalls -> DeviceCall]
    BY <2>1, NoDeviceCallType DEF DeviceInit
  <2>3. deviceClient \in [ident : Nat, auth : Nat] /\ version \in [Users -> Nat]
    BY DEF DeviceInit
  <2>4. issued \in [count : 0 .. 2, user : Users \cup {NoUser}, admitted : BOOLEAN]
    BY DEF DeviceInit
  <2>5. changes \in 0 .. MaxDeviceChanges /\ now \in Nat /\ userCode \in Nat
    BY DeviceBounds DEF DeviceInit
  <2>6. access \subseteq Users /\ created \in BOOLEAN
    BY DEF DeviceInit
  <2>7. answers \subseteq [user : Users, status : Status \ {"pending"}] /\ device \in Record
    BY NoRecordType DEF DeviceInit
  <2> QED
    BY <2>2, <2>3, <2>4, <2>5, <2>6, <2>7 DEF DeviceTypeOK
<1>2. ConsentOK
  BY NoDeviceCallType DEF DeviceInit, ConsentOK, NoConsent
<1>3. CreatedOnce /\ RecordOK /\ PollsOK
  BY NoRecordType, NoDeviceCallType DEF DeviceInit, CreatedOnce, RecordOK, PollsOK, Approving
<1> QED
  BY <1>1, <1>2, <1>3 DEF DeviceInv, DeviceInit

(* The record stays undecided or decided as it is, or goes; at most one    *)
(* request goes on, and takes no approval.                                 *)
LEMMA DeviceStep ==
    ASSUME DeviceInv, UNCHANGED <<created, answers, issued>>, DeviceTypeOK', ConsentOK',
           device'.life > 0 => device.life > 0 /\ device'.status = device.status /\ device'.user = device.user,
           NEW r,
           \A s \in DeviceCalls : s # r => deviceCall'[s] = deviceCall[s],
           r \in DeviceCalls =>
              /\ deviceCall'[r].pc = "create" => ~created /\ \A s \in DeviceCalls : s # r => deviceCall[s].pc # "create"
              /\ deviceCall'[r].pc # "generate"
              /\ deviceCall'[r].pc \in Approving =>
                    /\ created
                    /\ \/ deviceCall[r].pc \in Approving /\ deviceCall'[r].seen = deviceCall[r].seen
                       \/ device.life > 0 /\ device.status = "approved" /\ deviceCall'[r].seen = device
    PROVE  DeviceInv'
<1>1. device.life \in Nat /\ device'.life \in Nat /\ answers \subseteq [user : Users, status : Status \ {"pending"}]
  BY DEF DeviceInv, DeviceTypeOK, Record
<1>2. CreatedOnce'
  BY <1>1 DEF DeviceInv, CreatedOnce
<1>3. RecordOK'
  BY DEF DeviceInv, RecordOK
<1>4. ASSUME NEW s \in DeviceCalls, deviceCall'[s].pc \in Approving
      PROVE  /\ ApprovalOf(deviceCall'[s].seen.user)
             /\ device'.life > 0 => device'.status = "approved" /\ device'.user = deviceCall'[s].seen.user
             /\ deviceCall'[s].pc = "generate" => device'.life = 0 /\ issued'.count = 0
  <2>1. CASE deviceCall[s].pc \in Approving /\ deviceCall'[s].seen = deviceCall[s].seen
             /\ (deviceCall'[s].pc = "generate" => deviceCall[s].pc = "generate")
    BY <1>1, <2>1 DEF DeviceInv, PollsOK
  <2>2. CASE s = r /\ device.life > 0 /\ device.status = "approved" /\ deviceCall'[r].seen = device
    <3>1. \A a \in answers : a = [user |-> device.user, status |-> "approved"]
      BY <1>1, <2>2 DEF DeviceInv, RecordOK
    <3> QED
      BY <2>2, <3>1 DEF ApprovalOf
  <2> QED
    BY <1>4, <2>1, <2>2
<1>5. PollsOK'
  <2>1. \A s, t \in DeviceCalls : deviceCall'[s].pc = "generate" /\ deviceCall'[t].pc = "generate" => s = t
    BY DEF DeviceInv, PollsOK
  <2>2. \A u : ApprovalOf(u)' = ApprovalOf(u)
    BY DEF ApprovalOf
  <2>3. issued'.count > 0 => issued'.count = 1 /\ ApprovalOf(issued.user)
    BY DEF DeviceInv, PollsOK
  <2> QED
    BY <1>4, <2>1, <2>2, <2>3 DEF PollsOK, ApprovalOf
<1> QED
  BY <1>2, <1>3, <1>5 DEF DeviceInv

(* The challenges stay those of some user.                                 *)
LEMMA ConsentStep ==
    ASSUME ConsentOK, NEW r,
           \A c \in Challenges : deviceConsent'[c].state # "new" =>
              \/ deviceConsent'[c].user \in Users
              \/ deviceConsent[c].state # "new" /\ deviceConsent'[c].user = deviceConsent[c].user,
           \A c \in Challenges : deviceConsent[c].state # "new" => deviceConsent'[c].state # "new",
           \A s \in DeviceCalls : s # r => deviceCall'[s] = deviceCall[s],
           r \in DeviceCalls =>
              \/ deviceCall'[r].pc \notin {"saveConsent", "getToAccept", "getToDeny", "upsert", "approve", "deny"}
              \/ deviceCall'[r].c \in Challenges /\ deviceConsent'[deviceCall'[r].c].state # "new"
    PROVE  ConsentOK'
<1>1. \A c \in Challenges : deviceConsent'[c].state # "new" => deviceConsent'[c].user \in Users
  BY DEF ConsentOK
<1>2. ASSUME NEW s \in DeviceCalls,
             deviceCall'[s].pc \in {"saveConsent", "getToAccept", "getToDeny", "upsert", "approve", "deny"}
      PROVE  deviceCall'[s].c \in Challenges /\ deviceConsent'[deviceCall'[s].c].state # "new"
  BY <1>2 DEF ConsentOK
<1> QED
  BY <1>1, <1>2 DEF ConsentOK

(* A request ends without having done anything to the challenges.          *)
LEMMA DoneStep ==
    ASSUME DeviceInv, NEW r \in DeviceCalls, DeviceCallDone(r), UNCHANGED <<people, deviceConsent>>
    PROVE  /\ ConsentOK' /\ deviceCall' \in [DeviceCalls -> DeviceCall] /\ deviceCall'[r] = NoDeviceCall
           /\ \A s \in DeviceCalls : s # r => deviceCall'[s] = deviceCall[s]
<1>1. /\ deviceCall' \in [DeviceCalls -> DeviceCall] /\ deviceCall'[r] = NoDeviceCall
      /\ \A s \in DeviceCalls : s # r => deviceCall'[s] = deviceCall[s]
  BY NoDeviceCallType DEF DeviceCallDone, DeviceInv, DeviceTypeOK
<1> QED
  BY <1>1, NoDeviceCallType, ConsentStep DEF DeviceInv

(* A request that ends while the record fades or stays.                    *)
LEMMA EndingInv ==
    ASSUME DeviceInv, NEW r \in DeviceCalls, DeviceCallDone(r),
           UNCHANGED <<now, people, deviceConsent, created, answers, issued>>,
           device' \in Record, userCode' \in Nat,
           device'.life > 0 => device.life > 0 /\ device'.status = device.status /\ device'.user = device.user
    PROVE  DeviceInv'
<1>1. /\ ConsentOK' /\ deviceCall' \in [DeviceCalls -> DeviceCall] /\ deviceCall'[r] = NoDeviceCall
      /\ \A s \in DeviceCalls : s # r => deviceCall'[s] = deviceCall[s]
  BY DoneStep
<1>2. DeviceTypeOK'
  BY <1>1 DEF DeviceInv, DeviceTypeOK, people
<1> QED
  BY <1>1, <1>2, NoDeviceCallType, DeviceStep DEF Approving

LEMMA DeviceCallPc ==
    ASSUME DeviceTypeOK, NEW r \in DeviceCalls,
           NEW pc \in {"saveConsent", "getToAccept", "getToDeny", "upsert", "approve", "deny", "consume", "generate"},
           DeviceCallTo(r, pc)
    PROVE  /\ deviceCall' \in [DeviceCalls -> DeviceCall]
           /\ deviceCall'[r].pc = pc /\ deviceCall'[r].c = deviceCall[r].c /\ deviceCall'[r].seen = deviceCall[r].seen
           /\ \A s \in DeviceCalls : s # r => deviceCall'[s] = deviceCall[s]
  BY DEF DeviceTypeOK, DeviceCall, DeviceCallTo

(* A request goes on; the record and the challenges stay as they are.      *)
LEMMA MoveInv ==
    ASSUME DeviceInv, NEW r \in DeviceCalls, NEW call \in DeviceCall,
           deviceCall' = [deviceCall EXCEPT ![r] = call],
           UNCHANGED <<now, people, device, userCode, deviceConsent, created, answers, issued>>,
           call.pc = "create" => ~created /\ \A s \in DeviceCalls : s # r => deviceCall[s].pc # "create",
           call.pc # "generate",
           call.pc \in Approving =>
              /\ created
              /\ \/ deviceCall[r].pc \in Approving /\ call.seen = deviceCall[r].seen
                 \/ device.life > 0 /\ device.status = "approved" /\ call.seen = device,
           \/ call.pc \notin {"saveConsent", "getToAccept", "getToDeny", "upsert", "approve", "deny"}
           \/ call.c \in Challenges /\ deviceConsent[call.c].state # "new"
    PROVE  DeviceInv'
<1>1. /\ deviceCall' \in [DeviceCalls -> DeviceCall] /\ deviceCall'[r] = call
      /\ \A s \in DeviceCalls : s # r => deviceCall'[s] = deviceCall[s]
  BY DEF DeviceInv, DeviceTypeOK
<1>2. DeviceTypeOK'
  BY <1>1 DEF DeviceInv, DeviceTypeOK, people
<1>3. ConsentOK'
  BY <1>1, ConsentStep DEF DeviceInv
<1> QED
  BY <1>1, <1>2, <1>3, DeviceStep

-----------------------------------------------------------------------------
(* The device. *)

LEMMA DeviceAuthorizationInv ==
    ASSUME DeviceInv, NEW r \in DeviceCalls, DeviceAuthorization(r)
    PROVE  DeviceInv'
<1> DEFINE call == [deviceCall[r] EXCEPT !.pc = "create", !.cl = deviceClient]
<1>1. call \in DeviceCall /\ call.pc = "create"
  BY DEF DeviceInv, DeviceTypeOK, DeviceCall
<1>2. deviceCall' = [deviceCall EXCEPT ![r] = call]
  BY DEF DeviceAuthorization, DeviceInv, DeviceTypeOK
<1>3. ~created /\ \A s \in DeviceCalls : s # r => deviceCall[s].pc # "create"
  BY DEF DeviceAuthorization
<1> HIDE DEF call
<1> QED
  BY <1>1, <1>2, <1>3, MoveInv DEF DeviceAuthorization, Approving

LEMMA DeviceCodeGrantInv ==
    ASSUME DeviceInv, NEW r \in DeviceCalls, DeviceCodeGrant(r)
    PROVE  DeviceInv'
<1> DEFINE call == [deviceCall[r] EXCEPT !.pc = "poll", !.cl = deviceClient, !.admitted = access]
<1>1. call \in DeviceCall /\ call.pc = "poll"
  BY DEF DeviceInv, DeviceTypeOK, DeviceCall
<1>2. deviceCall' = [deviceCall EXCEPT ![r] = call]
  BY DEF DeviceCodeGrant, DeviceInv, DeviceTypeOK
<1> HIDE DEF call
<1> QED
  BY <1>1, <1>2, MoveInv DEF DeviceCodeGrant, Approving

(* Create: the only record there ever is.                                  *)
LEMMA CreateInv ==
    ASSUME DeviceInv, NEW r \in DeviceCalls, Create(r)
    PROVE  DeviceInv'
<1>1. /\ ConsentOK' /\ deviceCall' \in [DeviceCalls -> DeviceCall] /\ deviceCall'[r] = NoDeviceCall
      /\ \A s \in DeviceCalls : s # r => deviceCall'[s] = deviceCall[s]
  BY DoneStep DEF Create, people
<1>2. ~created /\ answers = {} /\ issued.count = 0 /\ created' /\ answers' = {} /\ issued' = issued
  BY DEF Create, DeviceInv, CreatedOnce
<1>3. \A s \in DeviceCalls : deviceCall'[s].pc \notin Approving /\ deviceCall'[s].pc # "create"
  BY <1>1, <1>2, NoDeviceCallType DEF DeviceInv, CreatedOnce, Create, Approving
<1>4. device' \in Record /\ userCode' \in Nat
  <2>1. deviceCall[r].cl.ident \in Nat /\ deviceCall[r].cl.auth \in Nat
    BY DEF DeviceInv, DeviceTypeOK, DeviceCall
  <2>2. now + Interval \in Nat /\ TTL \in Nat /\ Interval \in Nat
    BY DeviceBounds DEF DeviceInv, DeviceTypeOK
  <2> QED
    BY <2>1, <2>2 DEF Create, Record, Status
<1>5. DeviceTypeOK'
  BY <1>1, <1>4 DEF Create, DeviceInv, DeviceTypeOK, people
<1>6. CreatedOnce' /\ RecordOK'
  BY <1>2, <1>3 DEF CreatedOnce, RecordOK
<1>7. PollsOK'
  BY <1>2, <1>3 DEF PollsOK, Approving
<1> QED
  BY <1>1, <1>2, <1>5, <1>6, <1>7 DEF DeviceInv

LEMMA PollInv ==
    ASSUME DeviceInv, NEW r \in DeviceCalls, Poll(r)
    PROVE  DeviceInv'
<1> DEFINE interval == IF Early THEN device.interval + SlowDownStep ELSE device.interval
<1>0. UNCHANGED <<now, people, userCode, deviceConsent, created, answers, issued>> /\ userCode' \in Nat /\ device \in Record
  BY DEF Poll, DeviceInv, DeviceTypeOK
<1>1. CASE UNCHANGED device /\ DeviceCallDone(r)
  BY <1>0, <1>1, EndingInv
<1>2. CASE device' = NoRecord /\ DeviceCallDone(r)
  BY <1>0, <1>2, NoRecordType, EndingInv
<1>3. CASE device' = Paced(interval) /\ DeviceCallDone(r)
  <2>1. interval \in Nat /\ now + interval \in Nat
    BY DeviceBounds DEF DeviceInv, DeviceTypeOK, Record
  <2> HIDE DEF interval
  <2>2. device' \in Record /\ device'.life = device.life /\ device'.status = device.status /\ device'.user = device.user
    BY <1>0, <1>3, <2>1 DEF Paced, Record
  <2> QED
    BY <1>0, <1>3, <2>2, EndingInv
<1>4. CASE /\ device.life > 0 /\ device.status = "approved" /\ UNCHANGED device
           /\ deviceCall' = [deviceCall EXCEPT ![r].pc = "checkUser", ![r].seen = device]
  <2> DEFINE call == [deviceCall[r] EXCEPT !.pc = "checkUser", !.seen = device]
  <2>1. call \in DeviceCall /\ call.pc = "checkUser" /\ call.seen = device
    BY <1>0 DEF DeviceInv, DeviceTypeOK, DeviceCall
  <2>2. deviceCall' = [deviceCall EXCEPT ![r] = call]
    BY <1>4 DEF DeviceInv, DeviceTypeOK
  <2>3. created
    BY <1>4 DEF DeviceInv, CreatedOnce, DeviceTypeOK
  <2> HIDE DEF call
  <2> QED
    BY <1>0, <1>4, <2>1, <2>2, <2>3, MoveInv DEF Approving
<1> QED
  BY <1>1, <1>2, <1>3, <1>4 DEF Poll

LEMMA CheckUserInv ==
    ASSUME DeviceInv, NEW r \in DeviceCalls, NEW permitted \in BOOLEAN, CheckUser(r, permitted)
    PROVE  DeviceInv'
<1>0. /\ UNCHANGED <<now, people, device, userCode, deviceConsent, created, answers, issued>>
      /\ deviceCall[r].pc = "checkUser" /\ device' \in Record /\ userCode' \in Nat
  BY DEF CheckUser, DeviceInv, DeviceTypeOK
<1>1. CASE DeviceCallDone(r)
  BY <1>0, <1>1, EndingInv
<1>2. CASE DeviceCallTo(r, "consume")
  <2> DEFINE call == [deviceCall[r] EXCEPT !.pc = "consume"]
  <2>1. call \in DeviceCall /\ call.pc = "consume" /\ call.seen = deviceCall[r].seen
    BY DEF DeviceInv, DeviceTypeOK, DeviceCall
  <2>2. deviceCall' = [deviceCall EXCEPT ![r] = call]
    BY <1>2 DEF DeviceInv, DeviceTypeOK, DeviceCallTo
  <2>3. created
    BY <1>0 DEF DeviceInv, CreatedOnce, DeviceTypeOK, Approving
  <2> HIDE DEF call
  <2> QED
    BY <1>0, <2>1, <2>2, <2>3, MoveInv DEF Approving
<1> QED
  BY <1>1, <1>2 DEF CheckUser

(* ConsumeApproved: the poll that takes the record has the approval.       *)
LEMMA ConsumeApprovedInv ==
    ASSUME DeviceInv, NEW r \in DeviceCalls, ConsumeApproved(r)
    PROVE  DeviceInv'
<1>0. /\ UNCHANGED <<now, people, deviceConsent, created, answers, issued>>
      /\ deviceCall[r].pc = "consume" /\ device \in Record /\ userCode \in Nat
  BY DEF ConsumeApproved, DeviceInv, DeviceTypeOK
<1>1. CASE DeviceCallDone(r) /\ UNCHANGED <<device, userCode>>
  BY <1>0, <1>1, EndingInv
<1>2. CASE device.life > 0 /\ device.status = "approved" /\ device' = NoRecord /\ userCode' = 0 /\ DeviceCallTo(r, "generate")
  <2>1. /\ deviceCall' \in [DeviceCalls -> DeviceCall]
        /\ deviceCall'[r].pc = "generate" /\ deviceCall'[r].seen = deviceCall[r].seen
        /\ \A s \in DeviceCalls : s # r => deviceCall'[s] = deviceCall[s]
    BY <1>2, DeviceCallPc DEF DeviceInv
  <2>2. DeviceTypeOK'
    BY <1>0, <1>2, <2>1, NoRecordType DEF DeviceInv, DeviceTypeOK, people
  <2>3. ConsentOK'
    BY <1>0, <2>1, ConsentStep DEF DeviceInv
  <2>4. device'.life = 0 /\ issued'.count = 0 /\ created
    BY <1>0, <1>2, NoRecordType DEF DeviceInv, RecordOK, CreatedOnce, DeviceTypeOK
  <2>5. CreatedOnce' /\ RecordOK'
    BY <1>0, <2>1, <2>4 DEF DeviceInv, CreatedOnce, RecordOK
  <2>6. PollsOK'
    <3>1. \A s \in DeviceCalls : deviceCall[s].pc # "generate"
      BY <1>2 DEF DeviceInv, PollsOK, Approving
    <3>2. \A s \in DeviceCalls : deviceCall'[s].pc \in Approving => deviceCall[s].pc \in Approving /\ deviceCall'[s].seen = deviceCall[s].seen
      BY <1>0, <2>1 DEF Approving
    <3>3. \A s \in DeviceCalls : deviceCall'[s].pc \in Approving => ApprovalOf(deviceCall'[s].seen.user)
      BY <3>2 DEF DeviceInv, PollsOK
    <3>4. \A s \in DeviceCalls : deviceCall'[s].pc \in Approving => ApprovalOf(deviceCall[s].seen.user)'
      BY <1>0, <3>2, <3>3 DEF ApprovalOf
    <3> QED
      BY <1>0, <2>1, <2>4, <3>1, <3>3 DEF PollsOK, ApprovalOf
  <2> QED
    BY <1>0, <2>2, <2>3, <2>5, <2>6 DEF DeviceInv
<1> QED
  BY <1>1, <1>2 DEF ConsumeApproved

(* Generate: the tokens of the one poll that took the record.              *)
LEMMA GenerateInv ==
    ASSUME DeviceInv, NEW r \in DeviceCalls, NEW active \in BOOLEAN, Generate(r, active)
    PROVE  DeviceInv'
<1>0. /\ UNCHANGED <<now, people, device, userCode, deviceConsent, created, answers>>
      /\ deviceCall[r].pc = "generate" /\ DeviceCallDone(r) /\ device \in Record /\ userCode \in Nat
  BY DEF Generate, DeviceInv, DeviceTypeOK
<1>1. /\ ConsentOK' /\ deviceCall' \in [DeviceCalls -> DeviceCall] /\ deviceCall'[r] = NoDeviceCall
      /\ \A s \in DeviceCalls : s # r => deviceCall'[s] = deviceCall[s]
  BY <1>0, DoneStep DEF people
<1>2. /\ device.life = 0 /\ issued.count = 0 /\ created /\ ApprovalOf(deviceCall[r].seen.user)
      /\ \A s \in DeviceCalls : deviceCall'[s].pc # "generate"
  BY <1>0, <1>1, NoDeviceCallType DEF DeviceInv, PollsOK, CreatedOnce, Approving, DeviceTypeOK
<1>3. CASE issued' = issued
  BY <1>0, <1>3, EndingInv
<1>4. CASE issued' = [count |-> 1, user |-> deviceCall[r].seen.user,
                      admitted |-> deviceCall[r].seen.user \in deviceCall[r].admitted]
  <2>1. issued' \in [count : 0 .. 2, user : Users \cup {NoUser}, admitted : BOOLEAN] /\ issued'.count = 1
        /\ issued'.user = deviceCall[r].seen.user
    <3>1. deviceCall[r].seen.user \in Users \cup {NoUser}
      BY DEF DeviceInv, DeviceTypeOK, DeviceCall, Record
    <3>2. (deviceCall[r].seen.user \in deviceCall[r].admitted) \in BOOLEAN
      OBVIOUS
    <3> QED
      BY <1>4, <3>1, <3>2
  <2>2. DeviceTypeOK'
    BY <1>0, <1>1, <2>1 DEF DeviceInv, DeviceTypeOK, people
  <2>3. CreatedOnce' /\ RecordOK'
    BY <1>0, <1>1, <1>2, NoDeviceCallType DEF DeviceInv, CreatedOnce, RecordOK
  <2>4. PollsOK'
    <3>1. \A s \in DeviceCalls : deviceCall'[s].pc \in Approving => deviceCall[s].pc \in Approving /\ deviceCall'[s].seen = deviceCall[s].seen
      BY <1>1, NoDeviceCallType DEF Approving
    <3>2. \A s \in DeviceCalls : deviceCall'[s].pc \in Approving => ApprovalOf(deviceCall'[s].seen.user)
      BY <3>1 DEF DeviceInv, PollsOK
    <3> QED
      BY <1>0, <1>2, <2>1, <3>2 DEF PollsOK, ApprovalOf
  <2> QED
    BY <1>0, <1>1, <2>2, <2>3, <2>4 DEF DeviceInv
<1> QED
  BY <1>2, <1>3, <1>4 DEF Generate

-----------------------------------------------------------------------------
(* The browsers. *)

LEMMA PrepareInv ==
    ASSUME DeviceInv, NEW r \in DeviceCalls, NEW c \in Challenges, NEW u \in Users, Prepare(r, c, u)
    PROVE  DeviceInv'
<1> DEFINE new == [state |-> "drawn", user |-> u, version |-> version[u],
                   ident |-> deviceClient.ident, auth |-> deviceClient.auth]
           call == [deviceCall[r] EXCEPT !.pc = "saveConsent", !.c = c]
<1>0. /\ UNCHANGED <<now, people, device, userCode, created, answers, issued>>
      /\ deviceConsent \in [Challenges -> Consent] /\ deviceCall \in [DeviceCalls -> DeviceCall]
  BY DEF Prepare, DeviceInv, DeviceTypeOK
<1>1. new \in Consent /\ new.state # "new" /\ new.user \in Users
  BY DEF DeviceInv, DeviceTypeOK, Consent
<1>2. deviceConsent' = [deviceConsent EXCEPT ![c] = new]
  BY DEF Prepare
<1>3. call \in DeviceCall /\ call.pc = "saveConsent" /\ call.c = c
  BY <1>0 DEF DeviceCall
<1>4. deviceCall' = [deviceCall EXCEPT ![r] = call]
  BY <1>0 DEF Prepare
<1> HIDE DEF new, call
<1>5. /\ deviceCall' \in [DeviceCalls -> DeviceCall] /\ deviceCall'[r] = call
      /\ \A s \in DeviceCalls : s # r => deviceCall'[s] = deviceCall[s]
  BY <1>0, <1>3, <1>4
<1>6. /\ deviceConsent' \in [Challenges -> Consent] /\ deviceConsent'[c] = new
      /\ \A d \in Challenges : d # c => deviceConsent'[d] = deviceConsent[d]
  BY <1>0, <1>1, <1>2
<1>7. ConsentOK'
  BY <1>1, <1>3, <1>5, <1>6, ConsentStep DEF DeviceInv
<1>8. DeviceTypeOK'
  BY <1>0, <1>5, <1>6 DEF DeviceInv, DeviceTypeOK, people
<1> QED
  BY <1>0, <1>3, <1>5, <1>7, <1>8, DeviceStep DEF Approving

(* A challenge goes from one state to a later one.                         *)
LEMMA ConsentState ==
    ASSUME deviceConsent \in [Challenges -> Consent], NEW c \in Challenges, NEW state \in {"open", "done"},
           deviceConsent' = [deviceConsent EXCEPT ![c].state = state]
    PROVE  /\ deviceConsent' \in [Challenges -> Consent]
           /\ deviceConsent'[c].state = state
           /\ \A d \in Challenges : deviceConsent'[d].user = deviceConsent[d].user
           /\ \A d \in Challenges : d # c => deviceConsent'[d] = deviceConsent[d]
  BY DEF Consent

LEMMA SaveConsentInv ==
    ASSUME DeviceInv, NEW r \in DeviceCalls, SaveConsent(r)
    PROVE  DeviceInv'
<1>0. /\ UNCHANGED <<now, people, device, userCode, created, answers, issued>>
      /\ deviceConsent \in [Challenges -> Consent]
      /\ deviceCall[r].c \in Challenges /\ deviceConsent[deviceCall[r].c].state # "new"
  BY DEF SaveConsent, DeviceInv, DeviceTypeOK, ConsentOK
<1>1. /\ deviceConsent' \in [Challenges -> Consent] /\ deviceConsent'[deviceCall[r].c].state = "open"
      /\ \A d \in Challenges : deviceConsent'[d].user = deviceConsent[d].user
      /\ \A d \in Challenges : d # deviceCall[r].c => deviceConsent'[d] = deviceConsent[d]
  BY <1>0, ConsentState DEF SaveConsent
<1>2. /\ deviceCall' \in [DeviceCalls -> DeviceCall] /\ deviceCall'[r] = NoDeviceCall
      /\ \A s \in DeviceCalls : s # r => deviceCall'[s] = deviceCall[s]
  BY NoDeviceCallType DEF SaveConsent, DeviceCallDone, DeviceInv, DeviceTypeOK
<1>3. ConsentOK'
  BY <1>0, <1>1, <1>2, NoDeviceCallType, ConsentStep DEF DeviceInv
<1>4. DeviceTypeOK'
  BY <1>0, <1>1, <1>2 DEF DeviceInv, DeviceTypeOK, people
<1> QED
  BY <1>0, <1>2, <1>3, <1>4, NoDeviceCallType, DeviceStep DEF Approving

LEMMA TakeConsentInv ==
    ASSUME DeviceInv, NEW r \in DeviceCalls, NEW c \in Challenges, NEW pc \in {"idle", "getToAccept", "getToDeny"},
           TakeConsent(r, c, pc)
    PROVE  DeviceInv'
<1> DEFINE call == IF pc = "idle" THEN NoDeviceCall ELSE [deviceCall[r] EXCEPT !.pc = pc, !.c = c]
<1>0. /\ UNCHANGED <<now, people, device, userCode, created, answers, issued>>
      /\ deviceConsent \in [Challenges -> Consent] /\ deviceConsent[c].state = "open"
      /\ deviceCall \in [DeviceCalls -> DeviceCall]
  BY DEF TakeConsent, DeviceInv, DeviceTypeOK
<1>1. /\ deviceConsent' \in [Challenges -> Consent] /\ deviceConsent'[c].state = "done"
      /\ \A d \in Challenges : deviceConsent'[d].user = deviceConsent[d].user
      /\ \A d \in Challenges : d # c => deviceConsent'[d] = deviceConsent[d]
  BY <1>0, ConsentState DEF TakeConsent
<1>2. call \in DeviceCall /\ call.pc = pc /\ (pc # "idle" => call.c = c)
  <2>1. CASE pc = "idle"
    BY <2>1, NoDeviceCallType
  <2>2. CASE pc # "idle"
    BY <1>0, <2>2 DEF DeviceCall
  <2> QED
    BY <2>1, <2>2
<1>3. deviceCall' = [deviceCall EXCEPT ![r] = call]
  BY <1>0 DEF TakeConsent
<1> HIDE DEF call
<1>4. /\ deviceCall' \in [DeviceCalls -> DeviceCall] /\ deviceCall'[r] = call
      /\ \A s \in DeviceCalls : s # r => deviceCall'[s] = deviceCall[s]
  BY <1>0, <1>2, <1>3
<1>5. ConsentOK'
  <2>1. r \in DeviceCalls =>
              \/ deviceCall'[r].pc \notin {"saveConsent", "getToAccept", "getToDeny", "upsert", "approve", "deny"}
              \/ deviceCall'[r].c \in Challenges /\ deviceConsent'[deviceCall'[r].c].state # "new"
    BY <1>1, <1>2, <1>4
  <2>2. \A d \in Challenges : deviceConsent'[d].state # "new" => deviceConsent[d].state # "new" /\ deviceConsent'[d].user = deviceConsent[d].user
    BY <1>0, <1>1
  <2>3. \A d \in Challenges : deviceConsent[d].state # "new" => deviceConsent'[d].state # "new"
    BY <1>1
  <2> QED
    BY <1>4, <2>1, <2>2, <2>3, ConsentStep DEF DeviceInv
<1>6. DeviceTypeOK'
  BY <1>0, <1>1, <1>4 DEF DeviceInv, DeviceTypeOK, people
<1> QED
  BY <1>0, <1>2, <1>4, <1>5, <1>6, DeviceStep DEF Approving

LEMMA DropDeviceConsentInv ==
    ASSUME DeviceInv, NEW c \in Challenges, DropDeviceConsent(c)
    PROVE  DeviceInv'
<1>0. /\ UNCHANGED <<now, people, device, userCode, deviceCall, created, answers, issued>>
      /\ deviceConsent \in [Challenges -> Consent] /\ deviceConsent[c].state = "open"
  BY DEF DropDeviceConsent, DeviceInv, DeviceTypeOK
<1>1. /\ deviceConsent' \in [Challenges -> Consent] /\ deviceConsent'[c].state = "done"
      /\ \A d \in Challenges : deviceConsent'[d].user = deviceConsent[d].user
      /\ \A d \in Challenges : d # c => deviceConsent'[d] = deviceConsent[d]
  BY <1>0, ConsentState DEF DropDeviceConsent
<1> DEFINE none == CHOOSE s : s \notin DeviceCalls
<1>2. none \notin DeviceCalls
  BY NoSetContainsEverything
<1>3. ConsentOK'
  BY <1>0, <1>1, <1>2, ConsentStep DEF DeviceInv
<1>4. DeviceTypeOK'
  BY <1>0, <1>1 DEF DeviceInv, DeviceTypeOK, people
<1> QED
  BY <1>0, <1>2, <1>3, <1>4, DeviceStep DEF Approving

LEMMA GetPendingInv ==
    ASSUME DeviceInv, NEW r \in DeviceCalls, GetPending(r)
    PROVE  DeviceInv'
<1>0. /\ UNCHANGED <<now, people, device, userCode, deviceConsent, created, answers, issued>>
      /\ deviceCall[r].pc \in {"getToAccept", "getToDeny"} /\ device \in Record /\ userCode \in Nat
      /\ deviceCall[r].c \in Challenges /\ deviceConsent[deviceCall[r].c].state # "new"
  BY DEF GetPending, DeviceInv, DeviceTypeOK, ConsentOK
<1>1. CASE DeviceCallDone(r)
  BY <1>0, <1>1, EndingInv
<1>2. CASE deviceCall' = [deviceCall EXCEPT ![r].pc = IF @ = "getToAccept" THEN "upsert" ELSE "deny", ![r].seen = device]
  <2> DEFINE call == [deviceCall[r] EXCEPT !.pc = IF deviceCall[r].pc = "getToAccept" THEN "upsert" ELSE "deny", !.seen = device]
  <2>1. call \in DeviceCall /\ call.pc \in {"upsert", "deny"} /\ call.c = deviceCall[r].c
    BY <1>0 DEF DeviceInv, DeviceTypeOK, DeviceCall
  <2>2. deviceCall' = [deviceCall EXCEPT ![r] = call]
    BY <1>2 DEF DeviceInv, DeviceTypeOK, DeviceCall
  <2> HIDE DEF call
  <2> QED
    BY <1>0, <2>1, <2>2, MoveInv DEF Approving
<1> QED
  BY <1>1, <1>2 DEF GetPending

LEMMA UpsertExpectedDeviceInv ==
    ASSUME DeviceInv, NEW r \in DeviceCalls, NEW permitted \in BOOLEAN, UpsertExpectedDevice(r, permitted)
    PROVE  DeviceInv'
<1>0. /\ UNCHANGED <<now, people, device, userCode, deviceConsent, created, answers, issued>>
      /\ deviceCall[r].pc = "upsert" /\ device \in Record /\ userCode \in Nat
      /\ deviceCall[r].c \in Challenges /\ deviceConsent[deviceCall[r].c].state # "new"
  BY DEF UpsertExpectedDevice, DeviceInv, DeviceTypeOK, ConsentOK
<1>1. CASE DeviceCallDone(r)
  BY <1>0, <1>1, EndingInv
<1>2. CASE DeviceCallTo(r, "approve")
  <2> DEFINE call == [deviceCall[r] EXCEPT !.pc = "approve"]
  <2>1. call \in DeviceCall /\ call.pc = "approve" /\ call.c = deviceCall[r].c
    BY DEF DeviceInv, DeviceTypeOK, DeviceCall
  <2>2. deviceCall' = [deviceCall EXCEPT ![r] = call]
    BY <1>2 DEF DeviceInv, DeviceTypeOK, DeviceCallTo
  <2> HIDE DEF call
  <2> QED
    BY <1>0, <2>1, <2>2, MoveInv DEF Approving
<1> QED
  BY <1>1, <1>2 DEF UpsertExpectedDevice

(* Decide: nobody has been told anything and no poll has seen an approval  *)
(* while the record was pending.                                           *)
LEMMA DecideInv ==
    ASSUME DeviceInv, NEW r \in DeviceCalls, NEW heard \in BOOLEAN, Decide(r, heard)
    PROVE  DeviceInv'
<1> DEFINE status == IF deviceCall[r].pc = "approve" THEN "approved" ELSE "denied"
           u == deviceConsent[deviceCall[r].c]
<1>0. /\ UNCHANGED <<now, people, deviceConsent, created, issued>>
      /\ deviceCall[r].pc \in {"approve", "deny"} /\ device \in Record /\ userCode \in Nat
      /\ deviceCall[r].c \in Challenges /\ u.state # "new" /\ u.user \in Users /\ u \in Consent
      /\ status \in {"approved", "denied"} /\ deviceCall[r].seen \in Record
      /\ DeviceCallDone(r)
  BY DEF Decide, DeviceInv, DeviceTypeOK, ConsentOK, DeviceCall
<1>1. CASE UNCHANGED <<device, userCode, answers>>
  BY <1>0, <1>1, EndingInv
<1>2. CASE Decidable /\ Decided(r, status)
           /\ answers' \in {answers, answers \cup {[user |-> u.user, status |-> status]}}
  <2>1. /\ ConsentOK' /\ deviceCall' \in [DeviceCalls -> DeviceCall] /\ deviceCall'[r] = NoDeviceCall
        /\ \A s \in DeviceCalls : s # r => deviceCall'[s] = deviceCall[s]
    BY <1>0, DoneStep DEF people
  <2>2. device' = [deviceCall[r].seen EXCEPT !.status = status, !.life = device.life,
                                         !.user = IF status = "approved" THEN u.user ELSE @,
                                         !.version = IF status = "approved" THEN u.version ELSE @]
    BY <1>2 DEF Decided
  <2>3. u.version \in Nat
    BY <1>0 DEF Consent
  <2>4. userCode' = 0
    BY <1>2 DEF Decided
  <2>5. device.life > 0 /\ device.status = "pending"
    BY <1>2 DEF Decidable
  <2>6. answers = {} /\ issued.count = 0 /\ created /\ \A s \in DeviceCalls : deviceCall[s].pc \notin Approving
    BY <2>5 DEF DeviceInv, RecordOK, CreatedOnce, DeviceTypeOK, PollsOK
  <2>7. answers' = {} \/ answers' = {[user |-> u.user, status |-> status]}
    BY <1>2, <2>6
  <2> HIDE DEF status, u
  <2>8. device' \in Record /\ device'.status = status /\ (status = "approved" => device'.user = u.user)
    BY <1>0, <2>2, <2>3 DEF Record, Status
  <2>9. answers' \subseteq [user : Users, status : Status \ {"pending"}]
    BY <1>0, <2>7 DEF Status
  <2>10. DeviceTypeOK'
    BY <1>0, <2>1, <2>4, <2>8, <2>9 DEF DeviceInv, DeviceTypeOK, people
  <2>11. \A s \in DeviceCalls : deviceCall'[s].pc \notin Approving /\ (deviceCall'[s].pc = "create" => deviceCall[s].pc = "create")
    BY <2>1, <2>6, NoDeviceCallType DEF Approving
  <2>12. CreatedOnce'
    BY <1>0, <2>6, <2>11 DEF DeviceInv, CreatedOnce
  <2>13. RecordOK'
    BY <1>0, <2>6, <2>7, <2>8 DEF RecordOK
  <2>14. PollsOK'
    BY <1>0, <2>6, <2>11 DEF PollsOK, Approving
  <2> QED
    BY <2>1, <2>7, <2>10, <2>12, <2>13, <2>14 DEF DeviceInv
<1> QED
  BY <1>1, <1>2 DEF Decide

-----------------------------------------------------------------------------
(* What goes on around them. *)

LEMMA AbandonDeviceCallInv ==
    ASSUME DeviceInv, NEW r \in DeviceCalls, AbandonDeviceCall(r)
    PROVE  DeviceInv'
<1>1. device \in Record /\ userCode \in Nat
  BY DEF DeviceInv, DeviceTypeOK
<1> QED
  BY <1>1, EndingInv DEF AbandonDeviceCall

(* No request moves.                                                       *)
LEMMA OutsideInv ==
    ASSUME DeviceInv, DeviceTypeOK', UNCHANGED <<deviceConsent, deviceCall, created, answers, issued>>,
           device'.life > 0 => device.life > 0 /\ device'.status = device.status /\ device'.user = device.user
    PROVE  DeviceInv'
<1> DEFINE none == CHOOSE s : s \notin DeviceCalls
<1>1. none \notin DeviceCalls
  BY NoSetContainsEverything
<1>2. ConsentOK'
  BY DEF DeviceInv, ConsentOK
<1> QED
  BY <1>1, <1>2, DeviceStep

LEMMA ChangesInv ==
    ASSUME DeviceInv,
           \/ \E revision \in {"ident", "auth"} : ChangeDeviceClient(revision)
           \/ \E u \in Users : ChangeUser(u) \/ ReplaceAccessUsers(u)
    PROVE  DeviceInv'
<1>0. /\ Change /\ changes \in 0 .. MaxDeviceChanges /\ MaxDeviceChanges \in Nat
      /\ deviceClient \in [ident : Nat, auth : Nat] /\ version \in [Users -> Nat] /\ access \subseteq Users
  BY DeviceBounds DEF ChangeDeviceClient, ChangeUser, ReplaceAccessUsers, DeviceInv, DeviceTypeOK
<1>1. changes' \in 0 .. MaxDeviceChanges
  BY <1>0 DEF Change
<1>2. deviceClient' \in [ident : Nat, auth : Nat]
  BY <1>0 DEF ChangeDeviceClient, ChangeUser, ReplaceAccessUsers
<1>3. version' \in [Users -> Nat]
  BY <1>0 DEF ChangeDeviceClient, ChangeUser, ReplaceAccessUsers
<1>4. access' \subseteq Users
  BY <1>0 DEF ChangeDeviceClient, ChangeUser, ReplaceAccessUsers
<1>5. UNCHANGED <<now, device, userCode, deviceConsent, deviceCall, created, answers, issued>>
  BY <1>0 DEF Change
<1>6. DeviceTypeOK'
  BY <1>1, <1>2, <1>3, <1>4, <1>5 DEF DeviceInv, DeviceTypeOK
<1> QED
  BY <1>5, <1>6, OutsideInv

LEMMA DeviceTickInv ==
    ASSUME DeviceInv, DeviceTick
    PROVE  DeviceInv'
<1>0. device \in Record /\ userCode \in Nat /\ now \in Nat /\ device.life \in Nat
  BY DEF DeviceInv, DeviceTypeOK, Record
<1>1. device' \in Record /\ (device'.life > 0 => device.life > 0 /\ device'.status = device.status /\ device'.user = device.user)
  <2>1. CASE device.life > 1
    <3>1. device' = [device EXCEPT !.life = OlderDevice(device.life)] /\ OlderDevice(device.life) \in Nat
      BY <1>0, <2>1 DEF DeviceTick, OlderDevice
    <3> QED
      BY <1>0, <2>1, <3>1 DEF Record
  <2>2. CASE ~(device.life > 1)
    BY <2>2, NoRecordType DEF DeviceTick
  <2> QED
    BY <2>1, <2>2
<1>2. userCode' \in Nat /\ now' \in Nat
  BY <1>0 DEF DeviceTick, OlderDevice
<1>3. DeviceTypeOK'
  BY <1>1, <1>2 DEF DeviceTick, DeviceInv, DeviceTypeOK, people
<1> QED
  BY <1>1, <1>3, OutsideInv DEF DeviceTick

LEMMA DeviceStepInv == DeviceInv /\ [DeviceNext]_deviceVars => DeviceInv'
<1> SUFFICES ASSUME DeviceInv, [DeviceNext]_deviceVars PROVE DeviceInv'
  OBVIOUS
<1>1. CASE UNCHANGED deviceVars
  <2>1. DeviceTypeOK'
    BY <1>1 DEF DeviceInv, DeviceTypeOK, deviceVars
  <2> QED
    BY <1>1, <2>1, OutsideInv DEF deviceVars
<1>2. ASSUME NEW r \in DeviceCalls,
             \/ DeviceAuthorization(r) \/ Create(r) \/ DeviceCodeGrant(r) \/ Poll(r) \/ ConsumeApproved(r)
             \/ SaveConsent(r) \/ GetPending(r) \/ AbandonDeviceCall(r)
      PROVE  DeviceInv'
  BY <1>2, DeviceAuthorizationInv, CreateInv, DeviceCodeGrantInv, PollInv, ConsumeApprovedInv, SaveConsentInv,
     GetPendingInv, AbandonDeviceCallInv
<1>3. ASSUME NEW r \in DeviceCalls, NEW b \in BOOLEAN,
             CheckUser(r, b) \/ Generate(r, b) \/ UpsertExpectedDevice(r, b) \/ Decide(r, b)
      PROVE  DeviceInv'
  BY <1>3, CheckUserInv, GenerateInv, UpsertExpectedDeviceInv, DecideInv
<1>4. ASSUME NEW r \in DeviceCalls, NEW c \in Challenges, AcceptDevice(r, c) \/ DenyConsent(r, c)
      PROVE  DeviceInv'
  BY <1>4, TakeConsentInv DEF AcceptDevice, DenyConsent
<1>5. ASSUME NEW r \in DeviceCalls, NEW c \in Challenges, NEW u \in Users, Prepare(r, c, u)
      PROVE  DeviceInv'
  BY <1>5, PrepareInv
<1>6. ASSUME NEW c \in Challenges, DropDeviceConsent(c)
      PROVE  DeviceInv'
  BY <1>6, DropDeviceConsentInv
<1> QED
  BY <1>1, <1>2, <1>3, <1>4, <1>5, <1>6, ChangesInv, DeviceTickInv DEF DeviceNext

LEMMA DeviceInvHolds == DeviceSpec => []DeviceInv
  BY DeviceInitInv, DeviceStepInv, PTL DEF DeviceSpec

(* Polls overlap as they like, any of them is abandoned at any point: a    *)
(* device code yields tokens at most once, because a poll issues them only *)
(* after the script of ConsumeApproved gave it the record                  *)
(* (internal/deviceauthorization, handleDeviceCodeGrant).                  *)
THEOREM DeviceCodesYieldTokensOnce == DeviceSpec => []TokensOnce
<1>1. DeviceInv => TokensOnce
  BY DEF DeviceInv, DeviceTypeOK, PollsOK, TokensOnce
<1> QED
  BY <1>1, DeviceInvHolds, PTL

(* What a user was told of his decision is what happens, whoever else      *)
(* enters the same user code, in how many windows, while the device polls: *)
(* ApproveWithAuthentication and Deny replace only a pending record, and   *)
(* the record that decides goes to one poll.                               *)
THEOREM DecisionsAreFinal == DeviceSpec => []AnswerIsFinal
<1>1. DeviceInv => AnswerIsFinal
  <2> SUFFICES ASSUME DeviceInv, NEW a \in answers
               PROVE  /\ answers = {a}
                      /\ device.life > 0 => device.status = a.status
                      /\ a.status = "approved" /\ device.life > 0 => device.user = a.user
                      /\ issued.count > 0 => a.status = "approved" /\ issued.user = a.user
    BY DEF AnswerIsFinal
  <2>1. answers = {a}
    BY DEF DeviceInv
  <2>2. /\ device.life > 0 => device.status = a.status
        /\ a.status = "approved" /\ device.life > 0 => device.user = a.user
    BY DEF DeviceInv, RecordOK
  <2>3. issued.count > 0 => a = [user |-> issued.user, status |-> "approved"]
    BY DEF DeviceInv, PollsOK, ApprovalOf
  <2> QED
    BY <2>1, <2>2, <2>3
<1> QED
  BY <1>1, DeviceInvHolds, PTL
=============================================================================
