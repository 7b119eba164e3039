----------------------------- MODULE MailRuntime -----------------------------
(***************************************************************************)
(* The runtime mail configuration and what it coordinates: the singleton   *)
(* row with its versions and circuit breaker (internal/mailruntime), the   *)
(* process-local sender snapshots of several instances, outbox claims and  *)
(* deliveries, circuit probes, and the lock that ties self-registration to *)
(* mail (internal/runtimecoord, internal/settings, internal/user).         *)
(*                                                                         *)
(* A transaction that only locks the mail row FOR UPDATE is one step.  One *)
(* that reads a row and commits later under locks (disabling mail, setting *)
(* the registration policy, registering, claiming a batch) is two steps,   *)
(* begin and commit, with its locks in tx.  An administrator's request     *)
(* with another revision than the stored one is refused and changes        *)
(* nothing.  A candidate test reads, sends and records under one expected  *)
(* revision, so it has its effect in one step or not at all.               *)
(*                                                                         *)
(* Left out: the SMTP settings and their validation, service-control       *)
(* pauses (they can only refuse a policy), and everything a registration   *)
(* writes besides the fact that it committed.                              *)
(***************************************************************************)
EXTENDS Integers, Sequences

CONSTANTS
    Instances,       \* server processes
    WithFallback,    \* the instances that have SMTP settings in their environment
    Unreadable,      \* pairs <<i, v>>: instance i lacks the key of version v
    Deployed,        \* versions saved, tested and activated before the run begins
    MaxMailVersion,  \* bound: configuration versions
    MaxRevision,     \* bound: revisions of the mail row
    MaxPolicies,     \* bound: changes of the registration policy
    MaxRegistered,   \* bound: registrations that are counted
    MaxTime,         \* bound: the clock
    TestValidity,    \* CandidateTestValidity
    FailureWindow,   \* TransportFailureWindow
    FailureLimit,    \* TransportFailureLimit
    ProbeInterval    \* CircuitProbeInterval

Versions == 1 .. MaxMailVersion
NoVersion == 0
NoTime == -1
OpenModes == {"invite_only", "open"}
PolicyModes == OpenModes \cup {"closed"}

ASSUME MailConstants ==
    /\ WithFallback \subseteq Instances
    /\ Unreadable \subseteq Instances \X Versions
    /\ MaxMailVersion \in Nat /\ Deployed \in 0 .. MaxMailVersion /\ MaxRevision \in Nat /\ MaxPolicies \in Nat
    /\ MaxRegistered \in Nat /\ MaxTime \in Nat
    /\ TestValidity \in Nat /\ FailureWindow \in Nat
    /\ FailureLimit \in Nat \ {0} /\ ProbeInterval \in Nat \ {0}

VARIABLES
    mail,         \* mail_runtime_state
    created,      \* number of rows in mail_config_versions
    tested,       \* mail_config_tests: last success of each version
    policy,       \* runtime_settings: the registration policy
    registered,   \* number of registrations committed
    snap,         \* the sender snapshot of each instance
    sending,      \* the sender of the batch an instance has claimed
    probe,        \* the probe an instance has claimed
    tx,           \* the two-step transaction an instance is in
    now,          \* the wall clock
    openedRev,    \* history: the revision that last opened the circuit
    claimedAt,    \* history: when a probe was last claimed
    burst         \* history: times of transport failures recorded in a row

mailRuntimeVars == <<mail, created, tested, policy, registered, snap, sending, probe, tx, now,
                     openedRev, claimedAt, burst>>

Time == 0 .. MaxTime
Source == [mode : {"fallback", "active", "disabled"}, version : Versions \cup {NoVersion}]
NoSource == [mode |-> "disabled", version |-> NoVersion]

MailRow == [mode : {"fallback", "active", "disabled"},
            active : Versions \cup {NoVersion}, candidate : Versions \cup {NoVersion},
            previous : Versions \cup {NoVersion}, revision : 0 .. MaxRevision,
            category : {"none", "transport", "permanent"},
            failures : 0 .. FailureLimit, window : Time \cup {NoTime},
            nextProbe : 0 .. (MaxTime + ProbeInterval) \cup {NoTime}]

SenderSnapshot == [revision : -1 .. MaxRevision, source : Source, open : BOOLEAN, sender : BOOLEAN]
NoSenderSnapshot == [revision |-> -1, source |-> NoSource, open |-> FALSE, sender |-> FALSE]

Probe == [revision : -1 .. MaxRevision, source : Source]
NoProbe == [revision |-> -1, source |-> NoSource]

Transaction == [kind : {"none", "disable", "policy", "request", "register", "claim"},
                mode : PolicyModes, gate : Source]
NoTx == [kind |-> "none", mode |-> "closed", gate |-> NoSource]

(* The circuit is open while the row names the category that opened it. *)
Open(m) == m.category # "none"
SourceOf(m) == [mode |-> m.mode, version |-> m.active]

(* validateSource and sourceMatchesState *)
SourceMatches(source, m) == source.mode # "disabled" /\ source = SourceOf(m)

-----------------------------------------------------------------------------
(* Locks.  Disable, policy and registration transactions in tx hold the    *)
(* registration advisory lock; a policy that is not closed, a registration *)
(* and a claim hold the mail row FOR SHARE until they commit.  A request   *)
(* to register that has not begun its transaction holds nothing.           *)

(* Mutant: the policy and the disable transaction do not exclude others. *)
RegistrationUnlocked(i) == TRUE

LockRegistrationExclusive(i) == \A j \in Instances \ {i} : tx[j].kind \in {"none", "request", "claim"}
LockRegistrationShared(i) == \A j \in Instances \ {i} : tx[j].kind \notin {"disable", "policy"}

(* Mutant: the gate reads the row without FOR SHARE. *)
GateUnlocked(j) == tx[j].kind = "policy" /\ tx[j].mode # "closed"

MailRowShared(j) ==
    \/ tx[j].kind \in {"register", "claim"}
    \/ tx[j].kind = "policy" /\ tx[j].mode # "closed"
MailRowFree == \A j \in Instances : ~MailRowShared(j)

(* The policy row, once it exists, is locked FOR SHARE by its readers. *)
PolicyRowFree(i) == \A j \in Instances \ {i} :
    policy.revision > 0 => tx[j].kind \notin {"disable", "register"}

Idle(i) == tx[i] = NoTx

-----------------------------------------------------------------------------
(* Sender snapshots *)

(* LoadEffectiveConfig and buildSender: the fallback is used in mode       *)
(* fallback only, and a version that cannot be decrypted has no sender.    *)
HasSender(i, m) ==
    \/ m.mode = "fallback" /\ i \in WithFallback
    \/ m.mode = "active" /\ <<i, m.active>> \notin Unreadable

EffectiveConfig(i, m) ==
    [revision |-> m.revision, source |-> SourceOf(m), open |-> Open(m), sender |-> HasSender(i, m)]

(* Mutant: a version without a sender leaves the snapshot in place. *)
InstallUsable(i, m) ==
    IF m.revision > snap[i].revision /\ HasSender(i, m)
    THEN [snap EXCEPT ![i] = EffectiveConfig(i, m)] ELSE snap

(* install: only a strictly newer revision replaces the snapshot *)
Install(i, m) ==
    IF m.revision > snap[i].revision THEN [snap EXCEPT ![i] = EffectiveConfig(i, m)] ELSE snap

(* The Load that follows a commit; a failed read keeps the snapshot. *)
Reload(i, m) == snap' = snap \/ snap' = Install(i, m)

(* CurrentSender *)
Available(i) == snap[i].sender /\ ~snap[i].open

(* Load, on a notification, by reconciliation or at the start *)
LoadSender(i) ==
    /\ snap' = Install(i, mail)
    /\ UNCHANGED <<mail, created, tested, policy, registered, sending, probe, tx, now,
                   openedRev, claimedAt, burst>>

-----------------------------------------------------------------------------
(* Administration of the configuration *)

(* lockState; the revision column never runs out in the code *)
LockState == MailRowFree /\ mail.revision < MaxRevision

CloseCircuit(m) ==
    [m EXCEPT !.category = "none", !.failures = 0, !.window = NoTime, !.nextProbe = NoTime]

CreateCandidate(i) ==
    /\ LockState /\ created < MaxMailVersion
    /\ created' = created + 1
    /\ mail' = [mail EXCEPT !.candidate = created + 1, !.revision = mail.revision + 1]
    /\ UNCHANGED <<tested, policy, registered, snap, sending, probe, tx, now,
                   openedRev, claimedAt, burst>>

(* A test needs the sender of the candidate to succeed. *)
RecordTest(i, success) ==
    /\ LockState /\ mail.candidate # NoVersion
    /\ success => <<i, mail.candidate>> \notin Unreadable
    /\ tested' = IF success THEN [tested EXCEPT ![mail.candidate] = now] ELSE tested
    /\ mail' = [mail EXCEPT !.revision = mail.revision + 1]
    /\ UNCHANGED <<created, policy, registered, snap, sending, probe, tx, now,
                   openedRev, claimedAt, burst>>

(* Mutant: a missing test counts as an old one and is never too old. *)
TestIsPast(v) == tested[v] <= now

TestIsRecent(v) == tested[v] # NoTime /\ tested[v] <= now /\ tested[v] >= now - TestValidity

ActivateRow(m) ==
    CloseCircuit([m EXCEPT !.mode = "active", !.active = m.candidate, !.candidate = NoVersion,
                           !.previous = IF m.mode = "active" THEN m.active ELSE m.previous,
                           !.revision = m.revision + 1])

Activate(i) ==
    /\ LockState /\ mail.candidate # NoVersion /\ TestIsRecent(mail.candidate)
    /\ mail' = ActivateRow(mail)
    /\ Reload(i, mail')
    /\ burst' = <<>>
    /\ UNCHANGED <<created, tested, policy, registered, sending, probe, tx, now,
                   openedRev, claimedAt>>

RollbackRow(m) ==
    CloseCircuit([m EXCEPT !.mode = "active", !.active = m.previous,
                           !.previous = IF m.mode = "active" THEN m.active ELSE NoVersion,
                           !.revision = m.revision + 1])

Rollback(i) ==
    /\ LockState /\ mail.previous # NoVersion /\ mail.mode \in {"active", "disabled"}
    /\ mail' = RollbackRow(mail)
    /\ Reload(i, mail')
    /\ burst' = <<>>
    /\ UNCHANGED <<created, tested, policy, registered, sending, probe, tx, now,
                   openedRev, claimedAt>>

DisableRow(m) ==
    CloseCircuit([m EXCEPT !.mode = "disabled", !.active = NoVersion,
                           !.previous = IF m.mode = "active" THEN m.active ELSE m.previous,
                           !.revision = m.revision + 1])

(* Disable, up to the read of the registration policy *)
BeginDisable(i) ==
    /\ Idle(i) /\ LockRegistrationExclusive(i) /\ policy.mode = "closed"
    /\ tx' = [tx EXCEPT ![i] = [kind |-> "disable", mode |-> "closed", gate |-> NoSource]]
    /\ UNCHANGED <<mail, created, tested, policy, registered, snap, sending, probe, now,
                   openedRev, claimedAt, burst>>

CommitDisable(i) ==
    /\ tx[i].kind = "disable"
    /\ LockState /\ mail.mode # "disabled"
    /\ mail' = DisableRow(mail)
    /\ Reload(i, mail')
    /\ burst' = <<>>
    /\ tx' = [tx EXCEPT ![i] = NoTx]
    /\ UNCHANGED <<created, tested, policy, registered, sending, probe, now,
                   openedRev, claimedAt>>

-----------------------------------------------------------------------------
(* Self-registration *)

(* MailConfigured; the fallback counts where this instance has one *)
MailConfigured(i) == mail.mode = "active" \/ (mail.mode = "fallback" /\ i \in WithFallback)

(* SetRegistration, up to the check of the mail state *)
BeginSetRegistration(i, mode) ==
    /\ Idle(i) /\ LockRegistrationExclusive(i) /\ policy.revision < MaxPolicies
    /\ mode # "closed" => MailConfigured(i)
    /\ tx' = [tx EXCEPT ![i] = [kind |-> "policy", mode |-> mode, gate |-> NoSource]]
    /\ UNCHANGED <<mail, created, tested, policy, registered, snap, sending, probe, now,
                   openedRev, claimedAt, burst>>

CommitSetRegistration(i) ==
    /\ tx[i].kind = "policy" /\ PolicyRowFree(i) /\ policy.revision < MaxPolicies
    /\ policy' = [mode |-> tx[i].mode, revision |-> policy.revision + 1]
    /\ tx' = [tx EXCEPT ![i] = NoTx]
    /\ UNCHANGED <<mail, created, tested, registered, snap, sending, probe, now,
                   openedRev, claimedAt, burst>>

(* RequireMailDeliveryGate: circuit closed and the sender unchanged *)
RequireMailDeliveryGate(gate) == ~Open(mail) /\ SourceMatches(gate, mail)

(* handleRegister checks a request against the policy and the sender its   *)
(* instance remembers; the remembered policy may be any earlier one.       *)
ReceiveRegistration(i, mode) ==
    /\ Idle(i) /\ registered < MaxRegistered /\ Available(i)
    /\ tx' = [tx EXCEPT ![i] = [kind |-> "request", mode |-> mode, gate |-> snap[i].source]]
    /\ UNCHANGED <<mail, created, tested, policy, registered, snap, sending, probe, now,
                   openedRev, claimedAt, burst>>

(* CreateRegistration, up to the gate: RequireRegistrationTx and           *)
(* RequireMailDeliveryGate compare what the request remembers with the     *)
(* stored policy and sender.                                               *)
BeginRegistration(i) ==
    /\ tx[i].kind = "request" /\ LockRegistrationShared(i)
    /\ policy.mode = tx[i].mode
    /\ RequireMailDeliveryGate(tx[i].gate)
    /\ tx' = [tx EXCEPT ![i] = [kind |-> "register", mode |-> tx[i].mode, gate |-> tx[i].gate]]
    /\ UNCHANGED <<mail, created, tested, policy, registered, snap, sending, probe, now,
                   openedRev, claimedAt, burst>>

CommitRegistration(i) ==
    /\ tx[i].kind = "register" /\ registered < MaxRegistered
    /\ registered' = registered + 1
    /\ tx' = [tx EXCEPT ![i] = NoTx]
    /\ UNCHANGED <<mail, created, tested, policy, snap, sending, probe, now,
                   openedRev, claimedAt, burst>>

(* A request is refused, or its transaction fails and rolls back. *)
AbortTransaction(i) ==
    /\ ~Idle(i)
    /\ tx' = [tx EXCEPT ![i] = NoTx]
    /\ UNCHANGED <<mail, created, tested, policy, registered, snap, sending, probe, now,
                   openedRev, claimedAt, burst>>

-----------------------------------------------------------------------------
(* Delivery *)

(* DispatchOnce: with a sender at hand the claim takes the gate, or finds  *)
(* the snapshot behind and refreshes it.                                   *)
BeginClaim(i) ==
    /\ Idle(i) /\ sending[i] = NoSource /\ Available(i)
    /\ IF RequireMailDeliveryGate(snap[i].source)
       THEN /\ tx' = [tx EXCEPT ![i] = [kind |-> "claim", mode |-> "closed", gate |-> snap[i].source]]
            /\ UNCHANGED snap
       ELSE Reload(i, mail) /\ UNCHANGED tx
    /\ UNCHANGED <<mail, created, tested, policy, registered, sending, probe, now,
                   openedRev, claimedAt, burst>>

CommitClaim(i) ==
    /\ tx[i].kind = "claim"
    /\ sending' = [sending EXCEPT ![i] = tx[i].gate]
    /\ tx' = [tx EXCEPT ![i] = NoTx]
    /\ UNCHANGED <<mail, created, tested, policy, registered, snap, probe, now,
                   openedRev, claimedAt, burst>>

(* Mutant: the update forgets the revision. *)
OpenUnversioned(m, category, start, count) ==
    [m EXCEPT !.category = category, !.window = start, !.failures = count,
              !.nextProbe = now + ProbeInterval]

OpenCircuit(m, category, start, count) ==
    [m EXCEPT !.category = category, !.window = start, !.failures = count,
              !.nextProbe = now + ProbeInterval, !.revision = m.revision + 1]

(* Mutant: the window never ends. *)
WindowUnset(m) == m.window = NoTime

(* The window restarts when it is over. *)
WindowOver(m) == m.window = NoTime \/ now < m.window \/ now - m.window > FailureWindow

TransportFailure(m) ==
    LET start == IF WindowOver(m) THEN now ELSE m.window
        count == IF WindowOver(m) THEN 1 ELSE m.failures + 1
    IN  IF count >= FailureLimit
        THEN OpenCircuit(m, "transport", start, count)
        ELSE [m EXCEPT !.window = start, !.failures = count, !.revision = m.revision + 1]

(* RecordDeliveryOutcome on the locked row.  A recipient failure, and any  *)
(* outcome while the circuit is open or of another sender, leaves the row. *)
Outcome(m, source, outcome) ==
    IF ~SourceMatches(source, m) \/ Open(m) \/ outcome = "recipient" THEN m
    ELSE IF outcome = "success"
         THEN IF m.failures = 0 THEN m
              ELSE [m EXCEPT !.window = NoTime, !.failures = 0, !.revision = m.revision + 1]
    ELSE IF outcome = "permanent" THEN OpenCircuit(m, "permanent", NoTime, 0)
    ELSE TransportFailure(m)

Outcomes == {"success", "recipient", "permanent", "transport"}

(* The failures the row has counted, newest last *)
NextBurst(outcome, m) ==
    IF m = mail THEN burst
    ELSE IF outcome = "success" THEN <<>>
    ELSE IF outcome = "transport"
         THEN IF Len(burst) = FailureLimit THEN Append(Tail(burst), now) ELSE Append(burst, now)
    ELSE burst

(* deliverySender.Send, and the Load when the row has changed *)
Deliver(i, outcome) ==
    /\ sending[i] # NoSource /\ LockState
    /\ mail' = Outcome(mail, sending[i], outcome)
    /\ IF mail' = mail THEN UNCHANGED snap ELSE Reload(i, mail')
    /\ openedRev' = IF Open(mail') /\ ~Open(mail) THEN mail'.revision ELSE openedRev
    /\ burst' = NextBurst(outcome, mail')
    /\ UNCHANGED <<created, tested, policy, registered, sending, probe, tx, now, claimedAt>>

(* The batch ends; a send that was cancelled records nothing. *)
FinishBatch(i) ==
    /\ sending[i] # NoSource
    /\ sending' = [sending EXCEPT ![i] = NoSource]
    /\ UNCHANGED <<mail, created, tested, policy, registered, snap, probe, tx, now,
                   openedRev, claimedAt, burst>>

-----------------------------------------------------------------------------
(* Recovery of the circuit *)

(* Mutant: an open circuit may always be probed. *)
ProbeAnyTime(m) == m.nextProbe # NoTime

ProbeDue(m) == m.nextProbe # NoTime /\ now >= m.nextProbe

ClaimProbe(i) ==
    /\ probe[i] = NoProbe /\ snap[i].sender /\ snap[i].open
    /\ LockState
    /\ SourceMatches(snap[i].source, mail) /\ Open(mail) /\ ProbeDue(mail)
    /\ mail' = [mail EXCEPT !.nextProbe = now + ProbeInterval, !.revision = mail.revision + 1]
    /\ probe' = [probe EXCEPT ![i] = [revision |-> mail.revision + 1, source |-> snap[i].source]]
    /\ claimedAt' = now
    /\ UNCHANGED <<created, tested, policy, registered, snap, sending, tx, now, openedRev, burst>>

(* Mutant: the result is not tied to the claimed revision. *)
ProbeAcceptedLate(p, m) == SourceMatches(p.source, m) /\ Open(m)

(* requireRevision, sourceMatchesState and the state of the circuit *)
ProbeAccepted(p, m) == m.revision = p.revision /\ SourceMatches(p.source, m) /\ Open(m)

ProbeRow(m, success) ==
    IF success THEN [CloseCircuit(m) EXCEPT !.revision = m.revision + 1]
    ELSE [m EXCEPT !.nextProbe = now + ProbeInterval, !.revision = m.revision + 1]

(* probeOnce after the probe; a refused result ends the round. *)
RecordProbeOutcome(i, success) ==
    /\ probe[i] # NoProbe /\ LockState
    /\ IF ProbeAccepted(probe[i], mail)
       THEN mail' = ProbeRow(mail, success) /\ Reload(i, mail')
       ELSE UNCHANGED <<mail, snap>>
    /\ burst' = IF Open(mail) /\ ~Open(mail') THEN <<>> ELSE burst
    /\ probe' = [probe EXCEPT ![i] = NoProbe]
    /\ UNCHANGED <<created, tested, policy, registered, sending, tx, now, openedRev, claimedAt>>

(* A process stops and starts again; its transaction is rolled back. *)
Restart(i) ==
    /\ snap' = [snap EXCEPT ![i] = NoSenderSnapshot]
    /\ sending' = [sending EXCEPT ![i] = NoSource]
    /\ probe' = [probe EXCEPT ![i] = NoProbe]
    /\ tx' = [tx EXCEPT ![i] = NoTx]
    /\ UNCHANGED <<mail, created, tested, policy, registered, now, openedRev, claimedAt, burst>>

Tick ==
    /\ now < MaxTime
    /\ now' = now + 1
    /\ UNCHANGED <<mail, created, tested, policy, registered, snap, sending, probe, tx,
                   openedRev, claimedAt, burst>>

-----------------------------------------------------------------------------
(* With nothing deployed the row is the one the migration inserts, in      *)
(* fallback mode.  After Deployed rounds of saving, testing and activating *)
(* the last version is active and the one before it is the previous one;   *)
(* revisions count from there.  The instances start, or have started and   *)
(* read that row.                                                          *)
MailInit ==
    /\ mail = [mode |-> IF Deployed = 0 THEN "fallback" ELSE "active",
               active |-> Deployed, candidate |-> NoVersion,
               previous |-> IF Deployed = 0 THEN NoVersion ELSE Deployed - 1,
               revision |-> 0, category |-> "none",
               failures |-> 0, window |-> NoTime, nextProbe |-> NoTime]
    /\ created = Deployed
    /\ tested = [v \in Versions |-> IF v <= Deployed THEN 0 ELSE NoTime]
    /\ policy = [mode |-> "closed", revision |-> 0]
    /\ registered = 0
    /\ \/ snap = [i \in Instances |-> NoSenderSnapshot]
       \/ snap = [i \in Instances |-> EffectiveConfig(i, mail)]
    /\ sending = [i \in Instances |-> NoSource]
    /\ probe = [i \in Instances |-> NoProbe]
    /\ tx = [i \in Instances |-> NoTx]
    /\ now = 0
    /\ openedRev = 0 /\ claimedAt = NoTime /\ burst = <<>>

Administer(i) ==
    \/ CreateCandidate(i)
    \/ \E success \in BOOLEAN : RecordTest(i, success)
    \/ Activate(i)
    \/ Rollback(i)
    \/ BeginDisable(i)
    \/ CommitDisable(i)
    \/ \E mode \in PolicyModes : BeginSetRegistration(i, mode)
    \/ CommitSetRegistration(i)

Serve(i) ==
    \/ \E mode \in OpenModes : ReceiveRegistration(i, mode)
    \/ BeginRegistration(i)
    \/ CommitRegistration(i)
    \/ AbortTransaction(i)
    \/ BeginClaim(i)
    \/ CommitClaim(i)
    \/ \E outcome \in Outcomes : Deliver(i, outcome)
    \/ FinishBatch(i)

Synchronize(i) ==
    \/ LoadSender(i)
    \/ ClaimProbe(i)
    \/ \E success \in BOOLEAN : RecordProbeOutcome(i, success)
    \/ Restart(i)

MailNext == Tick \/ \E i \in Instances : Administer(i) \/ Serve(i) \/ Synchronize(i)

MailSpec == MailInit /\ [][MailNext]_mailRuntimeVars

(* Notifications and the reconciliation ticker of every instance. *)
MailFairness == \A i \in Instances : WF_mailRuntimeVars(LoadSender(i))

-----------------------------------------------------------------------------
MailTypeOK ==
    /\ mail \in MailRow
    /\ created \in 0 .. MaxMailVersion
    /\ tested \in [Versions -> Time \cup {NoTime}]
    /\ policy \in [mode : PolicyModes, revision : 0 .. MaxPolicies]
    /\ registered \in 0 .. MaxRegistered
    /\ snap \in [Instances -> SenderSnapshot]
    /\ sending \in [Instances -> Source]
    /\ probe \in [Instances -> Probe]
    /\ tx \in [Instances -> Transaction]
    /\ now \in Time
    /\ openedRev \in 0 .. MaxRevision
    /\ claimedAt \in Time \cup {NoTime}
    /\ burst \in Seq(Time)

(* Self-registration is never left open while mail is disabled: disabling  *)
(* mail and opening registration check each other's state, on different    *)
(* instances and before their commits (Disable, SetRegistration).          *)
RegistrationNeedsMail == policy.mode # "closed" => mail.mode # "disabled"

(* A registration commits only under the policy its request was checked    *)
(* against, and like a claimed batch only while the stored sender is the   *)
(* one its instance holds and the circuit is closed, however stale the     *)
(* instance's snapshot was (CreateRegistration, ClaimEmailBatch).          *)
GateHoldsAtCommit ==
    [][\A i \in Instances :
         /\ tx[i].kind = "register" /\ registered' # registered /\ tx'[i] = NoTx
              => policy.mode = tx[i].mode /\ ~Open(mail) /\ SourceOf(mail) = tx[i].gate
         /\ sending[i] = NoSource /\ sending'[i] # NoSource
              => ~Open(mail) /\ SourceOf(mail) = sending'[i]]_mailRuntimeVars

(* The circuit of an unchanged sender closes only on a probe that was      *)
(* claimed after the circuit had opened: a slow probe from before cannot   *)
(* close it (ClaimProbe, RecordProbeOutcome).                              *)
RecoveryIsFresh ==
    [][Open(mail) /\ ~Open(mail') /\ SourceOf(mail') = SourceOf(mail)
         => \E i \in Instances :
              probe[i] # NoProbe /\ probe'[i] = NoProbe /\ probe[i].revision > openedRev]_mailRuntimeVars

(* Across all instances, restarts and re-openings of the circuit, two      *)
(* probes are claimed at least ProbeInterval apart (next_probe_at).        *)
ProbesAreSpaced ==
    [][\A i \in Instances :
         probe[i] = NoProbe /\ probe'[i] # NoProbe /\ claimedAt # NoTime
           => now - claimedAt >= ProbeInterval]_mailRuntimeVars

(* Transport failures open the circuit only when FailureLimit of them were *)
(* recorded within FailureWindow with no recorded success in between       *)
(* (RecordDeliveryOutcome).                                                *)
TransportOpensOnBurst ==
    mail.category = "transport" =>
        /\ Len(burst) = FailureLimit
        /\ burst[FailureLimit] - burst[1] <= FailureWindow

(* A snapshot with the stored revision describes the stored state: every   *)
(* mutation of the row advances the revision that install compares.        *)
SnapshotIsFaithful ==
    \A i \in Instances :
        snap[i].revision = mail.revision => snap[i] = EffectiveConfig(i, mail)

(* No operation leaves the row in a state that a CHECK constraint of the   *)
(* migration would refuse: the mode fits the versions, the versions are    *)
(* distinct, window and count, circuit and next probe go together, and the *)
(* count fits what opened the circuit.                                     *)
RowConstraints ==
    /\ mail.mode = "fallback" => mail.active = NoVersion /\ mail.previous = NoVersion
    /\ mail.mode = "active" <=> mail.active # NoVersion
    /\ \A f, g \in {"active", "candidate", "previous"} :
         f # g /\ mail[f] # NoVersion => mail[f] # mail[g]
    /\ mail.failures = 0 <=> mail.window = NoTime
    /\ Open(mail) <=> mail.nextProbe # NoTime
    /\ mail.category = "transport" => mail.failures >= FailureLimit
    /\ mail.category = "permanent" => mail.failures = 0

(* What mail is sent with has passed a test: the active and the previous   *)
(* version and the sender of a claimed batch (Activate, Rollback).         *)
SendersWereTested ==
    \A v \in {mail.active, mail.previous} \cup {sending[i].version : i \in Instances} :
        v # NoVersion => tested[v] # NoTime

(* Every instance catches up with the stored state again and again, even   *)
(* if it cannot build the sender the state names (Load, reconcile).        *)
InstancesConverge == \A i \in Instances : []<>(snap[i].revision = mail.revision)
=============================================================================
