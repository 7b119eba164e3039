-------------------------- MODULE MailRuntimeProof --------------------------
(***************************************************************************)
(* Proofs about MailRuntime for any number of instances, versions and      *)
(* revisions.  Every step either leaves the mail row alone or waits for    *)
(* the row lock and advances the revision by one (RowStep); snapshots and  *)
(* probes are compared by revision, so most of the argument rests on that. *)
(***************************************************************************)
EXTENDS MailRuntime, TLAPS

(* Below the limit the circuit has not opened yet, so one more failure     *)
(* still fits the column.                                                  *)
CountBelowLimit == ~Open(mail) => mail.failures < FailureLimit

TypeInv == MailTypeOK /\ CountBelowLimit

-----------------------------------------------------------------------------
(* What the updates of the row return.                                     *)

(* CloseCircuit changes the four columns of the circuit and no other.      *)
LEMMA CloseCircuitRow ==
    ASSUME NEW m \in MailRow
    PROVE  /\ CloseCircuit(m) \in MailRow
           /\ CloseCircuit(m).revision = m.revision
           /\ CloseCircuit(m).mode = m.mode
           /\ CloseCircuit(m).active = m.active
           /\ CloseCircuit(m).failures = 0
           /\ ~Open(CloseCircuit(m))
<1> DEFINE m1 == [m EXCEPT !.category = "none"]
           m2 == [m1 EXCEPT !.failures = 0]
           m3 == [m2 EXCEPT !.window = NoTime]
           m4 == [m3 EXCEPT !.nextProbe = NoTime]
<1>1. CloseCircuit(m) = m4
  BY DEF CloseCircuit
<1>2. m1 \in MailRow
  BY DEF MailRow
<1> HIDE DEF m1
<1>3. m2 \in MailRow
  BY <1>2, MailConstants DEF MailRow
<1> HIDE DEF m2
<1>4. m3 \in MailRow
  BY <1>3 DEF MailRow
<1> HIDE DEF m3
<1>5. m4 \in MailRow
  BY <1>4 DEF MailRow
<1> HIDE DEF m4
<1>6. /\ CloseCircuit(m).revision = m.revision
      /\ CloseCircuit(m).mode = m.mode
      /\ CloseCircuit(m).active = m.active
      /\ CloseCircuit(m).failures = 0
      /\ ~Open(CloseCircuit(m))
  BY DEF CloseCircuit, MailRow, Open
<1>7. QED
  BY <1>1, <1>5, <1>6

(* Activation: mode, versions and revision, then the circuit.              *)
LEMMA ActivatedRow ==
    ASSUME NEW m \in MailRow, m.revision < MaxRevision
    PROVE  /\ ActivateRow(m) \in MailRow
           /\ ActivateRow(m).revision = m.revision + 1
           /\ ActivateRow(m).mode = "active"
           /\ ActivateRow(m).failures = 0
           /\ ~Open(ActivateRow(m))
<1> DEFINE previous == IF m.mode = "active" THEN m.active ELSE m.previous
           m1 == [m EXCEPT !.mode = "active"]
           m2 == [m1 EXCEPT !.active = m.candidate]
           m3 == [m2 EXCEPT !.candidate = NoVersion]
           m4 == [m3 EXCEPT !.previous = previous]
           m5 == [m4 EXCEPT !.revision = m.revision + 1]
<1>1. /\ m.revision + 1 \in 0 .. MaxRevision
      /\ m.candidate \in Versions \cup {NoVersion}
      /\ previous \in Versions \cup {NoVersion}
  BY MailConstants DEF MailRow
<1>2. ActivateRow(m) = CloseCircuit(m5)
  BY DEF ActivateRow
<1> HIDE DEF previous
<1>3. m1 \in MailRow /\ m1.mode = "active"
  BY DEF MailRow
<1> HIDE DEF m1
<1>4. m2 \in MailRow /\ m2.mode = "active"
  BY <1>1, <1>3 DEF MailRow
<1> HIDE DEF m2
<1>5. m3 \in MailRow /\ m3.mode = "active"
  BY <1>4 DEF MailRow
<1> HIDE DEF m3
<1>6. m4 \in MailRow /\ m4.mode = "active"
  BY <1>1, <1>5 DEF MailRow
<1> HIDE DEF m4
<1>7. m5 \in MailRow /\ m5.mode = "active" /\ m5.revision = m.revision + 1
  BY <1>1, <1>6 DEF MailRow
<1> HIDE DEF m5
<1>8. QED
  BY <1>2, <1>7, CloseCircuitRow

(* Rollback and disabling leave the candidate.                             *)
Replaced(m, mode, active, previous) ==
    CloseCircuit([m EXCEPT !.mode = mode, !.active = active, !.previous = previous,
                           !.revision = m.revision + 1])

LEMMA ReplacedRow ==
    ASSUME NEW m \in MailRow, m.revision < MaxRevision,
           NEW mode \in {"active", "disabled"},
           NEW active \in Versions \cup {NoVersion},
           NEW previous \in Versions \cup {NoVersion}
    PROVE  /\ Replaced(m, mode, active, previous) \in MailRow
           /\ Replaced(m, mode, active, previous).revision = m.revision + 1
           /\ Replaced(m, mode, active, previous).mode = mode
           /\ Replaced(m, mode, active, previous).failures = 0
           /\ ~Open(Replaced(m, mode, active, previous))
<1> DEFINE m1 == [m EXCEPT !.mode = mode]
           m2 == [m1 EXCEPT !.active = active]
           m3 == [m2 EXCEPT !.previous = previous]
           m4 == [m3 EXCEPT !.revision = m.revision + 1]
<1>1. m.revision + 1 \in 0 .. MaxRevision
  BY MailConstants DEF MailRow
<1>2. Replaced(m, mode, active, previous) = CloseCircuit(m4)
  BY DEF Replaced
<1>3. m1 \in MailRow /\ m1.mode = mode
  BY DEF MailRow
<1> HIDE DEF m1
<1>4. m2 \in MailRow /\ m2.mode = mode
  BY <1>3 DEF MailRow
<1> HIDE DEF m2
<1>5. m3 \in MailRow /\ m3.mode = mode
  BY <1>4 DEF MailRow
<1> HIDE DEF m3
<1>6. m4 \in MailRow /\ m4.mode = mode /\ m4.revision = m.revision + 1
  BY <1>1, <1>5 DEF MailRow
<1> HIDE DEF m4
<1>7. QED
  BY <1>2, <1>6, CloseCircuitRow

LEMMA RolledBackRow ==
    ASSUME NEW m \in MailRow, m.revision < MaxRevision
    PROVE  /\ RollbackRow(m) \in MailRow
           /\ RollbackRow(m).revision = m.revision + 1
           /\ RollbackRow(m).mode = "active"
           /\ RollbackRow(m).failures = 0
           /\ ~Open(RollbackRow(m))
<1> DEFINE previous == IF m.mode = "active" THEN m.active ELSE NoVersion
<1>1. m.previous \in Versions \cup {NoVersion} /\ previous \in Versions \cup {NoVersion}
  BY DEF MailRow
<1>2. RollbackRow(m) = Replaced(m, "active", m.previous, previous)
  BY DEF RollbackRow, Replaced
<1> HIDE DEF previous
<1>3. QED
  BY <1>1, <1>2, ReplacedRow

LEMMA DisabledRow ==
    ASSUME NEW m \in MailRow, m.revision < MaxRevision
    PROVE  /\ DisableRow(m) \in MailRow
           /\ DisableRow(m).revision = m.revision + 1
           /\ DisableRow(m).mode = "disabled"
           /\ DisableRow(m).failures = 0
           /\ ~Open(DisableRow(m))
<1> DEFINE previous == IF m.mode = "active" THEN m.active ELSE m.previous
<1>1. NoVersion \in Versions \cup {NoVersion} /\ previous \in Versions \cup {NoVersion}
  BY DEF MailRow
<1>2. DisableRow(m) = Replaced(m, "disabled", NoVersion, previous)
  BY DEF DisableRow, Replaced
<1> HIDE DEF previous
<1>3. QED
  BY <1>1, <1>2, ReplacedRow

(* Counting: the window and the number of failures, and the revision.      *)
Counted(m, start, count) ==
    [m EXCEPT !.window = start, !.failures = count, !.revision = m.revision + 1]

LEMMA CountedRow ==
    ASSUME NEW m \in MailRow, m.revision < MaxRevision,
           NEW start \in Time \cup {NoTime}, NEW count \in 0 .. FailureLimit,
           NEW r, r = Counted(m, start, count)
    PROVE  /\ r \in MailRow
           /\ r.revision = m.revision + 1 /\ r.failures = count
           /\ r.mode = m.mode /\ r.active = m.active /\ r.category = m.category
<1> DEFINE m1 == [m EXCEPT !.window = start]
           m2 == [m1 EXCEPT !.failures = count]
           m3 == [m2 EXCEPT !.revision = m.revision + 1]
<1>1. m.revision + 1 \in 0 .. MaxRevision
  BY MailConstants DEF MailRow
<1>2. r = m3
  BY DEF Counted
<1>3. /\ r.revision = m.revision + 1 /\ r.failures = count
      /\ r.mode = m.mode /\ r.active = m.active /\ r.category = m.category
  BY DEF MailRow, Counted
<1>4. m1 \in MailRow
  BY DEF MailRow
<1> HIDE DEF m1
<1>5. m2 \in MailRow
  BY <1>4 DEF MailRow
<1> HIDE DEF m2
<1>6. m3 \in MailRow
  BY <1>1, <1>5 DEF MailRow
<1>7. QED
  BY <1>2, <1>3, <1>6

LEMMA OpenedRow ==
    ASSUME NEW m \in MailRow, m.revision < MaxRevision, now \in Time,
           NEW category \in {"transport", "permanent"},
           NEW start \in Time \cup {NoTime}, NEW count \in 0 .. FailureLimit,
           NEW r, r = OpenCircuit(m, category, start, count)
    PROVE  /\ r \in MailRow
           /\ r.revision = m.revision + 1
           /\ r.mode = m.mode /\ r.active = m.active
           /\ Open(r)
<1> DEFINE m1 == [m EXCEPT !.category = category]
           m2 == [m1 EXCEPT !.window = start]
           m3 == [m2 EXCEPT !.failures = count]
           m4 == [m3 EXCEPT !.nextProbe = now + ProbeInterval]
           m5 == [m4 EXCEPT !.revision = m.revision + 1]
<1>1. m.revision + 1 \in 0 .. MaxRevision
  BY MailConstants DEF MailRow
<1>2. now + ProbeInterval \in 0 .. (MaxTime + ProbeInterval)
  BY MailConstants DEF Time
<1>3. r = m5
  BY DEF OpenCircuit
<1>4. /\ r.revision = m.revision + 1
      /\ r.mode = m.mode /\ r.active = m.active
      /\ Open(r)
  BY DEF OpenCircuit, MailRow, Open
<1>5. m1 \in MailRow
  BY DEF MailRow
<1> HIDE DEF m1
<1>6. m2 \in MailRow
  BY <1>5 DEF MailRow
<1> HIDE DEF m2
<1>7. m3 \in MailRow
  BY <1>6 DEF MailRow
<1> HIDE DEF m3
<1>8. m4 \in MailRow
  BY <1>2, <1>7 DEF MailRow
<1> HIDE DEF m4
<1>9. m5 \in MailRow
  BY <1>1, <1>8 DEF MailRow
<1>10. QED
  BY <1>3, <1>4, <1>9

(* A recorded transport failure keeps the row in its type and the count    *)
(* below the limit while the circuit stays closed.                         *)
LEMMA FailedRow ==
    ASSUME NEW m \in MailRow, m.revision < MaxRevision, now \in Time,
           ~Open(m), m.failures < FailureLimit,
           NEW r, r = TransportFailure(m)
    PROVE  /\ r \in MailRow
           /\ r.revision = m.revision + 1
           /\ SourceOf(r) = SourceOf(m)
           /\ ~Open(r) => r.failures < FailureLimit
<1> DEFINE start == IF WindowOver(m) THEN now ELSE m.window
           count == IF WindowOver(m) THEN 1 ELSE m.failures + 1
<1>1. start \in Time \cup {NoTime} /\ count \in 0 .. FailureLimit
  BY MailConstants DEF MailRow
<1>2. r = IF count >= FailureLimit
          THEN OpenCircuit(m, "transport", start, count)
          ELSE Counted(m, start, count)
  BY DEF TransportFailure, Counted
<1> HIDE DEF start, count
<1>3. CASE count >= FailureLimit
  BY <1>1, <1>2, <1>3, OpenedRow DEF SourceOf
<1>4. CASE ~(count >= FailureLimit)
  <2>1. r = Counted(m, start, count)
    BY <1>2, <1>4
  <2>2. /\ r \in MailRow
        /\ r.revision = m.revision + 1 /\ r.failures = count
        /\ r.mode = m.mode /\ r.active = m.active
    BY <1>1, <2>1, CountedRow
  <2>3. count < FailureLimit
    BY <1>1, <1>4, MailConstants
  <2>4. QED
    BY <2>2, <2>3 DEF SourceOf
<1>5. QED
  BY <1>3, <1>4

(* RecordDeliveryOutcome leaves the row or advances its revision, never    *)
(* changes the sender and never closes the circuit.                        *)
LEMMA OutcomeRow ==
    ASSUME NEW m \in MailRow, m.revision < MaxRevision, now \in Time,
           ~Open(m) => m.failures < FailureLimit,
           NEW source, NEW outcome \in Outcomes,
           NEW r, r = Outcome(m, source, outcome)
    PROVE  /\ r \in MailRow
           /\ r = m \/ (r.revision = m.revision + 1 /\ ~Open(m))
           /\ SourceOf(r) = SourceOf(m)
           /\ ~Open(r) => r.failures < FailureLimit
<1>1. \/ r = m
      \/ ~Open(m) /\ r = Counted(m, NoTime, 0)
      \/ ~Open(m) /\ r = OpenCircuit(m, "permanent", NoTime, 0)
      \/ ~Open(m) /\ r = TransportFailure(m)
  BY DEF Outcome, Outcomes, Counted
<1>2. CASE r = m
  BY <1>2
<1>3. CASE ~Open(m) /\ r = Counted(m, NoTime, 0)
  <2>1. NoTime \in Time \cup {NoTime} /\ 0 \in 0 .. FailureLimit /\ 0 < FailureLimit
    BY MailConstants
  <2>2. /\ r \in MailRow
        /\ r.revision = m.revision + 1 /\ r.failures = 0
        /\ r.mode = m.mode /\ r.active = m.active
    BY <1>3, <2>1, CountedRow
  <2>3. QED
    BY <1>3, <2>1, <2>2 DEF SourceOf
<1>4. CASE ~Open(m) /\ r = OpenCircuit(m, "permanent", NoTime, 0)
  <2>1. NoTime \in Time \cup {NoTime} /\ 0 \in 0 .. FailureLimit
    BY MailConstants
  <2>2. QED
    BY <1>4, <2>1, OpenedRow DEF SourceOf
<1>5. CASE ~Open(m) /\ r = TransportFailure(m)
  BY <1>5, FailedRow
<1>6. QED
  BY <1>1, <1>2, <1>3, <1>4, <1>5

(* The next probe is put off and the revision advanced, both when a probe  *)
(* is claimed and when it has failed.                                      *)
LEMMA PostponedRow ==
    ASSUME NEW m \in MailRow, m.revision < MaxRevision, now \in Time,
           NEW r, r = [m EXCEPT !.nextProbe = now + ProbeInterval,
                                !.revision = m.revision + 1]
    PROVE  /\ r \in MailRow
           /\ r.revision = m.revision + 1
           /\ SourceOf(r) = SourceOf(m)
           /\ Open(r) <=> Open(m)
<1> DEFINE m1 == [m EXCEPT !.nextProbe = now + ProbeInterval]
           m2 == [m1 EXCEPT !.revision = m.revision + 1]
<1>1. /\ m.revision + 1 \in 0 .. MaxRevision
      /\ now + ProbeInterval \in 0 .. (MaxTime + ProbeInterval)
  BY MailConstants DEF MailRow, Time
<1>2. /\ r.revision = m.revision + 1
      /\ SourceOf(r) = SourceOf(m)
      /\ Open(r) <=> Open(m)
  BY DEF MailRow, SourceOf, Open
<1>3. r = m2
  OBVIOUS
<1>4. m1 \in MailRow
  BY <1>1 DEF MailRow
<1> HIDE DEF m1
<1>5. m2 \in MailRow
  BY <1>1, <1>4 DEF MailRow
<1>6. QED
  BY <1>2, <1>3, <1>5

LEMMA ProbedRow ==
    ASSUME NEW m \in MailRow, m.revision < MaxRevision, now \in Time, Open(m),
           NEW success \in BOOLEAN, NEW r, r = ProbeRow(m, success)
    PROVE  /\ r \in MailRow
           /\ r.revision = m.revision + 1
           /\ SourceOf(r) = SourceOf(m)
           /\ ~Open(r) => r.failures < FailureLimit
<1>1. CASE success
  <2> DEFINE c == CloseCircuit(m)
             s == [c EXCEPT !.revision = m.revision + 1]
  <2>1. /\ c \in MailRow /\ c.failures = 0
        /\ c.mode = m.mode /\ c.active = m.active
    BY CloseCircuitRow
  <2>2. r = s
    BY <1>1 DEF ProbeRow
  <2> HIDE DEF c
  <2>3. m.revision + 1 \in 0 .. MaxRevision
    BY MailConstants DEF MailRow
  <2>4. s \in MailRow /\ s.revision = m.revision + 1 /\ s.failures = 0
    BY <2>1, <2>3 DEF MailRow
  <2>5. SourceOf(s) = SourceOf(m)
    BY <2>1 DEF MailRow, SourceOf
  <2>6. QED
    BY <2>2, <2>4, <2>5, MailConstants
<1>2. CASE ~success
  <2>1. r = [m EXCEPT !.nextProbe = now + ProbeInterval, !.revision = m.revision + 1]
    BY <1>2 DEF ProbeRow
  <2>2. QED
    BY <2>1, PostponedRow
<1>3. QED
  BY <1>1, <1>2

(* A saved candidate and a recorded test.                                  *)
Saved(m, v) == [m EXCEPT !.candidate = v, !.revision = m.revision + 1]
Advanced(m) == [m EXCEPT !.revision = m.revision + 1]

LEMMA CandidateRow ==
    ASSUME NEW m \in MailRow, m.revision < MaxRevision, NEW v \in Versions,
           NEW r, r = Saved(m, v) \/ r = Advanced(m)
    PROVE  /\ r \in MailRow
           /\ r.revision = m.revision + 1
           /\ r.failures = m.failures
           /\ SourceOf(r) = SourceOf(m)
           /\ Open(r) <=> Open(m)
<1> DEFINE m1 == [m EXCEPT !.candidate = v]
           m2 == [m1 EXCEPT !.revision = m.revision + 1]
           m3 == [m EXCEPT !.revision = m.revision + 1]
<1>1. m.revision + 1 \in 0 .. MaxRevision
  BY MailConstants DEF MailRow
<1>2. /\ r.revision = m.revision + 1
      /\ r.failures = m.failures
      /\ SourceOf(r) = SourceOf(m)
      /\ Open(r) <=> Open(m)
  BY DEF MailRow, SourceOf, Open, Saved, Advanced
<1>3. r = m2 \/ r = m3
  BY DEF Saved, Advanced
<1>4. m1 \in MailRow
  BY DEF MailRow
<1>5. m3 \in MailRow
  BY <1>1 DEF MailRow
<1> HIDE DEF m1
<1>6. m2 \in MailRow
  BY <1>1, <1>4 DEF MailRow
<1>7. QED
  BY <1>2, <1>3, <1>5, <1>6

(* What Load and Reload install is a snapshot of the row.                  *)
LEMMA EffectiveType ==
    ASSUME NEW i \in Instances, NEW m \in MailRow
    PROVE  EffectiveConfig(i, m) \in SenderSnapshot
<1>1. HasSender(i, m) \in BOOLEAN /\ Open(m) \in BOOLEAN
  BY DEF HasSender, Open
<1>2. SourceOf(m) \in Source /\ m.revision \in -1 .. MaxRevision
  BY MailConstants DEF MailRow, Source, SourceOf
<1>3. EffectiveConfig(i, m) \in SenderSnapshot
  BY <1>1, <1>2 DEF EffectiveConfig, SenderSnapshot
<1>4. QED
  BY <1>3

LEMMA InstallType ==
    ASSUME snap \in [Instances -> SenderSnapshot], NEW i \in Instances, NEW m \in MailRow
    PROVE  Install(i, m) \in [Instances -> SenderSnapshot]
BY EffectiveType DEF Install

-----------------------------------------------------------------------------
(* Every step leaves the row alone, or finds it locked by nobody and       *)
(* advances its revision by one.  Only a disable transaction disables.     *)
RowStep ==
    /\ mail' \in MailRow
    /\ CountBelowLimit'
    /\ mail'.mode = "disabled" =>
         mail.mode = "disabled" \/ \E j \in Instances : tx[j].kind = "disable"
    /\ mail' = mail \/ (MailRowFree /\ mail'.revision = mail.revision + 1)

LEMMA AdministerRow ==
    ASSUME TypeInv, NEW i \in Instances, Administer(i)
    PROVE  RowStep
<1> USE DEF TypeInv, MailTypeOK, CountBelowLimit, RowStep, LockState, SourceOf
<1>1. CASE CreateCandidate(i)
  <2>1. created + 1 \in Versions
    BY <1>1, MailConstants DEF CreateCandidate, Versions
  <2>2. mail' = Saved(mail, created + 1) /\ LockState
    BY <1>1 DEF CreateCandidate, Saved
  <2>3. /\ mail' \in MailRow /\ mail'.revision = mail.revision + 1
        /\ mail'.failures = mail.failures /\ (Open(mail') <=> Open(mail))
        /\ SourceOf(mail') = SourceOf(mail)
    BY <2>1, <2>2, CandidateRow
  <2>4. QED
    BY <2>2, <2>3
<1>2. CASE \E success \in BOOLEAN : RecordTest(i, success)
  <2>1. mail.candidate \in Versions
    BY <1>2 DEF RecordTest, MailRow
  <2>2. mail' = Advanced(mail) /\ LockState
    BY <1>2 DEF RecordTest, Advanced
  <2>3. QED
    BY <2>1, <2>2, CandidateRow
<1>3. CASE Activate(i)
  BY <1>3, ActivatedRow, MailConstants DEF Activate
<1>4. CASE Rollback(i)
  BY <1>4, RolledBackRow, MailConstants DEF Rollback
<1>5. CASE CommitDisable(i)
  BY <1>5, DisabledRow, MailConstants DEF CommitDisable
<1>6. CASE \/ BeginDisable(i)
           \/ \E mode \in PolicyModes : BeginSetRegistration(i, mode)
           \/ CommitSetRegistration(i)
  BY <1>6 DEF BeginDisable, BeginSetRegistration, CommitSetRegistration
<1>7. QED
  BY <1>1, <1>2, <1>3, <1>4, <1>5, <1>6 DEF Administer

LEMMA ServeRow ==
    ASSUME TypeInv, NEW i \in Instances, Serve(i)
    PROVE  RowStep
<1> USE DEF TypeInv, MailTypeOK, CountBelowLimit, RowStep, SourceOf
<1>1. CASE \E outcome \in Outcomes : Deliver(i, outcome)
  <2>1. PICK outcome \in Outcomes : Deliver(i, outcome)
    BY <1>1
  <2>2. LockState /\ mail' = Outcome(mail, sending[i], outcome)
    BY <2>1 DEF Deliver
  <2>3. /\ mail' \in MailRow
        /\ mail' = mail \/ mail'.revision = mail.revision + 1
        /\ ~Open(mail') => mail'.failures < FailureLimit
        /\ SourceOf(mail') = SourceOf(mail)
    BY <2>2, OutcomeRow DEF LockState
  <2>4. QED
    BY <2>2, <2>3 DEF LockState
<1>2. CASE ~\E outcome \in Outcomes : Deliver(i, outcome)
  <2>1. mail' = mail
    BY <1>2 DEF Serve, ReceiveRegistration, BeginRegistration, CommitRegistration,
                AbortTransaction, BeginClaim, CommitClaim, FinishBatch
  <2>2. QED
    BY <2>1
<1>3. QED
  BY <1>1, <1>2

LEMMA SynchronizeRow ==
    ASSUME TypeInv, NEW i \in Instances, Synchronize(i)
    PROVE  RowStep
<1> USE DEF TypeInv, MailTypeOK, CountBelowLimit, RowStep, LockState, SourceOf
<1>1. CASE ClaimProbe(i)
  BY <1>1, PostponedRow DEF ClaimProbe
<1>2. CASE \E success \in BOOLEAN : RecordProbeOutcome(i, success)
  <2>1. PICK success \in BOOLEAN : RecordProbeOutcome(i, success)
    BY <1>2
  <2>2. CASE ProbeAccepted(probe[i], mail)
    <3>1. LockState /\ Open(mail) /\ mail' = ProbeRow(mail, success)
      BY <2>1, <2>2 DEF RecordProbeOutcome, ProbeAccepted
    <3>2. QED
      BY <3>1, ProbedRow
  <2>3. CASE ~ProbeAccepted(probe[i], mail)
    BY <2>1, <2>3 DEF RecordProbeOutcome
  <2>4. QED
    BY <2>2, <2>3
<1>3. CASE LoadSender(i) \/ Restart(i)
  BY <1>3 DEF LoadSender, Restart
<1>4. QED
  BY <1>1, <1>2, <1>3 DEF Synchronize

LEMMA RowAdvances ==
    ASSUME TypeInv, [MailNext]_mailRuntimeVars
    PROVE  RowStep
<1>1. CASE Tick \/ UNCHANGED mailRuntimeVars
  BY <1>1 DEF Tick, mailRuntimeVars, TypeInv, MailTypeOK, CountBelowLimit, RowStep
<1>2. CASE \E i \in Instances : Administer(i) \/ Serve(i) \/ Synchronize(i)
  BY <1>2, AdministerRow, ServeRow, SynchronizeRow
<1>3. QED
  BY <1>1, <1>2 DEF MailNext

-----------------------------------------------------------------------------
(* Types of the rest of the state                                          *)

LEMMA ReloadType ==
    ASSUME TypeInv, NEW i \in Instances, NEW m \in MailRow, Reload(i, m)
    PROVE  snap' \in [Instances -> SenderSnapshot]
BY InstallType DEF TypeInv, MailTypeOK, Reload

LEMMA TransactionType ==
    ASSUME TypeInv, NEW i \in Instances,
           NEW kind \in {"none", "disable", "policy", "request", "register", "claim"},
           NEW mode \in PolicyModes, NEW gate \in Source
    PROVE  [tx EXCEPT ![i] = [kind |-> kind, mode |-> mode, gate |-> gate]]
             \in [Instances -> Transaction]
BY DEF TypeInv, MailTypeOK, Transaction

LEMMA NothingType == NoSource \in Source /\ NoTx \in Transaction /\ NoSenderSnapshot \in SenderSnapshot
                       /\ NoProbe \in Probe
<1>1. NoSource \in Source
  BY DEF NoSource, Source
<1>2. -1 \in -1 .. MaxRevision
  BY MailConstants
<1>3. QED
  BY <1>1, <1>2 DEF NoTx, Transaction, PolicyModes, NoSenderSnapshot, SenderSnapshot, NoProbe, Probe

LEMMA AdministerType ==
    ASSUME TypeInv, NEW i \in Instances, Administer(i)
    PROVE  MailTypeOK'
<1>0. mail' \in MailRow
  BY AdministerRow DEF RowStep
<1> USE <1>0 DEF TypeInv, MailTypeOK
<1>1. CASE CreateCandidate(i)
  BY <1>1, MailConstants DEF CreateCandidate
<1>2. CASE \E success \in BOOLEAN : RecordTest(i, success)
  <2>1. mail.candidate \in Versions
    BY <1>2 DEF RecordTest, MailRow
  <2>2. QED
    BY <1>2, <2>1 DEF RecordTest
<1>3. CASE Activate(i) \/ Rollback(i)
  <2>1. snap' \in [Instances -> SenderSnapshot]
    BY <1>3, ReloadType DEF Activate, Rollback
  <2>2. burst' \in Seq(Time)
    <3>1. burst' = <<>>
      BY <1>3 DEF Activate, Rollback
    <3>2. QED
      BY <3>1
  <2>3. QED
    BY <1>3, <2>1, <2>2 DEF Activate, Rollback
<1>4. CASE BeginDisable(i)
  <2>1. tx' \in [Instances -> Transaction]
    BY <1>4, NothingType, TransactionType DEF BeginDisable, PolicyModes
  <2>2. QED
    BY <1>4, <2>1 DEF BeginDisable
<1>5. CASE CommitDisable(i)
  <2>1. snap' \in [Instances -> SenderSnapshot]
    BY <1>5, ReloadType DEF CommitDisable
  <2>2. burst' \in Seq(Time) /\ tx' \in [Instances -> Transaction]
    BY <1>5, NothingType DEF CommitDisable
  <2>3. QED
    BY <1>5, <2>1, <2>2 DEF CommitDisable
<1>6. CASE \E mode \in PolicyModes : BeginSetRegistration(i, mode)
  <2>1. tx' \in [Instances -> Transaction]
    BY <1>6, NothingType, TransactionType DEF BeginSetRegistration
  <2>2. QED
    BY <1>6, <2>1 DEF BeginSetRegistration
<1>7. CASE CommitSetRegistration(i)
  <2>1. tx' \in [Instances -> Transaction]
    BY <1>7, NothingType DEF CommitSetRegistration
  <2>2. tx[i].mode \in PolicyModes /\ policy.revision + 1 \in 0 .. MaxPolicies
    BY <1>7, MailConstants DEF CommitSetRegistration, Transaction
  <2>3. policy' \in [mode : PolicyModes, revision : 0 .. MaxPolicies]
    BY <1>7, <2>2 DEF CommitSetRegistration
  <2>4. QED
    BY <1>7, <2>1, <2>3 DEF CommitSetRegistration
<1>8. QED
  BY <1>1, <1>2, <1>3, <1>4, <1>5, <1>6, <1>7 DEF Administer

LEMMA ServeType ==
    ASSUME TypeInv, NEW i \in Instances, Serve(i)
    PROVE  MailTypeOK'
<1>0. mail' \in MailRow
  BY ServeRow DEF RowStep
<1> USE <1>0 DEF TypeInv, MailTypeOK
<1>1. CASE \E mode \in OpenModes : ReceiveRegistration(i, mode)
  <2>1. PICK mode \in OpenModes : ReceiveRegistration(i, mode)
    BY <1>1
  <2>2. mode \in PolicyModes /\ snap[i].source \in Source
    BY DEF PolicyModes, SenderSnapshot
  <2>3. tx' \in [Instances -> Transaction]
    BY <2>1, <2>2, TransactionType DEF ReceiveRegistration
  <2>4. QED
    BY <2>1, <2>3 DEF ReceiveRegistration
<1>2. CASE BeginRegistration(i)
  <2>1. tx[i].mode \in PolicyModes /\ tx[i].gate \in Source
    BY DEF Transaction
  <2>2. tx' \in [Instances -> Transaction]
    BY <1>2, <2>1, TransactionType DEF BeginRegistration
  <2>3. QED
    BY <1>2, <2>2 DEF BeginRegistration
<1>3. CASE CommitRegistration(i)
  <2>1. tx' \in [Instances -> Transaction] /\ registered' \in 0 .. MaxRegistered
    BY <1>3, NothingType, MailConstants DEF CommitRegistration
  <2>2. QED
    BY <1>3, <2>1 DEF CommitRegistration
<1>4. CASE AbortTransaction(i)
  BY <1>4, NothingType DEF AbortTransaction
<1>5. CASE BeginClaim(i)
  <2>1. snap[i].source \in Source /\ "closed" \in PolicyModes
    BY DEF SenderSnapshot, PolicyModes
  <2>2. tx' \in [Instances -> Transaction]
    BY <1>5, <2>1, TransactionType DEF BeginClaim
  <2>3. snap' \in [Instances -> SenderSnapshot]
    BY <1>5, ReloadType DEF BeginClaim
  <2>4. QED
    BY <1>5, <2>2, <2>3 DEF BeginClaim
<1>6. CASE CommitClaim(i)
  <2>1. tx[i].gate \in Source
    BY DEF Transaction
  <2>2. tx' \in [Instances -> Transaction] /\ sending' \in [Instances -> Source]
    BY <1>6, <2>1, NothingType DEF CommitClaim
  <2>3. QED
    BY <1>6, <2>2 DEF CommitClaim
<1>7. CASE \E outcome \in Outcomes : Deliver(i, outcome)
  <2>1. PICK outcome \in Outcomes : Deliver(i, outcome)
    BY <1>7
  <2>2. snap' \in [Instances -> SenderSnapshot]
    BY <2>1, ReloadType DEF Deliver
  <2>3. mail'.revision \in 0 .. MaxRevision
    BY DEF MailRow
  <2>4. openedRev' \in 0 .. MaxRevision
    BY <2>1, <2>3 DEF Deliver
  <2>5. burst' \in Seq(Time)
    <3>1. burst' = NextBurst(outcome, mail')
      BY <2>1 DEF Deliver
    <3>2. Append(burst, now) \in Seq(Time)
      OBVIOUS
    <3>3. Len(burst) = FailureLimit => Append(Tail(burst), now) \in Seq(Time)
      BY MailConstants
    <3>4. <<>> \in Seq(Time)
      OBVIOUS
    <3>5. QED
      BY <3>1, <3>2, <3>3, <3>4 DEF NextBurst
  <2>6. QED
    BY <2>1, <2>2, <2>4, <2>5 DEF Deliver
<1>8. CASE FinishBatch(i)
  BY <1>8, NothingType DEF FinishBatch
<1>9. QED
  BY <1>1, <1>2, <1>3, <1>4, <1>5, <1>6, <1>7, <1>8 DEF Serve

LEMMA SynchronizeType ==
    ASSUME TypeInv, NEW i \in Instances, Synchronize(i)
    PROVE  MailTypeOK'
<1>0. mail' \in MailRow
  BY SynchronizeRow DEF RowStep
<1> USE <1>0 DEF TypeInv, MailTypeOK
<1>1. CASE LoadSender(i)
  BY <1>1, InstallType DEF LoadSender
<1>2. CASE ClaimProbe(i)
  <2>1. snap[i].source \in Source
    BY DEF SenderSnapshot
  <2>2. mail.revision + 1 \in -1 .. MaxRevision
    <3>1. mail.revision \in 0 .. MaxRevision /\ mail.revision < MaxRevision
      BY <1>2 DEF ClaimProbe, LockState, MailRow
    <3>2. QED
      BY <3>1, MailConstants
  <2>3. probe' \in [Instances -> Probe]
    BY <1>2, <2>1, <2>2 DEF ClaimProbe, Probe
  <2>4. QED
    BY <1>2, <2>3 DEF ClaimProbe
<1>3. CASE \E success \in BOOLEAN : RecordProbeOutcome(i, success)
  <2>1. PICK success \in BOOLEAN : RecordProbeOutcome(i, success)
    BY <1>3
  <2>2. snap' \in [Instances -> SenderSnapshot]
    BY <2>1, ReloadType DEF RecordProbeOutcome
  <2>3. probe' \in [Instances -> Probe] /\ burst' \in Seq(Time)
    BY <2>1, NothingType DEF RecordProbeOutcome
  <2>4. QED
    BY <2>1, <2>2, <2>3 DEF RecordProbeOutcome
<1>4. CASE Restart(i)
  BY <1>4, NothingType DEF Restart
<1>5. QED
  BY <1>1, <1>2, <1>3, <1>4 DEF Synchronize

LEMMA TypeInit ==
    ASSUME MailInit
    PROVE  TypeInv
<1>1. mail \in MailRow
  BY MailConstants DEF MailInit, MailRow, Versions, NoVersion, NoTime, Time
<1>2. tested \in [Versions -> Time \cup {NoTime}]
  BY MailConstants DEF MailInit, Time
<1>3. policy \in [mode : PolicyModes, revision : 0 .. MaxPolicies]
  BY MailConstants DEF MailInit, PolicyModes
<1>4. /\ snap \in [Instances -> SenderSnapshot] /\ sending \in [Instances -> Source]
      /\ probe \in [Instances -> Probe] /\ tx \in [Instances -> Transaction]
  <2>1. snap \in [Instances -> SenderSnapshot]
    BY <1>1, NothingType, EffectiveType DEF MailInit
  <2>2. QED
    BY <2>1, NothingType DEF MailInit
<1>5. /\ created \in 0 .. MaxMailVersion /\ registered \in 0 .. MaxRegistered
      /\ now \in Time /\ openedRev \in 0 .. MaxRevision
      /\ claimedAt \in Time \cup {NoTime} /\ burst \in Seq(Time)
  BY MailConstants DEF MailInit, Time
<1>6. CountBelowLimit
  BY MailConstants DEF MailInit, CountBelowLimit
<1>7. QED
  BY <1>1, <1>2, <1>3, <1>4, <1>5, <1>6 DEF TypeInv, MailTypeOK

LEMMA TypeStep ==
    ASSUME TypeInv, [MailNext]_mailRuntimeVars
    PROVE  TypeInv'
<1>1. CountBelowLimit'
  BY RowAdvances DEF RowStep
<1>2. MailTypeOK'
  <2>1. CASE Tick
    BY <2>1, MailConstants DEF Tick, TypeInv, MailTypeOK, Time
  <2>2. CASE UNCHANGED mailRuntimeVars
    BY <2>2 DEF mailRuntimeVars, TypeInv, MailTypeOK
  <2>3. CASE \E i \in Instances : Administer(i) \/ Serve(i) \/ Synchronize(i)
    BY <2>3, AdministerType, ServeType, SynchronizeType
  <2>4. QED
    BY <2>1, <2>2, <2>3 DEF MailNext
<1>3. QED
  BY <1>1, <1>2 DEF TypeInv

(* The state has its type in every reachable state; in particular the      *)
(* count of failures never exceeds the limit and the revision advances     *)
(* one at a time, whatever the instances do.                               *)
THEOREM MailTypeCorrect == MailSpec => []MailTypeOK
<1>1. MailInit => TypeInv
  BY TypeInit
<1>2. TypeInv /\ [MailNext]_mailRuntimeVars => TypeInv'
  BY TypeStep
<1>3. TypeInv => MailTypeOK
  BY DEF TypeInv
<1>4. QED
  BY <1>1, <1>2, <1>3, PTL DEF MailSpec

-----------------------------------------------------------------------------
(* Transactions.  A disable and a policy transaction exclude each other    *)
(* and every registration (the advisory lock); what a transaction has read *)
(* of the row and the policy stays true until it commits (FOR SHARE).      *)
TxExclusive ==
    \A i, j \in Instances :
        i # j /\ tx[i].kind \in {"disable", "policy"}
          => tx[j].kind \notin {"disable", "policy", "register"}
DisableSeesClosed == \A i \in Instances : tx[i].kind = "disable" => policy.mode = "closed"
PolicySeesMail ==
    \A i \in Instances : tx[i].kind = "policy" /\ tx[i].mode # "closed" => mail.mode # "disabled"
GateHeld ==
    \A i \in Instances : tx[i].kind \in {"register", "claim"} => RequireMailDeliveryGate(tx[i].gate)
RegisterSeesPolicy ==
    \A i \in Instances : tx[i].kind = "register" => policy.mode = tx[i].mode

TxInv ==
    /\ TxExclusive
    /\ DisableSeesClosed
    /\ PolicySeesMail
    /\ GateHeld
    /\ RegisterSeesPolicy
    /\ RegistrationNeedsMail

(* A step that begins no transaction and leaves the policy alone.          *)
LEMMA ReleaseKeepsTx ==
    ASSUME TypeInv, TxInv, RowStep, policy' = policy,
           \A j \in Instances : tx'[j] = tx[j] \/ tx'[j] = NoTx
    PROVE  TxInv'
<1> USE DEF TxInv, NoTx
<1>1. TxExclusive'
  BY DEF TxExclusive
<1>2. DisableSeesClosed'
  BY DEF DisableSeesClosed
<1>3. PolicySeesMail'
  BY DEF PolicySeesMail, RowStep, MailRowFree, MailRowShared
<1>4. GateHeld'
  BY DEF GateHeld, RequireMailDeliveryGate, RowStep, MailRowFree, MailRowShared
<1>5. RegisterSeesPolicy'
  BY DEF RegisterSeesPolicy
<1>6. RegistrationNeedsMail'
  BY DEF RegistrationNeedsMail, RowStep, DisableSeesClosed
<1>7. QED
  BY <1>1, <1>2, <1>3, <1>4, <1>5, <1>6

(* Instance i begins the transaction t; the lock it has to take and what   *)
(* it reads are the premises.                                              *)
LEMMA BeginKeepsTx ==
    ASSUME TypeInv, TxInv, NEW i \in Instances, NEW t \in Transaction,
           mail' = mail, policy' = policy, tx' = [tx EXCEPT ![i] = t],
           t.kind \in {"disable", "policy"} => LockRegistrationExclusive(i),
           t.kind = "register" => LockRegistrationShared(i) /\ policy.mode = t.mode,
           t.kind = "disable" => policy.mode = "closed",
           t.kind = "policy" /\ t.mode # "closed" => mail.mode # "disabled",
           t.kind \in {"register", "claim"} => RequireMailDeliveryGate(t.gate)
    PROVE  TxInv'
<1>1. tx'[i] = t /\ \A j \in Instances \ {i} : tx'[j] = tx[j]
  BY DEF TypeInv, MailTypeOK
<1> USE <1>1 DEF TxInv
<1>2. TxExclusive'
  BY DEF TxExclusive, LockRegistrationExclusive, LockRegistrationShared
<1>3. DisableSeesClosed'
  BY DEF DisableSeesClosed
<1>4. PolicySeesMail'
  BY DEF PolicySeesMail
<1>5. GateHeld'
  BY DEF GateHeld, RequireMailDeliveryGate
<1>6. RegisterSeesPolicy'
  BY DEF RegisterSeesPolicy
<1>7. RegistrationNeedsMail'
  BY DEF RegistrationNeedsMail
<1>8. QED
  BY <1>2, <1>3, <1>4, <1>5, <1>6, <1>7

(* The policy changes while its transaction excludes disabling and         *)
(* registering, and it has seen the mail row it still holds.               *)
LEMMA PolicyKeepsTx ==
    ASSUME TypeInv, TxInv, NEW i \in Instances, CommitSetRegistration(i)
    PROVE  TxInv'
<1>1. /\ tx[i].kind = "policy" /\ mail' = mail /\ policy'.mode = tx[i].mode
      /\ tx'[i] = NoTx /\ \A j \in Instances \ {i} : tx'[j] = tx[j]
  BY DEF CommitSetRegistration, TypeInv, MailTypeOK
<1> USE <1>1 DEF TxInv, NoTx
<1>2. TxExclusive'
  BY DEF TxExclusive
<1>3. DisableSeesClosed' /\ RegisterSeesPolicy'
  BY DEF TxExclusive, DisableSeesClosed, RegisterSeesPolicy
<1>4. PolicySeesMail'
  BY DEF PolicySeesMail
<1>5. GateHeld'
  BY DEF GateHeld, RequireMailDeliveryGate
<1>6. RegistrationNeedsMail'
  BY DEF RegistrationNeedsMail, PolicySeesMail
<1>7. QED
  BY <1>2, <1>3, <1>4, <1>5, <1>6

LEMMA TxStep ==
    ASSUME TypeInv, TxInv, [MailNext]_mailRuntimeVars
    PROVE  TxInv'
<1>0. RowStep
  BY RowAdvances
<1>1. CASE Tick \/ UNCHANGED mailRuntimeVars
  BY <1>0, <1>1, ReleaseKeepsTx DEF Tick, mailRuntimeVars
<1>2. ASSUME NEW i \in Instances, Administer(i)
      PROVE  TxInv'
  <2>1. CASE BeginDisable(i)
    <3> DEFINE t == [kind |-> "disable", mode |-> "closed", gate |-> NoSource]
    <3>1. t \in Transaction
      BY NothingType DEF Transaction, PolicyModes
    <3>2. /\ mail' = mail /\ policy' = policy /\ tx' = [tx EXCEPT ![i] = t]
          /\ LockRegistrationExclusive(i) /\ policy.mode = "closed"
      BY <2>1 DEF BeginDisable
    <3>3. t.kind = "disable"
      OBVIOUS
    <3> HIDE DEF t
    <3>4. QED
      BY <3>1, <3>2, <3>3, BeginKeepsTx
  <2>2. CASE \E mode \in PolicyModes : BeginSetRegistration(i, mode)
    <3>1. PICK mode \in PolicyModes : BeginSetRegistration(i, mode)
      BY <2>2
    <3> DEFINE t == [kind |-> "policy", mode |-> mode, gate |-> NoSource]
    <3>2. t \in Transaction /\ t.kind = "policy" /\ t.mode = mode
      BY NothingType DEF Transaction
    <3>3. /\ mail' = mail /\ policy' = policy /\ tx' = [tx EXCEPT ![i] = t]
          /\ LockRegistrationExclusive(i)
          /\ mode # "closed" => mail.mode # "disabled"
      BY <3>1 DEF BeginSetRegistration, MailConfigured
    <3> HIDE DEF t
    <3>4. QED
      BY <3>2, <3>3, BeginKeepsTx
  <2>3. CASE CommitSetRegistration(i)
    BY <2>3, PolicyKeepsTx
  <2>4. CASE CommitDisable(i)
    BY <1>0, <2>4, ReleaseKeepsTx DEF CommitDisable, TypeInv, MailTypeOK
  <2>5. CASE \/ CreateCandidate(i) \/ Activate(i) \/ Rollback(i)
             \/ \E success \in BOOLEAN : RecordTest(i, success)
    <3>1. tx' = tx /\ policy' = policy
      BY <2>5 DEF CreateCandidate, Activate, Rollback, RecordTest
    <3>2. QED
      BY <1>0, <3>1, ReleaseKeepsTx
  <2>6. QED
    BY <1>2, <2>1, <2>2, <2>3, <2>4, <2>5 DEF Administer
<1>3. ASSUME NEW i \in Instances, Serve(i)
      PROVE  TxInv'
  <2>1. CASE \E mode \in OpenModes : ReceiveRegistration(i, mode)
    <3>1. PICK mode \in OpenModes : ReceiveRegistration(i, mode)
      BY <2>1
    <3> DEFINE t == [kind |-> "request", mode |-> mode, gate |-> snap[i].source]
    <3>2. snap[i].source \in Source
      BY DEF TypeInv, MailTypeOK, SenderSnapshot
    <3>3. t \in Transaction /\ t.kind = "request"
      BY <3>2 DEF Transaction, PolicyModes
    <3>4. mail' = mail /\ policy' = policy /\ tx' = [tx EXCEPT ![i] = t]
      BY <3>1 DEF ReceiveRegistration
    <3> HIDE DEF t
    <3>5. QED
      BY <3>3, <3>4, BeginKeepsTx
  <2>2. CASE BeginRegistration(i)
    <3> DEFINE t == [kind |-> "register", mode |-> tx[i].mode, gate |-> tx[i].gate]
    <3>1. t \in Transaction /\ t.kind = "register" /\ t.mode = tx[i].mode /\ t.gate = tx[i].gate
      BY DEF TypeInv, MailTypeOK, Transaction
    <3>2. /\ mail' = mail /\ policy' = policy /\ tx' = [tx EXCEPT ![i] = t]
          /\ LockRegistrationShared(i) /\ policy.mode = tx[i].mode
          /\ RequireMailDeliveryGate(tx[i].gate)
      BY <2>2 DEF BeginRegistration
    <3> HIDE DEF t
    <3>3. QED
      BY <3>1, <3>2, BeginKeepsTx
  <2>3. CASE BeginClaim(i) /\ RequireMailDeliveryGate(snap[i].source)
    <3> DEFINE t == [kind |-> "claim", mode |-> "closed", gate |-> snap[i].source]
    <3>1. snap[i].source \in Source
      BY DEF TypeInv, MailTypeOK, SenderSnapshot
    <3>2. t \in Transaction /\ t.kind = "claim" /\ t.gate = snap[i].source
      BY <3>1 DEF Transaction, PolicyModes
    <3>3. mail' = mail /\ policy' = policy /\ tx' = [tx EXCEPT ![i] = t]
      BY <2>3 DEF BeginClaim
    <3> HIDE DEF t
    <3>4. QED
      BY <2>3, <3>2, <3>3, BeginKeepsTx
  <2>4. CASE BeginClaim(i) /\ ~RequireMailDeliveryGate(snap[i].source)
    BY <1>0, <2>4, ReleaseKeepsTx DEF BeginClaim
  <2>5. CASE CommitRegistration(i) \/ AbortTransaction(i) \/ CommitClaim(i)
    <3>1. policy' = policy /\ tx' = [tx EXCEPT ![i] = NoTx]
      BY <2>5 DEF CommitRegistration, AbortTransaction, CommitClaim
    <3>2. QED
      BY <1>0, <3>1, ReleaseKeepsTx DEF TypeInv, MailTypeOK
  <2>6. CASE FinishBatch(i) \/ \E outcome \in Outcomes : Deliver(i, outcome)
    <3>1. policy' = policy /\ tx' = tx
      BY <2>6 DEF FinishBatch, Deliver
    <3>2. QED
      BY <1>0, <3>1, ReleaseKeepsTx
  <2>7. QED
    BY <1>3, <2>1, <2>2, <2>3, <2>4, <2>5, <2>6 DEF Serve
<1>4. ASSUME NEW i \in Instances, Synchronize(i)
      PROVE  TxInv'
  <2>1. policy' = policy /\ (tx' = tx \/ tx' = [tx EXCEPT ![i] = NoTx])
    BY <1>4 DEF Synchronize, LoadSender, ClaimProbe, RecordProbeOutcome, Restart
  <2>2. QED
    BY <1>0, <2>1, ReleaseKeepsTx DEF TypeInv, MailTypeOK
<1>5. QED
  BY <1>1, <1>2, <1>3, <1>4 DEF MailNext

LEMMA TxInit ==
    ASSUME MailInit
    PROVE  TxInv
<1>1. (\A i \in Instances : tx[i].kind = "none") /\ policy.mode = "closed"
  BY DEF MailInit, NoTx
<1>2. QED
  BY <1>1 DEF TxInv, TxExclusive, DisableSeesClosed, PolicySeesMail, GateHeld,
              RegisterSeesPolicy, RegistrationNeedsMail

(* Self-registration is never left open while mail is disabled, whatever   *)
(* the instances' transactions and whoever changes the row in between.     *)
THEOREM RegistrationKeepsMail == MailSpec => []RegistrationNeedsMail
<1>1. MailInit => TypeInv /\ TxInv
  BY TypeInit, TxInit
<1>2. TypeInv /\ TxInv /\ [MailNext]_mailRuntimeVars => (TypeInv /\ TxInv)'
  BY TypeStep, TxStep
<1>3. TxInv => RegistrationNeedsMail
  BY DEF TxInv
<1>4. QED
  BY <1>1, <1>2, <1>3, PTL DEF MailSpec

(* Only the commit of a claim gives an instance a batch, and the gate it   *)
(* has checked is the sender of the batch.                                 *)
LEMMA BatchComesFromClaim ==
    ASSUME TypeInv, [MailNext]_mailRuntimeVars, NEW i \in Instances,
           sending[i] = NoSource, sending'[i] # NoSource
    PROVE  tx[i].kind = "claim" /\ sending'[i] = tx[i].gate
<1> USE DEF TypeInv, MailTypeOK
<1>1. CASE Tick \/ UNCHANGED mailRuntimeVars
  BY <1>1 DEF Tick, mailRuntimeVars
<1>2. ASSUME NEW j \in Instances, Administer(j)
      PROVE  FALSE
  BY <1>2 DEF Administer, CreateCandidate, RecordTest, Activate, Rollback, BeginDisable,
              CommitDisable, BeginSetRegistration, CommitSetRegistration
<1>3. ASSUME NEW j \in Instances, Serve(j)
      PROVE  tx[i].kind = "claim" /\ sending'[i] = tx[i].gate
  <2>1. CASE CommitClaim(j)
    BY <2>1 DEF CommitClaim
  <2>2. CASE FinishBatch(j)
    BY <2>2 DEF FinishBatch
  <2>3. CASE ~CommitClaim(j) /\ ~FinishBatch(j)
    <3>1. sending' = sending
      BY <1>3, <2>3 DEF Serve, ReceiveRegistration, BeginRegistration, CommitRegistration,
                        AbortTransaction, BeginClaim, Deliver
    <3>2. QED
      BY <3>1
  <2>4. QED
    BY <2>1, <2>2, <2>3
<1>4. ASSUME NEW j \in Instances, Synchronize(j)
      PROVE  FALSE
  BY <1>4 DEF Synchronize, LoadSender, ClaimProbe, RecordProbeOutcome, Restart
<1>5. QED
  BY <1>1, <1>2, <1>3, <1>4 DEF MailNext

(* However stale the snapshot a request or a claim started from, at the    *)
(* commit the stored policy and sender are the ones it was checked against *)
(* and the circuit is closed.                                              *)
THEOREM GateIsCurrent == MailSpec => GateHoldsAtCommit
<1> DEFINE Gate ==
      \A i \in Instances :
         /\ tx[i].kind = "register" /\ registered' # registered /\ tx'[i] = NoTx
              => policy.mode = tx[i].mode /\ ~Open(mail) /\ SourceOf(mail) = tx[i].gate
         /\ sending[i] = NoSource /\ sending'[i] # NoSource
              => ~Open(mail) /\ SourceOf(mail) = sending'[i]
<1>1. MailInit => TypeInv /\ TxInv
  BY TypeInit, TxInit
<1>2. TypeInv /\ TxInv /\ [MailNext]_mailRuntimeVars => (TypeInv /\ TxInv)'
  BY TypeStep, TxStep
<1>3. TypeInv /\ TxInv /\ [MailNext]_mailRuntimeVars => [Gate]_mailRuntimeVars
  <2> SUFFICES ASSUME TypeInv, TxInv, [MailNext]_mailRuntimeVars, NEW i \in Instances
               PROVE  /\ tx[i].kind = "register" =>
                           policy.mode = tx[i].mode /\ ~Open(mail) /\ SourceOf(mail) = tx[i].gate
                      /\ sending[i] = NoSource /\ sending'[i] # NoSource
                           => ~Open(mail) /\ SourceOf(mail) = sending'[i]
    OBVIOUS
  <2>1. tx[i].kind \in {"register", "claim"} => ~Open(mail) /\ SourceOf(mail) = tx[i].gate
    BY DEF TxInv, GateHeld, RequireMailDeliveryGate, SourceMatches
  <2>2. tx[i].kind = "register" => policy.mode = tx[i].mode
    BY DEF TxInv, RegisterSeesPolicy
  <2>3. QED
    BY <2>1, <2>2, BatchComesFromClaim
<1>4. QED
  BY <1>1, <1>2, <1>3, PTL DEF MailSpec, GateHoldsAtCommit

-----------------------------------------------------------------------------
(* Snapshots.  A snapshot is never newer than the row, so a change of the  *)
(* row, which advances the revision, leaves all of them behind.            *)
SnapshotNotNewer == \A i \in Instances : snap[i].revision <= mail.revision

SnapInv == SnapshotNotNewer /\ SnapshotIsFaithful

LEMMA InstallShape ==
    ASSUME TypeInv, NEW i \in Instances, NEW m,
           snap' = snap \/ snap' = Install(i, m), NEW j \in Instances
    PROVE  snap'[j] = snap[j] \/ snap'[j] = EffectiveConfig(j, m)
BY DEF TypeInv, MailTypeOK, Install

(* A step keeps a snapshot, forgets it, or takes it from the new row.      *)
LEMMA SnapshotSources ==
    ASSUME TypeInv, [MailNext]_mailRuntimeVars, NEW j \in Instances
    PROVE  snap'[j] = snap[j] \/ snap'[j] = NoSenderSnapshot \/ snap'[j] = EffectiveConfig(j, mail')
<1>1. CASE Tick \/ UNCHANGED mailRuntimeVars
  BY <1>1 DEF Tick, mailRuntimeVars
<1>2. ASSUME NEW i \in Instances, Administer(i)
      PROVE  snap' = snap \/ snap' = Install(i, mail')
  BY <1>2 DEF Administer, CreateCandidate, RecordTest, Activate, Rollback, BeginDisable,
              CommitDisable, BeginSetRegistration, CommitSetRegistration, Reload
<1>3. ASSUME NEW i \in Instances, Serve(i)
      PROVE  snap' = snap \/ snap' = Install(i, mail')
  BY <1>3 DEF Serve, ReceiveRegistration, BeginRegistration, CommitRegistration,
              AbortTransaction, BeginClaim, CommitClaim, Deliver, FinishBatch, Reload
<1>4. ASSUME NEW i \in Instances, Synchronize(i)
      PROVE  \/ snap' = snap \/ snap' = Install(i, mail')
             \/ snap' = [snap EXCEPT ![i] = NoSenderSnapshot]
  BY <1>4 DEF Synchronize, LoadSender, ClaimProbe, RecordProbeOutcome, Restart, Reload
<1>5. QED
  BY <1>1, <1>2, <1>3, <1>4, InstallShape DEF MailNext, TypeInv, MailTypeOK

LEMMA SnapStep ==
    ASSUME TypeInv, SnapInv, [MailNext]_mailRuntimeVars
    PROVE  SnapInv'
<1> SUFFICES ASSUME NEW j \in Instances
             PROVE  /\ snap'[j].revision <= mail'.revision
                    /\ snap'[j].revision = mail'.revision => snap'[j] = EffectiveConfig(j, mail')
  BY DEF SnapInv, SnapshotNotNewer, SnapshotIsFaithful, EffectiveConfig, HasSender
<1>1. mail'.revision \in 0 .. MaxRevision /\ mail.revision \in 0 .. MaxRevision
  BY RowAdvances DEF RowStep, TypeInv, MailTypeOK, MailRow
<1>2. snap[j].revision \in -1 .. MaxRevision
  BY DEF TypeInv, MailTypeOK, SenderSnapshot
<1>3. mail' = mail \/ mail'.revision = mail.revision + 1
  BY RowAdvances DEF RowStep
<1>4. CASE snap'[j] = snap[j]
  BY <1>1, <1>2, <1>3, <1>4, MailConstants DEF SnapInv, SnapshotNotNewer, SnapshotIsFaithful
<1>5. CASE snap'[j] = NoSenderSnapshot
  BY <1>1, <1>5, MailConstants DEF NoSenderSnapshot
<1>6. CASE snap'[j] = EffectiveConfig(j, mail')
  BY <1>1, <1>6, MailConstants DEF EffectiveConfig
<1>7. QED
  BY <1>4, <1>5, <1>6, SnapshotSources

LEMMA SnapInit ==
    ASSUME MailInit
    PROVE  SnapInv
<1>1. \A i \in Instances : snap[i] = NoSenderSnapshot \/ snap[i] = EffectiveConfig(i, mail)
  BY DEF MailInit
<1>2. mail.revision = 0
  BY DEF MailInit
<1>3. \A i \in Instances : EffectiveConfig(i, mail).revision = 0 /\ NoSenderSnapshot.revision = -1
  BY <1>2 DEF EffectiveConfig, NoSenderSnapshot
<1>4. QED
  BY <1>1, <1>2, <1>3 DEF SnapInv, SnapshotNotNewer, SnapshotIsFaithful

(* An instance whose snapshot has the stored revision holds the stored     *)
(* sender and circuit: comparing revisions is enough to find it stale.     *)
THEOREM RevisionIdentifiesRow == MailSpec => []SnapshotIsFaithful
<1>1. MailInit => TypeInv /\ SnapInv
  BY TypeInit, SnapInit
<1>2. TypeInv /\ SnapInv /\ [MailNext]_mailRuntimeVars => (TypeInv /\ SnapInv)'
  BY TypeStep, SnapStep
<1>3. SnapInv => SnapshotIsFaithful
  BY DEF SnapInv
<1>4. QED
  BY <1>1, <1>2, <1>3, PTL DEF MailSpec

-----------------------------------------------------------------------------
(* The constraints of the row, for the row m with c versions saved.  That  *)
(* no version is newer than the last saved one keeps a new candidate apart *)
(* from the others.                                                        *)
RowOK(m, c) ==
    /\ m.mode = "fallback" => m.active = NoVersion /\ m.previous = NoVersion
    /\ m.mode = "active" <=> m.active # NoVersion
    /\ m.active # NoVersion => m.active # m.candidate /\ m.active # m.previous
    /\ m.candidate # NoVersion => m.candidate # m.previous
    /\ m.failures = 0 <=> m.window = NoTime
    /\ Open(m) <=> m.nextProbe # NoTime
    /\ m.category = "transport" => m.failures >= FailureLimit
    /\ m.category = "permanent" => m.failures = 0
    /\ m.active <= c /\ m.candidate <= c /\ m.previous <= c

RowInv == RowOK(mail, created)

LEMMA RowInvConstraints ==
    ASSUME TypeInv, RowInv
    PROVE  RowConstraints
<1>1. \A f, g \in {"active", "candidate", "previous"} :
        f # g /\ mail[f] # NoVersion => mail[f] # mail[g]
  BY DEF RowInv, RowOK
<1>2. QED
  BY <1>1 DEF RowInv, RowOK, RowConstraints

(* The circuit of m is closed and its counters are reset.                  *)
CircuitReset(m) ==
    m.failures = 0 /\ m.window = NoTime /\ m.category = "none" /\ m.nextProbe = NoTime

(* The versions after activation, rollback and disabling.                  *)
LEMMA VersionFields ==
    ASSUME NEW m \in MailRow
    PROVE  /\ CircuitReset(ActivateRow(m))
           /\ ActivateRow(m).mode = "active" /\ ActivateRow(m).active = m.candidate
           /\ ActivateRow(m).candidate = NoVersion
           /\ ActivateRow(m).previous = IF m.mode = "active" THEN m.active ELSE m.previous
           /\ CircuitReset(RollbackRow(m))
           /\ RollbackRow(m).mode = "active" /\ RollbackRow(m).active = m.previous
           /\ RollbackRow(m).candidate = m.candidate
           /\ RollbackRow(m).previous = IF m.mode = "active" THEN m.active ELSE NoVersion
           /\ CircuitReset(DisableRow(m))
           /\ DisableRow(m).mode = "disabled" /\ DisableRow(m).active = NoVersion
           /\ DisableRow(m).candidate = m.candidate
           /\ DisableRow(m).previous = IF m.mode = "active" THEN m.active ELSE m.previous
<1> USE DEF CircuitReset, CloseCircuit, MailRow
<1>1. /\ CircuitReset(ActivateRow(m))
      /\ ActivateRow(m).mode = "active" /\ ActivateRow(m).active = m.candidate
      /\ ActivateRow(m).candidate = NoVersion
      /\ ActivateRow(m).previous = IF m.mode = "active" THEN m.active ELSE m.previous
  BY DEF ActivateRow
<1>2. /\ CircuitReset(RollbackRow(m))
      /\ RollbackRow(m).mode = "active" /\ RollbackRow(m).active = m.previous
      /\ RollbackRow(m).candidate = m.candidate
      /\ RollbackRow(m).previous = IF m.mode = "active" THEN m.active ELSE NoVersion
  BY DEF RollbackRow
<1>3. /\ CircuitReset(DisableRow(m))
      /\ DisableRow(m).mode = "disabled" /\ DisableRow(m).active = NoVersion
      /\ DisableRow(m).candidate = m.candidate
      /\ DisableRow(m).previous = IF m.mode = "active" THEN m.active ELSE m.previous
  BY DEF DisableRow
<1>4. QED
  BY <1>1, <1>2, <1>3

(* Counting and opening leave the versions alone.                          *)
LEMMA CircuitRowOK ==
    ASSUME NEW m \in MailRow, NEW c \in Nat, RowOK(m, c), NEW r,
           r.mode = m.mode, r.active = m.active, r.candidate = m.candidate,
           r.previous = m.previous,
           r.failures = 0 <=> r.window = NoTime,
           Open(r) <=> r.nextProbe # NoTime,
           r.category = "transport" => r.failures >= FailureLimit,
           r.category = "permanent" => r.failures = 0
    PROVE  RowOK(r, c)
BY DEF RowOK

LEMMA OutcomeRowOK ==
    ASSUME NEW m \in MailRow, NEW c \in Nat, RowOK(m, c), now \in Time,
           NEW source, NEW outcome \in Outcomes
    PROVE  RowOK(Outcome(m, source, outcome), c)
<1> DEFINE start == IF WindowOver(m) THEN now ELSE m.window
           count == IF WindowOver(m) THEN 1 ELSE m.failures + 1
           r == Outcome(m, source, outcome)
<1>0. now + ProbeInterval # NoTime
  BY MailConstants DEF Time, NoTime
<1>1. start # NoTime /\ count # 0
  BY MailConstants DEF WindowOver, MailRow, Time, NoTime
<1>2. \/ r = m
      \/ ~Open(m) /\ r = Counted(m, NoTime, 0)
      \/ ~Open(m) /\ r = OpenCircuit(m, "permanent", NoTime, 0)
      \/ count >= FailureLimit /\ r = OpenCircuit(m, "transport", start, count)
      \/ ~Open(m) /\ r = Counted(m, start, count)
  BY DEF Outcome, Outcomes, Counted, TransportFailure
<1> HIDE DEF r, start, count
<1>3. CASE r = m
  BY <1>3 DEF r
<1>4. CASE ~Open(m) /\ (r = Counted(m, NoTime, 0) \/ r = Counted(m, start, count))
  <2>1. /\ r.mode = m.mode /\ r.active = m.active /\ r.candidate = m.candidate
        /\ r.previous = m.previous /\ (r.failures = 0 <=> r.window = NoTime)
        /\ r.category = m.category /\ r.nextProbe = m.nextProbe
    BY <1>1, <1>4 DEF Counted, MailRow
  <2>2. Open(r) <=> r.nextProbe # NoTime
    BY <2>1 DEF RowOK, Open
  <2>3. r.category = "none"
    BY <1>4, <2>1 DEF Open
  <2>4. RowOK(r, c)
    BY <2>1, <2>2, <2>3, CircuitRowOK
  <2>5. QED
    BY <2>4 DEF r
<1>5. CASE \/ r = OpenCircuit(m, "permanent", NoTime, 0)
           \/ count >= FailureLimit /\ r = OpenCircuit(m, "transport", start, count)
  <2>1. /\ r.mode = m.mode /\ r.active = m.active /\ r.candidate = m.candidate
        /\ r.previous = m.previous /\ (r.failures = 0 <=> r.window = NoTime)
        /\ Open(r) /\ r.nextProbe # NoTime
        /\ \/ r.category = "permanent" /\ r.failures = 0
           \/ r.category = "transport" /\ r.failures >= FailureLimit
    BY <1>0, <1>1, <1>5 DEF OpenCircuit, MailRow, Open
  <2>2. RowOK(r, c)
    BY <2>1, CircuitRowOK
  <2>3. QED
    BY <2>2 DEF r
<1>6. QED
  BY <1>2, <1>3, <1>4, <1>5

LEMMA ConstraintStep ==
    ASSUME TypeInv, RowInv, [MailNext]_mailRuntimeVars
    PROVE  RowInv'
<1>0. /\ mail \in MailRow /\ created \in Nat /\ now \in Time
      /\ mail.active \in Nat /\ mail.candidate \in Nat /\ mail.previous \in Nat
  BY MailConstants DEF TypeInv, MailTypeOK, MailRow, Versions, NoVersion
<1>1. CASE mail' = mail /\ created' = created
  BY <1>1 DEF RowInv, RowOK, Open
<1>2. ASSUME NEW i \in Instances, CreateCandidate(i)
      PROVE  RowInv'
  <2>1. /\ mail'.mode = mail.mode /\ mail'.active = mail.active
        /\ mail'.candidate = created + 1 /\ mail'.previous = mail.previous
        /\ mail'.failures = mail.failures /\ mail'.window = mail.window
        /\ mail'.category = mail.category /\ mail'.nextProbe = mail.nextProbe
        /\ created' = created + 1
    BY <1>0, <1>2 DEF CreateCandidate, MailRow
  <2>2. QED
    BY <1>0, <2>1 DEF RowInv, RowOK, Open, NoVersion
<1>3. ASSUME NEW i \in Instances, NEW success \in BOOLEAN, RecordTest(i, success)
      PROVE  RowInv'
  <2>1. /\ mail'.mode = mail.mode /\ mail'.active = mail.active
        /\ mail'.candidate = mail.candidate /\ mail'.previous = mail.previous
        /\ mail'.failures = mail.failures /\ mail'.window = mail.window
        /\ mail'.category = mail.category /\ mail'.nextProbe = mail.nextProbe
        /\ created' = created
    BY <1>0, <1>3 DEF RecordTest, MailRow
  <2>2. QED
    BY <1>0, <2>1 DEF RowInv, RowOK, Open
<1>4. ASSUME NEW i \in Instances, Activate(i)
      PROVE  RowInv'
  <2>1. mail' = ActivateRow(mail) /\ created' = created /\ mail.candidate # NoVersion
    BY <1>4 DEF Activate
  <2>2. QED
    BY <1>0, <2>1, VersionFields DEF RowInv, RowOK, CircuitReset, Open, NoVersion
<1>5. ASSUME NEW i \in Instances, Rollback(i)
      PROVE  RowInv'
  <2>1. /\ mail' = RollbackRow(mail) /\ created' = created /\ mail.previous # NoVersion
        /\ mail.mode \in {"active", "disabled"}
    BY <1>5 DEF Rollback
  <2>2. QED
    BY <1>0, <2>1, VersionFields DEF RowInv, RowOK, CircuitReset, Open, NoVersion
<1>6. ASSUME NEW i \in Instances, CommitDisable(i)
      PROVE  RowInv'
  <2>1. mail' = DisableRow(mail) /\ created' = created /\ mail.mode # "disabled"
    BY <1>6 DEF CommitDisable
  <2>2. QED
    BY <1>0, <2>1, VersionFields DEF RowInv, RowOK, CircuitReset, Open, NoVersion
<1>7. ASSUME NEW i \in Instances, NEW outcome \in Outcomes, Deliver(i, outcome)
      PROVE  RowInv'
  <2>1. mail' = Outcome(mail, sending[i], outcome) /\ created' = created
    BY <1>7 DEF Deliver
  <2>2. QED
    BY <1>0, <2>1, OutcomeRowOK DEF RowInv
<1>8. ASSUME NEW i \in Instances, ClaimProbe(i)
      PROVE  RowInv'
  <2>1. /\ mail'.mode = mail.mode /\ mail'.active = mail.active
        /\ mail'.candidate = mail.candidate /\ mail'.previous = mail.previous
        /\ mail'.failures = mail.failures /\ mail'.window = mail.window
        /\ mail'.category = mail.category /\ mail'.nextProbe = now + ProbeInterval
        /\ created' = created /\ Open(mail)
    BY <1>0, <1>8 DEF ClaimProbe, MailRow
  <2>2. mail'.nextProbe # NoTime
    BY <1>0, <2>1, MailConstants DEF Time, NoTime
  <2>3. QED
    BY <1>0, <2>1, <2>2 DEF RowInv, RowOK, Open
<1>9. ASSUME NEW i \in Instances, NEW success \in BOOLEAN, RecordProbeOutcome(i, success)
      PROVE  RowInv'
  <2>1. CASE ProbeAccepted(probe[i], mail)
    <3>1. mail' = ProbeRow(mail, success) /\ created' = created /\ Open(mail)
      BY <1>9, <2>1 DEF RecordProbeOutcome, ProbeAccepted
    <3>2. /\ mail'.mode = mail.mode /\ mail'.active = mail.active
          /\ mail'.candidate = mail.candidate /\ mail'.previous = mail.previous
          /\ \/ CircuitReset(mail')
             \/ /\ mail'.failures = mail.failures /\ mail'.window = mail.window
                /\ mail'.category = mail.category /\ mail'.nextProbe = now + ProbeInterval
      BY <1>0, <3>1 DEF ProbeRow, CloseCircuit, CircuitReset, MailRow
    <3>3. now + ProbeInterval # NoTime
      BY <1>0, MailConstants DEF Time, NoTime
    <3>4. QED
      BY <1>0, <3>1, <3>2, <3>3 DEF RowInv, RowOK, Open, CircuitReset
  <2>2. CASE ~ProbeAccepted(probe[i], mail)
    BY <1>1, <1>9, <2>2 DEF RecordProbeOutcome
  <2>3. QED
    BY <2>1, <2>2
<1>10. ASSUME NEW i \in Instances, Administer(i) \/ Serve(i) \/ Synchronize(i)
       PROVE  RowInv'
  <2>1. CASE Administer(i)
    BY <1>1, <1>2, <1>3, <1>4, <1>5, <1>6, <2>1
       DEF Administer, BeginDisable, BeginSetRegistration, CommitSetRegistration
  <2>2. CASE Serve(i)
    BY <1>1, <1>7, <2>2
       DEF Serve, ReceiveRegistration, BeginRegistration, CommitRegistration,
           AbortTransaction, BeginClaim, CommitClaim, FinishBatch
  <2>3. CASE Synchronize(i)
    BY <1>1, <1>8, <1>9, <2>3 DEF Synchronize, LoadSender, Restart
  <2>4. QED
    BY <1>10, <2>1, <2>2, <2>3
<1>11. QED
  BY <1>1, <1>10 DEF MailNext, Tick, mailRuntimeVars

LEMMA ConstraintInit ==
    ASSUME MailInit
    PROVE  RowInv
BY MailConstants DEF MailInit, RowInv, RowOK, Open, NoVersion

(* No operation, on whatever row the others have left, produces a row that *)
(* the table's constraints refuse.                                         *)
THEOREM RowIsConsistent == MailSpec => []RowConstraints
<1>1. MailInit => TypeInv /\ RowInv
  BY TypeInit, ConstraintInit
<1>2. TypeInv /\ RowInv /\ [MailNext]_mailRuntimeVars => (TypeInv /\ RowInv)'
  BY TypeStep, ConstraintStep
<1>3. TypeInv /\ RowInv => RowConstraints
  BY RowInvConstraints
<1>4. QED
  BY <1>1, <1>2, <1>3, PTL DEF MailSpec

-----------------------------------------------------------------------------
(* Recovery.  A probe whose revision is still the stored one was claimed   *)
(* after the circuit had opened; the next probe is due no earlier than     *)
(* ProbeInterval after the last claim.                                     *)
OpeningIsPast == openedRev <= mail.revision
ProbeIsPast == \A i \in Instances : probe[i].revision <= mail.revision
CurrentProbeIsFresh ==
    \A i \in Instances :
        probe[i] # NoProbe /\ probe[i].revision = mail.revision => openedRev < mail.revision

RecoveryInv == OpeningIsPast /\ ProbeIsPast /\ CurrentProbeIsFresh

(* What a step does to the history of the circuit and to the probes.       *)
LEMMA RecoverySources ==
    ASSUME TypeInv, [MailNext]_mailRuntimeVars
    PROVE  /\ \/ openedRev' = openedRev
              \/ openedRev' = mail'.revision /\ mail' # mail /\ probe' = probe
           /\ \A j \in Instances :
                \/ probe'[j] = probe[j]
                \/ probe'[j] = NoProbe
                \/ /\ probe'[j].revision = mail'.revision /\ mail' # mail
                   /\ openedRev' = openedRev
<1> USE DEF TypeInv, MailTypeOK
<1>1. CASE Tick \/ UNCHANGED mailRuntimeVars
  BY <1>1 DEF Tick, mailRuntimeVars
<1>2. ASSUME NEW i \in Instances, Administer(i)
      PROVE  openedRev' = openedRev /\ probe' = probe
  BY <1>2 DEF Administer, CreateCandidate, RecordTest, Activate, Rollback, BeginDisable,
              CommitDisable, BeginSetRegistration, CommitSetRegistration
<1>3. ASSUME NEW i \in Instances, Serve(i)
      PROVE  /\ probe' = probe
             /\ openedRev' = openedRev \/ (openedRev' = mail'.revision /\ mail' # mail)
  BY <1>3 DEF Serve, ReceiveRegistration, BeginRegistration, CommitRegistration,
              AbortTransaction, BeginClaim, CommitClaim, Deliver, FinishBatch
<1>4. ASSUME NEW i \in Instances, Synchronize(i)
      PROVE  /\ openedRev' = openedRev
             /\ \A j \in Instances :
                  \/ probe'[j] = probe[j]
                  \/ probe'[j] = NoProbe
                  \/ probe'[j].revision = mail'.revision /\ mail' # mail
  <2>1. CASE ClaimProbe(i)
    <3>1. mail.revision \in Nat
      BY MailConstants DEF MailRow
    <3>2. mail'.revision = mail.revision + 1
      BY <2>1, PostponedRow DEF ClaimProbe, LockState
    <3>3. mail' # mail
      BY <3>1, <3>2
    <3>4. openedRev' = openedRev /\ \A j \in Instances \ {i} : probe'[j] = probe[j]
      BY <2>1 DEF ClaimProbe
    <3>5. probe'[i].revision = mail.revision + 1
      BY <2>1 DEF ClaimProbe
    <3>6. QED
      BY <3>2, <3>3, <3>4, <3>5
  <2>2. CASE LoadSender(i) \/ Restart(i) \/ \E success \in BOOLEAN : RecordProbeOutcome(i, success)
    BY <2>2 DEF LoadSender, Restart, RecordProbeOutcome
  <2>3. QED
    BY <1>4, <2>1, <2>2 DEF Synchronize
<1>5. QED
  BY <1>1, <1>2, <1>3, <1>4 DEF MailNext

LEMMA RecoveryStep ==
    ASSUME TypeInv, RecoveryInv, [MailNext]_mailRuntimeVars
    PROVE  RecoveryInv'
<1>1. mail.revision \in Nat /\ mail'.revision \in Nat /\ openedRev \in Nat
  BY RowAdvances, MailConstants DEF RowStep, TypeInv, MailTypeOK, MailRow
<1>2. mail' = mail \/ mail'.revision = mail.revision + 1
  BY RowAdvances DEF RowStep
<1>3. \A j \in Instances : probe[j].revision \in Int
  BY MailConstants DEF TypeInv, MailTypeOK, Probe
<1>4. NoProbe.revision = -1
  BY DEF NoProbe
<1>5. OpeningIsPast'
  BY <1>1, <1>2, RecoverySources DEF RecoveryInv, OpeningIsPast
<1>6. ProbeIsPast'
  <2> SUFFICES ASSUME NEW j \in Instances
               PROVE  probe'[j].revision <= mail'.revision
    BY DEF ProbeIsPast
  <2>1. \/ probe'[j] = probe[j] \/ probe'[j] = NoProbe
        \/ probe'[j].revision = mail'.revision
    BY RecoverySources
  <2>2. QED
    BY <1>1, <1>2, <1>3, <1>4, <2>1 DEF RecoveryInv, ProbeIsPast
<1>7. CurrentProbeIsFresh'
  <2> SUFFICES ASSUME NEW j \in Instances, probe'[j] # NoProbe,
                      probe'[j].revision = mail'.revision
               PROVE  openedRev' < mail'.revision
    BY DEF CurrentProbeIsFresh
  <2>1. CASE probe'[j] = probe[j]
    <3>1. mail' = mail
      BY <1>1, <1>2, <1>3, <2>1 DEF RecoveryInv, ProbeIsPast
    <3>2. openedRev' = openedRev
      BY <3>1, RecoverySources
    <3>3. QED
      BY <2>1, <3>1, <3>2 DEF RecoveryInv, CurrentProbeIsFresh
  <2>2. CASE probe'[j] # probe[j]
    <3>1. mail' # mail /\ openedRev' = openedRev
      BY <2>2, RecoverySources
    <3>2. QED
      BY <1>1, <1>2, <3>1 DEF RecoveryInv, OpeningIsPast
  <2>3. QED
    BY <2>1, <2>2
<1>8. QED
  BY <1>5, <1>6, <1>7 DEF RecoveryInv

LEMMA RecoveryInit ==
    ASSUME MailInit
    PROVE  RecoveryInv
BY DEF MailInit, RecoveryInv, OpeningIsPast, ProbeIsPast, CurrentProbeIsFresh, NoProbe

(* An open circuit of an unchanged sender is closed by an accepted probe.  *)
LEMMA OnlyProbesClose ==
    ASSUME TypeInv, RowInv, [MailNext]_mailRuntimeVars,
           Open(mail), ~Open(mail'), SourceOf(mail') = SourceOf(mail)
    PROVE  \E i \in Instances :
              probe[i] # NoProbe /\ probe'[i] = NoProbe /\ probe[i].revision = mail.revision
<1> USE DEF TypeInv, MailTypeOK
<1>1. CASE Tick \/ UNCHANGED mailRuntimeVars
  BY <1>1 DEF Tick, mailRuntimeVars
<1>2. ASSUME NEW i \in Instances, Administer(i)
      PROVE  FALSE
  <2>0. mail.mode = mail'.mode /\ mail.active = mail'.active
    BY DEF SourceOf
  <2>1. CASE CreateCandidate(i) \/ \E success \in BOOLEAN : RecordTest(i, success)
    BY <2>1 DEF CreateCandidate, RecordTest, Open, MailRow
  <2>2. CASE Activate(i)
    BY <2>0, <2>2, VersionFields DEF Activate, RowInv, RowOK
  <2>3. CASE Rollback(i)
    BY <2>0, <2>3, VersionFields DEF Rollback, RowInv, RowOK
  <2>4. CASE CommitDisable(i)
    BY <2>0, <2>4, VersionFields DEF CommitDisable
  <2>5. QED
    BY <1>2, <2>1, <2>2, <2>3, <2>4
       DEF Administer, BeginDisable, BeginSetRegistration, CommitSetRegistration
<1>3. ASSUME NEW i \in Instances, Serve(i)
      PROVE  FALSE
  <2>1. CASE \E outcome \in Outcomes : Deliver(i, outcome)
    <3>1. mail' = mail
      BY <2>1 DEF Deliver, Outcome
    <3>2. QED
      BY <3>1
  <2>2. QED
    BY <1>3, <2>1 DEF Serve, ReceiveRegistration, BeginRegistration, CommitRegistration,
                      AbortTransaction, BeginClaim, CommitClaim, FinishBatch
<1>4. ASSUME NEW i \in Instances, Synchronize(i)
      PROVE  probe[i] # NoProbe /\ probe'[i] = NoProbe /\ probe[i].revision = mail.revision
  <2>1. CASE \E success \in BOOLEAN : RecordProbeOutcome(i, success)
    BY <2>1 DEF RecordProbeOutcome, ProbeAccepted
  <2>2. CASE ClaimProbe(i)
    BY <2>2, PostponedRow DEF ClaimProbe, LockState
  <2>3. QED
    BY <1>4, <2>1, <2>2 DEF Synchronize, LoadSender, Restart
<1>5. QED
  BY <1>1, <1>2, <1>3, <1>4 DEF MailNext

(* A probe from before the circuit opened cannot close it, however late    *)
(* its result arrives and however often the circuit has opened since.      *)
THEOREM ProbesCloseFresh == MailSpec => RecoveryIsFresh
<1> DEFINE Inv == TypeInv /\ RowInv /\ RecoveryInv
           Fresh == Open(mail) /\ ~Open(mail') /\ SourceOf(mail') = SourceOf(mail)
                      => \E i \in Instances :
                            probe[i] # NoProbe /\ probe'[i] = NoProbe
                              /\ probe[i].revision > openedRev
<1>1. MailInit => Inv
  BY TypeInit, ConstraintInit, RecoveryInit
<1>2. Inv /\ [MailNext]_mailRuntimeVars => Inv'
  BY TypeStep, ConstraintStep, RecoveryStep
<1>3. Inv /\ [MailNext]_mailRuntimeVars => [Fresh]_mailRuntimeVars
  <2> SUFFICES ASSUME Inv, [MailNext]_mailRuntimeVars, Open(mail), ~Open(mail'), SourceOf(mail') = SourceOf(mail)
               PROVE  \E i \in Instances :
                         probe[i] # NoProbe /\ probe'[i] = NoProbe /\ probe[i].revision > openedRev
    OBVIOUS
  <2>1. PICK i \in Instances :
          probe[i] # NoProbe /\ probe'[i] = NoProbe /\ probe[i].revision = mail.revision
    BY OnlyProbesClose
  <2>2. openedRev < mail.revision /\ openedRev \in Int /\ mail.revision \in Int
    BY <2>1, MailConstants DEF RecoveryInv, CurrentProbeIsFresh, TypeInv, MailTypeOK, MailRow
  <2>3. QED
    BY <2>1, <2>2
<1> HIDE DEF Inv
<1>4. QED
  BY <1>1, <1>2, <1>3, PTL DEF MailSpec, RecoveryIsFresh

-----------------------------------------------------------------------------
(* Spacing of probes                                                       *)
SpacingInv ==
    claimedAt # NoTime =>
        /\ claimedAt <= now
        /\ mail.nextProbe # NoTime => mail.nextProbe >= claimedAt + ProbeInterval

(* The time of the next probe is kept, cleared, or set from the clock; the *)
(* last is all that a claim does.                                          *)
LEMMA NextProbeSources ==
    ASSUME TypeInv, [MailNext]_mailRuntimeVars
    PROVE  /\ mail'.nextProbe \in {mail.nextProbe, NoTime, now + ProbeInterval}
           /\ claimedAt' = claimedAt
                \/ (claimedAt' = now /\ mail'.nextProbe = now + ProbeInterval)
           /\ now' >= now
<1> USE DEF TypeInv, MailTypeOK
<1>0. now \in Int
  BY MailConstants DEF Time
<1>1. CASE Tick \/ UNCHANGED mailRuntimeVars
  BY <1>0, <1>1 DEF Tick, mailRuntimeVars
<1>2. ASSUME NEW i \in Instances, Administer(i)
      PROVE  mail'.nextProbe \in {mail.nextProbe, NoTime} /\ claimedAt' = claimedAt /\ now' = now
  <2>1. CASE CreateCandidate(i) \/ \E success \in BOOLEAN : RecordTest(i, success)
    BY <2>1 DEF CreateCandidate, RecordTest, MailRow
  <2>2. CASE Activate(i) \/ Rollback(i) \/ CommitDisable(i)
    BY <2>2, VersionFields DEF Activate, Rollback, CommitDisable, CircuitReset
  <2>3. QED
    BY <1>2, <2>1, <2>2
       DEF Administer, BeginDisable, BeginSetRegistration, CommitSetRegistration
<1>3. ASSUME NEW i \in Instances, Serve(i)
      PROVE  /\ mail'.nextProbe \in {mail.nextProbe, NoTime, now + ProbeInterval}
             /\ claimedAt' = claimedAt /\ now' = now
  <2>1. CASE \E outcome \in Outcomes : Deliver(i, outcome)
    BY <2>1 DEF Deliver, Outcome, OpenCircuit, TransportFailure, MailRow
  <2>2. QED
    BY <1>3, <2>1 DEF Serve, ReceiveRegistration, BeginRegistration, CommitRegistration,
                      AbortTransaction, BeginClaim, CommitClaim, FinishBatch
<1>4. ASSUME NEW i \in Instances, Synchronize(i)
      PROVE  /\ mail'.nextProbe \in {mail.nextProbe, NoTime, now + ProbeInterval}
             /\ claimedAt' = claimedAt
                  \/ (claimedAt' = now /\ mail'.nextProbe = now + ProbeInterval)
             /\ now' = now
  <2>1. CASE \E success \in BOOLEAN : RecordProbeOutcome(i, success)
    BY <2>1 DEF RecordProbeOutcome, ProbeRow, CloseCircuit, MailRow
  <2>2. CASE ClaimProbe(i)
    BY <2>2 DEF ClaimProbe, MailRow
  <2>3. QED
    BY <1>4, <2>1, <2>2 DEF Synchronize, LoadSender, Restart
<1>5. QED
  BY <1>0, <1>1, <1>2, <1>3, <1>4 DEF MailNext

LEMMA SpacingStep ==
    ASSUME TypeInv, SpacingInv, [MailNext]_mailRuntimeVars
    PROVE  SpacingInv'
<1>1. /\ now \in Int /\ now' \in Int /\ ProbeInterval \in Nat
      /\ claimedAt \in Int /\ mail.nextProbe \in Int
  <2>1. now' \in Time
    BY TypeStep DEF TypeInv, MailTypeOK
  <2>2. mail.nextProbe \in 0 .. (MaxTime + ProbeInterval) \cup {NoTime}
    BY DEF TypeInv, MailTypeOK, MailRow
  <2>3. QED
    BY <2>1, <2>2, MailConstants DEF TypeInv, MailTypeOK, Time, NoTime
<1>2. QED
  BY <1>1, NextProbeSources DEF SpacingInv

(* Whatever instances restart and however often the circuit opens, two     *)
(* probes are claimed at least ProbeInterval apart.                        *)
THEOREM ProbesKeepInterval == MailSpec => ProbesAreSpaced
<1> DEFINE Inv == TypeInv /\ SpacingInv
           Spaced == \A i \in Instances :
                        probe[i] = NoProbe /\ probe'[i] # NoProbe /\ claimedAt # NoTime
                          => now - claimedAt >= ProbeInterval
<1>1. MailInit => Inv
  BY TypeInit DEF MailInit, SpacingInv
<1>2. Inv /\ [MailNext]_mailRuntimeVars => Inv'
  BY TypeStep, SpacingStep
<1>3. Inv /\ [MailNext]_mailRuntimeVars => [Spaced]_mailRuntimeVars
  <2> SUFFICES ASSUME Inv, [MailNext]_mailRuntimeVars, NEW i \in Instances,
                      probe[i] = NoProbe, probe'[i] # NoProbe, claimedAt # NoTime
               PROVE  now - claimedAt >= ProbeInterval
    OBVIOUS
  <2>1. ClaimProbe(i)
    BY DEF MailNext, Tick, mailRuntimeVars, Administer, CreateCandidate, RecordTest, Activate, Rollback,
           BeginDisable, CommitDisable, BeginSetRegistration, CommitSetRegistration,
           Serve, ReceiveRegistration, BeginRegistration, CommitRegistration,
           AbortTransaction, BeginClaim, CommitClaim, Deliver, FinishBatch,
           Synchronize, LoadSender, RecordProbeOutcome, Restart, ClaimProbe, TypeInv, MailTypeOK
  <2>2. mail.nextProbe # NoTime /\ now >= mail.nextProbe
    BY <2>1 DEF ClaimProbe, ProbeDue
  <2>3. /\ now \in Int /\ ProbeInterval \in Nat /\ claimedAt \in Int /\ mail.nextProbe \in Int
    BY MailConstants DEF TypeInv, MailTypeOK, MailRow, Time, NoTime
  <2>4. QED
    BY <2>2, <2>3 DEF SpacingInv
<1> HIDE DEF Inv
<1>4. QED
  BY <1>1, <1>2, <1>3, PTL DEF MailSpec, ProbesAreSpaced

-----------------------------------------------------------------------------
(* Tested senders.  Every place a sender can come from holds a version     *)
(* that has passed a test, snapshots and open transactions included.       *)
Passed(v) == v # NoVersion => tested[v] # NoTime

TestInv ==
    /\ Passed(mail.active) /\ Passed(mail.previous)
    /\ \A i \in Instances :
         Passed(snap[i].source.version) /\ Passed(sending[i].version) /\ Passed(tx[i].gate.version)

(* A version that has passed keeps its test, and the row takes its         *)
(* versions from itself or from a candidate that has just been checked.    *)
LEMMA VersionSources ==
    ASSUME TypeInv, [MailNext]_mailRuntimeVars
    PROVE  /\ \A v \in Versions \cup {NoVersion} : Passed(v) => Passed(v)'
           /\ \A v \in {mail'.active, mail'.previous} :
                v \in {mail.active, mail.previous, NoVersion} \/ Passed(v)'
<1> USE DEF TypeInv, MailTypeOK
<1>1. tested' = tested => \A v \in Versions \cup {NoVersion} : Passed(v) => Passed(v)'
  BY DEF Passed
<1>2. mail' = mail => mail'.active = mail.active /\ mail'.previous = mail.previous
  OBVIOUS
<1>3. ASSUME NEW i \in Instances, NEW success \in BOOLEAN, RecordTest(i, success)
      PROVE  /\ \A v \in Versions \cup {NoVersion} : Passed(v) => Passed(v)'
             /\ mail'.active = mail.active /\ mail'.previous = mail.previous
  <2>1. now # NoTime
    BY MailConstants DEF Time, NoTime
  <2>2. \A v \in Versions : tested[v] # NoTime => tested'[v] # NoTime
    BY <1>3, <2>1 DEF RecordTest
  <2>3. mail'.active = mail.active /\ mail'.previous = mail.previous
    BY <1>3 DEF RecordTest, MailRow
  <2>4. QED
    BY <2>2, <2>3 DEF Passed
<1>4. ASSUME NEW i \in Instances, Administer(i),
             ~\E success \in BOOLEAN : RecordTest(i, success)
      PROVE  /\ tested' = tested
             /\ \A v \in {mail'.active, mail'.previous} :
                  v \in {mail.active, mail.previous, NoVersion} \/ Passed(v)'
  <2>1. CASE CreateCandidate(i)
    BY <2>1 DEF CreateCandidate, MailRow
  <2>2. CASE Activate(i)
    <3>1. tested' = tested /\ tested[mail.candidate] # NoTime
      BY <2>2 DEF Activate, TestIsRecent
    <3>2. mail'.active = mail.candidate /\ mail'.previous \in {mail.active, mail.previous}
      BY <2>2, VersionFields DEF Activate
    <3>3. QED
      BY <3>1, <3>2 DEF Passed
  <2>3. CASE Rollback(i) \/ CommitDisable(i)
    <3>1. tested' = tested
      BY <2>3 DEF Rollback, CommitDisable
    <3>2. /\ mail'.active \in {mail.active, mail.previous, NoVersion}
          /\ mail'.previous \in {mail.active, mail.previous, NoVersion}
      BY <2>3, VersionFields DEF Rollback, CommitDisable
    <3>3. QED
      BY <3>1, <3>2
  <2>4. QED
    BY <1>4, <2>1, <2>2, <2>3
       DEF Administer, BeginDisable, BeginSetRegistration, CommitSetRegistration
<1>5. ASSUME NEW i \in Instances, Serve(i)
      PROVE  /\ tested' = tested
             /\ mail'.active = mail.active /\ mail'.previous = mail.previous
  <2>1. CASE \E outcome \in Outcomes : Deliver(i, outcome)
    BY <2>1 DEF Deliver, Outcome, OpenCircuit, TransportFailure, MailRow
  <2>2. QED
    BY <1>5, <2>1 DEF Serve, ReceiveRegistration, BeginRegistration, CommitRegistration,
                      AbortTransaction, BeginClaim, CommitClaim, FinishBatch
<1>6. ASSUME NEW i \in Instances, Synchronize(i)
      PROVE  /\ tested' = tested
             /\ mail'.active = mail.active /\ mail'.previous = mail.previous
  <2>1. CASE \E success \in BOOLEAN : RecordProbeOutcome(i, success)
    BY <2>1 DEF RecordProbeOutcome, ProbeRow, CloseCircuit, MailRow
  <2>2. CASE ClaimProbe(i)
    BY <2>2 DEF ClaimProbe, MailRow
  <2>3. QED
    BY <1>6, <2>1, <2>2 DEF Synchronize, LoadSender, Restart
<1>7. CASE Tick \/ UNCHANGED mailRuntimeVars
  BY <1>1, <1>2, <1>7 DEF Tick, mailRuntimeVars
<1>8. QED
  BY <1>1, <1>3, <1>4, <1>5, <1>6, <1>7 DEF MailNext, Administer

(* A batch gets its sender from a gate, a gate from a snapshot.            *)
LEMMA SenderSources ==
    ASSUME TypeInv, [MailNext]_mailRuntimeVars, NEW j \in Instances
    PROVE  /\ sending'[j] \in {sending[j], NoSource, tx[j].gate}
           /\ tx'[j].gate \in {tx[j].gate, NoSource, snap[j].source}
<1> USE DEF TypeInv, MailTypeOK, NoTx
<1>1. CASE Tick \/ UNCHANGED mailRuntimeVars
  BY <1>1 DEF Tick, mailRuntimeVars
<1>2. ASSUME NEW i \in Instances, Administer(i)
      PROVE  sending' = sending /\ tx'[j].gate \in {tx[j].gate, NoSource}
  BY <1>2 DEF Administer, CreateCandidate, RecordTest, Activate, Rollback, BeginDisable,
              CommitDisable, BeginSetRegistration, CommitSetRegistration
<1>3. ASSUME NEW i \in Instances, Serve(i)
      PROVE  /\ sending'[j] \in {sending[j], NoSource, tx[j].gate}
             /\ tx'[j].gate \in {tx[j].gate, NoSource, snap[j].source}
  <2>1. sending'[j] \in {sending[j], NoSource, tx[j].gate}
    BY <1>3 DEF Serve, ReceiveRegistration, BeginRegistration, CommitRegistration,
                AbortTransaction, BeginClaim, CommitClaim, Deliver, FinishBatch
  <2>2. tx'[j].gate \in {tx[j].gate, NoSource, snap[j].source}
    BY <1>3 DEF Serve, ReceiveRegistration, BeginRegistration, CommitRegistration,
                AbortTransaction, BeginClaim, CommitClaim, Deliver, FinishBatch
  <2>3. QED
    BY <2>1, <2>2
<1>4. ASSUME NEW i \in Instances, Synchronize(i)
      PROVE  sending'[j] \in {sending[j], NoSource} /\ tx'[j].gate \in {tx[j].gate, NoSource}
  BY <1>4 DEF Synchronize, LoadSender, ClaimProbe, RecordProbeOutcome, Restart
<1>5. QED
  BY <1>1, <1>2, <1>3, <1>4 DEF MailNext

LEMMA TestStep ==
    ASSUME TypeInv, TestInv, [MailNext]_mailRuntimeVars
    PROVE  TestInv'
<1>1. /\ mail.active \in Versions \cup {NoVersion} /\ mail.previous \in Versions \cup {NoVersion}
      /\ NoVersion \in Versions \cup {NoVersion} /\ Passed(NoVersion)
  BY DEF TypeInv, MailTypeOK, MailRow, Passed
<1>2. Passed(mail.active)' /\ Passed(mail.previous)'
  <2>1. \A v \in {mail.active, mail.previous, NoVersion} : Passed(v)'
    BY <1>1, VersionSources DEF TestInv
  <2>2. \A v \in {mail'.active, mail'.previous} : v # NoVersion => tested'[v] # NoTime
    BY <2>1, VersionSources DEF Passed
  <2>3. QED
    BY <2>2 DEF Passed
<1>3. ASSUME NEW j \in Instances
      PROVE  /\ Passed(snap[j].source.version)'
             /\ Passed(sending[j].version)'
             /\ Passed(tx[j].gate.version)'
  <2>1. /\ snap[j].source.version \in Versions \cup {NoVersion}
        /\ sending[j].version \in Versions \cup {NoVersion}
        /\ tx[j].gate.version \in Versions \cup {NoVersion}
    BY DEF TypeInv, MailTypeOK, SenderSnapshot, Source, Transaction
  <2>2. \A v \in {snap[j].source.version, sending[j].version, tx[j].gate.version, NoVersion} :
          v # NoVersion => tested'[v] # NoTime
    BY <1>1, <2>1, VersionSources DEF TestInv, Passed
  <2>3. mail'.active # NoVersion => tested'[mail'.active] # NoTime
    BY <1>2 DEF Passed
  <2>4. /\ NoSource.version = NoVersion /\ NoSenderSnapshot.source.version = NoVersion
        /\ EffectiveConfig(j, mail').source.version = mail'.active
    BY DEF NoSource, NoSenderSnapshot, EffectiveConfig, SourceOf
  <2>5. /\ \/ snap'[j].source.version = snap[j].source.version
           \/ snap'[j].source.version = NoVersion
           \/ snap'[j].source.version = mail'.active
        /\ sending'[j].version \in {sending[j].version, NoVersion, tx[j].gate.version}
        /\ tx'[j].gate.version \in {tx[j].gate.version, NoVersion, snap[j].source.version}
    BY <2>4, SnapshotSources, SenderSources
  <2>6. QED
    BY <2>2, <2>3, <2>5 DEF Passed
<1>4. QED
  BY <1>2, <1>3 DEF TestInv

LEMMA TestInit ==
    ASSUME MailInit
    PROVE  TestInv
<1>1. Passed(mail.active) /\ Passed(mail.previous)
  BY MailConstants DEF MailInit, Passed, NoVersion, Versions, NoTime
<1>2. \A i \in Instances :
        /\ snap[i].source.version \in {NoVersion, mail.active} /\ sending[i].version = NoVersion
        /\ tx[i].gate.version = NoVersion
  <2>1. \A i \in Instances : snap[i] = NoSenderSnapshot \/ snap[i] = EffectiveConfig(i, mail)
    BY DEF MailInit
  <2>2. \A i \in Instances : /\ EffectiveConfig(i, mail).source.version = mail.active
                             /\ NoSenderSnapshot.source.version = NoVersion
    BY DEF NoSenderSnapshot, NoSource, EffectiveConfig, SourceOf
  <2>3. \A i \in Instances : sending[i].version = NoVersion /\ tx[i].gate.version = NoVersion
    BY DEF MailInit, NoTx, NoSource
  <2>4. QED
    BY <2>1, <2>2, <2>3
<1>3. QED
  BY <1>1, <1>2 DEF TestInv, Passed

(* Mail is only ever sent with the fallback or with a version that passed  *)
(* a test, also after any sequence of rollbacks and from a stale snapshot. *)
THEOREM OnlyTestedSenders == MailSpec => []SendersWereTested
<1>1. MailInit => TypeInv /\ TestInv
  BY TypeInit, TestInit
<1>2. TypeInv /\ TestInv /\ [MailNext]_mailRuntimeVars => (TypeInv /\ TestInv)'
  BY TypeStep, TestStep
<1>3. TestInv => SendersWereTested
  BY DEF TestInv, SendersWereTested, Passed
<1>4. QED
  BY <1>1, <1>2, <1>3, PTL DEF MailSpec

-----------------------------------------------------------------------------
(* The row counts the newest failures of the burst, the first of them      *)
(* began the window, and the last lies within it.                          *)
BurstOK(m, b) ==
    /\ Len(b) <= FailureLimit /\ m.failures <= Len(b)
    /\ m.failures > 0 => /\ b[Len(b) - m.failures + 1] = m.window
                         /\ b[Len(b)] - m.window <= FailureWindow

BurstInv == BurstOK(mail, burst)

(* Adding a failure to the burst: the last FailureLimit are remembered.    *)
Remembered(b) == IF Len(b) = FailureLimit THEN Append(Tail(b), now) ELSE Append(b, now)

LEMMA RememberedBurst ==
    ASSUME NEW b \in Seq(Time), Len(b) <= FailureLimit, now \in Time
    PROVE  /\ Remembered(b) \in Seq(Time)
           /\ Len(Remembered(b)) \in 1 .. FailureLimit
           /\ Remembered(b)[Len(Remembered(b))] = now
           /\ \A k \in 1 .. Len(b) :
                 k < FailureLimit =>
                    /\ k + 1 <= Len(Remembered(b))
                    /\ Remembered(b)[Len(Remembered(b)) - k] = b[Len(b) - k + 1]
<1>1. Len(b) \in Nat /\ FailureLimit \in Nat \ {0}
  BY MailConstants
<1>2. CASE Len(b) = FailureLimit
  <2>1. b # <<>>
    BY <1>1, <1>2
  <2>2. /\ Tail(b) \in Seq(Time) /\ Len(Tail(b)) = Len(b) - 1
        /\ \A j \in 1 .. Len(b) - 1 : Tail(b)[j] = b[j + 1]
    BY <2>1
  <2> DEFINE c == Tail(b)
  <2> HIDE DEF c
  <2>3. /\ Append(c, now) \in Seq(Time) /\ Len(Append(c, now)) = Len(c) + 1
        /\ Append(c, now)[Len(c) + 1] = now
        /\ \A j \in 1 .. Len(c) : Append(c, now)[j] = c[j]
    BY <2>2 DEF c
  <2>4. Remembered(b) = Append(c, now) /\ Len(c) = Len(b) - 1 /\ \A j \in 1 .. Len(b) - 1 : c[j] = b[j + 1]
    BY <1>2, <2>2 DEF Remembered, c
  <2> DEFINE d == Append(c, now)
  <2>5. /\ d \in Seq(Time) /\ Len(d) = Len(b) /\ d[Len(b)] = now
        /\ \A j \in 1 .. Len(b) - 1 : d[j] = b[j + 1]
    BY <1>1, <2>3, <2>4
  <2> HIDE DEF d
  <2>6. \A k \in 1 .. Len(b) :
            k < FailureLimit => k + 1 <= Len(d) /\ d[Len(d) - k] = b[Len(b) - k + 1]
    <3> SUFFICES ASSUME NEW k \in 1 .. Len(b), k < FailureLimit
                 PROVE  k + 1 <= Len(d) /\ d[Len(d) - k] = b[Len(b) - k + 1]
      OBVIOUS
    <3>1. Len(b) - k \in 1 .. Len(b) - 1 /\ (Len(b) - k) + 1 = Len(b) - k + 1
      BY <1>1, <1>2
    <3> QED BY <1>1, <1>2, <2>5, <3>1
  <2>7. Remembered(b) = d
    BY <2>4 DEF d
  <2> QED BY <1>1, <1>2, <2>5, <2>6, <2>7
<1>3. CASE Len(b) # FailureLimit
  <2> DEFINE d == Append(b, now)
  <2>1. /\ d \in Seq(Time) /\ Len(d) = Len(b) + 1 /\ d[Len(b) + 1] = now
        /\ \A j \in 1 .. Len(b) : d[j] = b[j]
    OBVIOUS
  <2>2. Remembered(b) = d
    BY <1>3 DEF Remembered
  <2> HIDE DEF d
  <2>3. \A k \in 1 .. Len(b) : k + 1 <= Len(d) /\ d[Len(d) - k] = b[Len(b) - k + 1]
    <3> SUFFICES ASSUME NEW k \in 1 .. Len(b)
                 PROVE  k + 1 <= Len(d) /\ d[Len(d) - k] = b[Len(b) - k + 1]
      OBVIOUS
    <3>1. Len(b) - k + 1 \in 1 .. Len(b) /\ Len(d) - k = Len(b) - k + 1
      BY <1>1, <2>1
    <3> QED BY <1>1, <2>1, <3>1
  <2> QED BY <1>1, <1>3, <2>1, <2>2, <2>3
<1> QED BY <1>2, <1>3

(* A transport failure that is recorded goes into the row and the burst.   *)
LEMMA FailureBurst ==
    ASSUME NEW m \in MailRow, ~Open(m), m.failures < FailureLimit,
           m.failures = 0 <=> m.window = NoTime, now \in Time,
           NEW b \in Seq(Time), BurstOK(m, b), NEW r, r = TransportFailure(m)
    PROVE  BurstOK(r, Remembered(b))
<1> DEFINE start == IF WindowOver(m) THEN now ELSE m.window
           count == IF WindowOver(m) THEN 1 ELSE m.failures + 1
           d == Remembered(b)
<1>1. r.failures = count /\ r.window = start
  BY DEF TransportFailure, OpenCircuit, MailRow
<1>2. m.failures \in Nat /\ Len(b) \in Nat /\ FailureLimit \in Nat /\ FailureWindow \in Nat
  BY MailConstants DEF MailRow
<1>3. m.window \in Time \cup {NoTime}
  BY DEF MailRow
<1>4. Len(b) <= FailureLimit /\ m.failures <= Len(b)
  BY DEF BurstOK
<1>5. /\ Len(d) \in 1 .. FailureLimit /\ d[Len(d)] = now
      /\ \A k \in 1 .. Len(b) :
            k < FailureLimit => k + 1 <= Len(d) /\ d[Len(d) - k] = b[Len(b) - k + 1]
  BY <1>4, RememberedBurst
<1>6. now \in Nat
  BY DEF Time
<1> HIDE DEF d
<1>7. CASE WindowOver(m)
  <2>1. r.failures = 1 /\ r.window = now
    BY <1>1, <1>7
  <2>2. Len(d) - 1 + 1 = Len(d) /\ now - now = 0 /\ Len(d) \in Nat
    BY <1>5, <1>6
  <2>3. BurstOK(r, d)
    BY <1>2, <1>5, <2>1, <2>2 DEF BurstOK
  <2> QED BY <2>3 DEF d
<1>8. CASE ~WindowOver(m)
  <2>1. m.window # NoTime /\ now - m.window <= FailureWindow /\ m.window \in Nat
    BY <1>2, <1>3, <1>6, <1>8 DEF WindowOver, Time
  <2>2. m.failures > 0
    BY <1>2, <2>1
  <2>3. b[Len(b) - m.failures + 1] = m.window
    BY <2>2 DEF BurstOK
  <2>4. m.failures \in 1 .. Len(b)
    BY <1>2, <1>4, <2>2
  <2>5. m.failures + 1 <= Len(d) /\ d[Len(d) - m.failures] = m.window
    BY <1>5, <2>3, <2>4
  <2>6. r.failures = m.failures + 1 /\ r.window = m.window
    BY <1>1, <1>8
  <2>7. Len(d) - (m.failures + 1) + 1 = Len(d) - m.failures /\ Len(d) \in Nat
    BY <1>2, <1>5
  <2>8. BurstOK(r, d)
    BY <1>2, <1>5, <2>1, <2>5, <2>6, <2>7 DEF BurstOK
  <2> QED BY <2>8 DEF d
<1> QED BY <1>7, <1>8

(* A row with nothing counted fits any burst of the right length.          *)
LEMMA NothingCounted ==
    ASSUME NEW m, m.failures = 0, NEW b \in Seq(Time), Len(b) <= FailureLimit
    PROVE  BurstOK(m, b)
<1>1. Len(b) \in Nat
  OBVIOUS
<1> QED BY <1>1 DEF BurstOK

LEMMA DeliverBurst ==
    ASSUME TypeInv, RowInv, BurstInv, NEW i \in Instances, NEW outcome \in Outcomes,
           Deliver(i, outcome)
    PROVE  BurstInv'
<1>1. /\ mail \in MailRow /\ now \in Time /\ burst \in Seq(Time) /\ Len(burst) <= FailureLimit
      /\ ~Open(mail) => mail.failures < FailureLimit
      /\ mail.failures = 0 <=> mail.window = NoTime
      /\ mail.revision \in Nat
  BY MailConstants DEF TypeInv, MailTypeOK, CountBelowLimit, RowInv, RowOK, BurstInv, BurstOK, MailRow
<1>2. mail' = Outcome(mail, sending[i], outcome) /\ burst' = NextBurst(outcome, mail')
  BY DEF Deliver
<1>3. \/ mail' = mail
      \/ outcome = "success" /\ mail' = Counted(mail, NoTime, 0)
      \/ outcome = "permanent" /\ mail' = OpenCircuit(mail, "permanent", NoTime, 0)
      \/ ~Open(mail) /\ outcome = "transport" /\ mail' = TransportFailure(mail)
  BY <1>2 DEF Outcome, Outcomes, Counted
<1>4. CASE mail' = mail
  BY <1>2, <1>4 DEF NextBurst, BurstInv
<1>5. CASE outcome = "success" /\ mail' = Counted(mail, NoTime, 0) /\ mail' # mail
  <2>1. mail'.failures = 0 /\ burst' = <<>>
    BY <1>1, <1>2, <1>5 DEF Counted, MailRow, NextBurst
  <2>2. <<>> \in Seq(Time) /\ Len(<<>>) <= FailureLimit
    BY MailConstants
  <2> QED BY <2>1, <2>2, NothingCounted DEF BurstInv
<1>6. CASE outcome = "permanent" /\ mail' = OpenCircuit(mail, "permanent", NoTime, 0) /\ mail' # mail
  <2>1. mail'.failures = 0 /\ burst' = burst
    BY <1>1, <1>2, <1>6 DEF OpenCircuit, MailRow, NextBurst
  <2> QED BY <1>1, <2>1, NothingCounted DEF BurstInv
<1>7. CASE ~Open(mail) /\ outcome = "transport" /\ mail' = TransportFailure(mail) /\ mail' # mail
  <2>1. burst' = Remembered(burst)
    BY <1>2, <1>7 DEF NextBurst, Remembered
  <2>2. BurstOK(mail', Remembered(burst))
    BY <1>1, <1>7, FailureBurst DEF BurstInv
  <2> QED BY <2>1, <2>2 DEF BurstInv
<1> QED BY <1>3, <1>4, <1>5, <1>6, <1>7

LEMMA BurstStep ==
    ASSUME TypeInv, RowInv, BurstInv, [MailNext]_mailRuntimeVars
    PROVE  BurstInv'
<1>0. mail \in MailRow /\ burst \in Seq(Time) /\ <<>> \in Seq(Time) /\ Len(<<>>) <= FailureLimit
  BY MailConstants DEF TypeInv, MailTypeOK
<1>1. ASSUME mail'.failures = mail.failures, mail'.window = mail.window, burst' = burst
      PROVE  BurstInv'
  BY <1>1 DEF BurstInv, BurstOK
<1>2. ASSUME CircuitReset(mail'), burst' = <<>> PROVE BurstInv'
  BY <1>0, <1>2, NothingCounted DEF BurstInv, CircuitReset
<1>3. ASSUME NEW i \in Instances, Administer(i) PROVE BurstInv'
  <2>1. CASE CreateCandidate(i) \/ \E success \in BOOLEAN : RecordTest(i, success)
    <3>1. mail'.failures = mail.failures /\ mail'.window = mail.window /\ burst' = burst
      BY <1>0, <2>1 DEF CreateCandidate, RecordTest, MailRow
    <3> QED BY <1>1, <3>1
  <2>2. CASE Activate(i) \/ Rollback(i) \/ CommitDisable(i)
    BY <1>0, <1>2, <2>2, VersionFields DEF Activate, Rollback, CommitDisable
  <2>3. CASE mail' = mail /\ burst' = burst
    BY <1>1, <2>3
  <2> QED BY <1>3, <2>1, <2>2, <2>3
          DEF Administer, BeginDisable, BeginSetRegistration, CommitSetRegistration
<1>4. ASSUME NEW i \in Instances, Serve(i) PROVE BurstInv'
  BY <1>1, <1>4, DeliverBurst
     DEF Serve, ReceiveRegistration, BeginRegistration, CommitRegistration,
         AbortTransaction, BeginClaim, CommitClaim, FinishBatch
<1>5. ASSUME NEW i \in Instances, ClaimProbe(i) PROVE BurstInv'
  <2>1. mail'.failures = mail.failures /\ mail'.window = mail.window /\ burst' = burst
    BY <1>0, <1>5 DEF ClaimProbe, MailRow
  <2> QED BY <1>1, <2>1
<1>6. ASSUME NEW i \in Instances, NEW success \in BOOLEAN, RecordProbeOutcome(i, success)
      PROVE  BurstInv'
  <2>1. burst' = IF Open(mail) /\ ~Open(mail') THEN <<>> ELSE burst
    BY <1>6 DEF RecordProbeOutcome
  <2>2. CASE ProbeAccepted(probe[i], mail)
    <3>1. mail' = ProbeRow(mail, success) /\ Open(mail)
      BY <1>6, <2>2 DEF RecordProbeOutcome, ProbeAccepted
    <3>2. \/ CircuitReset(mail')
          \/ /\ mail'.failures = mail.failures /\ mail'.window = mail.window
             /\ mail'.category = mail.category
      BY <1>0, <3>1 DEF ProbeRow, CloseCircuit, CircuitReset, MailRow
    <3> QED BY <1>1, <1>2, <2>1, <3>1, <3>2 DEF Open, CircuitReset
  <2>3. CASE ~ProbeAccepted(probe[i], mail)
    <3>1. mail' = mail
      BY <1>6, <2>3 DEF RecordProbeOutcome
    <3> QED BY <1>1, <2>1, <3>1
  <2> QED BY <2>2, <2>3
<1>7. ASSUME NEW i \in Instances, Synchronize(i) PROVE BurstInv'
  BY <1>1, <1>5, <1>6, <1>7 DEF Synchronize, LoadSender, Restart
<1>8. CASE Tick \/ UNCHANGED mailRuntimeVars
  BY <1>1, <1>8 DEF Tick, mailRuntimeVars
<1> QED BY <1>3, <1>4, <1>7, <1>8 DEF MailNext

(* The circuit opens for transport failures only when the limit was        *)
(* reached within the window and without a success in between, whichever   *)
(* instances recorded them and whatever restarts and activations lie       *)
(* between (RecordDeliveryOutcome).                                        *)
THEOREM BurstsOpenTheCircuit == MailSpec => []TransportOpensOnBurst
<1>1. MailInit => TypeInv /\ RowInv /\ BurstInv
  <2>1. MailInit => BurstInv
    BY MailConstants DEF MailInit, BurstInv, BurstOK
  <2> QED BY <2>1, TypeInit, ConstraintInit
<1>2. TypeInv /\ RowInv /\ BurstInv /\ [MailNext]_mailRuntimeVars => (TypeInv /\ RowInv /\ BurstInv)'
  BY TypeStep, ConstraintStep, BurstStep
<1>3. TypeInv /\ RowInv /\ BurstInv => TransportOpensOnBurst
  <2> SUFFICES ASSUME TypeInv, RowInv, BurstInv, mail.category = "transport"
               PROVE  /\ Len(burst) = FailureLimit
                      /\ burst[FailureLimit] - burst[1] <= FailureWindow
    BY DEF TransportOpensOnBurst
  <2>1. mail.failures >= FailureLimit /\ mail.failures \in 0 .. FailureLimit /\ FailureLimit \in Nat \ {0}
    BY MailConstants DEF RowInv, RowOK, TypeInv, MailTypeOK, MailRow
  <2>2. Len(burst) \in Nat
    BY DEF TypeInv, MailTypeOK
  <2>3. mail.failures = FailureLimit /\ Len(burst) = FailureLimit
    BY <2>1, <2>2 DEF BurstInv, BurstOK
  <2>4. Len(burst) - mail.failures + 1 = 1 /\ mail.failures > 0
    BY <2>1, <2>3
  <2>5. burst[1] = mail.window /\ burst[FailureLimit] - mail.window <= FailureWindow
    BY <2>3, <2>4 DEF BurstInv, BurstOK
  <2> QED BY <2>3, <2>5
<1> QED BY <1>1, <1>2, <1>3, PTL DEF MailSpec
=============================================================================
