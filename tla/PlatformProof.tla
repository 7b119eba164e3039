---------------------------- MODULE PlatformProof ----------------------------
(***************************************************************************)
(* What holds of the delivery queues, of clients, of external providers    *)
(* and of media storage for any number of messages, dispatchers, clients,  *)
(* owners, requests, people, flows, images and instances.                  *)
(***************************************************************************)
EXTENDS Outbox, Clients, Providers, MediaStorage, FiniteSetTheorems, SequenceTheorems, TLAPS

-----------------------------------------------------------------------------
(* The delivery queues *)

\* A count of a set that grows by new members.
LEMMA Grown ==
    ASSUME NEW A, IsFiniteSet(A), NEW C, IsFiniteSet(C), A \cap C = {}
    PROVE  /\ Cardinality(A \cup C) = Cardinality(A) + Cardinality(C)
           /\ Cardinality(A) \in Nat /\ Cardinality(C) \in Nat
<1>1. Cardinality(A \cup C) = Cardinality(A) + Cardinality(C) - Cardinality(A \cap C)
  BY FS_Union
<1>2. Cardinality(A \cap C) = 0
  BY FS_EmptySet
<1>3. Cardinality(A) \in Nat /\ Cardinality(C) \in Nat
  BY FS_CardinalityType
<1> QED
  BY <1>1, <1>2, <1>3

MailTables ==
    /\ mails \in [Mails -> Mail] /\ mailStats \in [Final -> Nat]
    /\ couriers \in [Couriers -> Courier]
MailsEnded(s) == {m \in Mails : mails[m].status = s}
MailsCounted == \A s \in Final : mailStats[s] = Cardinality(MailsEnded(s))

\* A row's end is counted when it comes: the messages in `some` end with s, the
\* others stay in their state or are not ended.
LEMMA EndsCounted ==
    ASSUME OutboxTypeOK, MailsCounted, NEW s \in Final, NEW some \in SUBSET Mails,
           mailStats' = Count(mailStats, s, Cardinality(some)),
           \A m \in some : mails[m].status \notin Final /\ mails'[m].status = s,
           \A m \in Mails \ some : \/ mails'[m].status = mails[m].status
                                   \/ mails[m].status \notin Final /\ mails'[m].status \notin Final
    PROVE  MailsCounted' /\ mailStats' \in [Final -> Nat]
<1>1. IsFiniteSet(some) /\ Cardinality(some) \in Nat
  BY OutboxAssumptions, FS_Subset, FS_CardinalityType
<1>2. mailStats \in [Final -> Nat]
  BY DEF OutboxTypeOK
<1>3. mailStats' \in [Final -> Nat] /\ mailStats'[s] = mailStats[s] + Cardinality(some)
      /\ \A t \in Final : t # s => mailStats'[t] = mailStats[t]
  BY <1>1, <1>2 DEF Count
<1>4. ASSUME NEW t \in Final PROVE mailStats'[t] = Cardinality(MailsEnded(t)')
  <2>1. CASE t = s
    <3> DEFINE A == MailsEnded(s)
    <3>1. MailsEnded(s)' = A \cup some /\ A \cap some = {}
      BY DEF MailsEnded
    <3>2. IsFiniteSet(A)
      BY OutboxAssumptions, FS_Subset DEF MailsEnded
    <3>3. mailStats[s] = Cardinality(A)
      BY DEF MailsCounted
    <3> HIDE DEF A
    <3>4. Cardinality(A \cup some) = Cardinality(A) + Cardinality(some)
      BY <3>1, <3>2, <1>1, Grown
    <3> QED
      BY <2>1, <3>1, <3>3, <3>4, <1>3
  <2>2. CASE t # s
    <3>1. MailsEnded(t)' = MailsEnded(t)
      BY <2>2 DEF MailsEnded
    <3> QED
      BY <2>2, <3>1, <1>3 DEF MailsCounted
  <2> QED
    BY <2>1, <2>2
<1> QED
  BY <1>3, <1>4 DEF MailsCounted, MailsEnded

\* Steps after which no message has ended that had not.
LEMMA NothingEnds ==
    ASSUME OutboxTypeOK, MailsCounted, mailStats' = mailStats,
           \A m \in Mails : \/ mails'[m].status = mails[m].status
                            \/ mails[m].status \notin Final /\ mails'[m].status \notin Final
    PROVE  MailsCounted'
<1>1. \A s \in Final : MailsEnded(s)' = MailsEnded(s)
  BY DEF MailsEnded
<1> QED
  BY <1>1 DEF MailsCounted, MailsEnded

LEMMA EndedRow ==
    ASSUME NEW row \in Mail, NEW s \in Final \cup {"failed"}
    PROVE  Ended(row, s) \in Mail /\ Ended(row, s).status = s
BY DEF Ended, Mail

\* A dispatcher's place in its batch.
LEMMA NextItemOK ==
    ASSUME OutboxTypeOK, NEW w \in Couriers, NextItem(w)
    PROVE  couriers' \in [Couriers -> Courier]
BY DEF OutboxTypeOK, NextItem, Courier

\* A report counts for the row whose lease the dispatcher still holds.
LEMMA ReportCounts ==
    ASSUME OutboxTypeOK, MailsCounted, NEW w \in Couriers, NEW m \in Mails,
           NEW s \in Final \cup {"failed"}, NEW tally,
           tally = IF s \in Final THEN Count(mailStats, s, 1) ELSE mailStats,
           Report(w, m, Ended(mails[m], s), tally)
    PROVE  MailTables' /\ MailsCounted'
<1> USE DEF MailTables
<1>1. couriers' \in [Couriers -> Courier]
  BY NextItemOK DEF Report
<1>2. mails \in [Mails -> Mail] /\ mailStats \in [Final -> Nat] /\ mails[m] \in Mail
  BY DEF OutboxTypeOK
<1>3. CASE UNCHANGED <<mails, mailStats>>
  BY <1>1, <1>2, <1>3, NothingEnds
<1>4. CASE /\ HoldsMail(w, m)
           /\ mails' = [mails EXCEPT ![m] = Ended(mails[m], s)]
           /\ mailStats' = tally
  <2>1. Ended(mails[m], s) \in Mail /\ Ended(mails[m], s).status = s
    BY <1>2, EndedRow
  <2>2. mails' \in [Mails -> Mail] /\ mails'[m].status = s
        /\ \A x \in Mails : x # m => mails'[x] = mails[x]
    BY <1>2, <1>4, <2>1
  <2>3. mails[m].status = "sending" /\ "sending" \notin Final /\ "failed" \notin Final
    BY <1>4 DEF HoldsMail, Final
  <2>4. CASE s \in Final
    <3>1. Cardinality({m}) = 1
      BY FS_Singleton
    <3>2. mailStats' = Count(mailStats, s, Cardinality({m}))
      BY <3>1, <2>4, <1>4
    <3>3. MailsCounted' /\ mailStats' \in [Final -> Nat]
      BY <3>2, <2>2, <2>3, <2>4, EndsCounted
    <3> QED
      BY <3>3, <2>2, <1>1
  <2>5. CASE s \notin Final
    <3>1. mailStats' = mailStats /\ s = "failed"
      BY <2>5, <1>4
    <3>2. MailsCounted'
      BY <3>1, <2>2, <2>3, NothingEnds
    <3> QED
      BY <3>1, <3>2, <2>2, <1>1, <1>2
  <2> QED
    BY <2>4, <2>5
<1> QED
  BY <1>3, <1>4 DEF Report

LEMMA MailStepCounts ==
    ASSUME OutboxTypeOK, MailsCounted, MailStep
    PROVE  MailTables' /\ MailsCounted'
<1>1. /\ mails \in [Mails -> Mail] /\ mailStats \in [Final -> Nat]
      /\ couriers \in [Couriers -> Courier]
  BY DEF OutboxTypeOK
<1>2. ASSUME NEW m \in Mails, InsertOutboxEmail(m) \/ MailTime(m)
      PROVE  MailTables' /\ MailsCounted'
  <2>1. mails' \in [Mails -> Mail] /\ mailStats' = mailStats /\ couriers' = couriers
    <3>1. mails[m] \in Mail
      BY <1>1
    <3>2. /\ [mails[m] EXCEPT !.status = "pending", !.due = TRUE] \in Mail
          /\ [mails[m] EXCEPT !.due = TRUE] \in Mail
          /\ [mails[m] EXCEPT !.lapsed = TRUE] \in Mail
          /\ [mails[m] EXCEPT !.over = TRUE] \in Mail
      BY <3>1 DEF Mail
    <3>3. \E row \in Mail : mails' = [mails EXCEPT ![m] = row]
      BY <1>2, <3>2 DEF InsertOutboxEmail, MailTime
    <3> QED
      BY <1>1, <1>2, <3>3 DEF InsertOutboxEmail, MailTime
  <2>2. \A x \in Mails : \/ mails'[x].status = mails[x].status
                         \/ mails[x].status \notin Final /\ mails'[x].status \notin Final
    BY <1>1, <1>2 DEF InsertOutboxEmail, MailTime, Mail, Final
  <2> QED
    BY <1>1, <2>1, <2>2, NothingEnds DEF MailTables
<1>3. ASSUME NEW w \in Couriers, ExpireEmailArtifacts(w) PROVE MailTables' /\ MailsCounted'
  <2> DEFINE over == {m \in Mails : mails[m].over}
  <2>1. PICK some \in SUBSET {m \in over : mails[m].status \in {"pending", "failed", "sending"}} :
          /\ mails' = [m \in Mails |-> IF m \in some THEN Ended(mails[m], "expired") ELSE mails[m]]
          /\ mailStats' = Count(mailStats, "expired", Cardinality(some))
    BY <1>3 DEF ExpireEmailArtifacts
  <2>2. couriers' = [couriers EXCEPT ![w] = [at |-> "expired", over |-> over, batch |-> {}]]
    BY <1>3 DEF ExpireEmailArtifacts
  <2>3. couriers' \in [Couriers -> Courier]
    BY <1>1, <2>2 DEF Courier
  <2>4. "expired" \in Final /\ \A m \in some : m \in Mails /\ mails[m].status \notin Final
    BY DEF Final
  <2>5. \A m \in Mails : mails[m] \in Mail
    BY <1>1
  <2>6. \A m \in Mails : Ended(mails[m], "expired") \in Mail /\ Ended(mails[m], "expired").status = "expired"
    BY <2>4, <2>5, EndedRow
  <2>7. mails' \in [Mails -> Mail]
    BY <2>1, <2>5, <2>6
  <2>8. \A m \in some : mails'[m].status = "expired"
    BY <2>1, <2>4, <2>6
  <2>9. \A m \in Mails \ some : mails'[m].status = mails[m].status
    BY <2>1
  <2>10. MailsCounted' /\ mailStats' \in [Final -> Nat]
    BY <2>1, <2>4, <2>8, <2>9, EndsCounted
  <2> QED
    BY <2>3, <2>7, <2>10 DEF MailTables
<1>4. ASSUME NEW w \in Couriers, ClaimEmailBatch(w) PROVE MailTables' /\ MailsCounted'
  <2>1. PICK some \in SUBSET {m \in Mails : Claimable(m, w)} :
          /\ mails' = [m \in Mails |-> IF m \in some
                          THEN [mails[m] EXCEPT !.status = "sending", !.owner = w, !.lapsed = FALSE,
                                                !.due = FALSE, !.attempts = @ + 1]
                          ELSE mails[m]]
          /\ couriers' = [couriers EXCEPT ![w] = [at |-> IF some = {} THEN "idle" ELSE "sending",
                                                  over |-> {}, batch |-> some]]
    BY <1>4 DEF ClaimEmailBatch
  <2>2. couriers' \in [Couriers -> Courier]
    BY <1>1, <2>1 DEF Courier
  <2>3. \A m \in Mails : mails[m] \in Mail
    BY <1>1
  <2>4. mails' \in [Mails -> Mail]
    <3>1. \A m \in Mails : [mails[m] EXCEPT !.status = "sending", !.owner = w, !.lapsed = FALSE,
                                             !.due = FALSE, !.attempts = @ + 1] \in Mail
      <4> TAKE m \in Mails
      <4>1. mails[m] \in Mail /\ mails[m].attempts + 1 \in Nat
        BY <2>3 DEF Mail
      <4> QED
        BY <4>1 DEF Mail
    <3> QED
      BY <2>1, <2>3, <3>1
  <2>5. \A m \in Mails : \/ mails'[m].status = mails[m].status
                         \/ mails[m].status \notin Final /\ mails'[m].status \notin Final
    BY <2>1, <2>3 DEF Claimable, Mail, Final
  <2>6. mailStats' = mailStats
    BY <1>4 DEF ClaimEmailBatch
  <2> QED
    BY <1>1, <2>2, <2>4, <2>5, <2>6, NothingEnds DEF MailTables
<1>5. ASSUME NEW w \in Couriers, CourierDies(w) \/ \E m \in Mails : SendMail(w, m)
      PROVE  MailTables' /\ MailsCounted'
  <2>1. mails' = mails /\ mailStats' = mailStats
    BY <1>5 DEF CourierDies, SendMail
  <2>2. couriers' \in [Couriers -> Courier]
    BY <1>1, <1>5 DEF CourierDies, SendMail, Courier, AtRest
  <2> QED
    BY <1>1, <2>1, <2>2, NothingEnds DEF MailTables
<1>6. ASSUME NEW w \in Couriers, NEW m \in Mails,
             MarkEmailSent(w, m) \/ MarkEmailRejected(w, m) \/ MarkEmailFailed(w, m)
      PROVE  MailTables' /\ MailsCounted'
  <2>1. {"sent", "rejected", "expired"} \subseteq Final /\ "failed" \notin Final
    BY DEF Final
  <2>2. CASE MarkEmailSent(w, m)
    BY <2>1, <2>2, ReportCounts DEF MarkEmailSent
  <2>3. CASE MarkEmailRejected(w, m)
    BY <2>1, <2>3, ReportCounts DEF MarkEmailRejected
  <2>4. CASE MarkEmailFailed(w, m)
    BY <2>1, <2>4, ReportCounts DEF MarkEmailFailed
  <2> QED
    BY <1>6, <2>2, <2>3, <2>4
<1> QED
  BY <1>2, <1>3, <1>4, <1>5, <1>6 DEF MailStep

\* The audit side: an event is delivered when its row is in the log or was.
EventsCounted ==
    /\ \A e \in Events : events[e].status \in {"processed", "gone"} <=> auditLog[e] # "none"
    /\ logins = Cardinality({e \in Events : auditLog[e] # "none"})
AuditTables ==
    /\ events \in [Events -> Event] /\ auditLog \in [Events -> {"none", "kept", "gone"}]
    /\ logins \in Nat /\ scribes \in [Scribes -> Scribe]

\* Steps that neither deliver an event nor write the log.
LEMMA NothingDelivered ==
    ASSUME AuditTables, EventsCounted, UNCHANGED <<auditLog, logins>>,
           \A e \in Events : events'[e].status \in {"processed", "gone"}
                                <=> events[e].status \in {"processed", "gone"}
    PROVE  EventsCounted'
BY DEF EventsCounted

LEMMA NextEventOK ==
    ASSUME AuditTables, NEW w \in Scribes, NEW e \in Events, NextEvent(w, e)
    PROVE  scribes' \in [Scribes -> Scribe]
BY DEF AuditTables, NextEvent, Scribe

\* The lease, the log row and the aggregate are one transaction.
LEMMA DeliveryCounts ==
    ASSUME AuditTables, EventsCounted, NEW w \in Scribes, NEW e \in Events, HoldsEvent(w, e),
           Delivered(e)
    PROVE  /\ events' \in [Events -> Event] /\ auditLog' \in [Events -> {"none", "kept", "gone"}]
           /\ logins' \in Nat /\ EventsCounted'
<1>1. events[e].status = "processing" /\ auditLog[e] = "none"
  BY DEF HoldsEvent, EventsCounted
<1>2. /\ events' = [events EXCEPT ![e] = [@ EXCEPT !.status = "processed", !.owner = NoWorker, !.lapsed = FALSE]]
      /\ auditLog' = [auditLog EXCEPT ![e] = "kept"] /\ logins' = logins + 1
  BY <1>1 DEF Delivered
<1>3. events' \in [Events -> Event] /\ events'[e].status = "processed"
      /\ \A x \in Events : x # e => events'[x] = events[x]
  BY <1>2 DEF AuditTables, Event
<1>4. auditLog' \in [Events -> {"none", "kept", "gone"}] /\ auditLog'[e] = "kept"
      /\ \A x \in Events : x # e => auditLog'[x] = auditLog[x]
  BY <1>2 DEF AuditTables
<1> DEFINE A == {x \in Events : auditLog[x] # "none"}
<1>5. {x \in Events : auditLog'[x] # "none"} = A \cup {e} /\ A \cap {e} = {}
  BY <1>1, <1>4
<1>6. IsFiniteSet(A) /\ IsFiniteSet({e}) /\ Cardinality({e}) = 1
  BY OutboxAssumptions, FS_Subset, FS_Singleton
<1>7. logins = Cardinality(A) /\ logins \in Nat
  BY DEF EventsCounted, AuditTables
<1> HIDE DEF A
<1>8. Cardinality(A \cup {e}) = logins + 1
  BY <1>5, <1>6, <1>7, Grown
<1>9. logins' = Cardinality({x \in Events : auditLog'[x] # "none"}) /\ logins' \in Nat
  <2>1. logins' = Cardinality(A \cup {e}) /\ logins' \in Nat
    BY <1>2, <1>7, <1>8
  <2> QED
    BY <2>1, <1>5
<1>10. \A x \in Events : events'[x].status \in {"processed", "gone"} <=> auditLog'[x] # "none"
  BY <1>3, <1>4 DEF EventsCounted
<1> QED
  BY <1>3, <1>4, <1>9, <1>10 DEF EventsCounted

LEMMA AuditStepCounts ==
    ASSUME AuditTables, EventsCounted, AuditStep
    PROVE  AuditTables' /\ EventsCounted'
<1>1. /\ events \in [Events -> Event] /\ auditLog \in [Events -> {"none", "kept", "gone"}]
      /\ logins \in Nat /\ scribes \in [Scribes -> Scribe]
  BY DEF AuditTables
<1>2. ASSUME NEW e \in Events, EnqueueEvent(e) \/ EventTime(e) PROVE AuditTables' /\ EventsCounted'
  <2>1. UNCHANGED <<auditLog, logins, scribes>>
    BY <1>2 DEF EnqueueEvent, EventTime
  <2>2. events' \in [Events -> Event]
    <3>1. events[e] \in Event
      BY <1>1
    <3>2. /\ [events[e] EXCEPT !.status = "pending", !.due = TRUE] \in Event
          /\ [events[e] EXCEPT !.due = TRUE] \in Event
          /\ [events[e] EXCEPT !.lapsed = TRUE] \in Event
      BY <3>1 DEF Event
    <3>3. \E row \in Event : events' = [events EXCEPT ![e] = row]
      BY <1>2, <3>2 DEF EnqueueEvent, EventTime
    <3> QED
      BY <1>1, <3>3
  <2>3. \A x \in Events : events'[x].status \in {"processed", "gone"}
                               <=> events[x].status \in {"processed", "gone"}
    BY <1>1, <1>2 DEF EnqueueEvent, EventTime, Event
  <2> QED
    BY <1>1, <2>1, <2>2, <2>3, NothingDelivered DEF AuditTables
<1>3. ASSUME NEW e \in Events, ApplyRetention(e) PROVE AuditTables' /\ EventsCounted'
  <2>1. /\ auditLog[e] = "kept" /\ auditLog' = [auditLog EXCEPT ![e] = "gone"]
        /\ UNCHANGED <<events, logins, scribes>>
    BY <1>3 DEF ApplyRetention
  <2>2. auditLog' \in [Events -> {"none", "kept", "gone"}]
        /\ \A x \in Events : auditLog'[x] # "none" <=> auditLog[x] # "none"
    BY <1>1, <2>1
  <2>3. {x \in Events : auditLog'[x] # "none"} = {x \in Events : auditLog[x] # "none"}
    BY <2>2
  <2> QED
    BY <1>1, <2>1, <2>2, <2>3 DEF AuditTables, EventsCounted
<1>4. ASSUME NEW e \in Events, CleanupProcessedOutbox(e) PROVE AuditTables' /\ EventsCounted'
  <2>1. /\ events[e].status = "processed" /\ UNCHANGED <<auditLog, logins, scribes>>
        /\ events' = [events EXCEPT ![e] = [NoEvent EXCEPT !.status = "gone"]]
    BY <1>4 DEF CleanupProcessedOutbox
  <2>2. [NoEvent EXCEPT !.status = "gone"] \in Event /\ [NoEvent EXCEPT !.status = "gone"].status = "gone"
    BY DEF NoEvent, Event
  <2>3. events' \in [Events -> Event]
        /\ \A x \in Events : events'[x].status \in {"processed", "gone"}
                                <=> events[x].status \in {"processed", "gone"}
    BY <1>1, <2>1, <2>2
  <2> QED
    BY <1>1, <2>1, <2>3, NothingDelivered DEF AuditTables
<1>5. ASSUME NEW w \in Scribes, ClaimAuditBatch(w) PROVE AuditTables' /\ EventsCounted'
  <2>1. PICK some \in SUBSET {e \in Events :
             /\ \/ events[e].status \in {"pending", "failed"} /\ events[e].due
                \/ events[e].status = "processing" /\ events[e].lapsed
             /\ events[e].attempts < MaxAttempts} :
          /\ events' = [e \in Events |-> IF e \in some
                           THEN [status |-> "processing", owner |-> w, due |-> FALSE, lapsed |-> FALSE,
                                 attempts |-> events[e].attempts + 1]
                           ELSE events[e]]
          /\ scribes' = [scribes EXCEPT ![w] = [at |-> "delivering", item |-> {}, batch |-> some]]
    BY <1>5 DEF ClaimAuditBatch
  <2>2. UNCHANGED <<auditLog, logins>>
    BY <1>5 DEF ClaimAuditBatch
  <2>3. scribes' \in [Scribes -> Scribe]
    BY <1>1, <2>1 DEF Scribe
  <2>4. \A e \in Events : events[e] \in Event /\ events[e].attempts + 1 \in Nat
    BY <1>1 DEF Event
  <2>5. events' \in [Events -> Event]
    BY <2>1, <2>4 DEF Event
  <2>6. \A x \in Events : events'[x].status \in {"processed", "gone"}
                               <=> events[x].status \in {"processed", "gone"}
    BY <2>1
  <2> QED
    BY <1>1, <2>2, <2>3, <2>5, <2>6, NothingDelivered DEF AuditTables
<1>6. ASSUME NEW w \in Scribes, ScribeDies(w) PROVE AuditTables' /\ EventsCounted'
  <2>1. UNCHANGED <<events, auditLog, logins>> /\ scribes' \in [Scribes -> Scribe]
    BY <1>1, <1>6 DEF ScribeDies, Scribe
  <2> QED
    BY <1>1, <2>1, NothingDelivered DEF AuditTables
<1>7. ASSUME NEW w \in Scribes, NEW e \in Events, DeliverAuditEvent(w, e)
      PROVE  AuditTables' /\ EventsCounted'
  <2>1. scribes' \in [Scribes -> Scribe]
    <3>1. CASE scribes' = [scribes EXCEPT ![w].at = "failed", ![w].item = {e}]
      BY <1>1, <3>1 DEF Scribe
    <3>2. CASE NextEvent(w, e)
      BY <3>2, NextEventOK
    <3> QED
      BY <1>7, <3>1, <3>2 DEF DeliverAuditEvent
  <2>2. CASE HoldsEvent(w, e) /\ Delivered(e)
    BY <2>1, <2>2, DeliveryCounts DEF AuditTables
  <2>3. CASE UNCHANGED <<events, auditLog, logins>>
    BY <1>1, <2>1, <2>3, NothingDelivered DEF AuditTables
  <2> QED
    BY <1>7, <2>2, <2>3 DEF DeliverAuditEvent
<1>8. ASSUME NEW w \in Scribes, NEW e \in Events, MarkAuditEventFailed(w, e)
      PROVE  AuditTables' /\ EventsCounted'
  <2>1. scribes' \in [Scribes -> Scribe] /\ UNCHANGED <<auditLog, logins>>
    BY <1>8, NextEventOK DEF MarkAuditEventFailed
  <2>2. events' \in [Events -> Event]
        /\ \A x \in Events : events'[x].status \in {"processed", "gone"}
                                <=> events[x].status \in {"processed", "gone"}
    <3> DEFINE row == [events[e] EXCEPT !.status = "failed", !.owner = NoWorker, !.lapsed = FALSE]
    <3>1. events[e] \in Event
      BY <1>1
    <3>2. row \in Event /\ row.status = "failed"
      BY <3>1 DEF Event
    <3>3. \/ events' = events
          \/ events' = [events EXCEPT ![e] = row] /\ events[e].status = "processing"
      BY <1>8 DEF MarkAuditEventFailed, HoldsEvent
    <3> HIDE DEF row
    <3> QED
      BY <1>1, <3>2, <3>3
  <2> QED
    BY <1>1, <2>1, <2>2, NothingDelivered DEF AuditTables
<1> QED
  BY <1>2, <1>3, <1>4, <1>5, <1>6, <1>7, <1>8 DEF AuditStep

\* Every message is in the statistics once under the way it ended, and every
\* delivered login is counted once, although dispatchers outlive their leases,
\* die between sending and reporting and read errors for commits that went through.
THEOREM DeliveriesAreCountedOnce == OutboxSpec => []AccountedOnce
<1> DEFINE Inv == OutboxTypeOK /\ MailsCounted /\ EventsCounted
<1>1. OutboxInit => Inv
  <2> SUFFICES ASSUME OutboxInit PROVE Inv
    OBVIOUS
  <2>1. NoMail \in Mail /\ NoMail.status = "none" /\ NoEvent \in Event /\ NoEvent.status = "none"
        /\ AtRest \in Courier /\ [at |-> "idle", item |-> {}, batch |-> {}] \in Scribe
    BY DEF NoMail, Mail, NoEvent, Event, AtRest, Courier, Scribe
  <2>2. OutboxTypeOK
    BY <2>1 DEF OutboxInit, OutboxTypeOK
  <2>3. \A s \in Final : MailsEnded(s) = {}
    BY <2>1 DEF OutboxInit, MailsEnded, Final
  <2>4. {e \in Events : auditLog[e] # "none"} = {}
    BY DEF OutboxInit
  <2>5. MailsCounted
    BY <2>3, FS_EmptySet DEF OutboxInit, MailsCounted
  <2>6. EventsCounted
    BY <2>1, <2>4, FS_EmptySet DEF OutboxInit, EventsCounted
  <2> QED
    BY <2>2, <2>5, <2>6
<1>2. Inv /\ [OutboxNext]_outboxVars => Inv'
  <2> SUFFICES ASSUME Inv, [OutboxNext]_outboxVars PROVE Inv'
    OBVIOUS
  <2>1. CASE MailStep /\ UNCHANGED auditVars
    BY <2>1, MailStepCounts DEF OutboxTypeOK, MailTables, EventsCounted, auditVars
  <2>2. CASE AuditStep /\ UNCHANGED mailVars
    <3>1. AuditTables
      BY DEF OutboxTypeOK, AuditTables
    <3> QED
      BY <2>2, <3>1, AuditStepCounts DEF OutboxTypeOK, AuditTables, MailsCounted, MailsEnded, mailVars
  <2>3. CASE UNCHANGED outboxVars
    BY <2>3 DEF outboxVars, OutboxTypeOK, MailsCounted, MailsEnded, EventsCounted
  <2> QED
    BY <2>1, <2>2, <2>3 DEF OutboxNext
<1>3. Inv => AccountedOnce
  BY DEF MailsCounted, MailsEnded, EventsCounted, AccountedOnce
<1> QED
  BY <1>1, <1>2, <1>3, PTL DEF OutboxSpec

-----------------------------------------------------------------------------
(* Clients *)

\* A quota that was checked stands while the owner's row and the limit stay and
\* the owner is given no further client.
LEMMA QuotaCarried ==
    ASSUME NEW u \in ClientOwners, owners'[u] = owners[u], limit' = limit,
           Owned(u)' \subseteq Owned(u), WithinQuota(u), Limit(u) \in Nat
    PROVE  WithinQuota(u)'
<1> DEFINE old == Owned(u)
           new == Owned(u)'
<1>1. new \subseteq old /\ Cardinality(old) < Limit(u) /\ Limit(u)' = Limit(u) /\ owners[u].active
  BY DEF WithinQuota, Limit
<1>2. IsFiniteSet(old)
  BY FS_Subset, ClientAssumptions DEF Owned
<1> HIDE DEF old, new
<1>3. IsFiniteSet(new) /\ Cardinality(new) <= Cardinality(old)
  BY <1>1, <1>2, FS_Subset
<1>4. Cardinality(new) \in Nat /\ Cardinality(old) \in Nat
  BY <1>2, <1>3, FS_CardinalityType
<1> QED
  BY <1>1, <1>3, <1>4 DEF new, WithinQuota

LEMMA LimitIsNumber ==
    ASSUME ClientsTypeOK, NEW u \in ClientOwners
    PROVE  Limit(u) \in Nat
<1>1. owners[u] \in Owner /\ limit \in Nat
  BY ClientAssumptions DEF ClientsTypeOK
<1> QED
  BY <1>1, ClientAssumptions DEF Limit, Owner

\* What a locked transaction relies on: the policy, the row of its client, the
\* row and the clients of the owner it gives a client to.
Undisturbed(r) ==
    requests[r].step = "locked" =>
        /\ requests[r].kind \in {"create", "update"} => policy' = policy
        /\ requests[r].kind # "create" =>
              /\ clients'[requests[r].client].there = clients[requests[r].client].there
              /\ clients'[requests[r].client].owner = clients[requests[r].client].owner
              /\ clients'[requests[r].client].scopes = clients[requests[r].client].scopes
        /\ \A u \in ClientOwners : GivesClient(requests[r]) /\ requests[r].owner = u =>
              owners'[u] = owners[u] /\ limit' = limit /\ Owned(u)' \subseteq Owned(u)

LEMMA RequestCarried ==
    ASSUME ClientsInv, NEW r \in Requests, requests'[r] = requests[r], Undisturbed(r)
    PROVE  RequestOK(requests[r])'
<1>1. RequestOK(requests[r]) /\ requests[r] \in Request /\ ClientsTypeOK
  BY DEF ClientsInv, ClientsTypeOK
<1>2. Validated(requests[r])' <=> Validated(requests[r])
  BY DEF Validated, PolicyPermits
<1>3. ASSUME requests[r].step = "locked", GivesClient(requests[r]), WithinQuota(requests[r].owner)
      PROVE  WithinQuota(requests[r].owner)'
  <2>1. PICK u \in ClientOwners : u = requests[r].owner
    BY <1>1, <1>3 DEF Request, GivesClient
  <2>2. owners'[u] = owners[u] /\ limit' = limit /\ Owned(u)' \subseteq Owned(u)
    BY <1>3, <2>1 DEF Undisturbed
  <2>3. Limit(u) \in Nat
    BY <1>1, LimitIsNumber
  <2>4. WithinQuota(u)'
    BY <1>3, <2>1, <2>2, <2>3, QuotaCarried
  <2> QED
    BY <2>1, <2>4
<1>4. requests[r].step = "locked" => Checked(requests[r])'
  <2> HAVE requests[r].step = "locked"
  <2>1. Checked(requests[r]) /\ requests[r].kind # "access"
    BY <1>1 DEF RequestOK
  <2>2. requests[r].kind \in {"create", "update", "transfer"}
    BY <2>1, <1>1 DEF Request
  <2>3. GivesClient(requests[r]) => WithinQuota(requests[r].owner)'
    BY <2>1, <1>3 DEF Checked
  <2>4. GivesClient(requests[r])' => GivesClient(requests[r])
    BY DEF GivesClient, Undisturbed
  <2> HIDE DEF WithinQuota
  <2> QED
    BY <2>1, <2>2, <2>3, <2>4 DEF Checked, Undisturbed, PolicyPermits
<1> QED
  BY <1>1, <1>2, <1>4 DEF RequestOK

\* A step that changes at most the request r, ends others, and disturbs nobody.
LEMMA OneRequest ==
    ASSUME ClientsInv, NEW r, ClientsTypeOK', \A c \in Clients : ClientRowOK(c)',
           \A s \in Requests : s # r => \/ requests'[s] = requests[s] /\ Undisturbed(s)
                                        \/ requests'[s].step \notin {"built", "locked"},
           r \in Requests => RequestOK(requests[r])',
           r \in Requests => \A s \in Requests : s # r /\ requests'[s] = requests[s] =>
              LocksApart(requests[r], requests[s])' /\ LocksApart(requests[s], requests[r])'
    PROVE  ClientsInv'
<1>1. ASSUME NEW s \in Requests PROVE RequestOK(requests[s])'
  <2>1. CASE s = r
    BY <2>1
  <2>2. CASE s # r /\ requests'[s] = requests[s] /\ Undisturbed(s)
    BY <2>2, RequestCarried
  <2>3. CASE requests'[s].step \notin {"built", "locked"}
    BY <2>3 DEF RequestOK
  <2> QED
    BY <2>1, <2>2, <2>3
<1>2. ASSUME NEW s \in Requests, NEW t \in Requests, s # t
      PROVE  LocksApart(requests[s], requests[t])'
  <2>1. CASE requests'[s].step # "locked" \/ requests'[t].step # "locked"
    BY <2>1 DEF LocksApart
  <2>2. CASE requests'[s].step = "locked" /\ requests'[t].step = "locked"
    <3>1. /\ s = r \/ requests'[s] = requests[s]
          /\ t = r \/ requests'[t] = requests[t]
      BY <2>2
    <3>2. CASE s = r
      BY <3>1, <3>2, <1>2
    <3>3. CASE t = r
      BY <3>1, <3>3, <1>2
    <3>4. CASE s # r /\ t # r
      <4>1. Undisturbed(s) /\ Undisturbed(t) /\ LocksApart(requests[s], requests[t])
        BY <1>2, <2>2, <3>4 DEF ClientsInv
      <4>2. /\ GivesClient(requests[s])' => GivesClient(requests[s])
            /\ GivesClient(requests[t])' => GivesClient(requests[t])
        BY <2>2, <3>1, <3>4, <4>1 DEF GivesClient, Undisturbed
      <4> QED
        BY <2>2, <3>1, <3>4, <4>1, <4>2 DEF LocksApart
    <3> QED
      BY <3>2, <3>3, <3>4
  <2> QED
    BY <2>1, <2>2
<1> QED
  BY <1>1, <1>2 DEF ClientsInv

LEMMA IdleRequest == Idle \in Request /\ Idle.step = "idle"
BY DEF Idle, Request, FirstPolicy, Policy

\* Settings: the policy changes while no creation or change holds its lock, the
\* default limit while nobody is being given a client, an owner's row while no
\* transaction has locked it.
LEMMA SettingsInv ==
    ASSUME ClientsInv, SettingStep
    PROVE  ClientsInv'
<1>1. ClientsTypeOK /\ policy \in Policy /\ policySnapshots \in [PolicyInstances -> Policy]
      /\ owners \in [ClientOwners -> Owner] /\ limit \in Limits
  BY DEF ClientsInv, ClientsTypeOK
<1>2. UNCHANGED <<clients, access, requests>>
  BY DEF SettingStep, LoadPolicy, SetOAuthPolicy, SetProtection, UpdateOwnerQuota, SetOwnerActive
<1>3. \A u \in ClientOwners : Owned(u)' = Owned(u)
  BY <1>2 DEF Owned
<1>4. \A c \in Clients : ClientRowOK(c)'
  BY <1>2 DEF ClientsInv, ClientRowOK
<1> DEFINE none == CHOOSE x : x \notin Requests
<1>5. none \notin Requests
  BY NoSetContainsEverything
<1> HIDE DEF none
<1>6. SUFFICES ClientsTypeOK' /\ \A s \in Requests : Undisturbed(s)
  BY <1>2, <1>4, <1>5, OneRequest
<1>7. ASSUME NEW i \in PolicyInstances, LoadPolicy(i)
      PROVE  ClientsTypeOK' /\ \A s \in Requests : Undisturbed(s)
  <2>1. UNCHANGED <<policy, limit, owners, clients, access, requests>>
        /\ policySnapshots' \in [PolicyInstances -> Policy]
    BY <1>1, <1>7 DEF LoadPolicy
  <2> QED
    BY <1>1, <1>3, <2>1 DEF ClientsTypeOK, Undisturbed
<1>8. ASSUME NEW i \in PolicyInstances, NEW allowed \in SUBSET Scopes, NEW assignable \in SUBSET Scopes,
             NEW selfService \in BOOLEAN, SetOAuthPolicy(i, allowed, assignable, selfService)
      PROVE  ClientsTypeOK' /\ \A s \in Requests : Undisturbed(s)
  <2>1. /\ LockOAuthPolicyExclusive /\ UNCHANGED <<limit, owners, clients, access, requests>>
        /\ policy' = [revision |-> policy.revision + 1, allowed |-> allowed, assignable |-> assignable,
                      selfService |-> selfService]
        /\ policySnapshots' = [policySnapshots EXCEPT ![i] = policy']
    BY <1>8 DEF SetOAuthPolicy
  <2>2. policy.revision + 1 \in Nat
    BY <1>1 DEF Policy
  <2>3. policy' \in Policy
    BY <2>1, <2>2 DEF Policy
  <2>4. policySnapshots' \in [PolicyInstances -> Policy]
    BY <1>1, <2>1, <2>3
  <2> QED
    BY <1>1, <1>3, <2>1, <2>3, <2>4 DEF ClientsTypeOK, Undisturbed, LockOAuthPolicyExclusive
<1>9. ASSUME NEW value \in Limits, SetProtection(value)
      PROVE  ClientsTypeOK' /\ \A s \in Requests : Undisturbed(s)
  <2>1. /\ LockClientQuotaExclusive /\ limit' = value
        /\ UNCHANGED <<policy, policySnapshots, owners, clients, access, requests>>
    BY <1>9 DEF SetProtection
  <2> QED
    BY <1>1, <2>1, ClientAssumptions DEF ClientsTypeOK, Undisturbed, LockClientQuotaExclusive
<1>10. ASSUME NEW u \in ClientOwners,
              \/ \E override \in Limits \cup {NoOwner} : UpdateOwnerQuota(u, override)
              \/ \E active \in BOOLEAN : SetOwnerActive(u, active)
       PROVE  ClientsTypeOK' /\ \A s \in Requests : Undisturbed(s)
  <2>1. LockOwnerRow(u) /\ UNCHANGED <<policy, limit, policySnapshots, clients, access, requests>>
    BY <1>10 DEF UpdateOwnerQuota, SetOwnerActive, settingVars
  <2>2. owners[u] \in Owner
    BY <1>1
  <2>3. \E row \in Owner : owners' = [owners EXCEPT ![u] = row]
    <3>1. ASSUME NEW override \in Limits \cup {NoOwner}, UpdateOwnerQuota(u, override)
          PROVE  \E row \in Owner : owners' = [owners EXCEPT ![u] = row]
      <4>1. [owners[u] EXCEPT !.override = override] \in Owner
        BY <2>2 DEF Owner
      <4> QED
        BY <3>1, <4>1 DEF UpdateOwnerQuota
    <3>2. ASSUME NEW active \in BOOLEAN, SetOwnerActive(u, active)
          PROVE  \E row \in Owner : owners' = [owners EXCEPT ![u] = row]
      <4>1. [owners[u] EXCEPT !.active = active] \in Owner
        BY <2>2 DEF Owner
      <4> QED
        BY <3>2, <4>1 DEF SetOwnerActive
    <3> QED
      BY <1>10, <3>1, <3>2
  <2>4. owners' \in [ClientOwners -> Owner] /\ \A v \in ClientOwners : v # u => owners'[v] = owners[v]
    BY <1>1, <2>3
  <2> QED
    BY <1>1, <1>3, <2>1, <2>4 DEF ClientsTypeOK, Undisturbed, LockOwnerRow
<1> QED
  BY <1>7, <1>8, <1>9, <1>10 DEF SettingStep

\* Steps that leave settings, owners and rows alone disturb nobody.
LEMMA RowsAlone ==
    ASSUME UNCHANGED <<policy, limit, owners, clients>>
    PROVE  \A s \in Requests : Undisturbed(s)
BY DEF Undisturbed, Owned

\* A request that is accepted, and holds nothing yet.
LEMMA AcceptedInv ==
    ASSUME ClientsInv, NEW r \in Requests, NEW a \in Request,
           requests' = [requests EXCEPT ![r] = a], a.step \in {"built", "replacing"},
           a.step = "built" => a.kind # "access" /\ Validated(a),
           UNCHANGED <<settingVars, owners, clients, access>>
    PROVE  ClientsInv'
<1>1. requests'[r] = a /\ \A s \in Requests : s # r => requests'[s] = requests[s]
  BY DEF ClientsInv, ClientsTypeOK
<1>2. ClientsTypeOK'
  BY DEF ClientsInv, ClientsTypeOK, settingVars
<1>3. \A c \in Clients : ClientRowOK(c)'
  BY DEF ClientsInv, ClientRowOK
<1>4. \A s \in Requests : Undisturbed(s)
  BY RowsAlone DEF settingVars
<1>5. RequestOK(requests[r])'
  BY <1>1 DEF RequestOK, Validated, PolicyPermits
<1>6. \A s \in Requests : LocksApart(requests[r], requests[s])' /\ LocksApart(requests[s], requests[r])'
  BY <1>1 DEF LocksApart
<1> QED
  BY <1>1, <1>2, <1>3, <1>4, <1>5, <1>6, OneRequest

LEMMA RequestsAcceptedInv ==
    ASSUME ClientsInv, NEW r \in Requests,
           \/ \E i \in PolicyInstances, admin \in BOOLEAN, owner \in ClientOwners \cup {NoOwner},
                 scopes \in SUBSET Scopes :
                \/ BuildClient(r, i, admin, owner, scopes)
                \/ \E c \in Clients : UpdateRequest(r, i, admin, owner, c, scopes)
           \/ \E c \in Clients, owner \in ClientOwners \cup {NoOwner} : TransferRequest(r, c, owner)
           \/ \E c \in Clients, list \in SUBSET ClientOwners : ReplaceAccessUsers(r, c, list)
    PROVE  ClientsInv'
<1>1. FirstPolicy \in Policy
  BY DEF FirstPolicy, Policy
<1>2. \A i \in PolicyInstances : policySnapshots[i] \in Policy
  BY DEF ClientsInv, ClientsTypeOK
<1>3. ASSUME NEW i \in PolicyInstances, NEW admin \in BOOLEAN, NEW owner \in ClientOwners \cup {NoOwner},
             NEW scopes \in SUBSET Scopes, BuildClient(r, i, admin, owner, scopes)
      PROVE  ClientsInv'
  <2> DEFINE p == policySnapshots[i]
             a == [Idle EXCEPT !.step = "built", !.admin = admin, !.owner = owner, !.scopes = scopes,
                               !.policy = p]
  <2>1. a \in Request /\ a.step = "built" /\ a.kind = "create" /\ a.client = NoOwner /\ a.policy = p
        /\ a.admin = admin /\ a.owner = owner /\ a.scopes = scopes
    BY <1>2 DEF Idle, Request
  <2>2. /\ requests' = [requests EXCEPT ![r] = a] /\ UNCHANGED <<settingVars, owners, clients, access>>
        /\ admin \/ (owner # NoOwner /\ p.selfService)
        /\ PolicyPermits(p, admin, scopes)
    BY <1>3 DEF BuildClient
  <2> HIDE DEF a, p
  <2>3. Validated(a)
    BY <2>1, <2>2 DEF Validated
  <2> QED
    BY <2>1, <2>2, <2>3, AcceptedInv
<1>4. ASSUME NEW i \in PolicyInstances, NEW admin \in BOOLEAN, NEW owner \in ClientOwners \cup {NoOwner},
             NEW scopes \in SUBSET Scopes, NEW c \in Clients, UpdateRequest(r, i, admin, owner, c, scopes)
      PROVE  ClientsInv'
  <2> DEFINE a == [Idle EXCEPT !.step = "built", !.kind = "update", !.admin = admin,
                       !.owner = owner, !.client = c, !.scopes = scopes, !.policy = policySnapshots[i]]
  <2>1. a \in Request /\ a.step = "built" /\ a.kind = "update" /\ a.client = c
    BY <1>2 DEF Idle, Request
  <2>2. requests' = [requests EXCEPT ![r] = a] /\ UNCHANGED <<settingVars, owners, clients, access>>
    BY <1>4 DEF UpdateRequest
  <2> HIDE DEF a
  <2> QED
    BY <2>1, <2>2, AcceptedInv DEF Validated
<1>5. ASSUME NEW c \in Clients, NEW owner \in ClientOwners \cup {NoOwner}, TransferRequest(r, c, owner)
      PROVE  ClientsInv'
  <2> DEFINE a == [Idle EXCEPT !.step = "built", !.kind = "transfer", !.admin = TRUE,
                               !.owner = owner, !.client = c]
  <2>1. a \in Request /\ a.step = "built" /\ a.kind = "transfer" /\ a.client = c
    BY <1>1 DEF Idle, Request
  <2>2. requests' = [requests EXCEPT ![r] = a] /\ UNCHANGED <<settingVars, owners, clients, access>>
    BY <1>5 DEF TransferRequest
  <2> HIDE DEF a
  <2> QED
    BY <2>1, <2>2, AcceptedInv DEF Validated
<1>6. ASSUME NEW c \in Clients, NEW list \in SUBSET ClientOwners, ReplaceAccessUsers(r, c, list)
      PROVE  ClientsInv'
  <2> DEFINE a == [Idle EXCEPT !.step = "replacing", !.kind = "access", !.admin = TRUE,
                               !.client = c, !.list = list]
  <2>1. a \in Request /\ a.step = "replacing"
    BY <1>1 DEF Idle, Request
  <2>2. requests' = [requests EXCEPT ![r] = a] /\ UNCHANGED <<settingVars, owners, clients, access>>
    BY <1>6 DEF ReplaceAccessUsers
  <2> HIDE DEF a
  <2> QED
    BY <2>1, <2>2, AcceptedInv
<1> QED
  BY <1>3, <1>4, <1>5, <1>6

\* The checks pass while the locks they need are held by nobody else.
LEMMA LockAndCheckInv ==
    ASSUME ClientsInv, NEW r \in Requests, LockAndCheck(r)
    PROVE  ClientsInv'
<1> DEFINE q == requests[r]
<1>1. /\ requests \in [Requests -> Request] /\ q \in Request /\ q.step = "built"
      /\ q.kind # "access" /\ Validated(q)
      /\ UNCHANGED <<policy, limit, policySnapshots, owners, clients, access>>
  BY DEF ClientsInv, ClientsTypeOK, RequestOK, LockAndCheck, settingVars
<1>2. \A s \in Requests : Undisturbed(s)
  BY <1>1, RowsAlone
<1>3. \A c \in Clients : ClientRowOK(c)'
  BY <1>1 DEF ClientsInv, ClientRowOK
<1>4. CASE Passes(r) /\ Goto(r, "locked")
  <2> DEFINE a == [q EXCEPT !.step = "locked"]
  <2>1. requests' = [requests EXCEPT ![r] = a]
    BY <1>4 DEF Goto
  <2>2. a \in Request /\ a.step = "locked" /\ a.kind = q.kind /\ a.client = q.client /\ a.owner = q.owner
        /\ a.policy = q.policy /\ a.admin = q.admin /\ a.scopes = q.scopes
    BY <1>1 DEF Request
  <2>3. q.kind \in {"create", "update", "transfer"}
    BY <1>1 DEF Request
  <2>4. Checked(q)
    BY <1>1, <1>4, <2>3 DEF Passes, Checked, RequireOAuthPolicy, GivesClient
  <2>5. /\ GivesClient(q) => LockOwnerRow(q.owner)
        /\ q.client # NoOwner => LockClientRow(q.client)
    BY DEF LockAndCheck
  <2> HIDE DEF a
  <2>6. requests'[r] = a /\ requests' \in [Requests -> Request]
        /\ \A s \in Requests : s # r => requests'[s] = requests[s]
    BY <1>1, <2>1, <2>2
  <2>6a. /\ GivesClient(requests[r])' <=> GivesClient(q)
         /\ \A s \in Requests : s # r => (GivesClient(requests[s])' <=> GivesClient(requests[s]))
    BY <1>1, <2>2, <2>6 DEF GivesClient
  <2>7. RequestOK(requests[r])'
    <3>1. Validated(requests[r])'
      BY <1>1, <2>2, <2>6 DEF Validated, PolicyPermits
    <3>2. \A u \in ClientOwners : WithinQuota(u)' <=> WithinQuota(u)
      BY <1>1 DEF WithinQuota, Owned, Limit
    <3>3. q.owner \in ClientOwners \cup {NoOwner}
      BY <1>1 DEF Request
    <3>4. q.owner # NoOwner /\ WithinQuota(q.owner) =>
             \E u \in ClientOwners : u = a.owner /\ WithinQuota(u)'
      BY <2>2, <3>2, <3>3
    <3>5. q.owner # NoOwner /\ WithinQuota(q.owner) => WithinQuota(requests[r].owner)'
      BY <2>6, <3>4
    <3>5a. GivesClient(q) => q.owner # NoOwner
      BY DEF GivesClient
    <3>6. Checked(requests[r])'
      BY <1>1, <2>2, <2>4, <2>6, <2>6a, <3>5, <3>5a DEF Checked, PolicyPermits
    <3> QED
      BY <1>1, <2>2, <2>6, <3>1, <3>6 DEF RequestOK
  <2>8. ASSUME NEW s \in Requests, s # r
        PROVE  LocksApart(requests[r], requests[s])' /\ LocksApart(requests[s], requests[r])'
    <3>1. q.kind # "create" => q.client \in Clients /\ q.client # NoOwner
      BY <1>1, ClientAssumptions DEF Validated
    <3> QED
      BY <2>2, <2>5, <2>6, <2>8, <2>6a, <3>1 DEF LocksApart, LockOwnerRow, LockClientRow
  <2>9. ClientsTypeOK'
    BY <1>1, <2>6 DEF ClientsInv, ClientsTypeOK
  <2> QED
    BY <1>2, <1>3, <2>6, <2>7, <2>8, <2>9, OneRequest
<1>5. CASE Finish(r)
  <2>1. requests' \in [Requests -> Request] /\ requests'[r] = Idle
        /\ \A s \in Requests : s # r => requests'[s] = requests[s]
    BY <1>1, <1>5, IdleRequest DEF Finish
  <2>2. ClientsTypeOK'
    BY <1>1, <2>1 DEF ClientsInv, ClientsTypeOK
  <2>3. RequestOK(requests[r])' /\
        \A s \in Requests : LocksApart(requests[r], requests[s])' /\ LocksApart(requests[s], requests[r])'
    BY <2>1, IdleRequest DEF RequestOK, LocksApart
  <2> QED
    BY <1>2, <1>3, <2>1, <2>2, <2>3, OneRequest
<1> QED
  BY <1>4, <1>5 DEF LockAndCheck

\* A transaction that ends has written at most rows it holds.
LEMMA FinishedInv ==
    ASSUME ClientsInv, NEW r \in Requests, Finish(r),
           clients' \in [Clients -> Client], access' \in [Clients -> SUBSET ClientOwners],
           UNCHANGED <<policy, limit, policySnapshots, owners>>,
           \A c \in Clients : ClientRowOK(c)',
           \A s \in Requests : s # r => Undisturbed(s)
    PROVE  ClientsInv'
<1>1. requests' \in [Requests -> Request] /\ requests'[r] = Idle
      /\ \A s \in Requests : s # r => requests'[s] = requests[s]
  BY IdleRequest DEF Finish, ClientsInv, ClientsTypeOK
<1>2. ClientsTypeOK'
  BY <1>1 DEF ClientsInv, ClientsTypeOK
<1>3. RequestOK(requests[r])' /\
      \A s \in Requests : LocksApart(requests[r], requests[s])' /\ LocksApart(requests[s], requests[r])'
  BY <1>1, IdleRequest DEF RequestOK, LocksApart
<1> QED
  BY <1>1, <1>2, <1>3, OneRequest

LEMMA RollBackInv ==
    ASSUME ClientsInv, NEW r \in Requests, RollBack(r)
    PROVE  ClientsInv'
<1>1. Finish(r) /\ UNCHANGED <<policy, limit, policySnapshots, owners, clients, access>>
  BY DEF RollBack, settingVars
<1>2. \A c \in Clients : ClientRowOK(c)'
  BY <1>1 DEF ClientsInv, ClientRowOK
<1>3. \A s \in Requests : Undisturbed(s)
  BY <1>1, RowsAlone
<1> QED
  BY <1>1, <1>2, <1>3, FinishedInv DEF ClientsInv, ClientsTypeOK

\* What a commit writes: one row, under what was checked.
Written(r, c) ==
    LET q == requests[r] IN
    /\ clients' \in [Clients -> Client] /\ \A d \in Clients : d # c => clients'[d] = clients[d]
    /\ clients'[c].there /\ clients'[c].secret \in {1, 2}
    /\ q.kind \in {"create", "update", "transfer"} /\ Validated(q) /\ Checked(q)
    /\ q.kind = "create" =>
          /\ clients[c] = NoClient /\ clients'[c].owner = q.owner /\ clients'[c].scopes = q.scopes
          /\ clients'[c].publisher = IF q.admin THEN "system" ELSE "unverified"
    /\ q.kind # "create" => c = q.client /\ clients[c].there
    /\ q.kind = "update" => clients'[c].scopes = q.scopes /\ clients'[c].owner = clients[c].owner
    /\ q.kind = "transfer" => clients'[c].scopes = clients[c].scopes /\ clients'[c].owner = q.owner

LEMMA CommitWrites ==
    ASSUME ClientsInv, NEW r \in Requests, NEW c \in Clients, Commit(r, c)
    PROVE  Written(r, c)
<1> DEFINE q == requests[r]
<1>1. /\ clients \in [Clients -> Client] /\ clients[c] \in Client /\ q \in Request
      /\ q.step = "locked" /\ RequestOK(q) /\ ClientRowOK(c)
  BY DEF ClientsInv, ClientsTypeOK, Commit
<1>2. q.kind \in {"create", "update", "transfer"} /\ Validated(q) /\ Checked(q)
  BY <1>1 DEF RequestOK, Request
<1>3. q.owner \in ClientOwners \cup {NoOwner} /\ q.scopes \in SUBSET Scopes /\ q.admin \in BOOLEAN
  BY <1>1 DEF Request
<1>4. CASE q.kind = "create"
  <2> DEFINE row == [there |-> TRUE, owner |-> q.owner, scopes |-> q.scopes, secret |-> 1,
                     used |-> FALSE, publisher |-> IF q.admin THEN "system" ELSE "unverified"]
  <2>1. clients' = [clients EXCEPT ![c] = row] /\ clients[c] = NoClient
    BY <1>1, <1>4 DEF Commit, ClientRowOK
  <2>2. row \in Client /\ row.there /\ row.secret \in {1, 2} /\ row.owner = q.owner /\ row.scopes = q.scopes
        /\ row.publisher = IF q.admin THEN "system" ELSE "unverified"
    BY <1>3 DEF Client
  <2> HIDE DEF row, q
  <2>3. clients' \in [Clients -> Client] /\ clients'[c] = row
        /\ \A d \in Clients : d # c => clients'[d] = clients[d]
    BY <1>1, <2>1, <2>2
  <2> QED
    BY <1>2, <1>4, <2>1, <2>2, <2>3 DEF Written, q
<1>5. CASE q.kind # "create"
  <2>1. c = q.client /\ clients[c].there /\ clients[c].secret \in {1, 2}
    BY <1>1, <1>2, <1>5 DEF Commit, Checked, ClientRowOK
  <2>2. \E row \in Client :
          /\ clients' = [clients EXCEPT ![c] = row] /\ row.there /\ row.secret \in {1, 2}
          /\ q.kind = "update" => row.scopes = q.scopes /\ row.owner = clients[c].owner
          /\ q.kind = "transfer" => row.scopes = clients[c].scopes /\ row.owner = q.owner
    <3>1. CASE q.kind = "update"
      <4> DEFINE row == [clients[c] EXCEPT !.scopes = q.scopes]
      <4>1. clients' = [clients EXCEPT ![c] = row]
        BY <3>1 DEF Commit
      <4>2. row \in Client /\ row.there /\ row.secret \in {1, 2} /\ row.scopes = q.scopes
            /\ row.owner = clients[c].owner
        BY <1>1, <1>3, <2>1 DEF Client
      <4> QED
        BY <3>1, <4>1, <4>2
    <3>2. CASE q.kind = "transfer"
      <4> DEFINE row == [clients[c] EXCEPT !.owner = q.owner]
      <4>1. clients' = [clients EXCEPT ![c] = row]
        BY <3>2 DEF Commit
      <4>2. row \in Client /\ row.there /\ row.secret \in {1, 2} /\ row.owner = q.owner
            /\ row.scopes = clients[c].scopes
        BY <1>1, <1>3, <2>1 DEF Client
      <4> QED
        BY <3>2, <4>1, <4>2
    <3> QED
      BY <1>2, <1>5, <3>1, <3>2
  <2> HIDE DEF q
  <2> QED
    BY <1>1, <1>2, <1>5, <2>1, <2>2 DEF Written, q
<1> QED
  BY <1>4, <1>5

LEMMA CommitInv ==
    ASSUME ClientsInv, NEW r \in Requests, NEW c \in Clients, Commit(r, c)
    PROVE  ClientsInv'
<1> DEFINE q == requests[r]
<1>1. Written(r, c) /\ q.step = "locked" /\ Finish(r)
      /\ UNCHANGED <<policy, limit, policySnapshots, owners, access>>
  BY CommitWrites DEF Commit, settingVars
<1>2. clients' \in [Clients -> Client] /\ \A d \in Clients : d # c => clients'[d] = clients[d]
  BY <1>1 DEF Written
<1>3. \A d \in Clients : ClientRowOK(d)'
  BY <1>1 DEF ClientsInv, ClientRowOK, Written
<1>4. ASSUME NEW s \in Requests, s # r PROVE Undisturbed(s)
  <2>1. SUFFICES ASSUME requests[s].step = "locked" PROVE Undisturbed(s)
    BY DEF Undisturbed
  <2>2. RequestOK(requests[s]) /\ LocksApart(q, requests[s])
    BY <1>4 DEF ClientsInv
  <2>3. requests[s].kind # "create" => requests[s].client \in Clients /\ clients[requests[s].client].there
    BY <2>1, <2>2 DEF RequestOK, Validated, Checked
  <2>4. requests[s].kind # "create" => requests[s].client # c
    BY <1>1, <2>1, <2>2, <2>3 DEF Written, LocksApart, NoClient
  <2>5. ASSUME NEW u \in ClientOwners, GivesClient(requests[s]), requests[s].owner = u
        PROVE  Owned(u)' \subseteq Owned(u)
    <3>1. GivesClient(q) => q.owner # u
      BY <1>1, <2>1, <2>2, <2>5 DEF LocksApart
    <3>2. CASE q.kind = "create"
      BY <1>1, <1>2, <3>1, <3>2, ClientAssumptions DEF Written, Owned, GivesClient
    <3>3. CASE q.kind = "transfer"
      BY <1>1, <1>2, <3>1, <3>3, ClientAssumptions DEF Written, Owned, GivesClient
    <3>4. CASE q.kind = "update"
      BY <1>1, <1>2, <3>4 DEF Written, Owned
    <3> QED
      BY <1>1, <3>2, <3>3, <3>4 DEF Written
  <2> QED
    BY <1>1, <1>2, <2>3, <2>4, <2>5 DEF Undisturbed
<1>5. access' \in [Clients -> SUBSET ClientOwners]
  BY <1>1 DEF ClientsInv, ClientsTypeOK
<1> QED
  BY <1>1, <1>2, <1>3, <1>4, <1>5, FinishedInv

\* A row is edited or removed while no transaction holds it: nobody is given a
\* client, and requests for a client that is gone have found no row.
LEMMA RowStepsInv ==
    ASSUME ClientsInv, ClientStep
    PROVE  ClientsInv'
<1>1. /\ ClientsTypeOK /\ clients \in [Clients -> Client] /\ access \in [Clients -> SUBSET ClientOwners]
      /\ requests \in [Requests -> Request]
  BY DEF ClientsInv, ClientsTypeOK
<1> DEFINE none == CHOOSE x : x \notin Requests
<1>2. none \notin Requests
  BY NoSetContainsEverything
<1> HIDE DEF none
<1>3. ASSUME NEW c \in Clients, NEW row \in Client, clients' = [clients EXCEPT ![c] = row],
             row = NoClient \/ (/\ clients[c].there /\ row.there /\ row.secret \in {1, 2}
                                /\ row.owner = clients[c].owner /\ row.scopes = clients[c].scopes),
             access' \in [Clients -> SUBSET ClientOwners], requests' \in [Requests -> Request],
             UNCHANGED <<policy, limit, policySnapshots, owners>>,
             \A s \in Requests : \/ requests'[s] = requests[s] /\ (row = NoClient => requests[s].client # c)
                                 \/ requests'[s] = Idle
      PROVE  ClientsInv'
  <2>1. clients' \in [Clients -> Client] /\ clients'[c] = row
        /\ \A d \in Clients : d # c => clients'[d] = clients[d]
    BY <1>1, <1>3
  <2>2. ClientsTypeOK'
    BY <1>1, <1>3, <2>1 DEF ClientsTypeOK
  <2>3. \A d \in Clients : ClientRowOK(d)'
    <3>1. ClientRowOK(c)'
      <4>1. CASE row = NoClient
        BY <2>1, <4>1 DEF ClientRowOK, NoClient
      <4>2. CASE row # NoClient
        BY <1>3, <2>1, <4>2 DEF ClientRowOK
      <4> QED
        BY <4>1, <4>2
    <3>2. \A d \in Clients : d # c => ClientRowOK(d)'
      BY <2>1 DEF ClientsInv, ClientRowOK
    <3> QED
      BY <3>1, <3>2
  <2>4. \A u \in ClientOwners : Owned(u)' \subseteq Owned(u)
    BY <1>3, <2>1 DEF Owned, NoClient
  <2>5. ASSUME NEW s \in Requests, requests'[s] = requests[s], row = NoClient => requests[s].client # c
        PROVE  Undisturbed(s)
    <3>1. SUFFICES ASSUME requests[s].step = "locked" PROVE Undisturbed(s)
      BY DEF Undisturbed
    <3>2. requests[s].kind # "create" => requests[s].client \in Clients
      BY <3>1 DEF ClientsInv, RequestOK, Validated
    <3>3. requests[s].kind # "create" =>
              /\ clients'[requests[s].client].there = clients[requests[s].client].there
              /\ clients'[requests[s].client].owner = clients[requests[s].client].owner
              /\ clients'[requests[s].client].scopes = clients[requests[s].client].scopes
      <4>1. CASE requests[s].client = c
        <5>1. row.there = clients[c].there
          BY <1>3, <2>5, <4>1, <1>1 DEF Client
        <5> QED
          BY <1>3, <2>1, <2>5, <4>1, <5>1
      <4>2. CASE requests[s].client # c
        BY <2>1, <3>2, <4>2
      <4> QED
        BY <4>1, <4>2
    <3> QED
      BY <1>3, <2>4, <3>3 DEF Undisturbed
  <2>6. \A s \in Requests : \/ requests'[s] = requests[s] /\ Undisturbed(s)
                            \/ requests'[s].step \notin {"built", "locked"}
    BY <1>3, <2>5, IdleRequest
  <2> QED
    BY <1>2, <2>2, <2>3, <2>6, OneRequest
<1>4. ASSUME NEW c \in Clients, DeleteClient(c) PROVE ClientsInv'
  <2>1. NoClient \in Client
    BY DEF NoClient, Client
  <2>2. /\ clients' = [clients EXCEPT ![c] = NoClient] /\ access' = [access EXCEPT ![c] = {}]
        /\ requests' = [r \in Requests |-> IF requests[r].client = c THEN Idle ELSE requests[r]]
        /\ UNCHANGED <<policy, limit, policySnapshots, owners>>
    BY <1>4 DEF DeleteClient, settingVars
  <2>3. access' \in [Clients -> SUBSET ClientOwners] /\ requests' \in [Requests -> Request]
    BY <1>1, <2>2, IdleRequest
  <2>4. \A s \in Requests : \/ requests'[s] = requests[s] /\ requests[s].client # c
                            \/ requests'[s] = Idle
    BY <2>2
  <2> QED
    BY <1>3, <2>1, <2>2, <2>3, <2>4
<1>5. ASSUME NEW c \in Clients, NEW row \in Client, clients' = [clients EXCEPT ![c] = row],
             clients[c].there, row.there, row.secret \in {1, 2},
             row.owner = clients[c].owner, row.scopes = clients[c].scopes,
             UNCHANGED <<policy, limit, policySnapshots, owners, access, requests>>
      PROVE  ClientsInv'
  <2>1. row # NoClient
    BY <1>5 DEF NoClient
  <2> QED
    BY <1>1, <1>3, <1>5, <2>1
<1>6. ASSUME NEW c \in Clients, clients[c].there
      PROVE  clients[c] \in Client /\ clients[c].secret \in {1, 2}
  BY <1>1, <1>6 DEF ClientsInv, ClientRowOK
<1>7. ASSUME NEW c \in Clients, RotateSecret(c) PROVE ClientsInv'
  <2>1. clients[c].there /\ UNCHANGED <<policy, limit, policySnapshots, owners, access, requests>>
    BY <1>7 DEF RotateSecret, settingVars
  <2> DEFINE row == [clients[c] EXCEPT !.secret = 3 - clients[c].secret, !.used = FALSE]
  <2>2. 3 - clients[c].secret \in {1, 2} /\ 3 - clients[c].secret \in Nat
    BY <1>6, <2>1
  <2>3. row \in Client /\ row.there /\ row.secret \in {1, 2} /\ row.owner = clients[c].owner
        /\ row.scopes = clients[c].scopes
    BY <1>6, <2>1, <2>2 DEF Client
  <2>4. clients' = [clients EXCEPT ![c] = row]
    BY <1>7, <1>1 DEF RotateSecret
  <2> HIDE DEF row
  <2> QED
    BY <1>5, <2>1, <2>3, <2>4
<1>8. ASSUME NEW c \in Clients, NEW status \in {"unverified", "verified"}, VerifyPublisher(c, status)
      PROVE  ClientsInv'
  <2> DEFINE row == [clients[c] EXCEPT !.publisher = status]
  <2>1. clients[c].there /\ UNCHANGED <<policy, limit, policySnapshots, owners, access, requests>>
        /\ clients' = [clients EXCEPT ![c] = row]
    BY <1>8 DEF VerifyPublisher, settingVars
  <2>2. row \in Client /\ row.there /\ row.secret \in {1, 2} /\ row.owner = clients[c].owner
        /\ row.scopes = clients[c].scopes
    BY <1>6, <2>1 DEF Client
  <2> HIDE DEF row
  <2> QED
    BY <1>5, <2>1, <2>2
<1>9. ASSUME NEW c \in Clients, NEW v \in {1, 2}, AuthenticateClient(c, v) PROVE ClientsInv'
  <2> DEFINE row == [clients[c] EXCEPT !.used = TRUE]
  <2>1. clients[c].there /\ UNCHANGED <<policy, limit, policySnapshots, owners, access, requests>>
        /\ clients' = [clients EXCEPT ![c] = row]
    BY <1>9 DEF AuthenticateClient, settingVars
  <2>2. row \in Client /\ row.there /\ row.secret \in {1, 2} /\ row.owner = clients[c].owner
        /\ row.scopes = clients[c].scopes
    BY <1>6, <2>1 DEF Client
  <2> HIDE DEF row
  <2> QED
    BY <1>5, <2>1, <2>2
<1> QED
  BY <1>4, <1>7, <1>8, <1>9 DEF ClientStep

\* A replaced allowlist overtakes other replacements, and no transaction.
LEMMA ReplaceCommitsInv ==
    ASSUME ClientsInv, NEW r \in Requests, ReplaceAccessUsersCommits(r)
    PROVE  ClientsInv'
<1> DEFINE q == requests[r]
<1>1. /\ ClientsTypeOK /\ access \in [Clients -> SUBSET ClientOwners] /\ requests \in [Requests -> Request]
  BY DEF ClientsInv, ClientsTypeOK
<1>2. UNCHANGED <<policy, limit, policySnapshots, owners, clients>>
      /\ access' = [access EXCEPT ![q.client] = IF q.overtaken THEN access[q.client] \cup q.list ELSE q.list]
  BY DEF ReplaceAccessUsersCommits, settingVars
<1>3. requests' = [s \in Requests |-> IF s = r THEN Idle
                      ELSE [requests[s] EXCEPT !.overtaken =
                       @ \/ (requests[s].step = "replacing" /\ requests[s].client = q.client)]]
  BY DEF ReplaceAccessUsersCommits
<1>4. access' \in [Clients -> SUBSET ClientOwners]
  <2>1. q.list \in SUBSET ClientOwners
    BY <1>1 DEF Request
  <2>2. q.client \in Clients => access[q.client] \in SUBSET ClientOwners
    BY <1>1
  <2> HIDE DEF q
  <2> QED
    BY <1>1, <1>2, <2>1, <2>2
<1>5. ASSUME NEW s \in Requests PROVE requests'[s] \in Request
  <2>1. CASE s = r
    BY <1>3, <2>1, IdleRequest
  <2>2. CASE s # r
    <3> DEFINE o == requests[s].overtaken \/ (requests[s].step = "replacing" /\ requests[s].client = q.client)
    <3>1. o \in BOOLEAN
      OBVIOUS
    <3>2. requests'[s] = [requests[s] EXCEPT !.overtaken = o]
      BY <1>3, <2>2
    <3>3. requests[s] \in Request
      BY <1>1
    <3> HIDE DEF o
    <3> QED
      BY <3>1, <3>2, <3>3 DEF Request
  <2> QED
    BY <2>1, <2>2
<1>6. requests' \in [Requests -> Request]
  BY <1>3, <1>5
<1>7. ASSUME NEW s \in Requests, s # r
      PROVE  requests'[s] = requests[s] \/ requests'[s].step = "replacing"
  <2>1. requests[s] \in Request
    BY <1>1
  <2>2. CASE requests[s].step = "replacing"
    BY <1>3, <1>7, <2>1, <2>2 DEF Request
  <2>3. CASE requests[s].step # "replacing"
    <3>1. requests[s].overtaken \in BOOLEAN
      BY <2>1 DEF Request
    <3>2. (requests[s].overtaken \/ (requests[s].step = "replacing" /\ requests[s].client = q.client))
             = requests[s].overtaken
      BY <2>3, <3>1
    <3>3. requests'[s] = [requests[s] EXCEPT !.overtaken = requests[s].overtaken]
      BY <1>3, <1>7, <3>2
    <3> QED
      BY <2>1, <3>3 DEF Request
  <2> QED
    BY <2>2, <2>3
<1>8. ClientsTypeOK'
  BY <1>1, <1>2, <1>4, <1>6 DEF ClientsTypeOK
<1>9. \A c \in Clients : ClientRowOK(c)'
  BY <1>2 DEF ClientsInv, ClientRowOK
<1>10. \A s \in Requests : Undisturbed(s)
  BY <1>2, RowsAlone
<1>11. requests'[r] = Idle
  BY <1>3
<1>12. RequestOK(requests[r])' /\
       \A s \in Requests : LocksApart(requests[r], requests[s])' /\ LocksApart(requests[s], requests[r])'
  BY <1>11, IdleRequest DEF RequestOK, LocksApart
<1>13. \A s \in Requests : s # r => \/ requests'[s] = requests[s] /\ Undisturbed(s)
                                    \/ requests'[s].step \notin {"built", "locked"}
  BY <1>7, <1>10
<1> QED
  BY <1>8, <1>9, <1>12, <1>13, OneRequest

LEMMA ClientsStart ==
    ASSUME ClientsInit
    PROVE  ClientsInv
<1>1. FirstPolicy \in Policy /\ NoClient \in Client
  BY DEF FirstPolicy, Policy, NoClient, Client
<1>2. ClientsTypeOK
  <2>1. [active |-> TRUE, override |-> NoOwner] \in Owner
    BY DEF Owner
  <2> QED
    BY <1>1, <2>1, IdleRequest DEF ClientsInit, ClientsTypeOK
<1>3. \A c \in Clients : ClientRowOK(c)
  BY DEF ClientsInit, ClientRowOK, NoClient
<1>4. \A r \in Requests : requests[r].step = "idle"
  BY IdleRequest DEF ClientsInit
<1> QED
  BY <1>2, <1>3, <1>4 DEF ClientsInv, RequestOK, LocksApart

LEMMA ClientsStepInv ==
    ASSUME ClientsInv, [ClientsNext]_clientVars
    PROVE  ClientsInv'
<1>1. CASE SettingStep
  BY <1>1, SettingsInv
<1>2. CASE ClientStep
  BY <1>2, RowStepsInv
<1>3. ASSUME NEW r \in Requests, ClientRequestStep(r) PROVE ClientsInv'
  <2>1. CASE LockAndCheck(r)
    BY <2>1, LockAndCheckInv
  <2>2. CASE RollBack(r)
    BY <2>2, RollBackInv
  <2>3. CASE ReplaceAccessUsersCommits(r)
    BY <2>3, ReplaceCommitsInv
  <2>4. CASE \E c \in Clients : Commit(r, c)
    BY <2>4, CommitInv
  <2> QED
    BY <1>3, <2>1, <2>2, <2>3, <2>4, RequestsAcceptedInv DEF ClientRequestStep
<1>4. CASE UNCHANGED clientVars
  <2>1. ClientsTypeOK' /\ UNCHANGED <<policy, limit, owners, clients, requests>>
    BY <1>4 DEF clientVars, ClientsInv, ClientsTypeOK
  <2>2. \A s \in Requests : Undisturbed(s)
    BY <2>1, RowsAlone
  <2>3. \A c \in Clients : ClientRowOK(c)'
    BY <2>1 DEF ClientsInv, ClientRowOK
  <2> DEFINE none == CHOOSE x : x \notin Requests
  <2>4. none \notin Requests
    BY NoSetContainsEverything
  <2> HIDE DEF none
  <2> QED
    BY <2>1, <2>2, <2>3, <2>4, OneRequest
<1> QED
  BY <1>1, <1>2, <1>3, <1>4 DEF ClientsNext

\* Rows of clients are written by commits and by the steps of a row; the latter
\* give nobody a client and give no client a scope.
LEMMA WhoWritesClients ==
    ASSUME ClientsInv, ClientsNext
    PROVE  \/ \E r \in Requests, c \in Clients : Commit(r, c)
           \/ \A c \in Clients : \/ clients'[c] = clients[c] \/ clients'[c] = NoClient
                                 \/ /\ clients[c].there /\ clients'[c].owner = clients[c].owner
                                    /\ clients'[c].scopes = clients[c].scopes
<1>1. clients \in [Clients -> Client]
  BY DEF ClientsInv, ClientsTypeOK
<1>2. CASE SettingStep
  BY <1>2 DEF SettingStep, LoadPolicy, SetOAuthPolicy, SetProtection, UpdateOwnerQuota, SetOwnerActive
<1>3. ASSUME NEW r \in Requests, ClientRequestStep(r)
      PROVE  (\E c \in Clients : Commit(r, c)) \/ clients' = clients
  BY <1>3 DEF ClientRequestStep, BuildClient, UpdateRequest, TransferRequest, LockAndCheck, RollBack,
              ReplaceAccessUsersCommits, ReplaceAccessUsers
<1>4. ASSUME NEW d \in Clients, clients[d].there,
             \/ clients' = [clients EXCEPT ![d] = NoClient]
             \/ \E status \in {"unverified", "verified"} : clients' = [clients EXCEPT ![d].publisher = status]
             \/ clients' = [clients EXCEPT ![d].secret = 3 - @, ![d].used = FALSE]
             \/ clients' = [clients EXCEPT ![d].used = TRUE]
      PROVE  \A c \in Clients : \/ clients'[c] = clients[c] \/ clients'[c] = NoClient
                                \/ /\ clients[c].there /\ clients'[c].owner = clients[c].owner
                                   /\ clients'[c].scopes = clients[c].scopes
  <2>1. clients[d] \in Client
    BY <1>1
  <2> QED
    BY <1>1, <1>4, <2>1 DEF Client
<1>5. CASE ClientStep
  BY <1>4, <1>5 DEF ClientStep, DeleteClient, RotateSecret, VerifyPublisher, AuthenticateClient
<1> QED
  BY <1>2, <1>3, <1>5 DEF ClientsNext

LEMMA GivenByCommit ==
    ASSUME ClientsInv, NEW r \in Requests, NEW c \in Clients, Commit(r, c), NEW u \in ClientOwners,
           Owned(u)' \ Owned(u) # {}
    PROVE  owners[u].active /\ Cardinality(Owned(u)') <= Limit(u)
<1> DEFINE q == requests[r]
<1>1. Written(r, c)
  BY CommitWrites
<1>2. c \in Owned(u)' /\ c \notin Owned(u) /\ Owned(u)' = Owned(u) \cup {c}
  BY <1>1 DEF Written, Owned
<1>3. clients'[c].owner = u /\ ~(clients[c].there /\ clients[c].owner = u)
  BY <1>2 DEF Owned
<1>4. WithinQuota(u)
  <2>1. CASE q.kind = "create"
    BY <1>1, <1>3, <2>1, ClientAssumptions DEF Written, Checked, GivesClient
  <2>2. CASE q.kind = "update"
    BY <1>1, <1>3, <2>2 DEF Written
  <2>3. CASE q.kind = "transfer"
    BY <1>1, <1>3, <2>3, ClientAssumptions DEF Written, Checked, GivesClient
  <2> QED
    BY <1>1, <2>1, <2>2, <2>3 DEF Written
<1>5. Limit(u) \in Nat
  BY LimitIsNumber DEF ClientsInv
<1> DEFINE old == Owned(u)
<1>6. IsFiniteSet(old)
  BY FS_Subset, ClientAssumptions DEF Owned
<1>7. owners[u].active /\ Cardinality(old) < Limit(u)
  BY <1>4 DEF WithinQuota
<1> HIDE DEF old
<1>8. Cardinality(old \cup {c}) = Cardinality(old) + 1 /\ Cardinality(old) \in Nat
  BY <1>2, <1>6, FS_AddElement, FS_CardinalityType DEF old
<1>9. Cardinality(old \cup {c}) <= Limit(u)
  BY <1>5, <1>7, <1>8
<1> QED
  BY <1>2, <1>7, <1>9 DEF old

(***************************************************************************)
(* Whoever is given a client, by creating it or by a transfer, is active   *)
(* at that moment and owns no more clients than the limit then in force.   *)
(* The count taken by lockActiveOwnerQuota still stands at the commit: the *)
(* owner's row is locked, the quota lock is shared, and no other           *)
(* transaction under way gives a client to the same owner.                 *)
(***************************************************************************)
THEOREM ClientsAreGivenWithinTheQuota == ClientsSpec => GivenWithinQuota
<1>1. ClientsInit => ClientsInv
  BY ClientsStart
<1>2. ClientsInv /\ [ClientsNext]_clientVars => ClientsInv'
  BY ClientsStepInv
<1>3. ASSUME ClientsInv, [ClientsNext]_clientVars
      PROVE  [\A u \in ClientOwners : Owned(u)' \ Owned(u) # {} =>
                 owners[u].active /\ Cardinality(Owned(u)') <= Limit(u)]_clientVars
  <2> SUFFICES ASSUME ClientsNext, NEW u \in ClientOwners, Owned(u)' \ Owned(u) # {}
               PROVE  owners[u].active /\ Cardinality(Owned(u)') <= Limit(u)
    BY <1>3
  <2>1. CASE \E r \in Requests, c \in Clients : Commit(r, c)
    BY <1>3, <2>1, GivenByCommit
  <2>2. CASE \A c \in Clients : \/ clients'[c] = clients[c] \/ clients'[c] = NoClient
                                \/ /\ clients[c].there /\ clients'[c].owner = clients[c].owner
                                   /\ clients'[c].scopes = clients[c].scopes
    <3>1. Owned(u)' \subseteq Owned(u)
      BY <2>2 DEF Owned, NoClient
    <3> QED
      BY <3>1
  <2> QED
    BY <1>3, <2>1, <2>2, WhoWritesClients
<1> QED
  BY <1>1, <1>2, <1>3, PTL DEF ClientsSpec, GivenWithinQuota

LEMMA ScopesByCommit ==
    ASSUME ClientsInv, NEW r \in Requests, NEW d \in Clients, Commit(r, d), NEW c \in Clients
    PROVE  /\ clients'[c].scopes \ clients[c].scopes \subseteq policy.allowed
           /\ (~clients[c].there /\ clients'[c].publisher = "unverified")
                 => policy.selfService /\ clients'[c].scopes \subseteq policy.assignable
<1> DEFINE q == requests[r]
<1>1. Written(r, d)
  BY CommitWrites
<1>2. CASE c # d
  <2>1. clients'[c] = clients[c]
    BY <1>1, <1>2 DEF Written
  <2>2. ~clients[c].there => clients[c].publisher = "system"
    BY DEF ClientsInv, ClientRowOK, NoClient
  <2> QED
    BY <2>1, <2>2
<1>3. CASE c = d /\ q.kind = "create"
  <2>1. clients'[c].scopes = q.scopes /\ policy = q.policy /\ PolicyPermits(q.policy, q.admin, q.scopes)
        /\ (q.admin \/ q.policy.selfService) /\ clients'[c].publisher = IF q.admin THEN "system" ELSE "unverified"
    BY <1>1, <1>3 DEF Written, Validated, Checked
  <2> QED
    BY <2>1 DEF PolicyPermits
<1>4. CASE c = d /\ q.kind = "update"
  BY <1>1, <1>4 DEF Written, Checked, PolicyPermits
<1>5. CASE c = d /\ q.kind = "transfer"
  BY <1>1, <1>5 DEF Written
<1> QED
  BY <1>1, <1>2, <1>3, <1>4, <1>5 DEF Written

(***************************************************************************)
(* A client gets only scopes that the policy stored at that moment allows, *)
(* and users create clients only while it lets them.  The request was      *)
(* validated against the snapshot of its instance; RequireOAuthPolicyTx    *)
(* compares it with the stored policy under the shared advisory lock, and  *)
(* that policy cannot change before the commit.                            *)
(***************************************************************************)
THEOREM ClientScopesFollowThePolicy == ClientsSpec => NewScopesAreAllowed
<1>1. ClientsInit => ClientsInv
  BY ClientsStart
<1>2. ClientsInv /\ [ClientsNext]_clientVars => ClientsInv'
  BY ClientsStepInv
<1>3. ASSUME ClientsInv, [ClientsNext]_clientVars
      PROVE  [\A c \in Clients :
                /\ clients'[c].scopes \ clients[c].scopes \subseteq policy.allowed
                /\ (~clients[c].there /\ clients'[c].publisher = "unverified")
                      => policy.selfService /\ clients'[c].scopes \subseteq policy.assignable]_clientVars
  <2> SUFFICES ASSUME ClientsNext, NEW c \in Clients
               PROVE  /\ clients'[c].scopes \ clients[c].scopes \subseteq policy.allowed
                      /\ (~clients[c].there /\ clients'[c].publisher = "unverified")
                            => policy.selfService /\ clients'[c].scopes \subseteq policy.assignable
    BY <1>3
  <2>1. CASE \E r \in Requests, d \in Clients : Commit(r, d)
    BY <1>3, <2>1, ScopesByCommit
  <2>2. CASE \A d \in Clients : \/ clients'[d] = clients[d] \/ clients'[d] = NoClient
                                \/ /\ clients[d].there /\ clients'[d].owner = clients[d].owner
                                   /\ clients'[d].scopes = clients[d].scopes
    <3>1. ~clients[c].there => clients[c] = NoClient
      BY <1>3 DEF ClientsInv, ClientRowOK
    <3> QED
      BY <2>2, <3>1 DEF NoClient
  <2> QED
    BY <1>3, <2>1, <2>2, WhoWritesClients
<1> QED
  BY <1>1, <1>2, <1>3, PTL DEF ClientsSpec, NewScopesAreAllowed

-----------------------------------------------------------------------------
(* Providers *)

\* The rows a reload under way has read.
LEMMA RowsRead ==
    ASSUME RowsTypeOK, NEW i \in ProviderInstances, loading[i] # <<>>
    PROVE  loading[i][1] \in [Names -> ProviderRow]
<1>1. loading[i] \in Seq([Names -> ProviderRow])
  BY DEF RowsTypeOK
<1> QED
  BY <1>1, EmptySeq, ElementOfSeq, LenProperties

\* What a step may do to the snapshots.
NoneGoesBack ==
    \A i \in ProviderInstances, n \in Names :
        providerSnapshots'[i][n].change >= providerSnapshots[i][n].change

LEMMA RowNumbers ==
    ASSUME RowsTypeOK
    PROVE  \A n \in Names : /\ providers[n].change \in Nat
                            /\ \A i \in ProviderInstances :
                                  /\ providerSnapshots[i][n].change \in Nat
                                  /\ loading[i] # <<>> => loading[i][1][n].change \in Nat
<1>1. \A n \in Names : providers[n].change \in Nat
  BY DEF RowsTypeOK, ProviderRow
<1>2. ASSUME NEW i \in ProviderInstances, NEW n \in Names PROVE providerSnapshots[i][n].change \in Nat
  <2>1. providerSnapshots[i] \in [Names -> Entry]
    BY DEF RowsTypeOK
  <2> QED
    BY <2>1 DEF Entry
<1>3. ASSUME NEW i \in ProviderInstances, NEW n \in Names, loading[i] # <<>>
      PROVE  loading[i][1][n].change \in Nat
  BY <1>3, RowsRead DEF ProviderRow
<1> QED
  BY <1>1, <1>2, <1>3

\* A commit of instance i, which replaces no snapshot meanwhile.
LEMMA RowCommitted ==
    ASSUME SnapshotInv, NEW i \in ProviderInstances, NEW n \in Names, NEW row \in ProviderRow,
           row.change = providers[n].change + 1, loading[i] = <<>>,
           providers' = [providers EXCEPT ![n] = row], SetDynamicProvider(i, n, row),
           loading' = loading, updating' \in [ProviderInstances -> {<<>>} \cup (Names \X ProviderRow)],
           \A j \in ProviderInstances : updating'[j] \in {<<>>, updating[j]}
    PROVE  SnapshotInv' /\ NoneGoesBack
<1>1. RowsTypeOK /\ providers \in [Names -> ProviderRow]
      /\ providerSnapshots \in [ProviderInstances -> [Names -> Entry]]
  BY DEF SnapshotInv, RowsTypeOK
<1> DEFINE entry == [on |-> row.there /\ row.enabled, change |-> row.change]
<1>2. providerSnapshots' = [providerSnapshots EXCEPT ![i][n] = entry]
  BY DEF SetDynamicProvider
<1>3. entry \in Entry /\ entry.change = row.change /\ row.change \in Nat
  BY DEF Entry, ProviderRow
<1> HIDE DEF entry
<1>4. /\ providerSnapshots' \in [ProviderInstances -> [Names -> Entry]]
      /\ providerSnapshots'[i][n] = entry
      /\ \A j \in ProviderInstances, m \in Names :
            j # i \/ m # n => providerSnapshots'[j][m] = providerSnapshots[j][m]
  <2>1. providerSnapshots[i] \in [Names -> Entry]
    BY <1>1
  <2>2. [providerSnapshots[i] EXCEPT ![n] = entry] \in [Names -> Entry]
    BY <1>3, <2>1
  <2> QED
    BY <1>1, <1>2, <2>1, <2>2
<1>5. providers' \in [Names -> ProviderRow] /\ providers'[n] = row
      /\ \A m \in Names : m # n => providers'[m] = providers[m]
  BY <1>1
<1>6. RowsTypeOK'
  BY <1>1, <1>4, <1>5 DEF RowsTypeOK
<1>7. \A m \in Names : providers[m].change \in Nat /\ providers'[m].change \in Nat
      /\ providers[m].change <= providers'[m].change
  BY <1>3, <1>5, <1>1, RowNumbers
<1>8. ASSUME NEW j \in ProviderInstances, NEW m \in Names
      PROVE  /\ providerSnapshots'[j][m].change >= providerSnapshots[j][m].change
             /\ providerSnapshots'[j][m].change <= providers'[m].change
             /\ loading[j] # <<>> => /\ providerSnapshots'[j][m].change <= loading[j][1][m].change
                                     /\ loading[j][1][m].change <= providers'[m].change
  <2>1. /\ providerSnapshots[j][m].change <= providers[m].change
        /\ loading[j] # <<>> => /\ providerSnapshots[j][m].change <= loading[j][1][m].change
                                /\ loading[j][1][m].change <= providers[m].change
    BY DEF SnapshotInv
  <2>2. /\ providerSnapshots[j][m].change \in Nat
        /\ loading[j] # <<>> => loading[j][1][m].change \in Nat
    BY <1>1, RowNumbers
  <2>3. CASE j = i /\ m = n
    BY <1>3, <1>4, <1>5, <1>7, <2>1, <2>2, <2>3
  <2>4. CASE j # i \/ m # n
    BY <1>4, <1>7, <2>1, <2>2, <2>4
  <2> QED
    BY <2>3, <2>4
<1>9. \A j \in ProviderInstances : loading'[j] = <<>> \/ updating'[j] = <<>>
  BY DEF SnapshotInv
<1> QED
  BY <1>6, <1>8, <1>9 DEF SnapshotInv, NoneGoesBack

\* One change or reload at a time on an instance (mutationMu).
LEMMA AdminSteps ==
    ASSUME SnapshotInv, AdminStep
    PROVE  SnapshotInv' /\ NoneGoesBack
<1>1. /\ RowsTypeOK /\ providers \in [Names -> ProviderRow]
      /\ providerSnapshots \in [ProviderInstances -> [Names -> Entry]]
      /\ loading \in [ProviderInstances -> Seq([Names -> ProviderRow])]
      /\ updating \in [ProviderInstances -> {<<>>} \cup (Names \X ProviderRow)]
  BY DEF SnapshotInv, RowsTypeOK
<1>2. ASSUME NEW i \in ProviderInstances, LoadDynamic(i) PROVE SnapshotInv' /\ NoneGoesBack
  <2> DEFINE read == <<providers>>
  <2>1. /\ updating[i] = <<>> /\ loading' = [loading EXCEPT ![i] = read]
        /\ UNCHANGED <<providers, providerSnapshots, updating>>
    BY <1>2 DEF LoadDynamic, MutationFree
  <2>2. read \in Seq([Names -> ProviderRow]) /\ read # <<>> /\ read[1] = providers
    BY <1>1
  <2> HIDE DEF read
  <2>3. loading' \in [ProviderInstances -> Seq([Names -> ProviderRow])] /\ loading'[i] = read
        /\ \A j \in ProviderInstances : j # i => loading'[j] = loading[j]
    BY <1>1, <2>1, <2>2
  <2>4. RowsTypeOK'
    BY <1>1, <2>1, <2>3 DEF RowsTypeOK
  <2>5. \A j \in ProviderInstances : loading'[j] = <<>> \/ updating'[j] = <<>>
    BY <2>1, <2>3 DEF SnapshotInv
  <2>6. \A n \in Names : providers[n].change \in Nat
    BY <1>1, RowNumbers
  <2>7. ASSUME NEW j \in ProviderInstances, NEW n \in Names
        PROVE  /\ providerSnapshots[j][n].change <= providers[n].change
               /\ loading'[j] # <<>> => /\ providerSnapshots[j][n].change <= loading'[j][1][n].change
                                        /\ loading'[j][1][n].change <= providers[n].change
    <3>1. /\ providerSnapshots[j][n].change <= providers[n].change
          /\ loading[j] # <<>> => /\ providerSnapshots[j][n].change <= loading[j][1][n].change
                                  /\ loading[j][1][n].change <= providers[n].change
      BY DEF SnapshotInv
    <3>2. CASE j = i
      BY <2>2, <2>3, <2>6, <3>1, <3>2
    <3>3. CASE j # i
      BY <2>3, <3>1, <3>3
    <3> QED
      BY <3>2, <3>3
  <2>8. NoneGoesBack
    BY <1>1, <2>1, RowNumbers DEF NoneGoesBack
  <2> QED
    BY <2>1, <2>4, <2>5, <2>7, <2>8 DEF SnapshotInv
<1>3. ASSUME NEW i \in ProviderInstances, NEW skipped \in SUBSET Names, LoadDynamicEnds(i, skipped)
      PROVE  SnapshotInv' /\ NoneGoesBack
  <2> DEFINE rows == loading[i][1]
             new == SnapshotOf(rows, skipped)
  <2>1. /\ loading[i] # <<>> /\ loading' = [loading EXCEPT ![i] = <<>>] /\ UNCHANGED <<providers, updating>>
        /\ providerSnapshots' \in {providerSnapshots, [providerSnapshots EXCEPT ![i] = new]}
    BY <1>3 DEF LoadDynamicEnds
  <2>2. rows \in [Names -> ProviderRow]
    BY <1>1, <2>1, RowsRead
  <2>3. new \in [Names -> Entry] /\ \A n \in Names : new[n].change = rows[n].change
    <3> HIDE DEF rows
    <3>1. \A n \in Names : rows[n] \in ProviderRow
      BY <2>2
    <3> QED
      BY <3>1 DEF SnapshotOf, Entry, ProviderRow
  <2>4. \A n \in Names : /\ providerSnapshots[i][n].change <= rows[n].change
                         /\ rows[n].change <= providers[n].change
    BY <2>1 DEF SnapshotInv
  <2> HIDE DEF new, rows
  <2>5. <<>> \in Seq([Names -> ProviderRow])
    OBVIOUS
  <2>6. loading' \in [ProviderInstances -> Seq([Names -> ProviderRow])] /\ loading'[i] = <<>>
        /\ \A j \in ProviderInstances : j # i => loading'[j] = loading[j]
    BY <1>1, <2>1, <2>5
  <2>7. providerSnapshots' \in [ProviderInstances -> [Names -> Entry]]
        /\ (\A j \in ProviderInstances : j # i => providerSnapshots'[j] = providerSnapshots[j])
        /\ providerSnapshots'[i] \in {providerSnapshots[i], new}
    BY <1>1, <2>1, <2>3
  <2>8. RowsTypeOK'
    BY <1>1, <2>1, <2>6, <2>7 DEF RowsTypeOK
  <2>9. ASSUME NEW j \in ProviderInstances, NEW n \in Names
        PROVE  /\ providerSnapshots'[j][n].change >= providerSnapshots[j][n].change
               /\ providerSnapshots'[j][n].change <= providers[n].change
               /\ loading'[j] # <<>> => /\ providerSnapshots'[j][n].change <= loading'[j][1][n].change
                                        /\ loading'[j][1][n].change <= providers[n].change
    <3>1. /\ providerSnapshots[j][n].change \in Nat /\ rows[n].change \in Nat
          /\ providers[n].change \in Nat
      BY <1>1, <2>1, RowNumbers DEF rows
    <3>2. /\ providerSnapshots[j][n].change <= providers[n].change
          /\ loading[j] # <<>> => /\ providerSnapshots[j][n].change <= loading[j][1][n].change
                                  /\ loading[j][1][n].change <= providers[n].change
      BY DEF SnapshotInv
    <3>3. CASE j = i
      BY <2>3, <2>4, <2>6, <2>7, <3>1, <3>2, <3>3
    <3>4. CASE j # i
      BY <2>6, <2>7, <3>1, <3>2, <3>4
    <3> QED
      BY <3>3, <3>4
  <2>10. \A j \in ProviderInstances : loading'[j] = <<>> \/ updating'[j] = <<>>
    BY <2>1, <2>6 DEF SnapshotInv
  <2> QED
    BY <2>1, <2>8, <2>9, <2>10 DEF SnapshotInv, NoneGoesBack
<1>4. ASSUME NEW i \in ProviderInstances, NEW n \in Names, UpdateProvider(i, n)
      PROVE  SnapshotInv' /\ NoneGoesBack
  <2>1. /\ loading[i] = <<>> /\ updating' = [updating EXCEPT ![i] = <<n, providers[n]>>]
        /\ UNCHANGED <<providers, providerSnapshots, loading>>
    BY <1>4 DEF UpdateProvider, MutationFree
  <2>2. <<n, providers[n]>> \in Names \X ProviderRow
    BY <1>1
  <2>3. updating' \in [ProviderInstances -> {<<>>} \cup (Names \X ProviderRow)]
        /\ \A j \in ProviderInstances : j # i => updating'[j] = updating[j]
    BY <1>1, <2>1, <2>2
  <2>4. \A j \in ProviderInstances : loading[j] = <<>> \/ updating'[j] = <<>>
    BY <2>1, <2>3 DEF SnapshotInv
  <2>5. NoneGoesBack
    BY <1>1, <2>1, RowNumbers DEF NoneGoesBack
  <2> QED
    BY <1>1, <2>1, <2>3, <2>4, <2>5 DEF SnapshotInv, RowsTypeOK
<1>5. ASSUME NEW i \in ProviderInstances, NEW n \in Names,
             DeleteProvider(i, n) \/ \E enabled \in BOOLEAN : CreateProvider(i, n, enabled)
      PROVE  SnapshotInv' /\ NoneGoesBack
  <2>1. loading[i] = <<>> /\ UNCHANGED <<loading, updating>>
    BY <1>5 DEF DeleteProvider, CreateProvider, MutationFree
  <2>2. providers[n].change + 1 \in Nat
    BY <1>1, RowNumbers
  <2>3. \E row \in ProviderRow : /\ row.change = providers[n].change + 1
                                 /\ providers' = [providers EXCEPT ![n] = row] /\ SetDynamicProvider(i, n, row)
    <3>1. CASE DeleteProvider(i, n)
      <4> DEFINE row == [there |-> FALSE, enabled |-> FALSE, revision |-> 0, change |-> providers[n].change + 1]
      <4>1. row \in ProviderRow /\ row.change = providers[n].change + 1
        BY <2>2 DEF ProviderRow
      <4>2. providers' = [providers EXCEPT ![n] = row] /\ SetDynamicProvider(i, n, row)
        BY <3>1 DEF DeleteProvider
      <4> QED
        BY <4>1, <4>2
    <3>2. ASSUME NEW enabled \in BOOLEAN, CreateProvider(i, n, enabled)
          PROVE  \E row \in ProviderRow : /\ row.change = providers[n].change + 1
                      /\ providers' = [providers EXCEPT ![n] = row] /\ SetDynamicProvider(i, n, row)
      <4> DEFINE row == [there |-> TRUE, enabled |-> enabled, revision |-> 1, change |-> providers[n].change + 1]
      <4>1. row \in ProviderRow /\ row.change = providers[n].change + 1
        BY <2>2 DEF ProviderRow
      <4>2. providers' = [providers EXCEPT ![n] = row] /\ SetDynamicProvider(i, n, row)
        BY <3>2 DEF CreateProvider
      <4> QED
        BY <4>1, <4>2
    <3> QED
      BY <1>5, <3>1, <3>2
  <2> QED
    BY <1>1, <2>1, <2>3, RowCommitted
<1>6. ASSUME NEW i \in ProviderInstances, NEW enabled \in BOOLEAN, UpdateProviderCommits(i, enabled)
      PROVE  SnapshotInv' /\ NoneGoesBack
  <2> DEFINE n == updating[i][1]
             read == updating[i][2]
             row == [there |-> TRUE, enabled |-> enabled, revision |-> read.revision + 1,
                     change |-> providers[n].change + 1]
  <2>1. updating[i] # <<>> /\ updating' = [updating EXCEPT ![i] = <<>>] /\ loading' = loading
    BY <1>6 DEF UpdateProviderCommits
  <2>2. updating[i] \in Names \X ProviderRow /\ loading[i] = <<>>
    BY <1>1, <2>1 DEF SnapshotInv
  <2>3. n \in Names /\ read \in ProviderRow
    BY <2>2
  <2>4. updating' \in [ProviderInstances -> {<<>>} \cup (Names \X ProviderRow)]
        /\ \A j \in ProviderInstances : updating'[j] \in {<<>>, updating[j]}
    BY <1>1, <2>1
  <2>5. CASE providers' = [providers EXCEPT ![n] = row] /\ SetDynamicProvider(i, n, row)
    <3> HIDE DEF n, read
    <3>1. providers[n].change + 1 \in Nat /\ read.revision + 1 \in Nat
      BY <1>1, <2>3, RowNumbers DEF ProviderRow
    <3>2. row \in ProviderRow /\ row.change = providers[n].change + 1
      BY <3>1 DEF ProviderRow
    <3> HIDE DEF row
    <3> QED
      BY <2>1, <2>2, <2>3, <2>4, <2>5, <3>2, RowCommitted
  <2>6. CASE UNCHANGED <<providers, providerSnapshots>>
    <3>1. NoneGoesBack
      BY <1>1, <2>6, RowNumbers DEF NoneGoesBack
    <3>2. \A j \in ProviderInstances : loading'[j] = <<>> \/ updating'[j] = <<>>
      BY <2>1, <2>4 DEF SnapshotInv
    <3> QED
      BY <1>1, <2>1, <2>4, <2>6, <3>1, <3>2 DEF SnapshotInv, RowsTypeOK
  <2> QED
    BY <1>6, <2>5, <2>6 DEF UpdateProviderCommits
<1> QED
  BY <1>2, <1>3, <1>4, <1>5, <1>6 DEF AdminStep

(***************************************************************************)
(* The snapshot of providers of an instance never goes back to an older    *)
(* configuration: a reload installs rows it read while the instance made   *)
(* no change of its own (mutationMu around LoadDynamic and the mutations   *)
(* of Manager), so none is older than what it replaces.                    *)
(***************************************************************************)
THEOREM SnapshotsOnlyAdvance == ProvidersSpec => SnapshotsDoNotGoBack
<1>1. ProvidersInit => SnapshotInv
  <2> SUFFICES ASSUME ProvidersInit PROVE SnapshotInv
    OBVIOUS
  <2>1. RowsTypeOK
    <3>1. [there |-> TRUE, enabled |-> TRUE, revision |-> 1, change |-> 0] \in ProviderRow
          /\ [on |-> TRUE, change |-> 0] \in Entry
      BY DEF ProviderRow, Entry
    <3> QED
      BY <3>1 DEF ProvidersInit, RowsTypeOK
  <2>2. \A i \in ProviderInstances, n \in Names : providerSnapshots[i][n].change = 0 /\ providers[n].change = 0
        /\ loading[i] = <<>>
    BY DEF ProvidersInit
  <2>3. \A i \in ProviderInstances : loading[i] = <<>>
    BY DEF ProvidersInit
  <2>4. \A i \in ProviderInstances, n \in Names :
          /\ providerSnapshots[i][n].change <= providers[n].change
          /\ loading[i] # <<>> => /\ providerSnapshots[i][n].change <= loading[i][1][n].change
                                  /\ loading[i][1][n].change <= providers[n].change
    BY <2>2, <2>3
  <2> QED
    BY <2>1, <2>3, <2>4 DEF SnapshotInv
<1>2. ASSUME SnapshotInv, [ProvidersNext]_providerVars
      PROVE  SnapshotInv' /\ [NoneGoesBack]_providerVars
  <2>1. CASE AdminStep
    BY <1>2, <2>1, AdminSteps
  <2>2. CASE UNCHANGED adminVars
    <3>1. NoneGoesBack
      BY <1>2, <2>2, RowNumbers DEF SnapshotInv, adminVars, NoneGoesBack
    <3> QED
      BY <1>2, <2>2, <3>1 DEF SnapshotInv, RowsTypeOK, adminVars
  <2>3. PeopleStep => UNCHANGED adminVars
    BY DEF PeopleStep, SignUp, SignOut, SetActive, DeleteOwned
  <2>4. FlowStep => UNCHANGED adminVars
    BY DEF FlowStep, BeginProviderFlow, ProviderCallback, FlowExpires, FinishIdentityBind, CreateIdentity,
           FinishProviderDiagnostic, FinishExternalLogin, ExternalSession, FinishExternalReauthentication,
           CreateUserAndIdentity
  <2>5. (UNCHANGED providerVars) => UNCHANGED adminVars
    BY DEF providerVars, adminVars
  <2> QED
    BY <1>2, <2>1, <2>2, <2>3, <2>4, <2>5 DEF ProvidersNext
<1> QED
  BY <1>1, <1>2, PTL DEF ProvidersSpec, SnapshotsDoNotGoBack, NoneGoesBack

\* No account changes hands.
OwnersStay == \A a \in People : accounts[a].owner # Nobody => accounts'[a].owner = accounts[a].owner

\* A flow ends, or goes on as it was but for the session it began in.
FlowKept(f) ==
    \/ flows'[f].step = "none"
    \/ /\ flows'[f].step = flows[f].step /\ flows'[f].name = flows[f].name
       /\ flows'[f].intent = flows[f].intent /\ flows'[f].user = flows[f].user
       /\ flows'[f].browser = flows[f].browser /\ flows'[f].at = flows[f].at
       /\ flows'[f].external = flows[f].external /\ flows'[f].account = flows[f].account

LEMMA FlowStays ==
    ASSUME PeopleInv, NEW f \in Flows, OwnersStay, FlowKept(f)
    PROVE  FlowOK(f)'
<1>1. FlowOK(f)
  BY DEF PeopleInv
<1>2. CASE flows'[f].step = "none"
  BY <1>2 DEF FlowOK
<1>3. CASE flows'[f].step # "none"
  BY <1>1, <1>3, ProviderAssumptions DEF FlowOK, FlowKept, OwnersStay
<1> QED
  BY <1>2, <1>3

\* What every step does to accounts, links and sessions.
PeopleKept ==
    /\ accounts' \in [People -> Account]
    /\ identities' \in [Names -> [Externals -> People \cup {Nobody}]]
    /\ signedIn' \in [Browsers -> People \cup {Nobody}]
    /\ confirmed' \in [Browsers -> Externals \cup {Nobody}]
    /\ OwnersStay /\ \A a \in People : ~accounts'[a].there => accounts'[a].owner = Nobody
    /\ \A n \in Names, e \in Externals :
          \/ identities'[n][e] \in {Nobody, identities[n][e]}
          \/ accounts'[identities'[n][e]].owner = Holder[e]
    /\ \A b \in Browsers : /\ signedIn'[b] \in {Nobody, signedIn[b]} \/ accounts'[signedIn'[b]].owner = b
                           /\ confirmed'[b] \in {Nobody, confirmed[b]} \/ Holder[confirmed'[b]] = b

LEMMA PeopleAlone ==
    ASSUME PeopleInv, UNCHANGED peopleVars
    PROVE  PeopleKept
<1>1. UNCHANGED <<accounts, identities, signedIn, confirmed>>
  BY DEF peopleVars
<1> QED
  BY <1>1 DEF PeopleInv, PeopleTypeOK, PeopleKept, OwnersStay

\* The step keeps people apart if it does so for what it changes.
LEMMA ApartAfter ==
    ASSUME PeopleInv, PeopleKept, cookie' \in [Browsers -> Flows \cup {Nobody}], flows' \in [Flows -> Flow],
           \A f \in Flows : FlowKept(f) \/ FlowOK(f)',
           \A b \in Browsers : CookieOK(b)'
    PROVE  PeopleInv'
<1>1. PeopleTypeOK'
  BY DEF PeopleKept, PeopleTypeOK
<1>2. ASSUME NEW n \in Names, NEW e \in Externals, identities'[n][e] # Nobody
      PROVE  accounts'[identities'[n][e]].owner = Holder[e]
  <2>1. CASE identities'[n][e] = identities[n][e]
    <3>1. identities[n][e] \in People \cup {Nobody}
      BY DEF PeopleInv, PeopleTypeOK
    <3>2. accounts[identities[n][e]].owner = Holder[e] /\ Holder[e] # Nobody
      BY <1>2, <2>1, ProviderAssumptions DEF PeopleInv, PeopleStayApart
    <3> QED
      BY <1>2, <2>1, <3>1, <3>2 DEF PeopleKept, OwnersStay
  <2> QED
    BY <1>2, <2>1 DEF PeopleKept
<1>3. ASSUME NEW b \in Browsers, signedIn'[b] # Nobody PROVE accounts'[signedIn'[b]].owner = b
  <2>1. CASE signedIn'[b] = signedIn[b]
    <3>1. signedIn[b] \in People \cup {Nobody}
      BY DEF PeopleInv, PeopleTypeOK
    <3>2. accounts[signedIn[b]].owner = b /\ b # Nobody
      BY <1>3, <2>1, ProviderAssumptions DEF PeopleInv, PeopleStayApart
    <3> QED
      BY <1>3, <2>1, <3>1, <3>2 DEF PeopleKept, OwnersStay
  <2> QED
    BY <1>3, <2>1 DEF PeopleKept
<1>4. ASSUME NEW b \in Browsers, confirmed'[b] # Nobody PROVE Holder[confirmed'[b]] = b
  BY <1>4 DEF PeopleKept, PeopleInv, PeopleStayApart
<1>5. PeopleStayApart'
  BY <1>2, <1>3, <1>4 DEF PeopleStayApart
<1>6. \A f \in Flows : FlowOK(f)'
  BY FlowStays DEF PeopleKept
<1> QED
  BY <1>1, <1>5, <1>6 DEF PeopleInv, PeopleKept

\* Cookies stay or go; flows they name stay in the browser they began in.
LEMMA CookiesAfter ==
    ASSUME PeopleInv, NEW b \in Browsers, cookie'[b] \in {cookie[b], Nobody},
           \A f \in Flows : \/ flows'[f].step = "none"
                            \/ flows[f].step # "none" /\ flows'[f].browser = flows[f].browser
    PROVE  CookieOK(b)'
BY ProviderAssumptions DEF PeopleInv, CookieOK

\* Steps that move one flow.
LEMMA FlowMoves ==
    ASSUME PeopleInv, PeopleKept, NEW f \in Flows, NEW w \in Flow, flows' = [flows EXCEPT ![f] = w],
           cookie' \in [Browsers -> Flows \cup {Nobody}], \A b \in Browsers : cookie'[b] \in {cookie[b], Nobody},
           w.step = "none" \/ (flows[f].step # "none" /\ w.browser = flows[f].browser),
           FlowOK(f)'
    PROVE  PeopleInv'
<1>1. flows' \in [Flows -> Flow] /\ flows'[f] = w /\ \A g \in Flows : g # f => flows'[g] = flows[g]
  BY DEF PeopleInv, PeopleTypeOK
<1>2. \A g \in Flows : g # f => FlowKept(g)
  BY <1>1 DEF FlowKept
<1>3. \A g \in Flows : \/ flows'[g].step = "none"
                       \/ flows[g].step # "none" /\ flows'[g].browser = flows[g].browser
  BY <1>1
<1>4. \A b \in Browsers : CookieOK(b)'
  BY <1>3, CookiesAfter
<1>5. \A g \in Flows : FlowKept(g) \/ FlowOK(g)'
  BY <1>2
<1> QED
  BY <1>1, <1>4, <1>5, ApartAfter

LEMMA EndedFlow == NoFlow \in Flow /\ NoFlow.step = "none"
BY DEF NoFlow, Flow, Intents

\* Steps that end one flow.
LEMMA FlowEnds ==
    ASSUME PeopleInv, PeopleKept, NEW f \in Flows, flows' = FlowEnded(f),
           cookie' \in [Browsers -> Flows \cup {Nobody}], \A b \in Browsers : cookie'[b] \in {cookie[b], Nobody}
    PROVE  PeopleInv'
<1>1. flows' = [flows EXCEPT ![f] = NoFlow]
  BY DEF FlowEnded
<1>2. flows'[f].step = "none"
  BY <1>1, EndedFlow DEF PeopleInv, PeopleTypeOK
<1>3. FlowOK(f)'
  BY <1>2 DEF FlowOK
<1> QED
  BY <1>1, <1>3, EndedFlow, FlowMoves

\* Steps that end sessions of flows and no flow.
LEMMA FlowsEndSessions ==
    ASSUME PeopleInv, PeopleKept, UNCHANGED cookie, flows' \in [Flows -> Flow], \A f \in Flows : FlowKept(f)
    PROVE  PeopleInv'
<1>1. \A f \in Flows : \/ flows'[f].step = "none"
                       \/ flows[f].step # "none" /\ flows'[f].browser = flows[f].browser
  BY DEF FlowKept
<1>2. \A b \in Browsers : CookieOK(b)'
  BY <1>1, CookiesAfter
<1> QED
  BY <1>2, ApartAfter DEF PeopleInv, PeopleTypeOK

\* A flow that loses its session keeps the rest.
LEMMA SessionLost ==
    ASSUME NEW w \in Flow
    PROVE  LET v == [w EXCEPT !.same = FALSE] IN
           /\ v \in Flow /\ v.step = w.step /\ v.name = w.name /\ v.intent = w.intent /\ v.user = w.user
           /\ v.browser = w.browser /\ v.at = w.at /\ v.external = w.external /\ v.account = w.account
BY DEF Flow

\* The people and flows after a browser has got another session.
LEMMA NewSessionKeeps ==
    ASSUME PeopleInv, NEW b \in Browsers, NEW account \in People \cup {Nobody}, NEW later \in [Flows -> Flow],
           NewSession(b, account, later), account = Nobody \/ accounts'[account].owner = b,
           \A f \in Flows : later[f] \in {flows[f], NoFlow}
    PROVE  /\ signedIn' \in [Browsers -> People \cup {Nobody}]
           /\ confirmed' \in [Browsers -> Externals \cup {Nobody}]
           /\ \A c \in Browsers :
                 /\ signedIn'[c] \in {Nobody, signedIn[c]} \/ accounts'[signedIn'[c]].owner = c
                 /\ confirmed'[c] \in {Nobody, confirmed[c]} \/ Holder[confirmed'[c]] = c
           /\ flows' \in [Flows -> Flow] /\ \A f \in Flows : FlowKept(f)
<1>1. /\ signedIn \in [Browsers -> People \cup {Nobody}] /\ confirmed \in [Browsers -> Externals \cup {Nobody}]
      /\ signedIn' = [signedIn EXCEPT ![b] = account] /\ confirmed' = [confirmed EXCEPT ![b] = Nobody]
      /\ flows' = [f \in Flows |-> IF later[f].browser = b THEN [later[f] EXCEPT !.same = FALSE] ELSE later[f]]
  BY DEF PeopleInv, PeopleTypeOK, NewSession
<1>2. ASSUME NEW f \in Flows PROVE flows'[f] \in Flow /\ FlowKept(f)
  <2>1. later[f] \in Flow
    OBVIOUS
  <2>2. flows'[f] = later[f] \/ flows'[f] = [later[f] EXCEPT !.same = FALSE]
    BY <1>1
  <2>3. flows'[f] \in Flow
    BY <2>1, <2>2, SessionLost
  <2>4. CASE later[f] = NoFlow
    BY <2>1, <2>2, <2>4, SessionLost, EndedFlow DEF FlowKept
  <2>5. CASE later[f] = flows[f]
    BY <2>1, <2>2, <2>5, SessionLost DEF FlowKept
  <2> QED
    BY <2>3, <2>4, <2>5
<1> QED
  BY <1>1, <1>2

\* An account made for b, where there was none.
LEMMA AccountMade ==
    ASSUME PeopleInv, NEW a \in People, ~accounts[a].there, NEW row \in Account, row.there,
           accounts' = [accounts EXCEPT ![a] = row]
    PROVE  /\ accounts' \in [People -> Account] /\ OwnersStay /\ accounts'[a].owner = row.owner
           /\ \A other \in People : ~accounts'[other].there => accounts'[other].owner = Nobody
<1>1. accounts \in [People -> Account] /\ accounts[a].owner = Nobody
  BY DEF PeopleInv, PeopleTypeOK
<1>2. accounts' \in [People -> Account] /\ accounts'[a] = row
      /\ \A other \in People : other # a => accounts'[other] = accounts[other]
  BY <1>1
<1> QED
  BY <1>1, <1>2 DEF PeopleInv, OwnersStay

\* The sessions of account a end.
LEMMA SessionsOfAccountEnd ==
    ASSUME PeopleInv, NEW a \in People,
           signedIn' = [b \in Browsers |-> IF signedIn[b] = a THEN Nobody ELSE signedIn[b]],
           confirmed' = [b \in Browsers |-> IF signedIn[b] = a THEN Nobody ELSE confirmed[b]],
           flows' = [f \in Flows |-> IF flows[f].user = a THEN [flows[f] EXCEPT !.same = FALSE] ELSE flows[f]]
    PROVE  /\ signedIn' \in [Browsers -> People \cup {Nobody}]
           /\ confirmed' \in [Browsers -> Externals \cup {Nobody}]
           /\ \A b \in Browsers : signedIn'[b] \in {Nobody, signedIn[b]} /\ confirmed'[b] \in {Nobody, confirmed[b]}
           /\ flows' \in [Flows -> Flow] /\ \A f \in Flows : FlowKept(f)
<1>1. /\ signedIn \in [Browsers -> People \cup {Nobody}] /\ confirmed \in [Browsers -> Externals \cup {Nobody}]
      /\ flows \in [Flows -> Flow]
  BY DEF PeopleInv, PeopleTypeOK
<1>2. ASSUME NEW f \in Flows PROVE flows'[f] \in Flow /\ FlowKept(f)
  <2>1. flows[f] \in Flow
    BY <1>1
  <2>2. flows'[f] = flows[f] \/ flows'[f] = [flows[f] EXCEPT !.same = FALSE]
    OBVIOUS
  <2> QED
    BY <2>1, <2>2, SessionLost DEF FlowKept
<1> QED
  BY <1>1, <1>2

LEMMA PeopleStepsApart ==
    ASSUME PeopleInv, PeopleStep
    PROVE  PeopleInv'
<1>1. /\ accounts \in [People -> Account] /\ flows \in [Flows -> Flow]
      /\ identities \in [Names -> [Externals -> People \cup {Nobody}]]
      /\ signedIn \in [Browsers -> People \cup {Nobody}]
  BY DEF PeopleInv, PeopleTypeOK
<1>2. ASSUME NEW b \in Browsers, NEW a \in People, NEW email \in Externals \cup {Nobody}, SignUp(b, a, email)
      PROVE  PeopleInv'
  <2> DEFINE row == [there |-> TRUE, active |-> TRUE, local |-> TRUE, username |-> Nobody,
                     email |-> email, owner |-> b]
  <2>1. /\ ~accounts[a].there /\ accounts' = [accounts EXCEPT ![a] = row]
        /\ NewSession(b, a, flows) /\ UNCHANGED <<identities, cookie>>
    BY <1>2 DEF SignUp
  <2>2. row \in Account /\ row.there /\ row.owner = b
    BY DEF Account
  <2> HIDE DEF row
  <2>3. /\ accounts' \in [People -> Account] /\ OwnersStay /\ accounts'[a].owner = b
        /\ \A other \in People : ~accounts'[other].there => accounts'[other].owner = Nobody
    BY <2>1, <2>2, AccountMade
  <2>4. /\ signedIn' \in [Browsers -> People \cup {Nobody}]
        /\ confirmed' \in [Browsers -> Externals \cup {Nobody}]
        /\ \A c \in Browsers :
              /\ signedIn'[c] \in {Nobody, signedIn[c]} \/ accounts'[signedIn'[c]].owner = c
              /\ confirmed'[c] \in {Nobody, confirmed[c]} \/ Holder[confirmed'[c]] = c
        /\ flows' \in [Flows -> Flow] /\ \A f \in Flows : FlowKept(f)
    BY <1>1, <2>1, <2>3, NewSessionKeeps
  <2>5. PeopleKept
    BY <1>1, <2>1, <2>3, <2>4 DEF PeopleKept
  <2> QED
    BY <2>1, <2>4, <2>5, FlowsEndSessions
<1>3. ASSUME NEW b \in Browsers, SignOut(b) PROVE PeopleInv'
  <2>1. NewSession(b, Nobody, flows) /\ UNCHANGED <<accounts, identities, cookie>>
    BY <1>3 DEF SignOut
  <2>2. /\ signedIn' \in [Browsers -> People \cup {Nobody}]
        /\ confirmed' \in [Browsers -> Externals \cup {Nobody}]
        /\ \A c \in Browsers :
              /\ signedIn'[c] \in {Nobody, signedIn[c]} \/ accounts'[signedIn'[c]].owner = c
              /\ confirmed'[c] \in {Nobody, confirmed[c]} \/ Holder[confirmed'[c]] = c
        /\ flows' \in [Flows -> Flow] /\ \A f \in Flows : FlowKept(f)
    BY <1>1, <2>1, NewSessionKeeps
  <2>3. PeopleKept
    BY <1>1, <2>1, <2>2 DEF PeopleKept, OwnersStay, PeopleInv
  <2> QED
    BY <2>1, <2>2, <2>3, FlowsEndSessions
<1>4. ASSUME NEW a \in People, NEW active \in BOOLEAN, SetActive(a, active) PROVE PeopleInv'
  <2>1. /\ accounts' = [accounts EXCEPT ![a].active = active] /\ UNCHANGED <<identities, cookie>>
        /\ signedIn' = [b \in Browsers |-> IF signedIn[b] = a THEN Nobody ELSE signedIn[b]]
        /\ confirmed' = [b \in Browsers |-> IF signedIn[b] = a THEN Nobody ELSE confirmed[b]]
        /\ flows' = [f \in Flows |-> IF flows[f].user = a THEN [flows[f] EXCEPT !.same = FALSE] ELSE flows[f]]
    BY <1>4 DEF SetActive
  <2> DEFINE row == [accounts[a] EXCEPT !.active = active]
  <2>2. row \in Account /\ row.there = accounts[a].there /\ row.owner = accounts[a].owner
    <3>1. accounts[a] \in Account
      BY <1>1
    <3> QED
      BY <3>1 DEF Account
  <2>3. accounts' = [accounts EXCEPT ![a] = row]
    BY <2>1
  <2> HIDE DEF row
  <2>4. /\ accounts' \in [People -> Account] /\ OwnersStay
        /\ \A other \in People : ~accounts'[other].there => accounts'[other].owner = Nobody
    <3>1. accounts' \in [People -> Account] /\ accounts'[a] = row
          /\ \A other \in People : other # a => accounts'[other] = accounts[other]
      BY <1>1, <2>2, <2>3
    <3> QED
      BY <2>2, <3>1 DEF OwnersStay, PeopleInv
  <2>5. /\ signedIn' \in [Browsers -> People \cup {Nobody}]
        /\ confirmed' \in [Browsers -> Externals \cup {Nobody}]
        /\ \A b \in Browsers : signedIn'[b] \in {Nobody, signedIn[b]} /\ confirmed'[b] \in {Nobody, confirmed[b]}
        /\ flows' \in [Flows -> Flow] /\ \A f \in Flows : FlowKept(f)
    BY <2>1, SessionsOfAccountEnd
  <2>6. PeopleKept
    BY <1>1, <2>1, <2>4, <2>5 DEF PeopleKept
  <2> QED
    BY <2>1, <2>5, <2>6, FlowsEndSessions
<1>5. ASSUME NEW b \in Browsers, NEW n \in Names, NEW e \in Externals, DeleteOwned(b, n, e) PROVE PeopleInv'
  <2> DEFINE a == signedIn[b]
  <2>1. a \in People
    BY <1>1, <1>5 DEF DeleteOwned
  <2>2. /\ identities' = [identities EXCEPT ![n][e] = Nobody] /\ UNCHANGED <<accounts, cookie>>
        /\ signedIn' = [c \in Browsers |-> IF signedIn[c] = a THEN Nobody ELSE signedIn[c]]
        /\ confirmed' = [c \in Browsers |-> IF signedIn[c] = a THEN Nobody ELSE confirmed[c]]
        /\ flows' = [f \in Flows |-> IF flows[f].user = a THEN [flows[f] EXCEPT !.same = FALSE] ELSE flows[f]]
    BY <1>5 DEF DeleteOwned
  <2> HIDE DEF a
  <2>3. /\ signedIn' \in [Browsers -> People \cup {Nobody}]
        /\ confirmed' \in [Browsers -> Externals \cup {Nobody}]
        /\ \A c \in Browsers : signedIn'[c] \in {Nobody, signedIn[c]} /\ confirmed'[c] \in {Nobody, confirmed[c]}
        /\ flows' \in [Flows -> Flow] /\ \A f \in Flows : FlowKept(f)
    BY <2>1, <2>2, SessionsOfAccountEnd
  <2>4. /\ identities' \in [Names -> [Externals -> People \cup {Nobody}]]
        /\ \A m \in Names, g \in Externals : identities'[m][g] \in {Nobody, identities[m][g]}
    BY <1>1, <2>2
  <2>5. PeopleKept
    BY <1>1, <2>2, <2>3, <2>4 DEF PeopleKept, OwnersStay, PeopleInv
  <2> QED
    BY <2>2, <2>3, <2>5, FlowsEndSessions
<1> QED
  BY <1>2, <1>3, <1>4, <1>5 DEF PeopleStep

\* The link of the identity a flow was answered with is the account of its person.
LEMMA BoundIsOwn ==
    ASSUME PeopleInv, NEW f \in Flows, flows[f].step \notin {"none", "open"}
    PROVE  /\ BoundTo(f) \in People \cup {Nobody}
           /\ BoundTo(f) # Nobody => accounts[BoundTo(f)].owner = flows[f].at
           /\ flows[f].name \in Names /\ flows[f].external \in Externals
           /\ Holder[flows[f].external] = flows[f].at /\ flows[f].at \in Browsers
<1>1. /\ flows[f].name \in Names /\ flows[f].external \in Externals /\ Holder[flows[f].external] = flows[f].at
      /\ flows[f].at \in Browsers
  BY DEF PeopleInv, FlowOK
<1>2. identities[flows[f].name][flows[f].external] \in People \cup {Nobody}
  BY <1>1 DEF PeopleInv, PeopleTypeOK
<1> QED
  BY <1>1, <1>2 DEF BoundTo, PeopleInv, PeopleStayApart

LEMMA BeginApart ==
    ASSUME PeopleInv, NEW b \in Browsers, NEW f \in Flows, NEW i \in ProviderInstances, NEW n \in Names,
           NEW intent \in Intents, BeginProviderFlow(b, f, i, n, intent)
    PROVE  PeopleInv'
<1> DEFINE who == IF intent = "login" THEN Nobody ELSE signedIn[b]
           w == [NoFlow EXCEPT !.step = "open", !.name = n, !.intent = intent, !.browser = b,
                     !.user = who, !.same = TRUE]
<1>1. /\ f \notin {cookie[c] : c \in Browsers} /\ (intent # "login" => signedIn[b] # Nobody)
      /\ flows' = [flows EXCEPT ![f] = w] /\ cookie' = [cookie EXCEPT ![b] = f] /\ UNCHANGED peopleVars
  BY DEF BeginProviderFlow
<1>2. who \in People \cup {Nobody} /\ (intent # "login" => who \in People /\ accounts[who].owner = b)
  BY <1>1 DEF PeopleInv, PeopleTypeOK, PeopleStayApart
<1> HIDE DEF who
<1>3. w \in Flow /\ w.step = "open" /\ w.name = n /\ w.intent = intent /\ w.browser = b /\ w.user = who
  BY <1>2 DEF NoFlow, Flow, Intents
<1> HIDE DEF w
<1>4. /\ flows' \in [Flows -> Flow] /\ flows'[f] = w /\ \A g \in Flows : g # f => flows'[g] = flows[g]
      /\ cookie' \in [Browsers -> Flows \cup {Nobody}] /\ cookie'[b] = f
      /\ \A c \in Browsers : c # b => cookie'[c] = cookie[c]
  BY <1>1, <1>3 DEF PeopleInv, PeopleTypeOK
<1>5. FlowOK(f)'
  BY <1>1, <1>2, <1>3, <1>4 DEF FlowOK, peopleVars
<1>6. \A g \in Flows : FlowKept(g) \/ FlowOK(g)'
  BY <1>4, <1>5 DEF FlowKept
<1>7. ASSUME NEW c \in Browsers PROVE CookieOK(c)'
  <2>1. CASE c = b
    BY <1>3, <1>4, <2>1 DEF CookieOK
  <2>2. CASE c # b
    <3>1. cookie'[c] = cookie[c] /\ cookie[c] # f
      BY <1>1, <1>4, <2>2
    <3> QED
      BY <1>4, <3>1 DEF CookieOK, PeopleInv
  <2> QED
    BY <2>1, <2>2
<1> QED
  BY <1>1, <1>4, <1>6, <1>7, PeopleAlone, ApartAfter

\* The cookie keeps a flow in the browser that began it, whoever passes its callback on.
LEMMA CallbackApart ==
    ASSUME PeopleInv, NEW b \in Browsers, NEW f \in Flows, NEW i \in ProviderInstances, NEW e \in Externals,
           ProviderCallback(b, f, i, e)
    PROVE  PeopleInv'
<1>1. /\ flows[f].step = "open" /\ MayPresent(b, f, e) /\ cookie' = [cookie EXCEPT ![b] = Nobody]
      /\ UNCHANGED peopleVars
  BY DEF ProviderCallback
<1>2. cookie' \in [Browsers -> Flows \cup {Nobody}] /\ \A c \in Browsers : cookie'[c] \in {cookie[c], Nobody}
  BY <1>1 DEF PeopleInv, PeopleTypeOK
<1>3. PeopleKept
  BY <1>1, PeopleAlone
<1>4. CASE flows' = FlowEnded(f)
  BY <1>2, <1>3, <1>4, FlowEnds
<1>5. CASE /\ ValidProviderFlowCookie(b, f)
           /\ flows' = [flows EXCEPT ![f].step = "authenticated", ![f].at = b, ![f].external = e]
  <2> DEFINE w == [flows[f] EXCEPT !.step = "authenticated", !.at = b, !.external = e]
  <2>1. flows[f] \in Flow /\ flows \in [Flows -> Flow] /\ FlowOK(f) /\ flows[f].browser = b
    BY <1>1, <1>5 DEF PeopleInv, PeopleTypeOK, CookieOK, ValidProviderFlowCookie
  <2>2. /\ w \in Flow /\ w.step = "authenticated" /\ w.name = flows[f].name /\ w.intent = flows[f].intent
        /\ w.user = flows[f].user /\ w.browser = flows[f].browser /\ w.at = b /\ w.external = e
    BY <2>1 DEF Flow
  <2>3. flows' = [flows EXCEPT ![f] = w]
    BY <1>5, <2>1
  <2> HIDE DEF w
  <2>4. flows'[f] = w
    BY <2>1, <2>3
  <2>5. Holder[e] = b
    BY <1>1, <2>1 DEF MayPresent
  <2>6. FlowOK(f)'
    BY <1>1, <2>1, <2>2, <2>4, <2>5 DEF FlowOK, peopleVars
  <2> QED
    BY <1>1, <1>2, <1>3, <2>2, <2>3, <2>6, FlowMoves
<1> QED
  BY <1>4, <1>5 DEF ProviderCallback

\* A flow that takes its next step on behalf of the same person.
LEMMA FlowAdvances ==
    ASSUME PeopleInv, PeopleKept, NEW f \in Flows, flows[f].step \notin {"none", "open"},
           NEW step \in {"creating", "binding", "found"}, NEW email \in BOOLEAN, NEW account \in People \cup {Nobody},
           flows' = [flows EXCEPT ![f] = [flows[f] EXCEPT !.step = step, !.email = email, !.account = account]],
           step = "binding" => flows[f].intent # "login",
           step = "found" => account \in People /\ accounts'[account].owner = flows[f].at,
           UNCHANGED cookie
    PROVE  PeopleInv'
<1> DEFINE w == [flows[f] EXCEPT !.step = step, !.email = email, !.account = account]
<1>1. flows[f] \in Flow /\ flows \in [Flows -> Flow] /\ FlowOK(f)
      /\ cookie \in [Browsers -> Flows \cup {Nobody}]
  BY DEF PeopleInv, PeopleTypeOK
<1>2. /\ w \in Flow /\ w.step = step /\ w.name = flows[f].name /\ w.intent = flows[f].intent
      /\ w.user = flows[f].user /\ w.browser = flows[f].browser /\ w.at = flows[f].at
      /\ w.external = flows[f].external /\ w.account = account
  BY <1>1 DEF Flow
<1>3. flows' = [flows EXCEPT ![f] = w]
  OBVIOUS
<1> HIDE DEF w
<1>4. flows'[f] = w
  BY <1>1, <1>3
<1>5. flows[f].intent # "login" => flows[f].user \in People /\ accounts'[flows[f].user].owner = flows[f].browser
  BY <1>1, ProviderAssumptions DEF FlowOK, PeopleKept, OwnersStay
<1>6. FlowOK(f)'
  BY <1>1, <1>2, <1>4, <1>5 DEF FlowOK
<1> QED
  BY <1>1, <1>2, <1>3, <1>6, FlowMoves

LEMMA BindApart ==
    ASSUME PeopleInv, NEW f \in Flows, FinishIdentityBind(f) \/ CreateIdentity(f)
    PROVE  PeopleInv'
<1>1. flows[f] \in Flow /\ cookie \in [Browsers -> Flows \cup {Nobody}] /\ cookie' = cookie
      /\ flows[f].step \notin {"none", "open"} /\ FlowOK(f) /\ flows \in [Flows -> Flow]
  BY DEF PeopleInv, PeopleTypeOK, FinishIdentityBind, CreateIdentity
<1>2. CASE FinishIdentityBind(f)
  <2>1. UNCHANGED peopleVars /\ flows[f].intent = "bind"
        /\ (flows' = FlowEnded(f) \/ flows' = [flows EXCEPT ![f].step = "binding"])
    BY <1>2 DEF FinishIdentityBind
  <2>2. PeopleKept
    BY <2>1, PeopleAlone
  <2>3. CASE flows' = FlowEnded(f)
    BY <1>1, <2>2, <2>3, FlowEnds
  <2>4. CASE flows' = [flows EXCEPT ![f].step = "binding"]
    <3> DEFINE email == flows[f].email
               account == flows[f].account
    <3>1. email \in BOOLEAN /\ account \in People \cup {Nobody}
          /\ [flows[f] EXCEPT !.step = "binding"] =
                [flows[f] EXCEPT !.step = "binding", !.email = email, !.account = account]
      BY <1>1 DEF Flow
    <3>2. flows' = [flows EXCEPT ![f] = [flows[f] EXCEPT !.step = "binding", !.email = email, !.account = account]]
      BY <1>1, <2>4, <3>1
    <3> HIDE DEF email, account
    <3> QED
      BY <1>1, <2>1, <2>2, <3>1, <3>2, FlowAdvances
  <2> QED
    BY <2>1, <2>3, <2>4
<1>3. CASE CreateIdentity(f)
  <2>1. /\ flows[f].step = "binding" /\ flows' = FlowEnded(f) /\ UNCHANGED <<accounts, signedIn, confirmed>>
        /\ \/ identities' = identities
           \/ identities' = [identities EXCEPT ![flows[f].name][flows[f].external] = flows[f].user]
    BY <1>3 DEF CreateIdentity
  <2>2. /\ flows[f].user \in People /\ flows[f].name \in Names /\ flows[f].external \in Externals
        /\ accounts[flows[f].user].owner = Holder[flows[f].external]
    BY <1>1, <2>1 DEF FlowOK
  <2>3. identities \in [Names -> [Externals -> People \cup {Nobody}]]
    BY DEF PeopleInv, PeopleTypeOK
  <2>4. /\ identities' \in [Names -> [Externals -> People \cup {Nobody}]]
        /\ \A n \in Names, e \in Externals :
              \/ identities'[n][e] = identities[n][e]
              \/ accounts[identities'[n][e]].owner = Holder[e]
    <3> DEFINE n0 == flows[f].name
               e0 == flows[f].external
               u0 == flows[f].user
    <3>1. n0 \in Names /\ e0 \in Externals /\ u0 \in People /\ accounts[u0].owner = Holder[e0]
          /\ (identities' = identities \/ identities' = [identities EXCEPT ![n0][e0] = u0])
      BY <2>1, <2>2
    <3> HIDE DEF n0, e0, u0
    <3> QED
      BY <2>3, <3>1
  <2>5. PeopleKept
    BY <2>1, <2>4 DEF PeopleKept, OwnersStay, PeopleInv, PeopleTypeOK
  <2> QED
    BY <1>1, <2>1, <2>5, FlowEnds
<1> QED
  BY <1>2, <1>3

LEMMA EndingsApart ==
    ASSUME PeopleInv, NEW f \in Flows,
           \/ FlowExpires(f) \/ FinishProviderDiagnostic(f)
           \/ \E mfaRequired \in BOOLEAN : FinishExternalReauthentication(f, mfaRequired)
    PROVE  PeopleInv'
<1>1. cookie \in [Browsers -> Flows \cup {Nobody}] /\ confirmed \in [Browsers -> Externals \cup {Nobody}]
  BY DEF PeopleInv, PeopleTypeOK
<1>2. CASE FlowExpires(f) \/ FinishProviderDiagnostic(f)
  <2>1. UNCHANGED peopleVars /\ flows' = FlowEnded(f)
    BY <1>2 DEF FlowExpires, FinishProviderDiagnostic
  <2>2. cookie' = cookie \/ cookie' = [b \in Browsers |-> IF cookie[b] = f THEN Nobody ELSE cookie[b]]
    BY <1>2 DEF FlowExpires, FinishProviderDiagnostic
  <2>3. cookie' \in [Browsers -> Flows \cup {Nobody}] /\ \A b \in Browsers : cookie'[b] \in {cookie[b], Nobody}
    BY <1>1, <2>2
  <2> QED
    BY <2>1, <2>3, PeopleAlone, FlowEnds
<1>3. ASSUME NEW mfaRequired \in BOOLEAN, FinishExternalReauthentication(f, mfaRequired) PROVE PeopleInv'
  <2>1. /\ flows[f].step = "authenticated" /\ flows' = FlowEnded(f)
        /\ UNCHANGED <<accounts, identities, signedIn, cookie>>
        /\ confirmed' = confirmed \/ confirmed' = [confirmed EXCEPT ![flows[f].at] = flows[f].external]
    BY <1>3 DEF FinishExternalReauthentication
  <2>2. flows[f].external \in Externals /\ Holder[flows[f].external] = flows[f].at /\ flows[f].at \in Browsers
    BY <2>1, BoundIsOwn
  <2>3. /\ confirmed' \in [Browsers -> Externals \cup {Nobody}]
        /\ \A b \in Browsers : confirmed'[b] = confirmed[b] \/ Holder[confirmed'[b]] = b
    BY <1>1, <2>1, <2>2
  <2>4. PeopleKept
    BY <2>1, <2>3 DEF PeopleKept, OwnersStay, PeopleInv, PeopleTypeOK
  <2> QED
    BY <1>1, <2>1, <2>4, FlowEnds
<1> QED
  BY <1>2, <1>3

\* The account found for a flow is one its identity is linked to.
LEMMA FoundApart ==
    ASSUME PeopleInv, NEW f \in Flows, flows[f].step \notin {"none", "open"}, BoundTo(f) # Nobody,
           UNCHANGED <<accounts, identities, signedIn, confirmed, cookie>>,
           flows' = [flows EXCEPT ![f].step = "found", ![f].account = BoundTo(f)]
    PROVE  PeopleInv'
<1> DEFINE email == flows[f].email
           account == BoundTo(f)
<1>1. flows[f] \in Flow /\ flows \in [Flows -> Flow]
  BY DEF PeopleInv, PeopleTypeOK
<1>2. account \in People /\ accounts[account].owner = flows[f].at
  BY BoundIsOwn
<1> HIDE DEF account
<1>3. email \in BOOLEAN /\ [flows[f] EXCEPT !.step = "found", !.account = account] =
                              [flows[f] EXCEPT !.step = "found", !.email = email, !.account = account]
  BY <1>1, <1>2 DEF Flow
<1>4. flows' = [flows EXCEPT ![f] = [flows[f] EXCEPT !.step = "found", !.email = email, !.account = account]]
  BY <1>1, <1>3 DEF account
<1> HIDE DEF email
<1>5. PeopleKept
  BY PeopleAlone DEF peopleVars
<1> QED
  BY <1>2, <1>3, <1>4, <1>5, FlowAdvances

LEMMA ExternalLoginApart ==
    ASSUME PeopleInv, NEW f \in Flows, FinishExternalLogin(f) \/ ExternalSession(f)
    PROVE  PeopleInv'
<1>1. flows[f] \in Flow /\ flows \in [Flows -> Flow] /\ cookie \in [Browsers -> Flows \cup {Nobody}]
      /\ FlowOK(f) /\ flows[f].step \notin {"none", "open"}
  BY DEF PeopleInv, PeopleTypeOK, FinishExternalLogin, ExternalSession
<1>2. CASE FinishExternalLogin(f)
  <2>1. /\ UNCHANGED <<accounts, identities, signedIn, confirmed, cookie>>
        /\ \/ BoundTo(f) # Nobody /\ flows' = [flows EXCEPT ![f].step = "found", ![f].account = BoundTo(f)]
           \/ flows' = FlowEnded(f)
           \/ flows' = [flows EXCEPT ![f].step = "creating", ![f].email = TRUE]
    BY <1>2 DEF FinishExternalLogin, peopleVars
  <2>2. PeopleKept
    BY <2>1, PeopleAlone DEF peopleVars
  <2>3. CASE BoundTo(f) # Nobody /\ flows' = [flows EXCEPT ![f].step = "found", ![f].account = BoundTo(f)]
    BY <1>1, <2>1, <2>3, FoundApart
  <2>4. CASE flows' = FlowEnded(f)
    BY <1>1, <2>1, <2>2, <2>4, FlowEnds
  <2>5. CASE flows' = [flows EXCEPT ![f].step = "creating", ![f].email = TRUE]
    <3> DEFINE account == flows[f].account
    <3>1. account \in People \cup {Nobody} /\ [flows[f] EXCEPT !.step = "creating", !.email = TRUE] =
                 [flows[f] EXCEPT !.step = "creating", !.email = TRUE, !.account = account]
      BY <1>1 DEF Flow
    <3>2. flows' = [flows EXCEPT ![f] = [flows[f] EXCEPT !.step = "creating", !.email = TRUE, !.account = account]]
      BY <1>1, <2>5, <3>1
    <3> HIDE DEF account
    <3> QED
      BY <1>1, <2>1, <2>2, <3>1, <3>2, FlowAdvances
  <2> QED
    BY <2>1, <2>3, <2>4, <2>5
<1>3. CASE ExternalSession(f)
  <2>1. flows[f].step = "found" /\ UNCHANGED <<accounts, identities, cookie>>
    BY <1>3 DEF ExternalSession
  <2>2. CASE flows' = FlowEnded(f) /\ UNCHANGED <<signedIn, confirmed>>
    <3>1. PeopleKept
      BY <2>1, <2>2, PeopleAlone DEF peopleVars
    <3> QED
      BY <1>1, <2>1, <2>2, <3>1, FlowEnds
  <2>3. CASE NewSession(flows[f].at, flows[f].account, FlowEnded(f))
    <3> DEFINE later == FlowEnded(f)
    <3>1. later \in [Flows -> Flow] /\ \A g \in Flows : later[g] \in {flows[g], NoFlow}
      BY <1>1, EndedFlow DEF FlowEnded
    <3>2. flows[f].at \in Browsers /\ flows[f].account \in People /\ accounts'[flows[f].account].owner = flows[f].at
      BY <1>1, <2>1 DEF FlowOK
    <3> HIDE DEF later
    <3>3. /\ signedIn' \in [Browsers -> People \cup {Nobody}]
          /\ confirmed' \in [Browsers -> Externals \cup {Nobody}]
          /\ \A c \in Browsers :
                /\ signedIn'[c] \in {Nobody, signedIn[c]} \/ accounts'[signedIn'[c]].owner = c
                /\ confirmed'[c] \in {Nobody, confirmed[c]} \/ Holder[confirmed'[c]] = c
          /\ flows' \in [Flows -> Flow] /\ \A g \in Flows : FlowKept(g)
      BY <2>3, <3>1, <3>2, NewSessionKeeps DEF later
    <3>4. PeopleKept
      BY <2>1, <3>3 DEF PeopleKept, OwnersStay, PeopleInv, PeopleTypeOK
    <3> QED
      BY <2>1, <3>3, <3>4, FlowsEndSessions
  <2> QED
    BY <1>3, <2>2, <2>3 DEF ExternalSession
<1> QED
  BY <1>2, <1>3

\* An account made for an identity is its holder's, whatever account has the address.
LEMMA CreateUserApart ==
    ASSUME PeopleInv, NEW f \in Flows, NEW a \in People, CreateUserAndIdentity(f, a)
    PROVE  PeopleInv'
<1> DEFINE e == flows[f].external
           n == flows[f].name
<1>1. /\ flows[f] \in Flow /\ flows \in [Flows -> Flow] /\ flows[f].step = "creating" /\ ~accounts[a].there
      /\ UNCHANGED <<signedIn, confirmed, cookie>>
  BY DEF PeopleInv, PeopleTypeOK, CreateUserAndIdentity
<1>2. n \in Names /\ e \in Externals /\ Holder[e] = flows[f].at /\ flows[f].at \in Browsers
  BY <1>1, BoundIsOwn
<1>3. CASE flows' = [flows EXCEPT ![f].email = FALSE] /\ UNCHANGED <<accounts, identities>>
  <2>1. PeopleKept
    BY <1>1, <1>3, PeopleAlone DEF peopleVars
  <2> DEFINE account == flows[f].account
  <2>2. account \in People \cup {Nobody} /\ [flows[f] EXCEPT !.email = FALSE] =
             [flows[f] EXCEPT !.step = "creating", !.email = FALSE, !.account = account]
    BY <1>1 DEF Flow
  <2>3. flows' = [flows EXCEPT ![f] = [flows[f] EXCEPT !.step = "creating", !.email = FALSE, !.account = account]]
    BY <1>1, <1>3, <2>2
  <2> HIDE DEF account
  <2> QED
    BY <1>1, <2>1, <2>2, <2>3, FlowAdvances
<1>4. CASE /\ UNCHANGED <<accounts, identities>>
           /\ flows' = IF BoundTo(f) = Nobody THEN FlowEnded(f)
                       ELSE [flows EXCEPT ![f].step = "found", ![f].account = BoundTo(f)]
  <2>1. PeopleKept /\ cookie \in [Browsers -> Flows \cup {Nobody}]
    BY <1>1, <1>4, PeopleAlone DEF peopleVars, PeopleInv, PeopleTypeOK
  <2>2. CASE flows' = FlowEnded(f)
    BY <1>1, <2>1, <2>2, FlowEnds
  <2>3. CASE BoundTo(f) # Nobody /\ flows' = [flows EXCEPT ![f].step = "found", ![f].account = BoundTo(f)]
    BY <1>1, <1>4, <2>3, FoundApart
  <2> QED
    BY <1>4, <2>2, <2>3
<1>5. CASE /\ accounts' = [accounts EXCEPT ![a] = [there |-> TRUE, active |-> TRUE, local |-> FALSE, username |-> e,
                               email |-> IF flows[f].email THEN e ELSE Nobody, owner |-> Holder[e]]]
           /\ identities' = [identities EXCEPT ![n][e] = a]
           /\ flows' = [flows EXCEPT ![f].step = "found", ![f].account = a]
  <2> HIDE DEF e, n
  <2> DEFINE row == [there |-> TRUE, active |-> TRUE, local |-> FALSE, username |-> e,
                     email |-> IF flows[f].email THEN e ELSE Nobody, owner |-> Holder[e]]
             email == flows[f].email
  <2>1. row \in Account /\ row.there /\ row.owner = Holder[e]
    BY <1>2 DEF Account
  <2>2. accounts' = [accounts EXCEPT ![a] = row]
    BY <1>5
  <2> HIDE DEF row
  <2>3. /\ accounts' \in [People -> Account] /\ OwnersStay /\ accounts'[a].owner = Holder[e]
        /\ \A other \in People : ~accounts'[other].there => accounts'[other].owner = Nobody
    BY <1>1, <2>1, <2>2, AccountMade
  <2>4. identities \in [Names -> [Externals -> People \cup {Nobody}]]
    BY DEF PeopleInv, PeopleTypeOK
  <2>5. /\ identities' \in [Names -> [Externals -> People \cup {Nobody}]]
        /\ \A m \in Names, g \in Externals :
              \/ identities'[m][g] = identities[m][g]
              \/ accounts'[identities'[m][g]].owner = Holder[g]
    BY <1>2, <1>5, <2>3, <2>4
  <2>6. PeopleKept
    BY <1>1, <2>3, <2>5 DEF PeopleKept, PeopleInv, PeopleTypeOK
  <2>7. email \in BOOLEAN /\ [flows[f] EXCEPT !.step = "found", !.account = a] =
             [flows[f] EXCEPT !.step = "found", !.email = email, !.account = a]
    BY <1>1 DEF Flow
  <2>8. flows' = [flows EXCEPT ![f] = [flows[f] EXCEPT !.step = "found", !.email = email, !.account = a]]
    BY <1>1, <1>5, <2>7
  <2> HIDE DEF email
  <2> QED
    BY <1>1, <1>2, <2>3, <2>6, <2>7, <2>8, FlowAdvances
<1> QED
  BY <1>3, <1>4, <1>5 DEF CreateUserAndIdentity

(***************************************************************************)
(* Nobody reaches the account of somebody else through a provider: links   *)
(* join identities to accounts of the person who holds them, and browsers  *)
(* are signed in to, and confirmed for, accounts of their own person.  The *)
(* state of a flow stays with the browser whose cookie names it            *)
(* (validProviderFlowCookie), the session of a link or a confirmation is   *)
(* the one it began in, and an address never chooses the account           *)
(* (finishExternalLogin, CreateUserAndIdentity).                           *)
(***************************************************************************)
THEOREM ProvidersKeepPeopleApart == ProvidersSpec => []PeopleStayApart
<1>1. ProvidersInit => PeopleInv
  <2> SUFFICES ASSUME ProvidersInit PROVE PeopleInv
    OBVIOUS
  <2>1. NoPerson \in Account /\ NoPerson.owner = Nobody
    BY DEF NoPerson, Account
  <2>2. PeopleTypeOK
    BY <2>1, EndedFlow DEF ProvidersInit, PeopleTypeOK
  <2>3. \A f \in Flows : flows[f].step = "none"
    BY EndedFlow DEF ProvidersInit
  <2>4. \A a \in People : accounts[a].owner = Nobody
    BY <2>1 DEF ProvidersInit
  <2>5. PeopleStayApart
    BY DEF ProvidersInit, PeopleStayApart
  <2> QED
    BY <2>2, <2>3, <2>4, <2>5 DEF PeopleInv, FlowOK, CookieOK
<1>2. PeopleInv /\ [ProvidersNext]_providerVars => PeopleInv'
  <2> SUFFICES ASSUME PeopleInv, [ProvidersNext]_providerVars PROVE PeopleInv'
    OBVIOUS
  <2>1. CASE PeopleStep
    BY <2>1, PeopleStepsApart
  <2>2. CASE FlowStep
    BY <2>2, BeginApart, CallbackApart, EndingsApart, BindApart, ExternalLoginApart, CreateUserApart DEF FlowStep
  <2>3. CASE UNCHANGED <<peopleVars, cookie, flows>>
    <3>1. \A f \in Flows : FlowKept(f)
      BY <2>3 DEF FlowKept
    <3>2. flows' \in [Flows -> Flow]
      BY <2>3 DEF PeopleInv, PeopleTypeOK
    <3> QED
      BY <2>3, <3>1, <3>2, PeopleAlone, FlowsEndSessions
  <2>4. AdminStep => UNCHANGED <<peopleVars, cookie, flows>>
    BY DEF AdminStep, LoadDynamic, LoadDynamicEnds, UpdateProvider, DeleteProvider, CreateProvider,
           UpdateProviderCommits
  <2>5. (UNCHANGED providerVars) => UNCHANGED <<peopleVars, cookie, flows>>
    BY DEF providerVars, peopleVars
  <2> QED
    BY <2>1, <2>2, <2>3, <2>4, <2>5 DEF ProvidersNext
<1>3. PeopleInv => PeopleStayApart
  BY DEF PeopleInv
<1> QED
  BY <1>1, <1>2, <1>3, PTL DEF ProvidersSpec
-----------------------------------------------------------------------------
(* Images *)

\* Places of objects: typed, and different for different stores and images.
LEMMA PlaceTyped ==
    ASSUME NEW s \in Stores, NEW a \in Images
    PROVE  At(s, a) \in {PlaceOf[t] : t \in Stores} \X Images
BY DEF At
LEMMA PlacesDiffer ==
    ASSUME NEW s \in Stores, NEW t \in Stores, NEW a, NEW b, At(s, a) = At(t, b)
    PROVE  a = b /\ PlaceOf[s] = PlaceOf[t]
BY DEF At

LEMMA TakenTyped ==
    ASSUME MediaInv, NEW c \in Cleaners, NEW t \in cleaners[c].taken
    PROVE  TakenOK(t) /\ t[1] \in Images /\ t[2] \in Stores
<1>1. cleaners[c] \in Round /\ TakenOK(t)
  BY DEF MediaInv, MediaTypeOK
<1> QED
  BY <1>1 DEF Round

\* An image somebody has is nobody's upload and not taken by the clean-up.
LEMMA CurrentIsSafe ==
    ASSUME MediaInv, NEW o \in MediaOwners, current[o] # Nothing
    PROVE  /\ current[o] \in Images /\ images[current[o]].status = "active"
           /\ \A q \in MediaOwners : current[q] = current[o] => q = o
           /\ \A u \in Uploads : uploads[u].step # "idle" => uploads[u].image # current[o]
           /\ \A c \in Cleaners : \A t \in cleaners[c].taken : t[1] # current[o]
<1>1. OwnerOK(o) /\ current[o] \in Images /\ Nothing \notin MediaOwners
  BY MediaAssumptions DEF MediaInv, MediaTypeOK
<1>2. ASSUME NEW q \in MediaOwners, current[q] = current[o] PROVE q = o
  <2>1. OwnerOK(q)
    BY DEF MediaInv
  <2> QED
    BY <1>1, <1>2, <2>1 DEF OwnerOK, OwnImage, Readable
<1>3. ASSUME NEW u \in Uploads, uploads[u].step # "idle" PROVE uploads[u].image # current[o]
  <2>1. UploadOK(u)
    BY DEF MediaInv
  <2> QED
    BY <1>1, <1>3, <2>1 DEF OwnerOK, OwnImage, Readable, UploadOK
<1>4. ASSUME NEW c \in Cleaners, NEW t \in cleaners[c].taken PROVE t[1] # current[o]
  <2>1. TakenOK(t)
    BY DEF MediaInv
  <2> QED
    BY <1>1, <2>1 DEF OwnerOK, OwnImage, Readable, TakenOK
<1> QED
  BY <1>1, <1>2, <1>3, <1>4 DEF OwnerOK, OwnImage, Readable

LEMMA JobEnds ==
    ASSUME MediaInv, NEW u \in Uploads, NEW s \in {"pending", "completed", "failed"}, FinishJob(u, s)
    PROVE  jobs' \in [MediaOwners -> Job]
<1>1. jobs \in [MediaOwners -> Job]
  BY DEF MediaInv, MediaTypeOK
<1> QED
  BY <1>1 DEF FinishJob, Job

\* Settings, snapshots and instances: no row, no object and no item is touched.
LEMMA SettingsKeepMedia ==
    ASSUME MediaInv, ProfilesOK', media' \in MediaState, profiles' \subseteq Profiles,
           mediaSnapshots' \in [Nodes -> MediaState], alive' \subseteq Nodes, writes' \in BOOLEAN,
           jobs' \in [MediaOwners -> Job],
           migration' \in Migration, migration'.source = migration.source, migration'.target = migration.target,
           UNCHANGED <<images, current, objects, uploads, cleaners, items, movers, moves, unclear, strayed>>
    PROVE  MediaInv'
<1>1. MediaTypeOK'
  BY DEF MediaInv, MediaTypeOK
<1>2. \A u \in Uploads : UploadOK(u)'
  BY DEF MediaInv, UploadOK
<1>3. \A c \in Cleaners : \A t \in cleaners[c].taken : TakenOK(t)'
  BY DEF MediaInv, TakenOK
<1>4. MigrationOK'
  BY DEF MediaInv, MigrationOK
<1>5. \A a \in Images : ItemOK(a)'
  BY DEF MediaInv, ItemOK
<1>6. \A n \in Nodes : MoverOK(n)'
  BY DEF MediaInv, MoverOK, IsCurrent
<1>7. \A o \in MediaOwners : OwnerOK(o)'
  BY DEF MediaInv, OwnerOK, OwnImage, Readable
<1> QED
  BY <1>1, <1>2, <1>3, <1>4, <1>5, <1>6, <1>7 DEF MediaInv

LEMMA MediaWritten ==
    ASSUME media \in MediaState, NEW p \in Profiles \cup {Nothing}, NEW tested \in BOOLEAN
    PROVE  LET new == [media EXCEPT !.revision = @ + 1, !.candidate = p, !.tested = tested]
           IN  new \in MediaState /\ new.active = media.active /\ new.candidate = p
<1> DEFINE first == [media EXCEPT !.revision = @ + 1]
           second == [first EXCEPT !.candidate = p]
<1>1. first \in MediaState /\ first.active = media.active
  BY DEF MediaState
<1> HIDE DEF first
<1>2. second \in MediaState /\ second.active = media.active /\ second.candidate = p
  BY <1>1 DEF MediaState
<1> HIDE DEF second
<1>3. LET new == [second EXCEPT !.tested = tested]
      IN  new \in MediaState /\ new.active = media.active /\ new.candidate = p
  BY <1>2 DEF MediaState
<1> QED
  BY <1>3 DEF first, second

LEMMA SettingsSteps ==
    ASSUME MediaInv,
           \/ \E n \in Nodes : LoadMedia(n) \/ (\E p \in Profiles : CreateCandidate(n, p)) \/ TestCandidate(n)
                                 \/ StartNode(n) \/ FinalizeMigration(n)
           \/ \E admitted \in BOOLEAN : SetWrites(admitted)
           \/ UNCHANGED mediaVars
    PROVE  MediaInv'
<1>1. /\ media \in MediaState /\ profiles \subseteq Profiles /\ mediaSnapshots \in [Nodes -> MediaState]
      /\ alive \subseteq Nodes /\ writes \in BOOLEAN /\ jobs \in [MediaOwners -> Job] /\ migration \in Migration
      /\ ProfilesOK /\ Nothing \notin Profiles /\ Fallback \notin Profiles
  BY MediaAssumptions DEF MediaInv, MediaTypeOK
<1>2. CASE \E n \in Nodes : LoadMedia(n) \/ StartNode(n)
  BY <1>1, <1>2, SettingsKeepMedia DEF LoadMedia, StartNode, ProfilesOK
<1>3. ASSUME NEW n \in Nodes, NEW p \in Profiles, CreateCandidate(n, p) PROVE MediaInv'
  <2>1. /\ media' = [media EXCEPT !.revision = @ + 1, !.candidate = p, !.tested = FALSE]
        /\ mediaSnapshots' = [mediaSnapshots EXCEPT ![n] = media'] /\ p \notin profiles
        /\ profiles' = profiles \cup {p}
    BY <1>3 DEF CreateCandidate
  <2>2. media' \in MediaState /\ media'.active = media.active /\ media'.candidate = p
    BY <1>1, <2>1, MediaWritten
  <2>3. mediaSnapshots' \in [Nodes -> MediaState]
    BY <1>1, <2>1, <2>2
  <2>4. ProfilesOK'
    BY <1>1, <2>1, <2>2 DEF ProfilesOK
  <2> QED
    BY <1>1, <1>3, <2>1, <2>2, <2>3, <2>4, SettingsKeepMedia DEF CreateCandidate
<1>4. ASSUME NEW n \in Nodes, TestCandidate(n) PROVE MediaInv'
  <2>1. /\ media' = [media EXCEPT !.revision = @ + 1, !.tested = TRUE]
        /\ mediaSnapshots' = [mediaSnapshots EXCEPT ![n] = media']
    BY <1>4 DEF TestCandidate
  <2>2. media' \in MediaState /\ media'.active = media.active /\ media'.candidate = media.candidate
    <3>1. [media EXCEPT !.revision = @ + 1, !.tested = TRUE]
            = [media EXCEPT !.revision = @ + 1, !.candidate = media.candidate, !.tested = TRUE]
      BY <1>1 DEF MediaState
    <3>2. media.candidate \in Profiles \cup {Nothing}
      BY <1>1 DEF MediaState
    <3> QED
      BY <1>1, <2>1, <3>1, <3>2, MediaWritten
  <2>3. mediaSnapshots' \in [Nodes -> MediaState]
    BY <1>1, <2>1, <2>2
  <2>4. ProfilesOK'
    BY <1>1, <1>4, <2>2 DEF ProfilesOK, TestCandidate
  <2> QED
    BY <1>1, <1>4, <2>2, <2>3, <2>4, SettingsKeepMedia DEF TestCandidate
<1>5. ASSUME NEW n \in Nodes, FinalizeMigration(n) PROVE MediaInv'
  <2>1. CASE /\ migration.target = Fallback \/ media.candidate = migration.target
             /\ media' = [revision |-> media.revision + 1, active |-> migration.target,
                          candidate |-> Nothing, tested |-> FALSE]
             /\ migration' = [migration EXCEPT !.status = "applying"]
             /\ mediaSnapshots' = [mediaSnapshots EXCEPT ![n] = media'] /\ UNCHANGED writes
    <3>1. /\ media' \in MediaState /\ migration' \in Migration /\ media'.active = migration.target
          /\ media'.candidate = Nothing /\ migration'.source = migration.source /\ migration'.target = migration.target
      BY <1>1, <2>1 DEF MediaState, Migration, Stores
    <3>2. ProfilesOK'
      BY <1>1, <1>5, <2>1, <3>1 DEF ProfilesOK, Migration, Stores, FinalizeMigration
    <3>3. mediaSnapshots' \in [Nodes -> MediaState]
      BY <1>1, <2>1, <3>1
    <3> QED
      BY <1>1, <1>5, <2>1, <3>1, <3>2, <3>3, SettingsKeepMedia DEF FinalizeMigration
  <2>2. CASE /\ migration' = [migration EXCEPT !.status = "completed"]
             /\ writes' = (writes \/ migration.restore) \/ UNCHANGED writes
             /\ UNCHANGED <<media, mediaSnapshots>>
    <3>1. migration' \in Migration /\ migration'.source = migration.source /\ migration'.target = migration.target
      BY <1>1, <2>2 DEF Migration
    <3>2. ProfilesOK' /\ writes' \in BOOLEAN
      BY <1>1, <1>5, <2>2 DEF ProfilesOK, FinalizeMigration
    <3> QED
      BY <1>1, <1>5, <2>2, <3>1, <3>2, SettingsKeepMedia DEF FinalizeMigration
  <2> QED
    BY <1>5, <2>1, <2>2 DEF FinalizeMigration
<1>6. ASSUME NEW admitted \in BOOLEAN, SetWrites(admitted) PROVE MediaInv'
  <2>1. migration' \in Migration /\ migration'.source = migration.source /\ migration'.target = migration.target
    BY <1>1, <1>6 DEF SetWrites, Migration
  <2> QED
    BY <1>1, <1>6, <2>1, SettingsKeepMedia DEF SetWrites, ProfilesOK
<1>7. CASE UNCHANGED mediaVars
  BY <1>1, <1>7, SettingsKeepMedia DEF mediaVars, ProfilesOK
<1> QED
  BY <1>2, <1>3, <1>4, <1>5, <1>6, <1>7

\* The facts about types that the steps below use.
LEMMA MediaTypes ==
    ASSUME MediaInv
    PROVE  /\ images \in [Images -> Image] /\ current \in [MediaOwners -> Images \cup {Nothing}]
           /\ objects \subseteq {PlaceOf[s] : s \in Stores} \X Images
           /\ uploads \in [Uploads -> Upload] /\ jobs \in [MediaOwners -> Job]
           /\ cleaners \in [Cleaners -> Round]
           /\ migration \in Migration /\ items \in [Images -> Item] /\ movers \in [Nodes -> Mover]
           /\ media \in MediaState /\ mediaSnapshots \in [Nodes -> MediaState]
           /\ unclear \subseteq Images /\ strayed \subseteq Images /\ moves \in Nat /\ Nothing \notin Images /\ Nothing \notin MediaOwners
BY MediaAssumptions DEF MediaInv, MediaTypeOK

LEMMA NoUploadTyped == NoUpload \in Upload /\ NoUpload.step = "idle"
<1>1. Fallback \in Stores
  BY DEF Stores
<1> QED
  BY <1>1 DEF NoUpload, Upload

\* A request gets a row of its own.
LEMMA StageKeeps ==
    ASSUME MediaInv, NEW u \in Uploads, NEW n \in Nodes, NEW o \in MediaOwners, NEW a \in Images,
           NEW job \in Nat, Stage(u, n, o, a, job), jobs' \in [MediaOwners -> Job],
           UNCHANGED <<media, profiles, mediaSnapshots, alive, writes, current, objects, cleaners,
                       migration, items, movers, moves, unclear, strayed>>
    PROVE  MediaInv'
<1> DEFINE s == mediaSnapshots[n].active
           up == [step |-> "staged", owner |-> o, image |-> a, node |-> n, store |-> s, job |-> job]
<1>1. /\ images[a].status = "none" /\ images' = [images EXCEPT ![a] = CreateStaging(o, s)]
      /\ uploads' = [uploads EXCEPT ![u] = up] /\ uploads[u].step = "idle"
  BY DEF Stage
<1>2. s \in Stores
  BY MediaTypes DEF MediaState
<1> HIDE DEF s
<1>3. CreateStaging(o, s) \in Image /\ up \in Upload
  BY <1>2 DEF CreateStaging, Image, Upload
<1>4. /\ images' \in [Images -> Image] /\ uploads' \in [Uploads -> Upload]
      /\ images'[a] = CreateStaging(o, s) /\ \A b \in Images : b # a => images'[b] = images[b]
      /\ uploads'[u] = up /\ \A v \in Uploads : v # u => uploads'[v] = uploads[v]
  BY <1>1, <1>3, MediaTypes
<1>5. MediaTypeOK'
  BY <1>4 DEF MediaInv, MediaTypeOK
<1>6. ItemOK(a) /\ items[a].status = "none"
  BY <1>1 DEF MediaInv, ItemOK
<1>7. \A v \in Uploads : uploads[v].step # "idle" => uploads[v].image # a /\ uploads[v].image \in Images
  BY <1>1 DEF MediaInv, UploadOK
<1>8. UploadOK(u)'
  BY <1>4, <1>6, <1>7 DEF UploadOK, CreateStaging
<1>9. ASSUME NEW v \in Uploads, v # u PROVE UploadOK(v)'
  <2>1. UploadOK(v)
    BY DEF MediaInv
  <2> QED
    BY <1>4, <1>7, <1>9, <2>1 DEF UploadOK
<1>10. ASSUME NEW c \in Cleaners, NEW t \in cleaners[c].taken PROVE TakenOK(t)'
  <2>1. TakenOK(t) /\ t[1] \in Images
    BY TakenTyped
  <2> QED
    BY <1>1, <1>4, <2>1 DEF TakenOK
<1>11. \A b \in Images : ItemOK(b)'
  <2> SUFFICES ASSUME NEW b \in Images PROVE ItemOK(b)'
    OBVIOUS
  <2>1. ItemOK(b)
    BY DEF MediaInv
  <2> QED
    BY <1>4, <1>6, <2>1 DEF ItemOK, CreateStaging
<1>12. ASSUME NEW k \in Nodes PROVE MoverOK(k)'
  <2>1. MoverOK(k)
    BY DEF MediaInv
  <2>2. movers[k].step # "idle" => movers[k].image # a
    BY <1>1, <2>1 DEF MoverOK
  <2> QED
    BY <1>4, <2>1, <2>2 DEF MoverOK, IsCurrent
<1>13. ASSUME NEW q \in MediaOwners PROVE OwnerOK(q)'
  <2>1. OwnerOK(q) /\ current[q] \in Images \cup {Nothing} /\ Nothing \notin Images
    BY MediaTypes DEF MediaInv
  <2> QED
    BY <1>1, <1>4, <2>1 DEF OwnerOK, OwnImage, Readable, CreateStaging
<1>14. ProfilesOK' /\ MigrationOK'
  BY DEF MediaInv, ProfilesOK, MigrationOK
<1> QED
  BY <1>5, <1>8, <1>9, <1>10, <1>11, <1>12, <1>13, <1>14 DEF MediaInv

LEMMA StageSteps ==
    ASSUME MediaInv, NEW u \in Uploads, NEW n \in Nodes, NEW o \in MediaOwners, NEW a \in Images,
           BeginUpload(u, n, o, a) \/ ClaimProviderImportJob(u, n, o, a)
    PROVE  MediaInv'
<1>1. CASE BeginUpload(u, n, o, a)
  BY <1>1, StageKeeps, MediaTypes DEF BeginUpload
<1>2. CASE ClaimProviderImportJob(u, n, o, a)
  <2>1. jobs[o].attempts + 1 \in Nat /\ jobs' \in [MediaOwners -> Job]
    BY <1>2, MediaTypes DEF ClaimProviderImportJob, Job
  <2> QED
    BY <1>2, <2>1, StageKeeps DEF ClaimProviderImportJob
<1> QED
  BY <1>1, <1>2

\* Uploads that end, and instances that stop: what is left of a request is its row.
LEMMA EndsKeep ==
    ASSUME MediaInv, uploads' \in [Uploads -> Upload], movers' \in [Nodes -> Mover], alive' \subseteq Nodes,
           \A u \in Uploads : uploads'[u] = uploads[u] \/ uploads'[u].step = "idle",
           \A n \in Nodes : movers'[n] = movers[n] \/ movers'[n].step = "idle",
           UNCHANGED <<media, profiles, mediaSnapshots, writes, images, current, objects, jobs, cleaners,
                       migration, items, moves, unclear, strayed>>
    PROVE  MediaInv'
<1>1. MediaTypeOK'
  BY DEF MediaInv, MediaTypeOK
<1>2. \A u \in Uploads : UploadOK(u)'
  BY DEF MediaInv, UploadOK
<1>3. \A c \in Cleaners : \A t \in cleaners[c].taken : TakenOK(t)'
  BY DEF MediaInv, TakenOK
<1>4. MigrationOK' /\ ProfilesOK'
  BY DEF MediaInv, MigrationOK, ProfilesOK
<1>5. \A a \in Images : ItemOK(a)'
  BY DEF MediaInv, ItemOK
<1>6. \A n \in Nodes : MoverOK(n)'
  BY DEF MediaInv, MoverOK, IsCurrent
<1>7. \A o \in MediaOwners : OwnerOK(o)'
  BY DEF MediaInv, OwnerOK, OwnImage, Readable
<1> QED
  BY <1>1, <1>2, <1>3, <1>4, <1>5, <1>6, <1>7 DEF MediaInv

LEMMA NoMoverTyped == NoMover \in Mover /\ NoMover.step = "idle"
<1>1. Fallback \in Stores
  BY DEF Stores
<1> QED
  BY <1>1 DEF NoMover, Mover

LEMMA EndSteps ==
    ASSUME MediaInv,
           \/ \E u \in Uploads : UploadCrashes(u)
           \/ \E n \in Nodes : StopNode(n) \/ MoverStops(n)
    PROVE  MediaInv'
<1>1. alive \subseteq Nodes
  BY DEF MediaInv, MediaTypeOK
<1>2. ASSUME NEW u \in Uploads, UploadCrashes(u) PROVE MediaInv'
  BY <1>1, <1>2, EndsKeep, MediaTypes, NoUploadTyped DEF UploadCrashes
<1>3. ASSUME NEW n \in Nodes, StopNode(n) PROVE MediaInv'
  BY <1>1, <1>3, EndsKeep, MediaTypes, NoUploadTyped, NoMoverTyped DEF StopNode
<1>4. ASSUME NEW n \in Nodes, MoverStops(n) PROVE MediaInv'
  BY <1>1, <1>4, EndsKeep, MediaTypes, NoMoverTyped DEF MoverStops
<1> QED
  BY <1>2, <1>3, <1>4

\* The objects of an upload are written where its row says.
LEMMA PutKeeps ==
    ASSUME MediaInv, NEW u \in Uploads, PutVariants(u)
    PROVE  MediaInv'
<1> DEFINE up == uploads[u]
           put == [up EXCEPT !.step = "stored"]
<1>1. /\ up.step = "staged" /\ objects' = objects \cup {At(up.store, up.image)}
      /\ uploads' = [uploads EXCEPT ![u] = put]
      /\ UNCHANGED <<media, profiles, mediaSnapshots, alive, writes, images, current, jobs, cleaners,
                     migration, items, movers, moves, unclear, strayed>>
  BY DEF PutVariants
<1>2. up \in Upload /\ UploadOK(u) /\ up.store \in Stores /\ up.image \in Images
  BY <1>1, MediaTypes DEF MediaInv, UploadOK, Upload
<1>3. put \in Upload /\ put.step = "stored" /\ put.image = up.image /\ put.owner = up.owner
      /\ put.store = up.store /\ put.node = up.node
  BY <1>2 DEF Upload
<1>4. /\ uploads' \in [Uploads -> Upload] /\ uploads'[u] = put
      /\ \A v \in Uploads : v # u => uploads'[v] = uploads[v]
  BY <1>1, <1>3, MediaTypes
<1>5. objects' \subseteq {PlaceOf[s] : s \in Stores} \X Images
  BY <1>1, <1>2, MediaTypes, PlaceTyped
<1>6. MediaTypeOK'
  BY <1>1, <1>4, <1>5 DEF MediaInv, MediaTypeOK
<1> HIDE DEF put
<1>7. UploadOK(u)'
  BY <1>1, <1>2, <1>3, <1>4 DEF UploadOK
<1>8. ASSUME NEW v \in Uploads, v # u PROVE UploadOK(v)'
  <2>1. UploadOK(v)
    BY DEF MediaInv
  <2> QED
    BY <1>1, <1>2, <1>3, <1>4, <1>8, <2>1 DEF UploadOK
<1>9. \A c \in Cleaners : \A t \in cleaners[c].taken : TakenOK(t)'
  BY <1>1, <1>2, <1>3, <1>4 DEF MediaInv, TakenOK
<1>10. MigrationOK' /\ ProfilesOK'
  BY <1>1 DEF MediaInv, MigrationOK, ProfilesOK
<1>11. \A a \in Images : ItemOK(a)'
  BY <1>1 DEF MediaInv, ItemOK
<1>12. \A n \in Nodes : MoverOK(n)'
  BY <1>1, <1>2, <1>3, <1>4 DEF MediaInv, MoverOK, IsCurrent
<1>13. \A o \in MediaOwners : OwnerOK(o)'
  BY <1>1 DEF MediaInv, OwnerOK, OwnImage, Readable
<1> QED
  BY <1>1, <1>6, <1>7, <1>8, <1>9, <1>10, <1>11, <1>12, <1>13 DEF MediaInv

\* The status of a row is written, with its time.
LEMMA RowMarked ==
    ASSUME NEW r \in Image,
           NEW status \in {"none", "staging", "active", "replaced", "failed", "deleted"}
    PROVE  LET row == [r EXCEPT !.status = status, !.old = FALSE]
           IN  /\ row \in Image /\ row.status = status /\ row.store = r.store /\ row.owner = r.owner
               /\ row.claimed = r.claimed /\ row.erased = r.erased
<1> DEFINE first == [r EXCEPT !.status = status]
<1>1. /\ first \in Image /\ first.status = status /\ first.store = r.store /\ first.owner = r.owner
      /\ first.claimed = r.claimed /\ first.erased = r.erased
  BY DEF Image
<1> HIDE DEF first
<1>2. LET row == [first EXCEPT !.old = FALSE]
      IN  /\ row \in Image /\ row.status = status /\ row.store = r.store /\ row.owner = r.owner
          /\ row.claimed = r.claimed /\ row.erased = r.erased
  BY <1>1 DEF Image
<1> QED
  BY <1>2 DEF first

\* A request that fails: its row is marked, and its objects go, wherever they are looked for.
LEMMA FailureKeeps ==
    ASSUME MediaInv, NEW u \in Uploads, NEW removed \in BOOLEAN, NEW retry \in BOOLEAN,
           UploadFails(u, removed, retry)
    PROVE  MediaInv'
<1> DEFINE a == uploads[u].image
           s == mediaSnapshots[uploads[u].node].active
<1>1. UploadOK(u) /\ uploads[u].step # "idle" /\ a \in Images /\ images[a].status = "staging"
      /\ uploads[u].node \in Nodes /\ s \in Stores
  BY MediaTypes DEF MediaInv, UploadFails, UploadOK, MediaState
<1> DEFINE row == [images[a] EXCEPT !.status = "failed", !.old = FALSE]
<1>2. /\ images' = [images EXCEPT ![a] = row] /\ uploads' = [uploads EXCEPT ![u] = NoUpload]
      /\ objects' = objects \/ objects' = objects \ {At(s, a)}
      /\ UNCHANGED <<media, profiles, mediaSnapshots, alive, writes, current, cleaners,
                     migration, items, movers, moves, unclear, strayed>>
  BY <1>1, MediaTypes DEF UploadFails, Compensate
<1>3. jobs' \in [MediaOwners -> Job]
  BY JobEnds DEF UploadFails
<1>4. row \in Image /\ row.status = "failed" /\ row.store = images[a].store /\ row.owner = images[a].owner
      /\ row.claimed = images[a].claimed
  BY <1>1, MediaTypes, RowMarked
<1> HIDE DEF row, s
<1>5. /\ images' \in [Images -> Image] /\ uploads' \in [Uploads -> Upload]
      /\ images'[a] = row /\ \A b \in Images : b # a => images'[b] = images[b]
      /\ uploads'[u].step = "idle" /\ \A v \in Uploads : v # u => uploads'[v] = uploads[v]
      /\ objects' \subseteq objects
  BY <1>1, <1>2, <1>4, MediaTypes, NoUploadTyped
<1>6. \A t \in Stores, b \in Images : b # a /\ At(t, b) \in objects => At(t, b) \in objects'
  BY <1>1, <1>2, PlacesDiffer
<1>7. MediaTypeOK'
  BY <1>2, <1>3, <1>5 DEF MediaInv, MediaTypeOK
<1>8. ASSUME NEW v \in Uploads PROVE UploadOK(v)'
  <2>1. UploadOK(v) /\ uploads[v].store \in Stores
    BY MediaTypes DEF MediaInv, Upload
  <2> QED
    BY <1>1, <1>2, <1>5, <1>6, <2>1 DEF UploadOK
<1>9. ASSUME NEW c \in Cleaners, NEW t \in cleaners[c].taken PROVE TakenOK(t)'
  <2>1. TakenOK(t) /\ t[1] \in Images
    BY TakenTyped
  <2> QED
    BY <1>2, <1>4, <1>5, <2>1 DEF TakenOK
<1>10. ASSUME NEW b \in Images PROVE ItemOK(b)'
  <2>1. ItemOK(b)
    BY DEF MediaInv
  <2> QED
    BY <1>1, <1>2, <1>4, <1>5, <2>1 DEF ItemOK
<1>11. \A o \in MediaOwners : current[o] # a
  BY <1>1, CurrentIsSafe, MediaTypes
<1>12. ASSUME NEW n \in Nodes PROVE MoverOK(n)'
  <2>1. MoverOK(n) /\ movers[n].target \in Stores
    BY MediaTypes DEF MediaInv, Mover
  <2> QED
    BY <1>1, <1>2, <1>4, <1>5, <1>6, <1>11, <2>1 DEF MoverOK, IsCurrent
<1>13. ASSUME NEW o \in MediaOwners PROVE OwnerOK(o)'
  <2>1. /\ OwnerOK(o) /\ current[o] \in Images \cup {Nothing} /\ Nothing \notin Images
        /\ \A b \in Images : images[b].store \in Stores
    BY MediaTypes DEF MediaInv, Image
  <2> QED
    BY <1>2, <1>4, <1>5, <1>6, <1>11, <2>1 DEF OwnerOK, OwnImage, Readable
<1>14. MigrationOK' /\ ProfilesOK'
  BY <1>2 DEF MediaInv, MigrationOK, ProfilesOK
<1> QED
  BY <1>2, <1>7, <1>8, <1>9, <1>10, <1>12, <1>13, <1>14 DEF MediaInv

\* An upload becomes its owner's image, readable unless its objects are deleted as it does.
LEMMA ActivationKeeps ==
    ASSUME MediaInv, NEW u \in Uploads, Activate(u) \/ ActivateUnclear(u)
    PROVE  MediaInv'
<1> DEFINE a == uploads[u].image
           p == uploads[u].owner
           s == mediaSnapshots[uploads[u].node].active
<1>1. /\ UploadOK(u) /\ uploads[u].step = "stored" /\ a \in Images /\ images[a].status = "staging"
      /\ p \in MediaOwners /\ images[a].owner = p /\ uploads[u].node \in Nodes /\ s \in Stores
      /\ images[a].store = uploads[u].store /\ At(images[a].store, a) \in objects
      /\ ~images[a].erased /\ items[a].status = "none"
      /\ \A v \in Uploads : uploads[v].step # "idle" /\ uploads[v].image = a => v = u
  BY MediaTypes DEF MediaInv, Activate, ActivateUnclear, Activatable, UploadOK, MediaState
<1>2. /\ images' = Activated(u, a, p) /\ uploads' = [uploads EXCEPT ![u] = NoUpload]
      /\ current' = [current EXCEPT ![p] = a]
      /\ \/ objects' = objects /\ unclear' = unclear
         \/ objects' = objects \ {At(s, a)} /\ unclear' = unclear \cup {a}
      /\ UNCHANGED <<media, profiles, mediaSnapshots, alive, writes, cleaners, migration, items, movers, moves, strayed>>
  BY DEF Activate, ActivateUnclear
<1>3. jobs' \in [MediaOwners -> Job]
  BY JobEnds DEF Activate, ActivateUnclear
<1> DEFINE Row(b, status) == [images[b] EXCEPT !.status = status, !.old = FALSE]
<1>4. ASSUME NEW b \in Images, NEW status \in {"active", "replaced"}
      PROVE  LET row == Row(b, status)
             IN  /\ row \in Image /\ row.status = status /\ row.store = images[b].store
                 /\ row.owner = images[b].owner /\ row.claimed = images[b].claimed
                 /\ row.erased = images[b].erased
  <2>1. images[b] \in Image /\ status \in {"none", "staging", "active", "replaced", "failed", "deleted"}
    BY MediaTypes
  <2> QED
    BY <2>1, RowMarked
<1>5. /\ images'[a] = Row(a, "active")
      /\ \A b \in Images : b # a =>
            IF images[b].owner = p /\ images[b].status = "active" THEN images'[b] = Row(b, "replaced")
                                                                  ELSE images'[b] = images[b]
      /\ DOMAIN images' = Images /\ images' = [b \in Images |-> images'[b]]
  BY <1>1, <1>2 DEF Activated
<1> HIDE DEF Row, s
<1>6. /\ images' \in [Images -> Image] /\ images'[a].status = "active" /\ images'[a].owner = p
      /\ ~images'[a].erased
      /\ \A b \in Images : /\ images'[b].store = images[b].store /\ images'[b].owner = images[b].owner
                           /\ images'[b].erased = images[b].erased
                           /\ images'[b].status # "none" => images[b].status # "none"
                           /\ images[b].status # "none" => images'[b].status # "none"
                           /\ b # a /\ images[b].status # "active" => images'[b] = images[b]
                           /\ b # a /\ images[b].owner # p => images'[b] = images[b]
                           /\ b # a /\ images[b].owner = p => images'[b].status # "active"
  <2>1. \A b \in Images : images'[b] \in Image
    BY <1>1, <1>4, <1>5, MediaTypes
  <2>2. images' \in [Images -> Image]
    BY <1>5, <2>1
  <2> QED
    BY <1>1, <1>4, <1>5, <2>2
<1>7. /\ uploads' \in [Uploads -> Upload] /\ current' \in [MediaOwners -> Images \cup {Nothing}]
      /\ uploads'[u].step = "idle" /\ \A v \in Uploads : v # u => uploads'[v] = uploads[v]
      /\ current'[p] = a /\ \A o \in MediaOwners : o # p => current'[o] = current[o]
      /\ objects' \subseteq objects /\ unclear \subseteq unclear' /\ unclear' \subseteq Images
      /\ a \notin unclear' => objects' = objects
  BY <1>1, <1>2, MediaTypes, NoUploadTyped
<1>8. \A t \in Stores, b \in Images : b # a /\ At(t, b) \in objects => At(t, b) \in objects'
  BY <1>1, <1>2, PlacesDiffer
<1>9. MediaTypeOK'
  BY <1>2, <1>3, <1>6, <1>7 DEF MediaInv, MediaTypeOK
<1>10. ASSUME NEW v \in Uploads PROVE UploadOK(v)'
  <2>1. UploadOK(v) /\ uploads[v].store \in Stores
    BY MediaTypes DEF MediaInv, Upload
  <2>2. CASE v = u
    BY <1>7, <2>2 DEF UploadOK
  <2>3. CASE v # u /\ uploads[v].step # "idle"
    <3>1. uploads[v].image # a /\ uploads[v].image \in Images /\ images[uploads[v].image].status = "staging"
      BY <1>1, <2>1, <2>3 DEF UploadOK
    <3>2. images'[uploads[v].image] = images[uploads[v].image] /\ uploads'[v] = uploads[v]
      BY <1>6, <1>7, <2>3, <3>1
    <3> QED
      BY <1>2, <1>7, <1>8, <2>1, <2>3, <3>1, <3>2 DEF UploadOK
  <2>4. CASE v # u /\ uploads[v].step = "idle"
    BY <1>7, <2>4 DEF UploadOK
  <2> QED
    BY <2>2, <2>3, <2>4
<1>11. ASSUME NEW c \in Cleaners, NEW t \in cleaners[c].taken PROVE TakenOK(t)'
  <2>1. TakenOK(t) /\ t[1] \in Images
    BY TakenTyped
  <2>2. t[1] # a
    BY <1>1, <2>1 DEF TakenOK
  <2> QED
    BY <1>2, <1>6, <1>7, <2>1, <2>2 DEF TakenOK
<1>12. ASSUME NEW b \in Images PROVE ItemOK(b)'
  <2>1. ItemOK(b)
    BY DEF MediaInv
  <2> QED
    BY <1>2, <1>6, <2>1 DEF ItemOK
<1>13. ASSUME NEW n \in Nodes PROVE MoverOK(n)'
  <2>1. MoverOK(n) /\ movers[n].target \in Stores
    BY MediaTypes DEF MediaInv, Mover
  <2>2. ASSUME movers[n].step # "idle", IsCurrent(movers[n].image)' PROVE movers[n].image # a /\ IsCurrent(movers[n].image)
    BY <1>1, <1>2, <1>7, <2>1, <2>2 DEF MoverOK, IsCurrent
  <2> QED
    BY <1>2, <1>6, <1>7, <1>8, <2>1, <2>2 DEF MoverOK
<1>14. ASSUME NEW o \in MediaOwners, o = p PROVE OwnerOK(o)'
  BY <1>1, <1>6, <1>7, <1>14 DEF OwnerOK, OwnImage, Readable
<1>15. ASSUME NEW o \in MediaOwners, o # p PROVE OwnerOK(o)'
  <2>1. /\ OwnerOK(o) /\ current[o] \in Images \cup {Nothing} /\ Nothing \notin Images
        /\ \A b \in Images : images[b].store \in Stores
    BY MediaTypes DEF MediaInv, Image
  <2>2. CASE current[o] = Nothing
    BY <1>7, <1>15, <2>2 DEF OwnerOK, OwnImage, Readable
  <2>3. CASE current[o] # Nothing
    <3> DEFINE c == current[o]
    <3>1. c # a /\ c \in Images /\ images'[c] = images[c] /\ current'[o] = c
      BY <1>1, <1>6, <1>7, <1>15, <2>1, <2>3 DEF OwnerOK, OwnImage, Readable
    <3>2. \A b \in Images : images'[b].status = "active" /\ images'[b].owner = o => b = c
      BY <1>1, <1>6, <1>15, <2>1, <2>3 DEF OwnerOK, OwnImage, Readable
    <3>3. c \notin unclear' \cup strayed' => At(images[c].store, c) \in objects'
      BY <1>2, <1>7, <1>8, <2>1, <2>3, <3>1 DEF OwnerOK, OwnImage, Readable
    <3> QED
      BY <2>1, <2>3, <3>1, <3>2, <3>3 DEF OwnerOK, OwnImage, Readable
  <2> QED
    BY <2>2, <2>3
<1>16. MigrationOK' /\ ProfilesOK'
  BY <1>2 DEF MediaInv, MigrationOK, ProfilesOK
<1> QED
  BY <1>2, <1>9, <1>10, <1>11, <1>12, <1>13, <1>14, <1>15, <1>16 DEF MediaInv

\* If objects go, they are those of this image, which is no owner's and no upload's.
LosesOnly(gone) ==
    /\ objects' \subseteq objects
    /\ \A t \in Stores, b \in Images : b # gone /\ At(t, b) \in objects => At(t, b) \in objects'
    /\ \/ objects' = objects
       \/ /\ \A o \in MediaOwners : current'[o] # gone
          /\ \A u \in Uploads : uploads[u].step # "idle" => uploads[u].image # gone

\* Rows are marked and objects go: the rows of uploads and the images of owners are left alone.
LEMMA RowsKeep ==
    ASSUME MediaInv, images' \in [Images -> Image], current' \in [MediaOwners -> Images \cup {Nothing}],
           jobs' \in [MediaOwners -> Job],
           cleaners' \in [Cleaners -> Round],
           UNCHANGED <<media, profiles, mediaSnapshots, alive, writes, uploads, migration, items, movers,
                       moves, unclear, strayed>>,
           \A b \in Images : images'[b].store = images[b].store /\ (images'[b].status = "none" => images[b].status = "none"),
           \A u \in Uploads : uploads[u].step # "idle" =>
               LET b == uploads[u].image
               IN  /\ images'[b].status = images[b].status /\ images'[b].old = images[b].old
                   /\ images'[b].erased = images[b].erased,
           \A o \in MediaOwners : current'[o] # Nothing =>
               LET a == current[o]
               IN  /\ current'[o] = a /\ images'[a].status = "active" /\ images'[a].owner = o /\ ~images'[a].erased
                   /\ \A b \in Images : images'[b].status = "active" /\ images'[b].owner = o
                                           => images[b].status = "active" /\ images[b].owner = o,
           NEW gone, LosesOnly(gone),
           \A c \in Cleaners : \A t \in cleaners'[c].taken : TakenOK(t)'
    PROVE  MediaInv'
<1>1. MediaTypeOK'
  <2>1. objects' \subseteq {PlaceOf[s] : s \in Stores} \X Images
    BY MediaTypes DEF LosesOnly
  <2> QED
    BY <2>1 DEF MediaInv, MediaTypeOK
<1>2. ASSUME NEW u \in Uploads PROVE UploadOK(u)'
  <2>1. UploadOK(u) /\ uploads[u].store \in Stores
    BY MediaTypes DEF MediaInv, Upload
  <2> QED
    BY <2>1 DEF UploadOK, LosesOnly
<1>3. ASSUME NEW b \in Images PROVE ItemOK(b)'
  <2>1. ItemOK(b)
    BY DEF MediaInv
  <2> QED
    BY <2>1 DEF ItemOK
<1>4. ASSUME NEW n \in Nodes PROVE MoverOK(n)'
  <2>1. MoverOK(n) /\ movers[n].target \in Stores
    BY MediaTypes DEF MediaInv, Mover
  <2>2. ASSUME NEW b \in Images, IsCurrent(b)' PROVE IsCurrent(b) /\ (b = gone => objects' = objects)
    <3>1. PICK o \in MediaOwners : current'[o] = b
      BY <2>2 DEF IsCurrent
    <3> QED
      BY <3>1, MediaTypes DEF IsCurrent, LosesOnly
  <2> QED
    BY <2>1, <2>2 DEF MoverOK, LosesOnly
<1>5. ASSUME NEW o \in MediaOwners, current'[o] # Nothing PROVE OwnerOK(o)'
  <2> DEFINE a == current[o]
  <2>1. /\ OwnerOK(o) /\ a \in Images /\ images[a].store \in Stores /\ images'[a].store = images[a].store
        /\ current'[o] = a
    BY <1>5, MediaTypes DEF MediaInv, Image
  <2>2. a \notin unclear \cup strayed => At(images[a].store, a) \in objects
    BY <1>5, <2>1 DEF OwnerOK, OwnImage, Readable
  <2>3. a \notin unclear' \cup strayed' => At(images'[a].store, a) \in objects'
    BY <1>5, <2>1, <2>2 DEF LosesOnly
  <2>4. \A b \in Images : images'[b].status = "active" /\ images'[b].owner = o => b = a
    BY <1>5, <2>1 DEF OwnerOK, OwnImage, Readable
  <2> QED
    BY <1>5, <2>1, <2>3, <2>4 DEF OwnerOK, OwnImage, Readable
<1>6. \A o \in MediaOwners : current'[o] = Nothing => OwnerOK(o)'
  BY DEF OwnerOK, OwnImage, Readable
<1>7. MigrationOK' /\ ProfilesOK'
  BY DEF MediaInv, MigrationOK, ProfilesOK
<1> QED
  BY <1>1, <1>2, <1>3, <1>4, <1>5, <1>6, <1>7 DEF MediaInv

\* An owner removes his image: the row is marked, and its objects are nobody's.
LEMMA RemovalKeeps ==
    ASSUME MediaInv, NEW o \in MediaOwners, NEW removed \in BOOLEAN, DeleteImage(o, removed)
    PROVE  MediaInv'
<1> DEFINE a == current[o]
           row == [images[a] EXCEPT !.status = "deleted", !.old = FALSE]
<1>1. /\ a # Nothing /\ images' = [images EXCEPT ![a] = row] /\ current' = [current EXCEPT ![o] = Nothing]
      /\ objects' = objects \/ objects' = objects \ {At(images[a].store, a)}
      /\ UNCHANGED <<media, profiles, mediaSnapshots, alive, writes, uploads, jobs, cleaners,
                     migration, items, movers, moves, unclear, strayed>>
  <2>1. [images EXCEPT ![a].status = "deleted", ![a].old = FALSE] = [images EXCEPT ![a] = row]
    BY MediaTypes
  <2> QED
    BY <2>1 DEF DeleteImage
<1>2. /\ a \in Images /\ images[a].status = "active" /\ images[a] \in Image /\ images[a].store \in Stores
      /\ \A q \in MediaOwners : current[q] = a => q = o
      /\ \A u \in Uploads : uploads[u].step # "idle" => uploads[u].image # a
      /\ \A c \in Cleaners : \A t \in cleaners[c].taken : t[1] # a
  BY <1>1, CurrentIsSafe, MediaTypes DEF Image
<1>3. row \in Image /\ row.status = "deleted" /\ row.store = images[a].store /\ row.owner = images[a].owner
  BY <1>2, RowMarked
<1> HIDE DEF row
<1>4. /\ images' \in [Images -> Image] /\ images'[a] = row /\ \A b \in Images : b # a => images'[b] = images[b]
      /\ current' \in [MediaOwners -> Images \cup {Nothing}] /\ current'[o] = Nothing
      /\ \A q \in MediaOwners : q # o => current'[q] = current[q]
  BY <1>1, <1>2, <1>3, MediaTypes
<1>5. objects' \subseteq objects /\ \A t \in Stores, b \in Images : b # a /\ At(t, b) \in objects => At(t, b) \in objects'
  BY <1>1, <1>2, PlacesDiffer
<1>6. ASSUME NEW c \in Cleaners, NEW t \in cleaners'[c].taken PROVE TakenOK(t)'
  <2>1. TakenOK(t) /\ t[1] \in Images
    BY <1>1, TakenTyped
  <2> QED
    BY <1>1, <1>2, <1>4, <2>1 DEF TakenOK
<1>7. \A b \in Images : images'[b].store = images[b].store /\ (images'[b].status = "none" => images[b].status = "none")
  BY <1>3, <1>4
<1>8. \A u \in Uploads : uploads[u].step # "idle" => uploads[u].image \in Images
  BY DEF MediaInv, UploadOK
<1>9. ASSUME NEW q \in MediaOwners, current'[q] # Nothing
      PROVE  LET c == current[q]
             IN  /\ current'[q] = c /\ images'[c].status = "active" /\ images'[c].owner = q /\ ~images'[c].erased
                 /\ \A b \in Images : images'[b].status = "active" /\ images'[b].owner = q
                                         => images[b].status = "active" /\ images[b].owner = q
  <2>1. OwnerOK(q) /\ q # o /\ current'[q] = current[q] /\ current[q] \in Images /\ current[q] # a
    BY <1>2, <1>4, <1>9, MediaTypes DEF MediaInv
  <2> QED
    BY <1>3, <1>4, <1>9, <2>1 DEF OwnerOK, OwnImage, Readable
<1>10. /\ \A q \in MediaOwners : current'[q] # a
       /\ \A u \in Uploads : uploads[u].step # "idle" => uploads[u].image # a
  BY <1>1, <1>2, <1>4
<1>11. /\ jobs' \in [MediaOwners -> Job]
       /\ cleaners' \in [Cleaners -> Round]
  BY <1>1, MediaTypes
<1>12. \A u \in Uploads : uploads[u].step # "idle" =>
          LET b == uploads[u].image
          IN  /\ images'[b].status = images[b].status /\ images'[b].old = images[b].old
              /\ images'[b].erased = images[b].erased
  BY <1>2, <1>4, <1>8
<1>13. LosesOnly(a)
  BY <1>5, <1>10 DEF LosesOnly
<1> HIDE DEF a
<1> QED
  BY <1>1, <1>4, <1>6, <1>7, <1>9, <1>11, <1>12, <1>13, RowsKeep

LEMMA RowOrphaned ==
    ASSUME NEW r \in Image
    PROVE  LET row == [r EXCEPT !.owner = Nothing]
           IN  /\ row \in Image /\ row.status = r.status /\ row.store = r.store /\ row.owner = Nothing
               /\ row.old = r.old /\ row.claimed = r.claimed /\ row.erased = r.erased
BY DEF Image

LEMMA OwnerGoes ==
    ASSUME MediaInv, NEW o \in MediaOwners, DeleteOwner(o)
    PROVE  MediaInv'
<1> DEFINE Row(a) == [images[a] EXCEPT !.owner = Nothing]
<1>1. /\ images' = [a \in Images |-> IF images[a].owner = o THEN Row(a) ELSE images[a]]
      /\ current' = [current EXCEPT ![o] = Nothing]
      /\ jobs' = [jobs EXCEPT ![o] = [status |-> "none", attempts |-> 0]]
      /\ UNCHANGED <<media, profiles, mediaSnapshots, alive, writes, objects, uploads, cleaners,
                     migration, items, movers, moves, unclear, strayed>>
  BY DEF DeleteOwner
<1>2. \A a \in Images : /\ Row(a) \in Image /\ Row(a).status = images[a].status /\ Row(a).store = images[a].store
                        /\ Row(a).owner = Nothing /\ Row(a).old = images[a].old
                        /\ Row(a).claimed = images[a].claimed /\ Row(a).erased = images[a].erased
  BY MediaTypes, RowOrphaned
<1> HIDE DEF Row
<1>3. /\ images' \in [Images -> Image]
      /\ \A a \in Images : /\ images'[a].status = images[a].status /\ images'[a].store = images[a].store
                           /\ images'[a].old = images[a].old /\ images'[a].claimed = images[a].claimed
                           /\ images'[a].erased = images[a].erased
                           /\ images'[a].owner = IF images[a].owner = o THEN Nothing ELSE images[a].owner
  BY <1>1, <1>2, MediaTypes
<1>4. /\ current' \in [MediaOwners -> Images \cup {Nothing}] /\ current'[o] = Nothing
      /\ \A q \in MediaOwners : q # o => current'[q] = current[q]
      /\ jobs' \in [MediaOwners -> Job]
  BY <1>1, MediaTypes DEF Job
<1>5. ASSUME NEW c \in Cleaners, NEW t \in cleaners'[c].taken PROVE TakenOK(t)'
  <2>1. TakenOK(t) /\ t[1] \in Images
    BY <1>1, TakenTyped
  <2> QED
    BY <1>1, <1>3, <2>1 DEF TakenOK
<1>6. \A u \in Uploads : uploads[u].step # "idle" => uploads[u].image \in Images
  BY DEF MediaInv, UploadOK
<1>7. ASSUME NEW q \in MediaOwners, current'[q] # Nothing
      PROVE  LET c == current[q]
             IN  /\ current'[q] = c /\ images'[c].status = "active" /\ images'[c].owner = q /\ ~images'[c].erased
                 /\ \A b \in Images : images'[b].status = "active" /\ images'[b].owner = q
                                         => images[b].status = "active" /\ images[b].owner = q
  <2>1. OwnerOK(q) /\ q # o /\ current'[q] = current[q] /\ current[q] \in Images /\ Nothing # q
    BY <1>4, <1>7, MediaTypes DEF MediaInv
  <2> QED
    BY <1>3, <1>7, <2>1 DEF OwnerOK, OwnImage, Readable
<1>8. cleaners' \in [Cleaners -> Round]
  BY <1>1, MediaTypes
<1>9. LosesOnly(Nothing)
  BY <1>1 DEF LosesOnly
<1>10. \A b \in Images : images'[b].store = images[b].store /\ (images'[b].status = "none" => images[b].status = "none")
  BY <1>3
<1>11. \A u \in Uploads : uploads[u].step # "idle" =>
          LET b == uploads[u].image
          IN  /\ images'[b].status = images[b].status /\ images'[b].old = images[b].old
              /\ images'[b].erased = images[b].erased
  BY <1>3, <1>6
<1> QED
  BY <1>1, <1>3, <1>4, <1>5, <1>7, <1>8, <1>9, <1>10, <1>11, RowsKeep

\* The clean-up's marks on a row leave its status, its owner and its store.
LEMMA FlagsKeep ==
    ASSUME MediaInv, images' \in [Images -> Image], cleaners' \in [Cleaners -> Round],
           UNCHANGED <<media, profiles, mediaSnapshots, alive, writes, current, uploads, jobs,
                       migration, items, movers, moves, unclear, strayed>>,
           \A b \in Images : /\ images'[b].status = images[b].status /\ images'[b].owner = images[b].owner
                             /\ images'[b].store = images[b].store,
           \A u \in Uploads : uploads[u].step # "idle" =>
               /\ images'[uploads[u].image].old = images[uploads[u].image].old
               /\ images'[uploads[u].image].erased = images[uploads[u].image].erased,
           \A o \in MediaOwners : current[o] \in Images => images'[current[o]].erased = images[current[o]].erased,
           NEW gone, LosesOnly(gone),
           \A c \in Cleaners : \A t \in cleaners'[c].taken : TakenOK(t)'
    PROVE  MediaInv'
<1>1. \A u \in Uploads : uploads[u].step # "idle" =>
          LET b == uploads[u].image
          IN  /\ images'[b].status = images[b].status /\ images'[b].old = images[b].old
              /\ images'[b].erased = images[b].erased
  <2>1. \A u \in Uploads : uploads[u].step # "idle" => uploads[u].image \in Images
    BY DEF MediaInv, UploadOK
  <2> QED
    BY <2>1
<1>2. ASSUME NEW o \in MediaOwners, current'[o] # Nothing
      PROVE  LET a == current[o]
             IN  /\ current'[o] = a /\ images'[a].status = "active" /\ images'[a].owner = o /\ ~images'[a].erased
                 /\ \A b \in Images : images'[b].status = "active" /\ images'[b].owner = o
                                         => images[b].status = "active" /\ images[b].owner = o
  <2>1. OwnerOK(o) /\ current[o] \in Images /\ current'[o] = current[o]
    BY <1>2, MediaTypes DEF MediaInv
  <2> QED
    BY <1>2, <2>1 DEF OwnerOK, OwnImage, Readable
<1>3. current' \in [MediaOwners -> Images \cup {Nothing}] /\ jobs' \in [MediaOwners -> Job]
  BY MediaTypes
<1>4. \A b \in Images : images'[b].store = images[b].store /\ (images'[b].status = "none" => images[b].status = "none")
  OBVIOUS
<1> QED
  BY <1>1, <1>2, <1>3, <1>4, RowsKeep

LEMMA FlagsWritten ==
    ASSUME NEW r \in Image, NEW old \in BOOLEAN, NEW claimed \in BOOLEAN, NEW erased \in BOOLEAN
    PROVE  LET row == [r EXCEPT !.erased = erased, !.claimed = claimed, !.old = old]
           IN  /\ row \in Image /\ row.status = r.status /\ row.owner = r.owner /\ row.store = r.store
               /\ row.erased = erased /\ row.claimed = claimed /\ row.old = old
<1> DEFINE first == [r EXCEPT !.erased = erased]
           second == [first EXCEPT !.claimed = claimed]
<1>1. first \in Image /\ first.status = r.status /\ first.owner = r.owner /\ first.store = r.store
      /\ first.erased = erased
  BY DEF Image
<1> HIDE DEF first
<1>2. second \in Image /\ second.status = r.status /\ second.owner = r.owner /\ second.store = r.store
      /\ second.erased = erased /\ second.claimed = claimed
  BY <1>1 DEF Image
<1> HIDE DEF second
<1>3. LET row == [second EXCEPT !.old = old]
      IN  /\ row \in Image /\ row.status = r.status /\ row.owner = r.owner /\ row.store = r.store
          /\ row.erased = erased /\ row.claimed = claimed /\ row.old = old
  BY <1>2 DEF Image
<1> QED
  BY <1>3 DEF first, second

LEMMA OneFlag ==
    ASSUME NEW r \in Image, NEW value \in BOOLEAN
    PROVE  /\ LET row == [r EXCEPT !.old = value]
              IN  /\ row \in Image /\ row.status = r.status /\ row.owner = r.owner /\ row.store = r.store
                  /\ row.erased = r.erased /\ row.claimed = r.claimed
           /\ LET row == [r EXCEPT !.claimed = value]
              IN  /\ row \in Image /\ row.status = r.status /\ row.owner = r.owner /\ row.store = r.store
                  /\ row.erased = r.erased /\ row.claimed = value /\ row.old = r.old
<1>1. LET row == [r EXCEPT !.old = value]
      IN  /\ row \in Image /\ row.status = r.status /\ row.owner = r.owner /\ row.store = r.store
          /\ row.erased = r.erased /\ row.claimed = r.claimed
  BY DEF Image
<1>2. LET row == [r EXCEPT !.claimed = value]
      IN  /\ row \in Image /\ row.status = r.status /\ row.owner = r.owner /\ row.store = r.store
          /\ row.erased = r.erased /\ row.claimed = value /\ row.old = r.old
  BY DEF Image
<1> QED
  BY <1>1, <1>2

LEMMA AgeKeeps ==
    ASSUME MediaInv, NEW a \in Images, GrowOld(a)
    PROVE  MediaInv'
<1> DEFINE row == [images[a] EXCEPT !.old = TRUE]
<1>1. /\ \A u \in Uploads : uploads[u].image # a
      /\ images' = [images EXCEPT ![a] = row]
      /\ UNCHANGED <<media, profiles, mediaSnapshots, alive, writes, current, objects, uploads, jobs, cleaners,
                     migration, items, movers, moves, unclear, strayed>>
  BY DEF GrowOld
<1>2. /\ row \in Image /\ row.status = images[a].status /\ row.owner = images[a].owner
      /\ row.store = images[a].store /\ row.erased = images[a].erased /\ row.claimed = images[a].claimed
  <2>1. images[a] \in Image
    BY MediaTypes
  <2> QED
    BY <2>1, OneFlag
<1> HIDE DEF row
<1>3. /\ images' \in [Images -> Image] /\ images'[a] = row /\ \A b \in Images : b # a => images'[b] = images[b]
      /\ cleaners' \in [Cleaners -> Round]
  BY <1>1, <1>2, MediaTypes
<1>4. \A b \in Images : /\ images'[b].status = images[b].status /\ images'[b].owner = images[b].owner
                        /\ images'[b].store = images[b].store /\ images'[b].claimed = images[b].claimed
                        /\ images'[b].erased = images[b].erased
                        /\ b \notin {a} => images'[b] = images[b]
  BY <1>2, <1>3
<1>5. ASSUME NEW c \in Cleaners, NEW t \in cleaners'[c].taken PROVE TakenOK(t)'
  <2>1. TakenOK(t) /\ t[1] \in Images
    BY <1>1, TakenTyped
  <2> QED
    BY <1>1, <1>4, <2>1 DEF TakenOK
<1>6. LosesOnly(Nothing)
  BY <1>1 DEF LosesOnly
<1>7. \A u \in Uploads : uploads[u].step # "idle" =>
          /\ images'[uploads[u].image].old = images[uploads[u].image].old
          /\ images'[uploads[u].image].erased = images[uploads[u].image].erased
  <2>1. \A u \in Uploads : uploads[u].step # "idle" => uploads[u].image \in Images
    BY DEF MediaInv, UploadOK
  <2> QED
    BY <1>1, <1>4, <2>1
<1>8. \A o \in MediaOwners : current[o] \in Images => images'[current[o]].erased = images[current[o]].erased
  BY <1>4
<1> QED
  BY <1>1, <1>3, <1>4, <1>5, <1>6, <1>7, <1>8, FlagsKeep

\* A claim that lapses, a round that begins and one that ends leave the rows to whom they are.
LEMMA ClaimGoes ==
    ASSUME MediaInv, NEW a \in Images, CleanupClaimLapses(a)
    PROVE  MediaInv'
<1> DEFINE row == [images[a] EXCEPT !.claimed = FALSE]
<1>1. /\ images' = [images EXCEPT ![a] = row]
      /\ UNCHANGED <<media, profiles, mediaSnapshots, alive, writes, current, objects, uploads, jobs, cleaners,
                     migration, items, movers, moves, unclear, strayed>>
  BY DEF CleanupClaimLapses
<1>2. /\ row \in Image /\ row.status = images[a].status /\ row.owner = images[a].owner
      /\ row.store = images[a].store /\ row.erased = images[a].erased /\ row.old = images[a].old
  <2>1. images[a] \in Image
    BY MediaTypes
  <2> QED
    BY <2>1, OneFlag
<1> HIDE DEF row
<1>3. /\ images' \in [Images -> Image] /\ images'[a] = row /\ \A b \in Images : b # a => images'[b] = images[b]
      /\ cleaners' \in [Cleaners -> Round]
  BY <1>1, <1>2, MediaTypes
<1>4. \A b \in Images : /\ images'[b].status = images[b].status /\ images'[b].owner = images[b].owner
                        /\ images'[b].store = images[b].store /\ images'[b].erased = images[b].erased
                        /\ images'[b].old = images[b].old
  BY <1>2, <1>3
<1>5. ASSUME NEW c \in Cleaners, NEW t \in cleaners'[c].taken PROVE TakenOK(t)'
  <2>1. TakenOK(t) /\ t[1] \in Images
    BY <1>1, TakenTyped
  <2> QED
    BY <1>1, <1>4, <2>1 DEF TakenOK
<1>6. LosesOnly(Nothing)
  BY <1>1 DEF LosesOnly
<1> QED
  BY <1>1, <1>3, <1>4, <1>5, <1>6, FlagsKeep

LEMMA RoundSteps ==
    ASSUME MediaInv, NEW c \in Cleaners, (\E byServer \in BOOLEAN : BeginCleanup(c, byServer)) \/ CleanupEnds(c)
    PROVE  MediaInv'
<1>1. /\ cleaners' = [cleaners EXCEPT ![c].step = "checked"] \/ cleaners' = [cleaners EXCEPT ![c] = NoRound]
      /\ UNCHANGED <<media, profiles, mediaSnapshots, alive, writes, images, current, objects, uploads, jobs,
                     migration, items, movers, moves, unclear, strayed>>
  BY DEF BeginCleanup, CleanupEnds
<1>2. LosesOnly(Nothing) /\ images' \in [Images -> Image]
  BY <1>1, MediaTypes DEF LosesOnly
<1>3. /\ cleaners' \in [Cleaners -> Round]
      /\ \A k \in Cleaners : cleaners'[k].taken \subseteq cleaners[k].taken
  BY <1>1, MediaTypes DEF Round, NoRound
<1>4. ASSUME NEW k \in Cleaners, NEW t \in cleaners'[k].taken PROVE TakenOK(t)'
  <2>1. TakenOK(t)
    BY <1>3, TakenTyped
  <2> QED
    BY <1>1, <2>1 DEF TakenOK
<1> QED
  BY <1>1, <1>2, <1>3, <1>4, FlagsKeep

\* The rows a round takes are old, and the row of an upload is not.
LEMMA ClaimKeeps ==
    ASSUME MediaInv, NEW k \in Cleaners, NEW taken \in SUBSET Images, ClaimUnreferenced(k, taken)
    PROVE  MediaInv'
<1> DEFINE Row(a) == [images[a] EXCEPT !.claimed = TRUE]
<1>1. /\ \A a \in taken : Cleanable(a)
      /\ images' = [a \in Images |-> IF a \in taken THEN Row(a) ELSE images[a]]
      /\ cleaners' = [cleaners EXCEPT ![k] = [step |-> "claimed", taken |-> {<<a, images[a].store>> : a \in taken}]]
      /\ UNCHANGED <<media, profiles, mediaSnapshots, alive, writes, current, objects, uploads, jobs,
                     migration, items, movers, moves, unclear, strayed>>
  BY DEF ClaimUnreferenced
<1>2. \A a \in Images : /\ Row(a) \in Image /\ Row(a).status = images[a].status /\ Row(a).owner = images[a].owner
                        /\ Row(a).store = images[a].store /\ Row(a).erased = images[a].erased /\ Row(a).claimed
  <2>1. \A a \in Images : images[a] \in Image
    BY MediaTypes
  <2> QED
    BY <2>1, OneFlag
<1> HIDE DEF Row
<1>3. images' \in [Images -> Image]
  BY <1>1, <1>2, MediaTypes
<1>4. \A b \in Images : /\ images'[b].status = images[b].status /\ images'[b].owner = images[b].owner
                        /\ images'[b].store = images[b].store /\ images'[b].erased = images[b].erased
                        /\ b \notin taken => images'[b] = images[b]
                        /\ b \in taken => images'[b].claimed
  BY <1>1, <1>2
<1>5. /\ cleaners' \in [Cleaners -> Round] /\ cleaners'[k].taken = {<<a, images[a].store>> : a \in taken}
      /\ \A c \in Cleaners : c # k => cleaners'[c] = cleaners[c]
  <2>1. \A a \in Images : images[a].store \in Stores
    BY MediaTypes DEF Image
  <2>2. [step |-> "claimed", taken |-> {<<a, images[a].store>> : a \in taken}] \in Round
    BY <2>1 DEF Round
  <2> QED
    BY <1>1, <2>2, MediaTypes
<1>6. ASSUME NEW c \in Cleaners, NEW t \in cleaners'[c].taken PROVE TakenOK(t)'
  <2>1. CASE c = k
    <3>1. PICK a \in taken : t = <<a, images[a].store>>
      BY <1>5, <2>1
    <3>2. t[1] = a /\ Cleanable(a)
      BY <1>1, <3>1
    <3>3. images'[a].status # "none" /\ (images'[a].status = "active" => images'[a].owner = Nothing)
      BY <1>4, <3>2 DEF Cleanable
    <3>4. \A u \in Uploads : uploads[u].step # "idle" => uploads[u].image # a
      BY <3>2 DEF MediaInv, UploadOK, Cleanable
    <3> QED
      BY <1>1, <3>2, <3>3, <3>4 DEF TakenOK
  <2>2. CASE c # k
    <3>1. TakenOK(t) /\ t[1] \in Images
      BY <1>5, <2>2, TakenTyped
    <3> QED
      BY <1>1, <1>4, <3>1 DEF TakenOK
  <2> QED
    BY <2>1, <2>2
<1>7. \A u \in Uploads : uploads[u].step # "idle" =>
          /\ images'[uploads[u].image].old = images[uploads[u].image].old
          /\ images'[uploads[u].image].erased = images[uploads[u].image].erased
  <2>1. \A u \in Uploads : uploads[u].step # "idle" => uploads[u].image \in Images /\ uploads[u].image \notin taken
    BY <1>1 DEF MediaInv, UploadOK, Cleanable
  <2> QED
    BY <1>4, <2>1
<1>8. LosesOnly(Nothing)
  BY <1>1 DEF LosesOnly
<1>9. \A o \in MediaOwners : current[o] \in Images => images'[current[o]].erased = images[current[o]].erased
  BY <1>4
<1> QED
  BY <1>1, <1>3, <1>4, <1>5, <1>6, <1>7, <1>8, <1>9, FlagsKeep

LEMMA CleanupKeeps ==
    ASSUME MediaInv, NEW k \in Cleaners, NEW t \in cleaners[k].taken, NEW deleted \in BOOLEAN,
           CleanupItem(k, t, deleted)
    PROVE  MediaInv'
<1> DEFINE a == t[1]
           row == CASE images[a].erased -> images[a]
                    [] ~images[a].erased /\ deleted ->
                         [images[a] EXCEPT !.erased = TRUE, !.claimed = FALSE, !.old = FALSE]
                    [] OTHER -> [images[a] EXCEPT !.claimed = FALSE]
<1>1. /\ objects' = objects \/ objects' = objects \ {At(t[2], a)}
      /\ images' = [images EXCEPT ![a] = row]
      /\ cleaners' = [cleaners EXCEPT ![k].taken = @ \ {t}]
      /\ UNCHANGED <<media, profiles, mediaSnapshots, alive, writes, current, uploads, jobs,
                     migration, items, movers, moves, unclear, strayed>>
  <2>1. [images EXCEPT ![t[1]] =
             CASE @.erased -> @
               [] ~@.erased /\ deleted -> [@ EXCEPT !.erased = TRUE, !.claimed = FALSE, !.old = FALSE]
               [] OTHER -> [@ EXCEPT !.claimed = FALSE]] = [images EXCEPT ![a] = row]
    BY MediaTypes
  <2> HIDE DEF row
  <2> QED
    BY <2>1 DEF CleanupItem
<1>2. TakenOK(t) /\ a \in Images /\ t[2] \in Stores /\ images[a] \in Image
  BY MediaTypes, TakenTyped
<1>3. row \in Image /\ row.status = images[a].status /\ row.owner = images[a].owner /\ row.store = images[a].store
  <2>1. CASE images[a].erased
    BY <1>2, <2>1
  <2>2. CASE ~images[a].erased /\ deleted
    BY <1>2, <2>2, FlagsWritten
  <2>3. CASE ~images[a].erased /\ ~deleted
    BY <1>2, <2>3, OneFlag
  <2> QED
    BY <2>1, <2>2, <2>3
<1> HIDE DEF row
<1>4. /\ images' \in [Images -> Image] /\ images'[a] = row /\ \A b \in Images : b # a => images'[b] = images[b]
  BY <1>1, <1>2, <1>3, MediaTypes
<1>5. \A b \in Images : /\ images'[b].status = images[b].status /\ images'[b].owner = images[b].owner
                        /\ images'[b].store = images[b].store
                        /\ b \notin {a} => images'[b] = images[b]
  BY <1>3, <1>4
<1>6. /\ cleaners' \in [Cleaners -> Round]
      /\ \A c \in Cleaners : cleaners'[c].taken \subseteq cleaners[c].taken
  BY <1>1, MediaTypes DEF Round
<1>7. ASSUME NEW c \in Cleaners, NEW s \in cleaners'[c].taken PROVE TakenOK(s)'
  <2>1. TakenOK(s) /\ s[1] \in Images
    BY <1>6, TakenTyped
  <2> QED
    BY <1>1, <1>5, <2>1 DEF TakenOK
<1>8. \A u \in Uploads : uploads[u].step # "idle" => uploads[u].image \notin {a}
  BY <1>2 DEF TakenOK
<1>9. \A o \in MediaOwners : current[o] # a
  BY CurrentIsSafe, <1>2, MediaTypes
<1>10. LosesOnly(a)
  BY <1>1, <1>2, <1>8, <1>9, PlacesDiffer DEF LosesOnly
<1>11. /\ \A u \in Uploads : uploads[u].step # "idle" =>
            /\ images'[uploads[u].image].old = images[uploads[u].image].old
            /\ images'[uploads[u].image].erased = images[uploads[u].image].erased
       /\ \A o \in MediaOwners : current[o] \in Images => images'[current[o]].erased = images[current[o]].erased
  <2>1. \A u \in Uploads : uploads[u].step # "idle" => uploads[u].image \in Images
    BY DEF MediaInv, UploadOK
  <2> QED
    BY <1>5, <1>8, <1>9, <2>1
<1> HIDE DEF a
<1> QED
  BY <1>1, <1>4, <1>5, <1>6, <1>7, <1>10, <1>11, FlagsKeep

\* The row of an item is at the source until the item has switched.
Early == {"pending", "copying", "failed"}
Late == {"switched", "completed"}

\* Items and workers move on, without a switch and without a copy.
LEMMA WorkKeeps ==
    ASSUME MediaInv, items' \in [Images -> Item], movers' \in [Nodes -> Mover], migration' \in Migration,
           migration'.source = migration.source, migration'.target = migration.target,
           UNCHANGED <<media, profiles, mediaSnapshots, alive, writes, images, current, objects, uploads, jobs,
                       cleaners, moves, unclear, strayed>>,
           \A a \in Images : /\ items'[a].source = items[a].source
                             /\ items'[a].status = "none" <=> items[a].status = "none"
                             /\ items'[a].status \in Early <=> items[a].status \in Early
                             /\ items'[a].status \in Late <=> items[a].status \in Late,
           \A n \in Nodes : \/ movers'[n] = movers[n] \/ movers'[n].step = "idle"
                            \/ moves # 0 /\ MoverOK(n)'
    PROVE  MediaInv'
<1>1. MediaTypeOK'
  BY DEF MediaInv, MediaTypeOK
<1>2. \A u \in Uploads : UploadOK(u)'
  BY DEF MediaInv, UploadOK
<1>3. \A c \in Cleaners : \A t \in cleaners[c].taken : TakenOK(t)'
  BY DEF MediaInv, TakenOK
<1>4. MigrationOK' /\ ProfilesOK'
  BY DEF MediaInv, MigrationOK, ProfilesOK
<1>5. ASSUME NEW a \in Images PROVE ItemOK(a)'
  <2>1. ItemOK(a)
    BY DEF MediaInv
  <2> QED
    BY <2>1 DEF ItemOK, Early, Late
<1>6. ASSUME NEW n \in Nodes, movers'[n] = movers[n] \/ movers'[n].step = "idle" PROVE MoverOK(n)'
  <2>1. MoverOK(n)
    BY DEF MediaInv
  <2> QED
    BY <1>6, <2>1 DEF MoverOK, IsCurrent, Late
<1>7. \A o \in MediaOwners : OwnerOK(o)'
  BY DEF MediaInv, OwnerOK, OwnImage, Readable
<1> QED
  BY <1>1, <1>2, <1>3, <1>4, <1>5, <1>6, <1>7 DEF MediaInv

LEMMA MigrationMarked ==
    ASSUME MediaInv, NEW s \in {"pending", "running", "failed"}
    PROVE  /\ LET new == [migration EXCEPT !.status = s]
              IN  new \in Migration /\ new.source = migration.source /\ new.target = migration.target
           /\ LET new == [migration EXCEPT !.stuck = TRUE]
              IN  new \in Migration /\ new.source = migration.source /\ new.target = migration.target
<1>1. migration \in Migration
  BY MediaTypes
<1>2. LET new == [migration EXCEPT !.status = s]
      IN  new \in Migration /\ new.source = migration.source /\ new.target = migration.target
  BY <1>1 DEF Migration
<1>3. LET new == [migration EXCEPT !.stuck = TRUE]
      IN  new \in Migration /\ new.source = migration.source /\ new.target = migration.target
  BY <1>1 DEF Migration
<1> QED
  BY <1>2, <1>3

LEMMA ItemMarked ==
    ASSUME NEW i \in Item, NEW s \in {"none", "pending", "copying", "switched", "failed", "completed"}
    PROVE  LET new == [i EXCEPT !.status = s]
           IN  new \in Item /\ new.status = s /\ new.source = i.source
BY DEF Item

LEMMA ItemFreed ==
    ASSUME NEW i \in Item
    PROVE  LET new == [i EXCEPT !.status = "pending", !.worker = Nothing]
           IN  new \in Item /\ new.status = "pending" /\ new.source = i.source
BY DEF Item

LEMMA RetryKeeps ==
    ASSUME MediaInv, NEW n \in Nodes, RetryMigration(n)
    PROVE  MediaInv'
<1> DEFINE New(a) == [items[a] EXCEPT !.status = "pending", !.worker = Nothing]
<1>1. /\ migration' = [migration EXCEPT !.status = "pending"]
      /\ items' = [a \in Images |-> IF items[a].status = "failed" THEN New(a) ELSE items[a]]
      /\ UNCHANGED <<media, profiles, mediaSnapshots, alive, writes, images, current, objects, uploads, jobs,
                     cleaners, movers, moves, unclear, strayed>>
  BY DEF RetryMigration
<1>2. \A a \in Images : items[a] \in Item /\ New(a) \in Item /\ New(a).status = "pending" /\ New(a).source = items[a].source
  <2>1. \A a \in Images : items[a] \in Item
    BY MediaTypes
  <2> QED
    BY <2>1, ItemFreed
<1> HIDE DEF New
<1>3. items' \in [Images -> Item] /\ movers' \in [Nodes -> Mover]
  BY <1>1, <1>2, MediaTypes
<1>4. /\ migration' \in Migration /\ migration'.source = migration.source /\ migration'.target = migration.target
  BY <1>1, MigrationMarked
<1>5. \A a \in Images : /\ items'[a].source = items[a].source
                        /\ items'[a].status = "none" <=> items[a].status = "none"
                        /\ items'[a].status \in Early <=> items[a].status \in Early
                        /\ items'[a].status \in Late <=> items[a].status \in Late
  BY <1>1, <1>2 DEF Early, Late
<1> QED
  BY <1>1, <1>3, <1>4, <1>5, WorkKeeps

LEMMA ItemClaimed ==
    ASSUME NEW i \in Item, NEW n \in Nodes
    PROVE  LET new == [i EXCEPT !.status = "copying", !.worker = n, !.attempts = i.attempts + 1, !.lapsed = FALSE]
           IN  new \in Item /\ new.status = "copying" /\ new.source = i.source
<1> DEFINE first == [i EXCEPT !.status = "copying", !.worker = n]
           second == [first EXCEPT !.attempts = i.attempts + 1]
<1>1. i.attempts + 1 \in Nat
  BY DEF Item
<1>2. first \in Item /\ first.status = "copying" /\ first.source = i.source
  BY DEF Item
<1> HIDE DEF first
<1>3. second \in Item /\ second.status = "copying" /\ second.source = i.source
  BY <1>1, <1>2 DEF Item
<1> HIDE DEF second
<1>4. LET new == [second EXCEPT !.lapsed = FALSE]
      IN  new \in Item /\ new.status = "copying" /\ new.source = i.source
  BY <1>3 DEF Item
<1> QED
  BY <1>4 DEF first, second

LEMMA WorkerClaims ==
    ASSUME MediaInv, NEW n \in Nodes, NEW a \in Images, ClaimMigrationItem(n, a)
    PROVE  MediaInv'
<1> DEFINE new == IF items[a].status = "switched" THEN items[a]
                  ELSE [items[a] EXCEPT !.status = "copying", !.worker = n, !.attempts = items[a].attempts + 1,
                                        !.lapsed = FALSE]
           step == IF items[a].status = "switched" THEN "resumed" ELSE "claimed"
           mover == [step |-> step, image |-> a, source |-> items[a].source, target |-> migration.target,
                     attempts |-> items'[a].attempts, move |-> moves]
<1>1. /\ items[a].status \in {"pending", "failed", "switched", "copying"}
      /\ items' = [items EXCEPT ![a] = new] /\ movers' = [movers EXCEPT ![n] = mover]
      /\ migration' = [migration EXCEPT !.status = "running"]
      /\ UNCHANGED <<media, profiles, mediaSnapshots, alive, writes, images, current, objects, uploads, jobs,
                     cleaners, moves, unclear, strayed>>
  <2>1. [items EXCEPT ![a] =
            IF @.status = "switched" THEN @
            ELSE [@ EXCEPT !.status = "copying", !.worker = n, !.attempts = items[a].attempts + 1,
                           !.lapsed = FALSE]]
          = [items EXCEPT ![a] = new]
    BY MediaTypes
  <2> HIDE DEF new
  <2> QED
    BY <2>1 DEF ClaimMigrationItem
<1>2. /\ items[a] \in Item /\ ItemOK(a) /\ MigrationOK /\ migration.target \in Stores /\ items[a].source \in Stores
  BY MediaTypes DEF MediaInv, Item, Migration
<1>3. /\ new \in Item /\ new.source = items[a].source
      /\ IF items[a].status = "switched" THEN new.status = "switched" ELSE new.status = "copying"
  BY <1>2, ItemClaimed
<1> HIDE DEF new
<1>4. items' \in [Images -> Item] /\ items'[a] = new /\ \A b \in Images : b # a => items'[b] = items[b]
  BY <1>1, <1>3, MediaTypes
<1>5. mover \in Mover
  <2>1. new.attempts \in Nat /\ moves \in Nat
    BY <1>3, MediaTypes DEF Item
  <2>2. [step |-> step, image |-> a, source |-> items[a].source, target |-> migration.target,
         attempts |-> new.attempts, move |-> moves] \in Mover
    BY <1>2, <2>1 DEF Mover
  <2> QED
    BY <1>4, <2>2
<1>6. movers' \in [Nodes -> Mover] /\ movers'[n] = mover /\ \A k \in Nodes : k # n => movers'[k] = movers[k]
  BY <1>1, <1>5, MediaTypes
<1>7. /\ migration' \in Migration /\ migration'.source = migration.source /\ migration'.target = migration.target
  BY <1>1, MigrationMarked
<1>8. \A b \in Images : /\ items'[b].source = items[b].source
                        /\ items'[b].status = "none" <=> items[b].status = "none"
                        /\ items'[b].status \in Early <=> items[b].status \in Early
                        /\ items'[b].status \in Late <=> items[b].status \in Late
  BY <1>1, <1>3, <1>4 DEF Early, Late
<1>9. moves # 0
  BY <1>1, <1>2 DEF MigrationOK
<1>10. MoverOK(n)'
  <2>1. mover.step \in {"claimed", "resumed"} /\ mover.image = a /\ mover.source = migration.source
        /\ mover.target = migration.target /\ (mover.step = "resumed" => new.status = "switched")
        /\ new.status # "none" /\ mover.move = moves
    BY <1>1, <1>2, <1>3 DEF ItemOK
  <2>2. images[a].status # "none" /\ moves \in Nat /\ \A u \in Uploads : uploads[u].step # "idle" => uploads[u].image # a
    BY <1>1, <1>2, MediaTypes DEF ItemOK, MediaInv, UploadOK
  <2> HIDE DEF mover
  <2> QED
    BY <1>1, <1>4, <1>6, <1>7, <2>1, <2>2 DEF MoverOK
<1> QED
  BY <1>1, <1>4, <1>6, <1>7, <1>8, <1>9, <1>10, WorkKeeps

LEMMA ItemsMoveOn ==
    ASSUME MediaInv,
           \/ \E a \in Images : ClaimLapses(a)
           \/ \E n \in Nodes : FailItem(n) \/ CompleteItem(n)
    PROVE  MediaInv'
<1>1. /\ items \in [Images -> Item] /\ movers \in [Nodes -> Mover] /\ migration \in Migration
      /\ \A a \in Images : items[a] \in Item
      /\ \A n \in Nodes : movers[n].step # "idle" => movers[n].image \in Images
  BY MediaTypes DEF MediaInv, MoverOK
<1>2. ASSUME NEW a \in Images, ClaimLapses(a) PROVE MediaInv'
  <2> DEFINE new == [items[a] EXCEPT !.lapsed = TRUE]
  <2>1. new \in Item /\ new.status = items[a].status /\ new.source = items[a].source
    BY <1>1 DEF Item
  <2>2. items' = [items EXCEPT ![a] = new]
    BY <1>2 DEF ClaimLapses
  <2> HIDE DEF new
  <2>3. /\ items' \in [Images -> Item]
        /\ \A b \in Images : items'[b].source = items[b].source /\ items'[b].status = items[b].status
    BY <1>1, <2>1, <2>2
  <2> QED
    BY <1>1, <1>2, <2>3, WorkKeeps DEF ClaimLapses
<1>3. ASSUME NEW n \in Nodes, FailItem(n) PROVE MediaInv'
  <2> DEFINE a == movers[n].image
             new == [items[a] EXCEPT !.status = "failed"]
  <2>1. /\ a \in Images
        /\ (items' = items \/ (items' = [items EXCEPT ![a] = new] /\ items[a].status = "copying"))
        /\ \/ migration' = [migration EXCEPT !.status = "failed"]
           \/ migration' = [migration EXCEPT !.stuck = TRUE]
        /\ movers' = [movers EXCEPT ![n] = NoMover]
        /\ UNCHANGED <<media, profiles, mediaSnapshots, alive, writes, images, current, objects, uploads, jobs,
                       cleaners, moves, unclear, strayed>>
    BY <1>1, <1>3 DEF FailItem, HoldsClaim
  <2>2. new \in Item /\ new.status = "failed" /\ new.source = items[a].source
    BY <1>1, <2>1, ItemMarked
  <2> HIDE DEF new
  <2>3. /\ items' \in [Images -> Item]
        /\ \A b \in Images : /\ items'[b].source = items[b].source
                             /\ items'[b].status = "none" <=> items[b].status = "none"
                             /\ items'[b].status \in Early <=> items[b].status \in Early
                             /\ items'[b].status \in Late <=> items[b].status \in Late
    BY <1>1, <2>1, <2>2 DEF Early, Late
  <2>4. /\ migration' \in Migration /\ migration'.source = migration.source /\ migration'.target = migration.target
    BY <2>1, MigrationMarked
  <2>5. movers' \in [Nodes -> Mover] /\ \A k \in Nodes : movers'[k] = movers[k] \/ movers'[k].step = "idle"
    BY <1>1, <2>1, NoMoverTyped
  <2> QED
    BY <2>1, <2>3, <2>4, <2>5, WorkKeeps
<1>4. ASSUME NEW n \in Nodes, CompleteItem(n) PROVE MediaInv'
  <2> DEFINE a == movers[n].image
             new == [items[a] EXCEPT !.status = "completed"]
  <2>1. /\ a \in Images
        /\ (items' = items \/ (items' = [items EXCEPT ![a] = new] /\ items[a].status = "switched"))
        /\ movers' = [movers EXCEPT ![n] = NoMover]
        /\ UNCHANGED <<media, profiles, mediaSnapshots, alive, writes, images, current, objects, uploads, jobs,
                       cleaners, migration, moves, unclear, strayed>>
    BY <1>1, <1>4 DEF CompleteItem
  <2>2. new \in Item /\ new.status = "completed" /\ new.source = items[a].source
    BY <1>1, <2>1, ItemMarked
  <2> HIDE DEF new
  <2>3. /\ items' \in [Images -> Item]
        /\ \A b \in Images : /\ items'[b].source = items[b].source
                             /\ items'[b].status = "none" <=> items[b].status = "none"
                             /\ items'[b].status \in Early <=> items[b].status \in Early
                             /\ items'[b].status \in Late <=> items[b].status \in Late
    BY <1>1, <2>1, <2>2 DEF Early, Late
  <2>4. movers' \in [Nodes -> Mover] /\ \A k \in Nodes : movers'[k] = movers[k] \/ movers'[k].step = "idle"
    BY <1>1, <2>1, NoMoverTyped
  <2> QED
    BY <1>1, <2>1, <2>3, <2>4, WorkKeeps
<1> QED
  BY <1>2, <1>3, <1>4

\* A migration has as items the rows in its source, and goes to another store; whoever still
\* works is of an earlier one.
LEMMA StartKeeps ==
    ASSUME MediaInv, NEW n \in Nodes, NEW target \in Stores, StartMigration(n, target)
    PROVE  MediaInv'
<1> DEFINE source == media.active
           new == [NoItem EXCEPT !.status = "pending", !.source = source]
<1>1. /\ moves < MaxMoves /\ Drained /\ TargetReady(n, target) /\ writes' = FALSE /\ moves' = moves + 1
      /\ migration' = [status |-> "pending", source |-> source, target |-> target, restore |-> writes,
                        stuck |-> FALSE]
      /\ items' = [a \in Images |->
                      IF images[a].status # "none" /\ ~images[a].erased /\ images[a].store = source
                         THEN new ELSE NoItem]
      /\ UNCHANGED <<media, profiles, mediaSnapshots, alive, images, current, objects, uploads, jobs, cleaners,
                     movers, unclear, strayed>>
  BY DEF StartMigration
<1>2. /\ media \in MediaState /\ source \in Stores /\ ProfilesOK /\ MigrationOK /\ writes \in BOOLEAN
      /\ moves \in Nat /\ MaxMoves \in Nat
  BY MediaAssumptions DEF MediaInv, MediaTypeOK, MediaState
<1>3. moves' \in Nat /\ moves' # 0 /\ moves' <= MaxMoves
      /\ \A k \in Nodes : movers[k].step # "idle" => movers[k].image \in Images /\ movers[k].move < moves'
                                                    /\ images[movers[k].image].status # "none"
  <2>1. \A k \in Nodes : movers[k] \in Mover /\ MoverOK(k)
    BY MediaTypes DEF MediaInv
  <2> QED
    BY <1>1, <1>2, <2>1 DEF MoverOK, Mover
<1>4. source # target
  BY <1>1, <1>2, MediaAssumptions DEF TargetReady, ProfilesOK, Stores
<1> HIDE DEF source
<1>5. Fallback \in Stores
  BY DEF Stores
<1>6. NoItem \in Item /\ NoItem.status = "none" /\ new \in Item /\ new.status = "pending" /\ new.source = source
  BY <1>2, <1>5 DEF NoItem, Item
<1> HIDE DEF new
<1>7. items' \in [Images -> Item] /\ \A a \in Images : items'[a] \in {new, NoItem}
  BY <1>1, <1>6
<1>8. migration' \in Migration /\ migration'.source = source /\ migration'.target = target
  BY <1>1, <1>2 DEF Migration
<1>9. MediaTypeOK'
  <2>1. moves' \in 0 .. MaxMoves
    BY <1>1, <1>2, <1>3
  <2> QED
    BY <1>1, <1>7, <1>8, <2>1 DEF MediaInv, MediaTypeOK
<1>10. \A u \in Uploads : UploadOK(u)'
  BY <1>1 DEF Drained, UploadOK
<1>11. \A c \in Cleaners : \A t \in cleaners[c].taken : TakenOK(t)'
  BY <1>1 DEF MediaInv, TakenOK
<1>12. MigrationOK' /\ ProfilesOK'
  BY <1>1, <1>2, <1>3, <1>4, <1>8 DEF MigrationOK, ProfilesOK
<1>13. ASSUME NEW a \in Images PROVE ItemOK(a)'
  BY <1>1, <1>6, <1>7, <1>8 DEF ItemOK
<1>14. ASSUME NEW k \in Nodes PROVE MoverOK(k)'
  <2>1. movers[k].move \in Nat
    BY MediaTypes DEF Mover
  <2> QED
    BY <1>1, <1>3, <2>1 DEF MoverOK, Drained
<1>15. \A o \in MediaOwners : OwnerOK(o)'
  BY <1>1 DEF MediaInv, OwnerOK, OwnImage, Readable
<1> QED
  BY <1>1, <1>9, <1>10, <1>11, <1>12, <1>13, <1>14, <1>15 DEF MediaInv

LEMMA MoverMarked ==
    ASSUME NEW m \in Mover, NEW s \in {"copied", "switched", "deleted"}
    PROVE  LET new == [m EXCEPT !.step = s]
           IN  /\ new \in Mover /\ new.step = s /\ new.image = m.image /\ new.source = m.source
               /\ new.target = m.target /\ new.move = m.move
BY DEF Mover

\* A copy is added; the source stays.
LEMMA CopyKeeps ==
    ASSUME MediaInv, NEW n \in Nodes, CopyAndVerify(n)
    PROVE  MediaInv'
<1> DEFINE m == movers[n]
           new == [m EXCEPT !.step = "copied"]
<1>1. /\ m.step = "claimed" /\ objects' = objects \cup {At(m.target, m.image)}
      /\ movers' = [movers EXCEPT ![n] = new]
      /\ UNCHANGED <<media, profiles, mediaSnapshots, alive, writes, images, current, uploads, jobs, cleaners,
                     migration, items, moves, unclear, strayed>>
  BY DEF CopyAndVerify
<1>2. m \in Mover /\ MoverOK(n) /\ m.image \in Images /\ m.target \in Stores
  BY <1>1, MediaTypes DEF MediaInv, MoverOK, Mover
<1>3. new \in Mover /\ new.step = "copied" /\ new.image = m.image /\ new.source = m.source /\ new.target = m.target
      /\ new.move = m.move
  BY <1>2, MoverMarked
<1> HIDE DEF new
<1>4. movers' \in [Nodes -> Mover] /\ movers'[n] = new /\ \A k \in Nodes : k # n => movers'[k] = movers[k]
  BY <1>1, <1>3, MediaTypes
<1>5. objects' \subseteq {PlaceOf[s] : s \in Stores} \X Images
  BY <1>1, <1>2, MediaTypes, PlaceTyped
<1>6. MediaTypeOK'
  BY <1>1, <1>4, <1>5 DEF MediaInv, MediaTypeOK
<1>7. \A u \in Uploads : UploadOK(u)'
  BY <1>1 DEF MediaInv, UploadOK
<1>8. \A c \in Cleaners : \A t \in cleaners[c].taken : TakenOK(t)'
  BY <1>1 DEF MediaInv, TakenOK
<1>9. MigrationOK' /\ ProfilesOK'
  BY <1>1, <1>4 DEF MediaInv, MigrationOK, ProfilesOK
<1>10. \A a \in Images : ItemOK(a)'
  BY <1>1 DEF MediaInv, ItemOK
<1>11. ASSUME NEW k \in Nodes PROVE MoverOK(k)'
  <2>1. MoverOK(k)
    BY DEF MediaInv
  <2>2. CASE k = n
    BY <1>1, <1>2, <1>3, <1>4, <2>2 DEF MoverOK
  <2>3. CASE k # n
    BY <1>1, <1>4, <2>1, <2>3 DEF MoverOK, IsCurrent
  <2> QED
    BY <2>2, <2>3
<1>12. \A o \in MediaOwners : OwnerOK(o)'
  BY <1>1 DEF MediaInv, OwnerOK, OwnImage, Readable
<1> QED
  BY <1>1, <1>6, <1>7, <1>8, <1>9, <1>10, <1>11, <1>12 DEF MediaInv

LEMMA RowSwitched ==
    ASSUME NEW r \in Image, NEW s \in Stores
    PROVE  LET row == [r EXCEPT !.store = s, !.old = FALSE]
           IN  /\ row \in Image /\ row.status = r.status /\ row.store = s /\ row.owner = r.owner
               /\ row.claimed = r.claimed /\ row.erased = r.erased
<1> DEFINE first == [r EXCEPT !.store = s]
<1>1. /\ first \in Image /\ first.status = r.status /\ first.store = s /\ first.owner = r.owner
      /\ first.claimed = r.claimed /\ first.erased = r.erased
  BY DEF Image
<1> HIDE DEF first
<1>2. LET row == [first EXCEPT !.old = FALSE]
      IN  /\ row \in Image /\ row.status = r.status /\ row.store = s /\ row.owner = r.owner
          /\ row.claimed = r.claimed /\ row.erased = r.erased
  BY <1>1 DEF Image
<1> QED
  BY <1>2 DEF first

\* The row switches only while the claim is held, and to a store that has the objects.
LEMMA SwitchKeeps ==
    ASSUME MediaInv, NEW n \in Nodes, MarkItemSwitched(n)
    PROVE  MediaInv'
<1> DEFINE m == movers[n]
           a == m.image
           ok == images[a].store = m.source /\ ~images[a].erased /\ HoldsClaim(n)
           row == [images[a] EXCEPT !.store = m.target, !.old = FALSE]
           item == [items[a] EXCEPT !.status = "switched"]
           new == [m EXCEPT !.step = "switched"]
<1>1. /\ m.step = "copied" /\ m \in Mover /\ MoverOK(n) /\ a \in Images /\ m.target \in Stores
      /\ ItemOK(a)
      /\ m.move = moves => /\ m.source = migration.source /\ m.target = migration.target
                          /\ items[a].status # "none"
  BY MediaTypes DEF MediaInv, MoverOK, Mover, MarkItemSwitched
<1>2. UNCHANGED <<media, profiles, mediaSnapshots, alive, writes, current, objects, uploads, jobs, cleaners,
                  migration, moves, unclear, strayed>>
  BY DEF MarkItemSwitched
<1>3. CASE ~ok
  <2>1. UNCHANGED <<images, items>> /\ movers' = [movers EXCEPT ![n] = NoMover]
    BY <1>3 DEF MarkItemSwitched
  <2>2. /\ movers' \in [Nodes -> Mover] /\ \A k \in Nodes : movers'[k] = movers[k] \/ movers'[k].step = "idle"
        /\ alive' \subseteq Nodes /\ uploads' \in [Uploads -> Upload]
    BY <1>2, <2>1, MediaTypes, NoMoverTyped DEF MediaInv, MediaTypeOK
  <2> QED
    BY <1>2, <2>1, <2>2, EndsKeep
<1>4. CASE ok
  <2>1. images' = [images EXCEPT ![a] = row] /\ items' = [items EXCEPT ![a] = item]
        /\ movers' = [movers EXCEPT ![n] = new] /\ items[a].status = "copying" /\ m.move = moves
    <3>1. [images EXCEPT ![a].store = m.target, ![a].old = FALSE] = [images EXCEPT ![a] = row]
      BY MediaTypes
    <3>2. items[a].status = "copying" /\ m.move = moves
      BY <1>4 DEF HoldsClaim, OfThisMove
    <3> HIDE DEF row
    <3> QED
      BY <1>4, <3>1, <3>2 DEF MarkItemSwitched
  <2>2. /\ row \in Image /\ row.status = images[a].status /\ row.store = migration.target
        /\ row.owner = images[a].owner /\ row.claimed = images[a].claimed /\ row.erased = images[a].erased
    <3>1. images[a] \in Image
      BY <1>1, MediaTypes
    <3> QED
      BY <1>1, <2>1, <3>1, RowSwitched
  <2>3. item \in Item /\ item.status = "switched" /\ item.source = items[a].source
    <3>1. items[a] \in Item
      BY <1>1, MediaTypes
    <3> QED
      BY <3>1, ItemMarked
  <2>4. new \in Mover /\ new.step = "switched" /\ new.image = a /\ new.source = m.source /\ new.target = m.target
      /\ new.move = m.move
    BY <1>1, MoverMarked
  <2> HIDE DEF row, item, new, ok
  <2>5. /\ images' \in [Images -> Image] /\ images'[a] = row /\ \A b \in Images : b # a => images'[b] = images[b]
        /\ items' \in [Images -> Item] /\ items'[a] = item /\ \A b \in Images : b # a => items'[b] = items[b]
        /\ movers' \in [Nodes -> Mover] /\ movers'[n] = new /\ \A k \in Nodes : k # n => movers'[k] = movers[k]
    BY <1>1, <2>1, <2>2, <2>3, <2>4, MediaTypes
  <2>6. MediaTypeOK'
    BY <1>2, <2>5 DEF MediaInv, MediaTypeOK
  <2>7. ASSUME NEW u \in Uploads PROVE UploadOK(u)'
    <3>1. UploadOK(u) /\ (uploads[u].step # "idle" => uploads[u].image # a)
      BY <1>1 DEF MediaInv, MoverOK
    <3> QED
      BY <1>1, <1>2, <2>5, <3>1 DEF UploadOK
  <2>8. ASSUME NEW c \in Cleaners, NEW t \in cleaners[c].taken PROVE TakenOK(t)'
    <3>1. TakenOK(t) /\ t[1] \in Images
      BY TakenTyped
    <3> QED
      BY <1>2, <2>2, <2>5, <3>1 DEF TakenOK
  <2>9. moves # 0 /\ MigrationOK' /\ ProfilesOK'
    <3>1. moves # 0
      BY <1>1, <2>1 DEF MediaInv, MigrationOK
    <3> QED
      BY <1>2, <3>1 DEF MediaInv, MigrationOK, ProfilesOK
  <2>10. ASSUME NEW b \in Images PROVE ItemOK(b)'
    <3>1. ItemOK(b)
      BY DEF MediaInv
    <3> QED
      BY <1>1, <1>2, <2>1, <2>2, <2>3, <2>5, <3>1 DEF ItemOK
  <2>11. ASSUME NEW k \in Nodes PROVE MoverOK(k)'
    <3>1. MoverOK(k)
      BY DEF MediaInv
    <3>2. CASE k = n
      BY <1>1, <1>2, <2>1, <2>2, <2>3, <2>4, <2>5, <3>2, MediaTypes DEF MoverOK
    <3>3. CASE k # n
      BY <1>2, <2>1, <2>2, <2>3, <2>5, <3>1, <3>3 DEF MoverOK, IsCurrent
    <3> QED
      BY <3>2, <3>3
  <2>12. ASSUME NEW o \in MediaOwners PROVE OwnerOK(o)'
    <3>1. OwnerOK(o) /\ current[o] \in Images \cup {Nothing}
      BY MediaTypes DEF MediaInv
    <3>2. current[o] = a /\ a \notin strayed => At(migration.target, a) \in objects
      BY <1>1, <2>1 DEF MoverOK, IsCurrent
    <3> QED
      BY <1>2, <2>2, <2>5, <3>1, <3>2 DEF OwnerOK, OwnImage, Readable
  <2> QED
    BY <1>2, <2>6, <2>7, <2>8, <2>9, <2>10, <2>11, <2>12 DEF MediaInv
<1> QED
  BY <1>3, <1>4

\* The source is deleted when the row names the target; if that is the same place, or if the
\* migration is not the newest, the deletion strays.
LEMMA SourceGoes ==
    ASSUME MediaInv, NEW n \in Nodes, DeleteSource(n)
    PROVE  MediaInv'
<1> DEFINE m == movers[n]
           a == m.image
           new == [m EXCEPT !.step = "deleted"]
           sure == m.move = moves /\ PlaceOf[m.source] # PlaceOf[m.target]
<1>1. /\ m.step \in {"switched", "resumed"} /\ objects' = objects \ {At(m.source, a)}
      /\ strayed' = IF sure THEN strayed ELSE strayed \cup {a}
      /\ movers' = [movers EXCEPT ![n] = new]
      /\ UNCHANGED <<media, profiles, mediaSnapshots, alive, writes, images, current, uploads, jobs, cleaners,
                     migration, items, moves, unclear>>
  BY DEF DeleteSource, OfThisMove
<1>2. /\ m \in Mover /\ MoverOK(n) /\ a \in Images /\ m.target \in Stores /\ m.source \in Stores
      /\ ItemOK(a) /\ MigrationOK
  BY <1>1, MediaTypes DEF MediaInv, MoverOK, Mover
<1>3. ASSUME sure
      PROVE  /\ images[a].store = m.target /\ m.target = migration.target
             /\ items[a].status \in {"switched", "completed"}
  BY <1>1, <1>2, <1>3 DEF ItemOK, MoverOK
<1>4. \A t \in Stores, b \in Images :
          (b # a \/ (sure /\ t = m.target)) /\ At(t, b) \in objects => At(t, b) \in objects'
  BY <1>1, <1>2, PlacesDiffer
<1>5. /\ strayed \subseteq strayed' /\ strayed' \subseteq Images /\ (~sure => a \in strayed')
  BY <1>1, <1>2, MediaTypes
<1>6. new \in Mover /\ new.step = "deleted" /\ new.image = a /\ new.source = m.source /\ new.target = m.target
      /\ new.move = m.move
  BY <1>2, MoverMarked
<1> HIDE DEF new, sure
<1>7. movers' \in [Nodes -> Mover] /\ movers'[n] = new /\ \A k \in Nodes : k # n => movers'[k] = movers[k]
  BY <1>1, <1>6, MediaTypes
<1>8. MediaTypeOK'
  <2>1. objects' \subseteq {PlaceOf[s] : s \in Stores} \X Images
    BY <1>1, MediaTypes
  <2> QED
    BY <1>1, <1>5, <1>7, <2>1 DEF MediaInv, MediaTypeOK
<1>9. ASSUME NEW u \in Uploads PROVE UploadOK(u)'
  <2>1. UploadOK(u) /\ uploads[u].store \in Stores
    BY MediaTypes DEF MediaInv, Upload
  <2>2. uploads[u].step # "idle" => uploads[u].image # a
    BY <1>1, <1>2 DEF MoverOK
  <2> QED
    BY <1>1, <1>2, <1>4, <2>1, <2>2 DEF UploadOK
<1>10. \A c \in Cleaners : \A t \in cleaners[c].taken : TakenOK(t)'
  BY <1>1 DEF MediaInv, TakenOK
<1>11. MigrationOK' /\ ProfilesOK'
  BY <1>1, <1>2, <1>7 DEF MediaInv, MigrationOK, ProfilesOK
<1>12. \A b \in Images : ItemOK(b)'
  BY <1>1 DEF MediaInv, ItemOK
<1>13. ASSUME NEW k \in Nodes PROVE MoverOK(k)'
  <2>1. MoverOK(k) /\ movers[k].target \in Stores
    BY MediaTypes DEF MediaInv, Mover
  <2>2. CASE k = n
    BY <1>1, <1>2, <1>6, <1>7, <2>2 DEF MoverOK
  <2>3. CASE k # n
    BY <1>1, <1>3, <1>4, <1>5, <1>7, <2>1, <2>3 DEF MoverOK, IsCurrent
  <2> QED
    BY <2>2, <2>3
<1>14. ASSUME NEW o \in MediaOwners PROVE OwnerOK(o)'
  <2>1. OwnerOK(o) /\ current[o] \in Images \cup {Nothing} /\ \A b \in Images : images[b].store \in Stores
    BY MediaTypes DEF MediaInv, Image
  <2> QED
    BY <1>1, <1>3, <1>4, <1>5, <2>1 DEF OwnerOK, OwnImage, Readable
<1> QED
  BY <1>1, <1>8, <1>9, <1>10, <1>11, <1>12, <1>13, <1>14 DEF MediaInv

LEMMA MediaStarts ==
    ASSUME MediaInit
    PROVE  MediaInv
<1>1. /\ media.active \in Stores /\ media.candidate = Nothing /\ profiles = {media.active} \ {Fallback}
      /\ media \in MediaState
  <2>1. media \in [revision : {1}, active : Stores, candidate : {Nothing}, tested : {FALSE}]
        /\ profiles = {media.active} \ {Fallback}
    BY DEF MediaInit
  <2>2. media.revision = 1 /\ media.active \in Stores /\ media.candidate = Nothing /\ media.tested = FALSE
    BY <2>1
  <2>3. PICK s \in Stores : media = [revision |-> 1, active |-> s, candidate |-> Nothing, tested |-> FALSE]
    BY <2>1, <2>2
  <2>4. [revision |-> 1, active |-> s, candidate |-> Nothing, tested |-> FALSE] \in MediaState
    BY DEF MediaState
  <2>5. media \in MediaState
    BY <2>3, <2>4
  <2> QED
    BY <2>1, <2>2, <2>5
<1>2. Fallback \in Stores /\ Nothing \notin Images /\ Nothing \notin MediaOwners
  BY MediaAssumptions DEF Stores
<1> DEFINE holder(a) == CHOOSE o \in MediaOwners : current[o] = a
           row(a) == [CreateStaging(holder(a), media.active) EXCEPT !.status = "active"]
<1>3. ASSUME NEW a \in Images, NEW o \in MediaOwners, current[o] = a
      PROVE  holder(a) = o /\ row(a) \in Image /\ row(a).status = "active" /\ row(a).owner = o /\ ~row(a).erased
             /\ row(a).store = media.active /\ images[a] = row(a)
  <2>1. holder(a) \in MediaOwners /\ current[holder(a)] = a
    BY <1>3
  <2>2. holder(a) = o
    BY <1>2, <1>3, <2>1 DEF MediaInit
  <2>3. images[a] = row(a)
    BY <1>3 DEF MediaInit
  <2> HIDE DEF holder
  <2>4. row(a) \in Image /\ row(a).status = "active" /\ row(a).owner = o /\ ~row(a).erased
        /\ row(a).store = media.active
    BY <1>1, <2>1, <2>2 DEF CreateStaging, Image
  <2> QED
    BY <2>2, <2>3, <2>4
<1>4. ASSUME NEW a \in Images, \A o \in MediaOwners : current[o] # a
      PROVE  images[a] = NoImage /\ images[a] \in Image /\ images[a].status = "none"
  <2>1. images[a] = NoImage
    BY <1>4 DEF MediaInit
  <2> QED
    BY <1>2, <2>1 DEF NoImage, Image
<1> HIDE DEF row, holder
<1>5. images \in [Images -> Image]
  <2>1. \A a \in Images : images[a] \in Image
    BY <1>3, <1>4
  <2> QED
    BY <2>1 DEF MediaInit
<1>6. \A a \in Images : images[a].status = "active" => At(media.active, a) \in objects
  BY DEF MediaInit
<1>7. NoItem \in Item /\ NoItem.status = "none"
  BY <1>2 DEF NoItem, Item
<1>8. MediaTypeOK
  <2>1. objects \subseteq {PlaceOf[s] : s \in Stores} \X Images
    <3>1. objects \subseteq {At(media.active, a) : a \in Images}
      BY DEF MediaInit
    <3> QED
      BY <1>1, <3>1, PlaceTyped
  <2>2. migration \in Migration
    BY <1>2 DEF MediaInit, Migration
  <2>3. mediaSnapshots \in [Nodes -> MediaState] /\ profiles \subseteq Profiles
    BY <1>1 DEF MediaInit, Stores
  <2>4. jobs \in [MediaOwners -> Job]
    BY DEF MediaInit, Job
  <2>5. cleaners \in [Cleaners -> Round]
    BY DEF MediaInit, Round, NoRound
  <2>6. moves \in 0 .. MaxMoves
    BY MediaAssumptions DEF MediaInit
  <2> QED
    BY <1>1, <1>5, <1>7, <2>1, <2>2, <2>3, <2>4, <2>5, <2>6, NoUploadTyped, NoMoverTyped DEF MediaInit, MediaTypeOK
<1>9. ProfilesOK /\ \A u \in Uploads : UploadOK(u)
  BY <1>1, NoUploadTyped DEF MediaInit, ProfilesOK, UploadOK, Stores
<1>10. \A c \in Cleaners : \A t \in cleaners[c].taken : TakenOK(t)
  BY DEF MediaInit, NoRound
<1>11. \A a \in Images : items[a].status = "none"
  BY <1>7 DEF MediaInit
<1>12. moves = 0 /\ \A n \in Nodes : movers[n].step = "idle"
  BY NoMoverTyped DEF MediaInit
<1>13. MigrationOK /\ (\A a \in Images : ItemOK(a)) /\ \A n \in Nodes : MoverOK(n)
  BY <1>11, <1>12 DEF MigrationOK, ItemOK, MoverOK
<1>14. ASSUME NEW o \in MediaOwners, current[o] # Nothing PROVE OwnerOK(o)
  <2> DEFINE a == current[o]
  <2>1. a \in Images
    BY <1>14 DEF MediaInit
  <2>2. images[a].status = "active" /\ images[a].owner = o /\ ~images[a].erased /\ images[a].store = media.active
    BY <1>3, <2>1
  <2>3. ASSUME NEW b \in Images, images[b].status = "active", images[b].owner = o PROVE b = a
    <3>1. PICK q \in MediaOwners : current[q] = b
      BY <1>4, <2>3
    <3>2. images[b].owner = q
      BY <1>3, <3>1
    <3> QED
      BY <2>3, <3>1, <3>2
  <2> QED
    BY <1>6, <2>1, <2>2, <2>3 DEF OwnerOK, OwnImage, Readable
<1>15. \A o \in MediaOwners : OwnerOK(o)
  BY <1>14 DEF OwnerOK, OwnImage, Readable
<1> QED
  BY <1>8, <1>9, <1>10, <1>13, <1>15 DEF MediaInv

(***************************************************************************)
(* The image an owner has is active, the only active one, and the store    *)
(* its row names holds its objects, through any number of migrations and   *)
(* overlapping rounds of the clean-up: uploads have rows of their own      *)
(* (CreateStaging), the clean-up claims only old rows that nobody has      *)
(* (ClaimUnreferenced), and a migration switches a row after the copy and  *)
(* while the claim is held, and deletes the source after that              *)
(* (MarkItemSwitched, migrateOnce).  The objects are lost only if an       *)
(* activation was committed and reported as failed, or if migrateOnce      *)
(* deletes the source of a migration that another has followed, or whose   *)
(* target is the same bucket and prefix: the code prevents neither.        *)
(***************************************************************************)
THEOREM CurrentImagesOutliveMigrations == MediaSpec => []ImagesOutliveMigrations
<1>1. MediaInit => MediaInv
  BY MediaStarts
<1>2. MediaInv /\ [MediaNext]_mediaVars => MediaInv'
  <2> SUFFICES ASSUME MediaInv, [MediaNext]_mediaVars PROVE MediaInv'
    OBVIOUS
  <2>1. ASSUME NEW u \in Uploads, UploadStep(u) PROVE MediaInv'
    BY <2>1, StageSteps, PutKeeps, FailureKeeps, ActivationKeeps, EndSteps DEF UploadStep
  <2>2. CASE OwnerStep
    BY <2>2, RemovalKeeps, OwnerGoes DEF OwnerStep
  <2>3. CASE CleanupStep
    BY <2>3, AgeKeeps, RoundSteps, ClaimGoes, ClaimKeeps, CleanupKeeps DEF CleanupStep
  <2>4. ASSUME NEW n \in Nodes, NodeStep(n) PROVE MediaInv'
    BY <2>4, SettingsSteps, EndSteps DEF NodeStep
  <2>5. ASSUME NEW n \in Nodes, MigrationStep(n) PROVE MediaInv'
    BY <2>5, StartKeeps, RetryKeeps, WorkerClaims, CopyKeeps, ItemsMoveOn, SwitchKeeps, SourceGoes, EndSteps,
       SettingsSteps DEF MigrationStep
  <2>6. CASE \E a \in Images : ClaimLapses(a)
    BY <2>6, ItemsMoveOn
  <2>7. CASE (\E admitted \in BOOLEAN : SetWrites(admitted)) \/ UNCHANGED mediaVars
    BY <2>7, SettingsSteps
  <2> QED
    BY <2>1, <2>2, <2>3, <2>4, <2>5, <2>6, <2>7 DEF MediaNext
<1>3. MediaInv => ImagesOutliveMigrations
  BY DEF MediaInv, OwnerOK, ImagesOutliveMigrations
<1> QED
  BY <1>1, <1>2, <1>3, PTL DEF MediaSpec
=============================================================================
