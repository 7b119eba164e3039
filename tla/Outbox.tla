-------------------------------- MODULE Outbox --------------------------------
(***************************************************************************)
(* The two delivery queues that leave the database: account mail           *)
(* (internal/account/outbox.go) and audit events (internal/audit).  A      *)
(* dispatcher of any instance claims rows under a lease, works through its *)
(* batch and reports each row; a lease may lapse while its dispatcher is   *)
(* still at work, and a dispatcher may die at any point.                   *)
(*                                                                         *)
(* A row's times are flags: it is due (available_at has passed), its lease *)
(* has lapsed (locked_at is older than the lease), its message is over     *)
(* (expires_at has passed).                                                *)
(***************************************************************************)
EXTENDS Naturals, FiniteSets

CONSTANTS Mails,       \* messages that may be queued
          Events,      \* audit events that may be queued; each is a login
          Couriers,    \* mail dispatchers
          Scribes,     \* audit dispatchers
          NoWorker,
          MaxAttempts  \* bound: how often a row is claimed

ASSUME OutboxAssumptions ==
    /\ NoWorker \notin Couriers \cup Scribes /\ MaxAttempts \in Nat
    /\ IsFiniteSet(Mails) /\ IsFiniteSet(Events)

VARIABLES mails,       \* email_outbox
          mailStats,   \* account_mail_daily
          couriers,
          events,      \* audit_event_outbox
          auditLog,    \* audit_logs: the row of an event
          logins,      \* login_stats_daily
          scribes
mailVars == <<mails, mailStats, couriers>>
auditVars == <<events, auditLog, logins, scribes>>
outboxVars == <<mails, mailStats, couriers, events, auditLog, logins, scribes>>

Final == {"sent", "rejected", "expired"}
Mail == [status : {"none", "pending", "sending", "failed"} \cup Final, owner : Couriers \cup {NoWorker},
         due : BOOLEAN, lapsed : BOOLEAN, over : BOOLEAN, attempts : Nat]
Event == [status : {"none", "pending", "processing", "failed", "processed", "gone"},
          owner : Scribes \cup {NoWorker}, due : BOOLEAN, lapsed : BOOLEAN, attempts : Nat]
Courier == [at : {"idle", "expired", "sending", "accepted", "refused", "failed"},
            over : SUBSET Mails, batch : SUBSET Mails]
Scribe == [at : {"idle", "delivering", "failed"}, item : SUBSET Events, batch : SUBSET Events]
NoMail == [status |-> "none", owner |-> NoWorker, due |-> FALSE, lapsed |-> FALSE, over |-> FALSE, attempts |-> 0]
NoEvent == [status |-> "none", owner |-> NoWorker, due |-> FALSE, lapsed |-> FALSE, attempts |-> 0]
AtRest == [at |-> "idle", over |-> {}, batch |-> {}]

OutboxTypeOK ==
    /\ mails \in [Mails -> Mail]
    /\ mailStats \in [Final -> Nat]
    /\ couriers \in [Couriers -> Courier]
    /\ events \in [Events -> Event]
    /\ auditLog \in [Events -> {"none", "kept", "gone"}]
    /\ logins \in Nat
    /\ scribes \in [Scribes -> Scribe]

OutboxInit ==
    /\ mails = [m \in Mails |-> NoMail]
    /\ mailStats = [s \in Final |-> 0]
    /\ couriers = [w \in Couriers |-> AtRest]
    /\ events = [e \in Events |-> NoEvent]
    /\ auditLog = [e \in Events |-> "none"]
    /\ logins = 0
    /\ scribes = [w \in Scribes |-> [at |-> "idle", item |-> {}, batch |-> {}]]

-----------------------------------------------------------------------------
(* Account mail *)

InsertOutboxEmail(m) ==
    /\ mails[m].status = "none"
    /\ mails' = [mails EXCEPT ![m].status = "pending", ![m].due = TRUE]
    /\ UNCHANGED <<mailStats, couriers>>

\* A retry is due; a lease has run out; a message has outlived its token.
MailTime(m) ==
    /\ mails[m].status \notin Final \cup {"none"}
    /\ \/ ~mails[m].due /\ mails' = [mails EXCEPT ![m].due = TRUE]
       \/ mails[m].status = "sending" /\ ~mails[m].lapsed /\ mails' = [mails EXCEPT ![m].lapsed = TRUE]
       \/ ~mails[m].over /\ mails' = [mails EXCEPT ![m].over = TRUE]
    /\ UNCHANGED <<mailStats, couriers>>

Ended(row, status) == [row EXCEPT !.status = status, !.owner = NoWorker, !.lapsed = FALSE]
Put(w, at, batch) == couriers' = [couriers EXCEPT ![w].at = at, ![w].batch = batch]
Count(tally, status, n) == [tally EXCEPT ![status] = @ + n]

\* ExpireEmailArtifacts, at the start of DispatchOnce: a batch of the messages
\* that are over, whatever their dispatchers do.  The time of this step is
\* that of the claim which follows.
ExpireEmailArtifacts(w) ==
    LET over == {m \in Mails : mails[m].over}
    IN  /\ couriers[w].at = "idle"
        /\ \E some \in SUBSET {m \in over : mails[m].status \in {"pending", "failed", "sending"}} :
              /\ mails' = [m \in Mails |-> IF m \in some THEN Ended(mails[m], "expired") ELSE mails[m]]
              /\ mailStats' = Count(mailStats, "expired", Cardinality(some))
        /\ couriers' = [couriers EXCEPT ![w] = [at |-> "expired", over |-> over, batch |-> {}]]

Claimable(m, w) ==
    /\ m \notin couriers[w].over
    /\ \/ mails[m].status \in {"pending", "failed"} /\ mails[m].due
       \/ mails[m].status = "sending" /\ mails[m].lapsed
    /\ mails[m].attempts < MaxAttempts

ClaimEmailBatch(w) ==
    /\ couriers[w].at = "expired"
    /\ \E some \in SUBSET {m \in Mails : Claimable(m, w)} :
          /\ mails' = [m \in Mails |-> IF m \in some
                          THEN [mails[m] EXCEPT !.status = "sending", !.owner = w, !.lapsed = FALSE, !.due = FALSE,
                                                !.attempts = @ + 1]
                          ELSE mails[m]]
          /\ couriers' = [couriers EXCEPT ![w] = [at |-> IF some = {} THEN "idle" ELSE "sending",
                                                  over |-> {}, batch |-> some]]
    /\ UNCHANGED mailStats

\* sender.Send: the SMTP server takes the message, refuses the recipient for
\* good, or fails in another way.
SendMail(w, m) ==
    /\ couriers[w].at = "sending" /\ m \in couriers[w].batch
    /\ \E answer \in {"accepted", "refused", "failed"} :
          couriers' = [couriers EXCEPT ![w].at = answer, ![w].over = {m}]
    /\ UNCHANGED <<mails, mailStats>>

\* The next item of the batch, or the end of the round.
NextItem(w) ==
    LET left == couriers[w].batch \ couriers[w].over
    IN  couriers' = [couriers EXCEPT ![w] = [at |-> IF left = {} THEN "idle" ELSE "sending",
                                             over |-> {}, batch |-> left]]

HoldsMail(w, m) == mails[m].status = "sending" /\ mails[m].owner = w

\* A report ends with the row changed, or finds the lease lost, or fails;
\* each way the dispatcher goes on with its batch.
Report(w, m, row, tally) ==
    /\ \/ /\ HoldsMail(w, m)
          /\ mails' = [mails EXCEPT ![m] = row]
          /\ mailStats' = tally
       \/ UNCHANGED <<mails, mailStats>>
    /\ NextItem(w)

\* Mutant of MarkEmailSent: the update finds its row by id alone.
MarkEmailSentById(w, m) ==
    /\ couriers[w].at = "accepted" /\ couriers[w].over = {m}
    /\ mails' = [mails EXCEPT ![m] = Ended(@, "sent")]
    /\ mailStats' = Count(mailStats, "sent", 1)
    /\ NextItem(w)
MarkEmailSent(w, m) ==
    /\ couriers[w].at = "accepted" /\ couriers[w].over = {m}
    /\ Report(w, m, Ended(mails[m], "sent"), Count(mailStats, "sent", 1))

MarkEmailRejected(w, m) ==
    /\ couriers[w].at = "refused" /\ couriers[w].over = {m}
    /\ Report(w, m, Ended(mails[m], "rejected"), Count(mailStats, "rejected", 1))

\* A message that is over by now is not tried again.
MarkEmailFailed(w, m) ==
    /\ couriers[w].at = "failed" /\ couriers[w].over = {m}
    /\ IF mails[m].over
       THEN Report(w, m, Ended(mails[m], "expired"), Count(mailStats, "expired", 1))
       ELSE Report(w, m, Ended(mails[m], "failed"), mailStats)

CourierDies(w) ==
    /\ couriers[w].at # "idle"
    /\ couriers' = [couriers EXCEPT ![w] = AtRest]
    /\ UNCHANGED <<mails, mailStats>>

MailStep ==
    \/ \E m \in Mails : InsertOutboxEmail(m) \/ MailTime(m)
    \/ \E w \in Couriers : \/ ExpireEmailArtifacts(w) \/ ClaimEmailBatch(w) \/ CourierDies(w)
                           \/ \E m \in Mails : \/ SendMail(w, m) \/ MarkEmailSent(w, m)
                                               \/ MarkEmailRejected(w, m) \/ MarkEmailFailed(w, m)

-----------------------------------------------------------------------------
(* Audit events *)

\* EnqueueTx, in the transaction of the operation that is audited.
EnqueueEvent(e) ==
    /\ events[e].status = "none"
    /\ events' = [events EXCEPT ![e].status = "pending", ![e].due = TRUE]
    /\ UNCHANGED <<auditLog, logins, scribes>>

EventTime(e) ==
    /\ \/ events[e].status = "failed" /\ ~events[e].due /\ events' = [events EXCEPT ![e].due = TRUE]
       \/ events[e].status = "processing" /\ ~events[e].lapsed /\ events' = [events EXCEPT ![e].lapsed = TRUE]
    /\ UNCHANGED <<auditLog, logins, scribes>>

ClaimAuditBatch(w) ==
    /\ scribes[w].at = "idle"
    /\ \E some \in SUBSET {e \in Events :
             /\ \/ events[e].status \in {"pending", "failed"} /\ events[e].due
                \/ events[e].status = "processing" /\ events[e].lapsed
             /\ events[e].attempts < MaxAttempts} :
          /\ some # {}
          /\ events' = [e \in Events |-> IF e \in some
                           THEN [status |-> "processing", owner |-> w, due |-> FALSE, lapsed |-> FALSE,
                                 attempts |-> events[e].attempts + 1]
                           ELSE events[e]]
          /\ scribes' = [scribes EXCEPT ![w] = [at |-> "delivering", item |-> {}, batch |-> some]]
    /\ UNCHANGED <<auditLog, logins>>

HoldsEvent(w, e) == events[e].status = "processing" /\ events[e].owner = w
NextEvent(w, e) ==
    scribes' = [scribes EXCEPT ![w] = [at |-> IF @.batch = {e} THEN "idle" ELSE "delivering", item |-> {},
                                       batch |-> @.batch \ {e}]]

\* DeliverAuditEvent: the lease, the log row and the aggregate in one
\* transaction.  Its commit may be reported as an error, and an error of any
\* kind, a lost lease too, is followed by MarkAuditEventFailed.
Delivered(e) ==
    /\ events' = [events EXCEPT ![e] = [@ EXCEPT !.status = "processed", !.owner = NoWorker, !.lapsed = FALSE]]
    /\ IF auditLog[e] = "kept"
       THEN UNCHANGED <<auditLog, logins>>
       ELSE auditLog' = [auditLog EXCEPT ![e] = "kept"] /\ logins' = logins + 1
DeliverAuditEvent(w, e) ==
    /\ scribes[w].at = "delivering" /\ e \in scribes[w].batch
    /\ \/ HoldsEvent(w, e) /\ Delivered(e) /\ NextEvent(w, e)
       \/ /\ HoldsEvent(w, e) /\ Delivered(e)
          /\ scribes' = [scribes EXCEPT ![w].at = "failed", ![w].item = {e}]
       \/ scribes' = [scribes EXCEPT ![w].at = "failed", ![w].item = {e}] /\ UNCHANGED <<events, auditLog, logins>>

MarkAuditEventFailed(w, e) ==
    /\ scribes[w].at = "failed" /\ scribes[w].item = {e}
    /\ \/ /\ HoldsEvent(w, e)
          /\ events' = [events EXCEPT ![e] = [@ EXCEPT !.status = "failed", !.owner = NoWorker, !.lapsed = FALSE]]
       \/ UNCHANGED events
    /\ NextEvent(w, e)
    /\ UNCHANGED <<auditLog, logins>>

\* The maintenance command: log rows older than the retention go, and the
\* outbox rows of events delivered long ago.
ApplyRetention(e) ==
    /\ auditLog[e] = "kept"
    /\ auditLog' = [auditLog EXCEPT ![e] = "gone"]
    /\ UNCHANGED <<events, logins, scribes>>
CleanupProcessedOutbox(e) ==
    /\ events[e].status = "processed"
    /\ events' = [events EXCEPT ![e] = [NoEvent EXCEPT !.status = "gone"]]
    /\ UNCHANGED <<auditLog, logins, scribes>>

ScribeDies(w) ==
    /\ scribes[w].at # "idle"
    /\ scribes' = [scribes EXCEPT ![w] = [at |-> "idle", item |-> {}, batch |-> {}]]
    /\ UNCHANGED <<events, auditLog, logins>>

AuditStep ==
    \/ \E e \in Events : EnqueueEvent(e) \/ EventTime(e) \/ ApplyRetention(e) \/ CleanupProcessedOutbox(e)
    \/ \E w \in Scribes : \/ ClaimAuditBatch(w) \/ ScribeDies(w)
                          \/ \E e \in Events : DeliverAuditEvent(w, e) \/ MarkAuditEventFailed(w, e)

OutboxNext == (MailStep /\ UNCHANGED auditVars) \/ (AuditStep /\ UNCHANGED mailVars)

OutboxSpec == OutboxInit /\ [][OutboxNext]_outboxVars

-----------------------------------------------------------------------------
(* Properties *)

(* Every message that ended is in the statistics once, under the way it    *)
(* ended, and every login that was delivered is in the log and counted     *)
(* once - although dispatchers outlive their leases, die between sending   *)
(* and reporting, report after another has, and read an error for a commit *)
(* that went through, and although the log forgets.                        *)
AccountedOnce ==
    /\ \A s \in Final : mailStats[s] = Cardinality({m \in Mails : mails[m].status = s})
    /\ \A e \in Events : events[e].status \in {"processed", "gone"} <=> auditLog[e] # "none"
    /\ logins = Cardinality({e \in Events : auditLog[e] # "none"})
=============================================================================
