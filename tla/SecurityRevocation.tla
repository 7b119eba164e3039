------------------------- MODULE SecurityRevocation -------------------------
(***************************************************************************)
(* The durable clean-up of revoked credentials: a trigger on users writes  *)
(* an outbox row in the transaction that advances a security version, and  *)
(* the dispatchers of all server instances (internal/securityrevocation)   *)
(* lease rows, delete the older sessions and refresh families in Redis and *)
(* remove the row.                                                         *)
(*                                                                         *)
(* PostgreSQL transactions and Redis scripts are atomic steps.  Sessions   *)
(* and families of one user and generation are always removed together, so *)
(* Redis is a set of generations.  The clocks are abstracted to the two    *)
(* comparisons made with them: whether a row is due and whether its lease  *)
(* has expired.  A fault is anything that goes wrong: an error of Redis or *)
(* PostgreSQL (with or without its effect), a crash, a lease that runs out *)
(* while its holder is still at work.                                      *)
(***************************************************************************)
EXTENDS Integers, FiniteSets

CONSTANTS
    Users,
    Workers,     \* dispatchers, one per instance, with different worker ids
    Logins,      \* slots: requests that are about to store a credential
    BatchSize,   \* rows leased at once
    MaxVersion,  \* bound: each security version
    MaxFaults,   \* bound: faults
    None

ASSUME SizesAssumption ==
    /\ BatchSize \in Nat \ {0}
    /\ MaxVersion \in Nat \ {0}
    /\ MaxFaults \in Nat
    /\ None \notin Workers

VARIABLES
    user,    \* users: the security versions, and whether the row was deleted
    row,     \* security_revocation_outbox
    creds,   \* Redis: the credentials of each user
    login,   \* credentials computed by a request and not stored yet
    work,    \* dispatchers
    faults

vars == <<user, row, creds, login, work, faults>>

Kinds == {"session", "family"}

Generation == [auth : Nat, sess : Nat, deleted : BOOLEAN]

(* A stored session or family carries the versions its request has read.   *)
(* late is history: a newer generation was committed before it was stored. *)
Credential == [kind : Kinds, auth : Nat, sess : Nat, late : BOOLEAN]

(* Revision 0 says that there is no row. *)
Row == [rev : Nat, auth : Nat, sess : Nat, deleted : BOOLEAN,
        by : Workers \cup {None}, expired : BOOLEAN, due : BOOLEAN]

NoRow == [rev |-> 0, auth |-> 0, sess |-> 0, deleted |-> FALSE,
          by |-> None, expired |-> FALSE, due |-> FALSE]

Task == [user : Users, rev : Nat, auth : Nat, sess : Nat, deleted : BOOLEAN]

(* A dispatcher: the rest of its batch, the task in hand, whether all      *)
(* clean-up of that task succeeded so far.                                 *)
Worker == [pc : {"next", "sessions", "families", "complete", "retry", "release"},
           todo : SUBSET Task, task : Task \cup {None}, ok : BOOLEAN]

IdleWorker == [pc |-> "next", todo |-> {}, task |-> None, ok |-> TRUE]

-----------------------------------------------------------------------------
(* The credential was issued before generation g: a deleted user has no    *)
(* valid one, and families know no session version.                        *)
Before(c, g) ==
    \/ g.deleted
    \/ c.auth < g.auth
    \/ c.kind = "session" /\ c.sess < g.sess

(* Mutant of Clean: everything of the user goes, as for a deleted one. *)
CleanAll(C, kind, g) == {c \in C : c.kind # kind}

(* The clean-up scripts: sessions, or families, before a generation go. *)
Clean(C, kind, g) == {c \in C : ~(c.kind = kind /\ Before(c, g))}

Greatest(a, b) == IF a < b THEN b ELSE a

(* Mutant of Enqueue: an upsert that keeps the revision of a leased row. *)
EnqueueSameRevision(R, g) ==
    IF R.rev = 0
    THEN [rev |-> 1, auth |-> g.auth, sess |-> g.sess, deleted |-> g.deleted,
          by |-> None, expired |-> FALSE, due |-> TRUE]
    ELSE [R EXCEPT !.auth = Greatest(@, g.auth), !.sess = Greatest(@, g.sess),
                   !.deleted = @ \/ g.deleted, !.due = TRUE]

(* nyauth_enqueue_security_revocation: one row per user; a row that exists *)
(* gets a new revision and is due at once, and keeps its lease.            *)
Enqueue(R, g) ==
    IF R.rev = 0
    THEN [rev |-> 1, auth |-> g.auth, sess |-> g.sess, deleted |-> g.deleted,
          by |-> None, expired |-> FALSE, due |-> TRUE]
    ELSE [R EXCEPT !.rev = @ + 1,
                   !.auth = Greatest(@, g.auth), !.sess = Greatest(@, g.sess),
                   !.deleted = @ \/ g.deleted, !.due = TRUE]

(* The lease of w on the row is given up, the row is due at once. *)
ReleaseRow(R, w) ==
    IF R.by = w THEN [R EXCEPT !.by = None, !.expired = FALSE, !.due = TRUE] ELSE R

(* The row is still the task that w has leased. *)
Holds(R, t, w) == R.rev = t.rev /\ R.rev > 0 /\ R.by = w

TaskOf(u) == [user |-> u, rev |-> row[u].rev, auth |-> row[u].auth,
              sess |-> row[u].sess, deleted |-> row[u].deleted]

Fault == faults < MaxFaults /\ faults' = faults + 1

NoFault == UNCHANGED faults

-----------------------------------------------------------------------------
Init ==
    /\ user = [u \in Users |-> [auth |-> 1, sess |-> 1, deleted |-> FALSE]]
    /\ row = [u \in Users |-> NoRow]
    /\ creds = [u \in Users |-> {}]
    /\ login = [r \in Logins |-> None]
    /\ work = [w \in Workers |-> IdleWorker]
    /\ faults = 0

(* A login, a token request: the user is read, with his versions. *)
ReadUser(r, u, kind) ==
    /\ login[r] = None
    /\ ~user[u].deleted
    /\ login' = [login EXCEPT ![r] =
                    [user |-> u, kind |-> kind, auth |-> user[u].auth,
                     sess |-> IF kind = "session" THEN user[u].sess ELSE 1]]
    /\ UNCHANGED <<user, row, creds, work, faults>>

(* Later the credential is stored, whatever has happened in between. *)
StoreCredential(r) ==
    /\ login[r] # None
    /\ LET u == login[r].user
           c == [kind |-> login[r].kind, auth |-> login[r].auth, sess |-> login[r].sess,
                 late |-> Before(login[r], user[u])]
       IN  creds' = [creds EXCEPT ![u] = @ \cup {c}]
    /\ login' = [login EXCEPT ![r] = None]
    /\ UNCHANGED <<user, row, work, faults>>

(* A password, role, status, e-mail or MFA change advances auth_version. *)
AdvanceAuthVersion(u) ==
    /\ ~user[u].deleted /\ user[u].auth < MaxVersion
    /\ user' = [user EXCEPT ![u].auth = @ + 1]
    /\ row' = [row EXCEPT ![u] = Enqueue(@, user'[u])]
    /\ UNCHANGED <<creds, login, work, faults>>

(* RevokeSessions advances session_version. *)
RevokeSessions(u) ==
    /\ ~user[u].deleted /\ user[u].sess < MaxVersion
    /\ user' = [user EXCEPT ![u].sess = @ + 1]
    /\ row' = [row EXCEPT ![u] = Enqueue(@, user'[u])]
    /\ UNCHANGED <<creds, login, work, faults>>

DeleteUser(u) ==
    /\ ~user[u].deleted
    /\ user' = [user EXCEPT ![u].deleted = TRUE]
    /\ row' = [row EXCEPT ![u] = Enqueue(@, user'[u])]
    /\ UNCHANGED <<creds, login, work, faults>>

(* The handler that made the change cleans up too, once and with versions  *)
(* that it has read some time before (revokeUserSecurityState).            *)
CleanInHandler(u, kind, a, s) ==
    /\ creds' = [creds EXCEPT ![u] = Clean(@, kind, [auth |-> a, sess |-> s, deleted |-> FALSE])]
    /\ UNCHANGED <<user, row, login, work, faults>>

-----------------------------------------------------------------------------
(* Mutant of Candidates: a lease never expires. *)
CandidatesUnleased == {u \in Users : row[u].rev > 0 /\ row[u].due /\ row[u].by = None}

(* Rows are leased: due ones that nobody has, or had for too long.  Rows   *)
(* that another transaction has locked are skipped, hence any subset.      *)
Candidates == {u \in Users : row[u].rev > 0 /\ row[u].due
                             /\ (row[u].by = None \/ row[u].expired)}

LeaseRows(w, S) ==
    /\ work[w].pc = "next" /\ work[w].todo = {}
    /\ S \subseteq Candidates /\ S # {} /\ Cardinality(S) <= BatchSize
    /\ row' = [u \in Users |-> IF u \in S
                               THEN [row[u] EXCEPT !.by = w, !.expired = FALSE]
                               ELSE row[u]]

Claim(w, S) ==
    /\ LeaseRows(w, S)
    /\ work' = [work EXCEPT ![w].todo = {TaskOf(u) : u \in S}]
    /\ NoFault
    /\ UNCHANGED <<user, creds, login>>

(* The rows were leased, and the answer was lost. *)
ClaimAnswerLost(w, S) ==
    /\ LeaseRows(w, S)
    /\ Fault
    /\ UNCHANGED <<user, creds, login, work>>

StartTask(w, t) ==
    /\ work[w].pc = "next"
    /\ t \in work[w].todo
    /\ work' = [work EXCEPT ![w].pc = "sessions", ![w].task = t,
                            ![w].todo = @ \ {t}, ![w].ok = TRUE]
    /\ UNCHANGED <<user, row, creds, login, faults>>

(* clean, first half: the sessions.  An error does not stop the second. *)
CleanSessions(w, done, answered) ==
    LET t == work[w].task
    IN  /\ work[w].pc = "sessions"
        /\ answered => done
        /\ creds' = IF done THEN [creds EXCEPT ![t.user] = Clean(@, "session", t)] ELSE creds
        /\ work' = [work EXCEPT ![w].pc = "families", ![w].ok = answered]
        /\ IF answered THEN NoFault ELSE Fault
        /\ UNCHANGED <<user, row, login>>

(* clean, second half: the families; the errors of both are joined. *)
CleanFamilies(w, done, answered) ==
    LET t == work[w].task
    IN  /\ work[w].pc = "families"
        /\ answered => done
        /\ creds' = IF done THEN [creds EXCEPT ![t.user] = Clean(@, "family", t)] ELSE creds
        /\ work' = [work EXCEPT ![w].pc = IF work[w].ok /\ answered THEN "complete" ELSE "retry",
                                ![w].ok = work[w].ok /\ answered]
        /\ IF answered THEN NoFault ELSE Fault
        /\ UNCHANGED <<user, row, login>>

NextTask(w) ==
    work' = [work EXCEPT ![w].pc = "next", ![w].task = None, ![w].ok = TRUE]

(* The transaction of Complete: exactly the processed revision is deleted, *)
(* a newer one loses the lease.                                            *)
CompleteRow(R, t, w) == IF Holds(R, t, w) THEN NoRow ELSE ReleaseRow(R, w)

Complete(w) ==
    LET t == work[w].task
    IN  /\ work[w].pc = "complete"
        /\ row' = [row EXCEPT ![t.user] = CompleteRow(@, t, w)]
        /\ NextTask(w)
        /\ NoFault
        /\ UNCHANGED <<user, creds, login>>

(* Complete returned an error; the transaction may have been committed. *)
CompleteFails(w, committed) ==
    LET t == work[w].task
    IN  /\ work[w].pc = "complete"
        /\ row' = IF committed THEN [row EXCEPT ![t.user] = CompleteRow(@, t, w)] ELSE row
        /\ work' = [work EXCEPT ![w].pc = "retry", ![w].ok = FALSE]
        /\ Fault
        /\ UNCHANGED <<user, creds, login>>

(* Retry, first statement: the same revision waits for its back-off. *)
Retry(w) ==
    LET t == work[w].task
    IN  /\ work[w].pc = "retry"
        /\ IF Holds(row[t.user], t, w)
           THEN /\ row' = [row EXCEPT ![t.user].by = None, ![t.user].expired = FALSE,
                                      ![t.user].due = FALSE]
                /\ NextTask(w)
           ELSE /\ work' = [work EXCEPT ![w].pc = "release", ![w].ok = FALSE]
                /\ UNCHANGED row
        /\ NoFault
        /\ UNCHANGED <<user, creds, login>>

(* Retry, second statement: a newer revision does not wait. *)
Release(w) ==
    LET u == work[w].task.user
    IN  /\ work[w].pc = "release"
        /\ row' = [row EXCEPT ![u] = ReleaseRow(@, w)]
        /\ NextTask(w)
        /\ NoFault
        /\ UNCHANGED <<user, creds, login>>

(* A statement of Retry failed: the lease stays until it expires. *)
RetryFails(w) ==
    /\ work[w].pc \in {"retry", "release"}
    /\ NextTask(w)
    /\ Fault
    /\ UNCHANGED <<user, row, creds, login>>

(* The instance stops; its leases stay. *)
Crash(w) ==
    /\ work[w] # IdleWorker
    /\ work' = [work EXCEPT ![w] = IdleWorker]
    /\ Fault
    /\ UNCHANGED <<user, row, creds, login>>

AtWork(w, u) ==
    \/ \E t \in work[w].todo : t.user = u
    \/ work[w].pc # "next" /\ work[w].task.user = u

(* A lease runs out; when its holder is still at work, that is a fault. *)
LeaseExpires(u) ==
    /\ row[u].by # None /\ ~row[u].expired
    /\ row' = [row EXCEPT ![u].expired = TRUE]
    /\ IF \E w \in Workers : w = row[u].by /\ AtWork(w, u) THEN Fault ELSE NoFault
    /\ UNCHANGED <<user, creds, login, work>>

(* retryDelay has passed. *)
BackoffEnds(u) ==
    /\ row[u].rev > 0 /\ ~row[u].due
    /\ row' = [row EXCEPT ![u].due = TRUE]
    /\ UNCHANGED <<user, creds, login, work, faults>>

-----------------------------------------------------------------------------
ChangeUser(u) == AdvanceAuthVersion(u) \/ RevokeSessions(u) \/ DeleteUser(u)

CleanTask(w) ==
    \E done, answered \in BOOLEAN :
        CleanSessions(w, done, answered) \/ CleanFamilies(w, done, answered)

(* What a dispatcher does by itself. *)
Dispatch(w) ==
    \/ \E t \in work[w].todo : StartTask(w, t)
    \/ CleanTask(w)
    \/ Complete(w)
    \/ \E committed \in BOOLEAN : CompleteFails(w, committed)
    \/ Retry(w)
    \/ Release(w)
    \/ RetryFails(w)

Next ==
    \/ \E r \in Logins, u \in Users, kind \in Kinds : ReadUser(r, u, kind)
    \/ \E r \in Logins : StoreCredential(r)
    \/ \E u \in Users : ChangeUser(u) \/ LeaseExpires(u) \/ BackoffEnds(u)
    \/ \E u \in Users, kind \in Kinds :
          \E a \in 1 .. user[u].auth, s \in 1 .. user[u].sess : CleanInHandler(u, kind, a, s)
    \/ \E w \in Workers, S \in SUBSET Users : Claim(w, S) \/ ClaimAnswerLost(w, S)
    \/ \E w \in Workers : Dispatch(w) \/ Crash(w)

Spec == Init /\ [][Next]_vars

(* The dispatchers run (Run polls for ever), time passes, and a row that   *)
(* stays claimable is claimed: the oldest due rows come first.             *)
Fairness ==
    /\ \A w \in Workers : WF_vars(Dispatch(w))
    /\ \A u \in Users :
          /\ WF_vars(LeaseExpires(u))
          /\ WF_vars(BackoffEnds(u))
          /\ WF_vars(\E w \in Workers, S \in SUBSET Users : u \in S /\ Claim(w, S))

FairSpec == Spec /\ Fairness

-----------------------------------------------------------------------------
LoginRecord == [user : Users, kind : Kinds, auth : Nat, sess : Nat]

(* Every variable has its type, and the rows satisfy the constraints of    *)
(* the table: a row without a holder has no time of locking.               *)
TypeOK ==
    /\ user \in [Users -> Generation]
    /\ row \in [Users -> Row]
    /\ \A u \in Users : row[u].by = None => ~row[u].expired
    /\ creds \in [Users -> SUBSET Credential]
    /\ login \in [Logins -> LoginRecord \cup {None}]
    /\ work \in [Workers -> Worker]
    /\ faults \in 0 .. MaxFaults

(* The credentials that generation g has revoked and that Redis still has, *)
(* other than those stored too late.                                       *)
RevokedIn(C, g) == {c \in C : ~c.late /\ Before(c, g)}

Revoked(u) == RevokedIn(creds[u], user[u])

(* A row or a task carries generation g. *)
Carries(R, g) == R.auth = g.auth /\ R.sess = g.sess /\ R.deleted = g.deleted

(* As long as Redis has a revoked credential, the outbox has a row for its *)
(* user that carries the user's newest generation: whatever fails, and     *)
(* however dispatchers overtake each other, no revocation is forgotten.    *)
RevocationIsScheduled ==
    \A u \in Users : Revoked(u) # {} => row[u].rev > 0 /\ Carries(row[u], user[u])

(* No clean-up, however stale its task, removes a credential of the newest *)
(* generation: "sessions created concurrently at the committed generation  *)
(* are preserved".                                                         *)
CurrentCredentialsKept ==
    [][\A u \in Users : \A c \in creds[u] \ creds'[u] : Before(c, user[u])]_vars

(* Once faults have ceased, revoked credentials disappear from Redis. *)
RevocationHappens ==
    \A u \in Users : Revoked(u) # {} ~> Revoked(u) = {}

-----------------------------------------------------------------------------
(* The inductive strengthening of RevocationIsScheduled.  A row always     *)
(* carries the newest generation of its user. *)
UserOK(R, C, g) ==
    /\ R.rev > 0 => Carries(R, g)
    /\ RevokedIn(C, g) # {} => R.rev > 0
    /\ R.by # None => R.rev > 0

NotAhead(t, g) == t.auth <= g.auth /\ t.sess <= g.sess /\ (t.deleted => g.deleted)

(* A task is never ahead of its user; as long as its worker has the lease, *)
(* the row is the same revision with the same generation, or a newer one.  *)
TaskOK(t, w, R, g) ==
    /\ t.rev > 0
    /\ NotAhead(t, g)
    /\ R.by = w => t.rev <= R.rev /\ (t.rev = R.rev => Carries(t, R))

(* What the worker has cleaned stays clean until the row changes hands or  *)
(* gets a new revision.                                                    *)
WorkerOK(W, w, rows, cr, us) ==
    /\ \A t \in W.todo : TaskOK(t, w, rows[t.user], us[t.user])
    /\ W.pc # "next" => W.task \in Task /\ TaskOK(W.task, w, rows[W.task.user], us[W.task.user])
    /\ W.pc = "families" /\ W.ok /\ Holds(rows[W.task.user], W.task, w) =>
          \A c \in RevokedIn(cr[W.task.user], us[W.task.user]) : c.kind # "session"
    /\ W.pc = "complete" /\ Holds(rows[W.task.user], W.task, w) =>
          RevokedIn(cr[W.task.user], us[W.task.user]) = {}

RevocationInv ==
    /\ TypeOK
    /\ \A u \in Users : UserOK(row[u], creds[u], user[u])
    /\ \A w \in Workers : WorkerOK(work[w], w, row, creds, user)
=============================================================================
