---------------------- MODULE SecurityRevocationProof ----------------------
(***************************************************************************)
(* RevocationInv is an invariant of SecurityRevocation, for every set of   *)
(* users, dispatchers and requests and every bound.  It implies that no    *)
(* revocation is forgotten, and that no clean-up goes too far.             *)
(***************************************************************************)
EXTENDS SecurityRevocation, TLAPS

-----------------------------------------------------------------------------
(* Facts about rows and sets of credentials. *)

(* The trigger leaves a row that carries the new generation, with a new    *)
(* revision and the old lease.                                             *)
LEMMA EnqueueRow ==
    ASSUME NEW R \in Row, NEW old \in Generation, NEW g \in Generation,
           NotAhead(old, g), R.rev > 0 => Carries(R, old)
    PROVE  /\ Enqueue(R, g) \in Row
           /\ Enqueue(R, g).rev = R.rev + 1
           /\ Carries(Enqueue(R, g), g)
           /\ Enqueue(R, g).by # None => Enqueue(R, g).by = R.by
           /\ (R.by = None => ~R.expired) =>
                 (Enqueue(R, g).by = None => ~Enqueue(R, g).expired)
<1>1. CASE R.rev = 0
  BY <1>1 DEF Enqueue, Row, Generation, Carries
<1>2. CASE R.rev > 0
  <2> DEFINE A == Greatest(R.auth, g.auth)
             S == Greatest(R.sess, g.sess)
             D == (R.deleted \/ g.deleted)
  <2>1. A = g.auth /\ S = g.sess
    BY <1>2 DEF Greatest, Row, Generation, Carries, NotAhead
  <2>2. (R.deleted \/ g.deleted) = g.deleted
    BY <1>2 DEF Row, Generation, Carries, NotAhead
  <2> DEFINE E == [R EXCEPT !.rev = R.rev + 1, !.auth = A, !.sess = S,
                            !.deleted = D, !.due = TRUE]
  <2>3. Enqueue(R, g) = E
    BY <1>2 DEF Enqueue, Row
  <2>4. D \in BOOLEAN
    OBVIOUS
  <2>5. /\ E.rev = R.rev + 1 /\ E.by = R.by /\ E.expired = R.expired
        /\ E.auth = A /\ E.sess = S /\ E.deleted = D
    BY DEF Row
  <2>6. A \in Nat /\ S \in Nat
    BY <2>1 DEF Generation
  <2>7. E \in Row
    <3>1. ASSUME NEW n \in Nat, NEW a \in Nat, NEW b \in Nat, NEW d \in BOOLEAN
          PROVE  [R EXCEPT !.rev = n, !.auth = a, !.sess = b, !.deleted = d, !.due = TRUE] \in Row
      BY DEF Row
    <3>2. R.rev + 1 \in Nat
      BY DEF Row
    <3> HIDE DEF A, S, D
    <3> QED
      BY <2>4, <2>6, <3>1, <3>2
  <2>8. Carries(E, g)
    BY <2>1, <2>2, <2>5 DEF Carries
  <2> HIDE DEF E
  <2> QED
    BY <2>3, <2>5, <2>7, <2>8
<1> QED
  BY <1>1, <1>2 DEF Row

(* Giving up a lease changes neither revision nor generation. *)
LEMMA ReleaseRowFacts ==
    ASSUME NEW R \in Row, NEW w \in Workers, R.by = None => ~R.expired
    PROVE  /\ ReleaseRow(R, w) \in Row
           /\ ReleaseRow(R, w).rev = R.rev
           /\ Carries(ReleaseRow(R, w), R)
           /\ ReleaseRow(R, w).by # w
           /\ ReleaseRow(R, w).by # None => ReleaseRow(R, w).by = R.by
           /\ ReleaseRow(R, w).by = None => ~ReleaseRow(R, w).expired
BY SizesAssumption DEF ReleaseRow, Row, Carries

(* Complete deletes the row of the task, or gives up the lease on it. *)
LEMMA CompleteRowFacts ==
    ASSUME NEW R \in Row, NEW w \in Workers, NEW t \in Task, R.by = None => ~R.expired
    PROVE  /\ CompleteRow(R, t, w) \in Row
           /\ CompleteRow(R, t, w).by # w
           /\ CompleteRow(R, t, w).by # None => CompleteRow(R, t, w) = R
           /\ CompleteRow(R, t, w).by = None => ~CompleteRow(R, t, w).expired
           /\ CompleteRow(R, t, w).rev > 0 => /\ CompleteRow(R, t, w).rev = R.rev
                                              /\ Carries(CompleteRow(R, t, w), R)
           /\ CompleteRow(R, t, w).rev = 0 => R.rev = 0 \/ Holds(R, t, w)
<1>1. NoRow \in Row /\ NoRow.by = None /\ ~NoRow.expired /\ NoRow.rev = 0
  BY DEF NoRow, Row
<1>2. ReleaseRow(R, w).by # None => ReleaseRow(R, w) = R
  BY DEF ReleaseRow, Row
<1>3. CASE Holds(R, t, w)
  BY <1>1, <1>3, SizesAssumption DEF CompleteRow
<1>4. CASE ~Holds(R, t, w)
  <2>1. CompleteRow(R, t, w) = ReleaseRow(R, w)
    BY <1>4 DEF CompleteRow
  <2> QED
    BY <1>2, <2>1, ReleaseRowFacts
<1> QED
  BY <1>3, <1>4

(* A clean-up takes credentials away, adds none. *)
LEMMA CleanShrinks ==
    ASSUME NEW C, NEW kind, NEW g, NEW h
    PROVE  Clean(C, kind, g) \subseteq C /\ RevokedIn(Clean(C, kind, g), h) \subseteq RevokedIn(C, h)
BY DEF Clean, RevokedIn

(* A clean-up at the user's generation leaves nothing revoked of its kind. *)
LEMMA CleanClears ==
    ASSUME NEW C, NEW kind, NEW t, NEW g, Carries(t, g)
    PROVE  \A c \in RevokedIn(Clean(C, kind, t), g) : c.kind # kind
BY DEF Clean, RevokedIn, Before, Carries

(* What a clean-up for an older generation takes is older than the newest. *)
LEMMA CleanSpares ==
    ASSUME NEW C \in SUBSET Credential, NEW kind, NEW t, NEW g \in Generation,
           t.auth \in Nat, t.sess \in Nat, NotAhead(t, g)
    PROVE  \A c \in C \ Clean(C, kind, t) : Before(c, g)
BY DEF Clean, Before, NotAhead, Credential, Generation

(* A worker's facts survive a step of somebody else: rows it has leased    *)
(* keep their revision and generation or get a newer one, users advance,   *)
(* and no credential becomes revoked under an unchanged row.               *)
LEMMA WorkerStep ==
    ASSUME NEW W \in Worker, NEW w \in Workers,
           NEW rows \in [Users -> Row], NEW rows2 \in [Users -> Row],
           NEW us \in [Users -> Generation], NEW us2 \in [Users -> Generation],
           NEW cr, NEW cr2,
           WorkerOK(W, w, rows, cr, us),
           \A u \in Users : NotAhead(us[u], us2[u]),
           \A u \in Users : rows2[u].by = w =>
               /\ rows[u].by = w
               /\ rows2[u].rev >= rows[u].rev
               /\ rows2[u].rev = rows[u].rev =>
                     /\ Carries(rows[u], rows2[u])
                     /\ us2[u] = us[u]
                     /\ RevokedIn(cr2[u], us2[u]) \subseteq RevokedIn(cr[u], us[u])
    PROVE  WorkerOK(W, w, rows2, cr2, us2)
<1>1. ASSUME NEW t \in Task, TaskOK(t, w, rows[t.user], us[t.user])
      PROVE  TaskOK(t, w, rows2[t.user], us2[t.user])
  <2> DEFINE u == t.user
  <2>1. /\ u \in Users /\ t.rev \in Nat /\ t.auth \in Nat /\ t.sess \in Nat
        /\ rows[u].rev \in Nat /\ rows2[u].rev \in Nat
        /\ us[u] \in Generation /\ us2[u] \in Generation
    BY DEF Task, Row
  <2>2. NotAhead(t, us2[u])
    BY <1>1, <2>1 DEF TaskOK, NotAhead, Generation
  <2>3. ASSUME rows2[u].by = w
        PROVE  t.rev <= rows2[u].rev /\ (t.rev = rows2[u].rev => Carries(t, rows2[u]))
    <3>1. /\ rows[u].by = w
          /\ rows2[u].rev >= rows[u].rev
          /\ rows2[u].rev = rows[u].rev => Carries(rows[u], rows2[u])
      BY <2>1, <2>3
    <3>2. t.rev <= rows[u].rev /\ (t.rev = rows[u].rev => Carries(t, rows[u]))
      BY <1>1, <3>1 DEF TaskOK
    <3>3. t.rev <= rows2[u].rev /\ (t.rev = rows2[u].rev => t.rev = rows[u].rev /\ rows2[u].rev = rows[u].rev)
      BY <2>1, <3>1, <3>2
    <3> QED
      BY <3>1, <3>2, <3>3 DEF Carries
  <2> QED
    BY <1>1, <2>2, <2>3 DEF TaskOK
<1>2. \A t \in W.todo : t \in Task
  BY DEF Worker
<1>3. \A t \in W.todo : TaskOK(t, w, rows2[t.user], us2[t.user])
  BY <1>1, <1>2 DEF WorkerOK
<1>4. W.pc # "next" => W.task \in Task /\ TaskOK(W.task, w, rows2[W.task.user], us2[W.task.user])
  BY <1>1 DEF WorkerOK
<1> DEFINE v == W.task.user
<1>5. ASSUME W.pc # "next", Holds(rows2[v], W.task, w)
      PROVE  /\ Holds(rows[v], W.task, w)
             /\ us2[v] = us[v]
             /\ RevokedIn(cr2[v], us2[v]) \subseteq RevokedIn(cr[v], us[v])
  <2>1. W.task \in Task /\ v \in Users
    BY <1>5 DEF WorkerOK, Task
  <2>2. rows[v].by = w /\ rows2[v].rev >= rows[v].rev
    BY <1>5, <2>1 DEF Holds
  <2>3. W.task.rev <= rows[v].rev
    BY <1>5, <2>2 DEF WorkerOK, TaskOK
  <2>4. rows2[v].rev = rows[v].rev
    BY <1>5, <2>1, <2>2, <2>3 DEF Holds, Row, Task
  <2> QED
    BY <1>5, <2>1, <2>2, <2>4 DEF Holds
<1>6. W.pc = "families" /\ W.ok /\ Holds(rows2[v], W.task, w) =>
          \A c \in RevokedIn(cr2[v], us2[v]) : c.kind # "session"
  BY <1>5 DEF WorkerOK
<1>7. W.pc = "complete" /\ Holds(rows2[v], W.task, w) => RevokedIn(cr2[v], us2[v]) = {}
  <2>1. SUFFICES ASSUME W.pc = "complete", Holds(rows2[v], W.task, w)
                 PROVE  RevokedIn(cr2[v], us2[v]) = {}
    OBVIOUS
  <2>2. Holds(rows[v], W.task, w) /\ RevokedIn(cr2[v], us2[v]) \subseteq RevokedIn(cr[v], us[v])
    BY <1>5, <2>1
  <2>3. RevokedIn(cr[v], us[v]) = {}
    BY <2>1, <2>2 DEF WorkerOK
  <2> QED
    BY <2>2, <2>3
<1> QED
  BY <1>3, <1>4, <1>6, <1>7 DEF WorkerOK

(* A worker that is done with its task keeps the rest of its batch. *)
LEMMA NextTaskOK ==
    ASSUME NEW W \in Worker, NEW w \in Workers, NEW rows, NEW cr, NEW us,
           WorkerOK(W, w, rows, cr, us)
    PROVE  /\ [W EXCEPT !.pc = "next", !.task = None, !.ok = TRUE] \in Worker
           /\ WorkerOK([W EXCEPT !.pc = "next", !.task = None, !.ok = TRUE], w, rows, cr, us)
BY DEF Worker, WorkerOK

(* A worker that failed claims nothing about what it has cleaned. *)
LEMMA FailedTaskOK ==
    ASSUME NEW W \in Worker, NEW w \in Workers, NEW rows, NEW cr, NEW us,
           WorkerOK(W, w, rows, cr, us), W.pc # "next",
           NEW p \in {"retry", "release"}
    PROVE  /\ [W EXCEPT !.pc = p, !.ok = FALSE] \in Worker
           /\ WorkerOK([W EXCEPT !.pc = p, !.ok = FALSE], w, rows, cr, us)
BY DEF Worker, WorkerOK

(* The worker's task, when it holds the row, carries the user's generation. *)
LEMMA HeldTask ==
    ASSUME NEW W \in Worker, NEW w \in Workers, NEW rows, NEW cr, NEW us, NEW C,
           WorkerOK(W, w, rows, cr, us), W.pc # "next",
           UserOK(rows[W.task.user], C, us[W.task.user]),
           Holds(rows[W.task.user], W.task, w)
    PROVE  Carries(W.task, us[W.task.user])
BY DEF WorkerOK, TaskOK, Holds, UserOK, Carries

(* The facts about one user survive a clean-up, and a stored credential. *)
LEMMA UserKeeps ==
    ASSUME NEW R, NEW C, NEW D, NEW g, UserOK(R, C, g),
           RevokedIn(D, g) \subseteq RevokedIn(C, g)
    PROVE  UserOK(R, D, g)
BY DEF UserOK

-----------------------------------------------------------------------------
LEMMA InitInv == Init => RevocationInv
<1> SUFFICES ASSUME Init PROVE RevocationInv
  OBVIOUS
<1>1. IdleWorker \in Worker
  BY DEF IdleWorker, Worker
<1>2. NoRow \in Row /\ NoRow.by = None /\ ~NoRow.expired /\ NoRow.rev = 0
  BY DEF NoRow, Row
<1>3. TypeOK
  BY <1>1, <1>2, SizesAssumption DEF Init, TypeOK, Generation
<1>4. \A u \in Users : UserOK(row[u], creds[u], user[u])
  BY <1>2 DEF Init, UserOK, RevokedIn
<1>5. \A w \in Workers : WorkerOK(work[w], w, row, creds, user)
  BY DEF Init, IdleWorker, WorkerOK
<1> QED
  BY <1>3, <1>4, <1>5 DEF RevocationInv

(* Steps that only touch the credentials of one user. *)
LEMMA CredentialStep ==
    ASSUME RevocationInv, NEW u \in Users, NEW C \in SUBSET Credential,
           RevokedIn(C, user[u]) \subseteq RevokedIn(creds[u], user[u]),
           creds' = [creds EXCEPT ![u] = C],
           UNCHANGED <<user, row>>,
           NEW x \in Workers
    PROVE  /\ creds' \in [Users -> SUBSET Credential]
           /\ \A v \in Users : UserOK(row'[v], creds'[v], user'[v])
           /\ WorkerOK(work[x], x, row', creds', user')
<1>1. TypeOK
  BY DEF RevocationInv
<1>2. \A v \in Users : RevokedIn(creds'[v], user[v]) \subseteq RevokedIn(creds[v], user[v])
  BY <1>1 DEF TypeOK
<1>3. \A v \in Users : UserOK(row'[v], creds'[v], user'[v])
  BY <1>2, UserKeeps DEF RevocationInv
<1>4. \A v \in Users : NotAhead(user[v], user'[v]) /\ Carries(row[v], row'[v])
  BY <1>1 DEF TypeOK, NotAhead, Carries, Generation
<1>5. WorkerOK(work[x], x, row', creds', user')
  <2>1. /\ work[x] \in Worker /\ row \in [Users -> Row] /\ user \in [Users -> Generation]
        /\ row' \in [Users -> Row] /\ user' \in [Users -> Generation]
        /\ WorkerOK(work[x], x, row, creds, user)
    BY <1>1 DEF TypeOK, RevocationInv
  <2>2. \A v \in Users : row'[v].rev >= row[v].rev
    BY <2>1 DEF Row
  <2> QED
    BY <1>2, <1>4, <2>1, <2>2, WorkerStep
<1> QED
  BY <1>1, <1>3, <1>5 DEF TypeOK

(* Steps that change the user and run the trigger. *)
LEMMA ChangeStep ==
    ASSUME RevocationInv, NEW u \in Users, NEW g \in Generation,
           NotAhead(user[u], g),
           user' = [user EXCEPT ![u] = g],
           row' = [row EXCEPT ![u] = Enqueue(row[u], g)],
           UNCHANGED <<creds, login, work, faults>>
    PROVE  RevocationInv'
<1>1. TypeOK
  BY DEF RevocationInv
<1>2. UserOK(row[u], creds[u], user[u])
  BY DEF RevocationInv
<1> DEFINE E == Enqueue(row[u], g)
<1>3. /\ E \in Row /\ E.rev = row[u].rev + 1 /\ Carries(E, g)
      /\ E.by # None => E.by = row[u].by
      /\ E.by = None => ~E.expired
  BY <1>1, <1>2, EnqueueRow DEF TypeOK, UserOK
<1>4. row'[u] = E /\ user'[u] = g /\ E.rev > row[u].rev /\ E.rev > 0
  BY <1>1, <1>3 DEF TypeOK, Row
<1> HIDE DEF E
<1>5. TypeOK'
  BY <1>1, <1>3, <1>4 DEF TypeOK, E
<1>6. ASSUME NEW v \in Users PROVE UserOK(row'[v], creds'[v], user'[v])
  <2>1. CASE v = u
    BY <1>3, <1>4, <2>1 DEF UserOK
  <2>2. CASE v # u
    BY <1>1, <2>2 DEF RevocationInv, TypeOK
  <2> QED
    BY <2>1, <2>2
<1>7. ASSUME NEW x \in Workers PROVE WorkerOK(work'[x], x, row', creds', user')
  <2>1. \A v \in Users : NotAhead(user[v], user'[v])
    BY <1>1 DEF TypeOK, NotAhead, Generation
  <2>2. ASSUME NEW v \in Users, row'[v].by = x
        PROVE  /\ row[v].by = x
               /\ row'[v].rev >= row[v].rev
               /\ row'[v].rev = row[v].rev =>
                     /\ Carries(row[v], row'[v])
                     /\ user'[v] = user[v]
                     /\ RevokedIn(creds'[v], user'[v]) \subseteq RevokedIn(creds[v], user[v])
    <3>1. CASE v = u
      <4>1. row[v].by = x
        BY <1>3, <1>4, <2>2, <3>1, SizesAssumption
      <4>2. row'[v].rev >= row[v].rev /\ row'[v].rev # row[v].rev
        BY <1>1, <1>3, <1>4, <3>1 DEF TypeOK, Row
      <4> QED
        BY <4>1, <4>2
    <3>2. CASE v # u
      <4>1. row'[v] = row[v] /\ user'[v] = user[v] /\ row[v].rev \in Nat
        BY <1>1, <3>2 DEF TypeOK, Row
      <4> QED
        BY <2>2, <4>1 DEF Carries
    <3> QED
      BY <3>1, <3>2
  <2>3. /\ work[x] \in Worker /\ row \in [Users -> Row] /\ user \in [Users -> Generation]
        /\ row' \in [Users -> Row] /\ user' \in [Users -> Generation]
        /\ WorkerOK(work[x], x, row, creds, user) /\ work'[x] = work[x]
    BY <1>1, <1>5 DEF TypeOK, RevocationInv
  <2> QED
    BY <2>1, <2>2, <2>3, WorkerStep
<1> QED
  BY <1>5, <1>6, <1>7 DEF RevocationInv

(* Steps that touch rows: a worker keeps its facts when the rows it still  *)
(* has leased are the same revision as before.                             *)
LEMMA RowStep ==
    ASSUME RevocationInv, row' \in [Users -> Row], UNCHANGED <<user, creds>>,
           NEW x \in Workers,
           \A v \in Users : row'[v].by = x =>
               row[v].by = x /\ row'[v].rev = row[v].rev /\ Carries(row[v], row'[v])
    PROVE  WorkerOK(work[x], x, row', creds', user')
<1>1. /\ work[x] \in Worker /\ row \in [Users -> Row] /\ user \in [Users -> Generation]
      /\ user' \in [Users -> Generation]
      /\ WorkerOK(work[x], x, row, creds, user)
  BY DEF RevocationInv, TypeOK
<1>2. \A v \in Users : NotAhead(user[v], user'[v])
  BY <1>1 DEF NotAhead, Generation
<1>3. \A v \in Users : row[v].rev \in Nat /\ row'[v].rev \in Nat
  BY <1>1 DEF Row
<1>4. \A v \in Users : row'[v].by = x =>
          /\ row[v].by = x
          /\ row'[v].rev >= row[v].rev
          /\ row'[v].rev = row[v].rev =>
                /\ Carries(row[v], row'[v])
                /\ user'[v] = user[v]
                /\ RevokedIn(creds'[v], user'[v]) \subseteq RevokedIn(creds[v], user[v])
  BY <1>3
<1> QED
  BY <1>1, <1>2, <1>4, WorkerStep

(* Rows are leased by w: the tasks are what the rows say. *)
LEMMA LeaseStep ==
    ASSUME RevocationInv, NEW w \in Workers, NEW S \in SUBSET Users, LeaseRows(w, S),
           UNCHANGED <<user, creds>>
    PROVE  /\ row' \in [Users -> Row]
           /\ \A v \in Users : row'[v].by = None => ~row'[v].expired
           /\ \A v \in Users : UserOK(row'[v], creds'[v], user'[v])
           /\ \A x \in Workers \ {w} : WorkerOK(work[x], x, row', creds', user')
           /\ \A u \in S : /\ TaskOf(u) \in Task /\ TaskOf(u).user = u
                           /\ TaskOK(TaskOf(u), w, row'[u], user'[u])
           /\ work[w].pc = "next" /\ work[w].todo = {}
<1>1. TypeOK
  BY DEF RevocationInv
<1>2. \A v \in Users : UserOK(row[v], creds[v], user[v])
  BY DEF RevocationInv
<1>3. \A v \in S : v \in Users /\ row[v].rev > 0
  BY DEF LeaseRows, Candidates
<1>4. row' \in [Users -> Row]
  BY <1>1 DEF LeaseRows, TypeOK, Row
<1>5. \A v \in Users : /\ row'[v].rev = row[v].rev
                       /\ Carries(row[v], row'[v]) /\ Carries(row'[v], row[v])
                       /\ row'[v].by = IF v \in S THEN w ELSE row[v].by
                       /\ row'[v].expired => row[v].expired /\ v \notin S
  BY <1>1 DEF LeaseRows, TypeOK, Row, Carries
<1>6. \A v \in Users : row'[v].by = None => ~row'[v].expired
  BY <1>1, <1>5 DEF TypeOK
<1>7. \A v \in Users : UserOK(row'[v], creds'[v], user'[v])
  BY <1>2, <1>3, <1>5 DEF UserOK, Carries
<1>8. \A x \in Workers \ {w} : WorkerOK(work[x], x, row', creds', user')
  BY <1>4, <1>5, RowStep
<1>9. ASSUME NEW u \in S
      PROVE  /\ TaskOf(u) \in Task /\ TaskOf(u).user = u
             /\ TaskOK(TaskOf(u), w, row'[u], user'[u])
  <2>1. row[u] \in Row /\ user[u] \in Generation /\ u \in Users
    BY <1>1 DEF TypeOK
  <2>2. TaskOf(u) \in Task /\ TaskOf(u).user = u
    BY <2>1 DEF TaskOf, Task, Row
  <2>3. TaskOf(u).rev = row[u].rev /\ Carries(TaskOf(u), row[u])
    BY DEF TaskOf, Carries
  <2>4. Carries(TaskOf(u), user[u])
    BY <1>2, <1>3, <2>1, <2>3 DEF UserOK, Carries
  <2>5. NotAhead(TaskOf(u), user[u])
    BY <2>1, <2>4 DEF NotAhead, Carries, Generation
  <2>6. TaskOf(u).rev = row'[u].rev /\ Carries(TaskOf(u), row'[u])
    BY <1>5, <2>1, <2>3 DEF Carries
  <2>7. TaskOf(u).rev > 0 /\ TaskOf(u).rev <= row'[u].rev
    <3>1. row[u].rev \in Nat /\ row[u].rev > 0
      BY <1>3, <2>1 DEF Row
    <3>2. row'[u].rev = row[u].rev
      BY <1>5, <2>1
    <3> QED
      BY <2>3, <3>1, <3>2
  <2> QED
    BY <2>2, <2>5, <2>6, <2>7 DEF TaskOK
<1> QED
  BY <1>4, <1>6, <1>7, <1>8, <1>9 DEF LeaseRows

(* The invariant is preserved by the steps in which a worker gives up, or  *)
(* completes, the row in hand and takes its next task, or fails.           *)
LEMMA SettleStep ==
    ASSUME RevocationInv, NEW w \in Workers, work[w].pc # "next",
           row' \in [Users -> Row],
           \A v \in Users : row'[v].by = None => ~row'[v].expired,
           \A v \in Users : UserOK(row'[v], creds[v], user[v]),
           \A v \in Users : row'[v].by # None => row'[v] = row[v],
           UNCHANGED <<user, creds, login>>,
           faults' \in 0 .. MaxFaults,
           \/ NextTask(w)
           \/ work' = [work EXCEPT ![w].pc = "retry", ![w].ok = FALSE]
           \/ work' = [work EXCEPT ![w].pc = "release", ![w].ok = FALSE]
    PROVE  RevocationInv'
<1>1. TypeOK
  BY DEF RevocationInv
<1>2. \A x \in Workers : WorkerOK(work[x], x, row', creds', user')
  <2>1. ASSUME NEW x \in Workers, NEW v \in Users, row'[v].by = x
        PROVE  row[v].by = x /\ row'[v].rev = row[v].rev /\ Carries(row[v], row'[v])
    BY <2>1, SizesAssumption DEF Carries
  <2> QED
    BY <2>1, RowStep
<1>3. work[w] \in Worker /\ work'[w] \in Worker /\ WorkerOK(work'[w], w, row', creds', user')
  <2>1. work[w] \in Worker
    BY <1>1 DEF TypeOK
  <2>2. \/ work'[w] = [work[w] EXCEPT !.pc = "next", !.task = None, !.ok = TRUE]
        \/ work'[w] = [work[w] EXCEPT !.pc = "retry", !.ok = FALSE]
        \/ work'[w] = [work[w] EXCEPT !.pc = "release", !.ok = FALSE]
    BY <1>1 DEF TypeOK, NextTask
  <2>3. WorkerOK(work[w], w, row', creds', user')
    BY <1>2
  <2>4. CASE work'[w] = [work[w] EXCEPT !.pc = "next", !.task = None, !.ok = TRUE]
    <3>1. /\ [work[w] EXCEPT !.pc = "next", !.task = None, !.ok = TRUE] \in Worker
          /\ WorkerOK([work[w] EXCEPT !.pc = "next", !.task = None, !.ok = TRUE],
                      w, row', creds', user')
      BY <2>1, <2>3, NextTaskOK
    <3> QED
      BY <2>1, <2>4, <3>1
  <2>5. ASSUME NEW p \in {"retry", "release"},
               work'[w] = [work[w] EXCEPT !.pc = p, !.ok = FALSE]
        PROVE  work'[w] \in Worker /\ WorkerOK(work'[w], w, row', creds', user')
    <3>1. /\ [work[w] EXCEPT !.pc = p, !.ok = FALSE] \in Worker
          /\ WorkerOK([work[w] EXCEPT !.pc = p, !.ok = FALSE], w, row', creds', user')
      BY <2>1, <2>3, FailedTaskOK
    <3> QED
      BY <2>5, <3>1
  <2> QED
    BY <2>1, <2>2, <2>4, <2>5
<1>4. \A x \in Workers : x # w => work'[x] = work[x]
  BY <1>1 DEF TypeOK, NextTask
<1>5. work' \in [Workers -> Worker]
  <2>1. work' = [work EXCEPT ![w] = work'[w]]
    BY <1>1 DEF TypeOK, NextTask
  <2> QED
    BY <1>1, <1>3, <2>1 DEF TypeOK
<1>6. TypeOK'
  BY <1>1, <1>5 DEF TypeOK
<1> QED
  BY <1>2, <1>3, <1>4, <1>6 DEF RevocationInv

(* A clean-up step of worker w: what it has cleaned is recorded in its pc. *)
LEMMA CleanStep ==
    ASSUME RevocationInv, NEW w \in Workers, NEW done \in BOOLEAN, NEW answered \in BOOLEAN,
           CleanSessions(w, done, answered) \/ CleanFamilies(w, done, answered)
    PROVE  RevocationInv'
<1> DEFINE W == work[w]
           t == work[w].task
           u == t.user
           kind == IF W.pc = "sessions" THEN "session" ELSE "family"
           C == IF done THEN Clean(creds[u], kind, t) ELSE creds[u]
<1>1. TypeOK /\ WorkerOK(W, w, row, creds, user)
  BY DEF RevocationInv
<1>2. /\ W.pc \in {"sessions", "families"} /\ W \in Worker /\ t \in Task /\ u \in Users
      /\ answered => done
      /\ UNCHANGED <<user, row, login>>
  BY <1>1 DEF CleanSessions, CleanFamilies, TypeOK, WorkerOK, Task
<1>3. creds' = [creds EXCEPT ![u] = C]
  BY <1>1 DEF CleanSessions, CleanFamilies, TypeOK
<1>4. /\ C \subseteq creds[u]
      /\ RevokedIn(C, user[u]) \subseteq RevokedIn(creds[u], user[u])
  BY CleanShrinks
<1>5. C \in SUBSET Credential
  BY <1>1, <1>2, <1>4 DEF TypeOK
<1>6. /\ creds' \in [Users -> SUBSET Credential]
      /\ \A v \in Users : UserOK(row'[v], creds'[v], user'[v])
      /\ \A x \in Workers : WorkerOK(work[x], x, row', creds', user')
  <2> HIDE DEF C, u
  <2> QED
    BY <1>2, <1>3, <1>4, <1>5, CredentialStep
<1>7. creds'[u] = C
  BY <1>1, <1>2, <1>3 DEF TypeOK
<1>8. ASSUME done, Holds(row[u], t, w)
      PROVE  \A c \in RevokedIn(creds'[u], user[u]) : c.kind # kind
  <2>1. UserOK(row[u], creds[u], user[u])
    BY <1>2 DEF RevocationInv
  <2>2. Carries(t, user[u])
    BY <1>1, <1>2, <1>8, <2>1, HeldTask
  <2>3. creds'[u] = Clean(creds[u], kind, t)
    BY <1>7, <1>8
  <2> QED
    BY <2>2, <2>3, CleanClears
<1>9. /\ work' = [work EXCEPT ![w] = work'[w]]
      /\ work'[w] \in Worker
      /\ work'[w].todo = W.todo /\ work'[w].task = W.task /\ work'[w].pc # "next"
      /\ faults' \in 0 .. MaxFaults
  <2>0. faults' \in 0 .. MaxFaults
    BY <1>1, SizesAssumption DEF CleanSessions, CleanFamilies, TypeOK, Fault, NoFault
  <2>1. CASE CleanSessions(w, done, answered)
    <3>1. work'[w] = [W EXCEPT !.pc = "families", !.ok = answered]
      BY <1>1, <2>1 DEF CleanSessions, TypeOK
    <3>2. work' = [work EXCEPT ![w] = work'[w]]
      BY <1>1, <2>1 DEF CleanSessions, TypeOK
    <3> QED
      BY <1>2, <2>0, <3>1, <3>2 DEF Worker
  <2>2. CASE CleanFamilies(w, done, answered)
    <3>1. work'[w] = [W EXCEPT !.pc = IF W.ok /\ answered THEN "complete" ELSE "retry",
                               !.ok = W.ok /\ answered]
      BY <1>1, <2>2 DEF CleanFamilies, TypeOK
    <3>2. (W.ok /\ answered) \in BOOLEAN
      OBVIOUS
    <3>3. work'[w] \in Worker /\ work'[w].todo = W.todo /\ work'[w].task = W.task
      BY <1>2, <3>1, <3>2 DEF Worker
    <3>4. work'[w].pc # "next"
      BY <1>2, <3>1 DEF Worker
    <3>5. work' = [work EXCEPT ![w] = work'[w]]
      BY <1>1, <2>2 DEF CleanFamilies, TypeOK
    <3> QED
      BY <2>0, <3>3, <3>4, <3>5
  <2> QED
    BY <2>1, <2>2
<1>10. work'[w].pc = "families" /\ work'[w].ok /\ Holds(row[u], t, w) =>
          \A c \in RevokedIn(creds'[u], user[u]) : c.kind # "session"
  <2>1. SUFFICES ASSUME work'[w].pc = "families", work'[w].ok, Holds(row[u], t, w)
                 PROVE  \A c \in RevokedIn(creds'[u], user[u]) : c.kind # "session"
    OBVIOUS
  <2>2. W.pc = "sessions" /\ answered
    BY <1>1, <2>1 DEF CleanSessions, CleanFamilies, TypeOK, Worker
  <2> QED
    BY <1>2, <1>8, <2>1, <2>2
<1>11. work'[w].pc = "complete" /\ Holds(row[u], t, w) => RevokedIn(creds'[u], user[u]) = {}
  <2>1. SUFFICES ASSUME work'[w].pc = "complete", Holds(row[u], t, w)
                 PROVE  RevokedIn(creds'[u], user[u]) = {}
    OBVIOUS
  <2>2. W.pc = "families" /\ W.ok /\ answered
    BY <1>1, <2>1 DEF CleanSessions, CleanFamilies, TypeOK, Worker
  <2>3. \A c \in RevokedIn(creds'[u], user[u]) : c.kind # "family"
    BY <1>2, <1>8, <2>1, <2>2
  <2>4. \A c \in RevokedIn(creds'[u], user[u]) : c.kind # "session"
    BY <1>2, <1>6, <2>1, <2>2 DEF WorkerOK
  <2>5. \A c \in RevokedIn(creds'[u], user[u]) : c.kind \in Kinds
    BY <1>2, <1>6 DEF RevokedIn, Credential
  <2> QED
    BY <2>3, <2>4, <2>5 DEF Kinds
<1>12. WorkerOK(work'[w], w, row', creds', user')
  BY <1>2, <1>6, <1>9, <1>10, <1>11 DEF WorkerOK
<1>13. TypeOK'
  BY <1>1, <1>2, <1>6, <1>9 DEF TypeOK
<1>14. \A x \in Workers : x # w => work'[x] = work[x]
  BY <1>1, <1>9 DEF TypeOK
<1> QED
  BY <1>6, <1>12, <1>13, <1>14 DEF RevocationInv

(* Complete, with or without its answer. *)
LEMMA CompleteStep ==
    ASSUME RevocationInv, NEW w \in Workers, work[w].pc = "complete",
           row' = [row EXCEPT ![work[w].task.user] = CompleteRow(@, work[w].task, w)]
    PROVE  /\ row' \in [Users -> Row]
           /\ \A v \in Users : row'[v].by = None => ~row'[v].expired
           /\ \A v \in Users : UserOK(row'[v], creds[v], user[v])
           /\ \A v \in Users : row'[v].by # None => row'[v] = row[v]
<1> DEFINE t == work[w].task
           u == t.user
           R == CompleteRow(row[u], t, w)
<1>1. TypeOK /\ WorkerOK(work[w], w, row, creds, user)
  BY DEF RevocationInv
<1>2. t \in Task /\ u \in Users
  BY <1>1 DEF WorkerOK, Task
<1>3. UserOK(row[u], creds[u], user[u])
  BY <1>2 DEF RevocationInv
<1>4. /\ R \in Row
      /\ R.by # None => R = row[u]
      /\ R.by = None => ~R.expired
      /\ R.rev > 0 => R.rev = row[u].rev /\ Carries(R, row[u])
      /\ R.rev = 0 => row[u].rev = 0 \/ Holds(row[u], t, w)
  BY <1>1, <1>2, CompleteRowFacts DEF TypeOK
<1>5. row'[u] = R /\ \A v \in Users : v # u => row'[v] = row[v]
  BY <1>1, <1>2 DEF TypeOK
<1>6. Holds(row[u], t, w) => RevokedIn(creds[u], user[u]) = {}
  BY <1>1 DEF WorkerOK
<1>7. UserOK(R, creds[u], user[u])
  <2> HIDE DEF R
  <2>1. R.rev \in Nat /\ row[u].rev \in Nat
    BY <1>1, <1>2, <1>4 DEF TypeOK, Row
  <2>2. R.rev > 0 => Carries(R, user[u])
    BY <1>3, <1>4, <2>1 DEF UserOK, Carries
  <2>3. RevokedIn(creds[u], user[u]) # {} => R.rev > 0
    BY <1>3, <1>4, <1>6, <2>1 DEF UserOK
  <2>4. R.by # None => R.rev > 0
    BY <1>3, <1>4 DEF UserOK
  <2> QED
    BY <2>2, <2>3, <2>4 DEF UserOK
<1>8. row' \in [Users -> Row]
  BY <1>1, <1>4 DEF TypeOK
<1> HIDE DEF R
<1>9. \A v \in Users : row'[v].by = None => ~row'[v].expired
  BY <1>1, <1>4, <1>5 DEF TypeOK
<1>10. \A v \in Users : UserOK(row'[v], creds[v], user[v])
  BY <1>5, <1>7 DEF RevocationInv
<1>11. \A v \in Users : row'[v].by # None => row'[v] = row[v]
  BY <1>4, <1>5
<1> QED
  BY <1>8, <1>9, <1>10, <1>11

(* A row loses its lease, or only its due or expired flag changes. *)
LEMMA FlagStep ==
    ASSUME RevocationInv, NEW u \in Users, NEW R \in Row,
           R.rev = row[u].rev, Carries(R, row[u]),
           R.by = None => ~R.expired,
           R.by # None => R.by = row[u].by,
           row' = [row EXCEPT ![u] = R]
    PROVE  /\ row' \in [Users -> Row]
           /\ \A v \in Users : row'[v].by = None => ~row'[v].expired
           /\ \A v \in Users : UserOK(row'[v], creds[v], user[v])
           /\ \A x \in Workers : \A v \in Users : row'[v].by = x =>
                 row[v].by = x /\ row'[v].rev = row[v].rev /\ Carries(row[v], row'[v])
<1>1. TypeOK
  BY DEF RevocationInv
<1>2. row'[u] = R /\ \A v \in Users : v # u => row'[v] = row[v]
  BY <1>1 DEF TypeOK
<1>3. UserOK(row[u], creds[u], user[u])
  BY DEF RevocationInv
<1>4. UserOK(R, creds[u], user[u])
  BY <1>3 DEF UserOK, Carries
<1>5. row' \in [Users -> Row] /\ \A v \in Users : row'[v].by = None => ~row'[v].expired
  BY <1>1, <1>2 DEF TypeOK
<1>6. \A v \in Users : UserOK(row'[v], creds[v], user[v])
  BY <1>2, <1>4 DEF RevocationInv
<1>7. ASSUME NEW x \in Workers, NEW v \in Users, row'[v].by = x
      PROVE  row[v].by = x /\ row'[v].rev = row[v].rev /\ Carries(row[v], row'[v])
  BY <1>2, <1>7, SizesAssumption DEF Carries
<1> QED
  BY <1>5, <1>6, <1>7

-----------------------------------------------------------------------------
(* Every step preserves the invariant, action by action. *)
LEMMA NextInv == RevocationInv /\ [Next]_vars => RevocationInv'
<1> SUFFICES ASSUME RevocationInv, [Next]_vars PROVE RevocationInv'
  OBVIOUS
<1> TypeOK
  BY DEF RevocationInv
<1> USE SizesAssumption
<1>1. ASSUME NEW r \in Logins, NEW u \in Users, NEW kind \in Kinds, ReadUser(r, u, kind)
      PROVE  RevocationInv'
  <2>1. login' \in [Logins -> LoginRecord \cup {None}]
    BY <1>1 DEF ReadUser, TypeOK, LoginRecord, Generation
  <2>2. TypeOK'
    BY <1>1, <2>1 DEF ReadUser, TypeOK
  <2> QED
    BY <1>1, <2>2 DEF ReadUser, RevocationInv
<1>2. ASSUME NEW r \in Logins, StoreCredential(r) PROVE RevocationInv'
  <2> DEFINE L == login[r]
             u == L.user
             c == [kind |-> L.kind, auth |-> L.auth, sess |-> L.sess,
                   late |-> Before(L, user[u])]
             C == creds[u] \cup {c}
  <2>1. L \in LoginRecord /\ u \in Users
    BY <1>2 DEF StoreCredential, TypeOK, LoginRecord
  <2>2. Before(L, user[u]) \in BOOLEAN
    BY <2>1 DEF Before, TypeOK, Generation
  <2>3. c \in Credential
    BY <2>1, <2>2 DEF LoginRecord, Credential
  <2>4. ~c.late => ~Before(c, user[u])
    BY DEF Before
  <2>5. creds' = [creds EXCEPT ![u] = C]
    BY <1>2 DEF StoreCredential
  <2> HIDE DEF c
  <2>6. C \in SUBSET Credential
    BY <2>1, <2>3 DEF TypeOK
  <2>7. RevokedIn(C, user[u]) \subseteq RevokedIn(creds[u], user[u])
    BY <2>4 DEF RevokedIn
  <2> HIDE DEF C, u
  <2>8. \A x \in Workers : /\ creds' \in [Users -> SUBSET Credential]
                           /\ \A v \in Users : UserOK(row'[v], creds'[v], user'[v])
                           /\ WorkerOK(work[x], x, row', creds', user')
    BY <1>2, <2>1, <2>5, <2>6, <2>7, CredentialStep DEF StoreCredential
  <2>9. creds' \in [Users -> SUBSET Credential] /\ login' \in [Logins -> LoginRecord \cup {None}]
    BY <1>2, <2>1, <2>5, <2>6 DEF StoreCredential, TypeOK
  <2>10. TypeOK'
    BY <1>2, <2>9 DEF StoreCredential, TypeOK
  <2>11. ASSUME NEW v \in Users PROVE UserOK(row'[v], creds'[v], user'[v])
    <3>1. RevokedIn(creds'[v], user[v]) \subseteq RevokedIn(creds[v], user[v])
      BY <2>1, <2>5, <2>7 DEF TypeOK
    <3>2. UserOK(row[v], creds[v], user[v])
      BY DEF RevocationInv
    <3> QED
      BY <1>2, <3>1, <3>2, UserKeeps DEF StoreCredential
  <2> QED
    BY <1>2, <2>8, <2>10, <2>11 DEF StoreCredential, RevocationInv
<1>3. ASSUME NEW u \in Users, ChangeUser(u) PROVE RevocationInv'
  <2> DEFINE g == user'[u]
  <2>1. /\ g \in Generation /\ NotAhead(user[u], g)
        /\ user' = [user EXCEPT ![u] = g]
    <3>1. user[u] \in Generation
      BY DEF TypeOK
    <3>2. CASE AdvanceAuthVersion(u)
      BY <3>1, <3>2 DEF AdvanceAuthVersion, TypeOK, Generation, NotAhead
    <3>3. CASE RevokeSessions(u)
      BY <3>1, <3>3 DEF RevokeSessions, TypeOK, Generation, NotAhead
    <3>4. CASE DeleteUser(u)
      <4>1. g = [user[u] EXCEPT !.deleted = TRUE] /\ user' = [user EXCEPT ![u] = g]
        BY <3>4 DEF DeleteUser, TypeOK
      <4> HIDE DEF g
      <4> QED
        <5>1. g \in Generation
          BY <3>1, <4>1 DEF Generation
        <5>2. g.auth = user[u].auth /\ g.sess = user[u].sess /\ g.deleted
          BY <3>1, <4>1 DEF Generation
        <5>3. user[u].auth <= g.auth /\ user[u].sess <= g.sess
          BY <3>1, <5>2 DEF Generation
        <5> QED
          BY <4>1, <5>1, <5>2, <5>3 DEF NotAhead
    <3> QED
      BY <1>3, <3>2, <3>3, <3>4 DEF ChangeUser
  <2>2. /\ row' = [row EXCEPT ![u] = Enqueue(row[u], g)]
        /\ UNCHANGED <<creds, login, work, faults>>
    BY <1>3 DEF ChangeUser, AdvanceAuthVersion, RevokeSessions, DeleteUser
  <2> HIDE DEF g
  <2> QED
    BY <2>1, <2>2, ChangeStep
<1>4. ASSUME NEW u \in Users, LeaseExpires(u) \/ BackoffEnds(u) PROVE RevocationInv'
  <2> DEFINE R == row'[u]
  <2>1. /\ R \in Row /\ R.rev = row[u].rev /\ Carries(R, row[u]) /\ R.by = row[u].by
        /\ R.by = None => ~R.expired
        /\ row' = [row EXCEPT ![u] = R]
        /\ UNCHANGED <<user, creds, login, work>>
    <3>1. row[u] \in Row /\ (row[u].by = None => ~row[u].expired)
      BY DEF TypeOK
    <3>2. CASE LeaseExpires(u)
      <4>1. R = [row[u] EXCEPT !.expired = TRUE]
        BY <3>2 DEF LeaseExpires, TypeOK
      <4>2. row' = [row EXCEPT ![u] = R] /\ row[u].by # None
        BY <3>2 DEF LeaseExpires, TypeOK
      <4>3. UNCHANGED <<user, creds, login, work>>
        BY <3>2 DEF LeaseExpires
      <4> HIDE DEF R
      <4>4. R \in Row /\ R.by = row[u].by
        BY <3>1, <4>1 DEF Row
      <4>5. R.rev = row[u].rev /\ Carries(R, row[u])
        BY <3>1, <4>1 DEF Row, Carries
      <4>6. R.by = None => ~R.expired
        BY <3>1, <4>1, <4>2 DEF Row
      <4> QED
        BY <4>2, <4>3, <4>4, <4>5, <4>6
    <3>3. CASE BackoffEnds(u)
      <4>1. R = [row[u] EXCEPT !.due = TRUE]
        BY <3>3 DEF BackoffEnds, TypeOK
      <4>2. row' = [row EXCEPT ![u] = R]
        BY <3>3 DEF BackoffEnds, TypeOK
      <4>3. UNCHANGED <<user, creds, login, work>>
        BY <3>3 DEF BackoffEnds
      <4> HIDE DEF R
      <4>4. R \in Row /\ R.by = row[u].by
        BY <3>1, <4>1 DEF Row
      <4>5. R.rev = row[u].rev /\ Carries(R, row[u])
        BY <3>1, <4>1 DEF Row, Carries
      <4>6. R.by = None => ~R.expired
        BY <3>1, <4>1, <4>2 DEF Row
      <4> QED
        BY <4>2, <4>3, <4>4, <4>5, <4>6
    <3> QED
      BY <1>4, <3>2, <3>3
  <2>2. faults' \in 0 .. MaxFaults
    BY <1>4 DEF LeaseExpires, BackoffEnds, TypeOK, Fault, NoFault
  <2> HIDE DEF R
  <2>3. /\ row' \in [Users -> Row]
        /\ \A v \in Users : row'[v].by = None => ~row'[v].expired
        /\ \A v \in Users : UserOK(row'[v], creds[v], user[v])
        /\ \A x \in Workers : \A v \in Users : row'[v].by = x =>
              row[v].by = x /\ row'[v].rev = row[v].rev /\ Carries(row[v], row'[v])
    BY <2>1, FlagStep
  <2>4. \A x \in Workers : WorkerOK(work[x], x, row', creds', user')
    BY <2>1, <2>3, RowStep
  <2>5. TypeOK'
    BY <2>1, <2>2, <2>3 DEF TypeOK
  <2> QED
    BY <2>1, <2>3, <2>4, <2>5 DEF RevocationInv
<1>5. ASSUME NEW u \in Users, NEW kind \in Kinds, NEW a \in 1 .. user[u].auth,
             NEW s \in 1 .. user[u].sess, CleanInHandler(u, kind, a, s)
      PROVE  RevocationInv'
  <2> DEFINE C == Clean(creds[u], kind, [auth |-> a, sess |-> s, deleted |-> FALSE])
  <2>1. C \subseteq creds[u] /\ RevokedIn(C, user[u]) \subseteq RevokedIn(creds[u], user[u])
    BY CleanShrinks
  <2>2. creds' = [creds EXCEPT ![u] = C] /\ UNCHANGED <<user, row, login, work, faults>>
    BY <1>5 DEF CleanInHandler
  <2>3. C \in SUBSET Credential
    BY <2>1 DEF TypeOK
  <2> HIDE DEF C
  <2>4. TypeOK'
    BY <2>2, <2>3 DEF TypeOK
  <2>5. \A x \in Workers : WorkerOK(work[x], x, row', creds', user')
    BY <2>1, <2>2, <2>3, CredentialStep
  <2>6. ASSUME NEW v \in Users PROVE UserOK(row'[v], creds'[v], user'[v])
    <3>1. RevokedIn(creds'[v], user[v]) \subseteq RevokedIn(creds[v], user[v])
      BY <2>1, <2>2 DEF TypeOK
    <3>2. UserOK(row[v], creds[v], user[v])
      BY DEF RevocationInv
    <3> QED
      BY <2>2, <3>1, <3>2, UserKeeps
  <2> QED
    BY <2>2, <2>4, <2>5, <2>6 DEF RevocationInv
<1>6. ASSUME NEW w \in Workers, NEW S \in SUBSET Users, Claim(w, S) \/ ClaimAnswerLost(w, S)
      PROVE  RevocationInv'
  <2>1. LeaseRows(w, S) /\ UNCHANGED <<user, creds, login>>
    BY <1>6 DEF Claim, ClaimAnswerLost
  <2>2. /\ row' \in [Users -> Row]
        /\ \A v \in Users : row'[v].by = None => ~row'[v].expired
        /\ \A v \in Users : UserOK(row'[v], creds'[v], user'[v])
        /\ \A x \in Workers \ {w} : WorkerOK(work[x], x, row', creds', user')
        /\ \A u \in S : /\ TaskOf(u) \in Task /\ TaskOf(u).user = u
                        /\ TaskOK(TaskOf(u), w, row'[u], user'[u])
        /\ work[w].pc = "next" /\ work[w].todo = {}
    BY <2>1, LeaseStep
  <2>3. faults' \in 0 .. MaxFaults
    BY <1>6 DEF Claim, ClaimAnswerLost, TypeOK, Fault, NoFault
  <2>4. /\ work'[w].pc = "next"
        /\ work'[w].todo = {} \/ work'[w].todo = {TaskOf(u) : u \in S}
        /\ work' = [work EXCEPT ![w] = work'[w]]
        /\ work'[w] \in Worker
    <3>1. work[w] \in Worker
      BY DEF TypeOK
    <3>2. CASE Claim(w, S)
      <4>1. work'[w] = [work[w] EXCEPT !.todo = {TaskOf(u) : u \in S}]
        BY <3>2 DEF Claim, TypeOK
      <4>2. work' = [work EXCEPT ![w] = work'[w]]
        BY <3>2 DEF Claim, TypeOK
      <4>3. {TaskOf(u) : u \in S} \in SUBSET Task
        BY <2>2
      <4> QED
        BY <2>2, <3>1, <4>1, <4>2, <4>3 DEF Worker
    <3>3. CASE ClaimAnswerLost(w, S)
      BY <2>2, <3>1, <3>3 DEF ClaimAnswerLost, TypeOK
    <3> QED
      BY <1>6, <3>2, <3>3
  <2>5. \A x \in Workers : x # w => work'[x] = work[x]
    BY <2>4 DEF TypeOK
  <2>6. WorkerOK(work'[w], w, row', creds', user')
    BY <2>2, <2>4 DEF WorkerOK
  <2>7. TypeOK'
    BY <2>1, <2>2, <2>3, <2>4 DEF TypeOK
  <2> QED
    BY <2>2, <2>5, <2>6, <2>7 DEF RevocationInv
<1>7. ASSUME NEW w \in Workers, NEW t \in work[w].todo, StartTask(w, t) PROVE RevocationInv'
  <2>1. work[w] \in Worker /\ WorkerOK(work[w], w, row, creds, user)
    BY DEF TypeOK, RevocationInv
  <2>2. t \in Task /\ TaskOK(t, w, row[t.user], user[t.user])
    BY <2>1 DEF Worker, WorkerOK
  <2>3. /\ work'[w].pc = "sessions" /\ work'[w].task = t
        /\ work'[w].todo \subseteq work[w].todo
        /\ work' = [work EXCEPT ![w] = work'[w]]
    BY <1>7, <2>1 DEF StartTask, TypeOK, Worker
  <2>4. work'[w] \in Worker
    BY <1>7, <2>1, <2>2 DEF StartTask, TypeOK, Worker
  <2>5. WorkerOK(work'[w], w, row, creds, user)
    BY <2>1, <2>2, <2>3 DEF WorkerOK
  <2>6. \A x \in Workers : x # w => work'[x] = work[x]
    BY <2>3 DEF TypeOK
  <2>7. TypeOK'
    BY <1>7, <2>3, <2>4 DEF StartTask, TypeOK
  <2> QED
    BY <1>7, <2>5, <2>6, <2>7 DEF StartTask, RevocationInv
<1>8. ASSUME NEW w \in Workers, CleanTask(w) PROVE RevocationInv'
  BY <1>8, CleanStep DEF CleanTask
<1>9. ASSUME NEW w \in Workers, Complete(w) PROVE RevocationInv'
  <2>1. /\ work[w].pc = "complete" /\ NextTask(w)
        /\ row' = [row EXCEPT ![work[w].task.user] = CompleteRow(@, work[w].task, w)]
        /\ UNCHANGED <<user, creds, login>> /\ faults' \in 0 .. MaxFaults
    BY <1>9 DEF Complete, NoFault, TypeOK
  <2> QED
    BY <2>1, CompleteStep, SettleStep
<1>10. ASSUME NEW w \in Workers, NEW committed \in BOOLEAN, CompleteFails(w, committed)
       PROVE  RevocationInv'
  <2>1. /\ work[w].pc = "complete"
        /\ work' = [work EXCEPT ![w].pc = "retry", ![w].ok = FALSE]
        /\ UNCHANGED <<user, creds, login>> /\ faults' \in 0 .. MaxFaults
    BY <1>10 DEF CompleteFails, Fault, TypeOK
  <2>2. CASE committed
    <3>1. row' = [row EXCEPT ![work[w].task.user] = CompleteRow(@, work[w].task, w)]
      BY <1>10, <2>2 DEF CompleteFails
    <3> QED
      BY <2>1, <3>1, CompleteStep, SettleStep
  <2>3. CASE ~committed
    <3>1. row' = row
      BY <1>10, <2>3 DEF CompleteFails
    <3> QED
      BY <2>1, <3>1, SettleStep DEF RevocationInv, TypeOK
  <2> QED
    BY <2>2, <2>3
<1>11. ASSUME NEW w \in Workers, Retry(w) \/ Release(w) PROVE RevocationInv'
  <2> DEFINE t == work[w].task
             u == t.user
             R == row'[u]
  <2>1. work[w] \in Worker /\ WorkerOK(work[w], w, row, creds, user)
    BY DEF TypeOK, RevocationInv
  <2>2. work[w].pc # "next" /\ t \in Task /\ u \in Users
    BY <1>11, <2>1 DEF Retry, Release, WorkerOK, Task
  <2>3. row[u] \in Row /\ (row[u].by = None => ~row[u].expired)
    BY <2>2 DEF TypeOK
  <2>4. /\ R \in Row /\ R.rev = row[u].rev /\ Carries(R, row[u])
        /\ R.by # None => R = row[u]
        /\ R.by = None => ~R.expired
        /\ row' = [row EXCEPT ![u] = R]
    <3>1. \/ R = row[u]
          \/ R = [row[u] EXCEPT !.by = None, !.expired = FALSE, !.due = FALSE]
          \/ R = [row[u] EXCEPT !.by = None, !.expired = FALSE, !.due = TRUE]
      BY <1>11, <2>2, <2>3 DEF Retry, Release, ReleaseRow, TypeOK
    <3>2. row' = [row EXCEPT ![u] = R]
      BY <1>11, <2>2 DEF Retry, Release, TypeOK
    <3> QED
      BY <2>3, <3>1, <3>2 DEF Row, Carries
  <2>5. /\ \/ NextTask(w)
           \/ work' = [work EXCEPT ![w].pc = "release", ![w].ok = FALSE]
        /\ UNCHANGED <<user, creds, login>> /\ faults' \in 0 .. MaxFaults
    BY <1>11 DEF Retry, Release, NoFault, TypeOK
  <2>6. \A v \in Users : row'[v].by # None => row'[v] = row[v]
    BY <2>2, <2>4 DEF TypeOK
  <2> HIDE DEF R
  <2>7. /\ row' \in [Users -> Row]
        /\ \A v \in Users : row'[v].by = None => ~row'[v].expired
        /\ \A v \in Users : UserOK(row'[v], creds[v], user[v])
    BY <2>2, <2>4, FlagStep
  <2> QED
    BY <2>2, <2>5, <2>6, <2>7, SettleStep
<1>12. ASSUME NEW w \in Workers, RetryFails(w) PROVE RevocationInv'
  <2>1. /\ work[w].pc # "next" /\ NextTask(w)
        /\ UNCHANGED <<user, row, creds, login>> /\ faults' \in 0 .. MaxFaults
    BY <1>12 DEF RetryFails, Fault, TypeOK
  <2> QED
    BY <2>1, SettleStep DEF RevocationInv, TypeOK
<1>13. ASSUME NEW w \in Workers, Crash(w) PROVE RevocationInv'
  <2>1. IdleWorker \in Worker /\ WorkerOK(IdleWorker, w, row, creds, user)
    BY DEF IdleWorker, Worker, WorkerOK
  <2>2. work' = [work EXCEPT ![w] = IdleWorker] /\ UNCHANGED <<user, row, creds, login>>
    BY <1>13 DEF Crash
  <2>3. faults' \in 0 .. MaxFaults
    BY <1>13 DEF Crash, Fault, TypeOK
  <2>4. TypeOK'
    BY <2>1, <2>2, <2>3 DEF TypeOK
  <2>5. work'[w] = IdleWorker /\ \A x \in Workers : x # w => work'[x] = work[x]
    BY <2>2 DEF TypeOK
  <2> QED
    BY <2>1, <2>2, <2>4, <2>5 DEF RevocationInv
<1>14. CASE UNCHANGED vars
  BY <1>14 DEF vars, RevocationInv, TypeOK
<1> QED
  BY <1>1, <1>2, <1>3, <1>4, <1>5, <1>6, <1>7, <1>8, <1>9, <1>10, <1>11, <1>12, <1>13, <1>14
  DEF Next, Dispatch

-----------------------------------------------------------------------------
(* RevocationInv holds in every reachable state. *)
THEOREM RevocationInvariant == Spec => []RevocationInv
BY InitInv, NextInv, PTL DEF Spec

(* The outbox, the dispatchers and Redis always have values of their type, *)
(* and the rows satisfy the constraint on the two locking columns.         *)
THEOREM RevocationTypes == Spec => []TypeOK
<1>1. RevocationInv => TypeOK
  BY DEF RevocationInv
<1> QED
  BY <1>1, RevocationInvariant, PTL

(* A credential that was revoked and is still in Redis has an outbox row   *)
(* with the newest generation of its user, whatever fails in between.      *)
THEOREM NoRevocationForgotten == Spec => []RevocationIsScheduled
<1>1. RevocationInv => RevocationIsScheduled
  BY DEF RevocationInv, RevocationIsScheduled, Revoked, UserOK
<1> QED
  BY <1>1, RevocationInvariant, PTL

(* No step of any dispatcher or handler deletes a session or a family of   *)
(* the user's newest generation.                                           *)
THEOREM CleanupIsSafe == Spec => CurrentCredentialsKept
<1> DEFINE Spared == \A u \in Users : \A c \in creds[u] \ creds'[u] : Before(c, user[u])
<1>1. RevocationInv /\ [Next]_vars => [Spared]_vars
  <2> SUFFICES ASSUME RevocationInv, Next PROVE Spared
    BY DEF vars
  <2>1. TypeOK
    BY DEF RevocationInv
  <2>2. ASSUME NEW r \in Logins, StoreCredential(r) PROVE Spared
    BY <2>1, <2>2 DEF StoreCredential, TypeOK
  <2>3. ASSUME NEW u \in Users, NEW kind \in Kinds, NEW a \in 1 .. user[u].auth,
               NEW s \in 1 .. user[u].sess, CleanInHandler(u, kind, a, s)
        PROVE  Spared
    <3> DEFINE g == [auth |-> a, sess |-> s, deleted |-> FALSE]
    <3>1. user[u] \in Generation /\ creds[u] \in SUBSET Credential
      BY <2>1 DEF TypeOK
    <3>2. g.auth \in Nat /\ g.sess \in Nat /\ NotAhead(g, user[u])
      BY <3>1 DEF NotAhead, Generation
    <3>3. \A c \in creds[u] \ Clean(creds[u], kind, g) : Before(c, user[u])
      <4> HIDE DEF g
      <4> QED
        BY <3>1, <3>2, CleanSpares
    <3>4. /\ creds'[u] = Clean(creds[u], kind, g)
          /\ \A v \in Users : v # u => creds'[v] = creds[v]
      BY <2>1, <2>3 DEF CleanInHandler, TypeOK
    <3> HIDE DEF g
    <3> QED
      BY <3>3, <3>4
  <2>4. ASSUME NEW w \in Workers, CleanTask(w) PROVE Spared
    <3> DEFINE t == work[w].task
               u == t.user
    <3>1. work[w] \in Worker /\ WorkerOK(work[w], w, row, creds, user)
      BY <2>1 DEF TypeOK, RevocationInv
    <3>2. t \in Task /\ u \in Users /\ NotAhead(t, user[u]) /\ t.auth \in Nat /\ t.sess \in Nat
      BY <2>4, <3>1 DEF CleanTask, CleanSessions, CleanFamilies, WorkerOK, TaskOK, Task
    <3>3. user[u] \in Generation /\ creds[u] \in SUBSET Credential
      BY <2>1, <3>2 DEF TypeOK
    <3>4. \A kind \in Kinds : \A c \in creds[u] \ Clean(creds[u], kind, t) : Before(c, user[u])
      BY <3>2, <3>3, CleanSpares
    <3>5. /\ \/ creds'[u] = creds[u]
             \/ creds'[u] = Clean(creds[u], "session", t)
             \/ creds'[u] = Clean(creds[u], "family", t)
          /\ \A v \in Users : v # u => creds'[v] = creds[v]
      BY <2>1, <2>4, <3>2 DEF CleanTask, CleanSessions, CleanFamilies, TypeOK
    <3> QED
      BY <3>4, <3>5 DEF Kinds
  <2>5. CASE UNCHANGED creds
    BY <2>5
  <2> QED
    BY <2>2, <2>3, <2>4, <2>5
    DEF Next, Dispatch, ReadUser, ChangeUser, AdvanceAuthVersion, RevokeSessions, DeleteUser,
        LeaseExpires, BackoffEnds, Claim, ClaimAnswerLost, StartTask, Complete,
        CompleteFails, Retry, Release, RetryFails, Crash
<1> QED
  BY <1>1, RevocationInvariant, PTL DEF Spec, CurrentCredentialsKept
=============================================================================
