--------------------------- MODULE BrowserSession ---------------------------
(***************************************************************************)
(* The browser sessions of one user: the Lua scripts of                    *)
(* internal/session/store.go under the requests of internal/server that    *)
(* log in, use, re-authenticate, rotate and revoke sessions.  PostgreSQL   *)
(* holds the user's security versions, Redis the sessions; a request reads *)
(* the one and writes the other in separate steps.                         *)
(*                                                                         *)
(* Session numbers follow created_at (the instances' clocks agree).  Keys  *)
(* are modelled by their remaining life, 0 for none.  What the clean-up of *)
(* module SecurityRevocation does to sessions is the action CleanBefore.   *)
(***************************************************************************)
EXTENDS Integers, FiniteSets

CONSTANTS
    Visits,     \* request slots
    MaxSessions,  \* bound: sessions ever created
    MaxGeneration,   \* bound: each security version
    Lives,        \* lives the policy may give a session when it is written
    Limit         \* MaxConcurrentSessions; 0 says unlimited

Ids == 1 .. MaxSessions

ASSUME SessionAssumption ==
    /\ MaxSessions \in Nat \ {0}
    /\ MaxGeneration \in Nat \ {0}
    /\ Lives \subseteq Nat \ {0}
    /\ Limit \in Nat

VARIABLES
    user,      \* the user's row: versions and whether he is active
    store,     \* session keys
    userIndex,     \* members of user-sessions
    userIndexTTL,  \* its remaining life
    next,      \* the next session number
    saved,     \* history: sessions that were stored once
    proved,    \* history: generations at which a session's holder proved who he is
    visit        \* requests in flight

browserVars == <<user, store, userIndex, userIndexTTL, next, saved, proved, visit>>

Session == [auth : Nat, sess : Nat, life : Nat]

NoSession == [auth |-> 0, sess |-> 0, life |-> 0]

Generation == [auth : Nat, sess : Nat]

Gen(x) == [auth |-> x.auth, sess |-> x.sess]

Live(s) == s.life > 0

Dead == {i \in userIndex : ~Live(store[i])}

LiveIds == {i \in Ids : Live(store[i])}

(* The middleware refuses a session of another generation than the user's. *)
SessionAccepted(s, u) == u.active /\ s.auth = u.auth /\ s.sess = u.sess

NewVisit(pc, i, g, seen) == [pc |-> pc, id |-> i, gen |-> g, seen |-> seen]

NoGen == [auth |-> 0, sess |-> 0]

NoVisit == NewVisit("idle", 0, NoGen, NoGen)

(* gen is the generation the request writes, seen the one it has read from *)
(* the session that authenticates it.                                      *)
Visit == [pc : {"idle", "create", "save", "createRotated", "saveRotated", "deleteOthers",
                  "touch", "check", "handle", "record", "mark", "update", "clean"},
            id : Ids \cup {0}, gen : Generation, seen : Generation]

LongerTTL(a, b) == IF a < b THEN b ELSE a

BrowserInit ==
    /\ user = [auth |-> 1, sess |-> 1, active |-> TRUE]
    /\ store = [i \in Ids |-> NoSession]
    /\ userIndex = {}
    /\ userIndexTTL = 0
    /\ next = 1
    /\ saved = {}
    /\ proved = [i \in Ids |-> {}]
    /\ visit = [r \in Visits |-> NoVisit]

-----------------------------------------------------------------------------
(* The scripts.  A set that loses its last member does not exist.          *)

Members(S, ttl) ==
    /\ userIndex' = S
    /\ userIndexTTL' = IF S = {} THEN 0 ELSE ttl

Drop(S) == store' = [i \in Ids |-> IF i \in S THEN NoSession ELSE store[i]]

(* The oldest sessions beyond the limit. *)
Excess(S) ==
    IF Limit = 0 THEN {}
    ELSE {i \in S : Cardinality({j \in S : j > i}) >= Limit}

(* Mutant of Save: the index takes the life of the session that is saved. *)
SaveShortIndex(i, s) ==
    LET live == {j \in userIndex \cup {i} : j = i \/ Live(store[j])}
        out == Excess(live)
        kept == IF Limit = 0 THEN userIndex \cup {i} ELSE live \ out
    IN  /\ store' = [j \in Ids |-> IF j \in out THEN NoSession
                                   ELSE IF j = i THEN s ELSE store[j]]
        /\ Members(kept, s.life)

(* saveSessionScript: store, index, then evict; with a limit, names of     *)
(* sessions that are gone leave the index too.                             *)
Save(i, s) ==
    LET live == {j \in userIndex \cup {i} : j = i \/ Live(store[j])}
        out == Excess(live)
        kept == IF Limit = 0 THEN userIndex \cup {i} ELSE live \ out
    IN  /\ store' = [j \in Ids |-> IF j \in out THEN NoSession
                                   ELSE IF j = i THEN s ELSE store[j]]
        /\ Members(kept, LongerTTL(userIndexTTL, s.life))

(* Mutant of Update: a session that is gone is written again. *)
UpdateAnyway(i, s, g) ==
    /\ store' = [store EXCEPT ![i] = s]
    /\ Members(userIndex \cup {i}, LongerTTL(userIndexTTL, s.life))

(* updateSessionScript: the key exists and has the expected versions. *)
Update(i, s, g) ==
    IF Live(store[i]) /\ Gen(store[i]) = g
    THEN /\ store' = [store EXCEPT ![i] = s]
         /\ Members(userIndex \cup {i}, LongerTTL(userIndexTTL, s.life))
    ELSE UNCHANGED <<store, userIndex, userIndexTTL>>

(* deleteSessionScript *)
Delete(i) ==
    IF Live(store[i])
    THEN Drop({i}) /\ Members(userIndex \ {i}, userIndexTTL)
    ELSE UNCHANGED <<store, userIndex, userIndexTTL>>

(* deleteOtherSessionsScript; keep is 0 when all sessions go. *)
DeleteOthers(keep) ==
    Drop(userIndex \ {keep}) /\ Members(userIndex \cap {keep}, userIndexTTL)

(* deleteSessionsBeforeSecurityVersionScript *)
DeleteBefore(a, s) ==
    LET old == {i \in userIndex : store[i].auth < a \/ store[i].sess < s}
    IN  Drop(old) /\ Members(userIndex \ (old \cup Dead), userIndexTTL)

(* deleteSessionByPublicIDScript looks at the members in some order until  *)
(* it finds the session, and forgets the names it finds to be gone (seen). *)
DeletePublic(i, seen) ==
    IF i \in userIndex /\ Live(store[i])
    THEN Drop({i}) /\ Members(userIndex \ ({i} \cup seen), userIndexTTL)
    ELSE Members(userIndex \ Dead, userIndexTTL) /\ UNCHANGED store

Proves(i, g) == proved' = [proved EXCEPT ![i] = @ \cup {g}]

VisitDone(r) == visit' = [visit EXCEPT ![r] = NoVisit]

-----------------------------------------------------------------------------
(* A password (or provider, or second factor) was verified against the     *)
(* user that was read.                                                     *)
Authenticate(r) ==
    /\ visit[r].pc = "idle"
    /\ user.active
    /\ visit' = [visit EXCEPT ![r] = NewVisit("create", 0, Gen(user), NoGen)]
    /\ UNCHANGED <<user, store, userIndex, userIndexTTL, next, saved, proved>>

(* CreateSession: the number stands for the random id and for the time. *)
CreateSession(r) ==
    /\ visit[r].pc \in {"create", "createRotated"}
    /\ next <= MaxSessions
    /\ next' = next + 1
    /\ Proves(next, visit[r].gen)
    /\ visit' = [visit EXCEPT ![r] =
                  NewVisit(IF visit[r].pc = "create" THEN "save" ELSE "saveRotated",
                             next, visit[r].gen, NoGen)]
    /\ UNCHANGED <<user, store, userIndex, userIndexTTL, saved>>

SaveSession(r, life) ==
    LET i == visit[r].id
    IN  /\ visit[r].pc \in {"save", "saveRotated"}
        /\ Save(i, [auth |-> visit[r].gen.auth, sess |-> visit[r].gen.sess, life |-> life])
        /\ saved' = saved \cup {i}
        /\ IF visit[r].pc = "save" THEN VisitDone(r)
           ELSE visit' = [visit EXCEPT ![r] = NewVisit("deleteOthers", i, NoGen, NoGen)]
        /\ UNCHANGED <<user, next, proved>>

(* RotateSession, second half; when it fails, the new session goes again. *)
RotateSession(r, ok) ==
    /\ visit[r].pc = "deleteOthers"
    /\ IF ok THEN DeleteOthers(visit[r].id) ELSE Delete(visit[r].id)
    /\ VisitDone(r)
    /\ UNCHANGED <<user, next, saved, proved>>

(* GetSession reads the session of the cookie; it may be time to write it  *)
(* back with a new last_seen_at or a new policy revision.                  *)
GetSession(r, i, touch) ==
    /\ visit[r].pc = "idle"
    /\ Live(store[i])
    /\ visit' = [visit EXCEPT ![r] = NewVisit(IF touch THEN "touch" ELSE "check",
                                            i, NoGen, Gen(store[i]))]
    /\ UNCHANGED <<user, store, userIndex, userIndexTTL, next, saved, proved>>

(* The write back of GetSession: the data that were read, with a new life. *)
TouchSession(r, life) ==
    LET i == visit[r].id
        g == visit[r].seen
    IN  /\ visit[r].pc = "touch"
        /\ Update(i, [auth |-> g.auth, sess |-> g.sess, life |-> life], g)
        /\ visit' = [visit EXCEPT ![r] = IF Live(store[i]) /\ Gen(store[i]) = g
                                     THEN [@ EXCEPT !.pc = "check"] ELSE NoVisit]
        /\ UNCHANGED <<user, next, saved, proved>>

(* userAuthMiddleware compares with the user in PostgreSQL. *)
CheckSession(r) ==
    /\ visit[r].pc = "check"
    /\ IF SessionAccepted(visit[r].seen, user)
       THEN visit' = [visit EXCEPT ![r].pc = "handle"] /\ UNCHANGED <<store, userIndex, userIndexTTL>>
       ELSE VisitDone(r) /\ Delete(visit[r].id)
    /\ UNCHANGED <<user, next, saved, proved>>

(* Any other handler ends here. *)
Respond(r) ==
    /\ visit[r].pc = "handle"
    /\ VisitDone(r)
    /\ UNCHANGED <<user, store, userIndex, userIndexTTL, next, saved, proved>>

(* handlePasswordReauthentication reads the user again and verifies. *)
VerifyPassword(r) ==
    /\ visit[r].pc = "handle"
    /\ user.active
    /\ Proves(visit[r].id, Gen(user))
    /\ visit' = [visit EXCEPT ![r].pc = "record", ![r].gen = Gen(user)]
    /\ UNCHANGED <<user, store, userIndex, userIndexTTL, next, saved>>

(* Mutant of RecordAuthentication: the versions are not compared. *)
RecordAuthenticationAnyway(r) ==
    /\ visit[r].pc = "record"
    /\ visit' = [visit EXCEPT ![r].pc = "mark", ![r].gen = Gen(user)]
    /\ UNCHANGED <<user, store, userIndex, userIndexTTL, next, saved, proved>>

(* RecordAuthentication: the user is still the one that was verified. *)
RecordAuthentication(r) ==
    /\ visit[r].pc = "record"
    /\ visit' = [visit EXCEPT ![r] = IF SessionAccepted(visit[r].gen, user)
                                 THEN [@ EXCEPT !.pc = "mark"] ELSE NoVisit]
    /\ UNCHANGED <<user, store, userIndex, userIndexTTL, next, saved, proved>>

(* MarkReauthenticated: the session gets the versions of the user. *)
MarkReauthenticated(r, life) ==
    LET g == visit[r].gen
    IN  /\ visit[r].pc = "mark"
        /\ Update(visit[r].id, [auth |-> g.auth, sess |-> g.sess, life |-> life], visit[r].seen)
        /\ VisitDone(r)
        /\ UNCHANGED <<user, next, saved, proved>>

(* ChangePassword verifies the current password first ...                  *)
VerifyCurrentPassword(r) ==
    /\ visit[r].pc = "handle"
    /\ visit' = [visit EXCEPT ![r].pc = "update"]
    /\ UNCHANGED <<user, store, userIndex, userIndexTTL, next, saved, proved>>

(* ... and then sets the new one, whatever the row holds by now.           *)
UpdatePassword(r) ==
    /\ visit[r].pc = "update"
    /\ user.auth < MaxGeneration
    /\ user' = [user EXCEPT !.auth = @ + 1]
    /\ visit' = [visit EXCEPT ![r] = NewVisit("clean", visit[r].id, Gen(user'), NoGen)]
    /\ UNCHANGED <<store, userIndex, userIndexTTL, next, saved, proved>>

(* revokeUserSecurityState, best effort, before the session is rotated; it *)
(* has read the versions at some moment since the change.                  *)
RevokeUserSecurityState(r, a, s, ok) ==
    /\ visit[r].pc = "clean"
    /\ a >= visit[r].gen.auth /\ s >= visit[r].gen.sess
    /\ IF ok THEN DeleteBefore(a, s) ELSE UNCHANGED <<store, userIndex, userIndexTTL>>
    /\ visit' = [visit EXCEPT ![r] = NewVisit("createRotated", 0, visit[r].gen, NoGen)]
    /\ UNCHANGED <<user, next, saved, proved>>

(* Logout. *)
DestroySession(r) ==
    /\ visit[r].pc = "handle"
    /\ Delete(visit[r].id)
    /\ VisitDone(r)
    /\ UNCHANGED <<user, next, saved, proved>>

(* One session of the list is revoked by its public id, found or not.      *)
RevokeSession(r, i) ==
    /\ visit[r].pc = "handle"
    /\ \E seen \in SUBSET Dead : DeletePublic(i, seen)
    /\ VisitDone(r)
    /\ UNCHANGED <<user, next, saved, proved>>

(* The list of sessions forgets the names it finds to be gone. *)
ListSessions(r) ==
    /\ visit[r].pc = "handle"
    /\ Members(userIndex \ Dead, userIndexTTL)
    /\ VisitDone(r)
    /\ UNCHANGED <<user, store, next, saved, proved>>

RevokeOtherSessions(r) ==
    /\ visit[r].pc = "handle"
    /\ DeleteOthers(visit[r].id)
    /\ VisitDone(r)
    /\ UNCHANGED <<user, next, saved, proved>>

(* A request finds the session over under the lifecycle policy of today.   *)
ExpireByPolicy(i) ==
    /\ Live(store[i])
    /\ Delete(i)
    /\ UNCHANGED <<user, next, saved, proved, visit>>

(* The administrator (or the user elsewhere) changes password, role, MFA. *)
AdvanceGeneration ==
    /\ user.auth < MaxGeneration
    /\ user' = [user EXCEPT !.auth = @ + 1]
    /\ UNCHANGED <<store, userIndex, userIndexTTL, next, saved, proved, visit>>

(* The administrator suspends or activates the user. *)
ChangeStatus ==
    /\ user.auth < MaxGeneration
    /\ user' = [user EXCEPT !.auth = @ + 1, !.active = ~@]
    /\ UNCHANGED <<store, userIndex, userIndexTTL, next, saved, proved, visit>>

(* The administrator revokes all sessions: the generation advances. *)
RevokeSessions ==
    /\ user.sess < MaxGeneration
    /\ user' = [user EXCEPT !.sess = @ + 1]
    /\ UNCHANGED <<store, userIndex, userIndexTTL, next, saved, proved, visit>>

(* The clean-up of the sessions before some committed generation. *)
CleanBefore(a, s) ==
    /\ DeleteBefore(a, s)
    /\ UNCHANGED <<user, next, saved, proved, visit>>

(* The request ends early: a Redis or PostgreSQL error, a crash. *)
AbandonVisit(r) ==
    /\ visit[r].pc # "idle"
    /\ VisitDone(r)
    /\ UNCHANGED <<user, store, userIndex, userIndexTTL, next, saved, proved>>

(* A unit of time passes: Redis drops the keys whose life is over. *)
BrowserTick ==
    /\ store' = [i \in Ids |-> IF store[i].life > 1 THEN [store[i] EXCEPT !.life = @ - 1]
                               ELSE NoSession]
    /\ Members(IF userIndexTTL > 1 THEN userIndex ELSE {}, userIndexTTL - 1)
    /\ UNCHANGED <<user, next, saved, proved, visit>>

VisitStep(r) ==
    \/ Authenticate(r)
    \/ CreateSession(r)
    \/ \E life \in Lives : SaveSession(r, life) \/ TouchSession(r, life)
                           \/ MarkReauthenticated(r, life)
    \/ \E ok \in BOOLEAN :
          \/ RotateSession(r, ok)
          \/ \E a \in 1 .. user.auth, s \in 1 .. user.sess :
                RevokeUserSecurityState(r, a, s, ok)
    \/ \E i \in Ids, touch \in BOOLEAN : GetSession(r, i, touch)
    \/ \E i \in Ids : RevokeSession(r, i)
    \/ CheckSession(r) \/ Respond(r)
    \/ VerifyPassword(r) \/ RecordAuthentication(r)
    \/ VerifyCurrentPassword(r) \/ UpdatePassword(r)
    \/ DestroySession(r) \/ ListSessions(r) \/ RevokeOtherSessions(r)
    \/ AbandonVisit(r)

BrowserNext ==
    \/ \E r \in Visits : VisitStep(r)
    \/ AdvanceGeneration \/ ChangeStatus \/ RevokeSessions
    \/ \E a \in 1 .. user.auth, s \in 1 .. user.sess : CleanBefore(a, s)
    \/ \E i \in Ids : ExpireByPolicy(i)
    \/ BrowserTick

BrowserSpec == BrowserInit /\ [][BrowserNext]_browserVars

-----------------------------------------------------------------------------
(* Every variable has its type. *)
BrowserTypeOK ==
    /\ user \in [auth : Nat, sess : Nat, active : BOOLEAN]
    /\ store \in [Ids -> Session]
    /\ userIndex \subseteq Ids
    /\ userIndexTTL \in Nat
    /\ next \in 1 .. MaxSessions + 1
    /\ saved \subseteq Ids
    /\ proved \in [Ids -> SUBSET Generation]
    /\ visit \in [Visits -> Visit]

(* A session that was deleted, evicted or has expired never comes back,    *)
(* although requests that have read it before write it: UpdateSession      *)
(* works "without recreating" it.                                          *)
NoResurrection ==
    [][\A i \in saved : ~Live(store[i]) => ~Live(store'[i])]_browserVars

(* Every session is listed in the user's index, which lives as long as it: *)
(* revocation and the clean-up reach all sessions.                         *)
IndexReachesAll ==
    \A i \in LiveIds : i \in userIndex /\ store[i].life <= userIndexTTL

(* A session has only generations at which its holder has proved who he    *)
(* is: verified the password of that generation, or set it himself.  A     *)
(* password changed by someone else in the middle of a re-authentication   *)
(* does not lift the session to the new generation.                        *)
GenerationWasProved ==
    \A i \in LiveIds : Gen(store[i]) \in proved[i]

(* A session that a committed change has revoked does not become valid     *)
(* again: UpdateSession works "without [...] upgrading a session that was  *)
(* concurrently revoked".                                                  *)
RevokedNotUpgraded ==
    [][\A i \in LiveIds : ~SessionAccepted(store[i], user) /\ Live(store'[i]) =>
          ~SessionAccepted(store'[i], user')]_browserVars
-----------------------------------------------------------------------------
(* Inductive strengthening.  A session that a request is about to store    *)
(* has a number of its own that was never stored, and what a request is    *)
(* about to write was proved for that session.                             *)
VisitOK(r) ==
    LET v == visit[r]
    IN  /\ v.pc \notin {"idle", "create", "createRotated", "clean"} => v.id \in Ids
        /\ v.pc \in {"save", "saveRotated"} => v.id < next /\ v.id \notin saved
        /\ v.pc \in {"save", "saveRotated", "record", "mark"} => v.gen \in proved[v.id]
VisitsInv ==
    /\ \A i \in saved : i < next
    /\ \A r \in Visits : VisitOK(r)
    /\ \A r, q \in Visits :
          /\ visit[r].pc \in {"save", "saveRotated"} /\ visit[q].pc \in {"save", "saveRotated"}
          /\ visit[r].id = visit[q].id
          => r = q

BrowserInv ==
    /\ BrowserTypeOK
    /\ IndexReachesAll /\ GenerationWasProved /\ LiveIds \subseteq saved
    /\ VisitsInv
=============================================================================
