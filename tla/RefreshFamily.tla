--------------------------- MODULE RefreshFamily ---------------------------
(***************************************************************************)
(* The Redis side of refresh-token families (internal/session/store.go)    *)
(* under the requests of internal/auth/token.go that use them.             *)
(*                                                                         *)
(* Every Lua script and MULTI/EXEC pipeline is one atomic step; a request  *)
(* is a sequence of such steps, and requests of several server instances   *)
(* interleave.  A Redis key is modelled by its remaining life: 0 says that *)
(* the key does not exist, and Tick shortens every life.  Token numbers    *)
(* stand for the random token strings of one family, in the order of their *)
(* creation; the refresh and the access token of one answer share one.     *)
(*                                                                         *)
(* One user owns all families.  A request of a client that does not own    *)
(* the token changes nothing (ErrClientMismatch), and is left out.         *)
(***************************************************************************)
EXTENDS Integers

CONSTANTS
    Families,        \* family keys (digest of a random family id)
    Requests,        \* request slots: the requests in flight at one moment
    MaxTokens,       \* bound: tokens created in one family
    MaxVersion,      \* bound: the user's auth_version
    Lifetimes,       \* token lives the lifecycle policy may set, at any time
    RevocationTTL,   \* life of a revocation marker (TokenService.revocationTTL)
    RequestTimeout,  \* a request is over after this many ticks
    None             \* no family, no lifetimes

Tokens == 0 .. MaxTokens - 1

Longer(a, b) == IF a < b THEN b ELSE a

(* A family set lives for the longer of the two token lives. *)
FamilyTTL(l) == Longer(l.refresh, l.access)

ASSUME BoundsAssumption ==
    /\ MaxTokens \in Nat \ {0}
    /\ MaxVersion \in Nat \ {0}
    /\ RequestTimeout \in Nat
    /\ None \notin Families /\ None \notin Lifetimes

(* Requests are over (15 s) long before any token life or marker (5 min    *)
(* and more) is.                                                           *)
ASSUME LifetimesAssumption ==
    /\ Lifetimes \subseteq [refresh : Nat \ {0}, access : Nat \ {0}]
    /\ \A l \in Lifetimes : RequestTimeout < l.refresh
    /\ RevocationTTL \in Nat
    /\ RequestTimeout < RevocationTTL

(* No policy gives the family set a shorter life than another one gives an *)
(* access token.  The bounds of the settings (access 5 min to 24 h,        *)
(* refresh 1 h to 1 year) do not guarantee it, so it is a hypothesis of    *)
(* the theorems that need it and no assumption.                            *)
AccessWithinFamily == \A l, m \in Lifetimes : m.access <= FamilyTTL(l)

VARIABLES
    fam,          \* the Redis keys of each family
    index,        \* members of user-refresh-families
    indexTTL,     \* its remaining life
    authVersion,  \* users.auth_version in PostgreSQL
    req           \* requests in flight

vars == <<fam, index, indexTTL, authVersion, req>>

(***************************************************************************)
(* One family: its refresh, refresh-used and token keys, its member set    *)
(* (split by the kind of key), its revocation marker.  ended and spent     *)
(* are history: the family was revoked once; how often a token was         *)
(* exchanged for a new pair.                                               *)
(***************************************************************************)
Family == [ver : Nat, next : Nat,
           refresh : [Tokens -> Nat], used : [Tokens -> Nat],
           access : [Tokens -> Nat],
           rset : SUBSET Tokens, aset : SUBSET Tokens, setTTL : Nat,
           marker : Nat, ended : BOOLEAN, spent : [Tokens -> Nat]]

NoFamily == [ver |-> 0, next |-> 0,
             refresh |-> [t \in Tokens |-> 0], used |-> [t \in Tokens |-> 0],
             access |-> [t \in Tokens |-> 0],
             rset |-> {}, aset |-> {}, setTTL |-> 0,
             marker |-> 0, ended |-> FALSE, spent |-> [t \in Tokens |-> 0]]

(* The family has a refresh or an access token that Redis still knows. *)
Alive(F) == \E t \in Tokens : F.refresh[t] > 0 \/ F.access[t] > 0

(* A member of the family's set is such a token. *)
HasLiveMember(F) == (\E t \in F.rset : F.refresh[t] > 0) \/ \E t \in F.aset : F.access[t] > 0

(* A presented token is known, as a current or as a consumed one. *)
Known(F, t) == F.refresh[t] > 0 \/ F.used[t] > 0

-----------------------------------------------------------------------------
(* The scripts of the session store, as functions on one family. *)

(* SaveRefreshToken: token 0 of a new family issued at auth version v. *)
SaveRefreshToken(F, v, l) ==
    [F EXCEPT !.ver = v, !.next = 1,
              !.refresh = [@ EXCEPT ![0] = l.refresh],
              !.rset = {0}, !.setTTL = l.refresh]

(* saveFamilyTokenScript after its check of the marker. *)
SaveFamilyToken(F, t, ttl) ==
    [F EXCEPT !.access = [@ EXCEPT ![t] = ttl],
              !.aset = @ \cup {t}, !.setTTL = Longer(@, ttl)]

(* The members are deleted, then the set, and the marker is written. *)
RevokeFamily(F, ttl) ==
    [F EXCEPT !.refresh = [t \in Tokens |-> IF t \in F.rset THEN 0 ELSE @[t]],
              !.access = [t \in Tokens |-> IF t \in F.aset THEN 0 ELSE @[t]],
              !.rset = {}, !.aset = {}, !.setTTL = 0,
              !.marker = ttl, !.ended = TRUE]

(* Mutant of RotateFamily: the exchanged token is not deleted. *)
RotateFamilyKeepingOld(F, t, l) ==
    [F EXCEPT !.next = @ + 1,
              !.refresh = [@ EXCEPT ![F.next] = l.refresh],
              !.access = [@ EXCEPT ![F.next] = l.access],
              !.rset = @ \cup {F.next},
              !.aset = @ \cup {F.next},
              !.setTTL = FamilyTTL(l),
              !.used = [@ EXCEPT ![t] = l.refresh],
              !.spent = [@ EXCEPT ![t] = F.spent[t] + 1]]

(* rotateRefreshWithAccessScript when t is the current token. *)
RotateFamily(F, t, l) ==
    [F EXCEPT !.next = @ + 1,
              !.refresh = [@ EXCEPT ![F.next] = l.refresh, ![t] = 0],
              !.access = [@ EXCEPT ![F.next] = l.access],
              !.rset = (@ \cup {F.next}) \ {t},
              !.aset = @ \cup {F.next},
              !.setTTL = FamilyTTL(l),
              !.used = [@ EXCEPT ![t] = l.refresh],
              !.spent = [@ EXCEPT ![t] = F.spent[t] + 1]]

(* The pruning of expired members by the script that keeps the family. *)
PruneFamily(F) ==
    LET r == {t \in F.rset : F.refresh[t] > 0}
        a == {t \in F.aset : F.access[t] > 0}
    IN  [F EXCEPT !.rset = r, !.aset = a,
                  !.setTTL = IF r = {} /\ a = {} THEN 0 ELSE @]

Older(n) == IF n > 0 THEN n - 1 ELSE 0

(* One tick of the clock: keys whose life ends are gone. *)
AgeFamily(F) ==
    LET s == Older(F.setTTL)
    IN  [F EXCEPT !.refresh = [t \in Tokens |-> Older(@[t])],
                  !.used = [t \in Tokens |-> Older(@[t])],
                  !.access = [t \in Tokens |-> Older(@[t])],
                  !.rset = IF s = 0 THEN {} ELSE @,
                  !.aset = IF s = 0 THEN {} ELSE @,
                  !.setTTL = s,
                  !.marker = Older(@)]

(* SREM of families from the user's index; an empty set does not exist. *)
Unlist(S) ==
    /\ index' = index \ S
    /\ indexTTL' = IF index' = {} THEN 0 ELSE indexTTL

-----------------------------------------------------------------------------
NewRequest(pc, f, t, used, v, l) ==
    [pc |-> pc, fam |-> f, tok |-> t, used |-> used, ver |-> v, life |-> l, age |-> 0]

(* A free request slot. *)
NoRequest == NewRequest("idle", None, 0, FALSE, 0, None)

(* The program points of the requests: an issuing request stores the       *)
(* refresh token and then the access token; a refreshing one reads the     *)
(* presented token, validates it, and rotates the family or revokes it.    *)
Request == [pc : {"idle", "saveRefresh", "saveAccess", "validate", "rotate", "revoke"},
            fam : Families \cup {None}, tok : Tokens, used : BOOLEAN, ver : Nat,
            life : Lifetimes \cup {None}, age : 0 .. RequestTimeout]

Init ==
    /\ fam = [f \in Families |-> NoFamily]
    /\ index = {}
    /\ indexTTL = 0
    /\ authVersion = 1
    /\ req = [r \in Requests |-> NoRequest]

(* A token request passed its checks at the current auth version; l is the *)
(* lifecycle policy in force, a snapshot for the whole request.            *)
BeginIssue(r, l) ==
    /\ req[r].pc = "idle"
    /\ req' = [req EXCEPT ![r] = NewRequest("saveRefresh", None, 0, FALSE, authVersion, l)]
    /\ UNCHANGED <<fam, index, indexTTL, authVersion>>

(* Mutant of IssueRefreshToken: the family is not added to the index. *)
IssueRefreshTokenUnlisted(r, f) ==
    /\ req[r].pc = "saveRefresh"
    /\ fam[f].next = 0
    /\ fam' = [fam EXCEPT ![f] = SaveRefreshToken(@, req[r].ver, req[r].life)]
    /\ req' = [req EXCEPT ![r].pc = "saveAccess", ![r].fam = f, ![r].ver = 0]
    /\ UNCHANGED <<index, indexTTL, authVersion>>

(* generateTokenPair, first write: the family comes into being.  The life  *)
(* of the user's index is set to this token's life, whatever it was.       *)
IssueRefreshToken(r, f) ==
    /\ req[r].pc = "saveRefresh"
    /\ fam[f].next = 0
    /\ fam' = [fam EXCEPT ![f] = SaveRefreshToken(@, req[r].ver, req[r].life)]
    /\ index' = index \cup {f}
    /\ indexTTL' = req[r].life.refresh
    /\ req' = [req EXCEPT ![r].pc = "saveAccess", ![r].fam = f, ![r].ver = 0]
    /\ UNCHANGED authVersion

(* Mutant of IssueAccessToken: the marker is not looked at. *)
IssueAccessTokenUnchecked(r) ==
    /\ req[r].pc = "saveAccess"
    /\ fam' = [fam EXCEPT ![req[r].fam] =
                  SaveFamilyToken(@, req[r].tok, req[r].life.access)]
    /\ req' = [req EXCEPT ![r] = NoRequest]
    /\ UNCHANGED <<index, indexTTL, authVersion>>

(* generateTokenPair, second write; a revoked family refuses the token. *)
IssueAccessToken(r) ==
    /\ req[r].pc = "saveAccess"
    /\ fam[req[r].fam].marker = 0
    /\ fam' = [fam EXCEPT ![req[r].fam] =
                  SaveFamilyToken(@, req[r].tok, req[r].life.access)]
    /\ req' = [req EXCEPT ![r] = NoRequest]
    /\ UNCHANGED <<index, indexTTL, authVersion>>

(* The second write failed (a marker, or a Redis error): the refresh token *)
(* just stored is revoked.                                                 *)
IssueAccessTokenFails(r) ==
    /\ req[r].pc = "saveAccess"
    /\ req' = [req EXCEPT ![r].pc = "revoke", ![r].life = None]
    /\ UNCHANGED <<fam, index, indexTTL, authVersion>>

(* RefreshTokenWithClaimPolicy: lifetimes are read, then the token. *)
ReadRefreshToken(r, f, t, l) ==
    /\ req[r].pc = "idle"
    /\ Known(fam[f], t)
    /\ req' = [req EXCEPT ![r] = NewRequest("validate", f, t, fam[f].refresh[t] = 0, 0, l)]
    /\ UNCHANGED <<fam, index, indexTTL, authVersion>>

(* Scope, claims, reuse, user, authorization and access policy.  The scope *)
(* rules, the authorization and the access policy are not kept here:       *)
(* permitted is their joint verdict.                                       *)
ValidateRefresh(r, permitted) ==
    /\ req[r].pc = "validate"
    /\ LET valid == permitted /\ ~req[r].used /\ fam[req[r].fam].ver = authVersion
       IN  req' = [req EXCEPT ![r].pc = IF valid THEN "rotate" ELSE "revoke",
                              ![r].used = FALSE,
                              ![r].life = IF valid THEN @ ELSE None]
    /\ UNCHANGED <<fam, index, indexTTL, authVersion>>

(* Mutant of RotateRefreshToken: trusts the read before the validation. *)
RotateRefreshTokenStale(r) ==
    LET f == req[r].fam
    IN  /\ req[r].pc = "rotate"
        /\ fam[f].next < MaxTokens
        /\ fam' = [fam EXCEPT ![f] = RotateFamily(@, req[r].tok, req[r].life)]
        /\ index' = index \cup {f}
        /\ indexTTL' = Longer(indexTTL, req[r].life.refresh)
        /\ req' = [req EXCEPT ![r] = NoRequest]
        /\ UNCHANGED authVersion

(* RotateRefreshTokenAndStoreAccess: the script decides again.  The stored *)
(* payload of a family never changes, so it equals the one that was read.  *)
RotateRefreshToken(r) ==
    LET f == req[r].fam
        t == req[r].tok
    IN  /\ req[r].pc = "rotate"
        /\ \/ /\ fam[f].refresh[t] > 0 /\ fam[f].marker = 0
              /\ fam[f].next < MaxTokens
              /\ fam' = [fam EXCEPT ![f] = RotateFamily(@, t, req[r].life)]
              /\ index' = index \cup {f}
              /\ indexTTL' = Longer(indexTTL, req[r].life.refresh)
           \/ /\ Known(fam[f], t)
              /\ fam[f].refresh[t] > 0 => fam[f].marker > 0
              /\ fam' = [fam EXCEPT ![f] = RevokeFamily(@, req[r].life.refresh)]
              /\ Unlist({f})
           \/ /\ ~Known(fam[f], t)
              /\ UNCHANGED <<fam, index, indexTTL>>
        /\ req' = [req EXCEPT ![r] = NoRequest]
        /\ UNCHANGED authVersion

(* RevokeRefreshTokenForClient on the token of family f. *)
RevokePresented(f, t) ==
    IF Known(fam[f], t)
    THEN /\ fam' = [fam EXCEPT ![f] = RevokeFamily(@, RevocationTTL)]
         /\ Unlist({f})
    ELSE UNCHANGED <<fam, index, indexTTL>>

(* The revocation with which a refused request ends. *)
RevokeOnFailure(r) ==
    /\ req[r].pc = "revoke"
    /\ RevokePresented(req[r].fam, req[r].tok)
    /\ req' = [req EXCEPT ![r] = NoRequest]
    /\ UNCHANGED authVersion

(* The revocation endpoint, given a refresh token. *)
RevokeRefreshToken(f, t) ==
    /\ Known(fam[f], t)
    /\ RevokePresented(f, t)
    /\ UNCHANGED <<authVersion, req>>

(* The revocation endpoint, given a valid access token: only its own key   *)
(* is deleted, the family set keeps the name.                              *)
RevokeAccessToken(f, t) ==
    /\ fam[f].access[t] > 0
    /\ fam[f].ver = authVersion
    /\ fam' = [fam EXCEPT ![f].access = [@ EXCEPT ![t] = 0]]
    /\ UNCHANGED <<index, indexTTL, authVersion, req>>

(* A password change, a status change: the auth version advances. *)
AdvanceAuthVersion ==
    /\ authVersion < MaxVersion
    /\ authVersion' = authVersion + 1
    /\ UNCHANGED <<fam, index, indexTTL, req>>

(* revokeUserRefreshFamiliesScript (the user was deleted). *)
RevokeFamiliesForUser ==
    /\ fam' = [f \in Families |-> IF f \in index
                                  THEN RevokeFamily(fam[f], RevocationTTL)
                                  ELSE fam[f]]
    /\ index' = {}
    /\ indexTTL' = 0
    /\ UNCHANGED <<authVersion, req>>

(* revokeUserRefreshFamiliesBeforeAuthVersionScript with a version that    *)
(* was read from PostgreSQL earlier: listed families with a living member  *)
(* of an older version are revoked, the others are pruned.                 *)
RevokeFamiliesBeforeAuthVersion(v) ==
    LET old == {f \in index : HasLiveMember(fam[f]) /\ fam[f].ver < v}
        pruned == [f \in Families |-> IF f \in old
                                      THEN RevokeFamily(fam[f], RevocationTTL)
                                      ELSE IF f \in index THEN PruneFamily(fam[f])
                                      ELSE fam[f]]
    IN  /\ fam' = pruned
        /\ Unlist({f \in index : pruned[f].setTTL = 0})
        /\ UNCHANGED <<authVersion, req>>

(* The client goes away, the instance crashes, Redis does not answer. *)
Abandon(r) ==
    /\ req[r].pc # "idle"
    /\ req' = [req EXCEPT ![r] = NoRequest]
    /\ UNCHANGED <<fam, index, indexTTL, authVersion>>

(* Time passes, but never more than the server's timeouts within one request. *)
Tick ==
    /\ \A r \in Requests : req[r].pc # "idle" => req[r].age < RequestTimeout
    /\ fam' = [f \in Families |-> AgeFamily(fam[f])]
    /\ indexTTL' = Older(indexTTL)
    /\ index' = IF indexTTL' = 0 THEN {} ELSE index
    /\ req' = [r \in Requests |-> IF req[r].pc = "idle" THEN req[r]
                                  ELSE [req[r] EXCEPT !.age = @ + 1]]
    /\ UNCHANGED authVersion

RequestStep(r) ==
    \/ \E l \in Lifetimes : BeginIssue(r, l)
    \/ \E f \in Families : IssueRefreshToken(r, f)
    \/ IssueAccessToken(r)
    \/ IssueAccessTokenFails(r)
    \/ \E f \in Families, t \in Tokens, l \in Lifetimes : ReadRefreshToken(r, f, t, l)
    \/ \E permitted \in BOOLEAN : ValidateRefresh(r, permitted)
    \/ RotateRefreshToken(r)
    \/ RevokeOnFailure(r)
    \/ Abandon(r)

Next ==
    \/ \E r \in Requests : RequestStep(r)
    \/ \E f \in Families, t \in Tokens : RevokeRefreshToken(f, t) \/ RevokeAccessToken(f, t)
    \/ AdvanceAuthVersion
    \/ RevokeFamiliesForUser
    \/ \E v \in 1 .. authVersion : RevokeFamiliesBeforeAuthVersion(v)
    \/ Tick

Spec == Init /\ [][Next]_vars

-----------------------------------------------------------------------------
(* Every variable has its type: lives are naturals (a key that is gone has *)
(* none left), requests stand at one of their program points.              *)
TypeOK ==
    /\ fam \in [Families -> Family]
    /\ index \subseteq Families
    /\ indexTTL \in Nat
    /\ authVersion \in Nat
    /\ req \in [Requests -> Request]

(* A family never has two refresh tokens that can be exchanged, however    *)
(* concurrent refresh requests for it interleave.                          *)
OneLiveRefreshToken ==
    \A f \in Families, t, u \in Tokens :
        fam[f].refresh[t] > 0 /\ fam[f].refresh[u] > 0 => t = u

(* A family that was revoked once (reuse, refusal, revocation endpoint,    *)
(* user revocation) has no refresh and no access token ever after, also    *)
(* when the marker has expired and although a request that was under way   *)
(* during the revocation still writes.                                     *)
EndedFamilyStaysDead ==
    \A f \in Families : fam[f].ended => ~Alive(fam[f])

(* Every family with a living token is in the user's index, so that the    *)
(* revocation for a user reaches "every current refresh token and          *)
(* family-bound access-token record" of his.                               *)
UserRevocationReachesAll ==
    \A f \in Families : Alive(fam[f]) => f \in index

-----------------------------------------------------------------------------
(* The inductive strengthening of EndedFamilyStaysDead.  For one family:   *)
(* no key of a token that was not created yet; every living token is in    *)
(* the family set, which outlives it; one living refresh token at most.    *)
(* For access tokens the lives in the policies decide.                     *)
AccessOK(F) ==
    /\ \A t \in Tokens : F.access[t] > 0 => t \in F.aset /\ F.access[t] <= F.setTTL
    /\ \A t \in Tokens, l \in Lifetimes : F.access[t] <= FamilyTTL(l)
    /\ F.ended => \A t \in Tokens : F.access[t] = 0

FamilyOK(F) ==
    /\ F.next <= MaxTokens
    /\ \A t \in Tokens : t >= F.next => ~Known(F, t) /\ F.access[t] = 0
    /\ \A t \in Tokens : F.refresh[t] > 0 => t \in F.rset /\ F.refresh[t] <= F.setTTL
    /\ \A t, u \in Tokens : F.refresh[t] > 0 /\ F.refresh[u] > 0 => t = u
    /\ F.ended => F.next > 0 /\ \A t \in Tokens : F.refresh[t] = 0
    /\ AccessWithinFamily => AccessOK(F)

(* For one request: what it was given at its program point, and, when it   *)
(* is about to store an access token in a family that was revoked, that    *)
(* the revocation marker will still be there.                              *)
RequestOK(R, families) ==
    /\ R.pc \in {"saveRefresh", "saveAccess", "validate", "rotate"} => R.life \in Lifetimes
    /\ R.pc \in {"saveAccess", "validate", "rotate", "revoke"} => R.fam \in Families
    /\ R.pc = "saveRefresh" => R.tok = 0
    /\ R.pc = "saveAccess" =>
          /\ R.tok < families[R.fam].next
          /\ families[R.fam].ended => families[R.fam].marker + R.age > RequestTimeout

FamilyInv ==
    /\ TypeOK
    /\ \A f \in Families : FamilyOK(fam[f])
    /\ \A f \in index : fam[f].next > 0
    /\ \A r \in Requests : RequestOK(req[r], fam)

(* The policy leaves the life of refresh tokens as it is, and access       *)
(* tokens do not outlive them.                                             *)
SteadyLifetimes ==
    \A l, m \in Lifetimes : l.refresh = m.refresh /\ l.access + RequestTimeout <= l.refresh

(* The strengthening of UserRevocationReachesAll under SteadyLifetimes:    *)
(* what lives is listed, and the index outlives it; a family that is about *)
(* to get its access token has a refresh token of the request's age, or    *)
(* was revoked.                                                            *)
Listed(f) ==
    \A t \in Tokens :
        /\ fam[f].refresh[t] > 0 => f \in index /\ fam[f].refresh[t] <= indexTTL
        /\ fam[f].access[t] > 0 => f \in index /\ fam[f].access[t] <= indexTTL
        /\ \A l \in Lifetimes : fam[f].refresh[t] <= l.refresh
IssueOK(R) ==
    R.pc = "saveAccess" =>
        \/ fam[R.fam].ended
        \/ \E t \in Tokens : fam[R.fam].refresh[t] + R.age >= R.life.refresh
IndexInv ==
    /\ FamilyInv
    /\ \A f \in Families : Listed(f)
    /\ \A r \in Requests : IssueOK(req[r])

-----------------------------------------------------------------------------
(* What the families promise, seen without keys, lives and requests. *)
Issued == [f \in Families |-> {t \in Tokens : t < fam[f].next}]
Current == [f \in Families |-> {t \in Tokens : fam[f].refresh[t] > 0}]
Spent == [f \in Families |-> {t \in Tokens : fam[f].spent[t] > 0}]
Bearer == [f \in Families |-> {t \in Tokens : fam[f].access[t] > 0}]
Ended == {f \in Families : fam[f].ended}

Chain == INSTANCE RefreshChain WITH
            issued <- Issued, current <- Current, spent <- Spent,
            bearer <- Bearer, ended <- Ended

(* What the steps of the chain rely on: a token that was exchanged is not  *)
(* current any more.                                                       *)
ChainOK ==
    \A f \in Families : Current[f] \subseteq Issued[f] /\ Spent[f] \subseteq Issued[f] \ Current[f]
ChainInv == FamilyInv /\ ChainOK

(* The store implements the chain of refresh tokens: each token is         *)
(* exchanged at most once and only while it is the current one, and the    *)
(* end of a family is final.                                               *)
ImplementsChain == Chain!Spec
=============================================================================
