----------------------------- MODULE OAuthGrant -----------------------------
(***************************************************************************)
(* The authorization-code grant of one user to one client: consent, the    *)
(* code, its exchange and reuse, refresh, and the revocation of the        *)
(* authorization (internal/auth/handler.go, consent.go, token.go,          *)
(* internal/authorization, internal/session).                              *)
(*                                                                         *)
(* Redis orders grants and revocations by a logical time per user and      *)
(* client; PostgreSQL holds the row the user sees in the list of his       *)
(* authorizations.  A request works on both in separate steps.  A grant    *)
(* is named by its consent challenge; the code and all tokens that come of *)
(* it carry the grant's logical time and the client's revision.            *)
(*                                                                         *)
(* Left to a verdict (permitted): the checks of client credentials, PKCE,  *)
(* redirect URI, scopes, claims, user and access policy.                   *)
(***************************************************************************)
EXTENDS Integers

CONSTANTS
    Calls,        \* request slots
    MaxGrants,       \* bound: consent challenges
    MaxStamp,        \* bound: logical times
    MaxGrantChanges,      \* bound: changes of the client
    MaxExchanges,    \* bound: exchanges of one code that are counted
    CodeTTL,         \* life of a code
    CodeRetention,   \* how long a consumed code is remembered
    TokenTTL,        \* the longest life of a token under any policy
    StateTTL,        \* life of logical clock and revocation marker
    CallTimeout   \* a request is over after this many ticks

Grants == 1 .. MaxGrants

ASSUME GrantBounds ==
    /\ MaxGrants \in Nat \ {0} /\ MaxStamp \in Nat \ {0}
    /\ MaxGrantChanges \in Nat /\ MaxExchanges \in Nat \ {0}

(* A marker outlives everything that requests begun before it can store:   *)
(* StateTTL is the longest token life and five minutes more, a code lives  *)
(* for minutes and a request for seconds.                                  *)
ASSUME GrantLifetimes ==
    /\ CodeTTL \in Nat \ {0} /\ CodeRetention \in Nat \ {0} /\ TokenTTL \in Nat \ {0}
    /\ CallTimeout \in Nat /\ StateTTL \in Nat
    /\ TokenTTL + CallTimeout <= StateTTL
    /\ CodeTTL + 2 * CallTimeout < StateTTL

VARIABLES
    grantClient,    \* identity and authorization revision of the client
    row,       \* oauth_authorizations
    clock,     \* Redis: the last logical time
    marker,    \* Redis: the logical time of the last revocation
    last,      \* history: the last logical time given out
    grantConsent,   \* Redis: consent challenges, with the revisions the user saw
    grant,     \* logical time and authorization revision of each grant
    code,      \* Redis: codes and consumed codes
    tok,       \* Redis: life of the newest access and refresh token of a grant
    revoked,   \* history: grants that had begun before some revocation
    call        \* requests in flight

grantVars == <<grantClient, row, clock, marker, last, grantConsent, grant, code, tok, revoked, call>>

Revisions == [ident : Nat, auth : Nat]

Key == [val : Nat, ttl : Nat]

NoKey == [val |-> 0, ttl |-> 0]

(* granted = 0: there is no row; revoked = 0: revoked_at IS NULL. *)
Row == [granted : Nat, revoked : Nat]

(* exchanged is history: how many exchanges of the code were let through. *)
Code == [life : Nat, used : Nat, exchanged : 0 .. MaxExchanges]

NewCall(pc, g, m) == [pc |-> pc, g |-> g, m |-> m, age |-> 0]

NoCall == NewCall("idle", 0, 0)

Call == [pc : {"idle", "stamp", "upsert", "saveCode", "consume", "check", "store",
                  "revokeMarker", "revokeRow", "rotate", "revokeFamily"},
            g : Grants \cup {0}, m : Nat, age : 0 .. CallTimeout]

GrantInit ==
    /\ grantClient = [ident |-> 1, auth |-> 1]
    /\ row = [granted |-> 0, revoked |-> 0]
    /\ clock = NoKey /\ marker = NoKey /\ last = 0
    /\ grantConsent = [g \in Grants |-> [open |-> FALSE, new |-> TRUE, ident |-> 0, auth |-> 0]]
    /\ grant = [g \in Grants |-> [issued |-> 0, auth |-> 0]]
    /\ code = [g \in Grants |-> [life |-> 0, used |-> 0, exchanged |-> 0]]
    /\ tok = [g \in Grants |-> [access |-> 0, refresh |-> 0]]
    /\ revoked = {}
    /\ call = [r \in Calls |-> NoCall]

Later(a, b) == IF a < b THEN b ELSE a

-----------------------------------------------------------------------------
(* The logical time.  wall is what Redis reads from its clock, which may   *)
(* stand still or go back; when the key of the logical clock has expired,  *)
(* the clock has not gone back by as much as StateTTL.                     *)

Wall == {w \in 0 .. last + 1 : clock.ttl = 0 => w > last}

(* Mutant of NextStamp: the wall clock alone. *)
NextStampOfWall(wall) == Later(wall, 1)

NextStamp(wall) ==
    Later(wall, Later(IF clock.ttl > 0 THEN clock.val + 1 ELSE 0,
                      IF marker.ttl > 0 THEN marker.val + 1 ELSE 0))

(* A time was given out: the key of the clock is written. *)
SetClock(m) ==
    /\ m <= MaxStamp
    /\ clock' = [val |-> m, ttl |-> StateTTL]
    /\ last' = Later(last, m)

(* IsUserClientAuthorizationRevoked *)
IsRevoked(m) == marker.ttl > 0 /\ m <= marker.val

(* validateAuthorization for the tokens of grant g. *)
Valid(g) == ~IsRevoked(grant[g].issued) /\ grant[g].auth = grantClient.auth

(* Some token of the grant is accepted. *)
GrantAccepted(g) == (tok[g].access > 0 \/ tok[g].refresh > 0) /\ Valid(g)

CallTo(r, pc) == call' = [call EXCEPT ![r].pc = pc]

CallDone(r) == call' = [call EXCEPT ![r] = NoCall]

-----------------------------------------------------------------------------
(* Authorize: the challenge carries the client as the user will see it. *)
Authorize(g) ==
    /\ grantConsent[g].new
    /\ grantConsent' = [grantConsent EXCEPT ![g] = [open |-> TRUE, new |-> FALSE,
                                          ident |-> grantClient.ident, auth |-> grantClient.auth]]
    /\ UNCHANGED <<grantClient, row, clock, marker, last, grant, code, tok, revoked, call>>

(* DenyConsent, or ten minutes have passed. *)
DropGrantConsent(g) ==
    /\ grantConsent[g].open
    /\ grantConsent' = [grantConsent EXCEPT ![g].open = FALSE]
    /\ UNCHANGED <<grantClient, row, clock, marker, last, grant, code, tok, revoked, call>>

Unchanged(g) == grantConsent[g].ident = grantClient.ident /\ grantConsent[g].auth = grantClient.auth

(* AcceptConsent: the script takes the challenge; the client must be the   *)
(* one the user saw.                                                       *)
AcceptGrant(r, g, permitted) ==
    /\ call[r].pc = "idle"
    /\ grantConsent[g].open
    /\ grantConsent' = [grantConsent EXCEPT ![g].open = FALSE]
    /\ call' = [call EXCEPT ![r] = IF permitted /\ Unchanged(g)
                                 THEN NewCall("stamp", g, 0) ELSE NoCall]
    /\ UNCHANGED <<grantClient, row, clock, marker, last, grant, code, tok, revoked>>

(* AuthorizationIssueTime *)
AuthorizationIssueTime(r, wall) ==
    LET g == call[r].g
        m == NextStamp(wall)
    IN  /\ call[r].pc = "stamp"
        /\ SetClock(m)
        /\ grant' = [grant EXCEPT ![g] = [issued |-> m, auth |-> grantConsent[g].auth]]
        /\ CallTo(r, "upsert")
        /\ UNCHANGED <<grantClient, row, marker, grantConsent, code, tok, revoked>>

(* UpsertExpected: the client is compared again, under a lock; a newer     *)
(* grant or a newer revocation in the row stays, without an error.         *)
UpsertExpectedRow(r) ==
    LET g == call[r].g
        m == grant[g].issued
    IN  /\ call[r].pc = "upsert"
        /\ row' = IF Unchanged(g) /\ row.granted <= m /\ row.revoked < m
                  THEN [granted |-> m, revoked |-> 0] ELSE row
        /\ IF Unchanged(g) THEN CallTo(r, "saveCode") ELSE CallDone(r)
        /\ UNCHANGED <<grantClient, clock, marker, last, grantConsent, grant, code, tok, revoked>>

SaveAuthorizationCode(r) ==
    /\ call[r].pc = "saveCode"
    /\ code' = [code EXCEPT ![call[r].g].life = CodeTTL]
    /\ CallDone(r)
    /\ UNCHANGED <<grantClient, row, clock, marker, last, grantConsent, grant, tok, revoked>>

-----------------------------------------------------------------------------
(* The token endpoint reads the code, or the consumed code, and checks what *)
(* it is bound to.                                                          *)
GetAuthorizationCode(r, g) ==
    /\ call[r].pc = "idle"
    /\ code[g].life > 0 \/ code[g].used > 0
    /\ grant[g].auth = grantClient.auth
    /\ call' = [call EXCEPT ![r] = NewCall(IF code[g].life > 0 THEN "consume"
                                            ELSE "revokeMarker", g, 0)]
    /\ UNCHANGED <<grantClient, row, clock, marker, last, grantConsent, grant, code, tok, revoked>>

Consumed(C) == [C EXCEPT !.life = 0, !.used = CodeRetention,
                         !.exchanged = IF @ < MaxExchanges THEN @ + 1 ELSE @]

(* Mutant of ConsumeAuthorizationCode: trusts the code that was read. *)
ConsumeStaleCode(r, permitted) ==
    LET g == call[r].g
    IN  /\ call[r].pc = "consume"
        /\ code' = [code EXCEPT ![g] = Consumed(@)]
        /\ CallTo(r, "check")
        /\ UNCHANGED <<grantClient, row, clock, marker, last, grantConsent, grant, tok, revoked>>

(* ConsumeAuthorizationCodeIfMatch decides who has the code. *)
ConsumeAuthorizationCode(r, permitted) ==
    LET g == call[r].g
    IN  /\ call[r].pc = "consume"
        /\ \/ /\ permitted /\ code[g].life > 0
              /\ code' = [code EXCEPT ![g] = Consumed(@)]
              /\ CallTo(r, "check")
           \/ /\ permitted /\ code[g].life = 0 /\ code[g].used > 0
              /\ CallTo(r, "revokeMarker")
              /\ UNCHANGED code
           \/ /\ permitted => code[g].life = 0 /\ code[g].used = 0
              /\ CallDone(r)
              /\ UNCHANGED code
        /\ UNCHANGED <<grantClient, row, clock, marker, last, grantConsent, grant, tok, revoked>>

(* GenerateAuthorizationCodeTokenPair...: is the authorization active? *)
CheckAuthorization(r) ==
    /\ call[r].pc = "check"
    /\ IF Valid(call[r].g) THEN CallTo(r, "store") ELSE CallDone(r)
    /\ UNCHANGED <<grantClient, row, clock, marker, last, grantConsent, grant, code, tok, revoked>>

(* generateTokenPair *)
GenerateTokenPair(r, offline) ==
    /\ call[r].pc = "store"
    /\ tok' = [tok EXCEPT ![call[r].g] =
                  [access |-> TokenTTL, refresh |-> IF offline THEN TokenTTL ELSE 0]]
    /\ CallDone(r)
    /\ UNCHANGED <<grantClient, row, clock, marker, last, grantConsent, grant, code, revoked>>

(* RefreshTokenWithClaimPolicy reads the token and validates it. *)
RefreshToken(r, g, permitted) ==
    /\ call[r].pc = "idle"
    /\ tok[g].refresh > 0
    /\ call' = [call EXCEPT ![r] = NewCall(IF permitted /\ Valid(g) THEN "rotate"
                                            ELSE "revokeFamily", g, 0)]
    /\ UNCHANGED <<grantClient, row, clock, marker, last, grantConsent, grant, code, tok, revoked>>

NoTokens == [access |-> 0, refresh |-> 0]

(* A refused refresh revokes the family. *)
RevokeGrantFamily(r) ==
    /\ call[r].pc = "revokeFamily"
    /\ tok' = [tok EXCEPT ![call[r].g] = NoTokens]
    /\ CallDone(r)
    /\ UNCHANGED <<grantClient, row, clock, marker, last, grantConsent, grant, code, revoked>>

(* RotateRefreshTokenAndStoreAccess, when the token is still there. *)
RotateGrantToken(r) ==
    LET g == call[r].g
    IN  /\ call[r].pc = "rotate"
        /\ tok' = IF tok[g].refresh > 0
                  THEN [tok EXCEPT ![g] = [access |-> TokenTTL, refresh |-> TokenTTL]] ELSE tok
        /\ CallDone(r)
        /\ UNCHANGED <<grantClient, row, clock, marker, last, grantConsent, grant, code, revoked>>

(* The client revokes its own tokens. *)
RevokeToken(g) ==
    /\ tok[g].access > 0 \/ tok[g].refresh > 0
    /\ tok' = [tok EXCEPT ![g] = NoTokens]
    /\ UNCHANGED <<grantClient, row, clock, marker, last, grantConsent, grant, code, revoked, call>>

-----------------------------------------------------------------------------
(* The user revokes the authorization of the client, whether there is one  *)
(* or not.                                                                 *)
RevokeMyAuthorization(r) ==
    /\ call[r].pc = "idle"
    /\ call' = [call EXCEPT ![r] = NewCall("revokeMarker", 0, 0)]
    /\ UNCHANGED <<grantClient, row, clock, marker, last, grantConsent, grant, code, tok, revoked>>

(* RevokeUserClientAuthorization, for him or for a code that was used      *)
(* twice: from now on no grant that has a logical time yet is valid.       *)
RevokeMarker(r, wall) ==
    LET m == NextStamp(wall)
    IN  /\ call[r].pc = "revokeMarker"
        /\ SetClock(m)
        /\ marker' = [val |-> m, ttl |-> StateTTL]
        /\ revoked' = revoked \cup {g \in Grants : grant[g].issued > 0}
        /\ call' = [call EXCEPT ![r].pc = "revokeRow", ![r].m = m]
        /\ UNCHANGED <<grantClient, row, grantConsent, grant, code, tok>>

(* Mutant of RevokeRow: a row renewed in between is revoked too. *)
RevokeRowAnyway(r) ==
    /\ call[r].pc = "revokeRow"
    /\ row' = IF row.granted > 0 /\ row.revoked = 0
              THEN [row EXCEPT !.revoked = call[r].m] ELSE row
    /\ CallDone(r)
    /\ UNCHANGED <<grantClient, clock, marker, last, grantConsent, grant, code, tok, revoked>>

(* authorization.Store.Revoke: not a row that was renewed in between. *)
RevokeRow(r) ==
    /\ call[r].pc = "revokeRow"
    /\ row' = IF row.granted > 0 /\ row.revoked = 0 /\ row.granted <= call[r].m
              THEN [row EXCEPT !.revoked = call[r].m] ELSE row
    /\ CallDone(r)
    /\ UNCHANGED <<grantClient, clock, marker, last, grantConsent, grant, code, tok, revoked>>

(* The client's name or links change, or also what it is allowed to do. *)
ChangeGrantClient(revision) ==
    /\ grantClient.ident + grantClient.auth < 2 + MaxGrantChanges
    /\ grantClient' = [grantClient EXCEPT ![revision] = @ + 1]
    /\ UNCHANGED <<row, clock, marker, last, grantConsent, grant, code, tok, revoked, call>>

(* A store does not answer, the instance crashes, the browser goes away. *)
AbandonCall(r) ==
    /\ call[r].pc # "idle"
    /\ CallDone(r)
    /\ UNCHANGED <<grantClient, row, clock, marker, last, grantConsent, grant, code, tok, revoked>>

OlderGrant(n) == IF n > 0 THEN n - 1 ELSE 0

(* A key whose life ends is gone with its value. *)
Aged(k) == IF k.ttl > 1 THEN [k EXCEPT !.ttl = OlderGrant(@)] ELSE NoKey

(* Time passes, within no request more than the server's timeouts allow. *)
GrantTick ==
    /\ \A r \in Calls : call[r].pc # "idle" => call[r].age < CallTimeout
    /\ clock' = Aged(clock) /\ marker' = Aged(marker)
    /\ code' = [g \in Grants |-> [code[g] EXCEPT !.life = OlderGrant(@), !.used = OlderGrant(@)]]
    /\ tok' = [g \in Grants |-> [access |-> OlderGrant(tok[g].access),
                                 refresh |-> OlderGrant(tok[g].refresh)]]
    /\ call' = [r \in Calls |-> IF call[r].pc = "idle" THEN call[r]
                                  ELSE [call[r] EXCEPT !.age = @ + 1]]
    /\ UNCHANGED <<grantClient, row, last, grantConsent, grant, revoked>>

CallStep(r) ==
    \/ \E g \in Grants, permitted \in BOOLEAN :
          AcceptGrant(r, g, permitted) \/ RefreshToken(r, g, permitted)
    \/ \E wall \in Wall : AuthorizationIssueTime(r, wall) \/ RevokeMarker(r, wall)
    \/ UpsertExpectedRow(r) \/ SaveAuthorizationCode(r)
    \/ \E g \in Grants : GetAuthorizationCode(r, g)
    \/ \E permitted \in BOOLEAN : ConsumeAuthorizationCode(r, permitted)
    \/ CheckAuthorization(r)
    \/ \E offline \in BOOLEAN : GenerateTokenPair(r, offline)
    \/ RotateGrantToken(r) \/ RevokeGrantFamily(r)
    \/ RevokeMyAuthorization(r) \/ RevokeRow(r)
    \/ AbandonCall(r)

GrantNext ==
    \/ \E r \in Calls : CallStep(r)
    \/ \E g \in Grants : Authorize(g) \/ DropGrantConsent(g) \/ RevokeToken(g)
    \/ \E revision \in {"ident", "auth"} : ChangeGrantClient(revision)
    \/ GrantTick

GrantSpec == GrantInit /\ [][GrantNext]_grantVars

-----------------------------------------------------------------------------
(* Every variable has its type. *)
GrantTypeOK ==
    /\ grantClient \in Revisions /\ row \in Row
    /\ clock \in Key /\ marker \in Key /\ last \in Nat
    /\ grantConsent \in [Grants -> [open : BOOLEAN, new : BOOLEAN, ident : Nat, auth : Nat]]
    /\ grant \in [Grants -> [issued : Nat, auth : Nat]]
    /\ code \in [Grants -> Code]
    /\ tok \in [Grants -> [access : Nat, refresh : Nat]]
    /\ revoked \subseteq Grants
    /\ call \in [Calls -> Call]

(* A code is exchanged for tokens at most once, however token requests     *)
(* with it interleave.                                                     *)
CodeExchangedOnce ==
    \A g \in Grants : code[g].exchanged <= 1

(* No token of a grant that had begun before a revocation (by the user, or *)
(* because its code was used twice) is ever accepted again: not the ones   *)
(* stored by requests that were under way, not after the wall clock of     *)
(* Redis has gone back, and not when the marker has expired.               *)
RevokedGrantStaysDead ==
    \A g \in revoked : ~GrantAccepted(g)

(* As long as some token of the client is accepted, the user finds an      *)
(* active authorization of the client in his list, at least as new, and    *)
(* so can revoke it.                                                       *)
LiveGrantIsListed ==
    \A g \in Grants : GrantAccepted(g) => row.revoked = 0 /\ row.granted >= grant[g].issued
-----------------------------------------------------------------------------
(* Inductive strengthenings.  Logical times are given out in order.        *)
StampsInv ==
    /\ clock.ttl > 0 => clock.val = last
    /\ marker.ttl > 0 => marker.val <= last
    /\ row.revoked <= last
    /\ \A g \in Grants : grant[g].issued <= last
    /\ \A r \in Calls : call[r].pc = "revokeRow" => call[r].m <= last

(* One request makes the grant of a challenge and stores its code.         *)
Minting == {"stamp", "upsert", "saveCode"}
Asked(g) == grantConsent[g].new \/ grantConsent[g].open
Begun(g) ==
    \/ code[g].life > 0 \/ tok[g].access > 0 \/ tok[g].refresh > 0
    \/ \E r \in Calls : call[r].g = g /\ call[r].pc \in {"saveCode", "consume", "check", "store", "rotate"}
MintOK(r) ==
    LET g == call[r].g
    IN  /\ call[r].pc \notin {"idle", "revokeMarker", "revokeRow"} => g \in Grants
        /\ call[r].pc \in Minting => ~Asked(g) /\ code[g].life = 0 /\ code[g].exchanged = 0
        /\ call[r].pc = "stamp" => grant[g].issued = 0
        /\ call[r].pc = "upsert" => grant[g].issued > 0
MintInv ==
    /\ \A r \in Calls : MintOK(r)
    /\ \A r, q \in Calls : call[r].pc \in Minting /\ call[q].pc \in Minting /\ call[r].g = call[q].g => r = q
    /\ \A g \in Grants :
          /\ grantConsent[g].open => ~grantConsent[g].new
          /\ Asked(g) => grant[g].issued = 0 /\ code[g].exchanged = 0
          /\ Begun(g) => grant[g].issued > 0
          /\ code[g].life > 0 => code[g].exchanged = 0
          /\ tok[g].access <= TokenTTL /\ tok[g].refresh <= TokenTTL /\ code[g].life <= CodeTTL

(* The marker of the last revocation outlives whatever a revoked grant has *)
(* left: its tokens, its code and the requests that are under way.         *)
LeftOK(g, r) ==
    LET rest == CallTimeout - call[r].age
    IN  /\ call[r].pc \in {"upsert", "saveCode"} => CodeTTL + CallTimeout + rest <= marker.ttl
        /\ call[r].pc \in {"consume", "check"} => rest < marker.ttl
        /\ call[r].pc \in {"store", "rotate"} => TokenTTL + rest <= marker.ttl
RevokedInv ==
    \A g \in revoked :
        /\ grant[g].issued > 0
        /\ marker.ttl > 0 => grant[g].issued <= marker.val
        /\ tok[g].access <= marker.ttl /\ tok[g].refresh <= marker.ttl
        /\ code[g].life > 0 => code[g].life + CallTimeout <= marker.ttl
        /\ \A r \in Calls : call[r].g = g => LeftOK(g, r)

(* The row is revoked only for grants that are, and lists all others.      *)
StampedBy(m) == {g \in Grants : 0 < grant[g].issued /\ grant[g].issued <= m}
RowInv ==
    /\ row.revoked > 0 => row.granted <= row.revoked /\ StampedBy(row.revoked) \subseteq revoked
    /\ \A r \in Calls : call[r].pc = "revokeRow" => StampedBy(call[r].m) \subseteq revoked
    /\ \A g \in Grants \ revoked : Begun(g) => row.revoked = 0 /\ row.granted >= grant[g].issued

GrantInv == GrantTypeOK /\ CodeExchangedOnce /\ StampsInv /\ MintInv /\ RevokedInv /\ RowInv
=============================================================================
