------------------------------ MODULE SigningKeys ------------------------------
(***************************************************************************)
(* The keys that sign access and ID tokens.  One key signs; a rotation     *)
(* turns it into a verification key that stays published for as long as a  *)
(* token may live, plus a margin.  A request reads the signing key and     *)
(* then takes the time its token starts at, while any instance rotates.    *)
(* Time is that of the database and of the instances, in units of the      *)
(* margin (defaultClockSkew): a request signs less than a margin after it  *)
(* read the key.                                                           *)
(***************************************************************************)
EXTENDS Naturals, FiniteSets

CONSTANTS Keys,        \* key ids
          Signers,     \* requests that sign tokens
          Rotation,    \* auth.jwk.rotation_interval
          MaxTTL,      \* the greatest access-token lifetime the policy accepts
          Skew,        \* defaultClockSkew
          NoKid,
          LastKeyTick     \* bound of the clock

ASSUME SigningAssumptions ==
    Rotation \in Nat \ {0} /\ MaxTTL \in Nat \ {0} /\ Skew \in Nat \ {0} /\ LastKeyTick \in Nat /\ NoKid \notin Keys

VARIABLES signingClock,
          keys,        \* jwk_keys
          signers,     \* the key a request has read, and when
          signedTokens       \* the token each request signed last
signingVars == <<signingClock, keys, signers, signedTokens>>

SigningKey == [status : {"none", "signing", "verification", "retired"}, started : Nat, until : Nat]
NoToken == [key |-> NoKid, expires |-> 0]

SigningTypeOK ==
    /\ signingClock \in Nat
    /\ keys \in [Keys -> SigningKey]
    /\ signers \in [Signers -> [key : Keys \cup {NoKid}, at : Nat]]
    /\ signedTokens \in [Signers -> [key : Keys \cup {NoKid}, expires : Nat]]

SigningInit ==
    /\ signingClock = 0
    /\ keys = [k \in Keys |-> [status |-> "none", started |-> 0, until |-> 0]]
    /\ signers = [s \in Signers |-> [key |-> NoKid, at |-> 0]]
    /\ signedTokens = [s \in Signers |-> NoToken]

\* Configure: how long a public key stays available after it stopped signing.
RetentionOfSkew == Skew
VerificationRetention == MaxTTL + Skew

Signing == {k \in Keys : keys[k].status = "signing"}

\* generateKey: the table with the new signing key k.
NewKeyIn(table, k) ==
    [table EXCEPT ![k] = [status |-> "signing", started |-> signingClock,
                          until |-> signingClock + Rotation + VerificationRetention]]

Retired == [k \in Keys |-> IF keys[k].status = "verification" /\ keys[k].until <= signingClock
                           THEN [keys[k] EXCEPT !.status = "retired"] ELSE keys[k]]

Replaced(table) == [k \in Keys |-> IF table[k].status = "signing"
                       THEN [table[k] EXCEPT !.status = "verification", !.until = signingClock + VerificationRetention]
                       ELSE table[k]]

\* RotateKeys, EnsureActiveKey: under the rotation lock; retires keys and replaces a signing key that is due.
Rotate(k) ==
    /\ keys[k].status = "none"
    /\ keys' = IF \E old \in Signing : signingClock < keys[old].started + Rotation
               THEN Retired ELSE NewKeyIn(Replaced(Retired), k)
    /\ UNCHANGED <<signingClock, signers, signedTokens>>

\* GenerateKey replaces the signing key at once.
GenerateKey(k) ==
    /\ keys[k].status = "none"
    /\ keys' = NewKeyIn(Replaced(keys), k)
    /\ UNCHANGED <<signingClock, signers, signedTokens>>

\* GetPrivateKey
GetPrivateKey(s, k) ==
    /\ k \in Signing /\ signers[s].key = NoKid
    /\ signers' = [signers EXCEPT ![s] = [key |-> k, at |-> signingClock]]
    /\ UNCHANGED <<signingClock, keys, signedTokens>>

\* signAccessToken, GenerateIDToken: the time is taken after the key was read.
SignToken(s, ttl) ==
    /\ signers[s].key # NoKid
    /\ signedTokens' = [signedTokens EXCEPT ![s] = [key |-> signers[s].key, expires |-> signingClock + ttl]]
    /\ signers' = [signers EXCEPT ![s] = [key |-> NoKid, at |-> 0]]
    /\ UNCHANGED <<signingClock, keys>>

SigningTick ==
    /\ signingClock < LastKeyTick
    /\ \A s \in Signers : signers[s].key # NoKid => signingClock + 1 < signers[s].at + Skew
    /\ signingClock' = signingClock + 1
    /\ UNCHANGED <<keys, signers, signedTokens>>

SigningNext ==
    \/ \E k \in Keys : Rotate(k) \/ GenerateKey(k) \/ \E s \in Signers : GetPrivateKey(s, k)
    \/ \E s \in Signers, ttl \in 1..MaxTTL : SignToken(s, ttl)
    \/ SigningTick
SigningSpec == SigningInit /\ [][SigningNext]_signingVars

\* ListActivePublicKeys
ActivePublicKeys == Signing \cup {k \in Keys : keys[k].status = "verification" /\ keys[k].until > signingClock}

(***************************************************************************)
(* A token can be verified for as long as it lives: its key is among those *)
(* published, however late after the rotation of its key it was signed.    *)
(***************************************************************************)
TokensVerify ==
    \A s \in Signers : signedTokens[s].expires > signingClock => signedTokens[s].key \in ActivePublicKeys

(* The inductive strengthening of TokensVerify.  Key k can be used for     *)
(* verification until time t, even if it is replaced or retired next.      *)
Covers(k, t) ==
    \/ keys[k].status = "signing"
    \/ keys[k].status = "verification" /\ keys[k].until >= t

\* A request signs in time with a key that was current when it read it.
SignerOK(s) ==
    signers[s].key # NoKid =>
        /\ signers[s].at <= signingClock /\ signingClock < signers[s].at + Skew
        /\ Covers(signers[s].key, signers[s].at + VerificationRetention)

TokenOK(s) ==
    signedTokens[s].expires > signingClock =>
        /\ signedTokens[s].key # NoKid
        /\ signedTokens[s].expires <= signingClock + MaxTTL
        /\ Covers(signedTokens[s].key, signedTokens[s].expires)

SigningInv == SigningTypeOK /\ \A s \in Signers : SignerOK(s) /\ TokenOK(s)
=============================================================================
