----------------------------- MODULE GrantsProof -----------------------------
(***************************************************************************)
(* Theorems about what a signed-in user holds and who may issue it:        *)
(* signing keys, pauses of the service, browser sessions, grants by        *)
(* authorization code.  Each part is proved on its own, for every value of *)
(* its constants.                                                          *)
(***************************************************************************)
EXTENDS SigningKeys, ServiceControl, BrowserSession, OAuthGrant, TLAPS

-----------------------------------------------------------------------------
(* Signing keys: every key that a request holds or that a token needs is   *)
(* signing, or is kept for verification long enough.                       *)

LEMMA SigningInitInv == SigningInit => SigningInv
  BY SigningAssumptions
  DEF SigningInit, SigningInv, SigningTypeOK, SigningKey, NoToken, SignerOK, TokenOK

LEMMA NewKeyType ==
    ASSUME SigningTypeOK, NEW table \in [Keys -> SigningKey], NEW j \in Keys
    PROVE  NewKeyIn(Replaced(table), j) \in [Keys -> SigningKey]
<1>1. VerificationRetention \in Nat /\ Rotation \in Nat /\ signingClock \in Nat
  BY SigningAssumptions DEF VerificationRetention, SigningTypeOK
<1>2. ASSUME NEW x \in Keys
      PROVE  (IF table[x].status = "signing"
              THEN [table[x] EXCEPT !.status = "verification", !.until = signingClock + VerificationRetention]
              ELSE table[x]) \in SigningKey
  <2>1. signingClock + VerificationRetention \in Nat
    BY <1>1
  <2>2. table[x] \in SigningKey
    OBVIOUS
  <2> QED
    BY <2>1, <2>2 DEF SigningKey
<1>3. Replaced(table) \in [Keys -> SigningKey]
  BY <1>2 DEF Replaced
<1>4. [status |-> "signing", started |-> signingClock,
       until |-> signingClock + Rotation + VerificationRetention] \in SigningKey
  BY <1>1 DEF SigningKey
<1> QED
  BY <1>3, <1>4 DEF NewKeyIn

(* Replacing the signing key keeps it for as long as what it signed, or a  *)
(* request that holds it will sign, can live.                              *)
LEMMA ReplacedKeepsCovers ==
    ASSUME SigningTypeOK, NEW table \in [Keys -> SigningKey], NEW k \in Keys,
           NEW j \in Keys, table[j].status = "none", NEW t \in Nat,
           t <= signingClock + VerificationRetention,
           \/ table[k].status = "signing"
           \/ table[k].status = "verification" /\ table[k].until >= t
    PROVE  LET new == NewKeyIn(Replaced(table), j)
           IN  new[k].status = "verification" /\ new[k].until >= t
<1>1. VerificationRetention \in Nat /\ signingClock \in Nat
  BY SigningAssumptions DEF VerificationRetention, SigningTypeOK
<1>2. Replaced(table)[k].status = "verification" /\ Replaced(table)[k].until >= t
  BY <1>1 DEF Replaced, SigningKey
<1>3. NewKeyIn(Replaced(table), j)[k] = Replaced(table)[k]
  BY DEF NewKeyIn, Replaced
<1> QED
  BY <1>2, <1>3

LEMMA RetiredKeepsCovers ==
    ASSUME SigningTypeOK
    PROVE  /\ Retired \in [Keys -> SigningKey]
           /\ \A k \in Keys : /\ Retired[k].status = "none" <=> keys[k].status = "none"
                              /\ \A t \in Nat : t > signingClock /\ Covers(k, t) =>
                                    \/ Retired[k].status = "signing"
                                    \/ Retired[k].status = "verification" /\ Retired[k].until >= t
<1>1. ASSUME NEW k \in Keys
      PROVE  keys[k] \in SigningKey /\ [keys[k] EXCEPT !.status = "retired"] \in SigningKey
  BY DEF SigningTypeOK, SigningKey
<1>2. signingClock \in Nat
  BY DEF SigningTypeOK
<1>3. Retired \in [Keys -> SigningKey]
  BY <1>1 DEF Retired
<1>4. ASSUME NEW k \in Keys
      PROVE  Retired[k].status = "none" <=> keys[k].status = "none"
  BY <1>1 DEF Retired, SigningKey
<1>5. ASSUME NEW k \in Keys, NEW t \in Nat, t > signingClock, Covers(k, t)
      PROVE  \/ Retired[k].status = "signing"
             \/ Retired[k].status = "verification" /\ Retired[k].until >= t
  <2>1. keys[k].until \in Nat
    BY <1>1 DEF SigningKey
  <2> QED
    BY <1>2, <1>5, <2>1 DEF Retired, Covers
<1> QED
  BY <1>3, <1>4, <1>5

(* A step that only changes keys and keeps what is covered from now on     *)
(* keeps the invariant.                                                    *)
LEMMA SigningKeysStep ==
    ASSUME SigningInv, UNCHANGED <<signingClock, signers, signedTokens>>,
           keys' \in [Keys -> SigningKey],
           \A k \in Keys, t \in Nat :
              /\ t > signingClock
              /\ t <= signingClock + VerificationRetention
              /\ Covers(k, t)
              => Covers(k, t)'
    PROVE  SigningInv'
<1>1. VerificationRetention \in Nat /\ MaxTTL \in Nat /\ Skew \in Nat
      /\ VerificationRetention = MaxTTL + Skew
  BY SigningAssumptions DEF VerificationRetention
<1>2. SigningTypeOK'
  BY DEF SigningInv, SigningTypeOK
<1>3. ASSUME NEW s \in Signers PROVE SignerOK(s)'
  <2> DEFINE g == signers[s]
             u == g.at + VerificationRetention
  <2>1. g.at \in Nat /\ g.key \in Keys \cup {NoKid} /\ signingClock \in Nat
    BY DEF SigningInv, SigningTypeOK
  <2>2. SignerOK(s)
    BY DEF SigningInv
  <2>3. CASE g.key # NoKid
    <3>1. g.at <= signingClock /\ signingClock < g.at + Skew /\ Covers(g.key, u)
      BY <2>2, <2>3 DEF SignerOK
    <3>2. u \in Nat /\ u > signingClock /\ u <= signingClock + VerificationRetention
      BY <1>1, <2>1, <3>1
    <3>3. Covers(g.key, u)'
      BY <2>1, <2>3, <3>1, <3>2 DEF Covers
    <3> QED
      BY <3>1, <3>3 DEF SignerOK, VerificationRetention, Covers
  <2> QED
    BY <2>3 DEF SignerOK
<1>4. ASSUME NEW s \in Signers PROVE TokenOK(s)'
  <2> DEFINE g == signedTokens[s]
  <2>1. g.expires \in Nat /\ g.key \in Keys \cup {NoKid} /\ signingClock \in Nat
    BY DEF SigningInv, SigningTypeOK
  <2>2. TokenOK(s)
    BY DEF SigningInv
  <2>3. CASE g.expires > signingClock
    <3>1. g.key # NoKid /\ g.expires <= signingClock + MaxTTL /\ Covers(g.key, g.expires)
      BY <2>2, <2>3 DEF TokenOK
    <3>2. g.expires <= signingClock + VerificationRetention
      BY <1>1, <2>1, <3>1
    <3>3. Covers(g.key, g.expires)'
      BY <2>1, <2>3, <3>1, <3>2 DEF Covers
    <3> QED
      BY <3>1, <3>3 DEF TokenOK, Covers
  <2> QED
    BY <2>3 DEF TokenOK
<1> QED
  BY <1>2, <1>3, <1>4 DEF SigningInv

LEMMA SigningStepInv == SigningInv /\ [SigningNext]_signingVars => SigningInv'
<1> SUFFICES ASSUME SigningInv, [SigningNext]_signingVars PROVE SigningInv'
  OBVIOUS
<1>0. SigningTypeOK /\ signingClock \in Nat /\ keys \in [Keys -> SigningKey]
  BY DEF SigningInv, SigningTypeOK
<1>1. ASSUME NEW k \in Keys, Rotate(k) PROVE SigningInv'
  <2>1. CASE keys' = Retired
    BY <1>0, <1>1, <2>1, RetiredKeepsCovers, SigningKeysStep DEF Rotate, Covers
  <2>2. CASE keys' = NewKeyIn(Replaced(Retired), k)
    <3>1. Retired \in [Keys -> SigningKey] /\ Retired[k].status = "none"
      BY <1>0, <1>1, RetiredKeepsCovers DEF Rotate
    <3>2. NewKeyIn(Replaced(Retired), k) \in [Keys -> SigningKey]
      BY <1>0, <3>1, NewKeyType
    <3>3. ASSUME NEW j \in Keys, NEW t \in Nat, t > signingClock,
                 t <= signingClock + VerificationRetention, Covers(j, t)
          PROVE  Covers(j, t)'
      <4>1. \/ Retired[j].status = "signing"
            \/ Retired[j].status = "verification" /\ Retired[j].until >= t
        BY <1>0, <3>3, RetiredKeepsCovers
      <4> QED
        BY <1>0, <2>2, <3>1, <3>3, <4>1, ReplacedKeepsCovers DEF Covers
    <3> QED
      BY <1>1, <2>2, <3>2, <3>3, SigningKeysStep DEF Rotate
  <2> QED
    BY <1>1, <2>1, <2>2 DEF Rotate
<1>2. ASSUME NEW k \in Keys, GenerateKey(k) PROVE SigningInv'
  <2>1. NewKeyIn(Replaced(keys), k) \in [Keys -> SigningKey]
    BY <1>0, NewKeyType
  <2>2. ASSUME NEW j \in Keys, NEW t \in Nat,
               t <= signingClock + VerificationRetention, Covers(j, t)
        PROVE  Covers(j, t)'
    BY <1>0, <1>2, <2>2, ReplacedKeepsCovers DEF Covers, GenerateKey
  <2> QED
    BY <1>2, <2>1, <2>2, SigningKeysStep DEF GenerateKey
<1>3. ASSUME NEW k \in Keys, NEW s \in Signers, GetPrivateKey(s, k) PROVE SigningInv'
  <2>1. signers' \in [Signers -> [key : Keys \cup {NoKid}, at : Nat]]
    BY <1>0, <1>3 DEF GetPrivateKey, SigningInv, SigningTypeOK
  <2>2. SigningTypeOK'
    BY <1>0, <1>3, <2>1 DEF GetPrivateKey, SigningTypeOK
  <2>3. ASSUME NEW r \in Signers PROVE SignerOK(r)'
    BY <1>0, <1>3, SigningAssumptions
    DEF GetPrivateKey, SigningInv, SigningTypeOK, SignerOK, Covers, Signing, VerificationRetention
  <2>4. ASSUME NEW r \in Signers PROVE TokenOK(r)'
    BY <1>3 DEF GetPrivateKey, SigningInv, TokenOK, Covers
  <2> QED
    BY <2>2, <2>3, <2>4 DEF SigningInv
<1>4. ASSUME NEW s \in Signers, NEW ttl \in 1..MaxTTL, SignToken(s, ttl) PROVE SigningInv'
  <2>0. ttl \in Nat /\ ttl <= MaxTTL /\ MaxTTL \in Nat /\ Skew \in Nat
    BY SigningAssumptions
  <2>1. SigningTypeOK'
    BY <1>0, <1>4, <2>0 DEF SignToken, SigningTypeOK
  <2>2. ASSUME NEW r \in Signers PROVE SignerOK(r)'
    BY <1>0, <1>4 DEF SignToken, SigningInv, SigningTypeOK, SignerOK, Covers, VerificationRetention
  <2>3. ASSUME NEW r \in Signers PROVE TokenOK(r)'
    <3>1. CASE r # s
      BY <1>0, <1>4, <3>1 DEF SignToken, SigningInv, SigningTypeOK, TokenOK, Covers
    <3>2. CASE r = s
      <4>1. SignerOK(s)
        BY DEF SigningInv
      <4> DEFINE g == signers[s]
      <4>2. g.at \in Nat /\ g.key \in Keys
        BY <1>0, <1>4 DEF SignToken, SigningTypeOK
      <4>3. signingClock + ttl <= g.at + VerificationRetention
        BY <1>0, <1>4, <2>0, <4>1, <4>2 DEF SignToken, SignerOK, VerificationRetention
      <4>4. keys[g.key].until \in Nat
        BY <1>0, <4>2 DEF SigningKey
      <4>5. Covers(g.key, signingClock + ttl)
        BY <1>0, <1>4, <2>0, <4>1, <4>2, <4>3, <4>4 DEF SignToken, SignerOK, Covers, VerificationRetention
      <4>6. signedTokens'[s] = [key |-> g.key, expires |-> signingClock + ttl]
            /\ UNCHANGED <<signingClock, keys>>
        BY <1>0, <1>4 DEF SignToken, SigningTypeOK
      <4> QED
        BY <1>0, <1>4, <2>0, <3>2, <4>2, <4>5, <4>6 DEF SignToken, TokenOK, Covers
    <3> QED
      BY <3>1, <3>2
  <2> QED
    BY <2>1, <2>2, <2>3 DEF SigningInv
<1>5. CASE SigningTick
  <2>1. SigningTypeOK'
    BY <1>0, <1>5 DEF SigningTick, SigningTypeOK
  <2>2. ASSUME NEW r \in Signers PROVE SignerOK(r)'
    BY <1>0, <1>5, SigningAssumptions
    DEF SigningTick, SigningInv, SigningTypeOK, SignerOK, Covers, VerificationRetention
  <2>3. ASSUME NEW r \in Signers PROVE TokenOK(r)'
    BY <1>0, <1>5, SigningAssumptions DEF SigningTick, SigningInv, SigningTypeOK, TokenOK, Covers
  <2> QED
    BY <2>1, <2>2, <2>3 DEF SigningInv
<1>6. CASE UNCHANGED signingVars
  BY <1>6 DEF signingVars, SigningInv, SigningTypeOK, SignerOK, TokenOK, Covers, VerificationRetention
<1> QED
  BY <1>1, <1>2, <1>3, <1>4, <1>5, <1>6 DEF SigningNext

(* A token can be verified for as long as it lives, whatever the lifetimes *)
(* and however often keys are rotated (JWKManager, VerificationRetention). *)
THEOREM LiveTokensVerify == SigningSpec => []TokensVerify
<1>1. SigningInv => TokensVerify
  <2> SUFFICES ASSUME SigningInv, NEW s \in Signers, signedTokens[s].expires > signingClock
               PROVE  signedTokens[s].key \in ActivePublicKeys
    BY DEF TokensVerify
  <2> DEFINE g == signedTokens[s]
  <2>1. g.key \in Keys /\ g.expires \in Nat /\ signingClock \in Nat
    BY DEF SigningInv, SigningTypeOK, TokenOK
  <2>2. keys[g.key].until \in Nat
    BY <2>1 DEF SigningInv, SigningTypeOK, SigningKey
  <2> QED
    BY <2>1, <2>2 DEF SigningInv, TokenOK, Covers, ActivePublicKeys, Signing
<1> QED
  BY SigningInitInv, SigningStepInv, <1>1, PTL DEF SigningSpec
-----------------------------------------------------------------------------
(* Pauses of the service: what a step may do to one server's gate.         *)

GateAdvances(g, h) ==
    /\ h.snapshot.revision >= g.snapshot.revision /\ h.applied >= g.applied
    /\ g.phase \in {"running", "gone"} => h.phase \in {"running", "gone"}

LEMMA MarkedGate ==
    ASSUME tick \in Nat, NEW g \in Gate, NEW f \in SUBSET Capabilities, GateOK(g, f)
    PROVE  LET h == MaybeMarkApplied(g, f)
           IN  /\ h \in Gate /\ GateOK(h, f) /\ GateAdvances(g, h)
               /\ h.snapshot = g.snapshot /\ h.phase = g.phase
  BY DEF MaybeMarkApplied, Gate, GateOK, GateAdvances, Snapshot

(* Publish takes a snapshot that is newer than the loaded one, or the same *)
(* one; then what was applied stays applied.                               *)
LEMMA PublishedGate ==
    ASSUME tick \in Nat, NEW g \in Gate, NEW x \in Snapshot, NEW f \in SUBSET Capabilities, GateOK(g, f),
           x.revision = g.snapshot.revision => x = g.snapshot
    PROVE  LET h == Publish(g, x, f)
           IN  /\ h \in Gate /\ GateOK(h, f) /\ GateAdvances(g, h)
               /\ h.snapshot \in {g.snapshot, x} /\ h.phase = g.phase
<1> DEFINE k == [g EXCEPT !.snapshot = x, !.refreshed = tick]
<1>1. CASE x.revision < g.snapshot.revision
  BY <1>1 DEF Publish, GateAdvances, Gate, Snapshot
<1>2. CASE ~(x.revision < g.snapshot.revision)
  <2>1. k \in Gate /\ k.snapshot = x /\ k.applied = g.applied /\ k.phase = g.phase
    BY DEF Gate
  <2>2. x.revision \in Nat /\ g.snapshot.revision \in Nat /\ g.applied \in Nat
    BY DEF Gate, Snapshot
  <2>3. GateOK(k, f)
    BY <1>2, <2>1, <2>2 DEF GateOK
  <2>4. Publish(g, x, f) = MaybeMarkApplied(k, f)
    BY <1>2 DEF Publish
  <2> HIDE DEF k
  <2>5. LET h == MaybeMarkApplied(k, f)
        IN  h \in Gate /\ GateOK(h, f) /\ GateAdvances(k, h) /\ h.snapshot = k.snapshot /\ h.phase = k.phase
    BY <2>1, <2>3, MarkedGate
  <2>6. MaybeMarkApplied(k, f).applied \in Nat
    BY <2>5 DEF Gate
  <2> QED
    BY <1>2, <2>1, <2>2, <2>4, <2>5, <2>6 DEF GateAdvances
<1> QED
  BY <1>1, <1>2

LEMMA InFlightType ==
    ASSUME ControlTypeOK, NEW s \in Servers
    PROVE  InFlight(s) \in SUBSET Capabilities /\ tick \in Nat
  BY CapabilityAssumption, ControlAssumptions DEF ControlTypeOK, InFlight

(* A copy that goes to another holder, or a new revision, keeps revisions  *)
(* unique.                                                                 *)
LEMMA CopiesStep ==
    ASSUME ControlTypeOK, ControlTypeOK', CopiesInv,
           \/ control' = control /\ Copies' \subseteq Copies
           \/ control'.revision = control.revision + 1 /\ Copies' \subseteq Copies \cup {control'}
    PROVE  CopiesInv'
<1>1. \A x \in Copies \cup {control'} : x.revision \in Nat
  BY DEF ControlTypeOK, Copies, Snapshot, Gate, NoSnapshot
<1>2. control \in Copies
  BY DEF Copies
<1>3. CASE control' = control /\ Copies' \subseteq Copies
  BY <1>3 DEF CopiesInv
<1>4. CASE control'.revision = control.revision + 1 /\ Copies' \subseteq Copies \cup {control'}
  <2>1. \A x \in Copies : x.revision < control'.revision
    BY <1>1, <1>2, <1>4 DEF CopiesInv
  <2>2. \A x \in Copies' : x.revision <= control'.revision
    BY <1>1, <1>4, <2>1
  <2>3. \A x, y \in Copies' : x.revision = y.revision => x = y
    <3>1. \A x, y \in Copies : x.revision = y.revision => x = y
      BY DEF CopiesInv
    <3>2. control'.revision \in Nat
      BY <1>1
    <3> QED
      BY <1>1, <1>4, <2>1, <3>1, <3>2
  <2> QED
    BY <2>2, <2>3 DEF CopiesInv
<1> QED
  BY <1>3, <1>4

LEMMA OperationFrame ==
    ASSUME OperationInv, PausesAreConsistent, UNCHANGED <<control, openMode, operations>>
    PROVE  OperationInv' /\ PausesAreConsistent'
  BY DEF OperationInv, PausesAreConsistent, ValidateTarget

(* One gate moves on, and its heartbeat row with it or not at all.         *)
LEMMA OneGateStep ==
    ASSUME ControlTypeOK, GatesInv, ReportsInv, NEW s \in Servers, NEW h \in Gate,
           UNCHANGED <<tick, reports, leases>>,
           gates' = [gates EXCEPT ![s] = h],
           GateAdvances(gates[s], h), GateOK(h, InFlight(s)),
           h.phase = "running" \/ leases[s] = {},
           \/ beats' = beats
           \/ \E b : beats' = [beats EXCEPT ![s] = b] /\ BeatOK(b, h)
    PROVE  GatesInv' /\ ReportsInv'
<1>1. gates'[s] = h /\ \A r \in Servers : r # s => gates'[r] = gates[r]
  BY DEF ControlTypeOK
<1>2. \A r \in Servers : GateOK(gates'[r], InFlight(r)) /\ (gates'[r].phase # "running" => leases[r] = {})
  BY <1>1 DEF GatesInv
<1>3. GatesInv'
  BY <1>2 DEF GatesInv, GateOK, InFlight, EffectiveAt
<1>4. \A r \in Servers : GateAdvances(gates[r], gates'[r])
  <2>1. ASSUME NEW r \in Servers, r # s PROVE GateAdvances(gates[r], gates'[r])
    <3>1. gates[r] \in Gate
      BY DEF ControlTypeOK
    <3> QED
      BY <1>1, <2>1, <3>1 DEF GateAdvances, Gate, Snapshot
  <2> QED
    BY <1>1, <2>1
<1>5. \A r \in Servers : /\ gates[r].snapshot.revision \in Nat /\ gates[r].applied \in Nat
                         /\ gates'[r].snapshot.revision \in Nat /\ gates'[r].applied \in Nat
                         /\ beats[r].loaded \in Nat /\ beats[r].applied \in Nat
  BY <1>1 DEF ControlTypeOK, Gate, Snapshot, Beat
<1>6. \A r \in Servers : BeatOK(beats[r], gates[r]) => BeatOK(beats[r], gates'[r])
  BY <1>4, <1>5 DEF BeatOK, GateAdvances
<1>7. \A r \in Servers : BeatOK(beats'[r], gates'[r])
  <2>1. CASE beats' = beats
    BY <1>6, <2>1 DEF ReportsInv
  <2>2. ASSUME NEW b, beats' = [beats EXCEPT ![s] = b], BeatOK(b, h)
        PROVE  \A r \in Servers : BeatOK(beats'[r], gates'[r])
    <3>1. beats'[s] = b /\ \A r \in Servers : r # s => beats'[r] = beats[r]
      BY <2>2 DEF ControlTypeOK
    <3> QED
      BY <1>1, <1>6, <2>2, <3>1 DEF ReportsInv
  <2> QED
    BY <2>1, <2>2
<1>8. \A r \in reports : r.revision \in Nat /\ r.servers \subseteq Servers
  BY DEF ControlTypeOK
<1>9. ASSUME NEW r \in reports, NEW t \in r.servers PROVE ReportOK(r.revision, gates'[t])
  <2>1. ReportOK(r.revision, gates[t]) /\ t \in Servers
    BY <1>8 DEF ReportsInv
  <2> QED
    BY <1>4, <1>5, <1>8, <2>1 DEF ReportOK, GateAdvances
<1> QED
  BY <1>3, <1>7, <1>9 DEF ReportsInv, BeatOK, ReportOK

LEMMA ControlInitInv == ControlInit => ControlInv
<1> SUFFICES ASSUME ControlInit PROVE ControlInv
  OBVIOUS
<1>1. control \in Snapshot /\ NoSnapshot \in Snapshot /\ control.revision = 1 /\ Never \in Nat
  BY ControlAssumptions, CapabilityAssumption DEF ControlInit, Snapshot, NoSnapshot, Never
<1>2. \A s \in Servers : /\ gates[s].snapshot \in {control, NoSnapshot}
                         /\ gates[s].applied = gates[s].snapshot.revision
                         /\ gates[s] \in Gate
                         /\ gates[s].phase \in {"new", "running", "gone"}
  BY <1>1 DEF ControlInit, FirstGate, Gate, NoSnapshot, Snapshot
<1>3. gates \in [Servers -> Gate]
  <2>1. gates \in [Servers -> {FirstGate("new", NoSnapshot), FirstGate("running", control),
                              FirstGate("gone", NoSnapshot)}]
    BY DEF ControlInit
  <2> QED
    BY <1>2, <2>1
<1>4. beats \in [Servers -> Beat]
  BY <1>1, <1>2, ControlAssumptions DEF ControlInit, Beat, NoBeat, RegisterInstance, Gate, Snapshot
<1>5. operations \in [Operators -> Operation]
  BY <1>1 DEF ControlInit, Operation, NoOperation
<1>6. ControlTypeOK
  BY <1>1, <1>3, <1>4, <1>5, ControlAssumptions DEF ControlInit, ControlTypeOK
<1>7. OperationInv /\ PausesAreConsistent
  BY DEF ControlInit, OperationInv, PausesAreConsistent, NoOperation
<1>8. CopiesInv
  <2>1. Copies \subseteq {control, NoSnapshot}
    BY <1>2 DEF Copies, ControlInit
  <2> QED
    BY <1>1, <2>1 DEF CopiesInv, NoSnapshot
<1>9. GatesInv
  BY <1>1, <1>2 DEF ControlInit, GatesInv, GateOK, InFlight, Snapshot, Gate
<1>10. ReportsInv
  <2>1. ASSUME NEW s \in Servers PROVE BeatOK(beats[s], gates[s])
    <3>1. gates[s].snapshot.revision \in Nat /\ gates[s].applied \in Nat
      BY <1>2 DEF Gate, Snapshot
    <3> QED
      BY <3>1 DEF ControlInit, BeatOK, RegisterInstance, NoBeat
  <2> QED
    BY <2>1 DEF ControlInit, ReportsInv
<1> QED
  BY <1>6, <1>7, <1>8, <1>9, <1>10 DEF ControlInv

(* A report to the heartbeat row marks what is applied first.              *)
LEMMA HeartbeatStep ==
    ASSUME ControlTypeOK, NEW s \in Servers, NEW g \in Gate, NEW reached \in BOOLEAN,
           GateOK(g, InFlight(s)), g.phase = "running", HeartbeatOnce(s, g, reached)
    PROVE  \E h \in Gate :
              /\ gates' = [gates EXCEPT ![s] = h]
              /\ GateOK(h, InFlight(s)) /\ GateAdvances(g, h) /\ h.snapshot = g.snapshot /\ h.phase = "running"
              /\ \/ beats' = beats
                 \/ \E b \in Beat : /\ beats' = [beats EXCEPT ![s] = b] /\ BeatOK(b, h)
                                    /\ b.loaded = h.snapshot.revision /\ b.applied = h.applied
<1> DEFINE m == MaybeMarkApplied(g, InFlight(s))
<1>1. tick \in Nat /\ InFlight(s) \in SUBSET Capabilities
  BY InFlightType
<1>2. m \in Gate /\ GateOK(m, InFlight(s)) /\ GateAdvances(g, m) /\ m.snapshot = g.snapshot /\ m.phase = g.phase
  BY <1>1, MarkedGate
<1> HIDE DEF m
<1> DEFINE h == IF reached THEN [m EXCEPT !.beat = tick] ELSE m
           b == RegisterInstance(m, beats[s])
<1>3. h \in Gate /\ h.snapshot = m.snapshot /\ h.applied = m.applied /\ h.phase = m.phase
  BY <1>1, <1>2 DEF Gate
<1>4. gates' = [gates EXCEPT ![s] = h]
  BY DEF HeartbeatOnce, m
<1>5. beats' = beats \/ beats' = [beats EXCEPT ![s] = b]
  BY DEF HeartbeatOnce, m, RegisterInstance
<1>6. b \in Beat /\ b.loaded = h.snapshot.revision /\ b.applied = h.applied
  BY <1>1, <1>2, <1>3 DEF RegisterInstance, Beat, Gate, Snapshot
<1> HIDE DEF h, b
<1>7. h.snapshot.revision \in Nat /\ h.applied \in Nat
  BY <1>3 DEF Gate, Snapshot
<1>8. BeatOK(b, h)
  BY <1>2, <1>3, <1>6, <1>7 DEF BeatOK
<1>9. GateOK(h, InFlight(s)) /\ GateAdvances(g, h)
  BY <1>2, <1>3 DEF GateOK, GateAdvances
<1> QED
  BY <1>2, <1>3, <1>4, <1>5, <1>6, <1>8, <1>9

LEMMA AcquireInv ==
    ASSUME ControlInv, NEW s \in Servers, NEW kind \in LeaseKinds, AcquireAll(s, kind)
    PROVE  ControlInv'
<1>1. ControlTypeOK' /\ ControlTypeOK
  BY DEF ControlInv, ControlTypeOK, AcquireAll
<1>2. OperationInv' /\ PausesAreConsistent'
  BY OperationFrame DEF ControlInv, AcquireAll
<1>3. CopiesInv'
  BY DEF ControlInv, CopiesInv, Copies, AcquireAll
<1>4. ReportsInv'
  BY DEF ControlInv, ReportsInv, BeatOK, ReportOK, AcquireAll
<1>5. ASSUME NEW r \in Servers PROVE GateOK(gates'[r], InFlight(r)')
                                   /\ (gates'[r].phase # "running" => leases'[r] = {})
  <2>1. GateOK(gates[r], InFlight(r)) /\ (gates[r].phase # "running" => leases[r] = {})
    BY DEF ControlInv, GatesInv
  <2>2. CASE r # s
    <3>1. leases'[r] = leases[r] /\ gates' = gates
      BY <1>1, <2>2 DEF AcquireAll, ControlTypeOK
    <3> QED
      BY <2>1, <3>1 DEF InFlight
  <2>3. CASE r = s
    <3>1. leases'[s] = leases[s] \cup {kind} /\ gates' = gates /\ gates[s].phase = "running"
          /\ EffectiveAt(gates[s].snapshot) \cap kind = {}
      BY <1>1 DEF AcquireAll, ControlTypeOK
    <3>2. InFlight(s)' = InFlight(s) \cup kind
      BY <3>1 DEF InFlight
    <3> QED
      BY <2>1, <2>3, <3>1, <3>2 DEF GateOK
  <2> QED
    BY <2>2, <2>3
<1>6. GatesInv'
  BY <1>5 DEF GatesInv, GateOK, EffectiveAt, AcquireAll
<1> QED
  BY <1>1, <1>2, <1>3, <1>4, <1>6 DEF ControlInv

LEMMA ReleaseInv ==
    ASSUME ControlInv, NEW s \in Servers, NEW kind \in LeaseKinds, ReleaseLease(s, kind)
    PROVE  ControlInv'
<1>0. ControlTypeOK /\ gates[s].phase = "running" /\ gates[s] \in Gate /\ tick \in Nat
  BY InFlightType DEF ControlInv, ControlTypeOK, ReleaseLease
<1> DEFINE f == UNION leases'[s]
           h == MaybeMarkApplied(gates[s], f)
<1>1. leases'[s] = leases[s] \ {kind} /\ \A r \in Servers : r # s => leases'[r] = leases[r]
  BY <1>0 DEF ControlTypeOK, ReleaseLease
<1>2. f \subseteq InFlight(s) /\ f \in SUBSET Capabilities
  BY <1>0, <1>1, InFlightType DEF InFlight
<1>3. GateOK(gates[s], f)
  BY <1>2 DEF ControlInv, GatesInv, GateOK
<1>4. gates' = [gates EXCEPT ![s] = h]
  BY DEF ReleaseLease
<1> HIDE DEF f
<1>5. h \in Gate /\ GateOK(h, f) /\ GateAdvances(gates[s], h) /\ h.snapshot = gates[s].snapshot /\ h.phase = "running"
  BY <1>0, <1>2, <1>3, MarkedGate
<1> HIDE DEF h
<1>6. gates'[s] = h /\ \A r \in Servers : r # s => gates'[r] = gates[r]
  BY <1>0, <1>4 DEF ControlTypeOK
<1>7. ControlTypeOK'
  BY <1>0, <1>4, <1>5 DEF ControlTypeOK, ReleaseLease
<1>8. OperationInv' /\ PausesAreConsistent'
  BY OperationFrame DEF ControlInv, ReleaseLease
<1>9. CopiesInv'
  <2>1. Copies' \subseteq Copies /\ control' = control
    BY <1>5, <1>6 DEF Copies, ReleaseLease
  <2> QED
    BY <1>0, <1>7, <2>1, CopiesStep DEF ControlInv
<1>10. GatesInv'
  <2>1. tick' = tick /\ InFlight(s)' = f /\ \A r \in Servers : r # s => InFlight(r)' = InFlight(r)
    BY <1>1 DEF InFlight, f, ReleaseLease
  <2> QED
    BY <1>1, <1>5, <1>6, <2>1 DEF ControlInv, GatesInv, GateOK, EffectiveAt
<1>11. ReportsInv'
  <2>1. \A r \in Servers : /\ gates[r].snapshot.revision \in Nat /\ gates[r].applied \in Nat
                           /\ gates'[r].snapshot.revision = gates[r].snapshot.revision
                           /\ gates'[r].applied \in Nat /\ gates'[r].applied >= gates[r].applied
                           /\ gates'[r].phase = gates[r].phase
    BY <1>0, <1>5, <1>6 DEF GateAdvances, ControlTypeOK, Gate, Snapshot
  <2>2. \A r \in Servers : beats[r].applied \in Nat
    BY <1>0 DEF ControlTypeOK, Beat
  <2>3. \A r \in reports : r.revision \in Nat /\ r.servers \subseteq Servers
    BY <1>0 DEF ControlTypeOK
  <2>4. beats' = beats /\ reports' = reports
    BY DEF ReleaseLease
  <2> QED
    BY <2>1, <2>2, <2>3, <2>4 DEF ControlInv, ReportsInv, BeatOK, ReportOK
<1> QED
  BY <1>7, <1>8, <1>9, <1>10, <1>11 DEF ControlInv

LEMMA HeartbeatInv ==
    ASSUME ControlInv, NEW s \in Servers, Heartbeat(s)
    PROVE  ControlInv'
<1>0. ControlTypeOK /\ gates[s] \in Gate /\ GateOK(gates[s], InFlight(s)) /\ gates[s].phase = "running"
      /\ HeartbeatOnce(s, gates[s], TRUE)
  BY DEF ControlInv, ControlTypeOK, GatesInv, Heartbeat
<1>1. PICK h \in Gate :
         /\ gates' = [gates EXCEPT ![s] = h]
         /\ GateOK(h, InFlight(s)) /\ GateAdvances(gates[s], h)
         /\ h.snapshot = gates[s].snapshot /\ h.phase = "running"
         /\ \/ beats' = beats
            \/ \E b \in Beat : beats' = [beats EXCEPT ![s] = b] /\ BeatOK(b, h)
  BY <1>0, HeartbeatStep
<1>2. ControlTypeOK'
  BY <1>0, <1>1 DEF ControlTypeOK, Heartbeat
<1>3. OperationInv' /\ PausesAreConsistent'
  BY OperationFrame DEF ControlInv, Heartbeat
<1>4. \A r \in Servers : gates'[r].snapshot = gates[r].snapshot
  BY <1>0, <1>1 DEF ControlTypeOK
<1>5. CopiesInv'
  BY <1>4 DEF ControlInv, CopiesInv, Copies, Heartbeat
<1>6. GatesInv' /\ ReportsInv'
  BY <1>0, <1>1, OneGateStep DEF ControlInv, Heartbeat
<1> QED
  BY <1>2, <1>3, <1>5, <1>6 DEF ControlInv

(* An answer is given on rows that are not ahead of the gates.             *)
LEMMA PublishAndWaitInv ==
    ASSUME ControlInv, NEW s \in Servers, PublishAndWait(s)
    PROVE  ControlInv'
<1>0. ControlTypeOK /\ gates[s] \in Gate /\ GateOK(gates[s], InFlight(s)) /\ gates[s].phase = "running"
      /\ HeartbeatOnce(s, gates[s], TRUE)
  BY DEF ControlInv, ControlTypeOK, GatesInv, PublishAndWait
<1>1. PICK h \in Gate :
         /\ gates' = [gates EXCEPT ![s] = h]
         /\ GateOK(h, InFlight(s)) /\ GateAdvances(gates[s], h)
         /\ h.snapshot = gates[s].snapshot /\ h.phase = "running"
         /\ \/ beats' = beats
            \/ \E b \in Beat : beats' = [beats EXCEPT ![s] = b] /\ BeatOK(b, h)
  BY <1>0, HeartbeatStep
<1>2. gates' \in [Servers -> Gate] /\ beats' \in [Servers -> Beat]
  BY <1>0, <1>1 DEF ControlTypeOK
<1>3. waits[s] \in Nat /\ gates[s].snapshot.paused \in SUBSET Capabilities
  BY <1>0 DEF ControlTypeOK, Gate, Snapshot
<1> DEFINE active == ListActiveInstances(beats')
           paused == IF gates[s].snapshot.revision = waits[s] THEN gates[s].snapshot.paused ELSE {}
           new == [revision |-> waits[s], servers |-> active, paused |-> paused]
<1>4. active \subseteq Servers /\ \A r \in active : beats'[r].present
  BY DEF ListActiveInstances
<1>5. reports' = reports \/ (reports' = reports \cup {new} /\ ApplicationStatus(beats', waits[s]))
  BY DEF PublishAndWait
<1>6. new \in [revision : Nat, paused : SUBSET Capabilities, servers : SUBSET Servers]
  BY <1>3, <1>4
<1>7. ControlTypeOK'
  BY <1>0, <1>2, <1>5, <1>6 DEF ControlTypeOK, PublishAndWait
<1>8. OperationInv' /\ PausesAreConsistent'
  BY OperationFrame DEF ControlInv, PublishAndWait
<1>9. \A r \in Servers : gates'[r].snapshot = gates[r].snapshot
  BY <1>0, <1>1 DEF ControlTypeOK
<1>10. CopiesInv'
  BY <1>9 DEF ControlInv, CopiesInv, Copies, PublishAndWait
<1>11. GatesInv' /\ (\A r \in Servers : BeatOK(beats'[r], gates'[r]))
       /\ (\A r \in reports : \A t \in r.servers : ReportOK(r.revision, gates'[t]))
  <2>1. gates'[s] = h /\ \A r \in Servers : r # s => gates'[r] = gates[r]
    BY <1>0, <1>1 DEF ControlTypeOK
  <2>2. \A r \in Servers : GateOK(gates'[r], InFlight(r)) /\ (gates'[r].phase # "running" => leases[r] = {})
    BY <1>1, <2>1 DEF ControlInv, GatesInv
  <2>3. GatesInv'
    BY <2>2 DEF GatesInv, GateOK, InFlight, EffectiveAt, PublishAndWait
  <2>4. \A r \in Servers : /\ gates[r].snapshot.revision \in Nat /\ gates[r].applied \in Nat
                           /\ gates'[r].snapshot.revision = gates[r].snapshot.revision
                           /\ gates'[r].applied \in Nat /\ gates'[r].applied >= gates[r].applied
                           /\ gates'[r].phase = gates[r].phase
    BY <1>0, <1>1, <2>1 DEF GateAdvances, ControlTypeOK, Gate, Snapshot
  <2>5. \A r \in Servers : beats[r].applied \in Nat
    BY <1>0 DEF ControlTypeOK, Beat
  <2>6. \A r \in Servers : BeatOK(beats[r], gates'[r])
    BY <2>4, <2>5 DEF ControlInv, ReportsInv, BeatOK
  <2>7. \A r \in Servers : BeatOK(beats'[r], gates'[r])
    <3>1. CASE beats' = beats
      BY <2>6, <3>1
    <3>2. ASSUME NEW b \in Beat, beats' = [beats EXCEPT ![s] = b], BeatOK(b, h)
          PROVE  \A r \in Servers : BeatOK(beats'[r], gates'[r])
      <4>1. beats'[s] = b /\ \A r \in Servers : r # s => beats'[r] = beats[r]
        BY <1>0, <3>2 DEF ControlTypeOK
      <4> QED
        BY <2>1, <2>6, <3>2, <4>1
    <3> QED
      BY <1>1, <3>1, <3>2
  <2>8. \A r \in reports : r.revision \in Nat /\ r.servers \subseteq Servers
    BY <1>0 DEF ControlTypeOK
  <2>9. \A r \in reports : \A t \in r.servers : ReportOK(r.revision, gates'[t])
    BY <2>4, <2>8 DEF ControlInv, ReportsInv, ReportOK
  <2> QED
    BY <2>3, <2>7, <2>9
<1>12. ASSUME ApplicationStatus(beats', waits[s]), NEW t \in active PROVE ReportOK(waits[s], gates'[t])
  <2>1. beats'[t].loaded >= waits[s] /\ beats'[t].applied >= waits[s] /\ t \in Servers /\ beats'[t].present
    BY <1>4, <1>12 DEF ApplicationStatus
  <2>2. BeatOK(beats'[t], gates'[t])
    BY <1>11, <2>1
  <2>3. beats'[t].loaded \in Nat /\ beats'[t].applied \in Nat
        /\ gates'[t].snapshot.revision \in Nat /\ gates'[t].applied \in Nat
    BY <1>2, <2>1 DEF Beat, Gate, Snapshot
  <2> QED
    BY <1>3, <2>1, <2>2, <2>3 DEF BeatOK, ReportOK
<1>13. ReportsInv'
  <2>1. \A r \in reports' : \A t \in r.servers : ReportOK(r.revision, gates'[t])
    BY <1>5, <1>11, <1>12
  <2> QED
    BY <1>11, <2>1 DEF ReportsInv, BeatOK, ReportOK
<1> QED
  BY <1>7, <1>8, <1>10, <1>11, <1>13 DEF ControlInv

LEMMA LoadInv ==
    ASSUME ControlInv, NEW s \in Servers, Load(s)
    PROVE  ControlInv'
<1>0. /\ ControlTypeOK /\ gates[s] \in Gate /\ GateOK(gates[s], InFlight(s)) /\ gates[s].phase = "new"
      /\ leases[s] = {} /\ InFlight(s) = {} /\ loadings[s] \in Snapshot /\ tick \in Nat
  BY InFlightType DEF ControlInv, ControlTypeOK, GatesInv, Load, InFlight
<1>1. loadings[s].revision = gates[s].snapshot.revision => loadings[s] = gates[s].snapshot
  BY DEF ControlInv, CopiesInv, Copies
<1> DEFINE p == Publish(gates[s], loadings[s], {})
           h == [p EXCEPT !.phase = "loaded", !.beat = tick]
<1>2. p \in Gate /\ GateOK(p, {}) /\ GateAdvances(gates[s], p) /\ p.snapshot \in {gates[s].snapshot, loadings[s]}
  BY <1>0, <1>1, PublishedGate
<1> HIDE DEF p
<1>3. h \in Gate /\ GateOK(h, InFlight(s)) /\ GateAdvances(gates[s], h) /\ h.snapshot = p.snapshot
  BY <1>0, <1>2 DEF Gate, GateOK, GateAdvances
<1>4. gates' = [gates EXCEPT ![s] = h]
  BY DEF Load, p
<1> HIDE DEF h
<1>5. ControlTypeOK'
  <2>1. NoSnapshot \in Snapshot
    BY ControlAssumptions DEF NoSnapshot, Snapshot, Never
  <2> QED
    BY <1>0, <1>3, <1>4, <2>1 DEF ControlTypeOK, Load
<1>6. OperationInv' /\ PausesAreConsistent'
  BY OperationFrame DEF ControlInv, Load
<1>7. CopiesInv'
  <2>1. \A r \in Servers : gates'[r].snapshot \in Copies /\ loadings'[r] \in Copies
    <3>1. \A r \in Servers : gates'[r].snapshot \in {gates[r].snapshot, loadings[r]}
      BY <1>0, <1>2, <1>3, <1>4 DEF ControlTypeOK
    <3>2. \A r \in Servers : loadings'[r] \in {loadings[r], NoSnapshot}
      BY <1>0 DEF ControlTypeOK, Load
    <3> QED
      BY <3>1, <3>2 DEF Copies
  <2>2. Copies' \subseteq Copies /\ control' = control
    BY <2>1 DEF Copies, Load
  <2> QED
    BY <1>0, <1>5, <2>2, CopiesStep DEF ControlInv
<1>8. GatesInv' /\ ReportsInv'
  BY <1>0, <1>3, <1>4, OneGateStep DEF ControlInv, Load
<1> QED
  BY <1>5, <1>6, <1>7, <1>8 DEF ControlInv

LEMMA StartInv ==
    ASSUME ControlInv, NEW s \in Servers, Start(s)
    PROVE  ControlInv'
<1>0. ControlTypeOK /\ gates[s] \in Gate /\ GateOK(gates[s], InFlight(s)) /\ gates[s].phase = "loaded" /\ tick \in Nat
  BY InFlightType DEF ControlInv, ControlTypeOK, GatesInv, Start
<1> DEFINE h == [gates[s] EXCEPT !.phase = "running", !.beat = tick]
           b == RegisterInstance(gates[s], beats[s])
<1>1. h \in Gate /\ GateOK(h, InFlight(s)) /\ GateAdvances(gates[s], h) /\ h.snapshot = gates[s].snapshot
      /\ h.phase = "running"
  <2>1. h \in Gate /\ h.snapshot = gates[s].snapshot /\ h.applied = gates[s].applied /\ h.phase = "running"
    BY <1>0 DEF Gate
  <2>2. h.applied \in Nat /\ h.snapshot.revision \in Nat
    BY <2>1 DEF Gate, Snapshot
  <2> QED
    BY <1>0, <2>1, <2>2 DEF GateOK, GateAdvances
<1>2. b \in Beat /\ BeatOK(b, h)
  BY <1>0 DEF RegisterInstance, Beat, BeatOK, Gate, Snapshot
<1>3. gates' = [gates EXCEPT ![s] = h] /\ beats' = [beats EXCEPT ![s] = b]
  BY <1>0 DEF Start, ControlTypeOK, RegisterInstance
<1> HIDE DEF h, b
<1>4. ControlTypeOK'
  BY <1>0, <1>1, <1>2, <1>3 DEF ControlTypeOK, Start
<1>5. OperationInv' /\ PausesAreConsistent'
  BY OperationFrame DEF ControlInv, Start
<1>6. \A r \in Servers : gates'[r].snapshot = gates[r].snapshot
  BY <1>0, <1>1, <1>3 DEF ControlTypeOK
<1>7. CopiesInv'
  <2>1. Copies' \subseteq Copies /\ control' = control
    BY <1>6 DEF Copies, Start
  <2> QED
    BY <1>0, <1>4, <2>1, CopiesStep DEF ControlInv
<1>8. GatesInv' /\ ReportsInv'
  BY <1>0, <1>1, <1>2, <1>3, OneGateStep DEF ControlInv, Start
<1> QED
  BY <1>4, <1>5, <1>7, <1>8 DEF ControlInv

LEMMA LoadSnapshotInv ==
    ASSUME ControlInv, NEW s \in Servers, LoadSnapshot(s)
    PROVE  ControlInv'
<1>1. ControlTypeOK /\ ControlTypeOK'
  BY DEF ControlInv, ControlTypeOK, LoadSnapshot
<1>2. OperationInv' /\ PausesAreConsistent'
  BY OperationFrame DEF ControlInv, LoadSnapshot
<1>3. \A r \in Servers : loadings'[r] \in {loadings[r], control}
  BY <1>1 DEF ControlTypeOK, LoadSnapshot
<1>4. Copies' \subseteq Copies /\ control' = control
  BY <1>3 DEF Copies, LoadSnapshot
<1>5. CopiesInv'
  BY <1>1, <1>4, CopiesStep DEF ControlInv
<1>6. GatesInv' /\ ReportsInv'
  BY DEF ControlInv, GatesInv, GateOK, InFlight, EffectiveAt, ReportsInv, BeatOK, ReportOK, LoadSnapshot
<1> QED
  BY <1>1, <1>2, <1>5, <1>6 DEF ControlInv

(* The second publication of a refresh takes the new revision it has made  *)
(* when the pause had expired, or the loaded snapshot once more.           *)
LEMMA RefreshInv ==
    ASSUME ControlInv, NEW s \in Servers, NEW reached \in BOOLEAN, Refresh(s, reached)
    PROVE  ControlInv'
<1>0. /\ ControlTypeOK /\ gates[s] \in Gate /\ GateOK(gates[s], InFlight(s)) /\ gates[s].phase = "running"
      /\ loadings[s] \in Snapshot /\ control \in Snapshot
  BY DEF ControlInv, ControlTypeOK, GatesInv, Refresh
<1>1. tick \in Nat /\ InFlight(s) \in SUBSET Capabilities /\ NoSnapshot \in Snapshot /\ Never \in Nat
  BY <1>0, InFlightType, ControlAssumptions DEF NoSnapshot, Snapshot, Never
<1>2. \/ control' = control
      \/ /\ control' = [revision |-> control.revision + 1, paused |-> {}, expires |-> Never]
         /\ \A o \in Operators : operations[o] = NoOperation
  BY DEF Refresh, TryExpire, StoreState, LockRegistration
<1>3. control' \in Snapshot
  BY <1>0, <1>1, <1>2 DEF Snapshot
<1> DEFINE p == Publish(gates[s], loadings[s], InFlight(s))
           x == IF control' # control THEN control' ELSE loadings[s]
           q == Publish(p, x, InFlight(s))
<1>4. \A y, z \in {gates[s].snapshot, loadings[s]} : y.revision = z.revision => y = z
  BY DEF ControlInv, CopiesInv, Copies
<1>5. /\ p \in Gate /\ GateOK(p, InFlight(s)) /\ GateAdvances(gates[s], p)
      /\ p.snapshot \in {gates[s].snapshot, loadings[s]} /\ p.phase = "running"
  BY <1>0, <1>1, <1>4, PublishedGate
<1>6. x \in Snapshot /\ x \in {control', loadings[s]}
  BY <1>0, <1>3
<1>7. x.revision = p.snapshot.revision => x = p.snapshot
  <2>1. CASE x = loadings[s]
    BY <1>4, <1>5, <2>1
  <2>2. CASE x = control' /\ control' # control
    <3>1. p.snapshot.revision <= control.revision
      BY <1>5 DEF ControlInv, CopiesInv, Copies
    <3>2. control'.revision = control.revision + 1 /\ control.revision \in Nat /\ p.snapshot.revision \in Nat
      BY <1>0, <1>2, <1>5, <2>2 DEF Snapshot, Gate
    <3> QED
      BY <2>2, <3>1, <3>2
  <2> QED
    BY <2>1, <2>2
<1>8. HeartbeatOnce(s, q, reached)
  BY DEF Refresh
<1> HIDE DEF p, x
<1>9. /\ q \in Gate /\ GateOK(q, InFlight(s)) /\ GateAdvances(p, q)
      /\ q.snapshot \in {p.snapshot, x} /\ q.phase = "running"
  BY <1>1, <1>5, <1>6, <1>7, PublishedGate
<1> HIDE DEF q
<1>10. PICK h \in Gate :
         /\ gates' = [gates EXCEPT ![s] = h]
         /\ GateOK(h, InFlight(s)) /\ GateAdvances(q, h)
         /\ h.snapshot = q.snapshot /\ h.phase = "running"
         /\ \/ beats' = beats
            \/ \E b \in Beat : beats' = [beats EXCEPT ![s] = b] /\ BeatOK(b, h)
  BY <1>0, <1>8, <1>9, HeartbeatStep
<1>11. GateAdvances(gates[s], h)
  <2>1. \A g \in {gates[s], p, q, h} : g.applied \in Nat /\ g.snapshot.revision \in Nat
    BY <1>0, <1>5, <1>9 DEF Gate, Snapshot
  <2> QED
    BY <1>5, <1>9, <1>10, <2>1 DEF GateAdvances
<1>12. ControlTypeOK'
  BY <1>0, <1>1, <1>3, <1>10 DEF ControlTypeOK, Refresh
<1>13. OperationInv' /\ PausesAreConsistent'
  <2>1. CASE control' = control
    BY <2>1, OperationFrame DEF ControlInv, Refresh
  <2>2. CASE control'.paused = {} /\ \A o \in Operators : operations[o] = NoOperation
    BY <2>2 DEF ControlInv, OperationInv, PausesAreConsistent, ValidateTarget, Refresh, NoOperation
  <2> QED
    BY <1>2, <2>1, <2>2
<1>14. CopiesInv'
  <2>1. \A r \in Servers : gates'[r].snapshot \in {gates[r].snapshot, loadings[r], control'}
    BY <1>0, <1>5, <1>6, <1>9, <1>10 DEF ControlTypeOK
  <2>2. \A r \in Servers : loadings'[r] \in {loadings[r], NoSnapshot}
    BY <1>0 DEF ControlTypeOK, Refresh
  <2>3. Copies' \subseteq Copies \cup {control'}
    BY <2>1, <2>2 DEF Copies
  <2>4. control' = control => Copies' \subseteq Copies
    BY <2>3 DEF Copies
  <2> QED
    BY <1>0, <1>2, <1>12, <2>3, <2>4, CopiesStep DEF ControlInv
<1>15. GatesInv' /\ ReportsInv'
  BY <1>0, <1>10, <1>11, OneGateStep DEF ControlInv, Refresh
<1> QED
  BY <1>12, <1>13, <1>14, <1>15 DEF ControlInv

LEMMA StopInv ==
    ASSUME ControlInv, NEW s \in Servers, NEW orderly \in BOOLEAN, Stop(s, orderly)
    PROVE  ControlInv'
<1>0. ControlTypeOK /\ gates[s] \in Gate /\ NoSnapshot \in Snapshot /\ NoBeat \in Beat
  BY ControlAssumptions DEF ControlInv, ControlTypeOK, NoSnapshot, Snapshot, Never, NoBeat, Beat
<1>1. ControlTypeOK'
  <2>1. [gates[s] EXCEPT !.phase = "gone"] \in Gate
    BY <1>0 DEF Gate
  <2>2. gates' \in [Servers -> Gate]
    BY <1>0, <2>1 DEF ControlTypeOK, Stop
  <2> QED
    BY <1>0, <2>2 DEF ControlTypeOK, Stop
<1>2. OperationInv' /\ PausesAreConsistent'
  BY OperationFrame DEF ControlInv, Stop
<1>3. /\ \A r \in Servers : /\ gates'[r].snapshot = gates[r].snapshot /\ gates'[r].applied = gates[r].applied
                            /\ gates'[r].phase \in {gates[r].phase, "gone"}
                            /\ loadings'[r] \in {loadings[r], NoSnapshot}
                            /\ leases'[r] \in {leases[r], {}}
                            /\ beats'[r] \in {beats[r], NoBeat}
      /\ gates'[s].phase = "gone" /\ leases'[s] = {}
      /\ \A r \in Servers : r # s => gates'[r] = gates[r] /\ leases'[r] = leases[r]
  BY <1>0 DEF ControlTypeOK, Stop, Gate
<1>4. CopiesInv'
  <2>1. Copies' \subseteq Copies /\ control' = control
    BY <1>3 DEF Copies, Stop
  <2> QED
    BY <1>0, <1>1, <2>1, CopiesStep DEF ControlInv
<1>5. GatesInv'
  <2>1. tick' = tick /\ \A r \in Servers : InFlight(r)' \subseteq InFlight(r)
    BY <1>3 DEF InFlight, Stop
  <2> QED
    BY <1>3, <2>1 DEF ControlInv, GatesInv, GateOK, EffectiveAt
<1>6. ReportsInv'
  <2>1. reports' = reports /\ \A r \in reports : r.servers \subseteq Servers
    BY <1>0 DEF ControlTypeOK, Stop
  <2> QED
    BY <1>3, <2>1 DEF ControlInv, ReportsInv, BeatOK, ReportOK, NoBeat
<1> QED
  BY <1>1, <1>2, <1>4, <1>5, <1>6 DEF ControlInv

(* The stored state changes only while its transaction is the only one, so *)
(* that what it has validated still holds.                                 *)
LEMMA UpdateControlInv ==
    ASSUME ControlInv, NEW o \in Operators, UpdateControl(o)
    PROVE  ControlInv'
<1> DEFINE s == operations[o].server
           new == control'
<1>0. /\ ControlTypeOK /\ operations[o] \in Operation /\ operations[o].kind = "update"
      /\ new = [revision |-> control.revision + 1, paused |-> operations[o].paused, expires |-> operations[o].expires]
  BY DEF ControlInv, ControlTypeOK, UpdateControl, StoreState
<1>1. new \in Snapshot /\ control.revision \in Nat /\ new.revision = control.revision + 1
  BY <1>0 DEF ControlTypeOK, Snapshot, Operation
<1>2. NoOperation \in Operation /\ operations' = [operations EXCEPT ![o] = NoOperation]
  BY ControlAssumptions DEF NoOperation, Operation, UpdateControl, Never
<1>3. \A p \in Operators : operations'[p] = NoOperation
  <2>1. operations[o] # NoOperation
    BY <1>0 DEF NoOperation
  <2>2. \A p \in Operators : p # o => operations[p] = NoOperation
    BY <2>1 DEF ControlInv, OperationInv
  <2> QED
    BY <1>0, <1>2, <2>2 DEF ControlTypeOK
<1>4. OperationInv' /\ PausesAreConsistent'
  <2>1. ValidateTarget(operations[o].paused, openMode)
    BY <1>0 DEF ControlInv, OperationInv
  <2>2. control'.paused = operations[o].paused /\ openMode' = openMode
    BY <1>0 DEF UpdateControl
  <2>3. PausesAreConsistent'
    BY <2>1, <2>2 DEF PausesAreConsistent, ValidateTarget
  <2>4. \A p \in Operators : operations'[p].kind = "none"
    BY <1>3 DEF NoOperation
  <2>5. OperationInv'
    BY <1>3, <2>4 DEF OperationInv
  <2> QED
    BY <2>3, <2>5
<1>5. CASE s \notin Servers
  <2>1. gates' = gates /\ waits' = waits
    BY <1>0, <1>5 DEF UpdateControl, ControlTypeOK
  <2>2. ControlTypeOK'
    <3>1. operations' \in [Operators -> Operation]
      BY <1>0, <1>2 DEF ControlTypeOK
    <3> QED
      BY <1>0, <1>1, <2>1, <3>1 DEF ControlTypeOK, UpdateControl
  <2>3. Copies' \subseteq Copies \cup {control'}
    BY <2>1 DEF Copies, UpdateControl
  <2>4. CopiesInv'
    BY <1>0, <1>1, <2>2, <2>3, CopiesStep DEF ControlInv
  <2>5. GatesInv' /\ ReportsInv'
    BY <2>1 DEF ControlInv, GatesInv, GateOK, InFlight, EffectiveAt, ReportsInv, BeatOK, ReportOK, UpdateControl
  <2> QED
    BY <1>4, <2>2, <2>4, <2>5 DEF ControlInv
<1>6. CASE s \in Servers
  <2>0. /\ gates[s] \in Gate /\ GateOK(gates[s], InFlight(s)) /\ gates[s].snapshot.revision \in Nat
        /\ tick \in Nat /\ InFlight(s) \in SUBSET Capabilities
    BY <1>0, <1>6, InFlightType DEF ControlInv, ControlTypeOK, GatesInv, Gate, Snapshot
  <2> DEFINE h == Publish(gates[s], new, InFlight(s))
  <2>1. gates[s].snapshot.revision < new.revision
    BY <1>1, <1>6, <2>0 DEF ControlInv, CopiesInv, Copies
  <2>2. /\ h \in Gate /\ GateOK(h, InFlight(s)) /\ GateAdvances(gates[s], h)
        /\ h.snapshot \in {gates[s].snapshot, new} /\ h.phase = gates[s].phase
    BY <1>1, <2>0, <2>1, PublishedGate
  <2>3. gates' = [gates EXCEPT ![s] = h]
    BY DEF UpdateControl
  <2> HIDE DEF h
  <2>4. waits' \in [Servers -> Nat]
    <3>1. new.revision \in Nat
      BY <1>1
    <3> QED
      BY <1>0, <3>1 DEF UpdateControl, ControlTypeOK
  <2>5. ControlTypeOK'
    BY <1>0, <1>1, <1>2, <2>2, <2>3, <2>4 DEF ControlTypeOK, UpdateControl
  <2>6. CopiesInv'
    <3>1. \A r \in Servers : gates'[r].snapshot \in {gates[r].snapshot, control'}
      BY <1>0, <2>2, <2>3 DEF ControlTypeOK
    <3>2. Copies' \subseteq Copies \cup {control'}
      BY <3>1 DEF Copies, UpdateControl
    <3> QED
      BY <1>0, <1>1, <2>5, <3>2, CopiesStep DEF ControlInv
  <2>7. h.phase = "running" \/ leases[s] = {}
    BY <1>6, <2>2 DEF ControlInv, GatesInv
  <2>8. GatesInv' /\ ReportsInv'
    BY <1>0, <1>6, <2>2, <2>3, <2>7, OneGateStep DEF ControlInv, UpdateControl
  <2> QED
    BY <1>4, <2>5, <2>6, <2>8 DEF ControlInv
<1> QED
  BY <1>5, <1>6

LEMMA ControlStepInv == ControlInv /\ [ControlNext]_controlVars => ControlInv'
<1> SUFFICES ASSUME ControlInv, [ControlNext]_controlVars PROVE ControlInv'
  OBVIOUS
<1>0. ControlTypeOK /\ tick \in Nat /\ control.revision \in Nat /\ Never \in Nat
  BY ControlAssumptions DEF ControlInv, ControlTypeOK, Snapshot, Never
<1>1. ASSUME NEW s \in Servers, ServerStep(s) PROVE ControlInv'
  BY <1>1, LoadSnapshotInv, LoadInv, StartInv, RefreshInv, AcquireInv, ReleaseInv,
     HeartbeatInv, PublishAndWaitInv, StopInv DEF ServerStep
<1>2. ASSUME NEW o \in Operators, NEW s \in Servers, NEW p \in PauseTargets, NEW e \in {1, Never},
             HandleUpdateOperationsSettings(o, s, p, e)
      PROVE  ControlInv'
  <2> DEFINE x == [kind |-> "update", server |-> s, paused |-> p, expires |-> e, open |-> FALSE]
  <2>1. x \in Operation
    BY <1>0, CapabilityAssumption DEF Operation
  <2>2. operations' = [operations EXCEPT ![o] = x]
    BY <1>2 DEF HandleUpdateOperationsSettings
  <2>3. ControlTypeOK'
    BY <1>0, <1>2, <2>1, <2>2 DEF ControlTypeOK, HandleUpdateOperationsSettings
  <2>4. \A q \in Operators : operations'[q] = IF q = o THEN x ELSE NoOperation
    BY <1>0, <1>2, <2>2 DEF ControlTypeOK, HandleUpdateOperationsSettings, LockRegistration
  <2>5. OperationInv' /\ PausesAreConsistent'
    <3>1. ValidateTarget(p, openMode) /\ UNCHANGED <<control, openMode>>
      BY <1>2 DEF HandleUpdateOperationsSettings
    <3>2. \A q \in Operators : operations'[q] # NoOperation => q = o
      BY <2>4
    <3>3. \A q \in Operators : /\ operations'[q].kind = "update" => operations'[q].paused = p
                               /\ operations'[q].kind # "registration"
      BY <2>4 DEF NoOperation
    <3> QED
      BY <3>1, <3>2, <3>3 DEF ControlInv, OperationInv, PausesAreConsistent, ValidateTarget
  <2> QED
    BY <1>2, <2>3, <2>5
    DEF ControlInv, CopiesInv, Copies, GatesInv, GateOK, InFlight, EffectiveAt, ReportsInv, BeatOK, ReportOK,
        HandleUpdateOperationsSettings
<1>3. ASSUME NEW o \in Operators, NEW open \in BOOLEAN, HandleUpdateRegistration(o, open) PROVE ControlInv'
  <2> DEFINE x == [NoOperation EXCEPT !.kind = "registration", !.open = open]
  <2>1. x \in Operation /\ x.kind = "registration" /\ x.open = open
    BY <1>0 DEF Operation, NoOperation
  <2>2. operations' = [operations EXCEPT ![o] = x]
    BY <1>3 DEF HandleUpdateRegistration
  <2> HIDE DEF x
  <2>3. ControlTypeOK'
    BY <1>0, <1>3, <2>1, <2>2 DEF ControlTypeOK, HandleUpdateRegistration
  <2>4. \A q \in Operators : operations'[q] = IF q = o THEN x ELSE NoOperation
    BY <1>0, <1>3, <2>2 DEF ControlTypeOK, HandleUpdateRegistration, LockRegistration
  <2>5. OperationInv' /\ PausesAreConsistent'
    <3>1. ValidateTarget(control.paused, open) /\ UNCHANGED <<control, openMode>>
      BY <1>3 DEF HandleUpdateRegistration
    <3> QED
      BY <2>1, <2>4, <3>1 DEF ControlInv, OperationInv, PausesAreConsistent, ValidateTarget, NoOperation
  <2> QED
    BY <1>3, <2>3, <2>5
    DEF ControlInv, CopiesInv, Copies, GatesInv, GateOK, InFlight, EffectiveAt, ReportsInv, BeatOK, ReportOK,
        HandleUpdateRegistration
<1>4. ASSUME NEW o \in Operators, UpdateControl(o) PROVE ControlInv'
  BY <1>4, UpdateControlInv
<1>5. ASSUME NEW o \in Operators, SetRegistration(o) PROVE ControlInv'
  <2>1. operations[o] # NoOperation /\ operations[o] \in Operation /\ NoOperation \in Operation
    BY <1>0, <1>5 DEF SetRegistration, NoOperation, ControlTypeOK, Operation
  <2>2. ControlTypeOK'
    <3>1. openMode' \in BOOLEAN
      BY <1>5, <2>1 DEF SetRegistration, Operation
    <3> QED
      BY <1>0, <1>5, <2>1, <3>1 DEF ControlTypeOK, SetRegistration
  <2>3. \A q \in Operators : operations'[q] = NoOperation
    <3>1. \A q \in Operators : q # o => operations[q] = NoOperation
      BY <2>1 DEF ControlInv, OperationInv
    <3> QED
      BY <1>0, <1>5, <3>1 DEF ControlTypeOK, SetRegistration
  <2>4. OperationInv' /\ PausesAreConsistent'
    <3>1. ValidateTarget(control.paused, operations[o].open)
      BY <1>5 DEF ControlInv, OperationInv, SetRegistration
    <3>2. control' = control /\ openMode' = operations[o].open
      BY <1>5 DEF SetRegistration
    <3>3. \A q \in Operators : operations'[q].kind = "none"
      BY <2>3 DEF NoOperation
    <3> QED
      BY <2>3, <3>1, <3>2, <3>3 DEF OperationInv, PausesAreConsistent, ValidateTarget
  <2> QED
    BY <1>5, <2>2, <2>4
    DEF ControlInv, CopiesInv, Copies, GatesInv, GateOK, InFlight, EffectiveAt, ReportsInv, BeatOK, ReportOK,
        SetRegistration
<1>6. CASE Reset
  <2>1. control' = [revision |-> control.revision + 1, paused |-> {}, expires |-> Never]
    BY <1>6 DEF Reset, StoreState
  <2>2. ControlTypeOK'
    BY <1>0, <1>6, <2>1 DEF ControlTypeOK, Snapshot, Reset
  <2>3. OperationInv' /\ PausesAreConsistent'
    BY <1>6, <2>1 DEF ControlInv, OperationInv, PausesAreConsistent, ValidateTarget, Reset, LockRegistration, NoOperation
  <2>4. Copies' \subseteq Copies \cup {control'}
    BY <1>6 DEF Copies, Reset
  <2>5. CopiesInv'
    BY <1>0, <2>1, <2>2, <2>4, CopiesStep DEF ControlInv
  <2> QED
    BY <1>6, <2>2, <2>3, <2>5
    DEF ControlInv, GatesInv, GateOK, InFlight, EffectiveAt, ReportsInv, BeatOK, ReportOK, Reset
<1>7. CASE CleanupStaleInstances
  <2>1. NoBeat \in Beat /\ \A s \in Servers : beats'[s] \in {beats[s], NoBeat}
    BY <1>7 DEF CleanupStaleInstances, NoBeat, Beat
  <2>2. beats' \in [Servers -> Beat]
    <3>1. \E f : beats' = [s \in Servers |-> f[s]]
      <4>1. beats' = [s \in Servers |-> beats'[s]]
        BY <1>7 DEF CleanupStaleInstances
      <4> QED
        BY <4>1
    <3> QED
      BY <1>0, <2>1, <3>1 DEF ControlTypeOK
  <2>3. ControlTypeOK'
    BY <1>0, <1>7, <2>2 DEF ControlTypeOK, CleanupStaleInstances
  <2>4. OperationInv' /\ PausesAreConsistent'
    BY <1>7, OperationFrame DEF ControlInv, CleanupStaleInstances
  <2> QED
    BY <1>7, <2>1, <2>3, <2>4
    DEF ControlInv, CopiesInv, Copies, GatesInv, GateOK, InFlight, EffectiveAt, ReportsInv, BeatOK, ReportOK,
        CleanupStaleInstances, NoBeat
<1>8. CASE ControlTick
  <2>1. ControlTypeOK'
    BY <1>0, <1>8, ControlAssumptions DEF ControlTypeOK, ControlTick
  <2>2. OperationInv' /\ PausesAreConsistent'
    BY <1>8, OperationFrame DEF ControlInv, ControlTick
  <2>3. GatesInv'
    <3>1. \A s \in Servers : EffectiveAt(gates[s].snapshot)' \subseteq EffectiveAt(gates[s].snapshot)
      BY <1>0, <1>8 DEF ControlTick, EffectiveAt, ControlTypeOK, Gate, Snapshot
    <3> QED
      BY <1>8, <3>1 DEF ControlTick, ControlInv, GatesInv, GateOK, InFlight
  <2> QED
    BY <1>8, <2>1, <2>2, <2>3 DEF ControlInv, CopiesInv, Copies, ReportsInv, BeatOK, ReportOK, ControlTick
<1>9. CASE UNCHANGED controlVars
  <2>1. OperationInv' /\ PausesAreConsistent'
    BY <1>9, OperationFrame DEF ControlInv, controlVars
  <2> QED
    BY <1>9, <2>1
    DEF controlVars, ControlInv, ControlTypeOK, CopiesInv, Copies, GatesInv, GateOK, InFlight, EffectiveAt,
        ReportsInv, BeatOK, ReportOK
<1> QED
  BY <1>1, <1>2, <1>3, <1>4, <1>5, <1>6, <1>7, <1>8, <1>9 DEF ControlNext

(* Pauses and the mode of registration are consistent with each other,     *)
(* whoever changes them at once: requests, the reset, expiry               *)
(* (LockRegistration, ValidateTarget).                                     *)
THEOREM ControlStaysConsistent == ControlSpec => []PausesAreConsistent
<1>1. ControlInv => PausesAreConsistent
  BY DEF ControlInv
<1> QED
  BY ControlInitInv, ControlStepInv, <1>1, PTL DEF ControlSpec

(* A pause that was answered as applied has stopped the work it pauses on  *)
(* every server that was alive, for any number of servers, of leases and   *)
(* of revisions (MaybeMarkApplied, publishAndWait).                        *)
THEOREM AppliedPausesHold == ControlSpec => []AppliedIsStopped
<1>1. ControlInv => AppliedIsStopped
  <2> SUFFICES ASSUME ControlInv, NEW r \in reports, NEW s \in r.servers
               PROVE  /\ gates[s].snapshot.revision >= r.revision
                      /\ gates[s].snapshot.revision = r.revision
                           => EffectiveAt(gates[s].snapshot) \cap r.paused \cap InFlight(s) = {}
    BY DEF AppliedIsStopped
  <2>1. r.revision \in Nat /\ s \in Servers
    BY DEF ControlInv, ControlTypeOK
  <2>2. gates[s].snapshot.revision \in Nat /\ gates[s].applied \in Nat
    BY <2>1 DEF ControlInv, ControlTypeOK, Gate, Snapshot
  <2>3. ReportOK(r.revision, gates[s]) /\ GateOK(gates[s], InFlight(s))
    BY <2>1 DEF ControlInv, ReportsInv, GatesInv
  <2> QED
    BY <2>1, <2>2, <2>3 DEF ReportOK, GateOK
<1> QED
  BY ControlInitInv, ControlStepInv, <1>1, PTL DEF ControlSpec
-----------------------------------------------------------------------------
(* Browser sessions.  All scripts that delete leave the sessions that stay *)
(* as they are, and leave them in the index.                               *)

Shrinks ==
    /\ store' \in [Ids -> Session] /\ userIndex' \subseteq Ids /\ userIndexTTL' \in Nat
    /\ \A i \in Ids : Live(store'[i]) =>
          store'[i] = store[i] /\ i \in userIndex' /\ store[i].life <= userIndexTTL'

LEMMA NoSessionDead == NoSession \in Session /\ ~Live(NoSession)
  BY DEF NoSession, Session, Live

LEMMA UnchangedShrinks ==
    ASSUME BrowserTypeOK, IndexReachesAll, UNCHANGED <<store, userIndex, userIndexTTL>>
    PROVE  Shrinks
  BY DEF Shrinks, BrowserTypeOK, IndexReachesAll, LiveIds

LEMMA DropShrinks ==
    ASSUME BrowserTypeOK, IndexReachesAll, NEW S, NEW M \in SUBSET userIndex,
           \A i \in Ids : Live(store[i]) /\ i \notin S => i \in M,
           Drop(S), Members(M, userIndexTTL)
    PROVE  Shrinks
<1>1. store' \in [Ids -> Session] /\ userIndex' \subseteq Ids /\ userIndexTTL' \in Nat
  BY NoSessionDead DEF Drop, Members, BrowserTypeOK
<1>2. ASSUME NEW i \in Ids, Live(store'[i])
      PROVE  store'[i] = store[i] /\ i \in userIndex' /\ store[i].life <= userIndexTTL'
  <2>1. i \notin S /\ store'[i] = store[i]
    BY <1>2, NoSessionDead DEF Drop
  <2>2. i \in M /\ i \in userIndex /\ store[i].life <= userIndexTTL
    BY <1>2, <2>1 DEF IndexReachesAll, LiveIds
  <2> QED
    BY <2>1, <2>2 DEF Members
<1> QED
  BY <1>1, <1>2 DEF Shrinks

LEMMA ScriptsShrink ==
    ASSUME BrowserTypeOK, IndexReachesAll
    PROVE  /\ \A i \in Ids : Delete(i) => Shrinks
           /\ \A keep \in Ids : DeleteOthers(keep) => Shrinks
           /\ \A a, s : DeleteBefore(a, s) => Shrinks
           /\ \A i \in Ids, seen \in SUBSET Dead : DeletePublic(i, seen) => Shrinks
           /\ Members(userIndex \ Dead, userIndexTTL) /\ UNCHANGED store => Shrinks
<1>0. \A i \in Ids : Live(store[i]) => i \in userIndex /\ i \notin Dead
  BY DEF IndexReachesAll, LiveIds, Dead
<1>1. ASSUME NEW i \in Ids, Delete(i) PROVE Shrinks
  <2>1. CASE Live(store[i])
    <3>1. Drop({i}) /\ Members(userIndex \ {i}, userIndexTTL)
      BY <1>1, <2>1 DEF Delete
    <3> QED
      BY <1>0, <3>1, DropShrinks
  <2>2. CASE ~Live(store[i])
    BY <1>1, <2>2, UnchangedShrinks DEF Delete
  <2> QED
    BY <2>1, <2>2
<1>2. ASSUME NEW keep \in Ids, DeleteOthers(keep) PROVE Shrinks
  <2>1. Drop(userIndex \ {keep}) /\ Members(userIndex \cap {keep}, userIndexTTL)
    BY <1>2 DEF DeleteOthers
  <2> QED
    BY <1>0, <2>1, DropShrinks
<1>3. ASSUME NEW a, NEW s, DeleteBefore(a, s) PROVE Shrinks
  <2> DEFINE old == {i \in userIndex : store[i].auth < a \/ store[i].sess < s}
  <2>1. Drop(old) /\ Members(userIndex \ (old \cup Dead), userIndexTTL)
    BY <1>3 DEF DeleteBefore
  <2> HIDE DEF old
  <2> QED
    BY <1>0, <2>1, DropShrinks
<1>4. ASSUME Members(userIndex \ Dead, userIndexTTL), UNCHANGED store PROVE Shrinks
  <2>1. Drop({})
    BY <1>4 DEF Drop, BrowserTypeOK
  <2> QED
    BY <1>0, <1>4, <2>1, DropShrinks
<1>5. ASSUME NEW i \in Ids, NEW seen \in SUBSET Dead, DeletePublic(i, seen) PROVE Shrinks
  <2>1. CASE i \in userIndex /\ Live(store[i])
    <3>1. Drop({i}) /\ Members(userIndex \ ({i} \cup seen), userIndexTTL)
      BY <1>5, <2>1 DEF DeletePublic
    <3> QED
      BY <1>0, <3>1, DropShrinks
  <2>2. CASE ~(i \in userIndex /\ Live(store[i]))
    BY <1>4, <1>5, <2>2 DEF DeletePublic
  <2> QED
    BY <2>1, <2>2
<1> QED
  BY <1>1, <1>2, <1>3, <1>4, <1>5

SessionsInv == IndexReachesAll /\ GenerationWasProved /\ LiveIds \subseteq saved

LEMMA ShrinkKeepsSessions ==
    ASSUME BrowserInv, Shrinks, saved' = saved, \A i \in Ids : proved[i] \subseteq proved'[i]
    PROVE  SessionsInv'
  BY DEF Shrinks, BrowserInv, SessionsInv, IndexReachesAll, GenerationWasProved, LiveIds, Live, Gen

(* The update script writes a session that exists and has not changed.     *)
LEMMA UpdateKeepsSessions ==
    ASSUME BrowserInv, NEW i \in Ids, NEW g \in Generation, NEW h \in Generation, NEW life \in Lives,
           Update(i, [auth |-> h.auth, sess |-> h.sess, life |-> life], g), h = g \/ h \in proved[i],
           saved' = saved, proved' = proved
    PROVE  /\ SessionsInv'
           /\ store' \in [Ids -> Session] /\ userIndex' \subseteq Ids /\ userIndexTTL' \in Nat
           /\ \A j \in Ids : Live(store'[j]) => Live(store[j])
<1> DEFINE s == [auth |-> h.auth, sess |-> h.sess, life |-> life]
<1>0. BrowserTypeOK /\ life \in Nat /\ life > 0
  BY SessionAssumption DEF BrowserInv
<1>1. CASE ~(Live(store[i]) /\ Gen(store[i]) = g)
  <2>1. UNCHANGED <<store, userIndex, userIndexTTL>>
    BY <1>1 DEF Update
  <2>2. Shrinks
    BY <1>0, <2>1, UnchangedShrinks DEF BrowserInv
  <2> QED
    BY <2>1, <2>2, ShrinkKeepsSessions DEF Shrinks
<1>2. CASE Live(store[i]) /\ Gen(store[i]) = g
  <2>1. store' = [store EXCEPT ![i] = s] /\ Members(userIndex \cup {i}, LongerTTL(userIndexTTL, life))
    BY <1>2 DEF Update
  <2>2. s \in Session /\ s.life = life /\ Gen(s) = h
    BY <1>0 DEF Session, Generation, Gen
  <2> HIDE DEF s
  <2>3. userIndex' = userIndex \cup {i} /\ userIndexTTL' = LongerTTL(userIndexTTL, life) /\ userIndexTTL' \in Nat
    BY <1>0, <2>1 DEF Members, LongerTTL, BrowserTypeOK
  <2>4. store' \in [Ids -> Session] /\ store'[i] = s /\ \A j \in Ids : j # i => store'[j] = store[j]
    BY <1>0, <2>1, <2>2 DEF BrowserTypeOK
  <2>5. h \in proved[i] /\ i \in saved
    BY <1>2 DEF BrowserInv, GenerationWasProved, LiveIds
  <2>6. \A j \in Ids : store[j].life \in Nat
    BY <1>0 DEF BrowserTypeOK, Session
  <2>7. userIndexTTL' >= userIndexTTL /\ userIndexTTL' >= life
    BY <1>0, <2>3 DEF LongerTTL, BrowserTypeOK
  <2>8. IndexReachesAll'
    <3> SUFFICES ASSUME NEW j \in Ids, Live(store'[j]) PROVE j \in userIndex' /\ store'[j].life <= userIndexTTL'
      BY DEF IndexReachesAll, LiveIds, Live
    <3>1. CASE j = i
      BY <2>2, <2>3, <2>4, <2>7, <3>1
    <3>2. CASE j # i
      <4>1. j \in userIndex /\ store[j].life <= userIndexTTL
        BY <2>4, <3>2 DEF BrowserInv, IndexReachesAll, LiveIds
      <4>2. userIndexTTL \in Nat
        BY <1>0 DEF BrowserTypeOK
      <4> QED
        BY <2>3, <2>4, <2>6, <2>7, <3>2, <4>1, <4>2
    <3> QED
      BY <3>1, <3>2
  <2>9. GenerationWasProved' /\ (LiveIds \subseteq saved)'
    BY <2>2, <2>4, <2>5 DEF BrowserInv, GenerationWasProved, LiveIds, Live, Gen
  <2> QED
    BY <1>0, <1>2, <2>3, <2>4, <2>8, <2>9 DEF SessionsInv, BrowserTypeOK
<1> QED
  BY <1>1, <1>2

(* A request that is not about to store a new session.                     *)
LEMMA VisitFrame ==
    ASSUME BrowserTypeOK, VisitsInv, UNCHANGED <<next, saved>>, NEW r \in Visits, NEW x \in Visit,
           \A i \in Ids : proved[i] \subseteq proved'[i],
           visit' = [visit EXCEPT ![r] = x],
           x.pc \notin {"save", "saveRotated"},
           x.pc \notin {"idle", "create", "createRotated", "clean"} => x.id \in Ids,
           x.pc \in {"record", "mark"} => x.gen \in proved'[x.id]
    PROVE  VisitsInv' /\ visit' \in [Visits -> Visit]
<1>1. visit'[r] = x /\ (\A q \in Visits : q # r => visit'[q] = visit[q]) /\ visit' \in [Visits -> Visit]
  BY DEF BrowserTypeOK
<1>2. \A q \in Visits : VisitOK(q)'
  BY <1>1 DEF VisitsInv, VisitOK
<1> QED
  BY <1>1, <1>2 DEF VisitsInv

SessionStepOK == BrowserInv' /\ \A i \in saved : ~Live(store[i]) => ~Live(store'[i])

LEMMA NoVisitType == NoVisit \in Visit /\ NoVisit.pc = "idle" /\ NoGen \in Generation
  BY DEF NoVisit, NewVisit, NoGen, Visit, Generation

LEMMA NewVisitType ==
    ASSUME NEW pc \in {"create", "save", "createRotated", "saveRotated", "deleteOthers", "touch", "check", "clean"},
           NEW i \in Ids \cup {0}, NEW g \in Generation, NEW h \in Generation
    PROVE  /\ NewVisit(pc, i, g, h) \in Visit
           /\ NewVisit(pc, i, g, h).pc = pc /\ NewVisit(pc, i, g, h).id = i /\ NewVisit(pc, i, g, h).gen = g
  BY DEF NewVisit, Visit

(* A step of a request, or of none, that deletes sessions or none.         *)
LEMMA ShrinkStep ==
    ASSUME BrowserInv, Shrinks, UNCHANGED <<next, saved>>,
           user' \in [auth : Nat, sess : Nat, active : BOOLEAN],
           proved' \in [Ids -> SUBSET Generation], \A i \in Ids : proved[i] \subseteq proved'[i],
           \/ visit' = visit
           \/ \E r \in Visits, x \in Visit :
                 /\ visit' = [visit EXCEPT ![r] = x]
                 /\ x.pc \notin {"save", "saveRotated"}
                 /\ x.pc \notin {"idle", "create", "createRotated", "clean"} => x.id \in Ids
                 /\ x.pc \in {"record", "mark"} => x.gen \in proved'[x.id]
    PROVE  SessionStepOK
<1>1. SessionsInv'
  BY ShrinkKeepsSessions
<1>2. VisitsInv' /\ visit' \in [Visits -> Visit]
  <2>1. CASE visit' = visit
    BY <2>1 DEF BrowserInv, BrowserTypeOK, VisitsInv, VisitOK
  <2>2. ASSUME NEW r \in Visits, NEW x \in Visit,
               visit' = [visit EXCEPT ![r] = x], x.pc \notin {"save", "saveRotated"},
               x.pc \notin {"idle", "create", "createRotated", "clean"} => x.id \in Ids,
               x.pc \in {"record", "mark"} => x.gen \in proved'[x.id]
        PROVE  VisitsInv' /\ visit' \in [Visits -> Visit]
    BY <2>2, VisitFrame DEF BrowserInv
  <2> QED
    BY <2>1, <2>2
<1>3. BrowserTypeOK'
  BY <1>2 DEF BrowserInv, BrowserTypeOK, Shrinks
<1>4. \A i \in saved : i \in Ids
  BY DEF BrowserInv, BrowserTypeOK
<1> QED
  BY <1>1, <1>2, <1>3, <1>4 DEF SessionStepOK, BrowserInv, SessionsInv, Shrinks

LEMMA CreateSessionInv ==
    ASSUME BrowserInv, NEW r \in Visits, CreateSession(r)
    PROVE  SessionStepOK
<1> DEFINE pc == IF visit[r].pc = "create" THEN "save" ELSE "saveRotated"
           x == NewVisit(pc, next, visit[r].gen, NoGen)
<1>0. /\ BrowserTypeOK /\ visit[r] \in Visit /\ visit[r].gen \in Generation /\ next \in Ids /\ next \in Nat
      /\ MaxSessions \in Nat
  BY SessionAssumption DEF BrowserInv, BrowserTypeOK, CreateSession, Ids, Visit
<1>1. x \in Visit /\ x.pc \in {"save", "saveRotated"} /\ x.id = next /\ x.gen = visit[r].gen
  BY <1>0, NewVisitType, NoVisitType
<1>2. visit' = [visit EXCEPT ![r] = x]
  BY DEF CreateSession
<1> HIDE DEF x
<1>3. visit'[r] = x /\ \A q \in Visits : q # r => visit'[q] = visit[q]
  BY <1>0, <1>2 DEF BrowserTypeOK
<1>4. proved' = [proved EXCEPT ![next] = @ \cup {visit[r].gen}] /\ next' = next + 1
      /\ UNCHANGED <<user, store, userIndex, userIndexTTL, saved>>
  BY DEF CreateSession, Proves
<1>5. /\ proved' \in [Ids -> SUBSET Generation] /\ visit[r].gen \in proved'[next]
      /\ \A i \in Ids : proved[i] \subseteq proved'[i]
  BY <1>0, <1>4 DEF BrowserTypeOK
<1>6. BrowserTypeOK'
  BY <1>0, <1>1, <1>2, <1>4, <1>5 DEF BrowserTypeOK, Ids
<1>7. SessionsInv'
  BY <1>0, <1>4, <1>5, UnchangedShrinks, ShrinkKeepsSessions DEF BrowserInv
<1>8. VisitsInv'
  <2>1. next \notin saved /\ \A i \in saved : i < next /\ i \in Nat
    BY <1>0 DEF BrowserInv, VisitsInv, BrowserTypeOK, Ids
  <2>2. ASSUME NEW q \in Visits, q # r
        PROVE  VisitOK(q)' /\ (visit'[q].pc \in {"save", "saveRotated"} => visit'[q].id # next)
    <3>1. VisitOK(q) /\ visit'[q] = visit[q] /\ visit[q].id \in Nat
      BY <1>0, <1>3, <2>2 DEF BrowserInv, VisitsInv, BrowserTypeOK, Visit, Ids
    <3> QED
      BY <1>0, <1>4, <1>5, <3>1 DEF VisitOK
  <2>3. VisitOK(r)'
    BY <1>0, <1>1, <1>3, <1>4, <1>5, <2>1 DEF VisitOK
  <2>4. \A i \in saved' : i < next'
    BY <1>0, <1>4, <2>1
  <2>5. \A q, p \in Visits :
          /\ visit'[q].pc \in {"save", "saveRotated"} /\ visit'[p].pc \in {"save", "saveRotated"}
          /\ visit'[q].id = visit'[p].id
          => q = p
    <3>1. \A q, p \in Visits :
            /\ visit[q].pc \in {"save", "saveRotated"} /\ visit[p].pc \in {"save", "saveRotated"}
            /\ visit[q].id = visit[p].id
            => q = p
      BY DEF BrowserInv, VisitsInv
    <3> QED
      BY <1>1, <1>3, <2>2, <3>1
  <2> QED
    BY <2>2, <2>3, <2>4, <2>5 DEF VisitsInv
<1> QED
  BY <1>4, <1>6, <1>7, <1>8 DEF SessionStepOK, BrowserInv, SessionsInv

(* A session is stored once; the sessions that its script evicts are gone, *)
(* the others stay in the index, whose life is the longest of all.         *)
LEMMA SaveSessionInv ==
    ASSUME BrowserInv, NEW r \in Visits, NEW life \in Lives, SaveSession(r, life)
    PROVE  SessionStepOK
<1> DEFINE i == visit[r].id
           s == [auth |-> visit[r].gen.auth, sess |-> visit[r].gen.sess, life |-> life]
           live == {j \in userIndex \cup {i} : j = i \/ Live(store[j])}
           out == Excess(live)
           kept == IF Limit = 0 THEN userIndex \cup {i} ELSE live \ out
<1>0. /\ BrowserTypeOK /\ visit[r] \in Visit /\ visit[r].gen \in Generation /\ life \in Nat
      /\ visit[r].pc \in {"save", "saveRotated"}
  BY SessionAssumption DEF BrowserInv, BrowserTypeOK, SaveSession, Visit
<1>1. i \in Ids /\ i < next /\ i \notin saved /\ visit[r].gen \in proved[i]
  BY <1>0 DEF BrowserInv, VisitsInv, VisitOK
<1>2. /\ store' = [j \in Ids |-> IF j \in out THEN NoSession ELSE IF j = i THEN s ELSE store[j]]
      /\ Members(kept, LongerTTL(userIndexTTL, s.life))
  BY DEF SaveSession, Save
<1>3. s \in Session /\ s.life = life /\ Gen(s) = visit[r].gen
  BY <1>0 DEF Session, Generation, Gen
<1>4. live \subseteq Ids /\ kept \subseteq Ids
  BY <1>0, <1>1 DEF BrowserTypeOK
<1>5. \A j \in Ids \ out : (j = i \/ (j \in userIndex /\ Live(store[j]))) => j \in kept
  OBVIOUS
<1> HIDE DEF s, live, out, kept
<1>6. store' \in [Ids -> Session]
  BY <1>0, <1>2, <1>3, NoSessionDead DEF BrowserTypeOK
<1>7. \A j \in Ids : Live(store'[j]) => j \notin out /\ store'[j] = IF j = i THEN s ELSE store[j]
  BY <1>2, NoSessionDead
<1>8. /\ userIndexTTL \in Nat /\ LongerTTL(userIndexTTL, life) \in Nat
      /\ LongerTTL(userIndexTTL, life) >= userIndexTTL /\ LongerTTL(userIndexTTL, life) >= life
  BY <1>0 DEF LongerTTL, BrowserTypeOK
<1>9. userIndex' = kept /\ userIndexTTL' \in Nat /\ (kept # {} => userIndexTTL' = LongerTTL(userIndexTTL, life))
  BY <1>2, <1>3, <1>8 DEF Members
<1>10. IndexReachesAll'
  <2> SUFFICES ASSUME NEW j \in Ids, Live(store'[j]) PROVE j \in userIndex' /\ store'[j].life <= userIndexTTL'
    BY DEF IndexReachesAll, LiveIds, Live
  <2>1. CASE j = i
    BY <1>3, <1>5, <1>7, <1>8, <1>9, <2>1
  <2>2. CASE j # i
    <3>1. store'[j] = store[j] /\ Live(store[j]) /\ j \in userIndex /\ store[j].life <= userIndexTTL
      BY <1>7, <2>2 DEF BrowserInv, IndexReachesAll, LiveIds
    <3>2. store[j].life \in Nat
      BY <1>0 DEF BrowserTypeOK, Session
    <3> QED
      BY <1>5, <1>7, <1>8, <1>9, <3>1, <3>2
  <2> QED
    BY <2>1, <2>2
<1>11. saved' = saved \cup {i} /\ UNCHANGED <<user, next, proved>>
  BY DEF SaveSession
<1>12. GenerationWasProved' /\ (LiveIds \subseteq saved)'
  BY <1>1, <1>3, <1>7, <1>11 DEF BrowserInv, GenerationWasProved, LiveIds, Live, Gen
<1>13. PICK x \in Visit : visit' = [visit EXCEPT ![r] = x] /\ x.pc \in {"idle", "deleteOthers"}
                         /\ (x.pc = "deleteOthers" => x.id \in Ids)
  <2>1. CASE visit[r].pc = "save"
    BY <2>1, NoVisitType DEF SaveSession, VisitDone
  <2>2. CASE visit[r].pc # "save"
    <3> DEFINE y == NewVisit("deleteOthers", i, NoGen, NoGen)
    <3>1. y \in Visit /\ y.pc = "deleteOthers" /\ y.id = i
      BY <1>1, NewVisitType, NoVisitType
    <3>2. visit' = [visit EXCEPT ![r] = y]
      BY <2>2 DEF SaveSession
    <3> QED
      BY <1>1, <3>1, <3>2
  <2> QED
    BY <2>1, <2>2
<1>14. visit'[r] = x /\ (\A q \in Visits : q # r => visit'[q] = visit[q]) /\ visit' \in [Visits -> Visit]
  BY <1>0, <1>13 DEF BrowserTypeOK
<1>15. VisitsInv'
  <2>1. \A q \in Visits : q # r /\ visit[q].pc \in {"save", "saveRotated"} => visit[q].id # i
    BY <1>0 DEF BrowserInv, VisitsInv
  <2>2. \A q \in Visits : VisitOK(q)'
    BY <1>11, <1>13, <1>14, <2>1 DEF BrowserInv, VisitsInv, VisitOK
  <2>3. \A j \in saved' : j < next'
    BY <1>1, <1>11 DEF BrowserInv, VisitsInv
  <2> QED
    BY <1>13, <1>14, <2>2, <2>3 DEF BrowserInv, VisitsInv
<1>16. BrowserTypeOK'
  BY <1>0, <1>1, <1>4, <1>6, <1>9, <1>11, <1>14 DEF BrowserTypeOK
<1>17. \A j \in saved : ~Live(store[j]) => ~Live(store'[j])
  BY <1>0, <1>1, <1>7 DEF BrowserTypeOK
<1> QED
  BY <1>10, <1>12, <1>15, <1>16, <1>17 DEF SessionStepOK, BrowserInv

LEMMA BrowserInitInv == BrowserInit => BrowserInv
<1> SUFFICES ASSUME BrowserInit PROVE BrowserInv
  OBVIOUS
<1>1. BrowserTypeOK
  BY NoSessionDead, NoVisitType, SessionAssumption DEF BrowserInit, BrowserTypeOK
<1>2. LiveIds = {}
  BY NoSessionDead DEF BrowserInit, LiveIds
<1>3. VisitsInv
  BY NoVisitType DEF BrowserInit, VisitsInv, VisitOK
<1> QED
  BY <1>1, <1>2, <1>3 DEF BrowserInv, IndexReachesAll, GenerationWasProved

(* The requests that write a session back.                                 *)
LEMMA UpdateStepInv ==
    ASSUME BrowserInv, NEW r \in Visits, NEW life \in Lives,
           TouchSession(r, life) \/ MarkReauthenticated(r, life)
    PROVE  SessionStepOK
<1> DEFINE i == visit[r].id
           v == visit[r]
<1>0. BrowserTypeOK /\ v \in Visit /\ v.gen \in Generation /\ v.seen \in Generation
  BY DEF BrowserInv, BrowserTypeOK, Visit
<1>1. UNCHANGED <<user, next, saved, proved>>
  BY DEF TouchSession, MarkReauthenticated
<1>2. v.pc \in {"touch", "mark"} /\ i \in Ids /\ (v.pc = "mark" => v.gen \in proved[i])
  BY DEF TouchSession, MarkReauthenticated, BrowserInv, VisitsInv, VisitOK
<1>3. \E h \in Generation : /\ Update(i, [auth |-> h.auth, sess |-> h.sess, life |-> life], v.seen)
                            /\ h = v.seen \/ h \in proved[i]
  BY <1>0, <1>2 DEF TouchSession, MarkReauthenticated
<1>4. /\ SessionsInv'
      /\ store' \in [Ids -> Session] /\ userIndex' \subseteq Ids /\ userIndexTTL' \in Nat
      /\ \A j \in Ids : Live(store'[j]) => Live(store[j])
  BY <1>0, <1>1, <1>2, <1>3, UpdateKeepsSessions
<1>5. \E x \in Visit : visit' = [visit EXCEPT ![r] = x] /\ x.pc \in {"idle", "check"} /\ (x.pc = "check" => x.id \in Ids)
  <2>1. [v EXCEPT !.pc = "check"] \in Visit /\ [v EXCEPT !.pc = "check"].id = i /\ [v EXCEPT !.pc = "check"].pc = "check"
    BY <1>0 DEF Visit
  <2>2. visit' = [visit EXCEPT ![r] = [v EXCEPT !.pc = "check"]] \/ visit' = [visit EXCEPT ![r] = NoVisit]
    BY <1>0 DEF TouchSession, MarkReauthenticated, VisitDone, BrowserTypeOK
  <2> QED
    BY <1>2, <2>1, <2>2, NoVisitType
<1>6. VisitsInv' /\ visit' \in [Visits -> Visit]
  BY <1>0, <1>1, <1>5, VisitFrame DEF BrowserInv
<1>7. BrowserTypeOK' /\ saved \subseteq Ids
  BY <1>0, <1>1, <1>4, <1>6 DEF BrowserTypeOK
<1> QED
  BY <1>4, <1>6, <1>7 DEF SessionStepOK, BrowserInv, SessionsInv

(* The steps that leave the sessions alone.                                *)
LEMMA VisitOnlyInv ==
    ASSUME BrowserInv, NEW r \in Visits,
           \/ Authenticate(r) \/ Respond(r) \/ RecordAuthentication(r) \/ VerifyCurrentPassword(r)
           \/ AbandonVisit(r) \/ UpdatePassword(r) \/ VerifyPassword(r)
           \/ \E i \in Ids, touch \in BOOLEAN : GetSession(r, i, touch)
    PROVE  SessionStepOK
<1>0. BrowserTypeOK /\ visit[r] \in Visit /\ visit[r].gen \in Generation /\ user.auth \in Nat /\ user.sess \in Nat
      /\ user \in [auth : Nat, sess : Nat, active : BOOLEAN]
  BY DEF BrowserInv, BrowserTypeOK, Visit
<1>1. UNCHANGED <<store, userIndex, userIndexTTL, next, saved>>
  BY DEF Authenticate, Respond, RecordAuthentication, VerifyCurrentPassword, AbandonVisit, UpdatePassword,
         VerifyPassword, GetSession
<1>2. Shrinks
  BY <1>0, <1>1, UnchangedShrinks DEF BrowserInv
<1>3. Gen(user) \in Generation /\ \A i \in Ids : Gen(store[i]) \in Generation
  BY <1>0 DEF Gen, Generation, BrowserTypeOK, Session
<1>4. proved \in [Ids -> SUBSET Generation]
  BY <1>0 DEF BrowserTypeOK
<1>5. CASE Authenticate(r)
  <2> DEFINE x == NewVisit("create", 0, Gen(user), NoGen)
  <2>1. x \in Visit /\ x.pc = "create"
    BY <1>3, NoVisitType DEF NewVisit, Visit
  <2>2. visit' = [visit EXCEPT ![r] = x] /\ UNCHANGED <<user, proved>>
    BY <1>5 DEF Authenticate
  <2> QED
    BY <1>0, <1>1, <1>2, <1>4, <2>1, <2>2, ShrinkStep
<1>6. CASE Respond(r) \/ AbandonVisit(r)
  <2>1. visit' = [visit EXCEPT ![r] = NoVisit] /\ UNCHANGED <<user, proved>>
    BY <1>6 DEF Respond, AbandonVisit, VisitDone
  <2> QED
    BY <1>0, <1>1, <1>2, <1>4, <2>1, NoVisitType, ShrinkStep
<1>7. CASE RecordAuthentication(r)
  <2> DEFINE x == IF SessionAccepted(visit[r].gen, user) THEN [visit[r] EXCEPT !.pc = "mark"] ELSE NoVisit
  <2>1. visit[r].id \in Ids /\ visit[r].gen \in proved[visit[r].id]
    BY <1>7 DEF BrowserInv, VisitsInv, VisitOK, RecordAuthentication
  <2>2. x \in Visit /\ x.pc \in {"idle", "mark"} /\ (x.pc = "mark" => x.id = visit[r].id /\ x.gen = visit[r].gen)
    BY <1>0, NoVisitType DEF Visit
  <2>3. visit' = [visit EXCEPT ![r] = x] /\ UNCHANGED <<user, proved>>
    BY <1>7 DEF RecordAuthentication
  <2> HIDE DEF x
  <2> QED
    BY <1>0, <1>1, <1>2, <1>4, <2>1, <2>2, <2>3, ShrinkStep
<1>8. CASE VerifyCurrentPassword(r)
  <2> DEFINE x == [visit[r] EXCEPT !.pc = "update"]
  <2>1. visit[r].id \in Ids
    BY <1>8 DEF BrowserInv, VisitsInv, VisitOK, VerifyCurrentPassword
  <2>2. x \in Visit /\ x.pc = "update" /\ x.id = visit[r].id
    BY <1>0 DEF Visit
  <2>3. visit' = [visit EXCEPT ![r] = x] /\ UNCHANGED <<user, proved>>
    BY <1>0, <1>8 DEF VerifyCurrentPassword, BrowserTypeOK
  <2> HIDE DEF x
  <2> QED
    BY <1>0, <1>1, <1>2, <1>4, <2>1, <2>2, <2>3, ShrinkStep
<1>9. CASE UpdatePassword(r)
  <2>1. user' = [user EXCEPT !.auth = @ + 1] /\ UNCHANGED proved
    BY <1>9 DEF UpdatePassword
  <2>2. user' \in [auth : Nat, sess : Nat, active : BOOLEAN] /\ Gen(user') \in Generation
    BY <1>0, <2>1 DEF Gen, Generation
  <2> DEFINE x == NewVisit("clean", visit[r].id, Gen(user'), NoGen)
  <2>3. visit[r].id \in Ids
    BY <1>9 DEF BrowserInv, VisitsInv, VisitOK, UpdatePassword
  <2>4. x \in Visit /\ x.pc = "clean"
    BY <2>2, <2>3, NewVisitType, NoVisitType
  <2>5. visit' = [visit EXCEPT ![r] = x]
    BY <1>9 DEF UpdatePassword
  <2> HIDE DEF x
  <2> QED
    BY <1>0, <1>1, <1>2, <1>4, <2>1, <2>2, <2>4, <2>5, ShrinkStep
<1>10. CASE VerifyPassword(r)
  <2> DEFINE x == [visit[r] EXCEPT !.pc = "record", !.gen = Gen(user)]
             i == visit[r].id
  <2>1. i \in Ids
    BY <1>10 DEF BrowserInv, VisitsInv, VisitOK, VerifyPassword
  <2>2. x \in Visit /\ x.pc = "record" /\ x.id = i /\ x.gen = Gen(user)
    BY <1>0, <1>3 DEF Visit
  <2>3. visit' = [visit EXCEPT ![r] = x]
    BY <1>0, <1>10 DEF VerifyPassword, BrowserTypeOK, Visit
  <2>4. proved' = [proved EXCEPT ![i] = @ \cup {Gen(user)}] /\ user' = user
    BY <1>10 DEF VerifyPassword, Proves
  <2>5. /\ proved' \in [Ids -> SUBSET Generation] /\ Gen(user) \in proved'[i]
        /\ \A j \in Ids : proved[j] \subseteq proved'[j]
    BY <1>3, <1>4, <2>1, <2>4
  <2> HIDE DEF x
  <2> QED
    BY <1>0, <1>1, <1>2, <2>1, <2>2, <2>3, <2>4, <2>5, ShrinkStep
<1>11. ASSUME NEW i \in Ids, NEW touch \in BOOLEAN, GetSession(r, i, touch) PROVE SessionStepOK
  <2> DEFINE pc == IF touch THEN "touch" ELSE "check"
             x == NewVisit(pc, i, NoGen, Gen(store[i]))
  <2>1. x \in Visit /\ x.pc \in {"touch", "check"} /\ x.id = i
    BY <1>3, NewVisitType, NoVisitType
  <2>2. visit' = [visit EXCEPT ![r] = x] /\ UNCHANGED <<user, proved>>
    BY <1>11 DEF GetSession
  <2> HIDE DEF x
  <2> QED
    BY <1>0, <1>1, <1>2, <1>4, <2>1, <2>2, ShrinkStep
<1> QED
  BY <1>5, <1>6, <1>7, <1>8, <1>9, <1>10, <1>11

(* The requests that delete sessions, or find nothing to delete.           *)
LEMMA DeletingInv ==
    ASSUME BrowserInv, NEW r \in Visits,
           \/ CheckSession(r) \/ DestroySession(r) \/ ListSessions(r) \/ RevokeOtherSessions(r)
           \/ \E ok \in BOOLEAN : RotateSession(r, ok)
           \/ \E ok \in BOOLEAN, a, s \in Nat : RevokeUserSecurityState(r, a, s, ok)
           \/ \E i \in Ids : RevokeSession(r, i)
    PROVE  SessionStepOK
<1>0. BrowserTypeOK /\ IndexReachesAll /\ visit[r] \in Visit /\ visit[r].gen \in Generation
      /\ user \in [auth : Nat, sess : Nat, active : BOOLEAN] /\ proved \in [Ids -> SUBSET Generation]
  BY DEF BrowserInv, BrowserTypeOK, Visit
<1>1. visit[r].pc \in {"check", "handle", "deleteOthers"} => visit[r].id \in Ids
  BY DEF BrowserInv, VisitsInv, VisitOK
<1>2. UNCHANGED <<user, next, saved, proved>>
  BY DEF CheckSession, DestroySession, ListSessions, RevokeOtherSessions, RotateSession,
         RevokeUserSecurityState, RevokeSession
<1>3. ASSUME Shrinks, VisitDone(r) PROVE SessionStepOK
  <2>1. visit' = [visit EXCEPT ![r] = NoVisit]
    BY <1>3 DEF VisitDone
  <2> QED
    BY <1>0, <1>2, <1>3, <2>1, NoVisitType, ShrinkStep
<1>4. CASE CheckSession(r)
  <2>1. CASE SessionAccepted(visit[r].seen, user)
    <3> DEFINE x == [visit[r] EXCEPT !.pc = "handle"]
    <3>1. x \in Visit /\ x.pc = "handle" /\ x.id = visit[r].id
      BY <1>0 DEF Visit
    <3>2. visit' = [visit EXCEPT ![r] = x] /\ UNCHANGED <<store, userIndex, userIndexTTL>> /\ visit[r].pc = "check"
      BY <1>0, <1>4, <2>1 DEF CheckSession, BrowserTypeOK
    <3>3. Shrinks
      BY <1>0, <3>2, UnchangedShrinks
    <3> HIDE DEF x
    <3> QED
      BY <1>0, <1>1, <1>2, <3>1, <3>2, <3>3, ShrinkStep
  <2>2. CASE ~SessionAccepted(visit[r].seen, user)
    <3>1. VisitDone(r) /\ Delete(visit[r].id) /\ visit[r].pc = "check"
      BY <1>4, <2>2 DEF CheckSession
    <3> QED
      BY <1>0, <1>1, <1>3, <3>1, ScriptsShrink
  <2> QED
    BY <2>1, <2>2
<1>5. CASE DestroySession(r)
  BY <1>0, <1>1, <1>3, <1>5, ScriptsShrink DEF DestroySession
<1>6. CASE ListSessions(r)
  BY <1>0, <1>3, <1>6, ScriptsShrink DEF ListSessions
<1>7. CASE RevokeOtherSessions(r)
  BY <1>0, <1>1, <1>3, <1>7, ScriptsShrink DEF RevokeOtherSessions
<1>8. ASSUME NEW ok \in BOOLEAN, RotateSession(r, ok) PROVE SessionStepOK
  <2>1. (DeleteOthers(visit[r].id) \/ Delete(visit[r].id)) /\ VisitDone(r) /\ visit[r].pc = "deleteOthers"
    BY <1>8 DEF RotateSession
  <2> QED
    BY <1>0, <1>1, <1>3, <2>1, ScriptsShrink
<1>9. ASSUME NEW ok \in BOOLEAN, NEW a \in Nat, NEW s \in Nat, RevokeUserSecurityState(r, a, s, ok)
      PROVE  SessionStepOK
  <2> DEFINE x == NewVisit("createRotated", 0, visit[r].gen, NoGen)
  <2>1. DeleteBefore(a, s) \/ UNCHANGED <<store, userIndex, userIndexTTL>>
    BY <1>9 DEF RevokeUserSecurityState
  <2>2. Shrinks
    BY <1>0, <2>1, ScriptsShrink, UnchangedShrinks
  <2>3. x \in Visit /\ x.pc = "createRotated"
    BY <1>0, NoVisitType DEF NewVisit, Visit
  <2>4. visit' = [visit EXCEPT ![r] = x]
    BY <1>9 DEF RevokeUserSecurityState
  <2> HIDE DEF x
  <2> QED
    BY <1>0, <1>2, <2>2, <2>3, <2>4, ShrinkStep
<1>10. ASSUME NEW i \in Ids, RevokeSession(r, i) PROVE SessionStepOK
  BY <1>0, <1>3, <1>10, ScriptsShrink DEF RevokeSession
<1> QED
  BY <1>4, <1>5, <1>6, <1>7, <1>8, <1>9, <1>10

(* Time takes from every life the same.                                    *)
LEMMA BrowserTickInv ==
    ASSUME BrowserInv, BrowserTick
    PROVE  SessionStepOK
<1>0. BrowserTypeOK /\ userIndexTTL \in Nat /\ \A i \in Ids : store[i] \in Session /\ store[i].life \in Nat
  BY DEF BrowserInv, BrowserTypeOK, Session
<1>1. \A i \in Ids : /\ store'[i] \in Session
                     /\ Live(store'[i]) => /\ store[i].life > 1 /\ store'[i].life = store[i].life - 1
                                           /\ Gen(store'[i]) = Gen(store[i])
  <2>1. ASSUME NEW i \in Ids, store[i].life > 1
        PROVE  [store[i] EXCEPT !.life = @ - 1] \in Session /\ Gen([store[i] EXCEPT !.life = @ - 1]) = Gen(store[i])
               /\ [store[i] EXCEPT !.life = @ - 1].life = store[i].life - 1
    <3>1. store[i].life - 1 \in Nat
      BY <1>0, <2>1
    <3> QED
      BY <1>0, <2>1, <3>1 DEF Session, Gen
  <2> QED
    BY <2>1, NoSessionDead DEF BrowserTick
<1>2. store' \in [Ids -> Session]
  BY <1>1 DEF BrowserTick
<1>3. UNCHANGED <<user, next, saved, proved, visit>>
  BY DEF BrowserTick
<1>4. userIndex' = (IF userIndexTTL > 1 THEN userIndex ELSE {})
      /\ userIndexTTL' = IF userIndex' = {} THEN 0 ELSE userIndexTTL - 1
  BY DEF BrowserTick, Members
<1>5. userIndexTTL' \in Nat /\ userIndex' \subseteq Ids
  BY <1>0, <1>4 DEF BrowserTypeOK
<1>6. BrowserTypeOK'
  BY <1>0, <1>2, <1>3, <1>5 DEF BrowserTypeOK
<1>7. ASSUME NEW i \in Ids, Live(store'[i])
      PROVE  i \in userIndex' /\ store'[i].life <= userIndexTTL' /\ Live(store[i])
  <2>1. store[i].life > 1 /\ store'[i].life = store[i].life - 1
    BY <1>1, <1>7
  <2>2. Live(store[i]) /\ i \in userIndex /\ store[i].life <= userIndexTTL
    BY <1>0, <2>1 DEF BrowserInv, IndexReachesAll, LiveIds, Live
  <2> QED
    BY <1>0, <1>4, <2>1, <2>2
<1>8. IndexReachesAll'
  BY <1>7 DEF IndexReachesAll, LiveIds, Live
<1>9. GenerationWasProved' /\ (LiveIds \subseteq saved)'
  <2>1. \A i \in Ids : Live(store'[i]) => Gen(store'[i]) \in proved'[i] /\ i \in saved'
    BY <1>1, <1>3, <1>7 DEF BrowserInv, GenerationWasProved, LiveIds
  <2> QED
    BY <2>1 DEF GenerationWasProved, LiveIds, Live, Gen
<1>10. VisitsInv'
  BY <1>3 DEF BrowserInv, VisitsInv, VisitOK
<1> QED
  BY <1>0, <1>6, <1>7, <1>8, <1>9, <1>10 DEF SessionStepOK, BrowserInv, BrowserTypeOK

LEMMA BrowserStepInv == BrowserInv /\ [BrowserNext]_browserVars => SessionStepOK
<1> SUFFICES ASSUME BrowserInv, [BrowserNext]_browserVars PROVE SessionStepOK
  OBVIOUS
<1>0. BrowserTypeOK /\ IndexReachesAll /\ user \in [auth : Nat, sess : Nat, active : BOOLEAN]
      /\ proved \in [Ids -> SUBSET Generation]
  BY DEF BrowserInv, BrowserTypeOK
<1>1. ASSUME NEW r \in Visits, VisitStep(r) PROVE SessionStepOK
  <2>1. \A a \in 1 .. user.auth, s \in 1 .. user.sess : a \in Nat /\ s \in Nat
    BY <1>0
  <2> QED
    BY <1>1, <2>1, CreateSessionInv, SaveSessionInv, UpdateStepInv, VisitOnlyInv, DeletingInv DEF VisitStep
<1>2. CASE AdvanceGeneration \/ ChangeStatus \/ RevokeSessions
  <2>1. user' \in [auth : Nat, sess : Nat, active : BOOLEAN]
    <3>1. user.auth + 1 \in Nat /\ user.sess + 1 \in Nat /\ (~user.active) \in BOOLEAN
      BY <1>0
    <3>2. CASE AdvanceGeneration
      BY <1>0, <3>1, <3>2 DEF AdvanceGeneration
    <3>3. CASE ChangeStatus
      BY <1>0, <3>1, <3>3 DEF ChangeStatus
    <3>4. CASE RevokeSessions
      BY <1>0, <3>1, <3>4 DEF RevokeSessions
    <3> QED
      BY <1>2, <3>2, <3>3, <3>4
  <2>2. UNCHANGED <<store, userIndex, userIndexTTL, next, saved, proved, visit>>
    BY <1>2 DEF AdvanceGeneration, ChangeStatus, RevokeSessions
  <2> QED
    BY <1>0, <2>1, <2>2, UnchangedShrinks, ShrinkStep
<1>3. ASSUME NEW a, NEW s, CleanBefore(a, s) PROVE SessionStepOK
  <2>1. Shrinks /\ UNCHANGED <<user, next, saved, proved, visit>>
    BY <1>0, <1>3, ScriptsShrink DEF CleanBefore
  <2> QED
    BY <1>0, <2>1, ShrinkStep
<1>4. ASSUME NEW i \in Ids, ExpireByPolicy(i) PROVE SessionStepOK
  <2>1. Shrinks /\ UNCHANGED <<user, next, saved, proved, visit>>
    BY <1>0, <1>4, ScriptsShrink DEF ExpireByPolicy
  <2> QED
    BY <1>0, <2>1, ShrinkStep
<1>5. CASE BrowserTick
  BY <1>5, BrowserTickInv
<1>6. CASE UNCHANGED browserVars
  <2>1. UNCHANGED <<user, store, userIndex, userIndexTTL, next, saved, proved, visit>>
    BY <1>6 DEF browserVars
  <2> QED
    BY <1>0, <2>1, UnchangedShrinks, ShrinkStep
<1> QED
  BY <1>1, <1>2, <1>3, <1>4, <1>5, <1>6 DEF BrowserNext

(* The index of a user reaches every session he has, for as long as it     *)
(* lives: saveSessionScript and updateSessionScript give the index the     *)
(* longest life, and no deleting script forgets a live session.            *)
THEOREM RevocationReachesEverySession == BrowserSpec => []IndexReachesAll
<1>1. BrowserInv /\ [BrowserNext]_browserVars => BrowserInv'
  BY BrowserStepInv DEF SessionStepOK
<1>2. BrowserInv => IndexReachesAll
  BY DEF BrowserInv
<1> QED
  BY BrowserInitInv, <1>1, <1>2, PTL DEF BrowserSpec

(* No session gets a generation that its holder has not proved, however    *)
(* logins, re-authentications, changes of passwords and revocations        *)
(* interleave (RecordAuthentication and the versions updateSessionScript   *)
(* compares).                                                              *)
THEOREM SessionGenerationsAreProved == BrowserSpec => []GenerationWasProved
<1>1. BrowserInv /\ [BrowserNext]_browserVars => BrowserInv'
  BY BrowserStepInv DEF SessionStepOK
<1>2. BrowserInv => GenerationWasProved
  BY DEF BrowserInv
<1> QED
  BY BrowserInitInv, <1>1, <1>2, PTL DEF BrowserSpec

(* A session that is gone is never written again by a request that has     *)
(* read it before (updateSessionScript).                                   *)
THEOREM SessionsStayDeleted == BrowserSpec => NoResurrection
<1>1. BrowserInv /\ [BrowserNext]_browserVars
      => BrowserInv' /\ [\A i \in saved : ~Live(store[i]) => ~Live(store'[i])]_browserVars
  BY BrowserStepInv DEF SessionStepOK
<1> QED
  BY BrowserInitInv, <1>1, PTL DEF BrowserSpec, NoResurrection
-----------------------------------------------------------------------------
(* Grants by authorization code.                                           *)

LEMMA GrantInitInv == GrantInit => GrantInv
<1> SUFFICES ASSUME GrantInit PROVE GrantInv
  OBVIOUS
<1>1. NoCall \in Call /\ NoCall.pc = "idle" /\ NoCall.g = 0
  BY GrantLifetimes DEF NoCall, NewCall, Call
<1>2. GrantTypeOK
  BY <1>1, GrantBounds DEF GrantInit, GrantTypeOK, Revisions, Row, Key, NoKey, Code
<1>3. CodeExchangedOnce /\ StampsInv
  BY <1>1 DEF GrantInit, CodeExchangedOnce, StampsInv, NoKey
<1>4. \A g \in Grants : ~Begun(g)
  BY <1>1 DEF GrantInit, Begun
<1>5. MintInv
  BY <1>1, <1>4, GrantLifetimes DEF GrantInit, MintInv, MintOK, Minting
<1>6. RevokedInv /\ RowInv
  BY <1>1, <1>4 DEF GrantInit, RevokedInv, RowInv
<1> QED
  BY <1>2, <1>3, <1>5, <1>6 DEF GrantInv

LEMMA NoCallType == NoCall \in Call /\ NoCall.pc = "idle"
  BY GrantLifetimes DEF NoCall, NewCall, Call

LEMMA NewCallType ==
    ASSUME NEW pc \in {"stamp", "consume", "revokeMarker", "rotate", "revokeFamily"}, NEW g \in Grants \cup {0}
    PROVE  /\ NewCall(pc, g, 0) \in Call
           /\ NewCall(pc, g, 0).pc = pc /\ NewCall(pc, g, 0).g = g /\ NewCall(pc, g, 0).age = 0
  BY GrantLifetimes DEF NewCall, Call

(* A request goes on; the logical times, the grants and what is revoked    *)
(* stay as they are.                                                       *)
LEMMA GrantCallStep ==
    ASSUME GrantInv, UNCHANGED <<clock, marker, last, grant, revoked>>, GrantTypeOK',
           row'.revoked <= last, RowInv',
           NEW r \in Calls, NEW x \in Call, call' = [call EXCEPT ![r] = x],
           \A g \in Grants : Asked(g)' => Asked(g),
           \A g \in Grants : grantConsent'[g].open => ~grantConsent'[g].new,
           \A g \in Grants : /\ code'[g].exchanged <= 1 /\ code'[g].life <= CodeTTL
                             /\ code'[g].life > 0 => code'[g].exchanged = 0
                             /\ Asked(g) => code'[g].exchanged = 0
                             /\ tok'[g].access <= TokenTTL /\ tok'[g].refresh <= TokenTTL,
           \A q \in Calls : q # r /\ call[q].pc \in Minting => code'[call[q].g] = code[call[q].g],
           \A g \in Grants : Begun(g)' => Begun(g),
           MintOK(r)',
           x.pc \in Minting => (call[r].pc \in Minting /\ call[r].g = x.g) \/ Asked(x.g),
           x.pc # "revokeRow",
           \A g \in revoked : /\ tok'[g].access <= marker.ttl /\ tok'[g].refresh <= marker.ttl
                              /\ code'[g].life > 0 => code'[g].life + CallTimeout <= marker.ttl
                              /\ x.g = g => LeftOK(g, r)'
    PROVE  GrantInv'
<1>1. call'[r] = x /\ \A q \in Calls : q # r => call'[q] = call[q]
  BY DEF GrantInv, GrantTypeOK
<1>2. CodeExchangedOnce'
  BY DEF CodeExchangedOnce
<1>3. StampsInv'
  BY <1>1 DEF GrantInv, StampsInv
<1>4. MintInv'
  <2>1. ASSUME NEW q \in Calls, q # r PROVE MintOK(q)'
    <3>1. MintOK(q) /\ call'[q] = call[q]
      BY <1>1, <2>1 DEF GrantInv, MintInv
    <3>2. call[q].pc \in Minting => call[q].g \in Grants /\ code'[call[q].g] = code[call[q].g]
      BY <2>1, <3>1 DEF MintOK, Minting
    <3>3. \A g \in Grants : ~Asked(g) => ~Asked(g)'
      OBVIOUS
    <3> QED
      BY <3>1, <3>2, <3>3 DEF MintOK, Asked
  <2>2. \A q \in Calls : call[q].pc \in Minting => ~Asked(call[q].g)
    BY DEF GrantInv, MintInv, MintOK
  <2>3. \A p, q \in Calls : call[p].pc \in Minting /\ call[q].pc \in Minting /\ call[p].g = call[q].g => p = q
    BY DEF GrantInv, MintInv
  <2>4. \A p, q \in Calls : call'[p].pc \in Minting /\ call'[q].pc \in Minting /\ call'[p].g = call'[q].g => p = q
    BY <1>1, <2>2, <2>3
  <2>5. \A g \in Grants : (Asked(g)' => grant'[g].issued = 0) /\ (Begun(g)' => grant'[g].issued > 0)
    BY DEF GrantInv, MintInv
  <2> QED
    BY <2>1, <2>4, <2>5 DEF MintInv
<1>5. RevokedInv'
  <2> SUFFICES ASSUME NEW g \in revoked
               PROVE  /\ grant[g].issued > 0
                      /\ marker.ttl > 0 => grant[g].issued <= marker.val
                      /\ tok'[g].access <= marker.ttl /\ tok'[g].refresh <= marker.ttl
                      /\ code'[g].life > 0 => code'[g].life + CallTimeout <= marker.ttl
                      /\ \A q \in Calls : call'[q].g = g => LeftOK(g, q)'
    BY DEF RevokedInv
  <2>1. \A q \in Calls : q # r /\ call'[q].g = g => LeftOK(g, q)'
    BY <1>1 DEF GrantInv, RevokedInv, LeftOK
  <2> QED
    BY <1>1, <2>1 DEF GrantInv, RevokedInv
<1> QED
  BY <1>2, <1>3, <1>4, <1>5 DEF GrantInv

LEMMA RowStays ==
    ASSUME GrantInv, UNCHANGED <<last, grant, revoked, row>>,
           NEW r \in Calls, NEW x \in Call, call' = [call EXCEPT ![r] = x], x.pc # "revokeRow",
           \A g \in Grants : Begun(g)' => Begun(g)
    PROVE  row'.revoked <= last /\ RowInv'
<1>1. call'[r] = x /\ \A q \in Calls : q # r => call'[q] = call[q]
  BY DEF GrantInv, GrantTypeOK
<1>2. \A m : StampedBy(m)' = StampedBy(m)
  BY DEF StampedBy
<1>3. \A q \in Calls : call'[q].pc = "revokeRow" => call'[q] = call[q]
  BY <1>1
<1> QED
  BY <1>2, <1>3 DEF GrantInv, StampsInv, RowInv

(* The facts about a request that its next step needs.                     *)
LEMMA CallFacts ==
    ASSUME GrantInv, NEW r \in Calls
    PROVE  /\ GrantTypeOK /\ call[r] \in Call /\ MintOK(r)
           /\ call[r].pc \notin {"idle", "revokeMarker", "revokeRow"} => call[r].g \in Grants
           /\ CallTimeout \in Nat /\ TokenTTL \in Nat /\ CodeTTL \in Nat /\ StateTTL \in Nat
           /\ marker.ttl \in Nat /\ call[r].age \in Nat /\ call[r].age <= CallTimeout
           /\ \A g \in Grants : /\ code[g].exchanged <= 1 /\ code[g].life <= CodeTTL
                                /\ code[g].life > 0 => code[g].exchanged = 0
                                /\ Asked(g) => code[g].exchanged = 0
                                /\ tok[g].access <= TokenTTL /\ tok[g].refresh <= TokenTTL
                                /\ code[g] \in Code /\ tok[g] \in [access : Nat, refresh : Nat]
           /\ \A g \in revoked : /\ tok[g].access <= marker.ttl /\ tok[g].refresh <= marker.ttl
                                 /\ code[g].life > 0 => code[g].life + CallTimeout <= marker.ttl
                                 /\ call[r].g = g => LeftOK(g, r)
                                 /\ g \in Grants /\ (marker.ttl > 0 => IsRevoked(grant[g].issued))
  BY GrantLifetimes
  DEF GrantInv, GrantTypeOK, MintInv, MintOK, CodeExchangedOnce, RevokedInv, Call, Key, IsRevoked

(* A step that only moves a request, perhaps taking its challenge.         *)
LEMMA CallMoves ==
    ASSUME GrantInv, UNCHANGED <<clock, marker, last, grant, revoked, row, code, tok>>,
           grantConsent' \in [Grants -> [open : BOOLEAN, new : BOOLEAN, ident : Nat, auth : Nat]],
           UNCHANGED grantClient,
           NEW r \in Calls, NEW x \in Call, call' = [call EXCEPT ![r] = x],
           \A g \in Grants : Asked(g)' => Asked(g),
           \A g \in Grants : grantConsent'[g].open => ~grantConsent'[g].new,
           x.pc \notin {"idle", "revokeMarker", "revokeRow"} => x.g \in Grants,
           x.pc \in {"saveCode", "consume", "check", "store", "rotate"} => Begun(x.g),
           \/ x.pc \notin Minting
           \/ x.pc = "stamp" /\ Asked(x.g) /\ ~Asked(x.g)',
           x.pc # "revokeRow",
           \A g \in revoked : x.g = g => LeftOK(g, r)'
    PROVE  GrantInv'
<1>1. call'[r] = x /\ \A q \in Calls : q # r => call'[q] = call[q]
  BY CallFacts DEF GrantTypeOK
<1>2. \A g \in Grants : Begun(g)' => Begun(g)
  BY <1>1 DEF Begun
<1>3. GrantTypeOK'
  BY CallFacts DEF GrantTypeOK
<1>4. row'.revoked <= last /\ RowInv'
  BY <1>2, RowStays
<1>5. MintOK(r)'
  <2>1. \A g \in Grants : Asked(g) => code[g].life = 0 /\ code[g].exchanged = 0 /\ grant[g].issued = 0
    <3>1. \A g \in Grants : code[g].life > 0 => Begun(g)
      BY DEF Begun
    <3>2. \A g \in Grants : code[g].life \in Nat /\ grant[g].issued \in Nat
      BY CallFacts DEF GrantTypeOK, Code
    <3> QED
      BY <3>1, <3>2 DEF GrantInv, MintInv
  <2> QED
    BY <1>1, <2>1 DEF MintOK, Minting, Asked
<1> QED
  BY <1>2, <1>3, <1>4, <1>5, CallFacts, GrantCallStep

LEMMA CallTypes ==
    ASSUME GrantTypeOK, NEW r \in Calls, NEW pc \in {"upsert", "saveCode", "check", "store", "revokeMarker"}
    PROVE  LET x == [call[r] EXCEPT !.pc = pc]
           IN  /\ x \in Call /\ x.pc = pc /\ x.g = call[r].g /\ x.age = call[r].age
               /\ CallTo(r, pc) => call' = [call EXCEPT ![r] = x]
  BY DEF GrantTypeOK, Call, CallTo

LEMMA CallMovesInv ==
    ASSUME GrantInv, NEW r \in Calls,
           \/ CheckAuthorization(r) \/ RevokeMyAuthorization(r) \/ AbandonCall(r)
           \/ \E g \in Grants : GetAuthorizationCode(r, g)
           \/ \E g \in Grants, permitted \in BOOLEAN : AcceptGrant(r, g, permitted) \/ RefreshToken(r, g, permitted)
    PROVE  GrantInv'
<1>0. GrantTypeOK /\ grantConsent \in [Grants -> [open : BOOLEAN, new : BOOLEAN, ident : Nat, auth : Nat]]
  BY DEF GrantInv, GrantTypeOK
<1>1. UNCHANGED <<clock, marker, last, grant, revoked, row, code, tok, grantClient>>
  BY DEF CheckAuthorization, RevokeMyAuthorization, AbandonCall, GetAuthorizationCode, AcceptGrant, RefreshToken
<1>2. ASSUME UNCHANGED grantConsent
      PROVE  \A g \in Grants : (Asked(g)' => Asked(g)) /\ (grantConsent'[g].open => ~grantConsent'[g].new)
  BY <1>2 DEF Asked, GrantInv, MintInv
<1>3. CASE CheckAuthorization(r)
  <2> DEFINE g == call[r].g
  <2>0. UNCHANGED grantConsent /\ call[r].pc = "check" /\ g \in Grants
    BY <1>3, CallFacts DEF CheckAuthorization
  <2>1. CASE Valid(g)
    <3> DEFINE x == [call[r] EXCEPT !.pc = "store"]
    <3>1. x \in Call /\ x.pc = "store" /\ x.g = g /\ call' = [call EXCEPT ![r] = x]
      BY <1>0, <1>3, <2>1, CallTypes DEF CheckAuthorization
    <3>2. Begun(g)
      BY <2>0 DEF Begun
    <3>3. g \notin revoked
      BY <2>0, <2>1, CallFacts DEF LeftOK, Valid, IsRevoked
    <3> HIDE DEF x
    <3> QED
      BY <1>0, <1>1, <1>2, <2>0, <3>1, <3>2, <3>3, CallMoves DEF Minting
  <2>2. CASE ~Valid(g)
    BY <1>0, <1>1, <1>2, <1>3, <2>0, <2>2, NoCallType, CallMoves DEF CheckAuthorization, CallDone, LeftOK, Minting, GrantTypeOK
  <2> QED
    BY <2>1, <2>2
<1>4. CASE RevokeMyAuthorization(r)
  <2> DEFINE x == NewCall("revokeMarker", 0, 0)
  <2>1. x \in Call /\ x.pc = "revokeMarker" /\ x.g = 0
    BY GrantLifetimes DEF NewCall, Call
  <2>2. call' = [call EXCEPT ![r] = x] /\ UNCHANGED grantConsent
    BY <1>4 DEF RevokeMyAuthorization
  <2> HIDE DEF x
  <2>3. call'[r] = x
    BY <1>0, <2>2 DEF GrantTypeOK
  <2> QED
    BY <1>0, <1>1, <1>2, <2>1, <2>2, <2>3, CallMoves DEF LeftOK, Minting
<1>5. CASE AbandonCall(r)
  BY <1>0, <1>1, <1>2, <1>5, NoCallType, CallMoves DEF AbandonCall, CallDone, LeftOK, Minting, GrantTypeOK
<1>6. ASSUME NEW g \in Grants, GetAuthorizationCode(r, g) PROVE GrantInv'
  <2> DEFINE pc == IF code[g].life > 0 THEN "consume" ELSE "revokeMarker"
             x == NewCall(pc, g, 0)
  <2>1. x \in Call /\ x.pc = pc /\ x.g = g /\ x.age = 0
    BY NewCallType
  <2>2. call' = [call EXCEPT ![r] = x] /\ UNCHANGED grantConsent
    BY <1>6 DEF GetAuthorizationCode
  <2> HIDE DEF x
  <2>3. call'[r] = x
    BY <1>0, <2>2 DEF GrantTypeOK
  <2>4. pc = "consume" => Begun(g)
    BY DEF Begun
  <2>5. g \in revoked => LeftOK(g, r)'
    <3>1. g \in revoked /\ code[g].life > 0 => CallTimeout < marker.ttl
      BY CallFacts DEF Code
    <3> QED
      BY <1>1, <2>1, <2>3, <3>1, CallFacts DEF LeftOK
  <2> QED
    BY <1>0, <1>1, <1>2, <2>1, <2>2, <2>4, <2>5, CallMoves DEF Minting
<1>7. ASSUME NEW g \in Grants, NEW permitted \in BOOLEAN, RefreshToken(r, g, permitted) PROVE GrantInv'
  <2> DEFINE pc == IF permitted /\ Valid(g) THEN "rotate" ELSE "revokeFamily"
             x == NewCall(pc, g, 0)
  <2>1. x \in Call /\ x.pc = pc /\ x.g = g /\ x.age = 0
    BY NewCallType
  <2>2. call' = [call EXCEPT ![r] = x] /\ UNCHANGED grantConsent /\ tok[g].refresh > 0
    BY <1>7 DEF RefreshToken
  <2> HIDE DEF x
  <2>3. call'[r] = x
    BY <1>0, <2>2 DEF GrantTypeOK
  <2>4. Begun(g)
    BY <2>2 DEF Begun
  <2>5. g \in revoked => LeftOK(g, r)'
    <3>1. g \in revoked => ~Valid(g)
      BY <2>2, CallFacts DEF Valid
    <3> QED
      BY <2>1, <2>3, <3>1 DEF LeftOK
  <2> QED
    BY <1>0, <1>1, <1>2, <2>1, <2>2, <2>4, <2>5, CallMoves DEF Minting
<1>8. ASSUME NEW g \in Grants, NEW permitted \in BOOLEAN, AcceptGrant(r, g, permitted) PROVE GrantInv'
  <2>1. /\ grantConsent' = [grantConsent EXCEPT ![g].open = FALSE] /\ grantConsent[g].open
        /\ grantConsent' \in [Grants -> [open : BOOLEAN, new : BOOLEAN, ident : Nat, auth : Nat]]
    BY <1>0, <1>8 DEF AcceptGrant
  <2>2. \A h \in Grants : (Asked(h)' => Asked(h)) /\ (grantConsent'[h].open => ~grantConsent'[h].new)
    BY <1>0, <2>1 DEF Asked, GrantInv, MintInv
  <2>3. CASE permitted /\ Unchanged(g)
    <3> DEFINE x == NewCall("stamp", g, 0)
    <3>1. x \in Call /\ x.pc = "stamp" /\ x.g = g
      BY NewCallType
    <3>2. call' = [call EXCEPT ![r] = x]
      BY <1>8, <2>3 DEF AcceptGrant
    <3> HIDE DEF x
    <3>3. call'[r] = x
      BY <1>0, <3>2 DEF GrantTypeOK
    <3>4. Asked(g) /\ ~Asked(g)'
      BY <1>0, <2>1 DEF Asked, GrantInv, MintInv
    <3> QED
      BY <1>1, <2>1, <2>2, <3>1, <3>2, <3>3, <3>4, CallMoves DEF LeftOK
  <2>4. CASE ~(permitted /\ Unchanged(g))
    BY <1>0, <1>1, <1>8, <2>1, <2>2, <2>4, NoCallType, CallMoves DEF AcceptGrant, LeftOK, Minting, GrantTypeOK
  <2> QED
    BY <2>3, <2>4
<1> QED
  BY <1>3, <1>4, <1>5, <1>6, <1>7, <1>8

(* Tokens are stored by requests that began before the revocation, and the *)
(* marker outlives them.                                                   *)
LEMMA TokenStepsInv ==
    ASSUME GrantInv, NEW r \in Calls,
           \/ \E offline \in BOOLEAN : GenerateTokenPair(r, offline)
           \/ RotateGrantToken(r) \/ RevokeGrantFamily(r)
    PROVE  GrantInv'
<1> DEFINE g == call[r].g
<1>0. GrantTypeOK /\ g \in Grants /\ call[r].pc \in {"store", "rotate", "revokeFamily"}
  BY CallFacts DEF GenerateTokenPair, RotateGrantToken, RevokeGrantFamily
<1>1. UNCHANGED <<grantClient, row, clock, marker, last, grantConsent, grant, code, revoked>>
      /\ call' = [call EXCEPT ![r] = NoCall]
  BY DEF GenerateTokenPair, RotateGrantToken, RevokeGrantFamily, CallDone
<1>2. PICK y \in [access : {0, TokenTTL}, refresh : {0, TokenTTL}] :
         /\ tok' = [tok EXCEPT ![g] = y] \/ tok' = tok
         /\ tok' # tok /\ y # NoTokens => call[r].pc \in {"store", "rotate"}
  <2>1. ASSUME NEW offline \in BOOLEAN, GenerateTokenPair(r, offline)
        PROVE  \E y \in [access : {0, TokenTTL}, refresh : {0, TokenTTL}] : tok' = [tok EXCEPT ![g] = y]
    <3> WITNESS [access |-> TokenTTL, refresh |-> IF offline THEN TokenTTL ELSE 0]
                \in [access : {0, TokenTTL}, refresh : {0, TokenTTL}]
    <3> QED
      BY <2>1 DEF GenerateTokenPair
  <2>2. CASE RotateGrantToken(r)
    <3> DEFINE y == [access |-> TokenTTL, refresh |-> TokenTTL]
    <3>1. y \in [access : {0, TokenTTL}, refresh : {0, TokenTTL}] /\ call[r].pc = "rotate"
          /\ (tok' = [tok EXCEPT ![g] = y] \/ tok' = tok)
      BY <2>2 DEF RotateGrantToken
    <3> QED
      BY <3>1
  <2>3. CASE RevokeGrantFamily(r)
    <3>1. NoTokens \in [access : {0, TokenTTL}, refresh : {0, TokenTTL}] /\ tok' = [tok EXCEPT ![g] = NoTokens]
      BY <2>3 DEF RevokeGrantFamily, NoTokens
    <3> QED
      BY <3>1
  <2>4. ASSUME NEW offline \in BOOLEAN, GenerateTokenPair(r, offline) PROVE call[r].pc = "store"
    BY <2>4 DEF GenerateTokenPair
  <2> QED
    BY <2>1, <2>2, <2>3, <2>4
<1>3. /\ y \in [access : Nat, refresh : Nat] /\ y.access <= TokenTTL /\ y.refresh <= TokenTTL
      /\ TokenTTL \in Nat
  BY <1>2, GrantLifetimes
<1>4. \A h \in Grants : tok'[h] = tok[h] \/ (h = g /\ tok'[h] = y)
  BY <1>0, <1>2 DEF GrantTypeOK
<1>5. GrantTypeOK'
  BY <1>0, <1>1, <1>2, <1>3, NoCallType DEF GrantTypeOK
<1>6. call'[r] = NoCall /\ \A q \in Calls : q # r => call'[q] = call[q]
  BY <1>0, <1>1 DEF GrantTypeOK
<1>7. tok' # tok /\ y # NoTokens => Begun(g)
  BY <1>0, <1>2 DEF Begun
<1>8. \A h \in Grants : Begun(h)' => Begun(h)
  <2>1. y = NoTokens => y.access = 0 /\ y.refresh = 0
    BY DEF NoTokens
  <2> QED
    BY <1>0, <1>1, <1>4, <1>6, <1>7, <2>1, NoCallType DEF Begun
<1>9. row'.revoked <= last /\ RowInv'
  BY <1>1, <1>8, NoCallType, RowStays
<1>10. MintOK(r)'
  BY <1>6, NoCallType DEF MintOK, Minting
<1>11. \A h \in Grants : (Asked(h)' => Asked(h)) /\ (grantConsent'[h].open => ~grantConsent'[h].new)
  BY <1>1 DEF Asked, GrantInv, MintInv
<1>12. g \in revoked /\ tok' # tok => y.access <= marker.ttl /\ y.refresh <= marker.ttl
  <2>1. CASE y = NoTokens
    BY <2>1, CallFacts DEF NoTokens
  <2>2. CASE y # NoTokens /\ g \in revoked /\ tok' # tok
    <3>1. TokenTTL + (CallTimeout - call[r].age) <= marker.ttl
      BY <1>2, <2>2, CallFacts DEF LeftOK
    <3> QED
      BY <1>2, <1>3, <3>1, CallFacts
  <2> QED
    BY <2>1, <2>2
<1>13. \A h \in revoked : tok'[h].access <= marker.ttl /\ tok'[h].refresh <= marker.ttl
  BY <1>4, <1>12, CallFacts
<1>14. \A h : LeftOK(h, r)'
  BY <1>6, NoCallType DEF LeftOK
<1> QED
  BY <1>1, <1>3, <1>4, <1>5, <1>8, <1>9, <1>10, <1>11, <1>13, <1>14, NoCallType, CallFacts, GrantCallStep
     DEF Minting

LEMMA SaveCodeInv ==
    ASSUME GrantInv, NEW r \in Calls, SaveAuthorizationCode(r)
    PROVE  GrantInv'
<1> DEFINE g == call[r].g
           y == [code[g] EXCEPT !.life = CodeTTL]
<1>0. GrantTypeOK /\ g \in Grants /\ call[r].pc = "saveCode" /\ code[g] \in Code /\ CodeTTL \in Nat
      /\ code[g].exchanged = 0 /\ ~Asked(g)
  BY CallFacts DEF SaveAuthorizationCode, MintOK, Minting
<1>1. UNCHANGED <<grantClient, row, clock, marker, last, grantConsent, grant, tok, revoked>>
      /\ call' = [call EXCEPT ![r] = NoCall]
  BY DEF SaveAuthorizationCode, CallDone
<1>2. y \in Code /\ y.life = CodeTTL /\ y.exchanged = 0
  BY <1>0 DEF Code
<1>3. code' = [code EXCEPT ![g] = y]
  BY <1>0 DEF SaveAuthorizationCode, GrantTypeOK
<1> HIDE DEF y
<1>4. code'[g] = y /\ \A h \in Grants : h # g => code'[h] = code[h]
  BY <1>0, <1>3 DEF GrantTypeOK
<1>5. GrantTypeOK'
  BY <1>0, <1>1, <1>2, <1>3, NoCallType DEF GrantTypeOK
<1>6. call'[r] = NoCall /\ \A q \in Calls : q # r => call'[q] = call[q]
  BY <1>0, <1>1 DEF GrantTypeOK
<1>7. Begun(g)
  BY <1>0 DEF Begun
<1>8. \A h \in Grants : Begun(h)' => Begun(h)
  BY <1>1, <1>4, <1>6, <1>7, NoCallType DEF Begun
<1>9. row'.revoked <= last /\ RowInv'
  BY <1>1, <1>8, NoCallType, RowStays
<1>10. MintOK(r)' /\ \A h : LeftOK(h, r)'
  BY <1>6, NoCallType DEF MintOK, Minting, LeftOK
<1>11. \A h \in Grants : (Asked(h)' => Asked(h)) /\ (grantConsent'[h].open => ~grantConsent'[h].new)
  BY <1>1 DEF Asked, GrantInv, MintInv
<1>12. \A q \in Calls : q # r /\ call[q].pc \in Minting => call[q].g # g /\ call[q].g \in Grants
  BY <1>0 DEF GrantInv, MintInv, MintOK, Minting
<1>13. g \in revoked => CodeTTL + CallTimeout <= marker.ttl
  <2>1. g \in revoked => CodeTTL + CallTimeout + (CallTimeout - call[r].age) <= marker.ttl
    BY <1>0, CallFacts DEF LeftOK
  <2> QED
    BY <2>1, CallFacts
<1>14. \A h \in Grants : /\ code'[h].exchanged <= 1 /\ code'[h].life <= CodeTTL
                         /\ code'[h].life > 0 => code'[h].exchanged = 0
                         /\ Asked(h) => code'[h].exchanged = 0
  BY <1>0, <1>2, <1>4, CallFacts
<1>15. \A h \in revoked : code'[h].life > 0 => code'[h].life + CallTimeout <= marker.ttl
  BY <1>2, <1>4, <1>13, CallFacts
<1> QED
  BY <1>1, <1>4, <1>5, <1>8, <1>9, <1>10, <1>11, <1>12, <1>14, <1>15, NoCallType, CallFacts, GrantCallStep DEF Minting

(* A code that lives was never exchanged, and no request is to store it.   *)
LEMMA ConsumeCodeInv ==
    ASSUME GrantInv, NEW r \in Calls, NEW permitted \in BOOLEAN, ConsumeAuthorizationCode(r, permitted)
    PROVE  GrantInv'
<1> DEFINE g == call[r].g
<1>0. GrantTypeOK /\ g \in Grants /\ call[r].pc = "consume" /\ code[g] \in Code
  BY CallFacts DEF ConsumeAuthorizationCode
<1>1. UNCHANGED <<grantClient, row, clock, marker, last, grantConsent, grant, tok, revoked>>
  BY DEF ConsumeAuthorizationCode
<1>2. \A h \in Grants : (Asked(h)' => Asked(h)) /\ (grantConsent'[h].open => ~grantConsent'[h].new)
  BY <1>1 DEF Asked, GrantInv, MintInv
<1>3. Begun(g)
  BY <1>0 DEF Begun
<1>4. CASE CallDone(r) /\ UNCHANGED code
  BY <1>0, <1>1, <1>2, <1>4, NoCallType, CallMoves DEF CallDone, LeftOK, Minting, GrantTypeOK
<1>5. CASE CallTo(r, "revokeMarker") /\ UNCHANGED code
  <2> DEFINE x == [call[r] EXCEPT !.pc = "revokeMarker"]
  <2>1. x \in Call /\ x.pc = "revokeMarker" /\ x.g = g /\ call' = [call EXCEPT ![r] = x]
    BY <1>0, <1>5, CallTypes
  <2> HIDE DEF x
  <2>2. call'[r] = x
    BY <1>0, <2>1 DEF GrantTypeOK
  <2> QED
    BY <1>0, <1>1, <1>2, <1>5, <2>1, <2>2, CallMoves DEF LeftOK, Minting, GrantTypeOK
<1>6. CASE code[g].life > 0 /\ code' = [code EXCEPT ![g] = Consumed(@)] /\ CallTo(r, "check")
  <2> DEFINE x == [call[r] EXCEPT !.pc = "check"]
             y == Consumed(code[g])
  <2>1. x \in Call /\ x.pc = "check" /\ x.g = g /\ x.age = call[r].age /\ call' = [call EXCEPT ![r] = x]
    BY <1>0, <1>6, CallTypes
  <2>2. code[g].exchanged = 0 /\ MaxExchanges \in Nat /\ CodeRetention \in Nat
    BY <1>0, <1>6, CallFacts, GrantBounds, GrantLifetimes
  <2>3. y \in Code /\ y.life = 0 /\ y.exchanged <= 1
    <3> DEFINE e == IF code[g].exchanged < MaxExchanges THEN code[g].exchanged + 1 ELSE code[g].exchanged
    <3>1. e \in 0 .. MaxExchanges /\ e <= 1
      BY <2>2
    <3>2. y = [code[g] EXCEPT !.life = 0, !.used = CodeRetention, !.exchanged = e]
      BY <1>0 DEF Consumed, Code
    <3> HIDE DEF e, y
    <3> QED
      BY <1>0, <2>2, <3>1, <3>2 DEF Code
  <2>4. code' = [code EXCEPT ![g] = y]
    BY <1>6
  <2> HIDE DEF x, y
  <2>5. code'[g] = y /\ \A h \in Grants : h # g => code'[h] = code[h]
    BY <1>0, <2>4 DEF GrantTypeOK
  <2>6. call'[r] = x /\ \A q \in Calls : q # r => call'[q] = call[q]
    BY <1>0, <2>1 DEF GrantTypeOK
  <2>7. GrantTypeOK'
    BY <1>0, <1>1, <2>1, <2>3, <2>4 DEF GrantTypeOK
  <2>8. \A h \in Grants : Begun(h)' => Begun(h)
    BY <1>1, <1>3, <2>1, <2>3, <2>5, <2>6 DEF Begun
  <2>9. row'.revoked <= last /\ RowInv'
    BY <1>1, <2>1, <2>8, RowStays
  <2>10. MintOK(r)'
    BY <1>0, <2>1, <2>6 DEF MintOK, Minting
  <2>11. \A q \in Calls : call[q].pc \in Minting => call[q].g # g /\ call[q].g \in Grants
    BY <1>0, <1>6 DEF GrantInv, MintInv, MintOK, Minting, Code
  <2>12. ~Asked(g)
    <3>1. grant[g].issued > 0
      BY <1>0, <1>3 DEF GrantInv, MintInv
    <3> QED
      BY <1>0, <3>1 DEF GrantInv, MintInv
  <2>13. g \in revoked => LeftOK(g, r)'
    BY <1>0, <1>1, <2>1, <2>6, CallFacts DEF LeftOK
  <2>14. \A h \in Grants : /\ code'[h].exchanged <= 1 /\ code'[h].life <= CodeTTL
                           /\ code'[h].life > 0 => code'[h].exchanged = 0
                           /\ Asked(h) => code'[h].exchanged = 0
    BY <2>3, <2>5, <2>12, CallFacts
  <2>15. \A h \in revoked : code'[h].life > 0 => code'[h].life + CallTimeout <= marker.ttl
    BY <2>3, <2>5, CallFacts
  <2>16. \A q \in Calls : call[q].pc \in Minting => code'[call[q].g] = code[call[q].g]
    BY <2>5, <2>11
  <2>17. \A h \in Grants : tok'[h].access <= TokenTTL /\ tok'[h].refresh <= TokenTTL
    BY <1>1, CallFacts
  <2>18. \A h \in revoked : tok'[h].access <= marker.ttl /\ tok'[h].refresh <= marker.ttl /\ (x.g = h => LeftOK(h, r)')
    BY <1>1, <2>1, <2>13, CallFacts
  <2>19. x.pc \notin Minting /\ x.pc # "revokeRow" /\ x \in Call
    BY <2>1 DEF Minting
  <2> QED
    BY <1>1, <1>2, <2>1, <2>7, <2>8, <2>9, <2>10, <2>14, <2>15, <2>16, <2>17, <2>18, <2>19, GrantCallStep
<1> QED
  BY <1>4, <1>5, <1>6 DEF ConsumeAuthorizationCode

(* The row takes a grant that is not revoked, or lists a newer one.        *)
LEMMA UpsertInv ==
    ASSUME GrantInv, NEW r \in Calls, UpsertExpectedRow(r)
    PROVE  GrantInv'
<1> DEFINE g == call[r].g
           m == grant[g].issued
<1>0. /\ GrantTypeOK /\ g \in Grants /\ call[r].pc = "upsert" /\ m \in Nat /\ m > 0 /\ m <= last
      /\ row \in Row /\ row.granted \in Nat /\ row.revoked \in Nat /\ last \in Nat
  BY CallFacts DEF UpsertExpectedRow, MintOK, GrantInv, GrantTypeOK, StampsInv, Row
<1>1. UNCHANGED <<grantClient, clock, marker, last, grantConsent, grant, code, tok, revoked>>
  BY DEF UpsertExpectedRow
<1>2. CASE ~Unchanged(g)
  <2>1. row' = row /\ call' = [call EXCEPT ![r] = NoCall]
    BY <1>2 DEF UpsertExpectedRow, CallDone
  <2>2. \A h \in Grants : (Asked(h)' => Asked(h)) /\ (grantConsent'[h].open => ~grantConsent'[h].new)
    BY <1>1 DEF Asked, GrantInv, MintInv
  <2> QED
    BY <1>0, <1>1, <2>1, <2>2, NoCallType, CallMoves DEF LeftOK, Minting, GrantTypeOK
<1>3. CASE Unchanged(g)
  <2> DEFINE x == [call[r] EXCEPT !.pc = "saveCode"]
  <2>1. x \in Call /\ x.pc = "saveCode" /\ x.g = g /\ x.age = call[r].age /\ call' = [call EXCEPT ![r] = x]
    BY <1>0, <1>3, CallTypes DEF UpsertExpectedRow
  <2> HIDE DEF x
  <2>2. call'[r] = x /\ \A q \in Calls : q # r => call'[q] = call[q]
    BY <1>0, <2>1 DEF GrantTypeOK
  <2>3. row' = IF row.granted <= m /\ row.revoked < m THEN [granted |-> m, revoked |-> 0] ELSE row
    BY <1>3 DEF UpsertExpectedRow
  <2>4. row' \in Row /\ row'.granted >= row.granted /\ row'.revoked \in {0, row.revoked}
    BY <1>0, <2>3 DEF Row
  <2>5. GrantTypeOK'
    BY <1>0, <1>1, <2>1, <2>4 DEF GrantTypeOK
  <2>6. \A h \in Grants \ {g} : Begun(h)' => Begun(h)
    BY <1>1, <2>1, <2>2 DEF Begun
  <2>7. row.revoked > 0 => row.granted <= row.revoked /\ StampedBy(row.revoked) \subseteq revoked
    BY DEF GrantInv, RowInv
  <2>8. g \notin revoked => row'.revoked = 0 /\ row'.granted >= m
    <3>1. g \notin revoked /\ row.revoked > 0 => row.revoked < m
      BY <1>0, <2>7 DEF StampedBy
    <3> QED
      BY <1>0, <2>3, <2>7, <3>1
  <2>9. \A h \in Grants \ revoked : Begun(h)' => row'.revoked = 0 /\ row'.granted >= grant[h].issued
    <3>1. \A h \in Grants \ revoked : Begun(h) => row.revoked = 0 /\ row.granted >= grant[h].issued
      BY DEF GrantInv, RowInv
    <3>2. \A h \in Grants : grant[h].issued \in Nat
      BY <1>0 DEF GrantTypeOK
    <3>3. row'.granted \in Nat
      BY <2>4 DEF Row
    <3> QED
      BY <1>0, <2>4, <2>6, <2>8, <3>1, <3>2, <3>3
  <2>10. RowInv'
    <3>1. \A k : StampedBy(k)' = StampedBy(k)
      BY <1>1 DEF StampedBy
    <3>2. row'.revoked > 0 => row' = row
      BY <2>3
    <3>3. \A q \in Calls : call'[q].pc = "revokeRow" => call'[q] = call[q]
      BY <2>1, <2>2
    <3>4. row'.revoked > 0 => row'.granted <= row'.revoked /\ StampedBy(row'.revoked) \subseteq revoked
      BY <2>7, <3>2
    <3>5. \A q \in Calls : call'[q].pc = "revokeRow" => StampedBy(call'[q].m) \subseteq revoked
      BY <3>3 DEF GrantInv, RowInv
    <3> QED
      BY <1>1, <2>9, <3>1, <3>4, <3>5 DEF RowInv
  <2>11. MintInv'
    <3>1. ASSUME NEW q \in Calls PROVE MintOK(q)'
      <4>1. MintOK(q) /\ (q = r => call[q].pc \in Minting)
        BY <1>0 DEF GrantInv, MintInv, Minting
      <4>2. CASE q = r
        BY <1>0, <1>1, <2>1, <2>2, <4>1, <4>2 DEF MintOK, Asked, Minting
      <4>3. CASE q # r
        BY <1>1, <2>2, <4>1, <4>3 DEF MintOK, Asked
      <4> QED
        BY <4>2, <4>3
    <3>2. call[r].pc \in Minting /\ x.pc \in Minting
      BY <1>0, <2>1 DEF Minting
    <3>3. \A p, q \in Calls : call'[p].pc \in Minting /\ call'[q].pc \in Minting /\ call'[p].g = call'[q].g => p = q
      <4>1. \A p, q \in Calls : call[p].pc \in Minting /\ call[q].pc \in Minting /\ call[p].g = call[q].g => p = q
        BY DEF GrantInv, MintInv
      <4> QED
        BY <2>1, <2>2, <3>2, <4>1
    <3>4. \A h \in Grants : Begun(h)' => grant'[h].issued > 0
      <4>1. \A h \in Grants : Begun(h) => grant[h].issued > 0
        BY DEF GrantInv, MintInv
      <4> QED
        BY <1>0, <1>1, <2>6, <4>1
    <3> QED
      BY <1>1, <3>1, <3>3, <3>4 DEF GrantInv, MintInv, Asked
  <2>12. RevokedInv'
    <3>1. ASSUME NEW h \in revoked, NEW q \in Calls, call'[q].g = h PROVE LeftOK(h, q)'
      <4>1. call[q].g = h /\ LeftOK(h, q)
        BY <2>1, <2>2, <3>1 DEF GrantInv, RevokedInv
      <4> QED
        BY <1>0, <1>1, <2>1, <2>2, <4>1 DEF LeftOK
    <3> QED
      BY <1>1, <3>1 DEF GrantInv, RevokedInv
  <2>13. CodeExchangedOnce' /\ StampsInv'
    <3>1. row'.revoked <= last
      BY <1>0, <2>4 DEF GrantInv, StampsInv
    <3> QED
      BY <1>1, <2>1, <2>2, <3>1 DEF GrantInv, CodeExchangedOnce, StampsInv
  <2> QED
    BY <2>5, <2>10, <2>11, <2>12, <2>13 DEF GrantInv
<1> QED
  BY <1>2, <1>3

LEMMA RevokeRowInv ==
    ASSUME GrantInv, NEW r \in Calls, RevokeRow(r)
    PROVE  GrantInv'
<1> DEFINE m == call[r].m
<1>0. /\ GrantTypeOK /\ call[r].pc = "revokeRow" /\ m \in Nat /\ m <= last /\ StampedBy(m) \subseteq revoked
      /\ row \in Row /\ row.granted \in Nat /\ row.revoked \in Nat
  BY CallFacts DEF RevokeRow, GrantInv, GrantTypeOK, StampsInv, RowInv, Row, Call
<1>1. UNCHANGED <<grantClient, clock, marker, last, grantConsent, grant, code, tok, revoked>>
      /\ call' = [call EXCEPT ![r] = NoCall]
  BY DEF RevokeRow, CallDone
<1>2. row' = row \/ (row' = [row EXCEPT !.revoked = m] /\ row.granted <= m /\ row.granted > 0)
  BY DEF RevokeRow
<1>3. call'[r] = NoCall /\ \A q \in Calls : q # r => call'[q] = call[q]
  BY <1>0, <1>1 DEF GrantTypeOK
<1>4. row' \in Row /\ row'.granted = row.granted /\ (row' = row \/ row'.revoked = m)
  BY <1>0, <1>2 DEF Row
<1>5. GrantTypeOK'
  BY <1>0, <1>1, <1>4, NoCallType DEF GrantTypeOK
<1>6. \A h \in Grants : Begun(h)' => Begun(h)
  BY <1>1, <1>3, NoCallType DEF Begun
<1>7. row'.revoked <= last
  BY <1>0, <1>4 DEF GrantInv, StampsInv
<1>8. RowInv'
  <2>1. \A k : StampedBy(k)' = StampedBy(k)
    BY <1>1 DEF StampedBy
  <2>2. row'.revoked > 0 => row'.granted <= row'.revoked /\ StampedBy(row'.revoked) \subseteq revoked
    BY <1>0, <1>2, <1>4 DEF GrantInv, RowInv
  <2>3. \A q \in Calls : call'[q].pc = "revokeRow" => StampedBy(call'[q].m) \subseteq revoked
    BY <1>3, NoCallType DEF GrantInv, RowInv
  <2>4. ASSUME NEW h \in Grants \ revoked, Begun(h) PROVE row'.revoked = 0 /\ row'.granted >= grant[h].issued
    <3>1. row.revoked = 0 /\ row.granted >= grant[h].issued /\ grant[h].issued > 0 /\ grant[h].issued \in Nat
      BY <1>0, <2>4 DEF GrantInv, RowInv, MintInv, GrantTypeOK
    <3>2. ~(grant[h].issued <= m)
      BY <1>0, <3>1 DEF StampedBy
    <3> QED
      BY <1>0, <1>2, <3>1, <3>2
  <2> QED
    BY <1>1, <1>6, <2>1, <2>2, <2>3, <2>4 DEF RowInv
<1>9. \A h \in Grants : (Asked(h)' => Asked(h)) /\ (grantConsent'[h].open => ~grantConsent'[h].new)
  BY <1>1 DEF Asked, GrantInv, MintInv
<1>10. MintOK(r)' /\ \A h : LeftOK(h, r)'
  BY <1>3, NoCallType DEF MintOK, Minting, LeftOK
<1> QED
  BY <1>1, <1>5, <1>6, <1>7, <1>8, <1>9, <1>10, NoCallType, CallFacts, GrantCallStep DEF Minting

LEMMA NextStampIsNew ==
    ASSUME GrantInv, NEW wall \in Wall
    PROVE  NextStamp(wall) \in Nat /\ NextStamp(wall) > last /\ last \in Nat
<1>1. last \in Nat /\ clock.ttl \in Nat /\ clock.val \in Nat /\ marker.val \in Nat /\ marker.ttl \in Nat
  BY DEF GrantInv, GrantTypeOK, Key
<1>2. wall \in Nat /\ (clock.ttl = 0 => wall > last)
  BY <1>1 DEF Wall
<1>3. clock.ttl > 0 => clock.val = last
  BY DEF GrantInv, StampsInv
<1> QED
  BY <1>1, <1>2, <1>3 DEF NextStamp, Later

LEMMA IssueTimeInv ==
    ASSUME GrantInv, NEW r \in Calls, NEW wall \in Wall, AuthorizationIssueTime(r, wall)
    PROVE  GrantInv'
<1> DEFINE g == call[r].g
           m == NextStamp(wall)
           x == [call[r] EXCEPT !.pc = "upsert"]
<1>0. /\ GrantTypeOK /\ g \in Grants /\ call[r].pc = "stamp" /\ grant[g].issued = 0
      /\ ~Asked(g) /\ code[g].life = 0 /\ code[g].exchanged = 0
  BY CallFacts DEF AuthorizationIssueTime, MintOK, Minting
<1>1. m \in Nat /\ m > last /\ last \in Nat
  BY NextStampIsNew
<1> HIDE DEF m
<1>2. /\ clock' = [val |-> m, ttl |-> StateTTL] /\ last' = m
      /\ grant' = [grant EXCEPT ![g] = [issued |-> m, auth |-> grantConsent[g].auth]]
      /\ UNCHANGED <<grantClient, row, marker, grantConsent, code, tok, revoked>>
  BY <1>1 DEF AuthorizationIssueTime, SetClock, Later, m
<1>3. x \in Call /\ x.pc = "upsert" /\ x.g = g /\ call' = [call EXCEPT ![r] = x]
  BY <1>0, CallTypes DEF AuthorizationIssueTime
<1> HIDE DEF x
<1>4. call'[r] = x /\ \A q \in Calls : q # r => call'[q] = call[q]
  BY <1>0, <1>3 DEF GrantTypeOK
<1>5. grant'[g].issued = m /\ \A h \in Grants : h # g => grant'[h] = grant[h]
  BY <1>0, <1>2 DEF GrantTypeOK
<1>6. GrantTypeOK'
  <2>1. grantConsent[g].auth \in Nat
    BY <1>0 DEF GrantTypeOK
  <2>2. grant' \in [Grants -> [issued : Nat, auth : Nat]]
    BY <1>0, <1>1, <1>2, <2>1 DEF GrantTypeOK
  <2>3. clock' \in Key
    BY <1>1, <1>2, GrantLifetimes DEF Key
  <2> QED
    BY <1>0, <1>1, <1>2, <1>3, <2>2, <2>3 DEF GrantTypeOK
<1>7. ~Begun(g) /\ g \notin revoked
  BY <1>0 DEF GrantInv, MintInv, RevokedInv
<1>8. \A h \in Grants : Begun(h)' => Begun(h)
  BY <1>2, <1>3, <1>4 DEF Begun
<1>9. StampsInv'
  <2>1. \A h \in Grants : grant[h].issued <= last /\ grant[h].issued \in Nat
    BY <1>0 DEF GrantInv, StampsInv, GrantTypeOK
  <2>2. \A h \in Grants : grant'[h].issued <= last'
    BY <1>1, <1>2, <1>5, <2>1
  <2>3. marker.val \in Nat /\ row.revoked \in Nat /\ \A q \in Calls : call[q].m \in Nat
    BY <1>0 DEF GrantTypeOK, Key, Row, Call
  <2>4. \A q \in Calls : call'[q].pc = "revokeRow" => call'[q].m <= last'
    BY <1>1, <1>2, <1>3, <1>4, <2>3 DEF GrantInv, StampsInv
  <2> QED
    BY <1>1, <1>2, <2>2, <2>3, <2>4 DEF GrantInv, StampsInv
<1>10. MintInv'
  <2>1. ASSUME NEW q \in Calls, q # r PROVE MintOK(q)'
    <3>1. MintOK(q) /\ (call[q].pc \in Minting => call[q].g # g)
      BY <1>0, <2>1 DEF GrantInv, MintInv, Minting
    <3>2. call'[q] = call[q]
      BY <1>4, <2>1
    <3> QED
      BY <1>2, <1>5, <3>1, <3>2 DEF MintOK, Asked, Minting
  <2>2. MintOK(r)'
    BY <1>0, <1>1, <1>2, <1>3, <1>4, <1>5 DEF MintOK, Asked
  <2>3. \A p, q \in Calls : call'[p].pc \in Minting /\ call'[q].pc \in Minting /\ call'[p].g = call'[q].g => p = q
    <3>1. \A p, q \in Calls : call[p].pc \in Minting /\ call[q].pc \in Minting /\ call[p].g = call[q].g => p = q
      BY DEF GrantInv, MintInv
    <3>2. call[r].pc \in Minting
      BY <1>0 DEF Minting
    <3> QED
      BY <1>3, <1>4, <3>1, <3>2
  <2>4. \A h \in Grants : (Asked(h)' => h # g /\ Asked(h)) /\ (Begun(h)' => h # g /\ Begun(h))
    BY <1>0, <1>2, <1>7, <1>8 DEF Asked
  <2> QED
    BY <1>2, <1>5, <2>1, <2>2, <2>3, <2>4 DEF GrantInv, MintInv
<1>11. RevokedInv'
  <2>1. ASSUME NEW h \in revoked, NEW q \in Calls, call'[q].g = h PROVE LeftOK(h, q)'
    BY <1>2, <1>3, <1>4, <1>7, <2>1 DEF GrantInv, RevokedInv, LeftOK
  <2>2. \A h \in revoked : h \in Grants /\ h # g
    BY <1>0, <1>7 DEF GrantTypeOK
  <2> QED
    BY <1>2, <1>5, <2>1, <2>2 DEF GrantInv, RevokedInv
<1>12. RowInv'
  <2>1. \A k \in Nat : k <= last => StampedBy(k)' = StampedBy(k)
    BY <1>0, <1>1, <1>5 DEF StampedBy
  <2>2. row.revoked \in Nat /\ row.revoked <= last
    BY <1>0 DEF GrantInv, StampsInv, GrantTypeOK, Row
  <2>3. \A q \in Calls : call'[q].pc = "revokeRow" => /\ call'[q] = call[q] /\ call[q].m \in Nat /\ call[q].m <= last
                                                      /\ StampedBy(call[q].m) \subseteq revoked
    BY <1>0, <1>3, <1>4 DEF GrantInv, StampsInv, GrantTypeOK, Call, RowInv
  <2>4. \A h \in Grants : Begun(h)' => h # g /\ Begun(h)
    BY <1>7, <1>8
  <2>5. \A h \in Grants \ revoked : Begun(h)' => row'.revoked = 0 /\ row'.granted >= grant'[h].issued
    BY <1>2, <1>5, <2>4 DEF GrantInv, RowInv
  <2>6. row'.revoked > 0 => row'.granted <= row'.revoked /\ (StampedBy(row.revoked)' \subseteq revoked)
    BY <1>2, <2>1, <2>2 DEF GrantInv, RowInv
  <2>7. \A q \in Calls : call'[q].pc = "revokeRow" => StampedBy(call[q].m)' \subseteq revoked
    <3> SUFFICES ASSUME NEW q \in Calls, call'[q].pc = "revokeRow" PROVE StampedBy(call[q].m)' \subseteq revoked
      OBVIOUS
    <3>1. call'[q].m = call[q].m /\ call[q].m \in Nat /\ call[q].m <= last /\ StampedBy(call[q].m) \subseteq revoked
      BY <2>3
    <3> QED
      BY <1>5, <1>1, <3>1 DEF StampedBy
  <2> QED
    BY <1>2, <2>3, <2>5, <2>6, <2>7 DEF RowInv, StampedBy
<1>13. CodeExchangedOnce'
  BY <1>2 DEF GrantInv, CodeExchangedOnce
<1> QED
  BY <1>6, <1>9, <1>10, <1>11, <1>12, <1>13 DEF GrantInv

(* A new marker covers every grant there is, and outlives all they left.   *)
LEMMA RevokeMarkerInv ==
    ASSUME GrantInv, NEW r \in Calls, NEW wall \in Wall, RevokeMarker(r, wall)
    PROVE  GrantInv'
<1> DEFINE m == NextStamp(wall)
           x == [call[r] EXCEPT !.pc = "revokeRow", !.m = m]
<1>0. GrantTypeOK /\ call[r].pc = "revokeMarker" /\ call[r] \in Call
  BY CallFacts DEF RevokeMarker
<1>1. m \in Nat /\ m > last /\ last \in Nat
  BY NextStampIsNew
<1>2. x \in Call /\ x.pc = "revokeRow" /\ x.m = m
  BY <1>0, <1>1 DEF Call
<1>3. call' = [call EXCEPT ![r] = x]
  BY <1>0 DEF RevokeMarker, GrantTypeOK, Call
<1>4. /\ clock' = [val |-> m, ttl |-> StateTTL] /\ last' = m /\ marker' = [val |-> m, ttl |-> StateTTL]
      /\ revoked' = revoked \cup {g \in Grants : grant[g].issued > 0}
      /\ UNCHANGED <<grantClient, row, grantConsent, grant, code, tok>>
  BY <1>1 DEF RevokeMarker, SetClock, Later
<1> HIDE DEF m, x
<1>5. call'[r] = x /\ \A q \in Calls : q # r => call'[q] = call[q]
  BY <1>0, <1>3 DEF GrantTypeOK
<1>6. StateTTL \in Nat /\ CallTimeout \in Nat /\ TokenTTL \in Nat /\ CodeTTL \in Nat
      /\ TokenTTL + CallTimeout <= StateTTL /\ CodeTTL + 2 * CallTimeout < StateTTL
  BY GrantLifetimes
<1>7. GrantTypeOK'
  <2>1. clock' \in Key /\ marker' \in Key /\ revoked' \subseteq Grants
    BY <1>0, <1>1, <1>4, <1>6 DEF Key, GrantTypeOK
  <2> QED
    BY <1>0, <1>1, <1>2, <1>3, <1>4, <2>1 DEF GrantTypeOK
<1>8. \A g \in Grants : Begun(g)' => Begun(g)
  BY <1>2, <1>4, <1>5 DEF Begun
<1>9. \A g \in Grants : grant[g].issued \in Nat /\ grant[g].issued <= last
  BY <1>0 DEF GrantInv, StampsInv, GrantTypeOK
<1>10. StampsInv'
  <2>1. row.revoked \in Nat /\ row.revoked <= last /\ \A q \in Calls : call[q].m \in Nat
    BY <1>0 DEF GrantInv, StampsInv, GrantTypeOK, Row, Call
  <2>2. \A q \in Calls : call'[q].pc = "revokeRow" => call'[q].m <= last'
    BY <1>1, <1>2, <1>4, <1>5, <2>1 DEF GrantInv, StampsInv
  <2> QED
    BY <1>1, <1>4, <1>9, <2>1, <2>2 DEF StampsInv
<1>11. MintInv'
  <2>1. \A q \in Calls : MintOK(q)'
    BY <1>2, <1>4, <1>5 DEF GrantInv, MintInv, MintOK, Minting, Asked
  <2>2. \A p, q \in Calls : call'[p].pc \in Minting /\ call'[q].pc \in Minting /\ call'[p].g = call'[q].g => p = q
    BY <1>2, <1>5 DEF GrantInv, MintInv, Minting
  <2> QED
    BY <1>4, <1>8, <2>1, <2>2 DEF GrantInv, MintInv, Asked
<1>12. RevokedInv'
  <2>1. ASSUME NEW g \in revoked'
        PROVE  /\ g \in Grants /\ grant[g].issued > 0 /\ grant[g].issued <= m
               /\ tok[g].access <= StateTTL /\ tok[g].refresh <= StateTTL
               /\ code[g].life > 0 => code[g].life + CallTimeout <= StateTTL
    <3>1. g \in Grants /\ grant[g].issued > 0
      BY <1>4, <1>7 DEF GrantInv, RevokedInv, GrantTypeOK
    <3>2. /\ tok[g].access \in Nat /\ tok[g].refresh \in Nat /\ code[g].life \in Nat
          /\ tok[g].access <= TokenTTL /\ tok[g].refresh <= TokenTTL /\ code[g].life <= CodeTTL
      BY <1>0, <3>1 DEF GrantInv, MintInv, GrantTypeOK, Code
    <3> QED
      BY <1>1, <1>6, <1>9, <3>1, <3>2
  <2>2. ASSUME NEW g, NEW q \in Calls PROVE LeftOK(g, q)'
    <3>1. call'[q].age \in Nat /\ call'[q].age <= CallTimeout
      BY <1>6, <1>7 DEF GrantTypeOK, Call
    <3>2. marker'.ttl = StateTTL
      BY <1>4
    <3> QED
      BY <1>6, <3>1, <3>2 DEF LeftOK
  <2>3. marker'.ttl = StateTTL /\ marker'.val = m
    BY <1>4
  <2> SUFFICES ASSUME NEW g \in revoked'
               PROVE  /\ grant'[g].issued > 0
                      /\ marker'.ttl > 0 => grant'[g].issued <= marker'.val
                      /\ tok'[g].access <= marker'.ttl /\ tok'[g].refresh <= marker'.ttl
                      /\ code'[g].life > 0 => code'[g].life + CallTimeout <= marker'.ttl
                      /\ \A q \in Calls : call'[q].g = g => LeftOK(g, q)'
    BY DEF RevokedInv
  <2> QED
    BY <1>4, <2>1, <2>2, <2>3
<1>13. RowInv'
  <2>1. \A k : StampedBy(k)' \subseteq revoked'
    BY <1>4 DEF StampedBy
  <2>2. \A g \in Grants \ revoked' : ~Begun(g)'
    BY <1>4, <1>8 DEF GrantInv, MintInv
  <2>3. row'.revoked > 0 => row'.granted <= row'.revoked
    BY <1>4 DEF GrantInv, RowInv
  <2> QED
    BY <2>1, <2>2, <2>3 DEF RowInv
<1>14. CodeExchangedOnce'
  BY <1>4 DEF GrantInv, CodeExchangedOnce
<1> QED
  BY <1>7, <1>10, <1>11, <1>12, <1>13, <1>14 DEF GrantInv

(* Tokens and challenges go away, and the client changes.                  *)
LEMMA OutsideStepsInv ==
    ASSUME GrantInv,
           \/ \E g \in Grants : Authorize(g) \/ DropGrantConsent(g) \/ RevokeToken(g)
           \/ \E revision \in {"ident", "auth"} : ChangeGrantClient(revision)
           \/ UNCHANGED grantVars
    PROVE  GrantInv'
<1>0. GrantTypeOK /\ grantClient \in Revisions
  BY DEF GrantInv, GrantTypeOK
<1>1. UNCHANGED <<row, clock, marker, last, grant, code, revoked, call>>
  BY DEF Authorize, DropGrantConsent, RevokeToken, ChangeGrantClient, grantVars
<1>2. tok' \in [Grants -> [access : Nat, refresh : Nat]]
      /\ \A g \in Grants : tok'[g] = tok[g] \/ tok'[g] = NoTokens
  <2>1. CASE tok' = tok
    BY <1>0, <2>1 DEF GrantTypeOK
  <2>2. ASSUME NEW g \in Grants, tok' = [tok EXCEPT ![g] = NoTokens]
        PROVE  tok' \in [Grants -> [access : Nat, refresh : Nat]]
               /\ \A h \in Grants : tok'[h] = tok[h] \/ tok'[h] = NoTokens
    <3>1. NoTokens \in [access : Nat, refresh : Nat]
      BY DEF NoTokens
    <3> QED
      BY <1>0, <2>2, <3>1 DEF GrantTypeOK
  <2> QED
    BY <2>1, <2>2 DEF Authorize, DropGrantConsent, RevokeToken, ChangeGrantClient, grantVars
<1>3. /\ grantConsent' \in [Grants -> [open : BOOLEAN, new : BOOLEAN, ident : Nat, auth : Nat]]
      /\ \A g \in Grants : (Asked(g)' => Asked(g)) /\ (grantConsent'[g].open => ~grantConsent'[g].new)
  <2>1. CASE UNCHANGED grantConsent
    BY <1>0, <2>1 DEF GrantTypeOK, Asked, GrantInv, MintInv
  <2>2. ASSUME NEW g \in Grants, Authorize(g)
        PROVE  /\ grantConsent' \in [Grants -> [open : BOOLEAN, new : BOOLEAN, ident : Nat, auth : Nat]]
               /\ \A h \in Grants : (Asked(h)' => Asked(h)) /\ (grantConsent'[h].open => ~grantConsent'[h].new)
    <3>1. grantClient.ident \in Nat /\ grantClient.auth \in Nat
      BY <1>0 DEF Revisions
    <3> QED
      BY <1>0, <2>2, <3>1 DEF Authorize, GrantTypeOK, Asked, GrantInv, MintInv
  <2>3. ASSUME NEW g \in Grants, DropGrantConsent(g)
        PROVE  /\ grantConsent' \in [Grants -> [open : BOOLEAN, new : BOOLEAN, ident : Nat, auth : Nat]]
               /\ \A h \in Grants : (Asked(h)' => Asked(h)) /\ (grantConsent'[h].open => ~grantConsent'[h].new)
    BY <1>0, <2>3 DEF DropGrantConsent, GrantTypeOK, Asked, GrantInv, MintInv
  <2> QED
    BY <2>1, <2>2, <2>3 DEF RevokeToken, ChangeGrantClient, grantVars
<1>4. grantClient' \in Revisions
  <2>1. ASSUME NEW revision \in {"ident", "auth"}, ChangeGrantClient(revision) PROVE grantClient' \in Revisions
    <3>1. grantClient.ident + 1 \in Nat /\ grantClient.auth + 1 \in Nat
      BY <1>0 DEF Revisions
    <3>2. CASE revision = "ident"
      BY <1>0, <2>1, <3>1, <3>2 DEF ChangeGrantClient, Revisions
    <3>3. CASE revision = "auth"
      BY <1>0, <2>1, <3>1, <3>3 DEF ChangeGrantClient, Revisions
    <3> QED
      BY <3>2, <3>3
  <2> QED
    BY <1>0, <2>1 DEF Authorize, DropGrantConsent, RevokeToken, grantVars
<1>5. GrantTypeOK'
  BY <1>0, <1>1, <1>2, <1>3, <1>4 DEF GrantTypeOK
<1>6. \A g \in Grants : Begun(g)' => Begun(g)
  BY <1>1, <1>2 DEF Begun, NoTokens
<1>7. CodeExchangedOnce' /\ StampsInv'
  BY <1>1 DEF GrantInv, CodeExchangedOnce, StampsInv
<1>8. MintInv'
  <2>1. \A r \in Calls : MintOK(r)'
    BY <1>1, <1>3 DEF GrantInv, MintInv, MintOK, Minting, Asked
  <2>2. \A g \in Grants : tok'[g].access <= TokenTTL /\ tok'[g].refresh <= TokenTTL
    BY <1>2, GrantLifetimes DEF GrantInv, MintInv, NoTokens
  <2>3. \A g \in Grants : (Asked(g)' => grant'[g].issued = 0 /\ code'[g].exchanged = 0) /\ (Begun(g)' => grant'[g].issued > 0)
    BY <1>1, <1>3, <1>6 DEF GrantInv, MintInv
  <2> QED
    BY <1>1, <1>3, <2>1, <2>2, <2>3 DEF GrantInv, MintInv
<1>9. RevokedInv'
  <2>1. marker.ttl \in Nat /\ revoked \subseteq Grants
    BY <1>0 DEF GrantTypeOK, Key
  <2>2. \A g \in revoked : tok'[g].access <= marker.ttl /\ tok'[g].refresh <= marker.ttl
    BY <1>2, <2>1 DEF GrantInv, RevokedInv, NoTokens
  <2> QED
    BY <1>1, <2>2 DEF GrantInv, RevokedInv, LeftOK
<1>10. RowInv'
  <2>1. \A k : StampedBy(k)' = StampedBy(k)
    BY <1>1 DEF StampedBy
  <2> QED
    BY <1>1, <1>6, <2>1 DEF GrantInv, RowInv
<1> QED
  BY <1>5, <1>7, <1>8, <1>9, <1>10 DEF GrantInv

(* Time takes the same from the marker and from what it must outlive.      *)
LEMMA GrantTickInv ==
    ASSUME GrantInv, GrantTick
    PROVE  GrantInv'
<1>0. /\ GrantTypeOK /\ CallTimeout \in Nat /\ TokenTTL \in Nat /\ CodeTTL \in Nat /\ CodeTTL > 0
      /\ marker \in Key /\ clock \in Key /\ marker.ttl \in Nat /\ revoked \subseteq Grants
  BY GrantLifetimes DEF GrantInv, GrantTypeOK, Key
<1>1. UNCHANGED <<grantClient, row, last, grantConsent, grant, revoked>>
  BY DEF GrantTick
<1>2. \A n \in Nat : OlderGrant(n) \in Nat /\ OlderGrant(n) <= n /\ (n > 0 => OlderGrant(n) = n - 1) /\ (n = 0 => OlderGrant(n) = 0)
  BY DEF OlderGrant
<1>3. \A k \in Key : Aged(k) \in Key /\ Aged(k).ttl = OlderGrant(k.ttl) /\ (Aged(k).ttl > 0 => Aged(k).val = k.val /\ k.ttl > 0)
  <2> SUFFICES ASSUME NEW k \in Key
               PROVE  Aged(k) \in Key /\ Aged(k).ttl = OlderGrant(k.ttl) /\ (Aged(k).ttl > 0 => Aged(k).val = k.val /\ k.ttl > 0)
    OBVIOUS
  <2>1. k.ttl \in Nat /\ OlderGrant(k.ttl) \in Nat
    BY <1>2 DEF Key
  <2>2. CASE k.ttl > 1
    BY <2>1, <2>2 DEF Aged, Key
  <2>3. CASE ~(k.ttl > 1)
    BY <1>2, <2>1, <2>3 DEF Aged, Key, NoKey, OlderGrant
  <2> QED
    BY <2>2, <2>3
<1>4. /\ marker' \in Key /\ clock' \in Key /\ marker'.ttl \in Nat /\ marker'.ttl = OlderGrant(marker.ttl)
      /\ marker'.ttl > 0 => marker'.val = marker.val /\ marker.ttl > 0
      /\ clock'.ttl > 0 => clock'.val = clock.val /\ clock.ttl > 0
  BY <1>0, <1>2, <1>3 DEF GrantTick
<1>5. \A g \in Grants : /\ code[g] \in Code /\ code[g].life \in Nat /\ code[g].used \in Nat
                        /\ code'[g] \in Code /\ code'[g].life = OlderGrant(code[g].life)
                        /\ code'[g].exchanged = code[g].exchanged
  <2> SUFFICES ASSUME NEW g \in Grants
               PROVE  /\ code[g] \in Code /\ code[g].life \in Nat /\ code[g].used \in Nat
                      /\ code'[g] \in Code /\ code'[g].life = OlderGrant(code[g].life)
                      /\ code'[g].exchanged = code[g].exchanged
    OBVIOUS
  <2>1. code[g] \in Code /\ code[g].life \in Nat /\ code[g].used \in Nat
    BY <1>0 DEF GrantTypeOK, Code
  <2>2. code'[g] = [code[g] EXCEPT !.life = OlderGrant(code[g].life), !.used = OlderGrant(code[g].used)]
    BY <2>1 DEF GrantTick, Code
  <2>3. OlderGrant(code[g].life) \in Nat /\ OlderGrant(code[g].used) \in Nat
    BY <1>2, <2>1
  <2> QED
    BY <2>1, <2>2, <2>3 DEF Code
<1>6. \A g \in Grants : /\ tok[g].access \in Nat /\ tok[g].refresh \in Nat
                        /\ tok'[g] \in [access : Nat, refresh : Nat]
                        /\ tok'[g].access = OlderGrant(tok[g].access) /\ tok'[g].refresh = OlderGrant(tok[g].refresh)
  BY <1>0, <1>2 DEF GrantTick, GrantTypeOK
<1>7. \A r \in Calls : /\ call[r] \in Call /\ call[r].age \in Nat /\ call'[r] \in Call
                       /\ call'[r].pc = call[r].pc /\ call'[r].g = call[r].g /\ call'[r].m = call[r].m
                       /\ call[r].pc # "idle" => call[r].age < CallTimeout /\ call'[r].age = call[r].age + 1
  <2> SUFFICES ASSUME NEW r \in Calls
               PROVE  /\ call[r] \in Call /\ call[r].age \in Nat /\ call'[r] \in Call
                      /\ call'[r].pc = call[r].pc /\ call'[r].g = call[r].g /\ call'[r].m = call[r].m
                      /\ call[r].pc # "idle" => call[r].age < CallTimeout /\ call'[r].age = call[r].age + 1
    OBVIOUS
  <2>1. call[r] \in Call /\ call[r].age \in Nat /\ call[r].age \in 0 .. CallTimeout
    BY <1>0 DEF GrantTypeOK, Call
  <2>2. CASE call[r].pc = "idle"
    BY <2>1, <2>2 DEF GrantTick
  <2>3. CASE call[r].pc # "idle"
    <3>1. call'[r] = [call[r] EXCEPT !.age = call[r].age + 1] /\ call[r].age < CallTimeout
      BY <2>1, <2>3 DEF GrantTick, Call
    <3>2. call[r].age + 1 \in 0 .. CallTimeout
      BY <1>0, <2>1, <3>1
    <3> QED
      BY <2>1, <3>1, <3>2 DEF Call
  <2> QED
    BY <2>2, <2>3
<1>8. GrantTypeOK'
  <2>1. code' \in [Grants -> Code] /\ tok' \in [Grants -> [access : Nat, refresh : Nat]] /\ call' \in [Calls -> Call]
    BY <1>5, <1>6, <1>7 DEF GrantTick
  <2> QED
    BY <1>0, <1>1, <1>4, <2>1 DEF GrantTypeOK
<1>9. \A g \in Grants : Begun(g)' => Begun(g)
  <2>1. \A n \in Nat : OlderGrant(n) > 0 => n > 0
    BY DEF OlderGrant
  <2> QED
    BY <1>5, <1>6, <1>7, <2>1 DEF Begun
<1>10. CodeExchangedOnce'
  BY <1>5 DEF GrantInv, CodeExchangedOnce
<1>11. StampsInv'
  BY <1>1, <1>4, <1>7 DEF GrantInv, StampsInv
<1>12. MintInv'
  <2>1. ASSUME NEW r \in Calls PROVE MintOK(r)'
    <3>1. MintOK(r) /\ call'[r].pc = call[r].pc /\ call'[r].g = call[r].g
      BY <1>7 DEF GrantInv, MintInv
    <3>2. \A g \in Grants : code[g].life = 0 => code'[g].life = 0
      BY <1>2, <1>5
    <3> QED
      BY <1>1, <1>5, <3>1, <3>2 DEF MintOK, Minting, Asked
  <2>2. \A g \in Grants : /\ tok'[g].access <= TokenTTL /\ tok'[g].refresh <= TokenTTL /\ code'[g].life <= CodeTTL
                          /\ code'[g].life > 0 => code'[g].exchanged = 0
    <3> SUFFICES ASSUME NEW g \in Grants
                 PROVE  /\ tok'[g].access <= TokenTTL /\ tok'[g].refresh <= TokenTTL /\ code'[g].life <= CodeTTL
                        /\ code'[g].life > 0 => code'[g].exchanged = 0
      OBVIOUS
    <3>1. tok[g].access <= TokenTTL /\ tok[g].refresh <= TokenTTL /\ code[g].life <= CodeTTL
          /\ (code[g].life > 0 => code[g].exchanged = 0)
      BY DEF GrantInv, MintInv
    <3>2. /\ OlderGrant(tok[g].access) \in Nat /\ OlderGrant(tok[g].access) <= tok[g].access
          /\ OlderGrant(tok[g].refresh) \in Nat /\ OlderGrant(tok[g].refresh) <= tok[g].refresh
          /\ OlderGrant(code[g].life) \in Nat /\ OlderGrant(code[g].life) <= code[g].life
      BY <1>2, <1>5, <1>6
    <3> QED
      BY <1>0, <1>5, <1>6, <3>1, <3>2
  <2>3. \A g \in Grants : Asked(g)' = Asked(g)
    BY <1>1 DEF Asked
  <2> QED
    BY <1>1, <1>5, <1>7, <1>9, <2>1, <2>2, <2>3 DEF GrantInv, MintInv
<1>13. RevokedInv'
  <2> SUFFICES ASSUME NEW g \in revoked
               PROVE  /\ grant[g].issued > 0
                      /\ marker'.ttl > 0 => grant[g].issued <= marker'.val
                      /\ tok'[g].access <= marker'.ttl /\ tok'[g].refresh <= marker'.ttl
                      /\ code'[g].life > 0 => code'[g].life + CallTimeout <= marker'.ttl
                      /\ \A r \in Calls : call'[r].g = g => LeftOK(g, r)'
    BY <1>1 DEF RevokedInv
  <2>0. g \in Grants
    BY <1>0
  <2>1. /\ grant[g].issued > 0 /\ (marker.ttl > 0 => grant[g].issued <= marker.val)
        /\ tok[g].access <= marker.ttl /\ tok[g].refresh <= marker.ttl
        /\ code[g].life > 0 => code[g].life + CallTimeout <= marker.ttl
        /\ \A r \in Calls : call[r].g = g => LeftOK(g, r)
    BY DEF GrantInv, RevokedInv
  <2>2. \A a, b \in Nat : a <= b => OlderGrant(a) <= OlderGrant(b)
    BY DEF OlderGrant
  <2>3. tok'[g].access <= marker'.ttl /\ tok'[g].refresh <= marker'.ttl
    BY <1>0, <1>4, <1>6, <2>0, <2>1, <2>2
  <2>4. code'[g].life > 0 => code'[g].life + CallTimeout <= marker'.ttl
    BY <1>0, <1>2, <1>4, <1>5, <2>0, <2>1
  <2>5. ASSUME NEW r \in Calls, call'[r].g = g PROVE LeftOK(g, r)'
    <3>1. LeftOK(g, r)
      BY <1>7, <2>1, <2>5
    <3>2. CASE call[r].pc = "idle"
      BY <1>7, <3>2 DEF LeftOK
    <3>3. CASE call[r].pc # "idle"
      <4>1. /\ call'[r].age = call[r].age + 1 /\ call[r].age < CallTimeout /\ call[r].age \in Nat
            /\ call'[r].pc = call[r].pc
        BY <1>7, <3>3
      <4>2. marker.ttl > 0 => marker'.ttl = marker.ttl - 1
        BY <1>0, <1>2, <1>4
      <4> QED
        BY <1>0, <3>1, <4>1, <4>2 DEF LeftOK
    <3> QED
      BY <3>2, <3>3
  <2> QED
    BY <1>4, <2>1, <2>3, <2>4, <2>5
<1>14. RowInv'
  <2>1. \A k : StampedBy(k)' = StampedBy(k)
    BY <1>1 DEF StampedBy
  <2> QED
    BY <1>1, <1>7, <1>9, <2>1 DEF GrantInv, RowInv
<1> QED
  BY <1>8, <1>10, <1>11, <1>12, <1>13, <1>14 DEF GrantInv

LEMMA GrantStepInv == GrantInv /\ [GrantNext]_grantVars => GrantInv'
<1> SUFFICES ASSUME GrantInv, [GrantNext]_grantVars PROVE GrantInv'
  OBVIOUS
<1>1. ASSUME NEW r \in Calls, CallStep(r) PROVE GrantInv'
  BY <1>1, CallMovesInv, TokenStepsInv, SaveCodeInv, ConsumeCodeInv, UpsertInv, RevokeRowInv, IssueTimeInv,
     RevokeMarkerInv DEF CallStep
<1>2. CASE GrantTick
  BY <1>2, GrantTickInv
<1> QED
  BY <1>1, <1>2, OutsideStepsInv DEF GrantNext

(* A code is exchanged at most once, however many token requests race for  *)
(* it (ConsumeAuthorizationCodeIfMatch).                                   *)
THEOREM CodesAreExchangedOnce == GrantSpec => []CodeExchangedOnce
<1>1. GrantInv => CodeExchangedOnce
  BY DEF GrantInv
<1> QED
  BY GrantInitInv, GrantStepInv, <1>1, PTL DEF GrantSpec

(* No token of a revoked grant is accepted, at any time: by then the       *)
(* marker that refuses it is there, for all lifetimes that keep the        *)
(* assumption on StateTTL (RevokeUserClientAuthorization).                 *)
THEOREM RevocationIsFinal == GrantSpec => []RevokedGrantStaysDead
<1>1. GrantInv => RevokedGrantStaysDead
  <2> SUFFICES ASSUME GrantInv, NEW g \in revoked, tok[g].access > 0 \/ tok[g].refresh > 0
               PROVE  ~Valid(g)
    BY DEF RevokedGrantStaysDead, GrantAccepted
  <2>1. marker.ttl \in Nat /\ tok[g].access \in Nat /\ tok[g].refresh \in Nat
    BY DEF GrantInv, GrantTypeOK, Key
  <2> QED
    BY <2>1 DEF GrantInv, RevokedInv, Valid, IsRevoked
<1> QED
  BY GrantInitInv, GrantStepInv, <1>1, PTL DEF GrantSpec

(* Whatever token of a client is accepted, the user's list shows an active *)
(* authorization of the client (UpsertExpected and Revoke compare logical  *)
(* times).                                                                 *)
THEOREM AcceptedGrantsAreListed == GrantSpec => []LiveGrantIsListed
<1>1. GrantInv => LiveGrantIsListed
  <2> SUFFICES ASSUME GrantInv, NEW g \in Grants, GrantAccepted(g)
               PROVE  row.revoked = 0 /\ row.granted >= grant[g].issued
    BY DEF LiveGrantIsListed
  <2>1. marker.ttl \in Nat /\ tok[g].access \in Nat /\ tok[g].refresh \in Nat
    BY DEF GrantInv, GrantTypeOK, Key
  <2>2. Begun(g)
    BY DEF GrantAccepted, Begun
  <2>3. g \notin revoked
    BY <2>1 DEF GrantInv, RevokedInv, GrantAccepted, Valid, IsRevoked
  <2> QED
    BY <2>2, <2>3 DEF GrantInv, RowInv
<1> QED
  BY GrantInitInv, GrantStepInv, <1>1, PTL DEF GrantSpec
=============================================================================
