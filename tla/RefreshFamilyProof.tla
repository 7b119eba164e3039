------------------------- MODULE RefreshFamilyProof -------------------------
(* Proofs about RefreshFamily: the scripts keep every family well formed,  *)
(* the requests keep what they rely on, and so a revoked family stays dead.*)
EXTENDS RefreshFamily, TLAPS

(* The longer of two lives is one of them and covers both. *)
LEMMA LongerLemma ==
    ASSUME NEW a \in Nat, NEW b \in Nat
    PROVE  Longer(a, b) \in Nat /\ a <= Longer(a, b) /\ b <= Longer(a, b)
BY DEF Longer

(* A life of the family set covers both token lives of the same policy. *)
LEMMA FamilyTTLLemma ==
    ASSUME NEW l \in Lifetimes
    PROVE  /\ l.refresh \in Nat \ {0} /\ l.access \in Nat \ {0}
           /\ FamilyTTL(l) \in Nat
           /\ l.refresh <= FamilyTTL(l) /\ l.access <= FamilyTTL(l)
           /\ RequestTimeout < l.refresh
BY LifetimesAssumption, BoundsAssumption, LongerLemma DEF FamilyTTL

(* A family that was not issued yet is well formed. *)
LEMMA NoFamilyLemma == NoFamily \in Family /\ FamilyOK(NoFamily)
<1>1. 0 \in Nat /\ \A l \in Lifetimes : FamilyTTL(l) \in Nat
  BY FamilyTTLLemma
<1>2. NoFamily \in Family
  BY DEF NoFamily, Family
<1>3. FamilyOK(NoFamily)
  <2>1. AccessOK(NoFamily)
    BY <1>1 DEF AccessOK, NoFamily
  <2> QED BY <1>1, <2>1, BoundsAssumption DEF FamilyOK, NoFamily, Tokens, Known
<1> QED BY <1>2, <1>3

(* SaveRefreshToken makes a well-formed family of a new one. *)
LEMMA SaveRefreshTokenLemma ==
    ASSUME NEW F \in Family, FamilyOK(F), F.next = 0,
           NEW v \in Nat, NEW l \in Lifetimes
    PROVE  /\ SaveRefreshToken(F, v, l) \in Family
           /\ FamilyOK(SaveRefreshToken(F, v, l))
<1> DEFINE G == SaveRefreshToken(F, v, l)
<1>1. 0 \in Tokens /\ Tokens \subseteq Nat
  BY BoundsAssumption DEF Tokens
<1>2. l.refresh \in Nat
  BY FamilyTTLLemma
<1>3. G \in Family
  BY <1>1, <1>2 DEF SaveRefreshToken, Family
<1>4. /\ G.next = 1 /\ G.rset = {0} /\ G.setTTL = l.refresh
      /\ G.access = F.access /\ G.aset = F.aset /\ G.ended = F.ended
      /\ G.refresh = [F.refresh EXCEPT ![0] = l.refresh] /\ G.used = F.used
  BY DEF SaveRefreshToken, Family
<1>5. \A t \in Tokens : /\ F.refresh[t] = 0 /\ F.access[t] = 0 /\ F.used[t] = 0
                        /\ G.refresh[t] = IF t = 0 THEN l.refresh ELSE 0
  <2>1. \A t \in Tokens : F.refresh[t] \in Nat /\ F.used[t] \in Nat /\ F.refresh \in [Tokens -> Nat]
    BY DEF Family
  <2>2. \A t \in Tokens : F.refresh[t] = 0 /\ F.access[t] = 0 /\ F.used[t] = 0
    BY <1>1, <2>1 DEF FamilyOK, Known
  <2> QED BY <1>1, <1>4, <2>1, <2>2
<1>6. F.ended = FALSE
  BY DEF FamilyOK, Family
<1> HIDE DEF G
<1>7. FamilyOK(G)
  <2>1. AccessOK(G)
    BY <1>4, <1>5, <1>6, FamilyTTLLemma DEF AccessOK
  <2>2. \A t \in Tokens : t >= G.next => ~Known(G, t) /\ G.access[t] = 0
    <3> SUFFICES ASSUME NEW t \in Tokens, t >= G.next
                 PROVE  ~Known(G, t) /\ G.access[t] = 0
      OBVIOUS
    <3>1. t # 0
      BY <1>1, <1>4
    <3>2. G.refresh[t] = 0 /\ G.used[t] = 0 /\ G.access[t] = 0
      BY <1>4, <1>5, <3>1
    <3> QED BY <3>2 DEF Known
  <2>3. \A t \in Tokens : G.refresh[t] > 0 => t = 0 /\ G.refresh[t] <= G.setTTL
    BY <1>2, <1>4, <1>5
  <2> QED BY <1>1, <1>4, <1>6, <2>1, <2>2, <2>3, BoundsAssumption DEF FamilyOK
<1> QED BY <1>3, <1>7 DEF G

(* saveFamilyTokenScript in a family that is not revoked. *)
LEMMA SaveFamilyTokenLemma ==
    ASSUME NEW F \in Family, FamilyOK(F), ~F.ended,
           NEW t \in Tokens, t < F.next, NEW l \in Lifetimes
    PROVE  /\ SaveFamilyToken(F, t, l.access) \in Family
           /\ FamilyOK(SaveFamilyToken(F, t, l.access))
<1> DEFINE G == SaveFamilyToken(F, t, l.access)
<1>1. Tokens \subseteq Nat
  BY BoundsAssumption DEF Tokens
<1>2. l.access \in Nat
  BY FamilyTTLLemma
<1>3. /\ F.setTTL \in Nat /\ Longer(F.setTTL, l.access) \in Nat
      /\ F.setTTL <= Longer(F.setTTL, l.access)
      /\ l.access <= Longer(F.setTTL, l.access)
  BY <1>2, LongerLemma DEF Family
<1>4. G \in Family
  BY <1>2, <1>3 DEF SaveFamilyToken, Family
<1>5. /\ G.next = F.next /\ G.rset = F.rset /\ G.aset = F.aset \cup {t}
      /\ G.setTTL = Longer(F.setTTL, l.access)
      /\ G.refresh = F.refresh /\ G.ended = F.ended /\ G.used = F.used
      /\ G.access = [F.access EXCEPT ![t] = l.access]
  BY DEF SaveFamilyToken, Family
<1>6. \A u \in Tokens : /\ F.refresh[u] \in Nat /\ F.access[u] \in Nat
                        /\ G.access[u] = IF u = t THEN l.access ELSE F.access[u]
  BY <1>5 DEF Family
<1>7. F.next \in Nat
  BY DEF Family
<1> HIDE DEF G
<1>8. \A u \in Tokens : G.refresh[u] > 0 => u \in G.rset /\ G.refresh[u] <= G.setTTL
  BY <1>3, <1>5, <1>6 DEF FamilyOK
<1>9. AccessWithinFamily => AccessOK(G)
  <2> SUFFICES ASSUME AccessWithinFamily PROVE AccessOK(G)
    OBVIOUS
  <2>1. \A m \in Lifetimes : l.access <= FamilyTTL(m)
    BY DEF AccessWithinFamily
  <2>2. \A u \in Tokens : G.access[u] > 0 => u \in G.aset /\ G.access[u] <= G.setTTL
    BY <1>2, <1>3, <1>5, <1>6 DEF FamilyOK, AccessOK
  <2> QED BY <1>5, <1>6, <2>1, <2>2 DEF FamilyOK, AccessOK
<1>10. \A u \in Tokens : u >= G.next => ~Known(G, u) /\ G.access[u] = 0
  BY <1>1, <1>5, <1>6, <1>7 DEF FamilyOK, Known
<1>11. FamilyOK(G)
  BY <1>5, <1>6, <1>8, <1>9, <1>10 DEF FamilyOK
<1> QED BY <1>4, <1>11 DEF G

(* Revoking a family kills it: every living token is a member of its set. *)
LEMMA RevokeFamilyLemma ==
    ASSUME NEW F \in Family, FamilyOK(F), F.next > 0, NEW ttl \in Nat
    PROVE  /\ RevokeFamily(F, ttl) \in Family
           /\ FamilyOK(RevokeFamily(F, ttl))
           /\ RevokeFamily(F, ttl).marker = ttl
           /\ RevokeFamily(F, ttl).next = F.next
<1> DEFINE G == RevokeFamily(F, ttl)
<1>1. G \in Family
  BY DEF RevokeFamily, Family
<1>2. /\ G.next = F.next /\ G.rset = {} /\ G.aset = {} /\ G.setTTL = 0
      /\ G.marker = ttl /\ G.ended = TRUE /\ G.used = F.used
      /\ G.refresh = [t \in Tokens |-> IF t \in F.rset THEN 0 ELSE F.refresh[t]]
      /\ G.access = [t \in Tokens |-> IF t \in F.aset THEN 0 ELSE F.access[t]]
  BY DEF RevokeFamily, Family
<1>3. \A t \in Tokens : F.refresh[t] \in Nat /\ F.access[t] \in Nat
  BY DEF Family
<1>4. \A t \in Tokens : /\ t \notin F.rset => F.refresh[t] = 0
                        /\ t >= F.next => F.access[t] = 0
  BY <1>3 DEF FamilyOK
<1>5. \A t \in Tokens : G.refresh[t] = 0 /\ (t >= F.next => G.access[t] = 0)
  BY <1>2, <1>4
<1>6. \A l \in Lifetimes : FamilyTTL(l) \in Nat
  BY FamilyTTLLemma
<1> HIDE DEF G
<1>7. AccessWithinFamily => AccessOK(G)
  <2> SUFFICES ASSUME AccessWithinFamily PROVE AccessOK(G)
    OBVIOUS
  <2>1. \A t \in Tokens : t \notin F.aset => F.access[t] = 0
    BY <1>3 DEF FamilyOK, AccessOK
  <2>2. \A t \in Tokens : G.access[t] = 0
    BY <1>2, <2>1
  <2> QED BY <1>6, <2>2 DEF AccessOK
<1>8. FamilyOK(G)
  BY <1>2, <1>5, <1>7 DEF FamilyOK, Known
<1> QED BY <1>1, <1>2, <1>8 DEF G

(* A rotation moves the single living refresh token on, and the renewed    *)
(* life of the set covers the access tokens that are still about.          *)
LEMMA RotateFamilyLemma ==
    ASSUME NEW F \in Family, FamilyOK(F), F.next < MaxTokens,
           NEW t \in Tokens, F.refresh[t] > 0, NEW l \in Lifetimes
    PROVE  /\ RotateFamily(F, t, l) \in Family
           /\ FamilyOK(RotateFamily(F, t, l))
           /\ RotateFamily(F, t, l).next = F.next + 1
           /\ ~RotateFamily(F, t, l).ended
<1> DEFINE G == RotateFamily(F, t, l)
           n == F.next
<1>1. /\ l.refresh \in Nat /\ l.access \in Nat /\ FamilyTTL(l) \in Nat
      /\ l.refresh <= FamilyTTL(l) /\ l.access <= FamilyTTL(l)
  BY FamilyTTLLemma
<1>2. n \in Nat /\ n \in Tokens /\ Tokens \subseteq Nat
  BY BoundsAssumption DEF Tokens, Family
<1>3. \A u \in Tokens : F.refresh[u] \in Nat /\ F.access[u] \in Nat
  BY DEF Family
<1>4. t # n /\ t < n
  BY <1>2, <1>3 DEF FamilyOK, Known
<1>5. ~F.ended
  BY <1>3 DEF FamilyOK
<1>6. G \in Family
  <2>1. [F.refresh EXCEPT ![n] = l.refresh, ![t] = 0] \in [Tokens -> Nat]
    BY <1>1, <1>2 DEF Family
  <2>2. [F.access EXCEPT ![n] = l.access] \in [Tokens -> Nat]
    BY <1>1, <1>2 DEF Family
  <2>3. [F.used EXCEPT ![t] = l.refresh] \in [Tokens -> Nat]
    BY <1>1 DEF Family
  <2>4. [F.spent EXCEPT ![t] = F.spent[t] + 1] \in [Tokens -> Nat]
    BY DEF Family
  <2>5. n + 1 \in Nat /\ (F.rset \cup {n}) \ {t} \in SUBSET Tokens /\ F.aset \cup {n} \in SUBSET Tokens
    BY <1>2 DEF Family
  <2> QED BY <1>1, <2>1, <2>2, <2>3, <2>4, <2>5 DEF RotateFamily, Family
<1>7. /\ G.next = n + 1 /\ G.rset = (F.rset \cup {n}) \ {t}
      /\ G.aset = F.aset \cup {n} /\ G.setTTL = FamilyTTL(l)
      /\ G.ended = F.ended
      /\ G.refresh = [F.refresh EXCEPT ![n] = l.refresh, ![t] = 0]
      /\ G.access = [F.access EXCEPT ![n] = l.access]
      /\ G.used = [F.used EXCEPT ![t] = l.refresh]
  BY DEF RotateFamily, Family
<1>8. \A u \in Tokens : G.access[u] = IF u = n THEN l.access ELSE F.access[u]
  BY <1>2, <1>7 DEF Family
<1>9. \A u \in Tokens : G.refresh[u] = IF u = t THEN 0 ELSE IF u = n THEN l.refresh
                                                            ELSE F.refresh[u]
  BY <1>2, <1>4, <1>7 DEF Family
<1> HIDE DEF G
<1>10. \A u \in Tokens : G.refresh[u] > 0 => u = n
  BY <1>3, <1>9 DEF FamilyOK
<1>11. \A u \in Tokens : G.refresh[u] > 0 => u \in G.rset /\ G.refresh[u] <= G.setTTL
  BY <1>1, <1>4, <1>7, <1>9, <1>10
<1>12. AccessWithinFamily => AccessOK(G)
  <2> SUFFICES ASSUME AccessWithinFamily PROVE AccessOK(G)
    OBVIOUS
  <2>1. \A u \in Tokens : G.access[u] > 0 => u \in G.aset /\ G.access[u] <= G.setTTL
    BY <1>1, <1>3, <1>7, <1>8 DEF FamilyOK, AccessOK
  <2>2. \A u \in Tokens, m \in Lifetimes : G.access[u] <= FamilyTTL(m)
    BY <1>1, <1>8 DEF FamilyOK, AccessOK, AccessWithinFamily
  <2> QED BY <1>5, <1>7, <2>1, <2>2 DEF AccessOK
<1>13. \A u \in Tokens : u >= G.next => ~Known(G, u) /\ G.access[u] = 0
  BY <1>2, <1>4, <1>7, <1>8, <1>9 DEF FamilyOK, Known, Family
<1>14. G.next <= MaxTokens
  BY <1>2, <1>7, BoundsAssumption
<1>15. FamilyOK(G)
  BY <1>5, <1>7, <1>10, <1>11, <1>12, <1>13, <1>14 DEF FamilyOK
<1> QED BY <1>5, <1>6, <1>7, <1>15 DEF G

(* Pruning the names of expired tokens changes no token. *)
LEMMA PruneFamilyLemma ==
    ASSUME NEW F \in Family, FamilyOK(F)
    PROVE  /\ PruneFamily(F) \in Family
           /\ FamilyOK(PruneFamily(F))
           /\ PruneFamily(F).next = F.next /\ PruneFamily(F).ended = F.ended
           /\ PruneFamily(F).marker = F.marker
<1> DEFINE G == PruneFamily(F)
           r == {t \in F.rset : F.refresh[t] > 0}
           a == {t \in F.aset : F.access[t] > 0}
<1>1. G \in Family
  BY DEF PruneFamily, Family
<1>2. /\ G.next = F.next /\ G.ended = F.ended /\ G.marker = F.marker
      /\ G.refresh = F.refresh /\ G.access = F.access /\ G.used = F.used
      /\ G.rset = r /\ G.aset = a
      /\ G.setTTL = IF r = {} /\ a = {} THEN 0 ELSE F.setTTL
  BY DEF PruneFamily, Family
<1> HIDE DEF G
<1>3. \A t \in Tokens : F.refresh[t] > 0 => t \in r
  BY DEF FamilyOK
<1>4. \A t \in Tokens : F.refresh[t] > 0 => G.setTTL = F.setTTL
  BY <1>2, <1>3
<1>5. AccessWithinFamily => AccessOK(G)
  <2> SUFFICES ASSUME AccessWithinFamily PROVE AccessOK(G)
    OBVIOUS
  <2>1. \A t \in Tokens : F.access[t] > 0 => t \in a
    BY DEF FamilyOK, AccessOK
  <2>2. \A t \in Tokens : F.access[t] > 0 => G.setTTL = F.setTTL
    BY <1>2, <2>1
  <2> HIDE DEF r, a
  <2> QED BY <1>2, <2>1, <2>2 DEF FamilyOK, AccessOK
<1> HIDE DEF r, a
<1>6. FamilyOK(G)
  BY <1>2, <1>3, <1>4, <1>5 DEF FamilyOK, Known
<1> QED BY <1>1, <1>2, <1>6 DEF G

(* A tick shortens lives; the set of a living token is still there. *)
LEMMA AgeFamilyLemma ==
    ASSUME NEW F \in Family, FamilyOK(F)
    PROVE  /\ AgeFamily(F) \in Family
           /\ FamilyOK(AgeFamily(F))
           /\ AgeFamily(F).next = F.next /\ AgeFamily(F).ended = F.ended
           /\ AgeFamily(F).marker = Older(F.marker)
<1> DEFINE G == AgeFamily(F)
           s == Older(F.setTTL)
<1>1. \A k \in Nat : Older(k) \in Nat /\ Older(k) <= k /\ (Older(k) > 0 => k = Older(k) + 1)
  BY DEF Older
<1>2. /\ F.setTTL \in Nat /\ F.marker \in Nat
      /\ \A t \in Tokens : F.refresh[t] \in Nat /\ F.access[t] \in Nat /\ F.used[t] \in Nat
  BY DEF Family
<1>3. G \in Family
  BY <1>1, <1>2 DEF AgeFamily, Family
<1>4. /\ G.next = F.next /\ G.ended = F.ended /\ G.marker = Older(F.marker)
      /\ G.refresh = [t \in Tokens |-> Older(F.refresh[t])]
      /\ G.access = [t \in Tokens |-> Older(F.access[t])]
      /\ G.used = [t \in Tokens |-> Older(F.used[t])]
      /\ G.rset = (IF s = 0 THEN {} ELSE F.rset)
      /\ G.aset = (IF s = 0 THEN {} ELSE F.aset)
      /\ G.setTTL = s
  BY DEF AgeFamily, Family
<1> HIDE DEF G
<1>5. \A t \in Tokens : G.refresh[t] > 0 => t \in G.rset /\ G.refresh[t] <= G.setTTL
  BY <1>2, <1>4 DEF FamilyOK, Older
<1>6. AccessWithinFamily =>
          \A t \in Tokens : G.access[t] > 0 => t \in G.aset /\ G.access[t] <= G.setTTL
  BY <1>2, <1>4 DEF FamilyOK, AccessOK, Older
<1>7. \A t \in Tokens : /\ G.refresh[t] \in Nat /\ G.access[t] \in Nat
                        /\ G.refresh[t] <= F.refresh[t] /\ G.access[t] <= F.access[t]
                        /\ G.refresh[t] > 0 => F.refresh[t] > 0
                        /\ G.used[t] > 0 => F.used[t] > 0
  BY <1>1, <1>2, <1>4
<1>8. \A l \in Lifetimes : FamilyTTL(l) \in Nat
  BY FamilyTTLLemma
<1>9. AccessWithinFamily => AccessOK(G)
  BY <1>2, <1>4, <1>6, <1>7, <1>8 DEF FamilyOK, AccessOK
<1>10. FamilyOK(G)
  BY <1>2, <1>4, <1>5, <1>7, <1>9 DEF FamilyOK, Known
<1> QED BY <1>3, <1>4, <1>10 DEF G

-----------------------------------------------------------------------------
(* A known token is of a family that was issued. *)
LEMMA UsedLemma ==
    ASSUME FamilyInv, NEW f \in Families, NEW t \in Tokens, Known(fam[f], t)
    PROVE  fam[f].next > 0
BY DEF FamilyInv, TypeOK, Family, FamilyOK, Tokens

LEMMA InitLemma == Init => FamilyInv
<1> SUFFICES ASSUME Init PROVE FamilyInv
  OBVIOUS
<1>1. NoRequest \in Request /\ RequestOK(NoRequest, fam)
  BY BoundsAssumption DEF NoRequest, NewRequest, Request, RequestOK, Tokens
<1>2. TypeOK
  BY <1>1, NoFamilyLemma DEF Init, TypeOK
<1>3. \A f \in Families : FamilyOK(fam[f])
  BY NoFamilyLemma DEF Init
<1>4. \A r \in Requests : RequestOK(req[r], fam)
  BY <1>1 DEF Init
<1> QED BY <1>2, <1>3, <1>4 DEF FamilyInv, Init

-----------------------------------------------------------------------------
(* What every step but Tick does to the families: they stay well formed,   *)
(* and a family that is revoked gets a marker that outlives all requests.  *)
GoodFamilyStep ==
    /\ fam' \in [Families -> Family]
    /\ \A f \in Families :
          /\ FamilyOK(fam'[f])
          /\ fam[f].next <= fam'[f].next
          /\ fam'[f].ended => \/ fam'[f].marker > RequestTimeout
                              \/ fam[f].ended /\ fam'[f].marker = fam[f].marker

(* After such a step every request can still rely on what it relied on. *)
LEMMA RequestKept ==
    ASSUME TypeOK, GoodFamilyStep, NEW R \in Request, RequestOK(R, fam)
    PROVE  RequestOK(R, fam')
<1>1. R.age \in Nat /\ R.tok \in Nat /\ RequestTimeout \in Nat
  BY BoundsAssumption DEF Request, Tokens
<1>2. \A f \in Families : /\ fam[f].next \in Nat /\ fam'[f].next \in Nat
                          /\ fam[f].marker \in Nat /\ fam'[f].marker \in Nat
  BY DEF TypeOK, GoodFamilyStep, Family
<1> QED BY <1>1, <1>2 DEF RequestOK, GoodFamilyStep

(* Replacing one family by a good successor is such a step. *)
LEMMA OneFamilyStep ==
    ASSUME FamilyInv, NEW f \in Families, NEW G \in Family, FamilyOK(G),
           fam' = [fam EXCEPT ![f] = G], fam[f].next <= G.next,
           G.ended => \/ G.marker > RequestTimeout
                      \/ fam[f].ended /\ G.marker = fam[f].marker
    PROVE  GoodFamilyStep
<1>1. /\ fam' \in [Families -> Family]
      /\ \A h \in Families : fam'[h] = IF h = f THEN G ELSE fam[h]
  BY DEF FamilyInv, TypeOK
<1>2. \A h \in Families : FamilyOK(fam[h]) /\ fam[h].next <= fam[h].next
  BY DEF FamilyInv, TypeOK, Family
<1>3. \A h \in Families :
          /\ FamilyOK(fam'[h])
          /\ fam[h].next <= fam'[h].next
  BY <1>1, <1>2
<1>4. \A h \in Families :
          fam'[h].ended => \/ fam'[h].marker > RequestTimeout
                           \/ fam[h].ended /\ fam'[h].marker = fam[h].marker
  BY <1>1
<1> QED BY <1>1, <1>3, <1>4 DEF GoodFamilyStep

(* So is leaving the families alone. *)
LEMMA NoFamilyStep == FamilyInv /\ UNCHANGED fam => GoodFamilyStep
BY DEF FamilyInv, TypeOK, GoodFamilyStep, Family

(* The invariant after a good step in which one request moves on to R. *)
LEMMA RequestStepLemma ==
    ASSUME FamilyInv, GoodFamilyStep, NEW r \in Requests, NEW R \in Request,
           req' = [req EXCEPT ![r] = R], RequestOK(R, fam'),
           index' \in SUBSET Families, indexTTL' \in Nat, authVersion' \in Nat,
           \A f \in index' : fam'[f].next > 0
    PROVE  FamilyInv'
<1>1. TypeOK'
  BY DEF FamilyInv, TypeOK, GoodFamilyStep
<1>2. \A s \in Requests : RequestOK(req'[s], fam')
  <2> SUFFICES ASSUME NEW s \in Requests PROVE RequestOK(req'[s], fam')
    OBVIOUS
  <2>1. req[s] \in Request /\ RequestOK(req[s], fam)
    BY DEF FamilyInv, TypeOK
  <2>2. \A S \in Request : RequestOK(S, fam) => RequestOK(S, fam')
    BY RequestKept DEF FamilyInv
  <2>3. req'[s] = IF s = r THEN R ELSE req[s]
    BY DEF FamilyInv, TypeOK
  <2> QED BY <2>1, <2>2, <2>3
<1> QED BY <1>1, <1>2 DEF FamilyInv, GoodFamilyStep

(* The invariant after a good step of no request. *)
LEMMA OtherStepLemma ==
    ASSUME FamilyInv, GoodFamilyStep, UNCHANGED req,
           index' \in SUBSET Families, indexTTL' \in Nat, authVersion' \in Nat,
           \A f \in index' : fam'[f].next > 0
    PROVE  FamilyInv'
<1>1. TypeOK'
  BY DEF FamilyInv, TypeOK, GoodFamilyStep
<1>2. \A s \in Requests : RequestOK(req'[s], fam')
  <2> SUFFICES ASSUME NEW s \in Requests PROVE RequestOK(req'[s], fam')
    OBVIOUS
  <2>1. req[s] \in Request /\ RequestOK(req[s], fam)
    BY DEF FamilyInv, TypeOK
  <2>2. \A S \in Request : RequestOK(S, fam) => RequestOK(S, fam')
    BY RequestKept DEF FamilyInv
  <2> QED BY <2>1, <2>2
<1> QED BY <1>1, <1>2 DEF FamilyInv, GoodFamilyStep

(* A free slot relies on nothing. *)
LEMMA NoRequestLemma == NoRequest \in Request /\ \A g : RequestOK(NoRequest, g)
BY BoundsAssumption DEF NoRequest, NewRequest, Request, RequestOK, Tokens

-----------------------------------------------------------------------------
(* Revoking the family of a known token, with a marker that outlives all   *)
(* requests, is a good step; the index loses the family.                   *)
LEMMA RevokeStepLemma ==
    ASSUME FamilyInv, NEW f \in Families, fam[f].next > 0,
           NEW ttl \in Nat, ttl > RequestTimeout,
           fam' = [fam EXCEPT ![f] = RevokeFamily(@, ttl)], Unlist({f})
    PROVE  /\ GoodFamilyStep
           /\ index' \in SUBSET Families /\ indexTTL' \in Nat
           /\ \A h \in index' : fam'[h].next > 0
<1> DEFINE G == RevokeFamily(fam[f], ttl)
<1>1. fam[f] \in Family /\ FamilyOK(fam[f])
  BY DEF FamilyInv, TypeOK
<1>2. G \in Family /\ FamilyOK(G) /\ G.marker = ttl /\ G.next = fam[f].next
  BY <1>1, RevokeFamilyLemma
<1>3. fam' = [fam EXCEPT ![f] = G] /\ fam[f].next <= G.next
  BY <1>1, <1>2 DEF Family
<1> HIDE DEF G
<1>4. GoodFamilyStep
  BY <1>2, <1>3, OneFamilyStep
<1>5. index' \in SUBSET Families /\ index' \subseteq index /\ indexTTL' \in Nat
  BY DEF Unlist, FamilyInv, TypeOK
<1>6. \A h \in index' : h # f /\ fam'[h] = fam[h]
  BY <1>3, <1>5 DEF Unlist, FamilyInv, TypeOK
<1>7. \A h \in index' : fam'[h].next > 0
  BY <1>5, <1>6 DEF FamilyInv
<1> QED BY <1>4, <1>5, <1>7

(* RevokePresented is a good step, whether or not the token is known. *)
LEMMA RevokePresentedLemma ==
    ASSUME FamilyInv, NEW f \in Families, NEW t \in Tokens, RevokePresented(f, t)
    PROVE  /\ GoodFamilyStep
           /\ index' \in SUBSET Families /\ indexTTL' \in Nat
           /\ \A h \in index' : fam'[h].next > 0
<1>1. CASE Known(fam[f], t)
  <2>1. fam[f].next > 0
    BY <1>1, UsedLemma
  <2>2. RevocationTTL \in Nat /\ RevocationTTL > RequestTimeout
    BY LifetimesAssumption, BoundsAssumption
  <2> QED BY <1>1, <2>1, <2>2, RevokeStepLemma DEF RevokePresented
<1>2. CASE ~Known(fam[f], t)
  <2>1. UNCHANGED <<fam, index, indexTTL>>
    BY <1>2 DEF RevokePresented
  <2> QED BY <2>1, NoFamilyStep DEF FamilyInv, TypeOK
<1> QED BY <1>1, <1>2

(* The steps of the requests preserve the invariant. *)
LEMMA BeginIssueStep ==
    ASSUME FamilyInv, NEW r \in Requests, NEW l \in Lifetimes, BeginIssue(r, l)
    PROVE  FamilyInv'
<1> DEFINE R == NewRequest("saveRefresh", None, 0, FALSE, authVersion, l)
<1>1. R \in Request /\ RequestOK(R, fam')
  <2>1. 0 \in Tokens /\ 0 \in 0 .. RequestTimeout /\ authVersion \in Nat
    BY BoundsAssumption DEF Tokens, FamilyInv, TypeOK
  <2> QED BY <2>1 DEF NewRequest, Request, RequestOK
<1>2. req' = [req EXCEPT ![r] = R] /\ UNCHANGED <<fam, index, indexTTL, authVersion>>
  BY DEF BeginIssue
<1> HIDE DEF R
<1> QED BY <1>1, <1>2, NoFamilyStep, RequestStepLemma DEF FamilyInv, TypeOK

LEMMA IssueRefreshTokenStep ==
    ASSUME FamilyInv, NEW r \in Requests, NEW f \in Families, IssueRefreshToken(r, f)
    PROVE  FamilyInv'
<1> DEFINE R == [req[r] EXCEPT !.pc = "saveAccess", !.fam = f, !.ver = 0]
           l == req[r].life
           G == SaveRefreshToken(fam[f], req[r].ver, l)
<1>1. /\ req[r] \in Request /\ req[r].pc = "saveRefresh" /\ l \in Lifetimes
      /\ req[r].ver \in Nat /\ fam[f] \in Family /\ FamilyOK(fam[f]) /\ fam[f].next = 0
  BY DEF FamilyInv, TypeOK, RequestOK, IssueRefreshToken, Request
<1>2. G \in Family /\ FamilyOK(G)
  BY <1>1, SaveRefreshTokenLemma
<1>3. G.next = 1 /\ G.ended = fam[f].ended /\ ~G.ended
  BY <1>1 DEF SaveRefreshToken, Family, FamilyOK
<1>4. fam' = [fam EXCEPT ![f] = G]
  BY DEF IssueRefreshToken
<1>5. req' = [req EXCEPT ![r] = R]
  BY <1>1 DEF IssueRefreshToken, FamilyInv, TypeOK, Request
<1>6. R \in Request /\ R.life = l /\ R.fam = f /\ R.pc = "saveAccess" /\ R.tok = req[r].tok
  BY <1>1 DEF Request
<1> HIDE DEF G, R
<1>7. GoodFamilyStep
  <2>1. fam[f].next <= G.next
    BY <1>1, <1>3
  <2>2. G.ended => \/ G.marker > RequestTimeout
                   \/ fam[f].ended /\ G.marker = fam[f].marker
    BY <1>3
  <2> QED BY <1>2, <1>4, <2>1, <2>2, OneFamilyStep
<1>8. fam'[f] = G
  BY <1>4 DEF FamilyInv, TypeOK
<1>9. index' \in SUBSET Families /\ indexTTL' \in Nat /\ authVersion' \in Nat
  BY <1>1, FamilyTTLLemma DEF IssueRefreshToken, FamilyInv, TypeOK
<1>10. \A h \in index' : fam'[h].next > 0
  BY <1>3, <1>4, <1>8 DEF IssueRefreshToken, FamilyInv, TypeOK
<1>11. req[r].tok = 0
  BY <1>1 DEF FamilyInv, RequestOK
<1>12. RequestOK(R, fam')
  BY <1>1, <1>3, <1>6, <1>8, <1>11 DEF RequestOK
<1> QED BY <1>5, <1>6, <1>7, <1>9, <1>10, <1>12, RequestStepLemma

LEMMA IssueAccessTokenStep ==
    ASSUME FamilyInv, NEW r \in Requests, IssueAccessToken(r)
    PROVE  FamilyInv'
<1> DEFINE f == req[r].fam
           t == req[r].tok
           l == req[r].life
           G == SaveFamilyToken(fam[f], t, l.access)
<1>1. req[r] \in Request /\ req[r].pc = "saveAccess" /\ fam[f].marker = 0
  BY DEF FamilyInv, TypeOK, IssueAccessToken
<1>2. RequestOK(req[r], fam)
  BY DEF FamilyInv
<1>3. f \in Families /\ l \in Lifetimes /\ t \in Tokens /\ t < fam[f].next
  BY <1>1, <1>2 DEF RequestOK, Request
<1>4. ~fam[f].ended
  <2>1. req[r].age \in 0 .. RequestTimeout
    BY <1>1 DEF Request
  <2> QED BY <1>1, <1>2, <2>1, BoundsAssumption DEF RequestOK
<1>5. fam[f] \in Family /\ FamilyOK(fam[f])
  BY <1>3 DEF FamilyInv, TypeOK
<1>6. G \in Family /\ FamilyOK(G)
  BY <1>3, <1>4, <1>5, SaveFamilyTokenLemma
<1>7. G.next = fam[f].next /\ G.ended = fam[f].ended
  BY <1>5 DEF SaveFamilyToken, Family
<1>8. /\ fam' = [fam EXCEPT ![f] = G]
      /\ req' = [req EXCEPT ![r] = NoRequest]
      /\ UNCHANGED <<index, indexTTL, authVersion>>
  BY DEF IssueAccessToken
<1>9. fam[f].next <= G.next /\ fam[f].next \in Nat
  BY <1>5, <1>7 DEF Family
<1>10. ~G.ended
  BY <1>4, <1>7
<1> HIDE DEF f, t, l, G
<1>11. GoodFamilyStep
  <2>1. G.ended => \/ G.marker > RequestTimeout
                   \/ fam[f].ended /\ G.marker = fam[f].marker
    BY <1>10
  <2> QED BY <1>3, <1>6, <1>8, <1>9, <2>1, OneFamilyStep
<1>12. index' \in SUBSET Families /\ indexTTL' \in Nat /\ authVersion' \in Nat
  BY <1>8 DEF FamilyInv, TypeOK
<1>13. \A h \in index' : fam'[h].next > 0
  BY <1>3, <1>7, <1>8 DEF FamilyInv, TypeOK
<1> QED BY <1>8, <1>11, <1>12, <1>13, NoRequestLemma, RequestStepLemma

(* Steps that move one request and leave Redis alone. *)
LEMMA RequestOnlyStep ==
    ASSUME FamilyInv, NEW r \in Requests, NEW R \in Request, RequestOK(R, fam),
           req' = [req EXCEPT ![r] = R], UNCHANGED <<fam, index, indexTTL, authVersion>>
    PROVE  FamilyInv'
<1>1. GoodFamilyStep
  BY NoFamilyStep
<1>2. index' \in SUBSET Families /\ indexTTL' \in Nat /\ authVersion' \in Nat
  BY DEF FamilyInv, TypeOK
<1>3. \A h \in index' : fam'[h].next > 0
  BY DEF FamilyInv
<1> QED BY <1>1, <1>2, <1>3, RequestStepLemma

LEMMA IssueAccessTokenFailsStep ==
    ASSUME FamilyInv, NEW r \in Requests, IssueAccessTokenFails(r)
    PROVE  FamilyInv'
<1> DEFINE R == [req[r] EXCEPT !.pc = "revoke", !.life = None]
<1>1. req[r] \in Request /\ RequestOK(req[r], fam) /\ req[r].pc = "saveAccess"
  BY DEF FamilyInv, TypeOK, IssueAccessTokenFails
<1>2. R \in Request /\ RequestOK(R, fam)
  BY <1>1 DEF Request, RequestOK
<1>3. req' = [req EXCEPT ![r] = R] /\ UNCHANGED <<fam, index, indexTTL, authVersion>>
  BY <1>1 DEF IssueAccessTokenFails, FamilyInv, TypeOK, Request
<1> HIDE DEF R
<1> QED BY <1>2, <1>3, RequestOnlyStep

LEMMA ReadRefreshTokenStep ==
    ASSUME FamilyInv, NEW r \in Requests, NEW f \in Families, NEW t \in Tokens,
           NEW l \in Lifetimes, ReadRefreshToken(r, f, t, l)
    PROVE  FamilyInv'
<1> DEFINE R == NewRequest("validate", f, t, fam[f].refresh[t] = 0, 0, l)
<1>1. R \in Request /\ RequestOK(R, fam)
  BY BoundsAssumption DEF NewRequest, Request, RequestOK
<1>2. req' = [req EXCEPT ![r] = R] /\ UNCHANGED <<fam, index, indexTTL, authVersion>>
  BY DEF ReadRefreshToken
<1> HIDE DEF R
<1> QED BY <1>1, <1>2, RequestOnlyStep

LEMMA ValidateRefreshStep ==
    ASSUME FamilyInv, NEW r \in Requests, NEW permitted \in BOOLEAN,
           ValidateRefresh(r, permitted)
    PROVE  FamilyInv'
<1> DEFINE valid == permitted /\ ~req[r].used /\ fam[req[r].fam].ver = authVersion
           R == [req[r] EXCEPT !.pc = IF valid THEN "rotate" ELSE "revoke",
                               !.used = FALSE,
                               !.life = IF valid THEN @ ELSE None]
<1>1. req[r] \in Request /\ RequestOK(req[r], fam) /\ req[r].pc = "validate"
  BY DEF FamilyInv, TypeOK, ValidateRefresh
<1>2. R \in Request /\ RequestOK(R, fam)
  BY <1>1 DEF Request, RequestOK
<1>3. req' = [req EXCEPT ![r] = R] /\ UNCHANGED <<fam, index, indexTTL, authVersion>>
  BY <1>1 DEF ValidateRefresh, FamilyInv, TypeOK, Request
<1> HIDE DEF R
<1> QED BY <1>2, <1>3, RequestOnlyStep

LEMMA AbandonStep ==
    ASSUME FamilyInv, NEW r \in Requests, Abandon(r)
    PROVE  FamilyInv'
BY NoRequestLemma, RequestOnlyStep DEF Abandon

LEMMA RotateRefreshTokenStep ==
    ASSUME FamilyInv, NEW r \in Requests, RotateRefreshToken(r)
    PROVE  FamilyInv'
<1> DEFINE f == req[r].fam
           t == req[r].tok
           l == req[r].life
<1>1. req[r] \in Request /\ RequestOK(req[r], fam) /\ req[r].pc = "rotate"
  BY DEF FamilyInv, TypeOK, RotateRefreshToken
<1>2. f \in Families /\ t \in Tokens /\ l \in Lifetimes
  BY <1>1 DEF Request, RequestOK
<1>3. fam[f] \in Family /\ FamilyOK(fam[f])
  BY <1>2 DEF FamilyInv, TypeOK
<1>4. req' = [req EXCEPT ![r] = NoRequest] /\ UNCHANGED authVersion
  BY DEF RotateRefreshToken
<1>5. authVersion' \in Nat
  BY <1>4 DEF FamilyInv, TypeOK
<1>6. SUFFICES /\ GoodFamilyStep
               /\ index' \in SUBSET Families /\ indexTTL' \in Nat
               /\ \A h \in index' : fam'[h].next > 0
  BY <1>4, <1>5, NoRequestLemma, RequestStepLemma
<1>7. CASE /\ fam[f].refresh[t] > 0 /\ fam[f].next < MaxTokens
           /\ fam' = [fam EXCEPT ![f] = RotateFamily(@, t, l)]
           /\ index' = index \cup {f}
           /\ indexTTL' = Longer(indexTTL, l.refresh)
  <2> DEFINE G == RotateFamily(fam[f], t, l)
  <2>1. G \in Family /\ FamilyOK(G) /\ G.next = fam[f].next + 1 /\ ~G.ended
    BY <1>2, <1>3, <1>7, RotateFamilyLemma
  <2>2. fam[f].next \in Nat
    BY <1>3 DEF Family
  <2>3. fam' = [fam EXCEPT ![f] = G]
    BY <1>7
  <2> HIDE DEF G, f, t, l
  <2>4. fam[f].next <= G.next /\ G.next > 0
    BY <2>1, <2>2
  <2>5. G.ended => \/ G.marker > RequestTimeout
                   \/ fam[f].ended /\ G.marker = fam[f].marker
    BY <2>1
  <2>6. GoodFamilyStep
    BY <1>2, <2>1, <2>3, <2>4, <2>5, OneFamilyStep
  <2>7. index' \in SUBSET Families /\ indexTTL' \in Nat
    BY <1>2, <1>7, FamilyTTLLemma, LongerLemma DEF FamilyInv, TypeOK
  <2>8. \A h \in index' : fam'[h].next > 0
    BY <1>2, <1>7, <2>3, <2>4 DEF FamilyInv, TypeOK
  <2> QED BY <2>6, <2>7, <2>8
<1>8. CASE /\ Known(fam[f], t)
           /\ fam' = [fam EXCEPT ![f] = RevokeFamily(@, l.refresh)]
           /\ Unlist({f})
  <2>1. fam[f].next > 0
    BY <1>2, <1>8, UsedLemma
  <2>2. l.refresh \in Nat /\ l.refresh > RequestTimeout
    BY <1>2, FamilyTTLLemma, BoundsAssumption
  <2> HIDE DEF f, t, l
  <2> QED BY <1>2, <1>8, <2>1, <2>2, RevokeStepLemma
<1>9. CASE UNCHANGED <<fam, index, indexTTL>>
  BY <1>9, NoFamilyStep DEF FamilyInv, TypeOK
<1> QED BY <1>7, <1>8, <1>9 DEF RotateRefreshToken

LEMMA RevokeOnFailureStep ==
    ASSUME FamilyInv, NEW r \in Requests, RevokeOnFailure(r)
    PROVE  FamilyInv'
<1>1. req[r].fam \in Families /\ req[r].tok \in Tokens
  BY DEF FamilyInv, TypeOK, RevokeOnFailure, RequestOK, Request
<1>2. /\ GoodFamilyStep
      /\ index' \in SUBSET Families /\ indexTTL' \in Nat
      /\ \A h \in index' : fam'[h].next > 0
  BY <1>1, RevokePresentedLemma DEF RevokeOnFailure
<1>3. req' = [req EXCEPT ![r] = NoRequest] /\ authVersion' \in Nat
  BY DEF RevokeOnFailure, FamilyInv, TypeOK
<1> QED BY <1>2, <1>3, NoRequestLemma, RequestStepLemma

(* The steps of the other actors. *)
LEMMA RevokeRefreshTokenStep ==
    ASSUME FamilyInv, NEW f \in Families, NEW t \in Tokens, RevokeRefreshToken(f, t)
    PROVE  FamilyInv'
<1>1. UNCHANGED req /\ authVersion' \in Nat /\ RevokePresented(f, t)
  BY DEF RevokeRefreshToken, FamilyInv, TypeOK
<1> QED BY <1>1, RevokePresentedLemma, OtherStepLemma

LEMMA RevokeAccessTokenStep ==
    ASSUME FamilyInv, NEW f \in Families, NEW t \in Tokens, RevokeAccessToken(f, t)
    PROVE  FamilyInv'
<1> DEFINE F == fam[f]
           G == [F EXCEPT !.access = [@ EXCEPT ![t] = 0]]
<1>1. F \in Family /\ FamilyOK(F)
  BY DEF FamilyInv, TypeOK
<1>2. G \in Family
  BY <1>1 DEF Family
<1>3. /\ G.next = F.next /\ G.refresh = F.refresh /\ G.used = F.used
      /\ G.rset = F.rset /\ G.aset = F.aset /\ G.setTTL = F.setTTL
      /\ G.ended = F.ended /\ G.marker = F.marker
      /\ G.access = [F.access EXCEPT ![t] = 0]
  BY <1>1 DEF Family
<1>4. \A u \in Tokens : G.access[u] = IF u = t THEN 0 ELSE F.access[u]
  BY <1>1, <1>3 DEF Family
<1>5. \A l \in Lifetimes : FamilyTTL(l) \in Nat
  BY FamilyTTLLemma
<1>6. fam' = [fam EXCEPT ![f] = G]
  BY DEF RevokeAccessToken, FamilyInv, TypeOK
<1>7. UNCHANGED <<index, indexTTL, authVersion, req>>
  BY DEF RevokeAccessToken
<1> HIDE DEF F, G
<1>8. FamilyOK(G)
  <2>1. AccessWithinFamily => AccessOK(G)
    BY <1>1, <1>3, <1>4, <1>5 DEF FamilyOK, AccessOK
  <2> QED BY <1>1, <1>3, <1>4, <2>1 DEF FamilyOK, Known
<1>9. GoodFamilyStep
  <2>1. fam[f].next <= G.next
    BY <1>1, <1>3 DEF F, Family
  <2>2. G.ended => \/ G.marker > RequestTimeout
                   \/ fam[f].ended /\ G.marker = fam[f].marker
    BY <1>3 DEF F
  <2> QED BY <1>2, <1>6, <1>8, <2>1, <2>2, OneFamilyStep
<1>10. \A h \in index' : fam'[h].next > 0
  BY <1>3, <1>6, <1>7 DEF F, FamilyInv, TypeOK
<1> QED BY <1>7, <1>9, <1>10, OtherStepLemma DEF FamilyInv, TypeOK

LEMMA AdvanceAuthVersionStep ==
    ASSUME FamilyInv, AdvanceAuthVersion
    PROVE  FamilyInv'
<1>1. UNCHANGED <<fam, index, indexTTL, req>> /\ authVersion' \in Nat
  BY DEF AdvanceAuthVersion, FamilyInv, TypeOK
<1> QED BY <1>1, NoFamilyStep, OtherStepLemma DEF FamilyInv, TypeOK

LEMMA RevokeFamiliesForUserStep ==
    ASSUME FamilyInv, RevokeFamiliesForUser
    PROVE  FamilyInv'
<1>1. \A f \in Families : fam[f] \in Family /\ FamilyOK(fam[f]) /\ fam[f].next \in Nat
  BY DEF FamilyInv, TypeOK, Family
<1>2. RevocationTTL \in Nat /\ RevocationTTL > RequestTimeout
  BY LifetimesAssumption, BoundsAssumption
<1>3. \A f \in Families : fam'[f] = IF f \in index THEN RevokeFamily(fam[f], RevocationTTL)
                                                  ELSE fam[f]
  BY DEF RevokeFamiliesForUser
<1>4. \A f \in Families : f \in index =>
          /\ fam'[f] \in Family /\ FamilyOK(fam'[f])
          /\ fam'[f].marker = RevocationTTL /\ fam'[f].next = fam[f].next
  BY <1>1, <1>2, <1>3, RevokeFamilyLemma DEF FamilyInv
<1>5. fam' \in [Families -> Family]
  BY <1>1, <1>3, <1>4 DEF RevokeFamiliesForUser
<1>6. GoodFamilyStep
  BY <1>1, <1>2, <1>3, <1>4, <1>5 DEF GoodFamilyStep
<1>7. index' = {} /\ indexTTL' = 0 /\ UNCHANGED <<authVersion, req>>
  BY DEF RevokeFamiliesForUser
<1> QED BY <1>6, <1>7, OtherStepLemma DEF FamilyInv, TypeOK

LEMMA RevokeFamiliesBeforeStep ==
    ASSUME FamilyInv, NEW v \in Nat, RevokeFamiliesBeforeAuthVersion(v)
    PROVE  FamilyInv'
<1> DEFINE old == {f \in index : HasLiveMember(fam[f]) /\ fam[f].ver < v}
<1>1. \A f \in Families : fam[f] \in Family /\ FamilyOK(fam[f]) /\ fam[f].next \in Nat
  BY DEF FamilyInv, TypeOK, Family
<1>2. RevocationTTL \in Nat /\ RevocationTTL > RequestTimeout
  BY LifetimesAssumption, BoundsAssumption
<1>3. fam' = [f \in Families |-> IF f \in old THEN RevokeFamily(fam[f], RevocationTTL)
                                 ELSE IF f \in index THEN PruneFamily(fam[f])
                                 ELSE fam[f]]
  BY DEF RevokeFamiliesBeforeAuthVersion
<1>4. index' \subseteq index /\ indexTTL' \in Nat /\ UNCHANGED <<authVersion, req>>
  BY DEF RevokeFamiliesBeforeAuthVersion, Unlist, FamilyInv, TypeOK
<1>5. old \subseteq index /\ index \subseteq Families
  BY DEF FamilyInv, TypeOK
<1> HIDE DEF old
<1>6. \A f \in old : /\ fam'[f] \in Family /\ FamilyOK(fam'[f])
                     /\ fam'[f].marker = RevocationTTL /\ fam'[f].next = fam[f].next
  BY <1>1, <1>2, <1>3, <1>5, RevokeFamilyLemma DEF FamilyInv
<1>7. \A f \in Families \ old :
          /\ fam'[f] \in Family /\ FamilyOK(fam'[f])
          /\ fam'[f].next = fam[f].next /\ fam'[f].ended = fam[f].ended
          /\ fam'[f].marker = fam[f].marker
  BY <1>1, <1>3, PruneFamilyLemma
<1>8. fam' \in [Families -> Family]
  BY <1>3, <1>6, <1>7
<1>9. GoodFamilyStep
  BY <1>1, <1>2, <1>6, <1>7, <1>8 DEF GoodFamilyStep
<1>10. \A f \in index' : fam'[f].next > 0
  BY <1>4, <1>5, <1>6, <1>7 DEF FamilyInv
<1>11. index' \in SUBSET Families /\ authVersion' \in Nat
  BY <1>4, <1>5 DEF FamilyInv, TypeOK
<1> QED BY <1>4, <1>9, <1>10, <1>11, OtherStepLemma

LEMMA TickStep ==
    ASSUME FamilyInv, Tick
    PROVE  FamilyInv'
<1>1. \A f \in Families : /\ fam[f] \in Family /\ FamilyOK(fam[f])
                          /\ fam[f].next \in Nat /\ fam[f].marker \in Nat
                          /\ fam'[f] = AgeFamily(fam[f])
  BY DEF FamilyInv, TypeOK, Tick, Family
<1>2. \A f \in Families : /\ fam'[f] \in Family /\ FamilyOK(fam'[f])
                          /\ fam'[f].next = fam[f].next /\ fam'[f].ended = fam[f].ended
                          /\ fam'[f].marker = Older(fam[f].marker)
  BY <1>1, AgeFamilyLemma
<1>3. fam' \in [Families -> Family]
  BY <1>2 DEF Tick
<1>4. indexTTL' \in Nat /\ index' \subseteq index /\ UNCHANGED authVersion
  BY DEF Tick, Older, FamilyInv, TypeOK
<1>5. ASSUME NEW r \in Requests
      PROVE  req'[r] \in Request /\ RequestOK(req'[r], fam')
  <2>1. req[r] \in Request /\ RequestOK(req[r], fam) /\ req[r].age \in 0 .. RequestTimeout
    BY DEF FamilyInv, TypeOK, Request
  <2>2. CASE req[r].pc = "idle"
    <3>1. req'[r] = req[r]
      BY <2>2 DEF Tick
    <3> QED BY <2>1, <2>2, <3>1 DEF RequestOK
  <2>3. CASE req[r].pc # "idle"
    <3> DEFINE R == [req[r] EXCEPT !.age = @ + 1]
    <3>1. req'[r] = R /\ req[r].age < RequestTimeout
      BY <2>3 DEF Tick
    <3>2. R \in Request
      BY <2>1, <3>1, BoundsAssumption DEF Request
    <3>3. /\ R.pc = req[r].pc /\ R.fam = req[r].fam /\ R.tok = req[r].tok
          /\ R.life = req[r].life /\ R.age = req[r].age + 1
      BY <2>1 DEF Request
    <3> HIDE DEF R
    <3>4. ASSUME R.pc = "saveAccess", fam'[R.fam].ended
          PROVE  fam'[R.fam].marker + R.age > RequestTimeout
      <4>1. /\ R.fam \in Families /\ fam[R.fam].ended
            /\ fam[R.fam].marker + req[r].age > RequestTimeout
        BY <1>2, <2>1, <3>3, <3>4 DEF RequestOK
      <4>2. fam[R.fam].marker \in Nat /\ fam'[R.fam].marker = Older(fam[R.fam].marker)
        BY <1>1, <1>2, <4>1
      <4> QED BY <2>1, <3>1, <3>3, <4>1, <4>2, BoundsAssumption DEF Older
    <3>5. RequestOK(R, fam')
      BY <1>2, <2>1, <3>3, <3>4 DEF RequestOK
    <3> QED BY <3>1, <3>2, <3>5
  <2> QED BY <2>2, <2>3
<1>6. req' \in [Requests -> Request]
  <2>1. req' = [r \in Requests |-> req'[r]]
    BY DEF Tick
  <2> QED BY <1>5, <2>1
<1>7. TypeOK'
  BY <1>3, <1>4, <1>6 DEF TypeOK, FamilyInv
<1>8. \A f \in index' : fam'[f].next > 0
  BY <1>2, <1>4 DEF FamilyInv, TypeOK
<1> QED BY <1>2, <1>5, <1>7, <1>8 DEF FamilyInv

-----------------------------------------------------------------------------
(* FamilyInv is inductive: one case per action. *)
LEMMA StepLemma == FamilyInv /\ [Next]_vars => FamilyInv'
<1> SUFFICES ASSUME FamilyInv, [Next]_vars PROVE FamilyInv'
  OBVIOUS
<1>1. ASSUME NEW r \in Requests, RequestStep(r) PROVE FamilyInv'
  BY <1>1, BeginIssueStep, IssueRefreshTokenStep, IssueAccessTokenStep,
     IssueAccessTokenFailsStep, ReadRefreshTokenStep, ValidateRefreshStep,
     RotateRefreshTokenStep, RevokeOnFailureStep, AbandonStep DEF RequestStep
<1>2. ASSUME NEW f \in Families, NEW t \in Tokens,
             RevokeRefreshToken(f, t) \/ RevokeAccessToken(f, t)
      PROVE  FamilyInv'
  BY <1>2, RevokeRefreshTokenStep, RevokeAccessTokenStep
<1>3. ASSUME NEW v \in 1 .. authVersion, RevokeFamiliesBeforeAuthVersion(v)
      PROVE  FamilyInv'
  <2>1. v \in Nat
    BY DEF FamilyInv, TypeOK
  <2> QED BY <1>3, <2>1, RevokeFamiliesBeforeStep
<1>4. CASE UNCHANGED vars
  <2>1. UNCHANGED <<fam, index, indexTTL, authVersion, req>>
    BY <1>4 DEF vars
  <2> QED BY <2>1, NoFamilyStep, OtherStepLemma DEF FamilyInv, TypeOK
<1> QED BY <1>1, <1>2, <1>3, <1>4, AdvanceAuthVersionStep, RevokeFamiliesForUserStep,
           TickStep DEF Next

(* The inductive invariant holds in every reachable state. *)
THEOREM FamilyInvariant == Spec => []FamilyInv
<1>1. Init => FamilyInv
  BY InitLemma
<1>2. FamilyInv /\ [Next]_vars => FamilyInv'
  BY StepLemma
<1> QED BY <1>1, <1>2, PTL DEF Spec

(* Type correctness of the store and of the requests. *)
THEOREM TypeCorrect == Spec => []TypeOK
<1>1. FamilyInv => TypeOK
  BY DEF FamilyInv
<1> QED BY <1>1, FamilyInvariant, PTL

(* A revoked family has no usable token ever after, whatever the number of *)
(* families, of concurrent requests and of policy changes, as long as no   *)
(* policy lets an access token outlive another policy's families.          *)
THEOREM RevocationIsFinal ==
    ASSUME AccessWithinFamily
    PROVE  Spec => []EndedFamilyStaysDead
<1>1. FamilyInv => EndedFamilyStaysDead
  <2> SUFFICES ASSUME FamilyInv, NEW f \in Families, fam[f].ended, NEW t \in Tokens
               PROVE  ~(fam[f].refresh[t] > 0 \/ fam[f].access[t] > 0)
    BY DEF EndedFamilyStaysDead, Alive
  <2>1. fam[f].refresh[t] = 0 /\ fam[f].access[t] = 0
    BY DEF FamilyInv, FamilyOK, AccessOK
  <2> QED BY <2>1
<1> QED BY <1>1, FamilyInvariant, PTL

(* No interleaving of refresh requests leaves a family with two refresh    *)
(* tokens that can be exchanged.                                           *)
THEOREM SingleRefreshToken == Spec => []OneLiveRefreshToken
<1>1. FamilyInv => OneLiveRefreshToken
  BY DEF FamilyInv, FamilyOK, OneLiveRefreshToken
<1> QED BY <1>1, FamilyInvariant, PTL

-----------------------------------------------------------------------------
(* What the scripts do to the fields the chain of tokens is about. *)
LEMMA SaveRefreshTokenFields ==
    ASSUME NEW F \in Family, NEW v \in Nat, NEW l \in Lifetimes
    PROVE  LET G == SaveRefreshToken(F, v, l) IN
           /\ G.next = 1 /\ G.ended = F.ended /\ G.spent = F.spent
           /\ G.refresh = [F.refresh EXCEPT ![0] = l.refresh] /\ G.access = F.access
BY DEF SaveRefreshToken, Family

LEMMA SaveFamilyTokenFields ==
    ASSUME NEW F \in Family, NEW t \in Tokens, NEW ttl \in Nat
    PROVE  LET G == SaveFamilyToken(F, t, ttl) IN
           /\ G.next = F.next /\ G.ended = F.ended /\ G.spent = F.spent
           /\ G.refresh = F.refresh /\ G.access = [F.access EXCEPT ![t] = ttl]
BY DEF SaveFamilyToken, Family

LEMMA RevokeFamilyFields ==
    ASSUME AccessWithinFamily, NEW F \in Family, FamilyOK(F), NEW ttl \in Nat
    PROVE  LET G == RevokeFamily(F, ttl) IN
           /\ G.next = F.next /\ G.ended /\ G.spent = F.spent
           /\ \A u \in Tokens : G.refresh[u] = 0 /\ G.access[u] = 0
<1> DEFINE G == RevokeFamily(F, ttl)
<1>1. /\ G.next = F.next /\ G.ended /\ G.spent = F.spent
      /\ G.refresh = [t \in Tokens |-> IF t \in F.rset THEN 0 ELSE F.refresh[t]]
      /\ G.access = [t \in Tokens |-> IF t \in F.aset THEN 0 ELSE F.access[t]]
  BY DEF RevokeFamily, Family
<1>2. \A t \in Tokens : F.refresh[t] \in Nat /\ F.access[t] \in Nat
  BY DEF Family
<1> HIDE DEF G
<1>3. \A u \in Tokens : G.refresh[u] = 0 /\ G.access[u] = 0
  BY <1>1, <1>2 DEF FamilyOK, AccessOK
<1> QED BY <1>1, <1>3 DEF G

LEMMA RotateFamilyFields ==
    ASSUME NEW F \in Family, FamilyOK(F), F.next < MaxTokens,
           NEW t \in Tokens, F.refresh[t] > 0, NEW l \in Lifetimes
    PROVE  LET G == RotateFamily(F, t, l) IN
           /\ F.next \in Tokens /\ t < F.next /\ t # F.next
           /\ G.next = F.next + 1 /\ G.ended = F.ended
           /\ \A u \in Tokens :
                 /\ G.refresh[u] = IF u = F.next THEN l.refresh ELSE 0
                 /\ G.access[u] = IF u = F.next THEN l.access ELSE F.access[u]
                 /\ G.spent[u] = IF u = t THEN F.spent[t] + 1 ELSE F.spent[u]
<1> DEFINE G == RotateFamily(F, t, l)
<1>1. F.next \in Nat /\ \A u \in Tokens : F.refresh[u] \in Nat /\ F.spent[u] \in Nat
  BY DEF Family
<1>2. F.next \in Tokens /\ t < F.next /\ t # F.next
  BY <1>1, BoundsAssumption DEF FamilyOK, Known, Tokens
<1>3. /\ G.next = F.next + 1 /\ G.ended = F.ended
      /\ G.refresh = [F.refresh EXCEPT ![F.next] = l.refresh, ![t] = 0]
      /\ G.access = [F.access EXCEPT ![F.next] = l.access]
      /\ G.spent = [F.spent EXCEPT ![t] = F.spent[t] + 1]
  BY DEF RotateFamily, Family
<1> HIDE DEF G
<1>4. /\ F.refresh \in [Tokens -> Nat] /\ F.access \in [Tokens -> Nat] /\ F.spent \in [Tokens -> Nat]
  BY DEF Family
<1>5. \A u \in Tokens : u # t => F.refresh[u] = 0
  BY <1>1 DEF FamilyOK
<1>6. \A u \in Tokens :
          /\ G.refresh[u] = IF u = F.next THEN l.refresh ELSE 0
          /\ G.access[u] = IF u = F.next THEN l.access ELSE F.access[u]
          /\ G.spent[u] = IF u = t THEN F.spent[t] + 1 ELSE F.spent[u]
  BY <1>2, <1>3, <1>4, <1>5
<1> QED BY <1>2, <1>3, <1>6 DEF G

LEMMA PruneFamilyFields ==
    ASSUME NEW F \in Family
    PROVE  LET G == PruneFamily(F) IN
           /\ G.next = F.next /\ G.ended = F.ended /\ G.spent = F.spent
           /\ G.refresh = F.refresh /\ G.access = F.access
BY DEF PruneFamily, Family

LEMMA AgeFamilyFields ==
    ASSUME NEW F \in Family
    PROVE  LET G == AgeFamily(F) IN
           /\ G.next = F.next /\ G.ended = F.ended /\ G.spent = F.spent
           /\ \A u \in Tokens : G.refresh[u] = Older(F.refresh[u]) /\ G.access[u] = Older(F.access[u])
<1> DEFINE G == AgeFamily(F)
<1>1. /\ G.next = F.next /\ G.ended = F.ended /\ G.spent = F.spent
      /\ G.refresh = [t \in Tokens |-> Older(F.refresh[t])]
      /\ G.access = [t \in Tokens |-> Older(F.access[t])]
  BY DEF AgeFamily, Family
<1> HIDE DEF G
<1>2. \A u \in Tokens : G.refresh[u] = Older(F.refresh[u]) /\ G.access[u] = Older(F.access[u])
  BY <1>1
<1> QED BY <1>1, <1>2 DEF G

(* What a step that replaces one family does to the views. *)
LEMMA OneFamilyView ==
    ASSUME FamilyInv, NEW f \in Families, NEW G \in Family, fam' = [fam EXCEPT ![f] = G]
    PROVE  /\ Issued' = [Issued EXCEPT ![f] = {t \in Tokens : t < G.next}]
           /\ Current' = [Current EXCEPT ![f] = {t \in Tokens : G.refresh[t] > 0}]
           /\ Spent' = [Spent EXCEPT ![f] = {t \in Tokens : G.spent[t] > 0}]
           /\ Bearer' = [Bearer EXCEPT ![f] = {t \in Tokens : G.access[t] > 0}]
           /\ Ended' = IF G.ended THEN Ended \cup {f} ELSE Ended \ {f}
<1>1. \A g \in Families : fam'[g] = IF g = f THEN G ELSE fam[g]
  BY DEF FamilyInv, TypeOK
<1>2. Issued' = [Issued EXCEPT ![f] = {t \in Tokens : t < G.next}]
  BY <1>1 DEF Issued
<1>3. Current' = [Current EXCEPT ![f] = {t \in Tokens : G.refresh[t] > 0}]
  BY <1>1 DEF Current
<1>4. Spent' = [Spent EXCEPT ![f] = {t \in Tokens : G.spent[t] > 0}]
  BY <1>1 DEF Spent
<1>5. Bearer' = [Bearer EXCEPT ![f] = {t \in Tokens : G.access[t] > 0}]
  BY <1>1 DEF Bearer
<1>6. Ended' = IF G.ended THEN Ended \cup {f} ELSE Ended \ {f}
  BY <1>1 DEF Ended
<1> QED BY <1>2, <1>3, <1>4, <1>5, <1>6

(* A view of what the new family has kept stays as it was. *)
LEMMA KeptViews ==
    ASSUME FamilyInv, NEW f \in Families, NEW G \in Family, fam' = [fam EXCEPT ![f] = G]
    PROVE  /\ G.next = fam[f].next => Issued' = Issued
           /\ G.refresh = fam[f].refresh => Current' = Current
           /\ G.spent = fam[f].spent => Spent' = Spent
           /\ G.access = fam[f].access => Bearer' = Bearer
           /\ G.ended = fam[f].ended => Ended' = Ended
<1>1. \A g \in Families : fam'[g] = IF g = f THEN G ELSE fam[g]
  BY DEF FamilyInv, TypeOK
<1>2. G.next = fam[f].next => Issued' = Issued
  BY <1>1 DEF Issued
<1>3. G.refresh = fam[f].refresh => Current' = Current
  BY <1>1 DEF Current
<1>4. G.spent = fam[f].spent => Spent' = Spent
  BY <1>1 DEF Spent
<1>5. G.access = fam[f].access => Bearer' = Bearer
  BY <1>1 DEF Bearer
<1>6. G.ended = fam[f].ended => Ended' = Ended
  BY <1>1 DEF Ended
<1> QED BY <1>2, <1>3, <1>4, <1>5, <1>6

(* A step that leaves the families alone is no step of the chain. *)
LEMMA NoView == UNCHANGED fam => UNCHANGED Chain!vars
BY DEF Chain!vars, Issued, Current, Spent, Bearer, Ended

(* The first token of a family starts its chain. *)
LEMMA IssueStartsChain ==
    ASSUME FamilyInv, NEW r \in Requests, NEW f \in Families, IssueRefreshToken(r, f)
    PROVE  Chain!Start(f, 0)
<1> DEFINE F == fam[f]
           l == req[r].life
           G == SaveRefreshToken(F, req[r].ver, l)
<1>1. F \in Family /\ FamilyOK(F) /\ F.next = 0 /\ l \in Lifetimes /\ req[r].ver \in Nat
  BY DEF FamilyInv, TypeOK, Request, RequestOK, IssueRefreshToken
<1>2. fam' = [fam EXCEPT ![f] = G]
  BY DEF IssueRefreshToken
<1>3. /\ G \in Family /\ G.next = 1 /\ G.ended = F.ended /\ G.spent = F.spent
      /\ G.refresh = [F.refresh EXCEPT ![0] = l.refresh] /\ G.access = F.access
  BY <1>1, SaveRefreshTokenLemma, SaveRefreshTokenFields
<1>4. l.refresh > 0 /\ 0 \in Tokens /\ Tokens \subseteq Nat
  BY <1>1, FamilyTTLLemma, BoundsAssumption DEF Tokens
<1>5. F.refresh \in [Tokens -> Nat] /\ F.used \in [Tokens -> Nat] /\ F.ended \in BOOLEAN
  BY <1>1 DEF Family
<1> HIDE DEF G, l
<1>6. \A t \in Tokens : F.refresh[t] = 0
  BY <1>1, <1>4, <1>5 DEF FamilyOK, Known
<1>7. {t \in Tokens : t < G.next} = {0}
  <2>1. \A t \in Tokens : t < G.next <=> t = 0
    BY <1>3, <1>4
  <2> QED BY <1>4, <2>1
<1>8. {t \in Tokens : G.refresh[t] > 0} = {0}
  <2>1. \A t \in Tokens : G.refresh[t] = IF t = 0 THEN l.refresh ELSE 0
    BY <1>3, <1>4, <1>5, <1>6
  <2>2. \A t \in Tokens : G.refresh[t] > 0 <=> t = 0
    BY <1>4, <2>1
  <2> QED BY <1>4, <2>2
<1>9. Issued[f] = {}
  <2>1. \A t \in Tokens : ~(t < fam[f].next)
    BY <1>1, <1>4
  <2> QED BY <2>1 DEF Issued
<1>10. UNCHANGED <<Spent, Bearer, Ended>>
  BY <1>2, <1>3, KeptViews
<1>11. Issued' = [Issued EXCEPT ![f] = {0}] /\ Current' = [Current EXCEPT ![f] = {0}]
  <2>1. /\ Issued' = [Issued EXCEPT ![f] = {t \in Tokens : t < G.next}]
        /\ Current' = [Current EXCEPT ![f] = {t \in Tokens : G.refresh[t] > 0}]
    BY <1>2, <1>3, OneFamilyView
  <2> QED BY <1>7, <1>8, <2>1, Zenon
<1> QED BY <1>9, <1>10, <1>11 DEF Chain!Start

(* The access token that follows is attached to a family that is not ended. *)
LEMMA AccessTokenIsAttached ==
    ASSUME FamilyInv, NEW r \in Requests, IssueAccessToken(r)
    PROVE  Chain!Attach(req[r].fam, req[r].tok)
<1> DEFINE f == req[r].fam
           t == req[r].tok
           l == req[r].life
           F == fam[f]
           G == SaveFamilyToken(F, t, l.access)
<1>1. /\ f \in Families /\ t \in Tokens /\ t < F.next /\ l \in Lifetimes
      /\ F.ended => F.marker + req[r].age > RequestTimeout
      /\ req[r].age \in 0 .. RequestTimeout /\ F.marker = 0
  BY DEF FamilyInv, TypeOK, Request, RequestOK, IssueAccessToken
<1>2. F \in Family /\ FamilyOK(F) /\ ~F.ended
  BY <1>1, BoundsAssumption DEF FamilyInv, TypeOK
<1>3. fam' = [fam EXCEPT ![f] = G]
  BY DEF IssueAccessToken
<1>4. l.access \in Nat /\ l.access > 0
  BY <1>1, FamilyTTLLemma
<1>5. /\ G \in Family /\ G.next = F.next /\ G.ended = F.ended /\ G.spent = F.spent
      /\ G.refresh = F.refresh /\ G.access = [F.access EXCEPT ![t] = l.access]
  BY <1>1, <1>2, <1>4, SaveFamilyTokenLemma, SaveFamilyTokenFields
<1>6. F.access \in [Tokens -> Nat]
  BY <1>2 DEF Family
<1> HIDE DEF G, f, t, l
<1>7. {u \in Tokens : G.access[u] > 0} = Bearer[f] \cup {t}
  <2>1. \A u \in Tokens : G.access[u] > 0 <=> u = t \/ F.access[u] > 0
    BY <1>4, <1>5, <1>6
  <2> QED BY <1>1, <2>1 DEF Bearer
<1>8. Bearer' = [Bearer EXCEPT ![f] = Bearer[f] \cup {t}]
  <2>1. Bearer' = [Bearer EXCEPT ![f] = {u \in Tokens : G.access[u] > 0}]
    BY <1>1, <1>3, <1>5, OneFamilyView
  <2> QED BY <1>7, <2>1, Zenon
<1>9. UNCHANGED <<Issued, Current, Spent, Ended>>
  BY <1>1, <1>3, <1>5, KeptViews
<1>10. f \notin Ended /\ t \in Issued[f]
  BY <1>1, <1>2 DEF Ended, Issued
<1> QED BY <1>8, <1>9, <1>10 DEF Chain!Attach, f, t

(* A rotation exchanges the only current token, and no token twice. *)
LEMMA RotationExchanges ==
    ASSUME ChainInv, NEW f \in Families, NEW t \in Tokens, NEW l \in Lifetimes,
           fam[f].refresh[t] > 0, fam[f].next < MaxTokens,
           fam' = [fam EXCEPT ![f] = RotateFamily(fam[f], t, l)]
    PROVE  fam[f].next \in Tokens /\ Chain!Exchange(f, t, fam[f].next)
<1> DEFINE F == fam[f]
           G == RotateFamily(F, t, l)
<1>1. F \in Family /\ FamilyOK(F) /\ FamilyInv
  BY DEF ChainInv, FamilyInv, TypeOK
<1>2. G \in Family /\ ~G.ended
  BY <1>1, RotateFamilyLemma
<1>3. /\ F.next \in Tokens /\ t < F.next /\ t # F.next
      /\ G.next = F.next + 1 /\ G.ended = F.ended
      /\ \A u \in Tokens :
            /\ G.refresh[u] = IF u = F.next THEN l.refresh ELSE 0
            /\ G.access[u] = IF u = F.next THEN l.access ELSE F.access[u]
            /\ G.spent[u] = IF u = t THEN F.spent[t] + 1 ELSE F.spent[u]
  BY <1>1, RotateFamilyFields
<1>4. l.refresh > 0 /\ l.access > 0 /\ Tokens \subseteq Nat
  BY FamilyTTLLemma, BoundsAssumption DEF Tokens
<1>5. F.next \in Nat /\ \A u \in Tokens : F.spent[u] \in Nat /\ F.refresh[u] \in Nat
  BY <1>1 DEF Family
<1>6. fam' = [fam EXCEPT ![f] = G]
  OBVIOUS
<1> HIDE DEF G
<1>7. {u \in Tokens : u < G.next} = Issued[f] \cup {F.next}
  <2>1. \A u \in Tokens : u < G.next <=> u < F.next \/ u = F.next
    BY <1>3, <1>4, <1>5
  <2> QED BY <1>3, <2>1 DEF Issued
<1>8. {u \in Tokens : G.refresh[u] > 0} = {F.next}
  <2>1. \A u \in Tokens : G.refresh[u] > 0 <=> u = F.next
    BY <1>3, <1>4
  <2> QED BY <1>3, <2>1
<1>9. {u \in Tokens : G.spent[u] > 0} = Spent[f] \cup {t}
  <2>1. \A u \in Tokens : G.spent[u] > 0 <=> F.spent[u] > 0 \/ u = t
    BY <1>3, <1>5
  <2> QED BY <2>1 DEF Spent
<1>10. {u \in Tokens : G.access[u] > 0} = Bearer[f] \cup {F.next}
  <2>1. \A u \in Tokens : G.access[u] > 0 <=> F.access[u] > 0 \/ u = F.next
    BY <1>3, <1>4
  <2> QED BY <1>3, <2>1 DEF Bearer
<1>11. /\ Issued' = [Issued EXCEPT ![f] = Issued[f] \cup {F.next}]
       /\ Current' = [Current EXCEPT ![f] = {F.next}]
       /\ Spent' = [Spent EXCEPT ![f] = Spent[f] \cup {t}]
       /\ Bearer' = [Bearer EXCEPT ![f] = Bearer[f] \cup {F.next}]
  <2>1. /\ Issued' = [Issued EXCEPT ![f] = {u \in Tokens : u < G.next}]
        /\ Current' = [Current EXCEPT ![f] = {u \in Tokens : G.refresh[u] > 0}]
        /\ Spent' = [Spent EXCEPT ![f] = {u \in Tokens : G.spent[u] > 0}]
        /\ Bearer' = [Bearer EXCEPT ![f] = {u \in Tokens : G.access[u] > 0}]
    BY <1>1, <1>2, <1>6, OneFamilyView
  <2> QED BY <1>7, <1>8, <1>9, <1>10, <2>1, Zenon
<1>12. Ended' = Ended
  BY <1>1, <1>2, <1>3, <1>6, KeptViews
<1>13. f \notin Ended /\ F.next \notin Issued[f]
  <2>1. ~(F.next < F.next)
    BY <1>5
  <2> QED BY <1>2, <1>3, <2>1 DEF Ended, Issued
<1>14. Current[f] = {t}
  <2>1. \A u \in Tokens : F.refresh[u] > 0 <=> u = t
    BY <1>1 DEF FamilyOK
  <2> QED BY <2>1 DEF Current
<1>15. t \notin Spent[f]
  BY <1>14 DEF ChainInv, ChainOK
<1> QED BY <1>3, <1>11, <1>12, <1>13, <1>14, <1>15 DEF Chain!Exchange

(* Revoking the families of S ends their chains; the others keep their     *)
(* tokens.                                                                 *)
LEMMA RevocationEnds ==
    ASSUME AccessWithinFamily, FamilyInv, NEW S \in SUBSET Families, NEW ttl \in Nat,
           \A f \in S : fam'[f] = RevokeFamily(fam[f], ttl),
           \A f \in Families \ S :
              /\ fam'[f].next = fam[f].next /\ fam'[f].ended = fam[f].ended
              /\ fam'[f].spent = fam[f].spent /\ fam'[f].refresh = fam[f].refresh
              /\ fam'[f].access = fam[f].access
    PROVE  Chain!End(S)
<1>1. \A f \in S : /\ fam'[f].next = fam[f].next /\ fam'[f].ended /\ fam'[f].spent = fam[f].spent
                   /\ \A u \in Tokens : fam'[f].refresh[u] = 0 /\ fam'[f].access[u] = 0
  BY RevokeFamilyFields DEF FamilyInv, TypeOK
<1>2. \A f \in Families : fam'[f].next = fam[f].next /\ fam'[f].spent = fam[f].spent
  BY <1>1
<1>3. Issued' = Issued /\ Spent' = Spent
  BY <1>2 DEF Issued, Spent
<1>4. Current' = [f \in Families |-> IF f \in S THEN {} ELSE Current[f]]
  <2>1. \A f \in Families : {t \in Tokens : fam'[f].refresh[t] > 0} = IF f \in S THEN {} ELSE Current[f]
    BY <1>1 DEF Current
  <2> QED BY <2>1 DEF Current
<1>5. Bearer' = [f \in Families |-> IF f \in S THEN {} ELSE Bearer[f]]
  <2>1. \A f \in Families : {t \in Tokens : fam'[f].access[t] > 0} = IF f \in S THEN {} ELSE Bearer[f]
    BY <1>1 DEF Bearer
  <2> QED BY <2>1 DEF Bearer
<1>6. Ended' = Ended \cup S
  BY <1>1 DEF Ended
<1> QED BY <1>3, <1>4, <1>5, <1>6 DEF Chain!End

(* A revocation that is given a token ends one chain or does nothing. *)
LEMMA OneRevocationEnds ==
    ASSUME AccessWithinFamily, FamilyInv, NEW f \in Families, NEW ttl \in Nat,
           fam' = [fam EXCEPT ![f] = RevokeFamily(fam[f], ttl)]
    PROVE  Chain!End({f})
<1>1. \A g \in Families : fam'[g] = IF g = f THEN RevokeFamily(fam[f], ttl) ELSE fam[g]
  BY DEF FamilyInv, TypeOK
<1> QED BY <1>1, RevocationEnds

(* Tokens that only cease to live lapse. *)
LEMMA LivesLapse ==
    ASSUME \A f \in Families :
              /\ fam'[f].next = fam[f].next /\ fam'[f].ended = fam[f].ended
              /\ fam'[f].spent = fam[f].spent
              /\ \A t \in Tokens : /\ fam'[f].refresh[t] > 0 => fam[f].refresh[t] > 0
                                   /\ fam'[f].access[t] > 0 => fam[f].access[t] > 0
    PROVE  Chain!Lapse
<1>1. Issued' = Issued /\ Spent' = Spent /\ Ended' = Ended
  BY DEF Issued, Spent, Ended
<1>2. /\ Current' \in [Families -> SUBSET Tokens]
      /\ Bearer' \in [Families -> SUBSET Tokens]
  BY DEF Current, Bearer
<1>3. \A f \in Families : Current'[f] \subseteq Current[f] /\ Bearer'[f] \subseteq Bearer[f]
  BY DEF Current, Bearer
<1> QED BY <1>1, <1>2, <1>3 DEF Chain!Lapse

LEMMA TickLapses == FamilyInv /\ Tick => Chain!Lapse
<1> SUFFICES ASSUME FamilyInv, Tick PROVE Chain!Lapse
  OBVIOUS
<1>1. \A f \in Families : fam[f] \in Family /\ fam'[f] = AgeFamily(fam[f])
  BY DEF FamilyInv, TypeOK, Tick
<1>2. \A f \in Families, t \in Tokens : fam[f].refresh[t] \in Nat /\ fam[f].access[t] \in Nat
  BY <1>1 DEF Family
<1>3. \A f \in Families :
          /\ fam'[f].next = fam[f].next /\ fam'[f].ended = fam[f].ended
          /\ fam'[f].spent = fam[f].spent
          /\ \A t \in Tokens : /\ fam'[f].refresh[t] = Older(fam[f].refresh[t])
                               /\ fam'[f].access[t] = Older(fam[f].access[t])
  BY <1>1, AgeFamilyFields
<1>4. \A n \in Nat : Older(n) > 0 => n > 0
  BY DEF Older
<1>5. \A f \in Families, t \in Tokens : /\ fam'[f].refresh[t] > 0 => fam[f].refresh[t] > 0
                                        /\ fam'[f].access[t] > 0 => fam[f].access[t] > 0
  BY <1>2, <1>3, <1>4
<1> QED BY <1>3, <1>5, LivesLapse

LEMMA RevokeAccessTokenLapses ==
    ASSUME FamilyInv, NEW f \in Families, NEW t \in Tokens, RevokeAccessToken(f, t)
    PROVE  Chain!Lapse
<1> DEFINE F == fam[f]
           G == [F EXCEPT !.access = [@ EXCEPT ![t] = 0]]
<1>1. F \in Family
  BY DEF FamilyInv, TypeOK
<1>2. /\ G.next = F.next /\ G.ended = F.ended /\ G.spent = F.spent /\ G.refresh = F.refresh
      /\ G.access = [F.access EXCEPT ![t] = 0] /\ F.access \in [Tokens -> Nat]
  BY <1>1 DEF Family
<1>3. \A g \in Families : fam'[g] = IF g = f THEN G ELSE fam[g]
  BY DEF RevokeAccessToken, FamilyInv, TypeOK
<1> HIDE DEF G
<1>4. \A u \in Tokens : G.access[u] > 0 => F.access[u] > 0
  BY <1>2
<1> QED BY <1>2, <1>3, <1>4, LivesLapse

-----------------------------------------------------------------------------
(* Every step of the store is a step of the chain or none: one case per    *)
(* action.                                                                 *)
ChainStep == Chain!Next \/ UNCHANGED Chain!vars

LEMMA RotateRefreshTokenChain ==
    ASSUME AccessWithinFamily, ChainInv, NEW r \in Requests, RotateRefreshToken(r)
    PROVE  ChainStep
<1> DEFINE f == req[r].fam
           t == req[r].tok
           l == req[r].life
<1>1. f \in Families /\ t \in Tokens /\ l \in Lifetimes /\ FamilyInv
  BY DEF ChainInv, FamilyInv, TypeOK, Request, RequestOK, RotateRefreshToken
<1>2. \/ /\ fam[f].refresh[t] > 0 /\ fam[f].next < MaxTokens
         /\ fam' = [fam EXCEPT ![f] = RotateFamily(fam[f], t, l)]
      \/ fam' = [fam EXCEPT ![f] = RevokeFamily(fam[f], l.refresh)]
      \/ UNCHANGED fam
  BY DEF RotateRefreshToken
<1>3. l.refresh \in Nat
  BY <1>1, FamilyTTLLemma
<1> HIDE DEF f, t, l
<1>4. CASE /\ fam[f].refresh[t] > 0 /\ fam[f].next < MaxTokens
           /\ fam' = [fam EXCEPT ![f] = RotateFamily(fam[f], t, l)]
  <2>1. fam[f].next \in Tokens /\ Chain!Exchange(f, t, fam[f].next)
    BY <1>1, <1>4, RotationExchanges
  <2> QED BY <1>1, <2>1 DEF ChainStep, Chain!Next
<1>5. CASE fam' = [fam EXCEPT ![f] = RevokeFamily(fam[f], l.refresh)]
  <2>1. Chain!End({f}) /\ {f} \in SUBSET Families
    BY <1>1, <1>3, <1>5, OneRevocationEnds
  <2> QED BY <2>1 DEF ChainStep, Chain!Next
<1>6. CASE UNCHANGED fam
  BY <1>6, NoView DEF ChainStep
<1> QED BY <1>2, <1>4, <1>5, <1>6

LEMMA RevokePresentedChain ==
    ASSUME AccessWithinFamily, FamilyInv, NEW f \in Families, NEW t \in Tokens, RevokePresented(f, t)
    PROVE  ChainStep
<1>1. \/ fam' = [fam EXCEPT ![f] = RevokeFamily(fam[f], RevocationTTL)]
      \/ UNCHANGED fam
  BY DEF RevokePresented
<1>2. CASE fam' = [fam EXCEPT ![f] = RevokeFamily(fam[f], RevocationTTL)]
  <2>1. Chain!End({f}) /\ {f} \in SUBSET Families
    BY <1>2, LifetimesAssumption, OneRevocationEnds
  <2> QED BY <2>1 DEF ChainStep, Chain!Next
<1>3. CASE UNCHANGED fam
  BY <1>3, NoView DEF ChainStep
<1> QED BY <1>1, <1>2, <1>3

LEMMA RevokeFamiliesForUserChain ==
    ASSUME AccessWithinFamily, FamilyInv, RevokeFamiliesForUser
    PROVE  ChainStep
<1>1. index \in SUBSET Families /\ RevocationTTL \in Nat
  BY LifetimesAssumption DEF FamilyInv, TypeOK
<1>2. \A f \in Families : fam'[f] = IF f \in index THEN RevokeFamily(fam[f], RevocationTTL)
                                                  ELSE fam[f]
  BY DEF RevokeFamiliesForUser
<1>3. Chain!End(index)
  BY <1>1, <1>2, RevocationEnds
<1> QED BY <1>1, <1>3 DEF ChainStep, Chain!Next

LEMMA RevokeFamiliesBeforeChain ==
    ASSUME AccessWithinFamily, FamilyInv, NEW v \in Nat, RevokeFamiliesBeforeAuthVersion(v)
    PROVE  ChainStep
<1> DEFINE old == {f \in index : HasLiveMember(fam[f]) /\ fam[f].ver < v}
<1>1. old \in SUBSET Families /\ RevocationTTL \in Nat
  BY LifetimesAssumption DEF FamilyInv, TypeOK
<1>2. \A f \in Families : fam'[f] = IF f \in old THEN RevokeFamily(fam[f], RevocationTTL)
                                    ELSE IF f \in index THEN PruneFamily(fam[f])
                                    ELSE fam[f]
  BY DEF RevokeFamiliesBeforeAuthVersion
<1> HIDE DEF old
<1>3. \A f \in Families \ old :
          /\ fam'[f].next = fam[f].next /\ fam'[f].ended = fam[f].ended
          /\ fam'[f].spent = fam[f].spent /\ fam'[f].refresh = fam[f].refresh
          /\ fam'[f].access = fam[f].access
  BY <1>2, PruneFamilyFields DEF FamilyInv, TypeOK
<1>4. \A f \in old : fam'[f] = RevokeFamily(fam[f], RevocationTTL)
  BY <1>1, <1>2
<1>5. Chain!End(old)
  BY <1>1, <1>3, <1>4, RevocationEnds
<1> QED BY <1>1, <1>5 DEF ChainStep, Chain!Next

LEMMA RequestStepChain ==
    ASSUME AccessWithinFamily, ChainInv, NEW r \in Requests, RequestStep(r)
    PROVE  ChainStep
<1>0. FamilyInv /\ 0 \in Tokens
  BY BoundsAssumption DEF ChainInv, Tokens
<1>1. ASSUME NEW f \in Families, IssueRefreshToken(r, f) PROVE ChainStep
  BY <1>0, <1>1, IssueStartsChain DEF ChainStep, Chain!Next
<1>2. ASSUME IssueAccessToken(r) PROVE ChainStep
  <2>1. req[r].fam \in Families /\ req[r].tok \in Tokens
    BY <1>0, <1>2 DEF FamilyInv, TypeOK, Request, RequestOK, IssueAccessToken
  <2> QED BY <1>0, <1>2, <2>1, AccessTokenIsAttached DEF ChainStep, Chain!Next
<1>3. ASSUME RotateRefreshToken(r) PROVE ChainStep
  BY <1>3, RotateRefreshTokenChain
<1>4. ASSUME RevokeOnFailure(r) PROVE ChainStep
  <2>1. req[r].fam \in Families /\ req[r].tok \in Tokens /\ RevokePresented(req[r].fam, req[r].tok)
    BY <1>0, <1>4 DEF FamilyInv, TypeOK, Request, RequestOK, RevokeOnFailure
  <2> QED BY <1>0, <2>1, RevokePresentedChain
<1>5. ASSUME UNCHANGED fam PROVE ChainStep
  BY <1>5, NoView DEF ChainStep
<1>6. \/ UNCHANGED fam
      \/ \E f \in Families : IssueRefreshToken(r, f)
      \/ IssueAccessToken(r) \/ RotateRefreshToken(r) \/ RevokeOnFailure(r)
  BY DEF RequestStep, BeginIssue, IssueAccessTokenFails, ReadRefreshToken, ValidateRefresh, Abandon
<1> QED BY <1>1, <1>2, <1>3, <1>4, <1>5, <1>6

LEMMA NextChain ==
    ASSUME AccessWithinFamily, ChainInv, [Next]_vars
    PROVE  ChainStep
<1>1. FamilyInv
  BY DEF ChainInv
<1>2. ASSUME NEW f \in Families, NEW t \in Tokens, RevokeRefreshToken(f, t) PROVE ChainStep
  BY <1>1, <1>2, RevokePresentedChain DEF RevokeRefreshToken
<1>3. ASSUME NEW f \in Families, NEW t \in Tokens, RevokeAccessToken(f, t) PROVE ChainStep
  BY <1>1, <1>3, RevokeAccessTokenLapses DEF ChainStep, Chain!Next
<1>4. ASSUME NEW v \in 1 .. authVersion, RevokeFamiliesBeforeAuthVersion(v) PROVE ChainStep
  <2>1. v \in Nat
    BY <1>1 DEF FamilyInv, TypeOK
  <2> QED BY <1>1, <1>4, <2>1, RevokeFamiliesBeforeChain
<1>5. ASSUME Tick PROVE ChainStep
  BY <1>1, <1>5, TickLapses DEF ChainStep, Chain!Next
<1>6. ASSUME UNCHANGED fam PROVE ChainStep
  BY <1>6, NoView DEF ChainStep
<1>7. AdvanceAuthVersion => UNCHANGED fam
  BY DEF AdvanceAuthVersion
<1>8. UNCHANGED vars => UNCHANGED fam
  BY DEF vars
<1> QED BY <1>1, <1>2, <1>3, <1>4, <1>5, <1>6, <1>7, <1>8, RequestStepChain,
           RevokeFamiliesForUserChain DEF Next

(* The steps of the chain themselves keep exchanged tokens out of it. *)
LEMMA ChainKept == ChainOK /\ ChainStep => ChainOK'
<1> SUFFICES ASSUME ChainOK, ChainStep PROVE ChainOK'
  OBVIOUS
<1>0. /\ DOMAIN Issued = Families /\ DOMAIN Current = Families
      /\ DOMAIN Spent = Families /\ DOMAIN Bearer = Families
  BY DEF Issued, Current, Spent, Bearer
<1>1. ASSUME NEW f \in Families, NEW t \in Tokens, Chain!Start(f, t) PROVE ChainOK'
  BY <1>0, <1>1 DEF Chain!Start, ChainOK
<1>2. ASSUME NEW f \in Families, NEW t \in Tokens, Chain!Attach(f, t) PROVE ChainOK'
  BY <1>2 DEF Chain!Attach, ChainOK
<1>3. ASSUME NEW f \in Families, NEW t \in Tokens, NEW new \in Tokens, Chain!Exchange(f, t, new)
      PROVE  ChainOK'
  BY <1>0, <1>3 DEF Chain!Exchange, ChainOK
<1>4. ASSUME NEW S \in SUBSET Families, Chain!End(S) PROVE ChainOK'
  BY <1>4 DEF Chain!End, ChainOK
<1>5. ASSUME Chain!Lapse PROVE ChainOK'
  BY <1>5 DEF Chain!Lapse, ChainOK
<1>6. ASSUME UNCHANGED Chain!vars PROVE ChainOK'
  BY <1>6 DEF Chain!vars, ChainOK
<1> QED BY <1>1, <1>2, <1>3, <1>4, <1>5, <1>6 DEF ChainStep, Chain!Next

(* Initially there are no chains. *)
LEMMA InitChain == Init => ChainOK /\ Chain!Init
<1> SUFFICES ASSUME Init PROVE ChainOK /\ Chain!Init
  OBVIOUS
<1>1. \A f \in Families :
          /\ fam[f].next = 0 /\ fam[f].ended = FALSE
          /\ \A t \in Tokens : fam[f].refresh[t] = 0 /\ fam[f].access[t] = 0 /\ fam[f].spent[t] = 0
  BY DEF Init, NoFamily
<1>2. Tokens \subseteq Nat
  BY BoundsAssumption DEF Tokens
<1>3. \A t \in Tokens : ~(t < 0)
  BY <1>2
<1>4. Issued = [f \in Families |-> {}]
  BY <1>1, <1>3 DEF Issued
<1>5. /\ Current = [f \in Families |-> {}] /\ Spent = [f \in Families |-> {}]
      /\ Bearer = [f \in Families |-> {}]
  BY <1>1 DEF Current, Spent, Bearer
<1>6. Ended = {}
  BY <1>1 DEF Ended
<1> QED BY <1>4, <1>5, <1>6 DEF ChainOK, Chain!Init

(* The Redis store implements the chain of refresh tokens, through every   *)
(* interleaving of requests, revocations and expiries: a token is          *)
(* exchanged once and only while it is the current one, and the end of a   *)
(* family is final, provided no policy lets an access token outlive        *)
(* another policy's families.                                              *)
THEOREM StoreImplementsChain ==
    ASSUME AccessWithinFamily
    PROVE  Spec => ImplementsChain
<1>1. Init => ChainInv /\ Chain!Init
  BY InitLemma, InitChain DEF ChainInv
<1>2. ChainInv /\ [Next]_vars => ChainInv' /\ [Chain!Next]_(Chain!vars)
  BY StepLemma, NextChain, ChainKept DEF ChainInv, ChainStep
<1> QED BY <1>1, <1>2, PTL DEF Spec, ImplementsChain, Chain!Spec

-----------------------------------------------------------------------------
(* Under steady lifetimes no access token outlives a family. *)
LEMMA SteadyLemma ==
    ASSUME SteadyLifetimes
    PROVE  /\ AccessWithinFamily
           /\ \A l \in Lifetimes : /\ FamilyTTL(l) = l.refresh /\ l.refresh \in Nat /\ l.access \in Nat
                                   /\ 0 < l.access /\ l.access + RequestTimeout <= l.refresh
           /\ \A l, m \in Lifetimes : l.refresh = m.refresh
<1>1. \A l, m \in Lifetimes : l.refresh = m.refresh /\ l.access + RequestTimeout <= l.refresh
  BY DEF SteadyLifetimes
<1>2. RequestTimeout \in Nat
  BY BoundsAssumption
<1>3. \A l \in Lifetimes : l.refresh \in Nat /\ l.access \in Nat /\ 0 < l.access
  BY FamilyTTLLemma
<1>4. \A l \in Lifetimes : FamilyTTL(l) = l.refresh
  BY <1>1, <1>2, <1>3 DEF FamilyTTL, Longer
<1>5. \A l, m \in Lifetimes : m.access <= FamilyTTL(l)
  <2> SUFFICES ASSUME NEW l \in Lifetimes, NEW m \in Lifetimes PROVE m.access <= FamilyTTL(l)
    OBVIOUS
  <2>1. FamilyTTL(l) = m.refresh
    BY <1>1, <1>4
  <2> QED BY <1>1, <1>2, <1>3, <2>1
<1> QED BY <1>1, <1>3, <1>4, <1>5 DEF AccessWithinFamily

(* The lives of a family's tokens are those of a policy at most. *)
LEMMA LifeBounds ==
    ASSUME SteadyLifetimes, IndexInv, NEW f \in Families, NEW t \in Tokens
    PROVE  /\ fam[f].refresh[t] \in Nat /\ fam[f].access[t] \in Nat /\ indexTTL \in Nat
           /\ \A l \in Lifetimes : fam[f].refresh[t] <= l.refresh /\ fam[f].access[t] <= l.refresh
<1>1. fam[f].refresh[t] \in Nat /\ fam[f].access[t] \in Nat /\ indexTTL \in Nat
  BY DEF IndexInv, FamilyInv, TypeOK, Family
<1>2. \A l \in Lifetimes : fam[f].access[t] <= FamilyTTL(l)
  BY SteadyLemma DEF IndexInv, FamilyInv, FamilyOK, AccessOK
<1>3. \A l \in Lifetimes : fam[f].refresh[t] <= l.refresh
  BY DEF IndexInv, Listed
<1> QED BY <1>1, <1>2, <1>3, SteadyLemma

(* What an issuing request relies on: the family is revoked, or its        *)
(* refresh token is not nearer to its end than it was.                     *)
Upheld(f) ==
    \/ fam'[f].ended
    \/ ~fam[f].ended /\ \A t \in Tokens : \E u \in Tokens : fam'[f].refresh[u] >= fam[f].refresh[t]

(* The invariant after a step other than Tick. *)
LEMMA IndexStep ==
    ASSUME IndexInv, FamilyInv', \A f \in Families : Listed(f)', \A f \in Families : Upheld(f),
           \A r \in Requests : req'[r] = req[r] \/ IssueOK(req[r])'
    PROVE  IndexInv'
<1>1. ASSUME NEW r \in Requests, req'[r] = req[r] PROVE IssueOK(req[r])'
  <2> SUFFICES ASSUME req[r].pc = "saveAccess", ~fam'[req[r].fam].ended
               PROVE  \E u \in Tokens : fam'[req[r].fam].refresh[u] + req[r].age >= req[r].life.refresh
    BY <1>1 DEF IssueOK
  <2> DEFINE f == req[r].fam
  <2>1. f \in Families /\ req[r].age \in Nat /\ req[r].life \in Lifetimes
    BY BoundsAssumption DEF IndexInv, FamilyInv, TypeOK, Request, RequestOK
  <2>2. req[r].life.refresh \in Nat
    BY <2>1, FamilyTTLLemma
  <2>3. ~fam[f].ended /\ \A t \in Tokens : \E u \in Tokens : fam'[f].refresh[u] >= fam[f].refresh[t]
    BY <2>1 DEF Upheld
  <2>4. PICK t \in Tokens : fam[f].refresh[t] + req[r].age >= req[r].life.refresh
    BY <2>3 DEF IndexInv, IssueOK
  <2>5. PICK u \in Tokens : fam'[f].refresh[u] >= fam[f].refresh[t]
    BY <2>3
  <2>6. fam[f].refresh[t] \in Nat /\ fam'[f].refresh[u] \in Nat
    BY <2>1 DEF IndexInv, FamilyInv, TypeOK, Family
  <2>7. fam'[f].refresh[u] + req[r].age >= req[r].life.refresh
    BY <2>1, <2>2, <2>4, <2>5, <2>6
  <2> QED BY <2>7
<1>2. \A r \in Requests : IssueOK(req[r])'
  BY <1>1
<1> QED BY <1>2 DEF IndexInv

(* A family that is left alone stays listed when the index only grows. *)
LEMMA FamiliesKept ==
    ASSUME IndexInv, NEW f \in Families, fam'[f] = fam[f]
    PROVE  /\ Upheld(f)
           /\ (f \in index => f \in index') /\ indexTTL <= indexTTL' /\ indexTTL' \in Nat => Listed(f)'
<1>1. \A t \in Tokens : fam[f].refresh[t] \in Nat /\ fam[f].access[t] \in Nat /\ indexTTL \in Nat
  BY DEF IndexInv, FamilyInv, TypeOK, Family
<1>2. \A t \in Tokens : fam[f].refresh[t] >= fam[f].refresh[t]
  BY <1>1
<1>3. Upheld(f)
  BY <1>2 DEF Upheld
<1>4. ASSUME f \in index => f \in index', indexTTL <= indexTTL', indexTTL' \in Nat
      PROVE  Listed(f)'
  BY <1>1, <1>4 DEF IndexInv, Listed
<1> QED BY <1>3, <1>4

(* A family that is revoked needs no place in the index. *)
LEMMA RevokedIsListed ==
    ASSUME SteadyLifetimes, IndexInv, NEW f \in Families, NEW ttl \in Nat,
           fam'[f] = RevokeFamily(fam[f], ttl)
    PROVE  Listed(f)' /\ Upheld(f)
<1>1. fam'[f].ended /\ \A u \in Tokens : fam'[f].refresh[u] = 0 /\ fam'[f].access[u] = 0
  BY SteadyLemma, RevokeFamilyFields DEF IndexInv, FamilyInv, TypeOK
<1>2. \A l \in Lifetimes : 0 <= l.refresh
  BY FamilyTTLLemma
<1> QED BY <1>1, <1>2 DEF Listed, Upheld

(* Unlisting what has no living token leaves the rest listed. *)
LEMMA UnlistLemma ==
    ASSUME IndexInv, NEW S, Unlist(S), NEW f \in Families, fam'[f] \in Family,
           f \in S => ~Alive(fam[f]),
           fam'[f].refresh = fam[f].refresh, fam'[f].access = fam[f].access
    PROVE  Listed(f)'
<1>1. \A t \in Tokens : fam[f].refresh[t] > 0 \/ fam[f].access[t] > 0 =>
          f \in index' /\ indexTTL' = indexTTL
  BY DEF Unlist, IndexInv, Listed, Alive
<1> QED BY <1>1 DEF IndexInv, Listed

(* A revocation of one family. *)
LEMMA OneRevocationListed ==
    ASSUME SteadyLifetimes, IndexInv, FamilyInv', NEW f \in Families, NEW ttl \in Nat,
           fam' = [fam EXCEPT ![f] = RevokeFamily(fam[f], ttl)], Unlist({f})
    PROVE  \A g \in Families : Listed(g)' /\ Upheld(g)
<1> SUFFICES ASSUME NEW g \in Families PROVE Listed(g)' /\ Upheld(g)
  OBVIOUS
<1>1. fam'[g] = IF g = f THEN RevokeFamily(fam[f], ttl) ELSE fam[g]
  BY DEF IndexInv, FamilyInv, TypeOK
<1>2. CASE g = f
  BY <1>1, <1>2, RevokedIsListed
<1>3. CASE g # f
  <2>1. fam'[g] = fam[g] /\ fam[g] \in Family /\ g \notin {f}
    BY <1>1, <1>3 DEF IndexInv, FamilyInv, TypeOK
  <2> QED BY <2>1, FamiliesKept, UnlistLemma
<1> QED BY <1>2, <1>3

(* A step that leaves families and index alone. *)
LEMMA NoIndexStep ==
    ASSUME IndexInv, FamilyInv', UNCHANGED <<fam, index, indexTTL>>,
           \A r \in Requests : req'[r] = req[r] \/ IssueOK(req[r])'
    PROVE  IndexInv'
<1>1. indexTTL \in Nat /\ indexTTL <= indexTTL
  BY DEF IndexInv, FamilyInv, TypeOK
<1>2. \A f \in Families : Listed(f)' /\ Upheld(f)
  BY <1>1, FamiliesKept
<1> QED BY <1>2, IndexStep

LEMMA IssueRefreshTokenIndex ==
    ASSUME SteadyLifetimes, IndexInv, FamilyInv', NEW r \in Requests, NEW f \in Families,
           IssueRefreshToken(r, f)
    PROVE  IndexInv'
<1> DEFINE F == fam[f]
           l == req[r].life
           G == SaveRefreshToken(F, req[r].ver, l)
<1>1. F \in Family /\ FamilyOK(F) /\ F.next = 0 /\ l \in Lifetimes /\ req[r].ver \in Nat
  BY DEF IndexInv, FamilyInv, TypeOK, Request, RequestOK, IssueRefreshToken
<1>2. /\ \A g \in Families : fam'[g] = IF g = f THEN G ELSE fam[g]
      /\ index' = index \cup {f} /\ indexTTL' = l.refresh
  BY DEF IndexInv, FamilyInv, TypeOK, IssueRefreshToken
<1>3. G.refresh = [F.refresh EXCEPT ![0] = l.refresh] /\ G.access = F.access /\ G.ended = F.ended
  BY <1>1, SaveRefreshTokenFields
<1>4. l.refresh \in Nat /\ 0 \in Tokens /\ F.refresh \in [Tokens -> Nat] /\ F.ended \in BOOLEAN
  <2>1. l.refresh \in Nat /\ 0 \in Tokens
    BY <1>1, FamilyTTLLemma, BoundsAssumption DEF Tokens
  <2>2. F.refresh \in [Tokens -> Nat] /\ F.ended \in BOOLEAN
    BY <1>1 DEF Family
  <2> QED BY <2>1, <2>2
<1> HIDE DEF G, l
<1>5. \A t \in Tokens : G.refresh[t] = IF t = 0 THEN l.refresh ELSE F.refresh[t]
  BY <1>3, <1>4
<1>6. \A m \in Lifetimes : l.refresh = m.refresh
  BY <1>1, SteadyLemma
<1>7. \A g \in Families, t \in Tokens :
          /\ fam'[g].refresh[t] \in Nat /\ fam'[g].refresh[t] <= l.refresh
          /\ fam[g].refresh[t] \in Nat /\ fam'[g].refresh[t] >= fam[g].refresh[t]
          /\ fam'[g].access[t] = fam[g].access[t]
  <2> SUFFICES ASSUME NEW g \in Families, NEW t \in Tokens
               PROVE  /\ fam'[g].refresh[t] \in Nat /\ fam'[g].refresh[t] <= l.refresh
                      /\ fam[g].refresh[t] \in Nat /\ fam'[g].refresh[t] >= fam[g].refresh[t]
                      /\ fam'[g].access[t] = fam[g].access[t]
    OBVIOUS
  <2>1. fam[g].refresh[t] \in Nat /\ fam[g].refresh[t] <= l.refresh
    BY <1>1, LifeBounds
  <2>2. CASE g = f
    BY <1>2, <1>3, <1>4, <1>5, <2>1, <2>2
  <2>3. CASE g # f
    BY <1>2, <2>1, <2>3
  <2> QED BY <2>2, <2>3
<1>8. ASSUME NEW g \in Families PROVE Listed(g)'
  <2>1. \A t \in Tokens : fam[g].access[t] \in Nat /\ fam[g].access[t] <= l.refresh
    BY <1>1, LifeBounds
  <2>2. \A t \in Tokens : fam[g].access[t] > 0 => g \in index
    BY DEF IndexInv, Listed
  <2>3. \A t \in Tokens : g # f /\ fam[g].refresh[t] > 0 => g \in index
    BY DEF IndexInv, Listed
  <2>4. \A t \in Tokens : fam'[g].refresh[t] > 0 => g \in index'
    BY <1>2, <2>3
  <2>5. \A t \in Tokens : fam'[g].access[t] > 0 => g \in index' /\ fam'[g].access[t] <= indexTTL'
    BY <1>2, <1>7, <2>1, <2>2
  <2> QED BY <1>2, <1>6, <1>7, <2>4, <2>5 DEF Listed
<1>9. ASSUME NEW g \in Families PROVE Upheld(g)
  <2>1. fam'[g].ended = fam[g].ended /\ fam[g].ended \in BOOLEAN
    BY <1>2, <1>3 DEF IndexInv, FamilyInv, TypeOK, Family
  <2> QED BY <1>7, <2>1 DEF Upheld
<1>10. ASSUME NEW s \in Requests PROVE req'[s] = req[s] \/ IssueOK(req[s])'
  <2>1. CASE s # r
    BY <2>1 DEF IssueRefreshToken, IndexInv, FamilyInv, TypeOK
  <2>2. CASE s = r
    <3>1. req'[r].fam = f /\ req'[r].life = l /\ req'[r].age \in Nat
      BY BoundsAssumption DEF IssueRefreshToken, IndexInv, FamilyInv, TypeOK, Request, l
    <3>2. fam'[f].refresh[0] = l.refresh
      BY <1>2, <1>4, <1>5
    <3>3. fam'[f].refresh[0] + req'[r].age >= l.refresh
      BY <1>4, <3>1, <3>2
    <3> QED BY <1>4, <2>2, <3>1, <3>3 DEF IssueOK
  <2> QED BY <2>1, <2>2
<1> QED BY <1>8, <1>9, <1>10, IndexStep

LEMMA IssueAccessTokenIndex ==
    ASSUME SteadyLifetimes, IndexInv, FamilyInv', NEW r \in Requests, IssueAccessToken(r)
    PROVE  IndexInv'
<1> DEFINE f == req[r].fam
           k == req[r].tok
           l == req[r].life
           F == fam[f]
           G == SaveFamilyToken(F, k, l.access)
<1>1. /\ f \in Families /\ k \in Tokens /\ l \in Lifetimes
      /\ F.ended => F.marker + req[r].age > RequestTimeout
      /\ req[r].age \in 0 .. RequestTimeout /\ F.marker = 0
  BY DEF IndexInv, FamilyInv, TypeOK, Request, RequestOK, IssueAccessToken
<1>2. F \in Family /\ ~F.ended
  BY <1>1, BoundsAssumption DEF IndexInv, FamilyInv, TypeOK
<1>3. /\ \A g \in Families : fam'[g] = IF g = f THEN G ELSE fam[g]
      /\ UNCHANGED <<index, indexTTL>>
  BY <1>1 DEF IndexInv, FamilyInv, TypeOK, IssueAccessToken
<1>4. /\ l.access \in Nat /\ l.refresh \in Nat /\ l.access > 0
      /\ l.access + RequestTimeout <= l.refresh
  BY <1>1, SteadyLemma
<1>5. G.refresh = F.refresh /\ G.ended = F.ended /\ G.access = [F.access EXCEPT ![k] = l.access]
  BY <1>1, <1>2, <1>4, SaveFamilyTokenFields
<1>6. PICK t \in Tokens : F.refresh[t] + req[r].age >= l.refresh
  BY <1>1, <1>2 DEF IndexInv, IssueOK, IssueAccessToken
<1>7. F.refresh[t] \in Nat /\ F.refresh[t] >= l.access
  <2>1. F.refresh[t] \in Nat /\ req[r].age \in Nat /\ req[r].age <= RequestTimeout /\ RequestTimeout \in Nat
    BY <1>1, <1>2, BoundsAssumption DEF Family
  <2> QED BY <1>4, <1>6, <2>1
<1>8. f \in index /\ l.access <= indexTTL /\ indexTTL \in Nat
  <2>1. F.refresh[t] > 0
    BY <1>4, <1>7
  <2>2. f \in index /\ F.refresh[t] <= indexTTL /\ indexTTL \in Nat
    BY <1>1, <2>1 DEF IndexInv, Listed, FamilyInv, TypeOK
  <2> QED BY <1>4, <1>7, <2>2
<1>9. F.access \in [Tokens -> Nat] /\ \A u \in Tokens : F.refresh[u] \in Nat
  BY <1>2 DEF Family
<1> HIDE DEF G, f, k, l
<1>10. \A u \in Tokens : G.access[u] = IF u = k THEN l.access ELSE F.access[u]
  BY <1>1, <1>5, <1>9
<1>11. ASSUME NEW g \in Families PROVE Listed(g)' /\ Upheld(g)
  <2>1. CASE g # f
    BY <1>3, <1>8, <2>1, FamiliesKept
  <2>2. CASE g = f
    <3>1. Listed(f)
      BY <1>1 DEF IndexInv
    <3>2. \A u \in Tokens : G.access[u] > 0 => f \in index /\ G.access[u] <= indexTTL
      BY <1>8, <1>10, <3>1 DEF Listed
    <3>3. Listed(g)'
      BY <1>1, <1>3, <1>5, <2>2, <3>1, <3>2 DEF Listed
    <3>4. Upheld(g)
      BY <1>1, <1>2, <1>3, <1>5, <1>9, <2>2 DEF Upheld
    <3> QED BY <3>3, <3>4
  <2> QED BY <2>1, <2>2
<1>12. ASSUME NEW s \in Requests PROVE req'[s] = req[s] \/ IssueOK(req[s])'
  BY DEF IssueAccessToken, IndexInv, FamilyInv, TypeOK, IssueOK, NoRequest, NewRequest
<1> QED BY <1>11, <1>12, IndexStep

LEMMA RotateRefreshTokenIndex ==
    ASSUME SteadyLifetimes, IndexInv, FamilyInv', NEW r \in Requests, RotateRefreshToken(r)
    PROVE  IndexInv'
<1> DEFINE f == req[r].fam
           k == req[r].tok
           l == req[r].life
           F == fam[f]
           G == RotateFamily(F, k, l)
<1>1. f \in Families /\ k \in Tokens /\ l \in Lifetimes /\ F \in Family /\ FamilyOK(F)
  BY DEF IndexInv, FamilyInv, TypeOK, Request, RequestOK, RotateRefreshToken
<1>2. \/ /\ F.refresh[k] > 0 /\ F.next < MaxTokens
         /\ fam' = [fam EXCEPT ![f] = G]
         /\ index' = index \cup {f} /\ indexTTL' = Longer(indexTTL, l.refresh)
      \/ fam' = [fam EXCEPT ![f] = RevokeFamily(F, l.refresh)] /\ Unlist({f})
      \/ UNCHANGED <<fam, index, indexTTL>>
  BY DEF RotateRefreshToken
<1>3. /\ l.refresh \in Nat /\ indexTTL \in Nat /\ l.access \in Nat /\ l.access <= l.refresh
      /\ Longer(indexTTL, l.refresh) \in Nat
      /\ indexTTL <= Longer(indexTTL, l.refresh) /\ l.refresh <= Longer(indexTTL, l.refresh)
  <2>1. l.refresh \in Nat /\ indexTTL \in Nat /\ l.access \in Nat /\ l.access <= l.refresh
    BY <1>1, SteadyLemma, BoundsAssumption DEF IndexInv, FamilyInv, TypeOK
  <2> QED BY <2>1, LongerLemma
<1>4. ASSUME NEW s \in Requests PROVE req'[s] = req[s] \/ IssueOK(req[s])'
  BY DEF RotateRefreshToken, IndexInv, FamilyInv, TypeOK, IssueOK, NoRequest, NewRequest
<1>5. ASSUME F.refresh[k] > 0, F.next < MaxTokens
      PROVE  /\ F.next \in Tokens /\ ~G.ended /\ ~F.ended
             /\ \A u \in Tokens :
                   /\ G.refresh[u] = IF u = F.next THEN l.refresh ELSE 0
                   /\ G.access[u] = IF u = F.next THEN l.access ELSE F.access[u]
  BY <1>1, <1>5, RotateFamilyLemma, RotateFamilyFields
<1> HIDE DEF G, f, k, l
<1>6. CASE /\ F.refresh[k] > 0 /\ F.next < MaxTokens
           /\ fam' = [fam EXCEPT ![f] = G]
           /\ index' = index \cup {f} /\ indexTTL' = Longer(indexTTL, l.refresh)
  <2>1. \A g \in Families : fam'[g] = IF g = f THEN G ELSE fam[g]
    BY <1>6 DEF IndexInv, FamilyInv, TypeOK
  <2>2. ASSUME NEW g \in Families PROVE Listed(g)' /\ Upheld(g)
    <3>1. CASE g # f
      BY <1>3, <1>6, <2>1, <3>1, FamiliesKept
    <3>2. CASE g = f
      <4>1. \A u \in Tokens : /\ F.refresh[u] \in Nat /\ F.access[u] \in Nat
                              /\ F.refresh[u] <= l.refresh /\ F.access[u] <= l.refresh
        BY <1>1, LifeBounds
      <4>2. fam'[f] = G /\ f \in index' /\ indexTTL' \in Nat /\ l.refresh <= indexTTL'
        BY <1>1, <1>3, <1>6, <2>1
      <4>3. \A u \in Tokens : G.refresh[u] <= l.refresh /\ G.refresh[u] \in Nat
        BY <1>3, <1>5, <1>6
      <4>4. \A u \in Tokens : G.access[u] <= l.refresh /\ G.access[u] \in Nat
        BY <1>3, <1>5, <1>6, <4>1
      <4>5. \A m \in Lifetimes : m.refresh = l.refresh
        BY <1>1, SteadyLemma
      <4>6. \A u \in Tokens : G.refresh[u] <= indexTTL' /\ G.access[u] <= indexTTL'
        BY <1>3, <4>2, <4>3, <4>4
      <4>7. Listed(g)'
        BY <3>2, <4>2, <4>3, <4>5, <4>6 DEF Listed
      <4>8. \A u \in Tokens : G.refresh[F.next] >= F.refresh[u]
        BY <1>3, <1>5, <1>6, <4>1
      <4>9. Upheld(g)
        BY <1>5, <1>6, <3>2, <4>2, <4>8 DEF Upheld
      <4> QED BY <4>7, <4>9
    <3> QED BY <3>1, <3>2
  <2> QED BY <1>4, <2>2, IndexStep
<1>7. CASE fam' = [fam EXCEPT ![f] = RevokeFamily(F, l.refresh)] /\ Unlist({f})
  <2>1. \A g \in Families : Listed(g)' /\ Upheld(g)
    BY <1>1, <1>3, <1>7, OneRevocationListed
  <2> QED BY <1>4, <2>1, IndexStep
<1>8. CASE UNCHANGED <<fam, index, indexTTL>>
  BY <1>4, <1>8, NoIndexStep
<1> QED BY <1>2, <1>6, <1>7, <1>8

LEMMA RevokePresentedIndex ==
    ASSUME SteadyLifetimes, IndexInv, FamilyInv', NEW f \in Families, NEW t \in Tokens,
           RevokePresented(f, t), \A s \in Requests : req'[s] = req[s] \/ IssueOK(req[s])'
    PROVE  IndexInv'
<1>1. \/ fam' = [fam EXCEPT ![f] = RevokeFamily(fam[f], RevocationTTL)] /\ Unlist({f})
      \/ UNCHANGED <<fam, index, indexTTL>>
  BY DEF RevokePresented
<1>2. CASE fam' = [fam EXCEPT ![f] = RevokeFamily(fam[f], RevocationTTL)] /\ Unlist({f})
  <2>1. \A g \in Families : Listed(g)' /\ Upheld(g)
    BY <1>2, LifetimesAssumption, OneRevocationListed
  <2> QED BY <2>1, IndexStep
<1>3. CASE UNCHANGED <<fam, index, indexTTL>>
  BY <1>3, NoIndexStep
<1> QED BY <1>1, <1>2, <1>3

LEMMA RevokeFamiliesForUserIndex ==
    ASSUME SteadyLifetimes, IndexInv, FamilyInv', RevokeFamiliesForUser
    PROVE  IndexInv'
<1>1. RevocationTTL \in Nat /\ index \subseteq Families
  BY LifetimesAssumption DEF IndexInv, FamilyInv, TypeOK
<1>2. /\ \A f \in Families : fam'[f] = IF f \in index THEN RevokeFamily(fam[f], RevocationTTL)
                                                     ELSE fam[f]
      /\ UNCHANGED req
  BY DEF RevokeFamiliesForUser
<1>3. ASSUME NEW f \in Families PROVE Listed(f)' /\ Upheld(f)
  <2>1. CASE f \in index
    BY <1>1, <1>2, <2>1, RevokedIsListed
  <2>2. CASE f \notin index
    <3>1. Listed(f)' /\ fam'[f] = fam[f]
      BY <1>2, <2>2 DEF IndexInv, Listed
    <3> QED BY <3>1, FamiliesKept
  <2> QED BY <2>1, <2>2
<1> QED BY <1>2, <1>3, IndexStep

LEMMA RevokeFamiliesBeforeIndex ==
    ASSUME SteadyLifetimes, IndexInv, FamilyInv', NEW v \in Nat, RevokeFamiliesBeforeAuthVersion(v)
    PROVE  IndexInv'
<1> DEFINE old == {f \in index : HasLiveMember(fam[f]) /\ fam[f].ver < v}
           gone == {f \in index : fam'[f].setTTL = 0}
<1>1. RevocationTTL \in Nat /\ index \subseteq Families /\ old \subseteq index
  BY LifetimesAssumption DEF IndexInv, FamilyInv, TypeOK
<1>2. /\ \A f \in Families : fam'[f] = IF f \in old THEN RevokeFamily(fam[f], RevocationTTL)
                                       ELSE IF f \in index THEN PruneFamily(fam[f])
                                       ELSE fam[f]
      /\ UNCHANGED req /\ Unlist(gone)
  BY DEF RevokeFamiliesBeforeAuthVersion
<1> HIDE DEF old
<1>3. ASSUME NEW f \in Families PROVE Listed(f)' /\ Upheld(f)
  <2>1. CASE f \in old
    BY <1>1, <1>2, <2>1, RevokedIsListed
  <2>2. CASE f \notin old
    <3>1. fam[f] \in Family /\ FamilyOK(fam[f]) /\ fam'[f] \in Family /\ FamilyOK(fam'[f])
      BY DEF IndexInv, FamilyInv, TypeOK
    <3>2. /\ fam'[f].refresh = fam[f].refresh /\ fam'[f].access = fam[f].access
          /\ fam'[f].ended = fam[f].ended
      BY <1>2, <2>2, <3>1, PruneFamilyFields
    <3>3. \A t \in Tokens : /\ fam[f].refresh[t] \in Nat /\ fam[f].access[t] \in Nat
                            /\ fam[f].refresh[t] >= fam[f].refresh[t]
      BY <3>1 DEF Family
    <3>4. f \in gone => ~Alive(fam[f])
      <4>1. \A t \in Tokens : /\ fam'[f].refresh[t] > 0 => fam'[f].refresh[t] <= fam'[f].setTTL
                              /\ fam'[f].access[t] > 0 => fam'[f].access[t] <= fam'[f].setTTL
        BY <3>1, SteadyLemma DEF FamilyOK, AccessOK
      <4> QED BY <3>2, <3>3, <4>1 DEF Alive
    <3> HIDE DEF gone
    <3>5. Listed(f)'
      BY <1>2, <3>1, <3>2, <3>4, UnlistLemma
    <3>6. Upheld(f)
      BY <3>1, <3>2, <3>3 DEF Upheld, Family
    <3> QED BY <3>5, <3>6
  <2> QED BY <2>1, <2>2
<1> QED BY <1>2, <1>3, IndexStep

LEMMA RevokeAccessTokenIndex ==
    ASSUME IndexInv, FamilyInv', NEW f \in Families, NEW t \in Tokens, RevokeAccessToken(f, t)
    PROVE  IndexInv'
<1> DEFINE F == fam[f]
           G == [F EXCEPT !.access = [@ EXCEPT ![t] = 0]]
<1>1. F \in Family /\ indexTTL \in Nat /\ indexTTL <= indexTTL
  BY DEF IndexInv, FamilyInv, TypeOK
<1>2. /\ G.ended = F.ended /\ G.refresh = F.refresh
      /\ G.access = [F.access EXCEPT ![t] = 0] /\ F.access \in [Tokens -> Nat]
      /\ \A u \in Tokens : F.refresh[u] \in Nat
  BY <1>1 DEF Family
<1>3. /\ \A g \in Families : fam'[g] = IF g = f THEN G ELSE fam[g]
      /\ UNCHANGED <<index, indexTTL, req>>
  BY DEF RevokeAccessToken, IndexInv, FamilyInv, TypeOK
<1> HIDE DEF G
<1>4. \A u \in Tokens : G.access[u] = IF u = t THEN 0 ELSE F.access[u]
  BY <1>2
<1>5. ASSUME NEW g \in Families PROVE Listed(g)' /\ Upheld(g)
  <2>1. CASE g # f
    BY <1>1, <1>3, <2>1, FamiliesKept
  <2>2. CASE g = f
    <3>1. Listed(f)
      BY DEF IndexInv
    <3>2. Listed(f)'
      BY <1>2, <1>3, <1>4, <3>1 DEF Listed
    <3>3. \A u \in Tokens : F.refresh[u] >= F.refresh[u]
      BY <1>2
    <3>4. G.ended \in BOOLEAN
      BY <1>1, <1>2 DEF Family
    <3>5. Upheld(f)
      BY <1>2, <1>3, <3>3, <3>4 DEF Upheld
    <3> QED BY <2>2, <3>2, <3>5
  <2> QED BY <2>1, <2>2
<1> QED BY <1>3, <1>5, IndexStep

(* Time passes alike for the tokens, the index and the requests. *)
LEMMA TickIndex ==
    ASSUME IndexInv, FamilyInv', Tick
    PROVE  IndexInv'
<1>1. \A f \in Families :
          /\ fam[f] \in Family
          /\ fam'[f].ended = fam[f].ended
          /\ \A t \in Tokens : /\ fam'[f].refresh[t] = Older(fam[f].refresh[t])
                               /\ fam'[f].access[t] = Older(fam[f].access[t])
  BY AgeFamilyFields DEF Tick, IndexInv, FamilyInv, TypeOK
<1>2. indexTTL \in Nat /\ indexTTL' = Older(indexTTL) /\ index' = IF indexTTL' = 0 THEN {} ELSE index
  BY DEF Tick, IndexInv, FamilyInv, TypeOK
<1>3. \A n, m \in Nat : /\ Older(n) \in Nat /\ Older(n) <= n /\ Older(n) + 1 >= n
                        /\ Older(n) > 0 => n > 0
                        /\ n <= m => Older(n) <= Older(m)
  BY DEF Older
<1>4. ASSUME NEW f \in Families PROVE Listed(f)'
  <2> SUFFICES ASSUME NEW t \in Tokens
               PROVE  /\ fam'[f].refresh[t] > 0 => f \in index' /\ fam'[f].refresh[t] <= indexTTL'
                      /\ fam'[f].access[t] > 0 => f \in index' /\ fam'[f].access[t] <= indexTTL'
                      /\ \A l \in Lifetimes : fam'[f].refresh[t] <= l.refresh
    BY DEF Listed
  <2>1. fam[f].refresh[t] \in Nat /\ fam[f].access[t] \in Nat
    BY <1>1 DEF Family
  <2>2. /\ fam[f].refresh[t] > 0 => f \in index /\ fam[f].refresh[t] <= indexTTL
        /\ fam[f].access[t] > 0 => f \in index /\ fam[f].access[t] <= indexTTL
        /\ \A l \in Lifetimes : fam[f].refresh[t] <= l.refresh
    BY DEF IndexInv, Listed
  <2>3. /\ fam'[f].refresh[t] = Older(fam[f].refresh[t])
        /\ fam'[f].access[t] = Older(fam[f].access[t])
    BY <1>1
  <2>4. /\ fam'[f].refresh[t] \in Nat /\ fam'[f].access[t] \in Nat /\ indexTTL' \in Nat
        /\ fam'[f].refresh[t] <= fam[f].refresh[t]
        /\ fam'[f].refresh[t] > 0 => fam[f].refresh[t] > 0
        /\ fam'[f].access[t] > 0 => fam[f].access[t] > 0
    BY <1>2, <1>3, <2>1, <2>3
  <2>5. /\ fam'[f].refresh[t] > 0 => f \in index /\ fam'[f].refresh[t] <= indexTTL'
        /\ fam'[f].access[t] > 0 => f \in index /\ fam'[f].access[t] <= indexTTL'
    BY <1>2, <1>3, <2>1, <2>2, <2>3, <2>4
  <2>6. \A l \in Lifetimes : fam'[f].refresh[t] <= l.refresh
    BY <2>1, <2>2, <2>4, FamilyTTLLemma
  <2>7. fam'[f].refresh[t] > 0 \/ fam'[f].access[t] > 0 => f \in index'
    BY <1>2, <2>4, <2>5
  <2> QED BY <2>5, <2>6, <2>7
<1>5. ASSUME NEW r \in Requests PROVE IssueOK(req[r])'
  <2> SUFFICES ASSUME req'[r].pc = "saveAccess", ~fam'[req'[r].fam].ended
               PROVE  \E u \in Tokens : fam'[req'[r].fam].refresh[u] + req'[r].age >= req'[r].life.refresh
    BY DEF IssueOK
  <2> DEFINE R == req[r]
  <2>1. R \in Request /\ RequestOK(R, fam)
    BY DEF IndexInv, FamilyInv, TypeOK
  <2>2. req'[r] = IF R.pc = "idle" THEN R ELSE [R EXCEPT !.age = @ + 1]
    BY DEF Tick
  <2>3. /\ R.pc = "saveAccess" /\ req'[r].fam = R.fam /\ req'[r].life = R.life
        /\ req'[r].age = R.age + 1 /\ R.age \in Nat
    BY <2>1, <2>2, BoundsAssumption DEF Request
  <2>4. R.fam \in Families /\ R.life.refresh \in Nat
    BY <2>1, <2>3, FamilyTTLLemma DEF RequestOK
  <2>5. ~fam[R.fam].ended
    BY <1>1, <2>3, <2>4
  <2>6. PICK u \in Tokens : fam[R.fam].refresh[u] + R.age >= R.life.refresh
    BY <2>3, <2>5 DEF IndexInv, IssueOK
  <2>7. fam[R.fam].refresh[u] \in Nat /\ fam'[R.fam].refresh[u] = Older(fam[R.fam].refresh[u])
    BY <1>1, <2>4 DEF Family
  <2>8. fam'[R.fam].refresh[u] \in Nat /\ fam'[R.fam].refresh[u] + 1 >= fam[R.fam].refresh[u]
    BY <1>3, <2>7
  <2>9. fam'[R.fam].refresh[u] + (R.age + 1) >= R.life.refresh
    BY <2>3, <2>4, <2>6, <2>7, <2>8
  <2> QED BY <2>3, <2>9
<1> QED BY <1>4, <1>5 DEF IndexInv

-----------------------------------------------------------------------------
(* IndexInv is inductive: one case per action. *)
LEMMA IndexStepLemma ==
    ASSUME SteadyLifetimes, IndexInv, [Next]_vars
    PROVE  IndexInv'
<1>1. FamilyInv'
  BY StepLemma DEF IndexInv
<1>2. ASSUME NEW r \in Requests, RequestStep(r) PROVE IndexInv'
  <2>1. req \in [Requests -> Request]
    BY DEF IndexInv, FamilyInv, TypeOK
  <2>2. ASSUME UNCHANGED <<fam, index, indexTTL>>, NEW R, R.pc # "saveAccess",
               req' = [req EXCEPT ![r] = R]
        PROVE  IndexInv'
    <3>1. \A s \in Requests : req'[s] = req[s] \/ IssueOK(req[s])'
      BY <2>1, <2>2 DEF IssueOK
    <3> QED BY <1>1, <2>2, <3>1, NoIndexStep
  <2>3. ASSUME NEW l \in Lifetimes, BeginIssue(r, l) PROVE IndexInv'
    BY <2>2, <2>3 DEF BeginIssue, NewRequest
  <2>4. ASSUME IssueAccessTokenFails(r) PROVE IndexInv'
    <3> DEFINE R == [req[r] EXCEPT !.pc = "revoke", !.life = None]
    <3>1. R.pc = "revoke"
      BY <2>1 DEF Request
    <3>2. req' = [req EXCEPT ![r] = R] /\ UNCHANGED <<fam, index, indexTTL>>
      BY <2>1, <2>4 DEF IssueAccessTokenFails
    <3> HIDE DEF R
    <3> QED BY <2>2, <3>1, <3>2
  <2>5. ASSUME NEW f \in Families, NEW t \in Tokens, NEW l \in Lifetimes, ReadRefreshToken(r, f, t, l)
        PROVE  IndexInv'
    BY <2>2, <2>5 DEF ReadRefreshToken, NewRequest
  <2>6. ASSUME NEW permitted \in BOOLEAN, ValidateRefresh(r, permitted) PROVE IndexInv'
    <3> DEFINE valid == permitted /\ ~req[r].used /\ fam[req[r].fam].ver = authVersion
               R == [req[r] EXCEPT !.pc = IF valid THEN "rotate" ELSE "revoke",
                                   !.used = FALSE,
                                   !.life = IF valid THEN @ ELSE None]
    <3>1. R.pc # "saveAccess"
      BY <2>1 DEF Request
    <3>2. req' = [req EXCEPT ![r] = R] /\ UNCHANGED <<fam, index, indexTTL>>
      BY <2>1, <2>6 DEF ValidateRefresh
    <3> HIDE DEF R
    <3> QED BY <2>2, <3>1, <3>2
  <2>7. ASSUME Abandon(r) PROVE IndexInv'
    BY <2>2, <2>7 DEF Abandon, NoRequest, NewRequest
  <2>8. ASSUME RevokeOnFailure(r) PROVE IndexInv'
    <3>1. req[r].fam \in Families /\ req[r].tok \in Tokens /\ RevokePresented(req[r].fam, req[r].tok)
      BY <2>8 DEF IndexInv, FamilyInv, TypeOK, Request, RequestOK, RevokeOnFailure
    <3>2. \A s \in Requests : req'[s] = req[s] \/ IssueOK(req[s])'
      BY <2>1, <2>8 DEF RevokeOnFailure, IssueOK, NoRequest, NewRequest
    <3> QED BY <1>1, <3>1, <3>2, RevokePresentedIndex
  <2> QED BY <1>1, <1>2, <2>3, <2>4, <2>5, <2>6, <2>7, <2>8, IssueRefreshTokenIndex,
             IssueAccessTokenIndex, RotateRefreshTokenIndex DEF RequestStep
<1>3. ASSUME NEW f \in Families, NEW t \in Tokens, RevokeRefreshToken(f, t) PROVE IndexInv'
  <2>1. RevokePresented(f, t) /\ \A s \in Requests : req'[s] = req[s]
    BY <1>3 DEF RevokeRefreshToken
  <2> QED BY <1>1, <2>1, RevokePresentedIndex
<1>4. ASSUME NEW f \in Families, NEW t \in Tokens, RevokeAccessToken(f, t) PROVE IndexInv'
  BY <1>1, <1>4, RevokeAccessTokenIndex
<1>5. ASSUME NEW v \in 1 .. authVersion, RevokeFamiliesBeforeAuthVersion(v) PROVE IndexInv'
  <2>1. v \in Nat
    BY DEF IndexInv, FamilyInv, TypeOK
  <2> QED BY <1>1, <1>5, <2>1, RevokeFamiliesBeforeIndex
<1>6. ASSUME UNCHANGED <<fam, index, indexTTL, req>> PROVE IndexInv'
  BY <1>1, <1>6, NoIndexStep
<1>7. (AdvanceAuthVersion \/ UNCHANGED vars) => UNCHANGED <<fam, index, indexTTL, req>>
  BY DEF AdvanceAuthVersion, vars
<1> QED BY <1>1, <1>2, <1>3, <1>4, <1>5, <1>6, <1>7, TickIndex, RevokeFamiliesForUserIndex DEF Next

(* While the policy leaves the life of refresh tokens alone, every family  *)
(* with a living token is in the user's index, so that a revocation for    *)
(* the user reaches all of them.  RefreshFamilyShrink shows that it fails  *)
(* when the policy shortens that life.                                     *)
THEOREM SteadyIndexReachesAll ==
    ASSUME SteadyLifetimes
    PROVE  Spec => []UserRevocationReachesAll
<1>1. Init => IndexInv
  <2> SUFFICES ASSUME Init PROVE IndexInv
    OBVIOUS
  <2>1. \A f \in Families, t \in Tokens : fam[f].refresh[t] = 0 /\ fam[f].access[t] = 0
    BY DEF Init, NoFamily
  <2>2. \A l \in Lifetimes : 0 <= l.refresh
    BY FamilyTTLLemma
  <2>3. \A f \in Families : Listed(f)
    BY <2>1, <2>2 DEF Listed
  <2>4. \A r \in Requests : IssueOK(req[r])
    BY DEF Init, NoRequest, NewRequest, IssueOK
  <2> QED BY <2>3, <2>4, InitLemma DEF IndexInv
<1>2. IndexInv /\ [Next]_vars => IndexInv'
  BY IndexStepLemma
<1>3. IndexInv => UserRevocationReachesAll
  BY DEF IndexInv, Listed, UserRevocationReachesAll, Alive
<1> QED BY <1>1, <1>2, <1>3, PTL DEF Spec
=============================================================================
