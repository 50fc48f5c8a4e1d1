--------------------------- MODULE EnvelopeProofs ---------------------------
(* Proofs of the safety invariants of Envelope for every capacity, expiry    *)
(* policy and number of envelopes, under a clock that never runs backwards.  *)
EXTENDS Envelope, FiniteSetTheorems, TLAPS

LEMMA EnvelopeInit == Init => EnvelopeInv
<1> SUFFICES ASSUME Init PROVE EnvelopeInv
  OBVIOUS
<1> USE EnvelopeAssumption
<1>1. TypeOK
  BY DEF Init, TypeOK, MessageIds
<1>2. CacheBounded /\ IsFiniteSet(entries) /\ IsFiniteSet(sealed)
  BY FS_EmptySet DEF Init, CacheBounded
<1>3. IdsInv /\ CacheInv
  BY <1>2 DEF Init, IdsInv, CacheInv
<1>4. AcceptedOnce /\ SealedDecodes
  BY DEF Init, AcceptedOnce, SealedDecodes
<1> QED
  BY <1>1, <1>2, <1>3, <1>4 DEF EnvelopeInv

\* What opens is one of the sealed envelopes: a damaged one never does.
LEMMA OpensSealed ==
    ASSUME NEW e \in Arrivals, OpensInner(e), sealed \subseteq OuterEnvelope
    PROVE  e \in sealed
<1>1. e.intact = TRUE
  BY DEF OpensInner, Opens, Authenticates, Arrivals, OuterEnvelope, Damaged, CutShort
<1>2. \A f \in sealed : Damaged(f).intact = FALSE /\ CutShort(f).intact = FALSE
  BY DEF Damaged, CutShort, OuterEnvelope
<1> QED
  BY <1>1, <1>2 DEF Arrivals

LEMMA RetainedFinite ==
    ASSUME IsFiniteSet(entries)
    PROVE  /\ IsFiniteSet(Retained)
           /\ Cardinality(Retained) \in Nat
           /\ Cardinality(Retained) <= Cardinality(entries)
<1>1. Retained \in SUBSET entries
  BY DEF Retained
<1> QED
  BY <1>1, FS_Subset, FS_CardinalityType

LEMMA SealStep ==
    ASSUME EnvelopeInv, NEW recipient \in Recipients, NEW expires \in Expiries,
           NEW inner_len \in InnerLens, NEW padding_len \in PaddingLens,
           NEW padding \in Paddings,
           Seal(recipient, expires, inner_len, padding_len, padding)
    PROVE  EnvelopeInv'
<1> USE EnvelopeAssumption
<1> DEFINE body == inner_len + padding_len + AEAD_TAG_LEN
           new == [message_id |-> next_id, expires_at_unix |-> expires,
                   recipient |-> recipient, padding |-> padding,
                   body_len |-> body, wire_len |-> WireLen(body), intact |-> TRUE]
<1>1. /\ next_id \in MessageIds
      /\ sealed' = sealed \cup {new}
      /\ next_id' = next_id + 1
      /\ now' = now /\ entries' = entries /\ accepted' = accepted
  BY DEF Seal, SealedEnvelope
<1>2. /\ body \in AEAD_TAG_LEN..MAX_CIPHERTEXT_LEN
      /\ body \in 0..MAX_CIPHERTEXT_LEN
      /\ WireLen(body) \in Nat
      /\ WireLen(body) = OUTER_FIXED_LEN + NONCE_LEN + body
  BY DEF Seal, PlaintextFits, WireLen, SealedEnvelope
<1>3. expires \in Nat
  OBVIOUS
<1> HIDE DEF body
<1>4. new \in OuterEnvelope
  BY <1>1, <1>2, <1>3 DEF OuterEnvelope
<1>5. Decodes(new)
  BY <1>2 DEF Decodes, from_parts
<1>6. /\ new.message_id = next_id /\ new.intact = TRUE
      /\ new.expires_at_unix = expires
  OBVIOUS
<1> HIDE DEF new
<1>7. TypeOK'
  BY <1>1, <1>4 DEF EnvelopeInv, TypeOK, MessageIds
<1>8. IdsInv'
  <2>1. IsFiniteSet(sealed')
    BY <1>1, FS_AddElement DEF EnvelopeInv, IdsInv
  <2>2. \A e \in sealed : e.message_id \in MessageIds
    BY DEF EnvelopeInv, TypeOK, OuterEnvelope
  <2>3. \A e \in sealed' : e.message_id < next_id' /\ e.intact
    BY <1>1, <1>6, <2>2 DEF EnvelopeInv, IdsInv, MessageIds
  <2>4. \A e, f \in sealed' : e.message_id = f.message_id => e = f
    BY <1>1, <1>6, <2>2 DEF EnvelopeInv, IdsInv, MessageIds
  <2>5. \A id \in MessageIds : id >= next_id' => accepted'[id] = << >>
    BY <1>1 DEF EnvelopeInv, IdsInv, MessageIds
  <2> QED
    BY <2>1, <2>3, <2>4, <2>5 DEF IdsInv
<1>9. CacheInv'
  <2>1. accepted[next_id] = << >>
    BY <1>1 DEF EnvelopeInv, IdsInv, MessageIds
  <2>2. \A e \in sealed' :
          accepted[e.message_id] # << >>
          => \/ now > e.expires_at_unix
             \/ [message_id |-> e.message_id, expires_at |-> e.expires_at_unix] \in entries
    BY <1>1, <1>6, <2>1 DEF EnvelopeInv, CacheInv
  <2>3. \A x \in entries : \E e \in sealed' :
         /\ x = [message_id |-> e.message_id, expires_at |-> e.expires_at_unix]
         /\ accepted[e.message_id] # << >>
    BY <1>1 DEF EnvelopeInv, CacheInv
  <2> QED
    BY <1>1, <2>2, <2>3 DEF EnvelopeInv, CacheInv
<1>10. CacheBounded' /\ AcceptedOnce'
  BY <1>1 DEF EnvelopeInv, CacheBounded, AcceptedOnce
<1>11. SealedDecodes'
  BY <1>1, <1>5 DEF EnvelopeInv, SealedDecodes, Decodes, from_parts
<1> QED
  BY <1>7, <1>8, <1>9, <1>10, <1>11 DEF EnvelopeInv

LEMMA AcceptStep ==
    ASSUME EnvelopeInv, NEW e \in Arrivals, Accept(e)
    PROVE  EnvelopeInv'
<1> USE EnvelopeAssumption
<1> DEFINE id == e.message_id
           entry == [message_id |-> id, expires_at |-> e.expires_at_unix]
<1>1. /\ OpensInner(e) /\ ~Duplicate(e) /\ ~Full
      /\ entries' = Retained \cup {entry}
      /\ accepted' = [accepted EXCEPT ![id] = Append(@, now)]
      /\ now' = now /\ next_id' = next_id /\ sealed' = sealed
  BY DEF Accept, Inserted
<1>2. e \in sealed
  BY <1>1, OpensSealed DEF EnvelopeInv, TypeOK
<1>3. /\ id \in MessageIds /\ e.expires_at_unix \in Nat
      /\ entry \in ReplayEntry
      /\ now \in Nat /\ next_id \in Nat
      /\ id < next_id
      /\ accepted \in [MessageIds -> Seq(Nat)]
  BY <1>2 DEF EnvelopeInv, TypeOK, IdsInv, OuterEnvelope, ReplayEntry
<1>4. now <= e.expires_at_unix
  BY <1>1 DEF OpensInner, Opens, Authenticates
<1>5. accepted[id] = << >>
  <2>1. entry \notin Retained
    BY <1>1 DEF Duplicate
  <2>2. entry \notin entries
    BY <2>1, <1>3, <1>4 DEF Retained
  <2> QED
    BY <2>2, <1>2, <1>3, <1>4 DEF EnvelopeInv, CacheInv
<1>6. /\ accepted'[id] = <<now>>
      /\ \A d \in MessageIds : d # id => accepted'[d] = accepted[d]
      /\ accepted' \in [MessageIds -> Seq(Nat)]
  BY <1>1, <1>3, <1>5
<1>7. TypeOK'
  BY <1>1, <1>3, <1>6 DEF EnvelopeInv, TypeOK, Retained
<1>8. IdsInv'
  BY <1>1, <1>3, <1>6, SMTT(30) DEF EnvelopeInv, IdsInv, MessageIds
<1>9. IsFiniteSet(entries') /\ CacheBounded'
  <2>1. IsFiniteSet(entries)
    BY DEF EnvelopeInv, CacheInv
  <2>2. /\ IsFiniteSet(Retained) /\ Cardinality(Retained) \in Nat
        /\ Cardinality(Retained) < Capacity
    BY <2>1, <1>1, RetainedFinite DEF Full
  <2> HIDE DEF entry
  <2>3. /\ IsFiniteSet(Retained \cup {entry})
        /\ Cardinality(Retained \cup {entry}) =
             IF entry \in Retained THEN Cardinality(Retained) ELSE Cardinality(Retained) + 1
    BY <2>2, FS_AddElement
  <2>4. Cardinality(Retained \cup {entry}) <= Capacity
    <3> DEFINE n == Cardinality(Retained)
    <3>1. n \in Nat /\ n < Capacity
      BY <2>2
    <3>2. n <= Capacity /\ n + 1 <= Capacity
      <4> HIDE DEF n
      <4> QED
        BY <3>1
    <3> QED
      BY <2>3, <3>2
  <2> QED
    BY <2>3, <2>4, <1>1 DEF CacheBounded
<1>10. CacheInv'
  <2>1. ASSUME NEW x \in entries'
        PROVE  \E f \in sealed :
                 /\ x = [message_id |-> f.message_id, expires_at |-> f.expires_at_unix]
                 /\ accepted'[f.message_id] # << >>
    <3>1. CASE x = entry
      <4>1. accepted'[e.message_id] # << >>
        <5>1. <<now>> # << >>
          OBVIOUS
        <5> QED
          BY <5>1, <1>6
      <4> QED
        BY <3>1, <4>1, <1>2
    <3>2. CASE x \in Retained
      <4>1. PICK f \in sealed :
               /\ x = [message_id |-> f.message_id, expires_at |-> f.expires_at_unix]
               /\ accepted[f.message_id] # << >>
        BY <3>2 DEF Retained, EnvelopeInv, CacheInv
      <4>2. f.message_id \in MessageIds
        BY <4>1 DEF EnvelopeInv, TypeOK, OuterEnvelope
      <4>3. accepted'[f.message_id] # << >>
        BY <4>1, <4>2, <1>5, <1>6
      <4> QED
        BY <4>1, <4>3
    <3> QED
      BY <3>1, <3>2, <1>1
  <2>2. ASSUME NEW f \in sealed, accepted'[f.message_id] # << >>, ~(now > f.expires_at_unix)
        PROVE  [message_id |-> f.message_id, expires_at |-> f.expires_at_unix] \in entries'
    <3>1. f.message_id \in MessageIds /\ f.expires_at_unix \in Nat
      BY DEF EnvelopeInv, TypeOK, OuterEnvelope
    <3>2. CASE f.message_id = id
      <4>1. f = e
        BY <3>2, <1>2 DEF EnvelopeInv, IdsInv
      <4> QED
        BY <4>1, <1>1
    <3>3. CASE f.message_id # id
      <4>1. [message_id |-> f.message_id, expires_at |-> f.expires_at_unix] \in entries
        BY <2>2, <3>1, <3>3, <1>6 DEF EnvelopeInv, CacheInv
      <4>2. [message_id |-> f.message_id, expires_at |-> f.expires_at_unix] \in Retained
        BY <4>1, <2>2, <3>1, <1>3 DEF Retained
      <4> QED
        BY <4>2, <1>1
    <3> QED
      BY <3>2, <3>3
  <2> QED
    BY <1>1, <1>9, <2>1, <2>2 DEF CacheInv
<1>11. AcceptedOnce'
  <2>1. \A d \in MessageIds : Len(accepted[d]) <= 1
    BY DEF EnvelopeInv, AcceptedOnce
  <2>2. Len(<<now>>) <= 1
    OBVIOUS
  <2>3. Len(accepted'[id]) <= 1
    BY <1>6, <2>2
  <2>4. \A d \in MessageIds : Len(accepted'[d]) <= 1
    BY <1>6, <2>1, <2>3
  <2> QED
    BY <2>4 DEF AcceptedOnce
<1>12. SealedDecodes'
  BY <1>1 DEF EnvelopeInv, SealedDecodes, Decodes, from_parts
<1> QED
  BY <1>7, <1>8, <1>9, <1>10, <1>11, <1>12 DEF EnvelopeInv

\* Pruning alone: a refused duplicate and a refusal of a full cache.
LEMMA PruneStep ==
    ASSUME EnvelopeInv, entries' = Retained, UNCHANGED <<now, next_id, sealed, accepted>>
    PROVE  EnvelopeInv'
<1> USE EnvelopeAssumption
<1>1. TypeOK' /\ IdsInv' /\ AcceptedOnce' /\ SealedDecodes'
  BY DEF EnvelopeInv, TypeOK, IdsInv, AcceptedOnce, SealedDecodes, Decodes, from_parts, Retained
<1>2. IsFiniteSet(entries') /\ CacheBounded'
  <2>1. IsFiniteSet(entries) /\ Cardinality(entries) <= Capacity
    BY DEF EnvelopeInv, CacheInv, CacheBounded
  <2>2. Cardinality(entries) \in Nat
    BY <2>1, FS_CardinalityType
  <2> QED
    BY <2>1, <2>2, RetainedFinite DEF CacheBounded
<1>3. CacheInv'
  <2>1. \A x \in Retained : \E e \in sealed :
          /\ x = [message_id |-> e.message_id, expires_at |-> e.expires_at_unix]
          /\ accepted[e.message_id] # << >>
    BY DEF EnvelopeInv, CacheInv, Retained
  <2>2. ASSUME NEW e \in sealed, accepted[e.message_id] # << >>, ~(now > e.expires_at_unix)
        PROVE  [message_id |-> e.message_id, expires_at |-> e.expires_at_unix] \in Retained
    <3>1. now \in Nat /\ e.expires_at_unix \in Nat
      BY DEF EnvelopeInv, TypeOK, OuterEnvelope
    <3>2. [message_id |-> e.message_id, expires_at |-> e.expires_at_unix] \in entries
      BY <2>2 DEF EnvelopeInv, CacheInv
    <3> QED
      BY <2>2, <3>1, <3>2 DEF Retained
  <2> QED
    BY <1>2, <2>1, <2>2 DEF CacheInv
<1> QED
  BY <1>1, <1>2, <1>3 DEF EnvelopeInv

LEMMA TickStep ==
    ASSUME EnvelopeInv, Tick
    PROVE  EnvelopeInv'
<1>1. now' = now + 1 /\ UNCHANGED <<next_id, sealed, entries, accepted>>
  BY DEF Tick
<1>2. now \in Nat /\ now' \in Nat
  BY <1>1 DEF EnvelopeInv, TypeOK
<1>3. TypeOK' /\ CacheBounded' /\ IdsInv' /\ AcceptedOnce' /\ SealedDecodes'
  BY <1>1, <1>2 DEF EnvelopeInv, TypeOK, CacheBounded, IdsInv, AcceptedOnce, SealedDecodes, Decodes, from_parts
<1>4. \A e \in sealed : e.expires_at_unix \in Nat
  BY DEF EnvelopeInv, TypeOK, OuterEnvelope
<1>5. CacheInv'
  BY <1>1, <1>2, <1>4 DEF EnvelopeInv, CacheInv
<1> QED
  BY <1>3, <1>5 DEF EnvelopeInv

LEMMA EnvelopeStep == EnvelopeInv /\ [Next]_vars => EnvelopeInv'
<1> SUFFICES ASSUME EnvelopeInv, [Next]_vars PROVE EnvelopeInv'
  OBVIOUS
<1>1. ASSUME NEW recipient \in Recipients, NEW expires \in Expiries,
             NEW inner_len \in InnerLens, NEW padding_len \in PaddingLens,
             NEW padding \in Paddings,
             Seal(recipient, expires, inner_len, padding_len, padding)
      PROVE  EnvelopeInv'
  BY <1>1, SealStep
<1>2. ASSUME NEW e \in Arrivals, OpenInnerOnce(e)
      PROVE  EnvelopeInv'
  <2>1. CASE Accept(e)
    BY <2>1, AcceptStep
  <2>2. CASE RefuseReplay(e)
    BY <2>2, PruneStep DEF RefuseReplay
  <2>3. CASE RefuseFull(e)
    BY <2>3, PruneStep DEF RefuseFull
  <2>4. CASE RejectUnopened(e)
    <3>1. UNCHANGED vars
      BY <2>4 DEF RejectUnopened
    <3> QED
      BY <3>1 DEF vars, EnvelopeInv, TypeOK, CacheBounded, IdsInv, CacheInv,
                  AcceptedOnce, SealedDecodes, Decodes, from_parts
  <2> QED
    BY <1>2, <2>1, <2>2, <2>3, <2>4 DEF OpenInnerOnce
<1>3. CASE Tick
  BY <1>3, TickStep
<1>4. CASE UNCHANGED vars
  BY <1>4 DEF vars, EnvelopeInv, TypeOK, CacheBounded, IdsInv, CacheInv,
              AcceptedOnce, SealedDecodes, Decodes, from_parts
<1> QED
  BY <1>1, <1>2, <1>3, <1>4 DEF Next

\* The inductive invariant holds throughout every behaviour of open_inner_once
\* and seal under a clock that never runs backwards.
THEOREM EnvelopeInvariance == Spec => []EnvelopeInv
<1>1. Init => EnvelopeInv
  BY EnvelopeInit
<1>2. EnvelopeInv /\ [Next]_vars => EnvelopeInv'
  BY EnvelopeStep
<1> QED
  BY <1>1, <1>2, PTL DEF Spec

\* Envelopes, cache entries and identifiers have their types: no body that seal
\* emits exceeds the ciphertext limit, whatever the limit.
THEOREM EnvelopeTypeCorrect == Spec => []TypeOK
<1>1. EnvelopeInv => TypeOK
  BY DEF EnvelopeInv
<1> QED
  BY <1>1, EnvelopeInvariance, PTL

\* open_inner_once accepts no transport message identifier twice, for every
\* capacity of the replay cache and every choice of expiries.
THEOREM NoDuplicateAccepted == Spec => []AcceptedOnce
<1>1. EnvelopeInv => AcceptedOnce
  BY DEF EnvelopeInv
<1> QED
  BY <1>1, EnvelopeInvariance, PTL

\* The replay cache never exceeds its capacity.
THEOREM ReplayCacheBounded == Spec => []CacheBounded
<1>1. EnvelopeInv => CacheBounded
  BY DEF EnvelopeInv
<1> QED
  BY <1>1, EnvelopeInvariance, PTL

\* Every envelope seal emits is accepted by decode, for every length limit.
THEOREM SealedAlwaysDecodes == Spec => []SealedDecodes
<1>1. EnvelopeInv => SealedDecodes
  BY DEF EnvelopeInv
<1> QED
  BY <1>1, EnvelopeInvariance, PTL

\* Every retained entry stands for an accepted envelope that is still live.
LEMMA RetainedAreLive ==
    ASSUME EnvelopeInv
    PROVE  /\ IsFiniteSet(LiveAccepted)
           /\ Cardinality(LiveAccepted) \in Nat
           /\ Cardinality(Retained) <= Cardinality(LiveAccepted)
<1> DEFINE Entry(f) == [message_id |-> f.message_id, expires_at |-> f.expires_at_unix]
           Source(x, f) == x = Entry(f) /\ accepted[f.message_id] # << >>
           h == [x \in Retained |-> CHOOSE f \in sealed : Source(x, f)]
<1>1. IsFiniteSet(LiveAccepted) /\ Cardinality(LiveAccepted) \in Nat
  <2>1. LiveAccepted \in SUBSET sealed
    BY DEF LiveAccepted
  <2> QED
    BY <2>1, FS_Subset, FS_CardinalityType DEF EnvelopeInv, IdsInv
<1>2. ASSUME NEW x \in Retained
      PROVE  h[x] \in sealed /\ Source(x, h[x])
  <2>1. \E f \in sealed : Source(x, f)
    BY DEF Retained, EnvelopeInv, CacheInv
  <2> QED
    BY <2>1
<1> HIDE DEF h
<1>3. ASSUME NEW x \in Retained
      PROVE  h[x] \in LiveAccepted
  <2>1. h[x] \in sealed /\ Source(x, h[x])
    BY <1>2
  <2>2. x.expires_at >= now /\ x.expires_at = h[x].expires_at_unix
    BY <2>1 DEF Retained
  <2>3. now \in Nat /\ h[x].expires_at_unix \in Nat
    BY <2>1 DEF EnvelopeInv, TypeOK, OuterEnvelope
  <2> QED
    BY <2>1, <2>2, <2>3 DEF LiveAccepted
<1>4. \A x, y \in Retained : h[x] = h[y] => x = y
  BY <1>2
<1>5. h \in [Retained -> LiveAccepted]
  BY <1>3 DEF h
<1>6. h \in Injection(Retained, LiveAccepted)
  BY <1>4, <1>5 DEF Injection, IsInjective
<1> QED
  BY <1>1, <1>6, FS_Injection

\* A fresh envelope that opens is accepted unless Capacity accepted envelopes
\* are still live: nothing else ever occupies the replay cache.
THEOREM FreshNeverCrowdedOut == Spec => []FreshAccepted
<1>1. ASSUME EnvelopeInv PROVE FreshAccepted
  <2> SUFFICES ASSUME NEW e \in sealed, OpensInner(e), accepted[e.message_id] = << >>
               PROVE  \/ ~Duplicate(e) /\ ~Full
                      \/ Cardinality(LiveAccepted) >= Capacity
    BY DEF FreshAccepted
  <2>1. ~Duplicate(e)
    <3> SUFFICES ASSUME NEW x \in Retained, x.message_id = e.message_id PROVE FALSE
      BY DEF Duplicate
    <3>1. PICK f \in sealed :
             /\ x = [message_id |-> f.message_id, expires_at |-> f.expires_at_unix]
             /\ accepted[f.message_id] # << >>
      BY <1>1 DEF Retained, EnvelopeInv, CacheInv
    <3> QED
      BY <3>1
  <2>2. CASE Full
    <3>1. IsFiniteSet(entries) /\ Capacity \in Nat
      BY <1>1, EnvelopeAssumption DEF EnvelopeInv, CacheInv
    <3>2. Cardinality(Retained) \in Nat /\ Cardinality(Retained) >= Capacity
      BY <2>2, <3>1, RetainedFinite DEF Full
    <3>3. Cardinality(LiveAccepted) \in Nat /\ Cardinality(Retained) <= Cardinality(LiveAccepted)
      BY <1>1, RetainedAreLive
    <3> QED
      BY <3>1, <3>2, <3>3
  <2> QED
    BY <2>1, <2>2
<1> QED
  BY <1>1, EnvelopeInvariance, PTL

============================================================================
