---------------------------- MODULE SessionView ----------------------------
(***************************************************************************)
(* The session that would go on if, now, the endpoints in Keep committed   *)
(* and the others crashed: a state of Ratchet, made of the memories of the  *)
(* former and the last commits of the latter.  The operations of a kept     *)
(* endpoint are steps of Ratchet in this view, those of another are seen    *)
(* only in the key pairs they draw, and a commit or crash that goes the     *)
(* way the view assumes changes nothing.                                    *)
(***************************************************************************)
EXTENDS PersistentSession, FiniteSetTheorems, TLAPS

CONSTANT Keep

ratchetSeen == [d \in Role |-> IF d \in Keep THEN ratchet[d] ELSE committed[d]]
netSeen == net \cup UNION {pending[d].out : d \in Role \cap Keep}
deliveredSeen ==
    [d \in Role |-> IF d \in Keep THEN delivered[d] \cup pending[d].in ELSE delivered[d]]
returnedSeen ==
    [d \in Role |-> IF d \in Keep THEN returned[d] + Cardinality(pending[d].in) ELSE returned[d]]

Seen == INSTANCE SyncProofs WITH
            ratchet <- ratchetSeen, net <- netSeen,
            delivered <- deliveredSeen, returned <- returnedSeen

Sound == Seen!RatchetInv /\ Seen!SyncInv

----------------------------------------------------------------------------
(* The operators on single states are those of Ratchet.                    *)

LEMMA SameOperators ==
    /\ Seen!Role = Role
    /\ \A x, y : Seen!SameChain(x, y) <=> x.label = y.label /\ x.root = y.root
    /\ \A f : Seen!Sender(f) = Sender(f)
    /\ Seen!Session = Session
  BY DEF Seen!Role, Role, Seen!SameChain, Seen!Sender, Sender, Seen!Owner, Owner,
         Seen!Session, Session

LEMMA SameSendingOperators ==
    /\ \A r : Seen!AfterEncrypt(r) = AfterEncrypt(r) /\ Seen!Frame(r) = Frame(r)
    /\ \A c, n : Seen!Advance(c, n) = Advance(c, n)
    /\ \A r, k : Seen!AfterRotation(r, k) = AfterRotation(r, k)
    /\ \A e : Seen!generate(e) = generate(e)
  BY DEF Seen!AfterEncrypt, AfterEncrypt, Seen!Frame, Frame, Seen!KeyOf, KeyOf,
         Seen!Advance, Advance, Seen!AfterRotation, AfterRotation,
         Seen!diffie_hellman, diffie_hellman, Seen!next_root, next_root,
         Seen!root_chain, root_chain, Seen!ROOT_CHAIN_LABEL, ROOT_CHAIN_LABEL,
         Seen!saturating_add, saturating_add, Seen!generate, generate

LEMMA SameReceivingOperators ==
    /\ \A r, f : Seen!SameSession(r, f) <=> SameSession(r, f)
    /\ \A r, f, i : Seen!OpensSkipped(r, f, i) <=> OpensSkipped(r, f, i)
    /\ \A r, i : Seen!AfterSkipped(r, i) = AfterSkipped(r, i)
    /\ \A r, f : Seen!OpensSameRatchet(r, f) <=> OpensSameRatchet(r, f)
    /\ \A r, f : Seen!AfterSameRatchet(r, f) = AfterSameRatchet(r, f)
    /\ \A r, f : Seen!OpensNewRatchet(r, f) <=> OpensNewRatchet(r, f)
    /\ \A r, f, k : Seen!AfterNewRatchet(r, f, k) = AfterNewRatchet(r, f, k)
<1>1. \A r, f : Seen!SameSession(r, f) <=> SameSession(r, f)
  BY DEF Seen!SameSession, SameSession
<1>2. \A r, f, i : Seen!OpensSkipped(r, f, i) <=> OpensSkipped(r, f, i)
  BY DEF Seen!OpensSkipped, OpensSkipped, Seen!Position, Position, Seen!Opens, Opens
<1>3. \A r, i : Seen!AfterSkipped(r, i) = AfterSkipped(r, i)
  BY DEF Seen!AfterSkipped, AfterSkipped, Seen!RemoveAt, RemoveAt,
         Seen!saturating_add, saturating_add
<1>4. \A r, f : Seen!OpensSameRatchet(r, f) <=> OpensSameRatchet(r, f)
  BY DEF Seen!OpensSameRatchet, OpensSameRatchet, Seen!RangeAllowed, RangeAllowed,
         Seen!Opens, Opens, Seen!KeyOf, KeyOf, Seen!Advance, Advance
<1>5. \A r, f : Seen!AfterSameRatchet(r, f) = AfterSameRatchet(r, f)
  BY DEF Seen!AfterSameRatchet, AfterSameRatchet, Seen!derive_range, derive_range,
         Seen!KeyOf, KeyOf, Seen!Advance, Advance, Seen!saturating_add, saturating_add
<1>6. \A r, f : Seen!OpensNewRatchet(r, f) <=> OpensNewRatchet(r, f)
  BY DEF Seen!OpensNewRatchet, OpensNewRatchet, Seen!RangeAllowed, RangeAllowed,
         Seen!Opens, Opens, Seen!KeyOf, KeyOf, Seen!Advance, Advance,
         Seen!root_chain, root_chain, Seen!ROOT_CHAIN_LABEL, ROOT_CHAIN_LABEL,
         Seen!next_root, next_root, Seen!diffie_hellman, diffie_hellman
<1>7. \A r, f, k : Seen!AfterNewRatchet(r, f, k) = AfterNewRatchet(r, f, k)
  BY DEF Seen!AfterNewRatchet, AfterNewRatchet, Seen!derive_range, derive_range,
         Seen!KeyOf, KeyOf, Seen!Advance, Advance, Seen!saturating_add, saturating_add,
         Seen!root_chain, root_chain, Seen!ROOT_CHAIN_LABEL, ROOT_CHAIN_LABEL,
         Seen!next_root, next_root, Seen!diffie_hellman, diffie_hellman
<1> QED
  BY <1>1, <1>2, <1>3, <1>4, <1>5, <1>6, <1>7

LEMMA SameSets ==
    /\ Seen!InnerFrame = InnerFrame /\ Seen!RatchetState = RatchetState
    /\ \A x : Seen!Cardinality(x) = Cardinality(x)
    /\ \A x : Seen!IsFiniteSet(x) <=> IsFiniteSet(x)
<1>1. Seen!InnerFrame = InnerFrame /\ Seen!RatchetState = RatchetState
  BY DEF Seen!InnerFrame, InnerFrame, Seen!RatchetState, RatchetState,
         Seen!Session, Session, Seen!OtherSession, OtherSession,
         Seen!DhKey, DhKey, Seen!MessageKey, MessageKey, Seen!ChainKey, ChainKey,
         Seen!RootKey, RootKey, Seen!SkippedMessageKey, SkippedMessageKey,
         Seen!Labels, Labels, Seen!Role, Role,
         Seen!INIT_A_TO_B_LABEL, INIT_A_TO_B_LABEL,
         Seen!INIT_B_TO_A_LABEL, INIT_B_TO_A_LABEL,
         Seen!ROOT_CHAIN_LABEL, ROOT_CHAIN_LABEL
<1>2. \A x : Seen!Cardinality(x) = Cardinality(x)
  BY DEF Seen!Cardinality, Cardinality
<1>3. \A x : Seen!IsFiniteSet(x) <=> IsFiniteSet(x)
  BY DEF Seen!IsFiniteSet, IsFiniteSet
<1> QED
  BY <1>1, <1>2, <1>3

----------------------------------------------------------------------------
(* Steps of the view.                                                      *)

seenVars == <<ratchetSeen, generated, rotations, netSeen, deliveredSeen, returnedSeen>>

LEMMA ViewTypes == WellFormed => Seen!TypeOK
<1> SUFFICES ASSUME WellFormed PROVE Seen!TypeOK
  OBVIOUS
<1>1. /\ ratchet \in [Role -> RatchetState] /\ committed \in [Role -> RatchetState]
      /\ generated \in [Role -> Nat] /\ rotations \in Nat
      /\ net \subseteq InnerFrame
      /\ delivered \in [Role -> SUBSET InnerFrame] /\ returned \in [Role -> Nat]
  BY DEF WellFormed, PersistTypeOK, TypeOK
<1>2. \A d \in Role : /\ pending[d].out \subseteq InnerFrame /\ pending[d].in \subseteq InnerFrame
                      /\ IsFiniteSet(pending[d].in)
  BY DEF WellFormed, PersistTypeOK, PendingInv
<1>3. \A d \in Role : Cardinality(pending[d].in) \in Nat
  BY <1>2, FS_CardinalityType
<1>4. ratchetSeen \in [Role -> RatchetState]
  BY <1>1 DEF ratchetSeen
<1>5. netSeen \subseteq InnerFrame
  BY <1>1, <1>2 DEF netSeen
<1>6. deliveredSeen \in [Role -> SUBSET InnerFrame]
  BY <1>1, <1>2 DEF deliveredSeen
<1>7. returnedSeen \in [Role -> Nat]
  BY <1>1, <1>3 DEF returnedSeen
<1>8. Seen!TypeOK <=> /\ ratchetSeen \in [Role -> RatchetState]
                      /\ generated \in [Role -> Nat]
                      /\ rotations \in Nat
                      /\ netSeen \subseteq InnerFrame
                      /\ deliveredSeen \in [Role -> SUBSET InnerFrame]
                      /\ returnedSeen \in [Role -> Nat]
  BY SameOperators, SameSets DEF Seen!TypeOK
<1> QED
  BY <1>1, <1>4, <1>5, <1>6, <1>7, <1>8

\* A step of Ratchet, or none.
LEMMA ViewNext ==
    ASSUME Sound, Seen!Next \/ UNCHANGED seenVars
    PROVE  Sound'
<1>1. Seen!RatchetInv /\ Seen!SyncInv /\ [Seen!Next]_(Seen!vars)
  BY DEF Sound, seenVars, Seen!vars
<1>2. Seen!RatchetInv' /\ Seen!SyncInv'
  BY <1>1, LimitsAssumption, Seen!NextInv, Seen!SyncNext
<1> QED
  BY <1>2 DEF Sound

\* Key pairs and rotations of an endpoint that has not committed them, and a
\* sending chain moved on by encrypt calls on an exhausted counter.
LEMMA ViewDrift ==
    ASSUME Sound, WellFormed', Seen!Drift
    PROVE  Sound'
<1>1. Seen!TypeOK'
  BY ViewTypes, PTL
<1>2. Seen!RatchetInv' /\ Seen!SyncInv'
  BY <1>1, LimitsAssumption, Seen!DriftRatchet, Seen!DriftSync DEF Sound
<1> QED
  BY <1>2 DEF Sound

----------------------------------------------------------------------------
(* The operations of a kept endpoint are steps of Ratchet.                 *)

\* Whatever e does in memory, only e's part of the view changes.
LEMMA KeptRatchet ==
    ASSUME WellFormed, NEW e \in Role, e \in Keep, NEW n,
           ratchet' = [ratchet EXCEPT ![e] = n], committed' = committed
    PROVE  /\ ratchetSeen[e] = ratchet[e]
           /\ ratchetSeen' = [ratchetSeen EXCEPT ![e] = n]
<1>1. ratchet \in [Role -> RatchetState]
  BY DEF WellFormed, PersistTypeOK, TypeOK
<1> QED
  BY <1>1 DEF ratchetSeen

LEMMA SealedView ==
    ASSUME WellFormed, NEW e \in Role, e \in Keep, NEW f,
           pending' = [pending EXCEPT ![e].out = @ \cup {f}],
           UNCHANGED <<net, delivered, returned>>
    PROVE  /\ netSeen' = netSeen \cup {f}
           /\ deliveredSeen' = deliveredSeen /\ returnedSeen' = returnedSeen
<1>1. pending \in [Role -> [out : SUBSET InnerFrame, in : SUBSET InnerFrame]]
  BY DEF WellFormed, PendingInv
<1>2. /\ pending'[e].out = pending[e].out \cup {f}
      /\ \A d \in Role : d # e => pending'[d] = pending[d]
      /\ \A d \in Role : pending'[d].in = pending[d].in
  BY <1>1
<1>3. netSeen' = netSeen \cup {f}
  <2>1. ASSUME NEW g PROVE g \in netSeen' <=> g \in netSeen \cup {f}
    <3>1. g \in netSeen' <=> g \in net \/ \E d \in Role \cap Keep : g \in pending'[d].out
      BY DEF netSeen
    <3>2. g \in netSeen <=> g \in net \/ \E d \in Role \cap Keep : g \in pending[d].out
      BY DEF netSeen
    <3> QED
      BY <1>2, <3>1, <3>2
  <2> QED
    BY <2>1
<1>4. deliveredSeen' = deliveredSeen
  BY <1>2 DEF deliveredSeen
<1>5. returnedSeen' = returnedSeen
  BY <1>2 DEF returnedSeen
<1> QED
  BY <1>3, <1>4, <1>5

LEMMA OpenedView ==
    ASSUME WellFormed, NEW e \in Role, e \in Keep, NEW f, f \notin pending[e].in,
           pending' = [pending EXCEPT ![e].in = @ \cup {f}],
           UNCHANGED <<net, delivered, returned>>
    PROVE  /\ netSeen' = netSeen
           /\ deliveredSeen' = [deliveredSeen EXCEPT ![e] = @ \cup {f}]
           /\ returnedSeen' = [returnedSeen EXCEPT ![e] = @ + 1]
<1>1. /\ pending \in [Role -> [out : SUBSET InnerFrame, in : SUBSET InnerFrame]]
      /\ IsFiniteSet(pending[e].in) /\ returned[e] \in Nat
  BY DEF WellFormed, PendingInv, PersistTypeOK, TypeOK
<1>2. /\ pending'[e].in = pending[e].in \cup {f}
      /\ \A d \in Role : d # e => pending'[d] = pending[d]
      /\ \A d \in Role : pending'[d].out = pending[d].out
  BY <1>1
<1>3. /\ Cardinality(pending[e].in \cup {f}) = Cardinality(pending[e].in) + 1
      /\ Cardinality(pending[e].in) \in Nat
  BY <1>1, FS_AddElement, FS_CardinalityType
<1>4. netSeen' = netSeen
  BY <1>2 DEF netSeen
<1>5. deliveredSeen' = [deliveredSeen EXCEPT ![e] = @ \cup {f}]
  BY <1>2 DEF deliveredSeen
<1>6. returned[e] + Cardinality(pending'[e].in) = returned[e] + Cardinality(pending[e].in) + 1
  BY <1>1, <1>2, <1>3
<1>7. returnedSeen' = [returnedSeen EXCEPT ![e] = @ + 1]
  <2>1. returnedSeen[e] + 1 = returned[e] + Cardinality(pending'[e].in)
    BY <1>6 DEF returnedSeen
  <2>2. \A d \in Role : returnedSeen'[d] = IF d = e THEN returnedSeen[e] + 1 ELSE returnedSeen[d]
    BY <1>2, <2>1 DEF returnedSeen
  <2>3. /\ returnedSeen = [d \in Role |-> returnedSeen[d]]
        /\ returnedSeen' = [d \in Role |-> returnedSeen'[d]]
    BY DEF returnedSeen
  <2> QED
    BY <2>2, <2>3
<1> QED
  BY <1>4, <1>5, <1>7

\* MaxFrames bounds what is sealed in every view.
LEMMA ViewRoom ==
    ASSUME WellFormed,
           emitted + Cardinality(pending["Initiator"].out \cup pending["Responder"].out) < MaxFrames
    PROVE  Cardinality(netSeen) < MaxFrames
<1> DEFINE waiting == pending["Initiator"].out \cup pending["Responder"].out
<1>1. /\ "Initiator" \in Role /\ "Responder" \in Role
      /\ IsFiniteSet(pending["Initiator"].out) /\ IsFiniteSet(pending["Responder"].out)
      /\ IsFiniteSet(net) /\ emitted = Cardinality(net)
  BY DEF WellFormed, BookInv, Role
<1>2. IsFiniteSet(waiting)
  BY <1>1, FS_Union
<1>3. /\ IsFiniteSet(net \cup waiting)
      /\ Cardinality(net \cup waiting)
           = Cardinality(net) + Cardinality(waiting) - Cardinality(net \cap waiting)
  BY <1>1, <1>2, FS_Union
<1>4. netSeen \subseteq net \cup waiting
  BY DEF netSeen, Role
<1>5. Cardinality(netSeen) <= Cardinality(net \cup waiting) /\ Cardinality(netSeen) \in Nat
  BY <1>3, <1>4, FS_Subset, FS_CardinalityType
<1>6. IsFiniteSet(net \cap waiting)
  BY <1>1, FS_Intersection
<1>7. /\ Cardinality(net) \in Nat /\ Cardinality(waiting) \in Nat
      /\ Cardinality(net \cap waiting) \in Nat
  BY <1>1, <1>2, <1>6, FS_CardinalityType
<1> QED
  BY <1>1, <1>3, <1>5, <1>7, LimitsAssumption

LEMMA KeptEncrypt ==
    ASSUME Sound, WellFormed, NEW e \in Role, e \in Keep, LocalEncrypt(e)
    PROVE  Sound'
<1> DEFINE r == ratchet[e]
<1>1. /\ r.sending_count < COUNTER_MAX
      /\ pending' = [pending EXCEPT ![e].out = @ \cup {Frame(r)}]
      /\ ratchet' = [ratchet EXCEPT ![e] = AfterEncrypt(r)]
      /\ UNCHANGED <<generated, rotations, net, delivered, returned, committed>>
  BY DEF LocalEncrypt, Durable
<1>2. ratchetSeen[e] = r /\ ratchetSeen' = [ratchetSeen EXCEPT ![e] = AfterEncrypt(r)]
  BY <1>1, KeptRatchet
<1>3. /\ netSeen' = netSeen \cup {Frame(r)}
      /\ deliveredSeen' = deliveredSeen /\ returnedSeen' = returnedSeen
  BY <1>1, SealedView
<1>4. Cardinality(netSeen) < MaxFrames
  BY ViewRoom DEF LocalEncrypt
<1>5. Seen!Encrypt(e)
  BY <1>1, <1>2, <1>3, <1>4, SameSendingOperators, SameSets DEF Seen!Encrypt
<1>6. Seen!Next
  BY <1>5, SameOperators DEF Seen!Next
<1> QED
  BY <1>6, ViewNext

LEMMA KeptExhausted ==
    ASSUME Sound, WellFormed, NEW e \in Role, e \in Keep, LocalEncryptExhausted(e)
    PROVE  Sound'
<1> DEFINE r == ratchet[e]
           n == [r EXCEPT !.sending_chain = Advance(@, 1)]
<1>1. /\ r.sending_count = COUNTER_MAX
      /\ r.sending_chain.pos < COUNTER_MAX + MaxExhausted
      /\ ratchet' = [ratchet EXCEPT ![e] = n]
      /\ UNCHANGED <<generated, rotations, pending, net, delivered, returned, committed>>
  BY DEF LocalEncryptExhausted, Durable
<1>2. ratchetSeen[e] = r /\ ratchetSeen' = [ratchetSeen EXCEPT ![e] = n]
  BY <1>1, KeptRatchet
<1>3. netSeen' = netSeen /\ deliveredSeen' = deliveredSeen /\ returnedSeen' = returnedSeen
  BY <1>1 DEF netSeen, deliveredSeen, returnedSeen
<1>4. ratchetSeen' = [ratchetSeen EXCEPT ![e].sending_chain = Seen!Advance(@, 1)]
  BY <1>2, SameSendingOperators
<1>5. Seen!EncryptExhausted(e)
  BY <1>1, <1>2, <1>3, <1>4 DEF Seen!EncryptExhausted
<1>6. Seen!Next
  BY <1>5, SameOperators DEF Seen!Next
<1> QED
  BY <1>6, ViewNext

LEMMA KeptRotate ==
    ASSUME Sound, WellFormed, NEW e \in Role, e \in Keep, LocalRotate(e)
    PROVE  Sound'
<1> DEFINE n == AfterRotation(ratchet[e], generate(e))
<1>1. /\ rotations < MaxRotations /\ rotations' = rotations + 1
      /\ ratchet' = [ratchet EXCEPT ![e] = n]
      /\ generated' = [generated EXCEPT ![e] = @ + 1]
      /\ UNCHANGED <<pending, net, delivered, returned, committed>>
  BY DEF LocalRotate, Durable
<1>2. ratchetSeen[e] = ratchet[e] /\ ratchetSeen' = [ratchetSeen EXCEPT ![e] = n]
  BY <1>1, KeptRatchet
<1>3. netSeen' = netSeen /\ deliveredSeen' = deliveredSeen /\ returnedSeen' = returnedSeen
  BY <1>1 DEF netSeen, deliveredSeen, returnedSeen
<1>4. ratchetSeen' = [ratchetSeen EXCEPT ![e] = Seen!AfterRotation(@, Seen!generate(e))]
  BY <1>2, SameSendingOperators
<1>5. Seen!RotateSendingRatchet(e)
  BY <1>1, <1>3, <1>4 DEF Seen!RotateSendingRatchet
<1>6. Seen!Next
  BY <1>5, SameOperators DEF Seen!Next
<1> QED
  BY <1>6, ViewNext

\* A frame that opens is neither delivered nor waiting.
LEMMA KeptOpens ==
    ASSUME Sound, NEW e \in Role, e \in Keep, NEW f,
           SameSession(ratchet[e], f),
           \/ \E i \in 1..Len(ratchet[e].skipped) : OpensSkipped(ratchet[e], f, i)
           \/ OpensSameRatchet(ratchet[e], f)
           \/ OpensNewRatchet(ratchet[e], f)
    PROVE  f \notin pending[e].in /\ f \notin delivered[e]
<1>1. ratchetSeen[e] = ratchet[e] /\ deliveredSeen[e] = delivered[e] \cup pending[e].in
  BY DEF ratchetSeen, deliveredSeen
<1>2. Seen!Accepts(ratchetSeen[e], f)
  BY <1>1, SameReceivingOperators DEF Seen!Accepts
<1>3. Seen!DeliveredAtMostOnce
  BY LimitsAssumption, Seen!ReplayRefused DEF Sound
<1>4. f \notin deliveredSeen[e]
  BY <1>2, <1>3, SameOperators DEF Seen!DeliveredAtMostOnce
<1> QED
  BY <1>1, <1>4

LEMMA KeptReceive ==
    ASSUME WellFormed, NEW e \in Role, e \in Keep, NEW f \in net, NEW r,
           LocalReceive(e, f, r), f \notin pending[e].in
    PROVE  /\ ratchetSeen[e] = ratchet[e]
           /\ ratchetSeen' = [ratchetSeen EXCEPT ![e] = r]
           /\ netSeen' = netSeen
           /\ Seen!Return(e, f)
           /\ Seen!ReturnUnlessExhausted(e, f)
           /\ f \in Seen!Arrivals
<1>1. f.message_number \in 0..COUNTER_MAX /\ f.message_number < COUNTER_MAX
  BY DEF WellFormed, PersistTypeOK, TypeOK, PendingInv, InnerFrame
<1>2. f.message_number # COUNTER_MAX
  BY <1>1, LimitsAssumption
<1>3. /\ ratchet' = [ratchet EXCEPT ![e] = r]
      /\ pending' = [pending EXCEPT ![e].in = @ \cup {f}]
      /\ UNCHANGED <<net, delivered, returned, committed>>
  BY <1>2 DEF LocalReceive, Durable
<1>4. /\ netSeen' = netSeen
      /\ deliveredSeen' = [deliveredSeen EXCEPT ![e] = @ \cup {f}]
      /\ returnedSeen' = [returnedSeen EXCEPT ![e] = @ + 1]
  BY <1>3, OpenedView
<1>5. Seen!Return(e, f)
  BY <1>4 DEF Seen!Return
<1>6. f \in Seen!Arrivals
  BY DEF Seen!Arrivals, netSeen
<1> QED
  BY <1>2, <1>3, <1>4, <1>5, <1>6, KeptRatchet DEF Seen!ReturnUnlessExhausted

LEMMA KeptDecrypt ==
    ASSUME Sound, WellFormed, NEW e \in Role, e \in Keep, NEW f \in net,
           \/ LocalDecryptSkipped(e, f)
           \/ LocalDecryptSameRatchet(e, f)
           \/ LocalDecryptNewRatchet(e, f)
    PROVE  Sound'
<1> DEFINE r == ratchet[e]
<1>1. CASE LocalDecryptSkipped(e, f)
  <2>1. PICK i \in 1..Len(r.skipped) :
          OpensSkipped(r, f, i) /\ LocalReceive(e, f, AfterSkipped(r, i))
    BY <1>1 DEF LocalDecryptSkipped
  <2>2. SameSession(r, f) /\ UNCHANGED <<generated, rotations>>
    BY <1>1, <2>1 DEF LocalDecryptSkipped, LocalReceive
  <2>3. f \notin pending[e].in
    BY <2>1, <2>2, KeptOpens
  <2>4. /\ ratchetSeen[e] = r /\ ratchetSeen' = [ratchetSeen EXCEPT ![e] = AfterSkipped(r, i)]
        /\ netSeen' = netSeen /\ Seen!Return(e, f) /\ f \in Seen!Arrivals
    BY <2>1, <2>3, KeptReceive
  <2>5. Seen!DecryptSkipped(e, f)
    BY <2>1, <2>2, <2>4, SameReceivingOperators DEF Seen!DecryptSkipped
  <2>6. Seen!Next
    BY <2>4, <2>5, SameOperators DEF Seen!Next, Seen!Decrypt
  <2> QED
    BY <2>6, ViewNext
<1>2. CASE LocalDecryptSameRatchet(e, f)
  <2>1. /\ OpensSameRatchet(r, f) /\ LocalReceive(e, f, AfterSameRatchet(r, f))
        /\ SameSession(r, f) /\ UNCHANGED <<generated, rotations>>
    BY <1>2 DEF LocalDecryptSameRatchet, LocalReceive
  <2>2. f \notin pending[e].in
    BY <2>1, KeptOpens
  <2>3. /\ ratchetSeen[e] = r
        /\ ratchetSeen' = [ratchetSeen EXCEPT ![e] = AfterSameRatchet(r, f)]
        /\ netSeen' = netSeen /\ Seen!ReturnUnlessExhausted(e, f) /\ f \in Seen!Arrivals
    BY <2>1, <2>2, KeptReceive
  <2>4. Seen!DecryptSameRatchet(e, f)
    BY <2>1, <2>3, SameReceivingOperators DEF Seen!DecryptSameRatchet
  <2>5. Seen!Next
    BY <2>3, <2>4, SameOperators DEF Seen!Next, Seen!Decrypt
  <2> QED
    BY <2>5, ViewNext
<1>3. CASE LocalDecryptNewRatchet(e, f)
  <2>1. /\ OpensNewRatchet(r, f) /\ LocalReceive(e, f, AfterNewRatchet(r, f, generate(e)))
        /\ generated' = [generated EXCEPT ![e] = @ + 1]
        /\ SameSession(r, f) /\ rotations' = rotations
    BY <1>3 DEF LocalDecryptNewRatchet, LocalReceive
  <2>2. f \notin pending[e].in
    BY <2>1, KeptOpens
  <2>3. /\ ratchetSeen[e] = r
        /\ ratchetSeen' = [ratchetSeen EXCEPT ![e] = AfterNewRatchet(r, f, generate(e))]
        /\ netSeen' = netSeen /\ Seen!ReturnUnlessExhausted(e, f) /\ f \in Seen!Arrivals
    BY <2>1, <2>2, KeptReceive
  <2>4. Seen!DecryptNewRatchet(e, f)
    BY <2>1, <2>3, SameReceivingOperators, SameSendingOperators DEF Seen!DecryptNewRatchet
  <2>5. Seen!Next
    BY <2>3, <2>4, SameOperators DEF Seen!Next, Seen!Decrypt
  <2> QED
    BY <2>5, ViewNext
<1> QED
  BY <1>1, <1>2, <1>3

----------------------------------------------------------------------------
(* The operations of another endpoint are not seen; commits, crashes and    *)
(* restores are seen only against the assumption of the view.               *)

LEMMA SameDrifts ==
    ASSUME NEW r \in RatchetState, NEW s \in RatchetState, SameSessionState(s, r)
    PROVE  Seen!DriftsTo(r, s)
<1>1. CASE s = r
  BY <1>1 DEF Seen!DriftsTo, Seen!SameChain
<1>2. CASE s.sending_count = COUNTER_MAX /\ SendingAt(s, r.sending_chain.pos) = r
  <2> DEFINE n == r.sending_chain.pos
             m == SendingAt(s, n)
  <2>1. /\ m.session_id = s.session_id /\ m.suite = s.suite
        /\ m.root_key = s.root_key
        /\ m.dh_pair = s.dh_pair /\ m.remote_dh = s.remote_dh
        /\ m.previous_sending_chain_len = s.previous_sending_chain_len
        /\ m.sending_count = s.sending_count /\ m.receiving_count = s.receiving_count
        /\ m.receiving_chain = s.receiving_chain /\ m.skipped = s.skipped
        /\ m.sending_chain.label = s.sending_chain.label
        /\ m.sending_chain.root = s.sending_chain.root
    BY DEF SendingAt, RatchetState, ChainKey
  <2>2. m = r
    BY <1>2
  <2> HIDE DEF m
  <2>3. ~(r.sending_count < COUNTER_MAX)
    BY <1>2, <2>1, <2>2, LimitsAssumption
  <2> QED
    BY <2>1, <2>2, <2>3 DEF Seen!DriftsTo, Seen!SameChain
<1> QED
  BY <1>1, <1>2 DEF SameSessionState

LEMMA UnkeptLocal ==
    ASSUME Sound, WellFormed', NEW e \in Role, e \notin Keep,
           \A d \in Role : d # e => ratchet'[d] = ratchet[d] /\ pending'[d] = pending[d],
           \A d \in Role : generated[d] <= generated'[d],
           rotations <= rotations',
           UNCHANGED Durable
    PROVE  Sound'
<1>1. \A d \in Role \cap Keep : ratchet'[d] = ratchet[d] /\ pending'[d] = pending[d]
  OBVIOUS
<1>2. UNCHANGED <<net, delivered, returned, committed>>
  BY DEF Durable
<1>3. ratchetSeen' = ratchetSeen
  BY <1>1, <1>2 DEF ratchetSeen
<1>4. netSeen' = netSeen
  BY <1>1, <1>2 DEF netSeen
<1>5. deliveredSeen' = deliveredSeen
  BY <1>1, <1>2 DEF deliveredSeen
<1>6. \A d \in Role : Seen!DriftsTo(ratchetSeen[d], ratchetSeen'[d])
  BY <1>3 DEF Seen!DriftsTo, Seen!SameChain
<1>7. Seen!Drift
  BY <1>4, <1>5, <1>6, SameOperators DEF Seen!Drift
<1> QED
  BY <1>7, ViewDrift

\* Restoring what was committed leaves every view as it was.
LEMMA ViewRestore ==
    ASSUME Sound, WellFormed, WellFormed', NEW e \in Role, NEW record, Restore(e, record),
           decode_state(record) \in RatchetState,
           SameSessionState(decode_state(record), committed[e])
    PROVE  Sound'
<1> DEFINE s == decode_state(record)
<1>1. /\ ratchet' = [ratchet EXCEPT ![e] = s]
      /\ UNCHANGED <<generated, rotations, net, delivered, returned, pending, committed>>
  BY DEF Restore
<1>2. /\ ratchet \in [Role -> RatchetState] /\ committed \in [Role -> RatchetState]
      /\ ratchet[e] = committed[e]
      /\ \A d \in Role : generated[d] \in Nat
      /\ rotations \in Nat
  BY DEF Restore, WellFormed, BookInv, PersistTypeOK, TypeOK
<1>3. Seen!DriftsTo(committed[e], s)
  BY <1>2, SameDrifts
<1> HIDE DEF s
<1>4. ASSUME NEW d \in Role
      PROVE  Seen!DriftsTo(ratchetSeen[d], ratchetSeen'[d])
  <2>1. CASE d = e /\ d \in Keep
    <3>1. ratchetSeen[d] = committed[e] /\ ratchetSeen'[d] = s
      BY <1>1, <1>2, <2>1 DEF ratchetSeen
    <3> QED
      BY <1>3, <3>1
  <2>2. CASE d # e \/ d \notin Keep
    <3>1. ratchetSeen'[d] = ratchetSeen[d]
      BY <1>1, <1>2, <2>2 DEF ratchetSeen
    <3> QED
      BY <3>1 DEF Seen!DriftsTo, Seen!SameChain
  <2> QED
    BY <2>1, <2>2
<1>5. netSeen' = netSeen
  BY <1>1 DEF netSeen
<1>6. deliveredSeen' = deliveredSeen
  BY <1>1 DEF deliveredSeen
<1>7. Seen!Drift
  BY <1>1, <1>2, <1>4, <1>5, <1>6, SameOperators DEF Seen!Drift
<1> QED
  BY <1>7, ViewDrift

\* The commit of a kept endpoint makes real what the view took for real.
LEMMA KeptCommit ==
    ASSUME Sound, WellFormed, NEW e \in Role, e \in Keep, Commit(e)
    PROVE  Sound'
<1>1. /\ committed' = [committed EXCEPT ![e] = ratchet[e]]
      /\ net' = net \cup pending[e].out
      /\ delivered' = [delivered EXCEPT ![e] = @ \cup pending[e].in]
      /\ returned' = [returned EXCEPT ![e] = @ + Cardinality(pending[e].in)]
      /\ pending' = [pending EXCEPT ![e] = Nothing]
      /\ UNCHANGED <<ratchet, generated, rotations>>
  BY DEF Commit
<1>2. /\ pending \in [Role -> [out : SUBSET InnerFrame, in : SUBSET InnerFrame]]
      /\ committed \in [Role -> RatchetState]
      /\ delivered \in [Role -> SUBSET InnerFrame] /\ returned \in [Role -> Nat]
      /\ IsFiniteSet(pending[e].in)
  BY DEF WellFormed, PendingInv, PersistTypeOK, TypeOK
<1>3. /\ pending'[e].out = {} /\ pending'[e].in = {}
      /\ \A d \in Role : d # e => pending'[d] = pending[d]
  BY <1>1, <1>2 DEF Nothing
<1>4. /\ delivered'[e] = delivered[e] \cup pending[e].in
      /\ \A d \in Role : d # e => delivered'[d] = delivered[d]
      /\ returned'[e] = returned[e] + Cardinality(pending[e].in)
      /\ \A d \in Role : d # e => returned'[d] = returned[d] /\ committed'[d] = committed[d]
  BY <1>1, <1>2
<1>5. /\ Cardinality(pending'[e].in) = 0 /\ Cardinality(pending[e].in) \in Nat
      /\ returned[e] \in Nat
  BY <1>2, <1>3, FS_EmptySet, FS_CardinalityType
<1>6. ratchetSeen' = ratchetSeen
  BY <1>1, <1>4 DEF ratchetSeen
<1>7. netSeen' = netSeen
  <2>1. ASSUME NEW g PROVE g \in netSeen' <=> g \in netSeen
    <3>1. g \in netSeen' <=> \/ g \in net \/ g \in pending[e].out
                             \/ \E d \in Role \cap Keep : g \in pending'[d].out
      BY <1>1 DEF netSeen
    <3>2. g \in netSeen <=> g \in net \/ \E d \in Role \cap Keep : g \in pending[d].out
      BY DEF netSeen
    <3> QED
      BY <1>3, <3>1, <3>2
  <2> QED
    BY <2>1
<1>8. deliveredSeen' = deliveredSeen
  <2>1. \A d \in Role : deliveredSeen'[d] = deliveredSeen[d]
    BY <1>3, <1>4 DEF deliveredSeen
  <2>2. /\ deliveredSeen = [d \in Role |-> deliveredSeen[d]]
        /\ deliveredSeen' = [d \in Role |-> deliveredSeen'[d]]
    BY DEF deliveredSeen
  <2> QED
    BY <2>1, <2>2
<1>9. returnedSeen' = returnedSeen
  <2>1. returned'[e] + Cardinality(pending'[e].in) = returned[e] + Cardinality(pending[e].in)
    BY <1>4, <1>5
  <2>2. \A d \in Role : returnedSeen'[d] = returnedSeen[d]
    BY <1>3, <1>4, <2>1 DEF returnedSeen
  <2>3. /\ returnedSeen = [d \in Role |-> returnedSeen[d]]
        /\ returnedSeen' = [d \in Role |-> returnedSeen'[d]]
    BY DEF returnedSeen
  <2> QED
    BY <2>2, <2>3
<1>10. UNCHANGED seenVars
  BY <1>1, <1>6, <1>7, <1>8, <1>9 DEF seenVars
<1> QED
  BY <1>10, ViewNext

\* The crash of another endpoint loses what the view took for lost.
LEMMA UnkeptCrash ==
    ASSUME Sound, WellFormed, NEW e \in Role, e \notin Keep, Crash(e)
    PROVE  Sound'
<1>1. /\ ratchet' = [ratchet EXCEPT ![e] = committed[e]]
      /\ pending' = [pending EXCEPT ![e] = Nothing]
      /\ UNCHANGED <<generated, rotations, net, delivered, returned, committed>>
  BY DEF Crash
<1>2. /\ pending \in [Role -> [out : SUBSET InnerFrame, in : SUBSET InnerFrame]]
      /\ ratchet \in [Role -> RatchetState]
  BY DEF WellFormed, PendingInv, PersistTypeOK, TypeOK
<1>3. \A d \in Role \cap Keep : ratchet'[d] = ratchet[d] /\ pending'[d] = pending[d]
  BY <1>1, <1>2
<1>4. ratchetSeen' = ratchetSeen
  BY <1>1, <1>3 DEF ratchetSeen
<1>5. netSeen' = netSeen
  BY <1>1, <1>3 DEF netSeen
<1>6. deliveredSeen' = deliveredSeen
  BY <1>1, <1>3 DEF deliveredSeen
<1>7. returnedSeen' = returnedSeen
  BY <1>1, <1>3 DEF returnedSeen
<1>8. UNCHANGED seenVars
  BY <1>1, <1>4, <1>5, <1>6, <1>7 DEF seenVars
<1> QED
  BY <1>8, ViewNext

----------------------------------------------------------------------------
(* All steps.                                                              *)

LEMMA ViewInit == PersistInit => Sound
<1> SUFFICES ASSUME PersistInit PROVE Sound
  OBVIOUS
<1>1. /\ Init /\ committed = ratchet
      /\ pending = [d \in Role |-> Nothing]
  BY DEF PersistInit
<1>2. PICK suite \in [Role -> Suites] :
        ratchet = [d \in Role |-> from_authenticated_handshake_with_suite(d, suite[d])]
  BY <1>1 DEF Init
<1>3. /\ generated = [d \in Role |-> 0] /\ rotations = 0 /\ net = {}
      /\ delivered = [d \in Role |-> {}] /\ returned = [d \in Role |-> 0]
  BY <1>1 DEF Init
<1>4. \A d \in Role : pending[d].out = {} /\ pending[d].in = {}
  BY <1>1 DEF Nothing
<1>5. ratchetSeen = ratchet
  BY <1>1, <1>2 DEF ratchetSeen
<1>6. netSeen = {}
  BY <1>3, <1>4 DEF netSeen
<1>7. deliveredSeen = [d \in Role |-> {}]
  BY <1>3, <1>4 DEF deliveredSeen
<1>8. Cardinality({}) = 0
  BY FS_EmptySet
<1>9. returnedSeen = [d \in Role |-> 0]
  <2>1. ASSUME NEW d \in Role PROVE returnedSeen[d] = 0
    <3>1. returned[d] = 0 /\ Cardinality(pending[d].in) = 0
      BY <1>3, <1>4, <1>8
    <3>2. returned[d] + Cardinality(pending[d].in) = 0
      BY <3>1
    <3> QED
      BY <3>1, <3>2 DEF returnedSeen
  <2> QED
    BY <2>1 DEF returnedSeen
<1>10. \A r, x : Seen!from_authenticated_handshake_with_suite(r, x)
                   = from_authenticated_handshake_with_suite(r, x)
  BY DEF Seen!from_authenticated_handshake_with_suite, from_authenticated_handshake_with_suite,
         Seen!INIT_A_TO_B_LABEL, INIT_A_TO_B_LABEL, Seen!INIT_B_TO_A_LABEL, INIT_B_TO_A_LABEL,
         Seen!Session, Session, Seen!Peer, Peer
<1>11. Seen!Init
  BY <1>2, <1>3, <1>5, <1>6, <1>7, <1>9, <1>10, SameOperators DEF Seen!Init
<1> QED
  BY <1>11, LimitsAssumption, Seen!InitInv, Seen!SyncInit DEF Sound

LEMMA ViewStutter ==
    ASSUME Sound, UNCHANGED persistVars
    PROVE  Sound'
<1>1. UNCHANGED <<ratchet, generated, rotations, net, delivered, returned, pending, committed>>
  BY DEF persistVars, vars
<1>2. UNCHANGED seenVars
  BY <1>1 DEF seenVars, ratchetSeen, netSeen, deliveredSeen, returnedSeen
<1> QED
  BY <1>2, ViewNext

\* The view stays sound, unless the step goes against its assumption.
LEMMA ViewStep ==
    ASSUME Sound, WellFormed, WellFormed', RestoresCommit, [PersistNext]_persistVars
    PROVE  \/ Sound'
           \/ \E e \in Role : Commit(e) /\ e \notin Keep
           \/ \E e \in Role : Crash(e) /\ e \in Keep
<1>1. CASE UNCHANGED persistVars
  BY <1>1, ViewStutter
<1>2. ASSUME NEW e \in Role, \/ LocalEncrypt(e)
                             \/ LocalEncryptExhausted(e)
                             \/ LocalRotate(e)
                             \/ \E f \in net : \/ LocalDecryptSkipped(e, f)
                                               \/ LocalDecryptSameRatchet(e, f)
                                               \/ LocalDecryptNewRatchet(e, f)
      PROVE  Sound'
  <2>1. CASE e \in Keep
    BY <1>2, <2>1, KeptEncrypt, KeptExhausted, KeptRotate, KeptDecrypt
  <2>2. CASE e \notin Keep
    <3>1. /\ ratchet \in [Role -> RatchetState]
          /\ pending \in [Role -> [out : SUBSET InnerFrame, in : SUBSET InnerFrame]]
          /\ generated \in [Role -> Nat] /\ rotations \in Nat
      BY DEF WellFormed, PersistTypeOK, TypeOK, PendingInv
    <3>2. /\ \E n : ratchet' = [ratchet EXCEPT ![e] = n]
          /\ \E p : pending' = [pending EXCEPT ![e] = p]
          /\ generated' \in {generated, [generated EXCEPT ![e] = @ + 1]}
          /\ rotations' \in {rotations, rotations + 1}
          /\ UNCHANGED Durable
      <4>1. pending = [pending EXCEPT ![e] = pending[e]]
        BY <3>1
      <4>2. CASE LocalEncrypt(e)
        BY <4>2 DEF LocalEncrypt
      <4>3. CASE LocalEncryptExhausted(e)
        BY <4>1, <4>3 DEF LocalEncryptExhausted
      <4>4. CASE LocalRotate(e)
        BY <4>1, <4>4 DEF LocalRotate
      <4>5. ASSUME NEW f, NEW r, LocalReceive(e, f, r)
            PROVE  /\ \E n : ratchet' = [ratchet EXCEPT ![e] = n]
                   /\ \E p : pending' = [pending EXCEPT ![e] = p]
                   /\ rotations' = rotations /\ UNCHANGED Durable
        BY <4>1, <4>5 DEF LocalReceive
      <4>6. ASSUME NEW f \in net, LocalDecryptSkipped(e, f)
            PROVE  (\E r : LocalReceive(e, f, r)) /\ generated' = generated
        BY <4>6 DEF LocalDecryptSkipped
      <4>7. ASSUME NEW f \in net, LocalDecryptSameRatchet(e, f)
            PROVE  (\E r : LocalReceive(e, f, r)) /\ generated' = generated
        BY <4>7 DEF LocalDecryptSameRatchet
      <4>8. ASSUME NEW f \in net, LocalDecryptNewRatchet(e, f)
            PROVE  /\ \E r : LocalReceive(e, f, r)
                   /\ generated' = [generated EXCEPT ![e] = @ + 1]
        BY <4>8 DEF LocalDecryptNewRatchet
      <4> QED
        BY <1>2, <4>2, <4>3, <4>4, <4>5, <4>6, <4>7, <4>8
    <3>3. \A d \in Role : d # e => ratchet'[d] = ratchet[d] /\ pending'[d] = pending[d]
      BY <3>1, <3>2
    <3>4. \A d \in Role : generated[d] <= generated'[d]
      BY <3>1, <3>2
    <3>5. rotations <= rotations'
      BY <3>1, <3>2
    <3> QED
      BY <2>2, <3>2, <3>3, <3>4, <3>5, UnkeptLocal
  <2> QED
    BY <2>1, <2>2
<1>3. ASSUME NEW e \in Role, NEW record \in AllRecords, Restore(e, record)
      PROVE  Sound'
  <2>1. /\ decode_state(record) \in RatchetState
        /\ SameSessionState(decode_state(record), committed[e])
    BY <1>3 DEF RestoresCommit, Restore
  <2> QED
    BY <1>3, <2>1, ViewRestore
<1>4. ASSUME NEW e \in Role, \/ \E f \in net : LocalDecryptRejected(e, f)
                             \/ \E record \in AllRecords : RestoreRefused(e, record)
      PROVE  Sound'
  BY <1>4, ViewStutter DEF LocalDecryptRejected, RestoreRefused
<1>5. ASSUME NEW e \in Role, Commit(e), e \in Keep
      PROVE  Sound'
  BY <1>5, KeptCommit
<1>6. ASSUME NEW e \in Role, Crash(e), e \notin Keep
      PROVE  Sound'
  BY <1>6, UnkeptCrash
<1>7. CASE PersistNext
  <2>1. PICK e \in Role :
          \/ LocalEncrypt(e)
          \/ LocalEncryptExhausted(e)
          \/ LocalRotate(e)
          \/ \E f \in net :
               \/ LocalDecryptSkipped(e, f)
               \/ LocalDecryptSameRatchet(e, f)
               \/ LocalDecryptNewRatchet(e, f)
               \/ LocalDecryptRejected(e, f)
          \/ Commit(e)
          \/ Crash(e)
          \/ \E record \in AllRecords : Restore(e, record) \/ RestoreRefused(e, record)
    BY <1>7 DEF PersistNext
  <2> QED
    BY <1>2, <1>3, <1>4, <1>5, <1>6, <2>1
<1> QED
  BY <1>1, <1>7

----------------------------------------------------------------------------
(* What a sound view says of the session.                                  *)

LEMMA SoundKeys == Sound => KeyUsedOnce
<1> SUFFICES ASSUME Sound PROVE KeyUsedOnce
  OBVIOUS
<1>1. Seen!KeyUsedOnce
  BY LimitsAssumption, Seen!KeysOnce DEF Sound
<1> QED
  BY <1>1 DEF Seen!KeyUsedOnce, KeyUsedOnce, netSeen

LEMMA SoundSync == Role \subseteq Keep /\ Sound /\ rotations <= 1 => InSyncAcrossCrashes
<1> SUFFICES ASSUME Role \subseteq Keep, Sound, rotations <= 1 PROVE InSyncAcrossCrashes
  OBVIOUS
<1>1. Seen!InSync
  BY LimitsAssumption, Seen!InvInSync DEF Sound, Seen!SyncInv
<1>2. \A d \in Role : ratchetSeen[d] = ratchet[d]
  BY DEF ratchetSeen
<1>3. \A d \in Role : Peer(d) \in Role /\ Seen!Peer(d) = Peer(d)
  BY DEF Role, Peer, Seen!Peer
<1>4. \A r, f : Seen!CanFollow(r, f) <=> CanFollow(r, f)
  BY DEF Seen!CanFollow, CanFollow, Seen!Opens, Opens, Seen!KeyOf, KeyOf,
         Seen!Advance, Advance, Seen!root_chain, root_chain,
         Seen!ROOT_CHAIN_LABEL, ROOT_CHAIN_LABEL, Seen!next_root, next_root,
         Seen!diffie_hellman, diffie_hellman
<1> QED
  BY <1>1, <1>2, <1>3, <1>4, SameOperators, SameSendingOperators
     DEF Seen!InSync, InSyncAcrossCrashes

\* What is sealed next is under a number of its own.
LEMMA SoundFrame ==
    ASSUME Sound, WellFormed, NEW e \in Role, e \in Keep
    PROVE  Sender(Frame(ratchet[e])) = e /\ Frame(ratchet[e]) \notin net
<1> DEFINE r == ratchet[e]
           f == Frame(r)
<1>1. r \in RatchetState /\ ratchetSeen[e] = r
  BY DEF WellFormed, PersistTypeOK, TypeOK, ratchetSeen
<1>2. f.ratchet_public = r.dh_pair /\ f.message_number = r.sending_count
  BY DEF Frame
<1> HIDE DEF f
<1>3. Owner(r.dh_pair) = e
  BY <1>1, SameOperators DEF Sound, Seen!RatchetInv, Seen!KeysInv, Seen!Owner, Owner
<1>4. r.sending_count \in Nat
  BY <1>1, LimitsAssumption DEF RatchetState
<1>5. \A g \in net : g.ratchet_public = r.dh_pair => g.message_number < r.sending_count
  BY <1>1, SameOperators DEF Sound, Seen!RatchetInv, Seen!SendingInv, netSeen
<1>6. f \notin net
  BY <1>2, <1>4, <1>5
<1>7. Sender(f) = e
  BY <1>2, <1>3 DEF Sender
<1> QED
  BY <1>6, <1>7 DEF f

----------------------------------------------------------------------------
(* The books are kept.                                                     *)

LEMMA BookLocal ==
    ASSUME WellFormed, NEW e \in Role, up[e],
           \A d \in Role : d # e => ratchet'[d] = ratchet[d] /\ pending'[d] = pending[d],
           IsFiniteSet(pending'[e].out),
           \A f \in pending'[e].out : Sender(f) = e /\ f \notin net,
           pending'[e].in \cap delivered[e] = {},
           UNCHANGED Durable
    PROVE  BookInv'
<1>1. UNCHANGED <<net, delivered, returned, up, committed, emitted>>
  BY DEF Durable
<1>2. ASSUME NEW d \in Role
      PROVE  /\ ~up[d] => ratchet'[d] = committed[d] /\ pending'[d] = Nothing
             /\ IsFiniteSet(pending'[d].out)
             /\ \A f \in pending'[d].out : Sender(f) = d /\ f \notin net
             /\ pending'[d].in \cap delivered[d] = {}
             /\ IsFiniteSet(delivered[d]) /\ returned[d] = Cardinality(delivered[d])
  BY DEF WellFormed, BookInv
<1> QED
  BY <1>1, <1>2 DEF WellFormed, BookInv

LEMMA BookOperation ==
    ASSUME Sound, WellFormed, NEW e \in Role, e \in Keep,
           \/ LocalEncrypt(e)
           \/ LocalEncryptExhausted(e)
           \/ LocalRotate(e)
           \/ \E f \in net : \/ LocalDecryptSkipped(e, f)
                             \/ LocalDecryptSameRatchet(e, f)
                             \/ LocalDecryptNewRatchet(e, f)
    PROVE  BookInv'
<1>1. /\ ratchet \in [Role -> RatchetState]
      /\ pending \in [Role -> [out : SUBSET InnerFrame, in : SUBSET InnerFrame]]
  BY DEF WellFormed, PersistTypeOK, TypeOK, PendingInv
<1>2. /\ IsFiniteSet(pending[e].out)
      /\ \A f \in pending[e].out : Sender(f) = e /\ f \notin net
      /\ pending[e].in \cap delivered[e] = {}
  BY DEF WellFormed, BookInv
<1>3. CASE LocalEncrypt(e)
  <2> DEFINE f == Frame(ratchet[e])
  <2>1. /\ up[e] /\ UNCHANGED Durable
        /\ pending' = [pending EXCEPT ![e].out = @ \cup {f}]
        /\ \A d \in Role : d # e => ratchet'[d] = ratchet[d]
    BY <1>1, <1>3 DEF LocalEncrypt
  <2>2. Sender(f) = e /\ f \notin net
    BY SoundFrame
  <2> HIDE DEF f
  <2>3. /\ pending'[e].out = pending[e].out \cup {f} /\ pending'[e].in = pending[e].in
        /\ \A d \in Role : d # e => pending'[d] = pending[d]
    BY <1>1, <2>1
  <2>4. IsFiniteSet(pending[e].out \cup {f})
    BY <1>2, FS_AddElement
  <2> QED
    BY <1>2, <2>1, <2>2, <2>3, <2>4, BookLocal
<1>4. CASE LocalEncryptExhausted(e)
  <2>1. /\ up[e] /\ UNCHANGED Durable /\ pending' = pending
        /\ \A d \in Role : d # e => ratchet'[d] = ratchet[d]
    BY <1>1, <1>4 DEF LocalEncryptExhausted
  <2> QED
    BY <1>2, <2>1, BookLocal
<1>5. CASE LocalRotate(e)
  <2>1. /\ up[e] /\ UNCHANGED Durable /\ pending' = pending
        /\ \A d \in Role : d # e => ratchet'[d] = ratchet[d]
    BY <1>1, <1>5 DEF LocalRotate
  <2> QED
    BY <1>2, <2>1, BookLocal
<1>6. ASSUME NEW f \in net, \/ LocalDecryptSkipped(e, f)
                            \/ LocalDecryptSameRatchet(e, f)
                            \/ LocalDecryptNewRatchet(e, f)
      PROVE  BookInv'
  <2>1. PICK r : LocalReceive(e, f, r)
    BY <1>6 DEF LocalDecryptSkipped, LocalDecryptSameRatchet, LocalDecryptNewRatchet
  <2>2. /\ up[e] /\ UNCHANGED Durable /\ SameSession(ratchet[e], f)
        /\ pending' \in {pending, [pending EXCEPT ![e].in = @ \cup {f}]}
        /\ \A d \in Role : d # e => ratchet'[d] = ratchet[d]
    BY <1>1, <2>1 DEF LocalReceive
  <2>3. f \notin delivered[e]
    BY <1>6, <2>2, KeptOpens
       DEF LocalDecryptSkipped, LocalDecryptSameRatchet, LocalDecryptNewRatchet
  <2>4. /\ pending'[e].in \subseteq pending[e].in \cup {f} /\ pending'[e].out = pending[e].out
        /\ \A d \in Role : d # e => pending'[d] = pending[d]
    BY <1>1, <2>2
  <2>5. pending'[e].in \cap delivered[e] = {}
    BY <1>2, <2>3, <2>4
  <2> QED
    BY <1>2, <2>2, <2>4, <2>5, BookLocal
<1> QED
  BY <1>3, <1>4, <1>5, <1>6

LEMMA BookCommit ==
    ASSUME WellFormed, NEW e \in Role, Commit(e)
    PROVE  BookInv'
<1>1. /\ up[e]
      /\ committed' = [committed EXCEPT ![e] = ratchet[e]]
      /\ net' = net \cup pending[e].out
      /\ emitted' = emitted + Cardinality(pending[e].out)
      /\ delivered' = [delivered EXCEPT ![e] = @ \cup pending[e].in]
      /\ returned' = [returned EXCEPT ![e] = @ + Cardinality(pending[e].in)]
      /\ pending' = [pending EXCEPT ![e] = Nothing]
      /\ UNCHANGED <<ratchet, up>>
  BY DEF Commit
<1>2. /\ pending \in [Role -> [out : SUBSET InnerFrame, in : SUBSET InnerFrame]]
      /\ committed \in [Role -> RatchetState] /\ ratchet \in [Role -> RatchetState]
      /\ delivered \in [Role -> SUBSET InnerFrame] /\ returned \in [Role -> Nat]
      /\ IsFiniteSet(pending[e].in)
  BY DEF WellFormed, PendingInv, PersistTypeOK, TypeOK
<1>3. /\ IsFiniteSet(net) /\ emitted = Cardinality(net)
      /\ \A d \in Role :
           /\ ~up[d] => ratchet[d] = committed[d] /\ pending[d] = Nothing
           /\ IsFiniteSet(pending[d].out)
           /\ \A f \in pending[d].out : Sender(f) = d /\ f \notin net
           /\ pending[d].in \cap delivered[d] = {}
           /\ IsFiniteSet(delivered[d]) /\ returned[d] = Cardinality(delivered[d])
  BY DEF WellFormed, BookInv
<1>4. /\ pending'[e] = Nothing /\ Nothing.out = {} /\ Nothing.in = {}
      /\ delivered'[e] = delivered[e] \cup pending[e].in
      /\ returned'[e] = returned[e] + Cardinality(pending[e].in)
      /\ \A d \in Role : d # e => /\ pending'[d] = pending[d] /\ delivered'[d] = delivered[d]
                                  /\ returned'[d] = returned[d] /\ committed'[d] = committed[d]
  BY <1>1, <1>2 DEF Nothing
<1>5. IsFiniteSet({}) /\ Cardinality({}) = 0
  BY FS_EmptySet
\* Disjoint unions: the counters add up.
<1>6. ASSUME NEW A, NEW B, IsFiniteSet(A), IsFiniteSet(B), A \cap B = {}
      PROVE  IsFiniteSet(A \cup B) /\ Cardinality(A \cup B) = Cardinality(A) + Cardinality(B)
  <2>1. /\ IsFiniteSet(A \cup B)
        /\ Cardinality(A \cup B) = Cardinality(A) + Cardinality(B) - Cardinality(A \cap B)
    BY <1>6, FS_Union
  <2>2. Cardinality(A) \in Nat /\ Cardinality(B) \in Nat /\ Cardinality(A \cap B) = 0
    BY <1>5, <1>6, FS_CardinalityType
  <2> QED
    BY <2>1, <2>2
<1>7. IsFiniteSet(net') /\ emitted' = Cardinality(net')
  <2>1. net \cap pending[e].out = {} /\ IsFiniteSet(net) /\ IsFiniteSet(pending[e].out)
    BY <1>3
  <2>2. /\ IsFiniteSet(net \cup pending[e].out)
        /\ Cardinality(net \cup pending[e].out) = Cardinality(net) + Cardinality(pending[e].out)
    BY <1>6, <2>1
  <2> QED
    BY <1>1, <1>3, <2>2
<1>8. ASSUME NEW d \in Role
      PROVE  /\ ~up[d] => ratchet[d] = committed'[d] /\ pending'[d] = Nothing
             /\ IsFiniteSet(pending'[d].out)
             /\ \A f \in pending'[d].out : Sender(f) = d /\ f \notin net'
             /\ pending'[d].in \cap delivered'[d] = {}
             /\ IsFiniteSet(delivered'[d]) /\ returned'[d] = Cardinality(delivered'[d])
  <2>1. CASE d = e
    <3>1. /\ IsFiniteSet(delivered[e] \cup pending[e].in)
          /\ Cardinality(delivered[e] \cup pending[e].in)
               = Cardinality(delivered[e]) + Cardinality(pending[e].in)
      <4>1. /\ IsFiniteSet(delivered[e]) /\ IsFiniteSet(pending[e].in)
            /\ delivered[e] \cap pending[e].in = {}
        BY <1>2, <1>3
      <4> QED
        BY <1>6, <4>1
    <3>2. returned'[d] = Cardinality(delivered'[d]) /\ IsFiniteSet(delivered'[d])
      BY <1>3, <1>4, <2>1, <3>1
    <3> QED
      BY <1>1, <1>4, <1>5, <2>1, <3>2
  <2>2. CASE d # e
    <3>1. \A f \in pending[d].out : f \notin pending[e].out
      BY <1>3, <2>2
    <3> QED
      BY <1>1, <1>3, <1>4, <2>2, <3>1
  <2> QED
    BY <2>1, <2>2
<1> QED
  BY <1>1, <1>7, <1>8 DEF BookInv

LEMMA BookCrash ==
    ASSUME WellFormed, NEW e \in Role, Crash(e)
    PROVE  BookInv'
<1>1. /\ up' = [up EXCEPT ![e] = FALSE]
      /\ ratchet' = [ratchet EXCEPT ![e] = committed[e]]
      /\ pending' = [pending EXCEPT ![e] = Nothing]
      /\ UNCHANGED <<net, delivered, returned, committed, emitted>>
  BY DEF Crash
<1>2. /\ pending \in [Role -> [out : SUBSET InnerFrame, in : SUBSET InnerFrame]]
      /\ ratchet \in [Role -> RatchetState] /\ up \in [Role -> BOOLEAN]
  BY DEF WellFormed, PendingInv, PersistTypeOK, TypeOK
<1>3. /\ pending'[e] = Nothing /\ Nothing.out = {} /\ Nothing.in = {}
      /\ ratchet'[e] = committed[e]
      /\ \A d \in Role : d # e => /\ pending'[d] = pending[d]
                                  /\ ratchet'[d] = ratchet[d] /\ up'[d] = up[d]
  BY <1>1, <1>2 DEF Nothing
<1>4. ASSUME NEW d \in Role
      PROVE  /\ ~up'[d] => ratchet'[d] = committed[d] /\ pending'[d] = Nothing
             /\ IsFiniteSet(pending'[d].out)
             /\ \A f \in pending'[d].out : Sender(f) = d /\ f \notin net
             /\ pending'[d].in \cap delivered[d] = {}
             /\ IsFiniteSet(delivered[d]) /\ returned[d] = Cardinality(delivered[d])
  <2>1. CASE d = e
    BY <1>3, <2>1, FS_EmptySet DEF WellFormed, BookInv
  <2>2. CASE d # e
    BY <1>3, <2>2 DEF WellFormed, BookInv
  <2> QED
    BY <2>1, <2>2
<1> QED
  BY <1>1, <1>4 DEF WellFormed, BookInv

LEMMA BookRestore ==
    ASSUME WellFormed, NEW e \in Role, NEW record, Restore(e, record)
    PROVE  BookInv'
<1>1. /\ up' = [up EXCEPT ![e] = TRUE]
      /\ ratchet' = [ratchet EXCEPT ![e] = decode_state(record)]
      /\ UNCHANGED <<net, delivered, returned, pending, committed, emitted>>
  BY DEF Restore
<1>2. ratchet \in [Role -> RatchetState] /\ up \in [Role -> BOOLEAN]
  BY DEF WellFormed, PersistTypeOK, TypeOK
<1>3. /\ up'[e]
      /\ \A d \in Role : d # e => ratchet'[d] = ratchet[d] /\ up'[d] = up[d]
  BY <1>1, <1>2
<1>4. \A d \in Role : ~up'[d] => ratchet'[d] = committed[d] /\ pending[d] = Nothing
  BY <1>3 DEF WellFormed, BookInv
<1> QED
  BY <1>1, <1>4 DEF WellFormed, BookInv

LEMMA BookInit == PersistInit => BookInv
<1> SUFFICES ASSUME PersistInit PROVE BookInv
  OBVIOUS
<1>1. /\ net = {} /\ emitted = 0
      /\ delivered = [d \in Role |-> {}] /\ returned = [d \in Role |-> 0]
      /\ up = [d \in Role |-> TRUE]
      /\ pending = [d \in Role |-> Nothing]
  BY DEF PersistInit, Init
<1>2. Nothing.out = {} /\ Nothing.in = {}
  BY DEF Nothing
<1>3. IsFiniteSet({}) /\ Cardinality({}) = 0
  BY FS_EmptySet
<1> QED
  BY <1>1, <1>2, <1>3 DEF BookInv

LEMMA BookStep ==
    ASSUME Sound, WellFormed, Role \subseteq Keep, [PersistNext]_persistVars
    PROVE  BookInv'
<1>1. ASSUME UNCHANGED persistVars
      PROVE  BookInv'
  BY <1>1 DEF WellFormed, BookInv, persistVars, vars
<1>2. CASE PersistNext
  <2>1. PICK e \in Role :
          \/ LocalEncrypt(e)
          \/ LocalEncryptExhausted(e)
          \/ LocalRotate(e)
          \/ \E f \in net :
               \/ LocalDecryptSkipped(e, f)
               \/ LocalDecryptSameRatchet(e, f)
               \/ LocalDecryptNewRatchet(e, f)
               \/ LocalDecryptRejected(e, f)
          \/ Commit(e)
          \/ Crash(e)
          \/ \E record \in AllRecords : Restore(e, record) \/ RestoreRefused(e, record)
    BY <1>2 DEF PersistNext
  <2>2. CASE \E f \in net : LocalDecryptRejected(e, f)
    BY <1>1, <2>2 DEF LocalDecryptRejected
  <2>3. CASE \E record \in AllRecords : RestoreRefused(e, record)
    BY <1>1, <2>3 DEF RestoreRefused
  <2>4. CASE \E record \in AllRecords : Restore(e, record)
    BY <2>4, BookRestore
  <2>5. CASE Commit(e) \/ Crash(e)
    BY <2>5, BookCommit, BookCrash
  <2> QED
    BY <2>1, <2>2, <2>3, <2>4, <2>5, BookOperation
<1> QED
  BY <1>1, <1>2

============================================================================
