--------------------------- MODULE DeliveryProofs ---------------------------
(* Envelopes, replay caches and restarts add nothing to what the ratchet may *)
(* do: every behaviour of Delivery is one of Ratchet, so that all that is    *)
(* proved of Ratchet holds end to end; and of the frames the replay cache     *)
(* refuses, only those over the skipped-key limit are lost for it.           *)
EXTENDS Delivery, SyncProofs

Enveloped(x) == x = [outer |-> x.outer, frame |-> x.frame] /\ x.frame \in net

\* What envelopes hold, and what the hosts have opened, was emitted.
HeldEmitted ==
    /\ \A x \in envelopes : Enveloped(x)
    /\ \A e \in Role : \A x \in opened[e] : Enveloped(x)
    /\ opened = [e \in Role |-> opened[e]]

LEMMA HeldInit == DeliveryInit => HeldEmitted
  BY DEF DeliveryInit, HeldEmitted

\* Damage to an envelope leaves the frame named with it alone.
LEMMA ArrivalsEnveloped ==
    ASSUME HeldEmitted, NEW x \in EnvelopeArrivals
    PROVE  Enveloped(x)
<1>1. CASE x \in envelopes
  BY <1>1 DEF HeldEmitted
<1>2. CASE \E y \in envelopes : x = DamagedCopy(y)
  <2>1. PICK y \in envelopes : x = DamagedCopy(y)
    BY <1>2
  <2>2. y = [outer |-> y.outer, frame |-> y.frame] /\ y.frame \in net
    BY DEF HeldEmitted, Enveloped
  <2>3. x = [outer |-> [y.outer EXCEPT !.intact = FALSE], frame |-> y.frame]
    BY <2>1, <2>2 DEF DamagedCopy
  <2> QED
    BY <2>2, <2>3 DEF Enveloped
<1> QED
  BY <1>1, <1>2 DEF EnvelopeArrivals

\* The network only grows, so what was emitted stays so.
LEMMA EnvelopedStays ==
    ASSUME NEW x, Enveloped(x), net \subseteq net'
    PROVE  Enveloped(x)'
  BY DEF Enveloped

LEMMA DecryptKeepsNet ==
    ASSUME NEW e, NEW f, Decrypt(e, f)
    PROVE  net' = net
  BY DEF Decrypt, DecryptSkipped, DecryptSameRatchet, DecryptNewRatchet, DecryptRejected, vars

LEMMA HeldStep ==
    ASSUME HeldEmitted, [DeliveryNext]_deliveryVars
    PROVE  HeldEmitted'
<1> USE DEF HeldEmitted
<1> DEFINE kept == net \subseteq net' /\ envelopes' = envelopes /\ opened' = opened
<1>1. ASSUME kept PROVE HeldEmitted'
  BY <1>1, EnvelopedStays
<1>2. ASSUME NEW e \in Role,
             \/ \E len \in PayloadLens : EncryptMessage(e, len)
             \/ EncryptFails(e)
             \/ Rotate(e)
      PROVE  HeldEmitted'
  BY <1>1, <1>2 DEF EncryptMessage, Encrypt, EncryptFails, EncryptExhausted, Rotate,
        RotateSendingRatchet, envelopeVars
<1>3. ASSUME NEW e \in Role, NEW x \in EnvelopeArrivals,
             OpenEnvelope(e, x) \/ OpenRefused(e, x) \/ OpenFails(e, x)
      PROVE  HeldEmitted'
  <2>1. CASE OpenEnvelope(e, x)
    <3>1. net' = net /\ envelopes' = envelopes
          /\ opened' = [opened EXCEPT ![e] = @ \cup {x}]
      BY <2>1 DEF OpenEnvelope, vars
    <3>2. \A d \in Role : \A y \in opened'[d] : Enveloped(y)
      BY <3>1, ArrivalsEnveloped
    <3> QED
      BY <3>1, <3>2, EnvelopedStays
  <2>2. CASE OpenRefused(e, x) \/ OpenFails(e, x)
    BY <1>1, <2>2 DEF OpenRefused, OpenFails, vars, deliveryVars, envelopeVars
  <2> QED
    BY <1>3, <2>1, <2>2
<1>4. ASSUME NEW e \in Role, NEW x \in opened[e], DecryptOpened(e, x)
      PROVE  HeldEmitted'
  <2>1. net' = net /\ envelopes' = envelopes
        /\ opened' = [opened EXCEPT ![e] = @ \ {x}]
    BY <1>4, DecryptKeepsNet DEF DecryptOpened
  <2> QED
    BY <2>1, EnvelopedStays
<1>5. ASSUME NEW e \in Role, Restart(e) PROVE HeldEmitted'
  <2>1. net' = net /\ envelopes' = envelopes /\ opened' = [opened EXCEPT ![e] = {}]
    BY <1>5 DEF Restart, vars
  <2> QED
    BY <2>1, EnvelopedStays
<1>6. ASSUME NEW f \in net, NEW expires \in Expiries, NEW padding_len \in PaddingLens,
             SealFrame(f, expires, padding_len)
      PROVE  HeldEmitted'
  <2>1. PICK o : envelopes' = envelopes \cup {[outer |-> o, frame |-> f]}
    BY <1>6 DEF SealFrame
  <2>2. net' = net /\ opened' = opened
    BY <1>6 DEF SealFrame, vars
  <2>3. Enveloped([outer |-> o, frame |-> f])
    BY DEF Enveloped
  <2> QED
    BY <2>1, <2>2, <2>3, EnvelopedStays
<1>7. CASE Tick \/ (\E len \in PayloadLens : EncryptTooLong(len)) \/ UNCHANGED deliveryVars
  BY <1>1, <1>7 DEF Tick, EncryptTooLong, vars, deliveryVars, envelopeVars
<1> QED
  BY <1>2, <1>3, <1>4, <1>5, <1>6, <1>7 DEF DeliveryNext

\* decrypt is only ever handed frames the network could have carried, and no
\* other step of Delivery touches the ratchet except as the ratchet does.
LEMMA DeliveryStep ==
    ASSUME HeldEmitted, [DeliveryNext]_deliveryVars
    PROVE  [Next]_vars
<1>1. ASSUME NEW e \in Role,
             \/ \E len \in PayloadLens : EncryptMessage(e, len)
             \/ EncryptFails(e)
             \/ Rotate(e)
      PROVE  [Next]_vars
  BY <1>1 DEF EncryptMessage, EncryptFails, Rotate, Next
<1>2. ASSUME NEW e \in Role, NEW x \in opened[e], DecryptOpened(e, x)
      PROVE  [Next]_vars
  <2>1. x.frame \in Arrivals
    BY <1>2 DEF HeldEmitted, Enveloped, Arrivals
  <2> QED
    BY <1>2, <2>1 DEF DecryptOpened, Next
<1>3. ASSUME NEW e \in Role, NEW x \in EnvelopeArrivals,
             OpenEnvelope(e, x) \/ OpenRefused(e, x) \/ OpenFails(e, x)
      PROVE  UNCHANGED vars
  BY <1>3 DEF OpenEnvelope, OpenRefused, OpenFails, deliveryVars
<1>4. ASSUME NEW e \in Role, Restart(e) PROVE UNCHANGED vars
  BY <1>4 DEF Restart
<1>5. ASSUME NEW f, NEW expires, NEW padding_len, SealFrame(f, expires, padding_len)
      PROVE  UNCHANGED vars
  BY <1>5 DEF SealFrame
<1>6. CASE Tick \/ (\E len \in PayloadLens : EncryptTooLong(len)) \/ UNCHANGED deliveryVars
  BY <1>6 DEF Tick, EncryptTooLong, deliveryVars
<1> QED
  BY <1>1, <1>2, <1>3, <1>4, <1>5, <1>6 DEF DeliveryNext

----------------------------------------------------------------------------

\* Every behaviour of the composition, restarts and lost caches included, is a
\* behaviour of the ratchet alone.
THEOREM DeliveryImplementsRatchet == DeliverySpec => Spec
<1>1. DeliveryInit => Init /\ HeldEmitted
  BY HeldInit DEF DeliveryInit
<1>2. HeldEmitted /\ [DeliveryNext]_deliveryVars => HeldEmitted'
  BY HeldStep
<1>3. HeldEmitted /\ [DeliveryNext]_deliveryVars => [Next]_vars
  BY DeliveryStep
<1> QED
  BY <1>1, <1>2, <1>3, PTL DEF DeliverySpec, Spec

\* A message sealed again, delivered twice or opened again after a restart
\* that lost the replay cache is still returned at most once, and only to the
\* endpoint it was sent to.
THEOREM DeliveryIsChannel == DeliverySpec => EndToEndChannel
<1>1. DeliverySpec => Spec
  BY DeliveryImplementsRatchet
<1>2. Spec => Channel!Spec
  BY Refinement DEF ImplementsChannel
<1> QED
  BY <1>1, <1>2, PTL DEF EndToEndChannel

\* As long as there was at most one explicit rotation, a frame lost with an
\* envelope that was refused or expired costs no more than any other loss.
THEOREM DeliveryToleratesLoss == DeliverySpec => [](rotations <= 1 => LossTolerated)
<1>1. DeliverySpec => Spec
  BY DeliveryImplementsRatchet
<1>2. Spec => [](rotations <= 1 => LossTolerated)
  BY LossIsTolerated
<1> QED
  BY <1>1, <1>2, PTL

----------------------------------------------------------------------------
(* A frame that is not pending stays so.                                   *)

\* Whatever decrypt accepts is pending.
LEMMA AcceptsPending ==
    ASSUME RatchetInv, NEW e \in Role, NEW f \in net, Accepts(ratchet[e], f)
    PROVE  Pending(e, f)
<1> DEFINE r == ratchet[e]
<1>1. r \in RatchetState /\ f \in InnerFrame
  BY DEF RatchetInv, TypeOK
<1>2. r.receiving_count \in Nat /\ f.message_number \in Nat /\ f.previous_chain_len \in Nat
  BY <1>1, StateTypes, FrameTypes
<1>3. f.suite = r.suite
  BY DEF Accepts, SameSession
<1>4. ASSUME NEW i \in 1..Len(r.skipped), OpensSkipped(r, f, i) PROVE Pending(e, f)
  <2>1. f.ratchet_public = r.remote_dh /\ Kept(e, f.message_number)
    BY <1>4 DEF OpensSkipped, Position, Kept
  <2> QED
    BY <2>1, <1>3 DEF Pending
<1>5. CASE OpensSameRatchet(r, f)
  BY <1>3, <1>5 DEF OpensSameRatchet, Pending
<1>6. CASE OpensNewRatchet(r, f)
  <2>1. SameChain(f.key, root_chain(r.root_key, diffie_hellman(r.dh_pair, f.ratchet_public)))
    BY <1>6, NewRatchetChain
  <2>2. f.ratchet_public # r.remote_dh /\ f.previous_chain_len >= r.receiving_count
    BY <1>2, <1>6 DEF OpensNewRatchet, RangeAllowed
  <2> QED
    BY <2>1, <2>2, <1>3 DEF Pending
<1> QED
  BY <1>4, <1>5, <1>6 DEF Accepts

\* Only the skipped-key limit makes decrypt refuse a pending frame.
LEMMA PendingLimited ==
    ASSUME RatchetInv, ReceivingInv, NEW e \in Role, NEW f \in net, Pending(e, f)
    PROVE  Accepts(ratchet[e], f) \/ OverLimit(ratchet[e], f)
<1> DEFINE r == ratchet[e]
           chain == root_chain(r.root_key, diffie_hellman(r.dh_pair, f.ratchet_public))
<1>1. r \in RatchetState /\ f \in InnerFrame
  BY DEF RatchetInv, TypeOK
<1>2. /\ r.receiving_count \in Nat /\ f.message_number \in Nat /\ f.previous_chain_len \in Nat
      /\ r.session_id = Session /\ r.receiving_chain \in ChainKey
      /\ r.root_key \in RootKey /\ r.dh_pair \in DhKey /\ f.ratchet_public \in DhKey
      /\ f.key \in MessageKey
  BY <1>1, StateTypes, FrameTypes
<1>3. f.intact /\ f.session_id = Session /\ f.key.index = f.message_number
  BY DEF RatchetInv, FrameInv
<1>4. SameSession(r, f)
  BY <1>2, <1>3 DEF SameSession, Pending
<1>5. chain \in ChainKey /\ chain.pos = 0
  BY <1>2, RootTypes, SMTT(30)
<1>6. ASSUME NEW c \in ChainKey, NEW n \in Nat, c.pos + n = f.message_number, SameChain(f.key, c)
      PROVE  f.key = KeyOf(Advance(c, n))
  <2>1. /\ Advance(c, n).label = c.label /\ Advance(c, n).root = c.root
        /\ Advance(c, n).pos = f.message_number
    BY <1>6, ScheduleTypes
  <2> QED
    BY <2>1, <1>2, <1>3, <1>6 DEF KeyOf, SameChain, MessageKey
<1> HIDE DEF r, chain
<1>7. CASE f.ratchet_public = r.remote_dh /\ f.message_number >= r.receiving_count
  <2> DEFINE n == f.message_number - r.receiving_count
  <2>1. SameChain(f.key, r.receiving_chain) /\ r.receiving_chain.pos = r.receiving_count
    BY <1>7 DEF ReceivingInv, Receives, r
  <2>2. n \in Nat /\ r.receiving_chain.pos + n = f.message_number
    BY <2>1, <1>2, <1>7
  <2>3. f.key = KeyOf(Advance(r.receiving_chain, n))
    BY <2>1, <2>2, <1>2, <1>6
  <2>4. CanFollow(r, f)
    BY <2>3, <1>3, <1>7 DEF CanFollow, Opens
  <2> QED
    BY <2>4, <1>4 DEF OverLimit, r
<1>8. CASE /\ f.ratchet_public = r.remote_dh /\ ~(f.message_number >= r.receiving_count)
           /\ Kept(e, f.message_number)
  <2>1. f.message_number < r.receiving_count
    BY <1>2, <1>8
  <2>2. f \in delivered[e] \/ Accepts(r, f)
    BY <2>1, <1>4, <1>8, InvNothingLost DEF NothingLostInChain, r
  <2>3. f \notin delivered[e]
    BY <1>8 DEF RatchetInv, DeliveredInv, Kept, r
  <2> QED
    BY <2>2, <2>3 DEF r
<1>9. CASE /\ f.ratchet_public # r.remote_dh
           /\ f.previous_chain_len >= r.receiving_count
           /\ SameChain(f.key, chain)
  <2>1. 0 + f.message_number = f.message_number
    BY <1>2
  <2>2. f.key = KeyOf(Advance(chain, f.message_number))
    BY <2>1, <1>2, <1>5, <1>6, <1>9
  <2>3. CanFollow(r, f)
    BY <2>2, <1>3, <1>9 DEF CanFollow, Opens, chain
  <2> QED
    BY <2>3, <1>4 DEF OverLimit, r
<1> QED
  BY <1>7, <1>8, <1>9 DEF Pending, r, chain

\* A returned frame is behind its receiver.
LEMMA DeliveredNotPending ==
    ASSUME RatchetInv, NEW e \in Role, NEW f \in delivered[e]
    PROVE  ~Pending(e, f)
<1> DEFINE r == ratchet[e]
           dh == diffie_hellman(r.dh_pair, f.ratchet_public)
<1>1. r \in RatchetState /\ f \in InnerFrame
  BY DEF RatchetInv, TypeOK
<1>2. /\ r.receiving_count \in Nat /\ f.message_number \in Nat
      /\ r.root_key \in RootKey /\ r.dh_pair \in DhKey /\ f.ratchet_public \in DhKey
      /\ Len(r.root_key) \in Nat
  BY <1>1, StateTypes, FrameTypes
<1>3. /\ f.ratchet_public = r.remote_dh => f.message_number < r.receiving_count
      /\ f.ratchet_public = r.remote_dh => ~Kept(e, f.message_number)
      /\ Len(f.key.root) <= Len(r.root_key)
  BY DEF RatchetInv, DeliveredInv, Passed, Kept
<1>4. Len(root_chain(r.root_key, dh).root) = Len(r.root_key) + 1
  <2>1. /\ root_chain(r.root_key, dh).root = next_root(r.root_key, dh)
        /\ Len(next_root(r.root_key, dh)) = Len(r.root_key) + 1
    BY ONLY <1>2, RootTypes, SMTT(30)
  <2> QED
    BY ONLY <2>1
<1>5. ~SameChain(f.key, root_chain(r.root_key, dh))
  BY <1>2, <1>3, <1>4 DEF SameChain
<1> HIDE DEF r, dh
<1> QED
  BY <1>2, <1>3, <1>5 DEF Pending, r, dh

\* No frame in the network starts a ratchet on a root with a fresh key in it.
LEMMA FreshRoot ==
    ASSUME RatchetInv, NEW f \in net, NEW k, \A y : KnownKey(y) => y # k,
           NEW root \in RootKey, NEW i \in 1..Len(root), k \in root[i],
           NEW x \in DhKey, NEW y \in DhKey
    PROVE  ~SameChain(f.key, root_chain(root, diffie_hellman(x, y)))
<1> SUFFICES ASSUME SameChain(f.key, root_chain(root, diffie_hellman(x, y))) PROVE FALSE
  OBVIOUS
<1> DEFINE next == next_root(root, diffie_hellman(x, y))
<1>1. /\ root_chain(root, diffie_hellman(x, y)).root = next
      /\ Len(next) = Len(root) + 1 /\ next[i] = root[i]
  BY ONLY root \in RootKey, x \in DhKey, y \in DhKey, i \in 1..Len(root), RootTypes
<1> HIDE DEF next
<1>2. Len(root) \in Nat
  BY DEF RootKey
<1>3. f.key.root = next
  BY <1>1 DEF SameChain
<1>4. i \in 1..Len(next)
  BY <1>1, <1>2
<1>5. KnownKey(k)
  BY <1>1, <1>3, <1>4 DEF RatchetInv, FrameInv, KnownRoot
<1> QED
  BY <1>5

LEMMA PendingSame ==
    ASSUME NEW e \in Role, NEW f, SameReceiving(e), Pending(e, f)',
           ratchet'[e].suite = ratchet[e].suite,
           ratchet'[e].root_key = ratchet[e].root_key,
           ratchet'[e].dh_pair = ratchet[e].dh_pair
    PROVE  Pending(e, f)
  BY DEF Pending, Kept, SameReceiving

LEMMA RotationPending ==
    ASSUME RatchetInv, NEW e \in Role, RotateSendingRatchet(e), NEW f \in net, Pending(e, f)'
    PROVE  Pending(e, f)
<1> DEFINE r == ratchet[e]
           k == generate(e)
           root == ratchet'[e].root_key
<1>1. /\ k \in DhKey /\ \A y : KnownKey(y) => y # k
      /\ ratchet'[e].dh_pair = k
      /\ root = next_root(r.root_key, diffie_hellman(k, r.remote_dh))
      /\ ratchet'[e].suite = r.suite
      /\ SameReceiving(e)
  BY RotationFacts
<1>2. r \in RatchetState /\ f \in InnerFrame
  BY DEF RatchetInv, TypeOK
<1>3. /\ r.root_key \in RootKey /\ Len(r.root_key) \in Nat /\ r.remote_dh \in DhKey
      /\ f.ratchet_public \in DhKey
  BY <1>2, StateTypes, FrameTypes
<1> HIDE DEF k, r
<1>4. /\ root \in RootKey /\ Len(root) = Len(r.root_key) + 1
      /\ root[Len(r.root_key) + 1] = {k, r.remote_dh}
  <2> DEFINE next == next_root(r.root_key, diffie_hellman(k, r.remote_dh))
  <2>1. k \in DhKey
    BY <1>1
  <2>2. RootStep(r.root_key, k, r.remote_dh)
    BY <2>1, <1>3, RootStepTypes
  <2>3. /\ next \in RootKey /\ Len(next) = Len(r.root_key) + 1
        /\ next[Len(r.root_key) + 1] = {k, r.remote_dh}
    BY <2>2 DEF RootStep
  <2> QED
    BY <2>3, <1>1
<1> HIDE DEF root
<1>5. Len(r.root_key) + 1 \in 1..Len(root) /\ k \in root[Len(r.root_key) + 1]
  BY <1>3, <1>4
<1>6. ~SameChain(f.key, root_chain(root, diffie_hellman(k, f.ratchet_public)))
  BY <1>1, <1>3, <1>4, <1>5, FreshRoot
<1> QED
  BY <1>1, <1>6 DEF Pending, Kept, SameReceiving, root, r

LEMMA SkippedPending ==
    ASSUME RatchetInv, NEW e \in Role, NEW g \in Arrivals, DecryptSkipped(e, g),
           NEW f, Pending(e, f)'
    PROVE  Pending(e, f)
<1> DEFINE r == ratchet[e]
           s == r.skipped
           t == ratchet'[e].skipped
<1>1. /\ ratchet'[e].remote_dh = r.remote_dh
      /\ ratchet'[e].receiving_count = r.receiving_count
      /\ ratchet'[e].suite = r.suite
      /\ ratchet'[e].root_key = r.root_key
      /\ ratchet'[e].dh_pair = r.dh_pair
  BY SkippedFacts DEF SameSending
<1>2. PICK i \in 1..Len(s) : t = RemoveAt(s, i)
  BY SkippedFacts
<1>3. s \in Seq(SkippedMessageKey) /\ Len(s) \in Nat
  BY StateTypes DEF RatchetInv, TypeOK
<1>4. /\ Len(t) = Len(s) - 1
      /\ \A j \in 1..(Len(s) - 1) : t[j] = IF j < i THEN s[j] ELSE s[j + 1]
  BY <1>2, <1>3, RemoveAtType
<1> HIDE DEF r, s, t
<1>5. ASSUME NEW j \in 1..Len(t) PROVE \E m \in 1..Len(s) : t[j] = s[m]
  <2>1. j \in 1..Len(s) /\ j + 1 \in 1..Len(s)
    BY <1>3, <1>4
  <2> QED
    BY <2>1, <1>4
<1>6. Kept(e, f.message_number)' => Kept(e, f.message_number)
  BY <1>1, <1>5 DEF Kept, r, s, t
<1> QED
  BY <1>1, <1>6 DEF Pending, r

LEMMA SameRatchetPending ==
    ASSUME RatchetInv, NEW e \in Role, NEW g \in Arrivals, DecryptSameRatchet(e, g),
           NEW f \in net, Pending(e, f)'
    PROVE  Pending(e, f)
<1> DEFINE r == ratchet[e]
           c == r.receiving_count
           m == g.message_number
           s == r.skipped
           t == ratchet'[e].skipped
<1>1. /\ g \in net /\ g \in InnerFrame /\ c <= m
      /\ t = s \o derive_range(r.remote_dh, r.receiving_chain, c, m)
      /\ ratchet'[e].remote_dh = r.remote_dh
      /\ ratchet'[e].receiving_count = m + 1
      /\ ratchet'[e].suite = r.suite
      /\ ratchet'[e].root_key = r.root_key
      /\ ratchet'[e].dh_pair = r.dh_pair
  BY SameRatchetFacts DEF SameSending
<1>2. /\ s \in Seq(SkippedMessageKey) /\ r.remote_dh \in DhKey
      /\ r.receiving_chain \in ChainKey /\ c \in Nat /\ m \in Nat
      /\ f.message_number \in Nat /\ f.previous_chain_len \in Nat
  BY <1>1, StateTypes, FrameTypes DEF RatchetInv, TypeOK
<1>3. Extends(t, s, r.remote_dh, c, m)
  BY <1>1, <1>2, AppendRange
<1> HIDE DEF r, c, m, s, t
<1>4. /\ Len(s) \in Nat /\ Len(t) = Len(s) + (m - c)
      /\ \A i \in 1..Len(s) : t[i] = s[i]
      /\ \A i \in (Len(s) + 1)..Len(t) : t[i].message_number = c + (i - Len(s)) - 1
  BY <1>3 DEF Extends
<1>5. ASSUME Kept(e, f.message_number)'
      PROVE  f.message_number >= c \/ Kept(e, f.message_number)
  <2>1. PICK i \in 1..Len(t) : t[i].remote_dh = r.remote_dh /\ t[i].message_number = f.message_number
    BY <1>1, <1>5 DEF Kept, t
  <2>2. i \in 1..Len(s) \/ i \in (Len(s) + 1)..Len(t)
    BY <1>4
  <2>3. CASE i \in 1..Len(s)
    BY <2>1, <2>3, <1>4 DEF Kept, r, s
  <2>4. CASE i \in (Len(s) + 1)..Len(t)
    <3>1. f.message_number = c + (i - Len(s)) - 1
      BY <2>1, <2>4, <1>4
    <3> QED
      BY <3>1, <2>4, <1>2, <1>4
  <2> QED
    BY <2>2, <2>3, <2>4
<1>6. /\ f.message_number >= m + 1 => f.message_number >= c
      /\ f.previous_chain_len >= m + 1 => f.previous_chain_len >= c
  BY <1>1, <1>2
<1> QED
  BY <1>1, <1>5, <1>6 DEF Pending, r, c

LEMMA NewRatchetPending ==
    ASSUME RatchetInv, NEW e \in Role, NEW g \in Arrivals, DecryptNewRatchet(e, g),
           NEW f \in net, Pending(e, f)'
    PROVE  Pending(e, f)
<1> DEFINE r == ratchet[e]
           k == generate(e)
           dh == diffie_hellman(r.dh_pair, g.ratchet_public)
           mid == next_root(r.root_key, dh)
           root == ratchet'[e].root_key
<1>1. /\ g \in net /\ g \in InnerFrame /\ OpensNewRatchet(r, g)
      /\ r.receiving_count <= g.previous_chain_len
      /\ k \in DhKey /\ \A y : KnownKey(y) => y # k
      /\ ratchet'[e].dh_pair = k
      /\ ratchet'[e].remote_dh = g.ratchet_public
      /\ root = next_root(mid, diffie_hellman(k, g.ratchet_public))
      /\ ratchet'[e].suite = r.suite
  BY NewRatchetFacts
<1>2. r \in RatchetState /\ f \in InnerFrame
  BY DEF RatchetInv, TypeOK
<1>3. /\ r.root_key \in RootKey /\ r.dh_pair \in DhKey /\ r.receiving_count \in Nat
      /\ f.ratchet_public \in DhKey /\ g.ratchet_public \in DhKey
      /\ f.previous_chain_len \in Nat
  BY <1>1, <1>2, StateTypes, FrameTypes
<1>4. \A h \in net : h.ratchet_public = g.ratchet_public
        => SameChain(h.key, root_chain(r.root_key, dh))
  BY <1>1, NewRatchetChain
<1>5. mid \in RootKey /\ Len(mid) \in Nat
  <2>1. mid \in RootKey
    BY <1>3, RootTypes
  <2> QED
    BY <2>1 DEF RootKey
<1> HIDE DEF k, mid
<1>6. /\ root \in RootKey /\ Len(root) = Len(mid) + 1
      /\ root[Len(mid) + 1] = {k, g.ratchet_public}
  <2> DEFINE next == next_root(mid, diffie_hellman(k, g.ratchet_public))
  <2>1. k \in DhKey
    BY <1>1
  <2>2. RootStep(mid, k, g.ratchet_public)
    BY <2>1, <1>3, <1>5, RootStepTypes
  <2>3. /\ next \in RootKey /\ Len(next) = Len(mid) + 1
        /\ next[Len(mid) + 1] = {k, g.ratchet_public}
    BY <2>2 DEF RootStep
  <2> QED
    BY <2>3, <1>1
<1> HIDE DEF root
<1>7. Len(mid) + 1 \in 1..Len(root) /\ k \in root[Len(mid) + 1]
  BY <1>5, <1>6
<1>8. ~SameChain(f.key, root_chain(root, diffie_hellman(k, f.ratchet_public)))
  BY <1>1, <1>3, <1>6, <1>7, FreshRoot
<1> HIDE DEF r
<1>9. f.ratchet_public = g.ratchet_public /\ f.suite = r.suite
  BY <1>1, <1>8 DEF Pending, root
<1>10. /\ f.ratchet_public # r.remote_dh
       /\ f.previous_chain_len = g.previous_chain_len
  BY <1>1, <1>9 DEF OpensNewRatchet, RatchetInv, ChainInv
<1>11. f.previous_chain_len >= r.receiving_count
  BY <1>1, <1>3, <1>10
<1> QED
  BY <1>4, <1>9, <1>10, <1>11 DEF Pending, r

\* Once refused for another reason than the limit, refused for good.
LEMMA PendingBefore ==
    ASSUME RatchetInv, [Next]_vars, NEW e \in Role, NEW f \in net, Pending(e, f)'
    PROVE  Pending(e, f)
<1>1. ASSUME NEW d \in Role, OnlyAt(d), d # e PROVE Pending(e, f)
  BY <1>1, OthersSame, PendingSame DEF SameSending
<1>2. ASSUME NEW d \in Role, Encrypt(d) PROVE Pending(e, f)
  <2>1. OnlyAt(d) /\ SameReceiving(d) /\ SameSending(d)
    BY <1>2, EncryptFacts
  <2> QED
    BY <2>1, <1>1, PendingSame DEF SameSending
<1>3. ASSUME NEW d \in Role, EncryptExhausted(d) PROVE Pending(e, f)
  <2>1. OnlyAt(d) /\ SameReceiving(d) /\ SameSending(d)
    BY <1>3, ExhaustedFacts
  <2> QED
    BY <2>1, <1>1, PendingSame DEF SameSending
<1>4. ASSUME NEW d \in Role, RotateSendingRatchet(d) PROVE Pending(e, f)
  <2>1. OnlyAt(d)
    BY <1>4, RotationFacts
  <2> QED
    BY <2>1, <1>1, <1>4, RotationPending
<1>5. CASE UNCHANGED vars
  BY <1>5, PendingSame DEF vars, SameReceiving
<1>6. ASSUME NEW d \in Role, NEW g \in Arrivals, Decrypt(d, g) PROVE Pending(e, f)
  <2>1. CASE DecryptSkipped(d, g)
    <3>1. OnlyAt(d)
      BY <2>1, SkippedFacts
    <3> QED
      BY <3>1, <2>1, <1>1, SkippedPending
  <2>2. CASE DecryptSameRatchet(d, g)
    <3>1. OnlyAt(d)
      BY <2>2, SameRatchetFacts
    <3> QED
      BY <3>1, <2>2, <1>1, SameRatchetPending
  <2>3. CASE DecryptNewRatchet(d, g)
    <3>1. OnlyAt(d)
      BY <2>3, NewRatchetFacts
    <3> QED
      BY <3>1, <2>3, <1>1, NewRatchetPending
  <2> QED
    BY <1>5, <1>6, <2>1, <2>2, <2>3 DEF Decrypt, DecryptRejected
<1> QED
  BY <1>2, <1>3, <1>4, <1>5, <1>6 DEF Next

----------------------------------------------------------------------------
(* Recording an identifier before decrypt strands nothing but what met the *)
(* skipped-key limit.                                                      *)

\* Shapes the cache argument needs.
CacheShape ==
    /\ cache = [e \in Role |-> cache[e]]
    /\ limited = [e \in Role |-> limited[e]]
    /\ \A x \in envelopes : "intact" \in DOMAIN x.outer

\* Covered: the last conjunct of CacheInv, for one endpoint and one envelope.
Covered(e, x) ==
    Recorded(e, x) => \/ x \in opened[e]
                      \/ x.outer.message_id \in limited[e]
                      \/ ~Pending(e, x.frame)

LEMMA CacheIntro ==
    ASSUME next_id' \in Nat \ {0},
           \A x \in envelopes' : /\ x.outer.message_id \in 1..(next_id' - 1)
                                 /\ x.frame \in net',
           \A x, y \in envelopes' : x.outer.message_id = y.outer.message_id => x = y,
           \A e \in Role : /\ opened'[e] \subseteq envelopes'
                           /\ \A y \in cache'[e] : y.message_id \in 1..(next_id' - 1),
           \A e \in Role : \A x \in envelopes' : Covered(e, x)'
    PROVE  CacheInv'
  BY DEF CacheInv, Covered

\* Steps that seal nothing: the envelopes are the same, the cache records none
\* but those in hand, and a pending frame was so before.
LEMMA CacheKept ==
    ASSUME CacheInv, envelopes' = envelopes, next_id' = next_id, net \subseteq net',
           \A e \in Role :
              /\ opened'[e] \subseteq envelopes
              /\ limited[e] \subseteq limited'[e]
              /\ \A y \in cache'[e] : \/ y \in cache[e]
                                      \/ \E x \in opened'[e] : y.message_id = x.outer.message_id
              /\ \A x \in envelopes :
                   (x \in opened[e] /\ x \notin opened'[e])
                     => \/ x.outer.message_id \in limited'[e]
                        \/ ~Pending(e, x.frame)'
                        \/ cache'[e] = {}
              /\ \A x \in envelopes : Pending(e, x.frame)' => Pending(e, x.frame)
    PROVE  CacheInv'
<1>1. ASSUME NEW e \in Role, NEW x \in envelopes PROVE Covered(e, x)'
  <2> SUFFICES ASSUME Recorded(e, x)', x \notin opened'[e],
                      x.outer.message_id \notin limited'[e], Pending(e, x.frame)'
               PROVE  FALSE
    BY DEF Covered
  <2>1. PICK y \in cache'[e] : y.message_id = x.outer.message_id
    BY DEF Recorded
  <2>2. y \in cache[e]
    <3> SUFFICES ASSUME NEW z \in opened'[e], y.message_id = z.outer.message_id PROVE FALSE
      OBVIOUS
    <3>1. z \in envelopes /\ z.outer.message_id = x.outer.message_id
      BY <2>1
    <3>2. z = x
      BY <3>1 DEF CacheInv
    <3> QED
      BY <3>2
  <2>3. Recorded(e, x) /\ Pending(e, x.frame) /\ x.outer.message_id \notin limited[e]
    BY <2>1, <2>2 DEF Recorded
  <2>4. x \in opened[e]
    BY <2>3 DEF CacheInv
  <2> QED
    BY <2>1, <2>4
<1>2. \A e \in Role : \A y \in cache'[e] : y.message_id \in 1..(next_id - 1)
  BY DEF CacheInv
<1>3. \A x \in envelopes : x.frame \in net'
  BY DEF CacheInv
<1> QED
  BY <1>1, <1>2, <1>3, CacheIntro DEF CacheInv

LEMMA InstanceFacts ==
    /\ \A e, x : OpensAt(e, x) => x.outer.recipient = e /\ x.outer.intact
    /\ \A e, x : Env(e)!Duplicate(x.outer) => Recorded(e, x)
    /\ \A e : Env(e)!Retained \subseteq cache[e]
    /\ \A e, x : \A y \in Env(e)!Inserted(x.outer) :
         y \in cache[e] \/ y.message_id = x.outer.message_id
    /\ \A e, id, to, t, n, z :
         LET o == Env(e)!SealedEnvelope(id, to, t, n, z)
         IN  o.message_id = id /\ "intact" \in DOMAIN o
<1>1. ASSUME NEW e, NEW x, OpensAt(e, x) PROVE x.outer.recipient = e /\ x.outer.intact
  BY <1>1 DEF OpensAt, Env!OpensInner, Env!Opens, Env!Authenticates
<1>2. ASSUME NEW e, NEW x, Env(e)!Duplicate(x.outer) PROVE Recorded(e, x)
  BY <1>2 DEF Env!Duplicate, Env!Retained, Recorded
<1>3. ASSUME NEW e PROVE Env(e)!Retained \subseteq cache[e]
  BY DEF Env!Retained
<1>4. ASSUME NEW e, NEW x, NEW y \in Env(e)!Inserted(x.outer)
      PROVE  y \in cache[e] \/ y.message_id = x.outer.message_id
  BY <1>4 DEF Env!Inserted, Env!Retained
<1>5. ASSUME NEW e, NEW id, NEW to, NEW t, NEW n, NEW z
      PROVE  LET o == Env(e)!SealedEnvelope(id, to, t, n, z)
             IN  o.message_id = id /\ "intact" \in DOMAIN o
  BY DEF Env!SealedEnvelope
<1> QED
  BY <1>1, <1>2, <1>3, <1>4, <1>5

\* What opens at e is an envelope as it was sealed, not a damaged copy.
LEMMA OpensSealed ==
    ASSUME HeldEmitted, CacheShape, NEW e, NEW x \in EnvelopeArrivals, OpensAt(e, x)
    PROVE  x \in envelopes
<1> SUFFICES ASSUME NEW y \in envelopes, x = DamagedCopy(y) PROVE FALSE
  BY DEF EnvelopeArrivals
<1>1. y = [outer |-> y.outer, frame |-> y.frame] /\ "intact" \in DOMAIN y.outer
  BY DEF HeldEmitted, Enveloped, CacheShape
<1>2. x.outer = [y.outer EXCEPT !.intact = FALSE]
  BY <1>1 DEF DamagedCopy
<1>3. x.outer.intact = FALSE
  BY <1>1, <1>2
<1> QED
  BY <1>3, InstanceFacts

LEMMA ShapeStep ==
    ASSUME CacheShape, [DeliveryNext]_deliveryVars
    PROVE  CacheShape'
<1> USE DEF CacheShape
<1>1. ASSUME NEW e \in Role,
             \/ \E len \in PayloadLens : EncryptMessage(e, len) \/ EncryptTooLong(len)
             \/ EncryptFails(e)
             \/ Rotate(e)
      PROVE  CacheShape'
  BY <1>1 DEF EncryptMessage, EncryptTooLong, EncryptFails, Rotate, deliveryVars, envelopeVars
<1>2. ASSUME NEW e \in Role, NEW x,
             OpenEnvelope(e, x) \/ OpenRefused(e, x) \/ OpenFails(e, x)
      PROVE  CacheShape'
  <2>1. /\ envelopes' = envelopes /\ limited' = limited
        /\ cache' = cache \/ \E c : cache' = [cache EXCEPT ![e] = c]
    BY <1>2 DEF OpenEnvelope, OpenRefused, OpenFails, deliveryVars, envelopeVars
  <2> QED
    BY <2>1
<1>3. ASSUME NEW e \in Role, NEW x, DecryptOpened(e, x) PROVE CacheShape'
  <2>1. /\ envelopes' = envelopes /\ cache' = cache
        /\ limited' = limited \/ \E l : limited' = [limited EXCEPT ![e] = l]
    BY <1>3 DEF DecryptOpened
  <2> QED
    BY <2>1
<1>4. ASSUME NEW e \in Role, Restart(e) PROVE CacheShape'
  BY <1>4 DEF Restart
<1>5. ASSUME NEW f, NEW expires, NEW padding_len, SealFrame(f, expires, padding_len)
      PROVE  CacheShape'
  <2>1. PICK o : /\ envelopes' = envelopes \cup {[outer |-> o, frame |-> f]}
                 /\ "intact" \in DOMAIN o
    BY <1>5, InstanceFacts DEF SealFrame
  <2>2. cache' = cache /\ limited' = limited
    BY <1>5 DEF SealFrame
  <2> QED
    BY <2>1, <2>2
<1>6. CASE Tick \/ UNCHANGED deliveryVars
  BY <1>6 DEF Tick, deliveryVars, envelopeVars
<1> QED
  BY <1>1, <1>2, <1>3, <1>4, <1>5, <1>6 DEF DeliveryNext

\* DeliveredNotPending as a state predicate.
DeliveredSettled == \A e \in Role : \A f \in delivered[e] : ~Pending(e, f)

\* decrypt returns the frame, meets the limit, or refuses it for good.
LEMMA DecryptSettles ==
    ASSUME RatchetInv, DeliveredSettled', ReceivingInv, NEW e \in Role, NEW f \in net,
           Decrypt(e, f), ~OverLimit(ratchet[e], f), Pending(e, f)' => Pending(e, f)
    PROVE  ~Pending(e, f)'
<1>1. f \in Arrivals
  BY DEF Arrivals
<1>2. CASE DecryptSkipped(e, f) \/ DecryptSameRatchet(e, f) \/ DecryptNewRatchet(e, f)
  <2>1. CASE DecryptSkipped(e, f)
    <3>1. delivered'[e] = delivered[e] \cup {f}
      BY <2>1, <1>1, SkippedFacts
    <3> QED
      BY <3>1 DEF DeliveredSettled
  <2>2. CASE DecryptSameRatchet(e, f)
    <3>1. delivered'[e] = delivered[e] \cup {f}
      BY <2>2, <1>1, SameRatchetFacts
    <3> QED
      BY <3>1 DEF DeliveredSettled
  <2>3. CASE DecryptNewRatchet(e, f)
    <3>1. delivered'[e] = delivered[e] \cup {f}
      BY <2>3, <1>1, NewRatchetFacts
    <3> QED
      BY <3>1 DEF DeliveredSettled
  <2> QED
    BY <1>2, <2>1, <2>2, <2>3
<1>3. CASE DecryptRejected(e, f)
  <2>1. ~Accepts(ratchet[e], f)
    BY <1>3 DEF DecryptRejected
  <2>2. ~Pending(e, f)
    BY <2>1, PendingLimited
  <2> QED
    BY <2>2
<1> QED
  BY <1>2, <1>3 DEF Decrypt

LEMMA CacheNext ==
    ASSUME RatchetInv, DeliveredSettled', ReceivingInv, HeldEmitted, CacheShape, CacheInv,
           [DeliveryNext]_deliveryVars
    PROVE  CacheInv'
<1>1. [Next]_vars
  BY DeliveryStep
<1>2. \A e \in Role : \A x \in envelopes : Pending(e, x.frame)' => Pending(e, x.frame)
  BY <1>1, PendingBefore DEF CacheInv
<1>3. \A e \in Role : opened[e] \subseteq envelopes
  BY DEF CacheInv
<1>4. ASSUME NEW e \in Role,
             \/ \E len \in PayloadLens : EncryptMessage(e, len) \/ EncryptTooLong(len)
             \/ EncryptFails(e)
             \/ Rotate(e)
      PROVE  CacheInv'
  <2>1. /\ envelopes' = envelopes /\ next_id' = next_id /\ opened' = opened
        /\ limited' = limited /\ cache' = cache /\ net \subseteq net'
    BY <1>4 DEF EncryptMessage, EncryptTooLong, EncryptFails, Rotate, deliveryVars,
          envelopeVars, vars, Encrypt, EncryptExhausted, RotateSendingRatchet
  <2> QED
    BY <2>1, <1>2, <1>3, CacheKept
<1>5. ASSUME NEW e \in Role, NEW x \in EnvelopeArrivals, OpenEnvelope(e, x) PROVE CacheInv'
  <2>1. /\ envelopes' = envelopes /\ next_id' = next_id /\ limited' = limited /\ net' = net
        /\ opened' = [opened EXCEPT ![e] = @ \cup {x}]
        /\ cache' = [cache EXCEPT ![e] = Env(e)!Inserted(x.outer)]
        /\ OpensAt(e, x)
    BY <1>5 DEF OpenEnvelope, vars
  <2>2. x \in envelopes
    BY <2>1, OpensSealed
  <2>3. \A d \in Role :
          /\ opened'[d] = IF d = e THEN opened[e] \cup {x} ELSE opened[d]
          /\ cache'[d] = IF d = e THEN Env(e)!Inserted(x.outer) ELSE cache[d]
    BY <2>1 DEF HeldEmitted, CacheShape
  <2>4. ASSUME NEW d \in Role
        PROVE  /\ opened'[d] \subseteq envelopes /\ opened[d] \subseteq opened'[d]
               /\ \A y \in cache'[d] :
                    y \in cache[d] \/ \E z \in opened'[d] : y.message_id = z.outer.message_id
    <3>1. \A y \in Env(e)!Inserted(x.outer) : y \in cache[e] \/ y.message_id = x.outer.message_id
      BY InstanceFacts
    <3>2. CASE d = e
      BY <2>2, <2>3, <1>3, <3>1, <3>2
    <3>3. CASE d # e
      BY <2>3, <1>3, <3>3
    <3> QED
      BY <3>2, <3>3
  <2> QED
    BY <2>1, <2>4, <1>2, CacheKept
<1>6. ASSUME NEW e \in Role, NEW x \in EnvelopeArrivals, OpenRefused(e, x) \/ OpenFails(e, x)
      PROVE  CacheInv'
  <2>1. /\ envelopes' = envelopes /\ next_id' = next_id /\ opened' = opened
        /\ limited' = limited /\ net' = net
        /\ cache' = cache \/ cache' = [cache EXCEPT ![e] = Env(e)!Retained]
    BY <1>6 DEF OpenRefused, OpenFails, vars, deliveryVars, envelopeVars
  <2>2. \A d \in Role : cache'[d] \subseteq cache[d]
    <3>1. Env(e)!Retained \subseteq cache[e]
      BY InstanceFacts
    <3> QED
      BY <2>1, <3>1 DEF CacheShape
  <2> QED
    BY <2>1, <2>2, <1>2, <1>3, CacheKept
<1>7. ASSUME NEW e \in Role, NEW x \in opened[e], DecryptOpened(e, x) PROVE CacheInv'
  <2>1. /\ envelopes' = envelopes /\ next_id' = next_id /\ cache' = cache
        /\ opened' = [opened EXCEPT ![e] = @ \ {x}]
        /\ Decrypt(e, x.frame)
        /\ limited' = IF OverLimit(ratchet[e], x.frame)
                      THEN [limited EXCEPT ![e] = @ \cup {x.outer.message_id}]
                      ELSE limited
    BY <1>7 DEF DecryptOpened
  <2>2. net' = net
    BY <2>1, DecryptKeepsNet
  <2>3. x \in envelopes /\ x.frame \in net
    BY <1>3, <1>7 DEF CacheInv
  <2>4. \A d \in Role :
          /\ opened'[d] = IF d = e THEN opened[e] \ {x} ELSE opened[d]
          /\ limited[d] \subseteq limited'[d]
    BY <2>1 DEF HeldEmitted, CacheShape
  <2>5. x.outer.message_id \in limited'[e] \/ ~Pending(e, x.frame)'
    <3>1. CASE OverLimit(ratchet[e], x.frame)
      BY <2>1, <3>1 DEF CacheShape
    <3>2. CASE ~OverLimit(ratchet[e], x.frame)
      BY <2>1, <2>3, <3>2, <1>2, DecryptSettles
    <3> QED
      BY <3>1, <3>2
  <2>6. ASSUME NEW d \in Role, NEW y \in envelopes, y \in opened[d], y \notin opened'[d]
        PROVE  y.outer.message_id \in limited'[d] \/ ~Pending(d, y.frame)'
    <3>1. d = e /\ y = x
      BY <2>4, <2>6
    <3> QED
      BY <2>5, <3>1
  <2>7. \A d \in Role : opened'[d] \subseteq envelopes
    BY <2>4, <1>3
  <2> QED
    BY <2>1, <2>2, <2>4, <2>6, <2>7, <1>2, CacheKept
<1>8. ASSUME NEW e \in Role, Restart(e) PROVE CacheInv'
  <2>1. /\ envelopes' = envelopes /\ next_id' = next_id /\ limited' = limited /\ net' = net
        /\ opened' = [opened EXCEPT ![e] = {}]
        /\ cache' = [cache EXCEPT ![e] = {}]
    BY <1>8 DEF Restart, AfterRestart, vars
  <2>2. \A d \in Role : IF d = e THEN cache'[d] = {} /\ opened'[d] = {}
                                 ELSE cache'[d] = cache[d] /\ opened'[d] = opened[d]
    BY <2>1 DEF HeldEmitted, CacheShape
  <2> QED
    BY <2>1, <2>2, <1>2, <1>3, CacheKept
<1>9. ASSUME NEW f \in net, NEW expires \in Expiries, NEW padding_len \in PaddingLens,
             SealFrame(f, expires, padding_len)
      PROVE  CacheInv'
  <2>1. PICK o : /\ envelopes' = envelopes \cup {[outer |-> o, frame |-> f]}
                 /\ o.message_id = next_id
    BY <1>9, InstanceFacts DEF SealFrame
  <2>2. /\ next_id' = next_id + 1 /\ cache' = cache /\ opened' = opened
        /\ limited' = limited /\ net' = net
    BY <1>9 DEF SealFrame, vars
  <2> DEFINE z == [outer |-> o, frame |-> f]
  <2>3. z.outer.message_id = next_id /\ z.frame \in net
    BY <2>1
  <2>4. envelopes' = envelopes \cup {z}
    BY <2>1
  <2> HIDE DEF z
  <2>5. /\ next_id \in Nat \ {0}
        /\ \A x \in envelopes : x.outer.message_id \in 1..(next_id - 1) /\ x.frame \in net
        /\ \A e \in Role : \A y \in cache[e] : y.message_id \in 1..(next_id - 1)
    BY DEF CacheInv
  <2>6. \A i \in 1..(next_id - 1) : i # next_id /\ i \in 1..(next_id' - 1)
    BY <2>2, <2>5
  <2>7. next_id' \in Nat \ {0} /\ next_id \in 1..(next_id' - 1)
    BY <2>2, <2>5
  <2>8. \A x, y \in envelopes' : x.outer.message_id = y.outer.message_id => x = y
    BY <2>3, <2>4, <2>5, <2>6 DEF CacheInv
  <2>9. ASSUME NEW e \in Role, NEW x \in envelopes' PROVE Covered(e, x)'
    <3>1. CASE x = z
      <4>1. ~Recorded(e, x)'
        BY <2>2, <2>3, <2>5, <2>6, <3>1 DEF Recorded
      <4> QED
        BY <4>1 DEF Covered
    <3>2. CASE x \in envelopes
      <4>1. Recorded(e, x)' => Recorded(e, x)
        BY <2>2 DEF Recorded
      <4>2. Recorded(e, x) => \/ x \in opened[e]
                              \/ x.outer.message_id \in limited[e]
                              \/ ~Pending(e, x.frame)
        BY <3>2 DEF CacheInv
      <4> QED
        BY <4>1, <4>2, <3>2, <1>2, <2>2 DEF Covered
    <3> QED
      BY <3>1, <3>2, <2>4
  <2> QED
    BY <2>2, <2>3, <2>4, <2>5, <2>6, <2>7, <2>8, <2>9, <1>3, CacheIntro
<1>10. CASE Tick \/ UNCHANGED deliveryVars
  <2>1. /\ envelopes' = envelopes /\ next_id' = next_id /\ opened' = opened
        /\ limited' = limited /\ cache' = cache /\ net' = net
    BY <1>10 DEF Tick, deliveryVars, envelopeVars, vars
  <2> QED
    BY <2>1, <1>2, <1>3, CacheKept
<1> QED
  BY <1>4, <1>5, <1>6, <1>7, <1>8, <1>9, <1>10 DEF DeliveryNext

LEMMA CacheInit == DeliveryInit => CacheInv /\ CacheShape
  BY DEF DeliveryInit, CacheInv, CacheShape

LEMMA CoveredStranded ==
    ASSUME RatchetInv, CacheInv
    PROVE  StrandedOnlyByLimit
<1> SUFFICES ASSUME NEW e \in Role, NEW x \in envelopes,
                    Env(e)!Duplicate(x.outer), Accepts(ratchet[e], x.frame)
             PROVE  x \in opened[e] \/ x.outer.message_id \in limited[e]
  BY DEF StrandedOnlyByLimit
<1>1. Recorded(e, x)
  BY InstanceFacts
<1>2. Pending(e, x.frame)
  BY AcceptsPending DEF CacheInv
<1> QED
  BY <1>1, <1>2 DEF CacheInv

\* Every identifier an open cache remembers belongs to an envelope that was
\* sealed, and stands for a frame that is in hand, met the skipped-key limit or
\* is one the ratchet will not take again: open_inner_once burns no other.
THEOREM CacheInvariance == DeliverySpec => []CacheInv
<1>1. DeliveryInit => HeldEmitted /\ CacheInv /\ CacheShape
  BY HeldInit, CacheInit
<1>2. HeldEmitted /\ CacheShape /\ [DeliveryNext]_deliveryVars => HeldEmitted' /\ CacheShape'
  BY HeldStep, ShapeStep
<1>3. /\ RatchetInv /\ DeliveredSettled' /\ SyncInv /\ HeldEmitted /\ CacheShape /\ CacheInv
      /\ [DeliveryNext]_deliveryVars
      => CacheInv'
  BY CacheNext DEF SyncInv
<1>4. DeliverySpec => [](RatchetInv /\ SyncInv)
  BY DeliveryImplementsRatchet, RatchetInvariance, SyncInvariance, PTL
<1>5. RatchetInv => DeliveredSettled
  BY DeliveredNotPending DEF DeliveredSettled
<1> QED
  BY <1>1, <1>2, <1>3, <1>4, <1>5, PTL DEF DeliverySpec

\* open_inner_once records an identifier before decrypt has seen the frame.  Of
\* the frames whose envelopes it then refuses as replays, the ratchet would
\* refuse all that are not in hand and did not meet the skipped-key limit.
THEOREM NothingElseStranded == DeliverySpec => []StrandedOnlyByLimit
<1>1. DeliverySpec => []RatchetInv
  BY DeliveryImplementsRatchet, RatchetInvariance, PTL
<1>2. RatchetInv /\ CacheInv => StrandedOnlyByLimit
  BY CoveredStranded
<1> QED
  BY <1>1, <1>2, CacheInvariance, PTL

============================================================================
