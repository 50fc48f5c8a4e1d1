--------------------------- MODULE RatchetProofs ---------------------------
(***************************************************************************)
(* Proofs about Ratchet for every value of its constants.                  *)
(***************************************************************************)
EXTENDS RatchetInvariant, SequenceTheorems, TLAPS

----------------------------------------------------------------------------
(* Lemmas about the key schedule and the skipped-key store.                *)

\* derive_range yields end - start entries, the i-th for number start + i - 1.
LEMMA RangeType ==
    ASSUME NEW k \in DhKey, NEW chain \in ChainKey,
           NEW start \in Nat, NEW end \in Nat, start <= end
    PROVE  LET s == derive_range(k, chain, start, end)
           IN  /\ s \in Seq(SkippedMessageKey)
               /\ Len(s) = end - start
               /\ \A i \in 1..Len(s) : /\ s[i].remote_dh = k
                                       /\ s[i].message_number = start + i - 1
<1> DEFINE n == end - start
           s == derive_range(k, chain, start, end)
<1>1. n \in Nat
  OBVIOUS
<1>2. ASSUME NEW i \in 1..n
      PROVE  [remote_dh |-> k, message_number |-> start + i - 1,
              key |-> KeyOf(Advance(chain, i - 1))] \in SkippedMessageKey
  <2>1. Advance(chain, i - 1) \in ChainKey
    BY <1>1 DEF Advance, ChainKey
  <2>2. KeyOf(Advance(chain, i - 1)) \in MessageKey
    BY <2>1 DEF KeyOf, ChainKey, MessageKey
  <2> QED
    BY <2>2, <1>1 DEF SkippedMessageKey
<1>3. s \in [1..n -> SkippedMessageKey]
  BY <1>2 DEF derive_range
<1>4. s \in Seq(SkippedMessageKey) /\ Len(s) = n
  BY <1>1, <1>3
<1>5. \A i \in 1..n : s[i].remote_dh = k /\ s[i].message_number = start + i - 1
  BY DEF derive_range
<1> QED
  BY <1>4, <1>5

\* Removing the i-th entry keeps the others in their order.
LEMMA RemoveAtType ==
    ASSUME NEW S, NEW s \in Seq(S), NEW i \in 1..Len(s)
    PROVE  /\ RemoveAt(s, i) \in Seq(S)
           /\ Len(RemoveAt(s, i)) = Len(s) - 1
           /\ \A j \in 1..(Len(s) - 1) :
                RemoveAt(s, i)[j] = IF j < i THEN s[j] ELSE s[j + 1]
<1> DEFINE a == SubSeq(s, 1, i - 1)
           b == SubSeq(s, i + 1, Len(s))
<1>1. a \in Seq(S) /\ Len(a) = i - 1 /\ \A j \in 1..(i - 1) : a[j] = s[j]
  OBVIOUS
<1>2. b \in Seq(S) /\ Len(b) = Len(s) - i /\ \A j \in 1..(Len(s) - i) : b[j] = s[i + j]
  OBVIOUS
<1>3. RemoveAt(s, i) = a \o b
  BY DEF RemoveAt
<1> HIDE DEF a, b
<1>4. /\ a \o b \in Seq(S)
      /\ Len(a \o b) = Len(a) + Len(b)
      /\ \A j \in 1..(Len(a) + Len(b)) :
           (a \o b)[j] = IF j <= Len(a) THEN a[j] ELSE b[j - Len(a)]
  BY <1>1, <1>2, ConcatProperties
<1>5. Len(s) \in Nat /\ Len(a) + Len(b) = Len(s) - 1
  BY <1>1, <1>2
<1>6. ASSUME NEW j \in 1..(Len(s) - 1)
      PROVE  (a \o b)[j] = IF j < i THEN s[j] ELSE s[j + 1]
  <2>1. CASE j < i
    BY <2>1, <1>1, <1>4, <1>5
  <2>2. CASE ~(j < i)
    <3>1. (a \o b)[j] = b[j - (i - 1)]
      BY <2>2, <1>1, <1>4, <1>5
    <3>2. j - (i - 1) \in 1..(Len(s) - i) /\ i + (j - (i - 1)) = j + 1
      BY <2>2, <1>5
    <3> QED
      BY <2>2, <3>1, <3>2, <1>2
  <2> QED
    BY <2>1, <2>2
<1> QED
  BY <1>3, <1>4, <1>5, <1>6

LEMMA ScheduleTypes ==
    /\ \A c \in ChainKey, n \in Nat :
         /\ Advance(c, n) \in ChainKey
         /\ Advance(c, n).pos = c.pos + n
         /\ Advance(c, n).label = c.label
         /\ Advance(c, n).root = c.root
    /\ \A c \in ChainKey :
         /\ KeyOf(c) \in MessageKey
         /\ KeyOf(c).label = c.label
         /\ KeyOf(c).root = c.root
         /\ KeyOf(c).index = c.pos
    /\ \A g \in 0..GEN_MAX : saturating_add(g) \in 0..GEN_MAX
<1>1. ASSUME NEW c \in ChainKey, NEW n \in Nat
      PROVE  /\ Advance(c, n) \in ChainKey
             /\ Advance(c, n).pos = c.pos + n
             /\ Advance(c, n).label = c.label
             /\ Advance(c, n).root = c.root
  BY DEF Advance, ChainKey
<1>2. ASSUME NEW c \in ChainKey
      PROVE  /\ KeyOf(c) \in MessageKey
             /\ KeyOf(c).label = c.label
             /\ KeyOf(c).root = c.root
             /\ KeyOf(c).index = c.pos
  BY DEF KeyOf, ChainKey, MessageKey
<1>3. \A g \in 0..GEN_MAX : saturating_add(g) \in 0..GEN_MAX
  BY LimitsAssumption DEF saturating_add
<1> QED
  BY <1>1, <1>2, <1>3

LEMMA RootTypes ==
    ASSUME NEW root \in RootKey, NEW x \in DhKey, NEW y \in DhKey
    PROVE  LET dh == diffie_hellman(x, y)
           IN  /\ next_root(root, dh) \in RootKey
               /\ Len(next_root(root, dh)) = Len(root) + 1
               /\ next_root(root, dh)[Len(root) + 1] = {x, y}
               /\ \A i \in 1..Len(root) : next_root(root, dh)[i] = root[i]
               /\ root_chain(root, dh) \in ChainKey
               /\ root_chain(root, dh).label = ROOT_CHAIN_LABEL
               /\ root_chain(root, dh).root = next_root(root, dh)
               /\ root_chain(root, dh).pos = 0
<1> DEFINE dh == diffie_hellman(x, y)
<1>1. dh \in SUBSET DhKey /\ dh = {x, y}
  BY DEF diffie_hellman
<1> HIDE DEF dh
<1>2. /\ next_root(root, dh) \in RootKey
      /\ Len(next_root(root, dh)) = Len(root) + 1
      /\ next_root(root, dh)[Len(root) + 1] = dh
      /\ \A i \in 1..Len(root) : next_root(root, dh)[i] = root[i]
  BY <1>1 DEF next_root, RootKey
<1>3. ROOT_CHAIN_LABEL \in Labels
  BY DEF Labels
<1> QED
  BY <1>1, <1>2, <1>3 DEF root_chain, ChainKey, dh

\* The same as one predicate.
RootStep(root, x, y) ==
    LET dh == diffie_hellman(x, y)
    IN  /\ next_root(root, dh) \in RootKey
        /\ Len(next_root(root, dh)) = Len(root) + 1
        /\ next_root(root, dh)[Len(root) + 1] = {x, y}
        /\ \A i \in 1..Len(root) : next_root(root, dh)[i] = root[i]
        /\ root_chain(root, dh) \in ChainKey

LEMMA RootStepTypes ==
    ASSUME NEW root \in RootKey, NEW x \in DhKey, NEW y \in DhKey
    PROVE  RootStep(root, x, y)
  BY RootTypes, SMTT(30) DEF RootStep

\* What encrypt changes in a state.
LEMMA EncryptFields ==
    ASSUME NEW r \in RatchetState, r.sending_count < COUNTER_MAX
    PROVE  LET n == AfterEncrypt(r)
           IN  /\ n \in RatchetState
               /\ n.sending_chain = Advance(r.sending_chain, 1)
               /\ n.sending_count = r.sending_count + 1
               /\ n.suite = r.suite
               /\ n.root_key = r.root_key
               /\ n.dh_pair = r.dh_pair
               /\ n.remote_dh = r.remote_dh
               /\ n.receiving_count = r.receiving_count
               /\ n.previous_sending_chain_len = r.previous_sending_chain_len
               /\ n.skipped = r.skipped
               /\ n.receiving_chain = r.receiving_chain
<1> DEFINE chain == Advance(r.sending_chain, 1)
           count == r.sending_count + 1
           gen == saturating_add(r.generation)
           n == [r EXCEPT !.sending_chain = chain, !.sending_count = count,
                          !.generation = gen]
<1>1. AfterEncrypt(r) = n
  BY DEF AfterEncrypt
<1>2. chain \in ChainKey /\ gen \in 0..GEN_MAX
  BY ScheduleTypes DEF RatchetState
<1>3. count \in 0..COUNTER_MAX
  BY LimitsAssumption DEF RatchetState
<1> HIDE DEF chain, count, gen
<1>4. /\ n \in RatchetState
      /\ n.sending_chain = chain
      /\ n.sending_count = count
      /\ n.suite = r.suite
      /\ n.root_key = r.root_key
      /\ n.dh_pair = r.dh_pair
      /\ n.remote_dh = r.remote_dh
      /\ n.receiving_count = r.receiving_count
      /\ n.previous_sending_chain_len = r.previous_sending_chain_len
      /\ n.skipped = r.skipped
      /\ n.receiving_chain = r.receiving_chain
  BY <1>2, <1>3 DEF RatchetState
<1> HIDE DEF n
<1> QED
  BY <1>1, <1>4 DEF chain, count, gen

\* A failed encrypt on an exhausted counter moves only the sending chain.
LEMMA ExhaustedFields ==
    ASSUME NEW r \in RatchetState
    PROVE  LET n == [r EXCEPT !.sending_chain = Advance(@, 1)]
           IN  /\ n \in RatchetState
               /\ n.sending_chain = Advance(r.sending_chain, 1)
               /\ n.sending_count = r.sending_count
               /\ n.suite = r.suite
               /\ n.root_key = r.root_key
               /\ n.dh_pair = r.dh_pair
               /\ n.remote_dh = r.remote_dh
               /\ n.receiving_count = r.receiving_count
               /\ n.previous_sending_chain_len = r.previous_sending_chain_len
               /\ n.skipped = r.skipped
               /\ n.receiving_chain = r.receiving_chain
<1>1. Advance(r.sending_chain, 1) \in ChainKey
  BY ScheduleTypes DEF RatchetState
<1> QED
  BY <1>1 DEF RatchetState

\* The frame encrypt emits.
LEMMA FrameFields ==
    ASSUME NEW r \in RatchetState
    PROVE  LET f == Frame(r)
           IN  /\ f \in InnerFrame
               /\ f.session_id = Session
               /\ f.suite = r.suite
               /\ f.ratchet_public = r.dh_pair
               /\ f.previous_chain_len = r.previous_sending_chain_len
               /\ f.message_number = r.sending_count
               /\ f.key = KeyOf(r.sending_chain)
               /\ f.intact
<1>1. KeyOf(r.sending_chain) \in MessageKey
  BY ScheduleTypes DEF RatchetState
<1> QED
  BY <1>1 DEF Frame, RatchetState, InnerFrame

\* What rotate_sending_ratchet changes in a state.
LEMMA RotationFields ==
    ASSUME NEW r \in RatchetState, NEW k \in DhKey
    PROVE  LET n == AfterRotation(r, k)
               dh == diffie_hellman(k, r.remote_dh)
           IN  /\ n \in RatchetState
               /\ n.root_key = next_root(r.root_key, dh)
               /\ n.sending_chain = root_chain(r.root_key, dh)
               /\ n.dh_pair = k
               /\ n.sending_count = 0
               /\ n.suite = r.suite
               /\ n.remote_dh = r.remote_dh
               /\ n.receiving_count = r.receiving_count
               /\ n.skipped = r.skipped
               /\ n.receiving_chain = r.receiving_chain
               /\ n.previous_sending_chain_len = r.sending_count
<1> DEFINE dh == diffie_hellman(k, r.remote_dh)
           root == next_root(r.root_key, dh)
           chain == root_chain(r.root_key, dh)
           gen == saturating_add(r.generation)
           zero == 0
           n == [r EXCEPT !.root_key = root,
                  !.sending_chain = chain,
                  !.dh_pair = k,
                  !.previous_sending_chain_len = r.sending_count,
                  !.sending_count = zero,
                  !.generation = gen]
<1>1. root \in RootKey /\ chain \in ChainKey
  BY RootTypes DEF RatchetState
<1>2. gen \in 0..GEN_MAX
  BY ScheduleTypes DEF RatchetState
<1>3. zero \in 0..COUNTER_MAX
  BY LimitsAssumption
<1>4. AfterRotation(r, k) = n
  BY DEF AfterRotation
<1> HIDE DEF dh, root, chain, gen, zero
<1>5. /\ n \in RatchetState
      /\ n.root_key = root
      /\ n.sending_chain = chain
      /\ n.dh_pair = k
      /\ n.sending_count = zero
      /\ n.suite = r.suite
      /\ n.remote_dh = r.remote_dh
      /\ n.receiving_count = r.receiving_count
      /\ n.skipped = r.skipped
      /\ n.receiving_chain = r.receiving_chain
      /\ n.previous_sending_chain_len = r.sending_count
  BY <1>1, <1>2, <1>3 DEF RatchetState
<1> HIDE DEF n
<1> QED
  BY <1>4, <1>5 DEF dh, root, chain, zero

\* What decrypt_skipped changes in a state.
LEMMA SkippedFields ==
    ASSUME NEW r \in RatchetState, NEW i \in 1..Len(r.skipped)
    PROVE  LET n == AfterSkipped(r, i)
           IN  /\ n \in RatchetState
               /\ n.skipped = RemoveAt(r.skipped, i)
               /\ n.suite = r.suite
               /\ n.root_key = r.root_key
               /\ n.sending_chain = r.sending_chain
               /\ n.sending_count = r.sending_count
               /\ n.previous_sending_chain_len = r.previous_sending_chain_len
               /\ n.dh_pair = r.dh_pair
               /\ n.remote_dh = r.remote_dh
               /\ n.receiving_count = r.receiving_count
               /\ n.receiving_chain = r.receiving_chain
<1> DEFINE sk == RemoveAt(r.skipped, i)
           gen == saturating_add(r.generation)
           n == [r EXCEPT !.skipped = sk, !.generation = gen]
<1>1. sk \in Seq(SkippedMessageKey)
  BY RemoveAtType DEF RatchetState
<1>2. gen \in 0..GEN_MAX
  BY ScheduleTypes DEF RatchetState
<1>3. AfterSkipped(r, i) = n
  BY DEF AfterSkipped
<1> HIDE DEF sk, gen
<1>4. /\ n \in RatchetState
      /\ n.skipped = sk
      /\ n.suite = r.suite
      /\ n.root_key = r.root_key
      /\ n.sending_chain = r.sending_chain
      /\ n.sending_count = r.sending_count
      /\ n.previous_sending_chain_len = r.previous_sending_chain_len
      /\ n.dh_pair = r.dh_pair
      /\ n.remote_dh = r.remote_dh
      /\ n.receiving_count = r.receiving_count
      /\ n.receiving_chain = r.receiving_chain
  BY <1>1, <1>2 DEF RatchetState
<1> HIDE DEF n
<1> QED
  BY <1>3, <1>4 DEF sk

\* What decrypt_same_ratchet changes in a state.
LEMMA SameRatchetFields ==
    ASSUME NEW r \in RatchetState, NEW f \in InnerFrame,
           f.message_number < COUNTER_MAX, r.receiving_count <= f.message_number
    PROVE  LET n == AfterSameRatchet(r, f)
           IN  /\ n \in RatchetState
               /\ n.skipped = r.skipped \o
                    derive_range(r.remote_dh, r.receiving_chain,
                                 r.receiving_count, f.message_number)
               /\ n.receiving_count = f.message_number + 1
               /\ n.suite = r.suite
               /\ n.root_key = r.root_key
               /\ n.sending_chain = r.sending_chain
               /\ n.sending_count = r.sending_count
               /\ n.previous_sending_chain_len = r.previous_sending_chain_len
               /\ n.dh_pair = r.dh_pair
               /\ n.remote_dh = r.remote_dh
               /\ n.receiving_chain =
                    Advance(r.receiving_chain, f.message_number - r.receiving_count + 1)
<1> DEFINE chain == Advance(r.receiving_chain, f.message_number - r.receiving_count + 1)
           count == f.message_number + 1
           range == derive_range(r.remote_dh, r.receiving_chain,
                                 r.receiving_count, f.message_number)
           sk == r.skipped \o range
           gen == saturating_add(r.generation)
           n == [r EXCEPT !.receiving_chain = chain, !.receiving_count = count,
                          !.skipped = sk, !.generation = gen]
<1>1. count \in 0..COUNTER_MAX /\ f.message_number # COUNTER_MAX
  BY LimitsAssumption DEF InnerFrame
<1>2. f.message_number - r.receiving_count + 1 \in Nat
  BY DEF InnerFrame, RatchetState
<1>3. chain \in ChainKey
  BY <1>2, ScheduleTypes DEF RatchetState
<1>4. gen \in 0..GEN_MAX
  BY ScheduleTypes DEF RatchetState
<1>5. range \in Seq(SkippedMessageKey)
  <2>1. f.message_number \in Nat /\ r.receiving_count \in Nat
    BY LimitsAssumption DEF InnerFrame, RatchetState
  <2>2. r.remote_dh \in DhKey /\ r.receiving_chain \in ChainKey
    BY DEF RatchetState
  <2> HIDE DEF range
  <2> QED
    BY <2>1, <2>2, RangeType DEF range
<1>6. AfterSameRatchet(r, f) = n
  <2>1. AfterSameRatchet(r, f) =
          [[r EXCEPT !.receiving_chain = chain] EXCEPT
              !.receiving_count = count, !.skipped = @ \o range,
              !.generation = saturating_add(@)]
    BY <1>1 DEF AfterSameRatchet
  <2> HIDE DEF chain, count, range
  <2> QED
    BY <2>1 DEF RatchetState
<1> HIDE DEF chain, count, range, gen
<1>7. sk \in Seq(SkippedMessageKey)
  BY <1>5 DEF RatchetState
<1> HIDE DEF sk
<1>8. /\ n \in RatchetState
      /\ n.skipped = sk
      /\ n.receiving_count = count
      /\ n.suite = r.suite
      /\ n.root_key = r.root_key
      /\ n.sending_chain = r.sending_chain
      /\ n.sending_count = r.sending_count
      /\ n.previous_sending_chain_len = r.previous_sending_chain_len
      /\ n.dh_pair = r.dh_pair
      /\ n.remote_dh = r.remote_dh
      /\ n.receiving_chain = chain
  BY <1>1, <1>3, <1>4, <1>7 DEF RatchetState
<1> HIDE DEF n
<1> QED
  BY <1>6, <1>8 DEF sk, range, count, chain

\* What decrypt_new_ratchet changes in a state.
LEMMA NewRatchetFields ==
    ASSUME NEW r \in RatchetState, NEW f \in InnerFrame, NEW k \in DhKey,
           f.message_number < COUNTER_MAX, r.receiving_count <= f.previous_chain_len
    PROVE  LET n == AfterNewRatchet(r, f, k)
               dh_receive == diffie_hellman(r.dh_pair, f.ratchet_public)
               root == next_root(r.root_key, dh_receive)
               dh_send == diffie_hellman(k, f.ratchet_public)
           IN  /\ n \in RatchetState
               /\ n.skipped =
                    (r.skipped \o derive_range(r.remote_dh, r.receiving_chain,
                                     r.receiving_count, f.previous_chain_len))
                      \o derive_range(f.ratchet_public, root_chain(r.root_key, dh_receive),
                                     0, f.message_number)
               /\ n.root_key = next_root(root, dh_send)
               /\ n.sending_chain = root_chain(root, dh_send)
               /\ n.dh_pair = k
               /\ n.remote_dh = f.ratchet_public
               /\ n.sending_count = 0
               /\ n.receiving_count = f.message_number + 1
               /\ n.suite = r.suite
               /\ n.receiving_chain =
                    Advance(root_chain(r.root_key, dh_receive), f.message_number + 1)
               /\ n.previous_sending_chain_len = r.sending_count
<1> DEFINE dh_receive == diffie_hellman(r.dh_pair, f.ratchet_public)
           root == next_root(r.root_key, dh_receive)
           rchain == root_chain(r.root_key, dh_receive)
           dh_send == diffie_hellman(k, f.ratchet_public)
           root2 == next_root(root, dh_send)
           schain == root_chain(root, dh_send)
           count == f.message_number + 1
           after == Advance(rchain, count)
           old == derive_range(r.remote_dh, r.receiving_chain,
                               r.receiving_count, f.previous_chain_len)
           new == derive_range(f.ratchet_public, rchain, 0, f.message_number)
           sk == (r.skipped \o old) \o new
           zero == 0
           gen == saturating_add(r.generation)
           n == [r EXCEPT !.skipped = sk, !.root_key = root2, !.receiving_chain = after,
                          !.sending_chain = schain, !.dh_pair = k,
                          !.remote_dh = f.ratchet_public,
                          !.previous_sending_chain_len = r.sending_count,
                          !.sending_count = zero, !.receiving_count = count,
                          !.generation = gen]
<1>1. /\ count \in 0..COUNTER_MAX /\ count \in Nat /\ f.message_number # COUNTER_MAX
      /\ zero \in 0..COUNTER_MAX
      /\ f.message_number \in Nat /\ r.receiving_count \in Nat
      /\ f.previous_chain_len \in Nat
  BY LimitsAssumption DEF InnerFrame, RatchetState
<1>2. /\ r.dh_pair \in DhKey /\ r.remote_dh \in DhKey /\ f.ratchet_public \in DhKey
      /\ r.receiving_chain \in ChainKey /\ r.root_key \in RootKey
      /\ r.skipped \in Seq(SkippedMessageKey)
      /\ r.sending_count \in 0..COUNTER_MAX
  BY DEF InnerFrame, RatchetState
<1>3. root \in RootKey /\ rchain \in ChainKey
  BY <1>2, RootTypes
<1>4. root2 \in RootKey /\ schain \in ChainKey
  <2> HIDE DEF root
  <2> QED
    BY <1>2, <1>3, RootTypes
<1>5. gen \in 0..GEN_MAX
  BY ScheduleTypes DEF RatchetState
<1>6. AfterNewRatchet(r, f, k) = n
  <2>1. AfterNewRatchet(r, f, k) =
          [[r EXCEPT !.skipped = (@ \o old) \o new, !.root_key = root2,
                     !.receiving_chain = after,
                     !.sending_chain = schain, !.dh_pair = k,
                     !.remote_dh = f.ratchet_public,
                     !.previous_sending_chain_len = r.sending_count,
                     !.sending_count = zero]
           EXCEPT !.receiving_count = count, !.generation = saturating_add(@)]
    BY <1>1 DEF AfterNewRatchet
  <2> HIDE DEF count, old, new, root2, after, schain, zero
  <2> QED
    BY <2>1 DEF RatchetState
<1> HIDE DEF rchain, root, count
<1>7. after \in ChainKey
  BY <1>1, <1>3, ScheduleTypes
<1>8. old \in Seq(SkippedMessageKey)
  BY <1>1, <1>2, RangeType
<1>9. new \in Seq(SkippedMessageKey)
  BY <1>1, <1>2, <1>3, RangeType
<1> HIDE DEF old, new, root2, schain, after, zero, gen
<1>10. sk \in Seq(SkippedMessageKey)
  BY <1>2, <1>8, <1>9
<1> HIDE DEF sk
<1>11. /\ n \in RatchetState
       /\ n.skipped = sk
       /\ n.root_key = root2
       /\ n.sending_chain = schain
       /\ n.dh_pair = k
       /\ n.remote_dh = f.ratchet_public
       /\ n.sending_count = zero
       /\ n.receiving_count = count
       /\ n.suite = r.suite
       /\ n.receiving_chain = after
       /\ n.previous_sending_chain_len = r.sending_count
  BY <1>1, <1>2, <1>4, <1>5, <1>7, <1>10 DEF RatchetState
<1> HIDE DEF n
<1> QED
  BY <1>6, <1>11 DEF sk, old, new, root2, schain, zero, count, rchain, root, after

----------------------------------------------------------------------------
(* The initial states.                                                     *)

LEMMA InitialFields ==
    ASSUME NEW e \in Role, NEW s \in Suites
    PROVE  LET r == from_authenticated_handshake_with_suite(e, s)
           IN  /\ r \in RatchetState
               /\ r.root_key = << >>
               /\ r.sending_chain.root = << >>
               /\ r.sending_chain.pos = 0
               /\ r.sending_chain.label = IF e = "Initiator" THEN INIT_A_TO_B_LABEL
                                                            ELSE INIT_B_TO_A_LABEL
               /\ r.sending_count = 0
               /\ r.dh_pair = <<e, 0>>
               /\ r.remote_dh = <<Peer(e), 0>>
               /\ r.skipped = << >>
               /\ r.receiving_chain.root = << >>
               /\ r.receiving_chain.pos = 0
               /\ r.receiving_chain.label = IF e = "Initiator" THEN INIT_B_TO_A_LABEL
                                                              ELSE INIT_A_TO_B_LABEL
               /\ r.receiving_count = 0
<1> DEFINE zero == 0
           chain(label) == [label |-> label, root |-> << >>, pos |-> 0]
           a_to_b == chain(INIT_A_TO_B_LABEL)
           b_to_a == chain(INIT_B_TO_A_LABEL)
           sending == IF e = "Initiator" THEN a_to_b ELSE b_to_a
           receiving == IF e = "Initiator" THEN b_to_a ELSE a_to_b
           mine == <<e, 0>>
           theirs == <<Peer(e), 0>>
           empty == << >>
           r == [session_id |-> Session, suite |-> s, root_key |-> empty,
                 sending_chain |-> sending, receiving_chain |-> receiving,
                 dh_pair |-> mine, remote_dh |-> theirs,
                 previous_sending_chain_len |-> zero,
                 sending_count |-> zero, receiving_count |-> zero,
                 generation |-> zero, skipped |-> empty]
<1>1. from_authenticated_handshake_with_suite(e, s) = r
  BY DEF from_authenticated_handshake_with_suite
<1>2. /\ zero \in 0..COUNTER_MAX /\ zero \in 0..GEN_MAX
  BY LimitsAssumption
<1>3. mine \in DhKey /\ theirs \in DhKey
  BY DEF DhKey, Peer, Role
<1>4. empty \in RootKey /\ empty \in Seq(SkippedMessageKey)
  BY DEF RootKey
<1>5. a_to_b \in ChainKey /\ b_to_a \in ChainKey
  BY <1>4 DEF ChainKey, Labels
<1>6. sending \in ChainKey /\ receiving \in ChainKey
  BY <1>5
<1>7. /\ sending.root = empty
      /\ sending.pos = 0
      /\ sending.label = IF e = "Initiator" THEN INIT_A_TO_B_LABEL ELSE INIT_B_TO_A_LABEL
      /\ receiving.root = empty
      /\ receiving.pos = 0
      /\ receiving.label = IF e = "Initiator" THEN INIT_B_TO_A_LABEL ELSE INIT_A_TO_B_LABEL
  OBVIOUS
<1> HIDE DEF zero, mine, theirs, sending, receiving, empty
<1>8. /\ r \in RatchetState
      /\ r.root_key = empty
      /\ r.sending_chain = sending
      /\ r.sending_count = zero
      /\ r.dh_pair = mine
      /\ r.remote_dh = theirs
      /\ r.skipped = empty
      /\ r.receiving_chain = receiving
      /\ r.receiving_count = zero
  BY <1>2, <1>3, <1>4, <1>6 DEF RatchetState
<1> HIDE DEF r
<1> QED
  BY <1>1, <1>7, <1>8 DEF zero, mine, theirs, empty

----------------------------------------------------------------------------
(* Types of the parts, so that the steps below need not expand the record  *)
(* sets.                                                                   *)

LEMMA StateTypes ==
    ASSUME NEW r \in RatchetState
    PROVE  /\ r.session_id = Session
           /\ r.root_key \in RootKey /\ Len(r.root_key) \in Nat
           /\ r.sending_chain \in ChainKey /\ r.receiving_chain \in ChainKey
           /\ r.sending_chain.root \in RootKey /\ Len(r.sending_chain.root) \in Nat
           /\ r.sending_chain.pos \in Nat
           /\ r.dh_pair \in DhKey /\ r.remote_dh \in DhKey
           /\ r.sending_count \in Nat /\ r.receiving_count \in Nat
           /\ r.sending_count <= COUNTER_MAX /\ r.receiving_count <= COUNTER_MAX
           /\ r.skipped \in Seq(SkippedMessageKey) /\ Len(r.skipped) \in Nat
           /\ \A i \in 1..Len(r.skipped) : /\ r.skipped[i].remote_dh \in DhKey
                                           /\ r.skipped[i].message_number \in Nat
<1>1. /\ r.session_id = Session
      /\ r.root_key \in RootKey
      /\ r.sending_chain \in ChainKey /\ r.receiving_chain \in ChainKey
      /\ r.dh_pair \in DhKey /\ r.remote_dh \in DhKey
      /\ r.sending_count \in 0..COUNTER_MAX /\ r.receiving_count \in 0..COUNTER_MAX
      /\ r.skipped \in Seq(SkippedMessageKey)
  BY DEF RatchetState
<1>2. /\ r.sending_chain.root \in RootKey
      /\ r.sending_chain.pos \in Nat
  BY <1>1 DEF ChainKey
<1>3. Len(r.root_key) \in Nat /\ Len(r.sending_chain.root) \in Nat
  BY <1>1, <1>2 DEF RootKey
<1>4. \A i \in 1..Len(r.skipped) : r.skipped[i] \in SkippedMessageKey
  BY <1>1
<1>5. Len(r.skipped) \in Nat
  BY <1>1
<1>6. \A i \in 1..Len(r.skipped) : /\ r.skipped[i].remote_dh \in DhKey
                                    /\ r.skipped[i].message_number \in Nat
  BY <1>4 DEF SkippedMessageKey
<1> QED
  BY <1>1, <1>2, <1>3, <1>5, <1>6, LimitsAssumption

LEMMA FrameTypes ==
    ASSUME NEW f \in InnerFrame
    PROVE  /\ f.ratchet_public \in DhKey
           /\ f.message_number \in Nat /\ f.previous_chain_len \in Nat
           /\ f.message_number <= COUNTER_MAX
           /\ f.key \in MessageKey
           /\ f.key.root \in RootKey /\ Len(f.key.root) \in Nat
           /\ f.key.index \in Nat
           /\ Sender(f) \in Role
<1>1. /\ f.ratchet_public \in DhKey
      /\ f.message_number \in 0..COUNTER_MAX /\ f.previous_chain_len \in 0..COUNTER_MAX
      /\ f.key \in MessageKey
  BY DEF InnerFrame
<1>2. f.key.root \in RootKey /\ f.key.index \in Nat
  BY <1>1 DEF MessageKey
<1>3. Len(f.key.root) \in Nat
  BY <1>2 DEF RootKey
<1>4. Sender(f) \in Role
  BY <1>1 DEF Sender, Owner, DhKey
<1> QED
  BY <1>1, <1>2, <1>3, <1>4, LimitsAssumption

LEMMA Peers ==
    /\ \A e \in Role : Peer(e) \in Role /\ Peer(e) # e /\ Peer(Peer(e)) = e
    /\ \A e, d \in Role : d # e => d = Peer(e)
  BY DEF Role, Peer

\* A frame that authenticates arrived as it was emitted.
LEMMA ArrivalIntact ==
    ASSUME TypeOK, NEW f \in Arrivals, f.intact
    PROVE  f \in net /\ f \in InnerFrame
<1>1. ASSUME NEW g \in net PROVE Damaged(g).intact = FALSE /\ Misrouted(g).intact = FALSE
  <2>1. g \in InnerFrame
    BY DEF TypeOK
  <2> QED
    BY <2>1 DEF Damaged, Misrouted, InnerFrame
<1>2. f \in net
  BY <1>1 DEF Arrivals
<1> QED
  BY <1>2 DEF TypeOK

----------------------------------------------------------------------------
(* A fresh sending chain: common to rotation and to a new ratchet.         *)

\* KnownKey and KnownRoot in the state after the step.
KnownKeyAfter(y) == y[2] <= generated'[y[1]]
KnownRootAfter(rt) == \A i \in 1..Len(rt) : \A y \in rt[i] : KnownKeyAfter(y)

SendInv == KeysInv /\ CountInv /\ FrameInv /\ ChainInv /\ SendingInv

LEMMA FreshChain ==
    ASSUME TypeOK, TypeOK', SendInv,
           NEW e \in Role, NEW root \in RootKey, NEW x \in DhKey,
           KnownRoot(root), KnownKey(x),
           Len(ratchet[e].root_key) <= Len(root),
           generated' = [generated EXCEPT ![e] = @ + 1],
           net' = net,
           \A d \in Role : d # e => ratchet'[d] = ratchet[d],
           ratchet'[e].dh_pair = generate(e),
           ratchet'[e].root_key = next_root(root, diffie_hellman(generate(e), x)),
           ratchet'[e].sending_chain = root_chain(root, diffie_hellman(generate(e), x)),
           ratchet'[e].sending_count = 0,
           Owner(ratchet'[e].remote_dh) = Peer(e),
           KnownKey(ratchet'[e].remote_dh)
    PROVE  SendInv'
<1> DEFINE k == generate(e)
           root2 == next_root(root, diffie_hellman(k, x))
           chain == root_chain(root, diffie_hellman(k, x))
<1>1. k \in DhKey /\ k = <<e, generated[e] + 1>> /\ generated[e] \in Nat
  BY DEF TypeOK, generate, DhKey
<1>2. /\ root2 \in RootKey
      /\ Len(root) \in Nat
      /\ Len(root2) = Len(root) + 1
      /\ root2[Len(root) + 1] = {k, x}
      /\ \A i \in 1..Len(root) : root2[i] = root[i]
      /\ chain.root = root2
      /\ chain.pos = 0
  <2>1. Len(root) \in Nat
    BY DEF RootKey
  <2>2. k \in DhKey
    BY <1>1
  <2> HIDE DEF k
  <2>3. /\ root2 \in RootKey
        /\ Len(root2) = Len(root) + 1
        /\ root2[Len(root) + 1] = {k, x}
        /\ \A i \in 1..Len(root) : root2[i] = root[i]
        /\ chain.root = root2
        /\ chain.pos = 0
    BY ONLY <2>2, x \in DhKey, root \in RootKey, RootTypes, SMTT(30)
  <2> QED
    BY <2>1, <2>3
<1>3. \A y \in DhKey : KnownKey(y) => KnownKeyAfter(y)
  BY DEF KnownKey, KnownKeyAfter, TypeOK, DhKey
<1>4. ASSUME NEW rt \in RootKey, KnownRoot(rt)
      PROVE  /\ \A i \in 1..Len(rt) : \A y \in rt[i] : KnownKeyAfter(y)
             /\ rt # root2
  <2>1. ASSUME NEW i \in 1..Len(rt), NEW y \in rt[i] PROVE KnownKeyAfter(y)
    <3>1. y \in DhKey
      BY DEF RootKey
    <3> QED
      BY <3>1, <1>3, <1>4 DEF KnownRoot
  <2>2. ~KnownKey(k)
    BY <1>1 DEF KnownKey
  <2>3. rt # root2
    <3> HIDE DEF k, root2
    <3> QED
      BY <2>2, <1>2, <1>4 DEF KnownRoot
  <2> QED
    BY <2>1, <2>3
<1>5. \A i \in 1..Len(root2) : \A y \in root2[i] : KnownKeyAfter(y)
  <2>1. KnownKeyAfter(k)
    BY <1>1 DEF KnownKeyAfter, TypeOK
  <2>2. KnownKeyAfter(x)
    BY <1>3
  <2> HIDE DEF k, root2
  <2>3. \A i \in 1..Len(root) : \A y \in root2[i] : KnownKeyAfter(y)
    BY <1>2, <1>4
  <2>4. \A y \in root2[Len(root) + 1] : KnownKeyAfter(y)
    BY <2>1, <2>2, <1>2
  <2> QED
    BY <2>3, <2>4, <1>2
<1>6. \A d \in Role : ratchet[d] \in RatchetState /\ ratchet'[d] \in RatchetState
  BY DEF TypeOK
<1>7. \A f \in net : f \in InnerFrame
  BY DEF TypeOK
<1> HIDE DEF k, root2, chain
<1>8. KeysInv'
  <2> SUFFICES ASSUME NEW d \in Role
               PROVE  /\ Owner(ratchet'[d].dh_pair) = d
                      /\ KnownKeyAfter(ratchet'[d].dh_pair)
                      /\ Owner(ratchet'[d].remote_dh) = Peer(d)
                      /\ KnownKeyAfter(ratchet'[d].remote_dh)
                      /\ KnownRootAfter(ratchet'[d].root_key)
                      /\ KnownRootAfter(ratchet'[d].sending_chain.root)
                      /\ Len(ratchet'[d].sending_chain.root) <= Len(ratchet'[d].root_key)
    BY DEF KeysInv, KnownKey, KnownRoot, KnownKeyAfter, KnownRootAfter
  <2>1. CASE d = e
    <3>1. generated'[e] = generated[e] + 1
      BY DEF TypeOK
    <3>2. KnownKeyAfter(ratchet'[e].remote_dh)
      BY <1>3, <1>6, StateTypes
    <3>3. ratchet'[e].root_key = root2 /\ ratchet'[e].sending_chain = chain
      BY DEF root2, chain, k
    <3>4. KnownRootAfter(root2)
      BY <1>5 DEF KnownRootAfter
    <3>5. Owner(ratchet'[e].dh_pair) = e /\ KnownKeyAfter(ratchet'[e].dh_pair)
      BY <1>1, <3>1 DEF k, Owner, KnownKeyAfter
    <3>6. Len(root2) <= Len(root2)
      BY <1>2
    <3>7. ratchet'[e].sending_chain.root = root2
      BY <3>3, <1>2
    <3> QED
      BY <2>1, <3>2, <3>3, <3>4, <3>5, <3>6, <3>7
  <2>2. CASE d # e
    <3>1. ratchet'[d] = ratchet[d] /\ generated'[d] = generated[d]
      BY <2>2 DEF TypeOK
    <3>2. /\ Owner(ratchet[d].dh_pair) = d
          /\ KnownKey(ratchet[d].dh_pair)
          /\ Owner(ratchet[d].remote_dh) = Peer(d)
          /\ KnownKey(ratchet[d].remote_dh)
          /\ KnownRoot(ratchet[d].root_key)
          /\ KnownRoot(ratchet[d].sending_chain.root)
          /\ Len(ratchet[d].sending_chain.root) <= Len(ratchet[d].root_key)
      BY DEF SendInv, KeysInv
    <3>3. /\ ratchet[d].remote_dh \in DhKey /\ ratchet[d].dh_pair \in DhKey
          /\ ratchet[d].root_key \in RootKey
          /\ ratchet[d].sending_chain.root \in RootKey
      BY <1>6, StateTypes
    <3>4. KnownKeyAfter(ratchet[d].remote_dh) /\ KnownKeyAfter(ratchet[d].dh_pair)
      BY <3>1, <3>2, <3>3, <1>3
    <3>5. KnownRootAfter(ratchet[d].root_key) /\ KnownRootAfter(ratchet[d].sending_chain.root)
      BY <3>1, <3>2, <3>3, <1>4 DEF KnownRootAfter
    <3> QED
      BY <3>1, <3>2, <3>4, <3>5
  <2> QED
    BY <2>1, <2>2
<1>9. CountInv'
  <2>1. ratchet'[e].sending_chain.pos = ratchet'[e].sending_count
    BY <1>2 DEF chain, k
  <2> QED
    BY <2>1 DEF SendInv, CountInv
<1>10. FrameInv'
  <2> SUFFICES ASSUME NEW f \in net
               PROVE  /\ f.intact
                      /\ f.session_id = Session
                      /\ KnownKeyAfter(f.ratchet_public)
                      /\ KnownRootAfter(f.key.root)
                      /\ f.key.index = f.message_number
                      /\ f.message_number < COUNTER_MAX
                      /\ Len(f.key.root) <= Len(ratchet'[Sender(f)].root_key)
    BY DEF FrameInv, KnownKey, KnownRoot, KnownKeyAfter, KnownRootAfter
  <2>1. /\ f.intact
        /\ f.session_id = Session
        /\ KnownKey(f.ratchet_public)
        /\ KnownRoot(f.key.root)
        /\ f.key.index = f.message_number
        /\ f.message_number < COUNTER_MAX
        /\ Len(f.key.root) <= Len(ratchet[Sender(f)].root_key)
    BY DEF SendInv, FrameInv
  <2>2. /\ f.ratchet_public \in DhKey /\ f.key.root \in RootKey
        /\ Sender(f) \in Role /\ Len(f.key.root) \in Nat
    BY <1>7, FrameTypes
  <2>3. KnownKeyAfter(f.ratchet_public) /\ KnownRootAfter(f.key.root)
    BY <2>1, <2>2, <1>3, <1>4 DEF KnownRootAfter
  <2>4. Len(f.key.root) <= Len(ratchet'[Sender(f)].root_key)
    <3>1. CASE Sender(f) = e
      <4>1. ratchet'[e].root_key = root2 /\ Len(ratchet[e].root_key) \in Nat
        BY <1>6, StateTypes DEF root2, k
      <4> QED
        BY <4>1, <3>1, <2>1, <2>2, <1>2
    <3>2. CASE Sender(f) # e
      BY <3>2, <2>1, <2>2
    <3> QED
      BY <3>1, <3>2
  <2> QED
    BY <2>1, <2>3, <2>4
<1>11. ChainInv'
  BY DEF SendInv, ChainInv
<1>12. \A f \in net : f.ratchet_public # k /\ f.key.root # root2
  <2> TAKE f \in net
  <2>1. KnownKey(f.ratchet_public) /\ KnownRoot(f.key.root)
    BY DEF SendInv, FrameInv
  <2>2. f.ratchet_public # k
    BY <2>1, <1>1 DEF KnownKey
  <2>3. f.key.root # root2
    BY <2>1, <1>4, <1>7, FrameTypes
  <2> QED
    BY <2>2, <2>3
<1>13. \A d \in Role : ratchet[d].sending_chain.root # root2
  BY <1>4, <1>6, StateTypes DEF SendInv, KeysInv
<1>14. SendingInv'
  <2>1. ratchet'[e].dh_pair = k /\ ratchet'[e].sending_chain.root = root2
    BY <1>2 DEF k, chain
  <2>2. \A d \in Role \ {e} : ratchet'[d] = ratchet[d]
    OBVIOUS
  <2> QED
    BY <2>1, <2>2, <1>12, <1>13 DEF SendInv, SendingInv, SameChain
<1> QED
  BY <1>8, <1>9, <1>10, <1>11, <1>14 DEF SendInv

----------------------------------------------------------------------------
(* Passed keys stay passed.                                                *)

PassedAfter(d, y) ==
    /\ KnownKeyAfter(y)
    /\ \A f \in net' :
         f.ratchet_public = y => Len(f.key.root) <= Len(ratchet'[d].root_key)
    /\ y = ratchet'[Peer(d)].dh_pair
         => Len(ratchet'[Peer(d)].sending_chain.root) <= Len(ratchet'[d].root_key)

LEMMA PassedFresh ==
    ASSUME TypeOK, TypeOK', SendInv,
           NEW e \in Role,
           generated' = [generated EXCEPT ![e] = @ + 1],
           net' = net,
           \A d \in Role : d # e => ratchet'[d] = ratchet[d],
           ratchet'[e].dh_pair = generate(e),
           Len(ratchet[e].root_key) <= Len(ratchet'[e].root_key),
           NEW d \in Role, NEW y \in DhKey, Passed(d, y)
    PROVE  PassedAfter(d, y)
<1>1. KnownKey(y) /\ KnownKeyAfter(y)
  BY DEF Passed, KnownKey, KnownKeyAfter, TypeOK, DhKey
<1>2. y # generate(e)
  BY <1>1 DEF generate, KnownKey, TypeOK
<1>3. Len(ratchet[d].root_key) <= Len(ratchet'[d].root_key)
  <2>1. ratchet[d] \in RatchetState
    BY DEF TypeOK
  <2>2. Len(ratchet[d].root_key) \in Nat
    BY <2>1, StateTypes
  <2> QED
    BY <2>2
<1>4. /\ Len(ratchet[d].root_key) \in Nat /\ Len(ratchet'[d].root_key) \in Nat
      /\ Len(ratchet[Peer(d)].sending_chain.root) \in Nat
  <2>1. ratchet[d] \in RatchetState /\ ratchet'[d] \in RatchetState
        /\ ratchet[Peer(d)] \in RatchetState
    BY Peers DEF TypeOK
  <2> QED
    BY <2>1, StateTypes
<1>5. ASSUME NEW f \in net, f.ratchet_public = y
      PROVE  Len(f.key.root) <= Len(ratchet'[d].root_key)
  <2>1. Len(f.key.root) \in Nat
    BY FrameTypes DEF TypeOK
  <2> QED
    BY <2>1, <1>3, <1>4, <1>5 DEF Passed
<1>6. ASSUME y = ratchet'[Peer(d)].dh_pair
      PROVE  Len(ratchet'[Peer(d)].sending_chain.root) <= Len(ratchet'[d].root_key)
  <2>1. Peer(d) # e /\ Peer(d) \in Role
    BY <1>2, <1>6, Peers
  <2>2. ratchet'[Peer(d)] = ratchet[Peer(d)]
    BY <2>1
  <2>3. Len(ratchet[Peer(d)].sending_chain.root) <= Len(ratchet[d].root_key)
    BY <2>2, <1>6 DEF Passed
  <2>4. Len(ratchet[Peer(d)].sending_chain.root) <= Len(ratchet'[d].root_key)
    BY <2>3, <1>3, <1>4, SMTT(30)
  <2> QED
    BY <2>2, <2>4
<1> QED
  BY <1>1, <1>5, <1>6 DEF PassedAfter

\* Steps that leave keys, roots, chains and the network alone.
LEMMA PassedSame ==
    ASSUME TypeOK,
           generated' = generated, net' = net,
           \A d \in Role : /\ ratchet'[d].root_key = ratchet[d].root_key
                           /\ ratchet'[d].dh_pair = ratchet[d].dh_pair
                           /\ ratchet'[d].sending_chain.root = ratchet[d].sending_chain.root,
           NEW d \in Role, NEW y, Passed(d, y)
    PROVE  PassedAfter(d, y)
<1>1. Peer(d) \in Role
  BY Peers
<1> QED
  BY <1>1 DEF Passed, PassedAfter, KnownKey, KnownKeyAfter

LEMMA PassedEncrypt ==
    ASSUME TypeOK, SendInv,
           NEW e \in Role,
           generated' = generated,
           net' = net \cup {Frame(ratchet[e])},
           \A d \in Role : /\ ratchet'[d].root_key = ratchet[d].root_key
                           /\ ratchet'[d].dh_pair = ratchet[d].dh_pair
                           /\ ratchet'[d].sending_chain.root = ratchet[d].sending_chain.root,
           NEW d \in Role, NEW y, Passed(d, y)
    PROVE  PassedAfter(d, y)
<1>1. Peer(d) \in Role
  BY Peers
<1>2. /\ Frame(ratchet[e]).ratchet_public = ratchet[e].dh_pair
      /\ Frame(ratchet[e]).key.root = ratchet[e].sending_chain.root
  <2>1. ratchet[e] \in RatchetState
    BY DEF TypeOK
  <2>2. ratchet[e].sending_chain \in ChainKey
    BY <2>1, StateTypes
  <2>3. KeyOf(ratchet[e].sending_chain).root = ratchet[e].sending_chain.root
    BY <2>2, ScheduleTypes
  <2> QED
    BY <2>1, <2>3, FrameFields
<1>3. y = ratchet[e].dh_pair
        => Len(ratchet[e].sending_chain.root) <= Len(ratchet[d].root_key)
  <2>1. CASE d = e
    BY <2>1 DEF SendInv, KeysInv
  <2>2. CASE d # e
    <3>1. e = Peer(d)
      BY <2>2, Peers
    <3> QED
      BY <3>1 DEF Passed
  <2> QED
    BY <2>1, <2>2
<1>4. ASSUME NEW f \in net', f.ratchet_public = y
      PROVE  Len(f.key.root) <= Len(ratchet'[d].root_key)
  <2>1. CASE f \in net
    BY <2>1, <1>4 DEF Passed
  <2>2. CASE f = Frame(ratchet[e])
    BY <2>2, <1>2, <1>3, <1>4
  <2> QED
    BY <2>1, <2>2
<1> QED
  BY <1>1, <1>4 DEF Passed, PassedAfter, KnownKey, KnownKeyAfter

----------------------------------------------------------------------------
(* Steps that do not receive.                                              *)

ReceiveInv == SkippedBounded /\ SkippedInv /\ SkippedUnique /\ DeliveredInv

LEMMA NotReceiving ==
    ASSUME TypeOK, ReceiveInv,
           delivered' = delivered, net \subseteq net',
           \A d \in Role : /\ ratchet'[d].skipped = ratchet[d].skipped
                           /\ ratchet'[d].remote_dh = ratchet[d].remote_dh
                           /\ ratchet'[d].receiving_count = ratchet[d].receiving_count,
           \A d \in Role, y \in DhKey : Passed(d, y) => PassedAfter(d, y)
    PROVE  ReceiveInv'
<1>1. \A d \in Role : /\ ratchet[d].remote_dh \in DhKey
                      /\ \A i \in 1..Len(ratchet[d].skipped) :
                           ratchet[d].skipped[i].remote_dh \in DhKey
  BY StateTypes DEF TypeOK
<1>2. \A d \in Role : \A f \in delivered[d] : f.ratchet_public \in DhKey
  BY FrameTypes DEF TypeOK
<1>3. SkippedBounded'
  BY DEF ReceiveInv, SkippedBounded
<1>4. SkippedUnique'
  BY DEF ReceiveInv, SkippedUnique
<1>5. SkippedInv'
  <2> SUFFICES ASSUME NEW d \in Role
               PROVE  /\ PassedAfter(d, ratchet'[d].remote_dh)
                      /\ \A i \in 1..Len(ratchet'[d].skipped) :
                           /\ PassedAfter(d, ratchet'[d].skipped[i].remote_dh)
                           /\ ratchet'[d].skipped[i].remote_dh = ratchet'[d].remote_dh
                                => ratchet'[d].skipped[i].message_number
                                     < ratchet'[d].receiving_count
    BY DEF SkippedInv, Passed, PassedAfter, KnownKey, KnownKeyAfter
  <2> QED
    BY <1>1 DEF ReceiveInv, SkippedInv
<1>6. DeliveredInv'
  <2> SUFFICES ASSUME NEW d \in Role, NEW f \in delivered'[d]
               PROVE  /\ f \in net'
                      /\ Sender(f) = Peer(d)
                      /\ PassedAfter(d, f.ratchet_public)
                      /\ f.ratchet_public = ratchet'[d].remote_dh
                           => f.message_number < ratchet'[d].receiving_count
                      /\ \A i \in 1..Len(ratchet'[d].skipped) :
                           ~(/\ ratchet'[d].skipped[i].remote_dh = f.ratchet_public
                             /\ ratchet'[d].skipped[i].message_number = f.message_number)
    BY DEF DeliveredInv, Passed, PassedAfter, KnownKey, KnownKeyAfter
  <2> QED
    BY <1>2 DEF ReceiveInv, DeliveredInv
<1> QED
  BY <1>3, <1>4, <1>5, <1>6 DEF ReceiveInv

LEMMA InvParts == RatchetInv <=> TypeOK /\ SendInv /\ ReceiveInv
  BY DEF RatchetInv, SendInv, ReceiveInv

LEMMA EncryptStep ==
    ASSUME RatchetInv, NEW e \in Role, Encrypt(e)
    PROVE  RatchetInv'
<1> DEFINE r == ratchet[e]
           g == Frame(r)
<1>1. TypeOK /\ SendInv /\ ReceiveInv
  BY InvParts
<1>2. /\ r \in RatchetState
      /\ r.sending_count < COUNTER_MAX
      /\ net' = net \cup {g}
      /\ ratchet' = [ratchet EXCEPT ![e] = AfterEncrypt(r)]
      /\ generated' = generated /\ rotations' = rotations /\ delivered' = delivered
      /\ returned' = returned
  BY <1>1 DEF Encrypt, TypeOK
<1>3. /\ ratchet'[e] = AfterEncrypt(r)
      /\ \A d \in Role : d # e => ratchet'[d] = ratchet[d]
  BY <1>1, <1>2 DEF TypeOK
<1>4. /\ g \in InnerFrame /\ g.intact /\ g.session_id = Session /\ g.suite = r.suite
      /\ g.ratchet_public = r.dh_pair
      /\ g.previous_chain_len = r.previous_sending_chain_len
      /\ g.message_number = r.sending_count
      /\ g.key = KeyOf(r.sending_chain)
  BY <1>2, FrameFields
<1>5. /\ ratchet'[e] \in RatchetState
      /\ ratchet'[e].sending_chain = Advance(r.sending_chain, 1)
      /\ ratchet'[e].sending_count = r.sending_count + 1
      /\ ratchet'[e].suite = r.suite
      /\ ratchet'[e].root_key = r.root_key
      /\ ratchet'[e].dh_pair = r.dh_pair
      /\ ratchet'[e].remote_dh = r.remote_dh
      /\ ratchet'[e].receiving_count = r.receiving_count
      /\ ratchet'[e].previous_sending_chain_len = r.previous_sending_chain_len
      /\ ratchet'[e].skipped = r.skipped
  BY <1>2, <1>3, EncryptFields
<1>6. TypeOK'
  BY <1>1, <1>2, <1>4, <1>5 DEF TypeOK
<1>7. /\ r.sending_chain \in ChainKey /\ r.sending_chain.pos \in Nat
      /\ r.sending_count \in Nat
  BY <1>2, StateTypes
<1>8. /\ ratchet'[e].sending_chain.label = r.sending_chain.label
      /\ ratchet'[e].sending_chain.root = r.sending_chain.root
      /\ ratchet'[e].sending_chain.pos = r.sending_chain.pos + 1
      /\ g.key.label = r.sending_chain.label
      /\ g.key.root = r.sending_chain.root
      /\ g.key.index = r.sending_chain.pos
  <2> DEFINE c == r.sending_chain
  <2>1. c \in ChainKey /\ 1 \in Nat
    BY <1>7
  <2> HIDE DEF c
  <2>2. /\ Advance(c, 1).label = c.label
        /\ Advance(c, 1).root = c.root
        /\ Advance(c, 1).pos = c.pos + 1
        /\ KeyOf(c).label = c.label /\ KeyOf(c).root = c.root /\ KeyOf(c).index = c.pos
    BY <2>1, ScheduleTypes
  <2> HIDE DEF r, g
  <2> QED
    BY <2>2, <1>4, <1>5 DEF c
<1> HIDE DEF g
<1>9. KeysInv'
  <2>1. \A d \in Role : /\ ratchet'[d].dh_pair = ratchet[d].dh_pair
                        /\ ratchet'[d].remote_dh = ratchet[d].remote_dh
                        /\ ratchet'[d].root_key = ratchet[d].root_key
                        /\ ratchet'[d].sending_chain.root = ratchet[d].sending_chain.root
    BY <1>3, <1>5, <1>8
  <2>2. generated' = generated
    BY <1>2
  <2> QED
    BY <1>1, <2>1, <2>2 DEF SendInv, KeysInv, KnownKey, KnownRoot
<1>10. CountInv'
  <2>1. r.sending_chain.pos = r.sending_count
    BY <1>1, <1>2 DEF SendInv, CountInv
  <2>2. ratchet'[e].sending_chain.pos = ratchet'[e].sending_count
    BY <2>1, <1>5, <1>8
  <2>3. \A d \in Role : d # e =>
          (ratchet'[d].sending_count < COUNTER_MAX
             => ratchet'[d].sending_chain.pos = ratchet'[d].sending_count)
    BY <1>1, <1>3 DEF SendInv, CountInv
  <2> QED
    BY <2>2, <2>3 DEF CountInv
<1>11. \A d \in Role : /\ ratchet'[d].root_key = ratchet[d].root_key
                       /\ ratchet'[d].dh_pair = ratchet[d].dh_pair
                       /\ ratchet'[d].suite = ratchet[d].suite
                       /\ ratchet'[d].previous_sending_chain_len
                            = ratchet[d].previous_sending_chain_len
                       /\ ratchet'[d].sending_chain.root = ratchet[d].sending_chain.root
                       /\ ratchet'[d].sending_chain.label = ratchet[d].sending_chain.label
                       /\ ratchet'[d].skipped = ratchet[d].skipped
                       /\ ratchet'[d].remote_dh = ratchet[d].remote_dh
                       /\ ratchet'[d].receiving_count = ratchet[d].receiving_count
  BY <1>3, <1>5, <1>8
<1>12. Owner(r.dh_pair) = e /\ KnownKey(r.dh_pair)
       /\ KnownRoot(r.sending_chain.root)
       /\ Len(r.sending_chain.root) <= Len(r.root_key)
       /\ r.sending_chain.pos = r.sending_count
  BY <1>1, <1>2 DEF SendInv, KeysInv, CountInv, TypeOK
<1>13. FrameInv'
  <2> SUFFICES ASSUME NEW f \in net'
               PROVE  /\ f.intact
                      /\ f.session_id = Session
                      /\ KnownKey(f.ratchet_public)
                      /\ KnownRoot(f.key.root)
                      /\ f.key.index = f.message_number
                      /\ f.message_number < COUNTER_MAX
                      /\ Len(f.key.root) <= Len(ratchet'[Sender(f)].root_key)
    BY <1>2 DEF FrameInv, KnownKey, KnownRoot
  <2>1. CASE f \in net
    <3>1. Sender(f) \in Role
      BY <2>1, <1>1, FrameTypes DEF TypeOK
    <3> QED
      BY <2>1, <3>1, <1>1, <1>11 DEF SendInv, FrameInv
  <2>2. CASE f = g
    <3>1. KnownKey(g.ratchet_public) /\ Sender(g) = e
      BY <1>4, <1>12 DEF KnownKey, Sender, Owner
    <3> QED
      BY <2>2, <3>1, <1>2, <1>4, <1>5, <1>8, <1>12
  <2> QED
    BY <2>1, <2>2, <1>2
<1>14. \A f \in net :
         /\ f.ratchet_public = g.ratchet_public
              <=> SameChain(f.key, g.key)
         /\ f.ratchet_public = g.ratchet_public
              => /\ f.previous_chain_len = g.previous_chain_len
                 /\ f.suite = g.suite
  BY <1>1, <1>4, <1>8 DEF SendInv, SendingInv, SameChain
<1>15. ChainInv'
  BY <1>1, <1>2, <1>14 DEF SendInv, ChainInv, SameChain
<1>16. SendingInv'
  <2>1. ASSUME NEW d \in Role, NEW f \in net'
        PROVE  /\ f.ratchet_public = ratchet'[d].dh_pair
                    => /\ SameChain(f.key, ratchet'[d].sending_chain)
                       /\ f.previous_chain_len = ratchet'[d].previous_sending_chain_len
                       /\ f.suite = ratchet'[d].suite
                       /\ f.message_number < ratchet'[d].sending_count
               /\ SameChain(f.key, ratchet'[d].sending_chain)
                    => f.ratchet_public = ratchet'[d].dh_pair
    <3>1. CASE f \in net /\ d # e
      BY <3>1, <1>1, <1>3 DEF SendInv, SendingInv
    <3>2. CASE f \in net /\ d = e
      <4>1. f.message_number \in Nat
        BY <3>2, <1>1, FrameTypes DEF TypeOK
      <4>2. f.ratchet_public = r.dh_pair => f.message_number < r.sending_count
        BY <3>2, <1>1 DEF SendInv, SendingInv
      <4>3. f.ratchet_public = r.dh_pair => f.message_number < r.sending_count + 1
        BY <4>1, <4>2, <1>7
      <4> QED
        BY <3>2, <4>3, <1>1, <1>5, <1>11 DEF SendInv, SendingInv, SameChain
    <3>3. CASE f = g /\ d = e
      <4>1. r.sending_count < r.sending_count + 1
        BY <1>7
      <4> QED
        BY <3>3, <4>1, <1>4, <1>5, <1>8 DEF SameChain
    <3>4. CASE f = g /\ d # e
      <4>1. ratchet[d].dh_pair # r.dh_pair
        BY <3>4, <1>1 DEF SendInv, KeysInv
      <4>2. ~SameChain(r.sending_chain, ratchet[d].sending_chain)
        BY <3>4, <1>1 DEF SendInv, SendingInv
      <4> QED
        BY <3>4, <4>1, <4>2, <1>3, <1>4, <1>8 DEF SameChain
    <3> QED
      BY <3>1, <3>2, <3>3, <3>4, <1>2
  <2>2. ASSUME NEW c \in Role, NEW d \in Role,
               SameChain(ratchet'[c].sending_chain, ratchet'[d].sending_chain)
        PROVE  c = d
    BY <2>2, <1>1, <1>11 DEF SendInv, SendingInv, SameChain
  <2> QED
    BY <2>1, <2>2 DEF SendingInv
<1>17. SendInv'
  BY <1>9, <1>10, <1>13, <1>15, <1>16 DEF SendInv
<1>18. \A d \in Role, y \in DhKey : Passed(d, y) => PassedAfter(d, y)
  <2>1. net' = net \cup {Frame(ratchet[e])}
    BY <1>2 DEF g
  <2> QED
    BY <2>1, <1>1, <1>2, <1>11, PassedEncrypt
<1>19. ReceiveInv'
  BY <1>1, <1>2, <1>11, <1>18, NotReceiving
<1> QED
  BY <1>6, <1>17, <1>19 DEF RatchetInv, SendInv, ReceiveInv

\* Steps that leave what an endpoint sends with alone.
LEMMA NotSending ==
    ASSUME TypeOK, SendInv,
           generated' = generated, net' = net,
           \A d \in Role :
              /\ ratchet'[d].root_key = ratchet[d].root_key
              /\ ratchet'[d].dh_pair = ratchet[d].dh_pair
              /\ ratchet'[d].remote_dh = ratchet[d].remote_dh
              /\ ratchet'[d].suite = ratchet[d].suite
              /\ ratchet'[d].previous_sending_chain_len = ratchet[d].previous_sending_chain_len
              /\ ratchet'[d].sending_count = ratchet[d].sending_count
              /\ ratchet'[d].sending_chain.root = ratchet[d].sending_chain.root
              /\ ratchet'[d].sending_chain.label = ratchet[d].sending_chain.label
              /\ ratchet[d].sending_count < COUNTER_MAX
                   => ratchet'[d].sending_chain.pos = ratchet[d].sending_chain.pos
    PROVE  SendInv'
<1>1. KeysInv'
  BY DEF SendInv, KeysInv, KnownKey, KnownRoot
<1>2. CountInv'
  BY DEF SendInv, CountInv
<1>3. \A f \in net : Sender(f) \in Role
  BY FrameTypes DEF TypeOK
<1>4. FrameInv'
  BY <1>3 DEF SendInv, FrameInv, KnownKey, KnownRoot
<1>5. ChainInv'
  BY DEF SendInv, ChainInv
<1>6. SendingInv'
  BY DEF SendInv, SendingInv, SameChain
<1> QED
  BY <1>1, <1>2, <1>4, <1>5, <1>6 DEF SendInv

LEMMA ExhaustedStep ==
    ASSUME RatchetInv, NEW e \in Role, EncryptExhausted(e)
    PROVE  RatchetInv'
<1> DEFINE r == ratchet[e]
           n == [r EXCEPT !.sending_chain = Advance(@, 1)]
<1>1. TypeOK /\ SendInv /\ ReceiveInv
  BY InvParts
<1>2. /\ r \in RatchetState
      /\ r.sending_count = COUNTER_MAX
      /\ ratchet' = [ratchet EXCEPT ![e] = n]
      /\ generated' = generated /\ rotations' = rotations /\ delivered' = delivered
      /\ net' = net /\ returned' = returned
  BY <1>1 DEF EncryptExhausted, TypeOK
<1>3. /\ n \in RatchetState
      /\ n.sending_chain = Advance(r.sending_chain, 1)
      /\ n.sending_count = r.sending_count
      /\ n.suite = r.suite
      /\ n.root_key = r.root_key
      /\ n.dh_pair = r.dh_pair
      /\ n.remote_dh = r.remote_dh
      /\ n.receiving_count = r.receiving_count
      /\ n.previous_sending_chain_len = r.previous_sending_chain_len
      /\ n.skipped = r.skipped
  BY <1>2, ExhaustedFields
<1>4. /\ Advance(r.sending_chain, 1).root = r.sending_chain.root
      /\ Advance(r.sending_chain, 1).label = r.sending_chain.label
  BY <1>2, StateTypes, ScheduleTypes
<1> HIDE DEF n
<1>5. TypeOK'
  BY <1>1, <1>2, <1>3 DEF TypeOK
<1>6. ~(r.sending_count < COUNTER_MAX)
  BY <1>2, StateTypes
<1>7. \A d \in Role :
        /\ ratchet'[d].root_key = ratchet[d].root_key
        /\ ratchet'[d].dh_pair = ratchet[d].dh_pair
        /\ ratchet'[d].remote_dh = ratchet[d].remote_dh
        /\ ratchet'[d].suite = ratchet[d].suite
        /\ ratchet'[d].previous_sending_chain_len = ratchet[d].previous_sending_chain_len
        /\ ratchet'[d].sending_count = ratchet[d].sending_count
        /\ ratchet'[d].sending_chain.root = ratchet[d].sending_chain.root
        /\ ratchet'[d].sending_chain.label = ratchet[d].sending_chain.label
        /\ ratchet[d].sending_count < COUNTER_MAX
             => ratchet'[d].sending_chain.pos = ratchet[d].sending_chain.pos
        /\ ratchet'[d].skipped = ratchet[d].skipped
        /\ ratchet'[d].receiving_count = ratchet[d].receiving_count
  BY <1>1, <1>2, <1>3, <1>4, <1>6 DEF TypeOK
<1>8. SendInv'
  BY <1>1, <1>2, <1>7, NotSending
<1>9. \A d \in Role, y \in DhKey : Passed(d, y) => PassedAfter(d, y)
  BY <1>1, <1>2, <1>7, PassedSame
<1>10. ReceiveInv'
  BY <1>1, <1>2, <1>7, <1>9, NotReceiving
<1> QED
  BY <1>5, <1>8, <1>10 DEF RatchetInv, SendInv, ReceiveInv

LEMMA RotationStep ==
    ASSUME RatchetInv, NEW e \in Role, RotateSendingRatchet(e)
    PROVE  RatchetInv'
<1> DEFINE r == ratchet[e]
           k == generate(e)
           n == AfterRotation(r, k)
<1>1. TypeOK /\ SendInv /\ ReceiveInv
  BY InvParts
<1>2. /\ r \in RatchetState
      /\ k \in DhKey
      /\ ratchet' = [ratchet EXCEPT ![e] = n]
      /\ generated' = [generated EXCEPT ![e] = @ + 1]
      /\ rotations' = rotations + 1
      /\ delivered' = delivered /\ returned' = returned
      /\ net' = net
  BY <1>1 DEF RotateSendingRatchet, TypeOK, generate, DhKey
<1>3. /\ n \in RatchetState
      /\ n.root_key = next_root(r.root_key, diffie_hellman(k, r.remote_dh))
      /\ n.sending_chain = root_chain(r.root_key, diffie_hellman(k, r.remote_dh))
      /\ n.dh_pair = k
      /\ n.sending_count = 0
      /\ n.remote_dh = r.remote_dh
      /\ n.receiving_count = r.receiving_count
      /\ n.skipped = r.skipped
  BY <1>2, RotationFields
<1>4. /\ r.root_key \in RootKey /\ r.remote_dh \in DhKey /\ Len(r.root_key) \in Nat
  BY <1>2, StateTypes
<1>5. Len(r.root_key) <= Len(n.root_key)
  <2>1. \A root \in RootKey, x, y \in DhKey :
          Len(next_root(root, diffie_hellman(x, y))) = Len(root) + 1
    BY RootTypes
  <2>2. Len(n.root_key) = Len(r.root_key) + 1
    <3> HIDE DEF r, k, n
    <3> QED
      BY ONLY <1>2, <1>3, <1>4, <2>1
  <2> QED
    BY <2>2, <1>4
<1> HIDE DEF n
<1>6. TypeOK'
  BY <1>1, <1>2, <1>3 DEF TypeOK
<1>7. ratchet'[e] = n /\ \A d \in Role : d # e => ratchet'[d] = ratchet[d]
  BY <1>1, <1>2 DEF TypeOK
<1>8. /\ Owner(r.remote_dh) = Peer(e) /\ KnownKey(r.remote_dh)
      /\ KnownRoot(r.root_key)
  BY <1>1 DEF SendInv, KeysInv
<1>9. Len(r.root_key) <= Len(r.root_key)
  BY <1>4
<1>10. SendInv'
  BY <1>1, <1>2, <1>3, <1>4, <1>6, <1>7, <1>8, <1>9, FreshChain
<1>11. \A d \in Role, y \in DhKey : Passed(d, y) => PassedAfter(d, y)
  BY <1>1, <1>2, <1>3, <1>5, <1>6, <1>7, PassedFresh
<1>12. \A d \in Role : /\ ratchet'[d].skipped = ratchet[d].skipped
                       /\ ratchet'[d].remote_dh = ratchet[d].remote_dh
                       /\ ratchet'[d].receiving_count = ratchet[d].receiving_count
  BY <1>3, <1>7
<1>13. ReceiveInv'
  BY <1>1, <1>2, <1>11, <1>12, NotReceiving
<1> QED
  BY <1>6, <1>10, <1>13 DEF RatchetInv, SendInv, ReceiveInv

----------------------------------------------------------------------------
(* Steps that receive.                                                     *)

\* t is s followed by entries of key k for the numbers start .. end - 1.
Extends(t, s, k, start, end) ==
    /\ t \in Seq(SkippedMessageKey)
    /\ Len(s) \in Nat
    /\ Len(t) = Len(s) + (end - start)
    /\ \A i \in 1..Len(s) : t[i] = s[i]
    /\ \A i \in (Len(s) + 1)..Len(t) :
         /\ t[i].remote_dh = k
         /\ t[i].message_number = start + (i - Len(s)) - 1

LEMMA AppendRange ==
    ASSUME NEW s \in Seq(SkippedMessageKey), NEW k \in DhKey, NEW chain \in ChainKey,
           NEW start \in Nat, NEW end \in Nat, start <= end
    PROVE  Extends(s \o derive_range(k, chain, start, end), s, k, start, end)
<1> DEFINE d == derive_range(k, chain, start, end)
<1>1. /\ d \in Seq(SkippedMessageKey) /\ Len(d) = end - start
      /\ \A i \in 1..Len(d) : d[i].remote_dh = k /\ d[i].message_number = start + i - 1
  BY RangeType, SMTT(30)
<1> HIDE DEF d
<1>2. /\ s \o d \in Seq(SkippedMessageKey)
      /\ Len(s \o d) = Len(s) + Len(d)
      /\ \A i \in 1..(Len(s) + Len(d)) : (s \o d)[i] = IF i <= Len(s) THEN s[i] ELSE d[i - Len(s)]
  BY <1>1, ConcatProperties
<1> DEFINE t == s \o d
<1>4. /\ t \in Seq(SkippedMessageKey)
      /\ Len(t) = Len(s) + Len(d)
      /\ \A i \in 1..(Len(s) + Len(d)) : t[i] = IF i <= Len(s) THEN s[i] ELSE d[i - Len(s)]
  BY <1>2
<1> HIDE DEF t
<1>5. Len(s) \in Nat /\ Len(d) \in Nat
  BY <1>1
<1>6. \A i \in 1..Len(s) : t[i] = s[i]
  BY ONLY <1>4, <1>5
<1>7. ASSUME NEW i \in (Len(s) + 1)..Len(t)
      PROVE  t[i].remote_dh = k /\ t[i].message_number = start + (i - Len(s)) - 1
  <2>1. i - Len(s) \in 1..Len(d) /\ t[i] = d[i - Len(s)]
    BY ONLY <1>4, <1>5, i \in (Len(s) + 1)..Len(t)
  <2> QED
    BY <2>1, <1>1
<1>8. Extends(t, s, k, start, end)
  BY <1>1, <1>4, <1>5, <1>6, <1>7 DEF Extends
<1> QED
  BY <1>8 DEF t, d

\* It is enough to look at the endpoint that receives.
LEMMA Receiving ==
    ASSUME TypeOK, ReceiveInv, NEW e \in Role, net' = net,
           \A d \in Role : d # e => ratchet'[d] = ratchet[d] /\ delivered'[d] = delivered[d],
           \A d \in Role, y \in DhKey : Passed(d, y) => PassedAfter(d, y),
           Len(ratchet'[e].skipped) <= MAX_SKIPPED_KEYS,
           PassedAfter(e, ratchet'[e].remote_dh),
           \A i \in 1..Len(ratchet'[e].skipped) :
              /\ PassedAfter(e, ratchet'[e].skipped[i].remote_dh)
              /\ ratchet'[e].skipped[i].remote_dh = ratchet'[e].remote_dh
                   => ratchet'[e].skipped[i].message_number < ratchet'[e].receiving_count,
           \A i, j \in 1..Len(ratchet'[e].skipped) :
              (/\ ratchet'[e].skipped[i].remote_dh = ratchet'[e].skipped[j].remote_dh
               /\ ratchet'[e].skipped[i].message_number = ratchet'[e].skipped[j].message_number)
              => i = j,
           \A f \in delivered'[e] :
              /\ f \in net'
              /\ Sender(f) = Peer(e)
              /\ PassedAfter(e, f.ratchet_public)
              /\ f.ratchet_public = ratchet'[e].remote_dh
                   => f.message_number < ratchet'[e].receiving_count
              /\ \A i \in 1..Len(ratchet'[e].skipped) :
                   ~(/\ ratchet'[e].skipped[i].remote_dh = f.ratchet_public
                     /\ ratchet'[e].skipped[i].message_number = f.message_number)
    PROVE  ReceiveInv'
<1>1. \A d \in Role : /\ ratchet[d].remote_dh \in DhKey
                      /\ \A i \in 1..Len(ratchet[d].skipped) :
                           ratchet[d].skipped[i].remote_dh \in DhKey
  BY StateTypes DEF TypeOK
<1>2. \A d \in Role : \A f \in delivered[d] : f.ratchet_public \in DhKey
  BY FrameTypes DEF TypeOK
<1>3. SkippedBounded'
  BY DEF ReceiveInv, SkippedBounded
<1>4. SkippedUnique'
  <2> SUFFICES ASSUME NEW d \in Role,
                      NEW i \in 1..Len(ratchet'[d].skipped),
                      NEW j \in 1..Len(ratchet'[d].skipped),
                      ratchet'[d].skipped[i].remote_dh = ratchet'[d].skipped[j].remote_dh,
                      ratchet'[d].skipped[i].message_number
                        = ratchet'[d].skipped[j].message_number
               PROVE  i = j
    BY DEF SkippedUnique
  <2>1. CASE d = e
    BY <2>1
  <2>2. CASE d # e
    BY <2>2 DEF ReceiveInv, SkippedUnique
  <2> QED
    BY <2>1, <2>2
<1>5. SkippedInv'
  <2> SUFFICES ASSUME NEW d \in Role
               PROVE  /\ PassedAfter(d, ratchet'[d].remote_dh)
                      /\ \A i \in 1..Len(ratchet'[d].skipped) :
                           /\ PassedAfter(d, ratchet'[d].skipped[i].remote_dh)
                           /\ ratchet'[d].skipped[i].remote_dh = ratchet'[d].remote_dh
                                => ratchet'[d].skipped[i].message_number
                                     < ratchet'[d].receiving_count
    BY DEF SkippedInv, Passed, PassedAfter, KnownKey, KnownKeyAfter
  <2>1. CASE d = e
    BY <2>1
  <2>2. CASE d # e
    BY <2>2, <1>1 DEF ReceiveInv, SkippedInv
  <2> QED
    BY <2>1, <2>2
<1>6. DeliveredInv'
  <2> SUFFICES ASSUME NEW d \in Role, NEW f \in delivered'[d]
               PROVE  /\ f \in net'
                      /\ Sender(f) = Peer(d)
                      /\ PassedAfter(d, f.ratchet_public)
                      /\ f.ratchet_public = ratchet'[d].remote_dh
                           => f.message_number < ratchet'[d].receiving_count
                      /\ \A i \in 1..Len(ratchet'[d].skipped) :
                           ~(/\ ratchet'[d].skipped[i].remote_dh = f.ratchet_public
                             /\ ratchet'[d].skipped[i].message_number = f.message_number)
    BY DEF DeliveredInv, Passed, PassedAfter, KnownKey, KnownKeyAfter
  <2>1. CASE d = e
    BY <2>1
  <2>2. CASE d # e
    BY <2>2, <1>2 DEF ReceiveInv, DeliveredInv
  <2> QED
    BY <2>1, <2>2
<1> QED
  BY <1>3, <1>4, <1>5, <1>6 DEF ReceiveInv

LEMMA SkippedStep ==
    ASSUME RatchetInv, NEW e \in Role, NEW f \in Arrivals, DecryptSkipped(e, f)
    PROVE  RatchetInv'
<1> DEFINE r == ratchet[e]
<1>1. TypeOK /\ SendInv /\ ReceiveInv
  BY InvParts
<1>2. PICK i \in 1..Len(r.skipped) :
         /\ OpensSkipped(r, f, i)
         /\ ratchet' = [ratchet EXCEPT ![e] = AfterSkipped(r, i)]
  BY <1>1 DEF DecryptSkipped, TypeOK
<1> DEFINE n == AfterSkipped(r, i)
           t == n.skipped
<1>3. /\ r \in RatchetState
      /\ f \in net /\ f \in InnerFrame
      /\ delivered' = [delivered EXCEPT ![e] = @ \cup {f}]
      /\ returned' = [returned EXCEPT ![e] = @ + 1]
      /\ generated' = generated /\ rotations' = rotations /\ net' = net
      /\ f.ratchet_public = r.remote_dh
      /\ f.message_number < r.receiving_count
      /\ r.skipped[i].remote_dh = f.ratchet_public
      /\ r.skipped[i].message_number = f.message_number
  BY <1>1, <1>2, ArrivalIntact
     DEF DecryptSkipped, Return, TypeOK, OpensSkipped, Opens, Position
<1>4. /\ n \in RatchetState
      /\ t = RemoveAt(r.skipped, i)
      /\ n.suite = r.suite
      /\ n.root_key = r.root_key
      /\ n.sending_chain = r.sending_chain
      /\ n.sending_count = r.sending_count
      /\ n.previous_sending_chain_len = r.previous_sending_chain_len
      /\ n.dh_pair = r.dh_pair
      /\ n.remote_dh = r.remote_dh
      /\ n.receiving_count = r.receiving_count
  BY <1>3, SkippedFields
<1>5. r.skipped \in Seq(SkippedMessageKey) /\ Len(r.skipped) \in Nat
  BY <1>3, StateTypes
<1> HIDE DEF n
<1>6. /\ Len(t) = Len(r.skipped) - 1
      /\ \A j \in 1..Len(t) : t[j] = IF j < i THEN r.skipped[j] ELSE r.skipped[j + 1]
  <2> DEFINE s == r.skipped
  <2>1. s \in Seq(SkippedMessageKey) /\ i \in 1..Len(s)
    BY <1>5
  <2> HIDE DEF s
  <2>2. /\ Len(RemoveAt(s, i)) = Len(s) - 1
        /\ \A j \in 1..(Len(s) - 1) : RemoveAt(s, i)[j] = IF j < i THEN s[j] ELSE s[j + 1]
    BY ONLY <2>1, RemoveAtType
  <2>3. t = RemoveAt(s, i)
    BY <1>4 DEF s
  <2> QED
    BY <2>2, <2>3 DEF s
<1> HIDE DEF t
<1>7. \A j \in 1..Len(t) : \E m \in 1..Len(r.skipped) :
         t[j] = r.skipped[m] /\ m # i /\ m = IF j < i THEN j ELSE j + 1
  <2> TAKE j \in 1..Len(t)
  <2> DEFINE m == IF j < i THEN j ELSE j + 1
  <2>1. m \in 1..Len(r.skipped) /\ m # i
    BY <1>5, <1>6
  <2>2. t[j] = r.skipped[m]
    BY <1>6
  <2> QED
    BY <2>1, <2>2
<1>8. TypeOK'
  BY <1>1, <1>2, <1>3, <1>4 DEF TypeOK, n
<1>9. /\ ratchet'[e] = n /\ ratchet'[e].skipped = t
      /\ \A d \in Role : d # e => ratchet'[d] = ratchet[d] /\ delivered'[d] = delivered[d]
      /\ delivered'[e] = delivered[e] \cup {f}
  BY <1>1, <1>2, <1>3 DEF TypeOK, n, t
<1>10. SendInv'
  BY <1>1, <1>3, <1>4, <1>9, NotSending
<1>11. \A d \in Role, y \in DhKey : Passed(d, y) => PassedAfter(d, y)
  BY <1>1, <1>3, <1>4, <1>9, PassedSame
<1>12. r.remote_dh \in DhKey /\ \A m \in 1..Len(r.skipped) : r.skipped[m].remote_dh \in DhKey
  BY <1>3, StateTypes
<1>13. Len(t) <= MAX_SKIPPED_KEYS
  BY <1>1, <1>5, <1>6, LimitsAssumption DEF ReceiveInv, SkippedBounded
<1>14. PassedAfter(e, r.remote_dh)
  BY <1>1, <1>11, <1>12 DEF ReceiveInv, SkippedInv
<1>15. \A j \in 1..Len(t) :
          /\ PassedAfter(e, t[j].remote_dh)
          /\ t[j].remote_dh = r.remote_dh => t[j].message_number < r.receiving_count
  BY <1>1, <1>7, <1>11, <1>12, ZenonT(60) DEF ReceiveInv, SkippedInv
<1>16. ASSUME NEW j \in 1..Len(t), NEW m \in 1..Len(t),
              t[j].remote_dh = t[m].remote_dh, t[j].message_number = t[m].message_number
       PROVE  j = m
  <2>1. PICK a \in 1..Len(r.skipped) : t[j] = r.skipped[a] /\ a = IF j < i THEN j ELSE j + 1
    BY <1>7
  <2>2. PICK b \in 1..Len(r.skipped) : t[m] = r.skipped[b] /\ b = IF m < i THEN m ELSE m + 1
    BY <1>7
  <2>3. a = b
    BY <2>1, <2>2, <1>1, <1>16 DEF ReceiveInv, SkippedUnique
  <2> QED
    BY <2>1, <2>2, <2>3, <1>5, <1>6
<1>17. ASSUME NEW g \in delivered'[e]
       PROVE  /\ g \in net'
              /\ Sender(g) = Peer(e)
              /\ PassedAfter(e, g.ratchet_public)
              /\ g.ratchet_public = r.remote_dh => g.message_number < r.receiving_count
              /\ \A j \in 1..Len(t) :
                   ~(t[j].remote_dh = g.ratchet_public /\ t[j].message_number = g.message_number)
  <2>1. CASE g \in delivered[e]
    <3>1. g.ratchet_public \in DhKey
      BY <2>1, <1>1, FrameTypes DEF TypeOK
    <3>2. /\ g \in net
          /\ Sender(g) = Peer(e)
          /\ Passed(e, g.ratchet_public)
          /\ g.ratchet_public = r.remote_dh => g.message_number < r.receiving_count
          /\ \A m \in 1..Len(r.skipped) :
               ~(/\ r.skipped[m].remote_dh = g.ratchet_public
                 /\ r.skipped[m].message_number = g.message_number)
      BY <2>1, <1>1 DEF ReceiveInv, DeliveredInv
    <3>3. PassedAfter(e, g.ratchet_public)
      BY <3>1, <3>2, <1>11
    <3>4. \A j \in 1..Len(t) :
            ~(t[j].remote_dh = g.ratchet_public /\ t[j].message_number = g.message_number)
      BY <3>2, <1>7
    <3> QED
      BY <3>2, <3>3, <3>4, <1>3
  <2>2. CASE g = f
    <3>1. Sender(f) = Peer(e)
      BY <1>1, <1>3 DEF SendInv, KeysInv, Sender
    <3>2. ASSUME NEW j \in 1..Len(t), t[j].remote_dh = f.ratchet_public,
                 t[j].message_number = f.message_number
          PROVE  FALSE
      <4>1. PICK m \in 1..Len(r.skipped) : t[j] = r.skipped[m] /\ m # i
        BY <1>7
      <4>2. m = i
        BY <4>1, <3>2, <1>1, <1>3 DEF ReceiveInv, SkippedUnique
      <4> QED
        BY <4>1, <4>2
    <3> QED
      BY <2>2, <3>1, <3>2, <1>3, <1>14
  <2> QED
    BY <2>1, <2>2, <1>9
<1>18. ReceiveInv'
  BY <1>1, <1>3, <1>4, <1>9, <1>11, <1>13, <1>14, <1>15, <1>16, <1>17, Receiving
<1> QED
  BY <1>8, <1>10, <1>18 DEF RatchetInv, SendInv, ReceiveInv

\* What is known of a frame delivered earlier, carried over the step.
LEMMA DeliveredBefore ==
    ASSUME TypeOK, ReceiveInv, NEW e \in Role, NEW g \in delivered[e],
           \A d \in Role, y \in DhKey : Passed(d, y) => PassedAfter(d, y)
    PROVE  /\ g \in net
           /\ g \in InnerFrame
           /\ Sender(g) = Peer(e)
           /\ Passed(e, g.ratchet_public)
           /\ PassedAfter(e, g.ratchet_public)
           /\ g.message_number \in Nat
           /\ g.ratchet_public = ratchet[e].remote_dh
                => g.message_number < ratchet[e].receiving_count
           /\ \A m \in 1..Len(ratchet[e].skipped) :
                ~(/\ ratchet[e].skipped[m].remote_dh = g.ratchet_public
                  /\ ratchet[e].skipped[m].message_number = g.message_number)
<1>1. g \in InnerFrame
  BY DEF TypeOK
<1>2. g.ratchet_public \in DhKey /\ g.message_number \in Nat
  BY <1>1, FrameTypes
<1> QED
  BY <1>1, <1>2 DEF ReceiveInv, DeliveredInv

LEMMA SameRatchetStep ==
    ASSUME RatchetInv, NEW e \in Role, NEW f \in Arrivals, DecryptSameRatchet(e, f)
    PROVE  RatchetInv'
<1> DEFINE r == ratchet[e]
           n == AfterSameRatchet(r, f)
           s == r.skipped
           t == n.skipped
<1>1. TypeOK /\ SendInv /\ ReceiveInv
  BY InvParts
<1>2. /\ r \in RatchetState
      /\ f \in net /\ f \in InnerFrame
      /\ f.ratchet_public = r.remote_dh
      /\ RangeAllowed(r.receiving_count, f.message_number, Len(s))
      /\ ratchet' = [ratchet EXCEPT ![e] = n]
      /\ generated' = generated /\ rotations' = rotations /\ net' = net
  BY <1>1, ArrivalIntact DEF DecryptSameRatchet, TypeOK, OpensSameRatchet, Opens
<1>3. f.message_number < COUNTER_MAX
  BY <1>1, <1>2 DEF SendInv, FrameInv
<1>4. /\ f.message_number \in Nat /\ r.receiving_count \in Nat
      /\ r.remote_dh \in DhKey /\ r.receiving_chain \in ChainKey
      /\ s \in Seq(SkippedMessageKey) /\ Len(s) \in Nat
      /\ \A m \in 1..Len(s) : s[m].remote_dh \in DhKey /\ s[m].message_number \in Nat
  BY <1>2, FrameTypes, StateTypes
<1>5. /\ r.receiving_count <= f.message_number
      /\ Len(s) + (f.message_number - r.receiving_count) <= MAX_SKIPPED_KEYS
  BY <1>2 DEF RangeAllowed
<1>6. /\ delivered' = [delivered EXCEPT ![e] = @ \cup {f}]
      /\ returned' = [returned EXCEPT ![e] = @ + 1]
  <2>1. f.message_number # COUNTER_MAX
    BY <1>3, <1>4, LimitsAssumption
  <2> QED
    BY <2>1 DEF DecryptSameRatchet, ReturnUnlessExhausted, Return
<1>7. /\ n \in RatchetState
      /\ t = s \o derive_range(r.remote_dh, r.receiving_chain,
                              r.receiving_count, f.message_number)
      /\ n.receiving_count = f.message_number + 1
      /\ n.suite = r.suite
      /\ n.root_key = r.root_key
      /\ n.sending_chain = r.sending_chain
      /\ n.sending_count = r.sending_count
      /\ n.previous_sending_chain_len = r.previous_sending_chain_len
      /\ n.dh_pair = r.dh_pair
      /\ n.remote_dh = r.remote_dh
  BY <1>2, <1>3, <1>5, SameRatchetFields
<1> HIDE DEF n, t, s
<1>8. /\ Len(t) = Len(s) + (f.message_number - r.receiving_count)
      /\ \A j \in 1..Len(s) : t[j] = s[j]
      /\ \A j \in (Len(s) + 1)..Len(t) :
           /\ t[j].remote_dh = r.remote_dh
           /\ t[j].message_number = r.receiving_count + (j - Len(s)) - 1
  <2>1. Extends(t, s, r.remote_dh, r.receiving_count, f.message_number)
    BY <1>4, <1>5, <1>7, AppendRange
  <2> QED
    BY <2>1 DEF Extends
<1>9. \A j \in (Len(s) + 1)..Len(t) :
         /\ t[j].message_number \in Nat
         /\ r.receiving_count <= t[j].message_number
         /\ t[j].message_number < f.message_number
  BY <1>4, <1>5, <1>8
<1>10. TypeOK'
  BY <1>1, <1>2, <1>6, <1>7 DEF TypeOK
<1>11. /\ ratchet'[e] = n /\ ratchet'[e].skipped = t
       /\ \A d \in Role : d # e => ratchet'[d] = ratchet[d] /\ delivered'[d] = delivered[d]
       /\ delivered'[e] = delivered[e] \cup {f}
  BY <1>1, <1>2, <1>6 DEF TypeOK, t
<1>12. SendInv'
  BY <1>1, <1>2, <1>7, <1>11, NotSending
<1>13. \A d \in Role, y \in DhKey : Passed(d, y) => PassedAfter(d, y)
  BY <1>1, <1>2, <1>7, <1>11, PassedSame
<1>14. /\ PassedAfter(e, r.remote_dh)
       /\ \A m \in 1..Len(s) :
            /\ PassedAfter(e, s[m].remote_dh)
            /\ s[m].remote_dh = r.remote_dh => s[m].message_number < r.receiving_count
  BY <1>1, <1>4, <1>13 DEF ReceiveInv, SkippedInv, s
<1>15. Len(t) <= MAX_SKIPPED_KEYS
  BY <1>5, <1>8
<1>16. ASSUME NEW j \in 1..Len(t)
       PROVE  /\ PassedAfter(e, t[j].remote_dh)
              /\ t[j].remote_dh = r.remote_dh => t[j].message_number < f.message_number + 1
  <2>1. CASE j \in 1..Len(s)
    BY <2>1, <1>4, <1>5, <1>8, <1>14, SMTT(30)
  <2>2. CASE j \in (Len(s) + 1)..Len(t)
    BY <2>2, <1>4, <1>8, <1>9, <1>14
  <2> QED
    BY <2>1, <2>2, <1>4, <1>5, <1>8
<1>17. ASSUME NEW j \in 1..Len(t), NEW m \in 1..Len(t),
              t[j].remote_dh = t[m].remote_dh, t[j].message_number = t[m].message_number
       PROVE  j = m
  <2>1. CASE j \in 1..Len(s) /\ m \in 1..Len(s)
    BY <2>1, <1>1, <1>8, <1>17 DEF ReceiveInv, SkippedUnique, s
  <2>2. CASE j \in 1..Len(s) /\ m \in (Len(s) + 1)..Len(t)
    BY <2>2, <1>4, <1>8, <1>9, <1>14, <1>17, SMTT(30)
  <2>3. CASE j \in (Len(s) + 1)..Len(t) /\ m \in 1..Len(s)
    <3>1. s[m].remote_dh = r.remote_dh /\ s[m].message_number = t[j].message_number
      BY <2>3, <1>8, <1>17
    <3>2. s[m].message_number < r.receiving_count /\ r.receiving_count <= t[j].message_number
      BY <2>3, <3>1, <1>9, <1>14
    <3> QED
      BY <2>3, <3>1, <3>2, <1>4
  <2>4. CASE j \in (Len(s) + 1)..Len(t) /\ m \in (Len(s) + 1)..Len(t)
    <3>1. r.receiving_count + (j - Len(s)) - 1 = r.receiving_count + (m - Len(s)) - 1
      BY <2>4, <1>8, <1>17
    <3> QED
      BY <3>1, <1>4
  <2> QED
    BY <2>1, <2>2, <2>3, <2>4, <1>4, <1>5, <1>8
<1>18. ASSUME NEW g \in delivered'[e]
       PROVE  /\ g \in net'
              /\ Sender(g) = Peer(e)
              /\ PassedAfter(e, g.ratchet_public)
              /\ g.ratchet_public = r.remote_dh => g.message_number < f.message_number + 1
              /\ \A j \in 1..Len(t) :
                   ~(t[j].remote_dh = g.ratchet_public /\ t[j].message_number = g.message_number)
  <2>0. \A j \in 1..Len(t) : j \in 1..Len(s) \/ j \in (Len(s) + 1)..Len(t)
    BY <1>4, <1>5, <1>8
  <2>1. CASE g \in delivered[e]
    <3>1. /\ g \in net
          /\ Sender(g) = Peer(e)
          /\ PassedAfter(e, g.ratchet_public)
          /\ g.message_number \in Nat
          /\ g.ratchet_public = r.remote_dh => g.message_number < r.receiving_count
          /\ \A m \in 1..Len(s) :
               ~(s[m].remote_dh = g.ratchet_public /\ s[m].message_number = g.message_number)
      BY <2>1, <1>1, <1>13, DeliveredBefore DEF s
    <3>2. g.ratchet_public = r.remote_dh => g.message_number < f.message_number + 1
      BY <3>1, <1>4, <1>5
    <3>3. ASSUME NEW j \in 1..Len(t), t[j].remote_dh = g.ratchet_public,
                 t[j].message_number = g.message_number
          PROVE  FALSE
      <4>1. CASE j \in 1..Len(s)
        BY <4>1, <3>1, <3>3, <1>8
      <4>2. CASE j \in (Len(s) + 1)..Len(t)
        BY <4>2, <3>1, <3>3, <1>4, <1>8, <1>9
      <4> QED
        BY <4>1, <4>2, <2>0
    <3> QED
      BY <3>1, <3>2, <3>3, <1>2
  <2>2. CASE g = f
    <3>1. Sender(f) = Peer(e)
      BY <1>1, <1>2 DEF SendInv, KeysInv, Sender
    <3>2. ASSUME NEW j \in 1..Len(t), t[j].remote_dh = f.ratchet_public,
                 t[j].message_number = f.message_number
          PROVE  FALSE
      <4>1. CASE j \in 1..Len(s)
        BY <4>1, <3>2, <1>2, <1>4, <1>5, <1>8, <1>14
      <4>2. CASE j \in (Len(s) + 1)..Len(t)
        BY <4>2, <3>2, <1>4, <1>9
      <4> QED
        BY <4>1, <4>2, <2>0
    <3>3. f.message_number < f.message_number + 1
      BY <1>4
    <3> QED
      BY <2>2, <3>1, <3>2, <3>3, <1>2, <1>14
  <2> QED
    BY <2>1, <2>2, <1>11
<1>19. ReceiveInv'
  <2>1. /\ ratchet'[e].skipped = t /\ ratchet'[e].remote_dh = r.remote_dh
        /\ ratchet'[e].receiving_count = f.message_number + 1
    BY <1>7, <1>11
  <2>2. /\ Len(ratchet'[e].skipped) <= MAX_SKIPPED_KEYS
        /\ PassedAfter(e, ratchet'[e].remote_dh)
    BY <2>1, <1>14, <1>15
  <2>3. \A i \in 1..Len(ratchet'[e].skipped) :
          /\ PassedAfter(e, ratchet'[e].skipped[i].remote_dh)
          /\ ratchet'[e].skipped[i].remote_dh = ratchet'[e].remote_dh
               => ratchet'[e].skipped[i].message_number < ratchet'[e].receiving_count
    BY <2>1, <1>16
  <2>4. \A i, j \in 1..Len(ratchet'[e].skipped) :
          (/\ ratchet'[e].skipped[i].remote_dh = ratchet'[e].skipped[j].remote_dh
           /\ ratchet'[e].skipped[i].message_number = ratchet'[e].skipped[j].message_number)
          => i = j
    BY <2>1, <1>17
  <2>5. \A g \in delivered'[e] :
          /\ g \in net'
          /\ Sender(g) = Peer(e)
          /\ PassedAfter(e, g.ratchet_public)
          /\ g.ratchet_public = ratchet'[e].remote_dh
               => g.message_number < ratchet'[e].receiving_count
          /\ \A i \in 1..Len(ratchet'[e].skipped) :
               ~(/\ ratchet'[e].skipped[i].remote_dh = g.ratchet_public
                 /\ ratchet'[e].skipped[i].message_number = g.message_number)
    BY <2>1, <1>18
  <2> QED
    BY <1>1, <1>2, <1>11, <1>13, <2>2, <2>3, <2>4, <2>5, Receiving
<1> QED
  BY <1>10, <1>12, <1>19 DEF RatchetInv, SendInv, ReceiveInv

\* The frame that starts a new ratchet at r hangs off r's next root.
LEMMA NewRatchetRoot ==
    ASSUME NEW r \in RatchetState, NEW f \in InnerFrame, OpensNewRatchet(r, f)
    PROVE  Len(f.key.root) = Len(r.root_key) + 1
<1> DEFINE dh == diffie_hellman(r.dh_pair, f.ratchet_public)
           chain == root_chain(r.root_key, dh)
<1>1. /\ r.dh_pair \in DhKey /\ r.root_key \in RootKey
      /\ f.ratchet_public \in DhKey /\ f.message_number \in Nat
  BY StateTypes, FrameTypes
<1>2. chain \in ChainKey /\ Len(chain.root) = Len(r.root_key) + 1
  <2>1. /\ chain \in ChainKey
        /\ chain.root = next_root(r.root_key, dh)
        /\ Len(next_root(r.root_key, dh)) = Len(r.root_key) + 1
    BY ONLY <1>1, RootTypes, SMTT(30)
  <2> QED
    BY ONLY <2>1
<1>3. f.key = KeyOf(Advance(chain, f.message_number))
  BY DEF OpensNewRatchet, Opens
<1> HIDE DEF chain
<1>4. f.key.root = chain.root
  <2>1. /\ Advance(chain, f.message_number) \in ChainKey
        /\ Advance(chain, f.message_number).root = chain.root
    BY <1>1, <1>2, ScheduleTypes
  <2> QED
    BY <2>1, <1>3, ScheduleTypes
<1> QED
  BY <1>2, <1>4

\* The frame that starts a new ratchet at e is one step ahead of e's root, so
\* its sender is the peer and its key is none e has passed.
LEMMA NewRatchetFrame ==
    ASSUME TypeOK, SendInv, NEW e \in Role, NEW f \in net,
           OpensNewRatchet(ratchet[e], f)
    PROVE  /\ f \in InnerFrame
           /\ f.ratchet_public \in DhKey
           /\ KnownKey(f.ratchet_public)
           /\ Len(f.key.root) = Len(ratchet[e].root_key) + 1
           /\ Sender(f) = Peer(e)
           /\ \A y : Passed(e, y) => y # f.ratchet_public
<1> DEFINE r == ratchet[e]
<1>1. r \in RatchetState /\ f \in InnerFrame
  BY DEF TypeOK
<1>2. /\ r.dh_pair \in DhKey /\ r.root_key \in RootKey /\ Len(r.root_key) \in Nat
      /\ f.ratchet_public \in DhKey /\ f.message_number \in Nat
      /\ Sender(f) \in Role /\ Len(f.key.root) \in Nat
  BY <1>1, StateTypes, FrameTypes
<1>3. Len(f.key.root) = Len(r.root_key) + 1
  BY <1>1, NewRatchetRoot
<1>4. Len(f.key.root) <= Len(ratchet[Sender(f)].root_key)
  BY DEF SendInv, FrameInv
<1>5. Sender(f) # e
  BY <1>2, <1>3, <1>4
<1>6. Sender(f) = Peer(e)
  BY <1>2, <1>5, Peers
<1>7. ASSUME NEW y, Passed(e, y), y = f.ratchet_public PROVE FALSE
  <2>1. Len(f.key.root) <= Len(r.root_key)
    BY <1>7 DEF Passed
  <2> QED
    BY <2>1, <1>2, <1>3
<1>8. KnownKey(f.ratchet_public)
  BY DEF SendInv, FrameInv
<1> QED
  BY <1>1, <1>2, <1>3, <1>6, <1>7, <1>8

LEMMA NewRatchetStep ==
    ASSUME RatchetInv, NEW e \in Role, NEW f \in Arrivals, DecryptNewRatchet(e, f)
    PROVE  RatchetInv'
<1> DEFINE r == ratchet[e]
           k == generate(e)
           n == AfterNewRatchet(r, f, k)
           s == r.skipped
           t == n.skipped
           dh_receive == diffie_hellman(r.dh_pair, f.ratchet_public)
           root == next_root(r.root_key, dh_receive)
           dh_send == diffie_hellman(k, f.ratchet_public)
           u == s \o derive_range(r.remote_dh, r.receiving_chain,
                                 r.receiving_count, f.previous_chain_len)
<1>1. TypeOK /\ SendInv /\ ReceiveInv
  BY InvParts
<1>2. /\ r \in RatchetState
      /\ f \in net /\ f \in InnerFrame
      /\ OpensNewRatchet(r, f)
      /\ ratchet' = [ratchet EXCEPT ![e] = n]
      /\ generated' = [generated EXCEPT ![e] = @ + 1]
      /\ rotations' = rotations /\ net' = net
  BY <1>1, ArrivalIntact DEF DecryptNewRatchet, TypeOK, OpensNewRatchet, Opens
<1>3. /\ f.message_number < COUNTER_MAX
  BY <1>1, <1>2 DEF SendInv, FrameInv
<1>4. /\ f.message_number \in Nat /\ f.previous_chain_len \in Nat
      /\ r.receiving_count \in Nat
      /\ r.remote_dh \in DhKey /\ r.dh_pair \in DhKey /\ r.receiving_chain \in ChainKey
      /\ r.root_key \in RootKey /\ Len(r.root_key) \in Nat
      /\ s \in Seq(SkippedMessageKey) /\ Len(s) \in Nat
      /\ \A m \in 1..Len(s) : s[m].remote_dh \in DhKey /\ s[m].message_number \in Nat
  BY <1>2, FrameTypes, StateTypes
<1>5. /\ f.ratchet_public \in DhKey
      /\ KnownKey(f.ratchet_public)
      /\ Len(f.key.root) = Len(r.root_key) + 1
      /\ Sender(f) = Peer(e)
      /\ \A y : Passed(e, y) => y # f.ratchet_public
  BY <1>1, <1>2, NewRatchetFrame
<1>6. /\ f.ratchet_public # r.remote_dh
      /\ r.receiving_count <= f.previous_chain_len
      /\ Len(s) + (f.previous_chain_len - r.receiving_count) + f.message_number
           <= MAX_SKIPPED_KEYS
  <2>1. /\ RangeAllowed(r.receiving_count, f.previous_chain_len, Len(s))
        /\ RangeAllowed(0, f.message_number,
                        Len(s) + (f.previous_chain_len - r.receiving_count))
        /\ f.ratchet_public # r.remote_dh
    BY <1>2 DEF OpensNewRatchet
  <2> HIDE DEF s
  <2> QED
    BY <2>1, <1>4 DEF RangeAllowed
<1>7. /\ delivered' = [delivered EXCEPT ![e] = @ \cup {f}]
      /\ returned' = [returned EXCEPT ![e] = @ + 1]
  <2>1. f.message_number # COUNTER_MAX
    BY <1>3, <1>4, LimitsAssumption
  <2> QED
    BY <2>1 DEF DecryptNewRatchet, ReturnUnlessExhausted, Return
<1>8. k \in DhKey
  BY <1>1 DEF TypeOK, generate, DhKey
<1>9. /\ n \in RatchetState
      /\ t = u \o derive_range(f.ratchet_public, root_chain(r.root_key, dh_receive),
                              0, f.message_number)
      /\ n.root_key = next_root(root, dh_send)
      /\ n.sending_chain = root_chain(root, dh_send)
      /\ n.dh_pair = k
      /\ n.remote_dh = f.ratchet_public
      /\ n.sending_count = 0
      /\ n.receiving_count = f.message_number + 1
  BY <1>2, <1>3, <1>6, <1>8, NewRatchetFields
<1> HIDE DEF n, t, s, k
<1>10. /\ root \in RootKey /\ Len(root) = Len(r.root_key) + 1
       /\ root_chain(r.root_key, dh_receive) \in ChainKey
       /\ root[Len(r.root_key) + 1] = {r.dh_pair, f.ratchet_public}
       /\ \A j \in 1..Len(r.root_key) : root[j] = r.root_key[j]
  <2>1. r.dh_pair \in DhKey /\ r.root_key \in RootKey /\ f.ratchet_public \in DhKey
    BY <1>4, <1>5
  <2>2. RootStep(r.root_key, r.dh_pair, f.ratchet_public)
    BY <2>1, RootStepTypes
  <2> QED
    BY <2>2 DEF RootStep
<1>11. Extends(u, s, r.remote_dh, r.receiving_count, f.previous_chain_len)
  BY <1>4, <1>6, AppendRange
<1> HIDE DEF u, root
<1>12. Extends(t, u, f.ratchet_public, 0, f.message_number)
  <2>1. u \in Seq(SkippedMessageKey)
    BY <1>11 DEF Extends
  <2>2. 0 \in Nat /\ 0 <= f.message_number
    BY <1>4
  <2> QED
    BY <2>1, <2>2, <1>4, <1>5, <1>9, <1>10, AppendRange
<1>13. Len(n.root_key) = Len(r.root_key) + 2
  <2>1. Len(n.root_key) = Len(root) + 1
    BY <1>5, <1>8, <1>9, <1>10, RootTypes
  <2> QED
    BY <2>1, <1>4, <1>10
<1>14. TypeOK'
  BY <1>1, <1>2, <1>7, <1>9 DEF TypeOK
<1>15. /\ ratchet'[e] = n
       /\ \A d \in Role : d # e => ratchet'[d] = ratchet[d] /\ delivered'[d] = delivered[d]
       /\ delivered'[e] = delivered[e] \cup {f}
  BY <1>1, <1>2, <1>7 DEF TypeOK
<1>16. KnownRoot(root)
  <2>1. KnownRoot(r.root_key)
    BY <1>1 DEF SendInv, KeysInv
  <2>2. KnownKey(r.dh_pair)
    BY <1>1 DEF SendInv, KeysInv
  <2>3. \A j \in 1..Len(r.root_key) : \A y \in root[j] : KnownKey(y)
    BY <2>1, <1>10 DEF KnownRoot
  <2>4. \A y \in root[Len(r.root_key) + 1] : KnownKey(y)
    BY <2>2, <1>5, <1>10
  <2>5. \A j \in 1..Len(root) : j \in 1..Len(r.root_key) \/ j = Len(r.root_key) + 1
    BY <1>4, <1>10
  <2> QED
    BY <2>3, <2>4, <2>5 DEF KnownRoot
<1>17. SendInv'
  <2>1. Len(r.root_key) <= Len(root) /\ Owner(f.ratchet_public) = Peer(e)
    BY <1>4, <1>5, <1>10 DEF Sender
  <2>2. k = generate(e)
    BY DEF k
  <2>3. /\ ratchet'[e].dh_pair = generate(e)
        /\ ratchet'[e].root_key = next_root(root, diffie_hellman(generate(e), f.ratchet_public))
        /\ ratchet'[e].sending_chain
             = root_chain(root, diffie_hellman(generate(e), f.ratchet_public))
        /\ ratchet'[e].sending_count = 0
        /\ Owner(ratchet'[e].remote_dh) = Peer(e)
        /\ KnownKey(ratchet'[e].remote_dh)
    BY <2>1, <2>2, <1>5, <1>9, <1>15
  <2>4. root \in RootKey
    BY <1>10
  <2> QED
    BY <2>1, <2>3, <2>4, <1>1, <1>2, <1>5, <1>14, <1>15, <1>16, FreshChain
<1>18. \A d \in Role, y \in DhKey : Passed(d, y) => PassedAfter(d, y)
  <2>1. Len(r.root_key) <= Len(n.root_key)
    BY <1>4, <1>13
  <2>2. k = generate(e)
    BY DEF k
  <2> QED
    BY <2>1, <2>2, <1>1, <1>2, <1>9, <1>14, <1>15, PassedFresh
<1>19. PassedAfter(e, f.ratchet_public)
  <2>1. KnownKeyAfter(f.ratchet_public)
    BY <1>1, <1>2, <1>5 DEF KnownKey, KnownKeyAfter, TypeOK, DhKey
  <2>2. Len(f.key.root) <= Len(n.root_key)
    BY <1>4, <1>5, <1>13
  <2>3. ASSUME NEW g \in net', g.ratchet_public = f.ratchet_public
        PROVE  Len(g.key.root) <= Len(n.root_key)
    <3>1. g.key.root = f.key.root
      BY <2>3, <1>1, <1>2 DEF SendInv, ChainInv, SameChain
    <3> QED
      BY <2>2, <3>1
  <2>4. ASSUME f.ratchet_public = ratchet'[Peer(e)].dh_pair
        PROVE  Len(ratchet'[Peer(e)].sending_chain.root) <= Len(n.root_key)
    <3>1. Peer(e) \in Role /\ ratchet'[Peer(e)] = ratchet[Peer(e)]
      BY <1>15, Peers
    <3>2. f.key.root = ratchet[Peer(e)].sending_chain.root
      BY <2>4, <3>1, <1>1, <1>2 DEF SendInv, SendingInv, SameChain
    <3> QED
      BY <2>2, <3>1, <3>2
  <2> QED
    BY <2>1, <2>3, <2>4, <1>15 DEF PassedAfter
<1>20. /\ Passed(e, r.remote_dh) /\ PassedAfter(e, r.remote_dh)
       /\ \A m \in 1..Len(s) :
            /\ Passed(e, s[m].remote_dh) /\ PassedAfter(e, s[m].remote_dh)
            /\ s[m].remote_dh # f.ratchet_public
            /\ s[m].remote_dh = r.remote_dh => s[m].message_number < r.receiving_count
  BY <1>1, <1>4, <1>5, <1>18 DEF ReceiveInv, SkippedInv, s
<1>21. /\ Len(s) \in Nat /\ Len(u) \in Nat /\ Len(t) \in Nat
       /\ Len(u) = Len(s) + (f.previous_chain_len - r.receiving_count)
       /\ Len(t) = Len(u) + f.message_number
  BY <1>4, <1>6, <1>11, <1>12 DEF Extends
<1>22. Len(t) <= MAX_SKIPPED_KEYS
  BY <1>6, <1>21
\* An entry is an old one, a skipped one of the old chain or of the new one.
<1>23. \A j \in 1..Len(t) :
         \/ j \in 1..Len(s) /\ t[j] = s[j]
         \/ /\ j \in (Len(s) + 1)..Len(u)
            /\ t[j].remote_dh = r.remote_dh
            /\ t[j].message_number = r.receiving_count + (j - Len(s)) - 1
         \/ /\ j \in (Len(u) + 1)..Len(t)
            /\ t[j].remote_dh = f.ratchet_public
            /\ t[j].message_number = j - Len(u) - 1
  <2> TAKE j \in 1..Len(t)
  <2>1. CASE j \in 1..Len(s)
    <3>1. u[j] = s[j]
      BY <2>1, <1>11 DEF Extends
    <3>2. j \in 1..Len(u)
      BY <2>1, <1>4, <1>6, <1>21
    <3>3. t[j] = u[j]
      BY <3>2, <1>12 DEF Extends
    <3> QED
      BY <2>1, <3>1, <3>3
  <2>2. CASE j \in (Len(s) + 1)..Len(u)
    <3>1. /\ u[j].remote_dh = r.remote_dh
          /\ u[j].message_number = r.receiving_count + (j - Len(s)) - 1
      BY <2>2, <1>11 DEF Extends
    <3>2. j \in 1..Len(u)
      BY <2>2, <1>21
    <3>3. t[j] = u[j]
      BY <3>2, <1>12 DEF Extends
    <3> QED
      BY <2>2, <3>1, <3>3
  <2>3. CASE j \in (Len(u) + 1)..Len(t)
    <3>1. /\ t[j].remote_dh = f.ratchet_public
          /\ t[j].message_number = 0 + (j - Len(u)) - 1
      BY <2>3, <1>12 DEF Extends
    <3>2. 0 + (j - Len(u)) - 1 = j - Len(u) - 1
      BY <2>3, <1>21
    <3> QED
      BY <2>3, <3>1, <3>2
  <2> QED
    BY <2>1, <2>2, <2>3, <1>21
<1>24. ASSUME NEW j \in 1..Len(t)
       PROVE  /\ PassedAfter(e, t[j].remote_dh)
              /\ t[j].remote_dh = f.ratchet_public => t[j].message_number < f.message_number
  <2>1. CASE j \in 1..Len(s) /\ t[j] = s[j]
    BY <2>1, <1>20
  <2>2. CASE t[j].remote_dh = r.remote_dh
    BY <2>2, <1>6, <1>20
  <2>3. CASE /\ j \in (Len(u) + 1)..Len(t)
             /\ t[j].remote_dh = f.ratchet_public
             /\ t[j].message_number = j - Len(u) - 1
    <3>1. j - Len(u) - 1 < f.message_number
      BY <2>3, <1>4, <1>21
    <3> QED
      BY <2>3, <3>1, <1>19
  <2> QED
    BY <2>1, <2>2, <2>3, <1>23
<1>25. ASSUME NEW j \in 1..Len(t), NEW m \in 1..Len(t),
              t[j].remote_dh = t[m].remote_dh, t[j].message_number = t[m].message_number
       PROVE  j = m
  <2> DEFINE Unanswered(i) == i \in 1..Len(s) /\ t[i] = s[i]
             Old(i) == /\ i \in (Len(s) + 1)..Len(u)
                       /\ t[i].remote_dh = r.remote_dh
                       /\ t[i].message_number = r.receiving_count + (i - Len(s)) - 1
             New(i) == /\ i \in (Len(u) + 1)..Len(t)
                       /\ t[i].remote_dh = f.ratchet_public
                       /\ t[i].message_number = i - Len(u) - 1
  <2>1. \A i \in 1..Len(t) : Unanswered(i) \/ Old(i) \/ New(i)
    BY <1>23
  <2>2. \A i, p \in 1..Len(t) : Unanswered(i) /\ Old(p) =>
          ~(t[i].remote_dh = t[p].remote_dh /\ t[i].message_number = t[p].message_number)
    <3> SUFFICES ASSUME NEW i \in 1..Len(t), NEW p \in 1..Len(t), Unanswered(i), Old(p),
                        t[i].remote_dh = t[p].remote_dh,
                        t[i].message_number = t[p].message_number
                 PROVE  FALSE
      OBVIOUS
    <3>1. s[i].message_number < r.receiving_count /\ s[i].message_number \in Nat
      BY <1>4, <1>20
    <3>2. s[i].message_number = r.receiving_count + (p - Len(s)) - 1
      OBVIOUS
    <3> QED
      BY <3>1, <3>2, <1>4, <1>21, SMTT(30)
  <2>3. \A i, p \in 1..Len(t) : Unanswered(i) /\ New(p) => t[i].remote_dh # t[p].remote_dh
    BY <1>20
  <2>4. \A i, p \in 1..Len(t) : Old(i) /\ New(p) => t[i].remote_dh # t[p].remote_dh
    BY <1>6
  <2>5. CASE Unanswered(j) /\ Unanswered(m)
    BY <2>5, <1>1, <1>25 DEF ReceiveInv, SkippedUnique, s
  <2>6. CASE Old(j) /\ Old(m)
    <3>1. r.receiving_count + (j - Len(s)) - 1 = r.receiving_count + (m - Len(s)) - 1
      BY <2>6, <1>25
    <3> QED
      BY <3>1, <1>4
  <2>7. CASE New(j) /\ New(m)
    <3>1. j - Len(u) - 1 = m - Len(u) - 1
      BY <2>7, <1>25
    <3> QED
      BY <3>1, <1>21
  <2> HIDE DEF Kept, Old, New
  <2> QED
    BY <2>1, <2>2, <2>3, <2>4, <2>5, <2>6, <2>7, <1>25
<1>26. ASSUME NEW g \in delivered'[e]
       PROVE  /\ g \in net'
              /\ Sender(g) = Peer(e)
              /\ PassedAfter(e, g.ratchet_public)
              /\ g.ratchet_public = f.ratchet_public => g.message_number < f.message_number + 1
              /\ \A j \in 1..Len(t) :
                   ~(t[j].remote_dh = g.ratchet_public /\ t[j].message_number = g.message_number)
  <2>1. CASE g \in delivered[e]
    <3>1. /\ g \in net
          /\ Sender(g) = Peer(e)
          /\ Passed(e, g.ratchet_public)
          /\ PassedAfter(e, g.ratchet_public)
          /\ g.message_number \in Nat
          /\ g.ratchet_public = r.remote_dh => g.message_number < r.receiving_count
          /\ \A m \in 1..Len(s) :
               ~(s[m].remote_dh = g.ratchet_public /\ s[m].message_number = g.message_number)
      BY <2>1, <1>1, <1>18, DeliveredBefore DEF s
    <3>2. g.ratchet_public # f.ratchet_public
      BY <3>1, <1>5
    <3>3. ASSUME NEW j \in 1..Len(t), t[j].remote_dh = g.ratchet_public,
                 t[j].message_number = g.message_number
          PROVE  FALSE
      <4>1. CASE j \in 1..Len(s) /\ t[j] = s[j]
        BY <4>1, <3>1, <3>3
      <4>2. CASE /\ j \in (Len(s) + 1)..Len(u)
                 /\ t[j].remote_dh = r.remote_dh
                 /\ t[j].message_number = r.receiving_count + (j - Len(s)) - 1
        <5>1. g.message_number < r.receiving_count
          BY <4>2, <3>1, <3>3
        <5>2. g.message_number = r.receiving_count + (j - Len(s)) - 1
          BY <4>2, <3>3
        <5> QED
          BY <5>1, <5>2, <4>2, <3>1, <1>4, <1>21, SMTT(30)
      <4>3. CASE t[j].remote_dh = f.ratchet_public
        BY <4>3, <3>2, <3>3
      <4> QED
        BY <4>1, <4>2, <4>3, <1>23
    <3> QED
      BY <3>1, <3>2, <3>3, <1>2
  <2>2. CASE g = f
    <3>1. ASSUME NEW j \in 1..Len(t), t[j].remote_dh = f.ratchet_public,
                 t[j].message_number = f.message_number
          PROVE  FALSE
      <4>1. t[j].message_number < f.message_number
        BY <3>1, <1>24
      <4> QED
        BY <4>1, <3>1, <1>4
    <3>2. f.message_number < f.message_number + 1
      BY <1>4
    <3> QED
      BY <2>2, <3>1, <3>2, <1>2, <1>5, <1>19
  <2> QED
    BY <2>1, <2>2, <1>15
<1>27. ReceiveInv'
  <2>1. /\ ratchet'[e].skipped = t /\ ratchet'[e].remote_dh = f.ratchet_public
        /\ ratchet'[e].receiving_count = f.message_number + 1
    BY <1>9, <1>15 DEF t
  <2>2. /\ Len(ratchet'[e].skipped) <= MAX_SKIPPED_KEYS
        /\ PassedAfter(e, ratchet'[e].remote_dh)
    BY <2>1, <1>19, <1>22
  <2>3. \A i \in 1..Len(ratchet'[e].skipped) :
          /\ PassedAfter(e, ratchet'[e].skipped[i].remote_dh)
          /\ ratchet'[e].skipped[i].remote_dh = ratchet'[e].remote_dh
               => ratchet'[e].skipped[i].message_number < ratchet'[e].receiving_count
    <3>1. \A i \in 1..Len(t) : t[i].message_number \in Nat
      BY <1>9, StateTypes DEF t
    <3>2. \A i \in 1..Len(t) : t[i].message_number < f.message_number
                                 => t[i].message_number < f.message_number + 1
      BY <3>1, <1>4
    <3> QED
      BY <2>1, <3>2, <1>24
  <2>4. \A i, j \in 1..Len(ratchet'[e].skipped) :
          (/\ ratchet'[e].skipped[i].remote_dh = ratchet'[e].skipped[j].remote_dh
           /\ ratchet'[e].skipped[i].message_number = ratchet'[e].skipped[j].message_number)
          => i = j
    BY <2>1, <1>25
  <2>5. \A g \in delivered'[e] :
          /\ g \in net'
          /\ Sender(g) = Peer(e)
          /\ PassedAfter(e, g.ratchet_public)
          /\ g.ratchet_public = ratchet'[e].remote_dh
               => g.message_number < ratchet'[e].receiving_count
          /\ \A i \in 1..Len(ratchet'[e].skipped) :
               ~(/\ ratchet'[e].skipped[i].remote_dh = g.ratchet_public
                 /\ ratchet'[e].skipped[i].message_number = g.message_number)
    BY <2>1, <1>26
  <2> QED
    BY <1>1, <1>2, <1>15, <1>18, <2>2, <2>3, <2>4, <2>5, Receiving
<1> QED
  BY <1>14, <1>17, <1>27 DEF RatchetInv, SendInv, ReceiveInv

----------------------------------------------------------------------------
(* The theorems.                                                           *)

LEMMA InitInv == Init => RatchetInv
<1> SUFFICES ASSUME Init PROVE RatchetInv
  OBVIOUS
<1>1. PICK suite \in [Role -> Suites] :
        ratchet = [e \in Role |-> from_authenticated_handshake_with_suite(e, suite[e])]
  BY DEF Init
<1>2. /\ generated = [e \in Role |-> 0] /\ rotations = 0 /\ net = {}
      /\ delivered = [e \in Role |-> {}] /\ returned = [e \in Role |-> 0]
  BY DEF Init
<1>3. \A e \in Role :
        /\ ratchet[e] \in RatchetState
        /\ ratchet[e].root_key = << >>
        /\ ratchet[e].sending_chain.root = << >>
        /\ ratchet[e].sending_chain.pos = 0
        /\ ratchet[e].sending_chain.label = IF e = "Initiator" THEN INIT_A_TO_B_LABEL
                                                             ELSE INIT_B_TO_A_LABEL
        /\ ratchet[e].sending_count = 0
        /\ ratchet[e].dh_pair = <<e, 0>>
        /\ ratchet[e].remote_dh = <<Peer(e), 0>>
        /\ ratchet[e].skipped = << >>
  <2> TAKE e \in Role
  <2>1. ratchet[e] = from_authenticated_handshake_with_suite(e, suite[e]) /\ suite[e] \in Suites
    BY <1>1
  <2> QED
    BY <2>1, InitialFields
<1>4. TypeOK
  <2>1. ratchet \in [Role -> RatchetState]
    BY <1>1, <1>3
  <2> QED
    BY <2>1, <1>2 DEF TypeOK
<1>5. SkippedBounded /\ SkippedUnique
  <2>1. \A e \in Role : Len(ratchet[e].skipped) = 0
    BY <1>3
  <2> QED
    BY <2>1, LimitsAssumption DEF SkippedBounded, SkippedUnique
<1>6. /\ \A e \in Role : KnownKey(<<Peer(e), 0>>)
      /\ KnownRoot(<< >>)
  <2>1. \A e \in Role : generated[Peer(e)] = 0 /\ <<Peer(e), 0>>[2] = 0
                        /\ <<Peer(e), 0>>[1] = Peer(e)
    BY <1>2, Peers
  <2>2. \A e \in Role : KnownKey(<<Peer(e), 0>>)
    BY <2>1 DEF KnownKey
  <2>3. KnownRoot(<< >>)
    BY DEF KnownRoot
  <2> QED
    BY <2>2, <2>3
<1>7. KeysInv
  <2> SUFFICES ASSUME NEW e \in Role
               PROVE  /\ Owner(ratchet[e].dh_pair) = e /\ KnownKey(ratchet[e].dh_pair)
                      /\ Owner(ratchet[e].remote_dh) = Peer(e)
                      /\ KnownKey(ratchet[e].remote_dh)
                      /\ KnownRoot(ratchet[e].root_key)
                      /\ KnownRoot(ratchet[e].sending_chain.root)
                      /\ Len(ratchet[e].sending_chain.root) <= Len(ratchet[e].root_key)
    BY DEF KeysInv
  <2>1. Owner(ratchet[e].dh_pair) = e /\ KnownKey(ratchet[e].dh_pair)
    BY <1>2, <1>3 DEF Owner, KnownKey
  <2>2. Owner(ratchet[e].remote_dh) = Peer(e)
    BY <1>3 DEF Owner
  <2>3. /\ KnownKey(ratchet[e].remote_dh)
        /\ KnownRoot(ratchet[e].root_key)
        /\ KnownRoot(ratchet[e].sending_chain.root)
    BY <1>3, <1>6
  <2>4. Len(ratchet[e].sending_chain.root) = 0 /\ Len(ratchet[e].root_key) = 0
    BY <1>3
  <2> QED
    BY <2>1, <2>2, <2>3, <2>4
<1>8. CountInv
  BY <1>3 DEF CountInv
<1>9. FrameInv /\ ChainInv
  BY <1>2 DEF FrameInv, ChainInv
<1>10. SendingInv
  BY <1>2, <1>3 DEF SendingInv, SameChain, Role, INIT_A_TO_B_LABEL, INIT_B_TO_A_LABEL
<1>11. SkippedInv
  <2>1. \A e \in Role : Len(ratchet[e].skipped) = 0
    BY <1>3
  <2>2. ASSUME NEW e \in Role PROVE Passed(e, ratchet[e].remote_dh)
    <3>1. /\ Peer(e) \in Role
          /\ Len(ratchet[Peer(e)].sending_chain.root) = 0 /\ Len(ratchet[e].root_key) = 0
      BY <1>3, Peers
    <3>2. KnownKey(ratchet[e].remote_dh)
      BY <1>3, <1>6
    <3> QED
      BY <3>1, <3>2, <1>2 DEF Passed
  <2> QED
    BY <2>1, <2>2 DEF SkippedInv
<1>12. DeliveredInv
  BY <1>2 DEF DeliveredInv
<1> QED
  BY <1>4, <1>5, <1>7, <1>8, <1>9, <1>10, <1>11, <1>12 DEF RatchetInv

LEMMA StutterInv ==
    ASSUME RatchetInv, UNCHANGED vars
    PROVE  RatchetInv'
<1>1. /\ ratchet' = ratchet /\ generated' = generated /\ rotations' = rotations
      /\ net' = net /\ delivered' = delivered /\ returned' = returned
  BY DEF vars
<1>2. TypeOK /\ SendInv /\ ReceiveInv
  BY InvParts
<1>3. TypeOK'
  BY <1>1, <1>2 DEF TypeOK
<1>4. SendInv'
  BY <1>1, <1>2, NotSending
<1>5. \A d \in Role, y \in DhKey : Passed(d, y) => PassedAfter(d, y)
  BY <1>1, <1>2, PassedSame
<1>6. ReceiveInv'
  BY <1>1, <1>2, <1>5, NotReceiving
<1> QED
  BY <1>3, <1>4, <1>6 DEF RatchetInv, SendInv, ReceiveInv

LEMMA NextInv == RatchetInv /\ [Next]_vars => RatchetInv'
<1> SUFFICES ASSUME RatchetInv, [Next]_vars PROVE RatchetInv'
  OBVIOUS
<1>1. ASSUME NEW e \in Role, Encrypt(e) PROVE RatchetInv'
  BY <1>1, EncryptStep
<1>2. ASSUME NEW e \in Role, EncryptExhausted(e) PROVE RatchetInv'
  BY <1>2, ExhaustedStep
<1>3. ASSUME NEW e \in Role, RotateSendingRatchet(e) PROVE RatchetInv'
  BY <1>3, RotationStep
<1>4. ASSUME NEW e \in Role, NEW f \in Arrivals, Decrypt(e, f) PROVE RatchetInv'
  <2>1. CASE DecryptSkipped(e, f)
    BY <2>1, SkippedStep
  <2>2. CASE DecryptSameRatchet(e, f)
    BY <2>2, SameRatchetStep
  <2>3. CASE DecryptNewRatchet(e, f)
    BY <2>3, NewRatchetStep
  <2>4. CASE DecryptRejected(e, f)
    BY <2>4, StutterInv DEF DecryptRejected
  <2> QED
    BY <2>1, <2>2, <2>3, <2>4, <1>4 DEF Decrypt
<1>5. CASE UNCHANGED vars
  BY <1>5, StutterInv
<1> QED
  BY <1>1, <1>2, <1>3, <1>4, <1>5 DEF Next

\* The inductive invariant holds in every reachable state of a session, for
\* any number of frames, rotations and skipped keys.
THEOREM RatchetInvariance == Spec => []RatchetInv
<1>1. Init => RatchetInv
  BY InitInv
<1>2. RatchetInv /\ [Next]_vars => RatchetInv'
  BY NextInv
<1> QED
  BY <1>1, <1>2, PTL DEF Spec

\* RatchetState's fields keep their types and widths.
THEOREM TypeCorrect == Spec => []TypeOK
<1>1. RatchetInv => TypeOK
  BY DEF RatchetInv
<1> QED
  BY <1>1, RatchetInvariance, PTL

\* decrypt never retains more than MAX_SKIPPED_KEYS keys.
THEOREM SkippedStoreBounded == Spec => []SkippedBounded
<1>1. RatchetInv => SkippedBounded
  BY DEF RatchetInv
<1> QED
  BY <1>1, RatchetInvariance, PTL

\* decrypt never retains two keys for one frame, so decode_state accepts the
\* store of every state a session can reach.
THEOREM SkippedStoreUnique == Spec => []SkippedUnique
<1>1. RatchetInv => SkippedUnique
  BY DEF RatchetInv
<1> QED
  BY <1>1, RatchetInvariance, PTL

\* decrypt returns only the peer's frames.
THEOREM NoReflection == Spec => []OnlyPeerFrames
<1>1. RatchetInv => OnlyPeerFrames
  BY DEF RatchetInv, DeliveredInv, OnlyPeerFrames
<1> QED
  BY <1>1, RatchetInvariance, PTL

\* encrypt puts the key where the header says and leaves room to count on.
THEOREM NumbersAgree == Spec => []HeaderNumbersKey
<1>1. RatchetInv => HeaderNumbersKey
  BY DEF RatchetInv, FrameInv, HeaderNumbersKey
<1> QED
  BY <1>1, RatchetInvariance, PTL

LEMMA KeysOnce == RatchetInv => KeyUsedOnce
<1>1. ASSUME RatchetInv, NEW f \in net, NEW g \in net, f.key = g.key
      PROVE  f = g
  <2>1. f \in InnerFrame /\ g \in InnerFrame
    BY <1>1 DEF RatchetInv, TypeOK
  <2>2. /\ f.intact /\ g.intact
        /\ f.session_id = Session /\ g.session_id = Session
        /\ f.message_number = g.message_number
    BY <1>1 DEF RatchetInv, FrameInv
  <2>3. f.ratchet_public = g.ratchet_public
    BY <1>1 DEF RatchetInv, ChainInv, SameChain
  <2>4. f.previous_chain_len = g.previous_chain_len /\ f.suite = g.suite
    BY <2>3, <1>1 DEF RatchetInv, ChainInv
  <2>5. f.intact = g.intact
    BY <2>1, <2>2 DEF InnerFrame
  <2> QED
    BY <2>1, <2>2, <2>3, <2>4, <2>5, <1>1 DEF InnerFrame
<1> QED
  BY <1>1 DEF KeyUsedOnce

\* encrypt never seals two frames under one message key.
THEOREM MessageKeysUsedOnce == Spec => []KeyUsedOnce
  BY KeysOnce, RatchetInvariance, PTL

LEMMA ReplayRefused == RatchetInv => DeliveredAtMostOnce
<1>1. ASSUME RatchetInv, NEW e \in Role, NEW f \in delivered[e], Accepts(ratchet[e], f)
      PROVE  FALSE
  <2> DEFINE r == ratchet[e]
  <2>1. TypeOK /\ SendInv /\ r \in RatchetState
    BY <1>1, InvParts DEF TypeOK
  <2>2. /\ f \in net
        /\ Passed(e, f.ratchet_public)
        /\ f.ratchet_public = r.remote_dh => f.message_number < r.receiving_count
        /\ \A i \in 1..Len(r.skipped) :
             ~(/\ r.skipped[i].remote_dh = f.ratchet_public
               /\ r.skipped[i].message_number = f.message_number)
    BY <1>1 DEF RatchetInv, DeliveredInv
  <2>3. f.message_number \in Nat /\ r.receiving_count \in Nat
    BY <2>1, <2>2, FrameTypes, StateTypes DEF TypeOK
  <2>4. \A i \in 1..Len(r.skipped) : ~OpensSkipped(r, f, i)
    BY <2>2 DEF OpensSkipped, Position
  <2>5. ~OpensSameRatchet(r, f)
    BY <2>2, <2>3 DEF OpensSameRatchet
  <2>6. ~OpensNewRatchet(r, f)
    BY <2>1, <2>2, NewRatchetFrame
  <2> QED
    BY <2>4, <2>5, <2>6, <1>1 DEF Accepts
<1> QED
  BY <1>1 DEF DeliveredAtMostOnce

\* decrypt never returns a frame's plaintext a second time.
THEOREM NoReplay == Spec => []DeliveredAtMostOnce
  BY ReplayRefused, RatchetInvariance, PTL

----------------------------------------------------------------------------
(* The ratchet implements the secure channel.                              *)

LEMMA SendImplemented ==
    ASSUME RatchetInv, NEW e \in Role, Encrypt(e)
    PROVE  Channel!Send(e)
<1> DEFINE g == Frame(ratchet[e])
           sent == [d \in Role |-> {f \in net : Sender(f) = d}]
           sentAfter == [d \in Role |-> {f \in net' : Sender(f) = d}]
<1>1. TypeOK /\ SendInv /\ ratchet[e] \in RatchetState
  BY InvParts DEF TypeOK
<1>2. net' = net \cup {g} /\ delivered' = delivered /\ returned' = returned
  BY DEF Encrypt
<1>3. g.ratchet_public = ratchet[e].dh_pair /\ g.message_number = ratchet[e].sending_count
  BY <1>1, FrameFields
<1>4. Sender(g) = e
  <2>1. Owner(ratchet[e].dh_pair) = e
    BY <1>1 DEF SendInv, KeysInv
  <2> QED
    BY <2>1, <1>3 DEF Sender
<1>5. g \notin net
  <2>1. SUFFICES ASSUME g \in net PROVE FALSE
    OBVIOUS
  <2>2. g.message_number < ratchet[e].sending_count /\ ratchet[e].sending_count \in Nat
    BY <2>1, <1>1, <1>3, StateTypes DEF SendInv, SendingInv
  <2> QED
    BY <2>2, <1>3
<1> HIDE DEF g
<1>6. sentAfter = [sent EXCEPT ![e] = @ \cup {g}]
  BY <1>2, <1>4
<1>7. g \in sentAfter[e] /\ g \notin UNION {sent[d] : d \in Role}
  BY <1>2, <1>4, <1>5
<1>8. \E m \in sentAfter[e] \ UNION {sent[d] : d \in Role} :
        sentAfter = [sent EXCEPT ![e] = @ \cup {m}]
  BY <1>6, <1>7
<1> QED
  BY <1>2, <1>8 DEF Channel!Send, Channel!AllSent

LEMMA ReceiveImplemented ==
    ASSUME RatchetInv, RatchetInv', NEW e \in Role, NEW f,
           net' = net, Return(e, f),
           f \notin delivered[e]
    PROVE  Channel!Receive(e)
<1> DEFINE sent == [d \in Role |-> {g \in net : Sender(g) = d}]
<1>1. f \in delivered'[e]
  BY DEF RatchetInv, TypeOK, Return
<1>2. f \in net /\ Sender(f) = Peer(e)
  BY <1>1 DEF RatchetInv, DeliveredInv
<1>3. Peer(e) \in Role \ {e}
  BY Peers
<1>4. f \in sent[Peer(e)] \ delivered[e]
  BY <1>2, <1>3
<1>5. \E d \in Role \ {e} : \E m \in sent[d] \ delivered[e] :
         delivered' = [delivered EXCEPT ![e] = @ \cup {m}]
  BY <1>3, <1>4 DEF Return
<1> QED
  BY <1>5 DEF Channel!Receive, Return

\* Every step of the ratchet is a step of the channel or invisible to it.
LEMMA StepImplemented ==
    ASSUME RatchetInv, RatchetInv', [Next]_vars
    PROVE  [Channel!Next]_(Channel!channelVars)
<1> DEFINE same == net' = net /\ delivered' = delivered /\ returned' = returned
<1>1. ASSUME same PROVE [Channel!Next]_(Channel!channelVars)
  BY <1>1 DEF Channel!channelVars
<1>2. ASSUME NEW e \in Role, NEW f \in Arrivals, Accepts(ratchet[e], f),
             net' = net, ReturnUnlessExhausted(e, f) \/ Return(e, f)
      PROVE  [Channel!Next]_(Channel!channelVars)
  <2>1. f \notin delivered[e]
    BY <1>2, ReplayRefused DEF DeliveredAtMostOnce
  <2>2. CASE UNCHANGED <<delivered, returned>>
    BY <2>2, <1>1, <1>2
  <2>3. CASE Return(e, f)
    BY <2>1, <2>3, <1>2, ReceiveImplemented DEF Channel!Next
  <2> QED
    BY <2>2, <2>3, <1>2 DEF ReturnUnlessExhausted
<1>3. ASSUME NEW e \in Role, Encrypt(e) PROVE [Channel!Next]_(Channel!channelVars)
  BY <1>3, SendImplemented DEF Channel!Next
<1>4. ASSUME NEW e \in Role, EncryptExhausted(e) \/ RotateSendingRatchet(e)
      PROVE  [Channel!Next]_(Channel!channelVars)
  BY <1>1, <1>4 DEF EncryptExhausted, RotateSendingRatchet
<1>5. ASSUME NEW e \in Role, NEW f \in Arrivals, Decrypt(e, f)
      PROVE  [Channel!Next]_(Channel!channelVars)
  <2>1. CASE DecryptSkipped(e, f)
    BY <2>1, <1>2 DEF DecryptSkipped, Accepts
  <2>2. CASE DecryptSameRatchet(e, f)
    BY <2>2, <1>2 DEF DecryptSameRatchet, Accepts
  <2>3. CASE DecryptNewRatchet(e, f)
    BY <2>3, <1>2 DEF DecryptNewRatchet, Accepts
  <2>4. CASE DecryptRejected(e, f)
    BY <2>4, <1>1 DEF DecryptRejected, vars
  <2> QED
    BY <2>1, <2>2, <2>3, <2>4, <1>5 DEF Decrypt
<1>6. CASE UNCHANGED vars
  BY <1>1, <1>6 DEF vars
<1> QED
  BY <1>3, <1>4, <1>5, <1>6 DEF Next

\* The ratchet implements the secure channel: whatever the network does, a
\* session delivers only what the peer sent, each message at most once.
THEOREM Refinement == Spec => ImplementsChannel
<1>1. Init => Channel!Init
  BY DEF Init, Channel!Init
<1>2. RatchetInv /\ RatchetInv' /\ [Next]_vars => [Channel!Next]_(Channel!channelVars)
  BY StepImplemented
<1> QED
  BY <1>1, <1>2, RatchetInvariance, PTL DEF Spec, Channel!Spec, ImplementsChannel

============================================================================
