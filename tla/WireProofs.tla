----------------------------- MODULE WireProofs -----------------------------
(***************************************************************************)
(* Proofs about Wire, for objects of any size and wires altered any number *)
(* of times: encoding and decoding undo each other.  The encoders are       *)
(* concatenations of fixed fields and blocks of declared length, so most   *)
(* lemmas say how a wire falls apart into such pieces.                     *)
(***************************************************************************)
EXTENDS Wire, SequenceTheorems, TLAPS

----------------------------------------------------------------------------
(* Lemmas about pieces of sequences.                                       *)

\* What follows a part of known length is recovered by its position.
LEMMA ConcatParts ==
    ASSUME NEW a \in Seq(Nat), NEW b \in Seq(Nat)
    PROVE  /\ a \o b \in Seq(Nat)
           /\ Len(a \o b) = Len(a) + Len(b)
           /\ \A i \in 1..Len(a) : (a \o b)[i] = a[i]
           /\ \A i \in 1..Len(b) : (a \o b)[Len(a) + i] = b[i]
<1>1. Len(a) \in Nat /\ Len(b) \in Nat
  OBVIOUS
<1>2. /\ a \o b \in Seq(Nat)
      /\ Len(a \o b) = Len(a) + Len(b)
      /\ \A i \in 1..(Len(a) + Len(b)) :
           (a \o b)[i] = IF i <= Len(a) THEN a[i] ELSE b[i - Len(a)]
  BY ConcatProperties
<1>3. \A i \in 1..Len(a) : (a \o b)[i] = a[i]
  BY <1>1, <1>2
<1>4. ASSUME NEW i \in 1..Len(b)
      PROVE  (a \o b)[Len(a) + i] = b[i]
  <2>1. /\ Len(a) + i \in 1..(Len(a) + Len(b))
        /\ ~(Len(a) + i <= Len(a)) /\ (Len(a) + i) - Len(a) = i
    BY <1>1
  <2> QED
    BY <1>2, <2>1
<1> QED
  BY <1>2, <1>3, <1>4

\* A slice of a sequence, unit by unit.
LEMMA Slice ==
    ASSUME NEW w \in Seq(Nat), NEW m \in Nat \ {0}, NEW n \in Nat, n <= Len(w), m <= n + 1
    PROVE  /\ SubSeq(w, m, n) \in Seq(Nat)
           /\ Len(SubSeq(w, m, n)) = n - m + 1
           /\ \A i \in 1..(n - m + 1) : SubSeq(w, m, n)[i] = w[m + i - 1]
<1>1. \A i \in m..n : w[i] \in Nat
  BY ElementOfSeq
<1>2. /\ SubSeq(w, m, n) \in Seq(Nat)
      /\ Len(SubSeq(w, m, n)) = IF m <= n THEN n - m + 1 ELSE 0
      /\ \A i \in 1..(n - m + 1) : SubSeq(w, m, n)[i] = w[m + i - 1]
  BY <1>1, SubSeqProperties
<1> QED
  BY <1>2

\* The block b of a wire a \o b \o c is the slice at its place.
LEMMA MiddlePart ==
    ASSUME NEW a \in Seq(Nat), NEW b \in Seq(Nat), NEW c \in Seq(Nat)
    PROVE  /\ a \o b \o c \in Seq(Nat)
           /\ Len(a \o b \o c) = Len(a) + Len(b) + Len(c)
           /\ SubSeq(a \o b \o c, Len(a) + 1, Len(a) + Len(b)) = b
           /\ \A i \in 1..Len(a) : (a \o b \o c)[i] = a[i]
           /\ \A i \in 1..Len(c) : (a \o b \o c)[Len(a) + Len(b) + i] = c[i]
<1> DEFINE ab == a \o b
           w == ab \o c
<1>1. /\ Len(a) \in Nat /\ Len(b) \in Nat /\ Len(c) \in Nat
  OBVIOUS
<1>2. /\ ab \in Seq(Nat) /\ Len(ab) = Len(a) + Len(b)
      /\ \A i \in 1..Len(a) : ab[i] = a[i]
      /\ \A i \in 1..Len(b) : ab[Len(a) + i] = b[i]
  BY ConcatParts
<1> HIDE DEF ab
<1>3. /\ w \in Seq(Nat) /\ Len(w) = Len(ab) + Len(c)
      /\ \A i \in 1..Len(ab) : w[i] = ab[i]
      /\ \A i \in 1..Len(c) : w[Len(ab) + i] = c[i]
  BY <1>2, ConcatParts
<1> HIDE DEF w
<1>4. \A i \in 1..Len(a) : w[i] = a[i]
  BY <1>1, <1>2, <1>3
<1>5. ASSUME NEW i \in 1..Len(b)
      PROVE  w[Len(a) + i] = b[i]
  <2>1. Len(a) + i \in 1..Len(ab)
    BY <1>1, <1>2
  <2> QED
    BY <1>2, <1>3, <2>1
<1> DEFINE s == SubSeq(w, Len(a) + 1, Len(a) + Len(b))
<1>6. /\ s \in Seq(Nat) /\ Len(s) = Len(b)
      /\ \A i \in 1..Len(b) : s[i] = w[Len(a) + i]
  <2> DEFINE m == Len(a) + 1
             n == Len(a) + Len(b)
  <2>1. m \in Nat \ {0} /\ n \in Nat /\ n <= Len(w) /\ m <= n + 1
    BY <1>1, <1>2, <1>3
  <2>2. n - m + 1 = Len(b) /\ \A i \in 1..Len(b) : m + i - 1 = Len(a) + i
    BY <1>1
  <2> HIDE DEF m, n
  <2>3. /\ SubSeq(w, m, n) \in Seq(Nat)
        /\ Len(SubSeq(w, m, n)) = n - m + 1
        /\ \A i \in 1..(n - m + 1) : SubSeq(w, m, n)[i] = w[m + i - 1]
    BY <1>3, <2>1, Slice
  <2>4. s = SubSeq(w, m, n)
    BY DEF m, n
  <2> QED
    BY <2>2, <2>3, <2>4
<1> HIDE DEF s
<1>7. s = b
  BY <1>5, <1>6, SeqEqual
<1>8. w = a \o b \o c
  BY DEF w, ab
<1> QED
  BY <1>1, <1>2, <1>3, <1>4, <1>7, <1>8 DEF s

\* A sequence is its parts before and after any place.
LEMMA Split ==
    ASSUME NEW w \in Seq(Nat), NEW k \in 0..Len(w)
    PROVE  SubSeq(w, 1, k) \o SubSeq(w, k + 1, Len(w)) = w
<1>1. /\ Len(w) \in Nat /\ 1 \in 1..(Len(w) + 1) /\ k \in (1 - 1)..Len(w)
      /\ Len(w) \in k..Len(w)
  OBVIOUS
<1>2. SubSeq(w, 1, k) \o SubSeq(w, k + 1, Len(w)) = SubSeq(w, 1, Len(w))
  BY <1>1, ConcatAdjacentSubSeq
<1> QED
  BY <1>2, SubSeqFull

LEMMA LastPart ==
    ASSUME NEW a \in Seq(Nat), NEW b \in Seq(Nat)
    PROVE  SubSeq(a \o b, Len(a) + 1, Len(a) + Len(b)) = b
<1>1. << >> \in Seq(Nat) /\ a \o b \in Seq(Nat)
  BY ConcatParts
<1>2. a \o b \o << >> = a \o b
  BY <1>1, ConcatEmptySeq
<1>3. SubSeq(a \o b \o << >>, Len(a) + 1, Len(a) + Len(b)) = b
  BY <1>1, MiddlePart
<1> QED
  BY <1>2, <1>3

\* Short wires are equal when their units are.
LEMMA FewUnits ==
    ASSUME NEW v \in Seq(Nat), NEW w \in Seq(Nat), Len(v) = Len(w), Len(w) \in {2, 3},
           v[1] = w[1], v[2] = w[2], Len(w) = 3 => v[3] = w[3]
    PROVE  v = w
<1>1. 1..2 = {1, 2} /\ 1..3 = {1, 2, 3}
  OBVIOUS
<1>2. \A i \in 1..Len(w) : v[i] = w[i]
  BY <1>1
<1> QED
  BY <1>2, SeqEqual

LEMMA EightUnits ==
    ASSUME NEW v \in Seq(Nat), NEW w \in Seq(Nat), Len(v) = 8, Len(w) = 8,
           v[1] = w[1], v[2] = w[2], v[3] = w[3], v[4] = w[4],
           v[5] = w[5], v[6] = w[6], v[7] = w[7], v[8] = w[8]
    PROVE  v = w
<1>1. 1..8 = {1, 2, 3, 4, 5, 6, 7, 8}
  OBVIOUS
<1>2. \A i \in {1, 2, 3, 4, 5, 6, 7, 8} : v[i] = w[i]
  BY Zenon
<1>3. \A i \in 1..8 : v[i] = w[i]
  BY <1>1, <1>2, Zenon
<1> QED
  BY <1>3, SeqEqual

LEMMA TenUnits ==
    ASSUME NEW v \in Seq(Nat), NEW w \in Seq(Nat), Len(v) = 10, Len(w) = 10,
           v[1] = w[1], v[2] = w[2], v[3] = w[3], v[4] = w[4], v[5] = w[5],
           v[6] = w[6], v[7] = w[7], v[8] = w[8], v[9] = w[9], v[10] = w[10]
    PROVE  v = w
<1>1. 1..10 = {1, 2, 3, 4, 5, 6, 7, 8, 9, 10}
  OBVIOUS
<1>2. \A i \in {1, 2, 3, 4, 5, 6, 7, 8, 9, 10} : v[i] = w[i]
  BY Zenon
<1>3. \A i \in 1..10 : v[i] = w[i]
  BY <1>1, <1>2, Zenon
<1> QED
  BY <1>3, SeqEqual

----------------------------------------------------------------------------
(* Inner frames.                                                           *)

LEMMA NonceLen ==
    ASSUME NEW suite \in SuiteIds
    PROVE  nonce_len(suite) \in 1..LongestNonce
  BY DEF SuiteIds, nonce_len, LongestNonce

LEMMA FrameParts ==
    ASSUME NEW f \in InnerFrame
    PROVE  /\ encode_aad(f) \in Seq(Nat) /\ Len(encode_aad(f)) = FIXED_HEADER_LEN
           /\ f.nonce \in Seq(Nat) /\ Len(f.nonce) = nonce_len(f.suite)
           /\ f.body \in Seq(Nat) /\ BodyLenAllowed(Len(f.body))
           /\ f.suite \in SuiteIds /\ f.kind \in KindIds
           /\ f = [type |-> "frame", suite |-> f.suite, kind |-> f.kind,
                   session_id |-> f.session_id, ratchet_public |-> f.ratchet_public,
                   previous_chain_len |-> f.previous_chain_len,
                   message_number |-> f.message_number, nonce |-> f.nonce, body |-> f.body]
<1>1. /\ f \in [type : {"frame"}, suite : SuiteIds, kind : KindIds, session_id : Nat,
                ratchet_public : Nat, previous_chain_len : Nat, message_number : Nat,
                nonce : Seq(Nat), body : Seq(Nat)]
      /\ Len(f.nonce) = nonce_len(f.suite) /\ BodyLenAllowed(Len(f.body))
  BY DEF InnerFrame, BodyLenAllowed
<1>2. /\ f.suite \in Nat /\ f.kind \in Nat /\ nonce_len(f.suite) \in Nat
      /\ Len(f.body) \in Nat
  <2>1. f.suite \in SuiteIds /\ f.kind \in KindIds /\ f.body \in Seq(Nat)
    BY <1>1
  <2> QED
    BY <2>1, NonceLen DEF SuiteIds, KindIds, LongestNonce
<1>3. encode_aad(f) \in Seq(Nat) /\ Len(encode_aad(f)) = FIXED_HEADER_LEN
  BY <1>1, <1>2 DEF encode_aad, FIXED_HEADER_LEN, MEF, VERSION
<1> QED
  BY <1>1, <1>3

\* InnerFrame::decode gives back what encode was given.
LEMMA FrameRoundTrip ==
    ASSUME NEW f \in InnerFrame
    PROVE  /\ FrameEncode(f) \in Seq(Nat) /\ FrameEncode(f)[1] = MEF
           /\ FrameDecode(FrameEncode(f)) = {f}
<1> DEFINE a == encode_aad(f)
           n == nonce_len(f.suite)
           k == Len(f.body)
           w == FrameEncode(f)
           e == 10 + n + k
<1>1. a \in Seq(Nat) /\ f.nonce \in Seq(Nat) /\ f.body \in Seq(Nat)
  BY FrameParts
<1>2. Len(a) = 10 /\ Len(f.nonce) = n /\ Len(f.body) = k
  BY FrameParts DEF FIXED_HEADER_LEN
<1>3. n \in 1..2 /\ k \in Nat
  BY FrameParts, NonceLen DEF LongestNonce
<1>4. /\ a[1] = MEF /\ a[2] = VERSION /\ a[3] = f.suite /\ a[4] = f.kind
      /\ a[5] = f.session_id /\ a[6] = f.ratchet_public /\ a[7] = f.previous_chain_len
      /\ a[8] = f.message_number /\ a[9] = n /\ a[10] = k
  BY DEF encode_aad
<1>5. /\ BodyLenAllowed(k) /\ f.suite \in SuiteIds /\ f.kind \in KindIds
      /\ n = nonce_len(f.suite)
  BY FrameParts
<1>6. w = a \o f.nonce \o f.body
  BY DEF FrameEncode
<1> HIDE DEF a, n, k, w, e
<1>7. /\ a \o f.nonce \o f.body \in Seq(Nat)
      /\ Len(a \o f.nonce \o f.body) = Len(a) + Len(f.nonce) + Len(f.body)
      /\ SubSeq(a \o f.nonce \o f.body, Len(a) + 1, Len(a) + Len(f.nonce)) = f.nonce
      /\ \A i \in 1..Len(a) : (a \o f.nonce \o f.body)[i] = a[i]
  <2>1. /\ a \o f.nonce \o f.body \in Seq(Nat)
        /\ Len(a \o f.nonce \o f.body) = Len(a) + Len(f.nonce) + Len(f.body)
    BY <1>1, MiddlePart
  <2>2. SubSeq(a \o f.nonce \o f.body, Len(a) + 1, Len(a) + Len(f.nonce)) = f.nonce
    BY <1>1, MiddlePart
  <2>3. \A i \in 1..Len(a) : (a \o f.nonce \o f.body)[i] = a[i]
    BY <1>1, MiddlePart
  <2> QED
    BY <2>1, <2>2, <2>3
<1>8. /\ a \o f.nonce \in Seq(Nat) /\ Len(a \o f.nonce) = Len(a) + Len(f.nonce)
      /\ SubSeq(a \o f.nonce \o f.body, Len(a \o f.nonce) + 1,
                Len(a \o f.nonce) + Len(f.body)) = f.body
  BY <1>1, ConcatParts, LastPart
<1>9. w \in Seq(Nat) /\ Len(w) = e
  BY <1>2, <1>6, <1>7 DEF e
<1>10. /\ SubSeq(w, 10 + 1, 10 + n) = f.nonce
       /\ SubSeq(w, 10 + n + 1, e) = f.body
  BY <1>2, <1>6, <1>7, <1>8 DEF e
<1>11. \A i \in 1..10 : w[i] = a[i]
  BY <1>2, <1>6, <1>7
<1>12. /\ w[1] = MEF /\ w[2] = VERSION /\ w[3] = f.suite /\ w[4] = f.kind
       /\ w[5] = f.session_id /\ w[6] = f.ratchet_public /\ w[7] = f.previous_chain_len
       /\ w[8] = f.message_number /\ w[9] = n /\ w[10] = k
  BY <1>4, <1>11
<1>13. FrameDecodePrefix(w) = {[frame |-> f, consumed |-> e]}
  <2>1. e >= FIXED_HEADER_LEN /\ e <= MAX_CIPHERTEXT_LEN + FIXED_HEADER_LEN + LongestNonce
    <3>1. k <= MAX_CIPHERTEXT_LEN /\ MAX_CIPHERTEXT_LEN \in Nat
      BY <1>3, <1>5, WireAssumption DEF BodyLenAllowed
    <3> QED
      BY <1>3, <3>1 DEF e, FIXED_HEADER_LEN, LongestNonce
  <2>2. /\ w[3] \in SuiteIds /\ w[4] \in KindIds /\ w[9] = nonce_len(w[3])
        /\ BodyLenAllowed(w[10])
    BY <1>5, <1>12
  <2>3. FIXED_HEADER_LEN + w[9] = 10 + n /\ FIXED_HEADER_LEN + w[9] + w[10] = e
    BY <1>12 DEF e, FIXED_HEADER_LEN
  <2>4. e >= e
    BY <1>3 DEF e
  <2> DEFINE g == [type |-> "frame", suite |-> w[3], kind |-> w[4],
                   session_id |-> w[5], ratchet_public |-> w[6],
                   previous_chain_len |-> w[7], message_number |-> w[8],
                   nonce |-> SubSeq(w, FIXED_HEADER_LEN + 1, FIXED_HEADER_LEN + w[9]),
                   body |-> SubSeq(w, FIXED_HEADER_LEN + w[9] + 1,
                                   FIXED_HEADER_LEN + w[9] + w[10])]
             c == FIXED_HEADER_LEN + w[9] + w[10]
  <2>5. /\ Len(w) >= FIXED_HEADER_LEN
        /\ Len(w) <= MAX_CIPHERTEXT_LEN + FIXED_HEADER_LEN + LongestNonce
        /\ Len(w) >= c
    BY <1>9, <2>1, <2>3, <2>4
  <2>6. FrameDecodePrefix(w) = {[frame |-> g, consumed |-> c]}
    <3>1. /\ Len(w) >= FIXED_HEADER_LEN
          /\ Len(w) <= MAX_CIPHERTEXT_LEN + FIXED_HEADER_LEN + LongestNonce
          /\ w[1] = MEF /\ w[2] = VERSION
          /\ w[3] \in SuiteIds /\ w[4] \in KindIds
          /\ w[9] = nonce_len(w[3]) /\ BodyLenAllowed(w[10])
          /\ Len(w) >= FIXED_HEADER_LEN + w[9] + w[10]
      BY <1>12, <2>2, <2>5
    <3> QED
      BY <3>1, Zenon DEF FrameDecodePrefix
  <2>7. /\ SubSeq(w, FIXED_HEADER_LEN + 1, FIXED_HEADER_LEN + w[9]) = f.nonce
        /\ SubSeq(w, FIXED_HEADER_LEN + w[9] + 1, FIXED_HEADER_LEN + w[9] + w[10]) = f.body
    BY <1>10, <1>12, <2>3 DEF FIXED_HEADER_LEN
  <2>8. g = f
    BY <1>12, <2>7, FrameParts
  <2> HIDE DEF g, c
  <2>9. c = e
    BY <2>3 DEF c
  <2> QED
    BY <2>6, <2>8, <2>9
<1>14. FrameDecode(w) = {f}
  <2> DEFINE q == [frame |-> f, consumed |-> e]
  <2>1. FrameDecodePrefix(w) = {q} /\ q.frame = f /\ q.consumed = Len(w)
    BY <1>9, <1>13
  <2> HIDE DEF q
  <2> QED
    BY <2>1 DEF FrameDecode
<1> QED
  BY <1>9, <1>12, <1>14 DEF w

LEMMA HeaderSlice ==
    ASSUME NEW w \in Seq(Nat), Len(w) >= 10
    PROVE  SubSeq(w, 1, 10) = <<w[1], w[2], w[3], w[4], w[5], w[6], w[7], w[8], w[9], w[10]>>
<1> DEFINE s == SubSeq(w, 1, 10)
           t == <<w[1], w[2], w[3], w[4], w[5], w[6], w[7], w[8], w[9], w[10]>>
<1>1. s \in Seq(Nat) /\ Len(s) = 10 /\ \A i \in 1..10 : s[i] = w[i]
  <2>1. 10 \in Nat /\ 1 \in Nat \ {0} /\ 1 <= 10 + 1 /\ 10 - 1 + 1 = 10
    OBVIOUS
  <2>2. /\ SubSeq(w, 1, 10) \in Seq(Nat) /\ Len(SubSeq(w, 1, 10)) = 10 - 1 + 1
        /\ \A i \in 1..(10 - 1 + 1) : SubSeq(w, 1, 10)[i] = w[1 + i - 1]
    BY <2>1, Slice
  <2> QED
    BY <2>1, <2>2
<1>2. \A i \in 1..10 : w[i] \in Nat
  BY ElementOfSeq
<1>3. t \in Seq(Nat) /\ Len(t) = 10
  BY <1>2
<1>4. /\ t[1] = w[1] /\ t[2] = w[2] /\ t[3] = w[3] /\ t[4] = w[4] /\ t[5] = w[5]
      /\ t[6] = w[6] /\ t[7] = w[7] /\ t[8] = w[8] /\ t[9] = w[9] /\ t[10] = w[10]
  OBVIOUS
<1> HIDE DEF s, t
<1>5. \A i \in 1..10 : s[i] = w[i]
  BY <1>1
<1>6. /\ s[1] = w[1] /\ s[2] = w[2] /\ s[3] = w[3] /\ s[4] = w[4] /\ s[5] = w[5]
      /\ s[6] = w[6] /\ s[7] = w[7] /\ s[8] = w[8] /\ s[9] = w[9] /\ s[10] = w[10]
  BY <1>5
<1>7. s = t
  BY <1>1, <1>3, <1>4, <1>6, TenUnits
<1> QED
  BY <1>7 DEF s, t

\* What decode_prefix accepts at the start of any wire is well formed, and its
\* encoding is exactly the units that were consumed.
LEMMA FrameCanonical ==
    ASSUME NEW w \in Seq(Nat), NEW p \in FrameDecodePrefix(w)
    PROVE  /\ w[1] = MEF
           /\ p.consumed \in 1..Len(w)
           /\ FrameEncode(p.frame) = SubSeq(w, 1, p.consumed)
<1> DEFINE n == w[9]
           k == w[10]
           nonce == SubSeq(w, 10 + 1, 10 + n)
           body == SubSeq(w, 10 + n + 1, 10 + n + k)
           f == [type |-> "frame", suite |-> w[3], kind |-> w[4],
                 session_id |-> w[5], ratchet_public |-> w[6],
                 previous_chain_len |-> w[7], message_number |-> w[8],
                 nonce |-> nonce, body |-> body]
           q == [frame |-> f, consumed |-> 10 + n + k]
<1>1. /\ Len(w) >= 10 /\ w[1] = MEF /\ w[2] = VERSION
      /\ w[3] \in SuiteIds /\ n = nonce_len(w[3]) /\ BodyLenAllowed(k)
      /\ Len(w) >= 10 + n + k
  BY DEF FrameDecodePrefix, FIXED_HEADER_LEN
<1>2. p = q
  BY DEF FrameDecodePrefix, FIXED_HEADER_LEN
<1>3. /\ f.suite = w[3] /\ f.kind = w[4] /\ f.session_id = w[5] /\ f.ratchet_public = w[6]
      /\ f.previous_chain_len = w[7] /\ f.message_number = w[8]
      /\ f.nonce = nonce /\ f.body = body /\ q.frame = f /\ q.consumed = 10 + n + k
  OBVIOUS
<1> HIDE DEF f, q
<1>4. FrameEncode(f) = <<MEF, VERSION, w[3], w[4], w[5], w[6], w[7], w[8],
                         nonce_len(w[3]), Len(body)>> \o nonce \o body
  BY <1>3 DEF FrameEncode, encode_aad
<1>5. n \in 1..2 /\ k \in Nat /\ Len(w) \in Nat
  <2>1. n \in 1..2
    BY <1>1, NonceLen DEF LongestNonce
  <2>2. k \in Nat
    BY <1>1, WireAssumption DEF BodyLenAllowed
  <2> QED
    BY <2>1, <2>2
<1>6. 10 + n + k <= Len(w)
  BY <1>1, <1>5
<1>7. SubSeq(w, 1, 10) = <<w[1], w[2], w[3], w[4], w[5], w[6], w[7], w[8], n, k>>
  BY <1>1, HeaderSlice
<1> HIDE DEF n, k
<1>8. Len(body) = k
  <2> DEFINE m == 10 + n + 1
             e == 10 + n + k
  <2>1. m \in Nat \ {0} /\ e \in Nat /\ e <= Len(w) /\ m <= e + 1 /\ e - m + 1 = k
    BY <1>5, <1>6
  <2> HIDE DEF m, e
  <2>2. Len(SubSeq(w, m, e)) = e - m + 1
    BY <2>1, Slice
  <2> QED
    BY <2>1, <2>2 DEF m, e
<1>9. FrameEncode(f) = SubSeq(w, 1, 10) \o nonce \o body
  <2> HIDE DEF nonce, body
  <2> QED
    BY <1>1, <1>4, <1>7, <1>8
<1>10. SubSeq(w, 1, 10) \o nonce = SubSeq(w, 1, 10 + n)
  <2>1. /\ 1 \in 1..(Len(w) + 1) /\ 10 \in (1 - 1)..Len(w) /\ 10 + n \in 10..Len(w)
    BY <1>5, <1>6
  <2> QED
    BY <2>1, ConcatAdjacentSubSeq
<1>11. SubSeq(w, 1, 10 + n) \o body = SubSeq(w, 1, 10 + n + k)
  <2>1. /\ 1 \in 1..(Len(w) + 1) /\ 10 + n \in (1 - 1)..Len(w)
        /\ 10 + n + k \in (10 + n)..Len(w)
    BY <1>5, <1>6
  <2> QED
    BY <2>1, ConcatAdjacentSubSeq
<1>12. 10 + n + k \in 1..Len(w)
  BY <1>5, <1>6
<1> QED
  <2> HIDE DEF nonce, body
  <2> QED
    BY <1>1, <1>2, <1>3, <1>9, <1>10, <1>11, <1>12

----------------------------------------------------------------------------
(* Classical bundle and initial message.                                   *)

\* An optional record of one or two units, in its two forms.
LEMMA OptionalAbsent ==
    /\ EncodeOptional(<< >>, 1) = <<0, 0>>
    /\ EncodeOptional(<< >>, 2) = <<0, 0, 0>>
<1>1. 1..(1 + 1) = 1..2 /\ 1..(2 + 1) = 1..3
  OBVIOUS
<1>2. [i \in 1..2 |-> 0] = <<0, 0>>
  OBVIOUS
<1>3. [i \in 1..3 |-> 0] = <<0, 0, 0>>
  OBVIOUS
<1> QED
  BY <1>1, <1>2, <1>3 DEF EncodeOptional

LEMMA OptionalPresent ==
    ASSUME NEW x \in Nat, NEW y \in Nat
    PROVE  /\ EncodeOptional(<<x>>, 1) = <<1, x>>
           /\ EncodeOptional(<<x, y>>, 2) = <<1, x, y>>
<1>1. <<x>> # << >> /\ <<x, y>> # << >>
  OBVIOUS
<1>2. <<1>> \o <<x>> = <<1, x>>
  <2> DEFINE v == <<1>> \o <<x>>
             w == <<1, x>>
  <2>1. v \in Seq(Nat) /\ w \in Seq(Nat) /\ Len(v) = 2 /\ Len(w) = 2
    OBVIOUS
  <2>2. v[1] = w[1] /\ v[2] = w[2]
    OBVIOUS
  <2> HIDE DEF v, w
  <2>3. v = w
    BY <2>1, <2>2, FewUnits
  <2> QED
    BY <2>3 DEF v, w
<1>3. <<1>> \o <<x, y>> = <<1, x, y>>
  <2> DEFINE v == <<1>> \o <<x, y>>
             w == <<1, x, y>>
  <2>1. v \in Seq(Nat) /\ w \in Seq(Nat) /\ Len(v) = 3 /\ Len(w) = 3
    OBVIOUS
  <2>2. v[1] = w[1] /\ v[2] = w[2] /\ v[3] = w[3]
    OBVIOUS
  <2> HIDE DEF v, w
  <2>3. v = w
    BY <2>1, <2>2, FewUnits
  <2> QED
    BY <2>3 DEF v, w
<1> QED
  BY <1>1, <1>2, <1>3 DEF EncodeOptional

\* A record of one unit, or of two, is the tuple of its units.
LEMMA ShortRecords ==
    ASSUME NEW r \in Seq(Nat)
    PROVE  /\ Len(r) = 0 => r = << >>
           /\ Len(r) = 1 => r[1] \in Nat /\ r = <<r[1]>>
           /\ Len(r) = 2 => r[1] \in Nat /\ r[2] \in Nat /\ r = <<r[1], r[2]>>
<1>1. Len(r) = 0 => r = << >>
  OBVIOUS
<1>2. Len(r) = 1 => r[1] \in Nat /\ r = <<r[1]>>
  <2> SUFFICES ASSUME Len(r) = 1 PROVE r[1] \in Nat /\ r = <<r[1]>>
    OBVIOUS
  <2>1. r \in [1..1 -> Nat]
    BY LenProperties
  <2> QED
    BY <2>1
<1>3. Len(r) = 2 => r[1] \in Nat /\ r[2] \in Nat /\ r = <<r[1], r[2]>>
  OBVIOUS
<1> QED
  BY <1>1, <1>2, <1>3

\* The initial message in its two forms: header, flag, identifier or zero.
LEMMA HandshakeRoundTrip ==
    ASSUME NEW m \in InitiatorHandshake
    PROVE  /\ HandshakeEncode(m) \in Seq(Nat) /\ HandshakeEncode(m)[1] = MEH
           /\ HandshakeDecode(HandshakeEncode(m)) = {m}
<1> DEFINE h == <<MEH, VERSION, m.identity, m.ephemeral, m.ratchet, m.signed_prekey_id>>
           id == m.one_time_prekey_id
           o == EncodeOptional(id, 1)
           w == HandshakeEncode(m)
<1>1. /\ m \in [type : {"message"}, identity : {BoundIdentity}, ephemeral : Nat,
                ratchet : Nat, signed_prekey_id : Nat, one_time_prekey_id : Seq(Nat)]
      /\ Len(id) \in {0, 1}
  BY DEF InitiatorHandshake
<1>2. m = [type |-> "message", identity |-> m.identity, ephemeral |-> m.ephemeral,
           ratchet |-> m.ratchet, signed_prekey_id |-> m.signed_prekey_id,
           one_time_prekey_id |-> id]
  BY <1>1
<1>3. h \in Seq(Nat) /\ Len(h) = 6
  BY <1>1 DEF BoundIdentity, MEH, VERSION
<1>4. /\ h[1] = MEH /\ h[2] = VERSION /\ h[3] = m.identity /\ h[4] = m.ephemeral
      /\ h[5] = m.ratchet /\ h[6] = m.signed_prekey_id
  OBVIOUS
<1>5. \/ id = << >> /\ o = <<0, 0>>
      \/ id[1] \in Nat /\ id = <<id[1]>> /\ o = <<1, id[1]>>
  BY <1>1, ShortRecords, OptionalAbsent, OptionalPresent
<1>6. /\ o \in Seq(Nat) /\ Len(o) = 2
      /\ \/ id = << >> /\ o[1] = 0 /\ o[2] = 0
         \/ id = <<o[2]>> /\ o[1] = 1
  <2> HIDE DEF o, id
  <2>1. CASE id = << >> /\ o = <<0, 0>>
    BY <2>1
  <2>2. CASE id[1] \in Nat /\ id = <<id[1]>> /\ o = <<1, id[1]>>
    BY <2>2
  <2> QED
    BY <1>5, <2>1, <2>2
<1>7. w = h \o o
  BY DEF HandshakeEncode
<1>8. m.identity = BoundIdentity
  BY <1>1
<1> HIDE DEF h, id, o, w
<1>9. /\ h \o o \in Seq(Nat) /\ Len(h \o o) = Len(h) + Len(o)
      /\ \A i \in 1..Len(h) : (h \o o)[i] = h[i]
      /\ \A i \in 1..Len(o) : (h \o o)[Len(h) + i] = o[i]
  BY <1>3, <1>6, ConcatParts
<1>10. w \in Seq(Nat) /\ Len(w) = 8
  BY <1>3, <1>6, <1>7, <1>9
<1>11. \A i \in 1..6 : w[i] = h[i]
  BY <1>3, <1>7, <1>9
<1>12. /\ w[1] = MEH /\ w[2] = VERSION /\ w[3] = m.identity /\ w[4] = m.ephemeral
       /\ w[5] = m.ratchet /\ w[6] = m.signed_prekey_id
  BY <1>4, <1>11
<1>13. w[7] = o[1] /\ w[8] = o[2]
  <2>1. \A i \in 1..2 : w[6 + i] = o[i]
    BY <1>3, <1>6, <1>7, <1>9
  <2>2. 1 \in 1..2 /\ 2 \in 1..2 /\ 6 + 1 = 7 /\ 6 + 2 = 8
    OBVIOUS
  <2>3. w[6 + 1] = o[1] /\ w[6 + 2] = o[2]
    BY <2>1, <2>2, Zenon
  <2> QED
    BY <2>2, <2>3
<1>14. OptionalAllowed(w[7], <<w[8]>>) /\ DecodeOptional(w[7], <<w[8]>>) = id
  <2>1. CASE id = << >> /\ o[1] = 0 /\ o[2] = 0
    BY <2>1, <1>13 DEF OptionalAllowed, DecodeOptional
  <2>2. CASE id = <<o[2]>> /\ o[1] = 1
    BY <2>2, <1>13 DEF OptionalAllowed, DecodeOptional
  <2> QED
    BY <1>6, <2>1, <2>2
<1> DEFINE d == [type |-> "message", identity |-> w[3], ephemeral |-> w[4], ratchet |-> w[5],
                 signed_prekey_id |-> w[6],
                 one_time_prekey_id |-> DecodeOptional(w[7], <<w[8]>>)]
<1>15. d = m
  BY <1>2, <1>12, <1>14
<1>16. HandshakeDecode(w) = {d}
  <2>1. /\ Len(w) = MESSAGE_LEN /\ w[1] = MEH /\ w[2] = VERSION
        /\ OptionalAllowed(w[7], <<w[8]>>) /\ IdentityVerifies(w[3])
    BY <1>8, <1>10, <1>12, <1>14 DEF MESSAGE_LEN, IdentityVerifies
  <2> QED
    BY <2>1, Zenon DEF HandshakeDecode
<1> HIDE DEF d
<1> QED
  BY <1>10, <1>12, <1>15, <1>16 DEF w

\* An accepted initial message is the encoding of what it decodes to: an
\* absent identifier leaves no unit free.
LEMMA HandshakeCanonical ==
    ASSUME NEW w \in Seq(Nat), NEW m \in HandshakeDecode(w)
    PROVE  w[1] = MEH /\ HandshakeEncode(m) = w
<1>1. /\ Len(w) = 8 /\ w[1] = MEH /\ w[2] = VERSION
      /\ OptionalAllowed(w[7], <<w[8]>>)
  BY DEF HandshakeDecode, MESSAGE_LEN
<1> DEFINE id == DecodeOptional(w[7], <<w[8]>>)
           d == [type |-> "message", identity |-> w[3], ephemeral |-> w[4],
                 ratchet |-> w[5], signed_prekey_id |-> w[6], one_time_prekey_id |-> id]
           h == <<w[1], w[2], w[3], w[4], w[5], w[6]>>
           o == <<w[7], w[8]>>
<1>2. m = d
  BY DEF HandshakeDecode
<1>3. /\ d.identity = w[3] /\ d.ephemeral = w[4] /\ d.ratchet = w[5]
      /\ d.signed_prekey_id = w[6] /\ d.one_time_prekey_id = id
  OBVIOUS
<1>4. \A i \in 1..8 : w[i] \in Nat
  BY <1>1, ElementOfSeq
<1>5. w[7] \in Nat /\ w[8] \in Nat
  BY <1>4
<1>6. EncodeOptional(id, 1) = o
  <2>1. CASE w[7] = 1
    <3>1. id = <<w[8]>>
      BY <2>1 DEF DecodeOptional
    <3> QED
      BY <2>1, <3>1, <1>5, OptionalPresent
  <2>2. CASE w[7] = 0 /\ \A i \in 1..Len(<<w[8]>>) : <<w[8]>>[i] = 0
    <3>1. id = << >>
      BY <2>2 DEF DecodeOptional
    <3>2. Len(<<w[8]>>) = 1 /\ <<w[8]>>[1] = w[8] /\ 1 \in 1..1
      OBVIOUS
    <3>3. w[8] = 0
      BY <2>2, <3>2
    <3> QED
      BY <2>2, <3>1, <3>3, OptionalAbsent
  <2> QED
    BY <1>1, <2>1, <2>2 DEF OptionalAllowed
<1>7. h \in Seq(Nat) /\ Len(h) = 6 /\ o \in Seq(Nat) /\ Len(o) = 2
  BY <1>4
<1>8. /\ h[1] = w[1] /\ h[2] = w[2] /\ h[3] = w[3] /\ h[4] = w[4] /\ h[5] = w[5]
      /\ h[6] = w[6] /\ o[1] = w[7] /\ o[2] = w[8]
  OBVIOUS
<1> HIDE DEF d, id
<1>9. HandshakeEncode(d) = h \o o
  BY <1>1, <1>3, <1>6 DEF HandshakeEncode
<1> HIDE DEF h, o
<1>10. h \o o = w
  <2> DEFINE v == h \o o
  <2>1. /\ h \o o \in Seq(Nat) /\ Len(h \o o) = Len(h) + Len(o)
        /\ \A i \in 1..Len(h) : (h \o o)[i] = h[i]
        /\ \A i \in 1..Len(o) : (h \o o)[Len(h) + i] = o[i]
    BY <1>7, ConcatParts
  <2>2. v \in Seq(Nat) /\ Len(v) = 8
    BY <1>7, <2>1
  <2>3. \A i \in 1..6 : v[i] = h[i]
    BY <1>7, <2>1
  <2>4. \A i \in 1..2 : v[6 + i] = o[i]
    BY <1>7, <2>1
  <2> HIDE DEF v
  <2>5. v[1] = h[1] /\ v[2] = h[2] /\ v[3] = h[3] /\ v[4] = h[4] /\ v[5] = h[5] /\ v[6] = h[6]
    BY <2>3
  <2>6. v[7] = o[1] /\ v[8] = o[2]
    <3>1. 1 \in 1..2 /\ 2 \in 1..2 /\ 6 + 1 = 7 /\ 6 + 2 = 8
      OBVIOUS
    <3>2. v[6 + 1] = o[1] /\ v[6 + 2] = o[2]
      BY <2>4, <3>1, Zenon
    <3> QED
      BY <3>1, <3>2
  <2>7. v = w
    BY <1>1, <1>8, <2>2, <2>5, <2>6, EightUnits
  <2> QED
    BY <2>7 DEF v
<1> QED
  BY <1>1, <1>2, <1>9, <1>10

\* The bundle in its two forms: header, flag, identifier and key or zeros.
LEMMA BundleRoundTrip ==
    ASSUME NEW b \in ResponderPrekeyBundle
    PROVE  /\ BundleEncode(b) \in Seq(Nat) /\ BundleEncode(b)[1] = MEB
           /\ BundleDecode(BundleEncode(b)) = {b}
<1> DEFINE h == <<MEB, VERSION, b.identity, b.key_id, b.public, b.expires_at_unix, b.signature>>
           r == b.one_time_prekey
           o == EncodeOptional(r, 2)
           w == BundleEncode(b)
<1>1. /\ b \in [type : {"bundle"}, identity : {BoundIdentity}, key_id : Nat, public : Nat,
                expires_at_unix : Nat, signature : Nat, one_time_prekey : Seq(Nat)]
      /\ Len(r) \in {0, 2}
  BY DEF ResponderPrekeyBundle
<1>2. b = [type |-> "bundle", identity |-> b.identity, key_id |-> b.key_id,
           public |-> b.public, expires_at_unix |-> b.expires_at_unix,
           signature |-> b.signature, one_time_prekey |-> r]
  BY <1>1
<1>3. h \in Seq(Nat) /\ Len(h) = 7
  BY <1>1 DEF BoundIdentity, MEB, VERSION
<1>4. /\ h[1] = MEB /\ h[2] = VERSION /\ h[3] = b.identity /\ h[4] = b.key_id
      /\ h[5] = b.public /\ h[6] = b.expires_at_unix /\ h[7] = b.signature
  OBVIOUS
<1>5. \/ r = << >> /\ o = <<0, 0, 0>>
      \/ r[1] \in Nat /\ r[2] \in Nat /\ r = <<r[1], r[2]>> /\ o = <<1, r[1], r[2]>>
  <2>1. r \in Seq(Nat)
    BY <1>1
  <2>2. CASE Len(r) = 0
    BY <2>1, <2>2, ShortRecords, OptionalAbsent
  <2>3. CASE Len(r) = 2
    <3>1. r[1] \in Nat /\ r[2] \in Nat /\ r = <<r[1], r[2]>>
      BY <2>1, <2>3, ShortRecords
    <3>2. EncodeOptional(<<r[1], r[2]>>, 2) = <<1, r[1], r[2]>>
      BY <3>1, OptionalPresent
    <3> QED
      BY <3>1, <3>2
  <2> QED
    BY <1>1, <2>2, <2>3
<1>6. /\ o \in Seq(Nat) /\ Len(o) = 3
      /\ \/ r = << >> /\ o[1] = 0 /\ o[2] = 0 /\ o[3] = 0
         \/ r = <<o[2], o[3]>> /\ o[1] = 1
  <2> HIDE DEF o, r
  <2>1. CASE r = << >> /\ o = <<0, 0, 0>>
    BY <2>1
  <2>2. CASE r[1] \in Nat /\ r[2] \in Nat /\ r = <<r[1], r[2]>> /\ o = <<1, r[1], r[2]>>
    BY <2>2
  <2> QED
    BY <1>5, <2>1, <2>2
<1>7. w = h \o o
  BY DEF BundleEncode
<1>8. b.identity = BoundIdentity
  BY <1>1
<1> HIDE DEF h, r, o, w
<1>9. /\ h \o o \in Seq(Nat) /\ Len(h \o o) = Len(h) + Len(o)
      /\ \A i \in 1..Len(h) : (h \o o)[i] = h[i]
      /\ \A i \in 1..Len(o) : (h \o o)[Len(h) + i] = o[i]
  BY <1>3, <1>6, ConcatParts
<1>10. w \in Seq(Nat) /\ Len(w) = 10
  BY <1>3, <1>6, <1>7, <1>9
<1>11. \A i \in 1..7 : w[i] = h[i]
  BY <1>3, <1>7, <1>9
<1>12. /\ w[1] = MEB /\ w[2] = VERSION /\ w[3] = b.identity /\ w[4] = b.key_id
       /\ w[5] = b.public /\ w[6] = b.expires_at_unix /\ w[7] = b.signature
  BY <1>4, <1>11
<1>13. w[8] = o[1] /\ w[9] = o[2] /\ w[10] = o[3]
  <2>1. \A i \in 1..3 : w[7 + i] = o[i]
    BY <1>3, <1>6, <1>7, <1>9
  <2>2. 1 \in 1..3 /\ 2 \in 1..3 /\ 3 \in 1..3 /\ 7 + 1 = 8 /\ 7 + 2 = 9 /\ 7 + 3 = 10
    OBVIOUS
  <2>3. w[7 + 1] = o[1] /\ w[7 + 2] = o[2] /\ w[7 + 3] = o[3]
    BY <2>1, <2>2, Zenon
  <2> QED
    BY <2>2, <2>3
<1>14. OptionalAllowed(w[8], <<w[9], w[10]>>) /\ DecodeOptional(w[8], <<w[9], w[10]>>) = r
  <2>1. CASE r = << >> /\ o[1] = 0 /\ o[2] = 0 /\ o[3] = 0
    BY <2>1, <1>13 DEF OptionalAllowed, DecodeOptional
  <2>2. CASE r = <<o[2], o[3]>> /\ o[1] = 1
    BY <2>2, <1>13 DEF OptionalAllowed, DecodeOptional
  <2> QED
    BY <1>6, <2>1, <2>2
<1> DEFINE d == [type |-> "bundle", identity |-> w[3], key_id |-> w[4], public |-> w[5],
                 expires_at_unix |-> w[6], signature |-> w[7],
                 one_time_prekey |-> DecodeOptional(w[8], <<w[9], w[10]>>)]
<1>15. d = b
  BY <1>2, <1>12, <1>14
<1>16. BundleDecode(w) = {d}
  <2>1. /\ Len(w) = BUNDLE_LEN /\ w[1] = MEB /\ w[2] = VERSION
        /\ IdentityVerifies(w[3]) /\ OptionalAllowed(w[8], <<w[9], w[10]>>)
    BY <1>8, <1>10, <1>12, <1>14 DEF BUNDLE_LEN, IdentityVerifies
  <2> QED
    BY <2>1, Zenon DEF BundleDecode
<1> HIDE DEF d
<1> QED
  BY <1>10, <1>12, <1>15, <1>16 DEF w

LEMMA BundleCanonical ==
    ASSUME NEW w \in Seq(Nat), NEW b \in BundleDecode(w)
    PROVE  w[1] = MEB /\ BundleEncode(b) = w
<1>1. /\ Len(w) = 10 /\ w[1] = MEB /\ w[2] = VERSION
      /\ OptionalAllowed(w[8], <<w[9], w[10]>>)
  BY DEF BundleDecode, BUNDLE_LEN
<1> DEFINE r == DecodeOptional(w[8], <<w[9], w[10]>>)
           d == [type |-> "bundle", identity |-> w[3], key_id |-> w[4], public |-> w[5],
                 expires_at_unix |-> w[6], signature |-> w[7], one_time_prekey |-> r]
           h == <<w[1], w[2], w[3], w[4], w[5], w[6], w[7]>>
           o == <<w[8], w[9], w[10]>>
<1>2. b = d
  BY DEF BundleDecode
<1>3. /\ d.identity = w[3] /\ d.key_id = w[4] /\ d.public = w[5]
      /\ d.expires_at_unix = w[6] /\ d.signature = w[7] /\ d.one_time_prekey = r
  OBVIOUS
<1>4. \A i \in 1..10 : w[i] \in Nat
  BY <1>1, ElementOfSeq
<1>5. w[8] \in Nat /\ w[9] \in Nat /\ w[10] \in Nat
  BY <1>4
<1>6. EncodeOptional(r, 2) = o
  <2>1. CASE w[8] = 1
    <3>1. r = <<w[9], w[10]>>
      BY <2>1 DEF DecodeOptional
    <3> QED
      BY <2>1, <3>1, <1>5, OptionalPresent
  <2>2. CASE w[8] = 0 /\ \A i \in 1..Len(<<w[9], w[10]>>) : <<w[9], w[10]>>[i] = 0
    <3>1. r = << >>
      BY <2>2 DEF DecodeOptional
    <3>2. /\ Len(<<w[9], w[10]>>) = 2 /\ 1 \in 1..2 /\ 2 \in 1..2
          /\ <<w[9], w[10]>>[1] = w[9] /\ <<w[9], w[10]>>[2] = w[10]
      OBVIOUS
    <3>3. w[9] = 0 /\ w[10] = 0
      BY <2>2, <3>2
    <3> QED
      BY <2>2, <3>1, <3>3, OptionalAbsent
  <2> QED
    BY <1>1, <2>1, <2>2 DEF OptionalAllowed
<1>7. h \in Seq(Nat) /\ Len(h) = 7 /\ o \in Seq(Nat) /\ Len(o) = 3
  BY <1>4
<1>8. /\ h[1] = w[1] /\ h[2] = w[2] /\ h[3] = w[3] /\ h[4] = w[4] /\ h[5] = w[5]
      /\ h[6] = w[6] /\ h[7] = w[7] /\ o[1] = w[8] /\ o[2] = w[9] /\ o[3] = w[10]
  OBVIOUS
<1> HIDE DEF d, r
<1>9. BundleEncode(d) = h \o o
  BY <1>1, <1>3, <1>6 DEF BundleEncode
<1> HIDE DEF h, o
<1>10. h \o o = w
  <2> DEFINE v == h \o o
  <2>1. /\ h \o o \in Seq(Nat) /\ Len(h \o o) = Len(h) + Len(o)
        /\ \A i \in 1..Len(h) : (h \o o)[i] = h[i]
        /\ \A i \in 1..Len(o) : (h \o o)[Len(h) + i] = o[i]
    BY <1>7, ConcatParts
  <2>2. v \in Seq(Nat) /\ Len(v) = 10
    BY <1>7, <2>1
  <2>3. \A i \in 1..7 : v[i] = h[i]
    BY <1>7, <2>1
  <2>4. \A i \in 1..3 : v[7 + i] = o[i]
    BY <1>7, <2>1
  <2> HIDE DEF v
  <2>5. /\ v[1] = h[1] /\ v[2] = h[2] /\ v[3] = h[3] /\ v[4] = h[4] /\ v[5] = h[5]
        /\ v[6] = h[6] /\ v[7] = h[7]
    BY <2>3
  <2>6. v[8] = o[1] /\ v[9] = o[2] /\ v[10] = o[3]
    <3>1. 1 \in 1..3 /\ 2 \in 1..3 /\ 3 \in 1..3 /\ 7 + 1 = 8 /\ 7 + 2 = 9 /\ 7 + 3 = 10
      OBVIOUS
    <3>2. v[7 + 1] = o[1] /\ v[7 + 2] = o[2] /\ v[7 + 3] = o[3]
      BY <2>4, <3>1, Zenon
    <3> QED
      BY <3>1, <3>2
  <2>7. v = w
    BY <1>1, <1>8, <2>2, <2>5, <2>6, TenUnits
  <2> QED
    BY <2>7 DEF v
<1> QED
  BY <1>1, <1>2, <1>9, <1>10

----------------------------------------------------------------------------
(* Hybrid forms.                                                           *)

\* What the decoders read off a hybrid encoding, whatever follows it, is what
\* went in: the declared lengths delimit the two parts.
LEMMA HybridParts ==
    ASSUME NEW c \in Seq(Nat), NEW pq \in Seq(Nat), NEW tail \in Seq(Nat)
    PROVE  /\ HybridEncode(c, pq) \o tail \in Seq(Nat)
           /\ HybridFramed(HybridEncode(c, pq) \o tail, Len(tail))
           /\ ClassicalPart(HybridEncode(c, pq) \o tail) = c
           /\ PqPart(HybridEncode(c, pq) \o tail) = pq
<1> DEFINE w == HybridEncode(c, pq) \o tail
           head == <<MEQ, VERSION, Len(c)>>
           x == head \o c
           y == <<Len(pq)>>
           z == x \o y
           v == z \o pq
           n == Len(c)
           k == Len(pq)
           q == Len(tail)
<1>1. n \in Nat /\ k \in Nat /\ q \in Nat /\ n = Len(c) /\ k = Len(pq) /\ q = Len(tail)
  OBVIOUS
<1>2. head \in Seq(Nat) /\ y \in Seq(Nat)
  BY DEF MEQ, VERSION
<1>3. w = v \o tail
  BY DEF HybridEncode
<1> HIDE DEF w
<1>4. /\ Len(head) = 3 /\ Len(y) = 1
      /\ head[1] = MEQ /\ head[2] = VERSION /\ head[3] = n /\ y[1] = k
  OBVIOUS
<1> HIDE DEF head, y
<1>5. /\ x \in Seq(Nat) /\ Len(x) = Len(head) + Len(c)
      /\ \A i \in 1..Len(head) : x[i] = head[i]
      /\ \A i \in 1..Len(c) : x[Len(head) + i] = c[i]
  BY <1>2, ConcatParts
<1> HIDE DEF x
<1>6. /\ z \in Seq(Nat) /\ Len(z) = Len(x) + Len(y)
      /\ \A i \in 1..Len(x) : z[i] = x[i]
      /\ \A i \in 1..Len(y) : z[Len(x) + i] = y[i]
  <2>1. x \in Seq(Nat)
    BY <1>5
  <2> QED
    BY <1>2, <2>1, ConcatParts
<1> HIDE DEF z, n, k, q
<1>7. /\ v \in Seq(Nat) /\ Len(v) = Len(z) + k
      /\ \A i \in 1..Len(z) : v[i] = z[i]
      /\ \A i \in 1..k : v[Len(z) + i] = pq[i]
  <2>1. z \in Seq(Nat)
    BY <1>6
  <2>2. /\ v \in Seq(Nat) /\ Len(v) = Len(z) + Len(pq)
        /\ \A i \in 1..Len(z) : v[i] = z[i]
        /\ \A i \in 1..Len(pq) : v[Len(z) + i] = pq[i]
    BY <2>1, ConcatParts
  <2> HIDE DEF v
  <2> QED
    BY <1>1, <2>2
<1> HIDE DEF v
<1>8. /\ v \o tail \in Seq(Nat) /\ Len(v \o tail) = Len(v) + q
      /\ \A i \in 1..Len(v) : (v \o tail)[i] = v[i]
      /\ \A i \in 1..q : (v \o tail)[Len(v) + i] = tail[i]
  <2>1. v \in Seq(Nat)
    BY <1>7
  <2>2. /\ v \o tail \in Seq(Nat) /\ Len(v \o tail) = Len(v) + Len(tail)
        /\ \A i \in 1..Len(v) : (v \o tail)[i] = v[i]
        /\ \A i \in 1..Len(tail) : (v \o tail)[Len(v) + i] = tail[i]
    BY <2>1, ConcatParts
  <2> QED
    BY <1>1, <2>2
<1>9. Len(x) = 3 + n /\ Len(z) = 4 + n /\ Len(v) = 4 + n + k
  BY <1>1, <1>2, <1>4, <1>5, <1>6, <1>7
<1>10. w \in Seq(Nat) /\ Len(w) = 4 + n + k + q
  BY <1>3, <1>8, <1>9
<1>11. \A i \in 1..(4 + n + k) : w[i] = v[i]
  BY <1>3, <1>8, <1>9
<1>12. \A i \in 1..(4 + n) : w[i] = z[i]
  <2>1. \A i \in 1..(4 + n) : v[i] = z[i] /\ i \in 1..(4 + n + k)
    BY <1>1, <1>7, <1>9
  <2> QED
    BY <1>11, <2>1
<1>13. \A i \in 1..(3 + n) : w[i] = x[i]
  <2>1. \A i \in 1..(3 + n) : z[i] = x[i] /\ i \in 1..(4 + n)
    BY <1>1, <1>6, <1>9
  <2> QED
    BY <1>12, <2>1
<1>14. w[1] = MEQ /\ w[2] = VERSION /\ w[3] = n
  <2>1. 1 \in 1..(3 + n) /\ 2 \in 1..(3 + n) /\ 3 \in 1..(3 + n)
    BY <1>1
  <2>2. w[1] = x[1] /\ w[2] = x[2] /\ w[3] = x[3]
    BY <1>13, <2>1
  <2>3. 1 \in 1..3 /\ 2 \in 1..3 /\ 3 \in 1..3
    OBVIOUS
  <2>4. \A i \in 1..3 : x[i] = head[i]
    BY <1>2, <1>4, <1>5
  <2> QED
    BY <1>2, <1>4, <2>2, <2>3, <2>4
<1>15. w[3 + n + 1] = k
  <2>1. 4 + n \in 1..(4 + n) /\ 3 + n + 1 = 4 + n
    BY <1>1
  <2>2. z[Len(x) + 1] = y[1]
    <3>1. 1 \in 1..Len(y)
      BY <1>2, <1>4
    <3> QED
      BY <1>6, <3>1
  <2> QED
    BY <1>2, <1>4, <1>9, <1>12, <2>1, <2>2
<1>16. ClassicalEnd(w) = 3 + n /\ PqEnd(w) = 4 + n + k
  BY <1>1, <1>14, <1>15 DEF ClassicalEnd, PqEnd
<1>17. HybridFramed(w, q)
  <2>1. /\ Len(w) >= 4 /\ Len(w) >= 3 + n + 1 /\ Len(w) = 4 + n + k + q
    BY <1>1, <1>10
  <2> QED
    BY <1>14, <1>16, <2>1 DEF HybridFramed
<1>18. ClassicalPart(w) = c
  <2> DEFINE m == 4
             e == 3 + n
             s == SubSeq(w, m, e)
  <2>1. m \in Nat \ {0} /\ e \in Nat /\ e <= Len(w) /\ m <= e + 1 /\ e - m + 1 = n
    BY <1>1, <1>10
  <2>2. \A i \in 1..n : m + i - 1 = 3 + i /\ 3 + i \in 1..(3 + n)
    BY <1>1
  <2>3. \A i \in 1..n : x[3 + i] = c[i]
    BY <1>1, <1>4, <1>5
  <2>4. \A i \in 1..n : w[m + i - 1] = c[i]
    <3> HIDE DEF m
    <3> QED
      BY <1>13, <2>2, <2>3
  <2> HIDE DEF m, e
  <2>5. /\ SubSeq(w, m, e) \in Seq(Nat) /\ Len(SubSeq(w, m, e)) = e - m + 1
        /\ \A i \in 1..(e - m + 1) : SubSeq(w, m, e)[i] = w[m + i - 1]
    BY <1>10, <2>1, Slice
  <2>6. s \in Seq(Nat) /\ Len(s) = n /\ \A i \in 1..n : s[i] = c[i]
    BY <2>1, <2>4, <2>5
  <2> HIDE DEF s
  <2>7. s = c
    BY <1>1, <2>6, SeqEqual
  <2>8. ClassicalPart(w) = SubSeq(w, m, e)
    BY <1>16 DEF ClassicalPart, m, e
  <2> QED
    BY <2>7, <2>8 DEF s
<1>19. PqPart(w) = pq
  <2> DEFINE m == 3 + n + 2
             e == 4 + n + k
             s == SubSeq(w, m, e)
  <2>1. m \in Nat \ {0} /\ e \in Nat /\ e <= Len(w) /\ m <= e + 1 /\ e - m + 1 = k
    BY <1>1, <1>10
  <2>2. \A i \in 1..k : m + i - 1 = 4 + n + i /\ 4 + n + i \in 1..(4 + n + k)
    BY <1>1
  <2>3. \A i \in 1..k : v[4 + n + i] = pq[i]
    BY <1>7, <1>9
  <2>4. \A i \in 1..k : w[m + i - 1] = pq[i]
    <3> HIDE DEF m
    <3> QED
      BY <1>11, <2>2, <2>3
  <2> HIDE DEF m, e
  <2>5. /\ SubSeq(w, m, e) \in Seq(Nat) /\ Len(SubSeq(w, m, e)) = e - m + 1
        /\ \A i \in 1..(e - m + 1) : SubSeq(w, m, e)[i] = w[m + i - 1]
    BY <1>10, <2>1, Slice
  <2>6. s \in Seq(Nat) /\ Len(s) = k /\ \A i \in 1..k : s[i] = pq[i]
    BY <2>1, <2>4, <2>5
  <2> HIDE DEF s
  <2>7. s = pq
    BY <1>1, <2>6, SeqEqual
  <2>8. PqPart(w) = SubSeq(w, m, e)
    BY <1>16 DEF PqPart, m, e
  <2> QED
    BY <2>7, <2>8 DEF s
<1> QED
  BY <1>10, <1>17, <1>18, <1>19 DEF q, w

\* The units up to the end of the ML-KEM part are the encoding of both parts.
LEMMA HybridFrame ==
    ASSUME NEW w \in Seq(Nat), NEW t \in Nat, HybridFramed(w, t)
    PROVE  /\ w[1] = MEQ
           /\ ClassicalPart(w) \in Seq(Nat) /\ PqPart(w) \in Seq(Nat)
           /\ PqEnd(w) \in 4..Len(w) /\ Len(w) = PqEnd(w) + t
           /\ HybridEncode(ClassicalPart(w), PqPart(w)) = SubSeq(w, 1, PqEnd(w))
<1> DEFINE n == w[3]
           k == w[3 + n + 1]
           c == SubSeq(w, 4, 3 + n)
           pq == SubSeq(w, 3 + n + 2, 3 + n + 1 + k)
<1>1. /\ Len(w) >= 4 /\ w[1] = MEQ /\ w[2] = VERSION
      /\ Len(w) >= 3 + n + 1 /\ Len(w) = 3 + n + 1 + k + t
  BY DEF HybridFramed, ClassicalEnd, PqEnd
<1>2. Len(w) \in Nat /\ n \in Nat
  <2>1. Len(w) \in Nat /\ 3 \in 1..Len(w)
    BY <1>1
  <2> QED
    BY <2>1, ElementOfSeq
<1>3. Len(w) >= 3 + n + 1
  BY <1>1
<1>4. k \in Nat
  <2>1. 3 + n + 1 \in 1..Len(w)
    BY <1>2, <1>3
  <2> QED
    BY <2>1, ElementOfSeq
<1>5. ClassicalPart(w) = c /\ PqPart(w) = pq /\ PqEnd(w) = 3 + n + 1 + k
  BY DEF ClassicalPart, PqPart, ClassicalEnd, PqEnd
<1>6. Len(w) = 3 + n + 1 + k + t
  BY <1>1
<1>7. SubSeq(w, 1, 3) = <<MEQ, VERSION, n>>
  <2> DEFINE s == SubSeq(w, 1, 3)
             h == <<MEQ, VERSION, n>>
  <2>1. s \in Seq(Nat) /\ Len(s) = 3 /\ \A i \in 1..3 : s[i] = w[i]
    <3>1. 3 \in Nat /\ 1 \in Nat \ {0} /\ 3 <= Len(w) /\ 1 <= 3 + 1 /\ 3 - 1 + 1 = 3
      BY <1>1, <1>2
    <3>2. /\ SubSeq(w, 1, 3) \in Seq(Nat) /\ Len(SubSeq(w, 1, 3)) = 3 - 1 + 1
          /\ \A i \in 1..(3 - 1 + 1) : SubSeq(w, 1, 3)[i] = w[1 + i - 1]
      BY <3>1, Slice
    <3> QED
      BY <3>1, <3>2
  <2>2. h \in Seq(Nat) /\ Len(h) = 3
    BY <1>2 DEF MEQ, VERSION
  <2>3. h[1] = w[1] /\ h[2] = w[2] /\ h[3] = w[3]
    BY <1>1
  <2> HIDE DEF s, h
  <2>4. \A i \in 1..3 : s[i] = w[i]
    BY <2>1
  <2>5. s[1] = w[1] /\ s[2] = w[2] /\ s[3] = w[3]
    BY <2>4
  <2>6. s = h
    BY <2>1, <2>2, <2>3, <2>5, FewUnits
  <2> QED
    BY <2>6 DEF s, h
<1> HIDE DEF n
<1>8. SubSeq(w, 3 + n + 1, 3 + n + 1) = <<k>>
  <2> DEFINE m == 3 + n + 1
             s == SubSeq(w, m, m)
  <2>1. m \in Nat \ {0} /\ m \in Nat /\ m <= Len(w) /\ m <= m + 1 /\ m - m + 1 = 1
    BY <1>2, <1>3
  <2>2. k = w[m]
    OBVIOUS
  <2> HIDE DEF m, k
  <2>3. /\ SubSeq(w, m, m) \in Seq(Nat) /\ Len(SubSeq(w, m, m)) = m - m + 1
        /\ \A i \in 1..(m - m + 1) : SubSeq(w, m, m)[i] = w[m + i - 1]
    BY <2>1, Slice
  <2>4. s \in Seq(Nat) /\ Len(s) = 1
    BY <2>1, <2>3
  <2>5. s[1] = w[m]
    <3>1. 1 \in 1..(m - m + 1) /\ m + 1 - 1 = m
      BY <2>1
    <3> QED
      BY <2>3, <3>1
  <2> HIDE DEF s
  <2>6. s = <<s[1]>>
    BY <2>4, ShortRecords
  <2> QED
    BY <2>2, <2>5, <2>6 DEF s, m
<1> HIDE DEF k
<1>9. Len(c) = n /\ c \in Seq(Nat)
  <2> DEFINE m == 4
             e == 3 + n
  <2>1. m \in Nat \ {0} /\ e \in Nat /\ e <= Len(w) /\ m <= e + 1 /\ e - m + 1 = n
    BY <1>2, <1>3
  <2> HIDE DEF m, e
  <2>2. SubSeq(w, m, e) \in Seq(Nat) /\ Len(SubSeq(w, m, e)) = e - m + 1
    BY <2>1, Slice
  <2> QED
    BY <2>1, <2>2 DEF m, e
<1>10. Len(pq) = k /\ pq \in Seq(Nat)
  <2> DEFINE m == 3 + n + 2
             e == 3 + n + 1 + k
  <2>1. m \in Nat \ {0} /\ e \in Nat /\ e <= Len(w) /\ m <= e + 1 /\ e - m + 1 = k
    BY <1>2, <1>4, <1>6
  <2> HIDE DEF m, e
  <2>2. SubSeq(w, m, e) \in Seq(Nat) /\ Len(SubSeq(w, m, e)) = e - m + 1
    BY <2>1, Slice
  <2> QED
    BY <2>1, <2>2 DEF m, e
<1>11. HybridEncode(c, pq) = SubSeq(w, 1, 3) \o c \o SubSeq(w, 3 + n + 1, 3 + n + 1) \o pq
  <2> HIDE DEF c, pq
  <2> QED
    BY <1>7, <1>8, <1>9, <1>10 DEF HybridEncode
<1>12. SubSeq(w, 1, 3) \o c = SubSeq(w, 1, 3 + n)
  <2>1. 1 \in 1..(Len(w) + 1) /\ 3 \in (1 - 1)..Len(w) /\ 3 + n \in 3..Len(w) /\ 3 + 1 = 4
    BY <1>2, <1>3
  <2>2. SubSeq(w, 1, 3) \o SubSeq(w, 3 + 1, 3 + n) = SubSeq(w, 1, 3 + n)
    BY <2>1, ConcatAdjacentSubSeq
  <2> QED
    BY <2>1, <2>2
<1>13. SubSeq(w, 1, 3 + n) \o SubSeq(w, 3 + n + 1, 3 + n + 1) = SubSeq(w, 1, 3 + n + 1)
  <2>1. /\ 1 \in 1..(Len(w) + 1) /\ 3 + n \in (1 - 1)..Len(w)
        /\ 3 + n + 1 \in (3 + n)..Len(w)
    BY <1>2, <1>3
  <2> QED
    BY <2>1, ConcatAdjacentSubSeq
<1>14. SubSeq(w, 1, 3 + n + 1) \o pq = SubSeq(w, 1, 3 + n + 1 + k)
  <2>1. /\ 1 \in 1..(Len(w) + 1) /\ 3 + n + 1 \in (1 - 1)..Len(w)
        /\ 3 + n + 1 + k \in (3 + n + 1)..Len(w) /\ 3 + n + 1 + 1 = 3 + n + 2
    BY <1>2, <1>3, <1>4, <1>6
  <2>2. SubSeq(w, 1, 3 + n + 1) \o SubSeq(w, 3 + n + 1 + 1, 3 + n + 1 + k)
        = SubSeq(w, 1, 3 + n + 1 + k)
    BY <2>1, ConcatAdjacentSubSeq
  <2> QED
    BY <2>1, <2>2
<1>15. 3 + n + 1 + k \in 4..Len(w)
  BY <1>2, <1>4, <1>6
<1>16. HybridEncode(c, pq) = SubSeq(w, 1, 3 + n + 1 + k)
  <2> HIDE DEF c, pq
  <2> QED
    BY <1>11, <1>12, <1>13, <1>14
<1> HIDE DEF c, pq
<1> QED
  BY <1>1, <1>5, <1>6, <1>9, <1>10, <1>15, <1>16

LEMMA HybridEncodeType ==
    ASSUME NEW c \in Seq(Nat), NEW pq \in Seq(Nat)
    PROVE  HybridEncode(c, pq) \in Seq(Nat)
<1>1. <<MEQ, VERSION, Len(c)>> \in Seq(Nat) /\ <<Len(pq)>> \in Seq(Nat)
  BY DEF MEQ, VERSION
<1>2. <<MEQ, VERSION, Len(c)>> \o c \in Seq(Nat)
  BY <1>1, ConcatParts
<1>3. <<MEQ, VERSION, Len(c)>> \o c \o <<Len(pq)>> \in Seq(Nat)
  BY <1>1, <1>2, ConcatParts
<1> QED
  BY <1>3, ConcatParts DEF HybridEncode

\* The hybrid message, and why the bundle decoder refuses it: both forms share
\* their magic, but their classical parts do not.
LEMMA HybridMessageRoundTrip ==
    ASSUME NEW m \in HybridInitiatorHandshake, NEW w, w = HybridMessageEncode(m)
    PROVE  /\ w \in Seq(Nat) /\ w[1] = MEQ /\ ClassicalPart(w)[1] = MEH
           /\ HybridMessageDecode(w) = {m} /\ HybridBundleDecode(w) = {}
<1> DEFINE c == HandshakeEncode(m.classical)
           pq == m.pq_ciphertext
<1>1. /\ m = [type |-> "hybrid_message", classical |-> m.classical, pq_ciphertext |-> pq]
      /\ m.classical \in InitiatorHandshake
      /\ pq \in Seq(Nat) /\ Len(pq) = PqCiphertextLen
  BY DEF HybridInitiatorHandshake
<1>2. c \in Seq(Nat) /\ c[1] = MEH /\ HandshakeDecode(c) = {m.classical}
  BY <1>1, HandshakeRoundTrip
<1>3. w = HybridEncode(c, pq)
  BY DEF HybridMessageEncode
<1> HIDE DEF c, pq
<1>4. << >> \in Seq(Nat) /\ Len(<< >>) = 0
  OBVIOUS
<1>5. w = HybridEncode(c, pq) \o << >>
  BY <1>1, <1>2, <1>3, HybridEncodeType, ConcatEmptySeq
<1>6. /\ w \in Seq(Nat) /\ w[1] = MEQ /\ HybridFramed(w, 0)
      /\ ClassicalPart(w) = c /\ PqPart(w) = pq
  <2>1. c \in Seq(Nat) /\ pq \in Seq(Nat) /\ << >> \in Seq(Nat)
    BY <1>1, <1>2
  <2> DEFINE v == HybridEncode(c, pq) \o << >>
  <2>2. /\ v \in Seq(Nat) /\ HybridFramed(v, Len(<< >>))
        /\ ClassicalPart(v) = c /\ PqPart(v) = pq
    BY <2>1, HybridParts, Zenon
  <2> HIDE DEF v
  <2>3. v[1] = MEQ
    BY <2>2 DEF HybridFramed
  <2>4. w = v
    BY <1>5 DEF v
  <2> QED
    BY <1>4, <2>2, <2>3, <2>4, Zenon
<1>7. HybridMessageDecode(w) = {m}
  BY <1>1, <1>2, <1>6 DEF HybridMessageDecode
<1>8. BundleDecode(c) = {}
  <2>1. MEH # MEB
    BY DEF MEH, MEB
  <2> QED
    BY <1>2, <2>1, BundleCanonical
<1>9. HybridBundleDecode(w) = {}
  BY <1>6, <1>8 DEF HybridBundleDecode
<1> QED
  BY <1>2, <1>6, <1>7, <1>9

\* The hybrid bundle is read back piece by piece, and accepted where its
\* signature verifies.
LEMMA HybridBundleRoundTrip ==
    ASSUME NEW b \in HybridResponderPrekeyBundle, NEW w, w = HybridBundleEncode(b)
    PROVE  /\ w \in Seq(Nat) /\ w[1] = MEQ /\ ClassicalPart(w)[1] = MEB
           /\ BundleDecode(ClassicalPart(w)) = {b.classical}
           /\ PqPart(w) = b.pq_public /\ w[PqEnd(w) + 1] = b.pq_signature
           /\ HybridMessageDecode(w) = {}
           /\ SignatureVerifies(binding_transcript(b.classical, b.pq_public), b.pq_signature)
              => HybridBundleDecode(w) = {b}
<1> DEFINE c == BundleEncode(b.classical)
           pq == b.pq_public
           tail == <<b.pq_signature>>
<1>1. /\ b = [type |-> "hybrid_bundle", classical |-> b.classical, pq_public |-> pq,
              pq_signature |-> b.pq_signature]
      /\ b.classical \in ResponderPrekeyBundle
      /\ pq \in Seq(Nat) /\ PqPublicAllowed(pq) /\ b.pq_signature \in Nat
  BY DEF HybridResponderPrekeyBundle
<1>2. c \in Seq(Nat) /\ c[1] = MEB /\ BundleDecode(c) = {b.classical}
  BY <1>1, BundleRoundTrip
<1>3. w = HybridEncode(c, pq) \o tail
  BY DEF HybridBundleEncode
<1>4. tail \in Seq(Nat) /\ Len(tail) = 1 /\ tail[1] = b.pq_signature /\ 1 \in 1..1
  BY <1>1
<1> HIDE DEF c, pq, tail
<1>5. /\ w \in Seq(Nat) /\ w[1] = MEQ /\ HybridFramed(w, 1)
      /\ ClassicalPart(w) = c /\ PqPart(w) = pq
  <2>1. c \in Seq(Nat) /\ pq \in Seq(Nat) /\ tail \in Seq(Nat)
    BY <1>1, <1>2, <1>4
  <2> DEFINE v == HybridEncode(c, pq) \o tail
  <2>2. /\ v \in Seq(Nat) /\ HybridFramed(v, Len(tail))
        /\ ClassicalPart(v) = c /\ PqPart(v) = pq
    BY <2>1, HybridParts, Zenon
  <2> HIDE DEF v
  <2>3. v[1] = MEQ
    BY <2>2 DEF HybridFramed
  <2>4. w = v
    BY <1>3 DEF v
  <2> QED
    BY <1>4, <2>2, <2>3, <2>4, Zenon
<1>6. w[PqEnd(w) + 1] = b.pq_signature
  <2> DEFINE e == HybridEncode(c, pq)
             p == PqEnd(w)
  <2>1. e \in Seq(Nat) /\ Len(e) \in Nat
    BY <1>1, <1>2, HybridEncodeType
  <2>2. w = e \o tail
    BY <1>3
  <2>3. Len(w) = p + 1
    BY <1>5 DEF HybridFramed
  <2>4. p \in Nat
    <3>1. HybridFramed(w, 1) /\ 1 \in Nat
      BY <1>5
    <3>2. PqEnd(w) \in 4..Len(w) /\ Len(w) \in Nat
      BY <1>5, <3>1, HybridFrame
    <3> QED
      BY <3>2
  <2> HIDE DEF e, p
  <2> DEFINE v == e \o tail
  <2>5. Len(v) = Len(e) + Len(tail) /\ \A i \in 1..Len(tail) : v[Len(e) + i] = tail[i]
    BY <1>4, <2>1, ConcatParts
  <2> HIDE DEF v
  <2>6. Len(e) = p
    <3>1. Len(v) = p + 1
      BY <2>2, <2>3 DEF v
    <3> QED
      BY <1>4, <2>1, <2>4, <2>5, <3>1
  <2>7. w[Len(e) + 1] = tail[1]
    <3>1. v[Len(e) + 1] = tail[1]
      BY <1>4, <2>5
    <3> QED
      BY <2>2, <3>1 DEF v
  <2> QED
    BY <1>4, <2>6, <2>7 DEF p
<1>7. HandshakeDecode(c) = {}
  <2>1. MEH # MEB
    BY DEF MEH, MEB
  <2> QED
    BY <1>2, <2>1, HandshakeCanonical
<1>8. HybridMessageDecode(w) = {}
  BY <1>5, <1>7 DEF HybridMessageDecode
<1>9. ASSUME SignatureVerifies(binding_transcript(b.classical, pq), b.pq_signature)
      PROVE  HybridBundleDecode(w) = {b}
  <2> DEFINE g == [type |-> "hybrid_bundle", classical |-> b.classical, pq_public |-> pq,
                   pq_signature |-> b.pq_signature]
  <2>1. HybridBundleDecode(w)
        = {x \in {[type |-> "hybrid_bundle", classical |-> y, pq_public |-> pq,
                   pq_signature |-> b.pq_signature] : y \in {b.classical}} :
             SignatureVerifies(binding_transcript(x.classical, x.pq_public), x.pq_signature)}
    BY <1>1, <1>2, <1>5, <1>6 DEF HybridBundleDecode
  <2>2. {[type |-> "hybrid_bundle", classical |-> y, pq_public |-> pq,
          pq_signature |-> b.pq_signature] : y \in {b.classical}} = {b}
    BY <1>1
  <2>3. b.pq_public = pq
    BY DEF pq
  <2> QED
    BY <1>9, <2>1, <2>2, <2>3
<1> QED
  BY <1>2, <1>5, <1>6, <1>8, <1>9 DEF pq

\* An accepted hybrid wire is the encoding of what it decodes to.
LEMMA HybridMessageCanonical ==
    ASSUME NEW w \in Seq(Nat), NEW m \in HybridMessageDecode(w)
    PROVE  w[1] = MEQ /\ m.type = "hybrid_message" /\ HybridMessageEncode(m) = w
<1>1. HybridFramed(w, 0)
  BY DEF HybridMessageDecode
<1>2. PICK c \in HandshakeDecode(ClassicalPart(w)) :
         m = [type |-> "hybrid_message", classical |-> c, pq_ciphertext |-> PqPart(w)]
  BY DEF HybridMessageDecode
<1>3. /\ w[1] = MEQ /\ ClassicalPart(w) \in Seq(Nat)
      /\ PqEnd(w) \in 4..Len(w) /\ Len(w) = PqEnd(w) + 0
      /\ HybridEncode(ClassicalPart(w), PqPart(w)) = SubSeq(w, 1, PqEnd(w))
  BY <1>1, HybridFrame
<1>4. HandshakeEncode(c) = ClassicalPart(w)
  BY <1>2, <1>3, HandshakeCanonical
<1>5. HybridMessageEncode(m) = HybridEncode(ClassicalPart(w), PqPart(w))
  BY <1>2, <1>4 DEF HybridMessageEncode
<1>6. PqEnd(w) = Len(w)
  BY <1>3
<1>7. SubSeq(w, 1, PqEnd(w)) = w
  BY <1>6, SubSeqFull
<1> QED
  BY <1>2, <1>3, <1>5, <1>7

LEMMA HybridBundleCanonical ==
    ASSUME NEW w \in Seq(Nat), NEW b \in HybridBundleDecode(w)
    PROVE  /\ w[1] = MEQ /\ b.type = "hybrid_bundle" /\ HybridBundleEncode(b) = w
           /\ SignatureVerifies(binding_transcript(b.classical, b.pq_public), b.pq_signature)
<1>1. HybridFramed(w, 1)
  BY DEF HybridBundleDecode
<1>2. PICK c \in BundleDecode(ClassicalPart(w)) :
         b = [type |-> "hybrid_bundle", classical |-> c, pq_public |-> PqPart(w),
              pq_signature |-> w[PqEnd(w) + 1]]
  BY DEF HybridBundleDecode
<1>3. SignatureVerifies(binding_transcript(b.classical, b.pq_public), b.pq_signature)
  BY DEF HybridBundleDecode
<1>4. /\ w[1] = MEQ /\ ClassicalPart(w) \in Seq(Nat)
      /\ PqEnd(w) \in 4..Len(w) /\ Len(w) = PqEnd(w) + 1
      /\ HybridEncode(ClassicalPart(w), PqPart(w)) = SubSeq(w, 1, PqEnd(w))
  BY <1>1, HybridFrame
<1>5. BundleEncode(c) = ClassicalPart(w)
  BY <1>2, <1>4, BundleCanonical
<1> DEFINE e == PqEnd(w)
<1>6. HybridBundleEncode(b) = SubSeq(w, 1, e) \o <<w[e + 1]>>
  BY <1>2, <1>4, <1>5 DEF HybridBundleEncode
<1>7. e \in 4..Len(w) /\ Len(w) = e + 1
  BY <1>4
<1> HIDE DEF e
<1>8. SubSeq(w, 1, e) \o <<w[e + 1]>> = w
  <2>1. 1 \in 1..Len(w) /\ e + 1 \in 1..Len(w) /\ (e + 1) - 1 = e
    BY <1>7
  <2>2. SubSeq(w, 1, e + 1) = SubSeq(w, 1, (e + 1) - 1) \o <<w[e + 1]>>
    BY <2>1, SubSeqRecursiveSecond
  <2>3. SubSeq(w, 1, Len(w)) = w
    BY SubSeqFull
  <2> QED
    BY <1>7, <2>1, <2>2, <2>3
<1> QED
  BY <1>2, <1>3, <1>4, <1>6, <1>8

----------------------------------------------------------------------------
(* Every format together.                                                  *)

WireObject ==
    InnerFrame \cup InitiatorHandshake \cup ResponderPrekeyBundle
        \cup HybridInitiatorHandshake \cup HybridResponderPrekeyBundle

\* Which decoder accepts a wire shows in its first unit.
LEMMA FirstUnits ==
    ASSUME NEW w \in Seq(Nat)
    PROVE  /\ FrameDecode(w) # {} => w[1] = MEF
           /\ HandshakeDecode(w) # {} => w[1] = MEH
           /\ BundleDecode(w) # {} => w[1] = MEB
           /\ HybridMessageDecode(w) # {} \/ HybridBundleDecode(w) # {} => w[1] = MEQ
<1>1. FrameDecode(w) # {} => w[1] = MEF
  BY FrameCanonical DEF FrameDecode
<1>2. HandshakeDecode(w) # {} => w[1] = MEH
  BY HandshakeCanonical
<1>3. BundleDecode(w) # {} => w[1] = MEB
  BY BundleCanonical
<1>4. HybridMessageDecode(w) # {} => w[1] = MEQ
  BY HybridMessageCanonical
<1>5. HybridBundleDecode(w) # {} => w[1] = MEQ
  BY HybridBundleCanonical
<1> QED
  BY <1>1, <1>2, <1>3, <1>4, <1>5

LEMMA Magics == MEF # MEH /\ MEF # MEB /\ MEF # MEQ /\ MEH # MEB /\ MEH # MEQ /\ MEB # MEQ
  BY DEF MEF, MEH, MEB, MEQ

\* The five formats as five cases.
LEMMA Formats ==
    ASSUME NEW o \in WireObject
    PROVE  \/ o \in InnerFrame /\ o.type = "frame" /\ Encode(o) = FrameEncode(o)
           \/ o \in InitiatorHandshake /\ o.type = "message" /\ Encode(o) = HandshakeEncode(o)
           \/ o \in ResponderPrekeyBundle /\ o.type = "bundle" /\ Encode(o) = BundleEncode(o)
           \/ /\ o \in HybridInitiatorHandshake /\ o.type = "hybrid_message"
              /\ Encode(o) = HybridMessageEncode(o)
           \/ /\ o \in HybridResponderPrekeyBundle /\ o.type = "hybrid_bundle"
              /\ Encode(o) = HybridBundleEncode(o)
<1>1. CASE o \in InnerFrame
  <2>1. o.type = "frame"
    BY <1>1 DEF InnerFrame
  <2> QED
    BY <1>1, <2>1 DEF Encode
<1>2. CASE o \in InitiatorHandshake
  <2>1. o.type = "message"
    BY <1>2 DEF InitiatorHandshake
  <2> QED
    BY <1>2, <2>1 DEF Encode
<1>3. CASE o \in ResponderPrekeyBundle
  <2>1. o.type = "bundle"
    BY <1>3 DEF ResponderPrekeyBundle
  <2> QED
    BY <1>3, <2>1 DEF Encode
<1>4. CASE o \in HybridInitiatorHandshake
  <2>1. o.type = "hybrid_message"
    BY <1>4 DEF HybridInitiatorHandshake
  <2> QED
    BY <1>4, <2>1 DEF Encode
<1>5. CASE o \in HybridResponderPrekeyBundle
  <2>1. o.type = "hybrid_bundle"
    BY <1>5 DEF HybridResponderPrekeyBundle
  <2> QED
    BY <1>5, <2>1 DEF Encode
<1> QED
  BY <1>1, <1>2, <1>3, <1>4, <1>5 DEF WireObject

\* Two well-formed objects of any formats never share an encoding: associated
\* data and transcripts, which are encodings, determine every field they cover.
THEOREM EncodingInjective ==
    ASSUME NEW o \in WireObject, NEW p \in WireObject, Encode(o) = Encode(p)
    PROVE  o = p
<1> DEFINE w == Encode(o)
           Reading(x) ==
             \/ w[1] = MEF /\ FrameDecode(w) = {x}
             \/ w[1] = MEH /\ HandshakeDecode(w) = {x}
             \/ w[1] = MEB /\ BundleDecode(w) = {x}
             \/ w[1] = MEQ /\ ClassicalPart(w)[1] = MEH /\ HybridMessageDecode(w) = {x}
             \/ /\ w[1] = MEQ /\ ClassicalPart(w)[1] = MEB
                /\ x = [type |-> "hybrid_bundle",
                        classical |-> CHOOSE c : BundleDecode(ClassicalPart(w)) = {c},
                        pq_public |-> PqPart(w), pq_signature |-> w[PqEnd(w) + 1]]
<1>1. ASSUME NEW x \in WireObject, Encode(x) = w
      PROVE  Reading(x)
  <2> HIDE DEF w
  <2>1. CASE x \in InnerFrame /\ w = FrameEncode(x)
    BY <2>1, FrameRoundTrip
  <2>2. CASE x \in InitiatorHandshake /\ w = HandshakeEncode(x)
    BY <2>2, HandshakeRoundTrip
  <2>3. CASE x \in ResponderPrekeyBundle /\ w = BundleEncode(x)
    BY <2>3, BundleRoundTrip
  <2>4. CASE x \in HybridInitiatorHandshake /\ w = HybridMessageEncode(x)
    BY <2>4, HybridMessageRoundTrip
  <2>5. CASE x \in HybridResponderPrekeyBundle /\ w = HybridBundleEncode(x)
    <3>1. /\ w[1] = MEQ /\ ClassicalPart(w)[1] = MEB
          /\ BundleDecode(ClassicalPart(w)) = {x.classical}
          /\ PqPart(w) = x.pq_public /\ w[PqEnd(w) + 1] = x.pq_signature
      BY <2>5, HybridBundleRoundTrip
    <3>2. x = [type |-> "hybrid_bundle", classical |-> x.classical,
               pq_public |-> x.pq_public, pq_signature |-> x.pq_signature]
      BY <2>5 DEF HybridResponderPrekeyBundle
    <3>3. x.classical = CHOOSE c : BundleDecode(ClassicalPart(w)) = {c}
      <4>1. \A c : {x.classical} = {c} <=> c = x.classical
        OBVIOUS
      <4> QED
        BY <3>1, <4>1
    <3> QED
      BY <3>1, <3>2, <3>3
  <2> QED
    BY <1>1, <2>1, <2>2, <2>3, <2>4, <2>5, Formats
<1>2. Reading(o) /\ Reading(p)
  BY <1>1
<1> HIDE DEF w
<1>3. CASE w[1] = MEF
  <2>1. FrameDecode(w) = {o} /\ FrameDecode(w) = {p}
    BY <1>2, <1>3, Magics
  <2> QED
    BY <2>1, Zenon
<1>4. CASE w[1] = MEH
  <2>1. HandshakeDecode(w) = {o} /\ HandshakeDecode(w) = {p}
    BY <1>2, <1>4, Magics
  <2> QED
    BY <2>1, Zenon
<1>5. CASE w[1] = MEB
  <2>1. BundleDecode(w) = {o} /\ BundleDecode(w) = {p}
    BY <1>2, <1>5, Magics
  <2> QED
    BY <2>1, Zenon
<1>6. CASE w[1] = MEQ /\ ClassicalPart(w)[1] = MEH
  <2>1. HybridMessageDecode(w) = {o} /\ HybridMessageDecode(w) = {p}
    BY <1>2, <1>6, Magics
  <2> QED
    BY <2>1, Zenon
<1>7. CASE w[1] = MEQ /\ ClassicalPart(w)[1] = MEB
  BY <1>2, <1>7, Magics
<1> QED
  BY <1>2, <1>3, <1>4, <1>5, <1>6, <1>7

\* Encoding an object and decoding it, with every decoder.
LEMMA EncodeDecodes ==
    ASSUME object \in WireObject, wire = Encode(object)
    PROVE  Decodings(wire) = {object} /\ wire \in Seq(Nat)
<1> DEFINE w == wire
<1>1. CASE object \in InnerFrame /\ w = FrameEncode(object)
  <2>1. w \in Seq(Nat) /\ w[1] = MEF /\ FrameDecode(w) = {object}
    BY <1>1, FrameRoundTrip
  <2>2. /\ HandshakeDecode(w) = {} /\ BundleDecode(w) = {}
        /\ HybridMessageDecode(w) = {} /\ HybridBundleDecode(w) = {}
    BY <2>1, FirstUnits, Magics
  <2> QED
    BY <2>1, <2>2 DEF Decodings
<1>2. CASE object \in InitiatorHandshake /\ w = HandshakeEncode(object)
  <2>1. w \in Seq(Nat) /\ w[1] = MEH /\ HandshakeDecode(w) = {object}
    BY <1>2, HandshakeRoundTrip
  <2>2. /\ FrameDecode(w) = {} /\ BundleDecode(w) = {}
        /\ HybridMessageDecode(w) = {} /\ HybridBundleDecode(w) = {}
    BY <2>1, FirstUnits, Magics
  <2> QED
    BY <2>1, <2>2 DEF Decodings
<1>3. CASE object \in ResponderPrekeyBundle /\ w = BundleEncode(object)
  <2>1. w \in Seq(Nat) /\ w[1] = MEB /\ BundleDecode(w) = {object}
    BY <1>3, BundleRoundTrip
  <2>2. /\ FrameDecode(w) = {} /\ HandshakeDecode(w) = {}
        /\ HybridMessageDecode(w) = {} /\ HybridBundleDecode(w) = {}
    BY <2>1, FirstUnits, Magics
  <2> QED
    BY <2>1, <2>2 DEF Decodings
<1>4. CASE object \in HybridInitiatorHandshake /\ w = HybridMessageEncode(object)
  <2>1. /\ w \in Seq(Nat) /\ w[1] = MEQ
        /\ HybridMessageDecode(w) = {object} /\ HybridBundleDecode(w) = {}
    BY <1>4, HybridMessageRoundTrip
  <2>2. FrameDecode(w) = {} /\ HandshakeDecode(w) = {} /\ BundleDecode(w) = {}
    BY <2>1, FirstUnits, Magics
  <2> QED
    BY <2>1, <2>2 DEF Decodings
<1>5. CASE /\ object \in HybridResponderPrekeyBundle /\ w = HybridBundleEncode(object)
           /\ object.type = "hybrid_bundle"
  <2>1. SignatureVerifies(binding_transcript(object.classical, object.pq_public),
                          object.pq_signature)
    BY <1>5 DEF SignatureVerifies
  <2>2. /\ w \in Seq(Nat) /\ w[1] = MEQ
        /\ HybridMessageDecode(w) = {} /\ HybridBundleDecode(w) = {object}
    BY <1>5, <2>1, HybridBundleRoundTrip
  <2>3. FrameDecode(w) = {} /\ HandshakeDecode(w) = {} /\ BundleDecode(w) = {}
    BY <2>2, FirstUnits, Magics
  <2> QED
    BY <2>2, <2>3 DEF Decodings
<1> QED
  BY <1>1, <1>2, <1>3, <1>4, <1>5, Formats

----------------------------------------------------------------------------
(* The specification.                                                      *)

\* A wire stays a sequence of units, and is the encoding until it is altered.
WireInv ==
    /\ object \in WireObject
    /\ wire \in Seq(Nat)
    /\ edits \in Nat
    /\ edits = 0 => wire = Encode(object)

LEMMA WireInitInv == Init => WireInv
<1> SUFFICES ASSUME Init PROVE WireInv
  OBVIOUS
<1>1. object \in WireObject /\ wire = Encode(object) /\ edits = 0
  BY ObjectsAssumption DEF Init, WireObject
<1> QED
  BY <1>1, EncodeDecodes DEF WireInv

LEMMA WireNextInv == WireInv /\ [Next]_vars => WireInv'
<1> SUFFICES ASSUME WireInv, [Next]_vars PROVE WireInv'
  OBVIOUS
<1>1. wire \in Seq(Nat) /\ edits \in Nat /\ object \in WireObject
  BY DEF WireInv
<1>2. ASSUME NEW w \in Seq(Nat), Altered(w) PROVE WireInv'
  <2>1. wire' = w /\ edits' = edits + 1 /\ object' = object
    BY <1>2 DEF Altered
  <2>2. edits' \in Nat /\ edits' # 0
    BY <1>1, <2>1
  <2> QED
    BY <1>1, <2>1, <2>2 DEF WireInv, WireObject
<1>3. CASE ReplaceUnit
  <2>1. PICK i \in 1..Len(wire), unit \in Units : Altered([wire EXCEPT ![i] = unit])
    BY <1>3 DEF ReplaceUnit
  <2>2. unit \in Nat
    BY WireAssumption
  <2>3. [wire EXCEPT ![i] = unit] \in Seq(Nat)
    BY <1>1, <2>2, ExceptSeq
  <2> QED
    BY <1>2, <2>1, <2>3
<1>4. CASE CutLast
  <2>1. wire # << >> /\ Altered(Front(wire))
    BY <1>4 DEF CutLast
  <2>2. Front(wire) \in Seq(Nat)
    BY <1>1 DEF Front
  <2> QED
    BY <1>2, <2>1, <2>2
<1>5. CASE AppendUnit
  <2>1. PICK unit \in Units : Altered(Append(wire, unit))
    BY <1>5 DEF AppendUnit
  <2>2. Append(wire, unit) \in Seq(Nat)
    BY <1>1, WireAssumption, AppendProperties
  <2> QED
    BY <1>2, <2>1, <2>2
<1>6. CASE UNCHANGED vars
  <2>1. wire' = wire /\ edits' = edits /\ object' = object
    BY <1>6 DEF vars
  <2>2. (edits = 0 => wire = Encode(object)) => (edits' = 0 => wire' = Encode(object'))
    BY <2>1, Zenon
  <2>3. edits' = 0 => wire' = Encode(object)'
    BY <2>2 DEF WireInv
  <2> QED
    BY <1>1, <2>1, <2>3 DEF WireInv, WireObject
<1> QED
  BY <1>3, <1>4, <1>5, <1>6 DEF Next

THEOREM WireInvariance == Spec => []WireInv
  BY WireInitInv, WireNextInv, PTL DEF Spec

\* What any encoder emits decodes to the object it came from and to no object
\* of another format, for every object the constructors admit.
THEOREM EncodedDecodes == Spec => []RoundTrip
<1>1. WireInv => RoundTrip
  BY EncodeDecodes DEF WireInv, RoundTrip
<1> QED
  BY <1>1, WireInvariance, PTL

LEMMA AnyWireCanonical == wire \in Seq(Nat) => OneEncoding
<1> SUFFICES ASSUME wire \in Seq(Nat) PROVE OneEncoding
  OBVIOUS
<1>1. ASSUME NEW p \in FrameDecodePrefix(wire)
      PROVE  p.frame.type = "frame" /\ FrameEncode(p.frame) = SubSeq(wire, 1, p.consumed)
  <2>1. p.frame.type = "frame"
    BY DEF FrameDecodePrefix
  <2> QED
    BY <2>1, FrameCanonical
<1>2. ASSUME NEW o \in FrameDecode(wire) PROVE Encode(o) = wire
  <2>1. PICK p \in FrameDecodePrefix(wire) : o = p.frame /\ p.consumed = Len(wire)
    BY DEF FrameDecode
  <2>2. FrameEncode(o) = SubSeq(wire, 1, Len(wire)) /\ o.type = "frame"
    BY <1>1, <2>1
  <2> QED
    BY <2>2, SubSeqFull DEF Encode
<1>3. ASSUME NEW o \in HandshakeDecode(wire) PROVE Encode(o) = wire
  <2>1. o.type = "message"
    BY DEF HandshakeDecode
  <2> QED
    BY <2>1, HandshakeCanonical DEF Encode
<1>4. ASSUME NEW o \in BundleDecode(wire) PROVE Encode(o) = wire
  <2>1. o.type = "bundle"
    BY DEF BundleDecode
  <2> QED
    BY <2>1, BundleCanonical DEF Encode
<1>5. ASSUME NEW o \in HybridMessageDecode(wire) PROVE Encode(o) = wire
  BY HybridMessageCanonical DEF Encode
<1>6. ASSUME NEW o \in HybridBundleDecode(wire) PROVE Encode(o) = wire
  BY HybridBundleCanonical DEF Encode
<1> QED
  BY <1>1, <1>2, <1>3, <1>4, <1>5, <1>6 DEF OneEncoding, Decodings

\* After any number of alterations, every decoder accepts only the encoding of
\* what it returns: nothing that was received escapes the transcript.
THEOREM AcceptedIsCanonical == Spec => []OneEncoding
<1>1. WireInv => OneEncoding
  BY AnyWireCanonical DEF WireInv
<1> QED
  BY <1>1, WireInvariance, PTL

LEMMA VerifiedIsSigned == wire \in Seq(Nat) => HybridBundleIntact
<1> SUFFICES ASSUME wire \in Seq(Nat), NEW b \in HybridBundleDecode(wire)
             PROVE  wire = HybridBundleEncode(object)
  BY DEF HybridBundleIntact
<1>1. /\ HybridBundleEncode(b) = wire
      /\ SignatureVerifies(binding_transcript(b.classical, b.pq_public), b.pq_signature)
  BY HybridBundleCanonical
<1>2. /\ b.pq_signature = object.pq_signature
      /\ <<BundleEncode(b.classical), b.pq_public>>
         = <<BundleEncode(object.classical), object.pq_public>>
  BY <1>1 DEF SignatureVerifies, binding_transcript
<1>3. BundleEncode(b.classical) = BundleEncode(object.classical) /\ b.pq_public = object.pq_public
  BY <1>2
<1> QED
  BY <1>1, <1>2, <1>3 DEF HybridBundleEncode

\* A hybrid bundle that verifies was received exactly as it was signed, its
\* one-time prekey included, although only a fresh encoding is verified.
THEOREM SignedBundleIntact == Spec => []HybridBundleIntact
<1>1. WireInv => HybridBundleIntact
  BY VerifiedIsSigned DEF WireInv
<1> QED
  BY <1>1, WireInvariance, PTL

============================================================================
