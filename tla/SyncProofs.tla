----------------------------- MODULE SyncProofs -----------------------------
(***************************************************************************)
(* Proofs that the two ends of a ratchet stay in step, for every value of  *)
(* the constants: nothing is lost within a chain and, as long as there was *)
(* at most one explicit rotation, what is sent next can be opened and      *)
(* losses within the limit of the skipped-key store are tolerated.         *)
(***************************************************************************)
EXTENDS RatchetProofs, FiniteSetTheorems

----------------------------------------------------------------------------
(* What each step does to the parts SyncInv speaks of.                     *)

\* The receiving half of d's state is the same after the step.
SameReceiving(d) ==
    /\ ratchet'[d].remote_dh = ratchet[d].remote_dh
    /\ ratchet'[d].receiving_chain = ratchet[d].receiving_chain
    /\ ratchet'[d].receiving_count = ratchet[d].receiving_count
    /\ ratchet'[d].skipped = ratchet[d].skipped

\* So are d's keys, and its sending chain up to the position.
SameSending(d) ==
    /\ ratchet'[d].root_key = ratchet[d].root_key
    /\ ratchet'[d].dh_pair = ratchet[d].dh_pair
    /\ ratchet'[d].suite = ratchet[d].suite
    /\ ratchet'[d].previous_sending_chain_len = ratchet[d].previous_sending_chain_len
    /\ SameChain(ratchet'[d].sending_chain, ratchet[d].sending_chain)

\* Only e takes part in the step.
OnlyAt(e) ==
    \A d \in Role : d # e => ratchet'[d] = ratchet[d] /\ delivered'[d] = delivered[d]

LEMMA OthersSame ==
    ASSUME NEW e \in Role, OnlyAt(e), NEW d \in Role, d # e
    PROVE  /\ ratchet'[d] = ratchet[d] /\ delivered'[d] = delivered[d]
           /\ SameReceiving(d) /\ SameSending(d)
           /\ ratchet'[d].sending_count = ratchet[d].sending_count
  BY DEF OnlyAt, SameReceiving, SameSending, SameChain

LEMMA EncryptFacts ==
    ASSUME RatchetInv, NEW e \in Role, Encrypt(e)
    PROVE  LET r == ratchet[e]
               g == Frame(r)
           IN  /\ r \in RatchetState /\ r.sending_count < COUNTER_MAX
               /\ net' = net \cup {g}
               /\ g \in InnerFrame
               /\ g.ratchet_public = r.dh_pair
               /\ g.message_number = r.sending_count
               /\ SameChain(g.key, r.sending_chain)
               /\ ratchet'[e].sending_count = r.sending_count + 1
               /\ SameReceiving(e) /\ SameSending(e)
               /\ OnlyAt(e)
               /\ delivered' = delivered /\ rotations' = rotations /\ generated' = generated
<1> DEFINE r == ratchet[e]
           g == Frame(r)
<1>1. TypeOK /\ r \in RatchetState
  BY DEF RatchetInv, TypeOK
<1>2. /\ r.sending_count < COUNTER_MAX
      /\ net' = net \cup {g}
      /\ ratchet' = [ratchet EXCEPT ![e] = AfterEncrypt(r)]
      /\ delivered' = delivered /\ rotations' = rotations /\ generated' = generated
  BY DEF Encrypt
<1>3. /\ ratchet'[e] = AfterEncrypt(r)
      /\ \A d \in Role : d # e => ratchet'[d] = ratchet[d]
  BY <1>1, <1>2 DEF TypeOK
<1>4. /\ g \in InnerFrame /\ g.ratchet_public = r.dh_pair
      /\ g.message_number = r.sending_count
      /\ g.key = KeyOf(r.sending_chain)
  BY <1>1, FrameFields
<1>5. /\ ratchet'[e].sending_chain = Advance(r.sending_chain, 1)
      /\ ratchet'[e].sending_count = r.sending_count + 1
      /\ ratchet'[e].suite = r.suite
      /\ ratchet'[e].root_key = r.root_key
      /\ ratchet'[e].dh_pair = r.dh_pair
      /\ ratchet'[e].remote_dh = r.remote_dh
      /\ ratchet'[e].receiving_count = r.receiving_count
      /\ ratchet'[e].previous_sending_chain_len = r.previous_sending_chain_len
      /\ ratchet'[e].skipped = r.skipped
      /\ ratchet'[e].receiving_chain = r.receiving_chain
  BY <1>1, <1>2, <1>3, EncryptFields
<1>6. r.sending_chain \in ChainKey /\ 1 \in Nat
  BY <1>1, StateTypes
<1> HIDE DEF r, g
<1>7. /\ SameChain(KeyOf(r.sending_chain), r.sending_chain)
      /\ SameChain(Advance(r.sending_chain, 1), r.sending_chain)
  BY <1>6, ScheduleTypes DEF SameChain
<1>8. SameReceiving(e) /\ SameSending(e)
  BY <1>5, <1>7 DEF SameReceiving, SameSending, r
<1>9. OnlyAt(e)
  BY <1>2, <1>3 DEF OnlyAt
<1> QED
  BY <1>1, <1>2, <1>4, <1>5, <1>7, <1>8, <1>9 DEF r, g

LEMMA ExhaustedFacts ==
    ASSUME RatchetInv, NEW e \in Role, EncryptExhausted(e)
    PROVE  /\ net' = net
           /\ ratchet'[e].sending_count = ratchet[e].sending_count
           /\ SameReceiving(e) /\ SameSending(e)
           /\ OnlyAt(e)
           /\ delivered' = delivered /\ rotations' = rotations /\ generated' = generated
<1> DEFINE r == ratchet[e]
<1>1. TypeOK /\ r \in RatchetState
  BY DEF RatchetInv, TypeOK
<1>2. /\ ratchet' = [ratchet EXCEPT ![e] = [r EXCEPT !.sending_chain = Advance(@, 1)]]
      /\ net' = net /\ delivered' = delivered
      /\ rotations' = rotations /\ generated' = generated
  BY DEF EncryptExhausted
<1>3. /\ ratchet'[e] = [r EXCEPT !.sending_chain = Advance(@, 1)]
      /\ \A d \in Role : d # e => ratchet'[d] = ratchet[d]
  BY <1>1, <1>2 DEF TypeOK
<1>4. /\ ratchet'[e].sending_chain = Advance(r.sending_chain, 1)
      /\ ratchet'[e].sending_count = r.sending_count
      /\ ratchet'[e].suite = r.suite
      /\ ratchet'[e].root_key = r.root_key
      /\ ratchet'[e].dh_pair = r.dh_pair
      /\ ratchet'[e].remote_dh = r.remote_dh
      /\ ratchet'[e].receiving_count = r.receiving_count
      /\ ratchet'[e].previous_sending_chain_len = r.previous_sending_chain_len
      /\ ratchet'[e].skipped = r.skipped
      /\ ratchet'[e].receiving_chain = r.receiving_chain
  BY <1>1, <1>3, ExhaustedFields
<1>5. r.sending_chain \in ChainKey /\ 1 \in Nat
  BY <1>1, StateTypes
<1> HIDE DEF r
<1>6. SameChain(Advance(r.sending_chain, 1), r.sending_chain)
  BY <1>5, ScheduleTypes DEF SameChain
<1>7. SameReceiving(e) /\ SameSending(e)
  BY <1>4, <1>6 DEF SameReceiving, SameSending, r
<1>8. OnlyAt(e)
  BY <1>2, <1>3 DEF OnlyAt
<1> QED
  BY <1>2, <1>4, <1>7, <1>8 DEF r

LEMMA RotationFacts ==
    ASSUME RatchetInv, NEW e \in Role, RotateSendingRatchet(e)
    PROVE  LET r == ratchet[e]
               k == generate(e)
               dh == diffie_hellman(k, r.remote_dh)
           IN  /\ k \in DhKey
               /\ Owner(k) = e
               /\ \A y : KnownKey(y) => y # k
               /\ ratchet'[e].dh_pair = k
               /\ ratchet'[e].root_key = next_root(r.root_key, dh)
               /\ ratchet'[e].sending_chain = root_chain(r.root_key, dh)
               /\ ratchet'[e].sending_count = 0
               /\ ratchet'[e].previous_sending_chain_len = r.sending_count
               /\ ratchet'[e].suite = r.suite
               /\ SameReceiving(e)
               /\ OnlyAt(e)
               /\ net' = net /\ delivered' = delivered /\ rotations' = rotations + 1
<1> DEFINE r == ratchet[e]
           k == generate(e)
<1>1. TypeOK /\ r \in RatchetState /\ generated[e] \in Nat
  BY DEF RatchetInv, TypeOK
<1>2. k \in DhKey /\ Owner(k) = e /\ k[1] = e /\ k[2] = generated[e] + 1
  BY <1>1 DEF generate, DhKey, Owner
<1>3. ASSUME NEW y, KnownKey(y), y = k PROVE FALSE
  BY <1>1, <1>2, <1>3 DEF KnownKey
<1>4. /\ ratchet' = [ratchet EXCEPT ![e] = AfterRotation(r, k)]
      /\ net' = net /\ delivered' = delivered /\ rotations' = rotations + 1
  BY DEF RotateSendingRatchet
<1>5. /\ ratchet'[e] = AfterRotation(r, k)
      /\ \A d \in Role : d # e => ratchet'[d] = ratchet[d]
  BY <1>1, <1>4 DEF TypeOK
<1> HIDE DEF k, r
<1>6. /\ ratchet'[e].dh_pair = k
      /\ ratchet'[e].root_key = next_root(r.root_key, diffie_hellman(k, r.remote_dh))
      /\ ratchet'[e].sending_chain = root_chain(r.root_key, diffie_hellman(k, r.remote_dh))
      /\ ratchet'[e].sending_count = 0
      /\ ratchet'[e].previous_sending_chain_len = r.sending_count
      /\ ratchet'[e].suite = r.suite
      /\ ratchet'[e].remote_dh = r.remote_dh
      /\ ratchet'[e].receiving_count = r.receiving_count
      /\ ratchet'[e].receiving_chain = r.receiving_chain
      /\ ratchet'[e].skipped = r.skipped
  BY <1>1, <1>2, <1>5, RotationFields
<1>7. SameReceiving(e)
  BY <1>6 DEF SameReceiving, r
<1>8. OnlyAt(e)
  BY <1>4, <1>5 DEF OnlyAt
<1> QED
  BY <1>2, <1>3, <1>4, <1>6, <1>7, <1>8 DEF k, r

LEMMA SkippedFacts ==
    ASSUME RatchetInv, NEW e \in Role, NEW f \in Arrivals, DecryptSkipped(e, f)
    PROVE  /\ f \in net /\ f \in InnerFrame
           /\ f.ratchet_public = ratchet[e].remote_dh
           /\ \E i \in 1..Len(ratchet[e].skipped) :
                /\ ratchet[e].skipped[i].remote_dh = f.ratchet_public
                /\ ratchet[e].skipped[i].message_number = f.message_number
                /\ ratchet'[e].skipped = RemoveAt(ratchet[e].skipped, i)
           /\ ratchet'[e].remote_dh = ratchet[e].remote_dh
           /\ ratchet'[e].receiving_chain = ratchet[e].receiving_chain
           /\ ratchet'[e].receiving_count = ratchet[e].receiving_count
           /\ ratchet'[e].sending_count = ratchet[e].sending_count
           /\ SameSending(e)
           /\ OnlyAt(e)
           /\ delivered'[e] = delivered[e] \cup {f}
           /\ net' = net /\ rotations' = rotations /\ generated' = generated
<1> DEFINE r == ratchet[e]
<1>1. TypeOK /\ r \in RatchetState
  BY DEF RatchetInv, TypeOK
<1>2. PICK i \in 1..Len(r.skipped) :
        OpensSkipped(r, f, i) /\ ratchet' = [ratchet EXCEPT ![e] = AfterSkipped(r, i)]
  BY DEF DecryptSkipped
<1>3. /\ f \in net /\ f \in InnerFrame
      /\ f.ratchet_public = r.remote_dh
      /\ r.skipped[i].remote_dh = f.ratchet_public
      /\ r.skipped[i].message_number = f.message_number
  BY <1>1, <1>2, ArrivalIntact DEF OpensSkipped, Position, Opens
<1>4. /\ delivered' = [delivered EXCEPT ![e] = @ \cup {f}]
      /\ net' = net /\ rotations' = rotations /\ generated' = generated
  BY DEF DecryptSkipped, Return
<1>5. /\ ratchet'[e] = AfterSkipped(r, i)
      /\ delivered'[e] = delivered[e] \cup {f}
      /\ \A d \in Role : d # e => ratchet'[d] = ratchet[d] /\ delivered'[d] = delivered[d]
  BY <1>1, <1>2, <1>4 DEF TypeOK
<1> HIDE DEF r
<1>6. /\ ratchet'[e].skipped = RemoveAt(r.skipped, i)
      /\ ratchet'[e].suite = r.suite
      /\ ratchet'[e].root_key = r.root_key
      /\ ratchet'[e].sending_chain = r.sending_chain
      /\ ratchet'[e].sending_count = r.sending_count
      /\ ratchet'[e].previous_sending_chain_len = r.previous_sending_chain_len
      /\ ratchet'[e].dh_pair = r.dh_pair
      /\ ratchet'[e].remote_dh = r.remote_dh
      /\ ratchet'[e].receiving_count = r.receiving_count
      /\ ratchet'[e].receiving_chain = r.receiving_chain
  BY <1>1, <1>5, SkippedFields
<1>7. SameSending(e)
  BY <1>6 DEF SameSending, SameChain, r
<1>8. OnlyAt(e)
  BY <1>5 DEF OnlyAt
<1> QED
  BY <1>3, <1>4, <1>5, <1>6, <1>7, <1>8 DEF r

LEMMA SameRatchetFacts ==
    ASSUME RatchetInv, NEW e \in Role, NEW f \in Arrivals, DecryptSameRatchet(e, f)
    PROVE  LET r == ratchet[e]
           IN  /\ f \in net /\ f \in InnerFrame
               /\ f.ratchet_public = r.remote_dh
               /\ r.receiving_count <= f.message_number
               /\ ratchet'[e].skipped = r.skipped \o
                    derive_range(r.remote_dh, r.receiving_chain,
                                 r.receiving_count, f.message_number)
               /\ ratchet'[e].remote_dh = r.remote_dh
               /\ ratchet'[e].receiving_chain =
                    Advance(r.receiving_chain, f.message_number - r.receiving_count + 1)
               /\ ratchet'[e].receiving_count = f.message_number + 1
               /\ ratchet'[e].sending_count = r.sending_count
               /\ SameSending(e)
               /\ OnlyAt(e)
               /\ delivered'[e] = delivered[e] \cup {f}
               /\ net' = net /\ rotations' = rotations /\ generated' = generated
<1> DEFINE r == ratchet[e]
           n == AfterSameRatchet(r, f)
<1>1. TypeOK /\ r \in RatchetState
  BY DEF RatchetInv, TypeOK
<1>2. /\ f \in net /\ f \in InnerFrame
      /\ f.ratchet_public = r.remote_dh
      /\ r.receiving_count <= f.message_number
      /\ ratchet' = [ratchet EXCEPT ![e] = n]
      /\ net' = net /\ rotations' = rotations /\ generated' = generated
  BY <1>1, ArrivalIntact DEF DecryptSameRatchet, OpensSameRatchet, Opens, RangeAllowed
<1>3. f.message_number < COUNTER_MAX /\ f.message_number \in Nat
  BY <1>2, FrameTypes DEF RatchetInv, FrameInv
<1>4. delivered' = [delivered EXCEPT ![e] = @ \cup {f}]
  <2>1. f.message_number # COUNTER_MAX
    BY <1>3, LimitsAssumption
  <2> QED
    BY <2>1 DEF DecryptSameRatchet, ReturnUnlessExhausted, Return
<1>5. /\ ratchet'[e] = n
      /\ delivered'[e] = delivered[e] \cup {f}
      /\ \A d \in Role : d # e => ratchet'[d] = ratchet[d] /\ delivered'[d] = delivered[d]
  BY <1>1, <1>2, <1>4 DEF TypeOK
<1>6. /\ n.skipped = r.skipped \o
            derive_range(r.remote_dh, r.receiving_chain, r.receiving_count, f.message_number)
      /\ n.receiving_count = f.message_number + 1
      /\ n.suite = r.suite
      /\ n.root_key = r.root_key
      /\ n.sending_chain = r.sending_chain
      /\ n.sending_count = r.sending_count
      /\ n.previous_sending_chain_len = r.previous_sending_chain_len
      /\ n.dh_pair = r.dh_pair
      /\ n.remote_dh = r.remote_dh
      /\ n.receiving_chain =
           Advance(r.receiving_chain, f.message_number - r.receiving_count + 1)
  BY <1>1, <1>2, <1>3, SameRatchetFields
<1> HIDE DEF r, n
<1>7. SameSending(e)
  BY <1>5, <1>6 DEF SameSending, SameChain, r
<1>8. OnlyAt(e)
  BY <1>5 DEF OnlyAt
<1> QED
  BY <1>2, <1>5, <1>6, <1>7, <1>8 DEF r

LEMMA NewRatchetFacts ==
    ASSUME RatchetInv, NEW e \in Role, NEW f \in Arrivals, DecryptNewRatchet(e, f)
    PROVE  LET r == ratchet[e]
               k == generate(e)
               dh == diffie_hellman(r.dh_pair, f.ratchet_public)
               dh_send == diffie_hellman(k, f.ratchet_public)
           IN  /\ f \in net /\ f \in InnerFrame
               /\ OpensNewRatchet(r, f)
               /\ r.receiving_count <= f.previous_chain_len
               /\ k \in DhKey /\ Owner(k) = e
               /\ \A y : KnownKey(y) => y # k
               /\ ratchet'[e].skipped =
                    (r.skipped \o derive_range(r.remote_dh, r.receiving_chain,
                                     r.receiving_count, f.previous_chain_len))
                      \o derive_range(f.ratchet_public, root_chain(r.root_key, dh),
                                     0, f.message_number)
               /\ ratchet'[e].dh_pair = k
               /\ ratchet'[e].remote_dh = f.ratchet_public
               /\ ratchet'[e].root_key = next_root(next_root(r.root_key, dh), dh_send)
               /\ ratchet'[e].sending_chain = root_chain(next_root(r.root_key, dh), dh_send)
               /\ ratchet'[e].receiving_chain =
                    Advance(root_chain(r.root_key, dh), f.message_number + 1)
               /\ ratchet'[e].receiving_count = f.message_number + 1
               /\ ratchet'[e].sending_count = 0
               /\ ratchet'[e].suite = r.suite
               /\ ratchet'[e].previous_sending_chain_len = r.sending_count
               /\ OnlyAt(e)
               /\ delivered'[e] = delivered[e] \cup {f}
               /\ net' = net /\ rotations' = rotations
<1> DEFINE r == ratchet[e]
           k == generate(e)
           n == AfterNewRatchet(r, f, k)
<1>1. TypeOK /\ r \in RatchetState /\ generated[e] \in Nat
  BY DEF RatchetInv, TypeOK
<1>2. k \in DhKey /\ Owner(k) = e /\ k[1] = e /\ k[2] = generated[e] + 1
  BY <1>1 DEF generate, DhKey, Owner
<1>3. ASSUME NEW y, KnownKey(y), y = k PROVE FALSE
  BY <1>1, <1>2, <1>3 DEF KnownKey
<1>4. /\ OpensNewRatchet(r, f)
      /\ ratchet' = [ratchet EXCEPT ![e] = n]
      /\ net' = net /\ rotations' = rotations
  BY DEF DecryptNewRatchet
<1>5. /\ f \in net /\ f \in InnerFrame
      /\ r.receiving_count <= f.previous_chain_len
  BY <1>1, <1>4, ArrivalIntact DEF OpensNewRatchet, Opens, RangeAllowed
<1>6. f.message_number < COUNTER_MAX /\ f.message_number \in Nat
  BY <1>5, FrameTypes DEF RatchetInv, FrameInv
<1>7. delivered' = [delivered EXCEPT ![e] = @ \cup {f}]
  <2>1. f.message_number # COUNTER_MAX
    BY <1>6, LimitsAssumption
  <2> QED
    BY <2>1 DEF DecryptNewRatchet, ReturnUnlessExhausted, Return
<1>8. /\ ratchet'[e] = n
      /\ delivered'[e] = delivered[e] \cup {f}
      /\ \A d \in Role : d # e => ratchet'[d] = ratchet[d] /\ delivered'[d] = delivered[d]
  BY <1>1, <1>4, <1>7 DEF TypeOK
<1>9. OnlyAt(e)
  BY <1>8 DEF OnlyAt
<1> HIDE DEF r, k
<1> DEFINE dh == diffie_hellman(r.dh_pair, f.ratchet_public)
           dh_send == diffie_hellman(k, f.ratchet_public)
<1>10. /\ n.skipped =
            (r.skipped \o derive_range(r.remote_dh, r.receiving_chain,
                             r.receiving_count, f.previous_chain_len))
              \o derive_range(f.ratchet_public, root_chain(r.root_key, dh),
                             0, f.message_number)
       /\ n.root_key = next_root(next_root(r.root_key, dh), dh_send)
       /\ n.sending_chain = root_chain(next_root(r.root_key, dh), dh_send)
       /\ n.dh_pair = k
       /\ n.remote_dh = f.ratchet_public
       /\ n.sending_count = 0
       /\ n.receiving_count = f.message_number + 1
       /\ n.receiving_chain = Advance(root_chain(r.root_key, dh), f.message_number + 1)
       /\ n.suite = r.suite
       /\ n.previous_sending_chain_len = r.sending_count
  BY <1>1, <1>2, <1>5, <1>6, NewRatchetFields
<1> HIDE DEF n
<1> QED
  BY <1>2, <1>3, <1>4, <1>5, <1>8, <1>9, <1>10 DEF r, k

----------------------------------------------------------------------------
(* Nothing is lost within a chain.                                         *)

\* An endpoint that does not receive: its peer either keeps its key and chain
\* or has left the key the endpoint receives on.
LEMMA ReceivesKept ==
    ASSUME NEW d \in Role, Receives(d), SameReceiving(d), delivered'[d] = delivered[d],
           ratchet[d].receiving_count \in Nat,
           ratchet[Peer(d)].sending_count \in Nat,
           ratchet'[Peer(d)].sending_count \in Nat,
           \A f \in net' :
              f \in net \/ (f.ratchet_public = ratchet[d].remote_dh
                              => SameChain(f.key, ratchet[d].receiving_chain)),
           ratchet'[Peer(d)].dh_pair = ratchet[d].remote_dh
              => /\ ratchet[Peer(d)].dh_pair = ratchet[d].remote_dh
                 /\ SameChain(ratchet'[Peer(d)].sending_chain, ratchet[Peer(d)].sending_chain)
                 /\ ratchet[Peer(d)].sending_count <= ratchet'[Peer(d)].sending_count
    PROVE  Receives(d)'
<1>1. \A n : Returned(d, n) => Returned(d, n)'
  BY DEF Returned, SameReceiving
<1>2. \A n : Kept(d, n) => Kept(d, n)'
  BY DEF Kept, SameReceiving
<1>3. ratchet'[d].receiving_chain.pos = ratchet'[d].receiving_count
  BY DEF Receives, SameReceiving
<1>4. \A f \in net' : f.ratchet_public = ratchet'[d].remote_dh
                        => SameChain(f.key, ratchet'[d].receiving_chain)
  BY DEF Receives, SameReceiving
<1>5. ratchet'[Peer(d)].dh_pair = ratchet'[d].remote_dh
        => /\ SameChain(ratchet'[Peer(d)].sending_chain, ratchet'[d].receiving_chain)
           /\ ratchet'[d].receiving_count <= ratchet'[Peer(d)].sending_count
  BY DEF Receives, SameReceiving, SameChain
<1>6. \A i \in 1..Len(ratchet'[d].skipped) :
        ratchet'[d].skipped[i].remote_dh = ratchet'[d].remote_dh
          => ratchet'[d].skipped[i].key
               = KeyAt(ratchet'[d].receiving_chain, ratchet'[d].skipped[i].message_number)
  BY DEF Receives, SameReceiving
<1>7. \A n \in 0..(ratchet'[d].receiving_count - 1) : Returned(d, n)' \/ Kept(d, n)'
  BY <1>1, <1>2 DEF Receives, SameReceiving
<1> QED
  BY <1>3, <1>4, <1>5, <1>6, <1>7 DEF Receives

\* derive_range numbers the keys it takes from a chain by their position.
LEMMA RangeKeys ==
    ASSUME NEW k \in DhKey, NEW chain \in ChainKey, NEW start \in Nat, NEW end \in Nat,
           start <= end, chain.pos = start, NEW i \in 1..(end - start)
    PROVE  LET x == derive_range(k, chain, start, end)[i]
           IN  x.key = KeyAt(chain, x.message_number)
<1> DEFINE x == derive_range(k, chain, start, end)[i]
<1>1. i - 1 \in Nat
  OBVIOUS
<1>2. x.message_number = start + i - 1 /\ x.key = KeyOf(Advance(chain, i - 1))
  BY DEF derive_range
<1>3. /\ Advance(chain, i - 1).label = chain.label
      /\ Advance(chain, i - 1).root = chain.root
      /\ Advance(chain, i - 1).pos = chain.pos + (i - 1)
  BY <1>1, ScheduleTypes
<1> HIDE DEF x
<1>4. x.key = [label |-> chain.label, root |-> chain.root, index |-> start + (i - 1)]
  BY <1>2, <1>3 DEF KeyOf
<1> QED
  BY <1>1, <1>2, <1>4 DEF KeyAt, x

\* t is s followed by the keys of chain for the numbers start .. end - 1.
Appended(t, s, k, chain, start, end) ==
    /\ t \in Seq(SkippedMessageKey)
    /\ Len(t) = Len(s) + (end - start)
    /\ \A i \in 1..Len(s) : t[i] = s[i]
    /\ \A i \in (Len(s) + 1)..Len(t) :
         /\ t[i].remote_dh = k
         /\ t[i].message_number = start + (i - Len(s)) - 1
         /\ t[i].key = KeyAt(chain, t[i].message_number)

LEMMA AppendedKeys ==
    ASSUME NEW s \in Seq(SkippedMessageKey), NEW k \in DhKey, NEW chain \in ChainKey,
           NEW start \in Nat, NEW end \in Nat, start <= end, chain.pos = start
    PROVE  Appended(s \o derive_range(k, chain, start, end), s, k, chain, start, end)
<1> DEFINE d == derive_range(k, chain, start, end)
           t == s \o d
<1>1. /\ t \in Seq(SkippedMessageKey)
      /\ Len(s) \in Nat
      /\ Len(t) = Len(s) + (end - start)
      /\ \A i \in 1..Len(s) : t[i] = s[i]
      /\ \A i \in (Len(s) + 1)..Len(t) :
           /\ t[i].remote_dh = k
           /\ t[i].message_number = start + (i - Len(s)) - 1
  <2>1. Extends(t, s, k, start, end)
    BY AppendRange
  <2> HIDE DEF t
  <2> QED
    BY <2>1 DEF Extends
<1>2. d \in Seq(SkippedMessageKey) /\ Len(d) = end - start
  BY RangeType
<1>3. \A j \in 1..(end - start) : d[j].key = KeyAt(chain, d[j].message_number)
  BY RangeKeys
<1> HIDE DEF d
<1>4. ASSUME NEW i \in (Len(s) + 1)..Len(t) PROVE t[i] = d[i - Len(s)]
  <2>1. \A j \in 1..(Len(s) + Len(d)) :
          (s \o d)[j] = IF j <= Len(s) THEN s[j] ELSE d[j - Len(s)]
    BY <1>2, ConcatProperties
  <2>2. i \in 1..(Len(s) + Len(d)) /\ ~(i <= Len(s))
    BY ONLY <1>1, <1>2, i \in (Len(s) + 1)..Len(t)
  <2> QED
    BY <2>1, <2>2
<1> HIDE DEF t
<1>5. ASSUME NEW i \in (Len(s) + 1)..Len(t) PROVE t[i].key = KeyAt(chain, t[i].message_number)
  <2>1. i - Len(s) \in 1..(end - start)
    BY <1>1, <1>2
  <2> QED
    BY <2>1, <1>3, <1>4
<1>6. Appended(t, s, k, chain, start, end)
  BY <1>1, <1>5 DEF Appended
<1> QED
  BY <1>6 DEF t, d

LEMMA SkippedReceives ==
    ASSUME RatchetInv, NEW e \in Role, NEW f \in Arrivals, DecryptSkipped(e, f), Receives(e)
    PROVE  Receives(e)'
<1> DEFINE r == ratchet[e]
           p == ratchet[Peer(e)]
           s == r.skipped
           t == ratchet'[e].skipped
<1>1. /\ f \in net /\ f \in InnerFrame
      /\ f.ratchet_public = r.remote_dh
      /\ ratchet'[e].remote_dh = r.remote_dh
      /\ ratchet'[e].receiving_chain = r.receiving_chain
      /\ ratchet'[e].receiving_count = r.receiving_count
      /\ delivered'[e] = delivered[e] \cup {f}
      /\ net' = net
      /\ OnlyAt(e)
  BY SkippedFacts
<1>2. PICK i \in 1..Len(s) :
        /\ s[i].remote_dh = f.ratchet_public /\ s[i].message_number = f.message_number
        /\ t = RemoveAt(s, i)
  BY SkippedFacts
<1>3. s \in Seq(SkippedMessageKey) /\ Len(s) \in Nat
  BY StateTypes DEF RatchetInv, TypeOK
<1>4. /\ Len(t) = Len(s) - 1
      /\ \A j \in 1..(Len(s) - 1) : t[j] = IF j < i THEN s[j] ELSE s[j + 1]
  BY <1>2, <1>3, RemoveAtType
<1>5. ratchet'[Peer(e)] = p
  BY <1>1, Peers, OthersSame
<1> HIDE DEF r, p, s, t
<1>6. ASSUME NEW j \in 1..Len(t) PROVE \E m \in 1..Len(s) : t[j] = s[m]
  <2>1. CASE j < i
    BY <2>1, <1>2, <1>3, <1>4
  <2>2. CASE ~(j < i)
    <3>1. j + 1 \in 1..Len(s) /\ j \in 1..(Len(s) - 1)
      BY <1>3, <1>4
    <3> QED
      BY <2>2, <3>1, <1>4
  <2> QED
    BY <2>1, <2>2
<1>7. ASSUME NEW m \in 1..Len(s), m # i PROVE \E j \in 1..Len(t) : t[j] = s[m]
  <2>1. CASE m < i
    BY <2>1, <1>2, <1>3, <1>4
  <2>2. CASE m > i
    <3>1. m - 1 \in 1..(Len(s) - 1) /\ ~(m - 1 < i) /\ (m - 1) + 1 = m
      BY <2>2, <1>3
    <3> QED
      BY <3>1, <1>4
  <2> QED
    BY <2>1, <2>2, <1>7, <1>3
<1>8. \A j \in 1..Len(t) : t[j].remote_dh = r.remote_dh
        => t[j].key = KeyAt(r.receiving_chain, t[j].message_number)
  BY <1>6 DEF Receives, r, s
<1>9. ASSUME NEW n \in 0..(r.receiving_count - 1) PROVE Returned(e, n)' \/ Kept(e, n)'
  <2>1. Returned(e, n) \/ Kept(e, n)
    BY DEF Receives, r
  <2>2. CASE Returned(e, n)
    BY <2>2, <1>1 DEF Returned, r
  <2>3. CASE Kept(e, n)
    <3>1. PICK m \in 1..Len(s) : s[m].remote_dh = r.remote_dh /\ s[m].message_number = n
      BY <2>3 DEF Kept, r, s
    <3>2. CASE m = i
      BY <3>1, <3>2, <1>1, <1>2 DEF Returned, r
    <3>3. CASE m # i
      BY <3>1, <3>3, <1>1, <1>7 DEF Kept, r, t
    <3> QED
      BY <3>2, <3>3
  <2> QED
    BY <2>1, <2>2, <2>3
<1> QED
  BY <1>1, <1>5, <1>8, <1>9 DEF Receives, r, p, t

LEMMA SameRatchetReceives ==
    ASSUME RatchetInv, NEW e \in Role, NEW f \in Arrivals, DecryptSameRatchet(e, f), Receives(e)
    PROVE  Receives(e)'
<1> DEFINE r == ratchet[e]
           p == ratchet[Peer(e)]
           s == r.skipped
           t == ratchet'[e].skipped
           chain == ratchet'[e].receiving_chain
           m == f.message_number
           c == r.receiving_count
<1>1. /\ f \in net /\ f \in InnerFrame
      /\ f.ratchet_public = r.remote_dh
      /\ c <= m
      /\ t = s \o derive_range(r.remote_dh, r.receiving_chain, c, m)
      /\ ratchet'[e].remote_dh = r.remote_dh
      /\ chain = Advance(r.receiving_chain, m - c + 1)
      /\ ratchet'[e].receiving_count = m + 1
      /\ delivered'[e] = delivered[e] \cup {f}
      /\ net' = net
      /\ OnlyAt(e)
  BY SameRatchetFacts
<1>2. /\ s \in Seq(SkippedMessageKey) /\ Len(s) \in Nat
      /\ r.remote_dh \in DhKey /\ r.receiving_chain \in ChainKey /\ c \in Nat
  BY StateTypes DEF RatchetInv, TypeOK
<1>3. m \in Nat
  BY <1>1, FrameTypes
<1>4. r.receiving_chain.pos = c
  BY DEF Receives
<1>5. ratchet'[Peer(e)] = p
  BY <1>1, Peers, OthersSame
<1>6. f.ratchet_public = p.dh_pair => m < p.sending_count
  BY <1>1, Peers DEF RatchetInv, SendingInv
<1>7. p.sending_count \in Nat
  BY Peers, StateTypes DEF RatchetInv, TypeOK
<1> HIDE DEF r, p, s, t, chain, m, c
<1>8. /\ chain.pos = m + 1
      /\ chain.label = r.receiving_chain.label
      /\ chain.root = r.receiving_chain.root
  <2>1. m - c + 1 \in Nat
    BY <1>1, <1>2, <1>3
  <2>2. chain.pos = r.receiving_chain.pos + (m - c + 1)
    BY <2>1, <1>1, <1>2, ScheduleTypes
  <2>3. r.receiving_chain.pos + (m - c + 1) = m + 1
    BY <1>2, <1>3, <1>4
  <2> QED
    BY <2>1, <2>2, <2>3, <1>1, <1>2, ScheduleTypes
<1>9. /\ Len(t) = Len(s) + (m - c)
      /\ \A i \in 1..Len(s) : t[i] = s[i]
      /\ \A i \in (Len(s) + 1)..Len(t) :
           /\ t[i].remote_dh = r.remote_dh
           /\ t[i].message_number = c + (i - Len(s)) - 1
           /\ t[i].key = KeyAt(r.receiving_chain, t[i].message_number)
  <2>1. Appended(t, s, r.remote_dh, r.receiving_chain, c, m)
    BY <1>1, <1>2, <1>3, <1>4, AppendedKeys
  <2> QED
    BY <2>1 DEF Appended
<1>10. \A n : KeyAt(chain, n) = KeyAt(r.receiving_chain, n)
  BY <1>8 DEF KeyAt
<1>11. ASSUME NEW i \in 1..Len(t), t[i].remote_dh = r.remote_dh
       PROVE  t[i].key = KeyAt(chain, t[i].message_number)
  <2>1. i \in 1..Len(s) \/ i \in (Len(s) + 1)..Len(t)
    BY <1>1, <1>2, <1>3, <1>9
  <2>2. \A j \in 1..Len(s) : s[j].remote_dh = r.remote_dh
          => s[j].key = KeyAt(r.receiving_chain, s[j].message_number)
    BY DEF Receives, r, s
  <2> QED
    BY <2>1, <2>2, <1>9, <1>10, <1>11
<1>12. ASSUME NEW n \in 0..m PROVE Returned(e, n)' \/ Kept(e, n)'
  <2>1. CASE n < c
    <3>1. Returned(e, n) \/ Kept(e, n)
      BY <2>1, <1>2 DEF Receives, r, c
    <3>2. CASE Returned(e, n)
      BY <3>2, <1>1 DEF Returned, r
    <3>3. CASE Kept(e, n)
      <4>1. PICK i \in 1..Len(s) : s[i].remote_dh = r.remote_dh /\ s[i].message_number = n
        BY <3>3 DEF Kept, r, s
      <4>2. i \in 1..Len(t) /\ t[i] = s[i]
        BY <1>1, <1>2, <1>3, <1>9
      <4> QED
        BY <4>1, <4>2, <1>1 DEF Kept, t
    <3> QED
      BY <3>1, <3>2, <3>3
  <2>2. CASE c <= n /\ n < m
    <3> DEFINE i == Len(s) + (n - c) + 1
    <3>1. i \in (Len(s) + 1)..Len(t) /\ i \in 1..Len(t) /\ c + (i - Len(s)) - 1 = n
      BY <2>2, <1>2, <1>3, <1>9
    <3> HIDE DEF i
    <3>2. t[i].remote_dh = r.remote_dh /\ t[i].message_number = n
      BY <3>1, <1>9
    <3> QED
      BY <3>1, <3>2, <1>1 DEF Kept, t
  <2>3. CASE n = m
    BY <2>3, <1>1 DEF Returned, m
  <2> QED
    BY <2>1, <2>2, <2>3, <1>2, <1>3
<1>14. \A g \in net' : g.ratchet_public = r.remote_dh => SameChain(g.key, chain)
  BY <1>1, <1>8 DEF Receives, SameChain, r
<1>15. p.dh_pair = r.remote_dh
         => SameChain(p.sending_chain, chain) /\ m + 1 <= p.sending_count
  <2> SUFFICES ASSUME p.dh_pair = r.remote_dh
               PROVE  SameChain(p.sending_chain, chain) /\ m + 1 <= p.sending_count
    OBVIOUS
  <2>1. SameChain(p.sending_chain, r.receiving_chain)
    BY DEF Receives, p, r
  <2>2. m + 1 <= p.sending_count
    BY <1>1, <1>3, <1>6, <1>7
  <2> QED
    BY <2>1, <2>2, <1>8 DEF SameChain
<1> QED
  <2>1. ratchet'[e].receiving_chain.pos = ratchet'[e].receiving_count
    BY <1>1, <1>8 DEF chain
  <2>2. \A g \in net' : g.ratchet_public = ratchet'[e].remote_dh
                          => SameChain(g.key, ratchet'[e].receiving_chain)
    BY <1>1, <1>14 DEF chain
  <2>3. ratchet'[Peer(e)].dh_pair = ratchet'[e].remote_dh
          => /\ SameChain(ratchet'[Peer(e)].sending_chain, ratchet'[e].receiving_chain)
             /\ ratchet'[e].receiving_count <= ratchet'[Peer(e)].sending_count
    BY <1>1, <1>5, <1>15 DEF chain
  <2>4. \A i \in 1..Len(ratchet'[e].skipped) :
          ratchet'[e].skipped[i].remote_dh = ratchet'[e].remote_dh
            => ratchet'[e].skipped[i].key
                 = KeyAt(ratchet'[e].receiving_chain, ratchet'[e].skipped[i].message_number)
    BY <1>1, <1>11 DEF t, chain
  <2>5. ASSUME NEW n \in 0..(ratchet'[e].receiving_count - 1)
        PROVE  Returned(e, n)' \/ Kept(e, n)'
    <3>1. n \in 0..m
      BY <1>1, <1>3
    <3> QED
      BY <3>1, <1>12
  <2> QED
    BY <2>1, <2>2, <2>3, <2>4, <2>5 DEF Receives

\* The frame that starts a new ratchet belongs to the chain it starts.
LEMMA NewRatchetChain ==
    ASSUME RatchetInv, NEW e \in Role, NEW f \in net, OpensNewRatchet(ratchet[e], f)
    PROVE  LET r == ratchet[e]
               chain == root_chain(r.root_key, diffie_hellman(r.dh_pair, f.ratchet_public))
           IN  /\ chain \in ChainKey /\ chain.pos = 0
               /\ SameChain(f.key, chain)
               /\ \A g \in net : g.ratchet_public = f.ratchet_public => SameChain(g.key, chain)
               /\ ratchet[Peer(e)].dh_pair = f.ratchet_public
                    => /\ SameChain(ratchet[Peer(e)].sending_chain, chain)
                       /\ f.message_number < ratchet[Peer(e)].sending_count
<1> DEFINE r == ratchet[e]
           chain == root_chain(r.root_key, diffie_hellman(r.dh_pair, f.ratchet_public))
<1>1. r \in RatchetState /\ f \in InnerFrame
  BY DEF RatchetInv, TypeOK
<1>2. /\ r.dh_pair \in DhKey /\ r.root_key \in RootKey
      /\ f.ratchet_public \in DhKey /\ f.message_number \in Nat
  BY <1>1, StateTypes, FrameTypes
<1>3. chain \in ChainKey /\ chain.pos = 0
  BY <1>2, RootTypes
<1>4. f.key = KeyOf(Advance(chain, f.message_number))
  BY DEF OpensNewRatchet, Opens
<1> HIDE DEF chain, r
<1>5. SameChain(f.key, chain)
  <2>1. /\ Advance(chain, f.message_number) \in ChainKey
        /\ Advance(chain, f.message_number).root = chain.root
        /\ Advance(chain, f.message_number).label = chain.label
    BY <1>2, <1>3, ScheduleTypes
  <2> QED
    BY <2>1, <1>4, ScheduleTypes DEF SameChain
<1>6. ASSUME NEW g \in net, g.ratchet_public = f.ratchet_public PROVE SameChain(g.key, chain)
  <2>1. SameChain(g.key, f.key)
    BY <1>6 DEF RatchetInv, ChainInv
  <2> QED
    BY <2>1, <1>5 DEF SameChain
<1>7. ASSUME ratchet[Peer(e)].dh_pair = f.ratchet_public
      PROVE  /\ SameChain(ratchet[Peer(e)].sending_chain, chain)
             /\ f.message_number < ratchet[Peer(e)].sending_count
  <2>1. /\ SameChain(f.key, ratchet[Peer(e)].sending_chain)
        /\ f.message_number < ratchet[Peer(e)].sending_count
    BY <1>7, Peers DEF RatchetInv, SendingInv
  <2> QED
    BY <2>1, <1>5 DEF SameChain
<1> QED
  BY <1>3, <1>5, <1>6, <1>7 DEF chain, r

LEMMA NewRatchetReceives ==
    ASSUME RatchetInv, NEW e \in Role, NEW f \in Arrivals, DecryptNewRatchet(e, f), Receives(e)
    PROVE  Receives(e)'
<1> DEFINE r == ratchet[e]
           p == ratchet[Peer(e)]
           start == root_chain(r.root_key, diffie_hellman(r.dh_pair, f.ratchet_public))
           s == r.skipped
           u == s \o derive_range(r.remote_dh, r.receiving_chain,
                                 r.receiving_count, f.previous_chain_len)
           t == ratchet'[e].skipped
           chain == ratchet'[e].receiving_chain
           m == f.message_number
           k == f.ratchet_public
<1>1. /\ f \in net /\ f \in InnerFrame
      /\ OpensNewRatchet(r, f)
      /\ r.receiving_count <= f.previous_chain_len
      /\ t = u \o derive_range(k, start, 0, m)
      /\ ratchet'[e].remote_dh = k
      /\ chain = Advance(start, m + 1)
      /\ ratchet'[e].receiving_count = m + 1
      /\ delivered'[e] = delivered[e] \cup {f}
      /\ net' = net
      /\ OnlyAt(e)
  BY NewRatchetFacts
<1>2. /\ s \in Seq(SkippedMessageKey) /\ Len(s) \in Nat
      /\ r.remote_dh \in DhKey /\ r.receiving_chain \in ChainKey /\ r.receiving_count \in Nat
  BY StateTypes DEF RatchetInv, TypeOK
<1>3. m \in Nat /\ f.previous_chain_len \in Nat /\ k \in DhKey
  BY <1>1, FrameTypes
<1>4. ratchet'[Peer(e)] = p
  BY <1>1, Peers, OthersSame
<1>5. /\ start \in ChainKey /\ start.pos = 0
      /\ \A g \in net : g.ratchet_public = k => SameChain(g.key, start)
      /\ p.dh_pair = k => SameChain(p.sending_chain, start) /\ m < p.sending_count
  BY <1>1, NewRatchetChain
<1>6. \A y : Passed(e, y) => y # k
  BY <1>1, InvParts, NewRatchetFrame
<1>7. p.sending_count \in Nat
  BY Peers, StateTypes DEF RatchetInv, TypeOK
<1>8. /\ r.remote_dh # k
      /\ \A i \in 1..Len(s) : s[i].remote_dh # k
  BY <1>6 DEF RatchetInv, SkippedInv
<1>9. Extends(u, s, r.remote_dh, r.receiving_count, f.previous_chain_len)
  BY <1>1, <1>2, <1>3, AppendRange
<1> HIDE DEF r, p, s, t, u, chain, start, m, k
<1>10. /\ u \in Seq(SkippedMessageKey) /\ Len(u) \in Nat
       /\ \A i \in 1..Len(u) : u[i].remote_dh # k
  <2>1. u \in Seq(SkippedMessageKey) /\ Len(u) \in Nat
    BY <1>9 DEF Extends
  <2>2. ASSUME NEW i \in 1..Len(u) PROVE u[i].remote_dh # k
    <3>1. i \in 1..Len(s) \/ i \in (Len(s) + 1)..Len(u)
      BY <2>1, <1>2
    <3> QED
      BY <3>1, <1>8, <1>9 DEF Extends
  <2> QED
    BY <2>1, <2>2
<1>11. /\ Len(t) = Len(u) + m
       /\ \A i \in 1..Len(u) : t[i] = u[i]
       /\ \A i \in (Len(u) + 1)..Len(t) :
            /\ t[i].remote_dh = k
            /\ t[i].message_number = 0 + (i - Len(u)) - 1
            /\ t[i].key = KeyAt(start, t[i].message_number)
  <2>1. Appended(t, u, k, start, 0, m)
    BY <1>1, <1>3, <1>5, <1>10, AppendedKeys
  <2>2. m - 0 = m
    BY <1>3
  <2> QED
    BY <2>1, <2>2 DEF Appended
<1>12. /\ chain.pos = m + 1
       /\ chain.label = start.label
       /\ chain.root = start.root
  <2>1. m + 1 \in Nat /\ 0 + (m + 1) = m + 1
    BY <1>3
  <2> QED
    BY <2>1, <1>1, <1>5, ScheduleTypes
<1>13. \A n : KeyAt(chain, n) = KeyAt(start, n)
  BY <1>12 DEF KeyAt
<1>14. ASSUME NEW i \in 1..Len(t), t[i].remote_dh = k
       PROVE  t[i].key = KeyAt(chain, t[i].message_number)
  <2>1. i \in 1..Len(u) \/ i \in (Len(u) + 1)..Len(t)
    BY <1>3, <1>10, <1>11
  <2> QED
    BY <2>1, <1>10, <1>11, <1>13, <1>14
<1>15. ASSUME NEW n \in 0..m PROVE Returned(e, n)' \/ Kept(e, n)'
  <2>1. CASE n < m
    <3> DEFINE i == Len(u) + n + 1
    <3>1. i \in (Len(u) + 1)..Len(t) /\ i \in 1..Len(t) /\ 0 + (i - Len(u)) - 1 = n
      BY <2>1, <1>3, <1>10, <1>11
    <3> HIDE DEF i
    <3>2. t[i].remote_dh = k /\ t[i].message_number = n
      BY <3>1, <1>11
    <3> QED
      BY <3>1, <3>2, <1>1 DEF Kept, t
  <2>2. CASE n = m
    BY <2>2, <1>1 DEF Returned, m, k
  <2> QED
    BY <2>1, <2>2, <1>3
<1>17. \A g \in net' : g.ratchet_public = k => SameChain(g.key, chain)
  BY <1>1, <1>5, <1>12 DEF SameChain
<1>18. p.dh_pair = k => SameChain(p.sending_chain, chain) /\ m + 1 <= p.sending_count
  BY <1>3, <1>5, <1>7, <1>12 DEF SameChain
<1> QED
  <2>1. ratchet'[e].receiving_chain.pos = ratchet'[e].receiving_count
    BY <1>1, <1>12 DEF chain
  <2>2. \A g \in net' : g.ratchet_public = ratchet'[e].remote_dh
                          => SameChain(g.key, ratchet'[e].receiving_chain)
    BY <1>1, <1>17 DEF chain
  <2>3. ratchet'[Peer(e)].dh_pair = ratchet'[e].remote_dh
          => /\ SameChain(ratchet'[Peer(e)].sending_chain, ratchet'[e].receiving_chain)
             /\ ratchet'[e].receiving_count <= ratchet'[Peer(e)].sending_count
    BY <1>1, <1>4, <1>18 DEF chain
  <2>4. \A i \in 1..Len(ratchet'[e].skipped) :
          ratchet'[e].skipped[i].remote_dh = ratchet'[e].remote_dh
            => ratchet'[e].skipped[i].key
                 = KeyAt(ratchet'[e].receiving_chain, ratchet'[e].skipped[i].message_number)
    BY <1>1, <1>14 DEF t, chain
  <2>5. ASSUME NEW n \in 0..(ratchet'[e].receiving_count - 1)
        PROVE  Returned(e, n)' \/ Kept(e, n)'
    <3>1. n \in 0..m
      BY <1>1, <1>3
    <3> QED
      BY <3>1, <1>15
  <2> QED
    BY <2>1, <2>2, <2>3, <2>4, <2>5 DEF Receives

LEMMA CountTypes ==
    ASSUME RatchetInv, NEW d \in Role
    PROVE  /\ ratchet[d] \in RatchetState
           /\ ratchet[d].receiving_count \in Nat
           /\ ratchet[d].sending_count \in Nat
           /\ ratchet[Peer(d)].sending_count \in Nat
           /\ Peer(d) \in Role /\ Peer(d) # d /\ Peer(Peer(d)) = d
           /\ KnownKey(ratchet[d].remote_dh)
           /\ KnownKey(ratchet[d].dh_pair)
           /\ Owner(ratchet[d].remote_dh) = Peer(d)
           /\ Owner(ratchet[d].dh_pair) = d
<1>1. Peer(d) \in Role /\ Peer(d) # d /\ Peer(Peer(d)) = d
  BY Peers
<1>2. ratchet[d] \in RatchetState /\ ratchet[Peer(d)] \in RatchetState
  BY <1>1 DEF RatchetInv, TypeOK
<1> QED
  BY <1>1, <1>2, StateTypes DEF RatchetInv, KeysInv

\* Sending and rotating leave every endpoint's receiving chain in place.
LEMMA EncryptReceives ==
    ASSUME RatchetInv, ReceivingInv, NEW e \in Role, Encrypt(e), NEW d \in Role
    PROVE  Receives(d)'
<1> DEFINE g == Frame(ratchet[e])
<1>1. /\ net' = net \cup {g}
      /\ g.ratchet_public = ratchet[e].dh_pair
      /\ SameChain(g.key, ratchet[e].sending_chain)
      /\ ratchet'[e].sending_count = ratchet[e].sending_count + 1
      /\ SameReceiving(e) /\ SameSending(e) /\ OnlyAt(e)
      /\ delivered' = delivered
  BY EncryptFacts
<1>2. /\ ratchet[d].receiving_count \in Nat /\ ratchet[Peer(d)].sending_count \in Nat
      /\ Peer(d) \in Role /\ Peer(d) # d
      /\ Owner(ratchet[d].remote_dh) = Peer(d)
      /\ Owner(ratchet[e].dh_pair) = e
  BY CountTypes
<1> HIDE DEF g
<1>3. SameReceiving(d)
  BY <1>1, OthersSame
<1>4. g.ratchet_public = ratchet[d].remote_dh => SameChain(g.key, ratchet[d].receiving_chain)
  <2> SUFFICES ASSUME ratchet[e].dh_pair = ratchet[d].remote_dh
               PROVE  SameChain(g.key, ratchet[d].receiving_chain)
    BY <1>1
  <2>1. e = Peer(d)
    BY <1>2
  <2>2. SameChain(ratchet[e].sending_chain, ratchet[d].receiving_chain)
    BY <2>1 DEF ReceivingInv, Receives
  <2> QED
    BY <2>2, <1>1 DEF SameChain
<1>5. /\ SameSending(Peer(d))
      /\ ratchet'[Peer(d)].sending_count \in Nat
      /\ ratchet[Peer(d)].sending_count <= ratchet'[Peer(d)].sending_count
  <2>1. CASE Peer(d) = e
    BY <2>1, <1>1, <1>2
  <2>2. CASE Peer(d) # e
    BY <2>2, <1>1, <1>2, OthersSame
  <2> QED
    BY <2>1, <2>2
<1>6. /\ ratchet'[Peer(d)].dh_pair = ratchet[Peer(d)].dh_pair
      /\ SameChain(ratchet'[Peer(d)].sending_chain, ratchet[Peer(d)].sending_chain)
  BY <1>5 DEF SameSending
<1>7. \A f \in net' :
        f \in net \/ (f.ratchet_public = ratchet[d].remote_dh
                        => SameChain(f.key, ratchet[d].receiving_chain))
  BY <1>1, <1>4
<1>8. Receives(d)
  BY DEF ReceivingInv
<1> QED
  BY <1>1, <1>2, <1>3, <1>5, <1>6, <1>7, <1>8, ReceivesKept

LEMMA ExhaustedReceives ==
    ASSUME RatchetInv, ReceivingInv, NEW e \in Role, EncryptExhausted(e), NEW d \in Role
    PROVE  Receives(d)'
<1>1. /\ net' = net
      /\ ratchet'[e].sending_count = ratchet[e].sending_count
      /\ SameReceiving(e) /\ SameSending(e) /\ OnlyAt(e)
      /\ delivered' = delivered
  BY ExhaustedFacts
<1>2. /\ ratchet[d].receiving_count \in Nat /\ ratchet[Peer(d)].sending_count \in Nat
      /\ Peer(d) \in Role
  BY CountTypes
<1>3. /\ SameReceiving(d) /\ SameSending(Peer(d))
      /\ ratchet'[Peer(d)].sending_count = ratchet[Peer(d)].sending_count
  BY <1>1, <1>2, OthersSame
<1>4. Receives(d)
  BY DEF ReceivingInv
<1>5. /\ ratchet'[Peer(d)].dh_pair = ratchet[Peer(d)].dh_pair
      /\ SameChain(ratchet'[Peer(d)].sending_chain, ratchet[Peer(d)].sending_chain)
      /\ ratchet[Peer(d)].sending_count <= ratchet'[Peer(d)].sending_count
  BY <1>2, <1>3 DEF SameSending
<1> QED
  BY <1>1, <1>2, <1>3, <1>4, <1>5, ReceivesKept

\* The peer of an endpoint that draws a new key pair receives on an older one.
LEMMA NewKeyReceives ==
    ASSUME RatchetInv, ReceivingInv, NEW e \in Role, OnlyAt(e), net' = net,
           ratchet'[e].dh_pair = generate(e), ratchet'[e].sending_count = 0,
           \A y : KnownKey(y) => y # generate(e),
           NEW d \in Role, SameReceiving(d), delivered'[d] = delivered[d]
    PROVE  Receives(d)'
<1>1. /\ ratchet[d].receiving_count \in Nat /\ ratchet[Peer(d)].sending_count \in Nat
      /\ Peer(d) \in Role
      /\ KnownKey(ratchet[d].remote_dh)
  BY CountTypes
<1>2. Receives(d)
  BY DEF ReceivingInv
<1>3. CASE Peer(d) = e
  <2>1. ratchet'[Peer(d)].dh_pair # ratchet[d].remote_dh /\ ratchet'[Peer(d)].sending_count \in Nat
    BY <1>1, <1>3
  <2> QED
    BY <2>1, <1>1, <1>2, ReceivesKept
<1>4. CASE Peer(d) # e
  <2>1. ratchet'[Peer(d)] = ratchet[Peer(d)]
    BY <1>1, <1>4, OthersSame
  <2>2. /\ SameChain(ratchet'[Peer(d)].sending_chain, ratchet[Peer(d)].sending_chain)
        /\ ratchet[Peer(d)].sending_count <= ratchet'[Peer(d)].sending_count
        /\ ratchet'[Peer(d)].sending_count \in Nat
    BY <2>1, <1>1 DEF SameChain
  <2> QED
    BY <2>1, <2>2, <1>1, <1>2, ReceivesKept
<1> QED
  BY <1>3, <1>4

\* The other endpoint while e receives without turning its ratchet.
LEMMA PeerReceives ==
    ASSUME RatchetInv, ReceivingInv, NEW e \in Role, OnlyAt(e), net' = net,
           SameSending(e), ratchet'[e].sending_count = ratchet[e].sending_count,
           NEW d \in Role, d # e
    PROVE  Receives(d)'
<1>1. /\ ratchet[d].receiving_count \in Nat /\ ratchet[Peer(d)].sending_count \in Nat
      /\ Peer(d) = e
  BY CountTypes, Peers
<1>2. SameReceiving(d) /\ delivered'[d] = delivered[d]
  BY OthersSame
<1>3. /\ ratchet'[Peer(d)].dh_pair = ratchet[Peer(d)].dh_pair
      /\ SameChain(ratchet'[Peer(d)].sending_chain, ratchet[Peer(d)].sending_chain)
      /\ ratchet'[Peer(d)].sending_count \in Nat
      /\ ratchet[Peer(d)].sending_count <= ratchet'[Peer(d)].sending_count
  BY <1>1 DEF SameSending
<1>4. Receives(d)
  BY DEF ReceivingInv
<1> QED
  BY <1>1, <1>2, <1>3, <1>4, ReceivesKept

LEMMA StutterReceives ==
    ASSUME ReceivingInv, UNCHANGED vars
    PROVE  ReceivingInv'
  BY DEF ReceivingInv, Receives, Returned, Kept, vars

LEMMA ReceivingNext ==
    ASSUME RatchetInv, ReceivingInv, [Next]_vars
    PROVE  ReceivingInv'
<1>1. ASSUME NEW e \in Role, Encrypt(e) PROVE ReceivingInv'
  BY <1>1, EncryptReceives DEF ReceivingInv
<1>2. ASSUME NEW e \in Role, EncryptExhausted(e) PROVE ReceivingInv'
  BY <1>2, ExhaustedReceives DEF ReceivingInv
<1>3. ASSUME NEW e \in Role, RotateSendingRatchet(e), NEW d \in Role PROVE Receives(d)'
  <2>1. /\ \A y : KnownKey(y) => y # generate(e)
        /\ ratchet'[e].dh_pair = generate(e) /\ ratchet'[e].sending_count = 0
        /\ SameReceiving(e) /\ OnlyAt(e) /\ net' = net /\ delivered' = delivered
    BY <1>3, RotationFacts
  <2>2. SameReceiving(d)
    BY <2>1, OthersSame
  <2> QED
    BY <2>1, <2>2, NewKeyReceives
<1>4. ASSUME NEW e \in Role, NEW f \in Arrivals, Decrypt(e, f) PROVE ReceivingInv'
  <2>1. ASSUME DecryptSkipped(e, f), NEW d \in Role PROVE Receives(d)'
    <3>1. CASE d = e
      BY <2>1, <3>1, SkippedReceives DEF ReceivingInv
    <3>2. CASE d # e
      BY <2>1, <3>2, SkippedFacts, PeerReceives
    <3> QED
      BY <3>1, <3>2
  <2>2. ASSUME DecryptSameRatchet(e, f), NEW d \in Role PROVE Receives(d)'
    <3>1. CASE d = e
      BY <2>2, <3>1, SameRatchetReceives DEF ReceivingInv
    <3>2. CASE d # e
      BY <2>2, <3>2, SameRatchetFacts, PeerReceives
    <3> QED
      BY <3>1, <3>2
  <2>3. ASSUME DecryptNewRatchet(e, f), NEW d \in Role PROVE Receives(d)'
    <3>1. CASE d = e
      BY <2>3, <3>1, NewRatchetReceives DEF ReceivingInv
    <3>2. CASE d # e
      <4>1. /\ \A y : KnownKey(y) => y # generate(e)
            /\ ratchet'[e].dh_pair = generate(e) /\ ratchet'[e].sending_count = 0
            /\ OnlyAt(e) /\ net' = net
        BY <2>3, NewRatchetFacts
      <4>2. SameReceiving(d) /\ delivered'[d] = delivered[d]
        BY <3>2, <4>1, OthersSame
      <4> QED
        BY <4>1, <4>2, NewKeyReceives
    <3> QED
      BY <3>1, <3>2
  <2>4. CASE DecryptRejected(e, f)
    BY <2>4, StutterReceives DEF DecryptRejected
  <2> QED
    BY <1>4, <2>1, <2>2, <2>3, <2>4 DEF Decrypt, ReceivingInv
<1>5. CASE UNCHANGED vars
  BY <1>5, StutterReceives
<1> QED
  BY <1>1, <1>2, <1>3, <1>4, <1>5 DEF Next, ReceivingInv

\* What SyncInv needs of the initial states.
LEMMA InitFacts ==
    ASSUME Init
    PROVE  /\ \A e \in Role :
                /\ ratchet[e].root_key = << >>
                /\ ratchet[e].dh_pair = <<e, 0>>
                /\ ratchet[e].remote_dh = <<Peer(e), 0>>
                /\ ratchet[e].sending_count = 0 /\ ratchet[e].receiving_count = 0
                /\ ratchet[e].receiving_chain.pos = 0
                /\ SameChain(ratchet[Peer(e)].sending_chain, ratchet[e].receiving_chain)
                /\ Len(ratchet[e].skipped) = 0
           /\ net = {} /\ rotations = 0 /\ generated = [e \in Role |-> 0]
<1>1. PICK suite \in [Role -> Suites] :
        ratchet = [e \in Role |-> from_authenticated_handshake_with_suite(e, suite[e])]
  BY DEF Init
<1>2. \A e \in Role :
        /\ ratchet[e].root_key = << >>
        /\ ratchet[e].sending_chain.root = << >>
        /\ ratchet[e].sending_chain.label = IF e = "Initiator" THEN INIT_A_TO_B_LABEL
                                                             ELSE INIT_B_TO_A_LABEL
        /\ ratchet[e].sending_count = 0
        /\ ratchet[e].dh_pair = <<e, 0>>
        /\ ratchet[e].remote_dh = <<Peer(e), 0>>
        /\ ratchet[e].skipped = << >>
        /\ ratchet[e].receiving_chain.root = << >>
        /\ ratchet[e].receiving_chain.pos = 0
        /\ ratchet[e].receiving_chain.label = IF e = "Initiator" THEN INIT_B_TO_A_LABEL
                                                               ELSE INIT_A_TO_B_LABEL
        /\ ratchet[e].receiving_count = 0
  <2> TAKE e \in Role
  <2>1. ratchet[e] = from_authenticated_handshake_with_suite(e, suite[e]) /\ suite[e] \in Suites
    BY <1>1
  <2> QED
    BY <2>1, InitialFields
<1>3. \A e \in Role : Len(ratchet[e].skipped) = 0
  BY <1>2
<1>4. \A e \in Role : SameChain(ratchet[Peer(e)].sending_chain, ratchet[e].receiving_chain)
  BY <1>2 DEF SameChain, Role, Peer
<1>5. net = {} /\ rotations = 0 /\ generated = [e \in Role |-> 0]
  BY DEF Init
<1> QED
  BY <1>2, <1>3, <1>4, <1>5

LEMMA ReceivingInit == Init => ReceivingInv
<1> SUFFICES ASSUME Init, NEW e \in Role PROVE Receives(e)
  BY DEF ReceivingInv
<1>1. /\ ratchet[e].receiving_count = 0 /\ ratchet[e].receiving_chain.pos = 0
      /\ SameChain(ratchet[Peer(e)].sending_chain, ratchet[e].receiving_chain)
      /\ Len(ratchet[e].skipped) = 0
      /\ ratchet[Peer(e)].sending_count = 0
      /\ net = {}
  BY InitFacts, Peers
<1> QED
  BY <1>1 DEF Receives

LEMMA InvNothingLost == RatchetInv /\ ReceivingInv => NothingLostInChain
<1> SUFFICES ASSUME RatchetInv, ReceivingInv, NEW e \in Role, NEW f \in net,
                    SameSession(ratchet[e], f),
                    f.ratchet_public = ratchet[e].remote_dh,
                    f.message_number < ratchet[e].receiving_count
             PROVE  f \in delivered[e] \/ Accepts(ratchet[e], f)
  BY DEF NothingLostInChain
<1> DEFINE r == ratchet[e]
<1>1. /\ r \in RatchetState /\ f \in InnerFrame
      /\ f.message_number \in Nat /\ r.receiving_count \in Nat
      /\ f.key \in MessageKey
  BY CountTypes, FrameTypes DEF RatchetInv, TypeOK
<1>2. f.intact /\ f.key.index = f.message_number
  BY DEF RatchetInv, FrameInv
<1>3. SameChain(f.key, r.receiving_chain)
  BY DEF ReceivingInv, Receives
<1>4. Returned(e, f.message_number) \/ Kept(e, f.message_number)
  BY <1>1 DEF ReceivingInv, Receives
<1>5. CASE Returned(e, f.message_number)
  <2>1. PICK g \in delivered[e] :
          g.ratchet_public = r.remote_dh /\ g.message_number = f.message_number
    BY <1>5 DEF Returned
  <2>2. g \in net /\ g \in InnerFrame
    BY DEF RatchetInv, DeliveredInv, TypeOK
  <2>3. g.key \in MessageKey /\ g.key.index = f.key.index
    BY <2>1, <2>2, <1>2, FrameTypes DEF RatchetInv, FrameInv
  <2>4. SameChain(g.key, f.key)
    BY <2>1, <2>2 DEF RatchetInv, ChainInv
  <2>5. g.key = f.key
    BY <2>3, <2>4, <1>1 DEF SameChain, MessageKey
  <2>6. g = f
    BY <2>2, <2>5, KeysOnce DEF KeyUsedOnce
  <2> QED
    BY <2>6
<1>6. CASE Kept(e, f.message_number)
  <2>1. PICK i \in 1..Len(r.skipped) :
          /\ r.skipped[i].remote_dh = r.remote_dh
          /\ r.skipped[i].message_number = f.message_number
    BY <1>6 DEF Kept
  <2>2. r.skipped[i].key = KeyAt(r.receiving_chain, f.message_number)
    BY <2>1 DEF ReceivingInv, Receives
  <2>3. f.key = KeyAt(r.receiving_chain, f.message_number)
    BY <1>1, <1>2, <1>3 DEF KeyAt, SameChain, MessageKey
  <2>4. \A j \in 1..(i - 1) : ~(/\ r.skipped[j].remote_dh = f.ratchet_public
                                 /\ r.skipped[j].message_number = f.message_number)
    <3>1. Len(r.skipped) \in Nat
      BY <1>1, StateTypes
    <3>2. \A j \in 1..Len(r.skipped) :
            (/\ r.skipped[j].remote_dh = r.skipped[i].remote_dh
             /\ r.skipped[j].message_number = r.skipped[i].message_number) => j = i
      BY DEF RatchetInv, SkippedUnique
    <3> QED
      BY <2>1, <3>1, <3>2
  <2>5. Position(r, f, i)
    BY <2>1, <2>4 DEF Position
  <2>6. OpensSkipped(r, f, i)
    BY <2>2, <2>3, <2>5, <1>2 DEF OpensSkipped, Opens
  <2> QED
    BY <2>6 DEF Accepts
<1> QED
  BY <1>4, <1>5, <1>6

\* decrypt loses nothing to reordering within a chain: a frame it has passed
\* over is delivered or can still be opened, for any number of frames,
\* rotations and retained keys.
THEOREM NothingLost == Spec => []NothingLostInChain
<1>1. Init => ReceivingInv
  BY ReceivingInit
<1>2. RatchetInv /\ ReceivingInv /\ [Next]_vars => ReceivingInv'
  BY ReceivingNext
<1> QED
  BY <1>1, <1>2, RatchetInvariance, InvNothingLost, PTL DEF Spec

----------------------------------------------------------------------------
(* Chains are emitted without gaps.                                        *)

\* Emitted in the state after the step.
EmittedAfter(k, n) == \E f \in net' : f.ratchet_public = k /\ f.message_number = n

LEMMA EmittedIntro ==
    ASSUME IsFiniteSet(net'),
           \A e \in Role : \A n \in 0..(ratchet'[e].sending_count - 1) :
              EmittedAfter(ratchet'[e].dh_pair, n),
           \A f \in net' : \A n \in 0..(f.message_number - 1) : EmittedAfter(f.ratchet_public, n)
    PROVE  EmittedInv'
  BY DEF EmittedInv, Emitted, EmittedAfter

LEMMA EmittedKept ==
    ASSUME EmittedInv, net' = net,
           \A d \in Role :
              \/ ratchet'[d].sending_count = 0
              \/ /\ ratchet'[d].sending_count = ratchet[d].sending_count
                 /\ ratchet'[d].dh_pair = ratchet[d].dh_pair
    PROVE  EmittedInv'
<1>1. \A k, n : Emitted(k, n) => EmittedAfter(k, n)
  BY DEF Emitted, EmittedAfter
<1>2. ASSUME NEW d \in Role, NEW n \in 0..(ratchet'[d].sending_count - 1)
      PROVE  EmittedAfter(ratchet'[d].dh_pair, n)
  <2>1. CASE ratchet'[d].sending_count = 0
    BY <2>1
  <2>2. CASE /\ ratchet'[d].sending_count = ratchet[d].sending_count
             /\ ratchet'[d].dh_pair = ratchet[d].dh_pair
    BY <2>2, <1>1 DEF EmittedInv
  <2> QED
    BY <2>1, <2>2
<1>3. \A f \in net' : \A n \in 0..(f.message_number - 1) : EmittedAfter(f.ratchet_public, n)
  BY <1>1 DEF EmittedInv
<1>4. IsFiniteSet(net')
  BY DEF EmittedInv
<1> QED
  BY <1>2, <1>3, <1>4, EmittedIntro

LEMMA EncryptEmitted ==
    ASSUME RatchetInv, EmittedInv, NEW e \in Role, Encrypt(e)
    PROVE  EmittedInv'
<1> DEFINE g == Frame(ratchet[e])
           c == ratchet[e].sending_count
<1>1. /\ net' = net \cup {g}
      /\ g.ratchet_public = ratchet[e].dh_pair
      /\ g.message_number = c
      /\ ratchet'[e].sending_count = c + 1
      /\ SameSending(e) /\ OnlyAt(e)
  BY EncryptFacts
<1>2. c \in Nat
  BY CountTypes
<1> HIDE DEF g, c
<1>3. IsFiniteSet(net')
  BY <1>1, FS_AddElement DEF EmittedInv
<1>4. \A k, n : Emitted(k, n) => EmittedAfter(k, n)
  BY <1>1 DEF Emitted, EmittedAfter
<1>5. EmittedAfter(ratchet[e].dh_pair, c)
  BY <1>1 DEF EmittedAfter
<1>6. \A n \in 0..(c - 1) : EmittedAfter(ratchet[e].dh_pair, n)
  BY <1>4 DEF EmittedInv, c
<1>7. ASSUME NEW d \in Role, NEW n \in 0..(ratchet'[d].sending_count - 1)
      PROVE  EmittedAfter(ratchet'[d].dh_pair, n)
  <2>1. CASE d = e
    <3>1. n \in 0..(c - 1) \/ n = c
      BY <2>1, <1>1, <1>2
    <3>2. ratchet'[d].dh_pair = ratchet[e].dh_pair
      BY <2>1, <1>1 DEF SameSending
    <3> QED
      BY <3>1, <3>2, <1>5, <1>6
  <2>2. CASE d # e
    BY <2>2, <1>1, <1>4, OthersSame DEF EmittedInv
  <2> QED
    BY <2>1, <2>2
<1>8. ASSUME NEW f \in net', NEW n \in 0..(f.message_number - 1)
      PROVE  EmittedAfter(f.ratchet_public, n)
  <2>1. CASE f \in net
    BY <2>1, <1>4 DEF EmittedInv
  <2>2. CASE f = g
    BY <2>2, <1>1, <1>6
  <2> QED
    BY <2>1, <2>2, <1>1
<1> QED
  BY <1>3, <1>7, <1>8, EmittedIntro

LEMMA EmittedNext ==
    ASSUME RatchetInv, EmittedInv, [Next]_vars
    PROVE  EmittedInv'
<1>1. ASSUME NEW e \in Role, EncryptExhausted(e) PROVE EmittedInv'
  <2>1. /\ net' = net /\ OnlyAt(e) /\ SameSending(e)
        /\ ratchet'[e].sending_count = ratchet[e].sending_count
    BY <1>1, ExhaustedFacts
  <2> QED
    BY <2>1, EmittedKept DEF OnlyAt, SameSending
<1>2. ASSUME NEW e \in Role, RotateSendingRatchet(e) PROVE EmittedInv'
  <2>1. net' = net /\ OnlyAt(e) /\ ratchet'[e].sending_count = 0
    BY <1>2, RotationFacts
  <2> QED
    BY <2>1, EmittedKept DEF OnlyAt
<1>3. ASSUME NEW e \in Role, NEW f \in Arrivals, Decrypt(e, f) PROVE EmittedInv'
  <2>1. CASE DecryptSkipped(e, f)
    <3>1. /\ net' = net /\ OnlyAt(e) /\ SameSending(e)
          /\ ratchet'[e].sending_count = ratchet[e].sending_count
      BY <2>1, SkippedFacts
    <3> QED
      BY <3>1, EmittedKept DEF OnlyAt, SameSending
  <2>2. CASE DecryptSameRatchet(e, f)
    <3>1. /\ net' = net /\ OnlyAt(e) /\ SameSending(e)
          /\ ratchet'[e].sending_count = ratchet[e].sending_count
      BY <2>2, SameRatchetFacts
    <3> QED
      BY <3>1, EmittedKept DEF OnlyAt, SameSending
  <2>3. CASE DecryptNewRatchet(e, f)
    <3>1. net' = net /\ OnlyAt(e) /\ ratchet'[e].sending_count = 0
      BY <2>3, NewRatchetFacts
    <3> QED
      BY <3>1, EmittedKept DEF OnlyAt
  <2>4. CASE DecryptRejected(e, f)
    BY <2>4, EmittedKept DEF DecryptRejected, vars
  <2> QED
    BY <1>3, <2>1, <2>2, <2>3, <2>4 DEF Decrypt
<1>4. CASE UNCHANGED vars
  BY <1>4, EmittedKept DEF vars
<1> QED
  BY <1>1, <1>2, <1>3, <1>4, EncryptEmitted DEF Next

LEMMA EmittedInit == Init => EmittedInv
<1> SUFFICES ASSUME Init PROVE EmittedInv
  OBVIOUS
<1>1. net = {} /\ \A e \in Role : ratchet[e].sending_count = 0
  BY InitFacts
<1>2. IsFiniteSet({})
  BY FS_EmptySet
<1> QED
  BY <1>1, <1>2 DEF EmittedInv

----------------------------------------------------------------------------
(* Roots: after the first rotation the endpoints take turns in leading.    *)

LEMMA LeadsIntro ==
    ASSUME NEW p \in Role, NEW q \in Role, q = Peer(p),
           NEW dh, dh = diffie_hellman(ratchet'[p].dh_pair, ratchet'[q].dh_pair),
           ratchet'[p].remote_dh = ratchet'[q].dh_pair,
           ratchet'[q].remote_dh # ratchet'[p].dh_pair,
           ratchet'[p].root_key = next_root(ratchet'[q].root_key, dh),
           SameChain(ratchet'[p].sending_chain, root_chain(ratchet'[q].root_key, dh)),
           ratchet'[q].receiving_count <= ratchet'[p].previous_sending_chain_len,
           \A f \in net' :
              /\ f.ratchet_public = ratchet'[q].remote_dh
                   => f.message_number < ratchet'[p].previous_sending_chain_len
              /\ (Sender(f) = p /\ f.ratchet_public # ratchet'[p].dh_pair)
                   => Len(f.key.root) <= Len(ratchet'[q].root_key),
           \A n \in 0..(ratchet'[p].previous_sending_chain_len - 1) :
              EmittedAfter(ratchet'[q].remote_dh, n)
    PROVE  Leads(p)'
  BY DEF Leads, Emitted, EmittedAfter

\* Keys and roots of d are the same after the step.
SameKeys(d) == SameSending(d) /\ ratchet'[d].remote_dh = ratchet[d].remote_dh

LEMMA LeadsKept ==
    ASSUME NEW p \in Role, Leads(p), \A d \in Role : SameKeys(d),
           ratchet'[Peer(p)].receiving_count <= ratchet[p].previous_sending_chain_len,
           net \subseteq net',
           \A f \in net' : \/ f \in net
                           \/ /\ f.ratchet_public # ratchet[Peer(p)].remote_dh
                              /\ Sender(f) = p => f.ratchet_public = ratchet[p].dh_pair
    PROVE  Leads(p)'
<1> DEFINE q == Peer(p)
           dh == diffie_hellman(ratchet[p].dh_pair, ratchet[q].dh_pair)
<1>1. q \in Role
  BY Peers
<1>2. \A d \in Role :
        /\ ratchet'[d].root_key = ratchet[d].root_key
        /\ ratchet'[d].dh_pair = ratchet[d].dh_pair
        /\ ratchet'[d].remote_dh = ratchet[d].remote_dh
        /\ ratchet'[d].previous_sending_chain_len = ratchet[d].previous_sending_chain_len
        /\ SameChain(ratchet'[d].sending_chain, ratchet[d].sending_chain)
  BY DEF SameKeys, SameSending
<1>3. /\ ratchet[p].remote_dh = ratchet[q].dh_pair
      /\ ratchet[q].remote_dh # ratchet[p].dh_pair
      /\ ratchet[p].root_key = next_root(ratchet[q].root_key, dh)
      /\ SameChain(ratchet[p].sending_chain, root_chain(ratchet[q].root_key, dh))
  BY DEF Leads
<1>4. SameChain(ratchet'[p].sending_chain, root_chain(ratchet'[q].root_key, dh))
  <2> HIDE DEF dh, q
  <2> QED
    BY <1>1, <1>2, <1>3 DEF SameChain
<1>5. \A n \in 0..(ratchet[p].previous_sending_chain_len - 1) :
         EmittedAfter(ratchet[q].remote_dh, n)
  BY DEF Leads, Emitted, EmittedAfter
<1>6. \A f \in net' :
        /\ f.ratchet_public = ratchet[q].remote_dh
             => f.message_number < ratchet[p].previous_sending_chain_len
        /\ (Sender(f) = p /\ f.ratchet_public # ratchet[p].dh_pair)
             => Len(f.key.root) <= Len(ratchet[q].root_key)
  BY DEF Leads
<1>7. dh = diffie_hellman(ratchet'[p].dh_pair, ratchet'[q].dh_pair)
  BY <1>1, <1>2
<1> HIDE DEF dh
<1>8. /\ ratchet'[p].remote_dh = ratchet'[q].dh_pair
      /\ ratchet'[q].remote_dh # ratchet'[p].dh_pair
      /\ ratchet'[p].root_key = next_root(ratchet'[q].root_key, dh)
      /\ ratchet'[q].receiving_count <= ratchet'[p].previous_sending_chain_len
  BY <1>1, <1>2, <1>3
<1>9. \A f \in net' :
        /\ f.ratchet_public = ratchet'[q].remote_dh
             => f.message_number < ratchet'[p].previous_sending_chain_len
        /\ (Sender(f) = p /\ f.ratchet_public # ratchet'[p].dh_pair)
             => Len(f.key.root) <= Len(ratchet'[q].root_key)
  BY <1>1, <1>2, <1>6
<1>10. \A n \in 0..(ratchet'[p].previous_sending_chain_len - 1) :
         EmittedAfter(ratchet'[q].remote_dh, n)
  BY <1>1, <1>2, <1>5
<1> QED
  BY <1>1, <1>4, <1>7, <1>8, <1>9, <1>10, LeadsIntro

LEMMA RootsKept ==
    ASSUME RootsInv, rotations' = rotations, \A d \in Role : SameKeys(d),
           \A p \in Role : Leads(p) =>
              ratchet'[Peer(p)].receiving_count <= ratchet[p].previous_sending_chain_len,
           net \subseteq net',
           \A p \in Role : Leads(p) =>
              \A f \in net' : \/ f \in net
                              \/ /\ f.ratchet_public # ratchet[Peer(p)].remote_dh
                                 /\ Sender(f) = p => f.ratchet_public = ratchet[p].dh_pair
    PROVE  RootsInv'
<1>1. ASSUME NEW p \in Role, Leads(p) PROVE Leads(p)'
  BY <1>1, LeadsKept
<1>2. Even => Even'
  BY Peers DEF SameKeys, SameSending, Even
<1>3. rotations' = 1 => Even' \/ \E p \in Role : Leads(p)'
  BY <1>1, <1>2 DEF RootsInv
<1>4. rotations' = 0 => Even'
  BY <1>2 DEF RootsInv
<1> QED
  BY <1>3, <1>4 DEF RootsInv

LEMMA RootsIntro ==
    ASSUME rotations' = 0 => Even', rotations' = 1 => \E p \in Role : Leads(p)'
    PROVE  RootsInv'
  BY DEF RootsInv

LEMMA EncryptRoots ==
    ASSUME RatchetInv, RootsInv, NEW e \in Role, Encrypt(e)
    PROVE  RootsInv'
<1> DEFINE g == Frame(ratchet[e])
<1>1. /\ net' = net \cup {g} /\ rotations' = rotations
      /\ g.ratchet_public = ratchet[e].dh_pair
      /\ SameReceiving(e) /\ SameSending(e) /\ OnlyAt(e)
  BY EncryptFacts
<1> HIDE DEF g
<1>2. \A d \in Role : SameReceiving(d) /\ SameSending(d)
  BY <1>1, OthersSame
<1>3. \A d \in Role : /\ SameKeys(d)
                      /\ ratchet'[d].receiving_count = ratchet[d].receiving_count
  BY <1>2 DEF SameKeys, SameReceiving
<1>4. ASSUME NEW p \in Role, Leads(p)
      PROVE  /\ ratchet'[Peer(p)].receiving_count <= ratchet[p].previous_sending_chain_len
             /\ g.ratchet_public # ratchet[Peer(p)].remote_dh
             /\ Sender(g) = p => g.ratchet_public = ratchet[p].dh_pair
  <2>1. /\ ratchet[Peer(p)].remote_dh # ratchet[p].dh_pair
        /\ ratchet[Peer(p)].receiving_count <= ratchet[p].previous_sending_chain_len
    BY <1>4 DEF Leads
  <2>2. /\ Peer(p) \in Role /\ Owner(ratchet[e].dh_pair) = e
        /\ Owner(ratchet[Peer(p)].remote_dh) = p
    BY CountTypes, Peers
  <2> QED
    BY <2>1, <2>2, <1>1, <1>3 DEF Sender
<1> QED
  BY <1>1, <1>3, <1>4, RootsKept

LEMMA ExhaustedRoots ==
    ASSUME RatchetInv, RootsInv, NEW e \in Role, EncryptExhausted(e)
    PROVE  RootsInv'
<1>1. /\ net' = net /\ rotations' = rotations
      /\ SameReceiving(e) /\ SameSending(e) /\ OnlyAt(e)
  BY ExhaustedFacts
<1>2. \A d \in Role : SameReceiving(d) /\ SameSending(d)
  BY <1>1, OthersSame
<1>3. \A d \in Role : /\ SameKeys(d)
                      /\ ratchet'[d].receiving_count = ratchet[d].receiving_count
  BY <1>2 DEF SameKeys, SameReceiving
<1>4. \A p \in Role : Leads(p) =>
        ratchet'[Peer(p)].receiving_count <= ratchet[p].previous_sending_chain_len
  BY <1>3, Peers DEF Leads
<1> QED
  BY <1>1, <1>3, <1>4, RootsKept

LEMMA SkippedRoots ==
    ASSUME RatchetInv, RootsInv, NEW e \in Role, NEW f \in Arrivals, DecryptSkipped(e, f)
    PROVE  RootsInv'
<1>1. /\ net' = net /\ rotations' = rotations
      /\ ratchet'[e].remote_dh = ratchet[e].remote_dh
      /\ ratchet'[e].receiving_count = ratchet[e].receiving_count
      /\ SameSending(e) /\ OnlyAt(e)
  BY SkippedFacts
<1>2. \A d \in Role : /\ SameKeys(d)
                      /\ ratchet'[d].receiving_count = ratchet[d].receiving_count
  BY <1>1, OthersSame DEF SameKeys, SameReceiving
<1>3. \A p \in Role : Leads(p) =>
        ratchet'[Peer(p)].receiving_count <= ratchet[p].previous_sending_chain_len
  BY <1>2, Peers DEF Leads
<1> QED
  BY <1>1, <1>2, <1>3, RootsKept

LEMMA SameRatchetRoots ==
    ASSUME RatchetInv, RootsInv, NEW e \in Role, NEW f \in Arrivals, DecryptSameRatchet(e, f)
    PROVE  RootsInv'
<1>1. /\ net' = net /\ rotations' = rotations
      /\ f \in net /\ f \in InnerFrame /\ f.ratchet_public = ratchet[e].remote_dh
      /\ ratchet'[e].remote_dh = ratchet[e].remote_dh
      /\ ratchet'[e].receiving_count = f.message_number + 1
      /\ SameSending(e) /\ OnlyAt(e)
  BY SameRatchetFacts
<1>2. \A d \in Role : SameKeys(d)
  BY <1>1, OthersSame DEF SameKeys, SameReceiving
<1>3. ASSUME NEW p \in Role, Leads(p)
      PROVE  ratchet'[Peer(p)].receiving_count <= ratchet[p].previous_sending_chain_len
  <2>1. CASE Peer(p) = e
    <3>1. f.message_number < ratchet[p].previous_sending_chain_len
      BY <1>1, <1>3, <2>1 DEF Leads
    <3>2. f.message_number \in Nat /\ ratchet[p].previous_sending_chain_len \in 0..COUNTER_MAX
      BY <1>1, FrameTypes DEF RatchetInv, TypeOK, RatchetState
    <3> QED
      BY <3>1, <3>2, <1>1, <2>1, LimitsAssumption
  <2>2. CASE Peer(p) # e
    <3>1. ratchet'[Peer(p)] = ratchet[Peer(p)]
      BY <2>2, <1>1, Peers, OthersSame
    <3> QED
      BY <3>1, <1>3 DEF Leads
  <2> QED
    BY <2>1, <2>2
<1> QED
  BY <1>1, <1>2, <1>3, RootsKept

\* What the other parts of the invariant give about the frames e has sent on
\* its current chain, at the moment it leaves that chain.
LEMMA LeavingChain ==
    ASSUME RatchetInv, ReceivingInv, EmittedInv, NEW e \in Role, net' = net,
           ratchet[Peer(e)].remote_dh = ratchet[e].dh_pair
    PROVE  /\ ratchet[Peer(e)].receiving_count <= ratchet[e].sending_count
           /\ \A f \in net' :
                /\ f.ratchet_public = ratchet[e].dh_pair
                     => f.message_number < ratchet[e].sending_count
                /\ Sender(f) = e => Len(f.key.root) <= Len(ratchet[e].root_key)
           /\ \A n \in 0..(ratchet[e].sending_count - 1) :
                EmittedAfter(ratchet[e].dh_pair, n)
<1>1. ratchet[Peer(e)].receiving_count <= ratchet[e].sending_count
  <2>1. Peer(e) \in Role /\ Peer(Peer(e)) = e
    BY Peers
  <2> QED
    BY <2>1 DEF ReceivingInv, Receives
<1>2. \A f \in net' : f.ratchet_public = ratchet[e].dh_pair
                        => f.message_number < ratchet[e].sending_count
  BY DEF RatchetInv, SendingInv
<1>3. \A f \in net' : Sender(f) = e => Len(f.key.root) <= Len(ratchet[e].root_key)
  BY DEF RatchetInv, FrameInv
<1>4. \A n \in 0..(ratchet[e].sending_count - 1) : EmittedAfter(ratchet[e].dh_pair, n)
  BY DEF EmittedInv, Emitted, EmittedAfter
<1> QED
  BY <1>1, <1>2, <1>3, <1>4

LEMMA RotationRoots ==
    ASSUME RatchetInv, ReceivingInv, EmittedInv, RootsInv,
           NEW e \in Role, RotateSendingRatchet(e)
    PROVE  RootsInv'
<1> DEFINE q == Peer(e)
           r == ratchet[e]
           k == generate(e)
           dh == diffie_hellman(k, r.remote_dh)
<1>1. /\ \A y : KnownKey(y) => y # k
      /\ ratchet'[e].dh_pair = k
      /\ ratchet'[e].root_key = next_root(r.root_key, dh)
      /\ ratchet'[e].sending_chain = root_chain(r.root_key, dh)
      /\ ratchet'[e].previous_sending_chain_len = r.sending_count
      /\ ratchet'[e].remote_dh = r.remote_dh
      /\ OnlyAt(e)
      /\ net' = net /\ rotations' = rotations + 1
  BY RotationFacts DEF SameReceiving
<1>2. /\ q \in Role /\ q # e /\ Peer(q) = e
      /\ KnownKey(ratchet[q].remote_dh)
      /\ rotations \in Nat
  BY CountTypes, Peers DEF RatchetInv, TypeOK
<1>3. ratchet'[q] = ratchet[q]
  BY <1>1, <1>2, OthersSame
<1>4. ASSUME rotations = 0 PROVE Leads(e)'
  <2>1. /\ r.remote_dh = ratchet[q].dh_pair /\ r.root_key = ratchet[q].root_key
        /\ ratchet[q].remote_dh = r.dh_pair
    BY <1>2, <1>4 DEF RootsInv, Even
  <2>2. /\ ratchet[q].receiving_count <= r.sending_count
        /\ \A f \in net' :
             /\ f.ratchet_public = r.dh_pair => f.message_number < r.sending_count
             /\ Sender(f) = e => Len(f.key.root) <= Len(r.root_key)
        /\ \A n \in 0..(r.sending_count - 1) : EmittedAfter(r.dh_pair, n)
    BY <1>1, <2>1, LeavingChain
  <2>3. dh = diffie_hellman(ratchet'[e].dh_pair, ratchet'[q].dh_pair)
    BY <1>1, <1>3, <2>1
  <2> HIDE DEF dh, k, r, q
  <2>4. SameChain(ratchet'[e].sending_chain, root_chain(ratchet'[q].root_key, dh))
    BY <1>1, <1>3, <2>1 DEF SameChain
  <2>5. /\ ratchet'[e].remote_dh = ratchet'[q].dh_pair
        /\ ratchet'[q].remote_dh # ratchet'[e].dh_pair
        /\ ratchet'[e].root_key = next_root(ratchet'[q].root_key, dh)
        /\ ratchet'[q].receiving_count <= ratchet'[e].previous_sending_chain_len
    BY <1>1, <1>2, <1>3, <2>1, <2>2
  <2>6. \A f \in net' :
          /\ f.ratchet_public = ratchet'[q].remote_dh
               => f.message_number < ratchet'[e].previous_sending_chain_len
          /\ (Sender(f) = e /\ f.ratchet_public # ratchet'[e].dh_pair)
               => Len(f.key.root) <= Len(ratchet'[q].root_key)
    BY <1>1, <1>3, <2>1, <2>2
  <2>7. \A n \in 0..(ratchet'[e].previous_sending_chain_len - 1) :
          EmittedAfter(ratchet'[q].remote_dh, n)
    BY <1>1, <1>3, <2>1, <2>2
  <2> QED
    BY <1>2, <2>3, <2>4, <2>5, <2>6, <2>7, LeadsIntro DEF q
<1>5. rotations' = 1 => \E p \in Role : Leads(p)'
  BY <1>1, <1>2, <1>4
<1>6. rotations' # 0
  BY <1>1, <1>2
<1> QED
  BY <1>5, <1>6, RootsIntro

\* Who starts a new ratchet: not an endpoint that shares its peer's root, nor
\* the one that leads.  The one that follows does so on the leader's key.
LEMMA NewRatchetFollows ==
    ASSUME RatchetInv, NEW e \in Role, NEW f \in net, OpensNewRatchet(ratchet[e], f)
    PROVE  /\ ~Even
           /\ ~Leads(e)
           /\ Leads(Peer(e)) => f.ratchet_public = ratchet[Peer(e)].dh_pair
<1> DEFINE q == Peer(e)
<1>1. /\ Len(f.key.root) = Len(ratchet[e].root_key) + 1
      /\ Sender(f) = q
  BY InvParts, NewRatchetFrame
<1>2. Len(f.key.root) <= Len(ratchet[q].root_key)
  BY <1>1 DEF RatchetInv, FrameInv
<1>3. /\ q \in Role /\ Peer(q) = e
      /\ ratchet[e] \in RatchetState /\ ratchet[q] \in RatchetState
  BY Peers DEF RatchetInv, TypeOK
<1>4. /\ Len(ratchet[e].root_key) \in Nat /\ Len(ratchet[q].root_key) \in Nat
      /\ ratchet[q].root_key \in RootKey
      /\ ratchet[e].dh_pair \in DhKey /\ ratchet[q].dh_pair \in DhKey
  BY <1>3, StateTypes
<1> HIDE DEF q
<1>5. ~Even
  <2> SUFFICES ASSUME Even PROVE FALSE
    OBVIOUS
  <2>1. ratchet[e].root_key = ratchet[q].root_key
    BY DEF Even, q
  <2> QED
    BY <2>1, <1>1, <1>2, <1>4
<1>6. ~Leads(e)
  <2> SUFFICES ASSUME Leads(e) PROVE FALSE
    OBVIOUS
  <2>1. ratchet[e].root_key =
          next_root(ratchet[q].root_key,
                    diffie_hellman(ratchet[e].dh_pair, ratchet[q].dh_pair))
    BY DEF Leads, q
  <2>2. Len(ratchet[e].root_key) = Len(ratchet[q].root_key) + 1
    BY ONLY <2>1, <1>4, RootTypes, SMTT(30)
  <2> QED
    BY <2>2, <1>1, <1>2, <1>4
<1>7. Leads(q) => f.ratchet_public = ratchet[q].dh_pair
  <2> SUFFICES ASSUME Leads(q), f.ratchet_public # ratchet[q].dh_pair PROVE FALSE
    OBVIOUS
  <2>1. Len(f.key.root) <= Len(ratchet[e].root_key)
    BY <1>1, <1>3 DEF Leads
  <2> QED
    BY <2>1, <1>1, <1>4
<1> QED
  BY <1>5, <1>6, <1>7 DEF q

LEMMA NewRatchetRoots ==
    ASSUME RatchetInv, ReceivingInv, EmittedInv, RootsInv,
           NEW e \in Role, NEW f \in Arrivals, DecryptNewRatchet(e, f)
    PROVE  RootsInv'
<1> DEFINE p == Peer(e)
           r == ratchet[e]
           k == generate(e)
           dh == diffie_hellman(r.dh_pair, f.ratchet_public)
           dh_send == diffie_hellman(k, f.ratchet_public)
<1>1. /\ f \in net /\ OpensNewRatchet(r, f)
      /\ \A y : KnownKey(y) => y # k
      /\ ratchet'[e].dh_pair = k
      /\ ratchet'[e].remote_dh = f.ratchet_public
      /\ ratchet'[e].root_key = next_root(next_root(r.root_key, dh), dh_send)
      /\ ratchet'[e].sending_chain = root_chain(next_root(r.root_key, dh), dh_send)
      /\ ratchet'[e].previous_sending_chain_len = r.sending_count
      /\ OnlyAt(e)
      /\ net' = net /\ rotations' = rotations
  BY NewRatchetFacts
<1>2. ~Even /\ ~Leads(e) /\ (Leads(p) => f.ratchet_public = ratchet[p].dh_pair)
  BY <1>1, NewRatchetFollows
<1>3. /\ p \in Role /\ p # e /\ Peer(p) = e
      /\ KnownKey(ratchet[p].remote_dh)
      /\ r \in RatchetState
  BY CountTypes, Peers
<1>4. ratchet'[p] = ratchet[p]
  BY <1>1, <1>3, OthersSame
<1>5. ASSUME rotations = 1 PROVE Leads(e)'
  <2>1. Leads(p)
    BY <1>2, <1>3, <1>5, Peers DEF RootsInv
  <2>2. f.ratchet_public = ratchet[p].dh_pair
    BY <1>2, <2>1
  <2>3. /\ ratchet[p].remote_dh = r.dh_pair
        /\ ratchet[p].root_key = next_root(r.root_key, diffie_hellman(ratchet[p].dh_pair, r.dh_pair))
    BY <1>3, <2>1 DEF Leads
  <2>4. dh = diffie_hellman(ratchet[p].dh_pair, r.dh_pair)
    BY <2>2 DEF diffie_hellman
  <2>5. /\ ratchet[p].receiving_count <= r.sending_count
        /\ \A g \in net' :
             /\ g.ratchet_public = r.dh_pair => g.message_number < r.sending_count
             /\ Sender(g) = e => Len(g.key.root) <= Len(r.root_key)
        /\ \A n \in 0..(r.sending_count - 1) : EmittedAfter(r.dh_pair, n)
    BY <1>1, <2>3, LeavingChain
  <2>6. dh_send = diffie_hellman(ratchet'[e].dh_pair, ratchet'[p].dh_pair)
    BY <1>1, <1>4, <2>2
  <2>7. ASSUME NEW g \in net', Sender(g) = e PROVE Len(g.key.root) <= Len(ratchet[p].root_key)
    <3>1. /\ r.root_key \in RootKey /\ Len(r.root_key) \in Nat /\ r.dh_pair \in DhKey
          /\ ratchet[p].dh_pair \in DhKey
      BY <1>3, StateTypes DEF RatchetInv, TypeOK
    <3>2. Len(ratchet[p].root_key) = Len(r.root_key) + 1
      BY <2>3, <3>1, RootTypes, SMTT(30)
    <3>3. Len(g.key.root) \in Nat
      BY <1>1, FrameTypes DEF RatchetInv, TypeOK
    <3> QED
      BY <2>5, <2>7, <3>1, <3>2, <3>3
  <2> HIDE DEF dh, dh_send, k, r, p
  <2>8. SameChain(ratchet'[e].sending_chain, root_chain(ratchet'[p].root_key, dh_send))
    BY <1>1, <1>4, <2>3, <2>4 DEF SameChain
  <2>9. /\ ratchet'[e].remote_dh = ratchet'[p].dh_pair
        /\ ratchet'[p].remote_dh # ratchet'[e].dh_pair
        /\ ratchet'[e].root_key = next_root(ratchet'[p].root_key, dh_send)
        /\ ratchet'[p].receiving_count <= ratchet'[e].previous_sending_chain_len
    BY <1>1, <1>3, <1>4, <2>2, <2>3, <2>4, <2>5
  <2>10. \A g \in net' :
          /\ g.ratchet_public = ratchet'[p].remote_dh
               => g.message_number < ratchet'[e].previous_sending_chain_len
          /\ (Sender(g) = e /\ g.ratchet_public # ratchet'[e].dh_pair)
               => Len(g.key.root) <= Len(ratchet'[p].root_key)
    BY <1>1, <1>4, <2>3, <2>5, <2>7
  <2>11. \A n \in 0..(ratchet'[e].previous_sending_chain_len - 1) :
          EmittedAfter(ratchet'[p].remote_dh, n)
    BY <1>1, <1>4, <2>3, <2>5
  <2> QED
    BY <1>3, <2>6, <2>8, <2>9, <2>10, <2>11, LeadsIntro DEF p
<1>6. rotations' = 1 => \E d \in Role : Leads(d)'
  BY <1>1, <1>5
<1>7. rotations' # 0
  BY <1>1, <1>2 DEF RootsInv
<1> QED
  BY <1>6, <1>7, RootsIntro

LEMMA StutterRoots ==
    ASSUME RootsInv, UNCHANGED vars
    PROVE  RootsInv'
  BY DEF RootsInv, Even, Leads, Emitted, Sender, Owner, vars

LEMMA RootsNext ==
    ASSUME RatchetInv, ReceivingInv, EmittedInv, RootsInv, [Next]_vars
    PROVE  RootsInv'
<1>1. ASSUME NEW e \in Role, NEW f \in Arrivals, Decrypt(e, f) PROVE RootsInv'
  BY <1>1, SkippedRoots, SameRatchetRoots, NewRatchetRoots, StutterRoots
     DEF Decrypt, DecryptRejected
<1>2. CASE UNCHANGED vars
  BY <1>2, StutterRoots
<1> QED
  BY <1>1, <1>2, EncryptRoots, ExhaustedRoots, RotationRoots DEF Next

LEMMA RootsInit == Init => RootsInv
<1> SUFFICES ASSUME Init PROVE RootsInv
  OBVIOUS
<1>1. rotations = 0
  BY InitFacts
<1>2. ASSUME NEW e \in Role
      PROVE  /\ ratchet[e].remote_dh = ratchet[Peer(e)].dh_pair
             /\ ratchet[e].root_key = ratchet[Peer(e)].root_key
  BY InitFacts, Peers
<1> QED
  BY <1>1, <1>2 DEF RootsInv, Even

----------------------------------------------------------------------------
(* What is sent next can be opened.                                        *)

LEMMA KeyAgrees ==
    ASSUME NEW a \in ChainKey, NEW b \in ChainKey, SameChain(a, b), NEW n \in Nat,
           b.pos + n = a.pos
    PROVE  KeyOf(Advance(b, n)) = KeyOf(a)
<1>1. /\ Advance(b, n).label = a.label
      /\ Advance(b, n).root = a.root
      /\ Advance(b, n).pos = a.pos
  BY ScheduleTypes DEF SameChain
<1> QED
  BY <1>1 DEF KeyOf

\* The next frame of Peer(e) as e sees it: on the chain it receives on, or the
\* first of the chain a leading peer has started.
LEMMA NextFrame ==
    ASSUME RatchetInv, ReceivingInv, RootsInv, rotations <= 1, NEW e \in Role,
           ratchet[Peer(e)].sending_count < COUNTER_MAX
    PROVE  LET r == ratchet[e]
               p == ratchet[Peer(e)]
               f == Frame(p)
           IN  /\ f \in InnerFrame /\ f.intact /\ f.session_id = Session
               /\ f.suite = p.suite
               /\ f.ratchet_public = p.dh_pair
               /\ f.message_number = p.sending_count
               /\ f.previous_chain_len = p.previous_sending_chain_len
               /\ \/ /\ p.dh_pair = r.remote_dh
                     /\ r.receiving_count <= p.sending_count
                     /\ f.key = KeyOf(Advance(r.receiving_chain,
                                              p.sending_count - r.receiving_count))
                  \/ /\ p.dh_pair # r.remote_dh
                     /\ Leads(Peer(e))
                     /\ r.receiving_count <= p.previous_sending_chain_len
                     /\ f.key = KeyOf(Advance(
                                  root_chain(r.root_key, diffie_hellman(r.dh_pair, p.dh_pair)),
                                  p.sending_count))
<1> DEFINE r == ratchet[e]
           p == ratchet[Peer(e)]
           f == Frame(p)
           dh == diffie_hellman(r.dh_pair, p.dh_pair)
<1>1. Peer(e) \in Role /\ Peer(Peer(e)) = e /\ r \in RatchetState /\ p \in RatchetState
  BY Peers DEF RatchetInv, TypeOK
<1>2. /\ f \in InnerFrame /\ f.intact /\ f.session_id = Session /\ f.suite = p.suite
      /\ f.ratchet_public = p.dh_pair /\ f.message_number = p.sending_count
      /\ f.previous_chain_len = p.previous_sending_chain_len
      /\ f.key = KeyOf(p.sending_chain)
  BY <1>1, FrameFields, StateTypes
<1>3. p.sending_chain.pos = p.sending_count
  BY <1>1 DEF RatchetInv, CountInv
<1>4. /\ r.receiving_chain \in ChainKey /\ p.sending_chain \in ChainKey
      /\ r.receiving_count \in Nat /\ p.sending_count \in Nat
      /\ r.root_key \in RootKey /\ r.dh_pair \in DhKey /\ p.dh_pair \in DhKey
  BY <1>1, StateTypes
<1> HIDE DEF r, p, f
<1>5. CASE p.dh_pair = r.remote_dh
  <2>1. /\ r.receiving_chain.pos = r.receiving_count
        /\ SameChain(p.sending_chain, r.receiving_chain)
        /\ r.receiving_count <= p.sending_count
    BY <1>5 DEF ReceivingInv, Receives, r, p
  <2>2. /\ p.sending_count - r.receiving_count \in Nat
        /\ r.receiving_chain.pos + (p.sending_count - r.receiving_count) = p.sending_chain.pos
    BY <2>1, <1>3, <1>4
  <2>3. KeyOf(Advance(r.receiving_chain, p.sending_count - r.receiving_count))
          = KeyOf(p.sending_chain)
    BY <2>1, <2>2, <1>4, KeyAgrees
  <2> QED
    BY <2>1, <2>3, <1>2, <1>5 DEF r, p, f
<1>6. CASE p.dh_pair # r.remote_dh
  <2>1. rotations = 1 /\ ~Even
    <3>1. rotations \in Nat
      BY DEF RatchetInv, TypeOK
    <3>2. ~Even
      BY <1>6 DEF Even, r, p
    <3> QED
      BY <3>1, <3>2 DEF RootsInv
  <2>2. PICK x \in Role : Leads(x)
    BY <2>1 DEF RootsInv
  <2>3. x # e
    BY <2>2, <1>6 DEF Leads, r, p
  <2>4. Leads(Peer(e))
    BY <2>2, <2>3, Peers
  <2>5. /\ SameChain(p.sending_chain,
                     root_chain(r.root_key, diffie_hellman(p.dh_pair, r.dh_pair)))
        /\ r.receiving_count <= p.previous_sending_chain_len
    BY <2>4, <1>1 DEF Leads, r, p
  <2>6. dh = diffie_hellman(p.dh_pair, r.dh_pair)
    BY DEF diffie_hellman
  <2>7. root_chain(r.root_key, dh) \in ChainKey /\ root_chain(r.root_key, dh).pos = 0
    BY <1>4, RootTypes, SMTT(30)
  <2> HIDE DEF dh
  <2>8. 0 + p.sending_count = p.sending_chain.pos
    BY <1>3, <1>4
  <2>9. KeyOf(Advance(root_chain(r.root_key, dh), p.sending_count)) = KeyOf(p.sending_chain)
    BY <2>5, <2>6, <2>7, <2>8, <1>4, KeyAgrees
  <2> QED
    BY <2>4, <2>5, <2>9, <1>2, <1>6 DEF r, p, f, dh
<1> QED
  BY <1>5, <1>6

LEMMA InvInSync == RatchetInv /\ ReceivingInv /\ RootsInv /\ rotations <= 1 => InSync
<1> SUFFICES ASSUME RatchetInv, ReceivingInv, RootsInv, rotations <= 1, NEW d \in Role,
                    ratchet[d].sending_count < COUNTER_MAX
             PROVE  CanFollow(ratchet[Peer(d)], Frame(ratchet[d]))
  BY DEF InSync
<1> DEFINE e == Peer(d)
           r == ratchet[e]
           p == ratchet[d]
           f == Frame(p)
<1>1. e \in Role /\ Peer(e) = d
  BY Peers
<1>2. /\ f.intact /\ f.ratchet_public = p.dh_pair
      /\ f.message_number = p.sending_count
      /\ f.previous_chain_len = p.previous_sending_chain_len
      /\ \/ /\ p.dh_pair = r.remote_dh
            /\ r.receiving_count <= p.sending_count
            /\ f.key = KeyOf(Advance(r.receiving_chain, p.sending_count - r.receiving_count))
         \/ /\ p.dh_pair # r.remote_dh
            /\ r.receiving_count <= p.previous_sending_chain_len
            /\ f.key = KeyOf(Advance(
                         root_chain(r.root_key, diffie_hellman(r.dh_pair, p.dh_pair)),
                         p.sending_count))
  BY <1>1, NextFrame
<1>3. /\ r.receiving_count \in Nat /\ p.sending_count \in Nat
      /\ p.previous_sending_chain_len \in 0..COUNTER_MAX
  BY <1>1, CountTypes DEF RatchetInv, TypeOK, RatchetState
<1> HIDE DEF r, p, f
<1>4. CanFollow(r, f)
  BY <1>2, <1>3, LimitsAssumption DEF CanFollow, Opens
<1> QED
  BY <1>4 DEF r, p, f, e

----------------------------------------------------------------------------
(* Retained keys wait for emitted frames.                                  *)

\* Every entry of s waits for a frame the peer of e has emitted.
WaitsAfter(e, s) ==
    \A i \in 1..Len(s) :
        /\ Owner(s[i].remote_dh) = Peer(e)
        /\ EmittedAfter(s[i].remote_dh, s[i].message_number)

LEMMA StoreIntro ==
    ASSUME rotations' <= 1 => \A e \in Role : WaitsAfter(e, ratchet'[e].skipped)
    PROVE  StoreInv'
  BY DEF StoreInv, WaitsAfter, Emitted, EmittedAfter

LEMMA WaitsBefore ==
    ASSUME StoreInv, rotations <= 1, NEW e \in Role, net \subseteq net'
    PROVE  WaitsAfter(e, ratchet[e].skipped)
<1>1. \A k, n : Emitted(k, n) => EmittedAfter(k, n)
  BY DEF Emitted, EmittedAfter
<1> QED
  BY <1>1 DEF StoreInv, WaitsAfter

LEMMA WaitsExtended ==
    ASSUME NEW e \in Role, NEW s, NEW t, NEW k, NEW start \in Nat, NEW end \in Nat,
           start <= end, WaitsAfter(e, s), Extends(t, s, k, start, end),
           Owner(k) = Peer(e), \A n \in start..(end - 1) : EmittedAfter(k, n)
    PROVE  WaitsAfter(e, t)
<1> SUFFICES ASSUME NEW i \in 1..Len(t)
             PROVE  /\ Owner(t[i].remote_dh) = Peer(e)
                    /\ EmittedAfter(t[i].remote_dh, t[i].message_number)
  BY DEF WaitsAfter
<1>1. /\ Len(s) \in Nat /\ Len(t) = Len(s) + (end - start)
      /\ \A j \in 1..Len(s) : t[j] = s[j]
      /\ \A j \in (Len(s) + 1)..Len(t) :
           /\ t[j].remote_dh = k
           /\ t[j].message_number = start + (j - Len(s)) - 1
  BY DEF Extends
<1>2. i \in 1..Len(s) \/ i \in (Len(s) + 1)..Len(t)
  BY <1>1
<1>3. CASE i \in 1..Len(s)
  BY <1>1, <1>3 DEF WaitsAfter
<1>4. CASE i \in (Len(s) + 1)..Len(t)
  <2>1. start + (i - Len(s)) - 1 \in start..(end - 1)
    BY <1>1, <1>4
  <2> QED
    BY <2>1, <1>1, <1>4
<1> QED
  BY <1>2, <1>3, <1>4

LEMMA StoreKept ==
    ASSUME StoreInv, rotations' <= 1 => rotations <= 1, net \subseteq net',
           \A d \in Role : ratchet'[d].skipped = ratchet[d].skipped
    PROVE  StoreInv'
  BY WaitsBefore, StoreIntro

\* Only e's store is changed by a decrypt at e.
LEMMA StoreAt ==
    ASSUME StoreInv, NEW e \in Role, OnlyAt(e), net' = net, rotations' = rotations,
           rotations <= 1 => WaitsAfter(e, ratchet'[e].skipped)
    PROVE  StoreInv'
<1> SUFFICES ASSUME rotations <= 1, NEW d \in Role
             PROVE  WaitsAfter(d, ratchet'[d].skipped)
  BY StoreIntro
<1>1. CASE d = e
  BY <1>1
<1>2. CASE d # e
  <2>1. ratchet'[d].skipped = ratchet[d].skipped
    BY <1>2, OthersSame
  <2> QED
    BY <2>1, WaitsBefore
<1> QED
  BY <1>1, <1>2

LEMMA SkippedStore ==
    ASSUME RatchetInv, StoreInv, NEW e \in Role, NEW f \in Arrivals, DecryptSkipped(e, f)
    PROVE  StoreInv'
<1> DEFINE s == ratchet[e].skipped
           t == ratchet'[e].skipped
<1>1. OnlyAt(e) /\ net' = net /\ rotations' = rotations
  BY SkippedFacts
<1>2. PICK i \in 1..Len(s) : t = RemoveAt(s, i)
  BY SkippedFacts
<1>3. s \in Seq(SkippedMessageKey) /\ Len(s) \in Nat
  BY StateTypes DEF RatchetInv, TypeOK
<1>4. /\ Len(t) = Len(s) - 1
      /\ \A j \in 1..(Len(s) - 1) : t[j] = IF j < i THEN s[j] ELSE s[j + 1]
  BY <1>2, <1>3, RemoveAtType
<1>5. ASSUME rotations <= 1 PROVE WaitsAfter(e, s)
  BY <1>1, <1>5, WaitsBefore
<1> HIDE DEF s, t
<1>6. ASSUME NEW j \in 1..Len(t) PROVE \E m \in 1..Len(s) : t[j] = s[m]
  <2>1. j \in 1..Len(s) /\ j + 1 \in 1..Len(s)
    BY <1>3, <1>4
  <2> QED
    BY <2>1, <1>4
<1>7. rotations <= 1 => WaitsAfter(e, t)
  BY <1>5, <1>6 DEF WaitsAfter
<1> QED
  BY <1>1, <1>7, StoreAt DEF t

LEMMA SameRatchetStore ==
    ASSUME RatchetInv, EmittedInv, StoreInv,
           NEW e \in Role, NEW f \in Arrivals, DecryptSameRatchet(e, f)
    PROVE  StoreInv'
<1> DEFINE r == ratchet[e]
           t == ratchet'[e].skipped
           c == r.receiving_count
           m == f.message_number
<1>1. /\ f \in net /\ f \in InnerFrame /\ f.ratchet_public = r.remote_dh /\ c <= m
      /\ t = r.skipped \o derive_range(r.remote_dh, r.receiving_chain, c, m)
      /\ OnlyAt(e) /\ net' = net /\ rotations' = rotations
  BY SameRatchetFacts
<1>2. /\ r.skipped \in Seq(SkippedMessageKey) /\ r.remote_dh \in DhKey
      /\ r.receiving_chain \in ChainKey /\ c \in Nat /\ m \in Nat
  BY <1>1, StateTypes, FrameTypes DEF RatchetInv, TypeOK
<1>3. Owner(r.remote_dh) = Peer(e)
  BY CountTypes
<1>4. ASSUME NEW n \in c..(m - 1) PROVE EmittedAfter(r.remote_dh, n)
  <2>1. n \in 0..(m - 1)
    BY <1>2
  <2>2. Emitted(f.ratchet_public, n)
    BY <2>1, <1>1 DEF EmittedInv
  <2> QED
    BY <2>2, <1>1 DEF Emitted, EmittedAfter
<1>5. Extends(t, r.skipped, r.remote_dh, c, m)
  BY <1>1, <1>2, AppendRange
<1>6. ASSUME rotations <= 1 PROVE WaitsAfter(e, t)
  <2>1. WaitsAfter(e, r.skipped)
    BY <1>1, <1>6, WaitsBefore
  <2> HIDE DEF r, t, c, m
  <2> QED
    BY <2>1, <1>1, <1>2, <1>3, <1>4, <1>5, WaitsExtended
<1> QED
  BY <1>1, <1>6, StoreAt

LEMMA NewRatchetStore ==
    ASSUME RatchetInv, EmittedInv, RootsInv, StoreInv,
           NEW e \in Role, NEW f \in Arrivals, DecryptNewRatchet(e, f)
    PROVE  StoreInv'
<1> DEFINE r == ratchet[e]
           p == ratchet[Peer(e)]
           t == ratchet'[e].skipped
           c == r.receiving_count
           m == f.message_number
           old == f.previous_chain_len
           chain == root_chain(r.root_key, diffie_hellman(r.dh_pair, f.ratchet_public))
           u == r.skipped \o derive_range(r.remote_dh, r.receiving_chain, c, old)
<1>1. /\ f \in net /\ f \in InnerFrame /\ OpensNewRatchet(r, f) /\ c <= old
      /\ t = u \o derive_range(f.ratchet_public, chain, 0, m)
      /\ OnlyAt(e) /\ net' = net /\ rotations' = rotations
  BY NewRatchetFacts
<1>2. /\ r.skipped \in Seq(SkippedMessageKey) /\ r.remote_dh \in DhKey
      /\ r.receiving_chain \in ChainKey /\ c \in Nat /\ m \in Nat /\ old \in Nat
      /\ f.ratchet_public \in DhKey
  BY <1>1, StateTypes, FrameTypes DEF RatchetInv, TypeOK
<1>3. chain \in ChainKey
  BY <1>1, NewRatchetChain
<1>4. /\ Owner(r.remote_dh) = Peer(e)
      /\ Owner(f.ratchet_public) = Peer(e)
  BY <1>1, CountTypes, InvParts, NewRatchetFrame DEF Sender
<1>5. Extends(u, r.skipped, r.remote_dh, c, old)
  BY <1>1, <1>2, AppendRange
<1> HIDE DEF u, chain
<1>6. Extends(t, u, f.ratchet_public, 0, m)
  <2>1. u \in Seq(SkippedMessageKey) /\ 0 \in Nat /\ 0 <= m
    BY <1>2, <1>5 DEF Extends
  <2> QED
    BY <2>1, <1>1, <1>2, <1>3, AppendRange
<1>7. ASSUME NEW n \in 0..(m - 1) PROVE EmittedAfter(f.ratchet_public, n)
  <2>1. Emitted(f.ratchet_public, n)
    BY <1>1 DEF EmittedInv
  <2> QED
    BY <2>1, <1>1 DEF Emitted, EmittedAfter
<1>8. ASSUME rotations <= 1 PROVE WaitsAfter(e, t)
  <2>1. ~Even /\ ~Leads(e) /\ (Leads(Peer(e)) => f.ratchet_public = p.dh_pair)
    BY <1>1, NewRatchetFollows
  <2>2. Leads(Peer(e))
    <3>1. rotations \in Nat /\ rotations # 0
      BY <2>1 DEF RatchetInv, TypeOK, RootsInv
    <3>2. rotations = 1
      BY <3>1, <1>8
    <3> QED
      BY <2>1, <3>2, Peers DEF RootsInv
  <2>3. old = p.previous_sending_chain_len
    BY <1>1, <2>1, <2>2, Peers DEF RatchetInv, SendingInv
  <2>4. \A n \in 0..(old - 1) : Emitted(r.remote_dh, n)
    BY <2>2, <2>3, Peers DEF Leads
  <2>5. ASSUME NEW n \in c..(old - 1) PROVE EmittedAfter(r.remote_dh, n)
    <3>1. n \in 0..(old - 1)
      BY <1>2
    <3>2. Emitted(r.remote_dh, n)
      BY <3>1, <2>4
    <3> QED
      BY <3>2, <1>1 DEF Emitted, EmittedAfter
  <2>6. WaitsAfter(e, r.skipped)
    BY <1>1, <1>8, WaitsBefore
  <2> HIDE DEF r, p, t, c, m, old
  <2>7. WaitsAfter(e, u)
    BY <2>5, <2>6, <1>1, <1>2, <1>4, <1>5, WaitsExtended
  <2>8. 0 \in Nat /\ 0 <= m
    BY <1>2
  <2> QED
    BY <2>7, <2>8, <1>2, <1>4, <1>6, <1>7, WaitsExtended
<1> QED
  BY <1>1, <1>8, StoreAt

LEMMA StoreNext ==
    ASSUME RatchetInv, EmittedInv, RootsInv, StoreInv, [Next]_vars
    PROVE  StoreInv'
<1>1. ASSUME NEW e \in Role, Encrypt(e) PROVE StoreInv'
  <2>1. /\ \A d \in Role : ratchet'[d].skipped = ratchet[d].skipped
        /\ net \subseteq net' /\ rotations' = rotations
    BY <1>1, EncryptFacts, OthersSame DEF SameReceiving
  <2> QED
    BY <2>1, StoreKept
<1>2. ASSUME NEW e \in Role, EncryptExhausted(e) PROVE StoreInv'
  <2>1. /\ \A d \in Role : ratchet'[d].skipped = ratchet[d].skipped
        /\ net' = net /\ rotations' = rotations
    BY <1>2, ExhaustedFacts, OthersSame DEF SameReceiving
  <2> QED
    BY <2>1, StoreKept
<1>3. ASSUME NEW e \in Role, RotateSendingRatchet(e) PROVE StoreInv'
  <2>1. /\ \A d \in Role : ratchet'[d].skipped = ratchet[d].skipped
        /\ net' = net /\ rotations' = rotations + 1
    BY <1>3, RotationFacts, OthersSame DEF SameReceiving
  <2>2. rotations \in Nat
    BY DEF RatchetInv, TypeOK
  <2>3. rotations' <= 1 => rotations <= 1
    BY <2>1, <2>2
  <2> QED
    BY <2>1, <2>3, StoreKept
<1>4. CASE UNCHANGED vars
  BY <1>4, StoreKept DEF vars
<1>5. ASSUME NEW e \in Role, NEW f \in Arrivals, Decrypt(e, f) PROVE StoreInv'
  BY <1>4, <1>5, SkippedStore, SameRatchetStore, NewRatchetStore DEF Decrypt, DecryptRejected
<1> QED
  BY <1>1, <1>2, <1>3, <1>4, <1>5 DEF Next

LEMMA StoreInit == Init => StoreInv
<1> SUFFICES ASSUME Init, NEW e \in Role PROVE Len(ratchet[e].skipped) = 0
  BY DEF StoreInv
<1> QED
  BY InitFacts

LEMMA SyncInit == Init => SyncInv
  BY ReceivingInit, EmittedInit, RootsInit, StoreInit DEF SyncInv

LEMMA SyncNext == RatchetInv /\ SyncInv /\ [Next]_vars => SyncInv'
  BY ReceivingNext, EmittedNext, RootsNext, StoreNext DEF SyncInv

\* The strengthening of RatchetInv under which the ends stay in step is an
\* invariant of every operation.
THEOREM SyncInvariance == Spec => []SyncInv
<1>1. Init => SyncInv
  BY SyncInit
<1>2. RatchetInv /\ SyncInv /\ [Next]_vars => SyncInv'
  BY SyncNext
<1> QED
  BY <1>1, <1>2, RatchetInvariance, PTL DEF Spec

\* As long as rotate_sending_ratchet was called at most once, by either end and
\* at any time, both ends derive the same key for what is sent next, whatever
\* was lost, reordered, replayed or damaged.
THEOREM StaysInSync == Spec => [](rotations <= 1 => InSync)
<1>1. RatchetInv /\ SyncInv => (rotations <= 1 => InSync)
  BY InvInSync DEF SyncInv
<1> QED
  BY <1>1, RatchetInvariance, SyncInvariance, PTL

----------------------------------------------------------------------------
(* Losses within the limit of the store are tolerated.                     *)

\* Each entry of s waits for a frame e has not returned.
Awaits(e, s) ==
    \A i \in 1..Len(s) : \E f \in Outstanding(e) :
        f.ratchet_public = s[i].remote_dh /\ f.message_number = s[i].message_number

\* No two entries of s wait for the same frame.
Distinct(s) ==
    \A i, j \in 1..Len(s) :
        (/\ s[i].remote_dh = s[j].remote_dh
         /\ s[i].message_number = s[j].message_number) => i = j

LEMMA AwaitsFew ==
    ASSUME IsFiniteSet(net), NEW e \in Role, NEW s, Len(s) \in Nat, Awaits(e, s), Distinct(s)
    PROVE  Len(s) <= Cardinality(Outstanding(e))
<1> DEFINE D == 1..Len(s)
           R == Outstanding(e)
           is(f, i) == f.ratchet_public = s[i].remote_dh /\ f.message_number = s[i].message_number
           F == [i \in D |-> CHOOSE f \in R : is(f, i)]
<1>1. IsFiniteSet(R) /\ Cardinality(R) \in Nat
  <2>1. R \in SUBSET net
    BY DEF Outstanding
  <2> QED
    BY <2>1, FS_Subset, FS_CardinalityType
<1>2. IsFiniteSet(D) /\ Cardinality(D) = Len(s)
  <2>1. 1 \in Int /\ Len(s) \in Int /\ Len(s) - 1 + 1 = Len(s) /\ (1 > Len(s) => Len(s) = 0)
    OBVIOUS
  <2> QED
    BY <2>1, FS_Interval
<1> HIDE DEF D, R
<1>3. ASSUME NEW i \in D PROVE F[i] \in R /\ is(F[i], i)
  BY DEF Awaits, D, R
<1>4. F \in [D -> R]
  BY <1>3
<1> HIDE DEF F
<1>5. ASSUME NEW i \in D, NEW j \in D, F[i] = F[j] PROVE i = j
  BY <1>3, <1>5 DEF Distinct, D
<1>6. ~(Cardinality(R) < Cardinality(D))
  BY <1>1, <1>2, <1>4, <1>5, FS_PigeonHole
<1> QED
  BY <1>1, <1>2, <1>6 DEF R

LEMMA AwaitsExtended ==
    ASSUME NEW e \in Role, NEW s, NEW t, NEW k, NEW start \in Nat, NEW end \in Nat,
           start <= end, Awaits(e, s), Distinct(s), Extends(t, s, k, start, end),
           \A i \in 1..Len(s) : /\ s[i].message_number \in Nat
                                /\ s[i].remote_dh = k => s[i].message_number < start,
           \A n \in start..(end - 1) : \E f \in Outstanding(e) :
              f.ratchet_public = k /\ f.message_number = n
    PROVE  Awaits(e, t) /\ Distinct(t)
<1>1. /\ Len(s) \in Nat /\ Len(t) = Len(s) + (end - start)
      /\ \A j \in 1..Len(s) : t[j] = s[j]
      /\ \A j \in (Len(s) + 1)..Len(t) :
           /\ t[j].remote_dh = k
           /\ t[j].message_number = start + (j - Len(s)) - 1
  BY DEF Extends
<1>2. \A i \in 1..Len(t) : i \in 1..Len(s) \/ i \in (Len(s) + 1)..Len(t)
  BY <1>1
<1>3. \A i \in (Len(s) + 1)..Len(t) : start + (i - Len(s)) - 1 \in start..(end - 1)
  BY <1>1
<1>4. ASSUME NEW i \in 1..Len(t)
      PROVE  \E f \in Outstanding(e) :
                f.ratchet_public = t[i].remote_dh /\ f.message_number = t[i].message_number
  <2>1. CASE i \in 1..Len(s)
    BY <2>1, <1>1 DEF Awaits
  <2>2. CASE i \in (Len(s) + 1)..Len(t)
    BY <2>2, <1>1, <1>3
  <2> QED
    BY <2>1, <2>2, <1>2
<1>5. ASSUME NEW i \in 1..Len(t), NEW j \in 1..Len(t),
             t[i].remote_dh = t[j].remote_dh, t[i].message_number = t[j].message_number
      PROVE  i = j
  <2>1. CASE i \in 1..Len(s) /\ j \in 1..Len(s)
    BY <2>1, <1>1, <1>5 DEF Distinct
  <2>2. CASE i \in 1..Len(s) /\ j \in (Len(s) + 1)..Len(t)
    <3>1. s[i].message_number < start /\ s[i].message_number \in Nat
      BY <2>2, <1>1, <1>5
    <3>2. s[i].message_number = start + (j - Len(s)) - 1
      BY <2>2, <1>1, <1>5
    <3> QED
      BY <3>1, <3>2, <2>2, <1>1
  <2>3. CASE i \in (Len(s) + 1)..Len(t) /\ j \in 1..Len(s)
    <3>1. s[j].message_number < start /\ s[j].message_number \in Nat
      BY <2>3, <1>1, <1>5
    <3>2. s[j].message_number = start + (i - Len(s)) - 1
      BY <2>3, <1>1, <1>5
    <3> QED
      BY <3>1, <3>2, <2>3, <1>1
  <2>4. CASE i \in (Len(s) + 1)..Len(t) /\ j \in (Len(s) + 1)..Len(t)
    <3>1. start + (i - Len(s)) - 1 = start + (j - Len(s)) - 1
      BY <2>4, <1>1, <1>5
    <3> QED
      BY <3>1, <2>4, <1>1
  <2> QED
    BY <2>1, <2>2, <2>3, <2>4, <1>2
<1> QED
  BY <1>4, <1>5 DEF Awaits, Distinct

\* The store awaits outstanding frames only.
LEMMA StoreAwaits ==
    ASSUME RatchetInv, StoreInv, rotations <= 1, NEW e \in Role
    PROVE  /\ Awaits(e, ratchet[e].skipped) /\ Distinct(ratchet[e].skipped)
           /\ \A i \in 1..Len(ratchet[e].skipped) :
                /\ ratchet[e].skipped[i].message_number \in Nat
                /\ ratchet[e].skipped[i].remote_dh = ratchet[e].remote_dh
                     => ratchet[e].skipped[i].message_number < ratchet[e].receiving_count
<1> DEFINE s == ratchet[e].skipped
<1>1. ASSUME NEW i \in 1..Len(s)
      PROVE  \E f \in Outstanding(e) :
                f.ratchet_public = s[i].remote_dh /\ f.message_number = s[i].message_number
  <2>1. PICK f \in net :
          f.ratchet_public = s[i].remote_dh /\ f.message_number = s[i].message_number
    BY DEF StoreInv, Emitted
  <2>2. Sender(f) = Peer(e)
    BY <2>1 DEF StoreInv, Sender
  <2>3. f \notin delivered[e]
    BY <2>1 DEF RatchetInv, DeliveredInv
  <2> QED
    BY <2>1, <2>2, <2>3 DEF Outstanding
<1>2. Distinct(s)
  BY DEF RatchetInv, SkippedUnique, Distinct
<1>3. \A i \in 1..Len(s) :
        /\ s[i].message_number \in Nat
        /\ s[i].remote_dh = ratchet[e].remote_dh
             => s[i].message_number < ratchet[e].receiving_count
  BY StateTypes DEF RatchetInv, TypeOK, SkippedInv
<1> QED
  BY <1>1, <1>2, <1>3 DEF Awaits

\* Frames under the key e receives on that lie ahead of it are outstanding.
LEMMA AheadOutstanding ==
    ASSUME RatchetInv, NEW e \in Role, NEW n \in Nat,
           ratchet[e].receiving_count <= n, Emitted(ratchet[e].remote_dh, n)
    PROVE  \E f \in Outstanding(e) :
              f.ratchet_public = ratchet[e].remote_dh /\ f.message_number = n
<1>1. PICK f \in net : f.ratchet_public = ratchet[e].remote_dh /\ f.message_number = n
  BY DEF Emitted
<1>2. Sender(f) = Peer(e) /\ ratchet[e].receiving_count \in Nat
  BY <1>1, CountTypes DEF Sender
<1>3. f \notin delivered[e]
  BY <1>1, <1>2 DEF RatchetInv, DeliveredInv
<1> QED
  BY <1>1, <1>2, <1>3 DEF Outstanding

\* So is everything under the key of a leading peer.
LEMMA LeaderUnpassed ==
    ASSUME RatchetInv, NEW e \in Role, Leads(Peer(e))
    PROVE  ~Passed(e, ratchet[Peer(e)].dh_pair)
<1> DEFINE r == ratchet[e]
           p == ratchet[Peer(e)]
           dh == diffie_hellman(p.dh_pair, r.dh_pair)
<1>1. Peer(e) \in Role /\ Peer(Peer(e)) = e /\ r \in RatchetState /\ p \in RatchetState
  BY Peers DEF RatchetInv, TypeOK
<1>2. /\ r.root_key \in RootKey /\ r.dh_pair \in DhKey /\ p.dh_pair \in DhKey
      /\ Len(r.root_key) \in Nat
  BY <1>1, StateTypes
<1>3. p.sending_chain.root = root_chain(r.root_key, dh).root
  BY <1>1 DEF Leads, SameChain
<1>4. /\ root_chain(r.root_key, dh).root = next_root(r.root_key, dh)
      /\ Len(next_root(r.root_key, dh)) = Len(r.root_key) + 1
  BY ONLY <1>2, RootTypes, SMTT(30)
<1> HIDE DEF dh
<1>5. ~(Len(p.sending_chain.root) <= Len(r.root_key))
  BY <1>2, <1>3, <1>4
<1> QED
  BY <1>5 DEF Passed

LEMMA LeaderOutstanding ==
    ASSUME RatchetInv, NEW e \in Role, Leads(Peer(e)), NEW n,
           Emitted(ratchet[Peer(e)].dh_pair, n)
    PROVE  \E f \in Outstanding(e) :
              f.ratchet_public = ratchet[Peer(e)].dh_pair /\ f.message_number = n
<1>1. PICK f \in net : f.ratchet_public = ratchet[Peer(e)].dh_pair /\ f.message_number = n
  BY DEF Emitted
<1>2. Sender(f) = Peer(e)
  BY <1>1, CountTypes, Peers DEF Sender
<1>3. f \notin delivered[e]
  BY <1>1, LeaderUnpassed DEF RatchetInv, DeliveredInv
<1> QED
  BY <1>1, <1>2, <1>3 DEF Outstanding

\* On the chain it receives on, e needs room for no more keys than it misses
\* frames.
LEMMA SameRatchetRoom ==
    ASSUME RatchetInv, ReceivingInv, EmittedInv, StoreInv, rotations <= 1, NEW e \in Role,
           ratchet[Peer(e)].dh_pair = ratchet[e].remote_dh
    PROVE  Len(ratchet[e].skipped)
             + (ratchet[Peer(e)].sending_count - ratchet[e].receiving_count)
             <= Cardinality(Outstanding(e))
<1> DEFINE r == ratchet[e]
           c == r.receiving_count
           m == ratchet[Peer(e)].sending_count
           s == r.skipped
           t == s \o derive_range(r.remote_dh, r.receiving_chain, c, m)
<1>1. /\ s \in Seq(SkippedMessageKey) /\ r.remote_dh \in DhKey
      /\ r.receiving_chain \in ChainKey /\ c \in Nat /\ m \in Nat
  BY StateTypes, CountTypes
<1>2. c <= m
  BY DEF ReceivingInv, Receives
<1>3. Extends(t, s, r.remote_dh, c, m)
  BY <1>1, <1>2, AppendRange
<1>4. ASSUME NEW n \in c..(m - 1)
      PROVE  \E f \in Outstanding(e) : f.ratchet_public = r.remote_dh /\ f.message_number = n
  <2>1. n \in Nat /\ c <= n /\ n \in 0..(m - 1)
    BY <1>1
  <2>2. Emitted(r.remote_dh, n)
    BY <2>1, Peers DEF EmittedInv
  <2> QED
    BY <2>1, <2>2, AheadOutstanding
<1>5. /\ Awaits(e, s) /\ Distinct(s)
      /\ \A i \in 1..Len(s) : /\ s[i].message_number \in Nat
                              /\ s[i].remote_dh = r.remote_dh => s[i].message_number < c
  BY StoreAwaits
<1>6. IsFiniteSet(net)
  BY DEF EmittedInv
<1> HIDE DEF r, c, m, s, t
<1>7. Awaits(e, t) /\ Distinct(t)
  BY <1>1, <1>2, <1>3, <1>4, <1>5, AwaitsExtended
<1>8. Len(t) = Len(s) + (m - c) /\ Len(t) \in Nat
  BY <1>3, LenProperties DEF Extends
<1>9. Len(t) <= Cardinality(Outstanding(e))
  BY <1>6, <1>7, <1>8, AwaitsFew
<1> QED
  BY <1>8, <1>9 DEF r, c, m, s

\* Nor does it on a leading peer's chain, the rest of the old one included.
LEMMA NewRatchetRoom ==
    ASSUME RatchetInv, EmittedInv, StoreInv, rotations <= 1, NEW e \in Role,
           Leads(Peer(e))
    PROVE  Len(ratchet[e].skipped)
             + (ratchet[Peer(e)].previous_sending_chain_len - ratchet[e].receiving_count)
             + ratchet[Peer(e)].sending_count
             <= Cardinality(Outstanding(e))
<1> DEFINE r == ratchet[e]
           p == ratchet[Peer(e)]
           c == r.receiving_count
           old == p.previous_sending_chain_len
           m == p.sending_count
           s == r.skipped
           u == s \o derive_range(r.remote_dh, r.receiving_chain, c, old)
           t == u \o derive_range(p.dh_pair, r.receiving_chain, 0, m)
<1>1. /\ s \in Seq(SkippedMessageKey) /\ r.remote_dh \in DhKey
      /\ r.receiving_chain \in ChainKey /\ c \in Nat /\ m \in Nat
  BY StateTypes, CountTypes
<1>2. p \in RatchetState
  BY Peers DEF RatchetInv, TypeOK
<1>3. p.dh_pair \in DhKey /\ old \in Nat
  BY <1>2, LimitsAssumption DEF RatchetState
<1>4. /\ c <= old
      /\ \A n \in 0..(old - 1) : Emitted(r.remote_dh, n)
  BY Peers DEF Leads
<1>5. Extends(u, s, r.remote_dh, c, old)
  BY <1>1, <1>3, <1>4, AppendRange
<1>6. ASSUME NEW n \in c..(old - 1)
      PROVE  \E f \in Outstanding(e) : f.ratchet_public = r.remote_dh /\ f.message_number = n
  <2>1. n \in Nat /\ c <= n /\ n \in 0..(old - 1)
    BY <1>1
  <2> QED
    BY <2>1, <1>4, AheadOutstanding
<1>7. /\ Awaits(e, s) /\ Distinct(s)
      /\ \A i \in 1..Len(s) : /\ s[i].message_number \in Nat
                              /\ s[i].remote_dh = r.remote_dh => s[i].message_number < c
  BY StoreAwaits
<1>8. IsFiniteSet(net)
  BY DEF EmittedInv
<1>9. ASSUME NEW n \in 0..(m - 1)
      PROVE  \E f \in Outstanding(e) : f.ratchet_public = p.dh_pair /\ f.message_number = n
  BY Peers, LeaderOutstanding DEF EmittedInv
<1>10. /\ r.remote_dh # p.dh_pair
       /\ \A i \in 1..Len(s) : s[i].remote_dh # p.dh_pair
  BY LeaderUnpassed DEF RatchetInv, SkippedInv
<1> HIDE DEF r, p, c, m, old, s, u
<1>11. Awaits(e, u) /\ Distinct(u)
  BY <1>1, <1>3, <1>4, <1>5, <1>6, <1>7, AwaitsExtended
<1>12. /\ u \in Seq(SkippedMessageKey) /\ Len(u) = Len(s) + (old - c) /\ Len(s) \in Nat
       /\ \A i \in 1..Len(u) : u[i].message_number \in Nat /\ u[i].remote_dh # p.dh_pair
  <2>1. u \in Seq(SkippedMessageKey) /\ Len(u) = Len(s) + (old - c) /\ Len(s) \in Nat
    BY <1>5 DEF Extends
  <2>2. ASSUME NEW i \in 1..Len(u) PROVE u[i].message_number \in Nat /\ u[i].remote_dh # p.dh_pair
    <3>1. u[i].message_number \in Nat
      <4>1. u[i] \in SkippedMessageKey
        BY <2>1
      <4> QED
        BY <4>1 DEF SkippedMessageKey
    <3>2. i \in 1..Len(s) \/ i \in (Len(s) + 1)..Len(u)
      BY <2>1, <1>1, <1>3, <1>4
    <3> QED
      BY <3>1, <3>2, <1>5, <1>10 DEF Extends
  <2> QED
    BY <2>1, <2>2
<1>13. 0 \in Nat /\ 0 <= m
  BY <1>1
<1>14. Extends(t, u, p.dh_pair, 0, m)
  BY <1>1, <1>3, <1>12, <1>13, AppendRange
<1> HIDE DEF t
<1>15. Awaits(e, t) /\ Distinct(t)
  BY <1>1, <1>9, <1>11, <1>12, <1>13, <1>14, AwaitsExtended
<1>16. Len(t) = Len(u) + (m - 0) /\ Len(t) \in Nat
  BY <1>14, LenProperties DEF Extends
<1>17. Len(t) <= Cardinality(Outstanding(e))
  BY <1>8, <1>15, <1>16, AwaitsFew
<1>18. Len(t) = Len(s) + (old - c) + m
  BY <1>1, <1>3, <1>12, <1>16
<1> QED
  BY <1>17, <1>18 DEF r, p, c, m, old, s

LEMMA InvLossTolerated == RatchetInv /\ SyncInv /\ rotations <= 1 => LossTolerated
<1> SUFFICES ASSUME RatchetInv, SyncInv, rotations <= 1, NEW e \in Role,
                    Cardinality(Outstanding(e)) <= MAX_SKIPPED_KEYS,
                    ratchet[Peer(e)].sending_count < COUNTER_MAX,
                    ratchet[Peer(e)].suite = ratchet[e].suite
             PROVE  Accepts(ratchet[e], Frame(ratchet[Peer(e)]))
  BY DEF LossTolerated
<1> DEFINE r == ratchet[e]
           p == ratchet[Peer(e)]
           f == Frame(p)
           room == Cardinality(Outstanding(e))
<1>1. ReceivingInv /\ EmittedInv /\ RootsInv /\ StoreInv
  BY DEF SyncInv
<1>2. /\ f.intact /\ f.session_id = Session /\ f.suite = p.suite
      /\ f.ratchet_public = p.dh_pair
      /\ f.message_number = p.sending_count
      /\ f.previous_chain_len = p.previous_sending_chain_len
      /\ \/ /\ p.dh_pair = r.remote_dh
            /\ r.receiving_count <= p.sending_count
            /\ f.key = KeyOf(Advance(r.receiving_chain, p.sending_count - r.receiving_count))
         \/ /\ p.dh_pair # r.remote_dh
            /\ Leads(Peer(e))
            /\ r.receiving_count <= p.previous_sending_chain_len
            /\ f.key = KeyOf(Advance(
                         root_chain(r.root_key, diffie_hellman(r.dh_pair, p.dh_pair)),
                         p.sending_count))
  BY <1>1, NextFrame
<1>3. /\ r.session_id = Session /\ Len(r.skipped) \in Nat
      /\ r.receiving_count \in Nat /\ p.sending_count \in Nat
  BY StateTypes, CountTypes
<1>4. p.previous_sending_chain_len \in 0..COUNTER_MAX
  BY Peers DEF RatchetInv, TypeOK, RatchetState
<1>5. room \in Nat
  <2>1. Outstanding(e) \in SUBSET net
    BY DEF Outstanding
  <2> QED
    BY <1>1, <2>1, FS_Subset, FS_CardinalityType DEF EmittedInv
<1>6. p.dh_pair = r.remote_dh
        => Len(r.skipped) + (p.sending_count - r.receiving_count) <= room
  BY <1>1, SameRatchetRoom
<1>7. Leads(Peer(e))
        => Len(r.skipped) + (p.previous_sending_chain_len - r.receiving_count)
             + p.sending_count <= room
  BY <1>1, NewRatchetRoom
<1>8. SameSession(r, f)
  BY <1>2, <1>3 DEF SameSession
<1>9. room <= MAX_SKIPPED_KEYS
  OBVIOUS
<1> HIDE DEF r, p, f, room
<1>10. CASE p.dh_pair = r.remote_dh
  <2>1. RangeAllowed(r.receiving_count, f.message_number, Len(r.skipped))
    BY <1>2, <1>3, <1>5, <1>6, <1>9, <1>10, LimitsAssumption DEF RangeAllowed
  <2>2. OpensSameRatchet(r, f)
    BY <2>1, <1>2, <1>3, <1>10 DEF OpensSameRatchet, Opens
  <2> QED
    BY <2>2, <1>8 DEF Accepts, r, p, f
<1>11. CASE p.dh_pair # r.remote_dh
  <2> DEFINE old == p.previous_sending_chain_len - r.receiving_count
  <2>1. /\ Len(r.skipped) + old + p.sending_count <= MAX_SKIPPED_KEYS
        /\ r.receiving_count <= p.previous_sending_chain_len
    BY <1>2, <1>3, <1>4, <1>5, <1>7, <1>9, <1>11, LimitsAssumption
  <2>2. RangeAllowed(r.receiving_count, f.previous_chain_len, Len(r.skipped))
    BY <2>1, <1>2, <1>3, <1>4, LimitsAssumption DEF RangeAllowed
  <2>3. RangeAllowed(0, f.message_number, Len(r.skipped) + old)
    BY <2>1, <1>2, <1>3, <1>4, LimitsAssumption DEF RangeAllowed
  <2>4. OpensNewRatchet(r, f)
    BY <2>2, <2>3, <1>2, <1>11 DEF OpensNewRatchet, Opens
  <2> QED
    BY <2>4, <1>8 DEF Accepts, r, p, f
<1> QED
  BY <1>10, <1>11

\* As long as there was at most one explicit rotation, any MAX_SKIPPED_KEYS
\* frames may be lost or late: decrypt accepts what the peer sends next, over
\* both chains a new ratchet spans.
THEOREM LossIsTolerated == Spec => [](rotations <= 1 => LossTolerated)
<1>1. RatchetInv /\ SyncInv => (rotations <= 1 => LossTolerated)
  BY InvLossTolerated
<1> QED
  BY <1>1, RatchetInvariance, SyncInvariance, PTL

----------------------------------------------------------------------------
(* Steps that only draw key pairs, count rotations and move exhausted      *)
(* sending chains: what the operations of one endpoint are in a session    *)
(* from which that endpoint's memory is left out.                          *)

\* The same state up to the position of a sending chain at its counter's limit.
DriftsTo(r, s) ==
    /\ s.session_id = r.session_id /\ s.suite = r.suite
    /\ s.root_key = r.root_key
    /\ s.dh_pair = r.dh_pair /\ s.remote_dh = r.remote_dh
    /\ s.previous_sending_chain_len = r.previous_sending_chain_len
    /\ s.sending_count = r.sending_count /\ s.receiving_count = r.receiving_count
    /\ s.receiving_chain = r.receiving_chain
    /\ s.skipped = r.skipped
    /\ SameChain(s.sending_chain, r.sending_chain)
    /\ r.sending_count < COUNTER_MAX => s.sending_chain.pos = r.sending_chain.pos

Drift ==
    /\ \A d \in Role : DriftsTo(ratchet[d], ratchet'[d])
    /\ \A d \in Role : generated[d] <= generated'[d]
    /\ rotations <= rotations'
    /\ net' = net /\ delivered' = delivered

LEMMA DriftRatchet ==
    ASSUME RatchetInv, TypeOK', Drift
    PROVE  RatchetInv'
<1>1. TypeOK /\ SendInv /\ ReceiveInv
  BY InvParts
<1>2. net' = net /\ delivered' = delivered
  BY DEF Drift
<1>3. ASSUME NEW d \in Role
      PROVE  /\ ratchet'[d].root_key = ratchet[d].root_key
             /\ ratchet'[d].dh_pair = ratchet[d].dh_pair
             /\ ratchet'[d].remote_dh = ratchet[d].remote_dh
             /\ ratchet'[d].suite = ratchet[d].suite
             /\ ratchet'[d].previous_sending_chain_len = ratchet[d].previous_sending_chain_len
             /\ ratchet'[d].sending_count = ratchet[d].sending_count
             /\ ratchet'[d].sending_chain.root = ratchet[d].sending_chain.root
             /\ ratchet'[d].sending_chain.label = ratchet[d].sending_chain.label
             /\ ratchet[d].sending_count < COUNTER_MAX
                  => ratchet'[d].sending_chain.pos = ratchet[d].sending_chain.pos
             /\ ratchet'[d].skipped = ratchet[d].skipped
             /\ ratchet'[d].receiving_count = ratchet[d].receiving_count
  BY <1>3 DEF Drift, DriftsTo, SameChain
<1>4. ASSUME NEW y \in DhKey, KnownKey(y) PROVE KnownKeyAfter(y)
  <2>1. y[1] \in Role /\ y[2] \in Nat
    BY DEF DhKey
  <2>2. /\ generated[y[1]] \in Nat /\ generated'[y[1]] \in Nat
        /\ generated[y[1]] <= generated'[y[1]]
    BY <1>1, <2>1 DEF TypeOK, Drift
  <2> QED
    BY <1>4, <2>1, <2>2 DEF KnownKey, KnownKeyAfter
<1>5. ASSUME NEW rt \in RootKey, KnownRoot(rt) PROVE KnownRootAfter(rt)
  <2>1. ASSUME NEW i \in 1..Len(rt), NEW y \in rt[i] PROVE KnownKeyAfter(y)
    <3>1. y \in DhKey
      BY DEF RootKey
    <3> QED
      BY <1>4, <1>5, <3>1 DEF KnownRoot
  <2> QED
    BY <2>1 DEF KnownRootAfter
<1>6. ASSUME NEW d \in Role
      PROVE  /\ ratchet[d] \in RatchetState
             /\ ratchet[d].dh_pair \in DhKey /\ ratchet[d].remote_dh \in DhKey
             /\ ratchet[d].root_key \in RootKey /\ ratchet[d].sending_chain.root \in RootKey
  BY <1>1, StateTypes DEF TypeOK
<1>7. KeysInv'
  <2> SUFFICES ASSUME NEW d \in Role
               PROVE  /\ Owner(ratchet'[d].dh_pair) = d
                      /\ KnownKeyAfter(ratchet'[d].dh_pair)
                      /\ Owner(ratchet'[d].remote_dh) = Peer(d)
                      /\ KnownKeyAfter(ratchet'[d].remote_dh)
                      /\ KnownRootAfter(ratchet'[d].root_key)
                      /\ KnownRootAfter(ratchet'[d].sending_chain.root)
                      /\ Len(ratchet'[d].sending_chain.root) <= Len(ratchet'[d].root_key)
    BY DEF KeysInv, KnownKey, KnownRoot, KnownKeyAfter, KnownRootAfter
  <2>1. /\ Owner(ratchet[d].dh_pair) = d
        /\ KnownKey(ratchet[d].dh_pair)
        /\ Owner(ratchet[d].remote_dh) = Peer(d)
        /\ KnownKey(ratchet[d].remote_dh)
        /\ KnownRoot(ratchet[d].root_key)
        /\ KnownRoot(ratchet[d].sending_chain.root)
        /\ Len(ratchet[d].sending_chain.root) <= Len(ratchet[d].root_key)
    BY <1>1 DEF SendInv, KeysInv
  <2> QED
    BY <2>1, <1>3, <1>4, <1>5, <1>6
<1>8. CountInv'
  BY <1>1, <1>3 DEF SendInv, CountInv
<1>9. ASSUME NEW f \in net
      PROVE  /\ Sender(f) \in Role /\ f.ratchet_public \in DhKey /\ f.key.root \in RootKey
  BY <1>1, FrameTypes DEF TypeOK
<1>10. FrameInv'
  <2> SUFFICES ASSUME NEW f \in net
               PROVE  /\ f.intact
                      /\ f.session_id = Session
                      /\ KnownKeyAfter(f.ratchet_public)
                      /\ KnownRootAfter(f.key.root)
                      /\ f.key.index = f.message_number
                      /\ f.message_number < COUNTER_MAX
                      /\ Len(f.key.root) <= Len(ratchet'[Sender(f)].root_key)
    BY <1>2 DEF FrameInv, KnownKey, KnownRoot, KnownKeyAfter, KnownRootAfter
  <2>1. /\ f.intact
        /\ f.session_id = Session
        /\ KnownKey(f.ratchet_public)
        /\ KnownRoot(f.key.root)
        /\ f.key.index = f.message_number
        /\ f.message_number < COUNTER_MAX
        /\ Len(f.key.root) <= Len(ratchet[Sender(f)].root_key)
    BY <1>1 DEF SendInv, FrameInv
  <2> QED
    BY <2>1, <1>3, <1>4, <1>5, <1>9
<1>11. ChainInv'
  BY <1>1, <1>2 DEF SendInv, ChainInv
<1>12. SendingInv'
  BY <1>1, <1>2, <1>3 DEF SendInv, SendingInv, SameChain
<1>13. SendInv'
  BY <1>7, <1>8, <1>10, <1>11, <1>12 DEF SendInv
<1>14. ASSUME NEW d \in Role, NEW y \in DhKey, Passed(d, y) PROVE PassedAfter(d, y)
  <2>1. Peer(d) \in Role
    BY Peers
  <2> QED
    BY <1>2, <1>3, <1>4, <1>14, <2>1 DEF Passed, PassedAfter
<1>15. ReceiveInv'
  BY <1>1, <1>2, <1>3, <1>14, NotReceiving
<1> QED
  BY <1>13, <1>15 DEF RatchetInv, SendInv, ReceiveInv

LEMMA DriftSync ==
    ASSUME RatchetInv, SyncInv, TypeOK', Drift
    PROVE  SyncInv'
<1>1. net' = net /\ delivered' = delivered
  BY DEF Drift
<1>2. ASSUME NEW d \in Role
      PROVE  /\ SameReceiving(d) /\ SameSending(d)
             /\ ratchet'[d].sending_count = ratchet[d].sending_count
  BY <1>2 DEF Drift, DriftsTo, SameReceiving, SameSending
<1>3. ASSUME NEW d \in Role PROVE Receives(d)'
  <2>1. /\ ratchet[d].receiving_count \in Nat /\ ratchet[Peer(d)].sending_count \in Nat
        /\ Peer(d) \in Role
    BY CountTypes
  <2>2. Receives(d)
    BY DEF SyncInv, ReceivingInv
  <2>3. /\ ratchet'[Peer(d)].dh_pair = ratchet[Peer(d)].dh_pair
        /\ SameChain(ratchet'[Peer(d)].sending_chain, ratchet[Peer(d)].sending_chain)
        /\ ratchet[Peer(d)].sending_count <= ratchet'[Peer(d)].sending_count
        /\ ratchet'[Peer(d)].sending_count \in Nat
    BY <1>2, <2>1 DEF SameSending
  <2> QED
    BY <1>1, <1>2, <2>1, <2>2, <2>3, ReceivesKept
<1>4. ReceivingInv'
  BY <1>3 DEF ReceivingInv
<1>5. EmittedInv'
  BY <1>1, <1>2, EmittedKept DEF SyncInv, SameSending
<1>6. \A d \in Role : /\ SameKeys(d)
                      /\ ratchet'[d].receiving_count = ratchet[d].receiving_count
  BY <1>2 DEF SameKeys, SameReceiving
<1>7. ASSUME NEW p \in Role, Leads(p) PROVE Leads(p)'
  <2>1. ratchet'[Peer(p)].receiving_count <= ratchet[p].previous_sending_chain_len
    BY <1>6, <1>7, Peers DEF Leads
  <2> QED
    BY <1>1, <1>6, <1>7, <2>1, LeadsKept
<1>8. Even => Even'
  BY <1>6, Peers DEF SameKeys, SameSending, Even
<1>9. rotations \in Nat /\ rotations' \in Nat /\ rotations <= rotations'
  BY DEF RatchetInv, TypeOK, Drift
<1>10. RootsInv'
  BY <1>7, <1>8, <1>9 DEF SyncInv, RootsInv
<1>11. StoreInv'
  BY <1>1, <1>2, <1>9, StoreKept DEF SyncInv, SameReceiving
<1> QED
  BY <1>4, <1>5, <1>10, <1>11 DEF SyncInv

============================================================================
