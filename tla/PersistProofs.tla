--------------------------- MODULE PersistProofs ---------------------------
(***************************************************************************)
(* Proofs about PersistentSession for every value of its constants: what   *)
(* storage may hand back, what the rollback floor makes of it, and what of *)
(* a session survives crashes.                                             *)
(***************************************************************************)
EXTENDS PersistentSession, RatchetProofs, FiniteSetTheorems

----------------------------------------------------------------------------
(* States up to the sending chain of an exhausted counter.                 *)

\* Moving the sending chain changes its position only.
LEMMA MovedChain ==
    ASSUME NEW r \in RatchetState, NEW n \in Nat
    PROVE  LET m == SendingAt(r, n)
           IN  /\ m \in RatchetState
               /\ m.sending_count = r.sending_count
               /\ m.generation = r.generation
               /\ m.sending_chain.pos = n
               /\ \A k : SendingAt(m, k) = SendingAt(r, k)
  BY DEF SendingAt, RatchetState, ChainKey

LEMMA MovedBack ==
    ASSUME NEW r \in RatchetState
    PROVE  /\ r.sending_chain.pos \in Nat
           /\ SendingAt(r, r.sending_chain.pos) = r
  BY DEF SendingAt, RatchetState, ChainKey

\* SameSessionState is an equivalence on ratchet states.
LEMMA SameSymmetric ==
    ASSUME NEW r \in RatchetState, NEW s \in RatchetState, SameSessionState(r, s)
    PROVE  SameSessionState(s, r)
<1>1. CASE r = s
  BY <1>1 DEF SameSessionState
<1>2. CASE r.sending_count = COUNTER_MAX /\ SendingAt(r, s.sending_chain.pos) = s
  <2>1. s.sending_count = COUNTER_MAX
    BY <1>2, MovedBack, MovedChain
  <2>2. SendingAt(s, r.sending_chain.pos) = SendingAt(r, r.sending_chain.pos)
    BY <1>2, MovedBack, MovedChain
  <2> QED
    BY <2>1, <2>2, MovedBack DEF SameSessionState
<1> QED
  BY <1>1, <1>2 DEF SameSessionState

LEMMA SameTransitive ==
    ASSUME NEW r \in RatchetState, NEW s \in RatchetState, NEW t \in RatchetState,
           SameSessionState(r, s), SameSessionState(s, t)
    PROVE  SameSessionState(r, t)
<1>1. CASE r = s \/ s = t
  BY <1>1
<1>2. CASE /\ r.sending_count = COUNTER_MAX
           /\ SendingAt(r, s.sending_chain.pos) = s
           /\ SendingAt(s, t.sending_chain.pos) = t
  <2>1. SendingAt(s, t.sending_chain.pos) = SendingAt(r, t.sending_chain.pos)
    BY <1>2, MovedBack, MovedChain
  <2> QED
    BY <1>2, <2>1 DEF SameSessionState
<1> QED
  BY <1>1, <1>2 DEF SameSessionState

\* A failed encrypt stays within the class.
LEMMA ExhaustedSame ==
    ASSUME NEW r \in RatchetState, r.sending_count = COUNTER_MAX
    PROVE  LET n == [r EXCEPT !.sending_chain = Advance(@, 1)]
           IN  SameSessionState(n, r) /\ n.generation = r.generation
<1> DEFINE n == [r EXCEPT !.sending_chain = Advance(@, 1)]
           m == SendingAt(r, r.sending_chain.pos + 1)
<1>1. n = m
  BY DEF Advance, SendingAt
<1>2. r.sending_chain.pos + 1 \in Nat
  BY MovedBack
<1>3. /\ m.sending_count = COUNTER_MAX /\ m.generation = r.generation
      /\ SendingAt(m, r.sending_chain.pos) = SendingAt(r, r.sending_chain.pos)
  BY <1>2, MovedChain
<1>4. SendingAt(m, r.sending_chain.pos) = r
  BY <1>3, MovedBack
<1> HIDE DEF m, n
<1>5. SameSessionState(m, r)
  BY <1>3, <1>4 DEF SameSessionState
<1>6. n.generation = r.generation
  BY <1>1, <1>3
<1>7. SameSessionState(n, r) /\ n.generation = r.generation
  BY <1>1, <1>5, <1>6
<1> QED
  BY <1>7 DEF n

\* Every other operation records itself in the generation.
LEMMA GenerationFields ==
    ASSUME NEW r \in RatchetState
    PROVE  /\ AfterEncrypt(r).generation = saturating_add(r.generation)
           /\ \A k : AfterRotation(r, k).generation = saturating_add(r.generation)
           /\ \A i : AfterSkipped(r, i).generation = saturating_add(r.generation)
           /\ \A f : f.message_number # COUNTER_MAX =>
                /\ AfterSameRatchet(r, f).generation = saturating_add(r.generation)
                /\ \A k : AfterNewRatchet(r, f, k).generation = saturating_add(r.generation)
<1>1. AfterEncrypt(r).generation = saturating_add(r.generation)
  BY DEF AfterEncrypt, RatchetState
<1>2. ASSUME NEW k
      PROVE  AfterRotation(r, k).generation = saturating_add(r.generation)
  BY DEF AfterRotation, RatchetState
<1>3. ASSUME NEW i
      PROVE  AfterSkipped(r, i).generation = saturating_add(r.generation)
  BY DEF AfterSkipped, RatchetState
<1>4. ASSUME NEW f, f.message_number # COUNTER_MAX
      PROVE  AfterSameRatchet(r, f).generation = saturating_add(r.generation)
  BY <1>4 DEF AfterSameRatchet, RatchetState
<1>5. ASSUME NEW f, f.message_number # COUNTER_MAX, NEW k
      PROVE  AfterNewRatchet(r, f, k).generation = saturating_add(r.generation)
  BY <1>5 DEF AfterNewRatchet, RatchetState
<1> QED
  BY <1>1, <1>2, <1>3, <1>4, <1>5

\* The generation rises until it saturates.
LEMMA GenerationRises ==
    ASSUME NEW g \in 0..GEN_MAX
    PROVE  /\ saturating_add(g) \in 0..GEN_MAX
           /\ g <= saturating_add(g)
           /\ saturating_add(g) < GEN_MAX => g < saturating_add(g)
  BY LimitsAssumption DEF saturating_add

----------------------------------------------------------------------------
(* Operations in memory.                                                   *)

\* What the operations between two commits have in common: only e's ratchet
\* changes, its generation rises or nothing that matters has changed, and what
\* is pending stays well formed.
LocalStep(e, n) ==
    /\ ratchet' = [ratchet EXCEPT ![e] = n]
    /\ n \in RatchetState
    /\ \/ n.generation = saturating_add(ratchet[e].generation)
       \/ n.generation = ratchet[e].generation /\ SameSessionState(n, ratchet[e])
    /\ generated' \in [Role -> Nat]
    /\ rotations' \in Nat
    /\ pending' \in [Role -> [out : SUBSET InnerFrame, in : SUBSET InnerFrame]]
    /\ \A d \in Role : /\ IsFiniteSet(pending'[d].in)
                       /\ \A f \in pending'[d].out : f.message_number < COUNTER_MAX
    /\ UNCHANGED Durable

LEMMA LocalStepInv ==
    ASSUME RecordsInv, NEW e \in Role, NEW n, LocalStep(e, n)
    PROVE  RecordsInv'
<1> USE DEF RecordsInv
<1>1. /\ ratchet \in [Role -> RatchetState]
      /\ committed \in [Role -> RatchetState]
      /\ floor \in [Role -> 0..GEN_MAX]
  BY DEF PersistTypeOK, TypeOK
<1>2. ratchet' \in [Role -> RatchetState]
  BY <1>1 DEF LocalStep
<1>3. PersistTypeOK'
  BY <1>2 DEF PersistTypeOK, TypeOK, LocalStep, Durable
<1>4. PendingInv'
  BY DEF PendingInv, LocalStep, Durable
<1>5. ASSUME NEW d \in Role
      PROVE  /\ floor[d] <= ratchet'[d].generation
             /\ floor[d] < GEN_MAX /\ ratchet'[d].generation = floor[d]
                  => SameSessionState(ratchet'[d], committed[d])
  <2>1. /\ floor[d] <= ratchet[d].generation
        /\ floor[d] < GEN_MAX /\ ratchet[d].generation = floor[d]
             => SameSessionState(ratchet[d], committed[d])
    BY DEF GenerationInv
  <2>2. CASE d # e
    <3>1. ratchet'[d] = ratchet[d]
      BY <2>2, <1>1 DEF LocalStep
    <3> QED
      BY <2>1, <3>1
  <2>3. CASE d = e
    <3>1. ratchet'[d] = n
      BY <2>3, <1>1 DEF LocalStep
    <3>2. ratchet[d].generation \in 0..GEN_MAX /\ floor[d] \in 0..GEN_MAX
      BY <1>1 DEF RatchetState
    <3>3. CASE n.generation = saturating_add(ratchet[d].generation)
      BY <2>1, <3>1, <3>2, <3>3, GenerationRises, LimitsAssumption
    <3>4. CASE n.generation = ratchet[d].generation /\ SameSessionState(n, ratchet[d])
      <4>1. n \in RatchetState /\ ratchet[d] \in RatchetState /\ committed[d] \in RatchetState
        BY <1>1 DEF LocalStep
      <4> QED
        BY <2>1, <3>1, <3>4, <4>1, SameTransitive
    <3> QED
      BY <2>3, <3>3, <3>4 DEF LocalStep
  <2> QED
    BY <2>2, <2>3
<1>6. UNCHANGED <<floor, committed, records>>
  BY DEF LocalStep, Durable
<1>7. GenerationInv'
  BY <1>5, <1>6 DEF GenerationInv
<1> QED
  BY <1>3, <1>4, <1>7

LEMMA LocalTypes ==
    ASSUME RecordsInv, NEW e \in Role
    PROVE  /\ ratchet[e] \in RatchetState
           /\ generate(e) \in DhKey
           /\ [generated EXCEPT ![e] = @ + 1] \in [Role -> Nat]
           /\ generated \in [Role -> Nat] /\ rotations \in Nat
           /\ pending \in [Role -> [out : SUBSET InnerFrame, in : SUBSET InnerFrame]]
           /\ \A d \in Role : /\ IsFiniteSet(pending[d].in)
                              /\ \A f \in pending[d].out : f.message_number < COUNTER_MAX
           /\ \A f \in net : f \in InnerFrame /\ f.message_number < COUNTER_MAX
  BY DEF RecordsInv, PersistTypeOK, TypeOK, PendingInv, generate, DhKey

\* Adding to what is pending at e.
LEMMA PendingGrows ==
    ASSUME RecordsInv, NEW e \in Role, NEW f \in InnerFrame, f.message_number < COUNTER_MAX
    PROVE  /\ LET p == [pending EXCEPT ![e].out = @ \cup {f}]
              IN  /\ p \in [Role -> [out : SUBSET InnerFrame, in : SUBSET InnerFrame]]
                  /\ \A d \in Role : /\ IsFiniteSet(p[d].in)
                                     /\ \A g \in p[d].out : g.message_number < COUNTER_MAX
           /\ LET p == [pending EXCEPT ![e].in = @ \cup {f}]
              IN  /\ p \in [Role -> [out : SUBSET InnerFrame, in : SUBSET InnerFrame]]
                  /\ \A d \in Role : /\ IsFiniteSet(p[d].in)
                                     /\ \A g \in p[d].out : g.message_number < COUNTER_MAX
<1> DEFINE Pend == [out : SUBSET InnerFrame, in : SUBSET InnerFrame]
<1>1. /\ pending \in [Role -> Pend]
      /\ \A d \in Role : /\ IsFiniteSet(pending[d].in)
                         /\ \A g \in pending[d].out : g.message_number < COUNTER_MAX
  BY LocalTypes
<1>2. IsFiniteSet(pending[e].in \cup {f})
  BY <1>1, FS_AddElement
<1> DEFINE p == [pending EXCEPT ![e].out = @ \cup {f}]
           q == [pending EXCEPT ![e].in = @ \cup {f}]
<1>3. p \in [Role -> Pend] /\ q \in [Role -> Pend]
  BY <1>1
<1>4. /\ p[e].out = pending[e].out \cup {f} /\ p[e].in = pending[e].in
      /\ q[e].in = pending[e].in \cup {f} /\ q[e].out = pending[e].out
      /\ \A d \in Role : d # e => p[d] = pending[d] /\ q[d] = pending[d]
  BY <1>1
<1> HIDE DEF p, q
<1>5. \A d \in Role : /\ IsFiniteSet(p[d].in)
                      /\ \A g \in p[d].out : g.message_number < COUNTER_MAX
  BY <1>1, <1>4
<1>6. \A d \in Role : /\ IsFiniteSet(q[d].in)
                      /\ \A g \in q[d].out : g.message_number < COUNTER_MAX
  BY <1>1, <1>2, <1>4
<1> QED
  BY <1>3, <1>5, <1>6 DEF p, q

LEMMA LocalEncryptStep ==
    ASSUME RecordsInv, NEW e \in Role, LocalEncrypt(e)
    PROVE  RecordsInv'
<1> DEFINE n == AfterEncrypt(ratchet[e])
<1>1. /\ ratchet[e].sending_count < COUNTER_MAX
      /\ ratchet' = [ratchet EXCEPT ![e] = n]
      /\ pending' = [pending EXCEPT ![e].out = @ \cup {Frame(ratchet[e])}]
      /\ UNCHANGED <<generated, rotations, Durable>>
  BY DEF LocalEncrypt
<1>2. n \in RatchetState /\ n.generation = saturating_add(ratchet[e].generation)
  BY <1>1, LocalTypes, EncryptFields, GenerationFields
<1>3. Frame(ratchet[e]) \in InnerFrame /\ Frame(ratchet[e]).message_number < COUNTER_MAX
  BY <1>1, LocalTypes, FrameFields
<1> HIDE DEF n
<1>4. /\ pending' \in [Role -> [out : SUBSET InnerFrame, in : SUBSET InnerFrame]]
      /\ \A d \in Role : /\ IsFiniteSet(pending'[d].in)
                         /\ \A f \in pending'[d].out : f.message_number < COUNTER_MAX
  BY <1>1, <1>3, PendingGrows
<1>5. LocalStep(e, n)
  BY <1>1, <1>2, <1>4, LocalTypes DEF LocalStep
<1> QED
  BY <1>5, LocalStepInv

LEMMA LocalExhaustedStep ==
    ASSUME RecordsInv, NEW e \in Role, LocalEncryptExhausted(e)
    PROVE  RecordsInv'
<1> DEFINE n == [ratchet[e] EXCEPT !.sending_chain = Advance(@, 1)]
<1>1. /\ ratchet[e].sending_count = COUNTER_MAX
      /\ ratchet' = [ratchet EXCEPT ![e].sending_chain = Advance(@, 1)]
      /\ UNCHANGED <<generated, rotations, pending, Durable>>
  BY DEF LocalEncryptExhausted
<1>2. ratchet' = [ratchet EXCEPT ![e] = n]
  BY <1>1
<1>3. n \in RatchetState
  BY LocalTypes, ExhaustedFields
<1>4. n.generation = ratchet[e].generation /\ SameSessionState(n, ratchet[e])
  BY <1>1, LocalTypes, ExhaustedSame
<1> HIDE DEF n
<1>5. LocalStep(e, n)
  BY <1>1, <1>2, <1>3, <1>4, LocalTypes DEF LocalStep
<1> QED
  BY <1>5, LocalStepInv

LEMMA LocalRotateStep ==
    ASSUME RecordsInv, NEW e \in Role, LocalRotate(e)
    PROVE  RecordsInv'
<1> DEFINE n == AfterRotation(ratchet[e], generate(e))
<1>1. /\ rotations' = rotations + 1
      /\ ratchet' = [ratchet EXCEPT ![e] = n]
      /\ generated' = [generated EXCEPT ![e] = @ + 1]
      /\ UNCHANGED <<pending, Durable>>
  BY DEF LocalRotate
<1>2. n \in RatchetState /\ n.generation = saturating_add(ratchet[e].generation)
  BY LocalTypes, RotationFields, GenerationFields
<1> HIDE DEF n
<1>3. LocalStep(e, n)
  BY <1>1, <1>2, LocalTypes DEF LocalStep
<1> QED
  BY <1>3, LocalStepInv

\* A frame that arrives opens below the last number, so it is pending.
LEMMA LocalReceiveStep ==
    ASSUME RecordsInv, NEW e \in Role, NEW f \in net, NEW r \in RatchetState,
           r.generation = saturating_add(ratchet[e].generation),
           LocalReceive(e, f, r), generated' \in [Role -> Nat]
    PROVE  RecordsInv'
<1>1. f \in InnerFrame /\ f.message_number < COUNTER_MAX /\ f.message_number # COUNTER_MAX
  BY LocalTypes, LimitsAssumption DEF InnerFrame
<1>2. /\ ratchet' = [ratchet EXCEPT ![e] = r]
      /\ pending' = [pending EXCEPT ![e].in = @ \cup {f}]
      /\ UNCHANGED <<rotations, Durable>>
  BY <1>1 DEF LocalReceive
<1>3. /\ pending' \in [Role -> [out : SUBSET InnerFrame, in : SUBSET InnerFrame]]
      /\ \A d \in Role : /\ IsFiniteSet(pending'[d].in)
                         /\ \A g \in pending'[d].out : g.message_number < COUNTER_MAX
  BY <1>1, <1>2, PendingGrows
<1>4. LocalStep(e, r)
  BY <1>2, <1>3, LocalTypes DEF LocalStep
<1> QED
  BY <1>4, LocalStepInv

LEMMA LocalDecryptStep ==
    ASSUME RecordsInv, NEW e \in Role, NEW f \in net,
           \/ LocalDecryptSkipped(e, f)
           \/ LocalDecryptSameRatchet(e, f)
           \/ LocalDecryptNewRatchet(e, f)
    PROVE  RecordsInv'
<1>1. f \in InnerFrame /\ f.message_number < COUNTER_MAX /\ f.message_number # COUNTER_MAX
  BY LocalTypes, LimitsAssumption DEF InnerFrame
<1>2. ratchet[e] \in RatchetState
  BY LocalTypes
<1>3. CASE LocalDecryptSkipped(e, f)
  <2>1. PICK i \in 1..Len(ratchet[e].skipped) :
          LocalReceive(e, f, AfterSkipped(ratchet[e], i))
    BY <1>3 DEF LocalDecryptSkipped
  <2>2. AfterSkipped(ratchet[e], i) \in RatchetState
    BY <1>2, SkippedFields
  <2>3. AfterSkipped(ratchet[e], i).generation = saturating_add(ratchet[e].generation)
    BY <1>2, GenerationFields
  <2>4. generated' \in [Role -> Nat]
    BY <1>3, LocalTypes DEF LocalDecryptSkipped
  <2> QED
    BY <2>1, <2>2, <2>3, <2>4, LocalReceiveStep
<1>4. CASE LocalDecryptSameRatchet(e, f)
  <2>1. /\ OpensSameRatchet(ratchet[e], f)
        /\ LocalReceive(e, f, AfterSameRatchet(ratchet[e], f))
        /\ generated' = generated
    BY <1>4 DEF LocalDecryptSameRatchet
  <2>2. ratchet[e].receiving_count <= f.message_number
    BY <1>1, <1>2, <2>1 DEF OpensSameRatchet, RatchetState, InnerFrame
  <2>3. AfterSameRatchet(ratchet[e], f) \in RatchetState
    BY <1>1, <1>2, <2>2, SameRatchetFields
  <2>4. AfterSameRatchet(ratchet[e], f).generation = saturating_add(ratchet[e].generation)
    BY <1>1, <1>2, GenerationFields
  <2> QED
    BY <2>1, <2>3, <2>4, LocalReceiveStep, LocalTypes
<1>5. CASE LocalDecryptNewRatchet(e, f)
  <2>1. /\ OpensNewRatchet(ratchet[e], f)
        /\ LocalReceive(e, f, AfterNewRatchet(ratchet[e], f, generate(e)))
        /\ generated' = [generated EXCEPT ![e] = @ + 1]
    BY <1>5 DEF LocalDecryptNewRatchet
  <2>2. ratchet[e].receiving_count <= f.previous_chain_len
    BY <2>1 DEF OpensNewRatchet, RangeAllowed
  <2>3. AfterNewRatchet(ratchet[e], f, generate(e)) \in RatchetState
    BY <1>1, <1>2, <2>2, LocalTypes, NewRatchetFields
  <2>4. AfterNewRatchet(ratchet[e], f, generate(e)).generation
          = saturating_add(ratchet[e].generation)
    BY <1>1, <1>2, GenerationFields
  <2> QED
    BY <2>1, <2>3, <2>4, LocalReceiveStep, LocalTypes
<1> QED
  BY <1>3, <1>4, <1>5

----------------------------------------------------------------------------
(* Commit, crash and restore.                                              *)

\* The commit of a state that the floor does not tell from the last one finds
\* it the same: the older records stay equivalent to what is committed.
LEMMA CommitStep ==
    ASSUME RecordsInv, NEW e \in Role, Commit(e)
    PROVE  RecordsInv'
<1> DEFINE r == ratchet[e]
           sealed == seal_state(e, r)
<1>1. /\ records' = [records EXCEPT ![e] = @ \cup {sealed}]
      /\ committed' = [committed EXCEPT ![e] = r]
      /\ floor' = [floor EXCEPT ![e] = r.generation]
      /\ net' = net \cup pending[e].out
      /\ delivered' = [delivered EXCEPT ![e] = @ \cup pending[e].in]
      /\ returned' = [returned EXCEPT ![e] = @ + Cardinality(pending[e].in)]
      /\ pending' = [pending EXCEPT ![e] = Nothing]
      /\ UNCHANGED <<ratchet, generated, rotations, up, crashes>>
  BY DEF Commit
<1>2. /\ ratchet \in [Role -> RatchetState] /\ committed \in [Role -> RatchetState]
      /\ floor \in [Role -> 0..GEN_MAX]
      /\ net \subseteq InnerFrame /\ delivered \in [Role -> SUBSET InnerFrame]
      /\ returned \in [Role -> Nat]
      /\ \A d \in Role : \A record \in records[d] : record.state \in RatchetState
  BY DEF RecordsInv, PersistTypeOK, TypeOK
<1>3. /\ pending \in [Role -> [out : SUBSET InnerFrame, in : SUBSET InnerFrame]]
      /\ records = [d \in Role |-> records[d]]
      /\ IsFiniteSet(pending[e].in)
      /\ \A f \in net \cup pending[e].out : f.message_number < COUNTER_MAX
  BY DEF RecordsInv, PendingInv
<1>4. /\ sealed.version = VERSION /\ sealed.state = r /\ sealed.generation = r.generation
      /\ sealed.aad = state_aad(e, VERSION)
  BY DEF seal_state, Seal
<1>5. r \in RatchetState /\ r.generation \in 0..GEN_MAX
  BY <1>2 DEF RatchetState
<1> HIDE DEF sealed, r
<1>6. PersistTypeOK'
  <2>1. Cardinality(pending[e].in) \in Nat
    BY <1>3, FS_CardinalityType
  <2>2. returned' \in [Role -> Nat]
    BY <1>1, <1>2, <2>1
  <2>3. net' \subseteq InnerFrame /\ delivered' \in [Role -> SUBSET InnerFrame]
    BY <1>1, <1>2, <1>3
  <2>4. TypeOK'
    BY <1>1, <2>2, <2>3 DEF RecordsInv, PersistTypeOK, TypeOK
  <2>5. committed' \in [Role -> RatchetState] /\ floor' \in [Role -> 0..GEN_MAX]
    BY <1>1, <1>2, <1>5
  <2>6. up' \in [Role -> BOOLEAN]
    BY <1>1 DEF RecordsInv, PersistTypeOK
  <2>7. \A d \in Role : pending'[d].out \subseteq InnerFrame /\ pending'[d].in \subseteq InnerFrame
    BY <1>1, <1>3 DEF Nothing
  <2>8. \A d \in Role : \A record \in records'[d] : record.state \in RatchetState
    BY <1>1, <1>2, <1>3, <1>4, <1>5
  <2> QED
    BY <2>4, <2>5, <2>6, <2>7, <2>8 DEF PersistTypeOK
<1>7. PendingInv'
  <2>1. Nothing \in [out : SUBSET InnerFrame, in : SUBSET InnerFrame]
        /\ Nothing.in = {} /\ Nothing.out = {}
    BY DEF Nothing
  <2>2. pending' \in [Role -> [out : SUBSET InnerFrame, in : SUBSET InnerFrame]]
    BY <1>1, <1>3, <2>1
  <2>3. \A d \in Role : /\ IsFiniteSet(pending'[d].in)
                        /\ \A f \in pending'[d].out : f.message_number < COUNTER_MAX
    BY <1>1, <1>3, <2>1, FS_EmptySet DEF RecordsInv, PendingInv
  <2>4. records' = [d \in Role |-> records'[d]]
    BY <1>1, <1>3
  <2> QED
    BY <1>1, <1>3, <2>2, <2>3, <2>4 DEF PendingInv
<1>8. ASSUME NEW d \in Role
      PROVE  /\ floor'[d] = committed'[d].generation
             /\ floor'[d] <= ratchet'[d].generation
             /\ floor'[d] < GEN_MAX /\ ratchet'[d].generation = floor'[d]
                  => SameSessionState(ratchet'[d], committed'[d])
             /\ \A record \in records'[d] :
                  /\ record.aad = state_aad(d, record.version)
                  /\ record.version = LEGACY_VERSION => record.state.suite = DEFAULT_SUITE
                  /\ record.generation = record.state.generation
                  /\ record.generation <= floor'[d]
                  /\ floor'[d] < GEN_MAX /\ record.generation = floor'[d]
                       => SameSessionState(record.state, committed'[d])
  <2>1. CASE d # e
    <3>1. /\ floor'[d] = floor[d] /\ committed'[d] = committed[d] /\ ratchet'[d] = ratchet[d]
          /\ records'[d] = records[d]
      BY <1>1, <1>2, <1>3, <2>1
    <3> QED
      BY <3>1 DEF RecordsInv, GenerationInv
  <2>2. CASE d = e
    <3>1. /\ floor'[d] = r.generation /\ committed'[d] = r /\ ratchet'[d] = r
          /\ records'[d] = records[d] \cup {sealed}
      BY <1>1, <1>2, <1>3, <2>2 DEF r
    <3>2. /\ floor[d] <= r.generation
          /\ floor[d] < GEN_MAX /\ r.generation = floor[d] => SameSessionState(r, committed[d])
          /\ \A record \in records[d] :
               /\ record.aad = state_aad(d, record.version)
               /\ record.version = LEGACY_VERSION => record.state.suite = DEFAULT_SUITE
               /\ record.generation = record.state.generation
               /\ record.generation <= floor[d]
               /\ floor[d] < GEN_MAX /\ record.generation = floor[d]
                    => SameSessionState(record.state, committed[d])
      BY <2>2 DEF RecordsInv, GenerationInv, r
    <3>3. SameSessionState(r, r)
      BY DEF SameSessionState
    <3>4. ASSUME NEW record \in records[d]
          PROVE  /\ record.generation <= r.generation
                 /\ r.generation < GEN_MAX /\ record.generation = r.generation
                      => SameSessionState(record.state, r)
      <4>1. /\ record.state \in RatchetState /\ committed[d] \in RatchetState
            /\ record.state.generation \in Int /\ floor[d] \in Int
        <5>1. record.state \in RatchetState /\ committed[d] \in RatchetState
          BY <1>2
        <5>2. record.state.generation \in 0..GEN_MAX
          BY <5>1 DEF RatchetState
        <5>3. floor[d] \in 0..GEN_MAX
          BY <1>2
        <5> QED
          BY <5>1, <5>2, <5>3, LimitsAssumption
      <4>2. record.generation <= r.generation
        BY <1>5, <3>2, <4>1
      <4>3. ASSUME r.generation < GEN_MAX, record.generation = r.generation
            PROVE  SameSessionState(record.state, r)
        <5>1. floor[d] = r.generation /\ record.generation = floor[d] /\ floor[d] < GEN_MAX
          BY <1>5, <3>2, <4>1, <4>3
        <5>2. SameSessionState(r, committed[d]) /\ SameSessionState(record.state, committed[d])
          BY <3>2, <5>1
        <5>3. SameSessionState(committed[d], r)
          BY <1>5, <4>1, <5>2, SameSymmetric
        <5> QED
          BY <1>5, <4>1, <5>2, <5>3, SameTransitive
      <4> QED
        BY <4>2, <4>3
    <3>5. sealed.version # LEGACY_VERSION
      BY <1>4 DEF VERSION, LEGACY_VERSION
    <3> QED
      BY <1>4, <1>5, <2>2, <3>1, <3>2, <3>3, <3>4, <3>5
  <2> QED
    BY <2>1, <2>2
<1>9. GenerationInv'
  BY <1>8 DEF GenerationInv
<1> QED
  BY <1>6, <1>7, <1>9 DEF RecordsInv

\* Taking up the committed state, or one equivalent to it below GEN_MAX.
LEMMA ReplacedStep ==
    ASSUME RecordsInv, NEW e \in Role, NEW n \in RatchetState,
           ratchet' = [ratchet EXCEPT ![e] = n],
           n.generation = floor[e],
           floor[e] < GEN_MAX => SameSessionState(n, committed[e]),
           pending' \in {pending, [pending EXCEPT ![e] = Nothing]},
           up' \in [Role -> BOOLEAN],
           UNCHANGED <<generated, rotations, net, delivered, returned,
                       records, committed, floor>>
    PROVE  RecordsInv'
<1>1. /\ ratchet \in [Role -> RatchetState]
      /\ floor \in [Role -> 0..GEN_MAX]
      /\ pending \in [Role -> [out : SUBSET InnerFrame, in : SUBSET InnerFrame]]
  BY DEF RecordsInv, PersistTypeOK, TypeOK, PendingInv
<1>2. ratchet' \in [Role -> RatchetState]
  BY <1>1
<1>3. Nothing \in [out : SUBSET InnerFrame, in : SUBSET InnerFrame]
      /\ Nothing.in = {} /\ Nothing.out = {}
  BY DEF Nothing
<1>4. pending' \in [Role -> [out : SUBSET InnerFrame, in : SUBSET InnerFrame]]
  BY <1>1, <1>3
<1>5. \A d \in Role : /\ IsFiniteSet(pending'[d].in)
                      /\ \A f \in pending'[d].out : f.message_number < COUNTER_MAX
  BY <1>1, <1>3, FS_EmptySet DEF RecordsInv, PendingInv
<1>6. PersistTypeOK'
  BY <1>2, <1>4 DEF RecordsInv, PersistTypeOK, TypeOK
<1>7. PendingInv'
  BY <1>4, <1>5 DEF RecordsInv, PendingInv
<1>8. ASSUME NEW d \in Role
      PROVE  /\ floor[d] <= ratchet'[d].generation
             /\ floor[d] < GEN_MAX /\ ratchet'[d].generation = floor[d]
                  => SameSessionState(ratchet'[d], committed[d])
  <2>1. CASE d = e
    <3>1. ratchet'[d] = n /\ floor[d] \in Int
      BY <1>1, <2>1, LimitsAssumption
    <3> QED
      BY <2>1, <3>1
  <2>2. CASE d # e
    <3>1. ratchet'[d] = ratchet[d]
      BY <1>1, <2>2
    <3> QED
      BY <3>1 DEF RecordsInv, GenerationInv
  <2> QED
    BY <2>1, <2>2
<1>9. GenerationInv'
  BY <1>8 DEF RecordsInv, GenerationInv
<1> QED
  BY <1>6, <1>7, <1>9 DEF RecordsInv

LEMMA CrashStep ==
    ASSUME RecordsInv, NEW e \in Role, Crash(e)
    PROVE  RecordsInv'
<1>1. /\ committed[e] \in RatchetState /\ up \in [Role -> BOOLEAN]
      /\ committed[e].generation = floor[e]
  BY DEF RecordsInv, PersistTypeOK, GenerationInv
<1>2. SameSessionState(committed[e], committed[e])
  BY DEF SameSessionState
<1>3. up' \in [Role -> BOOLEAN]
  BY <1>1 DEF Crash
<1> QED
  BY <1>1, <1>2, <1>3, ReplacedStep DEF Crash

\* Reading a record back yields what was sealed: a version 1 record was sealed
\* under the suite that its version implies.
LEMMA DecodeSealed ==
    ASSUME NEW record, record.state \in RatchetState,
           record.version = LEGACY_VERSION => record.state.suite = DEFAULT_SUITE,
           record.generation = record.state.generation
    PROVE  decode_state(record) = record.state
<1> DEFINE s == record.state
           suite == IF record.version = LEGACY_VERSION THEN DEFAULT_SUITE ELSE s.suite
<1>1. decode_state(record) = [s EXCEPT !.generation = record.generation, !.suite = suite]
  BY DEF decode_state, RatchetState
<1>2. suite = s.suite /\ record.generation = s.generation
  OBVIOUS
<1> HIDE DEF s, suite
<1>3. s \in RatchetState
  BY DEF s
<1>4. [s EXCEPT !.generation = s.generation, !.suite = s.suite] = s
  BY <1>3 DEF RatchetState
<1> QED
  BY <1>1, <1>2, <1>4 DEF s

\* A record that restore_state accepts at e is e's own and no older than the
\* floor, so it is the last committed one.
LEMMA Restored ==
    ASSUME RecordsInv, NEW e \in Role, NEW record \in AllRecords,
           Restores(record, e, floor[e])
    PROVE  /\ record \in records[e]
           /\ decode_state(record) = record.state
           /\ record.state \in RatchetState
           /\ record.state.generation = floor[e]
           /\ floor[e] < GEN_MAX => SameSessionState(record.state, committed[e])
<1>1. PICK d \in Role : record \in records[d]
  BY DEF AllRecords, Role
<1>2. /\ record.aad = state_aad(d, record.version)
      /\ record.version = LEGACY_VERSION => record.state.suite = DEFAULT_SUITE
      /\ record.generation = record.state.generation
      /\ record.generation <= floor[d]
      /\ floor[d] < GEN_MAX /\ record.generation = floor[d]
           => SameSessionState(record.state, committed[d])
  BY <1>1 DEF RecordsInv, GenerationInv
<1>3. record.aad = state_aad(e, record.version) /\ record.generation >= floor[e]
  BY DEF Restores
<1>4. d = e
  BY <1>2, <1>3 DEF state_aad
<1>5. record.state \in RatchetState
  BY <1>1 DEF RecordsInv, PersistTypeOK
<1>6. record.state.generation \in Int /\ floor[e] \in Int
  BY <1>5, LimitsAssumption DEF RatchetState, RecordsInv, PersistTypeOK
<1>7. record.generation = floor[e]
  BY <1>2, <1>3, <1>4, <1>6
<1>8. decode_state(record) = record.state
  BY <1>2, <1>5, DecodeSealed
<1> QED
  BY <1>1, <1>2, <1>4, <1>5, <1>7, <1>8

LEMMA RestoreStep ==
    ASSUME RecordsInv, NEW e \in Role, NEW record \in AllRecords, Restore(e, record)
    PROVE  RecordsInv'
<1>1. Restores(record, e, floor[e])
  BY DEF Restore
<1>2. /\ decode_state(record) = record.state
      /\ record.state \in RatchetState
      /\ record.state.generation = floor[e]
      /\ floor[e] < GEN_MAX => SameSessionState(record.state, committed[e])
  BY <1>1, Restored
<1>3. up' \in [Role -> BOOLEAN]
  BY DEF Restore, RecordsInv, PersistTypeOK
<1>4. /\ ratchet' = [ratchet EXCEPT ![e] = record.state]
      /\ pending' \in {pending, [pending EXCEPT ![e] = Nothing]}
      /\ UNCHANGED <<generated, rotations, net, delivered, returned,
                     records, committed, floor>>
  BY <1>2 DEF Restore
<1> QED
  BY <1>2, <1>3, <1>4, ReplacedStep

----------------------------------------------------------------------------
(* The invariant.                                                          *)

LEMMA InitialGeneration ==
    ASSUME NEW e \in Role, NEW s \in Suites
    PROVE  from_authenticated_handshake_with_suite(e, s).generation = 0
  BY DEF from_authenticated_handshake_with_suite

LEMMA RecordsInit == PersistInit => RecordsInv
<1> SUFFICES ASSUME PersistInit
             PROVE  RecordsInv
  OBVIOUS
<1>1. /\ Init
      /\ up = [e \in Role |-> TRUE]
      /\ pending = [e \in Role |-> Nothing]
      /\ committed = ratchet
      /\ floor = [e \in Role |-> 0]
  BY DEF PersistInit
<1>2. PICK version \in [Role -> StoredVersions] :
        /\ \A e \in Role : version[e] = LEGACY_VERSION => ratchet[e].suite = DEFAULT_SUITE
        /\ records = [e \in Role |-> {Seal(e, version[e], ratchet[e])}]
  BY DEF PersistInit
<1>3. TypeOK /\ net = {}
  BY <1>1, InitInv DEF RatchetInv, Init
<1>4. \A e \in Role : ratchet[e] \in RatchetState /\ ratchet[e].generation = 0
  <2>1. PICK suite \in [Role -> Suites] :
          ratchet = [e \in Role |-> from_authenticated_handshake_with_suite(e, suite[e])]
    BY <1>1 DEF Init
  <2>2. ASSUME NEW e \in Role
        PROVE  ratchet[e].generation = 0
    <3>1. suite[e] \in Suites
      OBVIOUS
    <3> QED
      BY <2>1, <3>1, InitialGeneration
  <2> QED
    BY <1>3, <2>2 DEF TypeOK
<1>5. ASSUME NEW e \in Role, NEW record \in records[e]
      PROVE  /\ record.state = ratchet[e]
             /\ record.version = version[e]
             /\ record.generation = ratchet[e].generation
             /\ record.aad = state_aad(e, version[e])
  BY <1>2 DEF Seal
<1>6. Nothing \in [out : SUBSET InnerFrame, in : SUBSET InnerFrame]
      /\ Nothing.in = {} /\ Nothing.out = {}
  BY DEF Nothing
<1>7. PersistTypeOK
  <2>1. floor \in [Role -> 0..GEN_MAX]
    BY <1>1, LimitsAssumption
  <2>2. \A e \in Role : pending[e].out \subseteq InnerFrame /\ pending[e].in \subseteq InnerFrame
    BY <1>1, <1>6
  <2>3. committed \in [Role -> RatchetState] /\ up \in [Role -> BOOLEAN]
    BY <1>1, <1>3 DEF TypeOK
  <2>4. \A e \in Role : \A record \in records[e] : record.state \in RatchetState
    BY <1>4, <1>5
  <2> QED
    BY <1>3, <2>1, <2>2, <2>3, <2>4 DEF PersistTypeOK
<1>8. PendingInv
  <2>1. pending \in [Role -> [out : SUBSET InnerFrame, in : SUBSET InnerFrame]]
    BY <1>1, <1>6
  <2>2. \A e \in Role : pending[e].in = {} /\ pending[e].out = {}
    BY <1>1, <1>6
  <2>3. records = [e \in Role |-> records[e]]
    BY <1>2
  <2> QED
    BY <1>3, <2>1, <2>2, <2>3, FS_EmptySet DEF PendingInv
<1>9. GenerationInv
  <2> SUFFICES ASSUME NEW e \in Role
               PROVE  /\ floor[e] = committed[e].generation
                      /\ floor[e] <= ratchet[e].generation
                      /\ SameSessionState(ratchet[e], committed[e])
                      /\ \A record \in records[e] :
                           /\ record.aad = state_aad(e, record.version)
                           /\ record.version = LEGACY_VERSION
                                => record.state.suite = DEFAULT_SUITE
                           /\ record.generation = record.state.generation
                           /\ record.generation <= floor[e]
                           /\ SameSessionState(record.state, committed[e])
    BY DEF GenerationInv
  <2>1. floor[e] = 0 /\ committed[e] = ratchet[e] /\ ratchet[e].generation = 0
    BY <1>1, <1>4
  <2>2. SameSessionState(ratchet[e], ratchet[e])
    BY DEF SameSessionState
  <2> QED
    BY <1>2, <1>5, <2>1, <2>2
<1> QED
  BY <1>7, <1>8, <1>9 DEF RecordsInv

LEMMA RecordsStutter ==
    ASSUME RecordsInv, UNCHANGED persistVars
    PROVE  RecordsInv'
<1>1. PersistTypeOK'
  BY DEF RecordsInv, PersistTypeOK, TypeOK, persistVars, vars
<1>2. PendingInv'
  BY DEF RecordsInv, PendingInv, persistVars, vars
<1>3. GenerationInv'
  BY DEF RecordsInv, GenerationInv, persistVars, vars
<1> QED
  BY <1>1, <1>2, <1>3 DEF RecordsInv

LEMMA RecordsNext == RecordsInv /\ [PersistNext]_persistVars => RecordsInv'
<1> SUFFICES ASSUME RecordsInv, [PersistNext]_persistVars
             PROVE  RecordsInv'
  OBVIOUS
<1>1. CASE UNCHANGED persistVars
  BY <1>1, RecordsStutter
<1>2. CASE PersistNext
  <2>1. PICK e \in Role :
          \/ LocalEncrypt(e)
          \/ LocalEncryptExhausted(e)
          \/ LocalRotate(e)
          \/ \E f \in net :
               \/ LocalDecryptSkipped(e, f)
               \/ LocalDecryptSameRatchet(e, f)
               \/ LocalDecryptNewRatchet(e, f)
               \/ LocalDecryptRejected(e, f)
          \/ Commit(e)
          \/ Crash(e)
          \/ \E record \in AllRecords : Restore(e, record) \/ RestoreRefused(e, record)
    BY <1>2 DEF PersistNext
  <2>2. CASE LocalEncrypt(e)
    BY <2>2, LocalEncryptStep
  <2>3. CASE LocalEncryptExhausted(e)
    BY <2>3, LocalExhaustedStep
  <2>4. CASE LocalRotate(e)
    BY <2>4, LocalRotateStep
  <2>5. ASSUME NEW f \in net, \/ LocalDecryptSkipped(e, f)
                              \/ LocalDecryptSameRatchet(e, f)
                              \/ LocalDecryptNewRatchet(e, f)
        PROVE  RecordsInv'
    BY <2>5, LocalDecryptStep
  <2>6. ASSUME NEW f \in net, LocalDecryptRejected(e, f)
        PROVE  RecordsInv'
    BY <2>6, RecordsStutter DEF LocalDecryptRejected
  <2>7. CASE Commit(e)
    BY <2>7, CommitStep
  <2>8. CASE Crash(e)
    BY <2>8, CrashStep
  <2>9. ASSUME NEW record \in AllRecords, Restore(e, record)
        PROVE  RecordsInv'
    BY <2>9, RestoreStep
  <2>10. ASSUME NEW record \in AllRecords, RestoreRefused(e, record)
         PROVE  RecordsInv'
    BY <2>10, RecordsStutter DEF RestoreRefused
  <2> QED
    BY <2>1, <2>2, <2>3, <2>4, <2>5, <2>6, <2>7, <2>8, <2>9, <2>10
<1> QED
  BY <1>1, <1>2

\* The invariant holds whatever crashes and whatever storage presents.
LEMMA RecordsInvariance == PersistSpec => []RecordsInv
<1>1. PersistInit => RecordsInv
  BY RecordsInit
<1>2. RecordsInv /\ [PersistNext]_persistVars => RecordsInv'
  BY RecordsNext
<1> QED
  BY <1>1, <1>2, PTL DEF PersistSpec

\* Every state in memory, in the last commit and in any record restore_state
\* may be handed has its type.
THEOREM PersistTypeCorrect == PersistSpec => []PersistTypeOK
<1>1. RecordsInv => PersistTypeOK
  BY DEF RecordsInv
<1> QED
  BY <1>1, RecordsInvariance, PTL

LEMMA FloorPins ==
    RecordsInv => ((\A e \in Role : floor[e] < GEN_MAX) => FloorPinsState)
<1> SUFFICES ASSUME RecordsInv, \A e \in Role : floor[e] < GEN_MAX,
                    NEW e \in Role, NEW record \in records[e],
                    Restores(record, e, floor[e])
             PROVE  SameSessionState(decode_state(record), committed[e])
  BY DEF FloorPinsState
<1>1. record \in AllRecords
  BY DEF AllRecords, Role
<1> QED
  BY <1>1, Restored

\* As long as no generation has saturated, restore_state refuses what storage
\* presents or yields the state of the last commit, after any number of
\* operations, commits, crashes and restores of either end.
THEOREM FloorPinsCommit ==
    PersistSpec => []((\A e \in Role : floor[e] < GEN_MAX) => FloorPinsState)
  BY FloorPins, RecordsInvariance, PTL

----------------------------------------------------------------------------
(* Snapshots, saturated or not.                                            *)

LEMMA Uses ==
    \A x : x \in KeyUses <=>
              \/ \E e \in Role : \E s \in StatesOf(e) : x = StateUse(s)
              \/ \E f \in net : x = FrameUse(f)
              \/ \E e \in Role : \E f \in pending[e].out : x = FrameUse(f)
  BY DEF KeyUses

LEMMA StoredTypes ==
    ASSUME RecordsInv, NEW e \in Role, NEW s \in StatesOf(e)
    PROVE  s \in RatchetState
  BY DEF StatesOf, RecordsInv, PersistTypeOK, TypeOK

LEMMA UseTypes ==
    ASSUME RecordsInv, NEW x \in KeyUses
    PROVE  x.key \in DhKey /\ x.root \in RootKey /\ Len(x.root) \in Nat
<1>1. ASSUME NEW f \in InnerFrame, x = FrameUse(f)
      PROVE  x.key \in DhKey /\ x.root \in RootKey /\ Len(x.root) \in Nat
  BY <1>1, FrameTypes DEF FrameUse
<1>2. ASSUME NEW s \in RatchetState, x = StateUse(s)
      PROVE  x.key \in DhKey /\ x.root \in RootKey /\ Len(x.root) \in Nat
  BY <1>2, StateTypes DEF StateUse
<1>3. /\ \A f \in net : f \in InnerFrame
      /\ \A e \in Role : \A f \in pending[e].out : f \in InnerFrame
  BY DEF RecordsInv, PersistTypeOK, TypeOK
<1> QED
  BY <1>1, <1>2, <1>3, Uses, StoredTypes

\* A step of the invariant: it may add one state, and the use of that state's key
\* pair, which is fresh unless the key was in use before.
LEMMA SnapshotStep ==
    ASSUME RecordsInv, SnapshotsInv, NEW n \in RatchetState, Storable(n),
           \A e \in Role : \A s \in StatesOf(e)' : s = n \/ \E d \in Role : s \in StatesOf(d),
           \A x \in KeyUses' : x \in KeyUses \/ x = StateUse(n),
           \A k \in DhKey : Drawn(k) => Drawn(k)',
           StateUse(n) \in KeyUses \/ (~Drawn(n.dh_pair) /\ Drawn(n.dh_pair)')
    PROVE  SnapshotsInv'
<1>1. StateUse(n).key = n.dh_pair
  BY DEF StateUse
<1>2. \A x \in KeyUses : x.key \in DhKey /\ Drawn(x.key) /\ Drawn(x.key)'
  BY UseTypes DEF SnapshotsInv, KeyUsesInv
<1>3. KeyUsesInv'
  <2>1. \A x, y \in KeyUses : x.key = y.key => x.root = y.root
    BY DEF SnapshotsInv, KeyUsesInv
  <2>2. \A x \in KeyUses' : Drawn(x.key)'
    BY <1>1, <1>2
  <2>3. \A x, y \in KeyUses' : x.key = y.key => x.root = y.root
    BY <1>1, <1>2, <2>1
  <2> QED
    BY <2>2, <2>3 DEF KeyUsesInv
<1>4. ASSUME NEW s, NEW k \in DhKey, Behind(s, k)
      PROVE  Behind(s, k)'
  <2>1. ASSUME NEW x \in KeyUses', x.key = k
        PROVE  x \in KeyUses
    BY <1>1, <1>4, <2>1 DEF Behind
  <2> QED
    BY <1>4, <2>1 DEF Behind
<1>5. ASSUME NEW s \in RatchetState, Storable(s)
      PROVE  Storable(s)'
  <2>1. \A k \in ReceivedKeys(s) : k \in DhKey
    BY StateTypes DEF ReceivedKeys
  <2>2. \A k \in ReceivedKeys(s) : Behind(s, k)'
    BY <1>4, <1>5, <2>1 DEF Storable
  <2> QED
    BY <1>5, <2>2 DEF Storable, Encodes, NoDuplicates, ReceivedKeys
<1>6. \A e \in Role : \A s \in StatesOf(e) : s \in RatchetState /\ Storable(s)
  BY StoredTypes DEF SnapshotsInv
<1>7. \A e \in Role : \A s \in StatesOf(e)' : Storable(s)'
  BY <1>5, <1>6
<1> QED
  BY <1>3, <1>7 DEF SnapshotsInv

\* What neither receives nor shortens the root leaves a state storable.
LEMMA SameStore ==
    ASSUME NEW r \in RatchetState, NEW n \in RatchetState, RecordsInv, Storable(r),
           n.skipped = r.skipped, n.remote_dh = r.remote_dh,
           n.receiving_count = r.receiving_count, Len(r.root_key) <= Len(n.root_key)
    PROVE  Storable(n)
<1>1. ReceivedKeys(n) = ReceivedKeys(r)
  BY DEF ReceivedKeys
<1>2. Len(r.root_key) \in Nat /\ Len(n.root_key) \in Nat
  BY StateTypes
<1>3. ASSUME NEW k, Behind(r, k)
      PROVE  Behind(n, k)
  BY <1>2, <1>3, UseTypes DEF Behind
<1> QED
  BY <1>1, <1>3 DEF Storable, Encodes

\* One entry less leaves it storable.
LEMMA FewerStored ==
    ASSUME NEW r \in RatchetState, Storable(r), NEW i \in 1..Len(r.skipped)
    PROVE  Storable(AfterSkipped(r, i))
<1> DEFINE n == AfterSkipped(r, i)
           t == RemoveAt(r.skipped, i)
<1>1. /\ n.skipped = t /\ n.remote_dh = r.remote_dh /\ n.root_key = r.root_key
      /\ n.receiving_count = r.receiving_count
  BY SkippedFields
<1>2. Len(r.skipped) \in Nat /\ r.skipped \in Seq(SkippedMessageKey)
  BY StateTypes
<1>3. /\ Len(t) = Len(r.skipped) - 1
      /\ \A j \in 1..Len(t) : t[j] = r.skipped[IF j < i THEN j ELSE j + 1]
  BY <1>2, RemoveAtType
<1> HIDE DEF n, t
<1>4. \A j \in 1..Len(t) : (IF j < i THEN j ELSE j + 1) \in 1..Len(r.skipped)
  BY <1>2, <1>3
<1>5. \A k \in ReceivedKeys(n) : k \in ReceivedKeys(r)
  BY <1>1, <1>3, <1>4 DEF ReceivedKeys
<1>6. ASSUME NEW k, Behind(r, k)
      PROVE  Behind(n, k)
  BY <1>1, <1>6 DEF Behind
<1>7. Encodes(n)
  BY <1>1, <1>2, <1>3, LimitsAssumption DEF Storable, Encodes
<1>8. NoDuplicates(n.skipped)
  <2> SUFFICES ASSUME NEW j \in 1..Len(t), NEW m \in 1..Len(t),
                      t[j].remote_dh = t[m].remote_dh, t[j].message_number = t[m].message_number
               PROVE  j = m
    BY <1>1 DEF NoDuplicates
  <2>1. (IF j < i THEN j ELSE j + 1) = (IF m < i THEN m ELSE m + 1)
    BY <1>3, <1>4 DEF Storable, NoDuplicates
  <2> QED
    BY <2>1, <1>2, <1>3
<1>9. \A j \in 1..Len(t) : t[j].remote_dh = n.remote_dh => t[j].message_number < n.receiving_count
  BY <1>1, <1>3, <1>4 DEF Storable
<1> QED
  BY <1>1, <1>5, <1>6, <1>7, <1>8, <1>9 DEF Storable, n

LEMMA EntryNumbers ==
    ASSUME NEW s \in Seq(SkippedMessageKey)
    PROVE  \A i \in 1..Len(s) : s[i].message_number \in Nat
<1>1. ASSUME NEW i \in 1..Len(s)
      PROVE  s[i] \in SkippedMessageKey
  OBVIOUS
<1> QED
  BY <1>1 DEF SkippedMessageKey

\* The entries of t under key k have numbers below count.
BelowCount(t, k, count) == \A i \in 1..Len(t) : t[i].remote_dh = k => t[i].message_number < count

\* t's entries are distinct, those under k below end, and the others come from s.
Grown(t, s, k, end) ==
    /\ NoDuplicates(t)
    /\ BelowCount(t, k, end)
    /\ \A i \in 1..Len(t) : t[i].remote_dh = k \/ \E j \in 1..Len(s) : t[i] = s[j]

\* A range appended to a store whose entries under its key lie below it: the
\* entries stay distinct, and below the end of the range.
LEMMA ExtendedStore ==
    ASSUME NEW s \in Seq(SkippedMessageKey), NEW t, NEW k, NEW start \in Nat, NEW end \in Nat,
           start <= end, Extends(t, s, k, start, end),
           NoDuplicates(s), BelowCount(s, k, start)
    PROVE  Grown(t, s, k, end)
<1>1. /\ Len(s) \in Nat /\ Len(t) = Len(s) + (end - start)
      /\ \A i \in 1..Len(s) : t[i] = s[i]
      /\ \A i \in (Len(s) + 1)..Len(t) :
           /\ t[i].remote_dh = k
           /\ t[i].message_number = start + (i - Len(s)) - 1
  BY DEF Extends
<1>2. \A i \in 1..Len(s) : s[i].message_number \in Nat
  BY EntryNumbers
<1> DEFINE old == 1..Len(s)
           new == (Len(s) + 1)..Len(t)
<1>3. \A i \in 1..Len(t) : i \in old \/ i \in new
  BY <1>1
<1>4. \A i \in new : /\ start <= t[i].message_number /\ t[i].message_number < end
                     /\ t[i].message_number \in Nat
  BY <1>1
<1>5. \A i \in old : /\ t[i].message_number \in Nat
                     /\ t[i].remote_dh = k => t[i].message_number < start
  BY <1>1, <1>2 DEF BelowCount
<1>6. \A i, j \in new : t[i].message_number = t[j].message_number => i = j
  BY <1>1
<1>7. \A i, j \in old :
        t[i].remote_dh = t[j].remote_dh /\ t[i].message_number = t[j].message_number => i = j
  BY <1>1 DEF NoDuplicates
<1>8. \A i \in new : t[i].remote_dh = k
  BY <1>1
<1>9. \A i \in old : t[i] = s[i]
  BY <1>1
<1> HIDE DEF old, new
<1>10. \A i \in old, j \in new :
         ~(t[i].remote_dh = t[j].remote_dh /\ t[i].message_number = t[j].message_number)
  BY <1>4, <1>5, <1>8
<1>11. NoDuplicates(t)
  BY <1>3, <1>6, <1>7, <1>10 DEF NoDuplicates
<1>12. BelowCount(t, k, end)
  BY <1>3, <1>4, <1>5 DEF BelowCount
<1> QED
  BY <1>3, <1>8, <1>9, <1>11, <1>12 DEF old, Grown

\* A frame opened in the same chain extends the store within its limit.
LEMMA SameRatchetStored ==
    ASSUME NEW r \in RatchetState, NEW f \in InnerFrame, Storable(r),
           OpensSameRatchet(r, f), f.message_number < COUNTER_MAX
    PROVE  Storable(AfterSameRatchet(r, f))
<1> DEFINE n == AfterSameRatchet(r, f)
           k == r.remote_dh
           s == r.skipped
           t == s \o derive_range(k, r.receiving_chain, r.receiving_count, f.message_number)
<1>1. /\ r.receiving_count \in Nat /\ f.message_number \in Nat
      /\ s \in Seq(SkippedMessageKey) /\ Len(s) \in Nat
      /\ k \in DhKey /\ r.receiving_chain \in ChainKey
  BY StateTypes, FrameTypes
<1>2. /\ r.receiving_count <= f.message_number
      /\ Len(s) + (f.message_number - r.receiving_count) <= MAX_SKIPPED_KEYS
  BY DEF OpensSameRatchet, RangeAllowed
<1>3. /\ n.skipped = t /\ n.remote_dh = k /\ n.root_key = r.root_key
      /\ n.receiving_count = f.message_number + 1
  BY <1>2, SameRatchetFields
<1>4. Extends(t, s, k, r.receiving_count, f.message_number)
  BY <1>1, <1>2, AppendRange
<1>5. NoDuplicates(s) /\ BelowCount(s, k, r.receiving_count)
  BY DEF Storable, BelowCount
<1> HIDE DEF n, k, s, t
<1>6. Grown(t, s, k, f.message_number)
  <2>1. s \in Seq(SkippedMessageKey) /\ r.receiving_count \in Nat /\ f.message_number \in Nat
    BY <1>1
  <2>2. r.receiving_count <= f.message_number
    BY <1>2
  <2> QED
    BY ONLY <2>1, <2>2, <1>4, <1>5, ExtendedStore
<1>7. t \in Seq(SkippedMessageKey) /\ Len(t) <= MAX_SKIPPED_KEYS
  <2>1. t \in Seq(SkippedMessageKey) /\ Len(t) = Len(s) + (f.message_number - r.receiving_count)
    BY ONLY <1>4 DEF Extends
  <2> QED
    BY ONLY <2>1, <1>1, <1>2
<1>8. \A i \in 1..Len(t) : t[i].remote_dh = k => t[i].message_number < f.message_number + 1
  <2>1. \A i \in 1..Len(t) : t[i].message_number \in Nat
    BY <1>7, EntryNumbers
  <2> QED
    BY <2>1, <1>1, <1>6 DEF Grown, BelowCount
<1>9. \A y \in ReceivedKeys(n) : y \in ReceivedKeys(r)
  BY <1>3, <1>6 DEF ReceivedKeys, Grown, k, s
<1>10. \A y \in ReceivedKeys(n) : Behind(n, y)
  BY <1>3, <1>9 DEF Storable, Behind
<1> QED
  BY <1>3, <1>6, <1>7, <1>8, <1>10 DEF Storable, Encodes, Grown, n

\* A frame that starts a new ratchet advertises a key that is new to the store.
LEMMA NewRatchetStored ==
    ASSUME RecordsInv, KeyUsesInv, NEW r \in RatchetState, NEW f \in net, NEW k \in DhKey,
           Storable(r), OpensNewRatchet(r, f), f.message_number < COUNTER_MAX
    PROVE  Storable(AfterNewRatchet(r, f, k))
<1> DEFINE n == AfterNewRatchet(r, f, k)
           d == r.remote_dh
           q == f.ratchet_public
           s == r.skipped
           dh == diffie_hellman(r.dh_pair, q)
           u == s \o derive_range(d, r.receiving_chain, r.receiving_count, f.previous_chain_len)
           t == u \o derive_range(q, root_chain(r.root_key, dh), 0, f.message_number)
<1>1. f \in InnerFrame
  BY DEF RecordsInv, PersistTypeOK, TypeOK
<1>2. /\ r.receiving_count \in Nat /\ f.message_number \in Nat /\ f.previous_chain_len \in Nat
      /\ s \in Seq(SkippedMessageKey) /\ Len(s) \in Nat
      /\ d \in DhKey /\ q \in DhKey /\ r.dh_pair \in DhKey
      /\ r.receiving_chain \in ChainKey /\ r.root_key \in RootKey /\ Len(r.root_key) \in Nat
  BY <1>1, StateTypes, FrameTypes
<1>3. /\ r.receiving_count <= f.previous_chain_len
      /\ Len(s) + (f.previous_chain_len - r.receiving_count) + f.message_number
           <= MAX_SKIPPED_KEYS
  <2>1. /\ RangeAllowed(r.receiving_count, f.previous_chain_len, Len(s))
        /\ RangeAllowed(0, f.message_number,
                        Len(s) + (f.previous_chain_len - r.receiving_count))
    BY DEF OpensNewRatchet
  <2> HIDE DEF s
  <2> QED
    BY <2>1, <1>2 DEF RangeAllowed
<1>4. /\ n.skipped = t /\ n.remote_dh = q
      /\ n.receiving_count = f.message_number + 1
      /\ n.root_key = next_root(next_root(r.root_key, dh), diffie_hellman(k, q))
  BY <1>1, <1>3, NewRatchetFields
<1>5. /\ next_root(r.root_key, dh) \in RootKey
      /\ Len(next_root(r.root_key, dh)) = Len(r.root_key) + 1
      /\ root_chain(r.root_key, dh) \in ChainKey
  <2>1. RootStep(r.root_key, r.dh_pair, q)
    BY <1>2, RootStepTypes
  <2> QED
    BY ONLY <2>1 DEF RootStep
<1>6. Len(n.root_key) = Len(r.root_key) + 2
  <2>1. Len(n.root_key) = Len(next_root(r.root_key, dh)) + 1
    <3>1. RootStep(next_root(r.root_key, dh), k, q)
      BY <1>2, <1>5, RootStepTypes
    <3> QED
      BY ONLY <3>1, <1>4 DEF RootStep
  <2> QED
    BY <2>1, <1>2, <1>5
<1>7. Len(f.key.root) = Len(r.root_key) + 1
  BY <1>1, NewRatchetRoot
<1>8. Extends(u, s, d, r.receiving_count, f.previous_chain_len)
  BY <1>2, <1>3, AppendRange
<1> HIDE DEF u
<1>9. Extends(t, u, q, 0, f.message_number)
  <2>1. u \in Seq(SkippedMessageKey) /\ 0 \in Nat /\ 0 <= f.message_number
    BY <1>2, <1>8 DEF Extends
  <2> QED
    BY <2>1, <1>2, <1>5, AppendRange
<1> HIDE DEF n, d, q, s, t
<1>10. Grown(u, s, d, f.previous_chain_len)
  <2>1. NoDuplicates(s) /\ BelowCount(s, d, r.receiving_count)
    BY DEF Storable, BelowCount, s, d
  <2> QED
    <3>1. /\ s \in Seq(SkippedMessageKey)
          /\ r.receiving_count \in Nat /\ f.previous_chain_len \in Nat
      BY <1>2
    <3>2. r.receiving_count <= f.previous_chain_len
      BY <1>3
    <3> QED
      BY ONLY <3>1, <3>2, <2>1, <1>8, ExtendedStore
<1>11. \A i \in 1..Len(u) : u[i].remote_dh \in ReceivedKeys(r)
  BY <1>10 DEF ReceivedKeys, Grown, s, d
\* f's chain hangs off a longer root than any the store remembers.
<1>12. FrameUse(f) \in KeyUses /\ FrameUse(f).key = q /\ FrameUse(f).root = f.key.root
  BY Uses DEF FrameUse, q
<1>13. q \notin ReceivedKeys(r)
  BY <1>2, <1>7, <1>12 DEF Storable, Behind
<1>14. Grown(t, u, q, f.message_number)
  <2>1. BelowCount(u, q, 0)
    BY <1>11, <1>13 DEF BelowCount
  <2>2. u \in Seq(SkippedMessageKey) /\ 0 \in Nat /\ f.message_number \in Nat
    BY <1>2, <1>8 DEF Extends
  <2>3. 0 <= f.message_number
    BY <2>2
  <2>4. NoDuplicates(u)
    BY <1>10 DEF Grown
  <2> QED
    BY ONLY <2>1, <2>2, <2>3, <2>4, <1>9, ExtendedStore
<1>15. t \in Seq(SkippedMessageKey) /\ Len(t) <= MAX_SKIPPED_KEYS
  BY <1>2, <1>3, <1>8, <1>9 DEF Extends
<1>16. \A i \in 1..Len(t) : t[i].remote_dh = q => t[i].message_number < f.message_number + 1
  <2>1. \A i \in 1..Len(t) : t[i].message_number \in Nat
    BY <1>15, EntryNumbers
  <2> QED
    BY <2>1, <1>2, <1>14 DEF Grown, BelowCount
<1>17. \A y \in ReceivedKeys(n) : y = q \/ y \in ReceivedKeys(r)
  BY <1>4, <1>11, <1>14 DEF ReceivedKeys, Grown
<1>18. ASSUME NEW y \in ReceivedKeys(r)
       PROVE  Behind(n, y)
  <2>1. Behind(r, y)
    BY DEF Storable
  <2> QED
    BY <2>1, <1>2, <1>6, UseTypes DEF Behind
<1>19. Behind(n, q)
  <2>1. \A x \in KeyUses : x.key = q => x.root = f.key.root
    BY <1>12 DEF KeyUsesInv
  <2>2. Drawn(q)
    BY <1>12 DEF KeyUsesInv
  <2> QED
    BY <2>1, <2>2, <1>2, <1>6, <1>7 DEF Behind
<1> QED
  BY <1>4, <1>14, <1>15, <1>16, <1>17, <1>18, <1>19 DEF Storable, Encodes, Grown, n

\* A step that stores and uses only what was stored and used before.
LEMMA Rearranged ==
    ASSUME RecordsInv, SnapshotsInv, generated' = generated,
           \A e \in Role : \A s \in StatesOf(e)' : \E d \in Role : s \in StatesOf(d),
           \A x \in KeyUses' : x \in KeyUses
    PROVE  SnapshotsInv'
<1> DEFINE n == ratchet["Initiator"]
<1>1. "Initiator" \in Role /\ n \in StatesOf("Initiator")
  BY DEF Role, StatesOf
<1>2. n \in RatchetState /\ Storable(n)
  BY <1>1, StoredTypes DEF SnapshotsInv
<1>3. StateUse(n) \in KeyUses
  BY <1>1, Uses
<1>4. \A k \in DhKey : Drawn(k) => Drawn(k)'
  BY DEF Drawn
<1> HIDE DEF n
<1> QED
  BY <1>2, <1>3, <1>4, SnapshotStep

\* An operation in memory turns r into n: n can be stored, keeps r's key pair and
\* chain root or has drawn a fresh pair, and only a frame of r may be sealed.
LEMMA LocalSnapshot ==
    ASSUME RecordsInv, SnapshotsInv, NEW e \in Role, NEW n \in RatchetState, Storable(n),
           ratchet' = [ratchet EXCEPT ![e] = n], UNCHANGED Durable,
           \A d \in Role : \A f \in pending'[d].out :
               f \in pending[d].out \/ FrameUse(f) = StateUse(ratchet[e]),
           \/ generated' = generated /\ StateUse(n) = StateUse(ratchet[e])
           \/ /\ generated' = [generated EXCEPT ![e] = @ + 1]
              /\ n.dh_pair = generate(e)
    PROVE  SnapshotsInv'
<1>1. ratchet \in [Role -> RatchetState] /\ generated \in [Role -> Nat]
  BY DEF RecordsInv, PersistTypeOK, TypeOK
<1>2. UNCHANGED <<net, records, committed>>
  BY DEF Durable
<1>3. \A d \in Role : ratchet'[d] = n \/ ratchet'[d] = ratchet[d]
  BY <1>1
<1>4. \A d \in Role : \A s \in StatesOf(d)' : s = n \/ s \in StatesOf(d)
  BY <1>2, <1>3 DEF StatesOf
<1>5. StateUse(ratchet[e]) \in KeyUses
  BY Uses DEF StatesOf
<1>6. \A x \in KeyUses' :
         \/ \E d \in Role : \E s \in StatesOf(d)' : x = StateUse(s)
         \/ \E f \in net' : x = FrameUse(f)
         \/ \E d \in Role : \E f \in pending'[d].out : x = FrameUse(f)
  BY DEF KeyUses, StateUse, FrameUse
<1>7. \A x \in KeyUses' : x \in KeyUses \/ x = StateUse(n)
  BY <1>2, <1>4, <1>5, <1>6, Uses
<1>8. ASSUME NEW k \in DhKey, Drawn(k)
      PROVE  Drawn(k)'
  <2>1. k[1] \in Role /\ k[2] \in Nat
    BY DEF DhKey
  <2>2. generated[k[1]] \in Nat
    BY <1>1, <2>1
  <2>3. generated'[k[1]] = generated[k[1]] \/ generated'[k[1]] = generated[k[1]] + 1
    BY <1>1, <2>1
  <2> QED
    BY <1>8, <2>1, <2>2, <2>3 DEF Drawn
<1>9. ASSUME generated' = [generated EXCEPT ![e] = @ + 1], n.dh_pair = generate(e)
      PROVE  ~Drawn(n.dh_pair) /\ Drawn(n.dh_pair)'
  <2>1. n.dh_pair[1] = e /\ n.dh_pair[2] = generated[e] + 1
    BY <1>9 DEF generate
  <2>2. generated[e] \in Nat /\ generated'[e] = generated[e] + 1
    BY <1>1, <1>9
  <2> QED
    BY <2>1, <2>2 DEF Drawn
<1>10. StateUse(n) \in KeyUses \/ (~Drawn(n.dh_pair) /\ Drawn(n.dh_pair)')
  BY <1>5, <1>9
<1> QED
  BY <1>4, <1>7, <1>8, <1>10, SnapshotStep

LEMMA MemorySnapshot ==
    ASSUME RecordsInv, SnapshotsInv, NEW e \in Role
    PROVE  ratchet[e] \in RatchetState /\ Storable(ratchet[e])
  BY LocalTypes DEF SnapshotsInv, StatesOf

LEMMA EncryptSnapshot ==
    ASSUME RecordsInv, SnapshotsInv, NEW e \in Role, LocalEncrypt(e)
    PROVE  SnapshotsInv'
<1> DEFINE r == ratchet[e]
           n == AfterEncrypt(r)
           g == Frame(r)
<1>1. /\ r.sending_count < COUNTER_MAX
      /\ ratchet' = [ratchet EXCEPT ![e] = n]
      /\ pending' = [pending EXCEPT ![e].out = @ \cup {g}]
      /\ UNCHANGED <<generated, rotations, Durable>>
  BY DEF LocalEncrypt
<1>2. r \in RatchetState /\ Storable(r)
  BY MemorySnapshot
<1>3. /\ n \in RatchetState /\ n.sending_chain = Advance(r.sending_chain, 1)
      /\ n.dh_pair = r.dh_pair /\ n.remote_dh = r.remote_dh /\ n.skipped = r.skipped
      /\ n.receiving_count = r.receiving_count /\ n.root_key = r.root_key
  BY <1>1, <1>2, EncryptFields
<1>4. g.ratchet_public = r.dh_pair /\ g.key = KeyOf(r.sending_chain)
  BY <1>2, FrameFields
<1> HIDE DEF n, g
<1>5. r.sending_chain \in ChainKey /\ Len(r.root_key) \in Nat
  BY <1>2, StateTypes
<1>6. n.sending_chain.root = r.sending_chain.root /\ g.key.root = r.sending_chain.root
  BY <1>3, <1>4, <1>5, ScheduleTypes
<1>7. StateUse(n) = StateUse(r) /\ FrameUse(g) = StateUse(r)
  BY <1>3, <1>4, <1>6 DEF StateUse, FrameUse
<1>8. Storable(n)
  BY <1>2, <1>3, <1>5, SameStore
<1>9. \A d \in Role : \A f \in pending'[d].out : f \in pending[d].out \/ f = g
  BY <1>1, LocalTypes
<1> QED
  BY <1>1, <1>3, <1>7, <1>8, <1>9, LocalSnapshot

LEMMA ExhaustedSnapshot ==
    ASSUME RecordsInv, SnapshotsInv, NEW e \in Role, LocalEncryptExhausted(e)
    PROVE  SnapshotsInv'
<1> DEFINE r == ratchet[e]
           n == [r EXCEPT !.sending_chain = Advance(@, 1)]
<1>1. /\ ratchet' = [ratchet EXCEPT ![e].sending_chain = Advance(@, 1)]
      /\ UNCHANGED <<generated, rotations, pending, Durable>>
  BY DEF LocalEncryptExhausted
<1>2. ratchet' = [ratchet EXCEPT ![e] = n]
  BY <1>1
<1>3. r \in RatchetState /\ Storable(r)
  BY MemorySnapshot
<1>4. /\ n \in RatchetState /\ n.sending_chain = Advance(r.sending_chain, 1)
      /\ n.dh_pair = r.dh_pair /\ n.remote_dh = r.remote_dh /\ n.skipped = r.skipped
      /\ n.receiving_count = r.receiving_count /\ n.root_key = r.root_key
  BY <1>3, ExhaustedFields
<1> HIDE DEF n
<1>5. r.sending_chain \in ChainKey /\ Len(r.root_key) \in Nat
  BY <1>3, StateTypes
<1>6. n.sending_chain.root = r.sending_chain.root
  <2>1. Advance(r.sending_chain, 1).root = r.sending_chain.root
    BY <1>5, ScheduleTypes
  <2> QED
    BY ONLY <2>1, <1>4
<1>7. StateUse(n) = StateUse(r)
  BY <1>4, <1>6 DEF StateUse
<1>8. Storable(n)
  BY <1>3, <1>4, <1>5, SameStore
<1> QED
  BY <1>1, <1>2, <1>4, <1>7, <1>8, LocalSnapshot

LEMMA RotateSnapshot ==
    ASSUME RecordsInv, SnapshotsInv, NEW e \in Role, LocalRotate(e)
    PROVE  SnapshotsInv'
<1> DEFINE r == ratchet[e]
           k == generate(e)
           n == AfterRotation(r, k)
<1>1. /\ ratchet' = [ratchet EXCEPT ![e] = n]
      /\ generated' = [generated EXCEPT ![e] = @ + 1]
      /\ UNCHANGED <<pending, Durable>>
  BY DEF LocalRotate
<1>2. r \in RatchetState /\ Storable(r) /\ k \in DhKey
  BY MemorySnapshot, LocalTypes
<1>3. /\ n \in RatchetState
      /\ n.root_key = next_root(r.root_key, diffie_hellman(k, r.remote_dh))
      /\ n.dh_pair = k /\ n.remote_dh = r.remote_dh /\ n.skipped = r.skipped
      /\ n.receiving_count = r.receiving_count
  BY <1>2, RotationFields
<1> HIDE DEF n, k
<1>4. r.root_key \in RootKey /\ Len(r.root_key) \in Nat /\ r.remote_dh \in DhKey
  BY <1>2, StateTypes
<1>5. Len(n.root_key) = Len(r.root_key) + 1
  <2>1. RootStep(r.root_key, k, r.remote_dh)
    BY <1>2, <1>4, RootStepTypes
  <2> QED
    BY ONLY <2>1, <1>3 DEF RootStep
<1>6. Len(r.root_key) <= Len(n.root_key)
  BY ONLY <1>4, <1>5
<1>7. Storable(n)
  BY <1>2, <1>3, <1>6, SameStore
<1>8. n.dh_pair = generate(e)
  BY <1>3 DEF k
<1> QED
  BY <1>1, <1>3, <1>7, <1>8, LocalSnapshot

\* Receiving seals no frame.
LEMMA ReceiveSeals ==
    ASSUME RecordsInv, NEW e \in Role, NEW f \in net, NEW r, LocalReceive(e, f, r)
    PROVE  /\ ratchet' = [ratchet EXCEPT ![e] = r]
           /\ UNCHANGED Durable
           /\ \A d \in Role : pending'[d].out = pending[d].out
  BY LocalTypes DEF LocalReceive

LEMMA DecryptSnapshot ==
    ASSUME RecordsInv, SnapshotsInv, NEW e \in Role, NEW f \in net,
           \/ LocalDecryptSkipped(e, f)
           \/ LocalDecryptSameRatchet(e, f)
           \/ LocalDecryptNewRatchet(e, f)
    PROVE  SnapshotsInv'
<1> DEFINE r == ratchet[e]
<1>1. f \in InnerFrame /\ f.message_number < COUNTER_MAX
  BY LocalTypes
<1>2. r \in RatchetState /\ Storable(r) /\ generate(e) \in DhKey
  BY MemorySnapshot, LocalTypes
<1> HIDE DEF r
<1>3. CASE LocalDecryptSkipped(e, f)
  <2>1. PICK i \in 1..Len(r.skipped) : LocalReceive(e, f, AfterSkipped(r, i))
    BY <1>3 DEF LocalDecryptSkipped, r
  <2> DEFINE n == AfterSkipped(r, i)
  <2>2. /\ n \in RatchetState /\ n.dh_pair = r.dh_pair /\ n.sending_chain = r.sending_chain
    BY <1>2, SkippedFields
  <2>3. Storable(n)
    BY <1>2, FewerStored
  <2>4. StateUse(n) = StateUse(r)
    BY <2>2 DEF StateUse
  <2>5. generated' = generated
    BY <1>3 DEF LocalDecryptSkipped
  <2>6. LocalReceive(e, f, n)
    BY <2>1
  <2> HIDE DEF n
  <2> QED
    BY <2>2, <2>3, <2>4, <2>5, <2>6, ReceiveSeals, LocalSnapshot DEF r
<1>4. CASE LocalDecryptSameRatchet(e, f)
  <2> DEFINE n == AfterSameRatchet(r, f)
  <2>1. OpensSameRatchet(r, f) /\ LocalReceive(e, f, n) /\ generated' = generated
    BY <1>4 DEF LocalDecryptSameRatchet, r
  <2>2. r.receiving_count <= f.message_number
    BY <1>1, <1>2, <2>1 DEF OpensSameRatchet, RatchetState, InnerFrame
  <2>3. n \in RatchetState /\ n.dh_pair = r.dh_pair /\ n.sending_chain = r.sending_chain
    BY <1>1, <1>2, <2>2, SameRatchetFields
  <2>4. Storable(n)
    BY <1>1, <1>2, <2>1, SameRatchetStored
  <2> HIDE DEF n
  <2>5. StateUse(n) = StateUse(r)
    BY <2>3 DEF StateUse
  <2> QED
    BY <2>1, <2>3, <2>4, <2>5, ReceiveSeals, LocalSnapshot DEF r
<1>5. CASE LocalDecryptNewRatchet(e, f)
  <2> DEFINE k == generate(e)
             n == AfterNewRatchet(r, f, k)
  <2>1. /\ OpensNewRatchet(r, f) /\ LocalReceive(e, f, n)
        /\ generated' = [generated EXCEPT ![e] = @ + 1]
    BY <1>5 DEF LocalDecryptNewRatchet, r
  <2>2. r.receiving_count <= f.previous_chain_len
    BY <2>1 DEF OpensNewRatchet, RangeAllowed
  <2>3. k \in DhKey
    BY <1>2
  <2> HIDE DEF k
  <2>4. n \in RatchetState /\ n.dh_pair = k
    BY <1>1, <1>2, <2>2, <2>3, NewRatchetFields
  <2>5. Storable(n)
    BY <1>1, <1>2, <2>1, <2>3, NewRatchetStored DEF SnapshotsInv
  <2> HIDE DEF n
  <2>6. n.dh_pair = generate(e)
    BY <2>4 DEF k
  <2> QED
    BY <2>1, <2>4, <2>5, <2>6, ReceiveSeals, LocalSnapshot
<1> QED
  BY <1>3, <1>4, <1>5

LEMMA CommitSnapshot ==
    ASSUME RecordsInv, SnapshotsInv, NEW e \in Role, Commit(e)
    PROVE  SnapshotsInv'
<1> DEFINE sealed == seal_state(e, ratchet[e])
<1>1. /\ records' = [records EXCEPT ![e] = @ \cup {sealed}]
      /\ committed' = [committed EXCEPT ![e] = ratchet[e]]
      /\ net' = net \cup pending[e].out
      /\ pending' = [pending EXCEPT ![e] = Nothing]
      /\ UNCHANGED <<ratchet, generated>>
  BY DEF Commit
<1>2. sealed.state = ratchet[e]
  BY DEF seal_state, Seal
<1> HIDE DEF sealed
<1>3. \A d \in Role : /\ committed'[d] = committed[d] \/ (d = e /\ committed'[d] = ratchet[d])
                      /\ \A record \in records'[d] :
                           record \in records[d] \/ (d = e /\ record = sealed)
                      /\ \A f \in pending'[d].out : f \in pending[d].out
  BY <1>1 DEF RecordsInv, PersistTypeOK, PendingInv, Nothing
<1>4. \A d \in Role : \A s \in StatesOf(d)' : s \in StatesOf(d)
  BY <1>1, <1>2, <1>3 DEF StatesOf
<1>5. \A x \in KeyUses' :
         \/ \E d \in Role : \E s \in StatesOf(d)' : x = StateUse(s)
         \/ \E f \in net' : x = FrameUse(f)
         \/ \E d \in Role : \E f \in pending'[d].out : x = FrameUse(f)
  BY DEF KeyUses, StateUse, FrameUse
<1>6. \A x \in KeyUses' : x \in KeyUses
  BY <1>1, <1>3, <1>4, <1>5, Uses
<1> QED
  BY <1>1, <1>4, <1>6, Rearranged

\* Taking up a state that storage holds.
LEMMA TakenSnapshot ==
    ASSUME RecordsInv, SnapshotsInv, NEW e \in Role, NEW n \in StatesOf(e),
           ratchet' = [ratchet EXCEPT ![e] = n],
           pending' \in {pending, [pending EXCEPT ![e] = Nothing]},
           UNCHANGED <<generated, net, records, committed>>
    PROVE  SnapshotsInv'
<1>1. \A d \in Role : /\ ratchet'[d] = ratchet[d] \/ (d = e /\ ratchet'[d] = n)
                      /\ \A f \in pending'[d].out : f \in pending[d].out
  BY DEF RecordsInv, PersistTypeOK, TypeOK, PendingInv, Nothing
<1>2. \A d \in Role : \A s \in StatesOf(d)' : s \in StatesOf(d)
  BY <1>1 DEF StatesOf
<1>3. \A x \in KeyUses' :
         \/ \E d \in Role : \E s \in StatesOf(d)' : x = StateUse(s)
         \/ \E f \in net' : x = FrameUse(f)
         \/ \E d \in Role : \E f \in pending'[d].out : x = FrameUse(f)
  BY DEF KeyUses, StateUse, FrameUse
<1>4. \A x \in KeyUses' : x \in KeyUses
  BY <1>1, <1>2, <1>3, Uses
<1> QED
  BY <1>2, <1>4, Rearranged

LEMMA CrashSnapshot ==
    ASSUME RecordsInv, SnapshotsInv, NEW e \in Role, Crash(e)
    PROVE  SnapshotsInv'
<1>1. committed[e] \in StatesOf(e)
  BY DEF StatesOf
<1> QED
  BY <1>1, TakenSnapshot DEF Crash

LEMMA RestoreSnapshot ==
    ASSUME RecordsInv, SnapshotsInv, NEW e \in Role, NEW record \in AllRecords,
           Restore(e, record)
    PROVE  SnapshotsInv'
<1>1. record \in records[e] /\ decode_state(record) = record.state
  BY Restored DEF Restore
<1>2. record.state \in StatesOf(e)
  BY <1>1 DEF StatesOf
<1>3. /\ ratchet' = [ratchet EXCEPT ![e] = record.state]
      /\ UNCHANGED <<pending, generated, net, records, committed>>
  BY <1>1 DEF Restore
<1> QED
  BY <1>2, <1>3, TakenSnapshot

LEMMA SnapshotsStutter ==
    ASSUME RecordsInv, SnapshotsInv, UNCHANGED persistVars
    PROVE  SnapshotsInv'
<1>1. /\ \A e \in Role : \A s \in StatesOf(e)' : \E d \in Role : s \in StatesOf(d)
      /\ generated' = generated
  BY DEF StatesOf, persistVars, vars
<1>2. \A x \in KeyUses' : x \in KeyUses
  BY DEF KeyUses, StatesOf, persistVars, vars
<1> QED
  BY <1>1, <1>2, Rearranged

LEMMA SnapshotsInit == PersistInit => SnapshotsInv
<1> SUFFICES ASSUME PersistInit
             PROVE  SnapshotsInv
  OBVIOUS
<1>1. /\ Init /\ committed = ratchet /\ net = {}
      /\ \A e \in Role : pending[e].out = {}
  BY DEF PersistInit, Init, Nothing
<1>2. PICK suite \in [Role -> Suites] :
        ratchet = [e \in Role |-> from_authenticated_handshake_with_suite(e, suite[e])]
  BY <1>1 DEF Init
<1>3. \A e \in Role : \A record \in records[e] : record.state = ratchet[e]
  BY DEF PersistInit, Seal
<1>4. \A e \in Role : \A s \in StatesOf(e) : s = ratchet[e]
  BY <1>1, <1>3 DEF StatesOf
<1>5. \A e \in Role : /\ ratchet[e].dh_pair = <<e, 0>> /\ ratchet[e].sending_chain.root = << >>
                      /\ ratchet[e].remote_dh = <<Peer(e), 0>> /\ ratchet[e].root_key = << >>
                      /\ ratchet[e].skipped = << >>
                      /\ generated[e] = 0 /\ Peer(e) \in Role
  BY <1>1, <1>2, Peers DEF Init, from_authenticated_handshake_with_suite
<1>6. \A x \in KeyUses : \E e \in Role : x.key = <<e, 0>> /\ x.root = << >>
  BY <1>1, <1>4, <1>5, Uses DEF StateUse
<1>7. KeyUsesInv
  BY <1>5, <1>6 DEF KeyUsesInv, Drawn
<1>8. ASSUME NEW e \in Role
      PROVE  Storable(ratchet[e])
  <2>1. Len(ratchet[e].skipped) = 0 /\ Len(ratchet[e].root_key) = 0
    BY <1>5
  <2>2. \A k \in ReceivedKeys(ratchet[e]) : k = <<Peer(e), 0>>
    <3>1. 1..Len(ratchet[e].skipped) = {}
      BY <2>1
    <3> QED
      BY <1>5, <3>1 DEF ReceivedKeys
  <2>3. \A x \in KeyUses : Len(x.root) = 0
    BY <1>6
  <2>4. \A k \in ReceivedKeys(ratchet[e]) : Behind(ratchet[e], k)
    BY <1>5, <2>1, <2>2, <2>3 DEF Behind, Drawn
  <2> QED
    BY <2>1, <2>4, LimitsAssumption DEF Storable, Encodes, NoDuplicates
<1> QED
  BY <1>4, <1>7, <1>8 DEF SnapshotsInv

LEMMA SnapshotsNext == RecordsInv /\ SnapshotsInv /\ [PersistNext]_persistVars => SnapshotsInv'
<1> SUFFICES ASSUME RecordsInv, SnapshotsInv, [PersistNext]_persistVars
             PROVE  SnapshotsInv'
  OBVIOUS
<1>1. CASE UNCHANGED persistVars
  BY <1>1, SnapshotsStutter
<1>2. CASE PersistNext
  <2>1. PICK e \in Role :
          \/ LocalEncrypt(e)
          \/ LocalEncryptExhausted(e)
          \/ LocalRotate(e)
          \/ \E f \in net :
               \/ LocalDecryptSkipped(e, f)
               \/ LocalDecryptSameRatchet(e, f)
               \/ LocalDecryptNewRatchet(e, f)
               \/ LocalDecryptRejected(e, f)
          \/ Commit(e)
          \/ Crash(e)
          \/ \E record \in AllRecords : Restore(e, record) \/ RestoreRefused(e, record)
    BY <1>2 DEF PersistNext
  <2>2. CASE LocalEncrypt(e)
    BY <2>2, EncryptSnapshot
  <2>3. CASE LocalEncryptExhausted(e)
    BY <2>3, ExhaustedSnapshot
  <2>4. CASE LocalRotate(e)
    BY <2>4, RotateSnapshot
  <2>5. ASSUME NEW f \in net, \/ LocalDecryptSkipped(e, f)
                              \/ LocalDecryptSameRatchet(e, f)
                              \/ LocalDecryptNewRatchet(e, f)
        PROVE  SnapshotsInv'
    BY <2>5, DecryptSnapshot
  <2>6. ASSUME NEW f \in net, LocalDecryptRejected(e, f)
        PROVE  SnapshotsInv'
    BY <2>6, SnapshotsStutter DEF LocalDecryptRejected
  <2>7. CASE Commit(e)
    BY <2>7, CommitSnapshot
  <2>8. CASE Crash(e)
    BY <2>8, CrashSnapshot
  <2>9. ASSUME NEW record \in AllRecords, Restore(e, record)
        PROVE  SnapshotsInv'
    BY <2>9, RestoreSnapshot
  <2>10. ASSUME NEW record \in AllRecords, RestoreRefused(e, record)
         PROVE  SnapshotsInv'
    BY <2>10, SnapshotsStutter DEF RestoreRefused
  <2> QED
    BY <2>1, <2>2, <2>3, <2>4, <2>5, <2>6, <2>7, <2>8, <2>9, <2>10
<1> QED
  BY <1>1, <1>2

\* What storage and memory hold can be sealed and read back, and a ratchet key
\* names one root, whatever crashes, whatever storage presents and wherever the
\* generations stand.
THEOREM StorageInvariance == PersistSpec => []StorageInv
<1>1. PersistInit => RecordsInv /\ SnapshotsInv
  BY RecordsInit, SnapshotsInit
<1>2. RecordsInv /\ SnapshotsInv /\ [PersistNext]_persistVars => (RecordsInv /\ SnapshotsInv)'
  BY RecordsNext, SnapshotsNext
<1>3. StorageInv <=> RecordsInv /\ SnapshotsInv
  BY DEF StorageInv
<1> QED
  BY <1>1, <1>2, <1>3, PTL DEF PersistSpec

LEMMA MemoryRestores == StorageInv => SnapshotRestores
<1> SUFFICES ASSUME StorageInv, NEW e \in Role
             PROVE  /\ Encodes(ratchet[e])
                    /\ Restores(seal_state(e, ratchet[e]), e, floor[e])
  BY DEF SnapshotRestores
<1>1. RecordsInv /\ SnapshotsInv
  BY DEF StorageInv
<1>2. Encodes(ratchet[e]) /\ NoDuplicates(ratchet[e].skipped)
  BY <1>1, MemorySnapshot DEF Storable
<1>3. /\ ratchet[e].generation \in Int /\ floor[e] \in Int
      /\ ratchet[e].generation >= floor[e]
  BY <1>1, LimitsAssumption
     DEF RecordsInv, PersistTypeOK, TypeOK, RatchetState, GenerationInv
<1>4. /\ seal_state(e, ratchet[e]).version = VERSION
      /\ seal_state(e, ratchet[e]).generation = ratchet[e].generation
      /\ seal_state(e, ratchet[e]).aad = state_aad(e, VERSION)
      /\ seal_state(e, ratchet[e]).state = ratchet[e]
  BY DEF seal_state, Seal
<1> QED
  BY <1>2, <1>3, <1>4 DEF Encodes, Restores

\* A snapshot of whatever state an endpoint is in can be sealed, and
\* restore_state would take it, even after a generation has saturated and an
\* older snapshot came back: no legal use bricks a session.
THEOREM EverySnapshotRestores == PersistSpec => []SnapshotRestores
  BY MemoryRestores, StorageInvariance, PTL

----------------------------------------------------------------------------
(* The four views of a session: what it would be if nobody, one end or both *)
(* committed now and the others crashed.                                    *)

None == INSTANCE SessionView WITH Keep <- {}
Ini == INSTANCE SessionView WITH Keep <- {"Initiator"}
Res == INSTANCE SessionView WITH Keep <- {"Responder"}
Both == INSTANCE SessionView WITH Keep <- Role

ViewsInv == None!Sound /\ Ini!Sound /\ Res!Sound /\ Both!Sound

\* The definitions that the instances repeat are those of PersistentSession.
LEMMA SameNone ==
    /\ None!PersistNext <=> PersistNext
    /\ None!persistVars = persistVars
    /\ None!PersistInit <=> PersistInit
    /\ None!WellFormed <=> WellFormed
    /\ None!BookInv <=> BookInv
    /\ None!RestoresCommit <=> RestoresCommit
    /\ \A e : (None!Commit(e) <=> Commit(e)) /\ (None!Crash(e) <=> Crash(e))
    /\ None!Role = Role
    /\ \A T : None!Cardinality(T) = Cardinality(T)
<1>1. None!Role = Role /\ None!persistVars = persistVars
  BY DEF Role, None!Role, persistVars, None!persistVars, vars, None!vars
<1>2. /\ \A T : None!Cardinality(T) = Cardinality(T)
      /\ \A T : None!IsFiniteSet(T) <=> IsFiniteSet(T)
  BY DEF Cardinality, None!Cardinality, IsFiniteSet, None!IsFiniteSet
<1>3. None!RatchetState = RatchetState /\ None!InnerFrame = InnerFrame
  BY DEF RatchetState, None!RatchetState, InnerFrame, None!InnerFrame, Session,
         None!Session, OtherSession, None!OtherSession, DhKey, None!DhKey, MessageKey,
         None!MessageKey, ChainKey, None!ChainKey, RootKey, None!RootKey, SkippedMessageKey,
         None!SkippedMessageKey, Labels, None!Labels, INIT_A_TO_B_LABEL,
         None!INIT_A_TO_B_LABEL, INIT_B_TO_A_LABEL, None!INIT_B_TO_A_LABEL,
         ROOT_CHAIN_LABEL, None!ROOT_CHAIN_LABEL, Role, None!Role
<1>4. /\ \A r, e, g : None!Restores(r, e, g) <=> Restores(r, e, g)
      /\ \A r : None!decode_state(r) = decode_state(r)
      /\ \A r, s : None!SameSessionState(r, s) <=> SameSessionState(r, s)
      /\ None!AllRecords = AllRecords
      /\ None!Nothing = Nothing
  BY DEF Restores, None!Restores, NoDuplicates, None!NoDuplicates, state_aad,
         None!state_aad, LEGACY_VERSION, None!LEGACY_VERSION, VERSION, None!VERSION,
         decode_state, None!decode_state, SameSessionState, None!SameSessionState,
         SendingAt, None!SendingAt, AllRecords, None!AllRecords, Nothing, None!Nothing
<1>5. \A e : /\ None!LocalEncrypt(e) <=> LocalEncrypt(e)
             /\ None!LocalEncryptExhausted(e) <=> LocalEncryptExhausted(e)
             /\ None!LocalRotate(e) <=> LocalRotate(e)
  BY DEF LocalEncrypt, None!LocalEncrypt, LocalEncryptExhausted, None!LocalEncryptExhausted,
         LocalRotate, None!LocalRotate, Durable, None!Durable, Cardinality,
         None!Cardinality, AfterEncrypt, None!AfterEncrypt, Frame, None!Frame, KeyOf,
         None!KeyOf, Advance, None!Advance, AfterRotation, None!AfterRotation,
         diffie_hellman, None!diffie_hellman, next_root, None!next_root, root_chain,
         None!root_chain, ROOT_CHAIN_LABEL, None!ROOT_CHAIN_LABEL, saturating_add,
         None!saturating_add, generate, None!generate
<1>6. \A e, f : None!LocalDecryptSkipped(e, f) <=> LocalDecryptSkipped(e, f)
  BY DEF LocalDecryptSkipped, None!LocalDecryptSkipped, LocalReceive, None!LocalReceive,
         Durable, None!Durable, SameSession, None!SameSession, OpensSkipped,
         None!OpensSkipped, Position, None!Position, Opens, None!Opens, AfterSkipped,
         None!AfterSkipped, RemoveAt, None!RemoveAt, saturating_add, None!saturating_add
<1>7. \A e, f : None!LocalDecryptSameRatchet(e, f) <=> LocalDecryptSameRatchet(e, f)
  BY DEF LocalDecryptSameRatchet, None!LocalDecryptSameRatchet, LocalReceive,
         None!LocalReceive, Durable, None!Durable, SameSession, None!SameSession,
         OpensSameRatchet, None!OpensSameRatchet, RangeAllowed, None!RangeAllowed, Opens,
         None!Opens, AfterSameRatchet, None!AfterSameRatchet, derive_range,
         None!derive_range, KeyOf, None!KeyOf, Advance, None!Advance, saturating_add,
         None!saturating_add
<1>8. \A e, f : None!LocalDecryptNewRatchet(e, f) <=> LocalDecryptNewRatchet(e, f)
  BY DEF LocalDecryptNewRatchet, None!LocalDecryptNewRatchet, LocalReceive,
         None!LocalReceive, Durable, None!Durable, SameSession, None!SameSession,
         OpensNewRatchet, None!OpensNewRatchet, RangeAllowed, None!RangeAllowed, Opens,
         None!Opens, AfterNewRatchet, None!AfterNewRatchet, derive_range, None!derive_range,
         KeyOf, None!KeyOf, Advance, None!Advance, saturating_add, None!saturating_add,
         root_chain, None!root_chain, ROOT_CHAIN_LABEL, None!ROOT_CHAIN_LABEL, next_root,
         None!next_root, diffie_hellman, None!diffie_hellman, generate, None!generate
<1>9. \A e, f : None!LocalDecryptRejected(e, f) <=> LocalDecryptRejected(e, f)
  BY DEF LocalDecryptRejected, None!LocalDecryptRejected, persistVars, None!persistVars,
         vars, None!vars, Accepts, None!Accepts, SameSession, None!SameSession,
         OpensSkipped, None!OpensSkipped, Position, None!Position, Opens, None!Opens,
         OpensSameRatchet, None!OpensSameRatchet, OpensNewRatchet, None!OpensNewRatchet,
         RangeAllowed, None!RangeAllowed, KeyOf, None!KeyOf, Advance, None!Advance,
         root_chain, None!root_chain, ROOT_CHAIN_LABEL, None!ROOT_CHAIN_LABEL, next_root,
         None!next_root, diffie_hellman, None!diffie_hellman
<1>10. \A e : /\ None!Commit(e) <=> Commit(e)
              /\ None!Crash(e) <=> Crash(e)
  BY DEF Commit, None!Commit, Crash, None!Crash, Encodes, None!Encodes, seal_state,
         None!seal_state, Seal, None!Seal, VERSION, None!VERSION, state_aad, None!state_aad,
         Nothing, None!Nothing, Cardinality, None!Cardinality
<1>11. \A e, r : /\ None!Restore(e, r) <=> Restore(e, r)
                 /\ None!RestoreRefused(e, r) <=> RestoreRefused(e, r)
  BY DEF Restore, None!Restore, RestoreRefused, None!RestoreRefused, persistVars,
         None!persistVars, vars, None!vars, Restores, None!Restores, NoDuplicates,
         None!NoDuplicates, state_aad, None!state_aad, LEGACY_VERSION, None!LEGACY_VERSION,
         VERSION, None!VERSION, decode_state, None!decode_state
<1>12. None!PersistNext <=> PersistNext
  BY <1>1, <1>4, <1>5, <1>6, <1>7, <1>8, <1>9, <1>10, <1>11
     DEF PersistNext, None!PersistNext
<1>13. None!PersistInit <=> PersistInit
  BY DEF PersistInit, None!PersistInit, Role, None!Role, Nothing, None!Nothing, Init,
         None!Init, Seal, None!Seal, state_aad, None!state_aad, LEGACY_VERSION,
         None!LEGACY_VERSION, from_authenticated_handshake_with_suite,
         None!from_authenticated_handshake_with_suite, Session, None!Session, Peer,
         None!Peer, INIT_A_TO_B_LABEL, None!INIT_A_TO_B_LABEL, INIT_B_TO_A_LABEL,
         None!INIT_B_TO_A_LABEL
<1>14. None!BookInv <=> BookInv
  BY <1>1, <1>2, <1>4 DEF BookInv, None!BookInv, Sender, None!Sender, Owner, None!Owner
<1>15. (None!PersistTypeOK <=> PersistTypeOK) /\ (None!PendingInv <=> PendingInv)
  BY <1>1, <1>2, <1>3
     DEF PersistTypeOK, None!PersistTypeOK, TypeOK, None!TypeOK, PendingInv,
         None!PendingInv
<1>16. None!WellFormed <=> WellFormed
  BY <1>14, <1>15 DEF WellFormed, None!WellFormed
<1>17. None!RestoresCommit <=> RestoresCommit
  BY <1>1, <1>3, <1>4 DEF RestoresCommit, None!RestoresCommit
<1> QED
  BY <1>1, <1>2, <1>10, <1>12, <1>13, <1>14, <1>16, <1>17

LEMMA SameIni ==
    /\ Ini!PersistNext <=> PersistNext
    /\ Ini!persistVars = persistVars
    /\ Ini!PersistInit <=> PersistInit
    /\ Ini!WellFormed <=> WellFormed
    /\ Ini!BookInv <=> BookInv
    /\ Ini!RestoresCommit <=> RestoresCommit
    /\ \A e : (Ini!Commit(e) <=> Commit(e)) /\ (Ini!Crash(e) <=> Crash(e))
    /\ Ini!Role = Role
    /\ \A T : Ini!Cardinality(T) = Cardinality(T)
<1>1. Ini!Role = Role /\ Ini!persistVars = persistVars
  BY DEF Role, Ini!Role, persistVars, Ini!persistVars, vars, Ini!vars
<1>2. /\ \A T : Ini!Cardinality(T) = Cardinality(T)
      /\ \A T : Ini!IsFiniteSet(T) <=> IsFiniteSet(T)
  BY DEF Cardinality, Ini!Cardinality, IsFiniteSet, Ini!IsFiniteSet
<1>3. Ini!RatchetState = RatchetState /\ Ini!InnerFrame = InnerFrame
  BY DEF RatchetState, Ini!RatchetState, InnerFrame, Ini!InnerFrame, Session, Ini!Session,
         OtherSession, Ini!OtherSession, DhKey, Ini!DhKey, MessageKey, Ini!MessageKey,
         ChainKey, Ini!ChainKey, RootKey, Ini!RootKey, SkippedMessageKey,
         Ini!SkippedMessageKey, Labels, Ini!Labels, INIT_A_TO_B_LABEL,
         Ini!INIT_A_TO_B_LABEL, INIT_B_TO_A_LABEL, Ini!INIT_B_TO_A_LABEL, ROOT_CHAIN_LABEL,
         Ini!ROOT_CHAIN_LABEL, Role, Ini!Role
<1>4. /\ \A r, e, g : Ini!Restores(r, e, g) <=> Restores(r, e, g)
      /\ \A r : Ini!decode_state(r) = decode_state(r)
      /\ \A r, s : Ini!SameSessionState(r, s) <=> SameSessionState(r, s)
      /\ Ini!AllRecords = AllRecords
      /\ Ini!Nothing = Nothing
  BY DEF Restores, Ini!Restores, NoDuplicates, Ini!NoDuplicates, state_aad, Ini!state_aad,
         LEGACY_VERSION, Ini!LEGACY_VERSION, VERSION, Ini!VERSION, decode_state,
         Ini!decode_state, SameSessionState, Ini!SameSessionState, SendingAt, Ini!SendingAt,
         AllRecords, Ini!AllRecords, Nothing, Ini!Nothing
<1>5. \A e : /\ Ini!LocalEncrypt(e) <=> LocalEncrypt(e)
             /\ Ini!LocalEncryptExhausted(e) <=> LocalEncryptExhausted(e)
             /\ Ini!LocalRotate(e) <=> LocalRotate(e)
  BY DEF LocalEncrypt, Ini!LocalEncrypt, LocalEncryptExhausted, Ini!LocalEncryptExhausted,
         LocalRotate, Ini!LocalRotate, Durable, Ini!Durable, Cardinality, Ini!Cardinality,
         AfterEncrypt, Ini!AfterEncrypt, Frame, Ini!Frame, KeyOf, Ini!KeyOf, Advance,
         Ini!Advance, AfterRotation, Ini!AfterRotation, diffie_hellman, Ini!diffie_hellman,
         next_root, Ini!next_root, root_chain, Ini!root_chain, ROOT_CHAIN_LABEL,
         Ini!ROOT_CHAIN_LABEL, saturating_add, Ini!saturating_add, generate, Ini!generate
<1>6. \A e, f : Ini!LocalDecryptSkipped(e, f) <=> LocalDecryptSkipped(e, f)
  BY DEF LocalDecryptSkipped, Ini!LocalDecryptSkipped, LocalReceive, Ini!LocalReceive,
         Durable, Ini!Durable, SameSession, Ini!SameSession, OpensSkipped, Ini!OpensSkipped,
         Position, Ini!Position, Opens, Ini!Opens, AfterSkipped, Ini!AfterSkipped, RemoveAt,
         Ini!RemoveAt, saturating_add, Ini!saturating_add
<1>7. \A e, f : Ini!LocalDecryptSameRatchet(e, f) <=> LocalDecryptSameRatchet(e, f)
  BY DEF LocalDecryptSameRatchet, Ini!LocalDecryptSameRatchet, LocalReceive,
         Ini!LocalReceive, Durable, Ini!Durable, SameSession, Ini!SameSession,
         OpensSameRatchet, Ini!OpensSameRatchet, RangeAllowed, Ini!RangeAllowed, Opens,
         Ini!Opens, AfterSameRatchet, Ini!AfterSameRatchet, derive_range, Ini!derive_range,
         KeyOf, Ini!KeyOf, Advance, Ini!Advance, saturating_add, Ini!saturating_add
<1>8. \A e, f : Ini!LocalDecryptNewRatchet(e, f) <=> LocalDecryptNewRatchet(e, f)
  BY DEF LocalDecryptNewRatchet, Ini!LocalDecryptNewRatchet, LocalReceive, Ini!LocalReceive,
         Durable, Ini!Durable, SameSession, Ini!SameSession, OpensNewRatchet,
         Ini!OpensNewRatchet, RangeAllowed, Ini!RangeAllowed, Opens, Ini!Opens,
         AfterNewRatchet, Ini!AfterNewRatchet, derive_range, Ini!derive_range, KeyOf,
         Ini!KeyOf, Advance, Ini!Advance, saturating_add, Ini!saturating_add, root_chain,
         Ini!root_chain, ROOT_CHAIN_LABEL, Ini!ROOT_CHAIN_LABEL, next_root, Ini!next_root,
         diffie_hellman, Ini!diffie_hellman, generate, Ini!generate
<1>9. \A e, f : Ini!LocalDecryptRejected(e, f) <=> LocalDecryptRejected(e, f)
  BY DEF LocalDecryptRejected, Ini!LocalDecryptRejected, persistVars, Ini!persistVars, vars,
         Ini!vars, Accepts, Ini!Accepts, SameSession, Ini!SameSession, OpensSkipped,
         Ini!OpensSkipped, Position, Ini!Position, Opens, Ini!Opens, OpensSameRatchet,
         Ini!OpensSameRatchet, OpensNewRatchet, Ini!OpensNewRatchet, RangeAllowed,
         Ini!RangeAllowed, KeyOf, Ini!KeyOf, Advance, Ini!Advance, root_chain,
         Ini!root_chain, ROOT_CHAIN_LABEL, Ini!ROOT_CHAIN_LABEL, next_root, Ini!next_root,
         diffie_hellman, Ini!diffie_hellman
<1>10. \A e : /\ Ini!Commit(e) <=> Commit(e)
              /\ Ini!Crash(e) <=> Crash(e)
  BY DEF Commit, Ini!Commit, Crash, Ini!Crash, Encodes, Ini!Encodes, seal_state,
         Ini!seal_state, Seal, Ini!Seal, VERSION, Ini!VERSION, state_aad, Ini!state_aad,
         Nothing, Ini!Nothing, Cardinality, Ini!Cardinality
<1>11. \A e, r : /\ Ini!Restore(e, r) <=> Restore(e, r)
                 /\ Ini!RestoreRefused(e, r) <=> RestoreRefused(e, r)
  BY DEF Restore, Ini!Restore, RestoreRefused, Ini!RestoreRefused, persistVars,
         Ini!persistVars, vars, Ini!vars, Restores, Ini!Restores, NoDuplicates,
         Ini!NoDuplicates, state_aad, Ini!state_aad, LEGACY_VERSION, Ini!LEGACY_VERSION,
         VERSION, Ini!VERSION, decode_state, Ini!decode_state
<1>12. Ini!PersistNext <=> PersistNext
  BY <1>1, <1>4, <1>5, <1>6, <1>7, <1>8, <1>9, <1>10, <1>11
     DEF PersistNext, Ini!PersistNext
<1>13. Ini!PersistInit <=> PersistInit
  BY DEF PersistInit, Ini!PersistInit, Role, Ini!Role, Nothing, Ini!Nothing, Init, Ini!Init,
         Seal, Ini!Seal, state_aad, Ini!state_aad, LEGACY_VERSION, Ini!LEGACY_VERSION,
         from_authenticated_handshake_with_suite,
         Ini!from_authenticated_handshake_with_suite, Session, Ini!Session, Peer, Ini!Peer,
         INIT_A_TO_B_LABEL, Ini!INIT_A_TO_B_LABEL, INIT_B_TO_A_LABEL, Ini!INIT_B_TO_A_LABEL
<1>14. Ini!BookInv <=> BookInv
  BY <1>1, <1>2, <1>4 DEF BookInv, Ini!BookInv, Sender, Ini!Sender, Owner, Ini!Owner
<1>15. (Ini!PersistTypeOK <=> PersistTypeOK) /\ (Ini!PendingInv <=> PendingInv)
  BY <1>1, <1>2, <1>3
     DEF PersistTypeOK, Ini!PersistTypeOK, TypeOK, Ini!TypeOK, PendingInv, Ini!PendingInv
<1>16. Ini!WellFormed <=> WellFormed
  BY <1>14, <1>15 DEF WellFormed, Ini!WellFormed
<1>17. Ini!RestoresCommit <=> RestoresCommit
  BY <1>1, <1>3, <1>4 DEF RestoresCommit, Ini!RestoresCommit
<1> QED
  BY <1>1, <1>2, <1>10, <1>12, <1>13, <1>14, <1>16, <1>17

LEMMA SameRes ==
    /\ Res!PersistNext <=> PersistNext
    /\ Res!persistVars = persistVars
    /\ Res!PersistInit <=> PersistInit
    /\ Res!WellFormed <=> WellFormed
    /\ Res!BookInv <=> BookInv
    /\ Res!RestoresCommit <=> RestoresCommit
    /\ \A e : (Res!Commit(e) <=> Commit(e)) /\ (Res!Crash(e) <=> Crash(e))
    /\ Res!Role = Role
    /\ \A T : Res!Cardinality(T) = Cardinality(T)
<1>1. Res!Role = Role /\ Res!persistVars = persistVars
  BY DEF Role, Res!Role, persistVars, Res!persistVars, vars, Res!vars
<1>2. /\ \A T : Res!Cardinality(T) = Cardinality(T)
      /\ \A T : Res!IsFiniteSet(T) <=> IsFiniteSet(T)
  BY DEF Cardinality, Res!Cardinality, IsFiniteSet, Res!IsFiniteSet
<1>3. Res!RatchetState = RatchetState /\ Res!InnerFrame = InnerFrame
  BY DEF RatchetState, Res!RatchetState, InnerFrame, Res!InnerFrame, Session, Res!Session,
         OtherSession, Res!OtherSession, DhKey, Res!DhKey, MessageKey, Res!MessageKey,
         ChainKey, Res!ChainKey, RootKey, Res!RootKey, SkippedMessageKey,
         Res!SkippedMessageKey, Labels, Res!Labels, INIT_A_TO_B_LABEL,
         Res!INIT_A_TO_B_LABEL, INIT_B_TO_A_LABEL, Res!INIT_B_TO_A_LABEL, ROOT_CHAIN_LABEL,
         Res!ROOT_CHAIN_LABEL, Role, Res!Role
<1>4. /\ \A r, e, g : Res!Restores(r, e, g) <=> Restores(r, e, g)
      /\ \A r : Res!decode_state(r) = decode_state(r)
      /\ \A r, s : Res!SameSessionState(r, s) <=> SameSessionState(r, s)
      /\ Res!AllRecords = AllRecords
      /\ Res!Nothing = Nothing
  BY DEF Restores, Res!Restores, NoDuplicates, Res!NoDuplicates, state_aad, Res!state_aad,
         LEGACY_VERSION, Res!LEGACY_VERSION, VERSION, Res!VERSION, decode_state,
         Res!decode_state, SameSessionState, Res!SameSessionState, SendingAt, Res!SendingAt,
         AllRecords, Res!AllRecords, Nothing, Res!Nothing
<1>5. \A e : /\ Res!LocalEncrypt(e) <=> LocalEncrypt(e)
             /\ Res!LocalEncryptExhausted(e) <=> LocalEncryptExhausted(e)
             /\ Res!LocalRotate(e) <=> LocalRotate(e)
  BY DEF LocalEncrypt, Res!LocalEncrypt, LocalEncryptExhausted, Res!LocalEncryptExhausted,
         LocalRotate, Res!LocalRotate, Durable, Res!Durable, Cardinality, Res!Cardinality,
         AfterEncrypt, Res!AfterEncrypt, Frame, Res!Frame, KeyOf, Res!KeyOf, Advance,
         Res!Advance, AfterRotation, Res!AfterRotation, diffie_hellman, Res!diffie_hellman,
         next_root, Res!next_root, root_chain, Res!root_chain, ROOT_CHAIN_LABEL,
         Res!ROOT_CHAIN_LABEL, saturating_add, Res!saturating_add, generate, Res!generate
<1>6. \A e, f : Res!LocalDecryptSkipped(e, f) <=> LocalDecryptSkipped(e, f)
  BY DEF LocalDecryptSkipped, Res!LocalDecryptSkipped, LocalReceive, Res!LocalReceive,
         Durable, Res!Durable, SameSession, Res!SameSession, OpensSkipped, Res!OpensSkipped,
         Position, Res!Position, Opens, Res!Opens, AfterSkipped, Res!AfterSkipped, RemoveAt,
         Res!RemoveAt, saturating_add, Res!saturating_add
<1>7. \A e, f : Res!LocalDecryptSameRatchet(e, f) <=> LocalDecryptSameRatchet(e, f)
  BY DEF LocalDecryptSameRatchet, Res!LocalDecryptSameRatchet, LocalReceive,
         Res!LocalReceive, Durable, Res!Durable, SameSession, Res!SameSession,
         OpensSameRatchet, Res!OpensSameRatchet, RangeAllowed, Res!RangeAllowed, Opens,
         Res!Opens, AfterSameRatchet, Res!AfterSameRatchet, derive_range, Res!derive_range,
         KeyOf, Res!KeyOf, Advance, Res!Advance, saturating_add, Res!saturating_add
<1>8. \A e, f : Res!LocalDecryptNewRatchet(e, f) <=> LocalDecryptNewRatchet(e, f)
  BY DEF LocalDecryptNewRatchet, Res!LocalDecryptNewRatchet, LocalReceive, Res!LocalReceive,
         Durable, Res!Durable, SameSession, Res!SameSession, OpensNewRatchet,
         Res!OpensNewRatchet, RangeAllowed, Res!RangeAllowed, Opens, Res!Opens,
         AfterNewRatchet, Res!AfterNewRatchet, derive_range, Res!derive_range, KeyOf,
         Res!KeyOf, Advance, Res!Advance, saturating_add, Res!saturating_add, root_chain,
         Res!root_chain, ROOT_CHAIN_LABEL, Res!ROOT_CHAIN_LABEL, next_root, Res!next_root,
         diffie_hellman, Res!diffie_hellman, generate, Res!generate
<1>9. \A e, f : Res!LocalDecryptRejected(e, f) <=> LocalDecryptRejected(e, f)
  BY DEF LocalDecryptRejected, Res!LocalDecryptRejected, persistVars, Res!persistVars, vars,
         Res!vars, Accepts, Res!Accepts, SameSession, Res!SameSession, OpensSkipped,
         Res!OpensSkipped, Position, Res!Position, Opens, Res!Opens, OpensSameRatchet,
         Res!OpensSameRatchet, OpensNewRatchet, Res!OpensNewRatchet, RangeAllowed,
         Res!RangeAllowed, KeyOf, Res!KeyOf, Advance, Res!Advance, root_chain,
         Res!root_chain, ROOT_CHAIN_LABEL, Res!ROOT_CHAIN_LABEL, next_root, Res!next_root,
         diffie_hellman, Res!diffie_hellman
<1>10. \A e : /\ Res!Commit(e) <=> Commit(e)
              /\ Res!Crash(e) <=> Crash(e)
  BY DEF Commit, Res!Commit, Crash, Res!Crash, Encodes, Res!Encodes, seal_state,
         Res!seal_state, Seal, Res!Seal, VERSION, Res!VERSION, state_aad, Res!state_aad,
         Nothing, Res!Nothing, Cardinality, Res!Cardinality
<1>11. \A e, r : /\ Res!Restore(e, r) <=> Restore(e, r)
                 /\ Res!RestoreRefused(e, r) <=> RestoreRefused(e, r)
  BY DEF Restore, Res!Restore, RestoreRefused, Res!RestoreRefused, persistVars,
         Res!persistVars, vars, Res!vars, Restores, Res!Restores, NoDuplicates,
         Res!NoDuplicates, state_aad, Res!state_aad, LEGACY_VERSION, Res!LEGACY_VERSION,
         VERSION, Res!VERSION, decode_state, Res!decode_state
<1>12. Res!PersistNext <=> PersistNext
  BY <1>1, <1>4, <1>5, <1>6, <1>7, <1>8, <1>9, <1>10, <1>11
     DEF PersistNext, Res!PersistNext
<1>13. Res!PersistInit <=> PersistInit
  BY DEF PersistInit, Res!PersistInit, Role, Res!Role, Nothing, Res!Nothing, Init, Res!Init,
         Seal, Res!Seal, state_aad, Res!state_aad, LEGACY_VERSION, Res!LEGACY_VERSION,
         from_authenticated_handshake_with_suite,
         Res!from_authenticated_handshake_with_suite, Session, Res!Session, Peer, Res!Peer,
         INIT_A_TO_B_LABEL, Res!INIT_A_TO_B_LABEL, INIT_B_TO_A_LABEL, Res!INIT_B_TO_A_LABEL
<1>14. Res!BookInv <=> BookInv
  BY <1>1, <1>2, <1>4 DEF BookInv, Res!BookInv, Sender, Res!Sender, Owner, Res!Owner
<1>15. (Res!PersistTypeOK <=> PersistTypeOK) /\ (Res!PendingInv <=> PendingInv)
  BY <1>1, <1>2, <1>3
     DEF PersistTypeOK, Res!PersistTypeOK, TypeOK, Res!TypeOK, PendingInv, Res!PendingInv
<1>16. Res!WellFormed <=> WellFormed
  BY <1>14, <1>15 DEF WellFormed, Res!WellFormed
<1>17. Res!RestoresCommit <=> RestoresCommit
  BY <1>1, <1>3, <1>4 DEF RestoresCommit, Res!RestoresCommit
<1> QED
  BY <1>1, <1>2, <1>10, <1>12, <1>13, <1>14, <1>16, <1>17

LEMMA SameBoth ==
    /\ Both!PersistNext <=> PersistNext
    /\ Both!persistVars = persistVars
    /\ Both!PersistInit <=> PersistInit
    /\ Both!WellFormed <=> WellFormed
    /\ Both!BookInv <=> BookInv
    /\ Both!RestoresCommit <=> RestoresCommit
    /\ \A e : (Both!Commit(e) <=> Commit(e)) /\ (Both!Crash(e) <=> Crash(e))
    /\ Both!Role = Role
    /\ \A T : Both!Cardinality(T) = Cardinality(T)
<1>1. Both!Role = Role /\ Both!persistVars = persistVars
  BY DEF Role, Both!Role, persistVars, Both!persistVars, vars, Both!vars
<1>2. /\ \A T : Both!Cardinality(T) = Cardinality(T)
      /\ \A T : Both!IsFiniteSet(T) <=> IsFiniteSet(T)
  BY DEF Cardinality, Both!Cardinality, IsFiniteSet, Both!IsFiniteSet
<1>3. Both!RatchetState = RatchetState /\ Both!InnerFrame = InnerFrame
  BY DEF RatchetState, Both!RatchetState, InnerFrame, Both!InnerFrame, Session,
         Both!Session, OtherSession, Both!OtherSession, DhKey, Both!DhKey, MessageKey,
         Both!MessageKey, ChainKey, Both!ChainKey, RootKey, Both!RootKey, SkippedMessageKey,
         Both!SkippedMessageKey, Labels, Both!Labels, INIT_A_TO_B_LABEL,
         Both!INIT_A_TO_B_LABEL, INIT_B_TO_A_LABEL, Both!INIT_B_TO_A_LABEL,
         ROOT_CHAIN_LABEL, Both!ROOT_CHAIN_LABEL, Role, Both!Role
<1>4. /\ \A r, e, g : Both!Restores(r, e, g) <=> Restores(r, e, g)
      /\ \A r : Both!decode_state(r) = decode_state(r)
      /\ \A r, s : Both!SameSessionState(r, s) <=> SameSessionState(r, s)
      /\ Both!AllRecords = AllRecords
      /\ Both!Nothing = Nothing
  BY DEF Restores, Both!Restores, NoDuplicates, Both!NoDuplicates, state_aad,
         Both!state_aad, LEGACY_VERSION, Both!LEGACY_VERSION, VERSION, Both!VERSION,
         decode_state, Both!decode_state, SameSessionState, Both!SameSessionState,
         SendingAt, Both!SendingAt, AllRecords, Both!AllRecords, Nothing, Both!Nothing
<1>5. \A e : /\ Both!LocalEncrypt(e) <=> LocalEncrypt(e)
             /\ Both!LocalEncryptExhausted(e) <=> LocalEncryptExhausted(e)
             /\ Both!LocalRotate(e) <=> LocalRotate(e)
  BY DEF LocalEncrypt, Both!LocalEncrypt, LocalEncryptExhausted, Both!LocalEncryptExhausted,
         LocalRotate, Both!LocalRotate, Durable, Both!Durable, Cardinality,
         Both!Cardinality, AfterEncrypt, Both!AfterEncrypt, Frame, Both!Frame, KeyOf,
         Both!KeyOf, Advance, Both!Advance, AfterRotation, Both!AfterRotation,
         diffie_hellman, Both!diffie_hellman, next_root, Both!next_root, root_chain,
         Both!root_chain, ROOT_CHAIN_LABEL, Both!ROOT_CHAIN_LABEL, saturating_add,
         Both!saturating_add, generate, Both!generate
<1>6. \A e, f : Both!LocalDecryptSkipped(e, f) <=> LocalDecryptSkipped(e, f)
  BY DEF LocalDecryptSkipped, Both!LocalDecryptSkipped, LocalReceive, Both!LocalReceive,
         Durable, Both!Durable, SameSession, Both!SameSession, OpensSkipped,
         Both!OpensSkipped, Position, Both!Position, Opens, Both!Opens, AfterSkipped,
         Both!AfterSkipped, RemoveAt, Both!RemoveAt, saturating_add, Both!saturating_add
<1>7. \A e, f : Both!LocalDecryptSameRatchet(e, f) <=> LocalDecryptSameRatchet(e, f)
  BY DEF LocalDecryptSameRatchet, Both!LocalDecryptSameRatchet, LocalReceive,
         Both!LocalReceive, Durable, Both!Durable, SameSession, Both!SameSession,
         OpensSameRatchet, Both!OpensSameRatchet, RangeAllowed, Both!RangeAllowed, Opens,
         Both!Opens, AfterSameRatchet, Both!AfterSameRatchet, derive_range,
         Both!derive_range, KeyOf, Both!KeyOf, Advance, Both!Advance, saturating_add,
         Both!saturating_add
<1>8. \A e, f : Both!LocalDecryptNewRatchet(e, f) <=> LocalDecryptNewRatchet(e, f)
  BY DEF LocalDecryptNewRatchet, Both!LocalDecryptNewRatchet, LocalReceive,
         Both!LocalReceive, Durable, Both!Durable, SameSession, Both!SameSession,
         OpensNewRatchet, Both!OpensNewRatchet, RangeAllowed, Both!RangeAllowed, Opens,
         Both!Opens, AfterNewRatchet, Both!AfterNewRatchet, derive_range, Both!derive_range,
         KeyOf, Both!KeyOf, Advance, Both!Advance, saturating_add, Both!saturating_add,
         root_chain, Both!root_chain, ROOT_CHAIN_LABEL, Both!ROOT_CHAIN_LABEL, next_root,
         Both!next_root, diffie_hellman, Both!diffie_hellman, generate, Both!generate
<1>9. \A e, f : Both!LocalDecryptRejected(e, f) <=> LocalDecryptRejected(e, f)
  BY DEF LocalDecryptRejected, Both!LocalDecryptRejected, persistVars, Both!persistVars,
         vars, Both!vars, Accepts, Both!Accepts, SameSession, Both!SameSession,
         OpensSkipped, Both!OpensSkipped, Position, Both!Position, Opens, Both!Opens,
         OpensSameRatchet, Both!OpensSameRatchet, OpensNewRatchet, Both!OpensNewRatchet,
         RangeAllowed, Both!RangeAllowed, KeyOf, Both!KeyOf, Advance, Both!Advance,
         root_chain, Both!root_chain, ROOT_CHAIN_LABEL, Both!ROOT_CHAIN_LABEL, next_root,
         Both!next_root, diffie_hellman, Both!diffie_hellman
<1>10. \A e : /\ Both!Commit(e) <=> Commit(e)
              /\ Both!Crash(e) <=> Crash(e)
  BY DEF Commit, Both!Commit, Crash, Both!Crash, Encodes, Both!Encodes, seal_state,
         Both!seal_state, Seal, Both!Seal, VERSION, Both!VERSION, state_aad, Both!state_aad,
         Nothing, Both!Nothing, Cardinality, Both!Cardinality
<1>11. \A e, r : /\ Both!Restore(e, r) <=> Restore(e, r)
                 /\ Both!RestoreRefused(e, r) <=> RestoreRefused(e, r)
  BY DEF Restore, Both!Restore, RestoreRefused, Both!RestoreRefused, persistVars,
         Both!persistVars, vars, Both!vars, Restores, Both!Restores, NoDuplicates,
         Both!NoDuplicates, state_aad, Both!state_aad, LEGACY_VERSION, Both!LEGACY_VERSION,
         VERSION, Both!VERSION, decode_state, Both!decode_state
<1>12. Both!PersistNext <=> PersistNext
  BY <1>1, <1>4, <1>5, <1>6, <1>7, <1>8, <1>9, <1>10, <1>11
     DEF PersistNext, Both!PersistNext
<1>13. Both!PersistInit <=> PersistInit
  BY DEF PersistInit, Both!PersistInit, Role, Both!Role, Nothing, Both!Nothing, Init,
         Both!Init, Seal, Both!Seal, state_aad, Both!state_aad, LEGACY_VERSION,
         Both!LEGACY_VERSION, from_authenticated_handshake_with_suite,
         Both!from_authenticated_handshake_with_suite, Session, Both!Session, Peer,
         Both!Peer, INIT_A_TO_B_LABEL, Both!INIT_A_TO_B_LABEL, INIT_B_TO_A_LABEL,
         Both!INIT_B_TO_A_LABEL
<1>14. Both!BookInv <=> BookInv
  BY <1>1, <1>2, <1>4 DEF BookInv, Both!BookInv, Sender, Both!Sender, Owner, Both!Owner
<1>15. (Both!PersistTypeOK <=> PersistTypeOK) /\ (Both!PendingInv <=> PendingInv)
  BY <1>1, <1>2, <1>3
     DEF PersistTypeOK, Both!PersistTypeOK, TypeOK, Both!TypeOK, PendingInv,
         Both!PendingInv
<1>16. Both!WellFormed <=> WellFormed
  BY <1>14, <1>15 DEF WellFormed, Both!WellFormed
<1>17. Both!RestoresCommit <=> RestoresCommit
  BY <1>1, <1>3, <1>4 DEF RestoresCommit, Both!RestoresCommit
<1> QED
  BY <1>1, <1>2, <1>10, <1>12, <1>13, <1>14, <1>16, <1>17

\* Views that look alike are alike.
LEMMA NoneLikeIni == None!seenVars = Ini!seenVars => (None!Sound <=> Ini!Sound)
<1> SUFFICES ASSUME None!seenVars = Ini!seenVars
             PROVE  None!Sound <=> Ini!Sound
  OBVIOUS
<1>1. /\ None!ratchetSeen = Ini!ratchetSeen /\ None!netSeen = Ini!netSeen
      /\ None!deliveredSeen = Ini!deliveredSeen /\ None!returnedSeen = Ini!returnedSeen
  BY DEF None!seenVars, Ini!seenVars
\* Operators that do not look at the state.
<1>2. /\ None!Seen!Role = Ini!Seen!Role /\ None!Seen!Session = Ini!Seen!Session
      /\ \A k : None!Seen!Owner(k) = Ini!Seen!Owner(k)
      /\ \A e : None!Seen!Peer(e) = Ini!Seen!Peer(e)
      /\ \A f : None!Seen!Sender(f) = Ini!Seen!Sender(f)
      /\ \A c, d : None!Seen!SameChain(c, d) <=> Ini!Seen!SameChain(c, d)
      /\ \A c, n : None!Seen!KeyAt(c, n) = Ini!Seen!KeyAt(c, n)
  BY DEF None!Seen!Role, Ini!Seen!Role, None!Seen!Session, Ini!Seen!Session, None!Seen!Owner,
         Ini!Seen!Owner, None!Seen!Peer, Ini!Seen!Peer, None!Seen!Sender, Ini!Seen!Sender,
         None!Seen!SameChain, Ini!Seen!SameChain, None!Seen!KeyAt, Ini!Seen!KeyAt
<1>3. /\ \A h, k : None!Seen!diffie_hellman(h, k) = Ini!Seen!diffie_hellman(h, k)
      /\ \A h, k : None!Seen!next_root(h, k) = Ini!Seen!next_root(h, k)
      /\ \A h, k : None!Seen!root_chain(h, k) = Ini!Seen!root_chain(h, k)
  BY DEF None!Seen!diffie_hellman, Ini!Seen!diffie_hellman, None!Seen!next_root,
         Ini!Seen!next_root, None!Seen!root_chain, Ini!Seen!root_chain,
         None!Seen!ROOT_CHAIN_LABEL, Ini!Seen!ROOT_CHAIN_LABEL
<1>4. None!Seen!RatchetState = Ini!Seen!RatchetState /\ None!Seen!InnerFrame = Ini!Seen!InnerFrame
  BY <1>2
     DEF None!Seen!RatchetState, Ini!Seen!RatchetState, None!Seen!InnerFrame,
         Ini!Seen!InnerFrame, None!Seen!OtherSession, Ini!Seen!OtherSession, None!Seen!DhKey,
         Ini!Seen!DhKey, None!Seen!MessageKey, Ini!Seen!MessageKey, None!Seen!ChainKey,
         Ini!Seen!ChainKey, None!Seen!RootKey, Ini!Seen!RootKey, None!Seen!SkippedMessageKey,
         Ini!Seen!SkippedMessageKey, None!Seen!Labels, Ini!Seen!Labels,
         None!Seen!INIT_A_TO_B_LABEL, Ini!Seen!INIT_A_TO_B_LABEL,
         None!Seen!INIT_B_TO_A_LABEL, Ini!Seen!INIT_B_TO_A_LABEL, None!Seen!ROOT_CHAIN_LABEL,
         Ini!Seen!ROOT_CHAIN_LABEL
<1>5. \A T : None!Seen!IsFiniteSet(T) <=> Ini!Seen!IsFiniteSet(T)
  BY DEF None!Seen!IsFiniteSet, Ini!Seen!IsFiniteSet
\* Operators that do.
<1>6. /\ \A k : None!Seen!KnownKey(k) <=> Ini!Seen!KnownKey(k)
      /\ \A k : None!Seen!KnownRoot(k) <=> Ini!Seen!KnownRoot(k)
      /\ \A k, n : None!Seen!Emitted(k, n) <=> Ini!Seen!Emitted(k, n)
      /\ \A e, n : None!Seen!Returned(e, n) <=> Ini!Seen!Returned(e, n)
      /\ \A e, n : None!Seen!Kept(e, n) <=> Ini!Seen!Kept(e, n)
      /\ None!Seen!Even <=> Ini!Seen!Even
  BY <1>1, <1>2
     DEF None!Seen!KnownKey, Ini!Seen!KnownKey, None!Seen!KnownRoot, Ini!Seen!KnownRoot,
         None!Seen!Emitted, Ini!Seen!Emitted, None!Seen!Returned, Ini!Seen!Returned,
         None!Seen!Kept, Ini!Seen!Kept, None!Seen!Even, Ini!Seen!Even
<1>7. /\ \A e, k : None!Seen!Passed(e, k) <=> Ini!Seen!Passed(e, k)
      /\ \A e : None!Seen!Receives(e) <=> Ini!Seen!Receives(e)
      /\ \A e : None!Seen!Leads(e) <=> Ini!Seen!Leads(e)
  BY <1>1, <1>2, <1>3, <1>6
     DEF None!Seen!Passed, Ini!Seen!Passed, None!Seen!Receives, Ini!Seen!Receives,
         None!Seen!Leads, Ini!Seen!Leads
<1>8. None!Seen!TypeOK <=> Ini!Seen!TypeOK
  BY <1>1, <1>2, <1>4, <1>5, <1>6, <1>7 DEF None!Seen!TypeOK, Ini!Seen!TypeOK
<1>9. None!Seen!SkippedBounded <=> Ini!Seen!SkippedBounded
  BY <1>1, <1>2, <1>4, <1>5, <1>6, <1>7 DEF None!Seen!SkippedBounded, Ini!Seen!SkippedBounded
<1>10. None!Seen!KeysInv <=> Ini!Seen!KeysInv
  BY <1>1, <1>2, <1>4, <1>5, <1>6, <1>7 DEF None!Seen!KeysInv, Ini!Seen!KeysInv
<1>11. None!Seen!CountInv <=> Ini!Seen!CountInv
  BY <1>1, <1>2, <1>4, <1>5, <1>6, <1>7 DEF None!Seen!CountInv, Ini!Seen!CountInv
<1>12. None!Seen!FrameInv <=> Ini!Seen!FrameInv
  BY <1>1, <1>2, <1>4, <1>5, <1>6, <1>7 DEF None!Seen!FrameInv, Ini!Seen!FrameInv
<1>13. None!Seen!ChainInv <=> Ini!Seen!ChainInv
  BY <1>1, <1>2, <1>4, <1>5, <1>6, <1>7 DEF None!Seen!ChainInv, Ini!Seen!ChainInv
<1>14. None!Seen!SendingInv <=> Ini!Seen!SendingInv
  BY <1>1, <1>2, <1>4, <1>5, <1>6, <1>7 DEF None!Seen!SendingInv, Ini!Seen!SendingInv
<1>15. None!Seen!SkippedInv <=> Ini!Seen!SkippedInv
  BY <1>1, <1>2, <1>4, <1>5, <1>6, <1>7 DEF None!Seen!SkippedInv, Ini!Seen!SkippedInv
<1>16. None!Seen!SkippedUnique <=> Ini!Seen!SkippedUnique
  BY <1>1, <1>2, <1>4, <1>5, <1>6, <1>7 DEF None!Seen!SkippedUnique, Ini!Seen!SkippedUnique
<1>17. None!Seen!DeliveredInv <=> Ini!Seen!DeliveredInv
  BY <1>1, <1>2, <1>4, <1>5, <1>6, <1>7 DEF None!Seen!DeliveredInv, Ini!Seen!DeliveredInv
<1>18. None!Seen!ReceivingInv <=> Ini!Seen!ReceivingInv
  BY <1>1, <1>2, <1>4, <1>5, <1>6, <1>7 DEF None!Seen!ReceivingInv, Ini!Seen!ReceivingInv
<1>19. None!Seen!EmittedInv <=> Ini!Seen!EmittedInv
  BY <1>1, <1>2, <1>4, <1>5, <1>6, <1>7 DEF None!Seen!EmittedInv, Ini!Seen!EmittedInv
<1>20. None!Seen!RootsInv <=> Ini!Seen!RootsInv
  BY <1>1, <1>2, <1>4, <1>5, <1>6, <1>7 DEF None!Seen!RootsInv, Ini!Seen!RootsInv
<1>21. None!Seen!StoreInv <=> Ini!Seen!StoreInv
  BY <1>1, <1>2, <1>4, <1>5, <1>6, <1>7 DEF None!Seen!StoreInv, Ini!Seen!StoreInv
<1> QED
  BY <1>8, <1>9, <1>10, <1>11, <1>12, <1>13, <1>14, <1>15, <1>16, <1>17, <1>18, <1>19, <1>20, <1>21
     DEF None!Sound, Ini!Sound, None!Seen!RatchetInv, Ini!Seen!RatchetInv, None!Seen!SyncInv, Ini!Seen!SyncInv

LEMMA NoneLikeRes == None!seenVars = Res!seenVars => (None!Sound <=> Res!Sound)
<1> SUFFICES ASSUME None!seenVars = Res!seenVars
             PROVE  None!Sound <=> Res!Sound
  OBVIOUS
<1>1. /\ None!ratchetSeen = Res!ratchetSeen /\ None!netSeen = Res!netSeen
      /\ None!deliveredSeen = Res!deliveredSeen /\ None!returnedSeen = Res!returnedSeen
  BY DEF None!seenVars, Res!seenVars
\* Operators that do not look at the state.
<1>2. /\ None!Seen!Role = Res!Seen!Role /\ None!Seen!Session = Res!Seen!Session
      /\ \A k : None!Seen!Owner(k) = Res!Seen!Owner(k)
      /\ \A e : None!Seen!Peer(e) = Res!Seen!Peer(e)
      /\ \A f : None!Seen!Sender(f) = Res!Seen!Sender(f)
      /\ \A c, d : None!Seen!SameChain(c, d) <=> Res!Seen!SameChain(c, d)
      /\ \A c, n : None!Seen!KeyAt(c, n) = Res!Seen!KeyAt(c, n)
  BY DEF None!Seen!Role, Res!Seen!Role, None!Seen!Session, Res!Seen!Session, None!Seen!Owner,
         Res!Seen!Owner, None!Seen!Peer, Res!Seen!Peer, None!Seen!Sender, Res!Seen!Sender,
         None!Seen!SameChain, Res!Seen!SameChain, None!Seen!KeyAt, Res!Seen!KeyAt
<1>3. /\ \A h, k : None!Seen!diffie_hellman(h, k) = Res!Seen!diffie_hellman(h, k)
      /\ \A h, k : None!Seen!next_root(h, k) = Res!Seen!next_root(h, k)
      /\ \A h, k : None!Seen!root_chain(h, k) = Res!Seen!root_chain(h, k)
  BY DEF None!Seen!diffie_hellman, Res!Seen!diffie_hellman, None!Seen!next_root,
         Res!Seen!next_root, None!Seen!root_chain, Res!Seen!root_chain,
         None!Seen!ROOT_CHAIN_LABEL, Res!Seen!ROOT_CHAIN_LABEL
<1>4. None!Seen!RatchetState = Res!Seen!RatchetState /\ None!Seen!InnerFrame = Res!Seen!InnerFrame
  BY <1>2
     DEF None!Seen!RatchetState, Res!Seen!RatchetState, None!Seen!InnerFrame,
         Res!Seen!InnerFrame, None!Seen!OtherSession, Res!Seen!OtherSession, None!Seen!DhKey,
         Res!Seen!DhKey, None!Seen!MessageKey, Res!Seen!MessageKey, None!Seen!ChainKey,
         Res!Seen!ChainKey, None!Seen!RootKey, Res!Seen!RootKey, None!Seen!SkippedMessageKey,
         Res!Seen!SkippedMessageKey, None!Seen!Labels, Res!Seen!Labels,
         None!Seen!INIT_A_TO_B_LABEL, Res!Seen!INIT_A_TO_B_LABEL,
         None!Seen!INIT_B_TO_A_LABEL, Res!Seen!INIT_B_TO_A_LABEL, None!Seen!ROOT_CHAIN_LABEL,
         Res!Seen!ROOT_CHAIN_LABEL
<1>5. \A T : None!Seen!IsFiniteSet(T) <=> Res!Seen!IsFiniteSet(T)
  BY DEF None!Seen!IsFiniteSet, Res!Seen!IsFiniteSet
\* Operators that do.
<1>6. /\ \A k : None!Seen!KnownKey(k) <=> Res!Seen!KnownKey(k)
      /\ \A k : None!Seen!KnownRoot(k) <=> Res!Seen!KnownRoot(k)
      /\ \A k, n : None!Seen!Emitted(k, n) <=> Res!Seen!Emitted(k, n)
      /\ \A e, n : None!Seen!Returned(e, n) <=> Res!Seen!Returned(e, n)
      /\ \A e, n : None!Seen!Kept(e, n) <=> Res!Seen!Kept(e, n)
      /\ None!Seen!Even <=> Res!Seen!Even
  BY <1>1, <1>2
     DEF None!Seen!KnownKey, Res!Seen!KnownKey, None!Seen!KnownRoot, Res!Seen!KnownRoot,
         None!Seen!Emitted, Res!Seen!Emitted, None!Seen!Returned, Res!Seen!Returned,
         None!Seen!Kept, Res!Seen!Kept, None!Seen!Even, Res!Seen!Even
<1>7. /\ \A e, k : None!Seen!Passed(e, k) <=> Res!Seen!Passed(e, k)
      /\ \A e : None!Seen!Receives(e) <=> Res!Seen!Receives(e)
      /\ \A e : None!Seen!Leads(e) <=> Res!Seen!Leads(e)
  BY <1>1, <1>2, <1>3, <1>6
     DEF None!Seen!Passed, Res!Seen!Passed, None!Seen!Receives, Res!Seen!Receives,
         None!Seen!Leads, Res!Seen!Leads
<1>8. None!Seen!TypeOK <=> Res!Seen!TypeOK
  BY <1>1, <1>2, <1>4, <1>5, <1>6, <1>7 DEF None!Seen!TypeOK, Res!Seen!TypeOK
<1>9. None!Seen!SkippedBounded <=> Res!Seen!SkippedBounded
  BY <1>1, <1>2, <1>4, <1>5, <1>6, <1>7 DEF None!Seen!SkippedBounded, Res!Seen!SkippedBounded
<1>10. None!Seen!KeysInv <=> Res!Seen!KeysInv
  BY <1>1, <1>2, <1>4, <1>5, <1>6, <1>7 DEF None!Seen!KeysInv, Res!Seen!KeysInv
<1>11. None!Seen!CountInv <=> Res!Seen!CountInv
  BY <1>1, <1>2, <1>4, <1>5, <1>6, <1>7 DEF None!Seen!CountInv, Res!Seen!CountInv
<1>12. None!Seen!FrameInv <=> Res!Seen!FrameInv
  BY <1>1, <1>2, <1>4, <1>5, <1>6, <1>7 DEF None!Seen!FrameInv, Res!Seen!FrameInv
<1>13. None!Seen!ChainInv <=> Res!Seen!ChainInv
  BY <1>1, <1>2, <1>4, <1>5, <1>6, <1>7 DEF None!Seen!ChainInv, Res!Seen!ChainInv
<1>14. None!Seen!SendingInv <=> Res!Seen!SendingInv
  BY <1>1, <1>2, <1>4, <1>5, <1>6, <1>7 DEF None!Seen!SendingInv, Res!Seen!SendingInv
<1>15. None!Seen!SkippedInv <=> Res!Seen!SkippedInv
  BY <1>1, <1>2, <1>4, <1>5, <1>6, <1>7 DEF None!Seen!SkippedInv, Res!Seen!SkippedInv
<1>16. None!Seen!SkippedUnique <=> Res!Seen!SkippedUnique
  BY <1>1, <1>2, <1>4, <1>5, <1>6, <1>7 DEF None!Seen!SkippedUnique, Res!Seen!SkippedUnique
<1>17. None!Seen!DeliveredInv <=> Res!Seen!DeliveredInv
  BY <1>1, <1>2, <1>4, <1>5, <1>6, <1>7 DEF None!Seen!DeliveredInv, Res!Seen!DeliveredInv
<1>18. None!Seen!ReceivingInv <=> Res!Seen!ReceivingInv
  BY <1>1, <1>2, <1>4, <1>5, <1>6, <1>7 DEF None!Seen!ReceivingInv, Res!Seen!ReceivingInv
<1>19. None!Seen!EmittedInv <=> Res!Seen!EmittedInv
  BY <1>1, <1>2, <1>4, <1>5, <1>6, <1>7 DEF None!Seen!EmittedInv, Res!Seen!EmittedInv
<1>20. None!Seen!RootsInv <=> Res!Seen!RootsInv
  BY <1>1, <1>2, <1>4, <1>5, <1>6, <1>7 DEF None!Seen!RootsInv, Res!Seen!RootsInv
<1>21. None!Seen!StoreInv <=> Res!Seen!StoreInv
  BY <1>1, <1>2, <1>4, <1>5, <1>6, <1>7 DEF None!Seen!StoreInv, Res!Seen!StoreInv
<1> QED
  BY <1>8, <1>9, <1>10, <1>11, <1>12, <1>13, <1>14, <1>15, <1>16, <1>17, <1>18, <1>19, <1>20, <1>21
     DEF None!Sound, Res!Sound, None!Seen!RatchetInv, Res!Seen!RatchetInv, None!Seen!SyncInv, Res!Seen!SyncInv

LEMMA IniLikeBoth == Ini!seenVars = Both!seenVars => (Ini!Sound <=> Both!Sound)
<1> SUFFICES ASSUME Ini!seenVars = Both!seenVars
             PROVE  Ini!Sound <=> Both!Sound
  OBVIOUS
<1>1. /\ Ini!ratchetSeen = Both!ratchetSeen /\ Ini!netSeen = Both!netSeen
      /\ Ini!deliveredSeen = Both!deliveredSeen /\ Ini!returnedSeen = Both!returnedSeen
  BY DEF Ini!seenVars, Both!seenVars
\* Operators that do not look at the state.
<1>2. /\ Ini!Seen!Role = Both!Seen!Role /\ Ini!Seen!Session = Both!Seen!Session
      /\ \A k : Ini!Seen!Owner(k) = Both!Seen!Owner(k)
      /\ \A e : Ini!Seen!Peer(e) = Both!Seen!Peer(e)
      /\ \A f : Ini!Seen!Sender(f) = Both!Seen!Sender(f)
      /\ \A c, d : Ini!Seen!SameChain(c, d) <=> Both!Seen!SameChain(c, d)
      /\ \A c, n : Ini!Seen!KeyAt(c, n) = Both!Seen!KeyAt(c, n)
  BY DEF Ini!Seen!Role, Both!Seen!Role, Ini!Seen!Session, Both!Seen!Session, Ini!Seen!Owner,
         Both!Seen!Owner, Ini!Seen!Peer, Both!Seen!Peer, Ini!Seen!Sender, Both!Seen!Sender,
         Ini!Seen!SameChain, Both!Seen!SameChain, Ini!Seen!KeyAt, Both!Seen!KeyAt
<1>3. /\ \A h, k : Ini!Seen!diffie_hellman(h, k) = Both!Seen!diffie_hellman(h, k)
      /\ \A h, k : Ini!Seen!next_root(h, k) = Both!Seen!next_root(h, k)
      /\ \A h, k : Ini!Seen!root_chain(h, k) = Both!Seen!root_chain(h, k)
  BY DEF Ini!Seen!diffie_hellman, Both!Seen!diffie_hellman, Ini!Seen!next_root,
         Both!Seen!next_root, Ini!Seen!root_chain, Both!Seen!root_chain,
         Ini!Seen!ROOT_CHAIN_LABEL, Both!Seen!ROOT_CHAIN_LABEL
<1>4. Ini!Seen!RatchetState = Both!Seen!RatchetState /\ Ini!Seen!InnerFrame = Both!Seen!InnerFrame
  BY <1>2
     DEF Ini!Seen!RatchetState, Both!Seen!RatchetState, Ini!Seen!InnerFrame,
         Both!Seen!InnerFrame, Ini!Seen!OtherSession, Both!Seen!OtherSession, Ini!Seen!DhKey,
         Both!Seen!DhKey, Ini!Seen!MessageKey, Both!Seen!MessageKey, Ini!Seen!ChainKey,
         Both!Seen!ChainKey, Ini!Seen!RootKey, Both!Seen!RootKey, Ini!Seen!SkippedMessageKey,
         Both!Seen!SkippedMessageKey, Ini!Seen!Labels, Both!Seen!Labels,
         Ini!Seen!INIT_A_TO_B_LABEL, Both!Seen!INIT_A_TO_B_LABEL, Ini!Seen!INIT_B_TO_A_LABEL,
         Both!Seen!INIT_B_TO_A_LABEL, Ini!Seen!ROOT_CHAIN_LABEL, Both!Seen!ROOT_CHAIN_LABEL
<1>5. \A T : Ini!Seen!IsFiniteSet(T) <=> Both!Seen!IsFiniteSet(T)
  BY DEF Ini!Seen!IsFiniteSet, Both!Seen!IsFiniteSet
\* Operators that do.
<1>6. /\ \A k : Ini!Seen!KnownKey(k) <=> Both!Seen!KnownKey(k)
      /\ \A k : Ini!Seen!KnownRoot(k) <=> Both!Seen!KnownRoot(k)
      /\ \A k, n : Ini!Seen!Emitted(k, n) <=> Both!Seen!Emitted(k, n)
      /\ \A e, n : Ini!Seen!Returned(e, n) <=> Both!Seen!Returned(e, n)
      /\ \A e, n : Ini!Seen!Kept(e, n) <=> Both!Seen!Kept(e, n)
      /\ Ini!Seen!Even <=> Both!Seen!Even
  BY <1>1, <1>2
     DEF Ini!Seen!KnownKey, Both!Seen!KnownKey, Ini!Seen!KnownRoot, Both!Seen!KnownRoot,
         Ini!Seen!Emitted, Both!Seen!Emitted, Ini!Seen!Returned, Both!Seen!Returned,
         Ini!Seen!Kept, Both!Seen!Kept, Ini!Seen!Even, Both!Seen!Even
<1>7. /\ \A e, k : Ini!Seen!Passed(e, k) <=> Both!Seen!Passed(e, k)
      /\ \A e : Ini!Seen!Receives(e) <=> Both!Seen!Receives(e)
      /\ \A e : Ini!Seen!Leads(e) <=> Both!Seen!Leads(e)
  BY <1>1, <1>2, <1>3, <1>6
     DEF Ini!Seen!Passed, Both!Seen!Passed, Ini!Seen!Receives, Both!Seen!Receives,
         Ini!Seen!Leads, Both!Seen!Leads
<1>8. Ini!Seen!TypeOK <=> Both!Seen!TypeOK
  BY <1>1, <1>2, <1>4, <1>5, <1>6, <1>7 DEF Ini!Seen!TypeOK, Both!Seen!TypeOK
<1>9. Ini!Seen!SkippedBounded <=> Both!Seen!SkippedBounded
  BY <1>1, <1>2, <1>4, <1>5, <1>6, <1>7 DEF Ini!Seen!SkippedBounded, Both!Seen!SkippedBounded
<1>10. Ini!Seen!KeysInv <=> Both!Seen!KeysInv
  BY <1>1, <1>2, <1>4, <1>5, <1>6, <1>7 DEF Ini!Seen!KeysInv, Both!Seen!KeysInv
<1>11. Ini!Seen!CountInv <=> Both!Seen!CountInv
  BY <1>1, <1>2, <1>4, <1>5, <1>6, <1>7 DEF Ini!Seen!CountInv, Both!Seen!CountInv
<1>12. Ini!Seen!FrameInv <=> Both!Seen!FrameInv
  BY <1>1, <1>2, <1>4, <1>5, <1>6, <1>7 DEF Ini!Seen!FrameInv, Both!Seen!FrameInv
<1>13. Ini!Seen!ChainInv <=> Both!Seen!ChainInv
  BY <1>1, <1>2, <1>4, <1>5, <1>6, <1>7 DEF Ini!Seen!ChainInv, Both!Seen!ChainInv
<1>14. Ini!Seen!SendingInv <=> Both!Seen!SendingInv
  BY <1>1, <1>2, <1>4, <1>5, <1>6, <1>7 DEF Ini!Seen!SendingInv, Both!Seen!SendingInv
<1>15. Ini!Seen!SkippedInv <=> Both!Seen!SkippedInv
  BY <1>1, <1>2, <1>4, <1>5, <1>6, <1>7 DEF Ini!Seen!SkippedInv, Both!Seen!SkippedInv
<1>16. Ini!Seen!SkippedUnique <=> Both!Seen!SkippedUnique
  BY <1>1, <1>2, <1>4, <1>5, <1>6, <1>7 DEF Ini!Seen!SkippedUnique, Both!Seen!SkippedUnique
<1>17. Ini!Seen!DeliveredInv <=> Both!Seen!DeliveredInv
  BY <1>1, <1>2, <1>4, <1>5, <1>6, <1>7 DEF Ini!Seen!DeliveredInv, Both!Seen!DeliveredInv
<1>18. Ini!Seen!ReceivingInv <=> Both!Seen!ReceivingInv
  BY <1>1, <1>2, <1>4, <1>5, <1>6, <1>7 DEF Ini!Seen!ReceivingInv, Both!Seen!ReceivingInv
<1>19. Ini!Seen!EmittedInv <=> Both!Seen!EmittedInv
  BY <1>1, <1>2, <1>4, <1>5, <1>6, <1>7 DEF Ini!Seen!EmittedInv, Both!Seen!EmittedInv
<1>20. Ini!Seen!RootsInv <=> Both!Seen!RootsInv
  BY <1>1, <1>2, <1>4, <1>5, <1>6, <1>7 DEF Ini!Seen!RootsInv, Both!Seen!RootsInv
<1>21. Ini!Seen!StoreInv <=> Both!Seen!StoreInv
  BY <1>1, <1>2, <1>4, <1>5, <1>6, <1>7 DEF Ini!Seen!StoreInv, Both!Seen!StoreInv
<1> QED
  BY <1>8, <1>9, <1>10, <1>11, <1>12, <1>13, <1>14, <1>15, <1>16, <1>17, <1>18, <1>19, <1>20, <1>21
     DEF Ini!Sound, Both!Sound, Ini!Seen!RatchetInv, Both!Seen!RatchetInv, Ini!Seen!SyncInv, Both!Seen!SyncInv

LEMMA ResLikeBoth == Res!seenVars = Both!seenVars => (Res!Sound <=> Both!Sound)
<1> SUFFICES ASSUME Res!seenVars = Both!seenVars
             PROVE  Res!Sound <=> Both!Sound
  OBVIOUS
<1>1. /\ Res!ratchetSeen = Both!ratchetSeen /\ Res!netSeen = Both!netSeen
      /\ Res!deliveredSeen = Both!deliveredSeen /\ Res!returnedSeen = Both!returnedSeen
  BY DEF Res!seenVars, Both!seenVars
\* Operators that do not look at the state.
<1>2. /\ Res!Seen!Role = Both!Seen!Role /\ Res!Seen!Session = Both!Seen!Session
      /\ \A k : Res!Seen!Owner(k) = Both!Seen!Owner(k)
      /\ \A e : Res!Seen!Peer(e) = Both!Seen!Peer(e)
      /\ \A f : Res!Seen!Sender(f) = Both!Seen!Sender(f)
      /\ \A c, d : Res!Seen!SameChain(c, d) <=> Both!Seen!SameChain(c, d)
      /\ \A c, n : Res!Seen!KeyAt(c, n) = Both!Seen!KeyAt(c, n)
  BY DEF Res!Seen!Role, Both!Seen!Role, Res!Seen!Session, Both!Seen!Session, Res!Seen!Owner,
         Both!Seen!Owner, Res!Seen!Peer, Both!Seen!Peer, Res!Seen!Sender, Both!Seen!Sender,
         Res!Seen!SameChain, Both!Seen!SameChain, Res!Seen!KeyAt, Both!Seen!KeyAt
<1>3. /\ \A h, k : Res!Seen!diffie_hellman(h, k) = Both!Seen!diffie_hellman(h, k)
      /\ \A h, k : Res!Seen!next_root(h, k) = Both!Seen!next_root(h, k)
      /\ \A h, k : Res!Seen!root_chain(h, k) = Both!Seen!root_chain(h, k)
  BY DEF Res!Seen!diffie_hellman, Both!Seen!diffie_hellman, Res!Seen!next_root,
         Both!Seen!next_root, Res!Seen!root_chain, Both!Seen!root_chain,
         Res!Seen!ROOT_CHAIN_LABEL, Both!Seen!ROOT_CHAIN_LABEL
<1>4. Res!Seen!RatchetState = Both!Seen!RatchetState /\ Res!Seen!InnerFrame = Both!Seen!InnerFrame
  BY <1>2
     DEF Res!Seen!RatchetState, Both!Seen!RatchetState, Res!Seen!InnerFrame,
         Both!Seen!InnerFrame, Res!Seen!OtherSession, Both!Seen!OtherSession, Res!Seen!DhKey,
         Both!Seen!DhKey, Res!Seen!MessageKey, Both!Seen!MessageKey, Res!Seen!ChainKey,
         Both!Seen!ChainKey, Res!Seen!RootKey, Both!Seen!RootKey, Res!Seen!SkippedMessageKey,
         Both!Seen!SkippedMessageKey, Res!Seen!Labels, Both!Seen!Labels,
         Res!Seen!INIT_A_TO_B_LABEL, Both!Seen!INIT_A_TO_B_LABEL, Res!Seen!INIT_B_TO_A_LABEL,
         Both!Seen!INIT_B_TO_A_LABEL, Res!Seen!ROOT_CHAIN_LABEL, Both!Seen!ROOT_CHAIN_LABEL
<1>5. \A T : Res!Seen!IsFiniteSet(T) <=> Both!Seen!IsFiniteSet(T)
  BY DEF Res!Seen!IsFiniteSet, Both!Seen!IsFiniteSet
\* Operators that do.
<1>6. /\ \A k : Res!Seen!KnownKey(k) <=> Both!Seen!KnownKey(k)
      /\ \A k : Res!Seen!KnownRoot(k) <=> Both!Seen!KnownRoot(k)
      /\ \A k, n : Res!Seen!Emitted(k, n) <=> Both!Seen!Emitted(k, n)
      /\ \A e, n : Res!Seen!Returned(e, n) <=> Both!Seen!Returned(e, n)
      /\ \A e, n : Res!Seen!Kept(e, n) <=> Both!Seen!Kept(e, n)
      /\ Res!Seen!Even <=> Both!Seen!Even
  BY <1>1, <1>2
     DEF Res!Seen!KnownKey, Both!Seen!KnownKey, Res!Seen!KnownRoot, Both!Seen!KnownRoot,
         Res!Seen!Emitted, Both!Seen!Emitted, Res!Seen!Returned, Both!Seen!Returned,
         Res!Seen!Kept, Both!Seen!Kept, Res!Seen!Even, Both!Seen!Even
<1>7. /\ \A e, k : Res!Seen!Passed(e, k) <=> Both!Seen!Passed(e, k)
      /\ \A e : Res!Seen!Receives(e) <=> Both!Seen!Receives(e)
      /\ \A e : Res!Seen!Leads(e) <=> Both!Seen!Leads(e)
  BY <1>1, <1>2, <1>3, <1>6
     DEF Res!Seen!Passed, Both!Seen!Passed, Res!Seen!Receives, Both!Seen!Receives,
         Res!Seen!Leads, Both!Seen!Leads
<1>8. Res!Seen!TypeOK <=> Both!Seen!TypeOK
  BY <1>1, <1>2, <1>4, <1>5, <1>6, <1>7 DEF Res!Seen!TypeOK, Both!Seen!TypeOK
<1>9. Res!Seen!SkippedBounded <=> Both!Seen!SkippedBounded
  BY <1>1, <1>2, <1>4, <1>5, <1>6, <1>7 DEF Res!Seen!SkippedBounded, Both!Seen!SkippedBounded
<1>10. Res!Seen!KeysInv <=> Both!Seen!KeysInv
  BY <1>1, <1>2, <1>4, <1>5, <1>6, <1>7 DEF Res!Seen!KeysInv, Both!Seen!KeysInv
<1>11. Res!Seen!CountInv <=> Both!Seen!CountInv
  BY <1>1, <1>2, <1>4, <1>5, <1>6, <1>7 DEF Res!Seen!CountInv, Both!Seen!CountInv
<1>12. Res!Seen!FrameInv <=> Both!Seen!FrameInv
  BY <1>1, <1>2, <1>4, <1>5, <1>6, <1>7 DEF Res!Seen!FrameInv, Both!Seen!FrameInv
<1>13. Res!Seen!ChainInv <=> Both!Seen!ChainInv
  BY <1>1, <1>2, <1>4, <1>5, <1>6, <1>7 DEF Res!Seen!ChainInv, Both!Seen!ChainInv
<1>14. Res!Seen!SendingInv <=> Both!Seen!SendingInv
  BY <1>1, <1>2, <1>4, <1>5, <1>6, <1>7 DEF Res!Seen!SendingInv, Both!Seen!SendingInv
<1>15. Res!Seen!SkippedInv <=> Both!Seen!SkippedInv
  BY <1>1, <1>2, <1>4, <1>5, <1>6, <1>7 DEF Res!Seen!SkippedInv, Both!Seen!SkippedInv
<1>16. Res!Seen!SkippedUnique <=> Both!Seen!SkippedUnique
  BY <1>1, <1>2, <1>4, <1>5, <1>6, <1>7 DEF Res!Seen!SkippedUnique, Both!Seen!SkippedUnique
<1>17. Res!Seen!DeliveredInv <=> Both!Seen!DeliveredInv
  BY <1>1, <1>2, <1>4, <1>5, <1>6, <1>7 DEF Res!Seen!DeliveredInv, Both!Seen!DeliveredInv
<1>18. Res!Seen!ReceivingInv <=> Both!Seen!ReceivingInv
  BY <1>1, <1>2, <1>4, <1>5, <1>6, <1>7 DEF Res!Seen!ReceivingInv, Both!Seen!ReceivingInv
<1>19. Res!Seen!EmittedInv <=> Both!Seen!EmittedInv
  BY <1>1, <1>2, <1>4, <1>5, <1>6, <1>7 DEF Res!Seen!EmittedInv, Both!Seen!EmittedInv
<1>20. Res!Seen!RootsInv <=> Both!Seen!RootsInv
  BY <1>1, <1>2, <1>4, <1>5, <1>6, <1>7 DEF Res!Seen!RootsInv, Both!Seen!RootsInv
<1>21. Res!Seen!StoreInv <=> Both!Seen!StoreInv
  BY <1>1, <1>2, <1>4, <1>5, <1>6, <1>7 DEF Res!Seen!StoreInv, Both!Seen!StoreInv
<1> QED
  BY <1>8, <1>9, <1>10, <1>11, <1>12, <1>13, <1>14, <1>15, <1>16, <1>17, <1>18, <1>19, <1>20, <1>21
     DEF Res!Sound, Both!Sound, Res!Seen!RatchetInv, Both!Seen!RatchetInv, Res!Seen!SyncInv, Both!Seen!SyncInv

\* An endpoint whose memory is what it committed looks the same either way.
Settled(e) == ratchet[e] = committed[e] /\ pending[e] = Nothing

LEMMA SettledViews ==
    /\ Settled("Initiator") /\ WellFormed
         => None!seenVars = Ini!seenVars /\ Res!seenVars = Both!seenVars
    /\ Settled("Responder") /\ WellFormed
         => None!seenVars = Res!seenVars /\ Ini!seenVars = Both!seenVars
<1> SUFFICES ASSUME WellFormed
             PROVE  /\ Settled("Initiator")
                         => None!seenVars = Ini!seenVars /\ Res!seenVars = Both!seenVars
                    /\ Settled("Responder")
                         => None!seenVars = Res!seenVars /\ Ini!seenVars = Both!seenVars
  OBVIOUS
<1>1. /\ None!Role = Role /\ Ini!Role = Role /\ Res!Role = Role /\ Both!Role = Role
      /\ \A T : /\ None!Cardinality(T) = Cardinality(T) /\ Ini!Cardinality(T) = Cardinality(T)
                /\ Res!Cardinality(T) = Cardinality(T) /\ Both!Cardinality(T) = Cardinality(T)
  BY SameNone, SameIni, SameRes, SameBoth
<1>2. /\ Nothing.out = {} /\ Nothing.in = {} /\ Cardinality({}) = 0
      /\ \A d \in Role : returned[d] \in Nat
  BY FS_EmptySet DEF Nothing, WellFormed, PersistTypeOK, TypeOK
<1>3. ASSUME NEW e \in Role, Settled(e)
      PROVE  /\ ratchet[e] = committed[e] /\ pending[e].out = {}
             /\ delivered[e] \cup pending[e].in = delivered[e]
             /\ returned[e] + Cardinality(pending[e].in) = returned[e]
  <2>1. pending[e].in = {} /\ pending[e].out = {} /\ Cardinality(pending[e].in) = 0
    BY <1>2, <1>3 DEF Settled
  <2>2. returned[e] + Cardinality(pending[e].in) = returned[e]
    BY <1>2, <2>1
  <2> QED
    BY <1>3, <2>1, <2>2 DEF Settled
<1>4. Role = {"Initiator", "Responder"}
  BY DEF Role
<1>5. ASSUME Settled("Initiator")
      PROVE  None!seenVars = Ini!seenVars /\ Res!seenVars = Both!seenVars
  <2>1. /\ ratchet["Initiator"] = committed["Initiator"] /\ pending["Initiator"].out = {}
        /\ delivered["Initiator"] \cup pending["Initiator"].in = delivered["Initiator"]
        /\ returned["Initiator"] + Cardinality(pending["Initiator"].in) = returned["Initiator"]
    BY <1>3, <1>4, <1>5
  <2>2. None!ratchetSeen = Ini!ratchetSeen /\ Res!ratchetSeen = Both!ratchetSeen
    BY <1>1, <1>4, <2>1
       DEF None!ratchetSeen, Ini!ratchetSeen, Res!ratchetSeen, Both!ratchetSeen
  <2>3. None!netSeen = Ini!netSeen /\ Res!netSeen = Both!netSeen
    BY <1>1, <1>4, <2>1 DEF None!netSeen, Ini!netSeen, Res!netSeen, Both!netSeen
  <2>4. None!deliveredSeen = Ini!deliveredSeen /\ Res!deliveredSeen = Both!deliveredSeen
    BY <1>1, <1>4, <2>1
       DEF None!deliveredSeen, Ini!deliveredSeen, Res!deliveredSeen, Both!deliveredSeen
  <2>5. None!returnedSeen = Ini!returnedSeen /\ Res!returnedSeen = Both!returnedSeen
    BY <1>1, <1>4, <2>1
       DEF None!returnedSeen, Ini!returnedSeen, Res!returnedSeen, Both!returnedSeen
  <2> QED
    BY <2>2, <2>3, <2>4, <2>5 DEF None!seenVars, Ini!seenVars, Res!seenVars, Both!seenVars
<1>6. ASSUME Settled("Responder")
      PROVE  None!seenVars = Res!seenVars /\ Ini!seenVars = Both!seenVars
  <2>1. /\ ratchet["Responder"] = committed["Responder"] /\ pending["Responder"].out = {}
        /\ delivered["Responder"] \cup pending["Responder"].in = delivered["Responder"]
        /\ returned["Responder"] + Cardinality(pending["Responder"].in) = returned["Responder"]
    BY <1>3, <1>4, <1>6
  <2>2. None!ratchetSeen = Res!ratchetSeen /\ Ini!ratchetSeen = Both!ratchetSeen
    BY <1>1, <1>4, <2>1
       DEF None!ratchetSeen, Ini!ratchetSeen, Res!ratchetSeen, Both!ratchetSeen
  <2>3. None!netSeen = Res!netSeen /\ Ini!netSeen = Both!netSeen
    BY <1>1, <1>4, <2>1 DEF None!netSeen, Ini!netSeen, Res!netSeen, Both!netSeen
  <2>4. None!deliveredSeen = Res!deliveredSeen /\ Ini!deliveredSeen = Both!deliveredSeen
    BY <1>1, <1>4, <2>1
       DEF None!deliveredSeen, Ini!deliveredSeen, Res!deliveredSeen, Both!deliveredSeen
  <2>5. None!returnedSeen = Res!returnedSeen /\ Ini!returnedSeen = Both!returnedSeen
    BY <1>1, <1>4, <2>1
       DEF None!returnedSeen, Ini!returnedSeen, Res!returnedSeen, Both!returnedSeen
  <2> QED
    BY <2>2, <2>3, <2>4, <2>5 DEF None!seenVars, Ini!seenVars, Res!seenVars, Both!seenVars
<1> QED
  BY <1>5, <1>6

LEMMA SettledSound ==
    /\ Settled("Initiator") /\ WellFormed => (None!Sound <=> Ini!Sound) /\ (Res!Sound <=> Both!Sound)
    /\ Settled("Responder") /\ WellFormed => (None!Sound <=> Res!Sound) /\ (Ini!Sound <=> Both!Sound)
  BY SettledViews, NoneLikeIni, ResLikeBoth, NoneLikeRes, IniLikeBoth


----------------------------------------------------------------------------
(* Below saturation every view stays sound.                                *)

NotSaturated == \A e \in Role : floor[e] < GEN_MAX

\* No commit lowers a floor.
LEMMA FloorRises ==
    ASSUME RecordsInv, [PersistNext]_persistVars, NotSaturated'
    PROVE  NotSaturated
<1> SUFFICES ASSUME NEW e \in Role
             PROVE  floor[e] < GEN_MAX
  BY DEF NotSaturated
<1>1. /\ floor \in [Role -> 0..GEN_MAX] /\ GEN_MAX \in Nat
      /\ floor[e] <= ratchet[e].generation
  BY LimitsAssumption DEF RecordsInv, PersistTypeOK, GenerationInv
<1>2. RecordsInv'
  BY RecordsNext
<1>3. floor' \in [Role -> 0..GEN_MAX] /\ floor'[e] < GEN_MAX
  BY <1>2 DEF RecordsInv, PersistTypeOK, NotSaturated
<1>4. floor' = floor \/ floor'[e] = ratchet[e].generation \/ floor'[e] = floor[e]
  <2>1. CASE UNCHANGED persistVars
    BY <2>1 DEF persistVars
  <2>2. ASSUME NEW d \in Role, Commit(d)
        PROVE  floor'[e] = ratchet[e].generation \/ floor'[e] = floor[e]
    BY <1>1, <2>2 DEF Commit
  <2>3. ASSUME NEW d \in Role, NEW f, NEW r, LocalReceive(d, f, r)
        PROVE  floor' = floor
    BY <2>3 DEF LocalReceive, Durable
  <2>4. ASSUME NEW d \in Role, NEW f,
               \/ LocalDecryptSkipped(d, f)
               \/ LocalDecryptSameRatchet(d, f)
               \/ LocalDecryptNewRatchet(d, f)
        PROVE  floor' = floor
    BY <2>3, <2>4 DEF LocalDecryptSkipped, LocalDecryptSameRatchet, LocalDecryptNewRatchet
  <2>5. ASSUME NEW d \in Role, NEW f, LocalDecryptRejected(d, f)
        PROVE  floor' = floor
    BY <2>5 DEF LocalDecryptRejected, persistVars
  <2>6. ASSUME NEW d \in Role, NEW record, Restore(d, record) \/ RestoreRefused(d, record)
        PROVE  floor' = floor
    BY <2>6 DEF Restore, RestoreRefused, persistVars
  <2>7. ASSUME NEW d \in Role, \/ LocalEncrypt(d)
                               \/ LocalEncryptExhausted(d)
                               \/ LocalRotate(d)
                               \/ Crash(d)
        PROVE  floor' = floor
    BY <2>7 DEF LocalEncrypt, LocalEncryptExhausted, LocalRotate, Crash, Durable
  <2> QED
    BY <2>1, <2>2, <2>4, <2>5, <2>6, <2>7 DEF PersistNext
<1> QED
  BY <1>1, <1>3, <1>4

LEMMA RestoresCommitHolds == RecordsInv /\ NotSaturated => RestoresCommit
<1> SUFFICES ASSUME RecordsInv, NotSaturated, NEW e \in Role, NEW record \in AllRecords,
                    Restores(record, e, floor[e])
             PROVE  /\ decode_state(record) \in RatchetState
                    /\ SameSessionState(decode_state(record), committed[e])
  BY DEF RestoresCommit
<1> QED
  BY Restored DEF NotSaturated

\* The committing endpoint's memory is what it committed.
LEMMA CommitSettles ==
    ASSUME WellFormed, NEW e \in Role, Commit(e)
    PROVE  Settled(e)'
<1>1. /\ committed \in [Role -> RatchetState]
      /\ pending \in [Role -> [out : SUBSET InnerFrame, in : SUBSET InnerFrame]]
  BY DEF WellFormed, PersistTypeOK, PendingInv
<1>2. committed'[e] = ratchet[e] /\ pending'[e] = Nothing /\ ratchet' = ratchet
  BY <1>1 DEF Commit
<1> QED
  BY <1>2 DEF Settled

\* So is what is left of the memory of a crashed one.
LEMMA CrashSettles ==
    ASSUME WellFormed, NEW e \in Role, Crash(e)
    PROVE  Settled(e)'
<1>1. /\ ratchet \in [Role -> RatchetState]
      /\ pending \in [Role -> [out : SUBSET InnerFrame, in : SUBSET InnerFrame]]
  BY DEF WellFormed, PersistTypeOK, TypeOK, PendingInv
<1>2. ratchet'[e] = committed[e] /\ pending'[e] = Nothing /\ committed' = committed
  BY <1>1 DEF Crash
<1> QED
  BY <1>2 DEF Settled

\* Afterwards the views that differ in e alone look alike, so the view that
\* the step goes against takes its soundness from the one it agrees with.
LEMMA SettledAfter ==
    /\ Settled("Initiator")' /\ WellFormed'
         => (None!Sound' <=> Ini!Sound') /\ (Res!Sound' <=> Both!Sound')
    /\ Settled("Responder")' /\ WellFormed'
         => (None!Sound' <=> Res!Sound') /\ (Ini!Sound' <=> Both!Sound')
  BY SettledSound, PTL

LEMMA CommitViews ==
    ASSUME ViewsInv, WellFormed, WellFormed', NEW e \in Role, Commit(e)
    PROVE  None!Sound' /\ Ini!Sound' /\ Res!Sound' /\ Both!Sound'
<1>1. Settled(e)'
  BY CommitSettles
<1>2. CASE e = "Initiator"
  <2>1. Ini!Commit(e) /\ Ini!WellFormed /\ e \in Ini!Role
    BY SameIni
  <2>2. Both!Commit(e) /\ Both!WellFormed /\ e \in Both!Role
    BY SameBoth
  <2>3. Ini!Sound'
    BY <1>2, <2>1, LimitsAssumption, PersistenceAssumption, Ini!KeptCommit DEF ViewsInv
  <2>4. Both!Sound'
    BY <2>2, LimitsAssumption, PersistenceAssumption, Both!KeptCommit DEF ViewsInv
  <2> QED
    BY <1>1, <1>2, <2>3, <2>4, SettledAfter
<1>3. CASE e = "Responder"
  <2>1. Res!Commit(e) /\ Res!WellFormed /\ e \in Res!Role
    BY SameRes
  <2>2. Both!Commit(e) /\ Both!WellFormed /\ e \in Both!Role
    BY SameBoth
  <2>3. Res!Sound'
    BY <1>3, <2>1, LimitsAssumption, PersistenceAssumption, Res!KeptCommit DEF ViewsInv
  <2>4. Both!Sound'
    BY <2>2, LimitsAssumption, PersistenceAssumption, Both!KeptCommit DEF ViewsInv
  <2> QED
    BY <1>1, <1>3, <2>3, <2>4, SettledAfter
<1> QED
  BY <1>2, <1>3 DEF Role

LEMMA CrashViews ==
    ASSUME ViewsInv, WellFormed, WellFormed', NEW e \in Role, Crash(e)
    PROVE  None!Sound' /\ Ini!Sound' /\ Res!Sound' /\ Both!Sound'
<1>1. Settled(e)'
  BY CrashSettles
<1>2. None!Sound'
  <2>1. None!Crash(e) /\ None!WellFormed /\ e \in None!Role
    BY SameNone
  <2> QED
    BY <2>1, LimitsAssumption, PersistenceAssumption, None!UnkeptCrash DEF ViewsInv
<1>3. CASE e = "Initiator"
  <2>1. Res!Crash(e) /\ Res!WellFormed /\ e \in Res!Role
    BY SameRes
  <2>2. Res!Sound'
    BY <1>3, <2>1, LimitsAssumption, PersistenceAssumption, Res!UnkeptCrash DEF ViewsInv
  <2> QED
    BY <1>1, <1>2, <1>3, <2>2, SettledAfter
<1>4. CASE e = "Responder"
  <2>1. Ini!Crash(e) /\ Ini!WellFormed /\ e \in Ini!Role
    BY SameIni
  <2>2. Ini!Sound'
    BY <1>4, <2>1, LimitsAssumption, PersistenceAssumption, Ini!UnkeptCrash DEF ViewsInv
  <2> QED
    BY <1>1, <1>2, <1>4, <2>2, SettledAfter
<1> QED
  BY <1>3, <1>4 DEF Role

\* The inductive invariant behind what follows, as long as the floors tell
\* snapshots apart.
SessionInv == RecordsInv /\ (NotSaturated => BookInv /\ ViewsInv)

LEMMA SessionInit == PersistInit => SessionInv
<1> SUFFICES ASSUME PersistInit PROVE SessionInv
  OBVIOUS
<1>1. RecordsInv
  BY RecordsInit
<1>2. Both!BookInv
  BY SameBoth, LimitsAssumption, PersistenceAssumption, Both!BookInit
<1>3. None!Sound
  BY SameNone, LimitsAssumption, PersistenceAssumption, None!ViewInit
<1>4. Ini!Sound
  BY SameIni, LimitsAssumption, PersistenceAssumption, Ini!ViewInit
<1>5. Res!Sound
  BY SameRes, LimitsAssumption, PersistenceAssumption, Res!ViewInit
<1>6. Both!Sound
  BY SameBoth, LimitsAssumption, PersistenceAssumption, Both!ViewInit
<1> QED
  BY <1>1, <1>2, <1>3, <1>4, <1>5, <1>6, SameBoth DEF SessionInv, ViewsInv

LEMMA NoneStep ==
    ASSUME None!Sound, WellFormed, WellFormed', RestoresCommit, [PersistNext]_persistVars
    PROVE  \/ None!Sound'
           \/ \E e \in Role : Commit(e) \/ Crash(e)
<1>1. None!WellFormed /\ None!RestoresCommit /\ [None!PersistNext]_None!persistVars
  BY SameNone DEF persistVars, None!persistVars, vars, None!vars
<1>2. None!WellFormed'
  BY SameNone, PTL
<1>3. \/ None!Sound'
      \/ \E e \in None!Role : None!Commit(e)
      \/ \E e \in None!Role : None!Crash(e)
  BY <1>1, <1>2, LimitsAssumption, PersistenceAssumption, None!ViewStep
<1> QED
  BY <1>3, SameNone

LEMMA IniStep ==
    ASSUME Ini!Sound, WellFormed, WellFormed', RestoresCommit, [PersistNext]_persistVars
    PROVE  \/ Ini!Sound'
           \/ \E e \in Role : Commit(e) \/ Crash(e)
<1>1. Ini!WellFormed /\ Ini!RestoresCommit /\ [Ini!PersistNext]_Ini!persistVars
  BY SameIni DEF persistVars, Ini!persistVars, vars, Ini!vars
<1>2. Ini!WellFormed'
  BY SameIni, PTL
<1>3. \/ Ini!Sound'
      \/ \E e \in Ini!Role : Ini!Commit(e)
      \/ \E e \in Ini!Role : Ini!Crash(e)
  BY <1>1, <1>2, LimitsAssumption, PersistenceAssumption, Ini!ViewStep
<1> QED
  BY <1>3, SameIni

LEMMA ResStep ==
    ASSUME Res!Sound, WellFormed, WellFormed', RestoresCommit, [PersistNext]_persistVars
    PROVE  \/ Res!Sound'
           \/ \E e \in Role : Commit(e) \/ Crash(e)
<1>1. Res!WellFormed /\ Res!RestoresCommit /\ [Res!PersistNext]_Res!persistVars
  BY SameRes DEF persistVars, Res!persistVars, vars, Res!vars
<1>2. Res!WellFormed'
  BY SameRes, PTL
<1>3. \/ Res!Sound'
      \/ \E e \in Res!Role : Res!Commit(e)
      \/ \E e \in Res!Role : Res!Crash(e)
  BY <1>1, <1>2, LimitsAssumption, PersistenceAssumption, Res!ViewStep
<1> QED
  BY <1>3, SameRes

LEMMA BothStep ==
    ASSUME Both!Sound, WellFormed, WellFormed', RestoresCommit, [PersistNext]_persistVars
    PROVE  \/ Both!Sound'
           \/ \E e \in Role : Commit(e) \/ Crash(e)
<1>1. Both!WellFormed /\ Both!RestoresCommit /\ [Both!PersistNext]_Both!persistVars
  BY SameBoth DEF persistVars, Both!persistVars, vars, Both!vars
<1>2. Both!WellFormed'
  BY SameBoth, PTL
<1>3. \/ Both!Sound'
      \/ \E e \in Both!Role : Both!Commit(e)
      \/ \E e \in Both!Role : Both!Crash(e)
  BY <1>1, <1>2, LimitsAssumption, PersistenceAssumption, Both!ViewStep
<1> QED
  BY <1>3, SameBoth

LEMMA SessionNext == SessionInv /\ [PersistNext]_persistVars => SessionInv'
<1> SUFFICES ASSUME SessionInv, [PersistNext]_persistVars, NotSaturated'
             PROVE  BookInv' /\ ViewsInv'
  BY RecordsNext DEF SessionInv
<1>1. RecordsInv /\ RecordsInv'
  BY RecordsNext DEF SessionInv
<1>2. NotSaturated /\ BookInv /\ ViewsInv
  BY <1>1, FloorRises DEF SessionInv
<1>3. WellFormed
  BY <1>1, <1>2 DEF WellFormed, RecordsInv
<1>4. RestoresCommit
  BY <1>1, <1>2, RestoresCommitHolds
<1>5. BookInv'
  <2>1. Both!WellFormed /\ [Both!PersistNext]_Both!persistVars /\ Both!Role = Role
    BY <1>3, SameBoth DEF persistVars, Both!persistVars, vars, Both!vars
  <2>2. Both!Sound
    BY <1>2 DEF ViewsInv
  <2>3. Both!BookInv'
    BY <2>1, <2>2, LimitsAssumption, PersistenceAssumption, Both!BookStep
  <2> QED
    BY <2>3, SameBoth, PTL
<1>6. WellFormed'
  BY <1>1, <1>5 DEF WellFormed, RecordsInv
<1>7. ASSUME NEW e \in Role, Commit(e) \/ Crash(e)
      PROVE  ViewsInv'
  BY <1>2, <1>3, <1>6, <1>7, CommitViews, CrashViews DEF ViewsInv
<1>8. None!Sound' \/ \E e \in Role : Commit(e) \/ Crash(e)
  BY <1>2, <1>3, <1>4, <1>6, NoneStep DEF ViewsInv
<1>9. Ini!Sound' \/ \E e \in Role : Commit(e) \/ Crash(e)
  BY <1>2, <1>3, <1>4, <1>6, IniStep DEF ViewsInv
<1>10. Res!Sound' \/ \E e \in Role : Commit(e) \/ Crash(e)
  BY <1>2, <1>3, <1>4, <1>6, ResStep DEF ViewsInv
<1>11. Both!Sound' \/ \E e \in Role : Commit(e) \/ Crash(e)
  BY <1>2, <1>3, <1>4, <1>6, BothStep DEF ViewsInv
<1> QED
  BY <1>5, <1>7, <1>8, <1>9, <1>10, <1>11 DEF ViewsInv

\* Below saturation the session survives whatever crashes and whatever records
\* storage presents: any mix of commits and crashes now leaves a sound session.
THEOREM SessionInvariance == PersistSpec => []SessionInv
<1>1. PersistInit => SessionInv
  BY SessionInit
<1>2. SessionInv /\ [PersistNext]_persistVars => SessionInv'
  BY SessionNext
<1> QED
  BY <1>1, <1>2, PTL DEF PersistSpec

----------------------------------------------------------------------------
(* What the invariant says of the session.                                 *)

LEMMA KeysReleasedOnce == SessionInv => (NotSaturated => FrameReleasedOnce)
<1> SUFFICES ASSUME SessionInv, NotSaturated PROVE FrameReleasedOnce
  OBVIOUS
<1>1. BookInv /\ Both!Sound
  BY DEF SessionInv, ViewsInv
<1>2. Both!KeyUsedOnce
  BY <1>1, LimitsAssumption, PersistenceAssumption, Both!SoundKeys
<1>3. KeyUsedOnce
  BY <1>2 DEF KeyUsedOnce, Both!KeyUsedOnce
<1> QED
  BY <1>1, <1>3 DEF FrameReleasedOnce, BookInv

\* Below saturation no two frames are ever released under one message key,
\* whatever state an endpoint is restored from.
THEOREM ReleasedOnce == PersistSpec => [](NotSaturated => FrameReleasedOnce)
  BY KeysReleasedOnce, SessionInvariance, PTL

\* Nor is a plaintext handed to the application twice.
THEOREM ReturnedOnce == PersistSpec => [](NotSaturated => PlaintextReturnedOnce)
<1>1. SessionInv => (NotSaturated => PlaintextReturnedOnce)
  BY DEF SessionInv, BookInv, PlaintextReturnedOnce
<1> QED
  BY <1>1, SessionInvariance, PTL

LEMMA NextFrameOpens ==
    SessionInv => (NotSaturated /\ rotations <= 1 => InSyncAcrossCrashes)
<1> SUFFICES ASSUME SessionInv, NotSaturated, rotations <= 1 PROVE InSyncAcrossCrashes
  OBVIOUS
<1>1. Both!Sound
  BY DEF SessionInv, ViewsInv
<1>2. Both!InSyncAcrossCrashes
  BY <1>1, SameBoth, LimitsAssumption, PersistenceAssumption, Both!SoundSync
<1>3. \A e : Both!Peer(e) = Peer(e)
  BY DEF Both!Peer, Peer
<1>4. \A r : Both!Frame(r) = Frame(r)
  BY DEF Both!Frame, Frame, Both!KeyOf, KeyOf
<1>5. \A r, f : Both!CanFollow(r, f) <=> CanFollow(r, f)
  BY DEF Both!CanFollow, CanFollow, Both!Opens, Opens, Both!KeyOf, KeyOf,
         Both!Advance, Advance, Both!root_chain, root_chain,
         Both!ROOT_CHAIN_LABEL, ROOT_CHAIN_LABEL,
         Both!next_root, next_root, Both!diffie_hellman, diffie_hellman
<1> QED
  BY <1>2, <1>3, <1>4, <1>5, SameBoth DEF InSyncAcrossCrashes, Both!InSyncAcrossCrashes

\* Below saturation, and up to one rotation, crashes never take the endpoints
\* out of step: what one would seal next opens at the other.
THEOREM InSyncThroughCrashes ==
    PersistSpec => [](NotSaturated /\ rotations <= 1 => InSyncAcrossCrashes)
  BY NextFrameOpens, SessionInvariance, PTL

============================================================================
