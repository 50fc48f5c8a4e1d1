------------------------------ MODULE Ratchet ------------------------------
(***************************************************************************)
(* The Double Ratchet of one 1:1 device session (src/ratchet/state.rs and  *)
(* src/ratchet/schedule.rs): two endpoints that encrypt, rotate and        *)
(* decrypt over a network that loses, duplicates, reorders, reflects,      *)
(* damages and misroutes frames.                                           *)
(*                                                                         *)
(* Secrets are symbolic.  A DH key is <<owner, n>>, the n-th key pair its  *)
(* owner generated; the DH output of two keys is the set of both; a root   *)
(* key is the sequence of DH outputs mixed into the handshake root; a      *)
(* chain key is a label, a root and the number of chain steps taken since. *)
(* HKDF is collision free, so equal secrets are equal terms and different  *)
(* inputs never meet again.                                                *)
(***************************************************************************)
EXTENDS Integers, FiniteSets, SequencesExt

CONSTANTS
    MAX_SKIPPED_KEYS,   \* lib.rs: retained skipped message keys
    COUNTER_MAX,        \* u32::MAX, the largest message counter
    GEN_MAX,            \* u64::MAX, where the generation saturates
    Suites,             \* payload AEAD suites an endpoint may select
    MaxFrames,          \* bound: frames encrypted by both endpoints
    MaxRotations,       \* bound: explicit rotations by both endpoints
    MaxExhausted        \* bound: encrypt calls on an exhausted counter

ASSUME LimitsAssumption ==
    /\ MAX_SKIPPED_KEYS \in Nat
    /\ COUNTER_MAX \in Nat
    /\ GEN_MAX \in Nat
    /\ MaxFrames \in Nat /\ MaxExhausted \in Nat

VARIABLES
    ratchet,     \* ratchet[e]: the RatchetState of endpoint e
    generated,   \* generated[e]: key pairs e has drawn from the CSPRNG
    rotations,   \* explicit rotations so far
    net,         \* every frame ever emitted; the network forgets nothing
    delivered,   \* delivered[e]: frames whose plaintext e returned
    returned     \* returned[e]: how many times e returned a plaintext

vars == <<ratchet, generated, rotations, net, delivered, returned>>

Role == {"Initiator", "Responder"}
Peer(e) == IF e = "Initiator" THEN "Responder" ELSE "Initiator"

Session == "session"
OtherSession == "other session"

----------------------------------------------------------------------------
(* Keys and the key schedule.                                              *)

DhKey == Role \X Nat
Owner(k) == k[1]
diffie_hellman(x, y) == {x, y}

INIT_A_TO_B_LABEL == "ratchet-init-a-to-b-v1"
INIT_B_TO_A_LABEL == "ratchet-init-b-to-a-v1"
ROOT_CHAIN_LABEL == "ratchet-root-chain-v1"
Labels == {INIT_A_TO_B_LABEL, INIT_B_TO_A_LABEL, ROOT_CHAIN_LABEL}

RootKey == Seq(SUBSET DhKey)
ChainKey == [label : Labels, root : RootKey, pos : Nat]
MessageKey == [label : Labels, root : RootKey, index : Nat]

\* chain_step: the key of the current position and, n steps on, the chain.
KeyOf(chain) == [label |-> chain.label, root |-> chain.root, index |-> chain.pos]
Advance(chain, n) == [chain EXCEPT !.pos = @ + n]

next_root(root, dh) == Append(root, dh)
root_chain(root, dh) ==
    [label |-> ROOT_CHAIN_LABEL, root |-> next_root(root, dh), pos |-> 0]

\* Mutant of RangeAllowed: the last slot of the store is never used.
RangeAllowedBelow(start, end_exclusive, existing_skipped) ==
    /\ start <= end_exclusive
    /\ existing_skipped + (end_exclusive - start) < MAX_SKIPPED_KEYS

\* derive_range fails on a backward range and beyond the skipped-key limit.
RangeAllowed(start, end_exclusive, existing_skipped) ==
    /\ start <= end_exclusive
    /\ existing_skipped + (end_exclusive - start) <= MAX_SKIPPED_KEYS

\* Mutant of derive_range: the number is incremented before the key is stored.
derive_range_late_number(remote_dh, chain, start, end_exclusive) ==
    [i \in 1..(end_exclusive - start) |->
        [remote_dh |-> remote_dh,
         message_number |-> start + i,
         key |-> KeyOf(Advance(chain, i - 1))]]

\* The keys derive_range hands to add_skipped, in order.
derive_range(remote_dh, chain, start, end_exclusive) ==
    [i \in 1..(end_exclusive - start) |->
        [remote_dh |-> remote_dh,
         message_number |-> start + i - 1,
         key |-> KeyOf(Advance(chain, i - 1))]]

SkippedMessageKey == [remote_dh : DhKey, message_number : Nat, key : MessageKey]

----------------------------------------------------------------------------
(* State and frames.                                                       *)

RatchetState ==
    [session_id : {Session}, suite : Suites,
     root_key : RootKey, sending_chain : ChainKey, receiving_chain : ChainKey,
     dh_pair : DhKey, remote_dh : DhKey,
     previous_sending_chain_len : 0..COUNTER_MAX,
     sending_count : 0..COUNTER_MAX, receiving_count : 0..COUNTER_MAX,
     generation : 0..GEN_MAX, skipped : Seq(SkippedMessageKey)]

\* key is the message key the payload is sealed under, intact whether the
\* authenticated bytes are the ones that were sealed.
InnerFrame ==
    [session_id : {Session, OtherSession}, suite : Suites,
     ratchet_public : DhKey, previous_chain_len : 0..COUNTER_MAX,
     message_number : 0..COUNTER_MAX, key : MessageKey, intact : BOOLEAN]

Sender(f) == Owner(f.ratchet_public)

from_authenticated_handshake_with_suite(role, suite) ==
    LET chain(label) == [label |-> label, root |-> << >>, pos |-> 0]
        a_to_b == chain(INIT_A_TO_B_LABEL)
        b_to_a == chain(INIT_B_TO_A_LABEL)
    IN  [session_id |-> Session, suite |-> suite, root_key |-> << >>,
         sending_chain |-> IF role = "Initiator" THEN a_to_b ELSE b_to_a,
         receiving_chain |-> IF role = "Initiator" THEN b_to_a ELSE a_to_b,
         dh_pair |-> <<role, 0>>, remote_dh |-> <<Peer(role), 0>>,
         previous_sending_chain_len |-> 0,
         sending_count |-> 0, receiving_count |-> 0,
         generation |-> 0, skipped |-> << >>]

Init ==
    /\ \E suite \in [Role -> Suites] :
         ratchet = [e \in Role |-> from_authenticated_handshake_with_suite(e, suite[e])]
    /\ generated = [e \in Role |-> 0]
    /\ rotations = 0
    /\ net = {}
    /\ delivered = [e \in Role |-> {}]
    /\ returned = [e \in Role |-> 0]

saturating_add(generation) ==
    IF generation < GEN_MAX THEN generation + 1 ELSE generation

\* DhKeyPair::generate: a key pair no one has seen before.
generate(e) == <<e, generated[e] + 1>>

----------------------------------------------------------------------------
(* Sending.                                                                *)

Frame(r) ==
    [session_id |-> r.session_id, suite |-> r.suite,
     ratchet_public |-> r.dh_pair,
     previous_chain_len |-> r.previous_sending_chain_len,
     message_number |-> r.sending_count,
     key |-> KeyOf(r.sending_chain), intact |-> TRUE]

\* Mutant of AfterEncrypt: the new chain key is computed and not stored.
AfterEncryptChainKept(r) ==
    [r EXCEPT !.sending_count = @ + 1,
              !.generation = saturating_add(@)]

AfterEncrypt(r) ==
    [r EXCEPT !.sending_chain = Advance(@, 1),
              !.sending_count = @ + 1,
              !.generation = saturating_add(@)]

Encrypt(e) ==
    /\ Cardinality(net) < MaxFrames
    /\ ratchet[e].sending_count < COUNTER_MAX
    /\ net' = net \cup {Frame(ratchet[e])}
    /\ ratchet' = [ratchet EXCEPT ![e] = AfterEncrypt(@)]
    /\ UNCHANGED <<generated, rotations, delivered, returned>>

\* The counter is checked after the chain has been replaced: the call fails
\* with CounterExhausted, no frame leaves, and the chain has moved on.
EncryptExhausted(e) ==
    /\ ratchet[e].sending_count = COUNTER_MAX
    /\ ratchet[e].sending_chain.pos < COUNTER_MAX + MaxExhausted
    /\ ratchet' = [ratchet EXCEPT ![e].sending_chain = Advance(@, 1)]
    /\ UNCHANGED <<generated, rotations, net, delivered, returned>>

\* Mutant of AfterRotation: the sending counter runs on in the new chain.
AfterRotationCountKept(r, next_pair) ==
    LET dh == diffie_hellman(next_pair, r.remote_dh)
    IN  [r EXCEPT !.root_key = next_root(@, dh),
                  !.sending_chain = root_chain(r.root_key, dh),
                  !.dh_pair = next_pair,
                  !.previous_sending_chain_len = r.sending_count,
                  !.generation = saturating_add(@)]

\* Mutant of AfterRotation: the new root key is not stored.
AfterRotationRootKept(r, next_pair) ==
    LET dh == diffie_hellman(next_pair, r.remote_dh)
    IN  [r EXCEPT !.sending_chain = root_chain(r.root_key, dh),
                  !.dh_pair = next_pair,
                  !.previous_sending_chain_len = r.sending_count,
                  !.sending_count = 0,
                  !.generation = saturating_add(@)]

AfterRotation(r, next_pair) ==
    LET dh == diffie_hellman(next_pair, r.remote_dh)
    IN  [r EXCEPT !.root_key = next_root(@, dh),
                  !.sending_chain = root_chain(r.root_key, dh),
                  !.dh_pair = next_pair,
                  !.previous_sending_chain_len = r.sending_count,
                  !.sending_count = 0,
                  !.generation = saturating_add(@)]

RotateSendingRatchet(e) ==
    /\ rotations < MaxRotations
    /\ rotations' = rotations + 1
    /\ ratchet' = [ratchet EXCEPT ![e] = AfterRotation(@, generate(e))]
    /\ generated' = [generated EXCEPT ![e] = @ + 1]
    /\ UNCHANGED <<net, delivered, returned>>

----------------------------------------------------------------------------
(* Receiving.  What arrives was emitted at some time by either endpoint,   *)
(* possibly damaged on the way, or belongs to another session.             *)

Damaged(f) == [f EXCEPT !.intact = FALSE]
Misrouted(f) == [f EXCEPT !.session_id = OtherSession, !.intact = FALSE]
Arrivals == net \cup {Damaged(f) : f \in net} \cup {Misrouted(f) : f \in net}

\* Mutant of Opens: the key is not part of the check.
OpensAnyKey(f, key) == f.intact

\* InnerFrame::open: the AEAD accepts exactly the sealed bytes and key.
Opens(f, key) == f.intact /\ f.key = key

SameSession(r, f) == f.session_id = r.session_id /\ f.suite = r.suite

\* The first retained entry for the frame (Vec::position).
Position(r, f, i) ==
    LET matches(j) == /\ r.skipped[j].remote_dh = f.ratchet_public
                      /\ r.skipped[j].message_number = f.message_number
    IN  /\ i \in 1..Len(r.skipped)
        /\ matches(i)
        /\ \A j \in 1..(i - 1) : ~matches(j)

OpensSkipped(r, f, i) ==
    /\ f.ratchet_public = r.remote_dh
    /\ f.message_number < r.receiving_count
    /\ Position(r, f, i)
    /\ Opens(f, r.skipped[i].key)

\* Mutant of AfterSkipped: the used entry stays in the store.
AfterSkippedKept(r, i) == [r EXCEPT !.generation = saturating_add(@)]

\* Mutant of AfterSkipped: the generation does not record the change.
AfterSkippedSilent(r, i) == [r EXCEPT !.skipped = RemoveAt(@, i)]

\* Vec::remove.
AfterSkipped(r, i) ==
    [r EXCEPT !.skipped = RemoveAt(@, i),
              !.generation = saturating_add(@)]

OpensSameRatchet(r, f) ==
    /\ f.ratchet_public = r.remote_dh
    /\ f.message_number >= r.receiving_count
    /\ RangeAllowed(r.receiving_count, f.message_number, Len(r.skipped))
    /\ Opens(f, KeyOf(Advance(r.receiving_chain, f.message_number - r.receiving_count)))

\* A counter that cannot be incremented aborts after the chain was replaced.
AfterSameRatchet(r, f) ==
    LET next == [r EXCEPT !.receiving_chain =
                    Advance(@, f.message_number - r.receiving_count + 1)]
    IN  IF f.message_number = COUNTER_MAX
        THEN next
        ELSE [next EXCEPT
                !.receiving_count = f.message_number + 1,
                !.skipped = @ \o derive_range(r.remote_dh, r.receiving_chain,
                                    r.receiving_count, f.message_number),
                !.generation = saturating_add(@)]

\* Mutant of OpensNewRatchet: the second range is checked without counting
\* the keys the first one adds.
OpensNewRatchetEachAlone(r, f) ==
    LET chain == root_chain(r.root_key, diffie_hellman(r.dh_pair, f.ratchet_public))
    IN  /\ f.ratchet_public # r.remote_dh
        /\ RangeAllowed(r.receiving_count, f.previous_chain_len, Len(r.skipped))
        /\ RangeAllowed(0, f.message_number, Len(r.skipped))
        /\ Opens(f, KeyOf(Advance(chain, f.message_number)))

OpensNewRatchet(r, f) ==
    LET old_skipped == f.previous_chain_len - r.receiving_count
        chain == root_chain(r.root_key, diffie_hellman(r.dh_pair, f.ratchet_public))
    IN  /\ f.ratchet_public # r.remote_dh
        /\ RangeAllowed(r.receiving_count, f.previous_chain_len, Len(r.skipped))
        /\ RangeAllowed(0, f.message_number, Len(r.skipped) + old_skipped)
        /\ Opens(f, KeyOf(Advance(chain, f.message_number)))

\* Mutant of AfterNewRatchet: the old chain is retained from its first key.
AfterNewRatchetFromZero(r, f, next_pair) ==
    LET dh_receive == diffie_hellman(r.dh_pair, f.ratchet_public)
        root_after_receive == next_root(r.root_key, dh_receive)
        next_receiving_chain == root_chain(r.root_key, dh_receive)
        dh_send == diffie_hellman(next_pair, f.ratchet_public)
    IN  [r EXCEPT
            !.skipped =
                @ \o derive_range(r.remote_dh, r.receiving_chain, 0, f.previous_chain_len)
                  \o derive_range(f.ratchet_public, next_receiving_chain, 0, f.message_number),
            !.root_key = next_root(root_after_receive, dh_send),
            !.receiving_chain = Advance(next_receiving_chain, f.message_number + 1),
            !.sending_chain = root_chain(root_after_receive, dh_send),
            !.dh_pair = next_pair,
            !.remote_dh = f.ratchet_public,
            !.previous_sending_chain_len = r.sending_count,
            !.sending_count = 0,
            !.receiving_count = f.message_number + 1,
            !.generation = saturating_add(@)]

\* Mutant of AfterNewRatchet: the root key kept is the one of the first half.
AfterNewRatchetHalfStep(r, f, next_pair) ==
    LET dh_receive == diffie_hellman(r.dh_pair, f.ratchet_public)
        root_after_receive == next_root(r.root_key, dh_receive)
        next_receiving_chain == root_chain(r.root_key, dh_receive)
    IN  [r EXCEPT
            !.skipped =
                @ \o derive_range(r.remote_dh, r.receiving_chain,
                        r.receiving_count, f.previous_chain_len)
                  \o derive_range(f.ratchet_public, next_receiving_chain, 0, f.message_number),
            !.root_key = root_after_receive,
            !.receiving_chain = Advance(next_receiving_chain, f.message_number + 1),
            !.sending_chain = root_chain(root_after_receive,
                                  diffie_hellman(next_pair, f.ratchet_public)),
            !.dh_pair = next_pair,
            !.remote_dh = f.ratchet_public,
            !.previous_sending_chain_len = r.sending_count,
            !.sending_count = 0,
            !.receiving_count = f.message_number + 1,
            !.generation = saturating_add(@)]

AfterNewRatchet(r, f, next_pair) ==
    LET dh_receive == diffie_hellman(r.dh_pair, f.ratchet_public)
        root_after_receive == next_root(r.root_key, dh_receive)
        next_receiving_chain == root_chain(r.root_key, dh_receive)
        dh_send == diffie_hellman(next_pair, f.ratchet_public)
        next == [r EXCEPT
            !.skipped =
                @ \o derive_range(r.remote_dh, r.receiving_chain,
                        r.receiving_count, f.previous_chain_len)
                  \o derive_range(f.ratchet_public, next_receiving_chain,
                        0, f.message_number),
            !.root_key = next_root(root_after_receive, dh_send),
            !.receiving_chain = Advance(next_receiving_chain, f.message_number + 1),
            !.sending_chain = root_chain(root_after_receive, dh_send),
            !.dh_pair = next_pair,
            !.remote_dh = f.ratchet_public,
            !.previous_sending_chain_len = r.sending_count,
            !.sending_count = 0]
    IN  IF f.message_number = COUNTER_MAX
        THEN next
        ELSE [next EXCEPT !.receiving_count = f.message_number + 1,
                          !.generation = saturating_add(@)]

Return(e, f) ==
    /\ delivered' = [delivered EXCEPT ![e] = @ \cup {f}]
    /\ returned' = [returned EXCEPT ![e] = @ + 1]

\* The plaintext is returned unless the counter was exhausted.
ReturnUnlessExhausted(e, f) ==
    IF f.message_number = COUNTER_MAX
    THEN UNCHANGED <<delivered, returned>>
    ELSE Return(e, f)

DecryptSkipped(e, f) ==
    /\ SameSession(ratchet[e], f)
    /\ \E i \in 1..Len(ratchet[e].skipped) :
         /\ OpensSkipped(ratchet[e], f, i)
         /\ ratchet' = [ratchet EXCEPT ![e] = AfterSkipped(@, i)]
    /\ Return(e, f)
    /\ UNCHANGED <<generated, rotations, net>>

DecryptSameRatchet(e, f) ==
    /\ SameSession(ratchet[e], f)
    /\ OpensSameRatchet(ratchet[e], f)
    /\ ratchet' = [ratchet EXCEPT ![e] = AfterSameRatchet(@, f)]
    /\ ReturnUnlessExhausted(e, f)
    /\ UNCHANGED <<generated, rotations, net>>

DecryptNewRatchet(e, f) ==
    /\ SameSession(ratchet[e], f)
    /\ OpensNewRatchet(ratchet[e], f)
    /\ ratchet' = [ratchet EXCEPT ![e] = AfterNewRatchet(@, f, generate(e))]
    /\ generated' = [generated EXCEPT ![e] = @ + 1]
    /\ ReturnUnlessExhausted(e, f)
    /\ UNCHANGED <<rotations, net>>

Accepts(r, f) ==
    /\ SameSession(r, f)
    /\ \/ \E i \in 1..Len(r.skipped) : OpensSkipped(r, f, i)
       \/ OpensSameRatchet(r, f)
       \/ OpensNewRatchet(r, f)

\* Every error path of decrypt up to and including the AEAD check returns
\* before the first assignment.
DecryptRejected(e, f) ==
    /\ ~Accepts(ratchet[e], f)
    /\ UNCHANGED vars

Decrypt(e, f) ==
    \/ DecryptSkipped(e, f)
    \/ DecryptSameRatchet(e, f)
    \/ DecryptNewRatchet(e, f)
    \/ DecryptRejected(e, f)

----------------------------------------------------------------------------

Next ==
    \E e \in Role :
        \/ Encrypt(e)
        \/ EncryptExhausted(e)
        \/ RotateSendingRatchet(e)
        \/ \E f \in Arrivals : Decrypt(e, f)

Spec == Init /\ [][Next]_vars

\* A transport that keeps retrying: the delivery of each frame, named by its
\* sender's key and its number, is weakly fair.
KeyIds == 0..(MaxFrames + MaxRotations)
DeliverOne(e, j, n) ==
    \E f \in net :
        /\ f.ratchet_public = <<Peer(e), j>>
        /\ f.message_number = n
        /\ DecryptSkipped(e, f) \/ DecryptSameRatchet(e, f) \/ DecryptNewRatchet(e, f)

FairSpec ==
    /\ Spec
    /\ \A e \in Role, j \in KeyIds, n \in 0..COUNTER_MAX : WF_vars(DeliverOne(e, j, n))

----------------------------------------------------------------------------
(* Properties.                                                             *)

\* Every field of RatchetState and every emitted frame has its type; counters
\* stay within u32 and the generation within u64.
TypeOK ==
    /\ ratchet \in [Role -> RatchetState]
    /\ generated \in [Role -> Nat]
    /\ rotations \in Nat
    /\ net \subseteq InnerFrame
    /\ delivered \in [Role -> SUBSET InnerFrame]
    /\ returned \in [Role -> Nat]

\* The skipped-key store never exceeds MAX_SKIPPED_KEYS, although one
\* decrypt_new_ratchet fills it in two stages, each with its own check.
SkippedBounded == \A e \in Role : Len(ratchet[e].skipped) <= MAX_SKIPPED_KEYS

\* The store never holds two entries for one (remote key, number): a snapshot
\* with such a pair is refused by decode_state and could never be restored.
SkippedUnique ==
    \A e \in Role :
        LET s == ratchet[e].skipped
        IN  \A i, j \in 1..Len(s) :
                (/\ s[i].remote_dh = s[j].remote_dh
                 /\ s[i].message_number = s[j].message_number) => i = j

\* A frame whose plaintext was returned is never accepted again, on any of
\* decrypt's three paths, whatever arrived or was rotated since.
DeliveredAtMostOnce ==
    \A e \in Role : \A f \in delivered[e] : ~Accepts(ratchet[e], f)

\* decrypt returns only frames the peer emitted: never an endpoint's own
\* frame reflected to it.
OnlyPeerFrames ==
    \A e \in Role : \A f \in delivered[e] : f \in net /\ Sender(f) = Peer(e)

\* No two emitted frames are sealed under one message key, across both
\* directions, chains and ratchet steps.
KeyUsedOnce == \A f, g \in net : f.key = g.key => f = g

\* The key of an emitted frame sits in its chain where the header's number
\* says, and the number leaves room for the receiver's increment: the aborts
\* of encrypt on an exhausted counter never leak into a header.
HeaderNumbersKey ==
    \A f \in net : f.key.index = f.message_number /\ f.message_number < COUNTER_MAX

\* In the chain an endpoint currently receives on, a frame it has passed over
\* is delivered or can still be opened: out-of-order delivery loses nothing.
NothingLostInChain ==
    \A e \in Role : \A f \in net :
        (/\ SameSession(ratchet[e], f)
         /\ f.ratchet_public = ratchet[e].remote_dh
         /\ f.message_number < ratchet[e].receiving_count)
        => f \in delivered[e] \/ Accepts(ratchet[e], f)

\* The frame r would emit next opens at p once the skipped-key limit allows:
\* both ends derive the same key for it.
CanFollow(p, f) ==
    IF f.ratchet_public = p.remote_dh
    THEN /\ f.message_number >= p.receiving_count
         /\ Opens(f, KeyOf(Advance(p.receiving_chain, f.message_number - p.receiving_count)))
    ELSE /\ f.previous_chain_len >= p.receiving_count
         /\ Opens(f, KeyOf(Advance(
                root_chain(p.root_key, diffie_hellman(p.dh_pair, f.ratchet_public)),
                f.message_number)))

\* The session stays usable: whatever was lost, reordered, damaged or rotated,
\* what an endpoint sends next can be opened by its peer.
InSync ==
    \A e \in Role :
        ratchet[e].sending_count < COUNTER_MAX
            => CanFollow(ratchet[Peer(e)], Frame(ratchet[e]))

\* The peer's frames e has not returned: lost, delayed, or never handed to the
\* transport because the envelope around them was refused.
Outstanding(e) == {f \in net : Sender(f) = Peer(e) /\ f \notin delivered[e]}

\* Any MAX_SKIPPED_KEYS frames may be lost, over both chains a new ratchet
\* spans: as long as no more are outstanding, what the peer sends next is
\* accepted on arrival.
LossTolerated ==
    \A e \in Role :
        (/\ Cardinality(Outstanding(e)) <= MAX_SKIPPED_KEYS
         /\ ratchet[Peer(e)].sending_count < COUNTER_MAX
         /\ ratchet[Peer(e)].suite = ratchet[e].suite)
        => Accepts(ratchet[e], Frame(ratchet[Peer(e)]))

\* Every retained skipped key still opens the frame it was retained for.
RetainedKeysOpen ==
    \A e \in Role : \A i \in 1..Len(ratchet[e].skipped) : \A f \in net :
        (SameSession(ratchet[e], f) /\ f.key = ratchet[e].skipped[i].key)
        => Accepts(ratchet[e], f)

\* Every emitted frame is eventually delivered, or its receiver has moved on
\* to a newer ratchet key of the sender.
EventuallyDelivered ==
    \A e \in Role, j \in KeyIds, n \in 0..COUNTER_MAX :
        (\E f \in net : f.ratchet_public = <<Peer(e), j>> /\ f.message_number = n)
        ~> \/ \E f \in delivered[e] : f.ratchet_public = <<Peer(e), j>> /\ f.message_number = n
           \/ ratchet[e].remote_dh[2] > j

============================================================================
