-------------------------- MODULE RatchetInvariant --------------------------
(***************************************************************************)
(* The strengthening under which the safety invariants of Ratchet become   *)
(* inductive, and the refinement of SecureChannel.                         *)
(***************************************************************************)
EXTENDS Ratchet

SameChain(x, y) == x.label = y.label /\ x.root = y.root

\* Only key pairs that were generated occur in a root key.
KnownKey(k) == k[2] <= generated[k[1]]
KnownRoot(root) == \A i \in 1..Len(root) : \A k \in root[i] : KnownKey(k)

\* Each endpoint uses a key pair of its own and knows only the peer's keys.
KeysInv ==
    \A e \in Role :
        /\ Owner(ratchet[e].dh_pair) = e
        /\ KnownKey(ratchet[e].dh_pair)
        /\ Owner(ratchet[e].remote_dh) = Peer(e)
        /\ KnownKey(ratchet[e].remote_dh)
        /\ KnownRoot(ratchet[e].root_key)
        /\ KnownRoot(ratchet[e].sending_chain.root)
        /\ Len(ratchet[e].sending_chain.root) <= Len(ratchet[e].root_key)

\* The sending chain stands at the sending counter until that is exhausted.
CountInv ==
    \A e \in Role :
        ratchet[e].sending_count < COUNTER_MAX
            => ratchet[e].sending_chain.pos = ratchet[e].sending_count

\* What holds of a frame by itself.
FrameInv ==
    \A f \in net :
        /\ f.intact
        /\ f.session_id = Session
        /\ KnownKey(f.ratchet_public)
        /\ KnownRoot(f.key.root)
        /\ f.key.index = f.message_number
        /\ f.message_number < COUNTER_MAX
        /\ Len(f.key.root) <= Len(ratchet[Sender(f)].root_key)

\* The ratchet key in a header determines the rest of the header but the
\* number, and the chain; different ratchet keys belong to different chains.
ChainInv ==
    \A f, g \in net :
        /\ f.ratchet_public = g.ratchet_public
             => /\ SameChain(f.key, g.key)
                /\ f.previous_chain_len = g.previous_chain_len
                /\ f.suite = g.suite
        /\ SameChain(f.key, g.key) => f.ratchet_public = g.ratchet_public

\* Frames of an endpoint's current key and its current chain agree.
SendingInv ==
    /\ \A e \in Role : \A f \in net :
        /\ f.ratchet_public = ratchet[e].dh_pair
             => /\ SameChain(f.key, ratchet[e].sending_chain)
                /\ f.previous_chain_len = ratchet[e].previous_sending_chain_len
                /\ f.suite = ratchet[e].suite
                /\ f.message_number < ratchet[e].sending_count
        /\ SameChain(f.key, ratchet[e].sending_chain)
             => f.ratchet_public = ratchet[e].dh_pair
    /\ \A e, d \in Role :
         SameChain(ratchet[e].sending_chain, ratchet[d].sending_chain) => e = d

\* k is a key of the peer that e's root has already passed: no frame that
\* advertises it, now or later, can start a new ratchet at e.
Passed(e, k) ==
    /\ KnownKey(k)
    /\ \A f \in net :
         f.ratchet_public = k => Len(f.key.root) <= Len(ratchet[e].root_key)
    /\ k = ratchet[Peer(e)].dh_pair
         => Len(ratchet[Peer(e)].sending_chain.root) <= Len(ratchet[e].root_key)

\* Retained keys belong to passed ratchet keys; those of the current one lie
\* below the receiving counter.
SkippedInv ==
    \A e \in Role :
        /\ Passed(e, ratchet[e].remote_dh)
        /\ \A i \in 1..Len(ratchet[e].skipped) :
             /\ Passed(e, ratchet[e].skipped[i].remote_dh)
             /\ ratchet[e].skipped[i].remote_dh = ratchet[e].remote_dh
                  => ratchet[e].skipped[i].message_number < ratchet[e].receiving_count

\* A delivered frame lies behind the endpoint: its ratchet key is passed, its
\* number is below the counter and no retained entry answers to it.
DeliveredInv ==
    \A e \in Role : \A f \in delivered[e] :
        /\ f \in net
        /\ Sender(f) = Peer(e)
        /\ Passed(e, f.ratchet_public)
        /\ f.ratchet_public = ratchet[e].remote_dh
             => f.message_number < ratchet[e].receiving_count
        /\ \A i \in 1..Len(ratchet[e].skipped) :
             ~(/\ ratchet[e].skipped[i].remote_dh = f.ratchet_public
               /\ ratchet[e].skipped[i].message_number = f.message_number)

\* The inductive invariant: every operation of the ratchet preserves it, and
\* it implies the safety invariants stated in Ratchet.
RatchetInv ==
    /\ TypeOK
    /\ SkippedBounded
    /\ KeysInv
    /\ CountInv
    /\ FrameInv
    /\ ChainInv
    /\ SendingInv
    /\ SkippedInv
    /\ SkippedUnique
    /\ DeliveredInv

----------------------------------------------------------------------------
(* What keeps the two ends in step.                                        *)

\* The key of the n-th frame of a chain.
KeyAt(chain, n) == [label |-> chain.label, root |-> chain.root, index |-> n]

Emitted(k, n) == \E f \in net : f.ratchet_public = k /\ f.message_number = n

\* The n-th frame of the chain e receives on was returned, or its key is kept.
Returned(e, n) ==
    \E f \in delivered[e] : f.ratchet_public = ratchet[e].remote_dh /\ f.message_number = n
Kept(e, n) ==
    \E i \in 1..Len(ratchet[e].skipped) :
        /\ ratchet[e].skipped[i].remote_dh = ratchet[e].remote_dh
        /\ ratchet[e].skipped[i].message_number = n

\* The receiving chain is the one the frames under the remote key are sealed
\* with, by its owner if it still uses that key; it stands at the receiving
\* counter, and every number below is returned or kept with its key.
Receives(e) ==
    LET r == ratchet[e]
        p == ratchet[Peer(e)]
    IN  /\ r.receiving_chain.pos = r.receiving_count
        /\ \A f \in net : f.ratchet_public = r.remote_dh => SameChain(f.key, r.receiving_chain)
        /\ p.dh_pair = r.remote_dh
             => /\ SameChain(p.sending_chain, r.receiving_chain)
                /\ r.receiving_count <= p.sending_count
        /\ \A i \in 1..Len(r.skipped) :
             r.skipped[i].remote_dh = r.remote_dh
               => r.skipped[i].key = KeyAt(r.receiving_chain, r.skipped[i].message_number)
        /\ \A n \in 0..(r.receiving_count - 1) : Returned(e, n) \/ Kept(e, n)

ReceivingInv == \A e \in Role : Receives(e)

\* The frames of a chain are emitted without gaps.
EmittedInv ==
    /\ IsFiniteSet(net)
    /\ \A e \in Role : \A n \in 0..(ratchet[e].sending_count - 1) :
         Emitted(ratchet[e].dh_pair, n)
    /\ \A f \in net : \A n \in 0..(f.message_number - 1) : Emitted(f.ratchet_public, n)

\* p has turned its ratchet against q's current key, and q has not seen it: p is
\* one root step ahead, every earlier frame of p is behind q's root, and
\* previous_sending_chain_len is the length of the chain q still receives on.
Leads(p) ==
    LET q == Peer(p)
        dh == diffie_hellman(ratchet[p].dh_pair, ratchet[q].dh_pair)
        length == ratchet[p].previous_sending_chain_len
    IN  /\ ratchet[p].remote_dh = ratchet[q].dh_pair
        /\ ratchet[q].remote_dh # ratchet[p].dh_pair
        /\ ratchet[p].root_key = next_root(ratchet[q].root_key, dh)
        /\ SameChain(ratchet[p].sending_chain, root_chain(ratchet[q].root_key, dh))
        /\ ratchet[q].receiving_count <= length
        /\ \A f \in net :
             /\ f.ratchet_public = ratchet[q].remote_dh => f.message_number < length
             /\ (Sender(f) = p /\ f.ratchet_public # ratchet[p].dh_pair)
                  => Len(f.key.root) <= Len(ratchet[q].root_key)
        /\ \A n \in 0..(length - 1) : Emitted(ratchet[q].remote_dh, n)

\* Both ends still share the handshake's root.
Even ==
    \A e \in Role : /\ ratchet[e].remote_dh = ratchet[Peer(e)].dh_pair
                    /\ ratchet[e].root_key = ratchet[Peer(e)].root_key

\* Before the first explicit rotation both ends share the handshake's root; from
\* then on they take turns in leading.  A second one leaves this pattern.  (One
\* rotation may also have been undone: PersistentSession counts it although the
\* endpoint crashed before it was committed.)
RootsInv ==
    /\ rotations = 0 => Even
    /\ rotations = 1 => Even \/ \E p \in Role : Leads(p)

\* As long as that pattern holds, every retained key waits for a frame that the
\* peer has emitted.
StoreInv ==
    rotations <= 1 =>
        \A e \in Role : \A i \in 1..Len(ratchet[e].skipped) :
            /\ Owner(ratchet[e].skipped[i].remote_dh) = Peer(e)
            /\ Emitted(ratchet[e].skipped[i].remote_dh, ratchet[e].skipped[i].message_number)

\* Together with RatchetInv this is inductive, and implies that nothing is lost
\* in a chain and, up to the first explicit rotation, InSync and LossTolerated.
SyncInv == ReceivingInv /\ EmittedInv /\ RootsInv /\ StoreInv

----------------------------------------------------------------------------

Channel ==
    INSTANCE SecureChannel WITH
        sent <- [e \in Role |-> {f \in net : Sender(f) = e}],
        received <- delivered,
        receipts <- returned

\* The ratchet implements the secure channel: encrypt sends a message nobody
\* sent before, decrypt receives one of the peer's not received before, and
\* every other step is invisible.
ImplementsChannel == Channel!Spec

============================================================================
