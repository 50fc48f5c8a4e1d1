------------------------------ MODULE Delivery ------------------------------
(***************************************************************************)
(* The path of a message from encrypt to the returned plaintext: the       *)
(* ratchet of Ratchet, whose frames the sender seals into the envelopes of *)
(* Envelope and the recipient opens through open_inner_once before it      *)
(* hands them to decrypt (src/ratchet/state.rs, src/envelope/outer.rs and  *)
(* src/envelope/replay.rs as examples and tests combine them).             *)
(*                                                                         *)
(* The replay cache records an identifier before the ratchet has seen the  *)
(* frame, and lives in memory only: a restart keeps the persisted ratchet, *)
(* loses the cache and every frame that was opened and not yet decrypted.  *)
(***************************************************************************)
EXTENDS RatchetInvariant

CONSTANTS
    MAX_CIPHERTEXT_LEN, AEAD_TAG_LEN, OUTER_FIXED_LEN, NONCE_LEN,
    Capacity,           \* ReplayCache capacity
    INNER_OVERHEAD,     \* header, nonce and tag around a payload in a frame
    PayloadLens,        \* lengths of the plaintexts handed to encrypt
    PaddingLens,        \* padding lengths senders choose
    Expiries,           \* expiry timestamps senders choose
    MaxNow,             \* bound: last instant of the clock
    MaxEnvelopes,       \* bound: envelopes sealed
    MaxRestarts         \* bound: restarts of both hosts

VARIABLES
    now,        \* the hosts' clock, Unix seconds
    next_id,    \* the next fresh TransportMessageId
    frame_len,  \* frame_len[f]: the encoded length of the emitted frame f
    envelopes,  \* every envelope ever sealed, with the frame inside
    cache,      \* cache[e]: the entries of e's ReplayCache
    opened,     \* opened[e]: opened by e and not yet handed to decrypt
    limited,    \* limited[e]: identifiers whose frame exceeded the skipped-key limit
    restarts    \* restarts so far

envelopeVars == <<now, next_id, frame_len, envelopes, cache, opened, limited, restarts>>
deliveryVars == <<vars, envelopeVars>>

\* The envelopes and the replay cache as recipient e sees them.
Env(e) ==
    INSTANCE Envelope WITH
        Local <- e, Recipients <- Role, InnerLens <- Nat, Paddings <- {"zero"},
        sealed <- {x.outer : x \in envelopes},
        entries <- cache[e],
        accepted <- [id \in 1..MaxEnvelopes |-> << >>]

DeliveryInit ==
    /\ Init
    /\ now = 0
    /\ next_id = 1
    /\ frame_len = << >>
    /\ envelopes = {}
    /\ cache = [e \in Role |-> {}]
    /\ opened = [e \in Role |-> {}]
    /\ limited = [e \in Role |-> {}]
    /\ restarts = 0

----------------------------------------------------------------------------
(* Sending.                                                                *)

\* validate_inputs: the AEAD's limit leaves no room for the frame's header
\* and nonce, nor for an envelope.
PayloadFits(plaintext_len) == plaintext_len <= MAX_CIPHERTEXT_LEN - AEAD_TAG_LEN

\* encrypt: the ratchet advances whether or not the frame fits an envelope.
EncryptMessage(e, plaintext_len) ==
    /\ PayloadFits(plaintext_len)
    /\ Encrypt(e)
    /\ frame_len' = [f \in net' |->
            IF f \in net THEN frame_len[f] ELSE plaintext_len + INNER_OVERHEAD]
    /\ UNCHANGED <<now, next_id, envelopes, cache, opened, limited, restarts>>

\* The frame is sealed before the first assignment: nothing changes.
EncryptTooLong(plaintext_len) == ~PayloadFits(plaintext_len) /\ UNCHANGED deliveryVars

\* The payload fits, and the counter is exhausted.
EncryptFails(e) == EncryptExhausted(e) /\ UNCHANGED envelopeVars

Rotate(e) == RotateSendingRatchet(e) /\ UNCHANGED envelopeVars

\* seal, for the first time or again: each attempt draws a fresh identifier.
SealFrame(f, expires, padding_len) ==
    LET recipient == Peer(Sender(f))
        plaintext_len == frame_len[f] + padding_len
    IN  /\ next_id <= MaxEnvelopes
        /\ Env(recipient)!PlaintextFits(plaintext_len)
        /\ envelopes' = envelopes \cup
             {[outer |-> Env(recipient)!SealedEnvelope(next_id, recipient, expires,
                                                       plaintext_len, "zero"),
               frame |-> f]}
        /\ next_id' = next_id + 1
        /\ UNCHANGED <<vars, now, frame_len, cache, opened, limited, restarts>>

----------------------------------------------------------------------------
(* Receiving: open_inner_once, then decrypt.                               *)

DamagedCopy(x) == [x EXCEPT !.outer.intact = FALSE]
EnvelopeArrivals == envelopes \cup {DamagedCopy(x) : x \in envelopes}

OpensAt(e, x) == Env(e)!Decodes(x.outer) /\ Env(e)!OpensInner(x.outer)

OpenEnvelope(e, x) ==
    /\ OpensAt(e, x)
    /\ ~Env(e)!Duplicate(x.outer)
    /\ ~Env(e)!Full
    /\ cache' = [cache EXCEPT ![e] = Env(e)!Inserted(x.outer)]
    /\ opened' = [opened EXCEPT ![e] = @ \cup {x}]
    /\ UNCHANGED <<vars, now, next_id, frame_len, envelopes, limited, restarts>>

\* ReplayDetected or a full cache: what has expired is purged all the same.
OpenRefused(e, x) ==
    /\ OpensAt(e, x)
    /\ Env(e)!Duplicate(x.outer) \/ Env(e)!Full
    /\ cache' = [cache EXCEPT ![e] = Env(e)!Retained]
    /\ UNCHANGED <<vars, now, next_id, frame_len, envelopes, opened, limited, restarts>>

\* Mutant of OpenFails: the identifier is recorded before authentication.
OpenFailsRecorded(e, x) ==
    /\ ~OpensAt(e, x)
    /\ cache' = [cache EXCEPT ![e] = Env(e)!Inserted(x.outer)]
    /\ UNCHANGED <<vars, now, next_id, frame_len, envelopes, opened, limited, restarts>>

\* Expired, damaged or sealed for the other endpoint.
OpenFails(e, x) == ~OpensAt(e, x) /\ UNCHANGED deliveryVars

\* The frame would open but for the skipped-key limit.
OverLimit(r, f) == SameSession(r, f) /\ CanFollow(r, f) /\ ~Accepts(r, f)

\* decrypt, whatever it returns: the frame leaves the caller's hands.
DecryptOpened(e, x) ==
    /\ x \in opened[e]
    /\ Decrypt(e, x.frame)
    /\ opened' = [opened EXCEPT ![e] = @ \ {x}]
    /\ limited' = IF OverLimit(ratchet[e], x.frame)
                  THEN [limited EXCEPT ![e] = @ \cup {x.outer.message_id}]
                  ELSE limited
    /\ UNCHANGED <<now, next_id, frame_len, envelopes, cache, restarts>>

----------------------------------------------------------------------------

\* Mutant of AfterRestart: the cache outlives the frames opened under it.
AfterRestartCacheKept(e) == cache[e]

\* ReplayCache::new; the crate has no way to store one.
AfterRestart(e) == {}

Restart(e) ==
    /\ restarts < MaxRestarts
    /\ restarts' = restarts + 1
    /\ cache' = [cache EXCEPT ![e] = AfterRestart(e)]
    /\ opened' = [opened EXCEPT ![e] = {}]
    /\ UNCHANGED <<vars, now, next_id, frame_len, envelopes, limited>>

Tick ==
    /\ now < MaxNow
    /\ now' = now + 1
    /\ UNCHANGED <<vars, next_id, frame_len, envelopes, cache, opened, limited, restarts>>

DeliveryNext ==
    \/ \E e \in Role :
        \/ \E len \in PayloadLens : EncryptMessage(e, len) \/ EncryptTooLong(len)
        \/ EncryptFails(e)
        \/ Rotate(e)
        \/ \E x \in EnvelopeArrivals :
             OpenEnvelope(e, x) \/ OpenRefused(e, x) \/ OpenFails(e, x)
        \/ \E x \in opened[e] : DecryptOpened(e, x)
        \/ Restart(e)
    \/ \E f \in net, expires \in Expiries, padding_len \in PaddingLens :
         SealFrame(f, expires, padding_len)
    \/ Tick

DeliverySpec == DeliveryInit /\ [][DeliveryNext]_deliveryVars

\* The transport offers every envelope until it expires, and a host decrypts
\* what it has opened.
OpenOne(id) ==
    \E x \in envelopes :
        x.outer.message_id = id /\ OpenEnvelope(x.outer.recipient, x)
DecryptOne(id) ==
    \E e \in Role : \E x \in opened[e] :
        x.outer.message_id = id /\ DecryptOpened(e, x)

FairDeliverySpec ==
    /\ DeliverySpec
    /\ \A id \in 1..MaxEnvelopes :
         WF_deliveryVars(OpenOne(id)) /\ WF_deliveryVars(DecryptOne(id))

----------------------------------------------------------------------------
(* Properties.                                                             *)

\* End to end the composition is still the secure channel: every plaintext is
\* returned at most once and only as sent, although frames are sealed again,
\* envelopes are delivered twice and a restart forgets the replay cache.
EndToEndChannel == Channel!Spec

\* A frame whose envelope the cache refuses as a replay is one the ratchet
\* would refuse as well, one the host has in hand, or one that met the
\* skipped-key limit: recording the identifier before decrypt strands no other.
StrandedOnlyByLimit ==
    \A e \in Role : \A x \in envelopes :
        (OpensAt(e, x) /\ Env(e)!Duplicate(x.outer) /\ Accepts(ratchet[e], x.frame))
        => x \in opened[e] \/ x.outer.message_id \in limited[e]

\* decrypt would open f at e, now or as soon as the skipped-key limit allows: f is
\* ahead on the chain e receives on, retained, or on the chain e would start next.
Pending(e, f) ==
    LET r == ratchet[e]
    IN  /\ f.suite = r.suite
        /\ \/ /\ f.ratchet_public = r.remote_dh
              /\ f.message_number >= r.receiving_count \/ Kept(e, f.message_number)
           \/ /\ f.ratchet_public # r.remote_dh
              /\ f.previous_chain_len >= r.receiving_count
              /\ SameChain(f.key, root_chain(r.root_key,
                                     diffie_hellman(r.dh_pair, f.ratchet_public)))

Recorded(e, x) == \E y \in cache[e] : y.message_id = x.outer.message_id

\* The strengthening of StrandedOnlyByLimit: identifiers name one envelope, and
\* one that the cache holds is in hand, was limited, or its frame is past.
CacheInv ==
    /\ next_id \in Nat \ {0}
    /\ \A x \in envelopes : /\ x.outer.message_id \in 1..(next_id - 1)
                            /\ x.frame \in net
    /\ \A x, y \in envelopes : x.outer.message_id = y.outer.message_id => x = y
    /\ \A e \in Role : /\ opened[e] \subseteq envelopes
                       /\ \A y \in cache[e] : y.message_id \in 1..(next_id - 1)
    /\ \A e \in Role : \A x \in envelopes :
         Recorded(e, x) => \/ x \in opened[e]
                           \/ x.outer.message_id \in limited[e]
                           \/ ~Pending(e, x.frame)

\* Every sealed frame is eventually returned, restarts between open_inner_once
\* and decrypt included, unless its envelope expires, the skipped-key limit
\* refused it or the receiver has moved on to a newer ratchet key.
EventuallyReturned ==
    \A id \in 1..MaxEnvelopes :
        (\E x \in envelopes : x.outer.message_id = id)
        ~> \E x \in envelopes :
             LET e == x.outer.recipient
             IN  /\ x.outer.message_id = id
                 /\ \/ x.frame \in delivered[e]
                    \/ now > x.outer.expires_at_unix
                    \/ id \in limited[e]
                    \/ ratchet[e].remote_dh[2] > x.frame.ratchet_public[2]

============================================================================
