------------------------------- MODULE Hybrid -------------------------------
(***************************************************************************)
(* The hybrid X25519 plus ML-KEM-768 handshake (src/hybrid.rs, src/pq.rs   *)
(* and mix_ml_kem768 of src/handshake.rs) on top of Handshake.  A          *)
(* responder runs one of two profiles: the classical one, with all of      *)
(* Handshake's operations, or the hybrid one, which offers bundle,         *)
(* add_one_time_prekey and accept only and signs its ML-KEM key together   *)
(* with the whole classical bundle.                                        *)
(*                                                                         *)
(* A shared secret is named by the key pair, the ciphertext and whether    *)
(* that ciphertext was made for that key: decapsulation never fails, it    *)
(* silently yields another secret for a ciphertext that was not.           *)
(***************************************************************************)
EXTENDS Handshake

VARIABLES
    pq,                 \* the responder's ML-KEM key pair; NoKey: classical profile
    hybridInitiated,    \* the initiators' hybrid sessions, with what they sent
    hybridSessions      \* the hybrid sessions the responder accepted, in order

hybridVars == <<vars, pq, hybridInitiated, hybridSessions>>

MlKemKey == 1           \* the one key pair the hybrid profile generates

HybridInit ==
    /\ Init
    /\ pq \in {NoKey, MlKemKey}
    /\ hybridInitiated = {}
    /\ hybridSessions = << >>

----------------------------------------------------------------------------
(* ML-KEM-768 and the mixing of its secret.                                *)

encapsulate(public, seed) ==
    LET ciphertext == [key |-> public, seed |-> seed, intact |-> TRUE]
    IN  [ciphertext |-> ciphertext,
         shared |-> [key |-> public, of |-> ciphertext, agreed |-> TRUE]]

decapsulate(secret, ciphertext) ==
    [key |-> secret, of |-> ciphertext,
     agreed |-> ciphertext.intact /\ ciphertext.key = secret]

\* Mutant of mix_ml_kem768: the session keeps its classical identifier.
mix_ml_kem768_IdKept(s, shared) ==
    [s EXCEPT !.root_secret =
        [session_id |-> s.session_id, classical_root |-> s.root_secret, shared_secret |-> shared]]

mix_ml_kem768(s, shared) ==
    LET session_id == <<s.session_id, shared>>
    IN  [s EXCEPT !.session_id = session_id,
                  !.root_secret = [session_id |-> session_id,
                                   classical_root |-> s.root_secret,
                                   shared_secret |-> shared]]

----------------------------------------------------------------------------
(* Bundles and initiation.                                                 *)

binding_transcript(classical, pq_public) == <<classical, pq_public>>

HybridBundle(classical, pq_public, pq_signature) ==
    [classical |-> classical, pq_public |-> pq_public, pq_signature |-> pq_signature]

\* A bundle as fetched: the signature of some published bundle, next to
\* classical and ML-KEM parts it may not belong to.
FetchedHybridBundles ==
    {HybridBundle(classical, pq_public, binding_transcript(signed, pq)) :
        classical \in FetchedBundles, pq_public \in {pq, Garbled}, signed \in bundles}

\* Mutant of HybridVerifies: the ML-KEM key is taken unsigned.
HybridVerifiesClassical(b) == Verifies(b.classical)

HybridVerifies(b) ==
    /\ Verifies(b.classical)
    /\ b.pq_signature = binding_transcript(b.classical, b.pq_public)

HybridInitiate(identity, b) ==
    /\ HybridVerifies(b)
    /\ Initiate(identity, b.classical)
    /\ LET kem == encapsulate(b.pq_public, next_key)
       IN  \E s \in initiated' \ initiated :
             hybridInitiated' = hybridInitiated \cup
               {[message |-> [classical |-> s.session_id, pq_ciphertext |-> kem.ciphertext],
                 handshake |-> mix_ml_kem768(s, kem.shared)]}
    /\ UNCHANGED <<pq, hybridSessions>>

----------------------------------------------------------------------------
(* Accepting: the classical part decides, and consumes its one-time prekey *)
(* before the ciphertext is looked at.                                     *)

HybridMessages == {h.message : h \in hybridInitiated}

\* Either part may arrive damaged, or next to the other part of another message.
HybridArrivals ==
    LET ciphertexts == {m.pq_ciphertext : m \in HybridMessages}
    IN  {[classical |-> m, pq_ciphertext |-> c] :
            m \in Arrivals,
            c \in ciphertexts \cup {[x EXCEPT !.intact = FALSE] : x \in ciphertexts}}

HybridAccept(m) ==
    /\ Accept(m.classical)
    /\ hybridSessions' = Append(hybridSessions,
            mix_ml_kem768(Last(sessions'), decapsulate(pq, m.pq_ciphertext)))
    /\ UNCHANGED <<pq, hybridInitiated>>

HybridReject(m) == Reject(m.classical) /\ UNCHANGED <<pq, hybridInitiated, hybridSessions>>

HybridNext ==
    /\ pq # NoKey
    /\ \/ /\ \/ Publish
             \/ \E id \in OneTimeIds : AddOneTimePrekey(id)
             \/ Tick
          /\ UNCHANGED <<pq, hybridInitiated, hybridSessions>>
       \/ \E identity \in Initiators, b \in FetchedHybridBundles : HybridInitiate(identity, b)
       \/ \E m \in HybridArrivals : HybridAccept(m) \/ HybridReject(m)

ClassicalNext ==
    /\ pq = NoKey
    /\ Next
    /\ UNCHANGED <<pq, hybridInitiated, hybridSessions>>

ProfilesSpec == HybridInit /\ [][HybridNext \/ ClassicalNext]_hybridVars

----------------------------------------------------------------------------
(* Properties.                                                             *)

\* Two ends that hold one hybrid session identifier hold one root and each
\* other's ratchet keys, whatever happened to the bundle, its one-time prekey
\* included, and although accept never notices a damaged ciphertext: the
\* identifier tells such a session apart from the initiator's.
HybridAgreement ==
    \A h \in hybridInitiated : \A i \in 1..Len(hybridSessions) :
        LET s == h.handshake
            r == hybridSessions[i]
        IN  s.session_id = r.session_id
            => /\ s.root_secret = r.root_secret
               /\ s.remote_ratchet = r.local_ratchet
               /\ s.local_ratchet = r.remote_ratchet

\* An initiator whose bundle verified and whose message arrives unaltered
\* shares its session with the responder: no bundle put together from parts
\* that do not belong together, nor a stale one, ever leads to another secret.
UnalteredShared ==
    \A h \in hybridInitiated : \A i \in 1..Len(hybridSessions) :
        (/\ sessions[i].session_id = h.message.classical
         /\ hybridSessions[i].root_secret.shared_secret.of = h.message.pq_ciphertext)
        => hybridSessions[i].session_id = h.handshake.session_id

----------------------------------------------------------------------------
(* The inductive invariant.                                                *)

Ciphertext == [key : {MlKemKey}, seed : Nat, intact : BOOLEAN]
SharedSecret == [key : {MlKemKey}, of : Ciphertext, agreed : BOOLEAN]
HybridId == Message \X SharedSecret
HybridSession ==
    [session_id : HybridId,
     root_secret : [session_id : HybridId, classical_root : Secret, shared_secret : SharedSecret],
     local_ratchet : Nat, remote_ratchet : Nat,
     signed_prekey : Nat, one_time_prekey : Nat \cup {NoKey, Garbled}]

\* Every accepted hybrid session is its classical session mixed with what the
\* responder's own key makes of some ciphertext.
AcceptedMixed ==
    \A i \in 1..Len(hybridSessions) :
        LET ciphertext == hybridSessions[i].root_secret.shared_secret.of
        IN  hybridSessions[i] = mix_ml_kem768(sessions[i], decapsulate(pq, ciphertext))

\* Every initiated one is a classical session with an unaltered one-time
\* prekey, mixed with what the responder would make of its ciphertext.
InitiatedMixed ==
    \A h \in hybridInitiated : \E s \in initiated :
        /\ s.one_time_prekey # Garbled
        /\ h.message.pq_ciphertext \in Ciphertext
        /\ h.message.classical = s.session_id
        /\ h.handshake = mix_ml_kem768(s, decapsulate(pq, h.message.pq_ciphertext))

\* The profile is fixed, each of its sessions has its classical one, and both
\* ends mix in what the responder's ML-KEM key yields.
HybridInv ==
    /\ pq \in {NoKey, MlKemKey}
    /\ pq = NoKey => hybridInitiated = {} /\ hybridSessions = << >>
    /\ pq # NoKey => Len(hybridSessions) = Len(sessions)
    /\ hybridSessions \in Seq(HybridSession)
    /\ AcceptedMixed
    /\ InitiatedMixed

============================================================================
