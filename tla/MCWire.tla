------------------------------- MODULE MCWire -------------------------------
(***************************************************************************)
(* Objects of every format: both nonce lengths, the smallest and the       *)
(* largest body, with and without a one-time prekey.                       *)
(***************************************************************************)
EXTENDS Wire

MCFrames ==
    {[type |-> "frame", suite |-> suite, kind |-> kind, session_id |-> 2,
      ratchet_public |-> 3, previous_chain_len |-> 0, message_number |-> 1,
      nonce |-> [i \in 1..nonce_len(suite) |-> 3], body |-> [i \in 1..n |-> i]] :
        suite \in {1, 4}, kind \in {2, 5}, n \in {AEAD_TAG_LEN, MAX_CIPHERTEXT_LEN}}

MCMessages ==
    {[type |-> "message", identity |-> BoundIdentity, ephemeral |-> 2, ratchet |-> 3,
      signed_prekey_id |-> 0, one_time_prekey_id |-> id] : id \in {<< >>, <<0>>, <<2>>}}

MCBundles ==
    {[type |-> "bundle", identity |-> BoundIdentity, key_id |-> 0, public |-> 2,
      expires_at_unix |-> 3, signature |-> 1, one_time_prekey |-> prekey] :
        prekey \in {<< >>, <<0, 3>>, <<2, 0>>}}

MCHybridMessages ==
    {[type |-> "hybrid_message", classical |-> m,
      pq_ciphertext |-> [i \in 1..PqCiphertextLen |-> i]] : m \in MCMessages}

MCHybridBundles ==
    {[type |-> "hybrid_bundle", classical |-> b, pq_public |-> [i \in 1..PqPublicLen |-> i],
      pq_signature |-> 1] : b \in MCBundles}

MCObjects == MCFrames \cup MCMessages \cup MCBundles \cup MCHybridMessages \cup MCHybridBundles

MCUnits == {0, 1, 2, 3, 4, MESSAGE_LEN}

=============================================================================
