------------------------------ MODULE Envelope ------------------------------
(***************************************************************************)
(* Delivery envelopes and the recipient's replay cache                     *)
(* (src/envelope/outer.rs, replay.rs, capability.rs): senders seal inner   *)
(* frames into envelopes with an expiry, the network delivers them any     *)
(* number of times, damaged or cut short too, and a recipient opens them   *)
(* through open_inner_once while its clock advances.                       *)
(*                                                                         *)
(* Lengths are counted in units; an envelope is its header fields and the  *)
(* facts the AEAD checks: whom it was sealed for and whether the           *)
(* authenticated bytes are still the sealed ones.                          *)
(***************************************************************************)
EXTENDS Integers, FiniteSets, Sequences

CONSTANTS
    MAX_CIPHERTEXT_LEN, \* lib.rs: largest ciphertext body
    AEAD_TAG_LEN,       \* length the AEAD adds to a plaintext
    OUTER_FIXED_LEN,    \* length of the authenticated envelope header
    NONCE_LEN,          \* nonce length of the outer suite
    Capacity,           \* ReplayCache capacity
    Recipients,         \* delivery keys; Local is the modelled recipient's
    Local,
    InnerLens,          \* encoded lengths of inner frames
    PaddingLens,        \* padding lengths senders choose
    Paddings,           \* contents of the padding: "zero", "other"
    Expiries,           \* expiry timestamps senders choose
    MaxNow,             \* bound: last instant of the clock
    MaxEnvelopes        \* bound: envelopes sealed

ASSUME EnvelopeAssumption ==
    /\ MAX_CIPHERTEXT_LEN \in Nat /\ AEAD_TAG_LEN \in Nat
    /\ AEAD_TAG_LEN <= MAX_CIPHERTEXT_LEN
    /\ OUTER_FIXED_LEN \in Nat /\ NONCE_LEN \in Nat
    /\ Capacity \in Nat \ {0}           \* ReplayCache::new refuses zero
    /\ InnerLens \subseteq Nat /\ PaddingLens \subseteq Nat
    /\ Expiries \subseteq Nat
    /\ MaxEnvelopes \in Nat

VARIABLES
    now,        \* the recipient's clock, Unix seconds
    next_id,    \* the next fresh TransportMessageId
    sealed,     \* every envelope ever sealed
    entries,    \* ReplayCache::entries; a Vec without duplicate identifiers
    accepted    \* accepted[id]: the instants at which id was accepted

vars == <<now, next_id, sealed, entries, accepted>>

MessageIds == 1..MaxEnvelopes

OuterEnvelope ==
    [message_id : MessageIds, expires_at_unix : Nat, recipient : Recipients,
     padding : Paddings, body_len : 0..MAX_CIPHERTEXT_LEN,
     wire_len : Nat, intact : BOOLEAN]

ReplayEntry == [message_id : MessageIds, expires_at : Nat]

Init ==
    /\ now = 0
    /\ next_id = 1
    /\ sealed = {}
    /\ entries = {}
    /\ accepted = [id \in MessageIds |-> << >>]

----------------------------------------------------------------------------
(* Sealing.                                                                *)

\* Mutant of PlaintextFits: the tag is not counted.
PlaintextFitsUntagged(plaintext_len) == plaintext_len <= MAX_CIPHERTEXT_LEN

PlaintextFits(plaintext_len) == plaintext_len <= MAX_CIPHERTEXT_LEN - AEAD_TAG_LEN

WireLen(body_len) == OUTER_FIXED_LEN + NONCE_LEN + body_len

SealedEnvelope(id, recipient, expires, plaintext_len, padding) ==
    LET body_len == plaintext_len + AEAD_TAG_LEN
    IN  [message_id |-> id, expires_at_unix |-> expires, recipient |-> recipient,
         padding |-> padding, body_len |-> body_len, wire_len |-> WireLen(body_len),
         intact |-> TRUE]

\* A peer of another make may pad with other bytes than zeros.
Seal(recipient, expires, inner_len, padding_len, padding) ==
    LET plaintext_len == inner_len + padding_len
    IN  /\ next_id \in MessageIds
        /\ PlaintextFits(plaintext_len)
        /\ sealed' = sealed \cup
             {SealedEnvelope(next_id, recipient, expires, plaintext_len, padding)}
        /\ next_id' = next_id + 1
        /\ UNCHANGED <<now, entries, accepted>>

----------------------------------------------------------------------------
(* Opening.                                                                *)

Damaged(e) == [e EXCEPT !.intact = FALSE]
CutShort(e) == [e EXCEPT !.wire_len = @ - 1, !.intact = FALSE]
Arrivals == sealed \cup {Damaged(e) : e \in sealed} \cup {CutShort(e) : e \in sealed}

\* Ciphertext::from_parts; the nonce has the one length of the outer suite.
from_parts(body_len) == body_len \in AEAD_TAG_LEN..MAX_CIPHERTEXT_LEN

\* OuterEnvelope::decode accepts exactly the canonical length.
Decodes(e) ==
    /\ e.wire_len >= OUTER_FIXED_LEN
    /\ e.wire_len <= MAX_CIPHERTEXT_LEN + OUTER_FIXED_LEN + NONCE_LEN
    /\ from_parts(e.body_len)
    /\ e.wire_len = WireLen(e.body_len)

\* The AEAD opens what was sealed, under the key it was sealed with.
Authenticates(e) == e.recipient = Local /\ e.intact

\* open: expiry first, then the AEAD under the key derived for the recipient.
Opens(e) == now <= e.expires_at_unix /\ Authenticates(e)

\* open_inner: one frame followed by nothing but zeros.
OpensInner(e) == Opens(e) /\ e.padding = "zero"

\* Mutant of Retained: an entry is dropped in its last second.
RetainedStrict == {x \in entries : x.expires_at > now}

\* Mutant of Retained: expired entries stay.
RetainedAll == entries

\* check_and_insert first drops the expired entries, whatever it returns.
Retained == {x \in entries : x.expires_at >= now}

Duplicate(e) == \E x \in Retained : x.message_id = e.message_id

\* Mutant of Full: one entry too many.
FullLate == Cardinality(Retained) > Capacity

Full == Cardinality(Retained) >= Capacity

Inserted(e) ==
    Retained \cup {[message_id |-> e.message_id, expires_at |-> e.expires_at_unix]}

Accept(e) ==
    /\ Decodes(e) /\ OpensInner(e)
    /\ ~Duplicate(e)
    /\ ~Full
    /\ entries' = Inserted(e)
    /\ accepted' = [accepted EXCEPT ![e.message_id] = Append(@, now)]
    /\ UNCHANGED <<now, next_id, sealed>>

\* ReplayDetected and InvalidState (cache full).
RefuseReplay(e) ==
    /\ Decodes(e) /\ OpensInner(e)
    /\ Duplicate(e)
    /\ entries' = Retained
    /\ UNCHANGED <<now, next_id, sealed, accepted>>

RefuseFull(e) ==
    /\ Decodes(e) /\ OpensInner(e)
    /\ ~Duplicate(e)
    /\ Full
    /\ entries' = Retained
    /\ UNCHANGED <<now, next_id, sealed, accepted>>

\* Mutant of RejectUnopened: the identifier is recorded before the envelope
\* is opened.
RejectUnopenedRecorded(e) ==
    /\ ~(Decodes(e) /\ OpensInner(e))
    /\ entries' = entries \cup
         {[message_id |-> e.message_id, expires_at |-> e.expires_at_unix]}
    /\ UNCHANGED <<now, next_id, sealed, accepted>>

\* Malformed, expired, unauthentic or wrongly padded: the cache is untouched.
RejectUnopened(e) ==
    /\ ~(Decodes(e) /\ OpensInner(e))
    /\ UNCHANGED vars

OpenInnerOnce(e) ==
    \/ Accept(e)
    \/ RefuseReplay(e)
    \/ RefuseFull(e)
    \/ RejectUnopened(e)

----------------------------------------------------------------------------

Tick ==
    /\ now < MaxNow
    /\ now' = now + 1
    /\ UNCHANGED <<next_id, sealed, entries, accepted>>

Next ==
    \/ \E recipient \in Recipients, expires \in Expiries, inner_len \in InnerLens,
          padding_len \in PaddingLens, padding \in Paddings :
            Seal(recipient, expires, inner_len, padding_len, padding)
    \/ \E e \in Arrivals : OpenInnerOnce(e)
    \/ Tick

Spec == Init /\ [][Next]_vars

\* The host's wall clock may be set back between two calls.
ClockSetBack ==
    /\ now > 0
    /\ now' = now - 1
    /\ UNCHANGED <<next_id, sealed, entries, accepted>>

AdjustedClockSpec == Init /\ [][Next \/ ClockSetBack]_vars

----------------------------------------------------------------------------
(* Properties.                                                             *)

\* Envelopes, cache entries and identifiers have their types; no ciphertext
\* body exceeds MAX_CIPHERTEXT_LEN.
TypeOK ==
    /\ now \in Nat
    /\ next_id \in 1..(MaxEnvelopes + 1)
    /\ sealed \subseteq OuterEnvelope
    /\ entries \subseteq ReplayEntry
    /\ accepted \in [MessageIds -> Seq(Nat)]

\* open_inner_once accepts a transport message identifier at most once,
\* although the cache forgets it on expiry: the expiry check of open and the
\* retention test of check_and_insert agree on the last instant.
AcceptedOnce == \A id \in MessageIds : Len(accepted[id]) <= 1

\* The cache never holds more than its capacity.
CacheBounded == Cardinality(entries) <= Capacity

LiveAccepted ==
    {e \in sealed : accepted[e.message_id] # << >> /\ now <= e.expires_at_unix}

\* An envelope that opens and was not accepted before is accepted, unless
\* Capacity accepted envelopes are still live: neither expired entries nor
\* damaged, foreign or malformed arrivals ever take its place.
FreshAccepted ==
    \A e \in sealed :
        (OpensInner(e) /\ accepted[e.message_id] = << >>)
        => \/ ~Duplicate(e) /\ ~Full
           \/ Cardinality(LiveAccepted) >= Capacity

\* What seal emits, decode accepts: the length limits of the two agree.
SealedDecodes == \A e \in sealed : Decodes(e)

----------------------------------------------------------------------------
(* The inductive invariant.                                                *)

\* Identifiers are fresh, so an envelope is known by its identifier.
IdsInv ==
    /\ IsFiniteSet(sealed)
    /\ \A e \in sealed : e.message_id < next_id /\ e.intact
    /\ \A e, f \in sealed : e.message_id = f.message_id => e = f
    /\ \A id \in MessageIds : id >= next_id => accepted[id] = << >>

\* The cache holds accepted identifiers with their expiry, and every accepted
\* identifier until its envelope has expired.
CacheInv ==
    /\ IsFiniteSet(entries)
    /\ \A x \in entries : \E e \in sealed :
         /\ x = [message_id |-> e.message_id, expires_at |-> e.expires_at_unix]
         /\ accepted[e.message_id] # << >>
    /\ \A e \in sealed :
         accepted[e.message_id] # << >>
         => \/ now > e.expires_at_unix
            \/ [message_id |-> e.message_id, expires_at |-> e.expires_at_unix] \in entries

\* Every operation preserves this, and it implies the safety invariants.
EnvelopeInv == TypeOK /\ CacheBounded /\ IdsInv /\ CacheInv /\ AcceptedOnce /\ SealedDecodes

============================================================================
