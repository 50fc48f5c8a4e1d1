-------------------------------- MODULE Wire --------------------------------
(***************************************************************************)
(* The canonical wire formats: the inner frame (src/frame/wire.rs), the    *)
(* prekey bundle and the initial message (src/handshake.rs) and their      *)
(* hybrid forms (src/hybrid.rs).  An object is encoded, the transport      *)
(* alters the result, and every decoder is asked about what arrives.       *)
(*                                                                         *)
(* A wire is a sequence of units, one per fixed-size field, nonce half,    *)
(* tag or body block; a unit is a number, and lengths count units.  An     *)
(* identity record (two keys and the signature that binds them) is one     *)
(* unit.  A decoder returns the set of what it accepts: one object, or     *)
(* none where the code returns an error.                                   *)
(***************************************************************************)
EXTENDS Integers, SequencesExt

CONSTANTS
    AEAD_TAG_LEN,           \* units of an authentication tag
    MAX_CIPHERTEXT_LEN,     \* limit of a ciphertext body with its tag
    PqPublicLen,            \* units of an ML-KEM-768 public key
    PqCiphertextLen,        \* units of an ML-KEM-768 ciphertext
    Objects,                \* the objects that are encoded
    Units,                  \* the values the transport puts into a unit
    MaxEdits                \* bound: alterations of one wire

ASSUME WireAssumption ==
    /\ AEAD_TAG_LEN \in Nat \ {0}
    /\ MAX_CIPHERTEXT_LEN \in Nat /\ MAX_CIPHERTEXT_LEN >= AEAD_TAG_LEN
    /\ PqPublicLen \in Nat \ {0} /\ PqCiphertextLen \in Nat \ {0}
    /\ Units \subseteq Nat /\ MaxEdits \in Nat

VARIABLES
    object,     \* what was encoded
    wire,       \* the units that arrive
    edits       \* alterations so far

vars == <<object, wire, edits>>

\* The four magics: inner frame, initial message, bundle, both hybrid forms.
MEF == 1
MEH == 2
MEB == 3
MEQ == 4
VERSION == 1

----------------------------------------------------------------------------
(* Inner frames.                                                           *)

FIXED_HEADER_LEN == 10
LongestNonce == 2

\* AeadSuite: identifiers 1 to 4, the last with the nonce of double length.
SuiteIds == 1..4
nonce_len(suite) == IF suite = 4 THEN LongestNonce ELSE 1

\* FrameKind: Init, Message, Ack, Control, Reset.
KindIds == 1..5

encode_aad(f) ==
    <<MEF, VERSION, f.suite, f.kind, f.session_id, f.ratchet_public,
      f.previous_chain_len, f.message_number, nonce_len(f.suite), Len(f.body)>>

FrameEncode(f) == encode_aad(f) \o f.nonce \o f.body

\* Mutant of BodyLenAllowed: the largest body is refused.
BodyLenBelowMax(n) == n >= AEAD_TAG_LEN /\ n < MAX_CIPHERTEXT_LEN

BodyLenAllowed(n) == n \in AEAD_TAG_LEN..MAX_CIPHERTEXT_LEN

\* decode_prefix: the frame at the start of w and the units it takes up.
FrameDecodePrefix(w) ==
    IF /\ Len(w) >= FIXED_HEADER_LEN
       /\ Len(w) <= MAX_CIPHERTEXT_LEN + FIXED_HEADER_LEN + LongestNonce
       /\ w[1] = MEF /\ w[2] = VERSION
       /\ w[3] \in SuiteIds /\ w[4] \in KindIds
       /\ w[9] = nonce_len(w[3]) /\ BodyLenAllowed(w[10])
       /\ Len(w) >= FIXED_HEADER_LEN + w[9] + w[10]
    THEN LET nonce_end == FIXED_HEADER_LEN + w[9]
             expected_len == nonce_end + w[10]
         IN {[frame |-> [type |-> "frame", suite |-> w[3], kind |-> w[4],
                         session_id |-> w[5], ratchet_public |-> w[6],
                         previous_chain_len |-> w[7], message_number |-> w[8],
                         nonce |-> SubSeq(w, FIXED_HEADER_LEN + 1, nonce_end),
                         body |-> SubSeq(w, nonce_end + 1, expected_len)],
              consumed |-> expected_len]}
    ELSE {}

FrameDecode(w) == {p.frame : p \in {q \in FrameDecodePrefix(w) : q.consumed = Len(w)}}

----------------------------------------------------------------------------
(* Classical bundle and initial message.                                   *)

\* IdentityDhPublic::verify: one unit value stands for a bound record.
BoundIdentity == 1
IdentityVerifies(unit) == unit = BoundIdentity

\* An optional record of n units: a flag, then the units or as many zeros.
EncodeOptional(record, n) == IF record = << >> THEN [i \in 1..(n + 1) |-> 0] ELSE <<1>> \o record

\* Mutant of OptionalAllowed: the units of an absent record are not looked at.
OptionalAnyFiller(flag, units) == flag \in {0, 1}

OptionalAllowed(flag, units) ==
    \/ flag = 0 /\ \A i \in 1..Len(units) : units[i] = 0
    \/ flag = 1

DecodeOptional(flag, units) == IF flag = 1 THEN units ELSE << >>

MESSAGE_LEN == 8

HandshakeEncode(m) ==
    <<MEH, VERSION, m.identity, m.ephemeral, m.ratchet, m.signed_prekey_id>>
        \o EncodeOptional(m.one_time_prekey_id, 1)

HandshakeDecode(w) ==
    IF /\ Len(w) = MESSAGE_LEN /\ w[1] = MEH /\ w[2] = VERSION
       /\ OptionalAllowed(w[7], <<w[8]>>)
       /\ IdentityVerifies(w[3])
    THEN {[type |-> "message", identity |-> w[3], ephemeral |-> w[4], ratchet |-> w[5],
           signed_prekey_id |-> w[6], one_time_prekey_id |-> DecodeOptional(w[7], <<w[8]>>)]}
    ELSE {}

BUNDLE_LEN == 10

BundleEncode(b) ==
    <<MEB, VERSION, b.identity, b.key_id, b.public, b.expires_at_unix, b.signature>>
        \o EncodeOptional(b.one_time_prekey, 2)

BundleDecode(w) ==
    IF /\ Len(w) = BUNDLE_LEN /\ w[1] = MEB /\ w[2] = VERSION
       /\ IdentityVerifies(w[3])
       /\ OptionalAllowed(w[8], <<w[9], w[10]>>)
    THEN {[type |-> "bundle", identity |-> w[3], key_id |-> w[4], public |-> w[5],
           expires_at_unix |-> w[6], signature |-> w[7],
           one_time_prekey |-> DecodeOptional(w[8], <<w[9], w[10]>>)]}
    ELSE {}

----------------------------------------------------------------------------
(* Hybrid forms: a classical part and an ML-KEM part, each behind its      *)
(* length; the bundle adds a signature over both.                          *)

HybridEncode(classical, pq) ==
    <<MEQ, VERSION, Len(classical)>> \o classical \o <<Len(pq)>> \o pq

\* The last unit of the classical part, and of the ML-KEM part.
ClassicalEnd(w) == 3 + w[3]
PqEnd(w) == ClassicalEnd(w) + 1 + w[ClassicalEnd(w) + 1]

\* Mutant of HybridFramed: units after the last field are let through.
HybridFramedTrailing(w, trailer) ==
    /\ Len(w) >= 4 /\ w[1] = MEQ /\ w[2] = VERSION
    /\ Len(w) >= ClassicalEnd(w) + 1
    /\ Len(w) >= PqEnd(w) + trailer

HybridFramed(w, trailer) ==
    /\ Len(w) >= 4 /\ w[1] = MEQ /\ w[2] = VERSION
    /\ Len(w) >= ClassicalEnd(w) + 1
    /\ Len(w) = PqEnd(w) + trailer

ClassicalPart(w) == SubSeq(w, 4, ClassicalEnd(w))
PqPart(w) == SubSeq(w, ClassicalEnd(w) + 2, PqEnd(w))

HybridMessageEncode(m) == HybridEncode(HandshakeEncode(m.classical), m.pq_ciphertext)

HybridMessageDecode(w) ==
    IF HybridFramed(w, 0) /\ Len(PqPart(w)) = PqCiphertextLen
    THEN {[type |-> "hybrid_message", classical |-> c, pq_ciphertext |-> PqPart(w)] :
              c \in HandshakeDecode(ClassicalPart(w))}
    ELSE {}

\* What the ML-KEM signature covers: the classical part, encoded anew, and the
\* public key.
binding_transcript(classical, pq_public) == <<BundleEncode(classical), pq_public>>

HybridBundleEncode(b) ==
    HybridEncode(BundleEncode(b.classical), b.pq_public) \o <<b.pq_signature>>

\* Ed25519: the only signature in circulation is the one on the encoded object.
SignatureVerifies(transcript, signature) ==
    /\ object.type = "hybrid_bundle"
    /\ signature = object.pq_signature
    /\ transcript = binding_transcript(object.classical, object.pq_public)

\* MlKem768PublicKey::from_bytes: the right length, every coefficient reduced.
Unreduced == 4
PqPublicAllowed(units) ==
    Len(units) = PqPublicLen /\ \A i \in 1..Len(units) : units[i] # Unreduced

HybridBundleDecode(w) ==
    IF HybridFramed(w, 1) /\ PqPublicAllowed(PqPart(w))
    THEN {b \in {[type |-> "hybrid_bundle", classical |-> c, pq_public |-> PqPart(w),
                  pq_signature |-> w[PqEnd(w) + 1]] : c \in BundleDecode(ClassicalPart(w))} :
              SignatureVerifies(binding_transcript(b.classical, b.pq_public), b.pq_signature)}
    ELSE {}

----------------------------------------------------------------------------
(* The objects, as their constructors leave them.                          *)

InnerFrame ==
    {f \in [type : {"frame"}, suite : SuiteIds, kind : KindIds, session_id : Nat,
            ratchet_public : Nat, previous_chain_len : Nat, message_number : Nat,
            nonce : Seq(Nat), body : Seq(Nat)] :
        Len(f.nonce) = nonce_len(f.suite) /\ Len(f.body) \in AEAD_TAG_LEN..MAX_CIPHERTEXT_LEN}

InitiatorHandshake ==
    {m \in [type : {"message"}, identity : {BoundIdentity}, ephemeral : Nat, ratchet : Nat,
            signed_prekey_id : Nat, one_time_prekey_id : Seq(Nat)] :
        Len(m.one_time_prekey_id) \in {0, 1}}

ResponderPrekeyBundle ==
    {b \in [type : {"bundle"}, identity : {BoundIdentity}, key_id : Nat, public : Nat,
            expires_at_unix : Nat, signature : Nat, one_time_prekey : Seq(Nat)] :
        Len(b.one_time_prekey) \in {0, 2}}

HybridInitiatorHandshake ==
    {m \in [type : {"hybrid_message"}, classical : InitiatorHandshake, pq_ciphertext : Seq(Nat)] :
        Len(m.pq_ciphertext) = PqCiphertextLen}

HybridResponderPrekeyBundle ==
    {b \in [type : {"hybrid_bundle"}, classical : ResponderPrekeyBundle, pq_public : Seq(Nat),
            pq_signature : Nat] :
        PqPublicAllowed(b.pq_public)}

ASSUME ObjectsAssumption ==
    Objects \subseteq InnerFrame \cup InitiatorHandshake \cup ResponderPrekeyBundle
                       \cup HybridInitiatorHandshake \cup HybridResponderPrekeyBundle

----------------------------------------------------------------------------
(* One object on its way to every decoder.                                 *)

Encode(o) ==
    CASE o.type = "frame" -> FrameEncode(o)
      [] o.type = "message" -> HandshakeEncode(o)
      [] o.type = "bundle" -> BundleEncode(o)
      [] o.type = "hybrid_message" -> HybridMessageEncode(o)
      [] o.type = "hybrid_bundle" -> HybridBundleEncode(o)

Decodings(w) ==
    FrameDecode(w) \cup HandshakeDecode(w) \cup BundleDecode(w)
        \cup HybridMessageDecode(w) \cup HybridBundleDecode(w)

Init ==
    /\ object \in Objects
    /\ wire = Encode(object)
    /\ edits = 0

Altered(w) ==
    /\ edits < MaxEdits
    /\ edits' = edits + 1
    /\ wire' = w
    /\ UNCHANGED object

ReplaceUnit == \E i \in 1..Len(wire), unit \in Units : Altered([wire EXCEPT ![i] = unit])

CutLast == wire # << >> /\ Altered(Front(wire))

AppendUnit == \E unit \in Units : Altered(Append(wire, unit))

Next == ReplaceUnit \/ CutLast \/ AppendUnit

Spec == Init /\ [][Next]_vars

----------------------------------------------------------------------------
(* Properties.                                                             *)

\* What any encoder emits decodes, for every suite and at both ends of the
\* allowed body length, to the object it came from and to no other object of
\* any format, although the two hybrid forms share their magic.
RoundTrip == edits = 0 => Decodings(wire) = {object}

\* Encodings are canonical: whatever arrives, an accepted wire is exactly the
\* encoding of what it decodes to, so that a transcript or associated data
\* computed from the decoded object covers every unit that was received; a
\* frame followed by padding is exactly the units decode_prefix consumes.
OneEncoding ==
    /\ \A o \in Decodings(wire) : Encode(o) = wire
    /\ \A p \in FrameDecodePrefix(wire) :
         FrameEncode(p.frame) = SubSeq(wire, 1, p.consumed)

\* A hybrid bundle that decodes is, unit for unit, the one its responder
\* signed, one-time prekey included, although the signature is checked against
\* a fresh encoding of the decoded bundle and never against received bytes.
HybridBundleIntact == HybridBundleDecode(wire) # {} => wire = HybridBundleEncode(object)

=============================================================================
