----------------------------- MODULE Handshake -----------------------------
(***************************************************************************)
(* The asynchronous prekey handshake (src/handshake.rs, src/keys/prekey.rs *)
(* and src/keys/dh.rs): one responder publishes bundles, rotates and       *)
(* retires signed prekeys and consumes one-time prekeys; initiators start  *)
(* sessions from bundles fetched at any earlier time; initial messages are *)
(* lost, delayed, duplicated and damaged.                                  *)
(*                                                                         *)
(* A key pair is a number: 0 is the responder's X25519 identity, an        *)
(* initiator's number is its own, the others are drawn fresh.  A DH output *)
(* is the set of both keys; a session identifier is the message it hashes; *)
(* a root secret is the DH outputs mixed under that identifier.            *)
(***************************************************************************)
EXTENDS Integers, FiniteSets, SequencesExt

CONSTANTS
    Initiators,         \* initiators, named by their identity keys
    SignedIds,          \* signed-prekey identifiers the host uses
    OneTimeIds,         \* one-time-prekey identifiers the host uses
    Expiries,           \* expiry timestamps of signed prekeys
    FreshIds,           \* whether the host never uses an identifier twice
    MaxNow,             \* bound: last instant of the clock
    MaxInitiations,     \* bound: handshakes initiated
    MaxSessions         \* bound: handshakes accepted

ASSUME HandshakeAssumption ==
    /\ Initiators \subseteq Nat \ {0} /\ IsFiniteSet(Initiators) /\ Initiators # {}
    /\ Expiries \subseteq Nat /\ Expiries # {}
    /\ SignedIds \subseteq Nat /\ SignedIds # {} /\ OneTimeIds \subseteq Nat
    /\ FreshIds \in BOOLEAN

VARIABLES
    now,        \* wall clock, Unix seconds
    next_key,   \* the next fresh key pair
    material,   \* ResponderPrekeyMaterial
    usedIds,    \* identifiers ever used: signed and one-time
    deleted,    \* signed prekeys deleted by retire_signed_prekey
    bundles,    \* every bundle ever published
    initiated,  \* the initiators' sessions, one per message sent
    sessions    \* the sessions the responder accepted, in order

vars == <<now, next_key, material, usedIds, deleted, bundles, initiated, sessions>>

ResponderIdentity == 0
NoKey == -1         \* no one-time prekey
Garbled == -2       \* a public key altered in transit: nobody holds its secret
LowOrder == -3      \* a public key X25519 refuses as non-contributory

diffie_hellman(x, y) == {x, y}

\* Mutant of Contributory: the all-zero DH output is let through.
AnyPublic(public) == TRUE

Contributory(public) == public # LowOrder

----------------------------------------------------------------------------
(* Responder prekeys.                                                      *)

\* A signed record and its key pair; a one-time prekey.
SignedPrekey(id, key, expires) == [key_id |-> id, public |-> key, expires_at_unix |-> expires]
OneTimePrekey(id, key) == [id |-> id, public |-> key]

Init ==
    /\ now = 0
    /\ next_key = Cardinality(Initiators) + 1
    /\ \E id \in SignedIds, expires \in Expiries :
         /\ material = [signed |-> SignedPrekey(id, next_key, expires),
                        retired |-> << >>, one_time |-> << >>]
         /\ usedIds = [signed |-> {id}, one_time |-> {}]
    /\ deleted = {}
    /\ bundles = {}
    /\ initiated = {}
    /\ sessions = << >>

\* bundle() offers the first one-time prekey and keeps it.
Bundle ==
    [signed |-> material.signed, authentic |-> TRUE,
     one_time |-> IF material.one_time = << >> THEN OneTimePrekey(NoKey, NoKey)
                  ELSE Head(material.one_time)]

Publish ==
    /\ bundles' = bundles \cup {Bundle}
    /\ UNCHANGED <<now, next_key, material, usedIds, deleted, initiated, sessions>>

HoldsOneTime(id) == \E i \in 1..Len(material.one_time) : material.one_time[i].id = id

AddOneTimePrekey(id) ==
    /\ ~HoldsOneTime(id)
    /\ FreshIds => id \notin usedIds.one_time
    /\ next_key' = next_key + 1
    /\ material' = [material EXCEPT !.one_time = Append(@, OneTimePrekey(id, next_key + 1))]
    /\ usedIds' = [usedIds EXCEPT !.one_time = @ \cup {id}]
    /\ UNCHANGED <<now, deleted, bundles, initiated, sessions>>

HoldsSigned(id) ==
    \/ material.signed.key_id = id
    \/ \E i \in 1..Len(material.retired) : material.retired[i].key_id = id

\* Mutant of AfterSignedRotation: the old key pair is dropped at once.
AfterSignedRotationDropped(m, record) == [m EXCEPT !.signed = record]

AfterSignedRotation(m, record) ==
    [m EXCEPT !.retired = Append(@, m.signed), !.signed = record]

RotateSignedPrekey(id, expires) ==
    /\ ~HoldsSigned(id)
    /\ FreshIds => id \notin usedIds.signed
    /\ next_key' = next_key + 1
    /\ material' = AfterSignedRotation(material, SignedPrekey(id, next_key + 1, expires))
    /\ usedIds' = [usedIds EXCEPT !.signed = @ \cup {id}]
    /\ UNCHANGED <<now, deleted, bundles, initiated, sessions>>

RetireSignedPrekey(id) ==
    /\ \E i \in 1..Len(material.retired) :
         /\ material.retired[i].key_id = id
         /\ \A j \in 1..(i - 1) : material.retired[j].key_id # id
         /\ material' = [material EXCEPT !.retired = RemoveAt(@, i)]
         /\ deleted' = deleted \cup {material.retired[i].public}
    /\ UNCHANGED <<now, next_key, usedIds, bundles, initiated, sessions>>

----------------------------------------------------------------------------
(* Initiating.                                                             *)

\* A bundle as fetched: some published one, possibly with a signature that
\* does not match, or with another one-time prekey, which no signature covers.
OneTimeReplaced(b) ==
    IF b.one_time.id = NoKey THEN {}
    ELSE {[b EXCEPT !.one_time.public = key] : key \in {Garbled, LowOrder}}
FetchedBundles ==
    bundles \cup {[b EXCEPT !.authentic = FALSE] : b \in bundles}
            \cup UNION {OneTimeReplaced(b) : b \in bundles}

\* SignedPrekey::verify: expiry, then the signature.
PrekeyVerifies(record, authentic) == now <= record.expires_at_unix /\ authentic

\* ResponderPrekeyBundle::verify: identity binding and signed prekey, whose
\* two signatures one flag stands for.
Verifies(b) == PrekeyVerifies(b.signed, b.authentic)

\* derive_handshake_values: dh1 to dh3, and dh4 with a one-time prekey.
RootSecret(message, signed_prekey, one_time_prekey) ==
    [session_id |-> message,
     dh1 |-> diffie_hellman(message.identity, signed_prekey),
     dh2 |-> diffie_hellman(message.ephemeral, ResponderIdentity),
     dh3 |-> diffie_hellman(message.ephemeral, signed_prekey),
     dh4 |-> IF one_time_prekey = NoKey THEN {}
             ELSE diffie_hellman(message.ephemeral, one_time_prekey)]

\* AuthenticatedHandshake, with the prekeys it came from.
AuthenticatedHandshake(message, signed_prekey, one_time_prekey, local, remote) ==
    [session_id |-> message,
     root_secret |-> RootSecret(message, signed_prekey, one_time_prekey),
     local_ratchet |-> local, remote_ratchet |-> remote,
     signed_prekey |-> signed_prekey, one_time_prekey |-> one_time_prekey]

Initiate(identity, b) ==
    /\ Cardinality(initiated) < MaxInitiations
    /\ Verifies(b)
    /\ Contributory(b.one_time.public)
    /\ LET ephemeral == next_key + 1
           ratchet == next_key + 2
           message == [identity |-> identity, binding |-> TRUE,
                       ephemeral |-> ephemeral, ratchet |-> ratchet,
                       signed_prekey_id |-> b.signed.key_id,
                       one_time_prekey_id |-> b.one_time.id]
       IN  initiated' = initiated \cup
             {AuthenticatedHandshake(message, b.signed.public,
                  b.one_time.public, ratchet, b.signed.public)}
    /\ next_key' = next_key + 2
    /\ UNCHANGED <<now, material, usedIds, deleted, bundles, sessions>>

----------------------------------------------------------------------------
(* Accepting.                                                              *)

Messages == {s.session_id : s \in initiated}
Damaged(m) == {[m EXCEPT !.binding = FALSE], [m EXCEPT !.ephemeral = Garbled],
               [m EXCEPT !.ephemeral = LowOrder]}
Arrivals == Messages \cup UNION {Damaged(m) : m \in Messages}

\* Mutant of SignedPrekeyFor: the current key pair, whatever the identifier.
SignedPrekeyForCurrent(m, key) == HoldsSigned(m.signed_prekey_id) /\ key = material.signed.public

\* The key pair of the current record, or of the first retained one, with the
\* message's identifier.
SignedPrekeyFor(m, key) ==
    IF m.signed_prekey_id = material.signed.key_id
    THEN key = material.signed.public
    ELSE \E i \in 1..Len(material.retired) :
            /\ material.retired[i].key_id = m.signed_prekey_id
            /\ \A j \in 1..(i - 1) : material.retired[j].key_id # m.signed_prekey_id
            /\ key = material.retired[i].public

\* The position of the one-time prekey the message names, 0 if it names none.
OneTimeIndexFor(m, index) ==
    IF m.one_time_prekey_id = NoKey
    THEN index = 0
    ELSE /\ index \in 1..Len(material.one_time)
         /\ material.one_time[index].id = m.one_time_prekey_id
         /\ \A j \in 1..(index - 1) : material.one_time[j].id # m.one_time_prekey_id

OneTimeKeyAt(index) == IF index = 0 THEN NoKey ELSE material.one_time[index].public

\* Mutant of AfterAccept: the one-time prekey is kept.
AfterAcceptKept(mat, index) == mat

AfterAccept(mat, index) ==
    IF index = 0 THEN mat ELSE [mat EXCEPT !.one_time = RemoveAt(@, index)]

SignedKeys == {material.signed.public} \cup {r.public : r \in ToSet(material.retired)}

AcceptsWith(m, key, index) ==
    /\ m.binding
    /\ SignedPrekeyFor(m, key)
    /\ OneTimeIndexFor(m, index)
    /\ Contributory(m.identity) /\ Contributory(m.ephemeral)

Accepts(m) == \E key \in SignedKeys, index \in 0..Len(material.one_time) : AcceptsWith(m, key, index)

Accept(m) ==
    /\ Len(sessions) < MaxSessions
    /\ \E key \in SignedKeys, index \in 0..Len(material.one_time) :
         /\ AcceptsWith(m, key, index)
         /\ sessions' = Append(sessions,
                AuthenticatedHandshake(m, key, OneTimeKeyAt(index), key, m.ratchet))
         /\ material' = AfterAccept(material, index)
    /\ UNCHANGED <<now, next_key, usedIds, deleted, bundles, initiated>>

\* Every error path of accept leaves the material alone.
Reject(m) ==
    /\ ~Accepts(m)
    /\ UNCHANGED vars

----------------------------------------------------------------------------

Tick ==
    /\ now < MaxNow
    /\ now' = now + 1
    /\ UNCHANGED <<next_key, material, usedIds, deleted, bundles, initiated, sessions>>

Next ==
    \/ Publish
    \/ \E id \in OneTimeIds : AddOneTimePrekey(id)
    \/ \E id \in SignedIds, expires \in Expiries : RotateSignedPrekey(id, expires)
    \/ \E id \in SignedIds : RetireSignedPrekey(id)
    \/ \E identity \in Initiators, b \in FetchedBundles : Initiate(identity, b)
    \/ \E m \in Arrivals : Accept(m) \/ Reject(m)
    \/ Tick

Spec == Init /\ [][Next]_vars

----------------------------------------------------------------------------
(* Properties.                                                             *)

SignedRecord == [key_id : SignedIds, public : Nat, expires_at_unix : Expiries]
OneTimeRecord == [id : OneTimeIds, public : Nat]
NoOneTime == OneTimePrekey(NoKey, NoKey)
Message ==
    [identity : Initiators, binding : {TRUE},
     ephemeral : Nat \cup {Garbled}, ratchet : Nat,
     signed_prekey_id : SignedIds, one_time_prekey_id : OneTimeIds \cup {NoKey}]
Secret ==
    [session_id : Message, dh1 : SUBSET Int, dh2 : SUBSET Int,
     dh3 : SUBSET Int, dh4 : SUBSET Int]
Session ==
    [session_id : Message, root_secret : Secret, local_ratchet : Nat, remote_ratchet : Nat,
     signed_prekey : Nat, one_time_prekey : Nat \cup {NoKey, Garbled}]

\* The responder's material, bundles and sessions have their types; no session
\* stems from a message with an invalid binding or a low-order key.
TypeOK ==
    /\ now \in Nat /\ next_key \in Nat
    /\ material \in [signed : SignedRecord, retired : Seq(SignedRecord),
                    one_time : Seq(OneTimeRecord)]
    /\ usedIds \in [signed : SUBSET SignedIds, one_time : SUBSET OneTimeIds]
    /\ deleted \subseteq Nat
    /\ bundles \subseteq [signed : SignedRecord, authentic : {TRUE},
                         one_time : OneTimeRecord \cup {NoOneTime}]
    /\ initiated \subseteq Session
    /\ sessions \in Seq(Session)

\* Initiator and responder that hold one session identifier hold the same
\* root secret and each other's ratchet keys, however stale the bundle and
\* late the message: rotation never makes accept pick another key pair.  The
\* one-time prekey must have reached the initiator unaltered: neither the
\* signed prekey's signature nor the session identifier covers it.
Agreement ==
    \A s \in initiated : \A i \in 1..Len(sessions) :
        (s.session_id = sessions[i].session_id /\ s.one_time_prekey # Garbled)
        => /\ s.root_secret = sessions[i].root_secret
           /\ s.remote_ratchet = sessions[i].local_ratchet
           /\ s.local_ratchet = sessions[i].remote_ratchet

\* A one-time prekey enters at most one accepted session, although bundle()
\* offers it to any number of initiators and messages are duplicated.
OneTimeUsedOnce ==
    \A i, j \in 1..Len(sessions) :
        (/\ sessions[i].one_time_prekey # NoKey
         /\ sessions[i].one_time_prekey = sessions[j].one_time_prekey)
        => i = j

\* An initial message delayed past any number of rotations and rejected
\* arrivals is accepted while the host has not deleted its signed prekey and
\* no accepted message has consumed its one-time prekey.
DelayedAccepted ==
    \A s \in initiated :
        (/\ s.signed_prekey \notin deleted
         /\ s.one_time_prekey # NoKey
              => \A i \in 1..Len(sessions) :
                    sessions[i].session_id.one_time_prekey_id
                        # s.session_id.one_time_prekey_id)
        => Accepts(s.session_id)

\* A duplicated initial message, which accept takes again when it names no
\* one-time prekey, yields the session it yielded first, whatever was rotated
\* in between: a host that knows the session identifier may drop it.
DuplicateSameSession ==
    \A i, j \in 1..Len(sessions) :
        sessions[i].session_id = sessions[j].session_id => sessions[i] = sessions[j]

\* A one-time prekey is consumed only by a handshake that was initiated with
\* it.
ConsumedByMatching ==
    \A s \in initiated : \A i \in 1..Len(sessions) :
        (s.session_id = sessions[i].session_id /\ s.one_time_prekey # Garbled)
        => s.one_time_prekey = sessions[i].one_time_prekey

----------------------------------------------------------------------------
(* The inductive invariant.                                                *)

\* The one-time prekeys held are different ones, under different identifiers,
\* and none of them is in a session.
OneTimeInv ==
    LET held == material.one_time
    IN  /\ \A i \in 1..Len(held) : held[i].public <= next_key
        /\ \A i, j \in 1..Len(held) :
             (held[i].public = held[j].public \/ held[i].id = held[j].id) => i = j
        /\ \A i \in 1..Len(sessions) :
             /\ sessions[i].one_time_prekey <= next_key
             /\ \A j \in 1..Len(held) : sessions[i].one_time_prekey # held[j].public

\* The responder holds the signed prekey id with this key pair.
HeldSigned(id, key) ==
    \/ material.signed.key_id = id /\ material.signed.public = key
    \/ \E i \in 1..Len(material.retired) :
         material.retired[i].key_id = id /\ material.retired[i].public = key

Consumed(id) == \E i \in 1..Len(sessions) : sessions[i].session_id.one_time_prekey_id = id

\* Signed prekeys are held under different identifiers; whatever a bundle or a
\* message refers to is held, deleted by the host or consumed.
HeldInv ==
    LET retired == material.retired
    IN  /\ \A i \in 1..Len(retired) : retired[i].key_id # material.signed.key_id
        /\ \A i, j \in 1..Len(retired) : retired[i].key_id = retired[j].key_id => i = j
        /\ \A b \in bundles :
             /\ HeldSigned(b.signed.key_id, b.signed.public) \/ b.signed.public \in deleted
             /\ \/ b.one_time.id = NoKey
                \/ HoldsOneTime(b.one_time.id)
                \/ Consumed(b.one_time.id)
        /\ \A s \in initiated :
             /\ \/ HeldSigned(s.session_id.signed_prekey_id, s.signed_prekey)
                \/ s.signed_prekey \in deleted
             /\ \/ s.session_id.one_time_prekey_id = NoKey
                \/ HoldsOneTime(s.session_id.one_time_prekey_id)
                \/ Consumed(s.session_id.one_time_prekey_id)

\* A session is what its message and its two prekeys make of it.
SessionsInv ==
    /\ \A s \in initiated :
         /\ s = AuthenticatedHandshake(s.session_id, s.signed_prekey, s.one_time_prekey,
                                      s.session_id.ratchet, s.signed_prekey)
         /\ s.one_time_prekey = NoKey <=> s.session_id.one_time_prekey_id = NoKey
    /\ \A i \in 1..Len(sessions) :
         LET s == sessions[i]
         IN  s = AuthenticatedHandshake(s.session_id, s.signed_prekey, s.one_time_prekey,
                                        s.signed_prekey, s.session_id.ratchet)

\* Identifiers with the key pairs they stand for, wherever one is held or
\* referred to; an altered one-time prekey is none of the responder's.
SignedNames ==
    {<<material.signed.key_id, material.signed.public>>}
    \cup {<<material.retired[i].key_id, material.retired[i].public>> :
            i \in 1..Len(material.retired)}
    \cup {<<b.signed.key_id, b.signed.public>> : b \in bundles}
    \cup {<<s.session_id.signed_prekey_id, s.signed_prekey>> : s \in initiated}
    \cup {<<sessions[i].session_id.signed_prekey_id, sessions[i].signed_prekey>> :
            i \in 1..Len(sessions)}

OneTimeNames ==
    {<<material.one_time[i].id, material.one_time[i].public>> :
        i \in 1..Len(material.one_time)}
    \cup {<<b.one_time.id, b.one_time.public>> : b \in bundles}
    \cup {<<s.session_id.one_time_prekey_id, s.one_time_prekey>> :
            s \in {t \in initiated : t.one_time_prekey # Garbled}}
    \cup {<<sessions[i].session_id.one_time_prekey_id, sessions[i].one_time_prekey>> :
            i \in 1..Len(sessions)}

\* Where no identifier is used twice, it names one key pair for good.
NamesInv ==
    FreshIds =>
        /\ \A x, y \in SignedNames : x[1] \in usedIds.signed /\ (x[1] = y[1] => x = y)
        /\ \A x \in OneTimeNames :
             x[1] \in usedIds.one_time \/ x = <<NoKey, NoKey>>
        /\ \A x, y \in OneTimeNames : x[1] = y[1] => x = y

\* Every operation of responder and initiators preserves this, and it implies
\* the safety invariants.
HandshakeInv ==
    TypeOK /\ OneTimeInv /\ OneTimeUsedOnce /\ HeldInv /\ SessionsInv /\ NamesInv

============================================================================
