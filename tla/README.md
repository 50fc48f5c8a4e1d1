# MEF-26 in TLA+

A verification project for the MEF-26 core: a library for 1:1 end-to-end
encrypted messaging with an asynchronous prekey handshake, a Double Ratchet,
encrypted ratchet snapshots and delivery envelopes with a replay cache. Modules
are translated from the Rust source under `src/src/`; `PROJECT.json` maps each
definition to the lines it stands for.

## 1. Inventory

The library is sequential and owns no threads or sockets. What is hard about it
is what happens *between* its calls: two endpoints interleave their calls over a
network that loses, duplicates, reorders and damages what they send; hosts
crash between a call and storing its result; clocks and identifiers are handed
in by the host; counters, stores and caches have limits.

| Component (source) | State | Operations | What makes it correct |
|---|---|---|---|
| ratchet (`ratchet/state.rs`, `schedule.rs`) | root, sending and receiving chain, own DH pair, remote DH key, three counters, generation, skipped keys | construct from a handshake, `encrypt`, `decrypt` (same ratchet, new ratchet, skipped), `rotate_sending_ratchet` | a frame is delivered at most once and only to the peer; no message key seals two frames; skipped frames stay openable; the ends stay in step; the store is bounded and free of duplicates |
| persistence (`ratchet/persistence.rs`) | sealed records (version, generation, context, state), the host's rollback floor | `seal_state`, `restore_state` | every reachable state can be sealed and restored; only the last commit passes the floor; a crash repeats neither a key nor a plaintext |
| envelope (`envelope/outer.rs`, `capability.rs`) | none; identifiers, expiry and sealed frame travel in the envelope | `seal`, `encode`/`decode`, `open`, `open_inner`, `open_inner_once` | what is sealed decodes; expired, foreign, damaged and wrongly padded envelopes are refused without side effect |
| replay cache (`envelope/replay.rs`) | bounded list of (identifier, expiry) | `check_and_insert` | an identifier is accepted once although it is forgotten on expiry; only live accepted envelopes occupy the cache |
| handshake (`handshake.rs`, `keys/prekey.rs`, `keys/dh.rs`) | the responder's identity, current and retired signed prekeys, one-time prekeys | `generate`, `bundle`, `add_one_time_prekey`, `rotate_signed_prekey`, `retire_signed_prekey`, `initiate`, `accept` | both ends of a session id hold one root and each other's ratchet keys; a one-time prekey is used once; delayed messages survive rotation |
| hybrid handshake, ML-KEM (`hybrid.rs`, `pq.rs`) | classical material and one ML-KEM key pair | `generate`, `bundle`, `add_one_time_prekey`, `initiate`, `accept` | an accepted hybrid bundle is the one that was signed; ends that hold one hybrid session id hold one root; a message that arrives unaltered leads to a shared session |
| frame (`frame/`) | none | `seal`, `open`, `encode`, `decode`, `decode_prefix` | the header is bound to the body; the encoding is canonical |
| crypto (`crypto/`) | none | AEAD, HKDF, BLAKE3, CSPRNG wrappers | idealised here |
| bindings (`crates/`, `packages/`) | none | metadata constants | not modelled |

Interaction is by value: `accept`/`initiate` produce an `AuthenticatedHandshake`
that a `RatchetState` consumes; the ratchet produces `InnerFrame`s that an
`OuterEnvelope` carries; `open_inner_once` hands a frame back to `decrypt` after
recording its identifier in the `ReplayCache`; the host seals the ratchet with
each outbound frame or accepted inbound one (repository README, integration
steps 1 to 6).

The hazards, each at its line and with the properties that would catch it, are
listed in `PROJECT.json`.

## 2. Modules

| Module | Models | Composes |
|---|---|---|
| `Ratchet` | both endpoints of a session and the network | |
| `SecureChannel` | abstract specification: each message received at most once, and only from another endpoint | |
| `RatchetInvariant` | inductive invariants; refinement mapping to `SecureChannel` | `Ratchet`, `SecureChannel` |
| `RatchetProofs` | TLAPS proofs: safety of the ratchet, refinement | `RatchetInvariant` |
| `SyncProofs` | TLAPS proofs: the two ends stay in step | `RatchetProofs` |
| `PersistentSession` | sessions with commits, crashes and restores | `Ratchet` |
| `SessionView` | the session that would go on if some endpoints committed now and the others crashed, a state of `Ratchet`; TLAPS proofs about it | `PersistentSession`, `SyncProofs` |
| `PersistProofs` | TLAPS proofs: what storage hands back, and what survives crashes | `RatchetProofs`, four instances of `SessionView` |
| `Envelope`, `EnvelopeProofs` | envelopes, replay cache, clock; TLAPS proofs | |
| `Delivery`, `DeliveryProofs` | a message's way from `encrypt` through envelope and replay cache to `decrypt`, with restarts; TLAPS proofs | `RatchetInvariant`, `Envelope`; `SyncProofs` |
| `Handshake`, `HandshakeProofs` | responder, initiators, directory, delayed messages; TLAPS proofs of both profiles | ; `Hybrid` |
| `Hybrid` | the ML-KEM profile, next to the classical one; TLAPS proofs in `HandshakeProofs` | `Handshake` |
| `Wire`, `WireProofs` | encoders and decoders of frames, bundles, initial messages and their hybrid forms; TLAPS proofs | |
| `MC*` | the modules TLC runs, with the constants of the `.cfg` files | |

### Ratchet

Secrets are symbolic terms: a DH key is `<<owner, n>>`, a DH output the set of
the two keys, a root the sequence of DH outputs mixed into the handshake root, a
chain key a label, a root and a position. Equal terms are equal secrets and HKDF
never collides. A frame is its header, the key that seals it and a flag `intact`
that an altered byte clears; `Opens` is the AEAD check. `net` keeps every frame
ever emitted, so an arrival may be a first delivery, a duplicate or a reflection,
in any order; not arriving is loss. Damaged and misrouted copies arrive too.

Each public method is an action; `decrypt` is four: the three successful paths
and `DecryptRejected`, which covers every early return up to and including the
AEAD check, all of which precede the first assignment. `encrypt` on an exhausted
counter is an action of its own, because the chain is replaced before the
counter is checked. `AfterSameRatchet` and `AfterNewRatchet` keep the same
half-updated outcome on the receiving side; no frame of an honest peer reaches
it, which is what `HeaderNumbersKey` establishes. `generated[e]` numbers the key
pairs an endpoint draws; `delivered` and `returned` are history.

### PersistentSession

Extends `Ratchet` with what the host does. Operations change `ratchet[e]` in
memory; frames and plaintexts wait in `pending[e]`. `Commit` seals a record,
advances the floor and releases what waits, in one atomic step: this is the
discipline the documentation of `seal_state` and `restore_state` demands, and it
is an assumption, marked external. A crash at any moment discards memory and
what waits. Restoring offers `restore_state` any record either endpoint ever
stored. The generation is in the clear header and everything else inside the
AEAD, as in the code; version 1 records carry no suite. `DamagedStorageSpec` adds
storage that alters the generation of a record, the one header field neither the
lengths nor the AEAD pin down. `MCPersistentSession` restricts the initial
states: both ends run one suite, and the initiator's record is of version 1
where its suite allows it.

### Envelope

`now` is the recipient's clock. Envelopes carry lengths in small units so that
the limits are met. `Accept`, `RefuseReplay`, `RefuseFull` and `RejectUnopened`
are the four outcomes of `open_inner_once`; the first three have purged the cache
before they return, as `check_and_insert` does. `AdjustedClockSpec` adds a clock
that is set back.

### Delivery

Extends the ratchet with the envelope path and instantiates `Envelope` once for
each recipient (`Env(e)`), over the clock and the set of envelopes both share.
An envelope is the outer record of `Envelope` and the frame inside. Sending is
`EncryptMessage`, which moves the ratchet whatever becomes of the frame, and
`SealFrame`, which needs room for the frame and its padding and may be repeated,
with a new identifier each time. `PayloadFits` is the AEAD's limit on the
plaintext: it leaves no room for header and nonce, so some frames can be
encrypted and never sealed. Receiving is `OpenEnvelope` (or `OpenRefused`,
`OpenFails`) and, some steps later, `DecryptOpened`. A restart keeps the ratchet, as a
host that persists it does, and loses the cache, which the crate gives no means
to store, and the frames opened but not yet decrypted. `limited` is history: the
identifiers whose frame `decrypt` refused only for the skipped-key limit.

### Handshake

Key pairs are numbers drawn in order; identifiers are chosen by the host.
`bundles` keeps all bundles ever published, so an initiator may use a stale one;
`initiated` keeps all messages, so they arrive late, repeatedly or never.
Damaged ones have a broken identity binding or another ephemeral key, garbled
(accepted: nothing in the message authenticates it, and the session is useless)
or of low order (refused). The directory may also hand out a bundle whose
signatures do not verify or whose one-time prekey was replaced: no signature
covers that prekey, and the session identifier, a hash of the message, names it
only by identifier. `Agreement` is therefore stated for initiators whose one-time
prekey was unaltered. `FreshIds` states whether the host never uses an
identifier twice.

### Hybrid

The responder runs one of two profiles, chosen at the start. The hybrid one has
only the operations `HybridResponderPrekeyMaterial` offers: it cannot rotate its
signed prekey. A shared secret is named by key pair and ciphertext; decapsulating
a ciphertext that is damaged or made for another key gives another secret and no
error, as ML-KEM does. Fetched bundles combine the parts of different ones;
arriving messages pair any classical part with any ciphertext. Unlike the
classical profile the hybrid signature covers the one-time prekey, which is why
`HybridAgreement` needs no such condition as `Agreement` does.

### Wire

Encoders and decoders are pure operators. A wire is a sequence of units, one per
field, nonce half or body block; lengths count units, identity records are one
unit. The state machine encodes one object and lets the transport alter it by up
to `MaxEdits` replaced, cut or appended units; the invariants ask every decoder
about every wire reached. A decoder returns a set: the object, or nothing where
the code returns an error. The signature on a hybrid bundle verifies for the one
transcript it was made on, computed as in the code from the *decoded* bundle.
`Objects` is what TLC encodes; `InnerFrame`, `InitiatorHandshake`,
`ResponderPrekeyBundle` and the two hybrid sets say what any object of the program
is, whether a constructor made it or a decoder.

## 3. Runs

| Run | Bounds | Shows |
|---|---|---|
| `ratchet_safety` | 2 suites, 2 skipped keys, counters to 3, generation to 4, 4 frames, 2 rotations | all safety invariants, the inductive invariants `RatchetInv` and `SyncInv`, and that the ratchet implements `SecureChannel` |
| `ratchet_progress` | counters to 3, 5 frames, 1 rotation, fair delivery | `InSync`: what is sent next opens at the peer; `LossTolerated`: it is accepted while the frames outstanding fit the skipped-key store; `EventuallyDelivered` |
| `ratchet_two_rotations` | 2 rotations | *violated*: a second rotation before an answer desynchronises the session; with one it cannot happen (`StaysInSync`) |
| `ratchet_old_skipped` | 1 rotation | *violated*: keys retained from a previous chain never open anything |
| `envelope_safety` | 2 recipients, capacity 2, 3 envelopes, expiries 1 and 2, clock 0 to 3, lengths around the limit, other padding | one acceptance per identifier, bounded cache, no crowding out, sealed envelopes decode |
| `envelope_clock_back` | clock may go back | *violated*: an identifier is accepted twice |
| `handshake_safety` | both profiles, 1 initiator, 2 signed and 2 one-time identifiers, 2 initiations, 2 sessions | agreement, single use of one-time prekeys, duplicates that repeat their session, delayed acceptance; in the hybrid profile agreement and a shared session from every unaltered message; the inductive invariants |
| `handshake_id_reuse` | 1 identifier, used again | *violated*: a prekey consumed by a handshake made with its predecessor |
| `persist_safety` | 2 suites, versions 1 and 2, 3 frames, 1 rotation, 1 crash, 2 skipped keys | restore yields the last commit only; nothing repeated; ends in step; upgrade and suite survive; the inductive invariant `StorageInv` |
| `persist_damaged` | 2 frames, 1 crash, any generation in the header | *violated*: an older state is restored under a raised generation |
| `delivery` | 1 skipped key, 3 frames of 3 lengths, 1 rotation, 2 envelopes, 1 restart, an expiry, fair delivery | the composition is still `SecureChannel`; only the skipped-key limit strands a frame; losses within the limit are tolerated; every sealed frame is eventually returned; the inductive invariant `CacheInv` |
| `wire_canonical` | 20 objects of the five formats, both nonce lengths, smallest and largest body, 2 alterations | round trip, one encoding per value, hybrid bundles intact |

The runs check the inductive invariants the proofs use. The type invariant of a
module is a conjunct of its inductive invariant and not listed besides.

Deadlock checking stays on in the runs that pass, except `wire_canonical`, whose
wires stop changing after the last alteration: a refused call is a step, so
there is always one.

**Why the bounds suffice.** Four frames and two rotations let both ends send, a
chain be overtaken, the ratchet turn in both directions and again with keys
still retained; two skipped keys make both stages of the two-stage limit bite;
a counter limit of 3 is reached within four frames, so exhaustion and its aftermath
happen; the generation limit of 4 makes it saturate. Two cache places and three
envelopes with two expiries give a full cache, partial purges and duplicates on
both sides of each expiry. Two initiations suffice for two handshakes
made with the same one-time prekey, two signed identifiers for one rotation
between bundle and message. In the `delivery` run one payload fits frame and
envelope, one only the frame, one neither; two envelopes are enough for one frame
sealed twice, two frames overtaking each other, and an envelope opened again
after a restart. In the persistence runs the generation limit lies
above what the frames and rotations can reach: at `u64::MAX` the floor stops
telling snapshots apart, which no session lives to see. What holds even then is
proved. Two alterations of a wire suffice
to change a length field and the units it counts, or to strip a flag and leave
its record behind. The properties marked as
theorems below hold without any of these bounds.

**Fairness.** Two runs assume any. In `ratchet_progress` each emitted frame, named
by sender, ratchet key and number, is delivered if the receiver would accept it
continuously; in `delivery` each envelope is offered until it expires and a host
decrypts what it has opened. That is a transport that retries, which the library
leaves to its host; nothing is assumed of `encrypt`, sealing, rotation, the clock
or restarts. The properties allow for the losses the code cannot avoid: the
receiver has moved on to a newer ratchet key, the envelope has expired, or the
skipped-key limit refused the frame after its identifier was recorded.

## 4. Findings

`PROJECT.json` quotes the line each one contradicts.

1. Two rotations without an answer in between leave the endpoints with
   different roots (`rotate_sending_ratchet`). Two is the smallest number: the
   theorem `StaysInSync` covers every behaviour with at most one.
2. Keys skipped in a previous chain are stored but never looked up, and stay in
   the bounded store (`decrypt`'s dispatch).
3. A clock that goes back lets an identifier be accepted twice.
4. The generation of a snapshot is not authenticated: with that field altered in
   storage an older snapshot passes the rollback floor (`state_aad`).
5. A one-time identifier used again matches a delayed handshake made with the
   old prekey.

Met while modelling, without a run of their own:

- Expiry of envelopes and signed prekeys is inclusive (`outer.rs:80`,
  `prekey.rs:50`) and documented as exclusive (`outer.rs:158`, `prekey.rs:68`).
- `replay.rs:12` asks hosts to persist the replay cache; the crate offers no
  means to. The `delivery` run shows what is at stake: without it envelopes open
  again after a restart and the ratchet still refuses their frames. A cache that
  was kept while frames opened under it were lost would strand those frames (the
  mutant of `EventuallyReturned`), so a host that persists the cache has to
  persist them too.
- A frame of the largest payload `encrypt` takes fits no envelope; its number is
  used up and its receiver has to skip it.

## 5. Proofs

Eight modules hold theorems or lemmas, checked by TLAPS to the last leaf for all values of
the constants. What is assumed of these is weak: the limits and the frame bound are naturals
(`LimitsAssumption`); a tag fits a body and the cache has a place
(`EnvelopeAssumption`); there is an initiator, an expiry and a signed identifier
(`HandshakeAssumption`); the objects encoded are such as the constructors leave
(`ObjectsAssumption`); the default suite is a suite and records are of version
1 or 2 (`PersistenceAssumption`). TLC evaluates them in every run.

**Ratchet** (`RatchetProofs`). The safety invariants are not inductive by
themselves. That a delivered frame is refused depends on what decrypting it
*again* would derive: on the new-ratchet path the key belongs to a root one step
longer than the receiver's. `RatchetInv` therefore records, besides types:

- `KeysInv`: each endpoint uses a key pair of its own, and roots contain only keys
  that exist, so a fresh key makes a fresh root;
- `CountInv`, `FrameInv`: chain position and counter agree until exhaustion, and
  so do header number and key index;
- `ChainInv`, `SendingInv`: ratchet key and chain determine each other, among
  frames and against the chains in use;
- `SkippedInv`, `DeliveredInv`: every ratchet key an endpoint has received on is
  `Passed`: its frames hang off roots no longer than the endpoint's own, so they
  cannot start a new ratchet; retained numbers lie below the counter; a
  delivered frame has no retained entry.

Each operation preserves it; from it follow `TypeOK`, `SkippedBounded`,
`SkippedUnique`, `OnlyPeerFrames`, `HeaderNumbersKey`, `KeyUsedOnce`,
`DeliveredAtMostOnce`, and the step simulation of `SecureChannel`.

**Staying in step** (`SyncProofs`). `SyncInv` is inductive together with
`RatchetInv`:

- `ReceivingInv`: the receiving chain is the one the peer seals with under the
  remote key, and each number below the counter was returned or is retained with
  its key. This alone gives `NothingLostInChain`, for any number of rotations.
- `EmittedInv`: chains are emitted without gaps.
- `RootsInv`: before the first explicit rotation both ends share a root; from then
  on one of them `Leads`: its root is the peer's with one DH output more, made
  against the key the peer still uses, and its `previous_sending_chain_len` is the
  length of the chain the peer still receives on. Receiving on the new
  ratchet hands the lead over. Nothing comparable survives a second rotation
  (finding 1), which is why `StaysInSync` and `LossIsTolerated` are stated for
  `rotations <= 1`: that is the property itself, not a bound.
- `StoreInv`: a retained key waits for an emitted frame. For `LossTolerated` the
  frames that the keys to be stored stand for, in both chains a new ratchet spans,
  are then mapped injectively to outstanding ones, of which there are at most
  `MAX_SKIPPED_KEYS`.

**Envelope** (`EnvelopeProofs`). `EnvelopeInv` says that an identifier names one
envelope and that every accepted identifier is in the cache until its envelope
has expired. The proof of `AcceptedOnce` is then the agreement of two comparisons,
`now <= expiry` in `open` and `expiry >= now` in `check_and_insert`;
`FreshAccepted` maps cache entries injectively to live accepted envelopes.

**Delivery** (`DeliveryProofs`). The composition implements the ratchet
specification (`DeliveryImplementsRatchet`): whatever envelopes, caches, clocks and
restarts do, a step either leaves both ratchets alone or is a step of `Ratchet`.
The invariant needed is `HeldEmitted`: every frame in an envelope or in a host's
hands was emitted by a ratchet, so that decrypting it is the `Decrypt` of a frame
from the network. So the composition implements `SecureChannel`
(`DeliveryIsChannel`) and tolerates losses (`DeliveryToleratesLoss`). The replay
cache is no part of these arguments: at most once is the ratchet's promise, and
the cache only spares it work. It matters for `NothingElseStranded`: a frame whose
identifier is recorded and which its host no longer holds is one that can still
be opened only if the skipped-key limit refused it. `CacheInv` states this, and it
is inductive (`CacheInvariance`) because a refusal for any other reason is for good: a receiver's root
changes only by mixing in a key pair just drawn, which no emitted frame knows, and
in a chain its counter only grows.

**Handshake** (`HandshakeProofs`). `HandshakeInv` says that

- the one-time prekeys held are distinct and in no session (`OneTimeInv`), which
  gives `OneTimeUsedOnce`;
- what a bundle or message refers to is held, retired, deleted or consumed
  (`HeldInv`), which gives `DelayedAccepted`;
- a session is what its message and its two prekeys make of it (`SessionsInv`);
- an identifier names one key pair for good, if the host uses none twice
  (`NamesInv`), from which both ends of a session identifier have used the same
  prekeys: `Agreement`, `DuplicateSameSession` and `ConsumedByMatching`. These
  three theorems, and `HybridAgreement`, assume `FreshIds`; finding 5 is what
  happens without. The others do not.

**Hybrid** (`HandshakeProofs`). Every step of either profile is a step of
`Handshake` (`ProfilesImplementHandshake`), so its theorems hold in both.
`HybridInv` adds that each hybrid session is its classical one mixed with what the
responder's own ML-KEM key makes of the ciphertext, on both sides.

**Persistence** (`PersistProofs`, `SessionView`). `StorageInv` has two parts.
`RecordsInv` says that each record an endpoint stored is no newer than its floor,
and that one with the floor's generation, like a memory with it, holds the state of the last commit. Every
operation that changes the state raises the generation, with one exception:
`encrypt` on an exhausted counter replaces the sending chain and then fails.
`SameSessionState` is equality up to the position of that chain at an exhausted
counter, an equivalence that every operation respects. A record of the other
endpoint fails the AAD, and `decode_state` returns what was sealed. At `GEN_MAX` the
generation saturates and snapshots can no longer be told apart: `FloorPinsCommit`
and the theorems about views below carry the hypothesis `NotSaturated`. It is needed:
with `GEN_MAX = 1` in `persist_safety.cfg` TLC refutes each of the invariants
concerned.

`EverySnapshotRestores` (`SnapshotRestores`) needs no such hypothesis: no legal use
leads to a state that cannot be sealed or read back, even after an older snapshot
came back. The danger is a second entry for one (key, number) in the skipped-key
store, which `decode_state` refuses: a frame that starts a new ratchet under a key
the store already remembers. The second part of the invariant, `SnapshotsInv`, excludes
it for every state in memory, committed or recorded, and every frame released or
waiting:

- `KeyUsesInv`: key pairs are never drawn twice, not even by an endpoint put back to
  an older state, so a ratchet key names one root for good;
- `Storable`: within the limit, entries distinct and, under the current key, below
  the counter; and each key received under is `Behind`: what is sealed under it hangs
  off roots no longer than the state's own, while a frame that starts a new ratchet
  hangs off a longer one.

What crashes do to a session cannot be read off one state of `Ratchet`: the memory
of an endpoint may be lost, what its last commit released may not. `SessionView`
takes a set `Keep` of endpoints and looks at the session that would go on if those
in `Keep` committed now and the others crashed: the memories of the former, the
last commits of the latter, and the frames and plaintexts then released. That is
a state of `Ratchet`, and in it

- an operation of a kept endpoint is a step of `Ratchet`, or none;
- an operation of another endpoint shows only in the key pairs it draws and the
  rotations it counts, and restoring the last commit only moves an exhausted
  chain: `Drift`, which `RatchetInv` and `SyncInv` survive (`DriftRatchet`,
  `DriftSync`);
- the commit of a kept endpoint and the crash of another change nothing.

The other commits and crashes contradict the assumption of the view. They are why
one view is not enough and four are: `PersistProofs` instantiates `SessionView` for
no endpoint, either and both. After `e` commits or crashes its memory equals its
commit (`Settled`), so the views with and without `e` coincide (`SettledSound`),
and the one that the step contradicted takes its soundness from the other.
`SessionInv` says that, below saturation, all four views satisfy `RatchetInv` and
`SyncInv` and that what waits for a commit is new (`BookInv`); it is inductive
(`SessionInvariance`). The view that keeps both then yields `ReleasedOnce`
(`FrameReleasedOnce`), `ReturnedOnce` (`PlaintextReturnedOnce`) and, with at most one rotation for the
reason given above, `InSyncThroughCrashes` (`InSyncAcrossCrashes`). A rotation that
a crash undoes still counts as one; `RootsInv` allows for it.

Two invariants of the ratchet are stated with this in mind: an endpoint's key pair
need not be the newest it drew, and one rotation may have left no trace.

**Wire** (`WireProofs`). What is assumed of an object is what its constructor has
checked, and no more: the nonce length of the suite and the body limits of
`Ciphertext::from_parts`, a bound identity, at most one one-time record, the sizes
of an ML-KEM key and ciphertext, and that a public key is reduced. Field values,
suites, lengths, the number of alterations and what they put in are arbitrary. The
decoders read fields at positions computed from lengths found earlier in the
wire, so the two directions are separate arguments:

- *what decodes is canonical* (`FrameCanonical` and its like for the other
  formats): by the checks of the decoder the wire is the concatenation the encoder
  writes, length field and flag included; the hybrid formats use the fact for
  the classical part they hold. This is `AcceptedIsCanonical` (`OneEncoding`), and
  with the signature, which is checked against a fresh encoding,
  `SignedBundleIntact` (`HybridBundleIntact`);
- *what is encoded decodes*: at each position the encoding holds the field the
  decoder reads there. A decoder returns at most one object, and the formats
  exclude each other: by their magic, or, where the hybrid forms share one, by that
  of the classical part. This is `EncodedDecodes` (`RoundTrip`).

From the second `EncodingInjective` follows: transcripts and associated data, which
are encodings, determine what they cover.

**Only model-checked.** Liveness (`EventuallyDelivered`, `EventuallyReturned`) is
out of the prover's reach.

## 6. Plan

Every safety property the passing runs check is stated by a theorem, some under a
condition named above (`NotSaturated`, at most one rotation). What is left is
upkeep: shorter proofs that the four instances of `SessionView` agree on the
operators they share, where most of the checking time of `PersistProofs` goes.

## 7. Not modelled

- Cryptographic strength: primitives are ideal, secrets are symbolic terms.
- Key bytes, their comparison in constant time and their zeroization; signatures
  are a flag, or the transcript they were made on.
- CSPRNG and HKDF failures: each returns before any assignment.
- Which error a refused call returns.
- The byte layout of snapshot records and of the outer header; `Wire` covers the
  layouts of frames, bundles and initial messages.
- The metadata-only language bindings, tests and fuzz targets, which hold no
  state of the protocol.

## 8. Running

    tlc -workers 2 -config ratchet_safety.cfg MCRatchet
    tlc -workers 2 -config delivery.cfg MCDelivery
    tlapm RatchetProofs.tla

and likewise for the other runs (section 3, module and configuration of each in
`PROJECT.json`) and the other `*Proofs` modules.
