------------------------- MODULE PersistentSession -------------------------
(***************************************************************************)
(* Ratchet sessions whose state is sealed to storage and restored after a  *)
(* crash (src/ratchet/persistence.rs over src/ratchet/state.rs).           *)
(*                                                                         *)
(* Each endpoint works on its ratchet in memory.  Its host commits: it     *)
(* seals a snapshot, stores it and advances the rollback floor in one      *)
(* atomic step with releasing the frames and plaintexts produced since     *)
(* the last commit, as the documentation of seal_state and restore_state   *)
(* asks.  A crash loses the memory and what was not released.  Any record  *)
(* ever stored, of either endpoint, may be presented to restore_state.     *)
(***************************************************************************)
EXTENDS Ratchet

CONSTANTS
    DEFAULT_SUITE,  \* AeadSuite::XChaCha20Poly1305, implied by version 1
    StoredVersions, \* versions of the records the endpoints start from
    MaxCrashes      \* bound: crashes of both endpoints

ASSUME PersistenceAssumption ==
    /\ DEFAULT_SUITE \in Suites
    /\ StoredVersions \subseteq {1, 2}
    /\ MaxCrashes \in Nat

VARIABLES
    up,         \* up[e]: whether e runs; ratchet[e] is garbage otherwise
    pending,    \* pending[e]: frames and plaintexts not yet released
    records,    \* records[e]: every record e ever stored
    committed,  \* committed[e]: the state of the last commit
    floor,      \* floor[e]: the durable rollback floor
    emitted,    \* frames released to the network, counted
    crashes

persistVars == <<vars, up, pending, records, committed, floor, emitted, crashes>>

LEGACY_VERSION == 1
VERSION == 2

Nothing == [out |-> {}, in |-> {}]

----------------------------------------------------------------------------
(* Records.                                                                *)

\* What the AEAD binds: the label of the version and the storage context.
state_aad(context, version) == <<version, context>>

\* encode_state and seal: the generation travels in the clear header, the
\* rest inside the AEAD.
Seal(context, version, state) ==
    [version |-> version, generation |-> state.generation,
     aad |-> state_aad(context, version), state |-> state]

seal_state(context, state) == Seal(context, VERSION, state)

\* encode_state refuses an overfull store.
Encodes(state) == Len(state.skipped) <= MAX_SKIPPED_KEYS

NoDuplicates(skipped) ==
    \A i, j \in 1..Len(skipped) :
        (/\ skipped[i].remote_dh = skipped[j].remote_dh
         /\ skipped[i].message_number = skipped[j].message_number) => i = j

\* Mutant of Restores: the rollback floor is not consulted.
RestoresAnyGeneration(record, context, minimum_generation) ==
    /\ record.version \in {LEGACY_VERSION, VERSION}
    /\ record.aad = state_aad(context, record.version)
    /\ Len(record.state.skipped) <= MAX_SKIPPED_KEYS
    /\ NoDuplicates(record.state.skipped)

\* restore_state: version, floor, AEAD (key, context and version label), then
\* the checks of decode_state.
Restores(record, context, minimum_generation) ==
    /\ record.version \in {LEGACY_VERSION, VERSION}
    /\ record.generation >= minimum_generation
    /\ record.aad = state_aad(context, record.version)
    /\ Len(record.state.skipped) <= MAX_SKIPPED_KEYS
    /\ NoDuplicates(record.state.skipped)

\* Mutant of decode_state: the previous chain length is not read back.
decode_state_no_previous(record) ==
    [record.state EXCEPT
        !.generation = record.generation,
        !.suite = IF record.version = LEGACY_VERSION THEN DEFAULT_SUITE ELSE @,
        !.previous_sending_chain_len = 0]

\* The state restored: the generation comes from the header, and a version 1
\* record carries no suite.
decode_state(record) ==
    [record.state EXCEPT
        !.generation = record.generation,
        !.suite = IF record.version = LEGACY_VERSION THEN DEFAULT_SUITE ELSE @]

----------------------------------------------------------------------------
(* Both endpoints start from a stored record; one of an earlier release is  *)
(* version 1 and was sealed when the only suite was the default.            *)

PersistInit ==
    /\ Init
    /\ \E version \in [Role -> StoredVersions] :
         /\ \A e \in Role : version[e] = LEGACY_VERSION => ratchet[e].suite = DEFAULT_SUITE
         /\ records = [e \in Role |-> {Seal(e, version[e], ratchet[e])}]
    /\ up = [e \in Role |-> TRUE]
    /\ pending = [e \in Role |-> Nothing]
    /\ committed = ratchet
    /\ floor = [e \in Role |-> 0]
    /\ emitted = 0
    /\ crashes = 0

Durable == <<net, delivered, returned, up, records, committed, floor, emitted, crashes>>

\* The frame waits for the commit.  MaxFrames bounds frames sealed and not
\* lost.
LocalEncrypt(e) ==
    /\ up[e]
    /\ emitted + Cardinality(pending["Initiator"].out \cup pending["Responder"].out) < MaxFrames
    /\ ratchet[e].sending_count < COUNTER_MAX
    /\ pending' = [pending EXCEPT ![e].out = @ \cup {Frame(ratchet[e])}]
    /\ ratchet' = [ratchet EXCEPT ![e] = AfterEncrypt(@)]
    /\ UNCHANGED <<generated, rotations, Durable>>

LocalEncryptExhausted(e) ==
    /\ up[e]
    /\ ratchet[e].sending_count = COUNTER_MAX
    /\ ratchet[e].sending_chain.pos < COUNTER_MAX + MaxExhausted
    /\ ratchet' = [ratchet EXCEPT ![e].sending_chain = Advance(@, 1)]
    /\ UNCHANGED <<generated, rotations, pending, Durable>>

LocalRotate(e) ==
    /\ up[e]
    /\ rotations < MaxRotations
    /\ rotations' = rotations + 1
    /\ ratchet' = [ratchet EXCEPT ![e] = AfterRotation(@, generate(e))]
    /\ generated' = [generated EXCEPT ![e] = @ + 1]
    /\ UNCHANGED <<pending, Durable>>

\* The plaintext waits for the commit too.
LocalReceive(e, f, r) ==
    /\ up[e]
    /\ SameSession(ratchet[e], f)
    /\ ratchet' = [ratchet EXCEPT ![e] = r]
    /\ pending' = IF f.message_number = COUNTER_MAX THEN pending
                  ELSE [pending EXCEPT ![e].in = @ \cup {f}]
    /\ UNCHANGED <<rotations, Durable>>

LocalDecryptSkipped(e, f) ==
    /\ \E i \in 1..Len(ratchet[e].skipped) :
         /\ OpensSkipped(ratchet[e], f, i)
         /\ LocalReceive(e, f, AfterSkipped(ratchet[e], i))
    /\ UNCHANGED generated

LocalDecryptSameRatchet(e, f) ==
    /\ OpensSameRatchet(ratchet[e], f)
    /\ LocalReceive(e, f, AfterSameRatchet(ratchet[e], f))
    /\ UNCHANGED generated

LocalDecryptNewRatchet(e, f) ==
    /\ OpensNewRatchet(ratchet[e], f)
    /\ LocalReceive(e, f, AfterNewRatchet(ratchet[e], f, generate(e)))
    /\ generated' = [generated EXCEPT ![e] = @ + 1]

\* Any released frame may arrive; Ratchet covers damaged and misrouted ones.
LocalDecryptRejected(e, f) ==
    /\ up[e]
    /\ ~Accepts(ratchet[e], f)
    /\ UNCHANGED persistVars

----------------------------------------------------------------------------
(* Commit, crash and restore.                                              *)

Commit(e) ==
    /\ up[e]
    /\ ratchet[e] # committed[e]
    /\ Encodes(ratchet[e])
    /\ records' = [records EXCEPT ![e] = @ \cup {seal_state(e, ratchet[e])}]
    /\ committed' = [committed EXCEPT ![e] = ratchet[e]]
    /\ floor' = [floor EXCEPT ![e] = ratchet[e].generation]
    /\ net' = net \cup pending[e].out
    /\ emitted' = emitted + Cardinality(pending[e].out)
    /\ delivered' = [delivered EXCEPT ![e] = @ \cup pending[e].in]
    /\ returned' = [returned EXCEPT ![e] = @ + Cardinality(pending[e].in)]
    /\ pending' = [pending EXCEPT ![e] = Nothing]
    /\ UNCHANGED <<ratchet, generated, rotations, up, crashes>>

\* The memory is gone; its content no longer matters and is set to the
\* committed state to keep it out of the way.
Crash(e) ==
    /\ up[e]
    /\ crashes < MaxCrashes
    /\ crashes' = crashes + 1
    /\ up' = [up EXCEPT ![e] = FALSE]
    /\ ratchet' = [ratchet EXCEPT ![e] = committed[e]]
    /\ pending' = [pending EXCEPT ![e] = Nothing]
    /\ UNCHANGED <<generated, rotations, net, delivered, returned,
                   records, committed, floor, emitted>>

\* Which record the storage presents is up to the storage.
AllRecords == records["Initiator"] \cup records["Responder"]

Restore(e, record) ==
    /\ ~up[e]
    /\ Restores(record, e, floor[e])
    /\ ratchet' = [ratchet EXCEPT ![e] = decode_state(record)]
    /\ up' = [up EXCEPT ![e] = TRUE]
    /\ UNCHANGED <<generated, rotations, net, delivered, returned, pending,
                   records, committed, floor, emitted, crashes>>

RestoreRefused(e, record) ==
    /\ ~up[e]
    /\ ~Restores(record, e, floor[e])
    /\ UNCHANGED persistVars

----------------------------------------------------------------------------

PersistNext ==
    \E e \in Role :
        \/ LocalEncrypt(e)
        \/ LocalEncryptExhausted(e)
        \/ LocalRotate(e)
        \/ \E f \in net :
             \/ LocalDecryptSkipped(e, f)
             \/ LocalDecryptSameRatchet(e, f)
             \/ LocalDecryptNewRatchet(e, f)
             \/ LocalDecryptRejected(e, f)
        \/ Commit(e)
        \/ Crash(e)
        \/ \E record \in AllRecords : Restore(e, record) \/ RestoreRefused(e, record)

PersistSpec == PersistInit /\ [][PersistNext]_persistVars

\* Storage may also hand back a record with a damaged header: the generation
\* is the one field of it that neither the lengths nor the AEAD pin down.
DamagedRecords ==
    {[record EXCEPT !.generation = g] : record \in AllRecords, g \in 0..GEN_MAX}

RestoreDamaged(e) == \E record \in DamagedRecords : Restore(e, record) \/ RestoreRefused(e, record)

DamagedStorageSpec ==
    PersistInit /\ [][PersistNext \/ \E e \in Role : RestoreDamaged(e)]_persistVars

----------------------------------------------------------------------------
(* Properties.                                                             *)

\* The ratchet states in memory and in storage have their type.
PersistTypeOK ==
    /\ TypeOK
    /\ committed \in [Role -> RatchetState]
    /\ floor \in [Role -> 0..GEN_MAX]
    /\ up \in [Role -> BOOLEAN]
    /\ \A e \in Role :
         /\ pending[e].out \subseteq InnerFrame /\ pending[e].in \subseteq InnerFrame
         /\ \A record \in records[e] : record.state \in RatchetState

\* r with its sending chain moved to position n.
SendingAt(r, n) == [r EXCEPT !.sending_chain.pos = n]

\* Equal, or different only in the position of the sending chain at an
\* exhausted counter, from which no frame is sealed.
SameSessionState(r, s) ==
    \/ r = s
    \/ /\ r.sending_count = COUNTER_MAX
       /\ SendingAt(r, s.sending_chain.pos) = s

\* Whatever record the storage presents, restore_state refuses it or yields
\* the state of the last commit: the generation in the header and the floor
\* tell every two committed states apart.
FloorPinsState ==
    \A e \in Role : \A record \in records[e] :
        Restores(record, e, floor[e])
        => SameSessionState(decode_state(record), committed[e])

\* What waits for the next commit, and every frame's number.
PendingInv ==
    /\ pending \in [Role -> [out : SUBSET InnerFrame, in : SUBSET InnerFrame]]
    /\ records = [e \in Role |-> records[e]]
    /\ \A f \in net : f.message_number < COUNTER_MAX
    /\ \A e \in Role : /\ IsFiniteSet(pending[e].in)
                       /\ \A f \in pending[e].out : f.message_number < COUNTER_MAX

\* Memory is never older than the last commit, nor that than a record, and
\* below GEN_MAX equal generations mean equal states.
GenerationInv ==
    \A e \in Role :
        /\ floor[e] = committed[e].generation
        /\ floor[e] <= ratchet[e].generation
        /\ floor[e] < GEN_MAX /\ ratchet[e].generation = floor[e]
             => SameSessionState(ratchet[e], committed[e])
        /\ \A record \in records[e] :
             /\ record.aad = state_aad(e, record.version)
             /\ record.version = LEGACY_VERSION => record.state.suite = DEFAULT_SUITE
             /\ record.generation = record.state.generation
             /\ record.generation <= floor[e]
             /\ floor[e] < GEN_MAX /\ record.generation = floor[e]
                  => SameSessionState(record.state, committed[e])

\* What memory and storage hold of e: memory, last commit and every record.
StatesOf(e) == {ratchet[e], committed[e]} \cup {record.state : record \in records[e]}

\* The ratchet keys in use, by a state that holds the key pair or in the header
\* of a frame, each with the root that the chain under the key hangs off.
StateUse(s) == [key |-> s.dh_pair, root |-> s.sending_chain.root]
FrameUse(f) == [key |-> f.ratchet_public, root |-> f.key.root]
KeyUses ==
    {StateUse(s) : s \in UNION {StatesOf(e) : e \in Role}}
        \cup {FrameUse(f) : f \in net \cup UNION {pending[e].out : e \in Role}}

Drawn(k) == k[2] <= generated[k[1]]

\* Key pairs are never drawn twice, not even by an endpoint that was put back
\* to an older state, so a key names one root for good.
KeyUsesInv ==
    /\ \A x \in KeyUses : Drawn(x.key)
    /\ \A x, y \in KeyUses : x.key = y.key => x.root = y.root

\* The keys s has received under, each behind its root: no frame that advertises
\* one starts a new ratchet at s.
ReceivedKeys(s) == {s.remote_dh} \cup {s.skipped[i].remote_dh : i \in 1..Len(s.skipped)}
Behind(s, k) == Drawn(k) /\ \A x \in KeyUses : x.key = k => Len(x.root) <= Len(s.root_key)

\* s can be sealed and read back, and so can what any frame makes of it.
Storable(s) ==
    /\ Encodes(s) /\ NoDuplicates(s.skipped)
    /\ \A i \in 1..Len(s.skipped) :
         s.skipped[i].remote_dh = s.remote_dh => s.skipped[i].message_number < s.receiving_count
    /\ \A k \in ReceivedKeys(s) : Behind(s, k)

\* The inductive invariants behind FloorPinsState and SnapshotRestores.
RecordsInv == PersistTypeOK /\ PendingInv /\ GenerationInv
SnapshotsInv == KeyUsesInv /\ \A e \in Role : \A s \in StatesOf(e) : Storable(s)
StorageInv == RecordsInv /\ SnapshotsInv

\* What waits has been neither released nor returned, an endpoint that is down
\* is where its last commit left it, and the counters count.
BookInv ==
    /\ IsFiniteSet(net) /\ emitted = Cardinality(net)
    /\ \A e \in Role :
         /\ ~up[e] => ratchet[e] = committed[e] /\ pending[e] = Nothing
         /\ IsFiniteSet(pending[e].out)
         /\ \A f \in pending[e].out : Sender(f) = e /\ f \notin net
         /\ pending[e].in \cap delivered[e] = {}
         /\ IsFiniteSet(delivered[e]) /\ returned[e] = Cardinality(delivered[e])

\* What the steps of the session rely on.
WellFormed == PersistTypeOK /\ PendingInv /\ BookInv

\* What restore_state yields is the state of the last commit.
RestoresCommit ==
    \A e \in Role : \A record \in AllRecords :
        Restores(record, e, floor[e])
        => /\ decode_state(record) \in RatchetState
           /\ SameSessionState(decode_state(record), committed[e])

\* What runs is the last commit or what its own operations made of it: a
\* record damaged in storage is refused like one that was tampered with.
RunsFromCommit ==
    \A e \in Role :
        /\ ratchet[e].generation >= floor[e]
        /\ ratchet[e].generation = committed[e].generation
             => SameSessionState(ratchet[e], committed[e])

\* A snapshot of whatever state an endpoint is in can be sealed and would be
\* restored: nothing the ratchet does leads to a state that encode_state,
\* decode_state or the floor refuses, and no session is ever bricked.
SnapshotRestores ==
    \A e \in Role :
        Encodes(ratchet[e]) /\ Restores(seal_state(e, ratchet[e]), e, floor[e])

\* Crashes and restores never make an endpoint release two frames under one
\* message key.
FrameReleasedOnce == KeyUsedOnce /\ emitted = Cardinality(net)

\* Crashes and restores never make an endpoint return a plaintext twice.
PlaintextReturnedOnce == \A e \in Role : returned[e] = Cardinality(delivered[e])

\* A crash never takes the endpoints out of step: what one sends next, from
\* memory or from its last commit, opens at the other.
InSyncAcrossCrashes ==
    \A e \in Role : ratchet[e].sending_count < COUNTER_MAX
        => CanFollow(ratchet[Peer(e)], Frame(ratchet[e]))

============================================================================
