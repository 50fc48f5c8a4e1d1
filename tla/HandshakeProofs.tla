-------------------------- MODULE HandshakeProofs --------------------------
(***************************************************************************)
(* Proofs about Handshake and Hybrid for every value of their constants.   *)
(* A step of either profile of Hybrid is a step of Handshake, so what is   *)
(* shown of the classical handshake holds of both; the last part is about  *)
(* what the ML-KEM key adds.                                               *)
(***************************************************************************)
EXTENDS Hybrid, FiniteSetTheorems, SequenceTheorems, TLAPS

----------------------------------------------------------------------------
(* Lemmas about prekeys and sequences of them.                             *)

\* Removing the i-th entry keeps the others in their order.
LEMMA RemoveAtType ==
    ASSUME NEW S, NEW s \in Seq(S), NEW i \in 1..Len(s)
    PROVE  /\ RemoveAt(s, i) \in Seq(S)
           /\ Len(RemoveAt(s, i)) = Len(s) - 1
           /\ \A j \in 1..(Len(s) - 1) :
                RemoveAt(s, i)[j] = IF j < i THEN s[j] ELSE s[j + 1]
<1> DEFINE a == SubSeq(s, 1, i - 1)
           b == SubSeq(s, i + 1, Len(s))
<1>1. a \in Seq(S) /\ Len(a) = i - 1 /\ \A j \in 1..(i - 1) : a[j] = s[j]
  OBVIOUS
<1>2. b \in Seq(S) /\ Len(b) = Len(s) - i /\ \A j \in 1..(Len(s) - i) : b[j] = s[i + j]
  OBVIOUS
<1>3. RemoveAt(s, i) = a \o b
  BY DEF RemoveAt
<1> HIDE DEF a, b
<1>4. /\ a \o b \in Seq(S)
      /\ Len(a \o b) = Len(a) + Len(b)
      /\ \A j \in 1..(Len(a) + Len(b)) :
           (a \o b)[j] = IF j <= Len(a) THEN a[j] ELSE b[j - Len(a)]
  BY <1>1, <1>2, ConcatProperties
<1>5. Len(s) \in Nat /\ Len(a) + Len(b) = Len(s) - 1
  BY <1>1, <1>2
<1>6. ASSUME NEW j \in 1..(Len(s) - 1)
      PROVE  (a \o b)[j] = IF j < i THEN s[j] ELSE s[j + 1]
  <2>1. CASE j < i
    BY <2>1, <1>1, <1>4, <1>5
  <2>2. CASE ~(j < i)
    <3>1. (a \o b)[j] = b[j - (i - 1)]
      BY <2>2, <1>1, <1>4, <1>5
    <3>2. j - (i - 1) \in 1..(Len(s) - i) /\ i + (j - (i - 1)) = j + 1
      BY <2>2, <1>5
    <3> QED
      BY <2>2, <3>1, <3>2, <1>2
  <2> QED
    BY <2>1, <2>2
<1> QED
  BY <1>3, <1>4, <1>5, <1>6

\* The numbers that stand for no key pair are different and not naturals.
LEMMA SpecialKeys ==
    /\ NoKey \notin Nat /\ Garbled \notin Nat /\ LowOrder \notin Nat
    /\ NoKey # Garbled /\ NoKey # LowOrder /\ Garbled # LowOrder
    /\ NoKey \in Int /\ Garbled \in Int
  BY DEF NoKey, Garbled, LowOrder

\* What the assumption says of identities and identifiers.
LEMMA Constants ==
    /\ Initiators \subseteq Nat /\ SignedIds \subseteq Nat /\ OneTimeIds \subseteq Nat
    /\ NoKey \notin OneTimeIds /\ LowOrder \notin Initiators
<1>1. Initiators \subseteq Nat \ {0} /\ SignedIds \subseteq Nat /\ OneTimeIds \subseteq Nat
  BY Zenon, HandshakeAssumption
<1> QED
  BY <1>1, SpecialKeys

\* What AuthenticatedHandshake makes of typed arguments is a session.
LEMMA SessionType ==
    ASSUME NEW m \in Message, NEW key \in Nat, NEW otp \in Nat \cup {NoKey, Garbled},
           NEW local \in Nat, NEW remote \in Nat
    PROVE  LET s == AuthenticatedHandshake(m, key, otp, local, remote)
           IN  /\ s \in Session
               /\ s.session_id = m /\ s.signed_prekey = key /\ s.one_time_prekey = otp
               /\ s.local_ratchet = local /\ s.remote_ratchet = remote
               /\ s.root_secret = RootSecret(m, key, otp)
<1> DEFINE r == RootSecret(m, key, otp)
           s == AuthenticatedHandshake(m, key, otp, local, remote)
<1>0. m.identity \in Initiators /\ m.ephemeral \in Nat \cup {Garbled}
  BY DEF Message
<1>1. m.identity \in Int /\ m.ephemeral \in Int
  <2>1. Nat \subseteq Int
    OBVIOUS
  <2>2. m.identity \in Int
    BY <1>0, <2>1, Constants, Zenon
  <2>3. m.ephemeral \in Int
    BY <1>0, <2>1, SpecialKeys, Zenon
  <2> QED
    BY <2>2, <2>3
<1>2. key \in Int /\ otp \in Int /\ ResponderIdentity \in Int
  BY SpecialKeys DEF ResponderIdentity
<1>3. r \in Secret
  BY <1>1, <1>2 DEF RootSecret, diffie_hellman, Secret
<1> HIDE DEF r
<1>4. s = [session_id |-> m, root_secret |-> r, local_ratchet |-> local,
           remote_ratchet |-> remote, signed_prekey |-> key, one_time_prekey |-> otp]
  BY DEF r, AuthenticatedHandshake
<1> HIDE DEF s
<1> QED
  BY <1>3, <1>4 DEF Session, s, r

\* The fields of the material, of bundles and of sessions have their types.
LEMMA MaterialTypes ==
    ASSUME TypeOK
    PROVE  /\ material.signed \in SignedRecord
           /\ material.retired \in Seq(SignedRecord)
           /\ material.one_time \in Seq(OneTimeRecord)
           /\ Len(material.retired) \in Nat /\ Len(material.one_time) \in Nat
           /\ Len(sessions) \in Nat
           /\ \A i \in 1..Len(material.retired) : material.retired[i] \in SignedRecord
           /\ \A i \in 1..Len(material.one_time) : material.one_time[i] \in OneTimeRecord
           /\ \A i \in 1..Len(sessions) : sessions[i] \in Session
           /\ material = [signed |-> material.signed, retired |-> material.retired,
                          one_time |-> material.one_time]
  BY DEF TypeOK

----------------------------------------------------------------------------
(* Steps that leave prekeys and sessions alone.                            *)

LEMMA HandshakeInitInv == Init => HandshakeInv
<1> SUFFICES ASSUME Init PROVE HandshakeInv
  OBVIOUS
<1>1. Cardinality(Initiators) \in Nat
  BY HandshakeAssumption, FS_CardinalityType
<1>2. PICK id \in SignedIds, expires \in Expiries :
         /\ material = [signed |-> SignedPrekey(id, next_key, expires),
                        retired |-> << >>, one_time |-> << >>]
         /\ usedIds = [signed |-> {id}, one_time |-> {}]
  BY DEF Init
<1>3. next_key \in Nat
  BY <1>1 DEF Init
<1>4. TypeOK
  BY <1>2, <1>3 DEF Init, TypeOK, SignedPrekey, SignedRecord
<1>5. Len(material.one_time) = 0 /\ Len(material.retired) = 0 /\ Len(sessions) = 0
  BY <1>2 DEF Init
<1>6. OneTimeInv /\ OneTimeUsedOnce /\ HeldInv /\ SessionsInv
  BY <1>5 DEF Init, OneTimeInv, OneTimeUsedOnce, HeldInv, SessionsInv
<1>7. SignedNames = {<<id, next_key>>} /\ OneTimeNames = {}
  BY <1>2, <1>5 DEF Init, SignedNames, OneTimeNames, SignedPrekey
<1>8. NamesInv
  BY <1>2, <1>7 DEF NamesInv
<1> QED
  BY <1>4, <1>6, <1>8 DEF HandshakeInv

\* Names that were there before, or that say there is no one-time prekey, keep
\* identifiers unambiguous.
LEMMA NamesKept ==
    ASSUME HandshakeInv, UNCHANGED usedIds,
           SignedNames' \subseteq SignedNames,
           OneTimeNames' \subseteq OneTimeNames \cup {<<NoKey, NoKey>>}
    PROVE  NamesInv'
<1> SUFFICES ASSUME FreshIds
             PROVE  NamesInv'
  BY DEF NamesInv
<1>1. /\ \A x, y \in SignedNames : x[1] \in usedIds.signed /\ (x[1] = y[1] => x = y)
      /\ \A x \in OneTimeNames : x[1] \in usedIds.one_time \/ x = <<NoKey, NoKey>>
      /\ \A x, y \in OneTimeNames : x[1] = y[1] => x = y
  BY DEF HandshakeInv, NamesInv
<1>2. NoKey \notin usedIds.one_time
  BY Constants DEF HandshakeInv, TypeOK
<1>3. \A x, y \in OneTimeNames' : x[1] = y[1] => x = y
  BY <1>1, <1>2
<1> QED
  BY <1>1, <1>3 DEF NamesInv

LEMMA PublishStep ==
    ASSUME HandshakeInv, Publish
    PROVE  HandshakeInv'
<1> USE MaterialTypes DEF HandshakeInv
<1>1. UNCHANGED <<now, next_key, material, usedIds, deleted, initiated, sessions>>
  BY DEF Publish
<1>2. /\ Bundle = [signed |-> material.signed, authentic |-> TRUE, one_time |-> Bundle.one_time]
      /\ \/ Bundle.one_time = NoOneTime
         \/ \E i \in 1..Len(material.one_time) : Bundle.one_time = material.one_time[i]
  <2>1. CASE material.one_time = << >>
    BY <2>1 DEF Bundle, NoOneTime
  <2>2. CASE material.one_time # << >>
    <3>1. 1 \in 1..Len(material.one_time) /\ Head(material.one_time) = material.one_time[1]
      BY <2>2
    <3> QED
      BY <2>2, <3>1 DEF Bundle
  <2> QED
    BY <2>1, <2>2
<1>3. bundles' = bundles \cup {Bundle}
  BY DEF Publish
<1>4. Bundle \in [signed : SignedRecord, authentic : {TRUE},
                  one_time : OneTimeRecord \cup {NoOneTime}]
  <2> DEFINE o == Bundle.one_time
  <2>1. o \in OneTimeRecord \cup {NoOneTime}
    BY <1>2
  <2>2. Bundle = [signed |-> material.signed, authentic |-> TRUE, one_time |-> o]
    BY <1>2
  <2> HIDE DEF o
  <2> QED
    BY <2>1, <2>2
<1>5. TypeOK'
  BY <1>1, <1>3, <1>4 DEF TypeOK
<1>6. OneTimeInv' /\ OneTimeUsedOnce' /\ SessionsInv'
  BY <1>1 DEF OneTimeInv, OneTimeUsedOnce, SessionsInv
<1>7. HeldInv'
  <2>1. HeldSigned(Bundle.signed.key_id, Bundle.signed.public)
    BY <1>2 DEF HeldSigned
  <2>2. Bundle.one_time.id = NoKey \/ HoldsOneTime(Bundle.one_time.id)
    BY <1>2 DEF HoldsOneTime, NoOneTime, OneTimePrekey
  <2> QED
    BY <1>1, <1>3, <2>1, <2>2 DEF HeldInv, HeldSigned, HoldsOneTime, Consumed
<1>8. NamesInv'
  <2>1. SignedNames' \subseteq SignedNames
    BY <1>1, <1>2, <1>3 DEF SignedNames
  <2>2. <<Bundle.one_time.id, Bundle.one_time.public>> \in OneTimeNames \cup {<<NoKey, NoKey>>}
    BY <1>2 DEF OneTimeNames, NoOneTime, OneTimePrekey
  <2>3. OneTimeNames' \subseteq OneTimeNames \cup {<<NoKey, NoKey>>}
    BY <1>1, <1>3, <2>2 DEF OneTimeNames
  <2> QED
    BY <1>1, <2>1, <2>3, NamesKept
<1> QED
  BY <1>5, <1>6, <1>7, <1>8

LEMMA AddOneTimePrekeyStep ==
    ASSUME HandshakeInv, NEW id \in OneTimeIds, AddOneTimePrekey(id)
    PROVE  HandshakeInv'
<1> USE MaterialTypes DEF HandshakeInv
<1> DEFINE held == material.one_time
           new == OneTimePrekey(id, next_key + 1)
<1>1. /\ UNCHANGED <<now, deleted, bundles, initiated, sessions>>
      /\ next_key' = next_key + 1
      /\ ~HoldsOneTime(id)
      /\ FreshIds => id \notin usedIds.one_time
      /\ usedIds' = [usedIds EXCEPT !.one_time = @ \cup {id}]
  BY DEF AddOneTimePrekey
<1>2. /\ material'.signed = material.signed /\ material'.retired = material.retired
      /\ material'.one_time = Append(held, new)
      /\ material' = [signed |-> material.signed, retired |-> material.retired,
                      one_time |-> Append(held, new)]
  BY DEF AddOneTimePrekey
<1>3. next_key \in Nat /\ new \in OneTimeRecord /\ new.id = id /\ new.public = next_key + 1
  BY DEF TypeOK, OneTimePrekey, OneTimeRecord
<1>4. /\ Append(held, new) \in Seq(OneTimeRecord)
      /\ Len(Append(held, new)) = Len(held) + 1
      /\ \A i \in 1..Len(held) : Append(held, new)[i] = held[i]
      /\ Append(held, new)[Len(held) + 1] = new
  BY <1>3
<1> HIDE DEF new
<1>5. TypeOK'
  <2>1. usedIds' \in [signed : SUBSET SignedIds, one_time : SUBSET OneTimeIds]
    BY <1>1 DEF TypeOK
  <2>2. material' \in [signed : SignedRecord, retired : Seq(SignedRecord),
                       one_time : Seq(OneTimeRecord)]
    BY <1>2, <1>4
  <2>3. next_key' \in Nat
    BY <1>1, <1>3
  <2> QED
    BY <1>1, <2>1, <2>2, <2>3 DEF TypeOK
<1>6. ASSUME NEW i \in 1..Len(material'.one_time)
      PROVE  \/ i \in 1..Len(held) /\ material'.one_time[i] = held[i]
             \/ i = Len(held) + 1 /\ material'.one_time[i] = new
  BY <1>2, <1>4
<1>7. \A i \in 1..Len(held) : /\ held[i].public \in Nat /\ held[i].public <= next_key
                              /\ held[i].id # id
  BY <1>1 DEF OneTimeInv, HoldsOneTime, OneTimeRecord
<1>8. \A i \in 1..Len(sessions) :
        sessions[i].one_time_prekey \in Int /\ sessions[i].one_time_prekey <= next_key
  BY SpecialKeys DEF OneTimeInv, Session
<1>9. OneTimeInv'
  <2>1. \A i \in 1..Len(material'.one_time) : material'.one_time[i].public <= next_key'
    BY <1>1, <1>3, <1>6, <1>7
  <2>2. ASSUME NEW i \in 1..Len(material'.one_time), NEW j \in 1..Len(material'.one_time),
               \/ material'.one_time[i].public = material'.one_time[j].public
               \/ material'.one_time[i].id = material'.one_time[j].id
        PROVE  i = j
    <3>1. CASE i \in 1..Len(held) /\ j \in 1..Len(held)
      BY <2>2, <3>1, <1>2, <1>4 DEF OneTimeInv
    <3>0. \A x \in 1..Len(held) : held[x].public # new.public /\ held[x].id # new.id
      BY <1>3, <1>7
    <3>2. CASE i = Len(held) + 1 \/ j = Len(held) + 1
      <4>1. CASE i = j
        BY <4>1
      <4>2. CASE i # j
        BY <2>2, <3>0, <3>2, <4>2, <1>2, <1>4
      <4> QED
        BY <4>1, <4>2
    <3> QED
      BY <3>1, <3>2, <1>6
  <2>3. \A i \in 1..Len(sessions) :
          /\ sessions[i].one_time_prekey <= next_key'
          /\ \A j \in 1..Len(material'.one_time) :
               sessions[i].one_time_prekey # material'.one_time[j].public
    BY <1>1, <1>3, <1>6, <1>8 DEF OneTimeInv
  <2> QED
    BY <1>1, <2>1, <2>2, <2>3 DEF OneTimeInv
<1>10. OneTimeUsedOnce' /\ SessionsInv'
  BY <1>1 DEF OneTimeUsedOnce, SessionsInv
<1>11. HeldInv'
  <2>1. \A x : HoldsOneTime(x) => HoldsOneTime(x)'
    BY <1>2, <1>4 DEF HoldsOneTime
  <2>2. \A x, y : HeldSigned(x, y) => HeldSigned(x, y)'
    BY <1>2 DEF HeldSigned
  <2>3. \A x : Consumed(x) => Consumed(x)'
    BY <1>1 DEF Consumed
  <2> QED
    BY <1>1, <1>2, <2>1, <2>2, <2>3 DEF HeldInv
<1>12. NamesInv'
  <2> SUFFICES ASSUME FreshIds PROVE NamesInv'
    BY DEF NamesInv
  <2>1. SignedNames' = SignedNames /\ usedIds'.signed = usedIds.signed
    BY <1>1, <1>2 DEF SignedNames, TypeOK
  <2>2. OneTimeNames' \subseteq OneTimeNames \cup {<<id, next_key + 1>>}
    BY <1>1, <1>3, <1>6 DEF OneTimeNames
  <2>3. \A x \in OneTimeNames : x[1] \in usedIds.one_time \/ x = <<NoKey, NoKey>>
    BY DEF NamesInv
  <2>4. id # NoKey /\ id \notin usedIds.one_time
    BY <1>1, Constants
  <2>5. usedIds'.one_time = usedIds.one_time \cup {id}
    BY <1>1 DEF TypeOK
  <2>6. \A x \in OneTimeNames' : x[1] \in usedIds'.one_time \/ x = <<NoKey, NoKey>>
    BY <2>2, <2>3, <2>5
  <2>7. \A x, y \in OneTimeNames' : x[1] = y[1] => x = y
    BY <2>2, <2>3, <2>4, SMTT(30) DEF NamesInv
  <2> QED
    BY <2>1, <2>6, <2>7 DEF NamesInv
<1> QED
  BY <1>5, <1>9, <1>10, <1>11, <1>12

LEMMA RotateSignedPrekeyStep ==
    ASSUME HandshakeInv, NEW id \in SignedIds, NEW expires \in Expiries,
           RotateSignedPrekey(id, expires)
    PROVE  HandshakeInv'
<1> USE MaterialTypes DEF HandshakeInv
<1> DEFINE retired == material.retired
           old == material.signed
           new == SignedPrekey(id, next_key + 1, expires)
<1>1. /\ UNCHANGED <<now, deleted, bundles, initiated, sessions>>
      /\ next_key' = next_key + 1
      /\ ~HoldsSigned(id)
      /\ FreshIds => id \notin usedIds.signed
      /\ usedIds' = [usedIds EXCEPT !.signed = @ \cup {id}]
  BY DEF RotateSignedPrekey
<1>2. /\ material'.signed = new /\ material'.one_time = material.one_time
      /\ material'.retired = Append(retired, old)
      /\ material' = [signed |-> new, retired |-> Append(retired, old),
                      one_time |-> material.one_time]
  BY DEF RotateSignedPrekey, AfterSignedRotation
<1>3. next_key \in Nat /\ new \in SignedRecord /\ new.key_id = id /\ new.public = next_key + 1
  BY DEF TypeOK, SignedPrekey, SignedRecord
<1>4. /\ Append(retired, old) \in Seq(SignedRecord)
      /\ Len(Append(retired, old)) = Len(retired) + 1
      /\ \A i \in 1..Len(retired) : Append(retired, old)[i] = retired[i]
      /\ Append(retired, old)[Len(retired) + 1] = old
  OBVIOUS
<1> HIDE DEF new
<1>5. TypeOK'
  <2>1. usedIds' \in [signed : SUBSET SignedIds, one_time : SUBSET OneTimeIds]
    BY <1>1 DEF TypeOK
  <2>2. material' \in [signed : SignedRecord, retired : Seq(SignedRecord),
                       one_time : Seq(OneTimeRecord)]
    BY <1>2, <1>3, <1>4
  <2>3. next_key' \in Nat
    BY <1>1, <1>3
  <2> QED
    BY <1>1, <2>1, <2>2, <2>3 DEF TypeOK
<1>6. OneTimeInv'
  <2>1. \A i \in 1..Len(material.one_time) : material.one_time[i].public \in Nat
    BY DEF OneTimeRecord
  <2>2. \A i \in 1..Len(sessions) : sessions[i].one_time_prekey \in Int
    BY SpecialKeys DEF Session
  <2> QED
    BY <1>1, <1>2, <1>3, <2>1, <2>2 DEF OneTimeInv
<1>7. OneTimeUsedOnce' /\ SessionsInv'
  BY <1>1 DEF OneTimeUsedOnce, SessionsInv
<1>8. HeldInv'
  <2>1. \A x : HoldsOneTime(x) => HoldsOneTime(x)'
    BY <1>2 DEF HoldsOneTime
  <2>2. \A x, y : HeldSigned(x, y) => HeldSigned(x, y)'
    BY <1>2, <1>4 DEF HeldSigned
  <2>3. \A x : Consumed(x) => Consumed(x)'
    BY <1>1 DEF Consumed
  <2>4. old.key_id # id /\ \A i \in 1..Len(retired) : retired[i].key_id # id
    BY <1>1 DEF HoldsSigned
  <2>5. \A i \in 1..Len(retired) : retired[i].key_id # old.key_id
    BY DEF HeldInv
  <2>6. \A i \in 1..Len(material'.retired) : material'.retired[i].key_id # material'.signed.key_id
    BY <1>2, <1>3, <1>4, <2>4
  <2>7. ASSUME NEW i \in 1..Len(material'.retired), NEW j \in 1..Len(material'.retired),
               material'.retired[i].key_id = material'.retired[j].key_id
        PROVE  i = j
    BY <1>2, <1>4, <2>5, <2>7 DEF HeldInv
  <2> QED
    BY <1>1, <2>1, <2>2, <2>3, <2>6, <2>7 DEF HeldInv
<1>9. NamesInv'
  <2> SUFFICES ASSUME FreshIds PROVE NamesInv'
    BY DEF NamesInv
  <2>1. OneTimeNames' = OneTimeNames /\ usedIds'.one_time = usedIds.one_time
    BY <1>1, <1>2 DEF OneTimeNames, TypeOK
  <2>2. SignedNames' \subseteq SignedNames \cup {<<id, next_key + 1>>}
    BY <1>1, <1>2, <1>3, <1>4 DEF SignedNames
  <2>3. usedIds'.signed = usedIds.signed \cup {id} /\ id \notin usedIds.signed
    BY <1>1 DEF TypeOK
  <2>4. \A x, y \in SignedNames' : x[1] \in usedIds'.signed /\ (x[1] = y[1] => x = y)
    BY <2>2, <2>3 DEF NamesInv
  <2> QED
    BY <2>1, <2>4 DEF NamesInv
<1> QED
  BY <1>5, <1>6, <1>7, <1>8, <1>9

LEMMA RetireSignedPrekeyStep ==
    ASSUME HandshakeInv, NEW id \in SignedIds, RetireSignedPrekey(id)
    PROVE  HandshakeInv'
<1> USE MaterialTypes DEF HandshakeInv
<1> DEFINE retired == material.retired
<1>1. UNCHANGED <<now, next_key, usedIds, bundles, initiated, sessions>>
  BY DEF RetireSignedPrekey
<1>2. PICK i \in 1..Len(retired) :
        /\ material' = [material EXCEPT !.retired = RemoveAt(@, i)]
        /\ deleted' = deleted \cup {retired[i].public}
  BY DEF RetireSignedPrekey
<1>3. /\ material'.signed = material.signed /\ material'.one_time = material.one_time
      /\ material'.retired = RemoveAt(retired, i)
      /\ material' = [signed |-> material.signed, retired |-> RemoveAt(retired, i),
                      one_time |-> material.one_time]
  BY <1>2
<1>4. /\ RemoveAt(retired, i) \in Seq(SignedRecord)
      /\ Len(RemoveAt(retired, i)) = Len(retired) - 1
      /\ \A j \in 1..(Len(retired) - 1) :
           RemoveAt(retired, i)[j] = IF j < i THEN retired[j] ELSE retired[j + 1]
  BY RemoveAtType
<1>5. TypeOK'
  <2>1. material' \in [signed : SignedRecord, retired : Seq(SignedRecord),
                       one_time : Seq(OneTimeRecord)]
    BY <1>3, <1>4
  <2>2. deleted' \subseteq Nat
    BY <1>2 DEF TypeOK, SignedRecord
  <2> QED
    BY <1>1, <2>1, <2>2 DEF TypeOK
<1>6. OneTimeInv' /\ OneTimeUsedOnce' /\ SessionsInv'
  BY <1>1, <1>3 DEF OneTimeInv, OneTimeUsedOnce, SessionsInv
<1>7. ASSUME NEW j \in 1..Len(material'.retired)
      PROVE  \E l \in 1..Len(retired) :
               material'.retired[j] = retired[l] /\ l = IF j < i THEN j ELSE j + 1
  BY <1>3, <1>4
<1>8. HeldInv'
  <2>1. \A x : HoldsOneTime(x) => HoldsOneTime(x)'
    BY <1>3 DEF HoldsOneTime
  <2>2. \A x : Consumed(x) => Consumed(x)'
    BY <1>1 DEF Consumed
  <2>3. ASSUME NEW x, NEW y, HeldSigned(x, y), y \notin deleted'
        PROVE  HeldSigned(x, y)'
    <3>1. CASE material.signed.key_id = x /\ material.signed.public = y
      BY <3>1, <1>3 DEF HeldSigned
    <3>2. CASE \E l \in 1..Len(retired) : retired[l].key_id = x /\ retired[l].public = y
      <4>1. PICK l \in 1..Len(retired) : retired[l].key_id = x /\ retired[l].public = y
        BY <3>2
      <4>2. l # i
        BY <2>3, <4>1, <1>2
      <4>3. CASE l < i
        <5>1. l \in 1..(Len(retired) - 1) /\ RemoveAt(retired, i)[l] = retired[l]
          BY <4>3, <1>4
        <5> QED
          BY <4>1, <5>1, <1>3, <1>4 DEF HeldSigned
      <4>4. CASE l > i
        <5>1. l - 1 \in 1..(Len(retired) - 1) /\ RemoveAt(retired, i)[l - 1] = retired[l]
          BY <4>4, <1>4
        <5> QED
          BY <4>1, <5>1, <1>3, <1>4 DEF HeldSigned
      <4> QED
        BY <4>2, <4>3, <4>4
    <3> QED
      BY <2>3, <3>1, <3>2 DEF HeldSigned
  <2>4. deleted \subseteq deleted'
    BY <1>2
  <2>5. \A j \in 1..Len(material'.retired) : material'.retired[j].key_id # material'.signed.key_id
    BY <1>3, <1>7 DEF HeldInv
  <2>6. ASSUME NEW j \in 1..Len(material'.retired), NEW l \in 1..Len(material'.retired),
               material'.retired[j].key_id = material'.retired[l].key_id
        PROVE  j = l
    <3>1. (IF j < i THEN j ELSE j + 1) = (IF l < i THEN l ELSE l + 1)
      BY <2>6, <1>7 DEF HeldInv
    <3>2. j \in Nat /\ l \in Nat
      BY <1>3, <1>4
    <3> QED
      BY <3>1, <3>2
  <2> QED
    BY <1>1, <2>1, <2>2, <2>3, <2>4, <2>5, <2>6 DEF HeldInv
<1>9. NamesInv'
  <2>1. OneTimeNames' \subseteq OneTimeNames
    BY <1>1, <1>3 DEF OneTimeNames
  <2>2. \A j \in 1..Len(material'.retired) :
          <<material'.retired[j].key_id, material'.retired[j].public>> \in SignedNames
    BY <1>7 DEF SignedNames
  <2>3. SignedNames' \subseteq SignedNames
    <3> SUFFICES ASSUME NEW x \in SignedNames' PROVE x \in SignedNames
      OBVIOUS
    <3>1. CASE \E j \in 1..Len(material'.retired) :
                 x = <<material'.retired[j].key_id, material'.retired[j].public>>
      BY <2>2, <3>1
    <3>2. CASE ~\E j \in 1..Len(material'.retired) :
                  x = <<material'.retired[j].key_id, material'.retired[j].public>>
      BY <3>2, <1>1, <1>3 DEF SignedNames
    <3> QED
      BY <3>1, <3>2
  <2> QED
    BY <1>1, <2>1, <2>3, NamesKept
<1> QED
  BY <1>5, <1>6, <1>8, <1>9

----------------------------------------------------------------------------
(* Initiating and accepting.                                               *)

\* A fetched bundle that passes the checks of initiate is a published one,
\* except that its one-time prekey may have been altered in transit.
LEMMA FetchedBundle ==
    ASSUME TypeOK, NEW b \in FetchedBundles, Contributory(b.one_time.public)
    PROVE  \E c \in bundles :
             /\ b.signed = c.signed /\ b.one_time.id = c.one_time.id
             /\ \/ b.one_time.public = c.one_time.public
                \/ b.one_time.public = Garbled /\ c.one_time.id # NoKey
<1>1. \A c \in bundles :
        c \in [signed : SignedRecord, authentic : {TRUE},
               one_time : OneTimeRecord \cup {NoOneTime}]
  BY DEF TypeOK
<1>2. CASE b \in bundles
  BY <1>2
<1>3. CASE \E c \in bundles : b = [c EXCEPT !.authentic = FALSE]
  BY <1>1, <1>3
<1>4. CASE \E c \in bundles : b \in OneTimeReplaced(c)
  <2>1. PICK c \in bundles : b \in OneTimeReplaced(c)
    BY <1>4
  <2>2. c.one_time.id # NoKey
    BY <2>1 DEF OneTimeReplaced
  <2>3. PICK key \in {Garbled, LowOrder} : b = [c EXCEPT !.one_time.public = key]
    BY <2>1, <2>2 DEF OneTimeReplaced
  <2>4. /\ c.one_time \in OneTimeRecord
        /\ c = [signed |-> c.signed, authentic |-> c.authentic, one_time |-> c.one_time]
    <3>1. c.one_time \in OneTimeRecord \cup {NoOneTime} /\ NoOneTime.id = NoKey
      BY <1>1 DEF NoOneTime, OneTimePrekey
    <3>2. c.one_time \in OneTimeRecord
      BY <3>1, <2>2
    <3> QED
      BY <1>1, <3>2
  <2>5. b.signed = c.signed /\ b.one_time = [c.one_time EXCEPT !.public = key]
    BY <2>3, <2>4
  <2>6. b.one_time.id = c.one_time.id /\ b.one_time.public = key
    BY <2>4, <2>5 DEF OneTimeRecord
  <2>7. key = Garbled
    BY <2>6 DEF Contributory
  <2> QED
    BY <2>2, <2>5, <2>6, <2>7
<1> QED
  BY <1>2, <1>3, <1>4 DEF FetchedBundles

LEMMA InitiateStep ==
    ASSUME HandshakeInv, NEW identity \in Initiators, NEW b \in FetchedBundles,
           Initiate(identity, b)
    PROVE  HandshakeInv'
<1> USE MaterialTypes DEF HandshakeInv
<1> DEFINE message == [identity |-> identity, binding |-> TRUE,
                       ephemeral |-> next_key + 1, ratchet |-> next_key + 2,
                       signed_prekey_id |-> b.signed.key_id,
                       one_time_prekey_id |-> b.one_time.id]
           new == AuthenticatedHandshake(message, b.signed.public, b.one_time.public,
                                         next_key + 2, b.signed.public)
<1>1. /\ UNCHANGED <<now, material, usedIds, deleted, bundles, sessions>>
      /\ next_key' = next_key + 2
      /\ initiated' = initiated \cup {new}
      /\ Contributory(b.one_time.public)
  BY DEF Initiate
<1>2. PICK c \in bundles :
        /\ b.signed = c.signed /\ b.one_time.id = c.one_time.id
        /\ \/ b.one_time.public = c.one_time.public
           \/ b.one_time.public = Garbled /\ c.one_time.id # NoKey
  BY <1>1, FetchedBundle
<1>3. /\ c.signed \in SignedRecord
      /\ c.one_time \in OneTimeRecord \cup {NoOneTime}
  BY DEF TypeOK
<1>4. /\ c.one_time.id \in OneTimeIds \cup {NoKey}
      /\ c.one_time.public \in Nat \cup {NoKey}
      /\ c.one_time.id = NoKey <=> c.one_time.public = NoKey
  BY <1>3, Constants, SpecialKeys DEF OneTimeRecord, NoOneTime, OneTimePrekey
<1>5. /\ b.signed.key_id \in SignedIds /\ b.signed.public \in Nat
      /\ b.one_time.id \in OneTimeIds \cup {NoKey}
      /\ b.one_time.public \in Nat \cup {NoKey, Garbled}
      /\ b.one_time.id = NoKey <=> b.one_time.public = NoKey
  BY <1>2, <1>3, <1>4, SpecialKeys DEF SignedRecord
<1>6. message \in Message
  <2>1. next_key + 1 \in Nat /\ next_key + 2 \in Nat
    BY DEF TypeOK
  <2> QED
    BY <1>5, <2>1 DEF Message
<1>7. /\ message.ratchet = next_key + 2 /\ message.signed_prekey_id = b.signed.key_id
      /\ message.one_time_prekey_id = b.one_time.id
  OBVIOUS
<1> HIDE DEF message
<1>8. /\ new \in Session /\ new.session_id = message
      /\ new.signed_prekey = b.signed.public /\ new.one_time_prekey = b.one_time.public
  <2>1. next_key + 2 \in Nat
    BY DEF TypeOK
  <2> DEFINE key == b.signed.public
             otp == b.one_time.public
             ratchet == next_key + 2
  <2>2. new = AuthenticatedHandshake(message, key, otp, ratchet, key)
    OBVIOUS
  <2>3. key \in Nat /\ otp \in Nat \cup {NoKey, Garbled} /\ ratchet \in Nat
    BY <1>5, <2>1
  <2> HIDE DEF new, key, otp, ratchet
  <2>4. /\ new \in Session /\ new.session_id = message
        /\ new.signed_prekey = key /\ new.one_time_prekey = otp
    <3>1. LET s == AuthenticatedHandshake(message, key, otp, ratchet, key)
          IN  /\ s \in Session
              /\ s.session_id = message /\ s.signed_prekey = key /\ s.one_time_prekey = otp
              /\ s.local_ratchet = ratchet /\ s.remote_ratchet = key
              /\ s.root_secret = RootSecret(message, key, otp)
      BY ONLY <1>6, <2>3, SessionType
    <3> QED
      BY <2>2, <3>1
  <2> QED
    BY <2>4 DEF key, otp
<1>9. new = AuthenticatedHandshake(new.session_id, new.signed_prekey, new.one_time_prekey,
                                   new.session_id.ratchet, new.signed_prekey)
  BY <1>7, <1>8
<1> HIDE DEF new
<1>10. TypeOK'
  <2>1. next_key' \in Nat /\ initiated' \subseteq Session
    BY <1>1, <1>8 DEF TypeOK
  <2> QED
    BY <1>1, <2>1 DEF TypeOK
<1>11. OneTimeInv' /\ OneTimeUsedOnce'
  <2>1. \A i \in 1..Len(material.one_time) : material.one_time[i].public \in Nat
    BY DEF OneTimeRecord
  <2>2. \A i \in 1..Len(sessions) : sessions[i].one_time_prekey \in Int
    BY SpecialKeys DEF Session
  <2>3. OneTimeInv'
    <3>1. next_key \in Nat /\ next_key' = next_key + 2
      BY <1>1 DEF TypeOK
    <3> QED
      BY <1>1, <2>1, <2>2, <3>1 DEF OneTimeInv
  <2> QED
    BY <1>1, <2>3 DEF OneTimeUsedOnce
<1>12. SessionsInv'
  BY <1>1, <1>5, <1>7, <1>8, <1>9 DEF SessionsInv
<1>13. HeldInv'
  <2>1. \/ HeldSigned(new.session_id.signed_prekey_id, new.signed_prekey)
        \/ new.signed_prekey \in deleted
    BY <1>2, <1>7, <1>8 DEF HeldInv
  <2>2. \/ new.session_id.one_time_prekey_id = NoKey
        \/ HoldsOneTime(new.session_id.one_time_prekey_id)
        \/ Consumed(new.session_id.one_time_prekey_id)
    BY <1>2, <1>7, <1>8 DEF HeldInv
  <2> QED
    BY <1>1, <2>1, <2>2 DEF HeldInv, HeldSigned, HoldsOneTime, Consumed
<1>14. NamesInv'
  <2>1. <<new.session_id.signed_prekey_id, new.signed_prekey>> \in SignedNames
    BY <1>2, <1>7, <1>8 DEF SignedNames
  <2>2. SignedNames' \subseteq SignedNames
    BY <1>1, <2>1 DEF SignedNames
  <2>3. new.one_time_prekey # Garbled =>
          <<new.session_id.one_time_prekey_id, new.one_time_prekey>> \in OneTimeNames
    BY <1>2, <1>7, <1>8 DEF OneTimeNames
  <2>4. OneTimeNames' \subseteq OneTimeNames
    BY <1>1, <2>3 DEF OneTimeNames
  <2> QED
    BY <1>1, <2>2, <2>4, NamesKept
<1> QED
  BY <1>10, <1>11, <1>12, <1>13, <1>14

\* A message accept takes is one that was sent, except that its ephemeral key
\* may have been altered in transit.
LEMMA ArrivedMessage ==
    ASSUME TypeOK, NEW m \in Arrivals, m.binding, Contributory(m.ephemeral)
    PROVE  m \in Message
<1>1. \A s \in initiated : s.session_id \in Message
  BY DEF TypeOK, Session
<1>2. CASE m \in Messages
  BY <1>1, <1>2 DEF Messages
<1>3. CASE \E x \in Messages : m \in Damaged(x)
  <2>1. PICK x \in Messages : m \in Damaged(x)
    BY <1>3
  <2>2. x \in Message
    BY <1>1 DEF Messages
  <2>3. CASE m = [x EXCEPT !.binding = FALSE]
    <3>1. m.binding = FALSE
      BY <2>2, <2>3 DEF Message
    <3> QED
      BY <3>1
  <2>4. CASE m = [x EXCEPT !.ephemeral = LowOrder]
    <3>1. m.ephemeral = LowOrder
      BY <2>2, <2>4 DEF Message
    <3> QED
      BY <3>1 DEF Contributory
  <2>5. CASE m = [x EXCEPT !.ephemeral = Garbled]
    BY <2>2, <2>5 DEF Message
  <2> QED
    BY <2>1, <2>3, <2>4, <2>5 DEF Damaged
<1> QED
  BY <1>2, <1>3 DEF Arrivals

\* What accept finds: a signed prekey held under the identifier of the message
\* and, where the message names one, a one-time prekey held under its.
LEMMA AcceptedPrekeys ==
    ASSUME TypeOK, NEW m \in Message, NEW key, NEW index, AcceptsWith(m, key, index)
    PROVE  /\ HeldSigned(m.signed_prekey_id, key) /\ key \in Nat
           /\ index \in 0..Len(material.one_time)
           /\ index = 0 => m.one_time_prekey_id = NoKey /\ OneTimeKeyAt(index) = NoKey
           /\ index # 0 =>
                /\ m.one_time_prekey_id = material.one_time[index].id
                /\ OneTimeKeyAt(index) = material.one_time[index].public
           /\ OneTimeKeyAt(index) \in Nat \cup {NoKey}
<1> USE MaterialTypes
<1>1. HeldSigned(m.signed_prekey_id, key) /\ key \in Nat
  BY DEF AcceptsWith, SignedPrekeyFor, HeldSigned, SignedRecord
<1>2. /\ index \in 0..Len(material.one_time)
      /\ index = 0 => m.one_time_prekey_id = NoKey
      /\ index # 0 => m.one_time_prekey_id = material.one_time[index].id
  BY DEF AcceptsWith, OneTimeIndexFor
<1>3. /\ index = 0 => OneTimeKeyAt(index) = NoKey
      /\ index # 0 => OneTimeKeyAt(index) = material.one_time[index].public
      /\ OneTimeKeyAt(index) \in Nat \cup {NoKey}
  BY <1>2 DEF OneTimeKeyAt, OneTimeRecord
<1> QED
  BY <1>1, <1>2, <1>3

\* What accept appends is a session.
LEMMA AcceptedSession ==
    \A m \in Message, key \in Nat, otp \in Nat \cup {NoKey, Garbled} :
        LET s == AuthenticatedHandshake(m, key, otp, key, m.ratchet)
        IN  /\ s \in Session /\ s.session_id = m
            /\ s.signed_prekey = key /\ s.one_time_prekey = otp
<1> SUFFICES ASSUME NEW m \in Message, NEW key \in Nat, NEW otp \in Nat \cup {NoKey, Garbled}
             PROVE  LET s == AuthenticatedHandshake(m, key, otp, key, m.ratchet)
                    IN  /\ s \in Session /\ s.session_id = m
                        /\ s.signed_prekey = key /\ s.one_time_prekey = otp
  OBVIOUS
<1> DEFINE ratchet == m.ratchet
<1>1. ratchet \in Nat
  BY DEF Message
<1> HIDE DEF ratchet
<1>2. LET s == AuthenticatedHandshake(m, key, otp, key, ratchet)
      IN  /\ s \in Session
          /\ s.session_id = m /\ s.signed_prekey = key /\ s.one_time_prekey = otp
          /\ s.local_ratchet = key /\ s.remote_ratchet = ratchet
          /\ s.root_secret = RootSecret(m, key, otp)
  BY ONLY <1>1, SessionType
<1> QED
  BY <1>2 DEF ratchet

LEMMA AcceptStep ==
    ASSUME HandshakeInv, NEW m \in Arrivals, Accept(m)
    PROVE  HandshakeInv'
<1> USE MaterialTypes DEF HandshakeInv
<1> DEFINE held == material.one_time
<1>1. UNCHANGED <<now, next_key, usedIds, deleted, bundles, initiated>>
  BY DEF Accept
<1>2. PICK key \in SignedKeys, index \in 0..Len(held) :
        /\ AcceptsWith(m, key, index)
        /\ sessions' = Append(sessions,
              AuthenticatedHandshake(m, key, OneTimeKeyAt(index), key, m.ratchet))
        /\ material' = AfterAccept(material, index)
  BY DEF Accept
<1>3. m \in Message
  BY <1>2, ArrivedMessage DEF AcceptsWith
<1> DEFINE otp == OneTimeKeyAt(index)
           new == AuthenticatedHandshake(m, key, otp, key, m.ratchet)
<1>4. /\ HeldSigned(m.signed_prekey_id, key) /\ key \in Nat
      /\ index = 0 => m.one_time_prekey_id = NoKey /\ otp = NoKey
      /\ index # 0 => m.one_time_prekey_id = held[index].id /\ otp = held[index].public
      /\ otp \in Nat \cup {NoKey}
  BY <1>2, <1>3, AcceptedPrekeys
<1>5. sessions' = Append(sessions, new)
  BY <1>2
<1> HIDE DEF otp
<1>6. /\ new \in Session /\ new.session_id = m
      /\ new.signed_prekey = key /\ new.one_time_prekey = otp
  <2>1. otp \in Nat \cup {NoKey, Garbled} /\ key \in Nat
    BY <1>4
  <2> QED
    BY <1>3, <2>1, AcceptedSession
<1>7. new = AuthenticatedHandshake(new.session_id, new.signed_prekey, new.one_time_prekey,
                                   new.signed_prekey, new.session_id.ratchet)
  BY <1>6
<1> HIDE DEF new
<1>8. /\ sessions' \in Seq(Session) /\ Len(sessions') = Len(sessions) + 1
      /\ \A i \in 1..Len(sessions) : sessions'[i] = sessions[i]
      /\ sessions'[Len(sessions) + 1] = new
  BY <1>5, <1>6 DEF TypeOK
\* The entry of the material an entry of the new material stems from.
<1> DEFINE from(j) == IF index = 0 \/ j < index THEN j ELSE j + 1
<1>9. /\ material'.signed = material.signed /\ material'.retired = material.retired
      /\ material' = [signed |-> material.signed, retired |-> material.retired,
                      one_time |-> material'.one_time]
      /\ material'.one_time \in Seq(OneTimeRecord)
      /\ Len(material'.one_time) = IF index = 0 THEN Len(held) ELSE Len(held) - 1
      /\ \A j \in 1..Len(material'.one_time) : material'.one_time[j] = held[from(j)]
  <2>1. CASE index = 0
    BY <2>1, <1>2 DEF AfterAccept
  <2>2. CASE index # 0
    <3>1. index \in 1..Len(held)
      BY <2>2
    <3>2. /\ RemoveAt(held, index) \in Seq(OneTimeRecord)
          /\ Len(RemoveAt(held, index)) = Len(held) - 1
          /\ \A j \in 1..(Len(held) - 1) :
               RemoveAt(held, index)[j] = IF j < index THEN held[j] ELSE held[j + 1]
      BY <3>1, RemoveAtType
    <3>3. material' = [signed |-> material.signed, retired |-> material.retired,
                       one_time |-> RemoveAt(held, index)]
      BY <2>2, <1>2 DEF AfterAccept
    <3> QED
      BY <2>2, <3>2, <3>3
  <2> QED
    BY <2>1, <2>2
<1>10. \A j \in 1..Len(material'.one_time) : from(j) \in 1..Len(held) /\ from(j) # index
  BY <1>9
<1>11. \A i, j \in 1..Len(material'.one_time) : from(i) = from(j) => i = j
  BY <1>9
<1> HIDE DEF from
<1>12. TypeOK'
  <2>1. material' \in [signed : SignedRecord, retired : Seq(SignedRecord),
                       one_time : Seq(OneTimeRecord)]
    BY <1>9
  <2> QED
    BY <1>1, <1>8, <2>1 DEF TypeOK
<1>13. \A i \in 1..Len(held) : held[i].public \in Nat /\ held[i].public # NoKey
  BY SpecialKeys DEF OneTimeRecord
<1>14. \A i \in 1..Len(sessions) : otp # NoKey => sessions[i].one_time_prekey # otp
  BY <1>4 DEF OneTimeInv
<1>15. OneTimeInv'
  <2>1. \A j \in 1..Len(material'.one_time) : material'.one_time[j].public <= next_key'
    BY <1>1, <1>9, <1>10 DEF OneTimeInv
  <2>2. ASSUME NEW i \in 1..Len(material'.one_time), NEW j \in 1..Len(material'.one_time),
               \/ material'.one_time[i].public = material'.one_time[j].public
               \/ material'.one_time[i].id = material'.one_time[j].id
        PROVE  i = j
    <3>1. from(i) = from(j)
      <4>1. /\ from(i) \in 1..Len(held) /\ from(j) \in 1..Len(held)
            /\ material'.one_time[i] = held[from(i)] /\ material'.one_time[j] = held[from(j)]
        BY <1>9, <1>10
      <4>2. \A x, y \in 1..Len(held) :
              (held[x].public = held[y].public \/ held[x].id = held[y].id) => x = y
        BY DEF OneTimeInv
      <4> QED
        BY ONLY <2>2, <4>1, <4>2
    <3> QED
      BY <3>1, <1>11
  <2>3. otp <= next_key'
    BY <1>1, <1>4, SpecialKeys DEF OneTimeInv, TypeOK, NoKey
  <2>4. \A j \in 1..Len(material'.one_time) : otp # material'.one_time[j].public
    <3> TAKE j \in 1..Len(material'.one_time)
    <3>1. from(j) \in 1..Len(held) /\ from(j) # index /\ material'.one_time[j] = held[from(j)]
      BY <1>9, <1>10
    <3>2. CASE index = 0
      BY <3>1, <3>2, <1>4, <1>13
    <3>3. CASE index # 0
      <4>1. index \in 1..Len(held) /\ otp = held[index].public
        BY <3>3, <1>4
      <4>2. held[from(j)].public # held[index].public
        BY <3>1, <4>1 DEF OneTimeInv
      <4> QED
        BY <3>1, <4>1, <4>2
    <3> QED
      BY <3>2, <3>3
  <2>5. ASSUME NEW i \in 1..Len(sessions')
        PROVE  /\ sessions'[i].one_time_prekey <= next_key'
               /\ \A j \in 1..Len(material'.one_time) :
                    sessions'[i].one_time_prekey # material'.one_time[j].public
    <3>1. CASE i \in 1..Len(sessions)
      BY <3>1, <1>1, <1>8, <1>9, <1>10, ZenonT(60) DEF OneTimeInv
    <3>2. CASE i = Len(sessions) + 1
      BY <3>2, <1>6, <1>8, <2>3, <2>4
    <3> QED
      BY <3>1, <3>2, <1>8
  <2> QED
    BY <2>1, <2>2, <2>5 DEF OneTimeInv
<1>16. OneTimeUsedOnce'
  <2> SUFFICES ASSUME NEW i \in 1..Len(sessions'), NEW j \in 1..Len(sessions'),
                      sessions'[i].one_time_prekey # NoKey,
                      sessions'[i].one_time_prekey = sessions'[j].one_time_prekey
               PROVE  i = j
    BY DEF OneTimeUsedOnce
  <2>1. CASE i \in 1..Len(sessions) /\ j \in 1..Len(sessions)
    BY <2>1, <1>8 DEF OneTimeUsedOnce
  <2>2. CASE i = Len(sessions) + 1 /\ j \in 1..Len(sessions)
    BY <2>2, <1>6, <1>8, <1>14
  <2>3. CASE j = Len(sessions) + 1 /\ i \in 1..Len(sessions)
    BY <2>3, <1>6, <1>8, <1>14
  <2> QED
    BY <2>1, <2>2, <2>3, <1>8
<1>17. SessionsInv'
  <2>1. ASSUME NEW i \in 1..Len(sessions')
        PROVE  sessions'[i] = AuthenticatedHandshake(sessions'[i].session_id,
                   sessions'[i].signed_prekey, sessions'[i].one_time_prekey,
                   sessions'[i].signed_prekey, sessions'[i].session_id.ratchet)
    <3>1. CASE i \in 1..Len(sessions)
      BY <3>1, <1>8 DEF SessionsInv
    <3>2. CASE i = Len(sessions) + 1
      BY <3>2, <1>7, <1>8
    <3> QED
      BY <3>1, <3>2, <1>8
  <2> QED
    BY <1>1, <2>1 DEF SessionsInv
<1>18. HeldInv'
  <2>1. \A x, y : HeldSigned(x, y) => HeldSigned(x, y)'
    BY <1>9 DEF HeldSigned
  <2>2. \A x : Consumed(x) => Consumed(x)'
    BY <1>8 DEF Consumed
  <2>3. Consumed(m.one_time_prekey_id)'
    BY <1>6, <1>8 DEF Consumed
  <2>4. ASSUME NEW x, HoldsOneTime(x)
        PROVE  HoldsOneTime(x)' \/ Consumed(x)'
    <3>1. PICK l \in 1..Len(held) : held[l].id = x
      BY <2>4 DEF HoldsOneTime
    <3>2. CASE l = index
      BY <3>1, <3>2, <2>3, <1>4
    <3>3. CASE index = 0 \/ l < index
      <4>1. l \in 1..Len(material'.one_time) /\ from(l) = l
        BY <3>3, <1>9 DEF from
      <4> QED
        BY <3>1, <4>1, <1>9 DEF HoldsOneTime
    <3>4. CASE index # 0 /\ l > index
      <4>1. l - 1 \in 1..Len(material'.one_time) /\ from(l - 1) = l
        BY <3>4, <1>9 DEF from
      <4> QED
        BY <3>1, <4>1, <1>9 DEF HoldsOneTime
    <3> QED
      BY <3>2, <3>3, <3>4
  <2> QED
    BY <1>1, <1>9, <2>1, <2>2, <2>4 DEF HeldInv
<1>19. NamesInv'
  <2>1. <<m.signed_prekey_id, key>> \in SignedNames
    BY <1>4 DEF HeldSigned, SignedNames
  <2>2. SignedNames' \subseteq SignedNames
    <3> SUFFICES ASSUME NEW x \in SignedNames' PROVE x \in SignedNames
      OBVIOUS
    <3>1. CASE x = <<m.signed_prekey_id, key>>
      BY <2>1, <3>1
    <3>2. CASE x # <<m.signed_prekey_id, key>>
      BY <3>2, <1>1, <1>6, <1>8, <1>9 DEF SignedNames
    <3> QED
      BY <3>1, <3>2
  <2>3. <<m.one_time_prekey_id, otp>> \in OneTimeNames \cup {<<NoKey, NoKey>>}
    BY <1>4 DEF OneTimeNames
  <2>4. \A j \in 1..Len(material'.one_time) :
          <<material'.one_time[j].id, material'.one_time[j].public>> \in OneTimeNames
    BY <1>9, <1>10 DEF OneTimeNames
  <2>5. OneTimeNames' \subseteq OneTimeNames \cup {<<NoKey, NoKey>>}
    <3> SUFFICES ASSUME NEW x \in OneTimeNames'
                 PROVE  x \in OneTimeNames \cup {<<NoKey, NoKey>>}
      OBVIOUS
    <3>1. CASE x = <<m.one_time_prekey_id, otp>>
      BY <2>3, <3>1
    <3>2. CASE \E j \in 1..Len(material'.one_time) :
                 x = <<material'.one_time[j].id, material'.one_time[j].public>>
      BY <2>4, <3>2
    <3>3. CASE /\ x # <<m.one_time_prekey_id, otp>>
               /\ ~\E j \in 1..Len(material'.one_time) :
                     x = <<material'.one_time[j].id, material'.one_time[j].public>>
      <4>1. CASE \E i \in 1..Len(sessions') :
                   x = <<sessions'[i].session_id.one_time_prekey_id,
                         sessions'[i].one_time_prekey>>
        <5>1. PICK i \in 1..Len(sessions') :
                x = <<sessions'[i].session_id.one_time_prekey_id,
                      sessions'[i].one_time_prekey>>
          BY <4>1
        <5>2. i \in 1..Len(sessions) /\ sessions'[i] = sessions[i]
          BY <5>1, <3>3, <1>6, <1>8
        <5> QED
          BY <5>1, <5>2 DEF OneTimeNames
      <4>2. CASE ~\E i \in 1..Len(sessions') :
                    x = <<sessions'[i].session_id.one_time_prekey_id,
                          sessions'[i].one_time_prekey>>
        BY <3>3, <4>2, <1>1 DEF OneTimeNames
      <4> QED
        BY <4>1, <4>2
    <3> QED
      BY <3>1, <3>2, <3>3
  <2> QED
    BY <1>1, <2>2, <2>5, NamesKept
<1> QED
  BY <1>12, <1>15, <1>16, <1>17, <1>18, <1>19

----------------------------------------------------------------------------
(* The inductive invariant and what it implies.                            *)

\* No step of the responder, of an initiator or of the clock breaks the
\* invariant; stuttering, as in every rejected arrival, does not either.
LEMMA HandshakeNextInv ==
    ASSUME HandshakeInv, [Next]_vars
    PROVE  HandshakeInv'
<1>1. CASE UNCHANGED vars
  <2>1. UNCHANGED <<now, next_key, material, usedIds, deleted, bundles, initiated, sessions>>
    BY <1>1 DEF vars
  <2>2. TypeOK'
    BY <2>1, Zenon DEF HandshakeInv, TypeOK
  <2> QED
    BY <2>1, <2>2
    DEF HandshakeInv, OneTimeInv, OneTimeUsedOnce, HeldInv, HeldSigned,
        HoldsOneTime, Consumed, SessionsInv, NamesInv, SignedNames, OneTimeNames
<1>2. CASE Tick
  <2>1. UNCHANGED <<next_key, material, usedIds, deleted, bundles, initiated, sessions>>
    BY <1>2 DEF Tick
  <2>2. TypeOK'
    <3>1. now' \in Nat
      BY <1>2 DEF HandshakeInv, TypeOK, Tick
    <3> QED
      BY <2>1, <3>1, Zenon DEF HandshakeInv, TypeOK
  <2> QED
    BY <2>1, <2>2
    DEF HandshakeInv, OneTimeInv, OneTimeUsedOnce, HeldInv, HeldSigned,
        HoldsOneTime, Consumed, SessionsInv, NamesInv, SignedNames, OneTimeNames
<1>3. CASE Publish
  BY <1>3, PublishStep
<1>4. ASSUME NEW id \in OneTimeIds, AddOneTimePrekey(id)
      PROVE  HandshakeInv'
  BY <1>4, AddOneTimePrekeyStep
<1>5. ASSUME NEW id \in SignedIds, NEW expires \in Expiries, RotateSignedPrekey(id, expires)
      PROVE  HandshakeInv'
  BY <1>5, RotateSignedPrekeyStep
<1>6. ASSUME NEW id \in SignedIds, RetireSignedPrekey(id)
      PROVE  HandshakeInv'
  BY <1>6, RetireSignedPrekeyStep
<1>7. ASSUME NEW identity \in Initiators, NEW b \in FetchedBundles, Initiate(identity, b)
      PROVE  HandshakeInv'
  BY <1>7, InitiateStep
<1>8. ASSUME NEW m \in Arrivals, Accept(m)
      PROVE  HandshakeInv'
  BY <1>8, AcceptStep
<1>9. ASSUME NEW m \in Arrivals, Reject(m)
      PROVE  HandshakeInv'
  BY <1>9, <1>1 DEF Reject
<1> QED
  BY <1>1, <1>2, <1>3, <1>4, <1>5, <1>6, <1>7, <1>8, <1>9 DEF Next

\* Every reachable state of the handshake satisfies the inductive invariant:
\* what bundles and messages refer to is held, deleted or consumed, one-time
\* prekeys held are in no session, and identifiers used once name one key.
THEOREM HandshakeInvariance == Spec => []HandshakeInv
  BY HandshakeInitInv, HandshakeNextInv, PTL DEF Spec

\* Material, bundles and sessions have their types: accept and initiate never
\* let an invalid binding or a low-order key through.
THEOREM HandshakeTypeCorrect == Spec => []TypeOK
<1>1. HandshakeInv => TypeOK
  BY DEF HandshakeInv
<1> QED
  BY <1>1, HandshakeInvariance, PTL

\* A one-time prekey enters at most one session accept returns, whether or not
\* the host uses identifiers again.
THEOREM OneTimePrekeyUsedOnce == Spec => []OneTimeUsedOnce
<1>1. HandshakeInv => OneTimeUsedOnce
  BY DEF HandshakeInv
<1> QED
  BY <1>1, HandshakeInvariance, PTL

\* The invariant implies that no initial message is refused before the host
\* deletes its signed prekey or another message consumes its one-time prekey.
LEMMA InvDelayedAccepted == HandshakeInv => DelayedAccepted
<1> SUFFICES ASSUME HandshakeInv, NEW s \in initiated, s.signed_prekey \notin deleted,
                    s.one_time_prekey # NoKey
                      => \A i \in 1..Len(sessions) :
                           sessions[i].session_id.one_time_prekey_id
                               # s.session_id.one_time_prekey_id
             PROVE  Accepts(s.session_id)
  BY DEF DelayedAccepted
<1> DEFINE m == s.session_id
           key == s.signed_prekey
<1> USE MaterialTypes DEF HandshakeInv
<1>1. m \in Message
  BY DEF TypeOK, Session
<1>2. m.binding /\ Contributory(m.identity) /\ Contributory(m.ephemeral)
  BY <1>1, SpecialKeys, Constants DEF Message, Contributory
<1>3. HeldSigned(m.signed_prekey_id, key)
  BY DEF HeldInv
<1>4. SignedPrekeyFor(m, key)
  <2>1. CASE m.signed_prekey_id = material.signed.key_id
    BY <1>3, <2>1 DEF HeldSigned, HeldInv, SignedPrekeyFor
  <2>2. CASE m.signed_prekey_id # material.signed.key_id
    <3>1. PICK i \in 1..Len(material.retired) :
            material.retired[i].key_id = m.signed_prekey_id /\ material.retired[i].public = key
      BY <1>3, <2>2 DEF HeldSigned
    <3>2. \A j \in 1..(i - 1) : material.retired[j].key_id # m.signed_prekey_id
      BY <3>1 DEF HeldInv
    <3> QED
      BY <2>2, <3>1, <3>2 DEF SignedPrekeyFor
  <2> QED
    BY <2>1, <2>2
<1>5. key \in SignedKeys
  BY <1>3 DEF HeldSigned, SignedKeys, ToSet
<1>6. PICK index \in 0..Len(material.one_time) : OneTimeIndexFor(m, index)
  <2>1. CASE m.one_time_prekey_id = NoKey
    BY <2>1 DEF OneTimeIndexFor
  <2>2. CASE m.one_time_prekey_id # NoKey
    <3>1. s.one_time_prekey # NoKey
      BY <2>2 DEF SessionsInv
    <3>2. HoldsOneTime(m.one_time_prekey_id)
      BY <2>2, <3>1 DEF HeldInv, Consumed
    <3>3. PICK i \in 1..Len(material.one_time) : material.one_time[i].id = m.one_time_prekey_id
      BY <3>2 DEF HoldsOneTime
    <3>4. \A j \in 1..(i - 1) : material.one_time[j].id # m.one_time_prekey_id
      BY <3>3 DEF OneTimeInv
    <3> QED
      BY <2>2, <3>3, <3>4 DEF OneTimeIndexFor
  <2> QED
    BY <2>1, <2>2
<1> QED
  BY <1>2, <1>4, <1>5, <1>6 DEF Accepts, AcceptsWith

\* accept takes an initial message however late, past any number of rotations,
\* until the host deletes its signed prekey or its one-time prekey is consumed.
THEOREM DelayedMessageAccepted == Spec => []DelayedAccepted
  BY InvDelayedAccepted, HandshakeInvariance, PTL

\* Where no identifier is used twice, the two ends of one session identifier
\* used the same prekeys, unless the one-time prekey was altered in transit.
LEMMA SamePrekeys ==
    ASSUME HandshakeInv, FreshIds, NEW s \in initiated, NEW i \in 1..Len(sessions),
           s.session_id = sessions[i].session_id
    PROVE  /\ s.signed_prekey = sessions[i].signed_prekey
           /\ s.one_time_prekey # Garbled => s.one_time_prekey = sessions[i].one_time_prekey
<1> DEFINE id == s.session_id.signed_prekey_id
           other == s.session_id.one_time_prekey_id
<1>1. <<id, s.signed_prekey>> \in SignedNames /\ <<id, sessions[i].signed_prekey>> \in SignedNames
  BY DEF SignedNames
<1>2. s.signed_prekey = sessions[i].signed_prekey
  BY <1>1 DEF HandshakeInv, NamesInv
<1>3. ASSUME s.one_time_prekey # Garbled
      PROVE  s.one_time_prekey = sessions[i].one_time_prekey
  <2>1. /\ <<other, s.one_time_prekey>> \in OneTimeNames
        /\ <<other, sessions[i].one_time_prekey>> \in OneTimeNames
    BY <1>3 DEF OneTimeNames
  <2> QED
    BY <2>1 DEF HandshakeInv, NamesInv
<1> QED
  BY <1>2, <1>3

LEMMA InvAgreement == HandshakeInv /\ FreshIds => Agreement
<1> SUFFICES ASSUME HandshakeInv, FreshIds, NEW s \in initiated, NEW i \in 1..Len(sessions),
                    s.session_id = sessions[i].session_id, s.one_time_prekey # Garbled
             PROVE  /\ s.root_secret = sessions[i].root_secret
                    /\ s.remote_ratchet = sessions[i].local_ratchet
                    /\ s.local_ratchet = sessions[i].remote_ratchet
  BY DEF Agreement
<1> DEFINE r == sessions[i]
           m == s.session_id
<1>1. s.signed_prekey = r.signed_prekey /\ s.one_time_prekey = r.one_time_prekey
  BY SamePrekeys
<1>2. /\ s.root_secret = RootSecret(m, s.signed_prekey, s.one_time_prekey)
      /\ s.local_ratchet = m.ratchet /\ s.remote_ratchet = s.signed_prekey
  BY DEF HandshakeInv, SessionsInv, AuthenticatedHandshake
<1>3. /\ r.root_secret = RootSecret(m, r.signed_prekey, r.one_time_prekey)
      /\ r.local_ratchet = r.signed_prekey /\ r.remote_ratchet = m.ratchet
  <2>1. r = AuthenticatedHandshake(m, r.signed_prekey, r.one_time_prekey,
                                   r.signed_prekey, m.ratchet)
    BY DEF HandshakeInv, SessionsInv
  <2> HIDE DEF r, m
  <2> QED
    BY <2>1 DEF AuthenticatedHandshake
<1> QED
  BY <1>1, <1>2, <1>3

\* Initiator and responder that hold one session identifier hold one root
\* secret and each other's ratchet keys, however stale the bundle and late the
\* message, as long as the host never uses a prekey identifier twice.
THEOREM HandshakeAgreement ==
    ASSUME FreshIds
    PROVE  Spec => []Agreement
<1>1. HandshakeInv => Agreement
  BY InvAgreement
<1> QED
  BY <1>1, HandshakeInvariance, PTL

LEMMA InvDuplicateSame == HandshakeInv /\ FreshIds => DuplicateSameSession
<1> SUFFICES ASSUME HandshakeInv, FreshIds,
                    NEW i \in 1..Len(sessions), NEW j \in 1..Len(sessions),
                    sessions[i].session_id = sessions[j].session_id
             PROVE  sessions[i] = sessions[j]
  BY DEF DuplicateSameSession
<1> DEFINE m == sessions[i].session_id
           s == sessions[i]
           r == sessions[j]
<1>1. s.signed_prekey = r.signed_prekey
  <2>1. /\ <<m.signed_prekey_id, s.signed_prekey>> \in SignedNames
        /\ <<m.signed_prekey_id, r.signed_prekey>> \in SignedNames
    BY DEF SignedNames
  <2> QED
    BY <2>1 DEF HandshakeInv, NamesInv
<1>2. s.one_time_prekey = r.one_time_prekey
  <2>1. /\ <<m.one_time_prekey_id, s.one_time_prekey>> \in OneTimeNames
        /\ <<m.one_time_prekey_id, r.one_time_prekey>> \in OneTimeNames
    BY DEF OneTimeNames
  <2> QED
    BY <2>1 DEF HandshakeInv, NamesInv
<1>3. /\ s = AuthenticatedHandshake(m, s.signed_prekey, s.one_time_prekey,
                                    s.signed_prekey, m.ratchet)
      /\ r = AuthenticatedHandshake(m, r.signed_prekey, r.one_time_prekey,
                                    r.signed_prekey, m.ratchet)
  BY DEF HandshakeInv, SessionsInv
<1> QED
  BY <1>1, <1>2, <1>3

\* accept makes the same session of a duplicated initial message, whatever was
\* rotated in between, as long as no identifier is used twice.
THEOREM DuplicateMessageSameSession ==
    ASSUME FreshIds
    PROVE  Spec => []DuplicateSameSession
<1>1. HandshakeInv => DuplicateSameSession
  BY InvDuplicateSame
<1> QED
  BY <1>1, HandshakeInvariance, PTL

\* Without reused identifiers, accept spends a one-time prekey only on a
\* handshake that was initiated with it: reuse is the only way around this.
THEOREM OneTimeSpentOnItsHandshake ==
    ASSUME FreshIds
    PROVE  Spec => []ConsumedByMatching
<1>1. HandshakeInv => ConsumedByMatching
  BY SamePrekeys DEF ConsumedByMatching
<1> QED
  BY <1>1, HandshakeInvariance, PTL

----------------------------------------------------------------------------
(* Both profiles implement the classical handshake.                        *)

LEMMA ProfileStep ==
    ASSUME [HybridNext \/ ClassicalNext]_hybridVars
    PROVE  [Next]_vars
<1>1. CASE UNCHANGED hybridVars
  BY <1>1 DEF hybridVars
<1>2. CASE ClassicalNext
  BY <1>2 DEF ClassicalNext
<1>3. CASE Publish \/ (\E id \in OneTimeIds : AddOneTimePrekey(id)) \/ Tick
  BY <1>3 DEF Next
<1>4. ASSUME NEW identity \in Initiators, NEW b \in FetchedHybridBundles,
             HybridInitiate(identity, b)
      PROVE  Next
  <2>1. b.classical \in FetchedBundles
    BY DEF FetchedHybridBundles, HybridBundle
  <2> QED
    BY <1>4, <2>1 DEF HybridInitiate, Next
<1>5. ASSUME NEW m \in HybridArrivals, HybridAccept(m) \/ HybridReject(m)
      PROVE  Next
  <2>1. m.classical \in Arrivals
    BY DEF HybridArrivals
  <2> QED
    BY <1>5, <2>1 DEF HybridAccept, HybridReject, Next
<1> QED
  BY <1>1, <1>2, <1>3, <1>4, <1>5 DEF HybridNext

\* Whichever profile a responder runs, its classical part behaves as Handshake
\* says: HybridInitiator and HybridResponder only ever call the classical
\* operations, whole, and add to them.
THEOREM ProfilesImplementHandshake == ProfilesSpec => Spec
<1>1. HybridInit => Init
  BY DEF HybridInit
<1> QED
  BY <1>1, ProfileStep, PTL DEF ProfilesSpec, Spec

----------------------------------------------------------------------------
(* What mixing yields.                                                     *)

\* decapsulate always yields a secret, an unrelated one for a bad ciphertext.
LEMMA DecapsulateType ==
    ASSUME NEW c \in Ciphertext
    PROVE  /\ decapsulate(MlKemKey, c) \in SharedSecret
           /\ decapsulate(MlKemKey, c).of = c
<1>1. (c.intact /\ c.key = MlKemKey) \in BOOLEAN
  BY Zenon
<1> DEFINE agreed == c.intact /\ c.key = MlKemKey
<1>2. decapsulate(MlKemKey, c) = [key |-> MlKemKey, of |-> c, agreed |-> agreed]
  BY DEF decapsulate
<1> HIDE DEF agreed
<1>3. agreed \in BOOLEAN
  BY <1>1, Zenon DEF agreed
<1> QED
  BY <1>2, <1>3 DEF SharedSecret

\* A mixed session keeps the classical one's prekeys and ratchet keys; its
\* identifier and its root name the classical ones and the shared secret.
LEMMA MixedSession ==
    \A s \in Session, shared \in SharedSecret :
        LET x == mix_ml_kem768(s, shared)
        IN  /\ x \in HybridSession
            /\ x.session_id = <<s.session_id, shared>>
            /\ x.root_secret = [session_id |-> <<s.session_id, shared>>,
                                classical_root |-> s.root_secret, shared_secret |-> shared]
            /\ x.local_ratchet = s.local_ratchet /\ x.remote_ratchet = s.remote_ratchet
<1> SUFFICES ASSUME NEW s \in Session, NEW shared \in SharedSecret
             PROVE  LET x == mix_ml_kem768(s, shared)
                    IN  /\ x \in HybridSession
                        /\ x.session_id = <<s.session_id, shared>>
                        /\ x.root_secret = [session_id |-> <<s.session_id, shared>>,
                                            classical_root |-> s.root_secret,
                                            shared_secret |-> shared]
                        /\ x.local_ratchet = s.local_ratchet
                        /\ x.remote_ratchet = s.remote_ratchet
  OBVIOUS
<1> DEFINE id == <<s.session_id, shared>>
           root == [session_id |-> id, classical_root |-> s.root_secret, shared_secret |-> shared]
           x == mix_ml_kem768(s, shared)
<1>1. s.session_id \in Message /\ s.root_secret \in Secret
  BY DEF Session
<1>2. id \in HybridId
  BY <1>1 DEF HybridId
<1> HIDE DEF id
<1>3. root \in [session_id : HybridId, classical_root : Secret, shared_secret : SharedSecret]
  BY <1>1, <1>2
<1> HIDE DEF root
<1>4. x = [session_id |-> id, root_secret |-> root, local_ratchet |-> s.local_ratchet,
           remote_ratchet |-> s.remote_ratchet, signed_prekey |-> s.signed_prekey,
           one_time_prekey |-> s.one_time_prekey]
  <2>1. s = [session_id |-> s.session_id, root_secret |-> s.root_secret,
             local_ratchet |-> s.local_ratchet, remote_ratchet |-> s.remote_ratchet,
             signed_prekey |-> s.signed_prekey, one_time_prekey |-> s.one_time_prekey]
    BY DEF Session
  <2>2. x = [s EXCEPT !.session_id = id, !.root_secret = root]
    BY Zenon DEF mix_ml_kem768, id, root
  <2> HIDE DEF x
  <2> QED
    BY <2>1, <2>2
<1> HIDE DEF x
<1>5. x \in HybridSession
  BY <1>2, <1>3, <1>4 DEF HybridSession, Session
<1> QED
  BY <1>4, <1>5 DEF id, root, x

----------------------------------------------------------------------------
(* The inductive invariant.                                                *)

LEMMA HybridInitInv == HybridInit => HybridInv
<1> SUFFICES ASSUME HybridInit PROVE HybridInv
  OBVIOUS
<1>1. /\ pq \in {NoKey, MlKemKey} /\ hybridInitiated = {} /\ hybridSessions = << >>
      /\ sessions = << >>
  BY DEF HybridInit, Init
<1>2. /\ hybridSessions \in Seq(HybridSession) /\ Len(hybridSessions) = 0
      /\ Len(hybridSessions) = Len(sessions)
  BY <1>1
<1>3. AcceptedMixed
  BY <1>2 DEF AcceptedMixed
<1> QED
  BY <1>1, <1>2, <1>3 DEF HybridInv, InitiatedMixed

\* Only initiating and accepting change a hybrid variable, and only accepting
\* the classical sessions the hybrid ones stem from.
LEMMA OtherStep ==
    ASSUME HybridInv, UNCHANGED <<pq, hybridInitiated, hybridSessions>>,
           initiated \subseteq initiated', UNCHANGED sessions \/ pq = NoKey
    PROVE  HybridInv'
<1>1. CASE pq = NoKey
  BY <1>1 DEF HybridInv, AcceptedMixed, InitiatedMixed
<1>2. CASE pq # NoKey
  <2>1. AcceptedMixed' /\ InitiatedMixed'
    BY <1>2 DEF HybridInv, AcceptedMixed, InitiatedMixed
  <2> QED
    BY <1>2, <2>1 DEF HybridInv
<1> QED
  BY <1>1, <1>2

\* A bundle that verifies is put together from one published bundle and the
\* responder's own ML-KEM key: the signature covers both.
LEMMA VerifiedBundle ==
    ASSUME TypeOK, NEW b \in FetchedHybridBundles, HybridVerifies(b)
    PROVE  /\ b.classical \in bundles /\ b.pq_public = pq
           /\ b.classical.one_time.public # Garbled
<1>1. b.classical \in bundles /\ b.pq_public = pq
  BY DEF FetchedHybridBundles, HybridVerifies, HybridBundle, binding_transcript
<1>2. b.classical.one_time \in OneTimeRecord \cup {NoOneTime}
  BY <1>1 DEF TypeOK
<1>3. b.classical.one_time.public \in Nat \cup {NoKey}
  BY <1>2 DEF OneTimeRecord, NoOneTime, OneTimePrekey
<1> QED
  BY <1>1, <1>3, SpecialKeys

LEMMA HybridInitiateStep ==
    ASSUME HandshakeInv, HybridInv, pq # NoKey, NEW identity \in Initiators,
           NEW b \in FetchedHybridBundles, HybridInitiate(identity, b)
    PROVE  HybridInv'
<1> DEFINE kem == encapsulate(b.pq_public, next_key)
           c == [key |-> pq, seed |-> next_key, intact |-> TRUE]
<1>1. /\ UNCHANGED <<pq, hybridSessions, sessions>> /\ initiated \subseteq initiated'
      /\ pq = MlKemKey
  BY DEF HybridInitiate, Initiate, HybridInv
<1>2. /\ b.pq_public = pq /\ b.classical.one_time.public # Garbled
      /\ next_key \in Nat
  BY VerifiedBundle DEF HybridInitiate, HandshakeInv, TypeOK
<1>3. c \in Ciphertext
  BY <1>1, <1>2 DEF Ciphertext
<1>4. kem.ciphertext = c /\ kem.shared = decapsulate(pq, c)
  <2>1. (c.intact /\ c.key = pq) = TRUE
    BY Zenon
  <2> QED
    BY <1>2, <2>1, Zenon DEF encapsulate, decapsulate
<1>5. PICK s \in initiated' \ initiated :
        hybridInitiated' = hybridInitiated \cup
          {[message |-> [classical |-> s.session_id, pq_ciphertext |-> kem.ciphertext],
            handshake |-> mix_ml_kem768(s, kem.shared)]}
  BY DEF HybridInitiate
<1>6. s.one_time_prekey # Garbled
  <2>1. \E m, local, remote :
          s = AuthenticatedHandshake(m, b.classical.signed.public,
                                     b.classical.one_time.public, local, remote)
    BY <1>5, Zenon DEF HybridInitiate, Initiate
  <2>2. s.one_time_prekey = b.classical.one_time.public
    BY <2>1 DEF AuthenticatedHandshake
  <2> QED
    BY <1>2, <2>2
<1> DEFINE new == [message |-> [classical |-> s.session_id, pq_ciphertext |-> c],
                   handshake |-> mix_ml_kem768(s, decapsulate(pq, c))]
<1>7. hybridInitiated' = hybridInitiated \cup {new}
  BY <1>4, <1>5, Zenon
<1>8. /\ new.message.classical = s.session_id /\ new.message.pq_ciphertext = c
      /\ new.handshake = mix_ml_kem768(s, decapsulate(pq, c))
  OBVIOUS
<1> HIDE DEF new, c
<1>9. InitiatedMixed'
  <2> SUFFICES ASSUME NEW h \in hybridInitiated'
               PROVE  \E t \in initiated' :
                        /\ t.one_time_prekey # Garbled
                        /\ h.message.pq_ciphertext \in Ciphertext
                        /\ h.message.classical = t.session_id
                        /\ h.handshake =
                             mix_ml_kem768(t, decapsulate(pq', h.message.pq_ciphertext))
    BY Zenon DEF InitiatedMixed
  <2>1. CASE h \in hybridInitiated
    BY <1>1, <2>1 DEF HybridInv, InitiatedMixed
  <2>2. CASE h = new
    <3>1. h.message.pq_ciphertext = c /\ pq' = pq /\ s \in initiated'
      BY <1>1, <1>5, <1>8, <2>2
    <3>2. h.handshake = mix_ml_kem768(s, decapsulate(pq', h.message.pq_ciphertext))
      BY <1>8, <2>2, <3>1, Zenon
    <3> QED
      BY <1>3, <1>6, <1>8, <2>2, <3>1, <3>2
  <2> QED
    BY <1>7, <2>1, <2>2
<1>10. AcceptedMixed'
  BY <1>1 DEF HybridInv, AcceptedMixed
<1> QED
  BY <1>1, <1>9, <1>10 DEF HybridInv

LEMMA HybridAcceptStep ==
    ASSUME HandshakeInv, HandshakeInv', HybridInv, pq # NoKey,
           NEW m \in HybridArrivals, HybridAccept(m)
    PROVE  HybridInv'
<1> DEFINE c == m.pq_ciphertext
           new == mix_ml_kem768(Last(sessions'), decapsulate(pq, c))
<1>1. /\ UNCHANGED <<pq, initiated, hybridInitiated>> /\ pq = MlKemKey
      /\ hybridSessions' = Append(hybridSessions, new)
  BY DEF HybridAccept, Accept, HybridInv
<1>2. /\ sessions \in Seq(Session) /\ sessions' \in Seq(Session)
      /\ Len(sessions) = Len(hybridSessions) /\ hybridSessions \in Seq(HybridSession)
  BY DEF HandshakeInv, TypeOK, HybridInv
<1>3. /\ Len(sessions') = Len(sessions) + 1
      /\ \A i \in 1..Len(sessions) : sessions'[i] = sessions[i]
  <2>1. \E x : sessions' = Append(sessions, x)
    BY Zenon DEF HybridAccept, Accept
  <2> QED
    BY <1>2, <2>1
<1>4. Last(sessions') = sessions'[Len(sessions) + 1] /\ Last(sessions') \in Session
  BY <1>2, <1>3 DEF Last
<1>5. c \in Ciphertext
  <2>1. \A h \in hybridInitiated : h.message.pq_ciphertext \in Ciphertext
    BY DEF HybridInv, InitiatedMixed
  <2>2. \E x \in Ciphertext : c = x \/ c = [x EXCEPT !.intact = FALSE]
    <3> DEFINE sent == {x.pq_ciphertext : x \in HybridMessages}
    <3>1. sent \subseteq Ciphertext
      BY <2>1 DEF HybridMessages
    <3> DEFINE arriving == sent \cup {[x EXCEPT !.intact = FALSE] : x \in sent}
    <3>2. \E y \in arriving, x \in Arrivals : m = [classical |-> x, pq_ciphertext |-> y]
      BY DEF HybridArrivals
    <3>3. c \in arriving
      BY <3>2
    <3> QED
      BY <3>1, <3>3
  <2> QED
    BY <2>2 DEF Ciphertext
<1>6. decapsulate(pq, c) \in SharedSecret /\ decapsulate(pq, c).of = c
  BY <1>1, <1>5, DecapsulateType
<1>7. new \in HybridSession /\ new.root_secret.shared_secret.of = c
  <2> DEFINE shared == decapsulate(pq, c)
             last == Last(sessions')
  <2>1. /\ new = mix_ml_kem768(last, shared) /\ last \in Session
        /\ shared \in SharedSecret /\ shared.of = c
    BY <1>4, <1>6
  <2> HIDE DEF shared, last, new
  <2>2. new \in HybridSession /\ new.root_secret = [session_id |-> <<last.session_id, shared>>,
                         classical_root |-> last.root_secret, shared_secret |-> shared]
    BY <2>1, MixedSession
  <2> QED
    BY <2>1, <2>2
<1>8. new = mix_ml_kem768(sessions'[Len(sessions) + 1],
                decapsulate(pq', new.root_secret.shared_secret.of))
  BY <1>1, <1>4, <1>7
<1> HIDE DEF new, c
<1>9. /\ hybridSessions' \in Seq(HybridSession) /\ Len(hybridSessions') = Len(sessions')
      /\ Len(hybridSessions') = Len(hybridSessions) + 1
      /\ \A i \in 1..Len(hybridSessions) : hybridSessions'[i] = hybridSessions[i]
      /\ hybridSessions'[Len(hybridSessions) + 1] = new
  BY <1>1, <1>2, <1>3, <1>7
<1>10. ASSUME NEW i \in 1..Len(hybridSessions')
       PROVE  hybridSessions'[i] = mix_ml_kem768(sessions'[i],
                  decapsulate(pq', hybridSessions'[i].root_secret.shared_secret.of))
  <2>1. CASE i \in 1..Len(hybridSessions)
    <3>1. hybridSessions'[i] = hybridSessions[i] /\ sessions'[i] = sessions[i] /\ pq' = pq
      BY <2>1, <1>1, <1>2, <1>3, <1>9
    <3> QED
      BY <2>1, <3>1 DEF HybridInv, AcceptedMixed
  <2>2. CASE i = Len(hybridSessions) + 1
    BY <2>2, <1>2, <1>8, <1>9
  <2> QED
    BY <2>1, <2>2, <1>2, <1>9
<1>11. AcceptedMixed'
  BY <1>10 DEF AcceptedMixed
<1>12. InitiatedMixed'
  BY <1>1 DEF HybridInv, InitiatedMixed
<1> QED
  BY <1>1, <1>9, <1>11, <1>12 DEF HybridInv

LEMMA HybridNextInv ==
    ASSUME HandshakeInv, HandshakeInv', HybridInv, [HybridNext \/ ClassicalNext]_hybridVars
    PROVE  HybridInv'
<1>1. CASE UNCHANGED hybridVars
  BY <1>1, OtherStep DEF hybridVars, vars
<1>2. CASE ClassicalNext
  <2>1. initiated \subseteq initiated'
    BY <1>2 DEF ClassicalNext, Next, Publish, AddOneTimePrekey, RotateSignedPrekey,
                RetireSignedPrekey, Initiate, Accept, Reject, vars, Tick
  <2> QED
    BY <1>2, <2>1, OtherStep DEF ClassicalNext
<1>3. CASE /\ Publish \/ (\E id \in OneTimeIds : AddOneTimePrekey(id)) \/ Tick
           /\ UNCHANGED <<pq, hybridInitiated, hybridSessions>>
  <2>1. UNCHANGED <<initiated, sessions>>
    BY <1>3 DEF Publish, AddOneTimePrekey, Tick
  <2> QED
    BY <1>3, <2>1, OtherStep
<1>4. ASSUME NEW identity \in Initiators, NEW b \in FetchedHybridBundles, pq # NoKey,
             HybridInitiate(identity, b)
      PROVE  HybridInv'
  BY <1>4, HybridInitiateStep
<1>5. ASSUME NEW m \in HybridArrivals, pq # NoKey, HybridAccept(m)
      PROVE  HybridInv'
  BY <1>5, HybridAcceptStep
<1>6. ASSUME NEW m \in HybridArrivals, HybridReject(m)
      PROVE  HybridInv'
  BY <1>6, OtherStep DEF HybridReject, Reject, vars
<1> QED
  BY <1>1, <1>2, <1>3, <1>4, <1>5, <1>6 DEF HybridNext

\* In either profile every reachable state satisfies the classical and the
\* hybrid inductive invariant: both ends mix in what the responder's own
\* ML-KEM key makes of the ciphertext.
THEOREM HybridInvariance == ProfilesSpec => [](HandshakeInv /\ HybridInv)
<1>1. ProfilesSpec => []HandshakeInv
  BY ProfilesImplementHandshake, HandshakeInvariance, PTL
<1> QED
  BY <1>1, HybridInitInv, HybridNextInv, PTL DEF ProfilesSpec

----------------------------------------------------------------------------
(* Agreement.                                                              *)

\* What the invariant says of one end of a hybrid session.
LEMMA InitiatedEnd ==
    ASSUME HandshakeInv, HybridInv, NEW h \in hybridInitiated
    PROVE  \E s \in initiated :
             LET shared == decapsulate(pq, h.message.pq_ciphertext)
                 id == <<s.session_id, shared>>
             IN  /\ s.one_time_prekey # Garbled /\ h.message.classical = s.session_id
                 /\ h.handshake.session_id = id
                 /\ h.handshake.root_secret = [session_id |-> id,
                        classical_root |-> s.root_secret, shared_secret |-> shared]
                 /\ h.handshake.local_ratchet = s.local_ratchet
                 /\ h.handshake.remote_ratchet = s.remote_ratchet
<1>1. pq = MlKemKey
  BY DEF HybridInv
<1> DEFINE c == h.message.pq_ciphertext
<1>2. PICK s \in initiated :
        /\ s.one_time_prekey # Garbled /\ c \in Ciphertext
        /\ h.message.classical = s.session_id
        /\ h.handshake = mix_ml_kem768(s, decapsulate(pq, c))
  BY DEF HybridInv, InitiatedMixed
<1>3. s \in Session
  BY DEF HandshakeInv, TypeOK
<1> DEFINE shared == decapsulate(pq, c)
<1>4. shared \in SharedSecret /\ h.handshake = mix_ml_kem768(s, shared)
  BY <1>1, <1>2, DecapsulateType
<1> HIDE DEF shared
<1>5. /\ h.handshake.session_id = <<s.session_id, shared>>
      /\ h.handshake.root_secret = [session_id |-> <<s.session_id, shared>>,
             classical_root |-> s.root_secret, shared_secret |-> shared]
      /\ h.handshake.local_ratchet = s.local_ratchet
      /\ h.handshake.remote_ratchet = s.remote_ratchet
  BY <1>3, <1>4, MixedSession
<1> QED
  BY <1>2, <1>5, Zenon DEF shared

LEMMA AcceptedEnd ==
    ASSUME HandshakeInv, HybridInv, NEW i \in 1..Len(hybridSessions)
    PROVE  LET r == hybridSessions[i]
               shared == decapsulate(pq, r.root_secret.shared_secret.of)
               id == <<sessions[i].session_id, shared>>
           IN  /\ i \in 1..Len(sessions)
               /\ r.session_id = id
               /\ r.root_secret = [session_id |-> id,
                      classical_root |-> sessions[i].root_secret, shared_secret |-> shared]
               /\ r.local_ratchet = sessions[i].local_ratchet
               /\ r.remote_ratchet = sessions[i].remote_ratchet
<1> DEFINE r == hybridSessions[i]
           c == r.root_secret.shared_secret.of
           s == sessions[i]
<1>1. pq = MlKemKey /\ i \in 1..Len(sessions) /\ hybridSessions \in Seq(HybridSession)
  BY DEF HybridInv
<1>2. s \in Session
  BY <1>1 DEF HandshakeInv, TypeOK
<1>3. c \in Ciphertext
  <2>0. r \in HybridSession
    BY <1>1
  <2>1. r.root_secret.shared_secret \in SharedSecret
    BY <2>0 DEF HybridSession
  <2> QED
    BY <2>1 DEF SharedSecret
<1>4. r = mix_ml_kem768(s, decapsulate(pq, c))
  BY DEF HybridInv, AcceptedMixed
<1> HIDE DEF c, s
<1>5. decapsulate(pq, c) \in SharedSecret
  BY <1>1, <1>3, DecapsulateType
<1>6. /\ r.session_id = <<s.session_id, decapsulate(pq, c)>>
      /\ r.root_secret = [session_id |-> <<s.session_id, decapsulate(pq, c)>>,
             classical_root |-> s.root_secret, shared_secret |-> decapsulate(pq, c)]
      /\ r.local_ratchet = s.local_ratchet /\ r.remote_ratchet = s.remote_ratchet
  BY <1>2, <1>4, <1>5, MixedSession
<1> QED
  BY <1>1, <1>6, Zenon DEF c, s

LEMMA InvUnalteredShared == HandshakeInv /\ HybridInv => UnalteredShared
<1> SUFFICES ASSUME HandshakeInv, HybridInv,
                    NEW h \in hybridInitiated, NEW i \in 1..Len(hybridSessions),
                    sessions[i].session_id = h.message.classical,
                    hybridSessions[i].root_secret.shared_secret.of = h.message.pq_ciphertext
             PROVE  hybridSessions[i].session_id = h.handshake.session_id
  BY DEF UnalteredShared
<1> DEFINE shared == decapsulate(pq, h.message.pq_ciphertext)
<1>1. h.handshake.session_id = <<h.message.classical, shared>>
  BY InitiatedEnd, Zenon
<1>2. hybridSessions[i].session_id = <<sessions[i].session_id, shared>>
  BY AcceptedEnd, Zenon
<1> QED
  BY <1>1, <1>2

\* A hybrid message that arrives unaltered, from a bundle that verified,
\* always leads the responder to the initiator's session; this needs nothing
\* of the host's prekey identifiers.
THEOREM UnalteredMessageShared == ProfilesSpec => []UnalteredShared
  BY InvUnalteredShared, HybridInvariance, PTL

LEMMA InvHybridAgreement == HandshakeInv /\ HybridInv /\ FreshIds => HybridAgreement
<1> SUFFICES ASSUME HandshakeInv, HybridInv, FreshIds,
                    NEW h \in hybridInitiated, NEW i \in 1..Len(hybridSessions),
                    h.handshake.session_id = hybridSessions[i].session_id
             PROVE  /\ h.handshake.root_secret = hybridSessions[i].root_secret
                    /\ h.handshake.remote_ratchet = hybridSessions[i].local_ratchet
                    /\ h.handshake.local_ratchet = hybridSessions[i].remote_ratchet
  BY DEF HybridAgreement
<1> DEFINE shared == decapsulate(pq, h.message.pq_ciphertext)
           r == hybridSessions[i]
           other == decapsulate(pq, r.root_secret.shared_secret.of)
<1>1. PICK s \in initiated :
        /\ s.one_time_prekey # Garbled
        /\ h.handshake.session_id = <<s.session_id, shared>>
        /\ h.handshake.root_secret = [session_id |-> <<s.session_id, shared>>,
               classical_root |-> s.root_secret, shared_secret |-> shared]
        /\ h.handshake.local_ratchet = s.local_ratchet
        /\ h.handshake.remote_ratchet = s.remote_ratchet
  BY InitiatedEnd
<1>2. /\ i \in 1..Len(sessions)
      /\ r.session_id = <<sessions[i].session_id, other>>
      /\ r.root_secret = [session_id |-> <<sessions[i].session_id, other>>,
             classical_root |-> sessions[i].root_secret, shared_secret |-> other]
      /\ r.local_ratchet = sessions[i].local_ratchet
      /\ r.remote_ratchet = sessions[i].remote_ratchet
  BY AcceptedEnd
<1> HIDE DEF shared, other
<1>3. s.session_id = sessions[i].session_id /\ shared = other
  <2>1. <<s.session_id, shared>> = <<sessions[i].session_id, other>>
    BY <1>1, <1>2, Zenon
  <2> QED
    BY <2>1
<1>4. /\ s.root_secret = sessions[i].root_secret
      /\ s.remote_ratchet = sessions[i].local_ratchet
      /\ s.local_ratchet = sessions[i].remote_ratchet
  BY <1>1, <1>2, <1>3, InvAgreement DEF Agreement
<1> QED
  BY <1>1, <1>2, <1>3, <1>4

\* Two ends that hold one hybrid session identifier hold one root and each
\* other's ratchet keys, whatever was altered in transit, as long as the host
\* never uses a prekey identifier twice.
THEOREM HybridSessionsAgree ==
    ASSUME FreshIds
    PROVE  ProfilesSpec => []HybridAgreement
<1>1. HandshakeInv /\ HybridInv => HybridAgreement
  BY InvHybridAgreement
<1> QED
  BY <1>1, HybridInvariance, PTL

============================================================================
