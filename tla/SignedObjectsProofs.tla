------------------------ MODULE SignedObjectsProofs -------------------------
(***************************************************************************)
(* Proofs about SignedObjects, for any number of containers, signers and   *)
(* recipients and any set of recipients that use their content keys        *)
(* outside the program.                                                    *)
(***************************************************************************)
EXTENDS SignedObjects, FiniteSetTheorems, TLAPS

(* What a written container is: wrapped for its recipients under its own   *)
(* key, complete, and signed by its maker alone over what it says.         *)
Genuine(m) ==
  LET box == m.box
      h == m.box.header
      metadata == m.box.header.sealed.metadata IN
  /\ m.to \subseteq Recipients
  /\ h.stanzas = {wrap_cek(r, h.object) : r \in m.to}
  /\ box.mac = [key |-> h.object, preamble |-> box.preamble, header |-> h]
  /\ box.payload.key = h.object /\ box.payload.header = h
  /\ h.sealed.key = h.object /\ h.sealed.object = h.object
  /\ admitted(box)
  /\ h.signatures = {} \/ h.sealed.signature = {}
  /\ Cardinality(h.sealed.signature) <= 1
  /\ is_signed(box.preamble) <=> m.maker # Nobody
  /\ AllSignatures(h) =
       IF m.maker = Nobody THEN {}
       ELSE {[by |-> m.maker,
              over |-> transcript(box.preamble, h, metadata, box.payload.text)]}

(* Every container on record is genuine, and no two are of one object.     *)
MadeIsGenuine ==
  /\ \A m \in made : Genuine(m) /\ m.box.header.object \in 1..objects
  /\ \A m, n \in made : m.box.header.object = n.box.header.object => m = n

(* What was opened did open, and holds only what could be put into it.     *)
OpenedIsPossible ==
  \A q \in opened :
    /\ Opens(q.reader, q.key, q.box)
    /\ AllSignatures(q.box.header) \subseteq SignaturesAround
    /\ q.key \notin KnownKeys =>
         /\ \E m \in made : q.box.mac = m.box.mac
         /\ \E m \in made : q.box.payload = m.box.payload

IInv == TypeOK /\ MadeIsGenuine /\ OpenedIsPossible

-----------------------------------------------------------------------------
(* The stanzas wrap_cek makes for a set of recipients are stanzas, and     *)
(* there are finitely many.                                                *)
LEMMA StanzasType ==
  ASSUME NEW rs \in SUBSET Recipients, NEW o \in Object
  PROVE  LET S == {wrap_cek(r, o) : r \in rs} IN
         S \in SUBSET Stanza /\ IsFiniteSet(S) /\ Cardinality(S) \in Nat
<1> DEFINE S == {wrap_cek(r, o) : r \in rs}
<1>1. S \in SUBSET Stanza
  BY DEF Stanza, wrap_cek, Object, Key
<1>2. IsFiniteSet(rs)
  BY SignedBounds, FS_Subset
<1>3. IsFiniteSet(S)
  <2> DEFINE f == [r \in rs |-> wrap_cek(r, o)]
  <2>1. f \in Surjection(rs, S)
    BY DEF Surjection
  <2> QED
    BY <1>2, <2>1, FS_Surjection DEF ExistsSurjection
<1> QED
  BY <1>1, <1>3, FS_CardinalityType

(* What a signature of the program is over is a transcript.                *)
LEMMA SignedType ==
  ASSUME NEW s \in Signers, NEW p \in Preamble, NEW rs \in SUBSET Recipients,
         NEW u \in {0, 1}, NEW x \in {0, 1}, NEW metadata \in Metadata, NEW text \in Texts,
         objects + 1 \in Object
  PROVE  Signed(s, p, rs, u, x, metadata, text) \in Signature
<1> DEFINE o == objects + 1
           S == {wrap_cek(r, o) : r \in rs}
           h == [object |-> o, stanzas |-> S, unknown |-> u, ext |-> x]
<1>1. S \in SUBSET Stanza /\ Cardinality(S) \in Nat
  BY StanzasType
<1>2. Signed(s, p, rs, u, x, metadata, text) = [by |-> s, over |-> transcript(p, h, metadata, text)]
  BY DEF Signed
<1> HIDE DEF S
<1>3. Cardinality(S) + u \in Nat
  BY <1>1
<1>4. [minor |-> LEGACY_SIGNED_MINOR, flags |-> 0] \in Preamble
  BY DEF Preamble, LEGACY_SIGNED_MINOR
<1>5. transcript(p, h, metadata, text) \in Transcript
  BY <1>1, <1>3, <1>4 DEF transcript, legacy_transcript, Transcript
<1> QED
  BY <1>2, <1>5 DEF Signature

(* Writing a container keeps the invariant, when its signature, if it has  *)
(* one, is its maker's over what it says.                                  *)
LEMMA WriteStep ==
  ASSUME IInv, NEW maker \in Signers \cup {Nobody}, NEW p \in Preamble,
         NEW rs \in SUBSET Recipients, NEW u \in {0, 1}, NEW x \in {0, 1},
         NEW metadata \in Metadata, NEW text \in Texts, NEW ps, NEW cs,
         objects < MaxObjects,
         ps = {} \/ cs = {},
         ps \cup cs = IF maker = Nobody THEN {}
                     ELSE {Signed(maker, p, rs, u, x, metadata, text)},
         is_signed(p) <=> maker # Nobody,
         is_legacy(p) => x = 0 /\ u = 0 /\ metadata.ext = 0,
         Write(maker, p, rs, u, x, metadata, text, ps, cs)
  PROVE  IInv'
<1> DEFINE o == objects + 1
           S == {wrap_cek(r, o) : r \in rs}
           h == [object |-> o, stanzas |-> S, unknown |-> u, ext |-> x, signatures |-> ps,
                 sealed |-> [key |-> o, object |-> o, metadata |-> metadata, signature |-> cs]]
           box == Assembled(o, p, h, text)
           new == [maker |-> maker, to |-> rs, box |-> box]
<1>1. /\ from_parts(p) /\ well_formed(h)
      /\ made' = made \cup {new} /\ objects' = o /\ opened' = {}
  BY DEF Write
<1>2. o \in Object /\ o \in Key /\ objects \in Nat
  BY SignedBounds DEF IInv, TypeOK, Object, Key
<1>3. S \in SUBSET Stanza
  BY <1>2, StanzasType
<1>4. ps \in SUBSET Signature /\ cs \in SUBSET Signature
  <2>1. CASE maker = Nobody
    BY <2>1
  <2>2. CASE maker # Nobody
    <3>1. Signed(maker, p, rs, u, x, metadata, text) \in Signature
      BY <1>2, <2>2, SignedType
    <3> QED
      BY <2>2, <3>1
  <2> QED
    BY <2>1, <2>2
<1>5. Cardinality(cs) <= 1
  <2>1. cs = {} \/ \E g : cs = {g}
    OBVIOUS
  <2>2. Cardinality(cs) = 0 \/ Cardinality(cs) = 1
    BY <2>1, FS_EmptySet, FS_Singleton, Zenon
  <2> QED
    BY <2>2
<1>6. new \in [maker : Signers \cup {Nobody}, to : SUBSET Recipients, box : Container]
  <2>1. h.sealed \in Sealed
    BY <1>2, <1>4 DEF Sealed
  <2> HIDE DEF S
  <2>2. h \in Header
    BY <1>2, <1>3, <1>4, <2>1 DEF Header
  <2> HIDE DEF h
  <2>3. box \in Container
    BY <1>2, <2>2 DEF Container, Assembled
  <2> QED
    BY <2>3
<1>7. TypeOK'
  BY <1>1, <1>2, <1>6, SignedBounds DEF IInv, TypeOK, Object
<1>8. Genuine(new)
  <2>1. /\ new.to = rs /\ new.maker = maker /\ new.box = box
        /\ box.header = h /\ box.preamble = p
        /\ box.mac = [key |-> o, preamble |-> p, header |-> h]
        /\ box.payload = [key |-> o, header |-> h, text |-> text]
    BY DEF Assembled
  <2>2. /\ h.object = o /\ h.stanzas = S /\ h.unknown = u /\ h.ext = x /\ h.signatures = ps
        /\ h.sealed = [key |-> o, object |-> o, metadata |-> metadata, signature |-> cs]
    OBVIOUS
  <2>3. /\ h.sealed.key = o /\ h.sealed.object = o
        /\ h.sealed.metadata = metadata /\ h.sealed.signature = cs
    BY <2>2
  <2>4. admitted(box)
    BY <1>1, <2>1, <2>2, <2>3 DEF admitted
  <2>5. Signed(maker, p, rs, u, x, metadata, text) =
          [by |-> maker, over |-> transcript(p, h, metadata, text)]
    BY <2>2 DEF Signed, transcript, legacy_transcript
  <2>6. AllSignatures(h) = ps \cup cs
    BY <2>2, <2>3 DEF AllSignatures
  <2>7. box.payload.key = o /\ box.payload.header = h /\ box.payload.text = text
    BY DEF Assembled
  <2> HIDE DEF h, box, new
  <2> QED
    BY <1>5, <2>1, <2>2, <2>3, <2>4, <2>5, <2>6, <2>7 DEF Genuine
<1>9. new.box.header.object = o
  BY DEF Assembled
<1>10. MadeIsGenuine'
  <2> HIDE DEF new
  <2>1. \A m \in made : m.box.header.object \in 1..objects
    BY DEF IInv, MadeIsGenuine
  <2>2. \A m \in made' : Genuine(m) /\ m.box.header.object \in 1..o
    BY <1>1, <1>2, <1>8, <1>9 DEF IInv, MadeIsGenuine
  <2>3. \A m \in made : m.box.header.object # new.box.header.object
    BY <1>2, <1>9, <2>1
  <2>4. \A m, n \in made' : m.box.header.object = n.box.header.object => m = n
    BY <1>1, <2>3 DEF IInv, MadeIsGenuine
  <2> QED
    BY <1>1, <2>2, <2>4 DEF MadeIsGenuine
<1>11. OpenedIsPossible'
  BY <1>1 DEF OpenedIsPossible
<1> QED
  BY <1>7, <1>10, <1>11 DEF IInv

(* An unsigned container.                                                  *)
LEMMA EncryptStep ==
  ASSUME IInv, NEW minor \in {CURRENT_MINOR, LaterMinor}, NEW rs \in SUBSET Recipients,
         NEW u \in {0, 1}, NEW x \in {0, 1}, NEW metadata \in Metadata, NEW text \in Texts,
         Encrypt(minor, rs, u, x, metadata, text)
  PROVE  IInv'
<1> DEFINE p == [minor |-> minor, flags |-> 0]
<1>1. /\ objects < MaxObjects
      /\ Write(Nobody, p, rs, u, x, metadata, text, {}, {})
  BY DEF Encrypt
<1>2. p \in Preamble /\ ~is_legacy(p) /\ ~is_signed(p)
  BY DEF Preamble, is_legacy, is_signed, CURRENT_MINOR, LaterMinor,
         LEGACY_SIGNED_MINOR, FLAG_SIGNED
<1> HIDE DEF p
<1> QED
  BY <1>1, <1>2, WriteStep

(* A container signed in its metadata or in its header.                    *)
LEMMA EncryptSignedStep ==
  ASSUME IInv, NEW s \in Signers, NEW minor \in {CURRENT_MINOR, LaterMinor},
         NEW confidential \in BOOLEAN, NEW rs \in SUBSET Recipients,
         NEW u \in {0, 1}, NEW x \in {0, 1}, NEW metadata \in Metadata, NEW text \in Texts,
         EncryptSigned(s, minor, confidential, rs, u, x, metadata, text)
  PROVE  IInv'
<1> DEFINE p == [minor |-> minor, flags |-> FLAG_SIGNED]
           g == Signed(s, p, rs, u, x, metadata, text)
<1>1. /\ objects < MaxObjects
      /\ \/ Write(s, p, rs, u, x, metadata, text, {}, {g})
         \/ Write(s, p, rs, u, x, metadata, text, {g}, {})
  BY DEF EncryptSigned
<1>2. p \in Preamble /\ ~is_legacy(p) /\ is_signed(p)
  BY DEF Preamble, is_legacy, is_signed, CURRENT_MINOR, LaterMinor,
         LEGACY_SIGNED_MINOR, FLAG_SIGNED
<1>3. s # Nobody /\ s \in Signers \cup {Nobody}
  BY SignedBounds
<1> HIDE DEF p
<1>4. CASE Write(s, p, rs, u, x, metadata, text, {}, {g})
  BY <1>1, <1>2, <1>3, <1>4, WriteStep
<1>5. CASE Write(s, p, rs, u, x, metadata, text, {g}, {})
  BY <1>1, <1>2, <1>3, <1>5, WriteStep
<1> QED
  BY <1>1, <1>4, <1>5

(* A signed container of the old version.                                  *)
LEMMA EncryptLegacyStep ==
  ASSUME IInv, NEW s \in Signers, NEW rs \in SUBSET Recipients,
         NEW name \in Names, NEW text \in Texts,
         EncryptLegacy(s, rs, name, text)
  PROVE  IInv'
<1> DEFINE p == [minor |-> LEGACY_SIGNED_MINOR, flags |-> 0]
           metadata == [name |-> name, ext |-> 0]
           g == Signed(s, p, rs, 0, 0, metadata, text)
<1>1. /\ objects < MaxObjects
      /\ Write(s, p, rs, 0, 0, metadata, text, {g}, {})
  BY DEF EncryptLegacy
<1>2. p \in Preamble /\ is_signed(p)
  BY DEF Preamble, is_legacy, is_signed, LEGACY_SIGNED_MINOR
<1>3. s # Nobody /\ s \in Signers \cup {Nobody}
  BY SignedBounds
<1>4. metadata \in Metadata /\ metadata.ext = 0
  BY DEF Metadata
<1> HIDE DEF p, metadata
<1> QED
  BY <1>1, <1>2, <1>3, <1>4, WriteStep

(* Opening whatever can be put together.                                   *)
LEMMA ReceiveStep ==
  ASSUME IInv, NEW r \in Recipients, Receive(r)
  PROVE  IInv'
<1>1. PICK k \in 0..objects, o \in 1..objects, S \in SUBSET StanzasAround :
        \E p \in Preamble, u \in {0, 1}, x \in {0, 1},
           ps \in AtMostOne(SignaturesAround), sealed \in SealedAround(o, k) :
          LET h == [object |-> o, stanzas |-> S, unknown |-> u, ext |-> x,
                    signatures |-> ps, sealed |-> sealed] IN
          \E mac \in MacsAround(k, p, h), payload \in PayloadsAround(k, h) :
            Open(r, k, [preamble |-> p, header |-> h, mac |-> mac, payload |-> payload])
  BY DEF Receive
<1>2. PICK p \in Preamble, u \in {0, 1}, x \in {0, 1},
           ps \in AtMostOne(SignaturesAround), sealed \in SealedAround(o, k) :
          LET h == [object |-> o, stanzas |-> S, unknown |-> u, ext |-> x,
                    signatures |-> ps, sealed |-> sealed] IN
          \E mac \in MacsAround(k, p, h), payload \in PayloadsAround(k, h) :
            Open(r, k, [preamble |-> p, header |-> h, mac |-> mac, payload |-> payload])
  BY <1>1
<1> DEFINE h == [object |-> o, stanzas |-> S, unknown |-> u, ext |-> x,
                 signatures |-> ps, sealed |-> sealed]
<1>3. PICK mac \in MacsAround(k, p, h), payload \in PayloadsAround(k, h) :
        Open(r, k, [preamble |-> p, header |-> h, mac |-> mac, payload |-> payload])
  BY <1>2
<1> DEFINE box == [preamble |-> p, header |-> h, mac |-> mac, payload |-> payload]
           q == [reader |-> r, key |-> k, box |-> box]
<1>4. Opens(r, k, box) /\ opened' = {q} /\ UNCHANGED <<made, objects>>
  BY <1>3 DEF Open
<1>5. /\ k \in Key /\ o \in Object /\ KnownKeys \subseteq Key
      /\ 1..objects \subseteq Object
  BY SignedBounds DEF IInv, TypeOK, Key, Object, KnownKeys, MadeIsGenuine
<1>6. \A m \in made : /\ m.box \in Container /\ m.box.header \in Header
                      /\ m.box.header.sealed \in Sealed
                      /\ m.box.mac \in [key : Key, preamble : Preamble, header : Header]
                      /\ m.box.payload \in [key : Key, header : Header, text : Texts]
                      /\ m.box.header.stanzas \subseteq Stanza
                      /\ AllSignatures(m.box.header) \subseteq Signature
  <2> SUFFICES ASSUME NEW m \in made
               PROVE  /\ m.box \in Container /\ m.box.header \in Header
                      /\ m.box.header.sealed \in Sealed
                      /\ m.box.mac \in [key : Key, preamble : Preamble, header : Header]
                      /\ m.box.payload \in [key : Key, header : Header, text : Texts]
                      /\ m.box.header.stanzas \subseteq Stanza
                      /\ AllSignatures(m.box.header) \subseteq Signature
    OBVIOUS
  <2>1. m.box \in Container
    BY DEF IInv, TypeOK
  <2>2. /\ m.box.header \in Header
        /\ m.box.mac \in [key : Key, preamble : Preamble, header : Header]
        /\ m.box.payload \in [key : Key, header : Header, text : Texts]
    BY <2>1 DEF Container
  <2>3. /\ m.box.header.sealed \in Sealed /\ m.box.header.stanzas \subseteq Stanza
        /\ m.box.header.signatures \subseteq Signature
    BY <2>2 DEF Header
  <2>4. m.box.header.sealed.signature \subseteq Signature
    BY <2>3 DEF Sealed
  <2> QED
    BY <2>1, <2>2, <2>3, <2>4 DEF AllSignatures
<1>7. StanzasAround \subseteq Stanza
  <2>1. Rewrapped \subseteq Stanza
    BY <1>5 DEF Stanza, Rewrapped
  <2>2. UNION {m.box.header.stanzas : m \in made} \subseteq Stanza
    BY <1>6
  <2> QED
    BY <2>1, <2>2 DEF StanzasAround
<1>8. SignaturesAround \subseteq Signature
  BY <1>6 DEF SignaturesAround
<1>9. ps \subseteq SignaturesAround
  BY DEF AtMostOne
<1>10. sealed \in Sealed /\ sealed.signature \subseteq SignaturesAround
  <2>1. CASE \E m \in made : sealed = m.box.header.sealed
    BY <1>6, <2>1 DEF SignaturesAround, AllSignatures
  <2>2. CASE sealed \in [key : {k}, object : {o}, metadata : Metadata,
                         signature : AtMostOne(SignaturesAround)]
    <3>1. sealed.signature \subseteq SignaturesAround
      BY <2>2 DEF AtMostOne
    <3> QED
      BY <1>5, <1>8, <2>2, <3>1 DEF Sealed
  <2> QED
    BY <2>1, <2>2 DEF SealedAround
<1>11. h \in Header /\ AllSignatures(h) \subseteq SignaturesAround
  BY <1>5, <1>7, <1>8, <1>9, <1>10 DEF Header, AllSignatures
<1> HIDE DEF h
<1>12. /\ mac \in [key : Key, preamble : Preamble, header : Header]
       /\ k \notin KnownKeys => \E m \in made : mac = m.box.mac
  BY <1>5, <1>6, <1>11 DEF MacsAround
<1>13. /\ payload \in [key : Key, header : Header, text : Texts]
       /\ k \notin KnownKeys => \E m \in made : payload = m.box.payload
  BY <1>5, <1>6, <1>11 DEF PayloadsAround
<1>14. box \in Container
  BY <1>11, <1>12, <1>13 DEF Container
<1>15. TypeOK'
  <2>1. q \in [reader : Recipients, key : Key, box : Container]
    BY <1>5, <1>14
  <2> QED
    BY <1>4, <2>1 DEF IInv, TypeOK
<1>16. MadeIsGenuine'
  BY <1>4 DEF IInv, MadeIsGenuine
<1>17. OpenedIsPossible'
  <2>1. /\ q.reader = r /\ q.key = k /\ q.box = box
        /\ box.header = h /\ box.mac = mac /\ box.payload = payload
    OBVIOUS
  <2>2. SignaturesAround' = SignaturesAround /\ KnownKeys' = KnownKeys
    BY <1>4 DEF SignaturesAround, KnownKeys
  <2> HIDE DEF q, box
  <2> QED
    BY <1>4, <1>11, <1>12, <1>13, <2>1, <2>2 DEF OpenedIsPossible
<1> QED
  BY <1>15, <1>16, <1>17 DEF IInv

-----------------------------------------------------------------------------
(* IInv is an invariant.                                                   *)
THEOREM Inductive == Spec => []IInv
<1>1. Init => IInv
  BY SignedBounds DEF Init, IInv, TypeOK, MadeIsGenuine, OpenedIsPossible
<1>2. IInv /\ [Next]_vars => IInv'
  <2> SUFFICES ASSUME IInv, [Next]_vars PROVE IInv'
    OBVIOUS
  <2>1. CASE UNCHANGED vars
    BY <2>1 DEF vars, IInv, TypeOK, MadeIsGenuine, OpenedIsPossible, SignaturesAround, KnownKeys
  <2>2. ASSUME NEW minor \in {CURRENT_MINOR, LaterMinor}, NEW rs \in SUBSET Recipients,
               NEW u \in {0, 1}, NEW x \in {0, 1}, NEW metadata \in Metadata,
               NEW text \in Texts, Encrypt(minor, rs, u, x, metadata, text)
        PROVE  IInv'
    BY <2>2, EncryptStep
  <2>3. ASSUME NEW s \in Signers, NEW minor \in {CURRENT_MINOR, LaterMinor},
               NEW confidential \in BOOLEAN, NEW rs \in SUBSET Recipients,
               NEW u \in {0, 1}, NEW x \in {0, 1}, NEW metadata \in Metadata,
               NEW text \in Texts,
               EncryptSigned(s, minor, confidential, rs, u, x, metadata, text)
        PROVE  IInv'
    BY <2>3, EncryptSignedStep
  <2>4. ASSUME NEW s \in Signers, NEW rs \in SUBSET Recipients, NEW name \in Names,
               NEW text \in Texts, EncryptLegacy(s, rs, name, text)
        PROVE  IInv'
    BY <2>4, EncryptLegacyStep
  <2>5. ASSUME NEW r \in Recipients, Receive(r) PROVE IInv'
    BY <2>5, ReceiveStep
  <2>6. CASE \E minor \in {CURRENT_MINOR, LaterMinor}, rs \in SUBSET Recipients,
               u \in {0, 1}, x \in {0, 1}, metadata \in Metadata, text \in Texts :
               \/ Encrypt(minor, rs, u, x, metadata, text)
               \/ \E s \in Signers, confidential \in BOOLEAN :
                    EncryptSigned(s, minor, confidential, rs, u, x, metadata, text)
    <3>1. PICK minor \in {CURRENT_MINOR, LaterMinor}, rs \in SUBSET Recipients,
               u \in {0, 1}, x \in {0, 1}, metadata \in Metadata, text \in Texts :
               \/ Encrypt(minor, rs, u, x, metadata, text)
               \/ \E s \in Signers, confidential \in BOOLEAN :
                    EncryptSigned(s, minor, confidential, rs, u, x, metadata, text)
      BY <2>6, Zenon
    <3>2. CASE Encrypt(minor, rs, u, x, metadata, text)
      BY <2>2, <3>2
    <3>3. CASE \E s \in Signers, confidential \in BOOLEAN :
                 EncryptSigned(s, minor, confidential, rs, u, x, metadata, text)
      <4>1. PICK s \in Signers, confidential \in BOOLEAN :
                 EncryptSigned(s, minor, confidential, rs, u, x, metadata, text)
        BY <3>3, Zenon
      <4> QED
        BY <2>3, <4>1, Zenon
    <3> QED
      BY <3>1, <3>2, <3>3
  <2>7. CASE \E s \in Signers, rs \in SUBSET Recipients, name \in Names, text \in Texts :
               EncryptLegacy(s, rs, name, text)
    BY <2>4, <2>7, Zenon
  <2> QED
    BY <2>1, <2>5, <2>6, <2>7, Zenon DEF Next
<1> QED
  BY <1>1, <1>2, PTL DEF Spec

(* Two containers whose signatures cover the same transcript say the same, *)
(* whether or not they are of the old version.                             *)
LEMMA TranscriptBinds ==
  ASSUME NEW a \in Container, NEW b \in Container, admitted(a), admitted(b),
         transcript(a.preamble, a.header, a.header.sealed.metadata, a.payload.text)
           = transcript(b.preamble, b.header, b.header.sealed.metadata, b.payload.text)
  PROVE  /\ a.preamble = b.preamble
         /\ a.header.object = b.header.object /\ a.header.stanzas = b.header.stanzas
         /\ a.header.unknown = b.header.unknown /\ a.header.ext = b.header.ext
         /\ a.header.sealed.metadata = b.header.sealed.metadata
         /\ a.payload.text = b.payload.text
<1> DEFINE T(c) == transcript(c.preamble, c.header, c.header.sealed.metadata, c.payload.text)
<1>1. \A c \in Container :
        /\ T(c).context = IF is_legacy(c.preamble) THEN "HIDE/0.5" ELSE "HIDE/1.0"
        /\ T(c).object = c.header.object /\ T(c).stanzas = c.header.stanzas
        /\ T(c).metadata = c.header.sealed.metadata /\ T(c).text = c.payload.text
        /\ ~is_legacy(c.preamble) => /\ T(c).preamble = c.preamble
                                     /\ T(c).unknown = c.header.unknown
                                     /\ T(c).ext = c.header.ext
  BY DEF transcript, legacy_transcript
<1>2. T(a) = T(b)
  OBVIOUS
<1>3. a.preamble \in Preamble /\ b.preamble \in Preamble
  BY DEF Container
<1> HIDE DEF T
<1>4. is_legacy(a.preamble) <=> is_legacy(b.preamble)
  BY <1>1, <1>2
<1>5. CASE is_legacy(a.preamble)
  <2>1. /\ a.preamble.minor = b.preamble.minor /\ a.preamble.flags = b.preamble.flags
        /\ a.header.unknown = b.header.unknown /\ a.header.ext = b.header.ext
    BY <1>4, <1>5 DEF admitted, from_parts, is_legacy
  <2>2. a.preamble = b.preamble
    BY <1>3, <2>1 DEF Preamble
  <2> QED
    BY <1>1, <1>2, <2>1, <2>2
<1>6. CASE ~is_legacy(a.preamble)
  BY <1>1, <1>2, <1>4, <1>6
<1> QED
  BY <1>5, <1>6

(* Type correctness, for every run of the program and of whoever holds     *)
(* content keys.                                                           *)
THEOREM TypeCorrect == Spec => []TypeOK
  BY Inductive, PTL DEF IInv

(* verify_signature after decrypt_to_staging: whoever an open names as the *)
(* signer wrote that object for exactly those recipients, with that        *)
(* metadata, those extensions and that plaintext.                          *)
THEOREM AuthorTheorem == Spec => []AuthorIsBound
<1>1. IInv => AuthorIsBound
  <2> SUFFICES ASSUME IInv, NEW q \in opened, NEW s \in signer(q.box)
               PROVE  \E m \in made :
                        /\ m.maker = s /\ q.reader \in m.to
                        /\ m.box.preamble = q.box.preamble
                        /\ m.box.header.object = q.box.header.object
                        /\ m.box.header.stanzas = q.box.header.stanzas
                        /\ m.box.header.unknown = q.box.header.unknown
                        /\ m.box.header.ext = q.box.header.ext
                        /\ m.box.header.sealed.metadata = q.box.header.sealed.metadata
                        /\ m.box.payload.text = q.box.payload.text
    BY DEF AuthorIsBound
  <2>1. PICK g \in AllSignatures(q.box.header) : s = g.by
    BY DEF signer
  <2>2. PICK m \in made : g \in AllSignatures(m.box.header)
    BY <2>1 DEF IInv, OpenedIsPossible, SignaturesAround
  <2>3. Genuine(m) /\ m.box \in Container /\ q.box \in Container
    BY DEF IInv, MadeIsGenuine, TypeOK
  <2>4. g = [by |-> m.maker,
             over |-> transcript(m.box.preamble, m.box.header, m.box.header.sealed.metadata,
                                 m.box.payload.text)]
    BY <2>2, <2>3 DEF Genuine
  <2>5. Opens(q.reader, q.key, q.box)
    BY DEF IInv, OpenedIsPossible
  <2>6. g.over = transcript(q.box.preamble, q.box.header, q.box.header.sealed.metadata,
                            q.box.payload.text)
    BY <2>1, <2>5 DEF Opens, verify_signature
  <2>7. m.maker = s
    BY <2>1, <2>4
  <2>8. transcript(m.box.preamble, m.box.header, m.box.header.sealed.metadata,
                   m.box.payload.text)
          = transcript(q.box.preamble, q.box.header, q.box.header.sealed.metadata,
                       q.box.payload.text)
    BY <2>4, <2>6
  <2>9. admitted(m.box) /\ admitted(q.box)
    BY <2>3, <2>5 DEF Genuine, Opens
  <2>10. /\ m.box.preamble = q.box.preamble
         /\ m.box.header.object = q.box.header.object
         /\ m.box.header.stanzas = q.box.header.stanzas
         /\ m.box.header.unknown = q.box.header.unknown
         /\ m.box.header.ext = q.box.header.ext
         /\ m.box.header.sealed.metadata = q.box.header.sealed.metadata
         /\ m.box.payload.text = q.box.payload.text
    BY <2>3, <2>8, <2>9, TranscriptBinds
  <2>11. q.reader \in m.to
    <3>1. PICK t \in q.box.header.stanzas : t.to = q.reader
      BY <2>5 DEF Opens, recover_cek
    <3>2. PICK r \in m.to : t = wrap_cek(r, m.box.header.object)
      BY <2>3, <2>10, <3>1 DEF Genuine
    <3> QED
      BY <3>1, <3>2 DEF wrap_cek
  <2> QED
    BY <2>7, <2>10, <2>11
<1> QED
  BY <1>1, Inductive, PTL

(* The header MAC and the payload key: under the key of an object whose    *)
(* recipients are all honest nothing opens but the container as written.   *)
THEOREM OutsiderTheorem == Spec => []OutsidersAlterNothing
<1>1. IInv => OutsidersAlterNothing
  <2> SUFFICES ASSUME IInv, NEW q \in opened, q.key \notin KnownKeys
               PROVE  \E m \in made : m.box = q.box
    BY DEF OutsidersAlterNothing
  <2>1. PICK m \in made : q.box.mac = m.box.mac
    BY DEF IInv, OpenedIsPossible
  <2>2. PICK n \in made : q.box.payload = n.box.payload
    BY DEF IInv, OpenedIsPossible
  <2>3. Genuine(m) /\ Genuine(n)
    BY DEF IInv, MadeIsGenuine
  <2>4. /\ q.box.mac = [key |-> q.key, preamble |-> q.box.preamble, header |-> q.box.header]
        /\ q.box.payload.header = q.box.header
    BY DEF IInv, OpenedIsPossible, Opens, recover_cek
  <2>5. m.box.mac = [key |-> m.box.header.object, preamble |-> m.box.preamble,
                     header |-> m.box.header]
    BY <2>3 DEF Genuine
  <2>6. m.box.preamble = q.box.preamble /\ m.box.header = q.box.header
    <3>1. /\ m.box.mac.preamble = m.box.preamble /\ m.box.mac.header = m.box.header
          /\ q.box.mac.preamble = q.box.preamble /\ q.box.mac.header = q.box.header
      BY <2>4, <2>5
    <3> QED
      BY <2>1, <3>1
  <2>7. n.box.header = m.box.header
    BY <2>2, <2>3, <2>4, <2>6 DEF Genuine
  <2>8. n = m
    BY <2>7 DEF IInv, MadeIsGenuine
  <2>9. m.box \in Container /\ q.box \in Container
    BY DEF IInv, TypeOK
  <2>10. m.box = q.box
    BY <2>1, <2>2, <2>6, <2>8, <2>9 DEF Container
  <2> QED
    BY <2>10
<1> QED
  BY <1>1, Inductive, PTL

(* encrypt_inner against decrypt_to_staging: what the program writes, in   *)
(* any version and placement, opens for everyone it was written for.       *)
THEOREM WrittenOpensTheorem == Spec => []WrittenOpens
<1>1. IInv => WrittenOpens
  <2> SUFFICES ASSUME IInv, NEW m \in made, NEW r \in m.to
               PROVE  Opens(r, m.box.header.object, m.box)
    BY DEF WrittenOpens
  <2>1. Genuine(m)
    BY DEF IInv, MadeIsGenuine
  <2>2. wrap_cek(r, m.box.header.object) \in m.box.header.stanzas
    BY <2>1 DEF Genuine
  <2>3. recover_cek(r, m.box.header.object, m.box)
    BY <2>1, <2>2 DEF Genuine, recover_cek, wrap_cek
  <2>4. verify_signature(m.box)
    <3> DEFINE T == transcript(m.box.preamble, m.box.header, m.box.header.sealed.metadata,
                               m.box.payload.text)
    <3>1. /\ m.box.header.signatures = {} \/ m.box.header.sealed.signature = {}
          /\ is_signed(m.box.preamble) <=> m.maker # Nobody
          /\ AllSignatures(m.box.header) =
               IF m.maker = Nobody THEN {} ELSE {[by |-> m.maker, over |-> T]}
      BY <2>1 DEF Genuine
    <3> HIDE DEF T
    <3>2. AllSignatures(m.box.header) # {} <=> is_signed(m.box.preamble)
      BY <3>1
    <3>3. \A g \in AllSignatures(m.box.header) : g.over = T
      BY <3>1
    <3> QED
      BY <3>1, <3>2, <3>3 DEF verify_signature, T
  <2> QED
    BY <2>1, <2>3, <2>4 DEF Genuine, Opens
<1> QED
  BY <1>1, Inductive, PTL
=============================================================================
