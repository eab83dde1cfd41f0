---------------------------- MODULE SignedObjects ---------------------------
(***************************************************************************)
(* The header and the signature of a container                             *)
(* (crates/hide-object/src/lib.rs, over crates/hide-format): whom an open  *)
(* names as the signer, and of what, when some recipients use the content  *)
(* key they were given to write headers and payloads of their own.         *)
(*                                                                         *)
(* The content key of a container is the number of its object, which is    *)
(* fresh; key 0 is one an outsider chose.  A stanza wraps a content key    *)
(* for one recipient and one object, and whoever wraps a key again gets    *)
(* another stanza.  A hash is what it hashes.  Header extensions, stanzas  *)
(* of an unknown type and metadata extensions are absent (0) or present    *)
(* (1).  The payload is one value here; ObjectRecords takes it apart.      *)
(***************************************************************************)
EXTENDS Naturals, FiniteSets

CONSTANTS
  Signers,             \* signing identities, all in honest hands
  Recipients,          \* recipient keys
  Rogues,              \* recipients that use content keys outside the program
  Names,               \* file names
  Texts,               \* plaintexts
  MAX_RECIPIENTS,      \* stanzas a header may hold
  MaxObjects,          \* bound on the containers written
  Nobody               \* the maker of a container that is not signed

ASSUME SignedBounds == /\ MAX_RECIPIENTS \in Nat /\ MaxObjects \in Nat
                       /\ Rogues \subseteq Recipients /\ IsFiniteSet(Recipients)
                       /\ Nobody \notin Signers

CURRENT_MINOR == 1
LEGACY_SIGNED_MINOR == 2
LaterMinor == 3
FLAG_SIGNED == 1

Object == 1..MaxObjects
Key == 0..MaxObjects
Preamble == [minor : {0, CURRENT_MINOR, LEGACY_SIGNED_MINOR, LaterMinor}, flags : 0..2]
Metadata == [name : Names, ext : {0, 1}]
Stanza == [to : Recipients, object : Object, cek : Key, by : {"writer", "outsider"}]
Transcript == [context : {"HIDE/0.5", "HIDE/1.0"}, preamble : Preamble, object : Object,
               stanzas : SUBSET Stanza, count : Nat, unknown : {0, 1}, ext : {0, 1},
               metadata : Metadata, text : Texts]
Signature == [by : Signers, over : Transcript]

(* The encrypted metadata, with the confidential signature if there is one.*)
Sealed == [key : Key, object : Object, metadata : Metadata, signature : SUBSET Signature]

(* ProtectedHeader: at most one public signature.                          *)
Header == [object : Object, stanzas : SUBSET Stanza, unknown : {0, 1}, ext : {0, 1},
           sealed : Sealed, signatures : SUBSET Signature]
Container == [preamble : Preamble, header : Header,
              mac : [key : Key, preamble : Preamble, header : Header],
              payload : [key : Key, header : Header, text : Texts]]

VARIABLES
  made,                \* containers written by the program, and for whom
  objects,             \* how many there are
  opened               \* what the last call returned, if it was an open

vars == <<made, objects, opened>>

-----------------------------------------------------------------------------
(* Preamble (crates/hide-format/src/lib.rs).                               *)
is_legacy(p) == p.minor = LEGACY_SIGNED_MINOR

is_signed(p) == is_legacy(p) \/ p.flags = FLAG_SIGNED

from_parts(p) ==
  /\ p.minor # 0
  /\ p.flags \in {0, FLAG_SIGNED}
  /\ is_legacy(p) => p.flags = 0

(* ProtectedHeader::encode and decode check the same limits.               *)
well_formed(h) ==
  /\ Cardinality(h.stanzas) + h.unknown \in 1..MAX_RECIPIENTS
  /\ Cardinality(h.signatures) <= 1

-----------------------------------------------------------------------------
(* What a signature covers.  The legacy transcript leaves out the          *)
(* preamble, the extensions and what an unknown stanza says.               *)
legacy_transcript(h, metadata, text) ==
  [context |-> "HIDE/0.5",
   preamble |-> [minor |-> LEGACY_SIGNED_MINOR, flags |-> 0],
   object |-> h.object, stanzas |-> h.stanzas,
   count |-> Cardinality(h.stanzas) + h.unknown, unknown |-> 0, ext |-> 0,
   metadata |-> metadata, text |-> text]

(* Mutant of transcript: the recipients are not signed.                    *)
transcript_unaddressed(p, h, metadata, text) ==
  [context |-> "HIDE/1.0", preamble |-> p, object |-> h.object, stanzas |-> {},
   count |-> 0, unknown |-> h.unknown, ext |-> h.ext,
   metadata |-> metadata, text |-> text]

transcript(p, h, metadata, text) ==
  IF is_legacy(p) THEN legacy_transcript(h, metadata, text)
  ELSE [context |-> "HIDE/1.0", preamble |-> p, object |-> h.object,
        stanzas |-> h.stanzas, count |-> Cardinality(h.stanzas) + h.unknown,
        unknown |-> h.unknown, ext |-> h.ext,
        metadata |-> metadata, text |-> text]

wrap_cek(r, o) == [to |-> r, object |-> o, cek |-> o, by |-> "writer"]

(* The container with header h, everything under the content key k.        *)
Assembled(k, p, h, text) ==
  [preamble |-> p, header |-> h,
   mac |-> [key |-> k, preamble |-> p, header |-> h],
   payload |-> [key |-> k, header |-> h, text |-> text]]

-----------------------------------------------------------------------------
Init == made = {} /\ objects = 0 /\ opened = {}

(* encrypt_inner: stanzas for the recipients rs and u of another type, the *)
(* extension x, the metadata sealed once with the confidential signatures  *)
(* cs, and the public signatures ps.                                       *)
Write(maker, p, rs, u, x, metadata, text, ps, cs) ==
  LET o == objects + 1
      h == [object |-> o, stanzas |-> {wrap_cek(r, o) : r \in rs},
            unknown |-> u, ext |-> x, signatures |-> ps,
            sealed |-> [key |-> o, object |-> o, metadata |-> metadata, signature |-> cs]] IN
  /\ from_parts(p)
  /\ well_formed(h)
  /\ made' = made \cup {[maker |-> maker, to |-> rs, box |-> Assembled(o, p, h, text)]}
  /\ objects' = o
  /\ opened' = {}

validate_recipients(rs) == Cardinality(rs) \in 1..MAX_RECIPIENTS

(* encrypt, by this version (no extension, no unknown stanza) and by later *)
(* ones, which readers accept (VectorShape).                               *)
Encrypt(minor, rs, u, x, metadata, text) ==
  /\ objects < MaxObjects /\ validate_recipients(rs)
  /\ minor # LEGACY_SIGNED_MINOR
  /\ Write(Nobody, [minor |-> minor, flags |-> 0], rs, u, x, metadata, text, {}, {})

Signed(s, p, rs, u, x, metadata, text) ==
  LET o == objects + 1
      h == [object |-> o, stanzas |-> {wrap_cek(r, o) : r \in rs}, unknown |-> u, ext |-> x] IN
  [by |-> s, over |-> transcript(p, h, metadata, text)]

(* Mutant of EncryptSigned: what is signed says no flag yet.               *)
EncryptSigned_early(s, minor, confidential, rs, u, x, metadata, text) ==
  LET p == [minor |-> minor, flags |-> FLAG_SIGNED]
      g == Signed(s, [p EXCEPT !.flags = 0], rs, u, x, metadata, text) IN
  /\ objects < MaxObjects /\ validate_recipients(rs)
  /\ minor # LEGACY_SIGNED_MINOR
  /\ IF confidential THEN Write(s, p, rs, u, x, metadata, text, {}, {g})
     ELSE Write(s, p, rs, u, x, metadata, text, {g}, {})

(* encrypt_signed, with the signature in the metadata or in the header.    *)
EncryptSigned(s, minor, confidential, rs, u, x, metadata, text) ==
  LET p == [minor |-> minor, flags |-> FLAG_SIGNED]
      g == Signed(s, p, rs, u, x, metadata, text) IN
  /\ objects < MaxObjects /\ validate_recipients(rs)
  /\ minor # LEGACY_SIGNED_MINOR
  /\ IF confidential THEN Write(s, p, rs, u, x, metadata, text, {}, {g})
     ELSE Write(s, p, rs, u, x, metadata, text, {g}, {})

(* A signed container of HIDE/0.5 to 0.8 (SignaturePlacement::LegacyPublic).*)
EncryptLegacy(s, rs, name, text) ==
  LET p == [minor |-> LEGACY_SIGNED_MINOR, flags |-> 0]
      metadata == [name |-> name, ext |-> 0] IN
  /\ objects < MaxObjects /\ validate_recipients(rs)
  /\ Write(s, p, rs, 0, 0, metadata, text, {Signed(s, p, rs, 0, 0, metadata, text)}, {})

-----------------------------------------------------------------------------
(* Mutant of recover_cek: the key is taken before the MAC is compared.     *)
recover_cek_unread(r, k, box) ==
  \E s \in box.header.stanzas : s.to = r /\ s.object = box.header.object /\ s.cek = k

(* recover_cek: a stanza unwraps to a key under which the MAC of the       *)
(* preamble and the header verifies.                                       *)
recover_cek(r, k, box) ==
  /\ \E s \in box.header.stanzas : s.to = r /\ s.object = box.header.object /\ s.cek = k
  /\ box.mac = [key |-> k, preamble |-> box.preamble, header |-> box.header]

(* Mutant of admitted: a legacy container may have extensions.             *)
admitted_extended(box) == from_parts(box.preamble) /\ well_formed(box.header)

(* decrypt_to_staging before the keys are used: what the format allows,    *)
(* and nothing in a legacy container that its signature leaves out.        *)
admitted(box) ==
  /\ from_parts(box.preamble) /\ well_formed(box.header)
  /\ is_legacy(box.preamble) =>
       /\ box.header.ext = 0 /\ box.header.unknown = 0
       /\ box.header.sealed.metadata.ext = 0

AllSignatures(h) == h.signatures \cup h.sealed.signature

(* verify_signature returns Ok: not both placements, a signature exactly   *)
(* when the preamble says so, and one that verifies.                       *)
verify_signature(box) ==
  LET sigs == AllSignatures(box.header) IN
  /\ box.header.signatures = {} \/ box.header.sealed.signature = {}
  /\ sigs # {} <=> is_signed(box.preamble)
  /\ \A g \in sigs :
       g.over = transcript(box.preamble, box.header, box.header.sealed.metadata, box.payload.text)

signer(box) == {g.by : g \in AllSignatures(box.header)}

(* decrypt_to_staging returns Ok, with the content key k.                  *)
Opens(r, k, box) ==
  /\ admitted(box)
  /\ recover_cek(r, k, box)
  /\ box.header.sealed.key = k /\ box.header.sealed.object = box.header.object
  /\ Cardinality(box.header.sealed.signature) <= 1
  /\ box.payload.key = k /\ box.payload.header = box.header
  /\ verify_signature(box)

Open(r, k, box) ==
  /\ opened = {}
  /\ Opens(r, k, box)
  /\ opened' = {[reader |-> r, key |-> k, box |-> box]}
  /\ UNCHANGED <<made, objects>>

(* The content keys someone outside the program has.                       *)
KnownKeys == {0} \cup {m.box.header.object : m \in {n \in made : n.to \cap Rogues # {}}}

(* What can be put into a container: everything a written one holds, and   *)
(* what a known content key makes.                                         *)
Rewrapped == [to : Recipients, object : 1..objects, cek : KnownKeys, by : {"outsider"}]

StanzasAround == (UNION {m.box.header.stanzas : m \in made}) \cup Rewrapped

SignaturesAround == UNION {AllSignatures(m.box.header) : m \in made}

AtMostOne(S) == {{}} \cup {{g} : g \in S}

SealedAround(o, k) ==
  {m.box.header.sealed : m \in made} \cup
  (IF k \in KnownKeys
   THEN [key : {k}, object : {o}, metadata : Metadata, signature : AtMostOne(SignaturesAround)]
   ELSE {})

MacsAround(k, p, h) ==
  {m.box.mac : m \in made} \cup
  (IF k \in KnownKeys THEN {[key |-> k, preamble |-> p, header |-> h]} ELSE {})

PayloadsAround(k, h) ==
  {m.box.payload : m \in made} \cup
  (IF k \in KnownKeys THEN [key : {k}, header : {h}, text : Texts] ELSE {})

(* A recipient opens anything that can be put together.                    *)
Receive(r) ==
  \E k \in 0..objects, o \in 1..objects, S \in SUBSET StanzasAround :
    /\ opened = {}
    /\ Cardinality(S) <= MAX_RECIPIENTS
    /\ \E s \in S : s.to = r /\ s.object = o /\ s.cek = k
    /\ \E p \in Preamble, u \in {0, 1}, x \in {0, 1},
          ps \in AtMostOne(SignaturesAround), sealed \in SealedAround(o, k) :
         LET h == [object |-> o, stanzas |-> S, unknown |-> u, ext |-> x,
                   signatures |-> ps, sealed |-> sealed] IN
         \E mac \in MacsAround(k, p, h), payload \in PayloadsAround(k, h) :
           Open(r, k, [preamble |-> p, header |-> h, mac |-> mac, payload |-> payload])

Next ==
  \/ \E minor \in {CURRENT_MINOR, LaterMinor}, rs \in SUBSET Recipients, u, x \in {0, 1},
        metadata \in Metadata, text \in Texts :
       \/ Encrypt(minor, rs, u, x, metadata, text)
       \/ \E s \in Signers, confidential \in BOOLEAN :
            EncryptSigned(s, minor, confidential, rs, u, x, metadata, text)
  \/ \E s \in Signers, rs \in SUBSET Recipients, name \in Names, text \in Texts :
       EncryptLegacy(s, rs, name, text)
  \/ \E r \in Recipients : Receive(r)

Spec == Init /\ [][Next]_vars

-----------------------------------------------------------------------------
(* Every variable has its type.                                            *)
TypeOK ==
  /\ made \subseteq [maker : Signers \cup {Nobody}, to : SUBSET Recipients, box : Container]
  /\ objects \in 0..MaxObjects
  /\ opened \subseteq [reader : Recipients, key : Key, box : Container]

(* "Binding only the header would let any recipient re-encrypt different   *)
(* content under the same header and keep the signature valid": whoever an *)
(* open names as the signer wrote that object, for exactly those           *)
(* recipients, the reader among them, with that metadata, those extensions *)
(* and that plaintext, in that version, whatever recipients made of it.    *)
AuthorIsBound ==
  \A q \in opened : \A s \in signer(q.box) :
    \E m \in made :
      /\ m.maker = s /\ q.reader \in m.to
      /\ m.box.preamble = q.box.preamble
      /\ m.box.header.object = q.box.header.object
      /\ m.box.header.stanzas = q.box.header.stanzas
      /\ m.box.header.unknown = q.box.header.unknown /\ m.box.header.ext = q.box.header.ext
      /\ m.box.header.sealed.metadata = q.box.header.sealed.metadata
      /\ m.box.payload.text = q.box.payload.text

(* Without the content key nothing can be changed: what opens under the    *)
(* key of an object whose recipients are all honest is the container that  *)
(* was written, byte for byte, signature and flags included.               *)
OutsidersAlterNothing ==
  \A q \in opened : q.key \notin KnownKeys => \E m \in made : m.box = q.box

(* What the program writes, in any version and with any placement, every   *)
(* recipient it was written for can open.                                  *)
WrittenOpens ==
  \A m \in made : \A r \in m.to : Opens(r, m.box.header.object, m.box)
=============================================================================
