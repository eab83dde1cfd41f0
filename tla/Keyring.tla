------------------------------- MODULE Keyring ------------------------------
(***************************************************************************)
(* What the bytes of a key file and of an epoch store mean                 *)
(* (crates/hide-keyring/src/lib.rs and epoch_store.rs).  A sealed box is   *)
(* the key that sealed it, the header it authenticates and what is inside; *)
(* Argon2 over a spelling of a passphrase and a salt is that pair.         *)
(***************************************************************************)
EXTENDS Naturals, Sequences, FiniteSets

CONSTANTS Words,               \* passphrases, whatever their spelling
          ShortWords,          \* those under MIN_PASSPHRASE_LEN characters
          MAX_ENTRIES          \* epochs of a store

ASSUME KeyringAssumption ==
  ShortWords \subseteq Words /\ "none" \notin Words /\ MAX_ENTRIES \in Nat

Err(why) == [ok |-> FALSE, why |-> why]
Ok(value) == [ok |-> TRUE, value |-> value]

-----------------------------------------------------------------------------
(* Keys.  An identity is a master seed; both keys derive from it.          *)
derive(seed, info) == <<"derived", seed, info>>
recipient_secret(seed) == derive(seed, "encryption")
signing_seed(seed) == derive(seed, "signing")
public_key(secret) == <<"public", secret>>

-----------------------------------------------------------------------------
(* Passphrases: a word in one of its Unicode spellings.                    *)
Forms == {"nfc", "nfd", "mixed"}
Passphrases == [word : Words, form : Forms]
NoPassphrase == [word |-> "none", form |-> "nfc"]
Typed == Passphrases \cup {NoPassphrase}

normalize_passphrase(p) == [p EXCEPT !.form = "nfc"]

passphrase_candidates(p) == {normalize_passphrase(p), p, [p EXCEPT !.form = "nfd"]}

-----------------------------------------------------------------------------
(* Argon2 parameters, in KiB, passes and lanes, as the header carries them.*)
MIN_MEMORY_KIB == 8 * 1024
MAX_MEMORY_KIB == 256 * 1024
MIN_ITERATIONS == 1
MAX_ITERATIONS == 64
MAX_PARALLELISM == 4

WRITER == [memory |-> 19 * 1024, iterations |-> 2, parallelism |-> 1]

reasonable(p) ==
  /\ p.parallelism \in 1..MAX_PARALLELISM
  /\ MIN_MEMORY_KIB <= p.memory /\ p.memory <= MAX_MEMORY_KIB
  /\ MIN_ITERATIONS <= p.iterations /\ p.iterations <= MAX_ITERATIONS
  /\ p.memory \div 8 >= p.parallelism

argon2(params, p, salt) == <<params, p, salt>>

-----------------------------------------------------------------------------
(* Key files.  A raw file is the master seed alone; a torn one has neither *)
(* the magic nor the length.                                               *)
Raw(seed) == [kind |-> "raw", seed |-> seed]
Torn == [kind |-> "torn"]

header(version, params, purpose) ==
  [version |-> version, params |-> params, purpose |-> purpose]

(* A sealed file; version 1 has no purpose byte.                           *)
Sealed(h, key, seed) ==
  [kind |-> "sealed", header |-> h, box |-> [key |-> key, aad |-> h, inside |-> seed]]

inspect(file) == IF file.kind = "sealed" THEN "Protected" ELSE "Raw"

protect_seed(seed, p, purpose) ==
  IF p.word \in ShortWords THEN Err("PassphraseTooShort")
  ELSE LET h == header(2, WRITER, purpose)
       IN Ok(Sealed(h, argon2(WRITER, normalize_passphrase(p), "salt"), seed))

(* Mutant of protect: an encryption key is written as an identity.         *)
protect_untagged(secret, p) == protect_seed(secret, p, "Identity")

protect(secret, p) == protect_seed(secret, p, "Encryption")

protect_identity(seed, p) == protect_seed(seed, p, "Identity")

(* Mutant of unprotect_seed: only the spelling that was typed is tried.    *)
unprotect_seed_typed(file, p) ==
  IF file.kind # "sealed" THEN Err("NotAKeyFile")
  ELSE LET h == file.header IN
  IF h.version \notin {1, 2} THEN Err("UnsupportedVersion")
  ELSE IF ~reasonable(h.params) THEN Err("UnreasonableParameters")
  ELSE IF h.version = 2 /\ h.purpose \notin {"Identity", "Encryption"} THEN Err("Malformed")
  ELSE IF file.box.aad = h /\ file.box.key = argon2(h.params, p, "salt")
       THEN Ok([seed |-> file.box.inside,
                purpose |-> IF h.version = 1 THEN "Encryption" ELSE h.purpose])
  ELSE Err("WrongPassphrase")

unprotect_seed(file, p) ==
  IF file.kind # "sealed" THEN Err("NotAKeyFile")
  ELSE LET h == file.header IN
  IF h.version \notin {1, 2} THEN Err("UnsupportedVersion")
  ELSE IF ~reasonable(h.params) THEN Err("UnreasonableParameters")
  ELSE IF h.version = 2 /\ h.purpose \notin {"Identity", "Encryption"} THEN Err("Malformed")
  ELSE IF /\ file.box.aad = h
          /\ file.box.key \in {argon2(h.params, c, "salt") : c \in passphrase_candidates(p)}
       THEN Ok([seed |-> file.box.inside,
                purpose |-> IF h.version = 1 THEN "Encryption" ELSE h.purpose])
  ELSE Err("WrongPassphrase")

unprotect(file, p) ==
  LET opened == unprotect_seed(file, p) IN
  IF ~opened.ok THEN opened
  ELSE IF opened.value.purpose # "Encryption" THEN Err("WrongPurpose")
  ELSE Ok(opened.value.seed)

(* open: the encryption key of a file, whatever shape the file is.         *)
open(file, p) ==
  IF file = Torn THEN Err("Malformed")
  ELSE IF inspect(file) = "Raw" THEN Ok(recipient_secret(file.seed))
  ELSE LET opened == unprotect_seed(file, p) IN
  IF p = NoPassphrase THEN Err("WrongPassphrase")
  ELSE IF ~opened.ok THEN opened
  ELSE IF opened.value.purpose = "Identity" THEN Ok(recipient_secret(opened.value.seed))
  ELSE Ok(opened.value.seed)

(* The file of an old release: no purpose byte, and the passphrase as it   *)
(* was typed.                                                              *)
LegacyFile(p) == LET h == header(1, WRITER, "none")
                 IN Sealed(h, argon2(WRITER, p, "salt"), "legacy_seed")

-----------------------------------------------------------------------------
(* Public keys in text.                                                    *)
encode_public(key) == <<"armor", key>>

decode_public(text) ==
  IF Len(text) = 2 /\ text[1] = "armor" THEN Ok(text[2]) ELSE Err("Malformed")

-----------------------------------------------------------------------------
(* The epoch store: the secrets by number and the head of their chain.     *)
Numbers(entries) == {entries[i].number : i \in DOMAIN entries}

(* The keys of a BTreeMap, in the order it iterates over them.             *)
ascending(numbers) ==
  CHOOSE q \in [1..Cardinality(numbers) -> numbers] :
    \A i, j \in DOMAIN q : i < j => q[i] < q[j]

insert(store, number, secret) ==
  IF number \notin DOMAIN store.entries /\ Cardinality(DOMAIN store.entries) >= MAX_ENTRIES
  THEN Err("TooManyEntries")
  ELSE Ok([store EXCEPT !.entries =
             [n \in DOMAIN @ \cup {number} |-> IF n = number THEN secret ELSE @[n]]])

remove(store, number) ==
  [store EXCEPT !.entries = [n \in DOMAIN @ \ {number} |-> @[n]]]

encode_header(params, salt, head, count) ==
  [version |-> 1, params |-> params, salt |-> salt, chain_head |-> head, body_len |-> count]

entry_aad(h, number) == <<h, number>>

seal_seed(key, h, number, secret) ==
  [number |-> number, sealed |-> [key |-> key, aad |-> entry_aad(h, number), inside |-> secret]]

(* seal_with: the header names the length of the body, each entry          *)
(* authenticates the header and its number, and the trailer everything.    *)
seal_with(store, p, salt) ==
  IF p.word \in ShortWords THEN Err("PassphraseTooShort")
  ELSE LET numbers == ascending(DOMAIN store.entries)
           h == encode_header(WRITER, salt, store.chain_head, Len(numbers))
           kek == argon2(WRITER, normalize_passphrase(p), salt)
           body == [i \in DOMAIN numbers |->
                      seal_seed(kek, h, numbers[i], store.entries[numbers[i]])]
       IN Ok([header |-> h, body |-> body, trailer |-> [key |-> kek, over |-> <<h, body>>]])

(* parse and decode_body: the length is the declared one and the numbers   *)
(* are strictly ascending.                                                 *)
parse(file) ==
  IF file.header.version # 1 THEN "UnsupportedVersion"
  ELSE IF ~reasonable(file.header.params) THEN "UnreasonableParameters"
  ELSE IF Len(file.body) # file.header.body_len THEN "Malformed"
  ELSE IF Len(file.body) > MAX_ENTRIES THEN "TooManyEntries"
  ELSE IF \E i, j \in DOMAIN file.body : i < j /\ file.body[i].number >= file.body[j].number
       THEN "Malformed"
  ELSE "parsed"

(* Mutant of open_store: the trailer only tells the passphrase apart.      *)
open_store_untied(file, p) ==
  IF parse(file) # "parsed" THEN Err(parse(file))
  ELSE LET h == file.header
           keks == {argon2(h.params, c, h.salt) : c \in passphrase_candidates(p)}
           kek == file.trailer.key
           At(n) == CHOOSE i \in DOMAIN file.body : file.body[i].number = n
       IN IF kek \notin keks THEN Err("WrongPassphrase")
          ELSE IF \E i \in DOMAIN file.body :
                 LET s == file.body[i].sealed
                 IN s.key # kek \/ s.aad # entry_aad(h, file.body[i].number)
               THEN Err("WrongPassphrase")
          ELSE Ok([chain_head |-> h.chain_head,
                 entries |-> [n \in Numbers(file.body) |-> file.body[At(n)].sealed.inside]])

(* EpochStore::open: the trailer decides which spelling sealed the file.   *)
open_store(file, p) ==
  IF parse(file) # "parsed" THEN Err(parse(file))
  ELSE LET h == file.header
           keks == {argon2(h.params, c, h.salt) : c \in passphrase_candidates(p)}
           kek == file.trailer.key
           At(n) == CHOOSE i \in DOMAIN file.body : file.body[i].number = n
       IN IF kek \notin keks \/ file.trailer.over # <<h, file.body>> THEN Err("WrongPassphrase")
          ELSE IF \E i \in DOMAIN file.body :
                 LET s == file.body[i].sealed
                 IN s.key # kek \/ s.aad # entry_aad(h, file.body[i].number)
               THEN Err("WrongPassphrase")
          ELSE Ok([chain_head |-> h.chain_head,
                 entries |-> [n \in Numbers(file.body) |-> file.body[At(n)].sealed.inside]])

=============================================================================
