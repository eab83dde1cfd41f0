------------------------------ MODULE Bindings ------------------------------
(***************************************************************************)
(* The C ABI (crates/hide-ffi/src/lib.rs) and the browser build            *)
(* (crates/hide-wasm/src/lib.rs): two surfaces over the same crates.  A    *)
(* program calls an entry point of the one and its counterpart of the      *)
(* other with the same arguments.  An argument is good, or absent where    *)
(* the code lets it be, or wrong in one way:                               *)
(*   null        a null pointer (C only)                                   *)
(*   not_utf8    text in another encoding (C only)                         *)
(*   huge        longer than the ABI takes                                 *)
(*   large       taken by the ABI (1 GiB) and not by the browser (64 MiB)  *)
(*   garbled     does not decode                                           *)
(*   misfit      has another length than a hash, key or signature          *)
(*   nonkey      has the length of a key and is none                       *)
(*   other       well formed, and not what was signed, sealed or asked for *)
(* and a few of its own (tampered, reserved, beyond, ...).                 *)
(* An entry point is the list of its steps, in the order of the code: a    *)
(* check, with the code it returns if it fails, or the name of the out     *)
(* argument that is written.  The first check that fails ends the call.    *)
(***************************************************************************)
EXTENDS Keyring

VARIABLE result   \* what the last call was given, returned and wrote, until it is read

NoResult == [fn |-> "none"]

(* Out arguments: buffers, handles and numbers.                            *)
Slots == {"out", "filename", "media_type", "secret", "signer", "number"}

Given == {"good", "null"}
Document == {"good", "null", "huge", "garbled", "other"}
Hash == {"good", "null", "huge", "misfit", "other"}
KeyBytes == {"good", "null", "huge", "misfit", "nonkey", "other"}
SignatureBytes == {"good", "null", "misfit", "other"}
Payload == {"good", "null", "huge", "large"}
Label == {"good", "absent", "not_utf8", "garbled"}

Fails(wrong, code) == IF wrong THEN code ELSE "OK"

Passes(step) == step \in Slots \cup {"OK"}

(* Where the list stops, what the call returns and what it has written.    *)
Stops(steps) == {i \in DOMAIN steps : ~Passes(steps[i])}

Verdict(steps) ==
  IF Stops(steps) = {} THEN "OK"
  ELSE steps[CHOOSE i \in Stops(steps) : \A j \in Stops(steps) : i <= j]

Written(steps) ==
  {steps[i] : i \in {i \in DOMAIN steps : steps[i] \in Slots /\ \A j \in Stops(steps) : i < j}}

-----------------------------------------------------------------------------
INVALID == "INVALID_ARGUMENT"

(* borrow refuses a null pointer and an absurd length; borrow_str takes a  *)
(* null pointer for no text.                                               *)
borrow(q) == q \notin {"null", "huge"}

borrow_str(q) == q # "not_utf8"

(* VerifyingIdentity::from_bytes.                                          *)
from_bytes(q) == q \notin {"misfit", "nonkey", "huge"}

(* What the decoders take; none of them takes what is too long.            *)
Decodes(q) == q \notin {"garbled", "huge"}

object_error_code(q) ==
  CASE q = "other" -> "NO_MATCHING_RECIPIENT"
    [] q = "tampered" -> "AUTHENTICATION"
    [] OTHER -> "MALFORMED"

keyring_error_code(why) ==
  CASE why = "WrongPassphrase" -> "WRONG_PASSPHRASE"
    [] why \in {"NotAKeyFile", "UnsupportedVersion"} -> "NOT_A_KEY"
    [] why = "PassphraseTooShort" -> "INVALID_ARGUMENT"
    [] OTHER -> "MALFORMED"

Code(opened) == IF opened.ok THEN "OK" ELSE keyring_error_code(opened.why)
Thrown(opened) == IF opened.ok THEN "OK" ELSE "error"

-----------------------------------------------------------------------------
(* Key files.  No passphrase is a null pointer, or undefined.              *)
signing_identity_open(file, p) ==
  IF inspect(file) = "Raw"
  THEN IF file = Torn THEN "NOT_A_KEY" ELSE "OK"
  ELSE LET opened == unprotect_seed(file, p) IN
       IF p = NoPassphrase THEN INVALID
       ELSE IF opened.ok /\ opened.value.purpose # "Identity" THEN "NOT_A_KEY"
       ELSE Code(opened)

hide_signing_identity_open(a, file, p) ==
  <<Fails(a.signer = "null", INVALID), Fails(~borrow(a.data), INVALID),
    Fails(~borrow_str(a.passphrase), INVALID), signing_identity_open(file, p), "signer">>

js_signing_load(file, p) ==
  IF inspect(file) = "Raw" THEN Fails(file = Torn, "error")
  ELSE LET opened == unprotect_seed(file, p) IN
       IF p = NoPassphrase \/ ~opened.ok THEN "error"
       ELSE Fails(opened.value.purpose # "Identity", "error")

hide_secret_key_open(a, file, p) ==
  <<Fails(a.secret = "null", INVALID), Fails(~borrow(a.data), INVALID),
    Fails(~borrow_str(a.passphrase), INVALID), Code(open(file, p)), "secret">>

(* Both loaders of the browser look at the length first.                   *)
js_load(a, loaded) == <<Fails(a.data = "huge", "error"), loaded>>

js_secret_load(file, p) == Thrown(open(file, p))

hide_secret_key_protect(a, p) ==
  <<Fails(a.secret = "null" \/ a.out = "null", INVALID),
    Fails(a.passphrase # "good", INVALID), Code(protect("seed", p)), "out">>

js_protect(p) == <<Thrown(protect("seed", p))>>

hide_identity_generate(a, p) ==
  <<Fails(a.out = "null", INVALID),
    Fails(a.passphrase # "good", INVALID), Code(protect_identity("seed", p)), "out">>

js_identity_generate(p) == <<Thrown(protect_identity("seed", p))>>

(* Raw or protected, for whatever the bytes are.                           *)
hide_inspect_key(a) ==
  <<Fails(a.out = "null", INVALID), Fails(~borrow(a.data), INVALID), "number">>

(* Entry points of the browser that cannot fail.                           *)
js_inspect_key(a) == <<"OK">>

js_generate(a) == <<"OK">>

js_public_key(a) == <<"OK">>

js_signing_public_key(a) == <<"OK">>

js_new_challenge(a) == <<"OK">>

hide_keypair_generate(a) ==
  <<Fails(a.secret = "null" \/ a.out = "null", INVALID), "out", "secret">>

hide_secret_key_public(a) == <<Fails(a.secret = "null" \/ a.out = "null", INVALID), "out">>

hide_signing_identity_public(a) ==
  <<Fails(a.signer = "null" \/ a.out = "null", INVALID), "out">>

hide_challenge_new(a) ==
  <<Fails(a.out = "null", INVALID), Fails(a.audience # "good", INVALID), "out">>

(* Files a program may be handed, wherever they were made.                 *)
KeyFilesAround ==
  LET long == CHOOSE p \in Passphrases : p.word \notin ShortWords
      Rewritten(version, params) ==
        Sealed(header(version, params, "Identity"), argon2(params, long, "salt"), "seed")
  IN {Torn, Raw("seed"), protect_identity("seed", long).value, protect("seed", long).value,
      LegacyFile(long), Rewritten(3, WRITER),
      Rewritten(2, [WRITER EXCEPT !.iterations = MAX_ITERATIONS + 1])}

-----------------------------------------------------------------------------
(* Containers and public keys.                                             *)
hide_encrypt(a) ==
  <<Fails(a.out = "null", INVALID), Fails(a.count # "good", INVALID),
    Fails(~borrow(a.plaintext), INVALID), Fails(~borrow(a.recipients), INVALID),
    Fails(a.recipients = "nonkey", INVALID),
    Fails(~borrow_str(a.filename) \/ ~borrow_str(a.media_type), INVALID),
    Fails("garbled" \in {a.filename, a.media_type}, object_error_code("garbled")), "out">>

js_encrypt(a) ==
  <<Fails(a.plaintext \in {"large", "huge"}, "error"), Fails(a.count # "good", "error"),
    Fails(a.recipients = "nonkey", "error"),
    Fails("garbled" \in {a.filename, a.media_type}, "error")>>

(* An out argument that need not be given.                                 *)
IfGiven(q, slot) == IF q = "absent" THEN "OK" ELSE slot

(* Mutant of hide_decrypt: the metadata is handed out before the payload   *)
(* has authenticated.                                                      *)
hide_decrypt_early(a) ==
  <<Fails(a.secret = "null" \/ a.out = "null", INVALID), Fails(~borrow(a.container), INVALID),
    IfGiven(a.filename, "filename"), IfGiven(a.media_type, "media_type"),
    Fails(a.container \notin {"good", "large"}, object_error_code(a.container)), "out">>

hide_decrypt(a) ==
  <<Fails(a.secret = "null" \/ a.out = "null", INVALID), Fails(~borrow(a.container), INVALID),
    Fails(a.container \notin {"good", "large"}, object_error_code(a.container)),
    IfGiven(a.filename, "filename"), IfGiven(a.media_type, "media_type"), "out">>

js_decrypt(a) == <<Fails(a.container # "good", "error")>>

(* Armoring looks at the length of a key and at nothing else.              *)
hide_public_key_armor(a) ==
  <<Fails(a.out = "null", INVALID), Fails(~borrow(a.data), INVALID),
    Fails(a.data = "misfit", INVALID), "out">>

js_armor_public_key(a) == <<Fails(a.data \in {"misfit", "huge"}, "error")>>

hide_public_key_dearmor(a) ==
  <<Fails(a.out = "null", INVALID), Fails(a.text \in {"null", "not_utf8"}, INVALID),
    Fails(a.text = "garbled", keyring_error_code("Malformed")),
    Fails(a.text = "misfit", INVALID), "out">>

js_dearmor_public_key(a) ==
  <<Fails(a.text = "garbled", "error"), Fails(a.text = "misfit", "error")>>

-----------------------------------------------------------------------------
(* Signatures and challenges.                                              *)
hide_sign_message(a) ==
  <<Fails(a.signer = "null" \/ a.out = "null", INVALID), Fails(~borrow(a.context), INVALID),
    Fails(~borrow(a.message), INVALID), Fails(a.context = "reserved", INVALID), "out">>

js_sign(a) ==
  <<Fails(a.message \in {"large", "huge"}, "error"), Fails(a.context = "reserved", "error")>>

Signed(a) == "other" \notin {a.key, a.context, a.message, a.signature}

hide_verify_message(a) ==
  <<Fails(~borrow(a.key), INVALID), Fails(~borrow(a.context), INVALID),
    Fails(~borrow(a.message), INVALID), Fails("misfit" \in {a.signature, a.key}, INVALID),
    Fails(~borrow(a.signature), INVALID), Fails(~from_bytes(a.key), "NOT_A_KEY"),
    Fails(~Signed(a), "AUTHENTICATION")>>

js_verify(a) ==
  <<Fails(a.message \in {"large", "huge"}, "error"), Fails(~from_bytes(a.key), "error"),
    Fails(a.signature = "misfit" \/ ~Signed(a), "error")>>

hide_challenge_answer(a) ==
  <<Fails(a.signer = "null" \/ a.out = "null", INVALID), Fails(~borrow(a.challenge), INVALID),
    Fails(~Decodes(a.challenge), "MALFORMED"), "out">>

js_answer(a) == <<Fails(~Decodes(a.challenge), "error")>>

Answered(a) == "other" \notin {a.challenge, a.signature, a.key}

(* accept looks at the time, the signature and the nonce, in this order.   *)
hide_challenge_accept(a) ==
  <<Fails(a.spent = "null", INVALID), Fails(~borrow(a.challenge), INVALID),
    Fails("misfit" \in {a.signature, a.key} \/ a.key = "huge", INVALID),
    Fails(~borrow(a.signature), INVALID), Fails(~borrow(a.key), INVALID),
    Fails(~Decodes(a.challenge), "MALFORMED"), Fails(~from_bytes(a.key), "NOT_A_KEY"),
    Fails(a.when = "expired", "CHALLENGE_EXPIRED"), Fails(~Answered(a), "AUTHENTICATION"),
    Fails(a.when = "replayed", "CHALLENGE_REPLAYED")>>

js_accept(a) ==
  <<Fails(~Decodes(a.challenge), "error"), Fails(~from_bytes(a.key), "error"),
    Fails(a.when = "expired", "error"),
    Fails(a.signature = "misfit" \/ ~Answered(a), "error"),
    Fails(a.when = "replayed", "error")>>

-----------------------------------------------------------------------------
(* Identity logs, epoch chains, proofs and checkpoints.                    *)
verified_log(a, slot) ==
  <<Fails(a.out = "null", INVALID), Fails(~borrow(a.log), INVALID),
    Fails(~borrow(a.recovery), INVALID), Fails(~from_bytes(a.recovery), "NOT_A_KEY"),
    Fails(~Decodes(a.log), "MALFORMED"),
    Fails("other" \in {a.log, a.recovery}, "AUTHENTICATION"), slot>>

hide_identity_verify(a) == verified_log(a, "number")

js_verify_identity(a) ==
  <<Fails(a.log = "huge", "error"), Fails(~Decodes(a.log), "malformed"),
    Fails(~from_bytes(a.recovery), "error"), Fails("other" \in {a.log, a.recovery}, "error")>>

(* Any device may be asked about; the answer is part of the number.        *)
hide_identity_trusts_device(a) ==
  <<Fails(a.out = "null", INVALID), Fails(~borrow(a.log), INVALID),
    Fails(~borrow(a.recovery), INVALID), Fails(~borrow(a.device), INVALID),
    Fails(~from_bytes(a.recovery) \/ ~from_bytes(a.device), "NOT_A_KEY"),
    Fails(~Decodes(a.log), "MALFORMED"),
    Fails("other" \in {a.log, a.recovery}, "AUTHENTICATION"), "number">>

js_identity_trusts_device(a) ==
  <<Fails(~from_bytes(a.device), "error"), Verdict(js_verify_identity(a))>>

hide_identity_head(a) == verified_log(a, "out")

js_identity_head(a) == js_verify_identity(a)

hide_epoch_verify(a) ==
  <<Fails(a.out = "null", INVALID), Fails(~borrow(a.chain), INVALID),
    Fails(~Decodes(a.chain), "MALFORMED"), Fails(a.chain = "other", "AUTHENTICATION"),
    "number">>

js_epoch_records(a) ==
  <<Fails(a.chain = "huge", "error"), Fails(~Decodes(a.chain), "malformed"),
    Fails(a.chain = "other", "error")>>

hide_epoch_public_key(a) ==
  <<Fails(a.out = "null", INVALID), Fails(~borrow(a.chain), INVALID),
    Fails(~Decodes(a.chain), "MALFORMED"), Fails(a.chain = "other", "AUTHENTICATION"),
    Fails(a.epoch = "beyond", INVALID), "out">>

js_epoch_public_key(a) ==
  <<Verdict(js_epoch_records(a)), Fails(a.epoch = "beyond", "error")>>

hide_transparency_verify_inclusion(a) ==
  <<Fails(~borrow(a.leaf) \/ ~borrow(a.path) \/ ~borrow(a.root), INVALID),
    Fails("misfit" \in {a.leaf, a.root, a.path}, INVALID),
    Fails("other" \in {a.leaf, a.path, a.root}, "AUTHENTICATION")>>

hide_transparency_verify_consistency(a) ==
  <<Fails(~borrow(a.path) \/ ~borrow(a.old) \/ ~borrow(a.new), INVALID),
    Fails("misfit" \in {a.old, a.new, a.path}, INVALID),
    Fails("other" \in {a.path, a.old, a.new}, "AUTHENTICATION")>>

hash(q) == Fails(q \in {"misfit", "huge"}, "error")
hash_path(q) == Fails(q \in {"misfit", "huge"}, "error")

js_verify_inclusion(a) ==
  <<hash_path(a.path), hash(a.leaf), hash(a.root),
    Fails("other" \in {a.leaf, a.path, a.root}, "error")>>

js_verify_consistency(a) ==
  <<hash_path(a.path), hash(a.old), hash(a.new),
    Fails("other" \in {a.path, a.old, a.new}, "error")>>

(* A binding that is too long is an argument error here, and malformed in  *)
(* the browser.                                                            *)
pinned_log(a) ==
  <<Fails(~borrow(a.log) \/ ~borrow(a.binding) \/ ~borrow(a.root), INVALID),
    Fails(a.root = "misfit", INVALID), Fails(~Decodes(a.binding), "MALFORMED"),
    Fails(~Decodes(a.log), "MALFORMED"),
    Fails("other" \in {a.log, a.binding, a.root}, "AUTHENTICATION")>>

js_pinned_log(a) ==
  <<Fails(~Decodes(a.binding), "malformed"), Fails(a.log = "huge", "error"),
    Fails(~Decodes(a.log), "malformed"), hash(a.root),
    Fails("other" \in {a.log, a.binding, a.root}, "error")>>

hide_identity_verify_pinned(a) ==
  <<Fails(a.out = "null", INVALID), Verdict(pinned_log(a)), "number">>

hide_epoch_verify_bound(a) ==
  <<Fails(a.out = "null", INVALID), Fails(~borrow(a.chain) \/ ~borrow(a.epochs), INVALID),
    Verdict(pinned_log(a)), Fails(~Decodes(a.chain) \/ ~Decodes(a.epochs), "MALFORMED"),
    Fails("other" \in {a.chain, a.epochs}, "AUTHENTICATION"), "number">>

(* Mutant of js_verify_epoch_chain_bound: the binding is only decoded.     *)
js_verify_epoch_chain_bound_decoded(a) ==
  <<Verdict(js_pinned_log(a)), Verdict(js_epoch_records(a)),
    Fails(~Decodes(a.epochs), "malformed")>>

js_verify_epoch_chain_bound(a) ==
  <<Verdict(js_pinned_log(a)), Verdict(js_epoch_records(a)),
    Fails(~Decodes(a.epochs), "malformed"), Fails(a.epochs = "other", "error")>>

(* The C caller is given the size of the checkpoint, to compare; the       *)
(* browser compares it with the one its caller expects.                    *)
hide_checkpoint_verify(a) ==
  <<Fails("null" \in {a.number, a.out, a.origin}, INVALID),
    Fails(~borrow(a.note) \/ ~borrow(a.key), INVALID), Fails(~borrow_str(a.origin), INVALID),
    Fails(~from_bytes(a.key), "NOT_A_KEY"), Fails(~Decodes(a.note), "MALFORMED"),
    Fails("other" \in {a.note, a.origin, a.key}, "AUTHENTICATION"), "number", "out">>

js_verify_checkpoint(a) ==
  <<Fails(~from_bytes(a.key), "error"), Fails(~Decodes(a.note), "error"),
    Fails("other" \in {a.note, a.origin, a.key}, "error"),
    Fails(a.size = "unexpected", "error")>>

-----------------------------------------------------------------------------
(* One call, to both surfaces.                                             *)
Return(fn, a, c, js) ==
  /\ result = NoResult
  /\ result' = [fn |-> fn, args |-> a, c |-> Verdict(c), js |-> Verdict(js),
                written |-> Written(c)]

(* Bound: at most two of the arguments of hide_epoch_verify_bound are      *)
(* wrong at once.                                                          *)
BoundArguments ==
  {a \in [out : Given, log : Document, binding : Document, root : Hash,
          chain : Document, epochs : Document] :
     Cardinality({n \in DOMAIN a : a[n] # "good"}) <= 2}

CallWithDocuments ==
  \/ \E a \in [out : Given, log : Document, recovery : KeyBytes] :
       \/ Return("documents", a, hide_identity_verify(a), js_verify_identity(a))
       \/ Return("documents", a, hide_identity_head(a), js_identity_head(a))
  \/ \E a \in [out : Given, log : Document, recovery : KeyBytes, device : KeyBytes \ {"other"}] :
       Return("documents", a, hide_identity_trusts_device(a), js_identity_trusts_device(a))
  \/ \E a \in [out : Given, chain : Document] :
       Return("documents", a, hide_epoch_verify(a), js_epoch_records(a))
  \/ \E a \in [out : Given, chain : Document, epoch : {"good", "beyond"}] :
       Return("documents", a, hide_epoch_public_key(a), js_epoch_public_key(a))
  \/ \E a \in [out : Given, log : Document, binding : Document, root : Hash] :
       Return("documents", a, hide_identity_verify_pinned(a), js_pinned_log(a))
  \/ \E a \in BoundArguments :
       Return("documents", a, hide_epoch_verify_bound(a), js_verify_epoch_chain_bound(a))

CallWithProofs ==
  \/ \E a \in [leaf : Hash, path : Hash, root : Hash] :
       Return("proofs", a, hide_transparency_verify_inclusion(a), js_verify_inclusion(a))
  \/ \E a \in [path : Hash, old : Hash, new : Hash] :
       Return("proofs", a, hide_transparency_verify_consistency(a), js_verify_consistency(a))
  \/ \E a \in [number : Given, out : Given, origin : {"good", "null", "not_utf8", "other"},
               note : Document, key : KeyBytes, size : {"good", "unexpected"}] :
       Return("checkpoints", a, hide_checkpoint_verify(a), js_verify_checkpoint(a))

CallWithSignatures ==
  \/ \E a \in [signer : Given, out : Given, context : {"good", "null", "huge", "reserved"},
               message : Payload] :
       Return("signatures", a, hide_sign_message(a), js_sign(a))
  \/ \E a \in [key : KeyBytes, context : {"good", "null", "huge", "other"},
               message : Payload \cup {"other"}, signature : SignatureBytes] :
       Return("signatures", a, hide_verify_message(a), js_verify(a))
  \/ \E a \in [out : Given, audience : {"good", "null", "not_utf8"}] :
       Return("challenges", a, hide_challenge_new(a), js_new_challenge(a))
  \/ \E a \in [signer : Given, out : Given, challenge : Document \ {"other"}] :
       Return("challenges", a, hide_challenge_answer(a), js_answer(a))
  \/ \E a \in [spent : Given, challenge : Document, signature : SignatureBytes,
               key : KeyBytes, when : {"good", "expired", "replayed"}] :
       Return("challenges", a, hide_challenge_accept(a), js_accept(a))

CallWithContainers ==
  \/ \E a \in [out : Given, count : {"good", "none", "many"}, plaintext : Payload,
               recipients : {"good", "null", "nonkey"}, filename : Label, media_type : Label] :
       Return("containers", a, hide_encrypt(a), js_encrypt(a))
  \/ \E a \in [secret : Given, out : Given, container : Document \cup {"large", "tampered"},
               filename : {"good", "absent"}, media_type : {"good", "absent"}] :
       Return("containers", a, hide_decrypt(a), js_decrypt(a))

CallWithKeys ==
  \/ \E a \in [secret : Given, out : Given] :
       \/ Return("keys", a, hide_keypair_generate(a), js_generate(a))
       \/ Return("keys", a, hide_secret_key_public(a), js_public_key(a))
  \/ \E a \in [signer : Given, out : Given] :
       Return("keys", a, hide_signing_identity_public(a), js_signing_public_key(a))
  \/ \E a \in [out : Given, data : {"good", "null", "huge"}] :
       Return("keys", a, hide_inspect_key(a), js_inspect_key(a))
  \/ \E a \in [out : Given, data : KeyBytes \ {"other"}] :
       Return("armor", a, hide_public_key_armor(a), js_armor_public_key(a))
  \/ \E a \in [out : Given, text : {"good", "null", "not_utf8", "garbled", "misfit", "nonkey"}] :
       Return("armor", a, hide_public_key_dearmor(a), js_dearmor_public_key(a))

(* Key files opened into a handle, and a handle sealed into a file; what   *)
(* the bytes are and which passphrase it is come beside the arguments.     *)
CallWithKeyFiles ==
  \/ \E file \in KeyFilesAround, p \in Typed,
        data \in {"good", "null", "huge"}, passphrase \in {"good", "not_utf8"}, slot \in Given :
       LET a == [secret |-> slot, data |-> data, passphrase |-> passphrase]
           b == [signer |-> slot, data |-> data, passphrase |-> passphrase]
       IN \/ Return("key files", a, hide_secret_key_open(a, file, p),
                    js_load(a, js_secret_load(file, p)))
          \/ Return("key files", b, hide_signing_identity_open(b, file, p),
                    js_load(b, js_signing_load(file, p)))
  \/ \E p \in Passphrases,
        a \in [secret : Given, out : Given, passphrase : {"good", "null", "not_utf8"}] :
       Return("key files", a, hide_secret_key_protect(a, p), js_protect(p))
  \/ \E p \in Passphrases, a \in [out : Given, passphrase : {"good", "null", "not_utf8"}] :
       Return("key files", a, hide_identity_generate(a, p), js_identity_generate(p))

(* The caller reads the code.                                              *)
Look == result # NoResult /\ result' = NoResult

LibInit == result = NoResult

LibNext ==
  \/ CallWithDocuments
  \/ CallWithProofs
  \/ CallWithSignatures
  \/ CallWithContainers
  \/ CallWithKeys
  \/ CallWithKeyFiles
  \/ Look

-----------------------------------------------------------------------------
Wrong(a) == {a[n] : n \in DOMAIN a} \ {"good", "absent"}

OneFault(a, q) ==
  \E x \in DOMAIN a :
    a[x] = q /\ \A n \in DOMAIN a : n # x => a[n] \in {"good", "absent"}

(* What an entry point of the C ABI is known to let through: armor looks   *)
(* at the length of a key only, and the size of a checkpoint is for its    *)
(* caller to compare; a payload may be larger than the browser takes.      *)
Unchecked(fn) ==
  {"large"} \cup {q \in {"nonkey"} : fn = "armor"} \cup {q \in {"unexpected"} : fn = "checkpoints"}

(* The library says yes only when every argument is what it should be, and *)
(* a call that fails has written nothing, neither a buffer or a handle its *)
(* caller would have to free nor a part of an answer, whatever the checks  *)
(* and the writes of the entry points are and however they are ordered.    *)
YesMeansGood ==
  result # NoResult =>
    /\ result.c = "OK" => Wrong(result.args) \subseteq Unchecked(result.fn)
    /\ result.c # "OK" => result.written = {}

(* The C ABI and the browser give the same verdict on the same arguments,  *)
(* wherever both can be given them and both check them.  And corruption is *)
(* kept apart from forgery: where one argument alone is wrong, the C ABI   *)
(* calls it malformed if it does not decode and never if it does, and so   *)
(* does the browser of identity logs, epoch chains and their bindings.     *)
SurfacesAgree ==
  result # NoResult =>
    /\ Wrong(result.args) \cap {"null", "not_utf8", "huge", "large", "unexpected"} = {} =>
         (result.c = "OK" <=> result.js = "OK")
    /\ OneFault(result.args, "garbled") =>
         result.c = "MALFORMED" /\ (result.fn = "documents" => result.js = "malformed")
    /\ OneFault(result.args, "other") =>
         /\ result.c \in {"AUTHENTICATION", "NO_MATCHING_RECIPIENT"}
         /\ result.js = "error"

=============================================================================
