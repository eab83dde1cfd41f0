------------------------------ MODULE KeyFiles ------------------------------
(***************************************************************************)
(* The commands that write key files and outputs: the command line         *)
(* (apps/hide-cli/src/main.rs) and the desktop application                 *)
(* (apps/hide-desktop/src-tauri/src/lib.rs), run by several processes on   *)
(* the same five paths.  The command line writes beside the target and     *)
(* publishes in one step; the desktop application writes in place.  A      *)
(* process may end between any two steps; its staging file is then gone,   *)
(* what it wrote in place is not.                                          *)
(***************************************************************************)
EXTENDS Keyring

CONSTANTS Processes,
          MAX_SEEDS,     \* bound: identities generated
          PasswdOn       \* the kinds of key file users run `hide passwd` on

ASSUME KeyFilesAssumption == MAX_SEEDS \in Nat /\ PasswdOn \subseteq {"raw", "sealed"}

VARIABLES disk,   \* what each path holds
          proc,   \* what each process is in the middle of
          seeds   \* identities generated so far

keyVars == <<disk, proc, seeds>>

Paths == {"secret", "sign", "public", "out", "part"}
None == [kind |-> "none"]
PublicFile(key) == [kind |-> "public", key |-> key]
VerifyingFile(key) == [kind |-> "verifying", key |-> key]
Container == [kind |-> "container"]
Texts == {"text", "edited"}
Signature(key, text) == [kind |-> "signature", by |-> key, over |-> text]
Plain(authentic) == [kind |-> "plain", authentic |-> authentic]

Idle == [cmd |-> "idle"]

Finish(p) == proc' = [proc EXCEPT ![p] = Idle]
Go(p, record) == proc' = [proc EXCEPT ![p] = record]
Put(path, content) == disk' = [disk EXCEPT ![path] = content]

(* A write through a handle: the file it names may have been renamed over. *)
Fill(path, content) == disk' = [disk EXCEPT ![path] = IF @ = Torn THEN content ELSE @]

-----------------------------------------------------------------------------
(* load_key of the command line, and what is made of it.                   *)
load_key(file, p) ==
  IF file.kind \notin {"raw", "sealed"} THEN Err("NotASecretKey")
  ELSE IF inspect(file) = "Raw" THEN Ok([seed |-> file.seed, purpose |-> "Identity"])
  ELSE unprotect_seed(file, p)

load_secret(file, p) ==
  LET key == load_key(file, p) IN
  IF ~key.ok THEN key
  ELSE IF key.value.purpose = "Identity" THEN Ok(recipient_secret(key.value.seed))
  ELSE Ok(key.value.seed)

load_signing_identity(file, p) ==
  LET key == load_key(file, p) IN
  IF ~key.ok THEN key
  ELSE IF key.value.purpose = "Identity" THEN Ok(signing_seed(key.value.seed))
  ELSE Err("HoldsNoSigningKey")

(* The desktop application's load_secret.                                  *)
desktop_load_secret(file, p) ==
  IF file = None THEN Err("CouldNotOpen")
  ELSE IF inspect(file) = "Protected" /\ p = NoPassphrase THEN Err("KeyIsProtected")
  ELSE open(file, p)

(* load_recipients and the desktop application's load_public take either   *)
(* the key itself or its text form.                                        *)
load_public(file) ==
  IF file.kind = "public" THEN Ok(file.key)
  ELSE IF file.kind = "armored" THEN decode_public(file.text)
  ELSE Err("NotAPublicKey")

load_verifying_identity(file) ==
  IF file.kind = "verifying" THEN Ok(file.key) ELSE Err("NotASigningPublicKey")

-----------------------------------------------------------------------------
(* new_output refuses a path that is taken; commit_output publishes        *)
(* without overwriting.                                                    *)
new_output(path) == disk[path] = None

(* Mutant of commit_output: persist instead of persist_noclobber.          *)
commit_output_over(p, path, content, next) ==
  Put(path, content) /\ Go(p, next) /\ UNCHANGED seeds

commit_output(p, path, content, next) ==
  /\ UNCHANGED seeds
  /\ IF disk[path] = None THEN Put(path, content) /\ Go(p, next)
     ELSE UNCHANGED disk /\ Finish(p)

(* keygen: the three paths are checked and the identity made; one file     *)
(* after another is published.                                             *)
KeygenStart(p, pass) ==
  LET seed == seeds + 1
      sealed == IF pass = NoPassphrase THEN Ok(Raw(seed)) ELSE protect_identity(seed, pass)
  IN /\ proc[p] = Idle /\ seeds < MAX_SEEDS
     /\ new_output("secret") /\ new_output("public") /\ new_output("sign")
     /\ sealed.ok
     /\ seeds' = seed
     /\ Go(p, [cmd |-> "keygen", step |-> "secret", seed |-> seed, file |-> sealed.value])
     /\ UNCHANGED disk

(* Mutant of KeygenCommit: the public key is published first.              *)
KeygenCommit_public_first(p) ==
  LET me == proc[p] IN
  /\ me.cmd = "keygen"
  /\ \/ /\ me.step = "secret"
        /\ commit_output(p, "public", PublicFile(public_key(recipient_secret(me.seed))),
                         [me EXCEPT !.step = "sign"])
     \/ /\ me.step = "sign"
        /\ commit_output(p, "sign", VerifyingFile(public_key(signing_seed(me.seed))),
                         [me EXCEPT !.step = "public"])
     \/ /\ me.step = "public"
        /\ commit_output(p, "secret", me.file, Idle)

KeygenCommit(p) ==
  LET me == proc[p] IN
  /\ me.cmd = "keygen"
  /\ \/ /\ me.step = "secret"
        /\ commit_output(p, "secret", me.file, [me EXCEPT !.step = "sign"])
     \/ /\ me.step = "sign"
        /\ commit_output(p, "sign", VerifyingFile(public_key(signing_seed(me.seed))),
                         [me EXCEPT !.step = "public"])
     \/ /\ me.step = "public"
        /\ commit_output(p, "public", PublicFile(public_key(recipient_secret(me.seed))), Idle)

(* create_new of the desktop application: the file is there, empty.        *)
create_new(p, path, next) ==
  IF disk[path] = None THEN Put(path, Torn) /\ Go(p, next)
  ELSE UNCHANGED disk /\ Finish(p)

(* generate_keys: secret and public key are each created and then written. *)
GenerateStart(p, pass) ==
  LET seed == seeds + 1
      sealed == IF pass = NoPassphrase THEN Ok(Raw(seed)) ELSE protect_identity(seed, pass)
  IN /\ proc[p] = Idle /\ seeds < MAX_SEEDS
     /\ sealed.ok
     /\ seeds' = seed
     /\ create_new(p, "secret", [cmd |-> "generate_keys", step |-> "secret",
                                 seed |-> seed, file |-> sealed.value])

GenerateStep(p) ==
  LET me == proc[p] IN
  /\ me.cmd = "generate_keys"
  /\ \/ me.step = "secret" /\ Fill("secret", me.file) /\ Go(p, [me EXCEPT !.step = "create"])
     \/ me.step = "create" /\ create_new(p, "public", [me EXCEPT !.step = "public"])
     \/ /\ me.step = "public"
        /\ Fill("public", PublicFile(public_key(recipient_secret(me.seed)))) /\ Finish(p)
  /\ UNCHANGED seeds

(* change_passphrase: a raw file's bytes are taken for a recipient seed, a *)
(* sealed identity is refused, and the file is replaced by an              *)
(* encryption-only one.                                                    *)
PasswdRead(p, current, new) ==
  LET file == disk["secret"]
      secret == IF inspect(file) = "Raw" THEN Ok(file.seed) ELSE unprotect(file, current)
  IN /\ proc[p] = Idle
     /\ file.kind \in PasswdOn
     /\ secret.ok /\ protect(secret.value, new).ok
     /\ Go(p, [cmd |-> "passwd", file |-> protect(secret.value, new).value])
     /\ UNCHANGED <<disk, seeds>>

PasswdReplace(p) ==
  /\ proc[p].cmd = "passwd"
  /\ Put("secret", proc[p].file) /\ Finish(p)
  /\ UNCHANGED seeds

-----------------------------------------------------------------------------
(* encrypt_file and open_file of the command line.  The container opened   *)
(* may turn out not to authenticate, after plaintext was staged.           *)
CliStart(p, cmd, authentic, pass) ==
  /\ proc[p] = Idle
  /\ IF cmd = "encrypt" THEN load_public(disk["public"]).ok
     ELSE load_secret(disk["secret"], pass).ok
  /\ new_output("out")
  /\ Go(p, [cmd |-> cmd, authentic |-> authentic])
  /\ UNCHANGED <<disk, seeds>>

(* seal_message has its recipients before it reads the message, and looks  *)
(* at the output path only when it has the sealed text.                    *)
seal_message(p) ==
  /\ proc[p] = Idle
  /\ load_public(disk["public"]).ok
  /\ Go(p, [cmd |-> "seal"])
  /\ UNCHANGED <<disk, seeds>>

(* sign_file: the key and the output path first, then the input is hashed. *)
sign_file(p, text, pass) ==
  LET identity == load_signing_identity(disk["secret"], pass) IN
  /\ proc[p] = Idle
  /\ identity.ok
  /\ new_output("out")
  /\ Go(p, [cmd |-> "sign", file |-> Signature(public_key(identity.value), text)])
  /\ UNCHANGED <<disk, seeds>>

(* verify_file: the key that came with the signature must be the expected  *)
(* one, and the signature over the input's hash and length.                *)
verify_file(signature, signer, text) ==
  LET expected == load_verifying_identity(signer) IN
  /\ expected.ok
  /\ signature.kind = "signature"
  /\ signature.by = expected.value
  /\ signature.over = text

CliPublish(p) ==
  LET me == proc[p] IN
  \/ me.cmd \in {"encrypt", "seal"} /\ commit_output(p, "out", Container, Idle)
  \/ me.cmd = "sign" /\ commit_output(p, "out", me.file, Idle)
  \/ me.cmd = "open" /\ me.authentic /\ commit_output(p, "out", Plain(TRUE), Idle)
  \/ me.cmd = "open" /\ ~me.authentic /\ Finish(p) /\ UNCHANGED <<disk, seeds>>

(* encrypt_file of the desktop application writes the output in place.     *)
DesktopEncrypt(p) ==
  \/ /\ proc[p] = Idle
     /\ load_public(disk["public"]).ok
     /\ create_new(p, "out", [cmd |-> "desktop_encrypt"])
     /\ UNCHANGED seeds
  \/ /\ proc[p].cmd = "desktop_encrypt"
     /\ Fill("out", Container) /\ Finish(p) /\ UNCHANGED seeds

(* decrypt_file of the desktop application stages under a fixed name and   *)
(* renames over whatever the output path holds by then.                    *)
DesktopDecrypt(p, authentic, pass) ==
  \/ /\ proc[p] = Idle
     /\ desktop_load_secret(disk["secret"], pass).ok
     /\ create_new(p, "part", [cmd |-> "desktop_decrypt", authentic |-> authentic])
     /\ UNCHANGED seeds
  \/ /\ proc[p].cmd = "desktop_decrypt" /\ proc[p].authentic
     /\ disk' = [disk EXCEPT !["out"] = Plain(TRUE), !["part"] = None]
     /\ Finish(p) /\ UNCHANGED seeds
  \/ /\ proc[p].cmd = "desktop_decrypt" /\ ~proc[p].authentic
     /\ Put("part", None) /\ Finish(p) /\ UNCHANGED seeds

(* The process is killed; staging files of the command line go with it or  *)
(* stay under a name nothing reads.                                        *)
Crash(p) ==
  /\ proc[p] # Idle
  /\ Finish(p)
  /\ UNCHANGED <<disk, seeds>>

-----------------------------------------------------------------------------
(* What a user may find on the disk: nothing, or the file of an old        *)
(* release with its public key.                                            *)
KeyInit ==
  /\ disk \in {[path \in Paths |-> None]} \cup
       {[path \in Paths |-> IF path = "secret" THEN LegacyFile(p)
                            ELSE IF path = "public" THEN PublicFile(public_key("legacy_seed"))
                            ELSE None] : p \in Passphrases}
  /\ proc = [p \in Processes |-> Idle]
  /\ seeds = 0

KeyNext ==
  \E p \in Processes :
    \/ \E pass \in Typed : KeygenStart(p, pass)
    \/ KeygenCommit(p)
    \/ \E pass \in Typed : GenerateStart(p, pass)
    \/ GenerateStep(p)
    \/ disk["secret"].kind \in PasswdOn
       /\ \E current \in Typed, new \in Passphrases : PasswdRead(p, current, new)
    \/ PasswdReplace(p)
    \/ \E cmd \in {"encrypt", "open"}, authentic \in BOOLEAN, pass \in Typed :
         CliStart(p, cmd, authentic, pass)
    \/ seal_message(p)
    \/ \E text \in Texts, pass \in Typed : sign_file(p, text, pass)
    \/ CliPublish(p)
    \/ DesktopEncrypt(p)
    \/ \E authentic \in BOOLEAN, pass \in Typed : DesktopDecrypt(p, authentic, pass)
    \/ Crash(p)

-----------------------------------------------------------------------------
(* The paths hold what the commands write to them.                         *)
KeyTypeOK ==
  /\ DOMAIN disk = Paths
  /\ disk["secret"].kind \in {"none", "raw", "sealed", "torn"}
  /\ disk["public"].kind \in {"none", "public", "torn"}
  /\ disk["sign"].kind \in {"none", "verifying"}
  /\ disk["out"].kind \in {"none", "plain", "container", "signature", "torn"}
  /\ disk["part"] \in {None, Torn}
  /\ seeds \in 0..MAX_SEEDS
  /\ \A p \in Processes : proc[p] = Idle \/ proc[p].cmd \in
       {"keygen", "generate_keys", "passwd", "encrypt", "seal", "sign", "open",
        "desktop_encrypt", "desktop_decrypt"}

(* Whatever is published can be used by its owner: a public key on the     *)
(* disk belongs to the secret key beside it, which some passphrase opens,  *)
(* and a verifying key to a signing key, so that a file that was signed    *)
(* verifies under the verifying key, unless it is edited; wherever keygen, *)
(* generate_keys and passwd were interrupted or met each other.            *)
PublicHasItsSecret ==
  /\ disk["public"].kind = "public" =>
       \E p \in Typed : LET opened == load_secret(disk["secret"], p) IN
         opened.ok /\ public_key(opened.value) = disk["public"].key
  /\ disk["sign"].kind = "verifying" =>
       \E p \in Typed : LET opened == load_signing_identity(disk["secret"], p) IN
         opened.ok /\ public_key(opened.value) = disk["sign"].key
  /\ disk["sign"].kind = "verifying" /\ disk["out"].kind = "signature" =>
       \A text \in Texts :
         verify_file(disk["out"], disk["sign"], text) <=> text = disk["out"].over

(* One sealed now under any spelling opens under all of them, and one an   *)
(* old release sealed under NFC or NFD opens under both.                   *)
KeyFileOpens ==
  disk["secret"].kind = "sealed" =>
    LET sealed == disk["secret"].box.key[2]
        old == disk["secret"].header.version = 1
    IN ~(old /\ sealed.form = "mixed") =>
         \A form \in (IF old THEN {"nfc", "nfd"} ELSE Forms) :
           open(disk["secret"], [word |-> sealed.word, form |-> form]).ok

(* The command line never replaces a finished file: only passwd replaces a *)
(* secret key, and only the desktop application's rename another output.   *)
(* And plaintext comes under its final name only when the whole container  *)
(* authenticated, whichever program decrypts and however many at once.     *)
CliNeverOverwrites ==
  [][/\ \A path \in Paths :
          disk[path].kind \notin {"none", "torn"} /\ disk'[path] # disk[path] =>
            \E p \in Processes :
              \/ path = "secret" /\ proc[p].cmd = "passwd"
              \/ path = "out" /\ proc[p].cmd = "desktop_decrypt"
     /\ disk'["out"].kind = "plain" => disk'["out"].authentic]_keyVars

=============================================================================
