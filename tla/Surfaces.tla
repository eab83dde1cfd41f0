------------------------------ MODULE Surfaces ------------------------------
(***************************************************************************)
(* The surfaces of HIDE over its key material: the programs that keep key  *)
(* files (KeyFiles), the store of epoch secrets (EpochStores), the two     *)
(* language boundaries (Bindings), the Go objects over one of them         *)
(* (Wrappers) and the signatures all of them make (Signatures).  They      *)
(* share the key file format and nothing else, so each behaviour follows   *)
(* one of them while the others stay as they started.                      *)
(***************************************************************************)
EXTENDS KeyFiles, EpochStores, Bindings, Wrappers, Signatures

VARIABLE focus   \* the part a behaviour follows

surfaceVars == <<keyVars, storeVars, result, wrapVars, issued, focus>>

Init ==
  /\ focus \in {"files", "stores", "library", "wrappers", "signing"}
  /\ KeyInit /\ (focus # "files" => \A path \in Paths : disk[path] = None)
  /\ StoreInit /\ LibInit /\ WrapInit /\ SignInit

Next ==
  /\ UNCHANGED focus
  /\ \/ focus = "files" /\ KeyNext /\ UNCHANGED <<storeVars, result, wrapVars, issued>>
     \/ focus = "stores" /\ StoreNext /\ UNCHANGED <<keyVars, result, wrapVars, issued>>
     \/ focus = "library" /\ LibNext /\ UNCHANGED <<keyVars, storeVars, wrapVars, issued>>
     \/ focus = "wrappers" /\ WrapNext /\ UNCHANGED <<keyVars, storeVars, result, issued>>
     \/ focus = "signing" /\ SignNext /\ UNCHANGED <<keyVars, storeVars, result, wrapVars>>

Spec == Init /\ [][Next]_surfaceVars

-----------------------------------------------------------------------------
(* Key files and epoch stores open however the keyboard of the day spells  *)
(* the passphrase: what was sealed under one Unicode spelling opens, as it *)
(* was sealed, under the others (passphrase normalisation, and the second  *)
(* try that unprotect_seed makes for files of older releases).             *)
AnySpellingOpens == KeyFileOpens /\ SealedStoreOpens

(* A key file means the same to every program: whatever file the commands  *)
(* leave on the disk, the command line, the desktop application, the C ABI *)
(* and the browser get the same encryption key from it or refuse it        *)
(* together, agree on whether it can sign, and a key taken out of it and   *)
(* sealed again through any of them is still that key                      *)
(* (hide_keyring::open, load_key, hide_secret_key_protect).                *)
SameKeyEverywhere ==
  \A p \in Typed :
    LET file == disk["secret"]
        key == open(file, p)
    IN file.kind \notin {"none"} /\ (inspect(file) = "Protected" => p # NoPassphrase) =>
         /\ desktop_load_secret(file, p).ok = key.ok /\ load_secret(file, p).ok = key.ok
         /\ load_signing_identity(file, p).ok <=> signing_identity_open(file, p) = "OK"
         /\ load_signing_identity(file, p).ok <=> js_signing_load(file, p) = "OK"
         /\ key.ok =>
              /\ load_secret(file, p) = key /\ desktop_load_secret(file, p) = key
              /\ \A q \in Passphrases : protect(key.value, q).ok =>
                   LET again == protect(key.value, q).value
                   IN open(again, q) = key /\ load_secret(again, q) = key

=============================================================================
