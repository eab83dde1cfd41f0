----------------------------- MODULE EpochStores ----------------------------
(***************************************************************************)
(* The epoch store as a file (crates/hide-keyring/src/epoch_store.rs): it  *)
(* is opened, changed and sealed again, each time under a fresh salt; a    *)
(* file found on the disk may be put together from the parts of several    *)
(* seals or have its header rewritten.                                     *)
(***************************************************************************)
EXTENDS Keyring

CONSTANTS Heads,          \* chain heads
          MAX_SEALS       \* bound: how often the store is sealed

ASSUME EpochStoresAssumption == MAX_SEALS \in Nat

VARIABLES sealed,   \* every seal: the store, the passphrase, the file
          found     \* the file as it is read back, if there is one

storeVars == <<sealed, found>>

EpochNumbers == 0..(MAX_ENTRIES - 1)
Secret(n, salt) == <<"secret", n, salt>>
Files == {s.file : s \in sealed}

(* A store sealed: a new one with the epochs inserted so far, or an        *)
(* earlier one with an epoch more, an epoch fewer, or another head.        *)
Seal(store, p) ==
  LET salt == Cardinality(sealed)
      file == seal_with(store, p, salt)
  IN /\ salt < MAX_SEALS
     /\ file.ok
     /\ sealed' = sealed \cup {[store |-> store, p |-> p, file |-> file.value]}
     /\ found' = {file.value}

SealNew(head, numbers, p) ==
  Seal([chain_head |-> head,
        entries |-> [n \in numbers |-> Secret(n, Cardinality(sealed))]], p)

SealMore(s, number, p) ==
  LET store == insert(s.store, number, Secret(number, Cardinality(sealed)))
  IN store.ok /\ Seal(store.value, p)

SealFewer(s, number, p) ==
  number \in DOMAIN s.store.entries /\ Seal(remove(s.store, number), p)

SealHead(s, head, p) == Seal([s.store EXCEPT !.chain_head = head], p)

(* A file with the header of one seal, rewritten or not, some entries of   *)
(* another and the trailer of a third.                                     *)
Recombine(h, body, kept, trailer, head, count) ==
  /\ found' = {[header |-> [h EXCEPT !.chain_head = head, !.body_len = count],
                body |-> SelectSeq(body, LAMBDA e : e.number \in kept),
                trailer |-> trailer]}
  /\ UNCHANGED sealed

StoreInit == sealed = {} /\ found = {}

StoreNext ==
  \/ \E p \in Passphrases, head \in Heads :
       \/ \E numbers \in SUBSET EpochNumbers : SealNew(head, numbers, p)
       \/ \E s \in sealed : SealHead(s, head, p)
  \/ \E p \in Passphrases, s \in sealed, number \in EpochNumbers :
       SealMore(s, number, p) \/ SealFewer(s, number, p)
  \/ /\ found \subseteq Files
     /\ \E a, b, c \in Files, kept \in SUBSET EpochNumbers, head \in Heads,
           count \in 0..MAX_ENTRIES :
          Recombine(a.header, b.body, kept, c.trailer, head, count)

-----------------------------------------------------------------------------
(* A store opens only as one that was sealed, whole, under the word that   *)
(* is typed: no epoch's secret is dropped, brought back or moved to        *)
(* another chain by recombining the files (entry_aad, the trailer).        *)
StoreOpensAsSealed ==
  \A file \in found, p \in Passphrases : open_store(file, p).ok =>
    \E s \in sealed : s.p.word = p.word /\ s.store = open_store(file, p).value

SealedStoreOpens ==
  \A s \in sealed, form \in Forms :
    open_store(s.file, [word |-> s.p.word, form |-> form]) = Ok(s.store)

=============================================================================
