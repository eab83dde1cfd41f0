----------------------------- MODULE EpochFiles -----------------------------
(***************************************************************************)
(* The two files the command line keeps for an epoch chain, and the        *)
(* commands that read and rewrite them: epoch-init, epoch-advance,         *)
(* epoch-erase and epoch-public (apps/hide-cli/src/main.rs).               *)
(*                                                                         *)
(* The public history and the sealed store are separate files, each        *)
(* replaced by a rename, with no lock between processes.  A command is a   *)
(* sequence of steps of one process: it reads the history, reads the       *)
(* store, and writes back the store, then the history.  A process may stop *)
(* between any two of them, and the machine may lose power, after which a  *)
(* rename whose directory was never fsynced may or may not have survived.  *)
(*                                                                         *)
(* A key stands for a secret and for the public key made from it.  A link  *)
(* is a hash of everything before it, so a head is the list of keys it     *)
(* commits to: equal heads are equal histories.                            *)
(***************************************************************************)
EXTENDS Naturals, Sequences, FiniteSets

CONSTANTS
  Procs,               \* processes that may run a command at the same time
  MaxChainEntries,     \* MAX_CHAIN_ENTRIES: epochs one chain may hold
  MaxHeld,             \* EpochStore MAX_ENTRIES: secrets one store may hold
  MaxLogRecords,       \* records of a history that fit in MAX_LOG_FILE bytes
  MaxKeys,             \* bound on the keys generated in a behaviour
  Absent,              \* the content of a file that does not exist
  Existing,            \* TRUE: start from a chain whose epoch-init was synced
  PowerLoss            \* TRUE: the machine may lose power

ASSUME EpochBounds == /\ MaxChainEntries \in Nat \ {0}
                      /\ MaxHeld \in Nat \ {0}
                      /\ MaxLogRecords \in Nat \ {0}
                      /\ MaxKeys \in Nat \ {0}

ASSUME EpochFlags == Existing \in BOOLEAN /\ PowerLoss \in BOOLEAN

(* RecipientSecret::generate returns a key never seen before: the keys of  *)
(* a behaviour are 1, 2, 3, ... in the order they are generated.           *)
Key == Nat \ {0}

(* EpochChain, and the sealed form of it: the history, and the secrets     *)
(* still held as <<number, key>> pairs.                                    *)
Chain == [records : Seq(Key), secrets : SUBSET (Nat \X Key)]

ASSUME AbsentIsNoFile == Absent \notin Seq(Key) \cup Chain

VARIABLES
  history,             \* the history file, as a reader sees it
  store,               \* the store file, as a reader sees it
  maybeHistory,        \* the contents the history may have after power loss
  maybeStore,          \* the contents the store may have after power loss
  minted,              \* how many keys were generated so far
  pc,                  \* where each process is in its command
  target,              \* the epoch an epoch-erase process was asked to erase
  chain,               \* what each process holds in memory
  sent,                \* keys some sender took from a history and encrypted to
  requested,           \* keys whose erasure the user asked for
  reported             \* keys an epoch-erase reported as erased

files == <<history, store, maybeHistory, maybeStore>>
ghosts == <<sent, requested, reported>>
vars == <<files, minted, pc, target, chain, ghosts>>

NoChain == [records |-> <<>>, secrets |-> {}]

PCs == {"idle", "initStore", "initHistory",
        "advLoad", "advStore", "advSyncStore", "advHistory", "advSyncHistory",
        "eraLoad", "eraStore", "eraSyncStore"}

Goto(p, from, to) == pc[p] = from /\ pc' = [pc EXCEPT ![p] = to]

IsPrefixOf(h, r) == Len(h) <= Len(r) /\ \A i \in 1..Len(h) : h[i] = r[i]

StoredKeys(s) == IF s = Absent THEN {} ELSE {e[2] : e \in s.secrets}

-----------------------------------------------------------------------------
(* The chain in memory (crates/hide-epoch/src/lib.rs).                     *)

(* Mutant of advance: the older secrets are dropped.                       *)
advance_forgets(c, k) ==
  [records |-> Append(c.records, k), secrets |-> {<<Len(c.records), k>>}]

(* EpochChain::advance: a fresh key, its record and its secret, under the  *)
(* number the length of the history gives it.                              *)
advance(c, k) ==
  [records |-> Append(c.records, k),
   secrets |-> c.secrets \cup {<<Len(c.records), k>>}]

(* EpochChain::current.                                                    *)
current(c) == Len(c.records) - 1

(* EpochChain::is_readable.                                                *)
is_readable(c, n) == \E e \in c.secrets : e[1] = n

(* EpochChain::erase.                                                      *)
erase(c, n) ==
  [records |-> c.records, secrets |-> {e \in c.secrets : e[1] # n}]

(* EpochChain::restore: every secret belongs to an epoch of the history    *)
(* and is the one its record publishes, and none is supplied twice.        *)
restorable(h, secrets) ==
  /\ h # <<>>
  /\ \A e \in secrets : e[1] < Len(h) /\ h[e[1] + 1] = e[2]

(* EpochStore::insert, as seal_chain calls it: a store is sealed only if   *)
(* every secret held fits.                                                 *)
Sealable(c) == Cardinality(c.secrets) <= MaxHeld

-----------------------------------------------------------------------------
Founded == advance(NoChain, 1)

Init ==
  /\ history = IF Existing THEN Founded.records ELSE Absent
  /\ store = IF Existing THEN Founded ELSE Absent
  /\ maybeHistory = {history}
  /\ maybeStore = {store}
  /\ minted = IF Existing THEN 1 ELSE 0
  /\ pc = [p \in Procs |-> "idle"]
  /\ target = [p \in Procs |-> 0]
  /\ chain = [p \in Procs |-> NoChain]
  /\ sent = {}
  /\ requested = {}
  /\ reported = {}

(* A rename replaces the whole file at once; until the directory is        *)
(* fsynced the old content may come back after a power loss.               *)
RenameHistory(h) ==
  /\ history' = h
  /\ maybeHistory' = maybeHistory \cup {h}
  /\ UNCHANGED <<store, maybeStore>>

RenameStore(s) ==
  /\ store' = s
  /\ maybeStore' = maybeStore \cup {s}
  /\ UNCHANGED <<history, maybeHistory>>

(* sync_directory: what a reader sees now is what survives.                *)
SyncHistory ==
  /\ maybeHistory' = {history}
  /\ UNCHANGED <<history, store, maybeStore>>

SyncStore ==
  /\ maybeStore' = {store}
  /\ UNCHANGED <<history, store, maybeHistory>>

-----------------------------------------------------------------------------
(* epoch-init: new_output refuses a file that exists, then the store and   *)
(* the history are each published by commit_output, which refuses to       *)
(* overwrite and does not fsync the directory.                             *)

InitBegin(p) ==
  /\ history = Absent
  /\ store = Absent
  /\ minted < MaxKeys
  /\ Goto(p, "idle", "initStore")
  /\ minted' = minted + 1
  /\ chain' = [chain EXCEPT ![p] = advance(NoChain, minted + 1)]
  /\ UNCHANGED <<files, target, ghosts>>

InitCommitStore(p) ==
  /\ store = Absent
  /\ Goto(p, "initStore", "initHistory")
  /\ RenameStore(chain[p])
  /\ UNCHANGED <<minted, target, chain, ghosts>>

InitCommitHistory(p) ==
  /\ history = Absent
  /\ Goto(p, "initHistory", "idle")
  /\ RenameHistory(chain[p].records)
  /\ chain' = [chain EXCEPT ![p] = NoChain]
  /\ UNCHANGED <<minted, target, ghosts>>

-----------------------------------------------------------------------------
(* read_public_file: the file exists and is not above MAX_LOG_FILE.        *)
Readable(h) == h # Absent /\ Len(h) <= MaxLogRecords

(* load_epochs, in two steps because the files are read one after the      *)
(* other: the history first, then the store, which is refused unless it    *)
(* was sealed for exactly that history and restores against it.            *)

ReadHistory(p, to) ==
  /\ Readable(history)
  /\ Goto(p, "idle", to)
  /\ chain' = [chain EXCEPT ![p] = [records |-> history, secrets |-> {}]]

(* Mutant: the store is used without comparing it with the history.        *)
load_epochs_unchecked(p) == store # Absent

load_epochs(p) ==
  /\ store # Absent
  /\ store.records = chain[p].records
  /\ restorable(chain[p].records, store.secrets)

Loaded(p) == [records |-> chain[p].records, secrets |-> store.secrets]

-----------------------------------------------------------------------------
(* epoch-advance.                                                          *)

AdvanceBegin(p) ==
  /\ ReadHistory(p, "advLoad")
  /\ UNCHANGED <<files, minted, target, ghosts>>

AdvanceLoad(p) ==
  /\ load_epochs(p)
  /\ Len(chain[p].records) < MaxChainEntries
  /\ minted < MaxKeys
  /\ Goto(p, "advLoad", "advStore")
  /\ minted' = minted + 1
  /\ chain' = [chain EXCEPT ![p] = advance(Loaded(p), minted + 1)]
  /\ UNCHANGED <<files, target, ghosts>>

AdvanceWriteStore(p) ==
  /\ Sealable(chain[p])
  /\ Goto(p, "advStore", "advSyncStore")
  /\ RenameStore(chain[p])
  /\ UNCHANGED <<minted, target, chain, ghosts>>

(* Mutant: the store's directory is not fsynced.                           *)
AdvanceSyncStore_skipped(p) ==
  /\ Goto(p, "advSyncStore", "advHistory")
  /\ UNCHANGED <<files, minted, target, chain, ghosts>>

AdvanceSyncStore(p) ==
  /\ Goto(p, "advSyncStore", "advHistory")
  /\ SyncStore
  /\ UNCHANGED <<minted, target, chain, ghosts>>

AdvanceWriteHistory(p) ==
  /\ Goto(p, "advHistory", "advSyncHistory")
  /\ RenameHistory(chain[p].records)
  /\ UNCHANGED <<minted, target, chain, ghosts>>

AdvanceSyncHistory(p) ==
  /\ Goto(p, "advSyncHistory", "idle")
  /\ SyncHistory
  /\ chain' = [chain EXCEPT ![p] = NoChain]
  /\ UNCHANGED <<minted, target, ghosts>>

-----------------------------------------------------------------------------
(* epoch-erase: only an epoch of the chain, not the current one, and not   *)
(* one erased before.  The rewritten store is what removes the secret.     *)

EraseBegin(p, n) ==
  /\ ReadHistory(p, "eraLoad")
  /\ target' = [target EXCEPT ![p] = n]
  /\ UNCHANGED <<files, minted, ghosts>>

(* Mutant: the current epoch may be erased.                                *)
EraseLoad_current(p) ==
  LET n == target[p] IN
  /\ load_epochs(p)
  /\ n < Len(chain[p].records)
  /\ is_readable(Loaded(p), n)
  /\ Goto(p, "eraLoad", "eraStore")
  /\ chain' = [chain EXCEPT ![p] = erase(Loaded(p), n)]
  /\ UNCHANGED <<files, minted, target, ghosts>>

EraseLoad(p) ==
  LET n == target[p] IN
  /\ load_epochs(p)
  /\ n < Len(chain[p].records)
  /\ n # current(Loaded(p))
  /\ is_readable(Loaded(p), n)
  /\ Goto(p, "eraLoad", "eraStore")
  /\ chain' = [chain EXCEPT ![p] = erase(Loaded(p), n)]
  /\ UNCHANGED <<files, minted, target, ghosts>>

EraseWriteStore(p) ==
  /\ Goto(p, "eraStore", "eraSyncStore")
  /\ RenameStore(chain[p])
  /\ requested' = requested \cup {chain[p].records[target[p] + 1]}
  /\ UNCHANGED <<minted, target, chain, sent, reported>>

(* Mutant: success is reported without fsyncing the directory.             *)
EraseSyncStore_skipped(p) ==
  /\ Goto(p, "eraSyncStore", "idle")
  /\ UNCHANGED files
  /\ reported' = reported \cup {chain[p].records[target[p] + 1]}
  /\ chain' = [chain EXCEPT ![p] = NoChain]
  /\ target' = [target EXCEPT ![p] = 0]
  /\ UNCHANGED <<minted, sent, requested>>

EraseSyncStore(p) ==
  /\ Goto(p, "eraSyncStore", "idle")
  /\ SyncStore
  /\ reported' = reported \cup {chain[p].records[target[p] + 1]}
  /\ chain' = [chain EXCEPT ![p] = NoChain]
  /\ target' = [target EXCEPT ![p] = 0]
  /\ UNCHANGED <<minted, sent, requested>>

-----------------------------------------------------------------------------
(* epoch-public and a sender: the key of one epoch of the history the      *)
(* sender sees is exported, and something is encrypted to it.              *)
EpochPublic(n) ==
  /\ Readable(history)
  /\ n < Len(history)
  /\ history[n + 1] \notin sent
  /\ sent' = sent \cup {history[n + 1]}
  /\ UNCHANGED <<files, minted, pc, target, chain, requested, reported>>

(* A process ends early: it was killed, the passphrase was wrong, a check  *)
(* of load_epochs or new_output failed, or an I/O call returned an error.  *)
(* Its staging file is never renamed and its memory is gone.               *)
Stop(p) ==
  /\ pc[p] # "idle"
  /\ pc' = [pc EXCEPT ![p] = "idle"]
  /\ chain' = [chain EXCEPT ![p] = NoChain]
  /\ target' = [target EXCEPT ![p] = 0]
  /\ UNCHANGED <<files, minted, ghosts>>

(* Power is lost: every process is gone, and each file has one of the      *)
(* contents an fsync had not yet ruled out.                                *)
LosePower ==
  /\ PowerLoss
  /\ history' \in maybeHistory
  /\ store' \in maybeStore
  /\ maybeHistory' = {history'}
  /\ maybeStore' = {store'}
  /\ pc' = [p \in Procs |-> "idle"]
  /\ chain' = [p \in Procs |-> NoChain]
  /\ target' = [p \in Procs |-> 0]
  /\ UNCHANGED <<minted, ghosts>>

Proceed(p) ==
  \/ InitCommitStore(p) \/ InitCommitHistory(p)
  \/ AdvanceLoad(p) \/ AdvanceWriteStore(p) \/ AdvanceSyncStore(p)
  \/ AdvanceWriteHistory(p) \/ AdvanceSyncHistory(p)
  \/ EraseLoad(p) \/ EraseWriteStore(p) \/ EraseSyncStore(p)
  \/ Stop(p)

Next ==
  \/ \E p \in Procs :
       \/ InitBegin(p)
       \/ AdvanceBegin(p)
       \/ \E n \in 0..(MaxChainEntries - 1) : EraseBegin(p, n)
       \/ Proceed(p)
  \/ \E n \in 0..(MaxChainEntries - 1) : EpochPublic(n)
  \/ LosePower

Spec == Init /\ [][Next]_vars

-----------------------------------------------------------------------------
(* The files and the processes hold what their readers expect: chains,     *)
(* histories, and only keys that were generated.                           *)
TypeOK ==
  /\ history \in Seq(Key) \cup {Absent}
  /\ store \in Chain \cup {Absent}
  /\ maybeHistory \subseteq Seq(Key) \cup {Absent}
  /\ maybeStore \subseteq Chain \cup {Absent}
  /\ minted \in 0..MaxKeys
  /\ pc \in [Procs -> PCs]
  /\ target \in [Procs -> Nat]
  /\ chain \in [Procs -> Chain]
  /\ sent \subseteq Key
  /\ requested \subseteq Key
  /\ reported \subseteq Key

(* main.rs, epoch_init_with: "Store first: a history naming a key whose    *)
(* secret was never saved would let senders encrypt to a key nobody        *)
(* holds."  Whatever was encrypted to a published key can be opened with   *)
(* the store, unless the user asked for that epoch to be erased.           *)
SentStaysReadable == \A k \in sent : k \in StoredKeys(store) \cup requested

(* epoch-erase reports "Epoch n erased from ..." and EpochChain::erase is  *)
(* documented as irreversible: after the report neither the store file nor *)
(* what a power loss could bring back holds the secret.                    *)
ErasedStaysErased ==
  \A s \in maybeStore : StoredKeys(s) \cap reported = {}

(* The epoch senders are told to encrypt to (the last of the history) is   *)
(* held in the store: it cannot be erased, and its secret is saved first.  *)
CurrentIsHeld ==
  history # Absent => history[Len(history)] \in StoredKeys(store)

(* load_epochs: the store is sealed for the published history, or it is    *)
(* the one the interrupted epoch-advance or epoch-init left one epoch      *)
(* ahead; it is never behind and never about another history.              *)
StoreAtMostOneAhead ==
  history # Absent =>
    /\ store # Absent
    /\ \/ store.records = history
       \/ store.records = Append(history, store.records[Len(store.records)])

(* Even when a power loss undoes renames that were never fsynced, the      *)
(* store commits to at least the history next to it: epoch-advance fsyncs  *)
(* the store's directory before it renames the history.                    *)
StoreNeverBehind ==
  history # Absent => store # Absent /\ IsPrefixOf(history, store.records)

(* Whatever interleaving wrote it, a store holds secrets only under the    *)
(* number of the record that publishes their key, so the checks of         *)
(* EpochChain::restore can only fail on a file this program did not write. *)
StoreRestores ==
  /\ store # Absent => restorable(store.records, store.secrets)
  /\ \A p \in Procs : pc[p] # "idle" => restorable(chain[p].records, chain[p].secrets)

(* A crash between the two writes of epoch-advance "surfaces here as a     *)
(* head mismatch": once the files disagree and nobody is about to finish   *)
(* the advance, no command changes either file again.                      *)
DisagreementIsFrozen ==
  [][ (/\ history # Absent /\ store # Absent
       /\ store.records # history
       /\ \A p \in Procs : pc[p] \notin {"advSyncStore", "advHistory"})
      => UNCHANGED <<history, store>> ]_vars

-----------------------------------------------------------------------------
(* The two files implement the ledger: an epoch is published when the      *)
(* history is renamed, and readable while the store holds a secret for a   *)
(* published epoch.                                                        *)
PublishedNow == IF history = Absent THEN <<>> ELSE history

ReadableNow ==
  IF store = Absent THEN {}
  ELSE {n \in 0..(Len(PublishedNow) - 1) : is_readable(store, n)}

Ledger == INSTANCE EpochLedger WITH Key <- 1..MaxKeys,
                                    published <- PublishedNow,
                                    readable <- ReadableNow

ImplementsLedger == Ledger!Spec
=============================================================================
