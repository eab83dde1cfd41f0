-------------------------- MODULE EpochFilesProofs --------------------------
(***************************************************************************)
(* Proofs about EpochFiles, for every number of epochs and keys.  TypeOK   *)
(* holds for any number of overlapping processes; what makes the files     *)
(* trustworthy is proved for commands run one at a time.                   *)
(***************************************************************************)
EXTENDS EpochFiles, TLAPS

(***************************************************************************)
(* Part 1: any number of processes.  The invariant adds to the types that  *)
(* every store that may be on disk, and every chain a process holds, seals *)
(* secrets under the number of the record that publishes them.             *)
(***************************************************************************)

Sound(c) == c \in Chain /\ restorable(c.records, c.secrets)

SoundFiles ==
  /\ store \in maybeStore
  /\ history \in maybeHistory
  /\ \A s \in maybeStore : s # Absent => Sound(s)
  /\ <<>> \notin maybeHistory

SoundProcs ==
  \A p \in Procs :
    /\ pc[p] # "idle" => Sound(chain[p])
    /\ pc[p] \in {"eraStore", "eraSyncStore"} => target[p] < Len(chain[p].records)

SoundInv == TypeOK /\ SoundFiles /\ SoundProcs

LEMMA AdvanceSound ==
  ASSUME NEW c \in Chain, NEW k \in Key, c = NoChain \/ Sound(c)
  PROVE  Sound(advance(c, k))
<1> DEFINE r == Append(c.records, k)
<1>1. advance(c, k) \in Chain
  BY DEF Chain, advance, Key
<1>2. r # <<>> /\ Len(r) = Len(c.records) + 1
      /\ r[Len(c.records) + 1] = k
      /\ \A i \in 1..Len(c.records) : r[i] = c.records[i]
  BY DEF Chain
<1>3. ASSUME NEW e \in advance(c, k).secrets
      PROVE  e[1] < Len(r) /\ r[e[1] + 1] = e[2]
  <2>1. CASE e = <<Len(c.records), k>>
    BY <2>1, <1>2 DEF Chain
  <2>2. CASE e \in c.secrets
    <3>1. Sound(c)
      BY <2>2 DEF NoChain
    <3>2. e \in Nat \X Key
      BY <2>2 DEF Chain
    <3> QED
      BY <2>2, <3>1, <3>2, <1>2 DEF Sound, restorable, Chain
  <2> QED
    BY <1>3, <2>1, <2>2 DEF advance
<1> QED
  BY <1>1, <1>2, <1>3 DEF Sound, restorable, advance

LEMMA EraseSound ==
  ASSUME NEW c, Sound(c), NEW n \in Nat
  PROVE  Sound(erase(c, n))
  BY DEF Sound, erase, restorable, Chain

LEMMA NoChainType == NoChain \in Chain
  BY DEF NoChain, Chain

LEMMA LoadedSound ==
  ASSUME TypeOK, NEW p \in Procs, load_epochs(p)
  PROVE  Sound(Loaded(p))
  BY DEF TypeOK, load_epochs, Loaded, Chain, Sound

LEMMA ReadSound ==
  ASSUME SoundInv, history # Absent
  PROVE  Sound([records |-> history, secrets |-> {}])
  BY DEF SoundInv, TypeOK, SoundFiles, Chain, Sound, restorable

LEMMA FoundedSound == Sound(Founded)
  BY AdvanceSound, NoChainType DEF Founded, Key

LEMMA SoundIsChain == ASSUME NEW c, Sound(c) PROVE c \in Chain /\ c.records \in Seq(Key) /\ c.records # <<>> /\ c # Absent
  BY AbsentIsNoFile DEF Sound, Chain, restorable

LEMMA SoundInit == Init => SoundInv
<1> SUFFICES ASSUME Init PROVE SoundInv
  OBVIOUS
<1>1. Sound(Founded) /\ Founded \in Chain /\ Founded.records \in Seq(Key) /\ Founded.records # <<>>
  BY FoundedSound, SoundIsChain
<1>2. TypeOK
  BY <1>1, NoChainType, EpochBounds, EpochFlags DEF Init, TypeOK, PCs
<1>3. SoundFiles
  <2>1. Absent # <<>>
    <3>1. <<>> \in Seq(Key)
      OBVIOUS
    <3> QED
      BY <3>1, AbsentIsNoFile, Zenon
  <2>2. CASE Existing
    BY <1>1, <2>2 DEF Init, SoundFiles
  <2>3. CASE ~Existing
    BY <2>1, <2>3 DEF Init, SoundFiles
  <2> QED
    BY <2>2, <2>3
<1>4. SoundProcs
  BY DEF Init, SoundProcs
<1> QED
  BY <1>2, <1>3, <1>4 DEF SoundInv

LEMMA SoundStep == SoundInv /\ [Next]_vars => SoundInv'
<1> SUFFICES ASSUME SoundInv, [Next]_vars PROVE SoundInv'
  OBVIOUS
<1> USE NoChainType, EpochBounds
    DEF SoundInv, TypeOK, SoundFiles, SoundProcs, PCs, Goto, files, ghosts
<1>1. ASSUME NEW p \in Procs, InitBegin(p) PROVE SoundInv'
  <2>1. minted + 1 \in Key
    BY DEF Key
  <2>2. Sound(advance(NoChain, minted + 1)) /\ advance(NoChain, minted + 1) \in Chain
    BY <2>1, AdvanceSound, SoundIsChain
  <2> QED
    BY <1>1, <2>2 DEF InitBegin
<1>2. ASSUME NEW p \in Procs, InitCommitStore(p) PROVE SoundInv'
  BY <1>2 DEF InitCommitStore, RenameStore
<1>3. ASSUME NEW p \in Procs, InitCommitHistory(p) PROVE SoundInv'
  BY <1>3, SoundIsChain DEF InitCommitHistory, RenameHistory
<1>4. ASSUME NEW p \in Procs, AdvanceBegin(p) PROVE SoundInv'
  <2>1. Sound([records |-> history, secrets |-> {}]) /\ [records |-> history, secrets |-> {}] \in Chain
    BY <1>4, ReadSound, SoundIsChain DEF AdvanceBegin, ReadHistory, Readable
  <2> QED
    BY <1>4, <2>1 DEF AdvanceBegin, ReadHistory, Readable
<1>5. ASSUME NEW p \in Procs, AdvanceLoad(p) PROVE SoundInv'
  <2>1. minted + 1 \in Key
    BY DEF Key
  <2>2. Sound(advance(Loaded(p), minted + 1)) /\ advance(Loaded(p), minted + 1) \in Chain
    BY <1>5, <2>1, LoadedSound, AdvanceSound, SoundIsChain DEF AdvanceLoad
  <2> QED
    BY <1>5, <2>2 DEF AdvanceLoad
<1>6. ASSUME NEW p \in Procs, AdvanceWriteStore(p) PROVE SoundInv'
  BY <1>6 DEF AdvanceWriteStore, RenameStore
<1>7. ASSUME NEW p \in Procs, AdvanceSyncStore(p) PROVE SoundInv'
  BY <1>7 DEF AdvanceSyncStore, SyncStore
<1>8. ASSUME NEW p \in Procs, AdvanceWriteHistory(p) PROVE SoundInv'
  BY <1>8, SoundIsChain DEF AdvanceWriteHistory, RenameHistory
<1>9. ASSUME NEW p \in Procs, AdvanceSyncHistory(p) PROVE SoundInv'
  BY <1>9 DEF AdvanceSyncHistory, SyncHistory
<1>10. ASSUME NEW p \in Procs, NEW n \in 0..(MaxChainEntries - 1), EraseBegin(p, n)
       PROVE SoundInv'
  <2>1. Sound([records |-> history, secrets |-> {}]) /\ [records |-> history, secrets |-> {}] \in Chain
    BY <1>10, ReadSound, SoundIsChain DEF EraseBegin, ReadHistory, Readable
  <2>2. n \in Nat
    OBVIOUS
  <2>3. /\ pc' = [pc EXCEPT ![p] = "eraLoad"]
        /\ target' = [target EXCEPT ![p] = n]
        /\ UNCHANGED <<files, minted, ghosts>>
        /\ chain' = [chain EXCEPT ![p] = [records |-> history, secrets |-> {}]]
    BY <1>10 DEF EraseBegin, ReadHistory, Readable
  <2> QED
    BY <2>1, <2>2, <2>3
<1>11. ASSUME NEW p \in Procs, EraseLoad(p) PROVE SoundInv'
  <2>1. Sound(erase(Loaded(p), target[p])) /\ erase(Loaded(p), target[p]) \in Chain
    BY <1>11, LoadedSound, EraseSound, SoundIsChain DEF EraseLoad
  <2>2. erase(Loaded(p), target[p]).records = chain[p].records
    BY DEF erase, Loaded
  <2> QED
    BY <1>11, <2>1, <2>2 DEF EraseLoad
<1>12. ASSUME NEW p \in Procs, EraseWriteStore(p) PROVE SoundInv'
  <2>1. chain[p].records[target[p] + 1] \in Key
    BY <1>12, SoundIsChain DEF EraseWriteStore
  <2> QED
    BY <1>12, <2>1 DEF EraseWriteStore, RenameStore
<1>13. ASSUME NEW p \in Procs, EraseSyncStore(p) PROVE SoundInv'
  <2>1. chain[p].records[target[p] + 1] \in Key
    BY <1>13, SoundIsChain DEF EraseSyncStore
  <2> QED
    BY <1>13, <2>1 DEF EraseSyncStore, SyncStore
<1>14. ASSUME NEW n \in 0..(MaxChainEntries - 1), EpochPublic(n) PROVE SoundInv'
  BY <1>14 DEF EpochPublic, Readable
<1>15. ASSUME NEW p \in Procs, Stop(p) PROVE SoundInv'
  BY <1>15 DEF Stop
<1>16. CASE LosePower
  BY <1>16 DEF LosePower
<1>17. CASE UNCHANGED vars
  BY <1>17 DEF vars
<1> QED
  BY <1>1, <1>2, <1>3, <1>4, <1>5, <1>6, <1>7, <1>8, <1>9, <1>10, <1>11,
     <1>12, <1>13, <1>14, <1>15, <1>16, <1>17 DEF Next, Proceed

LEMMA SoundAlways == Spec => []SoundInv
  BY SoundInit, SoundStep, PTL DEF Spec

(* Whatever the interleaving and the crashes, the files and the processes  *)
(* hold well-formed chains and histories.                                  *)
THEOREM TypeCorrect == Spec => []TypeOK
<1>1. SoundInv => TypeOK
  BY DEF SoundInv
<1> QED
  BY <1>1, SoundAlways, PTL

(* Whatever the interleaving and the crashes, every store epoch-init,      *)
(* epoch-advance and epoch-erase write passes EpochChain::restore against  *)
(* the history it was sealed for.                                          *)
THEOREM EveryStoreRestores == Spec => []StoreRestores
<1>1. SoundInv => StoreRestores
  BY DEF SoundInv, SoundFiles, SoundProcs, Sound, StoreRestores
<1> QED
  BY <1>1, SoundAlways, PTL

(***************************************************************************)
(* Part 2: commands run one at a time.  A power loss is covered when the   *)
(* chain's epoch-init reached the disk; without power loss the proof       *)
(* starts from no files at all.                                            *)
(***************************************************************************)

OneAtATime == (\A p, q \in Procs : p = q) /\ (PowerLoss => Existing)

(* The contents a command or a power loss may find.                        *)
Stores == IF PowerLoss THEN maybeStore ELSE {store}
Histories == IF PowerLoss THEN maybeHistory ELSE {history}

Distinct(r) == \A i, j \in 1..Len(r) : r[i] = r[j] => i = j
Minted(r) == \A i \in 1..Len(r) : r[i] <= minted
Last(r) == r[Len(r)]

Covers(s, h) ==
  h # Absent => /\ s # Absent
                /\ IsPrefixOf(h, s.records)
                /\ \A i \in 1..Len(h) : h[i] \in StoredKeys(s) \cup requested

(* No key is used twice, and none before it was generated.                 *)
FreshKeys ==
  /\ \A s \in maybeStore : s # Absent => Distinct(s.records) /\ Minted(s.records)
  /\ \A h \in maybeHistory : h # Absent => Minted(h)
  /\ \A k \in sent \cup requested \cup reported : k <= minted

(* Every published or used key is in every store that may be found, or its *)
(* erasure was asked for; and what was reported erased is in none.         *)
Covered ==
  /\ \A s \in Stores, h \in Histories : Covers(s, h)
  /\ \A s \in Stores : sent \subseteq StoredKeys(s) \cup requested

Gone == \A s \in maybeStore : StoredKeys(s) \cap reported = {}

NoInitUnderPowerLoss == PowerLoss => Absent \notin maybeHistory

(* Without power loss: the last epoch of the history is held, and the      *)
(* store is at most one epoch ahead.                                       *)
InStep ==
  (~PowerLoss /\ history # Absent) =>
    /\ store # Absent
    /\ Last(history) \in StoredKeys(store)
    /\ \/ store.records = history
       \/ store.records = Append(history, Last(store.records))

(* What the one running command knows about the files, step by step.       *)
Founding(p) == \E k \in (1..minted) \ reported : chain[p] = advance(NoChain, k)
Ahead(p) == \E k \in 1..minted : /\ chain[p].records = Append(history, k)
                                 /\ <<Len(history), k>> \in chain[p].secrets

AtPC(p) ==
  /\ pc[p] = "initStore" => history = Absent /\ store = Absent /\ Founding(p)
  /\ pc[p] = "initHistory" => history = Absent /\ store = chain[p] /\ Founding(p)
  /\ pc[p] \in {"advLoad", "eraLoad"} => history # Absent /\ chain[p].records = history
  /\ pc[p] = "advStore" => /\ history # Absent /\ store # Absent
                           /\ store.records = history
                           /\ chain[p] = advance(store, minted)
                           /\ minted \in Key \ reported
                           /\ \A i \in 1..Len(history) : history[i] < minted
  /\ pc[p] \in {"advSyncStore", "advHistory"} =>
       history # Absent /\ store = chain[p] /\ Ahead(p)
  /\ pc[p] = "advHistory" => Stores = {store}
  /\ pc[p] = "eraStore" => /\ history # Absent /\ store # Absent
                           /\ store.records = history
                           /\ target[p] # Len(history) - 1
                           /\ chain[p] = erase(store, target[p])
                           /\ is_readable(store, target[p])
  /\ pc[p] = "eraSyncStore" => /\ store = chain[p]
                               /\ \A e \in chain[p].secrets : e[1] # target[p]

SerialInv ==
  /\ FreshKeys
  /\ Covered
  /\ Gone
  /\ NoInitUnderPowerLoss
  /\ InStep
  /\ \A p \in Procs : AtPC(p)

LEMMA KeysOfAdvance ==
  ASSUME NEW c \in Chain, NEW k \in Key
  PROVE  /\ StoredKeys(advance(c, k)) = StoredKeys(c) \cup {k}
         /\ advance(c, k).records = Append(c.records, k)
         /\ <<Len(c.records), k>> \in advance(c, k).secrets
         /\ c # Absent /\ advance(c, k) # Absent
<1>1. c # Absent
  BY AbsentIsNoFile
<1>2. advance(c, k) # Absent
  <2>1. advance(c, k) \in Chain
    BY DEF Chain, advance, Key
  <2> QED
    BY <2>1, AbsentIsNoFile
<1>3. StoredKeys(c) = {e[2] : e \in c.secrets}
  BY <1>1 DEF StoredKeys
<1>4. StoredKeys(advance(c, k)) = {e[2] : e \in c.secrets \cup {<<Len(c.records), k>>}}
  BY <1>2 DEF StoredKeys, advance
<1>5. StoredKeys(advance(c, k)) = StoredKeys(c) \cup {k}
  <2>1. <<Len(c.records), k>>[2] = k
    OBVIOUS
  <2> QED
    BY <1>3, <1>4, <2>1, Zenon
<1> QED
  BY <1>1, <1>2, <1>5 DEF advance

LEMMA FoundingChain ==
  ASSUME NEW k \in Key
  PROVE  /\ advance(NoChain, k).records = <<k>>
         /\ advance(NoChain, k).secrets = {<<0, k>>}
         /\ StoredKeys(advance(NoChain, k)) = {k}
         /\ advance(NoChain, k) \in Chain
         /\ advance(NoChain, k) # Absent
<1>1. Append(<<>>, k) = <<k>> /\ Len(<<>>) = 0
  OBVIOUS
<1>2. NoChain.records = <<>> /\ NoChain.secrets = {} /\ StoredKeys(NoChain) = {}
  BY DEF NoChain, StoredKeys
<1>3. Sound(advance(NoChain, k))
  BY AdvanceSound, NoChainType
<1>4. /\ advance(NoChain, k).records = Append(NoChain.records, k)
      /\ advance(NoChain, k).secrets = NoChain.secrets \cup {<<Len(NoChain.records), k>>}
  BY DEF advance
<1>5. StoredKeys(advance(NoChain, k)) = {k}
  BY <1>2, KeysOfAdvance, NoChainType
<1> QED
  BY <1>1, <1>2, <1>3, <1>4, <1>5, SoundIsChain

LEMMA KeysOfErase ==
  ASSUME NEW c \in Chain, Sound(c), Distinct(c.records),
         NEW n \in Nat, n < Len(c.records)
  PROVE  /\ StoredKeys(erase(c, n)) \subseteq StoredKeys(c)
         /\ StoredKeys(c) \subseteq StoredKeys(erase(c, n)) \cup {c.records[n + 1]}
         /\ c.records[n + 1] \notin StoredKeys(erase(c, n))
         /\ erase(c, n).records = c.records
         /\ \A e \in erase(c, n).secrets : e[1] # n
         /\ c # Absent /\ erase(c, n) # Absent
<1>1. c # Absent /\ erase(c, n) # Absent
  BY EraseSound, SoundIsChain
<1>2. \A e \in c.secrets : e[1] \in Nat /\ e[1] < Len(c.records) /\ e[2] = c.records[e[1] + 1]
  BY DEF Sound, restorable, Chain
<1>3. \A e \in c.secrets : e[2] = c.records[n + 1] => e[1] = n
  BY <1>2 DEF Distinct, Chain
<1>4. StoredKeys(c) = {e[2] : e \in c.secrets}
  BY <1>1 DEF StoredKeys
<1>5. StoredKeys(erase(c, n)) = {e[2] : e \in {f \in c.secrets : f[1] # n}}
  BY <1>1 DEF StoredKeys, erase
<1> QED
  BY <1>1, <1>2, <1>3, <1>4, <1>5 DEF erase

LEMMA DistinctAppend ==
  ASSUME NEW r \in Seq(Key), NEW k \in Key, Distinct(r),
         \A i \in 1..Len(r) : r[i] # k
  PROVE  Distinct(Append(r, k))
  BY DEF Distinct

LEMMA SerialInit == OneAtATime /\ Init => SerialInv
<1> SUFFICES ASSUME OneAtATime, Init PROVE SerialInv
  OBVIOUS
<1>1. /\ Founded \in Chain /\ Founded # Absent
      /\ Founded.records = <<1>>
      /\ Founded.secrets = {<<0, 1>>}
  BY FoundingChain DEF Founded, Key
<1>2. Absent # Founded.records
  BY FoundedSound, SoundIsChain, AbsentIsNoFile
<1>3. StoredKeys(Founded) = {1}
  BY <1>1 DEF StoredKeys
<1>4. StoredKeys(Absent) = {}
  BY DEF StoredKeys
<1>5. \A p \in Procs : AtPC(p)
  BY DEF Init, AtPC
<1>6. CASE Existing
  BY <1>1, <1>2, <1>3, <1>5, <1>6
     DEF Init, SerialInv, FreshKeys, Covered, Covers, Stores, Histories, Distinct,
         Minted, IsPrefixOf, Gone, NoInitUnderPowerLoss, InStep, Last
<1>7. CASE ~Existing
  BY <1>4, <1>5, <1>7
     DEF Init, SerialInv, FreshKeys, Covered, Covers, Stores, Histories, OneAtATime,
         Gone, NoInitUnderPowerLoss, InStep
<1> QED
  BY <1>6, <1>7

(* A step that leaves the files, the ghosts and the counter alone keeps    *)
(* everything but what the process knows.                                  *)
LEMMA FilesUnchanged ==
  ASSUME SerialInv, UNCHANGED <<files, minted, ghosts>>
  PROVE  (FreshKeys /\ Covered /\ Gone /\ NoInitUnderPowerLoss /\ InStep)'
  BY DEF SerialInv, files, ghosts, FreshKeys, Covered, Covers, Stores, Histories, Minted,
         Distinct, IsPrefixOf, StoredKeys, Gone, NoInitUnderPowerLoss, InStep, Last

LEMMA MintedGrows ==
  ASSUME SoundInv, FreshKeys, minted' = minted + 1, UNCHANGED <<files, ghosts>>
  PROVE  FreshKeys'
<1> USE DEF files, ghosts
<1>1. minted \in Nat
  BY DEF SoundInv, TypeOK
<1>2. ASSUME NEW r \in Seq(Key), Minted(r) PROVE Minted(r)'
  BY <1>1, <1>2 DEF Minted, Key
<1>3. \A s \in maybeStore : s # Absent => Distinct(s.records) /\ Minted(s.records)'
  BY <1>2 DEF FreshKeys, SoundInv, TypeOK, Chain
<1>4. \A h \in maybeHistory : h # Absent => Minted(h)'
  BY <1>2 DEF FreshKeys, SoundInv, TypeOK
<1>5. \A k \in sent \cup requested \cup reported : k <= minted + 1
  BY <1>1 DEF FreshKeys, SoundInv, TypeOK, Key
<1> QED
  BY <1>3, <1>4, <1>5 DEF FreshKeys, Minted, Distinct

LEMMA AtPCUnchanged ==
  ASSUME NEW p \in Procs, AtPC(p), UNCHANGED <<files, minted, pc, target, chain, reported>>
  PROVE  AtPC(p)'
<1> USE DEF files
<1>1. Founding(p)' <=> Founding(p)
  BY DEF Founding, advance
<1>2. Ahead(p)' <=> Ahead(p)
  BY DEF Ahead
<1>3. Stores' = Stores
  BY DEF Stores
<1>4. is_readable(store, target[p])' <=> is_readable(store, target[p])
  BY DEF is_readable
<1>5. /\ advance(store, minted)' = advance(store, minted)
      /\ erase(store, target[p])' = erase(store, target[p])
  BY DEF advance, erase
<1> QED
  BY <1>1, <1>2, <1>3, <1>4, <1>5 DEF AtPC

LEMMA SerialInitBegin ==
  ASSUME OneAtATime, SoundInv, SerialInv, NEW p \in Procs, InitBegin(p)
  PROVE  SerialInv'
<1> USE DEF InitBegin, Goto, files, ghosts
<1>1. minted \in Nat /\ minted + 1 \in Key /\ reported \subseteq Nat
  BY DEF SoundInv, TypeOK, Key
<1>2. (FreshKeys /\ Covered /\ Gone /\ NoInitUnderPowerLoss /\ InStep)'
  <2>1. FreshKeys'
    BY <1>1, MintedGrows DEF SerialInv
  <2> QED
    BY <2>1 DEF SerialInv, Covered, Covers, Stores, Histories, IsPrefixOf, StoredKeys,
                Gone, NoInitUnderPowerLoss, InStep, Last
<1>3. AtPC(p)'
  <2>1. minted + 1 \in (1..(minted + 1)) \ reported
    BY <1>1 DEF SerialInv, FreshKeys
  <2>2. pc'[p] = "initStore" /\ chain'[p] = advance(NoChain, minted + 1)
    BY DEF SoundInv, TypeOK
  <2> QED
    BY <2>1, <2>2 DEF AtPC, Founding
<1> QED
  BY <1>2, <1>3 DEF SerialInv, OneAtATime

LEMMA SerialInitCommitStore ==
  ASSUME OneAtATime, SoundInv, SerialInv, NEW p \in Procs, InitCommitStore(p)
  PROVE  SerialInv'
<1> USE DEF InitCommitStore, RenameStore, Goto, ghosts
<1>1. PICK k \in (1..minted) \ reported : chain[p] = advance(NoChain, k)
  BY DEF SerialInv, AtPC, Founding
<1>2. k \in Key /\ k <= minted
  BY <1>1 DEF SoundInv, TypeOK, Key
<1>3. /\ StoredKeys(chain[p]) = {k}
      /\ chain[p].records = <<k>>
      /\ chain[p] # Absent
      /\ StoredKeys(Absent) = {}
  BY <1>1, <1>2, FoundingChain DEF StoredKeys
<1>4. history = Absent /\ ~PowerLoss
  BY DEF SerialInv, AtPC, NoInitUnderPowerLoss, SoundInv, SoundFiles
<1>5. FreshKeys'
  <2>1. Distinct(chain[p].records) /\ Minted(chain[p].records)
    BY <1>2, <1>3 DEF Distinct, Minted
  <2> QED
    BY <2>1 DEF SerialInv, FreshKeys, Minted
<1>6. Covered'
  BY <1>3, <1>4 DEF SerialInv, Covered, Covers, Stores, Histories
<1>7. Gone'
  BY <1>1, <1>3 DEF SerialInv, Gone
<1>8. (NoInitUnderPowerLoss /\ InStep)'
  BY <1>4 DEF NoInitUnderPowerLoss, InStep
<1>9. AtPC(p)'
  <2>1. pc'[p] = "initHistory" /\ store' = chain'[p] /\ history' = Absent
    BY <1>4 DEF SoundInv, TypeOK
  <2>2. Founding(p)'
    BY DEF SerialInv, AtPC, Founding
  <2> QED
    BY <2>1, <2>2 DEF AtPC
<1> QED
  BY <1>5, <1>6, <1>7, <1>8, <1>9 DEF SerialInv, OneAtATime

LEMMA SerialInitCommitHistory ==
  ASSUME OneAtATime, SoundInv, SerialInv, NEW p \in Procs, InitCommitHistory(p)
  PROVE  SerialInv'
<1> USE DEF InitCommitHistory, RenameHistory, Goto, ghosts
<1>1. PICK k \in (1..minted) \ reported : chain[p] = advance(NoChain, k)
  BY DEF SerialInv, AtPC, Founding
<1>2. k \in Key /\ k <= minted
  BY <1>1 DEF SoundInv, TypeOK, Key
<1>3. /\ StoredKeys(chain[p]) = {k}
      /\ chain[p].records = <<k>>
      /\ chain[p] # Absent
  BY <1>1, <1>2, FoundingChain DEF StoredKeys
<1>4. store = chain[p] /\ history = Absent /\ ~PowerLoss
  BY DEF SerialInv, AtPC, NoInitUnderPowerLoss, SoundInv, SoundFiles
<1>5. FreshKeys'
  BY <1>2, <1>3 DEF SerialInv, FreshKeys, Minted
<1>6. Covered'
  BY <1>3, <1>4 DEF SerialInv, Covered, Covers, Stores, Histories, IsPrefixOf
<1>7. (Gone /\ NoInitUnderPowerLoss)'
  BY <1>4 DEF SerialInv, Gone, NoInitUnderPowerLoss
<1>8. InStep'
  BY <1>3, <1>4 DEF InStep, Last
<1>9. AtPC(p)'
  <2>1. pc'[p] = "idle"
    BY DEF SoundInv, TypeOK
  <2> QED
    BY <2>1 DEF AtPC
<1> QED
  BY <1>5, <1>6, <1>7, <1>8, <1>9 DEF SerialInv, OneAtATime

LEMMA SerialBegin ==
  ASSUME OneAtATime, SoundInv, SerialInv, NEW p \in Procs,
         NEW to \in {"advLoad", "eraLoad"}, ReadHistory(p, to),
         UNCHANGED <<files, minted, ghosts>>
  PROVE  SerialInv'
<1>1. AtPC(p)'
  <2>1. pc'[p] = to /\ chain'[p].records = history
    BY DEF ReadHistory, Goto, SoundInv, TypeOK
  <2> QED
    BY <2>1 DEF ReadHistory, Readable, AtPC, files
<1> QED
  BY <1>1, FilesUnchanged DEF SerialInv, OneAtATime

LEMMA SerialAdvanceLoad ==
  ASSUME OneAtATime, SoundInv, SerialInv, NEW p \in Procs, AdvanceLoad(p)
  PROVE  SerialInv'
<1> USE DEF AdvanceLoad, load_epochs, Goto, files, ghosts
<1>1. minted \in Nat /\ minted + 1 \in Key
  BY DEF SoundInv, TypeOK, Key
<1>2. FreshKeys'
  BY MintedGrows DEF SerialInv
<1>3. (Covered /\ Gone /\ NoInitUnderPowerLoss /\ InStep)'
  BY DEF SerialInv, Covered, Covers, Stores, Histories, IsPrefixOf, StoredKeys,
         Gone, NoInitUnderPowerLoss, InStep, Last
<1>4. AtPC(p)'
  <2>1. history # Absent /\ chain[p].records = history
    BY DEF SerialInv, AtPC
  <2>2. store \in Chain /\ Loaded(p) = store
    BY <2>1 DEF Loaded, SoundInv, TypeOK, Chain
  <2>3. pc'[p] = "advStore" /\ chain'[p] = advance(store, minted + 1)
    BY <2>2 DEF SoundInv, TypeOK
  <2>4. minted + 1 \in Key \ reported
    BY <1>1 DEF SerialInv, FreshKeys
  <2>5. \A i \in 1..Len(history) : history[i] < minted + 1
    <3>1. Minted(history) /\ history \in Seq(Key)
      BY <2>1 DEF SerialInv, FreshKeys, SoundInv, SoundFiles, TypeOK
    <3> QED
      BY <1>1, <3>1 DEF Minted, Key
  <2> QED
    BY <2>1, <2>3, <2>4, <2>5 DEF AtPC
<1> QED
  BY <1>2, <1>3, <1>4 DEF SerialInv, OneAtATime

LEMMA SerialAdvanceWriteStore ==
  ASSUME OneAtATime, SoundInv, SerialInv, NEW p \in Procs, AdvanceWriteStore(p)
  PROVE  SerialInv'
<1> USE DEF AdvanceWriteStore, RenameStore, Goto, ghosts
<1>1. /\ history # Absent /\ store # Absent
      /\ store.records = history
      /\ chain[p] = advance(store, minted)
      /\ minted \in Key \ reported
      /\ \A i \in 1..Len(history) : history[i] < minted
  BY DEF SerialInv, AtPC
<1>2. history \in Seq(Key) /\ store \in Chain /\ store \in maybeStore
  BY <1>1 DEF SoundInv, TypeOK, SoundFiles
<1>3. /\ StoredKeys(chain[p]) = StoredKeys(store) \cup {minted}
      /\ chain[p].records = Append(history, minted)
      /\ <<Len(history), minted>> \in chain[p].secrets
      /\ chain[p] # Absent
  BY <1>1, <1>2, KeysOfAdvance
<1>4. FreshKeys'
  <2>1. Distinct(history) /\ Minted(history)
    BY <1>1, <1>2 DEF SerialInv, FreshKeys
  <2>2. \A i \in 1..Len(history) : history[i] # minted
    BY <1>1, <1>2 DEF Key
  <2>3. Distinct(chain[p].records)
    BY <1>1, <1>2, <1>3, <2>1, <2>2, DistinctAppend
  <2>4. Minted(chain[p].records)
    BY <1>1, <1>2, <1>3, <2>1 DEF Minted, Key
  <2> QED
    BY <2>3, <2>4 DEF SerialInv, FreshKeys, Minted
<1>5. Covered'
  <2>1. store \in Stores /\ \A h \in Histories : Covers(store, h)
    BY <1>2 DEF SerialInv, Covered, Stores
  <2>2. ASSUME NEW h \in Histories PROVE Covers(chain[p], h)
    <3>1. CASE h = Absent
      BY <3>1 DEF Covers
    <3>2. CASE h # Absent
      <4>1. IsPrefixOf(h, history) /\ \A i \in 1..Len(h) : h[i] \in StoredKeys(store) \cup requested
        BY <1>1, <2>1, <3>2 DEF Covers
      <4>2. h \in Seq(Key)
        BY <3>2 DEF Histories, SoundInv, TypeOK
      <4>3. IsPrefixOf(h, chain[p].records)
        BY <1>2, <1>3, <1>1, <4>1, <4>2 DEF IsPrefixOf
      <4> QED
        BY <1>3, <4>1, <4>3 DEF Covers
    <3> QED
      BY <3>1, <3>2
  <2>3. sent \subseteq StoredKeys(chain[p]) \cup requested
    BY <1>3, <2>1 DEF SerialInv, Covered
  <2>4. Stores' \subseteq Stores \cup {chain[p]} /\ Histories' = Histories
    BY DEF Stores, Histories
  <2>5. \A s \in Stores', h \in Histories' : Covers(s, h)
    BY <2>2, <2>4 DEF SerialInv, Covered
  <2>6. \A s \in Stores' : sent \subseteq StoredKeys(s) \cup requested
    BY <2>3, <2>4 DEF SerialInv, Covered
  <2> QED
    BY <2>5, <2>6 DEF Covered, Covers, IsPrefixOf, StoredKeys
<1>6. Gone'
  BY <1>1, <1>2, <1>3 DEF SerialInv, Gone, StoredKeys
<1>7. NoInitUnderPowerLoss'
  BY DEF SerialInv, NoInitUnderPowerLoss
<1>8. InStep'
  <2>1. Last(chain[p].records) = minted
    BY <1>1, <1>2, <1>3 DEF Last
  <2>2. ~PowerLoss => Last(history) \in StoredKeys(store)
    BY <1>1 DEF SerialInv, InStep
  <2> QED
    BY <1>1, <1>3, <2>1, <2>2 DEF InStep, Last, StoredKeys
<1>9. AtPC(p)'
  <2>1. pc'[p] = "advSyncStore" /\ store' = chain'[p] /\ history' = history
    BY DEF SoundInv, TypeOK
  <2>2. minted \in 1..minted
    BY <1>1 DEF Key
  <2>3. Ahead(p)'
    BY <1>3, <2>2 DEF Ahead
  <2> QED
    BY <1>1, <2>1, <2>3 DEF AtPC
<1> QED
  BY <1>4, <1>5, <1>6, <1>7, <1>8, <1>9 DEF SerialInv, OneAtATime

LEMMA SerialAdvanceSyncStore ==
  ASSUME OneAtATime, SoundInv, SerialInv, NEW p \in Procs, AdvanceSyncStore(p)
  PROVE  SerialInv'
<1> USE DEF AdvanceSyncStore, SyncStore, Goto, ghosts
<1>1. store \in maybeStore /\ store \in Stores
  BY DEF SoundInv, SoundFiles, Stores
<1>2. Stores' = {store} /\ Histories' = Histories
  BY DEF Stores, Histories
<1>3. FreshKeys'
  BY <1>1 DEF SerialInv, FreshKeys, Minted, Distinct
<1>4. Covered'
  BY <1>1, <1>2 DEF SerialInv, Covered, Covers, IsPrefixOf, StoredKeys
<1>5. (Gone /\ NoInitUnderPowerLoss /\ InStep)'
  BY <1>1 DEF SerialInv, Gone, NoInitUnderPowerLoss, InStep, Last, StoredKeys
<1>6. AtPC(p)'
  <2>1. pc'[p] = "advHistory"
    BY DEF SoundInv, TypeOK
  <2> QED
    BY <1>2, <2>1 DEF SerialInv, AtPC, Ahead
<1> QED
  BY <1>3, <1>4, <1>5, <1>6 DEF SerialInv, OneAtATime

LEMMA SerialAdvanceWriteHistory ==
  ASSUME OneAtATime, SoundInv, SerialInv, NEW p \in Procs, AdvanceWriteHistory(p)
  PROVE  SerialInv'
<1> USE DEF AdvanceWriteHistory, RenameHistory, Goto, ghosts
<1>1. history # Absent /\ store = chain[p] /\ Stores = {store}
  BY DEF SerialInv, AtPC
<1>2. PICK k \in 1..minted : /\ chain[p].records = Append(history, k)
                             /\ <<Len(history), k>> \in chain[p].secrets
  BY DEF SerialInv, AtPC, Ahead
<1>3. /\ history \in Seq(Key) /\ history \in Histories /\ history \in maybeHistory
      /\ k \in Key /\ chain[p] \in Chain /\ chain[p] # Absent
      /\ chain[p].records \in Seq(Key)
  BY <1>1, <1>2, SoundIsChain DEF SoundInv, TypeOK, SoundFiles, SoundProcs, Histories, Key
<1>4. k \in StoredKeys(store)
  BY <1>1, <1>2, <1>3 DEF StoredKeys
<1>5. Stores' = {store} /\ Histories' \subseteq Histories \cup {chain[p].records}
  BY <1>1 DEF Stores, Histories
<1>6. FreshKeys'
  <2>1. Minted(chain[p].records)
    <3>1. Minted(history)
      BY <1>1, <1>3 DEF SerialInv, FreshKeys
    <3>2. k <= minted
      BY <1>2 DEF SoundInv, TypeOK
    <3> QED
      BY <1>2, <1>3, <3>1, <3>2 DEF Minted
  <2> QED
    BY <2>1 DEF SerialInv, FreshKeys, Minted
<1>7. Covered'
  <2>1. Covers(store, history)
    BY <1>1, <1>3 DEF SerialInv, Covered
  <2>2. \A i \in 1..Len(chain[p].records) : chain[p].records[i] \in StoredKeys(store) \cup requested
    BY <1>1, <1>2, <1>3, <1>4, <2>1 DEF Covers
  <2>3. Covers(store, chain[p].records)
    BY <1>1, <1>3, <2>2 DEF Covers, IsPrefixOf
  <2>4. \A s \in Stores', h \in Histories' : Covers(s, h)
    BY <1>1, <1>5, <2>3 DEF SerialInv, Covered
  <2> QED
    BY <1>1, <1>5, <2>4 DEF SerialInv, Covered, Covers, StoredKeys, IsPrefixOf
<1>8. (Gone /\ NoInitUnderPowerLoss)'
  BY <1>3, AbsentIsNoFile DEF SerialInv, Gone, NoInitUnderPowerLoss
<1>9. InStep'
  <2>1. Last(chain[p].records) = k
    BY <1>2, <1>3 DEF Last
  <2> QED
    BY <1>1, <1>3, <1>4, <2>1 DEF InStep, Last, StoredKeys
<1>10. AtPC(p)'
  <2>1. pc'[p] = "advSyncHistory"
    BY DEF SoundInv, TypeOK
  <2> QED
    BY <2>1 DEF AtPC
<1> QED
  BY <1>6, <1>7, <1>8, <1>9, <1>10 DEF SerialInv, OneAtATime

LEMMA SerialAdvanceSyncHistory ==
  ASSUME OneAtATime, SoundInv, SerialInv, NEW p \in Procs, AdvanceSyncHistory(p)
  PROVE  SerialInv'
<1> USE DEF AdvanceSyncHistory, SyncHistory, Goto, ghosts
<1>1. history \in maybeHistory /\ history \in Histories
  BY DEF SoundInv, SoundFiles, Histories
<1>2. Stores' = Stores /\ Histories' = {history}
  BY DEF Stores, Histories
<1>3. FreshKeys'
  BY <1>1 DEF SerialInv, FreshKeys, Minted, Distinct
<1>4. Covered'
  BY <1>1, <1>2 DEF SerialInv, Covered, Covers, IsPrefixOf, StoredKeys
<1>5. (Gone /\ NoInitUnderPowerLoss /\ InStep)'
  BY <1>1 DEF SerialInv, Gone, NoInitUnderPowerLoss, InStep, Last, StoredKeys
<1>6. AtPC(p)'
  <2>1. pc'[p] = "idle"
    BY DEF SoundInv, TypeOK
  <2> QED
    BY <2>1 DEF AtPC
<1> QED
  BY <1>3, <1>4, <1>5, <1>6 DEF SerialInv, OneAtATime

LEMMA SerialEraseLoad ==
  ASSUME OneAtATime, SoundInv, SerialInv, NEW p \in Procs, EraseLoad(p)
  PROVE  SerialInv'
<1> USE DEF EraseLoad, load_epochs, Goto
<1>1. AtPC(p)'
  <2>1. history # Absent /\ chain[p].records = history
    BY DEF SerialInv, AtPC
  <2>2. store \in Chain /\ Loaded(p) = store
    BY <2>1 DEF Loaded, SoundInv, TypeOK, Chain
  <2>3. /\ pc'[p] = "eraStore"
        /\ chain'[p] = erase(store, target[p])
        /\ target' = target
        /\ is_readable(store, target[p])
        /\ target[p] # Len(history) - 1
    BY <2>1, <2>2 DEF SoundInv, TypeOK, current
  <2> QED
    BY <2>1, <2>3 DEF AtPC, files, is_readable
<1> QED
  BY <1>1, FilesUnchanged DEF SerialInv, OneAtATime

LEMMA SerialEraseWriteStore ==
  ASSUME OneAtATime, SoundInv, SerialInv, NEW p \in Procs, EraseWriteStore(p)
  PROVE  SerialInv'
<1> USE DEF EraseWriteStore, RenameStore, Goto, ghosts
<1> DEFINE t == target[p]
           gone == history[t + 1]
<1>1. /\ history # Absent /\ store # Absent
      /\ store.records = history
      /\ t # Len(history) - 1
      /\ chain[p] = erase(store, t)
  BY DEF SerialInv, AtPC
<1>2. /\ history \in Seq(Key) /\ store \in Chain /\ store \in maybeStore
      /\ Sound(store) /\ t \in Nat /\ history # <<>> /\ chain[p].records = history
  BY <1>1 DEF SoundInv, TypeOK, SoundFiles, erase
<1>3. Distinct(history) /\ Minted(history)
  BY <1>1, <1>2 DEF SerialInv, FreshKeys
<1>4. t < Len(history)
  BY <1>2 DEF SoundInv, SoundProcs
<1>5. /\ StoredKeys(chain[p]) \subseteq StoredKeys(store)
      /\ StoredKeys(store) \subseteq StoredKeys(chain[p]) \cup {gone}
      /\ gone \notin StoredKeys(chain[p])
      /\ \A e \in chain[p].secrets : e[1] # t
      /\ chain[p] # Absent
  BY <1>1, <1>2, <1>3, <1>4, KeysOfErase
<1>6. requested' = requested \cup {gone}
  BY <1>2
<1>7. FreshKeys'
  <2>1. gone <= minted
    BY <1>2, <1>3, <1>4 DEF Minted
  <2> QED
    BY <1>2, <1>3, <1>6, <2>1 DEF SerialInv, FreshKeys, Minted
<1>8. Covered'
  <2>1. store \in Stores /\ \A h \in Histories : Covers(store, h)
    BY <1>2 DEF SerialInv, Covered, Stores
  <2>2. \A h \in Histories : Covers(chain[p], h)'
    BY <1>1, <1>2, <1>5, <1>6, <2>1 DEF Covers, IsPrefixOf, StoredKeys
  <2>3. \A s \in Stores, h \in Histories : Covers(s, h)'
    BY <1>6 DEF SerialInv, Covered, Covers, IsPrefixOf, StoredKeys
  <2>4. \A s \in Stores \cup {chain[p]} : sent \subseteq StoredKeys(s) \cup requested'
    BY <1>5, <1>6, <2>1 DEF SerialInv, Covered
  <2>5. Stores' \subseteq Stores \cup {chain[p]} /\ Histories' = Histories
    BY DEF Stores, Histories
  <2> QED
    BY <2>2, <2>3, <2>4, <2>5 DEF Covered, StoredKeys
<1>9. Gone'
  BY <1>2, <1>5 DEF SerialInv, Gone, StoredKeys
<1>10. NoInitUnderPowerLoss'
  BY DEF SerialInv, NoInitUnderPowerLoss
<1>11. InStep'
  <2>1. Last(history) # gone
    BY <1>1, <1>2, <1>3, <1>4 DEF Distinct, Last
  <2>2. ~PowerLoss => Last(history) \in StoredKeys(store)
    BY <1>1 DEF SerialInv, InStep
  <2> QED
    BY <1>1, <1>2, <1>5, <2>1, <2>2 DEF InStep, Last, StoredKeys
<1>12. AtPC(p)'
  <2>1. pc'[p] = "eraSyncStore" /\ store' = chain'[p] /\ target' = target /\ chain' = chain
    BY DEF SoundInv, TypeOK
  <2> QED
    BY <1>5, <2>1 DEF AtPC
<1> QED
  BY <1>7, <1>8, <1>9, <1>10, <1>11, <1>12 DEF SerialInv, OneAtATime

LEMMA SerialEraseSyncStore ==
  ASSUME OneAtATime, SoundInv, SerialInv, NEW p \in Procs, EraseSyncStore(p)
  PROVE  SerialInv'
<1> USE DEF EraseSyncStore, SyncStore, Goto
<1> DEFINE t == target[p]
           gone == chain[p].records[t + 1]
<1>1. /\ store = chain[p]
      /\ \A e \in chain[p].secrets : e[1] # t
  BY DEF SerialInv, AtPC
<1>2. /\ store \in maybeStore /\ store \in Stores /\ Sound(store) /\ store \in Chain
      /\ store # Absent /\ t \in Nat /\ t < Len(store.records)
  BY <1>1, SoundIsChain DEF SoundInv, TypeOK, SoundFiles, SoundProcs, Stores
<1>3. Distinct(store.records) /\ Minted(store.records)
  BY <1>2 DEF SerialInv, FreshKeys
<1>4. gone \notin StoredKeys(store)
  <2>1. \A e \in store.secrets : /\ e[1] \in Nat /\ e[1] < Len(store.records)
                                 /\ e[2] = store.records[e[1] + 1]
    BY <1>2 DEF Sound, restorable, Chain
  <2>2. ASSUME NEW e \in store.secrets, e[2] = gone PROVE FALSE
    <3>1. store.records[e[1] + 1] = store.records[t + 1]
      BY <1>1, <2>1, <2>2
    <3>2. e[1] + 1 \in 1..Len(store.records) /\ t + 1 \in 1..Len(store.records)
      BY <1>2, <2>1 DEF Chain
    <3>3. e[1] + 1 = t + 1
      BY <1>3, <3>1, <3>2 DEF Distinct
    <3> QED
      BY <1>1, <1>2, <2>1, <3>3
  <2> QED
    BY <1>2, <2>2 DEF StoredKeys
<1>5. Stores' = {store} /\ Histories' = Histories
  BY DEF Stores, Histories
<1>6. FreshKeys'
  <2>1. gone <= minted
    BY <1>1, <1>2, <1>3 DEF Minted, Chain
  <2> QED
    BY <1>2, <2>1 DEF SerialInv, FreshKeys, Minted, Distinct
<1>7. Covered'
  BY <1>2, <1>5 DEF SerialInv, Covered, Covers, IsPrefixOf, StoredKeys
<1>8. Gone'
  BY <1>2, <1>4 DEF SerialInv, Gone, StoredKeys
<1>9. (NoInitUnderPowerLoss /\ InStep)'
  BY <1>2 DEF SerialInv, NoInitUnderPowerLoss, InStep, Last, StoredKeys
<1>10. AtPC(p)'
  <2>1. pc'[p] = "idle"
    BY DEF SoundInv, TypeOK
  <2> QED
    BY <2>1 DEF AtPC
<1> QED
  BY <1>6, <1>7, <1>8, <1>9, <1>10 DEF SerialInv, OneAtATime

LEMMA SerialEpochPublic ==
  ASSUME OneAtATime, SoundInv, SerialInv, NEW n \in 0..(MaxChainEntries - 1), EpochPublic(n)
  PROVE  SerialInv'
<1> USE DEF EpochPublic, Readable, files
<1> DEFINE k == history[n + 1]
<1>1. /\ n \in Nat /\ history \in Seq(Key) /\ history \in maybeHistory
      /\ history \in Histories /\ n + 1 \in 1..Len(history)
  BY EpochBounds DEF SoundInv, TypeOK, SoundFiles, Histories
<1>2. FreshKeys'
  <2>1. k <= minted
    BY <1>1 DEF SerialInv, FreshKeys, Minted
  <2> QED
    BY <2>1 DEF SerialInv, FreshKeys, Minted, Distinct
<1>3. Covered'
  <2>1. \A s \in Stores : k \in StoredKeys(s) \cup requested
    BY <1>1 DEF SerialInv, Covered, Covers
  <2>2. Stores' = Stores /\ Histories' = Histories
    BY DEF Stores, Histories
  <2>3. \A s \in Stores : sent' \subseteq StoredKeys(s) \cup requested
    BY <2>1 DEF SerialInv, Covered
  <2>4. \A s \in Stores, h \in Histories : Covers(s, h)'
    BY DEF SerialInv, Covered, Covers, IsPrefixOf, StoredKeys
  <2> QED
    BY <2>2, <2>3, <2>4 DEF Covered, StoredKeys
<1>4. (Gone /\ NoInitUnderPowerLoss /\ InStep)'
  BY DEF SerialInv, Gone, NoInitUnderPowerLoss, InStep, Last, StoredKeys
<1>5. \A p \in Procs : AtPC(p)'
  BY AtPCUnchanged DEF SerialInv
<1> QED
  BY <1>2, <1>3, <1>4, <1>5 DEF SerialInv

LEMMA SerialStop ==
  ASSUME OneAtATime, SoundInv, SerialInv, NEW p \in Procs, Stop(p)
  PROVE  SerialInv'
<1>1. pc'[p] = "idle"
  BY DEF Stop, SoundInv, TypeOK
<1>2. AtPC(p)'
  BY <1>1 DEF AtPC
<1> QED
  BY <1>2, FilesUnchanged DEF Stop, SerialInv, OneAtATime

LEMMA SerialLosePower ==
  ASSUME OneAtATime, SoundInv, SerialInv, LosePower
  PROVE  SerialInv'
<1> USE DEF LosePower, ghosts
<1>1. PowerLoss /\ store' \in Stores /\ history' \in Histories
  BY DEF Stores, Histories
<1>2. Stores' = {store'} /\ Histories' = {history'}
  BY DEF Stores, Histories
<1>3. FreshKeys'
  BY DEF SerialInv, FreshKeys, Minted, Distinct
<1>4. Covered'
  <2>1. Covers(store', history')
    BY <1>1 DEF SerialInv, Covered
  <2>2. sent \subseteq StoredKeys(store') \cup requested
    BY <1>1 DEF SerialInv, Covered
  <2> QED
    BY <1>2, <2>1, <2>2 DEF Covered, Covers, IsPrefixOf, StoredKeys
<1>5. Gone'
  BY DEF SerialInv, Gone, StoredKeys
<1>6. (NoInitUnderPowerLoss /\ InStep)'
  BY <1>1 DEF SerialInv, NoInitUnderPowerLoss, InStep
<1>7. \A p \in Procs : AtPC(p)'
  BY DEF AtPC
<1> QED
  BY <1>3, <1>4, <1>5, <1>6, <1>7 DEF SerialInv

LEMMA SerialStep == OneAtATime /\ SoundInv /\ SerialInv /\ [Next]_vars => SerialInv'
<1> SUFFICES ASSUME OneAtATime, SoundInv, SerialInv, [Next]_vars PROVE SerialInv'
  OBVIOUS
<1>1. ASSUME NEW p \in Procs, AdvanceBegin(p) PROVE SerialInv'
  BY <1>1, SerialBegin DEF AdvanceBegin
<1>2. ASSUME NEW p \in Procs, NEW n \in 0..(MaxChainEntries - 1), EraseBegin(p, n)
      PROVE SerialInv'
  BY <1>2, SerialBegin DEF EraseBegin
<1>3. CASE UNCHANGED vars
  <2>1. (FreshKeys /\ Covered /\ Gone /\ NoInitUnderPowerLoss /\ InStep)'
    BY <1>3, FilesUnchanged DEF vars
  <2>2. \A p \in Procs : AtPC(p)'
    BY <1>3, AtPCUnchanged DEF vars, ghosts, SerialInv
  <2> QED
    BY <2>1, <2>2 DEF SerialInv
<1> QED
  BY <1>1, <1>2, <1>3, SerialInitBegin, SerialInitCommitStore, SerialInitCommitHistory,
     SerialAdvanceLoad, SerialAdvanceWriteStore, SerialAdvanceSyncStore,
     SerialAdvanceWriteHistory, SerialAdvanceSyncHistory, SerialEraseLoad,
     SerialEraseWriteStore, SerialEraseSyncStore, SerialEpochPublic, SerialStop,
     SerialLosePower DEF Next, Proceed

LEMMA SerialAlways == ASSUME OneAtATime PROVE Spec => [](SoundInv /\ SerialInv)
<1>1. Init => SoundInv /\ SerialInv
  BY SoundInit, SerialInit
<1>2. SoundInv /\ SerialInv /\ [Next]_vars => (SoundInv /\ SerialInv)'
  BY SoundStep, SerialStep
<1> QED
  BY <1>1, <1>2, PTL DEF Spec

(* One command at a time, any crashes, and power losses once the chain's   *)
(* init is on disk: a message encrypted to a published epoch can be opened *)
(* with the store unless its erasure was asked for.                        *)
THEOREM SentIsReadable == ASSUME OneAtATime PROVE Spec => []SentStaysReadable
<1>1. SoundInv /\ SerialInv => SentStaysReadable
  BY DEF SoundInv, SoundFiles, SerialInv, Covered, Stores, SentStaysReadable
<1> QED
  BY <1>1, SerialAlways, PTL

(* Under the same conditions: what epoch-erase reported erased is in no    *)
(* store a reader or a power loss can find.                                *)
THEOREM ErasureIsFinal == ASSUME OneAtATime PROVE Spec => []ErasedStaysErased
<1>1. SoundInv /\ SerialInv => ErasedStaysErased
  BY DEF SerialInv, Gone, ErasedStaysErased
<1> QED
  BY <1>1, SerialAlways, PTL

(* Under the same conditions: the store commits to at least the history.   *)
THEOREM HistoryIsSaved == ASSUME OneAtATime PROVE Spec => []StoreNeverBehind
<1>1. SoundInv /\ SerialInv => StoreNeverBehind
  BY DEF SoundInv, SoundFiles, SerialInv, Covered, Covers, Stores, Histories, StoreNeverBehind
<1> QED
  BY <1>1, SerialAlways, PTL

(* Without power loss: the epoch senders are told to use is held.          *)
THEOREM CurrentEpochIsHeld ==
  ASSUME OneAtATime, ~PowerLoss PROVE Spec => []CurrentIsHeld
<1>1. SoundInv /\ SerialInv => CurrentIsHeld
  BY DEF SerialInv, InStep, Last, CurrentIsHeld
<1> QED
  BY <1>1, SerialAlways, PTL

(* Without power loss: a crash leaves the store at most one epoch ahead.   *)
THEOREM AtMostOneAhead ==
  ASSUME OneAtATime, ~PowerLoss PROVE Spec => []StoreAtMostOneAhead
<1>1. SoundInv /\ SerialInv => StoreAtMostOneAhead
  BY DEF SerialInv, InStep, Last, StoreAtMostOneAhead
<1> QED
  BY <1>1, SerialAlways, PTL

(* Without power loss: once an interrupted epoch-advance left the files    *)
(* apart, no later command changes either of them.                         *)
THEOREM DisagreementFreezes ==
  ASSUME OneAtATime, ~PowerLoss PROVE Spec => DisagreementIsFrozen
<1> DEFINE Apart == /\ history # Absent /\ store # Absent
                    /\ store.records # history
                    /\ \A p \in Procs : pc[p] \notin {"advSyncStore", "advHistory"}
<1>1. SoundInv /\ SerialInv /\ [Next]_vars => [Apart => UNCHANGED <<history, store>>]_vars
  <2> SUFFICES ASSUME SoundInv, SerialInv, Next, Apart
               PROVE  UNCHANGED <<history, store>>
    OBVIOUS
  <2>1. \A p \in Procs : pc[p] \notin {"initStore", "initHistory", "advStore", "advHistory", "eraStore"}
    BY DEF SerialInv, AtPC
  <2>2. ASSUME NEW p \in Procs, Proceed(p) PROVE UNCHANGED <<history, store>>
    BY <2>1, <2>2
       DEF Proceed, Goto, files, InitCommitStore, InitCommitHistory, AdvanceLoad,
           AdvanceWriteStore, AdvanceSyncStore, AdvanceWriteHistory, AdvanceSyncHistory,
           EraseLoad, EraseWriteStore, EraseSyncStore, Stop, SyncStore, SyncHistory
  <2> QED
    BY <2>2 DEF Next, InitBegin, AdvanceBegin, EraseBegin, EpochPublic, LosePower, files
<1> QED
  BY <1>1, SerialAlways, PTL DEF Spec, DisagreementIsFrozen

(***************************************************************************)
(* The two files implement the ledger.                                     *)
(***************************************************************************)

(* Renaming a history that extends the published one by an epoch the store *)
(* holds is the ledger's Advance.                                          *)
LEMMA PublishIsAdvance ==
  ASSUME NEW k \in 1..MaxKeys, NEW h \in Seq(Key), PublishedNow = h,
         history' = Append(h, k), history' # Absent,
         store \in Chain, store' = store, store # Absent,
         <<Len(h), k>> \in store.secrets
  PROVE  Ledger!Advance(k)
<1>0. k \in Key
  BY EpochBounds DEF Key
<1>1. PublishedNow' = Append(PublishedNow, k)
  BY DEF PublishedNow
<1>2. Len(Append(h, k)) = Len(h) + 1
  BY <1>0
<1>3. ReadableNow' = {n \in 0..(Len(h)) : is_readable(store, n)}
  BY <1>1, <1>2 DEF ReadableNow, is_readable
<1>4. is_readable(store, Len(h))
  BY DEF is_readable
<1>5. ReadableNow = {n \in 0..(Len(h) - 1) : is_readable(store, n)}
  BY DEF ReadableNow
<1>6. ReadableNow' = ReadableNow \cup {Len(h)}
  BY <1>3, <1>4, <1>5
<1> QED
  BY <1>1, <1>6 DEF Ledger!Advance

LEMMA LedgerStutter ==
  ASSUME UNCHANGED <<history, store>>
  PROVE  UNCHANGED Ledger!vars
  BY DEF Ledger!vars, PublishedNow, ReadableNow, is_readable

LEMMA LedgerStep ==
  ASSUME OneAtATime, ~PowerLoss, SoundInv, SerialInv, Next
  PROVE  [Ledger!Next]_(Ledger!vars)
<1> USE DEF Goto
<1>0. minted \in Nat /\ MaxKeys \in Nat /\ minted <= MaxKeys
  BY EpochBounds DEF SoundInv, TypeOK
<1>1. ASSUME NEW p \in Procs, InitCommitStore(p) PROVE UNCHANGED Ledger!vars
  <2>1. history = Absent /\ history' = Absent /\ store = Absent
    BY <1>1 DEF InitCommitStore, RenameStore, SerialInv, AtPC
  <2>2. PublishedNow = <<>> /\ PublishedNow' = <<>>
    BY <2>1 DEF PublishedNow
  <2>3. ReadableNow = {} /\ ReadableNow' = {}
    BY <2>1, <2>2 DEF ReadableNow
  <2> QED
    BY <2>2, <2>3 DEF Ledger!vars
<1>2. ASSUME NEW p \in Procs, InitCommitHistory(p) PROVE Ledger!Next
  <2>1. history = Absent /\ store = chain[p] /\ Founding(p)
    BY <1>2 DEF InitCommitHistory, SerialInv, AtPC
  <2>2. PICK k \in 1..minted : chain[p] = advance(NoChain, k)
    BY <2>1 DEF Founding
  <2>3. k \in Key /\ k \in 1..MaxKeys
    BY <1>0, <2>2 DEF Key
  <2>4. /\ chain[p].records = <<k>> /\ chain[p].secrets = {<<0, k>>}
        /\ chain[p] \in Chain /\ chain[p] # Absent
    BY <2>2, <2>3, FoundingChain
  <2>5. PublishedNow = <<>> /\ <<>> \in Seq(Key) /\ Len(<<>>) = 0 /\ Append(<<>>, k) = <<k>>
    BY <2>1 DEF PublishedNow
  <2>6. history' = <<k>> /\ store' = store
    BY <1>2, <2>4 DEF InitCommitHistory, RenameHistory
  <2>7. <<k>> # Absent
    BY <2>3, <2>4, AbsentIsNoFile DEF Chain
  <2>8. <<Len(<<>>), k>> \in store.secrets
    BY <2>1, <2>4, <2>5
  <2>9. Ledger!Advance(k)
    BY <2>1, <2>3, <2>4, <2>5, <2>6, <2>7, <2>8, PublishIsAdvance
  <2> QED
    BY <2>3, <2>9 DEF Ledger!Next
<1>3. ASSUME NEW p \in Procs, AdvanceWriteStore(p) PROVE UNCHANGED Ledger!vars
  <2>1. /\ history # Absent /\ store # Absent /\ history \in Seq(Key) /\ store \in Chain
        /\ store.records = history /\ chain[p] = advance(store, minted) /\ minted \in Key
        /\ store' = chain[p] /\ history' = history
    BY <1>3 DEF AdvanceWriteStore, RenameStore, SerialInv, AtPC, SoundInv, TypeOK
  <2>2. store' # Absent /\ store'.secrets = store.secrets \cup {<<Len(history), minted>>}
    <3>1. advance(store, minted) # Absent
      BY <2>1, KeysOfAdvance
    <3>2. advance(store, minted).secrets = store.secrets \cup {<<Len(store.records), minted>>}
      BY DEF advance
    <3> QED
      BY <2>1, <3>1, <3>2
  <2>3. \A n \in 0..(Len(history) - 1) : is_readable(store', n) <=> is_readable(store, n)
    BY <2>1, <2>2 DEF is_readable
  <2>4. PublishedNow = history /\ PublishedNow' = history
    BY <2>1 DEF PublishedNow
  <2>5. ReadableNow' = ReadableNow
    BY <2>1, <2>2, <2>3, <2>4 DEF ReadableNow, is_readable
  <2> QED
    BY <2>4, <2>5 DEF Ledger!vars
<1>4. ASSUME NEW p \in Procs, AdvanceWriteHistory(p) PROVE Ledger!Next
  <2>1. history # Absent /\ store = chain[p] /\ Ahead(p)
    BY <1>4 DEF AdvanceWriteHistory, SerialInv, AtPC
  <2>2. PICK k \in 1..minted : /\ chain[p].records = Append(history, k)
                               /\ <<Len(history), k>> \in chain[p].secrets
    BY <2>1 DEF Ahead
  <2>3. k \in 1..MaxKeys
    BY <1>0, <2>2
  <2>4. /\ history \in Seq(Key) /\ chain[p] \in Chain /\ chain[p] # Absent
        /\ chain[p].records # Absent
    BY <1>4, <2>1, SoundIsChain, AbsentIsNoFile
       DEF AdvanceWriteHistory, SoundInv, TypeOK, SoundProcs
  <2>5. history' = Append(history, k) /\ history' # Absent /\ store' = store
    BY <1>4, <2>2, <2>4 DEF AdvanceWriteHistory, RenameHistory
  <2>6. PublishedNow = history
    BY <2>1 DEF PublishedNow
  <2>7. Ledger!Advance(k)
    BY <2>1, <2>2, <2>3, <2>4, <2>5, <2>6, PublishIsAdvance
  <2> QED
    BY <2>3, <2>7 DEF Ledger!Next
<1>5. ASSUME NEW p \in Procs, EraseWriteStore(p) PROVE Ledger!Next
  <2> DEFINE t == target[p]
  <2>1. /\ history # Absent /\ store # Absent /\ history \in Seq(Key) /\ store \in Chain
        /\ store.records = history /\ t # Len(history) - 1 /\ t \in Nat
        /\ chain[p] = erase(store, t) /\ is_readable(store, t)
        /\ store' = chain[p] /\ history' = history
    BY <1>5 DEF EraseWriteStore, RenameStore, SerialInv, AtPC, SoundInv, TypeOK
  <2>2. t < Len(history)
    BY <1>5, <2>1 DEF EraseWriteStore, SoundInv, SoundProcs, erase
  <2>3. store' # Absent /\ store'.secrets = {e \in store.secrets : e[1] # t}
    <3>1. chain[p] # Absent
      BY <1>5, SoundIsChain DEF EraseWriteStore, SoundInv, SoundProcs
    <3>2. erase(store, t).secrets = {e \in store.secrets : e[1] # t}
      BY DEF erase
    <3> QED
      BY <2>1, <3>1, <3>2
  <2>4. \A n \in Nat : is_readable(store', n) <=> (is_readable(store, n) /\ n # t)
    BY <2>3 DEF is_readable
  <2>5. PublishedNow = history /\ PublishedNow' = history
    BY <2>1 DEF PublishedNow
  <2>6. ReadableNow = {n \in 0..(Len(history) - 1) : is_readable(store, n)}
    BY <2>1, <2>5 DEF ReadableNow
  <2>7. ReadableNow' = {n \in 0..(Len(history) - 1) : is_readable(store', n)}
    BY <2>3, <2>5 DEF ReadableNow, is_readable
  <2>8. ReadableNow' = ReadableNow \ {t} /\ t \in ReadableNow
    BY <2>1, <2>2, <2>4, <2>6, <2>7
  <2>9. Ledger!Erase(t)
    BY <2>1, <2>5, <2>8 DEF Ledger!Erase
  <2> QED
    BY <2>8, <2>9 DEF Ledger!Next
<1>6. ASSUME NEW p \in Procs,
             \/ AdvanceLoad(p) \/ AdvanceSyncStore(p) \/ AdvanceSyncHistory(p)
             \/ EraseLoad(p) \/ EraseSyncStore(p) \/ Stop(p)
             \/ InitBegin(p) \/ AdvanceBegin(p) \/ \E n \in 0..(MaxChainEntries - 1) : EraseBegin(p, n)
      PROVE UNCHANGED <<history, store>>
  BY <1>6 DEF AdvanceLoad, AdvanceSyncStore, AdvanceSyncHistory, EraseLoad, EraseSyncStore,
              Stop, InitBegin, AdvanceBegin, EraseBegin, SyncStore, SyncHistory, files
<1>7. ASSUME NEW n \in 0..(MaxChainEntries - 1), EpochPublic(n)
      PROVE UNCHANGED <<history, store>>
  BY <1>7 DEF EpochPublic, files
<1>8. ~LosePower
  BY DEF LosePower
<1> QED
  BY <1>1, <1>2, <1>3, <1>4, <1>5, <1>6, <1>7, <1>8, LedgerStutter DEF Next, Proceed

(* One command at a time, from no files, with crashes between any two      *)
(* steps: the history and the store together implement the epoch ledger.   *)
THEOREM FilesImplementLedger ==
  ASSUME OneAtATime, ~PowerLoss, ~Existing PROVE Spec => ImplementsLedger
<1>1. Init => Ledger!Init
  BY DEF Init, Ledger!Init, PublishedNow, ReadableNow
<1>2. SoundInv /\ SerialInv /\ [Next]_vars => [Ledger!Next]_(Ledger!vars)
  BY LedgerStep, LedgerStutter DEF vars, files
<1> QED
  BY <1>1, <1>2, SerialAlways, PTL DEF Spec, ImplementsLedger, Ledger!Spec
=============================================================================
