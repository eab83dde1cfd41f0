------------------------- MODULE ObjectRecordsProofs ------------------------
(***************************************************************************)
(* What open publishes is the whole input, no nonce is used twice and      *)
(* every container opens, for any chunk length and payload limit and any   *)
(* number of containers and readers.  The invariant says what the sealed   *)
(* records are: exactly the chunks read so far, one per counter, DATA      *)
(* below the counter and FINAL at it once the input ended.                 *)
(***************************************************************************)
EXTENDS ObjectRecords, TLAPS

(* The writer holds the last chunk it read, not sealed yet or FINAL.       *)
ReadAhead ==
  \A o \in Objects :
    /\ wpc[o] = "idle" => counter[o] = 0 /\ plain[o] = <<>>
    /\ wpc[o] # "idle" => Len(plain[o]) = counter[o] + 1
    /\ wpc[o] = "sealing" => current[o] = plain[o][counter[o] + 1]

(* r seals the chunk at place c of its own input as kind k.                *)
Seals(r, c, k) ==
  /\ r = seal(r.key, c, k, plain[r.key][c + 1])
  /\ wpc[r.key] # "idle"
  /\ k = DATA => c < counter[r.key]
  /\ k = FINAL => c = counter[r.key] /\ wpc[r.key] = "published"

(* Nothing else was ever sealed.                                           *)
RecordsAreInput ==
  \A r \in records : \E c \in 0..counter[r.key], k \in {DATA, FINAL} : Seals(r, c, k)

(* A reader has staged the beginning of its object's input, and all of it  *)
(* once FINAL authenticated.                                               *)
StagedIsPrefix ==
  \A p \in Openers :
    /\ rpc[p] # "idle" => wpc[object[p]] # "idle"
    /\ rpc[p] = "reading" => /\ Len(staged[p]) = position[p]
                             /\ position[p] <= counter[object[p]]
                             /\ \A i \in 1..position[p] : staged[p][i] = plain[object[p]][i]
    /\ rpc[p] = "verified" => /\ wpc[object[p]] = "published"
                              /\ staged[p] = plain[object[p]]

IInv == TypeOK /\ ReadAhead /\ RecordsAreInput /\ StagedIsPrefix /\ PublishedIsWhole

(* Every chunk below the counter was sealed as DATA, and the last one of a *)
(* container that was published as FINAL.                                  *)
InputIsSealed ==
  \A o \in Objects :
    /\ \A c \in 0..(counter[o] - 1) : seal(o, c, DATA, plain[o][c + 1]) \in records
    /\ wpc[o] = "published" =>
         counter[o] < MAX_CHUNKS /\ seal(o, counter[o], FINAL, plain[o][counter[o] + 1]) \in records

(* Where inputs do not grow, chunks that are not the last are full and     *)
(* only a first chunk is empty.                                            *)
ChunksAreFull ==
  \A o \in Objects \ Growing : wpc[o] # "idle" =>
    /\ \A i \in 1..counter[o] : plain[o][i].len = CHUNK_LEN
    /\ plain[o][counter[o] + 1].len > 0 \/ counter[o] = 0
    /\ wpc[o] = "sealing" /\ left[o] > 0 => current[o].len = CHUNK_LEN

-----------------------------------------------------------------------------
LEMMA ReadLength ==
  ASSUME NEW n \in Nat
  PROVE  /\ read_length(n) \in 0..CHUNK_LEN /\ n - read_length(n) \in Nat
         /\ n > 0 => read_length(n) > 0
         /\ n - read_length(n) > 0 => read_length(n) = CHUNK_LEN
  BY RecordBounds DEF read_length

LEMMA SealType ==
  ASSUME NEW o \in Objects, NEW c \in Nat, NEW k \in {DATA, FINAL}, NEW ch \in Chunk
  PROVE  seal(o, c, k, ch) \in Sealed /\ seal(o, c, k, ch).key = o
  BY DEF seal, nonce, chunk_aad, Sealed, Chunk

LEMMA PlainChunk ==
  ASSUME TypeOK, NEW o \in Objects, NEW i \in 1..Len(plain[o])
  PROVE  plain[o][i] \in Chunk
  <1>1. plain[o] \in Seq(Chunk)
    BY DEF TypeOK
  <1> HIDE DEF Chunk
  <1> QED  BY <1>1

(* Two records under one key and nonce seal the same chunk as the same kind. *)
LEMMA NonceSeparates ==
  ASSUME IInv PROVE NonceUsedOnce
  <1> SUFFICES ASSUME NEW r \in records, NEW s \in records,
                      r.key = s.key, r.nonce = s.nonce
               PROVE  r = s
    BY DEF NonceUsedOnce
  <1>1. PICK c \in 0..counter[r.key], k \in {DATA, FINAL} : Seals(r, c, k)
    BY DEF IInv, RecordsAreInput
  <1>2. PICK d \in 0..counter[s.key], j \in {DATA, FINAL} : Seals(s, d, j)
    BY DEF IInv, RecordsAreInput
  <1>3. r.nonce = nonce(c, k) /\ s.nonce = nonce(d, j)
    BY <1>1, <1>2 DEF Seals, seal
  <1>4. c = d /\ (k = FINAL <=> j = FINAL)
    <2>1. nonce(c, k) = nonce(d, j)
      BY <1>3
    <2>2. \A a, b : nonce(a, b)[1] = a /\ nonce(a, b)[2] = IF b = FINAL THEN 1 ELSE 0
      BY DEF nonce
    <2>3. nonce(c, k)[1] = nonce(d, j)[1] /\ nonce(c, k)[2] = nonce(d, j)[2]
      BY <2>1
    <2> HIDE DEF nonce
    <2> QED  BY <2>2, <2>3
  <1>5. k = j
    BY <1>4 DEF DATA, FINAL
  <1> QED  BY <1>1, <1>2, <1>4, <1>5 DEF Seals

LEMMA InitIInv == Init => IInv /\ InputIsSealed /\ ChunksAreFull
  <1> SUFFICES ASSUME Init PROVE IInv /\ InputIsSealed /\ ChunksAreFull
    OBVIOUS
  <1> DEFINE b0 == CHOOSE b \in Bodies : TRUE
             o0 == CHOOSE o \in Objects : TRUE
  <1>1. b0 \in Bodies /\ o0 \in Objects
    BY RecordBounds
  <1>2. TypeOK
    <2>1. current \in [Objects -> Chunk] /\ object \in [Openers -> Objects]
      <3>1. current = [o \in Objects |-> [len |-> 0, body |-> b0]]
            /\ object = [p \in Openers |-> o0]
        BY DEF Init
      <3> HIDE DEF b0, o0
      <3>2. [len |-> 0, body |-> b0] \in Chunk
        BY <1>1, RecordBounds DEF Chunk
      <3> QED  BY <1>1, <3>1, <3>2
    <2>2. /\ counter \in [Objects -> 0..MAX_CHUNKS] /\ position \in [Openers -> 0..MAX_CHUNKS]
          /\ left \in [Objects -> Nat]
      BY RecordBounds DEF Init
    <2>3. plain \in [Objects -> Seq(Chunk)] /\ staged \in [Openers -> Seq(Chunk)]
      BY DEF Init
    <2> QED  BY <2>1, <2>2, <2>3 DEF Init, TypeOK
  <1>3. ReadAhead /\ RecordsAreInput /\ StagedIsPrefix /\ PublishedIsWhole
    BY DEF Init, ReadAhead, RecordsAreInput, StagedIsPrefix, PublishedIsWhole
  <1>4. InputIsSealed /\ ChunksAreFull
    BY DEF Init, InputIsSealed, ChunksAreFull
  <1> QED  BY <1>2, <1>3, <1>4 DEF IInv

-----------------------------------------------------------------------------
(* A step of the writers only adds: what was read stays where it was, and  *)
(* a published container does not change.                                  *)
OnlyAdds ==
  /\ UNCHANGED reading
  /\ \A o \in Objects :
       /\ wpc[o] # "idle" => /\ wpc'[o] # "idle"
                             /\ counter'[o] \in Nat /\ counter[o] <= counter'[o]
                             /\ \A i \in 1..Len(plain[o]) : plain'[o][i] = plain[o][i]
       /\ wpc[o] = "published" => /\ wpc'[o] = "published" /\ counter'[o] = counter[o]
                                  /\ plain'[o] = plain[o]

LEMMA AddingKeeps ==
  ASSUME IInv, OnlyAdds
  PROVE  /\ StagedIsPrefix' /\ PublishedIsWhole'
         /\ \A r \in records :
              \E c \in 0..counter'[r.key], k \in {DATA, FINAL} : Seals(r, c, k)'
  <1> USE DEF OnlyAdds, reading
  <1>1. StagedIsPrefix'
    <2> SUFFICES ASSUME NEW p \in Openers
                 PROVE  /\ rpc[p] # "idle" => wpc'[object[p]] # "idle"
                        /\ rpc[p] = "reading" =>
                             /\ Len(staged[p]) = position[p]
                             /\ position[p] <= counter'[object[p]]
                             /\ \A i \in 1..position[p] : staged[p][i] = plain'[object[p]][i]
                        /\ rpc[p] = "verified" => /\ wpc'[object[p]] = "published"
                                                  /\ staged[p] = plain'[object[p]]
      BY DEF StagedIsPrefix
    <2> DEFINE o == object[p]
    <2>1. o \in Objects /\ position[p] \in Nat /\ counter[o] \in Nat
      BY DEF IInv, TypeOK
    <2>2. CASE rpc[p] = "idle"
      BY <2>2
    <2>3. CASE rpc[p] = "reading"
      <3>1. /\ wpc[o] # "idle" /\ Len(staged[p]) = position[p] /\ position[p] <= counter[o]
            /\ \A i \in 1..position[p] : staged[p][i] = plain[o][i]
        BY <2>3 DEF IInv, StagedIsPrefix
      <3>2. Len(plain[o]) = counter[o] + 1
        BY <3>1, <2>1 DEF IInv, ReadAhead
      <3>3. \A i \in 1..position[p] : i \in 1..Len(plain[o])
        BY <3>1, <3>2, <2>1
      <3>4. /\ wpc'[o] # "idle" /\ counter'[o] \in Nat /\ counter[o] <= counter'[o]
            /\ \A i \in 1..Len(plain[o]) : plain'[o][i] = plain[o][i]
        BY <3>1, <2>1
      <3>5. position[p] <= counter'[o]
        BY <3>1, <3>4, <2>1
      <3> HIDE DEF o
      <3>6. \A i \in 1..position[p] : staged[p][i] = plain'[o][i]
        BY <3>1, <3>3, <3>4
      <3> QED  BY <3>1, <3>4, <3>5, <3>6, <2>3 DEF o
    <2>4. CASE rpc[p] = "verified"
      BY <2>4, <2>1 DEF IInv, StagedIsPrefix
    <2>5. rpc[p] \in {"idle", "reading", "verified"}
      BY DEF IInv, TypeOK
    <2> QED  BY <2>2, <2>3, <2>4, <2>5
  <1>2. PublishedIsWhole'
    <2> SUFFICES ASSUME out # Absent
                 PROVE  wpc'[out.object] = "published" /\ out.text = plain'[out.object]
      BY DEF PublishedIsWhole
    <2>1. out.object \in Objects
      BY DEF IInv, TypeOK
    <2> QED  BY <2>1 DEF IInv, PublishedIsWhole
  <1>3. ASSUME NEW r \in records
        PROVE  \E c \in 0..counter'[r.key], k \in {DATA, FINAL} : Seals(r, c, k)'
    <2> DEFINE o == r.key
    <2>1. o \in Objects /\ counter[o] \in Nat
      BY DEF IInv, TypeOK, Sealed
    <2>2. PICK c \in 0..counter[o], k \in {DATA, FINAL} : Seals(r, c, k)
      BY DEF IInv, RecordsAreInput
    <2>3. wpc[o] # "idle" /\ c + 1 \in 1..Len(plain[o])
      BY <2>1, <2>2 DEF Seals, IInv, ReadAhead
    <2>4. /\ wpc'[o] # "idle" /\ counter'[o] \in Nat /\ counter[o] <= counter'[o]
          /\ plain'[o][c + 1] = plain[o][c + 1]
      BY <2>1, <2>3
    <2>5. c \in 0..counter'[o] /\ (c < counter[o] => c < counter'[o])
      BY <2>1, <2>4
    <2>6. Seals(r, c, k)'
      <3>1. r = seal(o, c, k, plain'[o][c + 1])
        BY <2>2, <2>4 DEF Seals
      <3>2. k = DATA => c < counter'[o]
        BY <2>2, <2>5 DEF Seals
      <3>3. k = FINAL => c = counter'[o] /\ wpc'[o] = "published"
        BY <2>1, <2>2 DEF Seals
      <3> QED  BY <3>1, <3>2, <3>3, <2>4 DEF Seals
    <2> QED  BY <2>5, <2>6
  <1> QED  BY <1>1, <1>2, <1>3

(* What the records of a container are good for: all are there, and those  *)
(* of an input that does not grow have the lengths a reader wants.         *)
Steady == InputIsSealed /\ ChunksAreFull

LEMMA EncryptStartStep ==
  ASSUME IInv, Steady, NEW o \in Objects, NEW n \in 0..MaxBytes, NEW b \in Bodies,
         EncryptStart(o, n, b)
  PROVE  IInv' /\ Steady'
  <1> DEFINE ch == [len |-> read_length(n), body |-> b]
  <1>1. /\ wpc[o] = "idle" /\ wpc' = [wpc EXCEPT ![o] = "sealing"]
        /\ left' = [left EXCEPT ![o] = n - ch.len]
        /\ current' = [current EXCEPT ![o] = ch]
        /\ plain' = [plain EXCEPT ![o] = <<ch>>]
        /\ counter' = counter /\ records' = records /\ UNCHANGED reading
    BY DEF EncryptStart
  <1>2. TypeOK /\ n \in Nat
    BY RecordBounds DEF IInv
  <1>3. ch \in Chunk /\ ch.len = read_length(n) /\ n - ch.len \in Nat
    BY <1>2, ReadLength DEF Chunk
  <1> HIDE DEF ch
  <1>4. TypeOK'
    BY <1>1, <1>2, <1>3 DEF TypeOK, reading
  <1>5. counter[o] = 0
    BY <1>1 DEF IInv, ReadAhead
  <1>6. /\ wpc'[o] = "sealing" /\ plain'[o] = <<ch>> /\ current'[o] = ch /\ left'[o] = n - ch.len
        /\ \A q \in Objects : q # o => /\ wpc'[q] = wpc[q] /\ plain'[q] = plain[q]
                                       /\ current'[q] = current[q] /\ left'[q] = left[q]
    BY <1>1, <1>2 DEF TypeOK
  <1>7. ReadAhead'
    BY <1>1, <1>5, <1>6 DEF IInv, ReadAhead
  <1>8. OnlyAdds
    BY <1>1, <1>2, <1>6 DEF OnlyAdds, TypeOK
  <1>9. RecordsAreInput'
    BY <1>1, <1>8, AddingKeeps DEF RecordsAreInput
  <1>10. Steady'
    <2>1. InputIsSealed'
      BY <1>1, <1>5, <1>6 DEF Steady, InputIsSealed
    <2>2. left'[o] > 0 => ch.len = CHUNK_LEN
      BY <1>2, <1>3, <1>6, ReadLength
    <2>3. ChunksAreFull'
      BY <1>1, <1>5, <1>6, <2>2 DEF Steady, ChunksAreFull
    <2> QED  BY <2>1, <2>3 DEF Steady
  <1> QED  BY <1>4, <1>7, <1>8, <1>9, <1>10, AddingKeeps DEF IInv

LEMMA GrowStep ==
  ASSUME IInv, Steady, NEW o \in Objects, NEW n \in 1..MaxBytes, Grow(o, n)
  PROVE  IInv' /\ Steady'
  <1>1. /\ o \in Growing /\ left' = [left EXCEPT ![o] = left[o] + n]
        /\ wpc' = wpc /\ current' = current /\ counter' = counter
        /\ plain' = plain /\ records' = records /\ UNCHANGED reading
    BY DEF Grow
  <1>2. TypeOK'
    BY <1>1, RecordBounds DEF IInv, TypeOK, reading
  <1>3. ReadAhead'
    BY <1>1 DEF IInv, ReadAhead
  <1>4. OnlyAdds
    BY <1>1 DEF OnlyAdds, IInv, TypeOK
  <1>5. RecordsAreInput'
    BY <1>1, <1>4, AddingKeeps DEF RecordsAreInput
  <1>6. \A q \in Objects \ Growing : left'[q] = left[q]
    BY <1>1 DEF IInv, TypeOK
  <1>7. Steady'
    BY <1>1, <1>6 DEF Steady, InputIsSealed, ChunksAreFull
  <1> QED  BY <1>1, <1>2, <1>3, <1>4, <1>5, <1>7, AddingKeeps DEF IInv

LEMMA SealDataStep ==
  ASSUME IInv, Steady, NEW o \in Objects, NEW b \in Bodies, SealData(o, b)
  PROVE  IInv' /\ Steady'
  <1> DEFINE ch == [len |-> read_length(left[o]), body |-> b]
             rec == seal(o, counter[o], DATA, current[o])
  <1>1. /\ wpc[o] = "sealing" /\ counter[o] < MAX_CHUNKS /\ left[o] > 0
        /\ records' = records \cup {rec}
        /\ left' = [left EXCEPT ![o] = left[o] - ch.len]
        /\ current' = [current EXCEPT ![o] = ch]
        /\ plain' = [plain EXCEPT ![o] = Append(plain[o], ch)]
        /\ counter' = [counter EXCEPT ![o] = counter[o] + 1]
        /\ wpc' = wpc /\ UNCHANGED reading
    BY DEF SealData
  <1>2. TypeOK
    BY DEF IInv
  <1>3. /\ left[o] \in Nat /\ counter[o] \in Nat /\ counter[o] + 1 \in 0..MAX_CHUNKS
        /\ current[o] \in Chunk /\ plain[o] \in Seq(Chunk)
    BY <1>1, <1>2, RecordBounds DEF TypeOK
  <1>4. ch \in Chunk /\ ch.len = read_length(left[o]) /\ left[o] - ch.len \in Nat
    BY <1>3, ReadLength DEF Chunk
  <1>5. rec \in Sealed /\ rec.key = o
    BY <1>3, SealType
  <1>6. Len(plain[o]) = counter[o] + 1 /\ current[o] = plain[o][counter[o] + 1]
    BY <1>1 DEF IInv, ReadAhead
  <1> HIDE DEF ch
  <1>7. TypeOK'
    <2> HIDE DEF rec
    <2>1. Append(plain[o], ch) \in Seq(Chunk)
      <3> HIDE DEF Chunk
      <3> QED  BY <1>3, <1>4
    <2>2. /\ records' \subseteq Sealed /\ left' \in [Objects -> Nat]
          /\ current' \in [Objects -> Chunk] /\ counter' \in [Objects -> 0..MAX_CHUNKS]
          /\ plain' \in [Objects -> Seq(Chunk)]
      BY <1>1, <1>2, <1>3, <1>4, <1>5, <2>1 DEF TypeOK
    <2> QED  BY <1>1, <1>2, <2>2 DEF TypeOK, reading
  <1>8. /\ plain'[o] = Append(plain[o], ch) /\ current'[o] = ch
        /\ left'[o] = left[o] - ch.len /\ counter'[o] = counter[o] + 1
        /\ \A q \in Objects : q # o =>
             /\ plain'[q] = plain[q] /\ current'[q] = current[q]
             /\ left'[q] = left[q] /\ counter'[q] = counter[q]
    BY <1>1, <1>2 DEF TypeOK
  <1>9. /\ Len(plain'[o]) = counter[o] + 2 /\ plain'[o][counter[o] + 2] = ch
        /\ \A i \in 1..(counter[o] + 1) : plain'[o][i] = plain[o][i]
    <2> HIDE DEF Chunk
    <2> QED  BY <1>3, <1>4, <1>6, <1>8
  <1>10. ReadAhead'
    BY <1>1, <1>3, <1>8, <1>9 DEF IInv, ReadAhead
  <1>11. OnlyAdds
    <2>1. \A q \in Objects : counter[q] \in Nat
      BY <1>2 DEF TypeOK
    <2> QED  BY <1>1, <1>3, <1>6, <1>8, <1>9, <2>1 DEF OnlyAdds
  <1>12. RecordsAreInput'
    <2> SUFFICES ASSUME NEW r \in records'
                 PROVE  \E c \in 0..counter'[r.key], k \in {DATA, FINAL} : Seals(r, c, k)'
      BY DEF RecordsAreInput
    <2>1. CASE r = rec
      <3>0. PICK c \in Nat : c = counter[o]
        BY <1>3
      <3>1. r.key = o /\ c \in 0..counter'[o] /\ c < counter'[o]
        BY <2>1, <1>5, <1>3, <1>8, <3>0
      <3>2. r = seal(o, c, DATA, plain'[o][c + 1])
        BY <2>1, <1>3, <1>6, <1>9, <3>0
      <3>3. Seals(r, c, DATA)'
        BY <3>1, <3>2, <1>1 DEF Seals, DATA, FINAL
      <3> QED  BY <3>1, <3>3
    <2>2. CASE r \in records
      BY <2>2, <1>11, AddingKeeps
    <2> QED  BY <2>1, <2>2, <1>1
  <1>13. Steady'
    <2>1. InputIsSealed /\ ChunksAreFull
      BY DEF Steady
    <2>2. InputIsSealed'
      <3> SUFFICES ASSUME NEW q \in Objects
                   PROVE  /\ \A c \in 0..(counter'[q] - 1) :
                               seal(q, c, DATA, plain'[q][c + 1]) \in records'
                          /\ wpc[q] = "published" =>
                               counter'[q] < MAX_CHUNKS
                               /\ seal(q, counter'[q], FINAL, plain'[q][counter'[q] + 1]) \in records'
        BY <1>1 DEF InputIsSealed
      <3>1. CASE q # o
        BY <3>1, <1>1, <1>8, <2>1 DEF InputIsSealed
      <3>2. CASE q = o
        <4>1. ASSUME NEW c \in 0..(counter'[o] - 1)
              PROVE  seal(o, c, DATA, plain'[o][c + 1]) \in records'
          <5>1. c \in 0..counter[o] /\ c + 1 \in 1..(counter[o] + 1)
            BY <1>3, <1>8
          <5>2. plain'[o][c + 1] = plain[o][c + 1]
            BY <5>1, <1>9
          <5>3. CASE c = counter[o]
            BY <5>2, <5>3, <1>1, <1>6
          <5>4. CASE c # counter[o]
            <6>1. c \in 0..(counter[o] - 1)
              BY <5>1, <5>4, <1>3
            <6> QED  BY <6>1, <5>2, <1>1, <2>1 DEF InputIsSealed
          <5> QED  BY <5>3, <5>4
        <4> QED  BY <4>1, <3>2, <1>1
      <3> QED  BY <3>1, <3>2
    <2>3. ChunksAreFull'
      <3>1. o \notin Growing =>
              current[o].len = CHUNK_LEN /\ \A i \in 1..counter[o] : plain[o][i].len = CHUNK_LEN
        BY <1>1, <2>1 DEF ChunksAreFull
      <3>2. o \notin Growing => \A i \in 1..counter'[o] : plain'[o][i].len = CHUNK_LEN
        BY <3>1, <1>3, <1>6, <1>8, <1>9
      <3>3. ch.len > 0 /\ (left'[o] > 0 => ch.len = CHUNK_LEN)
        BY <1>1, <1>3, <1>4, <1>8, ReadLength
      <3>4. plain'[o][counter'[o] + 1] = ch
        BY <1>3, <1>8, <1>9
      <3> SUFFICES ASSUME NEW q \in Objects \ Growing, wpc[q] # "idle"
                   PROVE  /\ \A i \in 1..counter'[q] : plain'[q][i].len = CHUNK_LEN
                          /\ plain'[q][counter'[q] + 1].len > 0 \/ counter'[q] = 0
                          /\ wpc[q] = "sealing" /\ left'[q] > 0 => current'[q].len = CHUNK_LEN
        BY <1>1 DEF ChunksAreFull
      <3>5. CASE q = o
        BY <3>5, <3>2, <3>3, <3>4, <1>8
      <3>6. CASE q # o
        BY <3>6, <1>8, <2>1 DEF ChunksAreFull
      <3> QED  BY <3>5, <3>6
    <2> QED  BY <2>2, <2>3 DEF Steady
  <1> QED  BY <1>7, <1>10, <1>11, <1>12, <1>13, AddingKeeps DEF IInv

LEMMA SealFinalStep ==
  ASSUME IInv, Steady, NEW o \in Objects, SealFinal(o)
  PROVE  IInv' /\ Steady'
  <1> DEFINE rec == seal(o, counter[o], FINAL, current[o])
  <1>1. /\ wpc[o] = "sealing" /\ counter[o] < MAX_CHUNKS
        /\ records' = records \cup {rec}
        /\ wpc' = [wpc EXCEPT ![o] = "published"]
        /\ left' = left /\ current' = current /\ counter' = counter /\ plain' = plain
        /\ UNCHANGED reading
    BY DEF SealFinal
  <1>2. TypeOK
    BY DEF IInv
  <1>3. counter[o] \in Nat /\ current[o] \in Chunk
    BY <1>2, RecordBounds DEF TypeOK
  <1>4. rec \in Sealed /\ rec.key = o
    BY <1>3, SealType
  <1>5. Len(plain[o]) = counter[o] + 1 /\ current[o] = plain[o][counter[o] + 1]
    BY <1>1 DEF IInv, ReadAhead
  <1>6. TypeOK'
    <2> HIDE DEF rec
    <2> QED  BY <1>1, <1>2, <1>4 DEF TypeOK, reading
  <1>7. wpc'[o] = "published" /\ \A q \in Objects : q # o => wpc'[q] = wpc[q]
    BY <1>1, <1>2 DEF TypeOK
  <1>8. ReadAhead'
    BY <1>1, <1>5, <1>7 DEF IInv, ReadAhead
  <1>9. OnlyAdds
    <2>1. \A q \in Objects : counter[q] \in Nat
      BY <1>2 DEF TypeOK
    <2> QED  BY <1>1, <1>7, <2>1 DEF OnlyAdds
  <1>10. RecordsAreInput'
    <2> SUFFICES ASSUME NEW r \in records'
                 PROVE  \E c \in 0..counter'[r.key], k \in {DATA, FINAL} : Seals(r, c, k)'
      BY DEF RecordsAreInput
    <2>1. CASE r = rec
      <3>1. PICK c \in Nat : c = counter[o]
        BY <1>3
      <3>2. r.key = o /\ c \in 0..counter'[o] /\ c = counter'[o]
        BY <2>1, <3>1, <1>4, <1>1
      <3>3. r = seal(o, c, FINAL, plain'[o][c + 1])
        BY <2>1, <3>1, <1>1, <1>5
      <3>4. Seals(r, c, FINAL)'
        BY <3>2, <3>3, <1>7 DEF Seals, DATA, FINAL
      <3> QED  BY <3>2, <3>4
    <2>2. CASE r \in records
      BY <2>2, <1>9, AddingKeeps
    <2> QED  BY <2>1, <2>2, <1>1
  <1>11. Steady'
    <2>1. InputIsSealed /\ ChunksAreFull
      BY DEF Steady
    <2>2. InputIsSealed'
      BY <1>1, <1>5, <1>7, <2>1 DEF InputIsSealed
    <2>3. ChunksAreFull'
      BY <1>1, <1>7, <2>1 DEF ChunksAreFull
    <2> QED  BY <2>2, <2>3 DEF Steady
  <1> QED  BY <1>6, <1>8, <1>9, <1>10, <1>11, AddingKeeps DEF IInv

LEMMA EncryptStopsStep ==
  ASSUME IInv, Steady, NEW o \in Objects, EncryptStops(o)
  PROVE  IInv' /\ Steady'
  <1>1. /\ wpc[o] = "sealing" /\ wpc' = [wpc EXCEPT ![o] = "failed"]
        /\ left' = left /\ current' = current /\ counter' = counter
        /\ plain' = plain /\ records' = records /\ UNCHANGED reading
    BY DEF EncryptStops
  <1>2. TypeOK' /\ TypeOK
    BY <1>1 DEF IInv, TypeOK, reading
  <1>3. wpc'[o] = "failed" /\ \A q \in Objects : q # o => wpc'[q] = wpc[q]
    BY <1>1, <1>2 DEF TypeOK
  <1>4. ReadAhead'
    BY <1>1, <1>3 DEF IInv, ReadAhead
  <1>5. OnlyAdds
    <2>1. \A q \in Objects : counter[q] \in Nat
      BY <1>2 DEF TypeOK
    <2> QED  BY <1>1, <1>3, <2>1 DEF OnlyAdds
  <1>6. RecordsAreInput'
    BY <1>1, <1>5, AddingKeeps DEF RecordsAreInput
  <1>7. Steady'
    BY <1>1, <1>3 DEF Steady, InputIsSealed, ChunksAreFull
  <1> QED  BY <1>2, <1>4, <1>5, <1>6, <1>7, AddingKeeps DEF IInv

-----------------------------------------------------------------------------
LEMMA ReadingKeeps ==
  ASSUME IInv, Steady, UNCHANGED writing
  PROVE  ReadAhead' /\ RecordsAreInput' /\ Steady'
  BY DEF IInv, writing, ReadAhead, RecordsAreInput, Seals, Steady, InputIsSealed, ChunksAreFull

(* A record that authenticates at a place, as a kind, is the one that was  *)
(* sealed for it.                                                          *)
LEMMA OpensIsSeals ==
  ASSUME IInv, NEW p \in Openers, NEW r \in records, NEW k \in {DATA, FINAL},
         Accepts(p, r, k)
  PROVE  /\ r.key = object[p] /\ Seals(r, position[p], k) /\ r.chunk \in Chunk
         /\ r.chunk = plain[object[p]][position[p] + 1]
  <1>1. /\ r.key = object[p]
        /\ r.aad = <<object[p], position[p], k, r.chunk.len>>
    BY DEF Accepts, opens, chunk_aad
  <1>2. PICK c \in 0..counter[r.key], j \in {DATA, FINAL} : Seals(r, c, j)
    BY DEF IInv, RecordsAreInput
  <1>3. /\ r.aad = <<r.key, c, j, plain[r.key][c + 1].len>>
        /\ r.chunk = plain[r.key][c + 1]
    BY <1>2 DEF Seals, seal, chunk_aad
  <1>4. c = position[p] /\ j = k
    BY <1>1, <1>3
  <1>5. r.chunk \in Chunk
    BY DEF IInv, TypeOK, Sealed
  <1> QED  BY <1>1, <1>2, <1>3, <1>4, <1>5

LEMMA OpenStartStep ==
  ASSUME IInv, Steady, NEW p \in Openers, NEW o \in Objects, OpenStart(p, o)
  PROVE  IInv' /\ Steady'
  <1>1. /\ wpc[o] # "idle"
        /\ rpc' = [rpc EXCEPT ![p] = "reading"] /\ object' = [object EXCEPT ![p] = o]
        /\ position' = [position EXCEPT ![p] = 0] /\ staged' = [staged EXCEPT ![p] = <<>>]
        /\ out' = out /\ UNCHANGED writing
    BY DEF OpenStart
  <1>2. TypeOK' /\ TypeOK
    <2>1. TypeOK
      BY DEF IInv
    <2>2. 0 \in 0..MAX_CHUNKS
      BY RecordBounds
    <2>3. rpc' \in [Openers -> {"idle", "reading", "verified"}]
      BY <1>1, <2>1 DEF TypeOK
    <2>4. object' \in [Openers -> Objects]
      BY <1>1, <2>1 DEF TypeOK
    <2>5. position' \in [Openers -> 0..MAX_CHUNKS]
      BY <1>1, <2>1, <2>2 DEF TypeOK
    <2>6. staged' \in [Openers -> Seq(Chunk)]
      <3> HIDE DEF Chunk
      <3>1. << >> \in Seq(Chunk)
        OBVIOUS
      <3> QED  BY <1>1, <2>1, <3>1 DEF TypeOK
    <2> QED  BY <1>1, <2>1, <2>3, <2>4, <2>5, <2>6 DEF TypeOK, writing
  <1>3. /\ rpc'[p] = "reading" /\ object'[p] = o /\ position'[p] = 0 /\ staged'[p] = <<>>
        /\ \A q \in Openers : q # p => /\ rpc'[q] = rpc[q] /\ object'[q] = object[q]
                                       /\ position'[q] = position[q] /\ staged'[q] = staged[q]
    BY <1>1, <1>2 DEF TypeOK
  <1>4. counter[o] \in Nat
    BY <1>2 DEF TypeOK
  <1>5. StagedIsPrefix'
    BY <1>1, <1>3, <1>4 DEF IInv, StagedIsPrefix, writing
  <1>6. PublishedIsWhole'
    BY <1>1 DEF IInv, PublishedIsWhole, writing
  <1> QED  BY <1>1, <1>2, <1>5, <1>6, ReadingKeeps DEF IInv

LEMMA OpenDataStep ==
  ASSUME IInv, Steady, NEW p \in Openers, NEW r \in records, OpenData(p, r)
  PROVE  IInv' /\ Steady'
  <1> DEFINE o == object[p]
  <1>1. /\ rpc[p] = "reading" /\ Accepts(p, r, DATA)
        /\ staged' = [staged EXCEPT ![p] = Append(staged[p], r.chunk)]
        /\ position' = [position EXCEPT ![p] = position[p] + 1]
        /\ rpc' = rpc /\ object' = object /\ out' = out /\ UNCHANGED writing
    BY DEF OpenData
  <1>2. TypeOK
    BY DEF IInv
  <1>3. /\ r.key = o /\ Seals(r, position[p], DATA) /\ r.chunk \in Chunk
        /\ r.chunk = plain[o][position[p] + 1]
    BY <1>1, OpensIsSeals
  <1>4. /\ position[p] \in Nat /\ position[p] < MAX_CHUNKS /\ o \in Objects
        /\ staged[p] \in Seq(Chunk) /\ counter[o] \in Nat
    BY <1>1, <1>2 DEF TypeOK, Accepts
  <1>5. /\ wpc[o] # "idle" /\ Len(staged[p]) = position[p]
        /\ \A i \in 1..position[p] : staged[p][i] = plain[o][i]
    BY <1>1 DEF IInv, StagedIsPrefix
  <1>6. position[p] < counter[o]
    BY <1>3 DEF Seals
  <1>7. /\ Append(staged[p], r.chunk) \in Seq(Chunk)
        /\ Len(Append(staged[p], r.chunk)) = position[p] + 1
        /\ \A i \in 1..(position[p] + 1) : Append(staged[p], r.chunk)[i] = plain[o][i]
    <2> HIDE DEF Chunk, o
    <2> QED  BY <1>3, <1>4, <1>5
  <1>8. TypeOK'
    BY <1>1, <1>2, <1>4, <1>7, RecordBounds DEF TypeOK, writing
  <1>9. /\ staged'[p] = Append(staged[p], r.chunk) /\ position'[p] = position[p] + 1
        /\ \A q \in Openers : q # p => position'[q] = position[q] /\ staged'[q] = staged[q]
    BY <1>1, <1>2 DEF TypeOK
  <1>10. StagedIsPrefix'
    <2> SUFFICES ASSUME NEW q \in Openers
                 PROVE  /\ rpc[q] # "idle" => wpc[object[q]] # "idle"
                        /\ rpc[q] = "reading" =>
                             /\ Len(staged'[q]) = position'[q]
                             /\ position'[q] <= counter[object[q]]
                             /\ \A i \in 1..position'[q] : staged'[q][i] = plain[object[q]][i]
                        /\ rpc[q] = "verified" => /\ wpc[object[q]] = "published"
                                                  /\ staged'[q] = plain[object[q]]
      BY <1>1 DEF StagedIsPrefix, writing
    <2>1. CASE q = p
      BY <2>1, <1>1, <1>4, <1>5, <1>6, <1>7, <1>9
    <2>2. CASE q # p
      BY <2>2, <1>9 DEF IInv, StagedIsPrefix
    <2> QED  BY <2>1, <2>2
  <1>11. PublishedIsWhole'
    BY <1>1 DEF IInv, PublishedIsWhole, writing
  <1> QED  BY <1>1, <1>8, <1>10, <1>11, ReadingKeeps DEF IInv

LEMMA OpenFinalStep ==
  ASSUME IInv, Steady, NEW p \in Openers, NEW r \in records, OpenFinal(p, r)
  PROVE  IInv' /\ Steady'
  <1> DEFINE o == object[p]
  <1>1. /\ rpc[p] = "reading" /\ Accepts(p, r, FINAL)
        /\ staged' = [staged EXCEPT ![p] = Append(staged[p], r.chunk)]
        /\ rpc' = [rpc EXCEPT ![p] = "verified"]
        /\ position' = position /\ object' = object /\ out' = out /\ UNCHANGED writing
    BY DEF OpenFinal
  <1>2. TypeOK
    BY DEF IInv
  <1>3. /\ r.key = o /\ Seals(r, position[p], FINAL) /\ r.chunk \in Chunk
        /\ r.chunk = plain[o][position[p] + 1]
    BY <1>1, OpensIsSeals
  <1>4. /\ position[p] \in Nat /\ o \in Objects /\ staged[p] \in Seq(Chunk)
        /\ plain[o] \in Seq(Chunk) /\ counter[o] \in Nat
    BY <1>2 DEF TypeOK
  <1>5. /\ wpc[o] # "idle" /\ Len(staged[p]) = position[p]
        /\ \A i \in 1..position[p] : staged[p][i] = plain[o][i]
    BY <1>1 DEF IInv, StagedIsPrefix
  <1>6. position[p] = counter[o] /\ wpc[o] = "published"
    BY <1>3 DEF Seals
  <1>7. Len(plain[o]) = position[p] + 1
    BY <1>4, <1>5, <1>6 DEF IInv, ReadAhead
  <1>8. Append(staged[p], r.chunk) \in Seq(Chunk) /\ Append(staged[p], r.chunk) = plain[o]
    <2> HIDE DEF Chunk, o
    <2>1. /\ Append(staged[p], r.chunk) \in Seq(Chunk)
          /\ Len(Append(staged[p], r.chunk)) = Len(plain[o])
          /\ \A i \in 1..Len(plain[o]) : Append(staged[p], r.chunk)[i] = plain[o][i]
      BY <1>3, <1>4, <1>5, <1>7
    <2> QED  BY <2>1, <1>4
  <1>9. TypeOK'
    BY <1>1, <1>2, <1>8 DEF TypeOK, writing
  <1>10. /\ staged'[p] = plain[o] /\ rpc'[p] = "verified"
         /\ \A q \in Openers : q # p => rpc'[q] = rpc[q] /\ staged'[q] = staged[q]
    BY <1>1, <1>2, <1>8 DEF TypeOK
  <1>11. StagedIsPrefix'
    BY <1>1, <1>6, <1>10 DEF IInv, StagedIsPrefix, writing
  <1>12. PublishedIsWhole'
    BY <1>1 DEF IInv, PublishedIsWhole, writing
  <1> QED  BY <1>1, <1>9, <1>11, <1>12, ReadingKeeps DEF IInv

LEMMA CommitStep ==
  ASSUME IInv, Steady, NEW p \in Openers, Commit(p)
  PROVE  IInv' /\ Steady'
  <1>1. /\ rpc[p] = "verified" /\ out' = [object |-> object[p], text |-> staged[p]]
        /\ rpc' = [rpc EXCEPT ![p] = "idle"] /\ staged' = [staged EXCEPT ![p] = <<>>]
        /\ position' = position /\ object' = object /\ UNCHANGED writing
    BY DEF Commit
  <1>2. TypeOK /\ object[p] \in Objects /\ staged[p] \in Seq(Chunk)
    BY DEF IInv, TypeOK
  <1>3. TypeOK'
    <2>1. out' \in [object : Objects, text : Seq(Chunk)]
      BY <1>1, <1>2
    <2>2. staged' \in [Openers -> Seq(Chunk)]
      BY <1>1, <1>2 DEF TypeOK
    <2> QED  BY <1>1, <1>2, <2>1, <2>2 DEF TypeOK, writing
  <1>4. /\ rpc'[p] = "idle"
        /\ \A q \in Openers : q # p => rpc'[q] = rpc[q] /\ staged'[q] = staged[q]
    BY <1>1, <1>2 DEF TypeOK
  <1>5. StagedIsPrefix'
    BY <1>1, <1>4 DEF IInv, StagedIsPrefix, writing
  <1>6. PublishedIsWhole'
    BY <1>1 DEF IInv, StagedIsPrefix, PublishedIsWhole, writing
  <1> QED  BY <1>1, <1>3, <1>5, <1>6, ReadingKeeps DEF IInv

LEMMA OpenStopsStep ==
  ASSUME IInv, Steady, NEW p \in Openers, OpenStops(p)
  PROVE  IInv' /\ Steady'
  <1>1. /\ rpc' = [rpc EXCEPT ![p] = "idle"] /\ staged' = [staged EXCEPT ![p] = <<>>]
        /\ position' = position /\ object' = object /\ out' = out /\ UNCHANGED writing
    BY DEF OpenStops
  <1>2. TypeOK' /\ TypeOK
    BY <1>1 DEF IInv, TypeOK, writing
  <1>3. /\ rpc'[p] = "idle"
        /\ \A q \in Openers : q # p => rpc'[q] = rpc[q] /\ staged'[q] = staged[q]
    BY <1>1, <1>2 DEF TypeOK
  <1>4. StagedIsPrefix'
    BY <1>1, <1>3 DEF IInv, StagedIsPrefix, writing
  <1>5. PublishedIsWhole'
    BY <1>1 DEF IInv, PublishedIsWhole, writing
  <1> QED  BY <1>1, <1>2, <1>4, <1>5, ReadingKeeps DEF IInv

LEMMA NextIInv == IInv /\ Steady /\ [Next]_vars => IInv' /\ Steady'
  <1> SUFFICES ASSUME IInv, Steady, [Next]_vars PROVE IInv' /\ Steady'
    OBVIOUS
  <1>1. CASE Next
    BY <1>1, EncryptStartStep, GrowStep, SealDataStep, SealFinalStep, EncryptStopsStep,
       OpenStartStep, OpenDataStep, OpenFinalStep, CommitStep, OpenStopsStep DEF Next
  <1>2. CASE UNCHANGED vars
    <2>1. UNCHANGED writing /\ UNCHANGED reading
      BY <1>2 DEF vars
    <2>2. TypeOK' /\ StagedIsPrefix' /\ PublishedIsWhole'
      BY <2>1 DEF writing, reading, IInv, TypeOK, StagedIsPrefix, PublishedIsWhole
    <2> QED  BY <2>1, <2>2, ReadingKeeps DEF IInv
  <1> QED  BY <1>1, <1>2

LEMMA SafetyHolds == Spec => [](IInv /\ Steady)
  <1>1. Init => IInv /\ Steady
    BY InitIInv DEF Steady
  <1> QED  BY <1>1, NextIInv, PTL DEF Spec

-----------------------------------------------------------------------------
(* The writers' and readers' state is well formed, and no counter passes   *)
(* MAX_CHUNKS.                                                             *)
THEOREM RecordsTypeCorrect == Spec => []TypeOK
  <1>1. IInv /\ Steady => TypeOK
    BY DEF IInv
  <1> QED  BY <1>1, SafetyHolds, PTL

(* What open publishes is the whole input of one finished encryption.      *)
THEOREM WholeTheorem == Spec => []PublishedIsWhole
  <1>1. IInv /\ Steady => PublishedIsWhole
    BY DEF IInv
  <1> QED  BY <1>1, SafetyHolds, PTL

(* No payload key seals two chunks with one nonce.                         *)
THEOREM NonceTheorem == Spec => []NonceUsedOnce
  <1>1. IInv /\ Steady => NonceUsedOnce
    BY NonceSeparates
  <1> QED  BY <1>1, SafetyHolds, PTL

(* Every container whose input does not grow while it is read opens.       *)
THEOREM OpensTheorem == Spec => []SteadyContainersOpen
  <1>1. IInv /\ Steady => SteadyContainersOpen
    <2> SUFFICES ASSUME IInv, InputIsSealed, ChunksAreFull, NEW p \in Openers,
                        object[p] \notin Growing, rpc[p] = "reading", wpc[object[p]] = "published"
                 PROVE  \E r \in records, k \in {DATA, FINAL} :
                          /\ Accepts(p, r, k)
                          /\ r.chunk = plain[object[p]][position[p] + 1]
                          /\ k = FINAL <=> position[p] + 1 = Len(plain[object[p]])
      BY DEF SteadyContainersOpen, AcceptsNext, Steady
    <2> DEFINE o == object[p]
               c == position[p]
               k == IF c = counter[o] THEN FINAL ELSE DATA
               r == seal(o, c, k, plain[o][c + 1])
    <2>1. o \in Objects /\ c \in Nat /\ counter[o] \in Nat /\ MAX_CHUNKS \in Nat
      BY RecordBounds DEF IInv, TypeOK
    <2>2. c <= counter[o] /\ Len(plain[o]) = counter[o] + 1
      BY <2>1 DEF IInv, StagedIsPrefix, ReadAhead
    <2>3. counter[o] < MAX_CHUNKS
      BY <2>1 DEF InputIsSealed
    <2>4. r \in records
      <3>1. CASE c = counter[o]
        BY <3>1, <2>1 DEF InputIsSealed
      <3>2. CASE c # counter[o]
        <4>1. c \in 0..(counter[o] - 1)
          BY <3>2, <2>1, <2>2
        <4> QED  BY <4>1, <3>2, <2>1 DEF InputIsSealed
      <3> QED  BY <3>1, <3>2
    <2>5. record_length(k, plain[o][c + 1].len, c)
      <3>1. CASE c = counter[o]
        BY <3>1, <2>1 DEF ChunksAreFull, record_length, DATA, FINAL
      <3>2. CASE c # counter[o]
        <4>1. c + 1 \in 1..counter[o]
          BY <3>2, <2>1, <2>2
        <4> QED  BY <4>1, <3>2, <2>1 DEF ChunksAreFull, record_length
      <3> QED  BY <3>1, <3>2
    <2>6. k \in {DATA, FINAL} /\ (k = FINAL <=> c + 1 = Len(plain[o]))
      BY <2>1, <2>2 DEF DATA, FINAL
    <2>7. /\ r.chunk = plain[o][c + 1] /\ r.key = o /\ r.nonce = nonce(c, k)
          /\ r.aad = chunk_aad(o, c, k, plain[o][c + 1].len)
      BY DEF seal
    <2>8. Accepts(p, r, k)
      <3> HIDE DEF r, k
      <3>1. opens(o, c, k, r)
        BY <2>7 DEF opens
      <3> QED  BY <3>1, <2>1, <2>2, <2>3, <2>5, <2>7 DEF Accepts
    <2> HIDE DEF r, k
    <2> QED  BY <2>4, <2>6, <2>7, <2>8
  <1> QED  BY <1>1, SafetyHolds, PTL

=============================================================================
