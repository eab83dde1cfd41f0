---------------------------- MODULE ObjectRecords ---------------------------
(***************************************************************************)
(* The payload of a container (crates/hide-object/src/lib.rs): a stream of *)
(* sealed records that encrypt writes while it reads its input and that    *)
(* open decrypts into private staging, publishing it once the FINAL record *)
(* authenticates (encrypt_file and open_file of apps/hide-cli).            *)
(*                                                                         *)
(* A container reaches a reader through hands that may cut, repeat, drop,  *)
(* reorder and mix records of any containers and write any framing around  *)
(* them, but hold no content key.  An object stands for its content key,   *)
(* its salt and its protected header, all fresh for every container.  What *)
(* a chunk says is one value of Bodies.                                    *)
(***************************************************************************)
EXTENDS Naturals, Sequences

CONSTANTS
  Objects,             \* containers made in a behaviour
  Openers,             \* processes that open a container to the same path
  Bodies,              \* what a chunk may say
  CHUNK_LEN,           \* plaintext bytes in a full record
  MAX_CHUNKS,          \* the longest payload, in records
  MaxBytes,            \* bound on the size of an input
  Growing,             \* the containers whose input may grow while it is read
  Absent               \* the output path does not exist

ASSUME RecordBounds == /\ CHUNK_LEN \in Nat \ {0} /\ MAX_CHUNKS \in Nat \ {0}
                       /\ MaxBytes \in Nat
                       /\ Growing \subseteq Objects
                       /\ Objects # {} /\ Bodies # {}

DATA == 1
FINAL == 2

Chunk == [len : 0..CHUNK_LEN, body : Bodies]

ASSUME AbsentIsNoFile == Absent \notin [object : Objects, text : Seq(Chunk)]

VARIABLES
  wpc,                 \* encrypt: where each container is
  left,                \* bytes of the input not read yet
  current,             \* encrypt_records: the chunk read ahead
  counter,             \* encrypt_records: the record counter
  plain,               \* the chunks read from the input, in order
  records,             \* every record ever sealed
  rpc,                 \* open: where each process is
  object,              \* open: the object whose header it accepted
  position,            \* decrypt_records: the record counter
  staged,              \* open: the chunks in its staging file
  out                  \* the file at the output path

writing == <<wpc, left, current, counter, plain, records>>
reading == <<rpc, object, position, staged, out>>
vars == <<writing, reading>>

-----------------------------------------------------------------------------
(* The nonce of a record and the data authenticated with it.  Only the     *)
(* FINAL bit of the kind is in the nonce.                                  *)
nonce(c, k) == <<c, IF k = FINAL THEN 1 ELSE 0>>

chunk_aad(o, c, k, n) == <<o, c, k, n>>

(* ChunkCipher::seal_in_place, under the payload key of o.                 *)
seal(o, c, k, ch) ==
  [key |-> o, nonce |-> nonce(c, k), aad |-> chunk_aad(o, c, k, ch.len), chunk |-> ch]

(* Mutant of opens: the kind is taken from the framing alone.              *)
opens_framed(o, c, k, r) ==
  r.key = o /\ \E j \in {DATA, FINAL} : r.nonce = nonce(c, j)

(* ChunkCipher::open_in_place of a record framed as kind k, at place c.    *)
opens(o, c, k, r) ==
  /\ r.key = o
  /\ r.nonce = nonce(c, k)
  /\ r.aad = chunk_aad(o, c, k, r.chunk.len)

(* Mutant of record_length: an empty FINAL is never allowed.               *)
record_length_some(k, n, c) ==
  \/ k = DATA /\ n = CHUNK_LEN
  \/ k = FINAL /\ n > 0

(* record_length: DATA is full, and only the only record may be empty.     *)
record_length(k, n, c) ==
  \/ k = DATA /\ n = CHUNK_LEN
  \/ k = FINAL /\ (n > 0 \/ c = 0)

(* read_chunk: as many bytes as the buffer takes, or all there are.        *)
read_length(n) == IF n < CHUNK_LEN THEN n ELSE CHUNK_LEN

-----------------------------------------------------------------------------
Init ==
  /\ wpc = [o \in Objects |-> "idle"]
  /\ left = [o \in Objects |-> 0]
  /\ current = [o \in Objects |-> [len |-> 0, body |-> CHOOSE b \in Bodies : TRUE]]
  /\ counter = [o \in Objects |-> 0]
  /\ plain = [o \in Objects |-> <<>>]
  /\ records = {}
  /\ rpc = [p \in Openers |-> "idle"]
  /\ object = [p \in Openers |-> CHOOSE o \in Objects : TRUE]
  /\ position = [p \in Openers |-> 0]
  /\ staged = [p \in Openers |-> <<>>]
  /\ out = Absent

(* encrypt: an input of n bytes is opened, the header is written and the   *)
(* first chunk is read.                                                    *)
EncryptStart(o, n, b) ==
  LET ch == [len |-> read_length(n), body |-> b] IN
  /\ wpc[o] = "idle"
  /\ wpc' = [wpc EXCEPT ![o] = "sealing"]
  /\ left' = [left EXCEPT ![o] = n - ch.len]
  /\ current' = [current EXCEPT ![o] = ch]
  /\ plain' = [plain EXCEPT ![o] = <<ch>>]
  /\ UNCHANGED <<counter, records, reading>>

(* Someone appends to the input while it is being read.  A signed container *)
(* is sealed from memory, and its input is as if it never grew.            *)
Grow(o, n) ==
  /\ o \in Growing
  /\ wpc[o] = "sealing"
  /\ left[o] + n <= MaxBytes
  /\ left' = [left EXCEPT ![o] = @ + n]
  /\ UNCHANGED <<wpc, current, counter, plain, records, reading>>

(* Mutant of SealData: the counter does not move.                          *)
SealData_stuck(o, b) ==
  LET next == [len |-> read_length(left[o]), body |-> b] IN
  /\ wpc[o] = "sealing" /\ counter[o] < MAX_CHUNKS
  /\ left[o] > 0
  /\ records' = records \cup {seal(o, counter[o], DATA, current[o])}
  /\ left' = [left EXCEPT ![o] = @ - next.len]
  /\ current' = [current EXCEPT ![o] = next]
  /\ plain' = [plain EXCEPT ![o] = Append(@, next)]
  /\ UNCHANGED <<wpc, counter, reading>>

(* One turn of encrypt_records: the next chunk is read first, and as there *)
(* is one the current chunk is sealed as DATA.                             *)
SealData(o, b) ==
  LET next == [len |-> read_length(left[o]), body |-> b] IN
  /\ wpc[o] = "sealing" /\ counter[o] < MAX_CHUNKS
  /\ left[o] > 0
  /\ records' = records \cup {seal(o, counter[o], DATA, current[o])}
  /\ left' = [left EXCEPT ![o] = @ - next.len]
  /\ current' = [current EXCEPT ![o] = next]
  /\ plain' = [plain EXCEPT ![o] = Append(@, next)]
  /\ counter' = [counter EXCEPT ![o] = @ + 1]
  /\ UNCHANGED <<wpc, reading>>

(* Nothing is left to read: the current chunk is FINAL, and the container  *)
(* is committed to its path.                                               *)
SealFinal(o) ==
  /\ wpc[o] = "sealing" /\ counter[o] < MAX_CHUNKS
  /\ left[o] = 0
  /\ records' = records \cup {seal(o, counter[o], FINAL, current[o])}
  /\ wpc' = [wpc EXCEPT ![o] = "published"]
  /\ UNCHANGED <<left, current, counter, plain, reading>>

(* The payload is too long, reading or writing fails, or the process ends. *)
EncryptStops(o) ==
  /\ wpc[o] = "sealing"
  /\ wpc' = [wpc EXCEPT ![o] = "failed"]
  /\ UNCHANGED <<left, current, counter, plain, records, reading>>

-----------------------------------------------------------------------------
(* open_file: the output does not exist yet, and the header of o is        *)
(* authentic (decrypt_to_staging up to the payload).                       *)
OpenStart(p, o) ==
  /\ rpc[p] = "idle" /\ out = Absent
  /\ wpc[o] # "idle"
  /\ rpc' = [rpc EXCEPT ![p] = "reading"]
  /\ object' = [object EXCEPT ![p] = o]
  /\ position' = [position EXCEPT ![p] = 0]
  /\ staged' = [staged EXCEPT ![p] = <<>>]
  /\ UNCHANGED <<writing, out>>

(* The checks decrypt_records makes of one more record.                    *)
Accepts(p, r, k) ==
  /\ position[p] < MAX_CHUNKS
  /\ record_length(k, r.chunk.len, position[p])
  /\ opens(object[p], position[p], k, r)

(* decrypt_records reads a record framed as DATA.                          *)
OpenData(p, r) ==
  /\ rpc[p] = "reading"
  /\ Accepts(p, r, DATA)
  /\ staged' = [staged EXCEPT ![p] = Append(@, r.chunk)]
  /\ position' = [position EXCEPT ![p] = @ + 1]
  /\ UNCHANGED <<writing, rpc, object, out>>

(* It reads a record framed as FINAL, with nothing after it.               *)
OpenFinal(p, r) ==
  /\ rpc[p] = "reading"
  /\ Accepts(p, r, FINAL)
  /\ staged' = [staged EXCEPT ![p] = Append(@, r.chunk)]
  /\ rpc' = [rpc EXCEPT ![p] = "verified"]
  /\ UNCHANGED <<writing, object, position, out>>

(* commit_output: persist_noclobber.                                       *)
Commit(p) ==
  /\ rpc[p] = "verified"
  /\ out = Absent
  /\ out' = [object |-> object[p], text |-> staged[p]]
  /\ rpc' = [rpc EXCEPT ![p] = "idle"]
  /\ staged' = [staged EXCEPT ![p] = <<>>]
  /\ UNCHANGED <<writing, object, position>>

(* A record is refused, the payload ends early or goes on after FINAL,     *)
(* the path is taken, or the process ends: staging is dropped.             *)
OpenStops(p) ==
  /\ rpc[p] \in {"reading", "verified"}
  /\ rpc' = [rpc EXCEPT ![p] = "idle"]
  /\ staged' = [staged EXCEPT ![p] = <<>>]
  /\ UNCHANGED <<writing, object, position, out>>

Next ==
  \/ \E o \in Objects, n \in 0..MaxBytes, b \in Bodies : EncryptStart(o, n, b)
  \/ \E o \in Objects, n \in 1..MaxBytes : Grow(o, n)
  \/ \E o \in Objects, b \in Bodies : SealData(o, b)
  \/ \E o \in Objects : SealFinal(o)
  \/ \E o \in Objects : EncryptStops(o)
  \/ \E p \in Openers, o \in Objects : OpenStart(p, o)
  \/ \E p \in Openers, r \in records : OpenData(p, r)
  \/ \E p \in Openers, r \in records : OpenFinal(p, r)
  \/ \E p \in Openers : Commit(p)
  \/ \E p \in Openers : OpenStops(p)

Spec == Init /\ [][Next]_vars

-----------------------------------------------------------------------------
Sealed == [key : Objects, nonce : Nat \X {0, 1}, chunk : Chunk,
           aad : Objects \X Nat \X {DATA, FINAL} \X (0..CHUNK_LEN)]

(* Every variable has its type.                                            *)
TypeOK ==
  /\ wpc \in [Objects -> {"idle", "sealing", "published", "failed"}]
  /\ left \in [Objects -> Nat]
  /\ current \in [Objects -> Chunk]
  /\ counter \in [Objects -> 0..MAX_CHUNKS]
  /\ plain \in [Objects -> Seq(Chunk)]
  /\ records \subseteq Sealed
  /\ rpc \in [Openers -> {"idle", "reading", "verified"}]
  /\ object \in [Openers -> Objects]
  /\ position \in [Openers -> 0..MAX_CHUNKS]
  /\ staged \in [Openers -> Seq(Chunk)]
  /\ out \in [object : Objects, text : Seq(Chunk)] \cup {Absent}

(* "Truncation, chunk reordering, duplication, deletion and trailing bytes *)
(* are all rejected": what open publishes is the whole input of the object *)
(* whose header it read, every chunk once and in order, of an encryption   *)
(* that ran to its end, however records were cut and mixed on the way.     *)
PublishedIsWhole ==
  out # Absent => wpc[out.object] = "published" /\ out.text = plain[out.object]

(* The payload key and one nonce never seal two chunks: the read-ahead,    *)
(* the counter and the FINAL bit keep every record's nonce apart.          *)
NonceUsedOnce ==
  \A r, s \in records : r.key = s.key /\ r.nonce = s.nonce => r = s

(* A reader that was given the records of a finished container in order so *)
(* far accepts the one that comes next, and FINAL is the last.             *)
AcceptsNext(p) ==
  LET o == object[p] IN
  /\ rpc[p] = "reading" /\ wpc[o] = "published"
  /\ Len(staged[p]) < Len(plain[o])
  /\ \A i \in 1..Len(staged[p]) : staged[p][i] = plain[o][i]
  => \E r \in records, k \in {DATA, FINAL} :
       /\ Accepts(p, r, k) /\ r.chunk = plain[o][position[p] + 1]
       /\ k = FINAL <=> position[p] + 1 = Len(plain[o])

(* A container that encrypt reports written opens, from the first record   *)
(* to FINAL, for the empty input and the longest one too, if its input did *)
(* not grow while it was read.                                             *)
SteadyContainersOpen ==
  \A p \in Openers : object[p] \notin Growing => AcceptsNext(p)

=============================================================================
