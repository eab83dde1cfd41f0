---------------------------- MODULE WitnessedLog ----------------------------
(***************************************************************************)
(* Clients of a transparency log that its operator cannot be trusted to    *)
(* keep honestly (crates/hide-transparency/src/checkpoint.rs over          *)
(* MerkleLog).  The log is in memory only: its operator may go back to an  *)
(* older copy and on from there, and signs any size with any root it has.  *)
(* Witnesses cosign the text of a checkpoint; the honest ones only when    *)
(* verify_consistency leads from the last text of that origin they         *)
(* cosigned.  A client accepts a note by verify_witnessed and an entry by  *)
(* verify_inclusion.  Anyone may strip, collect and move signature lines   *)
(* on the way.                                                             *)
(***************************************************************************)
EXTENDS MerkleLog

CONSTANTS Origins,        \* the logs the operator runs under one key
          Entries,        \* for each log, what may be logged first, second, ...
          Origin, LogKey, \* the log the clients expect
          Witnesses,      \* the clients' list, a sequence of [name, key]
          threshold,
          Honest,         \* the witness keys whose holders follow the rule
          MAX_SIGNATURES, \* lines of a note
          MAX_ACCEPTED, MAX_SHOWN  \* bounds: what the clients take in

key_id(name, key) == <<name, key>>

WitnessNames == {Witnesses[i].name : i \in DOMAIN Witnesses} \ {Origin}

WitnessKeys == {Witnesses[i].key : i \in DOMAIN Witnesses}

(* What the clients' configuration must ensure for a threshold to mean     *)
(* anything: a key has one name (one key under two names has two key ids   *)
(* and counts twice), the log's key is no witness's, and two quorums share *)
(* an honest witness.                                                      *)
ASSUME QuorumAssumption ==
  /\ \A i, j \in DOMAIN Witnesses :
       Witnesses[i].key = Witnesses[j].key <=> Witnesses[i].name = Witnesses[j].name
  /\ \A i \in DOMAIN Witnesses :
       Witnesses[i].key = LogKey <=> Witnesses[i].name = Origin
  /\ Honest \subseteq WitnessKeys \ {LogKey}
  /\ 2 * threshold > Cardinality(WitnessNames)
                     + Cardinality(WitnessKeys \ (Honest \cup {LogKey}))

ASSUME BoundAssumption ==
  /\ DOMAIN Entries = Origins /\ MAX_SIGNATURES \in Nat \ {0}
  /\ MAX_ACCEPTED \in Nat /\ MAX_SHOWN \in Nat
  /\ Origin \in Origins /\ IsFiniteSet(Origins)
  /\ \A o \in Origins : /\ Len(Entries[o]) \in Nat \ {0}
                        /\ DOMAIN Entries[o] = 1..Len(Entries[o])
  /\ Len(Witnesses) \in Nat /\ DOMAIN Witnesses = 1..Len(Witnesses)
  /\ threshold \in Nat

VARIABLES log,       \* the leaf hashes of each log
          cosigned,  \* the texts each honest witness signed
          accepted,  \* the texts the clients accepted
          shown      \* the entries proved to a client under an accepted text

vars == <<log, cosigned, accepted, shown>>

-----------------------------------------------------------------------------
(* The universe of one instance: the trees a log can have, and the texts  *)
(* a key can sign over their roots, whatever the size claimed.             *)
Leaves == {leaf_hash(e) : e \in UNION {UNION Range(Entries[o]) : o \in Origins}}
Sizes == 1..Max({Len(Entries[o]) : o \in Origins})
Trees == {t \in SeqOf(Leaves, Max(Sizes)) \ {<<>>} :
            \E o \in Origins : /\ Len(t) <= Len(Entries[o])
                              /\ \A i \in DOMAIN t : t[i] \in {leaf_hash(e) : e \in Entries[o][i]}}
TreeOf == [r \in {root_of(t) : t \in Trees} |-> CHOOSE t \in Trees : root_of(t) = r]
Roots == DOMAIN TreeOf
Texts == [origin : Origins, size : Sizes, root : Roots]

(* "A path longer than this implies a log with more entries than could     *)
(* ever be built."                                                         *)
ASSUME DepthAssumption ==
  \A n \in Sizes :
    /\ \A i \in 0..(n - 1) : Len(turns[n][i]) <= MAX_PROOF_LEN
    /\ \A m \in 1..n : LET d == descent[n][m] IN
         Len(d.sides) + (IF d.complete THEN 0 ELSE 1) <= MAX_PROOF_LEN

(* The hashes under a root.  Every hash of a path that verifies against a  *)
(* root is one of them.                                                    *)
Below(root) ==
  LET t == TreeOf[root] IN {root_of(SubSeq(t, a, b)) : a, b \in DOMAIN t}

PathsBelow(root) == SeqOf(Below(root), MAX_PROOF_LEN)

(* Which size and root some path leads to from which size and root.        *)
TreeHead(size, root) == [size |-> size, root |-> root]
Heads == {TreeHead(n, r) : n \in Sizes, r \in Roots}
Follows ==
  {hg \in {<<h, g>> : h \in Heads, g \in Heads} :
     \E path \in PathsBelow(hg[2].root) :
       verify_consistency([first |-> hg[1].size, second |-> hg[2].size, path |-> path],
                          hg[1].root, hg[2].root)}

(* Which entries some path proves under which size and root.               *)
Proves ==
  {hs \in {<<h, [index |-> i, leaf |-> l]>> : h \in Heads, i \in 0..Max(Sizes), l \in Leaves} :
     \E path \in PathsBelow(hs[1].root) :
       verify_inclusion([first |-> hs[2].index, second |-> hs[1].size, path |-> path],
                        hs[2].leaf, hs[1].root)}

HeadOf(text) == TreeHead(text.size, text.root)

(* What the two verifiers owe whoever relies on them: a history that was   *)
(* extended twice was extended, and an entry proved before an extension    *)
(* is the only one that can be proved in its place after it.               *)
HistoryComposes ==
  \A f, g, h \in Heads :
    <<f, g>> \in Follows /\ <<g, h>> \in Follows => <<f, h>> \in Follows

PlacesAgree ==
  \A a, b \in Proves :
    <<a[1], b[1]>> \in Follows /\ a[2].index = b[2].index => a[2].leaf = b[2].leaf

-----------------------------------------------------------------------------
(* Notes.  A line is the name and key it claims, the text that was really  *)
(* signed and the key that signed it.                                      *)
line(name, key, text) ==
  [name |-> name, key_id |-> key_id(name, key), text |-> text, by |-> key]

(* Mutant of signed_by: a matching line is believed.                       *)
signed_by_unverified(note, name, key) ==
  IF \E l \in note.signatures : l.name = name /\ l.key_id = key_id(name, key)
  THEN "yes" ELSE "no"

(* signed_by: lines of other names or ids are skipped; a matching line     *)
(* whose signature fails is an error, never a skip.                        *)
signed_by(note, name, key) ==
  LET mine == {l \in note.signatures : l.name = name /\ l.key_id = key_id(name, key)}
  IN IF \E l \in mine : l.text # note.text \/ l.by # key THEN "error"
     ELSE IF mine # {} THEN "yes" ELSE "no"

(* Mutant of count_witness: what was counted is not remembered.            *)
count_witness_again(note, state, w) ==
  LET by == signed_by(note, w.name, w.key) IN
  [failed |-> state.failed \/ by = "error",
   cosigned |-> state.cosigned + (IF by = "yes" THEN 1 ELSE 0),
   counted |-> state.counted]

(* One step of the count: a name or key id already counted is passed over. *)
count_witness(note, state, w) ==
  IF state.failed \/ \E c \in state.counted : c[1] = w.name \/ c[2] = key_id(w.name, w.key)
  THEN state
  ELSE LET by == signed_by(note, w.name, w.key) IN
       [failed |-> by = "error",
        cosigned |-> state.cosigned + (IF by = "yes" THEN 1 ELSE 0),
        counted |-> state.counted \cup
                    (IF by = "yes" THEN {<<w.name, key_id(w.name, w.key)>>} ELSE {})]

(* Mutant of count: the log may count as its own witness.                  *)
count_own(note) ==
  LET C[i \in 0..Len(Witnesses)] ==
        IF i = 0 THEN [failed |-> FALSE, cosigned |-> 0, counted |-> {}]
        ELSE count_witness(note, C[i - 1], Witnesses[i])
  IN C

(* The count after the first i witnesses of the list: the log itself is    *)
(* counted from the start.                                                 *)
count(note) ==
  LET C[i \in 0..Len(Witnesses)] ==
        IF i = 0 THEN [failed |-> FALSE, cosigned |-> 0,
                       counted |-> {<<Origin, key_id(Origin, LogKey)>>}]
        ELSE count_witness(note, C[i - 1], Witnesses[i])
  IN C

decode(note) == /\ note.signatures # {}
                /\ Cardinality(note.signatures) <= MAX_SIGNATURES

(* Mutant of verify_witnessed: the origin of the text is not compared.     *)
verify_witnessed_anywhere(note) ==
  /\ decode(note)
  /\ signed_by(note, Origin, LogKey) = "yes"
  /\ LET end == count(note)[Len(Witnesses)] IN ~end.failed /\ end.cosigned >= threshold

verify_witnessed(note) ==
  /\ decode(note)
  /\ note.text.origin = Origin
  /\ signed_by(note, Origin, LogKey) = "yes"
  /\ LET end == count(note)[Len(Witnesses)] IN ~end.failed /\ end.cosigned >= threshold

-----------------------------------------------------------------------------
Init ==
  /\ log = [o \in Origins |-> <<>>]
  /\ cosigned = [w \in Honest |-> {}]
  /\ accepted = {}
  /\ shown = {}

(* TransparencyLog::append.                                                *)
Extend(o, e) ==
  /\ Len(log[o]) < Len(Entries[o]) /\ e \in Entries[o][Len(log[o]) + 1]
  /\ log' = [log EXCEPT ![o] = append(@, e)]
  /\ UNCHANGED <<cosigned, accepted, shown>>

(* The operator's process is started again from an older copy.             *)
Rewind(o, n) ==
  /\ log' = [log EXCEPT ![o] = SubSeq(@, 1, n)]
  /\ UNCHANGED <<cosigned, accepted, shown>>

(* Checkpoint::sign: the operator signs any size with a root it has.       *)
Signable ==
  UNION {[origin : {o}, size : 1..Len(Entries[o]), root : {root_at(log[o], n) : n \in 1..Len(log[o])}] :
           o \in Origins}

(* The last text of an origin a witness cosigned.                          *)
Latest(w, origin) ==
  LET mine == {t \in cosigned[w] : t.origin = origin}
  IN {t \in mine : \A u \in mine : u.size <= t.size}

(* cosign by an honest witness: the log's line verifies and the text       *)
(* extends the last one of that origin.                                    *)
Cosign(w, text) ==
  /\ text \notin cosigned[w]
  /\ \A t \in Latest(w, text.origin) : <<HeadOf(t), HeadOf(text)>> \in Follows
  /\ cosigned' = [cosigned EXCEPT ![w] = @ \cup {text}]
  /\ UNCHANGED <<log, accepted, shown>>

NameOf(key) == (CHOOSE i \in DOMAIN Witnesses : Witnesses[i].key = key)

(* The lines someone can put under a text: those of the operator and of    *)
(* the witnesses that sign anything, and the honest ones given out for it. *)
(* One may get lost, or one be moved here from another text.               *)
Lines(text) ==
  LET names == [k \in WitnessKeys |-> Witnesses[NameOf(k)].name] IN
  {line(o, LogKey, text) : o \in {text.origin, Origin}}
  \cup {line(names[k], k, text) : k \in WitnessKeys \ Honest}
  \cup {line(names[k], k, text) : k \in {h \in Honest : text \in cosigned[h]}}

Strays(text) ==
  UNION {{line(Witnesses[NameOf(k)].name, k, t) : t \in cosigned[k] \ {text}} : k \in Honest}

(* verify_witnessed by a client.                                           *)
Accept(note) ==
  /\ verify_witnessed(note)
  /\ accepted' = accepted \cup {note.text}
  /\ UNCHANGED <<log, cosigned, shown>>

(* verify_inclusion by a client, which takes the size from the text.       *)
Show(text, entry) ==
  /\ <<HeadOf(text), entry>> \in Proves
  /\ shown' = shown \cup {entry}
  /\ UNCHANGED <<log, cosigned, accepted>>

Next ==
  \/ \E o \in Origins : \E e \in UNION Range(Entries[o]) : Extend(o, e)
  \/ \E o \in Origins : \E n \in 0..(Len(log[o]) - 1) : Rewind(o, n)
  \/ \E w \in Honest, text \in Signable : Cosign(w, text)
  \/ /\ Cardinality(accepted) < MAX_ACCEPTED
     /\ \E text \in Signable \ accepted :
          \E sigs \in {Lines(text)} \cup {Lines(text) \ {l} : l \in Lines(text)}
                     \cup {Lines(text) \cup {l} : l \in Strays(text)} :
            Accept([text |-> text, signatures |-> sigs])
  \/ /\ Cardinality(shown) < MAX_SHOWN
     /\ \E text \in accepted : \E index \in 0..(text.size - 1), leaf \in Leaves :
          Show(text, [index |-> index, leaf |-> leaf])

Spec == Init /\ [][Next]_vars

-----------------------------------------------------------------------------
(* The variables keep their shape.                                         *)
TypeOK ==
  /\ log \in [Origins -> Trees \cup {<<>>}]
  /\ cosigned \in [Honest -> SUBSET Texts]
  /\ accepted \in SUBSET Texts
  /\ shown \in SUBSET [index : 0..Max(Sizes), leaf : Leaves]

(* Clients that demand a threshold of witnesses all see one history,       *)
(* whatever the operator signs: texts verify_witnessed accepted at the     *)
(* same size have the same root, and every larger one follows from every   *)
(* smaller one.                                                            *)
NoSplitView ==
  \A t, u \in accepted :
    /\ t.size = u.size => t.root = u.root
    /\ t.size <= u.size => <<HeadOf(t), HeadOf(u)>> \in Follows

(* An entry once proved to one client by verify_inclusion keeps its place: *)
(* no client is ever shown another entry there, under any accepted text,   *)
(* even when the operator lied about the sizes of its trees.               *)
ShownNeverMoves ==
  \A s, r \in shown : s.index = r.index => s.leaf = r.leaf

(* The trees whose root some path leads to exactly from their prefixes.    *)
Ancestral ==
  {t \in Trees : \A s \in Trees :
     <<TreeHead(Len(s), root_of(s)), TreeHead(Len(t), root_of(t))>> \in Follows
       <=> IsPrefix(s, t)}

(* For every index and every two sizes the proof a log writes is read back *)
(* and verifies against its own roots.                                     *)
Answers(leaves) ==
  \A new \in 1..Len(leaves) :
    /\ \A index \in 0..(new - 1) :
         LET wire == encode_proof("inclusion", prove_inclusion(leaves, index, new)) IN
         /\ decode_proof("inclusion", wire) # Refused
         /\ verify_inclusion(decode_proof("inclusion", wire), leaves[index + 1],
                             root_at(leaves, new))
    /\ \A old \in 1..new :
         LET wire == encode_proof("consistency", prove_consistency(leaves, old, new)) IN
         /\ decode_proof("consistency", wire) # Refused
         /\ verify_consistency(decode_proof("consistency", wire), root_at(leaves, old),
                               root_at(leaves, new))

Answering == {t \in Trees : Answers(t)}

(* A proof verifies exactly when it should.  Whatever path the operator    *)
(* sends, the root of a log is shown to follow from the roots of its own   *)
(* prefixes and from no other (verify_consistency), so that a witness      *)
(* stops every rewritten history; what follows in two steps follows, and   *)
(* no entry can be proved in the place of another (verify_inclusion); and  *)
(* however the size of a log falls between powers of two, each proof of    *)
(* prove_inclusion and prove_consistency survives encoding and verifies.   *)
ProofsMeanTheTruth ==
  /\ HistoryComposes /\ PlacesAgree
  /\ \A o \in Origins : log[o] = <<>> \/ log[o] \in Ancestral \cap Answering

=============================================================================
