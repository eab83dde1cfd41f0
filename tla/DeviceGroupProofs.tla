-------------------------- MODULE DeviceGroupProofs -------------------------
(***************************************************************************)
(* Proofs about DeviceGroup and the log file below it (IdentityFiles), for *)
(* any devices, clients and commands at once, and any length of the log.   *)
(***************************************************************************)
EXTENDS DeviceGroup, SequenceTheorems, TLAPS

(***************************************************************************)
(* Part 1: the log file.  A file is never read in a state that no command  *)
(* wrote, so what is invariant is a fact about every log that a command    *)
(* has in hand or that may be found after power is lost.                   *)
(***************************************************************************)

(* Some device signs the next entry of a log that verifies.                *)
Whole(l) == l \in Seq(Entry) /\ (l # <<>> => verify(l) /\ membership_of(l) # {})

(* What a command that has a log in hand holds.                            *)
Writing == {w \in [step : {"write"}, read : Seq(Entry), entry : Entry] :
              Whole(w.read) /\ applies(w.read, w.entry)}
Syncing == {w \in [step : {"sync"}, wrote : Seq(Entry)] : Whole(w.wrote)}

Prefix(a, b) == Len(a) <= Len(b) /\ \A i \in 1..Len(a) : a[i] = b[i]

FilesWhole ==
  /\ Whole(file)
  /\ \A l \in durable : Whole(l)
  /\ command \in [Processes -> {Idle} \cup Writing \cup Syncing]
  /\ acked \in Seq(Entry)
  /\ clobbered \in BOOLEAN

(* What is reported, and what is about to be, is in the file and in        *)
(* everything power loss may bring back.                                   *)
ReportsKept ==
  ~clobbered =>
    /\ Prefix(acked, file)
    /\ \A l \in durable : Prefix(acked, l)
    /\ \A p \in Processes : command[p].step = "sync" => Prefix(command[p].wrote, file)

FilesInv == FilesWhole /\ ReportsKept

LEMMA AppendFacts ==
  ASSUME NEW S, NEW l \in Seq(S), NEW e \in S
  PROVE  /\ Append(l, e) \in Seq(S) /\ Append(l, e) # <<>>
         /\ Len(l) \in Nat /\ Len(Append(l, e)) = Len(l) + 1
         /\ DOMAIN Append(l, e) = 1..(Len(l) + 1) /\ DOMAIN l = 1..Len(l)
         /\ \A i \in 1..Len(l) : Append(l, e)[i] = l[i]
         /\ Append(l, e)[Len(l) + 1] = e
  BY AppendProperties, LenProperties

(* The replay before an entry is the replay of the log before it.          *)
LEMMA ReplayBefore ==
  ASSUME NEW S, NEW l \in Seq(S), NEW e \in S
  PROVE  /\ \A i \in 1..Len(l) : SubSeq(Append(l, e), 1, i - 1) = SubSeq(l, 1, i - 1)
         /\ SubSeq(Append(l, e), 1, Len(l)) = l
  <1> DEFINE q == Append(l, e)
  <1>0. q \in Seq(S) /\ Len(l) \in Nat /\ Len(q) = Len(l) + 1
        /\ \A i \in 1..Len(l) : q[i] = l[i]
    BY AppendFacts
  <1> HIDE DEF q
  <1>1. ASSUME NEW i \in 1..(Len(l) + 1) PROVE SubSeq(q, 1, i - 1) = SubSeq(l, 1, i - 1)
    <2>1. SubSeq(q, 1, i - 1) = [k \in 1..(i - 1) |-> q[k]]
      BY <1>0
    <2>2. SubSeq(l, 1, i - 1) = [k \in 1..(i - 1) |-> l[k]]
      BY <1>0
    <2>3. \A k \in 1..(i - 1) : q[k] = l[k]
      BY <1>0
    <2> QED  BY <2>1, <2>2, <2>3
  <1>2. SubSeq(l, 1, Len(l)) = l
    BY SubSeqFull
  <1>3. \A i \in 1..Len(l) : i \in 1..(Len(l) + 1)
    BY <1>0
  <1>4. SubSeq(q, 1, Len(l) + 1 - 1) = SubSeq(l, 1, Len(l) + 1 - 1) /\ Len(l) + 1 - 1 = Len(l)
    BY <1>0, <1>1
  <1> QED  BY <1>1, <1>2, <1>3, <1>4 DEF q

(* The latest entry decides about the device it names, and nobody else.    *)
LEMMA MembershipAppend ==
  ASSUME NEW l \in Seq(Entry), NEW e \in Entry
  PROVE  membership_of(Append(l, e)) =
           (membership_of(l) \ {e.device}) \cup
             (IF e.kind = "revoke" THEN {} ELSE {e.device})
  <1> DEFINE q == Append(l, e)
  <1>0. /\ Len(l) \in Nat /\ DOMAIN q = 1..(Len(l) + 1) /\ DOMAIN l = 1..Len(l)
        /\ \A i \in 1..Len(l) : q[i] = l[i]
        /\ q[Len(l) + 1] = e
    BY AppendFacts
  <1>1. e.device \in Devices
    BY DEF Entry
  <1> HIDE DEF q
  <1>2. ASSUME NEW d \in Devices, d = e.device
        PROVE  d \in membership_of(q) <=> e.kind # "revoke"
    <2>1. \A i \in 1..Len(l) : Len(l) + 1 > i
      BY <1>0
    <2>2. \A j \in DOMAIN q : ~(j > Len(l) + 1)
      BY <1>0
    <2>3. Len(l) + 1 \in DOMAIN q
      BY <1>0
    <2>4. \A i \in DOMAIN q : i = Len(l) + 1 \/ i \in 1..Len(l)
      BY <1>0
    <2> QED  BY <1>0, <1>2, <2>1, <2>2, <2>3, <2>4 DEF membership_of
  <1>3. ASSUME NEW d \in Devices, d # e.device
        PROVE  d \in membership_of(q) <=> d \in membership_of(l)
    <2>1. \A i \in DOMAIN q : i = Len(l) + 1 \/ i \in DOMAIN l
      BY <1>0
    <2>2. \A i \in DOMAIN l : i \in DOMAIN q /\ q[i] = l[i]
      BY <1>0
    <2> QED  BY <1>0, <1>3, <2>1, <2>2 DEF membership_of
  <1>4. membership_of(q) \subseteq Devices /\ membership_of(l) \subseteq Devices
    BY DEF membership_of
  <1> QED  BY <1>1, <1>2, <1>3, <1>4 DEF q

(* An entry that may follow a whole log leaves a whole log: apply refuses  *)
(* to take the last device out.                                            *)
LEMMA AppendWhole ==
  ASSUME NEW l, Whole(l), NEW e \in Entry, applies(l, e)
  PROVE  Whole(Append(l, e))
  <1> DEFINE q == Append(l, e)
  <1>0. l \in Seq(Entry)
    BY DEF Whole
  <1>1. /\ q \in Seq(Entry) /\ q # <<>> /\ Len(l) \in Nat
        /\ DOMAIN q = 1..(Len(l) + 1) /\ DOMAIN l = 1..Len(l)
        /\ \A i \in 1..Len(l) : q[i] = l[i]
        /\ q[Len(l) + 1] = e
    BY <1>0, AppendFacts
  <1>2. /\ \A i \in 1..Len(l) : SubSeq(q, 1, i - 1) = SubSeq(l, 1, i - 1)
        /\ SubSeq(q, 1, Len(l)) = l
    BY <1>0, ReplayBefore
  <1>3. membership_of(q) = (membership_of(l) \ {e.device}) \cup
                             (IF e.kind = "revoke" THEN {} ELSE {e.device})
    BY <1>0, MembershipAppend
  <1> HIDE DEF q
  <1>4. ASSUME NEW i \in DOMAIN q PROVE q[i] \in Entry /\ applies(SubSeq(q, 1, i - 1), q[i])
    <2>1. CASE i \in 1..Len(l)
      <3>1. l # <<>>
        BY <2>1, <1>1
      <3>2. \A k \in DOMAIN l : l[k] \in Entry /\ applies(SubSeq(l, 1, k - 1), l[k])
        BY <3>1 DEF Whole, verify
      <3> QED  BY <2>1, <3>2, <1>1, <1>2
    <2>2. CASE i = Len(l) + 1
      <3>1. i - 1 = Len(l)
        BY <2>2, <1>1
      <3> QED  BY <2>2, <3>1, <1>1, <1>2
    <2> QED  BY <2>1, <2>2, <1>1
  <1>5. verify(q)
    BY <1>1, <1>4 DEF verify
  <1>6. membership_of(q) # {}
    <2>1. CASE l = <<>>
      BY <2>1, <1>3 DEF applies
    <2>2. CASE l # <<>>
      <3>1. \/ e.kind = "enrol"
            \/ e.kind = "revoke" /\ e.device \in membership_of(l) /\ membership_of(l) # {e.device}
        BY <2>2 DEF applies
      <3> QED  BY <3>1, <1>3
    <2> QED  BY <2>1, <2>2
  <1> QED  BY <1>1, <1>5, <1>6 DEF Whole, q

LEMMA PrefixSelf == ASSUME NEW a \in Seq(Entry) PROVE Prefix(a, a)
  BY LenProperties DEF Prefix

LEMMA PrefixAppend ==
  ASSUME NEW a \in Seq(Entry), NEW l \in Seq(Entry), NEW e \in Entry, Prefix(a, l)
  PROVE  Prefix(a, Append(l, e))
  <1>1. Len(a) \in Nat /\ Len(l) \in Nat
    BY LenProperties
  <1>2. Len(Append(l, e)) = Len(l) + 1 /\ \A i \in 1..Len(l) : Append(l, e)[i] = l[i]
    BY AppendFacts
  <1>3. \A i \in 1..Len(a) : i \in 1..Len(l)
    BY <1>1 DEF Prefix
  <1> QED  BY <1>1, <1>2, <1>3 DEF Prefix

LEMMA EmptyWhole == Whole(<<>>) /\ Prefix(<<>>, <<>>)
  BY DEF Whole, Prefix

LEMMA FilesInitInv == FilesInit => FilesInv
  <1> SUFFICES ASSUME FilesInit PROVE FilesInv
    OBVIOUS
  <1>0. acked \in Seq(Entry)
    BY EmptyWhole DEF FilesInit, Whole
  <1>1. clobbered \in BOOLEAN
    BY DEF FilesInit
  <1>2. \A p \in Processes : command[p].step = "idle"
    BY DEF FilesInit, Idle
  <1>3. FilesWhole
    BY <1>0, <1>1, EmptyWhole DEF FilesInit, FilesWhole
  <1>4. ReportsKept
    BY <1>2, EmptyWhole DEF FilesInit, ReportsKept
  <1> QED  BY <1>3, <1>4 DEF FilesInv

(* What a command has in hand, by the step it is at.                       *)
LEMMA InHand ==
  ASSUME FilesWhole, NEW p \in Processes
  PROVE  /\ command[p].step = "write" =>
              /\ Whole(command[p].read) /\ command[p].entry \in Entry
              /\ applies(command[p].read, command[p].entry)
         /\ command[p].step = "sync" => Whole(command[p].wrote)
  BY DEF FilesWhole, Writing, Syncing, Idle

(* A command that starts with a whole log and an entry that may follow it. *)
LEMMA StartInv ==
  ASSUME FilesInv, NEW p \in Processes, NEW l, Whole(l), NEW e \in Entry, applies(l, e),
         Start(p, [step |-> "write", read |-> l, entry |-> e]),
         UNCHANGED <<file, durable, acked, clobbered>>
  PROVE  FilesInv'
  <1> DEFINE w == [step |-> "write", read |-> l, entry |-> e]
  <1>1. w \in Writing /\ w.step = "write"
    BY DEF Writing, Whole
  <1>2. command' = [command EXCEPT ![p] = w]
    BY DEF Start, Go
  <1> HIDE DEF w
  <1>3. FilesWhole'
    BY <1>1, <1>2 DEF FilesInv, FilesWhole
  <1>4. \A r \in Processes : command'[r] = command[r] \/ command'[r].step = "write"
    BY <1>1, <1>2 DEF FilesInv, FilesWhole
  <1>5. ReportsKept'
    BY <1>4 DEF FilesInv, ReportsKept
  <1> QED  BY <1>3, <1>5 DEF FilesInv

LEMMA CreateInv ==
  ASSUME FilesInv, NEW p \in Processes, IdentityCreate(p)
  PROVE  FilesInv'
  <1>1. PICK d \in Founders :
          Start(p, [step |-> "write", read |-> <<>>,
                    entry |-> [kind |-> "create", device |-> d, by |-> d]])
    BY DEF IdentityCreate
  <1> DEFINE e == [kind |-> "create", device |-> d, by |-> d]
  <1>2. e \in Entry
    BY FilesAssumption DEF Entry
  <1>3. applies(<<>>, e)
    BY DEF applies
  <1> QED  BY <1>1, <1>2, <1>3, EmptyWhole, StartInv DEF IdentityCreate

LEMMA LoadInv ==
  ASSUME FilesInv, NEW p \in Processes, LoadIdentityLog(p)
  PROVE  FilesInv'
  <1>1. PICK kind \in {"enrol", "revoke"}, d \in Devices, author \in Devices :
          LET e == [kind |-> kind, device |-> d, by |-> author] IN
            /\ applies(file, e)
            /\ Start(p, [step |-> "write", read |-> file, entry |-> e])
    BY DEF LoadIdentityLog
  <1> DEFINE e == [kind |-> kind, device |-> d, by |-> author]
  <1>2. e \in Entry
    BY DEF Entry
  <1>3. Whole(file)
    BY DEF FilesInv, FilesWhole
  <1> QED  BY <1>1, <1>2, <1>3, StartInv DEF LoadIdentityLog

LEMMA PersistInv ==
  ASSUME FilesInv, NEW p \in Processes, Persist(p)
  PROVE  FilesInv'
  <1> DEFINE l == command[p].read
             e == command[p].entry
             q == Append(l, e)
             w == [step |-> "sync", wrote |-> q]
  <1>0. FilesWhole /\ ReportsKept
    BY DEF FilesInv
  <1>1. Whole(l) /\ l \in Seq(Entry) /\ e \in Entry /\ applies(l, e)
    BY <1>0, InHand DEF Persist, Whole
  <1>2. /\ file' = q /\ durable' = durable \cup {q}
        /\ command' = [command EXCEPT ![p] = w]
        /\ clobbered' = (clobbered \/ file # l)
        /\ acked' = acked
    BY DEF Persist, Go
  <1>3. Whole(q) /\ q \in Seq(Entry)
    BY <1>1, AppendWhole DEF Whole
  <1>4. ASSUME NEW a \in Seq(Entry), Prefix(a, l) PROVE Prefix(a, q)
    BY <1>1, <1>4, PrefixAppend
  <1>5. Prefix(q, q)
    BY <1>3, PrefixSelf
  <1> HIDE DEF l, e, q
  <1>6. w \in Syncing /\ w.step = "sync" /\ w.wrote = q
    BY <1>3 DEF Syncing
  <1> HIDE DEF w
  <1>7. FilesWhole'
    BY <1>0, <1>2, <1>3, <1>6 DEF FilesWhole
  <1>8. ASSUME ~clobbered'
        PROVE  /\ Prefix(acked', file') /\ \A x \in durable' : Prefix(acked', x)
               /\ \A r \in Processes : command'[r].step = "sync" =>
                    Prefix(command'[r].wrote, file')
    <2>1. ~clobbered /\ l = file
      BY <1>8, <1>2
    <2>2. acked \in Seq(Entry) /\ Prefix(acked, l) /\ \A x \in durable : Prefix(acked, x)
      BY <1>0, <2>1 DEF FilesWhole, ReportsKept
    <2>3. ASSUME NEW r \in Processes, command'[r].step = "sync"
          PROVE  Prefix(command'[r].wrote, file')
      <3>1. CASE r = p
        <4>1. command'[r] = w
          BY <3>1, <1>0, <1>2 DEF FilesWhole
        <4> QED  BY <4>1, <1>2, <1>5, <1>6
      <3>2. CASE r # p
        <4>1. command'[r] = command[r]
          BY <3>2, <1>0, <1>2 DEF FilesWhole
        <4>2. Whole(command[r].wrote) /\ Prefix(command[r].wrote, l)
          BY <4>1, <2>3, <2>1, <1>0, InHand DEF ReportsKept
        <4> QED  BY <4>1, <4>2, <1>2, <1>4 DEF Whole
      <3> QED  BY <3>1, <3>2
    <2> QED  BY <2>2, <2>3, <1>2, <1>4
  <1> QED  BY <1>7, <1>8 DEF FilesInv, ReportsKept

LEMMA SyncInv ==
  ASSUME FilesInv, NEW p \in Processes, SyncDirectory(p)
  PROVE  FilesInv'
  <1> DEFINE w == command[p].wrote
  <1>0. FilesWhole /\ ReportsKept
    BY DEF FilesInv
  <1>1. Whole(w) /\ w \in Seq(Entry)
    BY <1>0, InHand DEF SyncDirectory, Whole
  <1>2. /\ file' = file /\ durable' = {file} /\ clobbered' = clobbered
        /\ acked' \in {w, acked}
        /\ command' = [command EXCEPT ![p] = Idle]
        /\ command[p].step = "sync"
    BY DEF SyncDirectory, Go
  <1>3. FilesWhole'
    BY <1>0, <1>1, <1>2 DEF FilesWhole
  <1>4. ASSUME ~clobbered' PROVE Prefix(acked', file')
    BY <1>0, <1>2, <1>4 DEF ReportsKept
  <1>5. \A r \in Processes : command'[r] = command[r] \/ command'[r].step = "idle"
    BY <1>0, <1>2 DEF FilesWhole, Idle
  <1> QED  BY <1>0, <1>2, <1>3, <1>4, <1>5 DEF FilesInv, ReportsKept

LEMMA EndInv ==
  ASSUME FilesInv, NEW p \in Processes, EndEarly(p)
  PROVE  FilesInv'
  <1>1. \A r \in Processes : command'[r] = command[r] \/ command'[r].step = "idle"
    BY DEF EndEarly, Go, FilesInv, FilesWhole, Idle
  <1>2. FilesWhole'
    BY DEF EndEarly, Go, FilesInv, FilesWhole
  <1> QED  BY <1>1, <1>2 DEF EndEarly, FilesInv, ReportsKept

LEMMA PowerInv ==
  ASSUME FilesInv, LosePower
  PROVE  FilesInv'
  <1>1. \A r \in Processes : command'[r].step = "idle"
    BY DEF LosePower, Idle
  <1>2. FilesWhole'
    BY DEF LosePower, FilesInv, FilesWhole
  <1> QED  BY <1>1, <1>2 DEF LosePower, FilesInv, ReportsKept

LEMMA UnchangedInv ==
  ASSUME FilesInv, UNCHANGED fileVars
  PROVE  FilesInv'
  BY DEF FilesInv, FilesWhole, ReportsKept, fileVars

LEMMA NextFilesInv == FilesInv /\ [Next]_vars => FilesInv'
  <1> SUFFICES ASSUME FilesInv, [Next]_vars PROVE FilesInv'
    OBVIOUS
  <1>1. ASSUME NEW p \in Processes, Command(p) PROVE FilesInv'
    BY <1>1, CreateInv, LoadInv, PersistInv, SyncInv, EndInv DEF Command
  <1>2. CASE LosePower
    BY <1>2, PowerInv
  <1>3. CASE UNCHANGED fileVars
    BY <1>3, UnchangedInv
  <1> QED  BY <1>1, <1>2, <1>3 DEF Next, Steal, vars

LEMMA FilesInvHolds == Spec => []FilesInv
  <1>1. Init => FilesInv
    BY FilesInitInv DEF Init
  <1> QED  BY <1>1, NextFilesInv, PTL DEF Spec

(* Whatever order the identity commands run in, whichever of them end      *)
(* early and whenever power is lost, the log file is missing or verifies,  *)
(* and some device of it can sign the next entry.                          *)
THEOREM FileTheorem == Spec => []FileVerifies
  <1>1. FilesInv => FileVerifies
    BY DEF FilesInv, FilesWhole, Whole, FileVerifies
  <1> QED  BY <1>1, FilesInvHolds, PTL

(* An entry a command reported stays in the file, through early ends and   *)
(* power loss, as long as every command replaced the log it had read.      *)
THEOREM AckedTheorem == Spec => []AckedIsKept
  <1>1. ASSUME FilesInv, ~clobbered
        PROVE  Len(acked) <= Len(file) /\ acked = SubSeq(file, 1, Len(acked))
    <2>1. acked \in Seq(Entry) /\ file \in Seq(Entry) /\ Prefix(acked, file)
      BY <1>1 DEF FilesInv, FilesWhole, ReportsKept, Whole
    <2>2. Len(acked) \in Nat /\ Len(file) \in Nat /\ Len(acked) <= Len(file)
      BY <2>1, LenProperties DEF Prefix
    <2>3. SubSeq(file, 1, Len(acked)) = [i \in 1..Len(acked) |-> file[i]]
      BY <2>1, <2>2
    <2>4. acked = [i \in 1..Len(acked) |-> acked[i]]
      BY <2>1
    <2> QED  BY <2>1, <2>2, <2>3, <2>4 DEF Prefix
  <1>2. FilesInv => AckedIsKept
    BY <1>1 DEF AckedIsKept
  <1> QED  BY <1>2, FilesInvHolds, PTL

(***************************************************************************)
(* Part 2: the groups.  A leaf was validated when it came in, so it parses *)
(* and is bound; the devices removed stay apart from the membership that   *)
(* the provider enforces because a client with a handle enforces what its  *)
(* application replayed, and its own leaf is never among the removed.      *)
(***************************************************************************)

(* A leaf is bound to its device, and held by it or by whoever stole its   *)
(* signing key.                                                            *)
Bound(si, thieves) ==
  parse(si) /\ verify_binding(si) /\ (si.mls = si.device \/ si.device \in thieves)

GroupTypes ==
  /\ handle \in [Clients -> {"none", "fixed", "shared"}]
  /\ enforced \in [Clients -> SUBSET Devices]
  /\ replayed \in [Clients -> SUBSET Devices]
  /\ DOMAIN roster = Clients /\ DOMAIN out = Clients /\ DOMAIN heard = Clients

(* The part of the invariant about one client.                             *)
ClientInv(h, e, r, leaves, removed, ears, thieves, c) ==
  /\ h = "none" => leaves = {} /\ removed = {} /\ ears = {}
  /\ h = "shared" => e = r
  /\ leaves # {} => own(c) \in leaves
  /\ c \notin removed
  /\ removed \cap r = {}
  /\ \A si \in leaves : Bound(si, thieves)
  /\ \A s1, s2 \in leaves : s1.device = s2.device => s1 = s2
  /\ \A m \in ears : (m.holder = m.device \/ m.device \in thieves) /\ m.device \in r
  /\ h = "shared" => identities(leaves) \cap removed = {}

GroupInv ==
  /\ GroupTypes
  /\ stolen \subseteq Devices
  /\ \A c \in Clients : ClientInv(handle[c], enforced[c], replayed[c], roster[c], out[c],
                                  heard[c], stolen, c)

(* What passes validate is bound: a signature seen in another credential   *)
(* covers that credential's MLS key, never the outsider's.                 *)
LEMMA PresentedBound ==
  ASSUME NEW membership, NEW si \in Presented, validate(membership, si)
  PROVE  Bound(si, stolen) /\ si.device \in membership
  <1>0. parse(si) /\ verify_binding(si) /\ si.device \in membership
    BY DEF validate
  <1>1. CASE \E c \in Built : si = own(c)
    BY <1>0, <1>1 DEF Bound, own
  <1>2. CASE si \in [type : {"hide", "other"}, device : Devices, key : Devices,
                     signature : Lifted, mls : {Outsider}]
    <2>1. /\ si.mls = Outsider /\ si.signature \in Lifted /\ si.device = si.key
          /\ si.signature = [by |-> si.key, device |-> si.device, mls |-> Outsider]
      BY <1>0, <1>2 DEF parse, verify_binding, binding_message
    <2>2. CASE \E c \in Built : si.signature = own(c).signature
      <3>1. PICK c \in Built : si.signature = [by |-> c, device |-> c, mls |-> c]
        BY <2>2 DEF own, binding_message
      <3>2. Outsider = c
        BY <2>1, <3>1
      <3> QED  BY <3>2, GroupAssumption DEF Built
    <2>3. CASE \E k \in stolen, d \in Devices : si.signature = binding_message(k, d, Outsider)
      BY <1>0, <2>1, <2>3 DEF Bound, binding_message
    <2> QED  BY <2>1, <2>2, <2>3 DEF Lifted
  <1> QED  BY <1>1, <1>2 DEF Presented

(* A step of one client leaves the others as they are.                     *)
LEMMA OneClient ==
  ASSUME GroupInv, NEW c \in Clients, GroupTypes', UNCHANGED stolen,
         \A d \in Clients \ {c} :
           /\ handle'[d] = handle[d] /\ enforced'[d] = enforced[d]
           /\ replayed'[d] = replayed[d] /\ roster'[d] = roster[d]
           /\ out'[d] = out[d] /\ heard'[d] = heard[d],
         ClientInv(handle'[c], enforced'[c], replayed'[c], roster'[c], out'[c], heard'[c],
                   stolen, c)
  PROVE  GroupInv'
  BY DEF GroupInv

LEMMA MembersAreDevices == ASSUME NEW l PROVE membership_of(l) \subseteq Devices
  BY DEF membership_of

LEMMA GroupInitInv == GroupInit /\ stolen = {} => GroupInv
  BY DEF GroupInit, GroupInv, GroupTypes, ClientInv, identities

(* A client is built before it has a group, and sees nothing before that.  *)
LEMMA BuildInv ==
  ASSUME GroupInv, NEW c \in Clients, ClientWithProvider(c), UNCHANGED stolen
  PROVE  GroupInv'
  <1> DEFINE m == membership_of(file)
  <1>0. /\ GroupTypes
        /\ ClientInv(handle[c], enforced[c], replayed[c], roster[c], out[c], heard[c], stolen, c)
    BY DEF GroupInv
  <1>1. m \subseteq Devices
    BY MembersAreDevices
  <1>2. PICK kind \in {"fixed", "shared"} : handle' = [handle EXCEPT ![c] = kind]
    BY DEF ClientWithProvider
  <1>3. /\ handle[c] = "none" /\ enforced' = [enforced EXCEPT ![c] = m]
        /\ replayed' = [replayed EXCEPT ![c] = m]
        /\ roster' = roster /\ out' = out /\ heard' = heard
    BY DEF ClientWithProvider
  <1> HIDE DEF m
  <1>4. GroupTypes'
    BY <1>0, <1>1, <1>2, <1>3 DEF GroupTypes
  <1>5. roster[c] = {} /\ out[c] = {} /\ heard[c] = {}
    BY <1>0, <1>3 DEF ClientInv
  <1>6. ClientInv(kind, m, m, {}, {}, {}, stolen, c)
    BY DEF ClientInv, identities
  <1>7. handle'[c] = kind /\ enforced'[c] = m /\ replayed'[c] = m
    BY <1>0, <1>2, <1>3 DEF GroupTypes
  <1> QED  BY <1>0, <1>2, <1>3, <1>4, <1>5, <1>6, <1>7, OneClient DEF GroupTypes

LEMMA RefreshInv ==
  ASSUME GroupInv, NEW c \in Clients, Refresh(c), UNCHANGED stolen
  PROVE  GroupInv'
  <1> DEFINE m == membership_of(file)
             e == update(c, m)
  <1>0. /\ GroupTypes
        /\ ClientInv(handle[c], enforced[c], replayed[c], roster[c], out[c], heard[c], stolen, c)
    BY DEF GroupInv
  <1>1. m \subseteq Devices
    BY MembersAreDevices
  <1>2. /\ handle[c] # "none" /\ handle' = handle /\ roster' = roster
        /\ replayed' = [replayed EXCEPT ![c] = m]
        /\ enforced' = [enforced EXCEPT ![c] = e]
        /\ out' = [out EXCEPT ![c] = out[c] \ m]
        /\ heard' = [heard EXCEPT ![c] = {}]
    BY DEF Refresh
  <1>3. e \subseteq Devices /\ (handle[c] = "shared" => e = m)
    BY <1>0, <1>1 DEF update, GroupTypes
  <1> HIDE DEF m, e
  <1>4. GroupTypes'
    BY <1>0, <1>1, <1>2, <1>3 DEF GroupTypes
  <1>5. ClientInv(handle[c], e, m, roster[c], out[c] \ m, {}, stolen, c)
    BY <1>0, <1>2, <1>3 DEF ClientInv
  <1>6. /\ enforced'[c] = e /\ replayed'[c] = m /\ out'[c] = out[c] \ m /\ heard'[c] = {}
    BY <1>0, <1>2 DEF GroupTypes
  <1> QED  BY <1>0, <1>2, <1>4, <1>5, <1>6, OneClient DEF GroupTypes

(* A step that changes the roster of one client, and what it removed.      *)
LEMMA RosterStep ==
  ASSUME GroupInv, NEW c \in Clients, NEW leaves, NEW removed,
         UNCHANGED <<handle, enforced, replayed, heard, stolen>>,
         roster' = [roster EXCEPT ![c] = leaves],
         out' = [out EXCEPT ![c] = removed] \/ (UNCHANGED out /\ removed = out[c]),
         ClientInv(handle[c], enforced[c], replayed[c], leaves, removed, heard[c], stolen, c)
  PROVE  GroupInv'
  <1>0. GroupTypes
    BY DEF GroupInv
  <1>1. GroupTypes'
    BY <1>0 DEF GroupTypes
  <1>2. roster'[c] = leaves /\ out'[c] = removed
    BY <1>0 DEF GroupTypes
  <1> QED  BY <1>0, <1>1, <1>2, OneClient DEF GroupTypes

(* With a handle, what the provider lets in was not removed.               *)
LEMMA EnforcedIsIn ==
  ASSUME GroupInv, NEW c \in Clients, NEW d \in enforced[c], handle[c] = "shared"
  PROVE  d \notin out[c]
  BY DEF GroupInv, ClientInv

(* Leaves may be added when each is validated and none names a device      *)
(* twice.                                                                  *)
LEMMA AddLeaves ==
  ASSUME GroupInv, NEW c \in Clients, handle[c] # "none", NEW more,
         \A si \in more : Bound(si, stolen),
         \A si \in more : handle[c] = "shared" => si.device \notin out[c],
         \A s1, s2 \in more : s1.device = s2.device => s1 = s2,
         \A s1 \in roster[c], s2 \in more : s1.device # s2.device,
         own(c) \in roster[c] \cup more
  PROVE  ClientInv(handle[c], enforced[c], replayed[c], roster[c] \cup more, out[c], heard[c],
                   stolen, c)
  BY DEF GroupInv, ClientInv, identities

LEMMA OwnBound == ASSUME NEW c PROVE Bound(own(c), stolen) /\ own(c).device = c
  BY DEF Bound, own, parse, verify_binding, binding_message

LEMMA JoinInv ==
  ASSUME GroupInv, NEW c \in Clients, Join(c), UNCHANGED stolen
  PROVE  GroupInv'
  <1>0. handle[c] # "none" /\ roster[c] = {} /\ GroupTypes
        /\ UNCHANGED <<handle, enforced, replayed, out, heard>>
    BY DEF Join, GroupInv
  <1>1. PICK others \in SUBSET {si \in Presented : validate(enforced[c], si)} :
          /\ c \notin identities(others)
          /\ \A s1, s2 \in others : s1.device = s2.device => s1 = s2
          /\ roster' = [roster EXCEPT ![c] = {own(c)} \cup others]
    BY DEF Join
  <1>2. \A si \in others : Bound(si, stolen) /\ si.device \in enforced[c] /\ si.device # c
    BY <1>1, PresentedBound DEF identities
  <1> DEFINE more == {own(c)} \cup others
  <1>3. \A si \in more : Bound(si, stolen)
    BY <1>2, OwnBound
  <1>4. c \notin out[c]
    BY DEF GroupInv, ClientInv
  <1>5. \A si \in more : handle[c] = "shared" => si.device \notin out[c]
    BY <1>2, <1>4, OwnBound, EnforcedIsIn
  <1>6. \A s1, s2 \in more : s1.device = s2.device => s1 = s2
    BY <1>1, <1>2, OwnBound
  <1>7. ClientInv(handle[c], enforced[c], replayed[c], roster[c] \cup more, out[c], heard[c],
                  stolen, c)
    BY <1>0, <1>3, <1>5, <1>6, AddLeaves
  <1>8. roster[c] \cup more = more
    BY <1>0
  <1> QED  BY <1>0, <1>1, <1>7, <1>8, RosterStep

LEMMA ValidateInv ==
  ASSUME GroupInv, NEW c \in Clients, ValidateMember(c), UNCHANGED stolen
  PROVE  GroupInv'
  <1>0. roster[c] # {} /\ GroupTypes /\ UNCHANGED <<handle, enforced, replayed, out, heard>>
    BY DEF ValidateMember, GroupInv
  <1>1. PICK si \in Presented :
          /\ validate(enforced[c], si)
          /\ si.device \notin identities(roster[c])
          /\ roster' = [roster EXCEPT ![c] = roster[c] \cup {si}]
    BY DEF ValidateMember
  <1>2. Bound(si, stolen) /\ si.device \in enforced[c]
    BY <1>1, PresentedBound
  <1>3. \A s1 \in roster[c] : s1.device # si.device
    BY <1>1 DEF identities
  <1>4. handle[c] # "none" /\ own(c) \in roster[c]
    BY <1>0 DEF GroupInv, ClientInv
  <1>5. handle[c] = "shared" => si.device \notin out[c]
    BY <1>2, EnforcedIsIn
  <1>6. ClientInv(handle[c], enforced[c], replayed[c], roster[c] \cup {si}, out[c], heard[c],
                  stolen, c)
    BY <1>2, <1>3, <1>4, <1>5, AddLeaves
  <1> QED  BY <1>0, <1>1, <1>6, RosterStep

LEMMA SuccessorInv ==
  ASSUME GroupInv, NEW c \in Clients, ValidSuccessor(c), UNCHANGED stolen
  PROVE  GroupInv'
  <1>0. /\ GroupTypes /\ UNCHANGED <<handle, enforced, replayed, out, heard>>
        /\ ClientInv(handle[c], enforced[c], replayed[c], roster[c], out[c], heard[c], stolen, c)
    BY DEF ValidSuccessor, GroupInv
  <1>1. PICK old \in roster[c] \ {own(c)}, new \in Presented :
          /\ valid_successor(enforced[c], old, new)
          /\ roster' = [roster EXCEPT ![c] = (roster[c] \ {old}) \cup {new}]
    BY DEF ValidSuccessor
  <1>2. Bound(new, stolen) /\ new.device = old.device
    BY <1>1, PresentedBound DEF valid_successor
  <1>3. \A s1 \in roster[c] \ {old} : s1.device # new.device
    BY <1>0, <1>1, <1>2 DEF ClientInv
  <1>4. handle[c] = "shared" => new.device \notin out[c]
    BY <1>0, <1>1, <1>2 DEF ClientInv, identities
  <1>5. own(c) \in roster[c] \ {old} /\ handle[c] # "none"
    BY <1>0, <1>1 DEF ClientInv
  <1> DEFINE leaves == (roster[c] \ {old}) \cup {new}
  <1>6. ClientInv(handle[c], enforced[c], replayed[c], leaves, out[c], heard[c], stolen, c)
    BY <1>0, <1>2, <1>3, <1>4, <1>5 DEF ClientInv, identities
  <1> QED  BY <1>0, <1>1, <1>6, RosterStep

LEMMA EvictInv ==
  ASSUME GroupInv, NEW c \in Clients, Evict(c), UNCHANGED stolen
  PROVE  GroupInv'
  <1> DEFINE stale == untrusted_members(roster[c], replayed[c]) \ {own(c)}
  <1>0. /\ UNCHANGED <<handle, enforced, replayed, heard>>
        /\ ClientInv(handle[c], enforced[c], replayed[c], roster[c], out[c], heard[c], stolen, c)
        /\ stale # {}
        /\ roster' = [roster EXCEPT ![c] = roster[c] \ stale]
        /\ out' = [out EXCEPT ![c] = out[c] \cup identities(stale)]
    BY DEF Evict, GroupInv
  <1>1. stale \subseteq roster[c] /\ own(c) \notin stale
        /\ \A si \in stale : si.device \notin replayed[c]
    BY DEF untrusted_members
  <1> HIDE DEF stale
  <1>2. own(c) \in roster[c] /\ handle[c] # "none"
    BY <1>0, <1>1 DEF ClientInv
  <1>3. \A si \in stale : si.device # c
    BY <1>0, <1>1, <1>2, OwnBound DEF ClientInv
  <1>4. \A s1 \in roster[c] \ stale, s2 \in stale : s1.device # s2.device
    BY <1>0, <1>1 DEF ClientInv
  <1> DEFINE leaves == roster[c] \ stale
             removed == out[c] \cup identities(stale)
  <1>5. ClientInv(handle[c], enforced[c], replayed[c], leaves, removed, heard[c], stolen, c)
    BY <1>0, <1>1, <1>2, <1>3, <1>4 DEF ClientInv, identities
  <1>6. /\ roster' = [roster EXCEPT ![c] = leaves] /\ out' = [out EXCEPT ![c] = removed]
        /\ UNCHANGED <<handle, enforced, replayed, heard, stolen>>
    BY <1>0
  <1> HIDE DEF leaves, removed
  <1> QED  BY <1>5, <1>6, RosterStep

LEMMA ReceiveInv ==
  ASSUME GroupInv, NEW c \in Clients, Receive(c), UNCHANGED stolen
  PROVE  GroupInv'
  <1>0. /\ GroupTypes /\ UNCHANGED <<handle, enforced, replayed, roster, out>>
        /\ ClientInv(handle[c], enforced[c], replayed[c], roster[c], out[c], heard[c], stolen, c)
    BY DEF Receive, GroupInv
  <1>1. PICK sender \in roster[c] \ {own(c)} :
          /\ accept_from_trusted(c, sender)
          /\ heard' = [heard EXCEPT ![c] =
                         heard[c] \cup {[device |-> sender.device, holder |-> sender.mls]}]
    BY DEF Receive
  <1> DEFINE m == [device |-> sender.device, holder |-> sender.mls]
  <1>2. (m.holder = m.device \/ m.device \in stolen) /\ m.device \in replayed[c]
    BY <1>0, <1>1 DEF ClientInv, Bound, accept_from_trusted
  <1>3. handle[c] # "none"
    BY <1>0, <1>1 DEF ClientInv
  <1> HIDE DEF m
  <1>4. ClientInv(handle[c], enforced[c], replayed[c], roster[c], out[c], heard[c] \cup {m},
                  stolen, c)
    BY <1>0, <1>2, <1>3 DEF ClientInv
  <1>5. heard' = [heard EXCEPT ![c] = heard[c] \cup {m}]
    BY <1>1 DEF m
  <1>6. GroupTypes'
    BY <1>0, <1>5 DEF GroupTypes
  <1>7. heard'[c] = heard[c] \cup {m}
    BY <1>0, <1>5 DEF GroupTypes
  <1> QED  BY <1>0, <1>4, <1>5, <1>6, <1>7, OneClient DEF GroupTypes

LEMMA StealInv ==
  ASSUME GroupInv, Steal
  PROVE  GroupInv'
  <1>1. stolen \subseteq stolen' /\ stolen' \subseteq Devices
    BY GroupAssumption DEF Steal, GroupInv
  <1>2. UNCHANGED <<handle, enforced, replayed, roster, out, heard>>
    BY DEF Steal, groupVars
  <1>3. ASSUME NEW c \in Clients
        PROVE  ClientInv(handle[c], enforced[c], replayed[c], roster[c], out[c], heard[c],
                         stolen', c)
    BY <1>1 DEF GroupInv, ClientInv, Bound
  <1> QED  BY <1>1, <1>2, <1>3 DEF GroupInv, GroupTypes

LEMMA NextGroupInv == GroupInv /\ [Next]_vars => GroupInv'
  <1> SUFFICES ASSUME GroupInv, [Next]_vars PROVE GroupInv'
    OBVIOUS
  <1>1. ASSUME NEW c \in Clients, Client(c), UNCHANGED stolen PROVE GroupInv'
    BY <1>1, BuildInv, RefreshInv, JoinInv, ValidateInv, SuccessorInv, EvictInv, ReceiveInv
       DEF Client
  <1>2. CASE UNCHANGED <<groupVars, stolen>>
    BY <1>2 DEF GroupInv, GroupTypes, groupVars
  <1>3. CASE Steal
    BY <1>3, StealInv
  <1> QED  BY <1>1, <1>2, <1>3 DEF Next, vars

LEMMA GroupInvHolds == Spec => []GroupInv
  <1>1. Init => GroupInv
    BY GroupInitInv DEF Init
  <1> QED  BY <1>1, NextGroupInv, PTL DEF Spec

(* A leaf of a roster, and a message that was accepted, belongs to the     *)
(* device it names, or that device's signing key is stolen; and no two     *)
(* leaves name one device.                                                 *)
THEOREM RosterTheorem == Spec => []RosterIsVouched
  <1>1. GroupInv => RosterIsVouched
    BY DEF GroupInv, ClientInv, Bound, RosterIsVouched
  <1> QED  BY <1>1, GroupInvHolds, PTL

(* A device that was found revoked and removed stays out of the group of a *)
(* client with a handle until a log that trusts it is replayed, and nobody *)
(* accepts a message from a device that the log replayed last rejects.     *)
THEOREM RevokedTheorem == Spec => []RevokedStaysOut
  <1>1. GroupInv => RevokedStaysOut
    BY DEF GroupInv, ClientInv, RevokedStaysOut
  <1> QED  BY <1>1, GroupInvHolds, PTL
=============================================================================
