----------------------------- MODULE IdentityLog ----------------------------
(***************************************************************************)
(* An identity is a hash-linked log of signed entries that enrol, revoke   *)
(* and recover devices (crates/hide-identity/src/lib.rs).  Several people  *)
(* hold copies of a log, append to their own copy with the keys they have, *)
(* and replay copies received from anywhere; some keys are in the wrong    *)
(* hands and sign whatever their owner likes.                              *)
(*                                                                         *)
(* Every entry that anyone ever signed is an element of the sequence       *)
(* `signed`, and its link is its place in that sequence: SHA-256 is taken  *)
(* as free of collisions, so a link names one entry and, through `prev`,   *)
(* the one before it.  Zero is the link before the first entry.  An entry  *)
(* whose link is not the hash of its own fields is rejected whatever the   *)
(* rest says, so none is modelled.  A key and its device_id are one value. *)
(***************************************************************************)
EXTENDS Naturals, Sequences, FiniteSets

CONSTANTS
  Keys,                \* signing keys: devices and recovery keys
  Holders,             \* people with a copy of a log and an honest program
  KeysOf,              \* the signing keys each holder has
  Rogues,              \* keys used outside the program, by anyone
  MaxEntries,          \* MAX_ENTRIES: the longest log the program handles
  RecoveryKeys,        \* keys someone may present as the recovery key
  MaxSigned,           \* bound on the entries signed in a behaviour
  MaxRogue             \* bound on the entries signed by rogue keys

ASSUME IdentityBounds ==
  MaxEntries \in Nat \ {0} /\ MaxSigned \in Nat /\ MaxRogue \in Nat

ASSUME IdentityKeys == /\ KeysOf \in [Holders -> SUBSET Keys]
                       /\ Rogues \subseteq Keys
                       /\ RecoveryKeys \subseteq Keys
                       /\ RecoveryKeys # {}

VARIABLES
  signed,              \* every entry signed so far; its link is its index
  log,                 \* IdentityLog.entries of each holder, as links
  recovery,            \* IdentityLog.recovery of each holder
  view,                \* what membership() replays each holder's log to
  seen,                \* replay(): the entries accepted so far, as links
  under,               \* replay(): the recovery key it was given
  membership           \* replay(): the membership accumulated so far

logs == <<log, recovery, view>>
replaying == <<seen, under, membership>>
vars == <<signed, logs, replaying>>

Kinds == {"create", "enrol", "revoke", "recover"}

(* Entry: `by` is the key that really made the signature, `signer` the one *)
(* the entry names.                                                        *)
Entry == [prev : Nat, sequence : Nat, kind : Kinds, device : Keys,
          signer : Keys, by : Keys]

(* Membership: the position a device was enrolled or revoked at, plus one; *)
(* zero where the map has no such key.                                     *)
Membership == [enrolled : [Keys -> Nat], revoked : [Keys -> Nat]]

NoMembership == [enrolled |-> [d \in Keys |-> 0], revoked |-> [d \in Keys |-> 0]]

devices(m) == {d \in Keys : m.enrolled[d] # 0}

LastLink(l) == IF l = <<>> THEN 0 ELSE l[Len(l)]

-----------------------------------------------------------------------------
(* apply(): whether an entry is acceptable, and what it does.              *)

(* Mutant of authorised: a device that was ever enrolled may sign.         *)
authorised_once(m, e, r) ==
  CASE e.kind = "create" -> e.sequence = 0 /\ e.device = e.signer
    [] e.kind = "recover" -> e.signer = r
    [] OTHER -> m.enrolled[e.signer] + m.revoked[e.signer] # 0

(* Which key may have signed the entry, given the members so far.          *)
authorised(m, e, r) ==
  CASE e.kind = "create" -> e.sequence = 0 /\ e.device = e.signer
    [] e.kind = "recover" -> e.signer = r
    [] OTHER -> e.signer \in devices(m)

(* What the members so far allow: nobody is enrolled twice, only a member  *)
(* is revoked, and never the only one.                                     *)
permitted(m, e) ==
  CASE e.kind = "enrol" -> e.device \notin devices(m)
    [] e.kind = "revoke" -> e.device \in devices(m) /\ devices(m) # {e.device}
    [] OTHER -> TRUE

(* Mutant of verifies: the link is not compared.                           *)
verifies_unlinked(l, e) == e.by = e.signer

(* The link of the entry is the hash of its fields over the link before    *)
(* it, and the signature is by the key the entry names.                    *)
verifies(l, e) == e.prev = LastLink(l) /\ e.by = e.signer

(* Mutant of effect: a device that comes back stays listed as revoked.     *)
effect_lists(m, e) ==
  LET at == e.sequence + 1 IN
  CASE e.kind = "revoke" ->
         [enrolled |-> [m.enrolled EXCEPT ![e.device] = 0],
          revoked |-> [m.revoked EXCEPT ![e.device] = at]]
    [] e.kind = "recover" ->
         [enrolled |-> [d \in Keys |-> IF d = e.device THEN at ELSE 0],
          revoked |-> [d \in Keys |-> IF d = e.device THEN 0
                                      ELSE IF m.enrolled[d] # 0 THEN at
                                      ELSE m.revoked[d]]]
    [] OTHER -> [enrolled |-> [m.enrolled EXCEPT ![e.device] = at],
                 revoked |-> m.revoked]

(* The membership after the entry.  A Create meets an empty membership; an *)
(* Enrol takes the device off the revoked list; a Recover revokes every    *)
(* member and starts again with one device.                                *)
effect(m, e) ==
  LET at == e.sequence + 1 IN
  CASE e.kind = "revoke" ->
         [enrolled |-> [m.enrolled EXCEPT ![e.device] = 0],
          revoked |-> [m.revoked EXCEPT ![e.device] = at]]
    [] e.kind = "recover" ->
         [enrolled |-> [d \in Keys |-> IF d = e.device THEN at ELSE 0],
          revoked |-> [d \in Keys |-> IF d = e.device THEN 0
                                      ELSE IF m.enrolled[d] # 0 THEN at
                                      ELSE m.revoked[d]]]
    [] OTHER -> [enrolled |-> [m.enrolled EXCEPT ![e.device] = at],
                 revoked |-> [m.revoked EXCEPT ![e.device] = 0]]

(* apply() returns Ok.                                                     *)
applies(l, m, r, e) == authorised(m, e, r) /\ verifies(l, e) /\ permitted(m, e)

-----------------------------------------------------------------------------
Init ==
  /\ signed = <<>>
  /\ log = [h \in Holders |-> <<>>]
  /\ recovery = [h \in Holders |-> CHOOSE r \in RecoveryKeys : TRUE]
  /\ view = [h \in Holders |-> NoMembership]
  /\ seen = <<>>
  /\ under = CHOOSE r \in RecoveryKeys : TRUE
  /\ membership = NoMembership

(* A holder signs an entry and keeps it at the end of its own log.         *)
Keep(h, e) ==
  /\ Len(signed) < MaxSigned
  /\ signed' = Append(signed, e)
  /\ log' = [log EXCEPT ![h] = Append(@, Len(signed) + 1)]
  /\ view' = [view EXCEPT ![h] = effect(view[h], e)]
  /\ UNCHANGED replaying

(* IdentityLog::create.                                                    *)
Create(h, k, r) ==
  /\ k \in KeysOf[h]
  /\ log[h] = <<>>
  /\ recovery' = [recovery EXCEPT ![h] = r]
  /\ Keep(h, [prev |-> 0, sequence |-> 0, kind |-> "create",
              device |-> k, signer |-> k, by |-> k])

(* Mutant of append: enrolling a device twice is left to the verifier.     *)
append_twice(h, k, kind, d) ==
  LET e == [prev |-> LastLink(log[h]), sequence |-> Len(log[h]),
            kind |-> kind, device |-> d, signer |-> k, by |-> k] IN
  /\ log[h] # <<>>
  /\ k \in KeysOf[h]
  /\ Len(log[h]) < MaxEntries
  /\ authorised(view[h], e, recovery[h]) /\ (kind = "enrol" \/ permitted(view[h], e))
  /\ Keep(h, e)
  /\ UNCHANGED recovery

(* IdentityLog::append: sign the candidate over the head, apply it to the  *)
(* membership as a stranger would, and keep it only if that succeeds.      *)
append(h, k, kind, d) ==
  LET e == [prev |-> LastLink(log[h]), sequence |-> Len(log[h]),
            kind |-> kind, device |-> d, signer |-> k, by |-> k] IN
  /\ log[h] # <<>>
  /\ k \in KeysOf[h]
  /\ Len(log[h]) < MaxEntries
  /\ applies(log[h], view[h], recovery[h], e)
  /\ Keep(h, e)
  /\ UNCHANGED recovery

Enrol(h, k, d) == append(h, k, "enrol", d)
Revoke(h, k, d) == append(h, k, "revoke", d)
Recover(h, k, d) == append(h, k, "recover", d)

(* A key outside the program signs any entry whatever over any link.       *)
RogueSigns(k) ==
  /\ Len(signed) < MaxSigned
  /\ Cardinality({i \in 1..Len(signed) : signed[i].by \in Rogues}) < MaxRogue
  /\ \E p \in 0..Len(signed), n \in 0..MaxEntries, c \in Kinds, d, s \in Keys :
       signed' = Append(signed, [prev |-> p, sequence |-> n, kind |-> c,
                                 device |-> d, signer |-> s, by |-> k])
  /\ UNCHANGED <<logs, replaying>>

(* replay() starts over a list of entries received from anywhere; which    *)
(* entries they are is settled one at a time.                              *)
ReplayStart(r) ==
  /\ seen' = <<>>
  /\ under' = r
  /\ membership' = NoMembership
  /\ UNCHANGED <<signed, logs>>

(* The checks replay() makes of one more entry.                            *)
ReplayAccepts(i) ==
  /\ Len(seen) < MaxEntries
  /\ seen = <<>> => signed[i].kind = "create"
  /\ signed[i].sequence = Len(seen)
  /\ applies(seen, membership, under, signed[i])

(* One turn of the loop in replay().                                       *)
ReplayEntry(i) ==
  /\ ReplayAccepts(i)
  /\ seen' = Append(seen, i)
  /\ membership' = effect(membership, signed[i])
  /\ UNCHANGED <<signed, logs, under>>

(* IdentityLog::from_entries: the holder replaces its copy by the list     *)
(* that replayed.  Nothing compares it with the copy it had.               *)
FromEntries(h) ==
  /\ seen # <<>>
  /\ log' = [log EXCEPT ![h] = seen]
  /\ recovery' = [recovery EXCEPT ![h] = under]
  /\ view' = [view EXCEPT ![h] = membership]
  /\ UNCHANGED <<signed, replaying>>

Next ==
  \/ \E h \in Holders, k \in Keys, r \in RecoveryKeys : Create(h, k, r)
  \/ \E h \in Holders, k, d \in Keys : Enrol(h, k, d)
  \/ \E h \in Holders, k, d \in Keys : Revoke(h, k, d)
  \/ \E h \in Holders, k, d \in Keys : Recover(h, k, d)
  \/ \E k \in Rogues : RogueSigns(k)
  \/ \E r \in RecoveryKeys : ReplayStart(r)
  \/ \E i \in 1..Len(signed) : ReplayEntry(i)
  \/ \E h \in Holders : FromEntries(h)

Spec == Init /\ [][Next]_vars

-----------------------------------------------------------------------------
(* Every variable has its type: logs are lists of links, and the            *)
(* membership maps hold positions.                                         *)
TypeOK ==
  /\ signed \in Seq(Entry)
  /\ log \in [Holders -> Seq(Nat \ {0})]
  /\ recovery \in [Holders -> Keys]
  /\ view \in [Holders -> Membership]
  /\ seen \in Seq(Nat \ {0})
  /\ under \in Keys
  /\ membership \in Membership

(* Among the entries S, the one at place i of the list l puts d among the  *)
(* devices; it removes d from them.                                        *)
Adds(S, l, i, d) ==
  S[l[i]].kind \in {"create", "enrol", "recover"} /\ S[l[i]].device = d

Severs(S, l, i, d) ==
  \/ S[l[i]].kind = "revoke" /\ S[l[i]].device = d
  \/ S[l[i]].kind = "recover" /\ S[l[i]].device # d

(* d was added to the list before position j and not removed in between.   *)
TrustedAt(S, l, j, d) ==
  \E i \in 1..(j - 1) : Adds(S, l, i, d) /\ \A k \in (i + 1)..(j - 1) : ~Severs(S, l, k, d)

AuthorityHolds(S, l, r) ==
  \A j \in 1..Len(l) :
    LET e == S[l[j]] IN
    CASE e.kind = "create" -> j = 1 /\ e.by = e.device
      [] e.kind = "recover" -> e.by = r
      [] OTHER -> TrustedAt(S, l, j, e.by)

(* "Authority is evaluated at the point in the log where the entry         *)
(* appears": in every log a holder keeps and every list replay() has       *)
(* accepted so far, each Enrol and Revoke was really signed by the key of  *)
(* a device added earlier and not revoked, and not swept away by a         *)
(* Recover, since.  A removed device never signs again until someone else  *)
(* adds it, whatever a rogue key signs and however entries are spliced.    *)
AuthorityIsCurrent ==
  /\ \A h \in Holders : AuthorityHolds(signed, log[h], recovery[h])
  /\ AuthorityHolds(signed, seen, under)

LastAdded(S, l, n, d) ==
  Adds(S, l, n, d) /\ \A k \in (n + 1)..Len(l) : ~Adds(S, l, k, d) /\ ~Severs(S, l, k, d)

LastSevered(S, l, n, d) ==
  /\ TrustedAt(S, l, n, d) /\ Severs(S, l, n, d)
  /\ \A k \in (n + 1)..Len(l) : ~Adds(S, l, k, d)

HistoryGives(S, l, m) ==
  \A d \in Keys :
    /\ m.enrolled[d] <= Len(l) /\ m.revoked[d] <= Len(l)
    /\ \A n \in 1..Len(l) : /\ m.enrolled[d] = n <=> LastAdded(S, l, n, d)
                            /\ m.revoked[d] = n <=> LastSevered(S, l, n, d)

(* membership() is what the history says: a device is listed as enrolled   *)
(* at the last entry that added it, if nothing removed it since, and as    *)
(* revoked at the entry that took it away, if nothing added it since; so   *)
(* never both, and revoked_at tells "removed" from "never existed".        *)
MembershipIsHistory ==
  /\ \A h \in Holders : HistoryGives(signed, log[h], view[h])
  /\ HistoryGives(signed, seen, membership)

(* No accepted log leaves an identity without a device: a Revoke never     *)
(* removes the last one (WouldOrphan), and a Recover puts one in.          *)
NeverOrphaned ==
  /\ \A h \in Holders : log[h] # <<>> => devices(view[h]) # {}
  /\ seen # <<>> => devices(membership) # {}

SameUpTo(l, q) ==
  \A i \in 1..Len(l), j \in 1..Len(q) :
    l[i] = q[j] => i = j /\ \A k \in 1..i : l[k] = q[k]

(* "The head link identifies this exact history in one 32-byte value": two *)
(* accepted lists that share one link are the same list up to it, so no    *)
(* list of genuine entries cut from different histories is ever accepted.  *)
HeadIsHistory ==
  /\ \A g, h \in Holders : SameUpTo(log[g], log[h])
  /\ \A h \in Holders : SameUpTo(seen, log[h])

(* "An invalid entry can never be created locally and only discovered by a *)
(* remote verifier": a stranger who replays any holder's log under its     *)
(* recovery key accepts the next entry of it, from the first to the last.  *)
LocalIsRemote ==
  \A h \in Holders :
    /\ under = recovery[h]
    /\ Len(seen) < Len(log[h])
    /\ \A i \in 1..Len(seen) : seen[i] = log[h][i]
    => ReplayAccepts(log[h][Len(seen) + 1])
=============================================================================
