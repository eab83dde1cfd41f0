-------------------------- MODULE IdentityLogProofs -------------------------
(***************************************************************************)
(* What holds of identity logs for every set of keys and holders, every    *)
(* rogue key and every length.  All lists, those the holders keep and the  *)
(* one being replayed, grow by the same step: an entry that apply()        *)
(* accepts is put at the end.  `Sound` says what every such list           *)
(* satisfies, ExtendSound that the step preserves it.  The second part is  *)
(* about the relying party of IdentityBindings, over the same invariant.   *)
(***************************************************************************)
EXTENDS IdentityBindings, WellFoundedInduction, TLAPS

(* The list l of links into S is chained, and m is what it replays to.     *)
Chained(S, l) ==
  \A i \in 1..Len(l) :
    /\ l[i] \in 1..Len(S)
    /\ S[l[i]].sequence = i - 1
    /\ S[l[i]].prev = IF i = 1 THEN 0 ELSE l[i - 1]
    /\ S[l[i]].by = S[l[i]].signer

MembersAreTrusted(S, l, m) ==
  \A d \in Keys : m.enrolled[d] # 0 <=> TrustedAt(S, l, Len(l) + 1, d)

(* What permitted() asked of each entry, told from the list alone.         *)
PermissionHolds(S, l) ==
  \A j \in 1..Len(l) :
    /\ j = 1 => S[l[j]].kind = "create"
    /\ S[l[j]].kind = "enrol" => ~TrustedAt(S, l, j, S[l[j]].device)
    /\ S[l[j]].kind = "revoke" =>
         /\ TrustedAt(S, l, j, S[l[j]].device)
         /\ \E d \in Keys : d # S[l[j]].device /\ TrustedAt(S, l, j, d)

OneList(m) == \A d \in Keys : m.enrolled[d] = 0 \/ m.revoked[d] = 0

Sound(S, l, m, r) ==
  /\ l \in Seq(Nat \ {0}) /\ m \in Membership /\ r \in Keys
  /\ Len(l) <= MaxEntries
  /\ Chained(S, l)
  /\ AuthorityHolds(S, l, r)
  /\ PermissionHolds(S, l)
  /\ MembersAreTrusted(S, l, m)
  /\ OneList(m)
  /\ HistoryGives(S, l, m)
  /\ l # <<>> => devices(m) # {}
  /\ l = <<>> => m = NoMembership

SeversBy(e, d) == \/ e.kind = "revoke" /\ e.device = d
                  \/ e.kind = "recover" /\ e.device # d

(* T holds the entries of S at the same links.                             *)
Grows(S, T) == Len(S) <= Len(T) /\ \A i \in 1..Len(S) : T[i] = S[i]

(* The entry x extends the list l.                                         *)
Extends(S, T, l, m, r, x) ==
  /\ S \in Seq(Entry) /\ T \in Seq(Entry) /\ Grows(S, T)
  /\ Sound(S, l, m, r)
  /\ x \in 1..Len(T)
  /\ T[x].sequence = Len(l)
  /\ Len(l) < MaxEntries
  /\ l = <<>> => T[x].kind = "create"
  /\ applies(l, m, r, T[x])

-----------------------------------------------------------------------------
LEMMA EntryFacts ==
  ASSUME NEW S \in Seq(Entry), NEW x \in 1..Len(S)
  PROVE  /\ S[x] \in Entry /\ S[x].prev \in Nat /\ S[x].sequence \in Nat
         /\ S[x].kind \in Kinds /\ S[x].device \in Keys
         /\ S[x].signer \in Keys /\ S[x].by \in Keys
  <1>1. S[x] \in Entry  OBVIOUS
  <1> QED  BY <1>1 DEF Entry

(* effect() yields a membership.                                           *)
LEMMA EffectType ==
  ASSUME NEW m \in Membership, NEW e \in Entry
  PROVE  effect(m, e) \in Membership
  <1>1. e.device \in Keys /\ e.sequence + 1 \in Nat /\ e.kind \in Kinds
    BY DEF Entry
  <1>2. m.enrolled \in [Keys -> Nat] /\ m.revoked \in [Keys -> Nat]
    BY DEF Membership
  <1> QED  BY <1>1, <1>2 DEF effect, Membership, Kinds

(* What effect() does to one device, at the position of the entry.         *)
LEMMA EffectAt ==
  ASSUME NEW m \in Membership, NEW e \in Entry, NEW d \in Keys
  PROVE  /\ e.kind # "revoke" /\ e.device = d =>
              /\ effect(m, e).enrolled[d] = e.sequence + 1
              /\ effect(m, e).revoked[d] = 0
         /\ e.kind = "revoke" /\ e.device = d =>
              /\ effect(m, e).enrolled[d] = 0
              /\ effect(m, e).revoked[d] = e.sequence + 1
         /\ e.kind = "recover" /\ e.device # d =>
              /\ effect(m, e).enrolled[d] = 0
              /\ effect(m, e).revoked[d] = IF m.enrolled[d] # 0 THEN e.sequence + 1
                                           ELSE m.revoked[d]
         /\ e.kind # "recover" /\ e.device # d =>
              /\ effect(m, e).enrolled[d] = m.enrolled[d]
              /\ effect(m, e).revoked[d] = m.revoked[d]
  <1>1. e.device \in Keys /\ e.sequence + 1 \in Nat /\ e.kind \in Kinds
    BY DEF Entry
  <1>2. m.enrolled \in [Keys -> Nat] /\ m.revoked \in [Keys -> Nat]
    BY DEF Membership
  <1> QED  BY <1>1, <1>2 DEF effect, Kinds

(* Putting x at the end leaves the earlier places as they were.            *)
LEMMA SamePlaces ==
  ASSUME NEW S \in Seq(Entry), NEW T \in Seq(Entry), Grows(S, T),
         NEW l \in Seq(Nat \ {0}), Chained(S, l), NEW x \in 1..Len(T)
  PROVE  LET q == Append(l, x) IN
         /\ q \in Seq(Nat \ {0}) /\ Len(q) = Len(l) + 1 /\ q[Len(l) + 1] = x
         /\ \A i \in 1..Len(l) : q[i] = l[i] /\ T[l[i]] = S[l[i]]
         /\ \A i \in 1..Len(l), d \in Keys :
              /\ Adds(T, q, i, d) <=> Adds(S, l, i, d)
              /\ Severs(T, q, i, d) <=> Severs(S, l, i, d)
         /\ \A j \in 1..(Len(l) + 1), d \in Keys :
              TrustedAt(T, q, j, d) <=> TrustedAt(S, l, j, d)
  <1> DEFINE q == Append(l, x)
  <1>1. q \in Seq(Nat \ {0}) /\ Len(q) = Len(l) + 1 /\ q[Len(l) + 1] = x
    OBVIOUS
  <1>2. \A i \in 1..Len(l) : q[i] = l[i] /\ T[l[i]] = S[l[i]]
    BY DEF Chained, Grows
  <1>3. \A i \in 1..Len(l), d \in Keys :
          /\ Adds(T, q, i, d) <=> Adds(S, l, i, d)
          /\ Severs(T, q, i, d) <=> Severs(S, l, i, d)
    BY <1>2 DEF Adds, Severs
  <1>4. \A j \in 1..(Len(l) + 1), d \in Keys :
          TrustedAt(T, q, j, d) <=> TrustedAt(S, l, j, d)
    <2> SUFFICES ASSUME NEW j \in 1..(Len(l) + 1), NEW d \in Keys
                 PROVE  TrustedAt(T, q, j, d) <=> TrustedAt(S, l, j, d)
      OBVIOUS
    <2> HIDE DEF q
    <2>1. \A i \in 1..(j - 1) : Adds(T, q, i, d) <=> Adds(S, l, i, d)
      BY <1>3
    <2>2. \A i \in 1..(j - 1) : \A k \in (i + 1)..(j - 1) :
            Severs(T, q, k, d) <=> Severs(S, l, k, d)
      BY <1>3
    <2> QED  BY <2>1, <2>2 DEF TrustedAt
  <1> QED  BY <1>1, <1>2, <1>3, <1>4

(* After the entry at the end of q, d is trusted if the entry adds it, or  *)
(* it was trusted before and the entry does not remove it.                 *)
LEMMA TrustedNext ==
  ASSUME NEW T, NEW q, NEW n \in Nat \ {0}, NEW d
  PROVE  TrustedAt(T, q, n + 1, d) <=>
           \/ Adds(T, q, n, d)
           \/ TrustedAt(T, q, n, d) /\ ~Severs(T, q, n, d)
  <1>1. ASSUME Adds(T, q, n, d) PROVE TrustedAt(T, q, n + 1, d)
    BY <1>1 DEF TrustedAt
  <1>2. ASSUME TrustedAt(T, q, n, d), ~Severs(T, q, n, d)
        PROVE  TrustedAt(T, q, n + 1, d)
    BY <1>2 DEF TrustedAt
  <1>3. ASSUME TrustedAt(T, q, n + 1, d), ~Adds(T, q, n, d)
        PROVE  TrustedAt(T, q, n, d) /\ ~Severs(T, q, n, d)
    BY <1>3 DEF TrustedAt
  <1> QED  BY <1>1, <1>2, <1>3

-----------------------------------------------------------------------------
(* The step all lists grow by.                                             *)
LEMMA ExtendSound ==
  ASSUME NEW S, NEW T, NEW l, NEW m, NEW r, NEW x, Extends(S, T, l, m, r, x)
  PROVE  Sound(T, Append(l, x), effect(m, T[x]), r)
  <1> DEFINE q == Append(l, x)
             n == Len(l) + 1
             e == T[x]
             w == effect(m, e)
  <1>1. /\ S \in Seq(Entry) /\ T \in Seq(Entry) /\ Grows(S, T)
        /\ l \in Seq(Nat \ {0}) /\ m \in Membership /\ r \in Keys
        /\ Chained(S, l) /\ AuthorityHolds(S, l, r) /\ MembersAreTrusted(S, l, m)
        /\ OneList(m) /\ HistoryGives(S, l, m) /\ PermissionHolds(S, l)
        /\ Len(l) < MaxEntries
        /\ x \in 1..Len(T) /\ e.sequence = Len(l) /\ n \in Nat \ {0}
    BY DEF Extends, Sound
  <1>2. /\ authorised(m, e, r) /\ e.prev = LastLink(l) /\ e.by = e.signer
        /\ permitted(m, e)
        /\ (l = <<>> => e.kind = "create")
    BY DEF Extends, Sound, applies, verifies
  <1>0. Len(l) \in Nat /\ n = Len(l) + 1 /\ n \in Nat \ {0}
    BY <1>1
  <1>3. /\ e \in Entry /\ e.kind \in Kinds /\ e.device \in Keys
        /\ e.signer \in Keys /\ e.by \in Keys
    BY <1>1, EntryFacts
  <1>4. /\ q \in Seq(Nat \ {0}) /\ Len(q) = n /\ q[n] = x
        /\ \A i \in 1..Len(l) : q[i] = l[i] /\ T[l[i]] = S[l[i]]
    BY <1>1, SamePlaces
  <1>5. \A i \in 1..Len(l), d \in Keys :
          /\ Adds(T, q, i, d) <=> Adds(S, l, i, d)
          /\ Severs(T, q, i, d) <=> Severs(S, l, i, d)
    BY <1>1, SamePlaces
  <1>6. \A j \in 1..n, d \in Keys : TrustedAt(T, q, j, d) <=> TrustedAt(S, l, j, d)
    BY <1>1, SamePlaces
  <1>7. \A d \in Keys : /\ Adds(T, q, n, d) <=> e.kind # "revoke" /\ e.device = d
                        /\ Severs(T, q, n, d) <=> SeversBy(e, d)
    <2>1. T[q[n]] = e /\ e.kind \in {"create", "enrol", "revoke", "recover"}
      BY <1>3, <1>4 DEF Kinds
    <2> HIDE DEF e, n, q
    <2> SUFFICES ASSUME NEW d \in Keys
                 PROVE  /\ Adds(T, q, n, d) <=> e.kind # "revoke" /\ e.device = d
                        /\ Severs(T, q, n, d) <=> SeversBy(e, d)
      OBVIOUS
    <2>2. CASE e.kind = "create"   BY <2>1, <2>2 DEF Adds, Severs, SeversBy
    <2>3. CASE e.kind = "enrol"    BY <2>1, <2>3 DEF Adds, Severs, SeversBy
    <2>4. CASE e.kind = "revoke"   BY <2>1, <2>4 DEF Adds, Severs, SeversBy
    <2>5. CASE e.kind = "recover"  BY <2>1, <2>5 DEF Adds, Severs, SeversBy
    <2> QED  BY <2>1, <2>2, <2>3, <2>4, <2>5
  <1>8. w \in Membership
    BY <1>1, <1>3, EffectType
  <1>9. \A d \in Keys : m.enrolled[d] \in Nat /\ m.revoked[d] \in Nat
    BY <1>1 DEF Membership
  <1>10. \A d \in Keys :
           /\ e.kind # "revoke" /\ e.device = d => w.enrolled[d] = n /\ w.revoked[d] = 0
           /\ e.kind = "revoke" /\ e.device = d => w.enrolled[d] = 0 /\ w.revoked[d] = n
           /\ e.kind = "recover" /\ e.device # d =>
                /\ w.enrolled[d] = 0
                /\ w.revoked[d] = IF m.enrolled[d] # 0 THEN n ELSE m.revoked[d]
           /\ e.kind # "recover" /\ e.device # d =>
                w.enrolled[d] = m.enrolled[d] /\ w.revoked[d] = m.revoked[d]
    BY <1>1, <1>3, EffectAt
  <1> HIDE DEF q, w, e, n
  <1>11. Chained(T, q)
    <2> SUFFICES ASSUME NEW i \in 1..Len(q)
                 PROVE  /\ q[i] \in 1..Len(T)
                        /\ T[q[i]].sequence = i - 1
                        /\ T[q[i]].prev = IF i = 1 THEN 0 ELSE q[i - 1]
                        /\ T[q[i]].by = T[q[i]].signer
      BY DEF Chained
    <2>1. CASE i = n
      <3>1. e.prev = IF i = 1 THEN 0 ELSE q[i - 1]
        <4>1. CASE l = <<>>
          BY <4>1, <2>1, <1>0, <1>2 DEF LastLink
        <4>2. CASE l # <<>>
          <5>1. Len(l) \in 1..Len(l) /\ Len(l) # 0
            BY <4>2, <1>1
          <5> QED  BY <5>1, <4>2, <2>1, <1>0, <1>2, <1>4 DEF LastLink
        <4> QED  BY <4>1, <4>2
      <3> QED  BY <2>1, <3>1, <1>0, <1>1, <1>2, <1>4 DEF e
    <2>2. CASE i \in 1..Len(l)
      <3>1. q[i] = l[i] /\ T[q[i]] = S[l[i]] /\ (i # 1 => q[i - 1] = l[i - 1])
        <4>1. i # 1 => i - 1 \in 1..Len(l)
          BY <2>2, <1>0
        <4> QED  BY <4>1, <2>2, <1>4
      <3>2. /\ l[i] \in 1..Len(S) /\ S[l[i]].sequence = i - 1
            /\ S[l[i]].prev = IF i = 1 THEN 0 ELSE l[i - 1]
            /\ S[l[i]].by = S[l[i]].signer
        BY <2>2, <1>1 DEF Chained
      <3>3. l[i] \in 1..Len(T)
        BY <3>2, <1>1 DEF Grows
      <3> QED  BY <3>1, <3>2, <3>3
    <2> QED  BY <2>1, <2>2, <1>4, <1>0
  <1>12. AuthorityHolds(T, q, r)
    <2> SUFFICES ASSUME NEW j \in 1..Len(q)
                 PROVE  CASE T[q[j]].kind = "create" -> j = 1 /\ T[q[j]].by = T[q[j]].device
                          [] T[q[j]].kind = "recover" -> T[q[j]].by = r
                          [] OTHER -> TrustedAt(T, q, j, T[q[j]].by)
      BY DEF AuthorityHolds
    <2>1. CASE j = n
      <3>1. T[q[j]] = e  BY <2>1, <1>4 DEF e
      <3>2. CASE e.kind = "create"
        BY <3>1, <3>2, <2>1, <1>0, <1>1, <1>2 DEF authorised
      <3>3. CASE e.kind = "recover"
        BY <3>1, <3>3, <1>2 DEF authorised
      <3>4. CASE e.kind \notin {"create", "recover"}
        <4>1. e.signer \in devices(m)
          BY <3>4, <1>2 DEF authorised
        <4>2. TrustedAt(S, l, n, e.by)
          BY <4>1, <1>0, <1>1, <1>2, <1>3 DEF devices, MembersAreTrusted
        <4>3. TrustedAt(T, q, j, e.by)
          BY <4>2, <2>1, <1>1, <1>6, <1>3
        <4> QED  BY <4>3, <3>1, <3>4
      <3> QED  BY <3>2, <3>3, <3>4
    <2>2. CASE j \in 1..Len(l)
      <3>1. T[q[j]] = S[l[j]] /\ S[l[j]].by \in Keys
        BY <2>2, <1>4, <1>1, EntryFacts DEF Chained
      <3>2. TrustedAt(T, q, j, S[l[j]].by) <=> TrustedAt(S, l, j, S[l[j]].by)
        BY <3>1, <2>2, <1>0, <1>6
      <3> QED  BY <2>2, <3>1, <3>2, <1>1 DEF AuthorityHolds
    <2> QED  BY <2>1, <2>2, <1>4, <1>0
  <1>13. MembersAreTrusted(T, q, w)
    <2> SUFFICES ASSUME NEW d \in Keys
                 PROVE  w.enrolled[d] # 0 <=> TrustedAt(T, q, n + 1, d)
      BY <1>4 DEF MembersAreTrusted
    <2>1. m.enrolled[d] # 0 <=> TrustedAt(T, q, n, d)
      BY <1>0, <1>1, <1>6 DEF MembersAreTrusted
    <2>2. TrustedAt(T, q, n + 1, d) <=>
            Adds(T, q, n, d) \/ (TrustedAt(T, q, n, d) /\ ~Severs(T, q, n, d))
      BY <1>1, TrustedNext
    <2>3. CASE e.kind # "revoke" /\ e.device = d  BY <2>1, <2>2, <2>3, <1>7, <1>10, <1>0 DEF SeversBy
    <2>4. CASE e.kind = "revoke" /\ e.device = d  BY <2>1, <2>2, <2>4, <1>7, <1>10, <1>0 DEF SeversBy
    <2>5. CASE e.kind = "recover" /\ e.device # d  BY <2>1, <2>2, <2>5, <1>7, <1>10, <1>0 DEF SeversBy
    <2>6. CASE e.kind # "recover" /\ e.device # d  BY <2>1, <2>2, <2>6, <1>7, <1>10, <1>0 DEF SeversBy
    <2> QED  BY <2>3, <2>4, <2>5, <2>6
  <1>14. OneList(w)
    BY <1>10, <1>1, <1>9 DEF OneList
  <1>15. HistoryGives(T, q, w)
    <2> SUFFICES ASSUME NEW d \in Keys
                 PROVE  /\ w.enrolled[d] <= n /\ w.revoked[d] <= n
                        /\ \A i \in 1..n : /\ w.enrolled[d] = i <=> LastAdded(T, q, i, d)
                                           /\ w.revoked[d] = i <=> LastSevered(T, q, i, d)
      BY <1>4 DEF HistoryGives
    <2>1. m.enrolled[d] <= Len(l) /\ m.revoked[d] <= Len(l)
      BY <1>1 DEF HistoryGives
    <2>2. w.enrolled[d] <= n /\ w.revoked[d] <= n
      BY <2>1, <1>10, <1>9, <1>0
    <2>3. w.enrolled[d] = n <=> LastAdded(T, q, n, d)
      <3>1. LastAdded(T, q, n, d) <=> Adds(T, q, n, d)
        BY <1>4, <1>0 DEF LastAdded
      <3> QED  BY <3>1, <2>1, <1>7, <1>10, <1>9, <1>0 DEF SeversBy
    <2>4. w.revoked[d] = n <=> LastSevered(T, q, n, d)
      <3>1. LastSevered(T, q, n, d) <=> TrustedAt(T, q, n, d) /\ Severs(T, q, n, d)
        BY <1>4, <1>0 DEF LastSevered
      <3>2. m.enrolled[d] # 0 <=> TrustedAt(T, q, n, d)
        BY <1>0, <1>1, <1>6 DEF MembersAreTrusted
      <3>3. e.kind = "revoke" /\ e.device = d => m.enrolled[d] # 0
        BY <1>2 DEF permitted, devices
      <3>5. CASE e.kind # "revoke" /\ e.device = d
        BY <3>5, <3>1, <3>2, <3>3, <2>1, <1>7, <1>10, <1>9, <1>0 DEF SeversBy
      <3>6. CASE e.kind = "revoke" /\ e.device = d
        BY <3>6, <3>1, <3>2, <3>3, <2>1, <1>7, <1>10, <1>9, <1>0 DEF SeversBy
      <3>7. CASE e.kind = "recover" /\ e.device # d
        BY <3>7, <3>1, <3>2, <3>3, <2>1, <1>7, <1>10, <1>9, <1>0 DEF SeversBy
      <3>8. CASE e.kind # "recover" /\ e.device # d
        BY <3>8, <3>1, <3>2, <3>3, <2>1, <1>7, <1>10, <1>9, <1>0 DEF SeversBy
      <3> QED  BY <3>5, <3>6, <3>7, <3>8
    <2>5. ASSUME NEW i \in 1..Len(l)
          PROVE  w.enrolled[d] = i <=> LastAdded(T, q, i, d)
      <3>1. LastAdded(T, q, i, d) <=>
              LastAdded(S, l, i, d) /\ ~Adds(T, q, n, d) /\ ~Severs(T, q, n, d)
        <4>1. \A k \in (i + 1)..n : k \in (i + 1)..Len(l) \/ k = n
          BY <1>0
        <4>2. n \in (i + 1)..n /\ \A k \in (i + 1)..Len(l) : k \in (i + 1)..n /\ k \in 1..Len(l)
          BY <1>0
        <4> QED  BY <4>1, <4>2, <1>4, <1>5 DEF LastAdded
      <3>2. m.enrolled[d] = i <=> LastAdded(S, l, i, d)
        BY <1>1 DEF HistoryGives
      <3>5. CASE e.kind # "revoke" /\ e.device = d
        BY <3>5, <3>1, <3>2, <2>1, <1>7, <1>10, <1>9, <1>0 DEF SeversBy
      <3>6. CASE e.kind = "revoke" /\ e.device = d
        BY <3>6, <3>1, <3>2, <2>1, <1>7, <1>10, <1>9, <1>0 DEF SeversBy
      <3>7. CASE e.kind = "recover" /\ e.device # d
        BY <3>7, <3>1, <3>2, <2>1, <1>7, <1>10, <1>9, <1>0 DEF SeversBy
      <3>8. CASE e.kind # "recover" /\ e.device # d
        BY <3>8, <3>1, <3>2, <2>1, <1>7, <1>10, <1>9, <1>0 DEF SeversBy
      <3> QED  BY <3>5, <3>6, <3>7, <3>8
    <2>6. ASSUME NEW i \in 1..Len(l)
          PROVE  w.revoked[d] = i <=> LastSevered(T, q, i, d)
      <3>1. LastSevered(T, q, i, d) <=> LastSevered(S, l, i, d) /\ ~Adds(T, q, n, d)
        <4>1. \A k \in (i + 1)..n : k \in (i + 1)..Len(l) \/ k = n
          BY <1>0
        <4>2. n \in (i + 1)..n /\ \A k \in (i + 1)..Len(l) : k \in (i + 1)..n /\ k \in 1..Len(l)
          BY <1>0
        <4>3. i \in 1..n
          BY <1>0
        <4> QED  BY <4>1, <4>2, <4>3, <1>4, <1>5, <1>6 DEF LastSevered
      <3>2. m.revoked[d] = i <=> LastSevered(S, l, i, d)
        BY <1>1 DEF HistoryGives
      <3>3. m.enrolled[d] = 0 \/ m.revoked[d] = 0
        BY <1>1 DEF OneList
      <3>4. e.kind = "revoke" /\ e.device = d => m.enrolled[d] # 0
        BY <1>2 DEF permitted, devices
      <3>5. CASE e.kind # "revoke" /\ e.device = d
        BY <3>5, <3>1, <3>2, <3>3, <3>4, <2>1, <1>7, <1>10, <1>9, <1>0 DEF SeversBy
      <3>6. CASE e.kind = "revoke" /\ e.device = d
        BY <3>6, <3>1, <3>2, <3>3, <3>4, <2>1, <1>7, <1>10, <1>9, <1>0 DEF SeversBy
      <3>7. CASE e.kind = "recover" /\ e.device # d
        BY <3>7, <3>1, <3>2, <3>3, <3>4, <2>1, <1>7, <1>10, <1>9, <1>0 DEF SeversBy
      <3>8. CASE e.kind # "recover" /\ e.device # d
        BY <3>8, <3>1, <3>2, <3>3, <3>4, <2>1, <1>7, <1>10, <1>9, <1>0 DEF SeversBy
      <3> QED  BY <3>5, <3>6, <3>7, <3>8
    <2> QED  BY <2>2, <2>3, <2>4, <2>5, <2>6, <1>0
  <1>16. devices(w) # {}
    <2>1. CASE e.kind = "revoke"
      <3>1. PICK d \in devices(m) : d # e.device
        BY <2>1, <1>2 DEF permitted
      <3>2. w.enrolled[d] # 0 /\ d \in Keys
        BY <3>1, <2>1, <1>10 DEF devices
      <3> QED  BY <3>2 DEF devices
    <2>2. CASE e.kind # "revoke"
      BY <2>2, <1>10, <1>3, <1>1 DEF devices
    <2> QED  BY <2>1, <2>2
  <1>17. q # <<>>
    BY <1>4, <1>1
  <1>18. PermissionHolds(T, q)
    <2> SUFFICES ASSUME NEW j \in 1..Len(q)
                 PROVE  /\ j = 1 => T[q[j]].kind = "create"
                        /\ T[q[j]].kind = "enrol" => ~TrustedAt(T, q, j, T[q[j]].device)
                        /\ T[q[j]].kind = "revoke" =>
                             /\ TrustedAt(T, q, j, T[q[j]].device)
                             /\ \E d \in Keys : d # T[q[j]].device /\ TrustedAt(T, q, j, d)
      BY DEF PermissionHolds
    <2>1. CASE j = n
      <3>1. T[q[j]] = e  BY <2>1, <1>4 DEF e
      <3>2. \A d \in Keys : d \in devices(m) <=> TrustedAt(T, q, j, d)
        <4>1. \A d \in Keys : d \in devices(m) <=> TrustedAt(S, l, Len(l) + 1, d)
          BY <1>1 DEF MembersAreTrusted, devices
        <4>2. j \in 1..n /\ j = Len(l) + 1
          BY <2>1, <1>0
        <4> QED  BY <4>1, <4>2, <1>6
      <3>3. j = 1 => l = <<>>
        BY <2>1, <1>0, <1>1
      <3>4. e.kind = "enrol" => e.device \notin devices(m)
        BY <1>2 DEF permitted
      <3>5. e.kind = "revoke" =>
              e.device \in devices(m) /\ \E d \in devices(m) : d # e.device
        BY <1>2 DEF permitted
      <3>6. devices(m) \subseteq Keys
        BY DEF devices
      <3> QED  BY <3>1, <3>2, <3>3, <3>4, <3>5, <3>6, <1>2, <1>3
    <2>2. CASE j \in 1..Len(l)
      <3>1. T[q[j]] = S[l[j]] /\ S[l[j]].device \in Keys
        BY <2>2, <1>4, <1>1, EntryFacts DEF Chained
      <3>2. \A d \in Keys : TrustedAt(T, q, j, d) <=> TrustedAt(S, l, j, d)
        BY <2>2, <1>0, <1>6
      <3> QED  BY <2>2, <3>1, <3>2, <1>1 DEF PermissionHolds
    <2> QED  BY <2>1, <2>2, <1>4, <1>0
  <1>19. Len(q) <= MaxEntries
    BY <1>0, <1>1, <1>4, IdentityBounds
  <1> QED  BY <1>1, <1>4, <1>8, <1>11, <1>12, <1>13, <1>14, <1>15, <1>16, <1>17, <1>18, <1>19
           DEF Sound, q, w, e

(* A list nobody touches stays sound when more entries are signed.         *)
LEMMA KeepSound ==
  ASSUME NEW S \in Seq(Entry), NEW T \in Seq(Entry), Grows(S, T),
         NEW l, NEW m, NEW r, Sound(S, l, m, r)
  PROVE  Sound(T, l, m, r)
  <1>1. /\ l \in Seq(Nat \ {0}) /\ m \in Membership /\ r \in Keys
        /\ Len(l) <= MaxEntries /\ Chained(S, l) /\ AuthorityHolds(S, l, r)
        /\ PermissionHolds(S, l) /\ MembersAreTrusted(S, l, m) /\ HistoryGives(S, l, m)
    BY DEF Sound
  <1>2. \A i \in 1..Len(l) : l[i] \in 1..Len(T) /\ T[l[i]] = S[l[i]]
    <2>1. \A i \in 1..Len(l) : l[i] \in 1..Len(S)
      BY <1>1 DEF Chained
    <2>2. 1..Len(S) \subseteq 1..Len(T) /\ \A n \in 1..Len(S) : T[n] = S[n]
      BY DEF Grows
    <2> QED  BY <2>1, <2>2
  <1>3. \A i \in 1..Len(l), d \in Keys :
          /\ Adds(T, l, i, d) <=> Adds(S, l, i, d)
          /\ Severs(T, l, i, d) <=> Severs(S, l, i, d)
    BY <1>2 DEF Adds, Severs
  <1>4. \A j \in 1..(Len(l) + 1), d \in Keys :
          TrustedAt(T, l, j, d) <=> TrustedAt(S, l, j, d)
    <2> SUFFICES ASSUME NEW j \in 1..(Len(l) + 1), NEW d \in Keys
                 PROVE  TrustedAt(T, l, j, d) <=> TrustedAt(S, l, j, d)
      OBVIOUS
    <2>1. \A i \in 1..(j - 1) : Adds(T, l, i, d) <=> Adds(S, l, i, d)
      BY <1>1, <1>3
    <2>2. \A i \in 1..(j - 1) : \A k \in (i + 1)..(j - 1) :
            Severs(T, l, k, d) <=> Severs(S, l, k, d)
      BY <1>1, <1>3
    <2> QED  BY <2>1, <2>2 DEF TrustedAt
  <1>5. Len(l) \in Nat
    BY <1>1
  <1>6. \A i \in 1..Len(l) : S[l[i]].by \in Keys /\ S[l[i]].device \in Keys
    BY <1>1, EntryFacts DEF Chained
  <1>7. Chained(T, l)
    BY <1>1, <1>2 DEF Chained
  <1>8. AuthorityHolds(T, l, r)
    <2> SUFFICES ASSUME NEW j \in 1..Len(l)
                 PROVE  CASE T[l[j]].kind = "create" -> j = 1 /\ T[l[j]].by = T[l[j]].device
                          [] T[l[j]].kind = "recover" -> T[l[j]].by = r
                          [] OTHER -> TrustedAt(T, l, j, T[l[j]].by)
      BY DEF AuthorityHolds
    <2>1. T[l[j]] = S[l[j]]
      BY <1>2
    <2>2. TrustedAt(T, l, j, S[l[j]].by) <=> TrustedAt(S, l, j, S[l[j]].by)
      BY <1>4, <1>5, <1>6
    <2> QED  BY <2>1, <2>2, <1>1 DEF AuthorityHolds
  <1>9. PermissionHolds(T, l)
    <2> SUFFICES ASSUME NEW j \in 1..Len(l)
                 PROVE  /\ j = 1 => T[l[j]].kind = "create"
                        /\ T[l[j]].kind = "enrol" => ~TrustedAt(T, l, j, T[l[j]].device)
                        /\ T[l[j]].kind = "revoke" =>
                             /\ TrustedAt(T, l, j, T[l[j]].device)
                             /\ \E d \in Keys : d # T[l[j]].device /\ TrustedAt(T, l, j, d)
      BY DEF PermissionHolds
    <2>1. T[l[j]] = S[l[j]] /\ S[l[j]].device \in Keys
      BY <1>2, <1>6
    <2>2. \A d \in Keys : TrustedAt(T, l, j, d) <=> TrustedAt(S, l, j, d)
      BY <1>4, <1>5
    <2> QED  BY <2>1, <2>2, <1>1 DEF PermissionHolds
  <1>10. MembersAreTrusted(T, l, m)
    BY <1>1, <1>4, <1>5 DEF MembersAreTrusted
  <1>11. HistoryGives(T, l, m)
    <2>1. ASSUME NEW d \in Keys, NEW n \in 1..Len(l)
          PROVE  LastAdded(T, l, n, d) <=> LastAdded(S, l, n, d)
      BY <1>3, <1>5 DEF LastAdded
    <2>2. ASSUME NEW d \in Keys, NEW n \in 1..Len(l)
          PROVE  LastSevered(T, l, n, d) <=> LastSevered(S, l, n, d)
      BY <1>3, <1>4, <1>5 DEF LastSevered
    <2> QED  BY <2>1, <2>2, <1>1 DEF HistoryGives
  <1> QED  BY <1>1, <1>7, <1>8, <1>9, <1>10, <1>11 DEF Sound

-----------------------------------------------------------------------------
(* A shared link means a shared history.                                   *)
LEMMA SameSym ==
  ASSUME NEW l, NEW q, SameUpTo(l, q)
  PROVE  SameUpTo(q, l)
  BY DEF SameUpTo

LEMMA SameSelf ==
  ASSUME NEW S, NEW l \in Seq(Nat \ {0}), Chained(S, l)
  PROVE  SameUpTo(l, l)
  <1>1. \A i, j \in 1..Len(l) : l[i] = l[j] => i = j
    <2> SUFFICES ASSUME NEW i \in 1..Len(l), NEW j \in 1..Len(l), l[i] = l[j]
                 PROVE  i = j
      OBVIOUS
    <2>1. S[l[i]].sequence = i - 1 /\ S[l[j]].sequence = j - 1
      BY DEF Chained
    <2> QED  BY <2>1
  <1> QED  BY <1>1 DEF SameUpTo

LEMMA SameExtend ==
  ASSUME NEW T, NEW l \in Seq(Nat \ {0}), NEW q \in Seq(Nat \ {0}), NEW x \in Nat \ {0},
         Chained(T, q), SameUpTo(l, q),
         T[x].sequence = Len(l), T[x].prev = LastLink(l)
  PROVE  SameUpTo(Append(l, x), q)
  <1> DEFINE p == Append(l, x)
  <1>1. /\ Len(l) \in Nat /\ Len(p) = Len(l) + 1 /\ p[Len(l) + 1] = x
        /\ \A i \in 1..Len(l) : p[i] = l[i]
    OBVIOUS
  <1> HIDE DEF p
  <1> SUFFICES ASSUME NEW i \in 1..Len(p), NEW j \in 1..Len(q), p[i] = q[j]
               PROVE  i = j /\ \A k \in 1..i : p[k] = q[k]
    BY DEF SameUpTo, p
  <1>2. CASE i \in 1..Len(l)
    <2>1. l[i] = q[j]
      BY <1>1, <1>2
    <2>2. i = j /\ \A k \in 1..i : l[k] = q[k]
      BY <2>1, <1>2 DEF SameUpTo
    <2> QED  BY <2>2, <1>1, <1>2
  <1>3. CASE i = Len(l) + 1
    <2>1. T[q[j]].sequence = j - 1 /\ T[q[j]].prev = IF j = 1 THEN 0 ELSE q[j - 1]
      BY DEF Chained
    <2>2. q[j] = x /\ j = Len(l) + 1 /\ j = i
      BY <2>1, <1>1, <1>3
    <2>3. CASE l = <<>>
      BY <2>2, <2>3, <1>1, <1>3
    <2>4. CASE l # <<>>
      <3>1. Len(l) \in 1..Len(l) /\ Len(l) \in 1..Len(q)
        BY <2>4, <2>2
      <3>2. l[Len(l)] = q[Len(l)]
        BY <3>1, <2>1, <2>2, <2>4, <1>1 DEF LastLink
      <3>3. \A k \in 1..Len(l) : l[k] = q[k]
        BY <3>1, <3>2 DEF SameUpTo
      <3>4. \A k \in 1..i : k \in 1..Len(l) \/ k = Len(l) + 1
        BY <1>1, <1>3
      <3> QED  BY <3>3, <3>4, <2>2, <1>1
    <2> QED  BY <2>3, <2>4
  <1> QED  BY <1>1, <1>2, <1>3

-----------------------------------------------------------------------------
(* The inductive invariant: every list is sound, and shares no link with   *)
(* another without sharing the history before it.                          *)
IInv ==
  /\ TypeOK
  /\ \A h \in Holders : Sound(signed, log[h], view[h], recovery[h])
  /\ Sound(signed, seen, membership, under)
  /\ HeadIsHistory

LEMMA EmptySound ==
  ASSUME NEW S \in Seq(Entry), NEW r \in Keys
  PROVE  Sound(S, <<>>, NoMembership, r)
  <1>1. Len(<<>>) = 0 /\ <<>> \in Seq(Nat \ {0}) /\ NoMembership \in Membership
    BY DEF NoMembership, Membership
  <1>2. \A d \in Keys : NoMembership.enrolled[d] = 0 /\ NoMembership.revoked[d] = 0
    BY DEF NoMembership
  <1>3. \A d \in Keys : ~TrustedAt(S, <<>>, Len(<<>>) + 1, d)
    BY <1>1 DEF TrustedAt
  <1> QED  BY <1>1, <1>2, <1>3, IdentityBounds
           DEF Sound, Chained, AuthorityHolds, PermissionHolds, MembersAreTrusted,
               OneList, HistoryGives

LEMMA InitIInv == Init => IInv
  <1> SUFFICES ASSUME Init PROVE IInv
    OBVIOUS
  <1> DEFINE r0 == CHOOSE r \in RecoveryKeys : TRUE
  <1>1. r0 \in Keys
    BY IdentityKeys
  <1>2. signed = <<>> /\ seen = <<>> /\ under = r0 /\ membership = NoMembership
    BY DEF Init
  <1>3. \A h \in Holders : /\ log[h] = <<>> /\ recovery[h] = r0
                           /\ view[h] = NoMembership
    BY DEF Init
  <1> HIDE DEF r0
  <1>4. NoMembership \in Membership
    BY DEF NoMembership, Membership
  <1>5. TypeOK
    <2>1. log = [h \in Holders |-> <<>>] /\ view = [h \in Holders |-> NoMembership]
      BY DEF Init
    <2>2. recovery = [h \in Holders |-> r0]
      BY DEF Init, r0
    <2>3. <<>> \in Seq(Nat \ {0}) /\ <<>> \in Seq(Entry)
      OBVIOUS
    <2> QED  BY <2>1, <2>2, <2>3, <1>1, <1>2, <1>4 DEF TypeOK
  <1>6. Sound(signed, <<>>, NoMembership, r0)
    <2>1. signed \in Seq(Entry)
      BY <1>2
    <2> QED  BY <2>1, <1>1, EmptySound
  <1>7. HeadIsHistory
    BY <1>2, <1>3 DEF HeadIsHistory, SameUpTo
  <1> QED  BY <1>2, <1>3, <1>5, <1>6, <1>7 DEF IInv

(* Signing one more entry.                                                 *)
LEMMA SignedGrows ==
  ASSUME NEW S \in Seq(Entry), NEW e \in Entry
  PROVE  /\ Append(S, e) \in Seq(Entry) /\ Grows(S, Append(S, e))
         /\ Len(S) + 1 \in 1..Len(Append(S, e))
         /\ Append(S, e)[Len(S) + 1] = e
  BY DEF Grows

(* A holder's own list grows by one entry, under any recovery key if the   *)
(* list was empty.                                                         *)
LEMMA KeepStep ==
  ASSUME IInv, NEW h \in Holders, NEW e \in Entry, NEW r \in Keys,
         r = recovery[h] \/ log[h] = <<>>,
         e.sequence = Len(log[h]), Len(log[h]) < MaxEntries,
         log[h] = <<>> => e.kind = "create",
         applies(log[h], view[h], r, e),
         Keep(h, e), recovery' = [recovery EXCEPT ![h] = r]
  PROVE  IInv'
  <1> DEFINE x == Len(signed) + 1
  <1>1. /\ signed \in Seq(Entry) /\ signed' \in Seq(Entry) /\ Grows(signed, signed')
        /\ x \in 1..Len(signed') /\ signed'[x] = e /\ x \in Nat \ {0}
    BY SignedGrows DEF IInv, TypeOK, Keep
  <1>2. /\ log' = [log EXCEPT ![h] = Append(log[h], x)]
        /\ view' = [view EXCEPT ![h] = effect(view[h], e)]
        /\ seen' = seen /\ under' = under /\ membership' = membership
    BY DEF Keep, replaying
  <1>3. /\ log \in [Holders -> Seq(Nat \ {0})] /\ view \in [Holders -> Membership]
        /\ recovery \in [Holders -> Keys] /\ seen \in Seq(Nat \ {0})
        /\ under \in Keys /\ membership \in Membership
    BY DEF IInv, TypeOK
  <1>4. Sound(signed, log[h], view[h], r)
    <2>1. CASE r = recovery[h]  BY <2>1 DEF IInv
    <2>2. CASE log[h] = <<>>
      <3>1. view[h] = NoMembership
        BY <2>2 DEF IInv, Sound
      <3> QED  BY <3>1, <2>2, <1>1, EmptySound
    <2> QED  BY <2>1, <2>2
  <1>5. Extends(signed, signed', log[h], view[h], r, x)
    BY <1>1, <1>4 DEF Extends
  <1>6. /\ log'[h] = Append(log[h], x) /\ view'[h] = effect(view[h], signed'[x])
        /\ recovery'[h] = r
        /\ \A g \in Holders \ {h} : /\ log'[g] = log[g] /\ view'[g] = view[g]
                                     /\ recovery'[g] = recovery[g]
    BY <1>1, <1>2, <1>3
  <1>7. Sound(signed', log'[h], view'[h], recovery'[h])
    BY <1>5, <1>6, ExtendSound
  <1>8. \A g \in Holders \ {h} : Sound(signed', log'[g], view'[g], recovery'[g])
    BY <1>1, <1>6, KeepSound DEF IInv
  <1>9. Sound(signed', seen', membership', under')
    BY <1>1, <1>2, KeepSound DEF IInv
  <1>10. TypeOK'
    <2>1. effect(view[h], e) \in Membership /\ Append(log[h], x) \in Seq(Nat \ {0})
      BY <1>1, <1>3, EffectType
    <2> QED  BY <2>1, <1>1, <1>2, <1>3 DEF TypeOK
  <1>11. \A q : Chained(signed', q) /\ q \in Seq(Nat \ {0}) /\ SameUpTo(log[h], q)
               => SameUpTo(log'[h], q)
    <2>1. e.prev = LastLink(log[h])
      BY DEF applies, verifies
    <2> QED  BY <2>1, <1>1, <1>3, <1>6, SameExtend
  <1>12. HeadIsHistory'
    <2>1. ASSUME NEW g \in Holders, NEW k \in Holders
          PROVE  SameUpTo(log'[g], log'[k])
      <3>1. CASE g = h /\ k = h
        BY <3>1, <1>7, SameSelf DEF Sound
      <3>2. CASE g = h /\ k # h
        <4>1. SameUpTo(log[h], log'[k])
          BY <3>2, <1>6 DEF IInv, HeadIsHistory
        <4>2. Chained(signed', log'[k]) /\ log'[k] \in Seq(Nat \ {0})
          BY <3>2, <1>8 DEF Sound
        <4> QED  BY <4>1, <4>2, <3>2, <1>11
      <3>3. CASE g # h /\ k = h
        <4>1. SameUpTo(log[h], log'[g])
          BY <3>3, <1>6 DEF IInv, HeadIsHistory
        <4>2. Chained(signed', log'[g]) /\ log'[g] \in Seq(Nat \ {0})
          BY <3>3, <1>8 DEF Sound
        <4>3. SameUpTo(log'[h], log'[g])
          BY <4>1, <4>2, <1>11
        <4> QED  BY <4>3, <3>3, SameSym
      <3>4. CASE g # h /\ k # h
        BY <3>4, <1>6 DEF IInv, HeadIsHistory
      <3> QED  BY <3>1, <3>2, <3>3, <3>4
    <2>2. ASSUME NEW k \in Holders
          PROVE  SameUpTo(seen', log'[k])
      <3>1. CASE k = h
        <4>1. SameUpTo(log[h], seen)
          BY SameSym DEF IInv, HeadIsHistory
        <4>2. Chained(signed', seen) /\ seen \in Seq(Nat \ {0})
          BY <1>2, <1>9 DEF Sound
        <4>3. SameUpTo(log'[h], seen)
          BY <4>1, <4>2, <1>11
        <4> QED  BY <4>3, <3>1, <1>2, SameSym
      <3>2. CASE k # h
        BY <3>2, <1>2, <1>6 DEF IInv, HeadIsHistory
      <3> QED  BY <3>1, <3>2
    <2> QED  BY <2>1, <2>2 DEF HeadIsHistory
  <1>13. \A g \in Holders : Sound(signed', log'[g], view'[g], recovery'[g])
    BY <1>7, <1>8
  <1> QED  BY <1>9, <1>10, <1>12, <1>13 DEF IInv

LEMMA CreateStep ==
  ASSUME IInv, NEW h \in Holders, NEW k \in Keys, NEW r \in RecoveryKeys, Create(h, k, r)
  PROVE  IInv'
  <1> DEFINE e == [prev |-> 0, sequence |-> 0, kind |-> "create",
                   device |-> k, signer |-> k, by |-> k]
  <1>1. e \in Entry
    BY DEF Entry, Kinds
  <1>2. log[h] = <<>> /\ Keep(h, e) /\ recovery' = [recovery EXCEPT ![h] = r] /\ r \in Keys
    BY IdentityKeys DEF Create
  <1>3. applies(log[h], view[h], r, e)
    BY <1>2 DEF applies, authorised, verifies, permitted, LastLink
  <1>4. e.sequence = Len(log[h]) /\ Len(log[h]) < MaxEntries /\ e.kind = "create"
    BY <1>2, IdentityBounds
  <1> HIDE DEF e
  <1> QED  BY <1>1, <1>2, <1>3, <1>4, KeepStep

LEMMA AppendStep ==
  ASSUME IInv, NEW h \in Holders, NEW k \in Keys, NEW d \in Keys, NEW c \in Kinds,
         append(h, k, c, d)
  PROVE  IInv'
  <1> DEFINE e == [prev |-> LastLink(log[h]), sequence |-> Len(log[h]),
                   kind |-> c, device |-> d, signer |-> k, by |-> k]
  <1>1. log[h] \in Seq(Nat \ {0}) /\ recovery \in [Holders -> Keys]
    BY DEF IInv, TypeOK
  <1>2. /\ log[h] # <<>> /\ Len(log[h]) < MaxEntries
        /\ applies(log[h], view[h], recovery[h], e) /\ Keep(h, e)
        /\ recovery' = recovery
    BY DEF append
  <1>3. e \in Entry /\ e.sequence = Len(log[h])
    BY <1>1 DEF Entry, LastLink
  <1>4. recovery' = [recovery EXCEPT ![h] = recovery[h]] /\ recovery[h] \in Keys
    BY <1>1, <1>2
  <1> HIDE DEF e
  <1> QED  BY <1>2, <1>3, <1>4, KeepStep

(* A rogue signature disturbs nobody's list.                               *)
LEMMA RogueStep ==
  ASSUME IInv, NEW k \in Rogues, RogueSigns(k)
  PROVE  IInv'
  <1>1. PICK e \in Entry : signed' = Append(signed, e)
    <2>1. PICK p \in 0..Len(signed), n \in 0..MaxEntries, c \in Kinds, d \in Keys, s \in Keys :
            signed' = Append(signed, [prev |-> p, sequence |-> n, kind |-> c,
                                      device |-> d, signer |-> s, by |-> k])
      BY DEF RogueSigns
    <2>2. [prev |-> p, sequence |-> n, kind |-> c, device |-> d, signer |-> s, by |-> k] \in Entry
      <3>1. p \in Nat /\ n \in Nat /\ k \in Keys
        BY IdentityKeys, IdentityBounds DEF IInv, TypeOK
      <3> QED  BY <3>1 DEF Entry
    <2> QED  BY <2>1, <2>2
  <1>2. signed \in Seq(Entry) /\ signed' \in Seq(Entry) /\ Grows(signed, signed')
    BY <1>1, SignedGrows DEF IInv, TypeOK
  <1>3. /\ log' = log /\ recovery' = recovery /\ view' = view /\ seen' = seen
        /\ under' = under /\ membership' = membership
    BY DEF RogueSigns, logs, replaying
  <1>4. TypeOK' /\ HeadIsHistory'
    BY <1>2, <1>3 DEF IInv, TypeOK, HeadIsHistory
  <1>5. Sound(signed', seen', membership', under')
    BY <1>2, <1>3, KeepSound DEF IInv
  <1>6. \A h \in Holders : Sound(signed', log'[h], view'[h], recovery'[h])
    BY <1>2, <1>3, KeepSound DEF IInv
  <1> QED  BY <1>4, <1>5, <1>6 DEF IInv

LEMMA ReplayStartStep ==
  ASSUME IInv, NEW r \in RecoveryKeys, ReplayStart(r)
  PROVE  IInv'
  <1>1. /\ log' = log /\ recovery' = recovery /\ view' = view /\ signed' = signed
        /\ seen' = <<>> /\ under' = r /\ membership' = NoMembership /\ r \in Keys
    BY IdentityKeys DEF ReplayStart, logs
  <1>2. signed \in Seq(Entry)
    BY DEF IInv, TypeOK
  <1>3. Sound(signed', seen', membership', under')
    BY <1>1, <1>2, EmptySound
  <1>4. TypeOK'
    BY <1>1, <1>3 DEF IInv, TypeOK, Sound
  <1>5. \A h \in Holders : Sound(signed', log'[h], view'[h], recovery'[h])
    BY <1>1 DEF IInv
  <1>6. HeadIsHistory'
    BY <1>1 DEF IInv, HeadIsHistory, SameUpTo
  <1> QED  BY <1>3, <1>4, <1>5, <1>6 DEF IInv

LEMMA ReplayEntryStep ==
  ASSUME IInv, NEW i \in 1..Len(signed), ReplayEntry(i)
  PROVE  IInv'
  <1>1. /\ log' = log /\ recovery' = recovery /\ view' = view /\ signed' = signed
        /\ seen' = Append(seen, i) /\ under' = under
        /\ membership' = effect(membership, signed[i])
        /\ Len(seen) < MaxEntries /\ (seen = <<>> => signed[i].kind = "create")
        /\ signed[i].sequence = Len(seen) /\ applies(seen, membership, under, signed[i])
    BY DEF ReplayEntry, ReplayAccepts, logs
  <1>2. /\ signed \in Seq(Entry) /\ Grows(signed, signed) /\ seen \in Seq(Nat \ {0})
        /\ i \in Nat \ {0}
    BY DEF IInv, TypeOK, Grows
  <1>3. Extends(signed, signed, seen, membership, under, i)
    BY <1>1, <1>2 DEF Extends, IInv
  <1>4. Sound(signed', seen', membership', under')
    BY <1>1, <1>3, ExtendSound
  <1>5. TypeOK'
    BY <1>1, <1>4 DEF IInv, TypeOK, Sound
  <1>6. \A h \in Holders : Sound(signed', log'[h], view'[h], recovery'[h])
    BY <1>1 DEF IInv
  <1>7. \A h \in Holders : SameUpTo(seen', log'[h])
    <2> SUFFICES ASSUME NEW h \in Holders PROVE SameUpTo(Append(seen, i), log[h])
      BY <1>1
    <2>1. Chained(signed, log[h]) /\ log[h] \in Seq(Nat \ {0}) /\ SameUpTo(seen, log[h])
      BY DEF IInv, Sound, HeadIsHistory
    <2>2. signed[i].prev = LastLink(seen)
      BY <1>1 DEF applies, verifies
    <2> QED  BY <2>1, <2>2, <1>1, <1>2, SameExtend
  <1>8. HeadIsHistory'
    BY <1>1, <1>7 DEF IInv, HeadIsHistory
  <1> QED  BY <1>4, <1>5, <1>6, <1>8 DEF IInv

LEMMA FromEntriesStep ==
  ASSUME IInv, NEW h \in Holders, FromEntries(h)
  PROVE  IInv'
  <1>1. /\ log' = [log EXCEPT ![h] = seen] /\ recovery' = [recovery EXCEPT ![h] = under]
        /\ view' = [view EXCEPT ![h] = membership]
        /\ signed' = signed /\ seen' = seen /\ under' = under /\ membership' = membership
    BY DEF FromEntries, replaying
  <1>2. TypeOK
    BY DEF IInv
  <1>3. \A g \in Holders : /\ log'[g] = IF g = h THEN seen ELSE log[g]
                           /\ view'[g] = IF g = h THEN membership ELSE view[g]
                           /\ recovery'[g] = IF g = h THEN under ELSE recovery[g]
    BY <1>1, <1>2 DEF TypeOK
  <1>4. TypeOK'
    BY <1>1, <1>2 DEF TypeOK
  <1>5. \A g \in Holders : Sound(signed', log'[g], view'[g], recovery'[g])
    BY <1>1, <1>3 DEF IInv
  <1>6. SameUpTo(seen, seen)
    BY SameSelf DEF IInv, Sound
  <1>7. \A g \in Holders : SameUpTo(seen, log[g]) /\ SameUpTo(log[g], seen)
    BY SameSym DEF IInv, HeadIsHistory
  <1>8. HeadIsHistory'
    BY <1>1, <1>3, <1>6, <1>7 DEF IInv, HeadIsHistory
  <1> QED  BY <1>1, <1>4, <1>5, <1>8 DEF IInv

LEMMA NextIInv == IInv /\ [Next]_vars => IInv'
  <1> SUFFICES ASSUME IInv, [Next]_vars PROVE IInv'
    OBVIOUS
  <1>1. CASE Next
    <2>1. ASSUME NEW h \in Holders, NEW k \in Keys, NEW r \in RecoveryKeys, Create(h, k, r)
          PROVE  IInv'
      BY <2>1, CreateStep
    <2>2. ASSUME NEW h \in Holders, NEW k \in Keys, NEW d \in Keys,
                 Enrol(h, k, d) \/ Revoke(h, k, d) \/ Recover(h, k, d)
          PROVE  IInv'
      <3>1. "enrol" \in Kinds /\ "revoke" \in Kinds /\ "recover" \in Kinds
        BY DEF Kinds
      <3> QED  BY <2>2, <3>1, AppendStep DEF Enrol, Revoke, Recover
    <2>3. ASSUME NEW k \in Rogues, RogueSigns(k) PROVE IInv'
      BY <2>3, RogueStep
    <2>4. ASSUME NEW r \in RecoveryKeys, ReplayStart(r) PROVE IInv'
      BY <2>4, ReplayStartStep
    <2>5. ASSUME NEW i \in 1..Len(signed), ReplayEntry(i) PROVE IInv'
      BY <2>5, ReplayEntryStep
    <2>6. ASSUME NEW h \in Holders, FromEntries(h) PROVE IInv'
      BY <2>6, FromEntriesStep
    <2> QED  BY <1>1, <2>1, <2>2, <2>3, <2>4, <2>5, <2>6 DEF Next
  <1>2. CASE UNCHANGED vars
    BY <1>2 DEF vars, logs, replaying, IInv, TypeOK, HeadIsHistory
  <1> QED  BY <1>1, <1>2

LEMMA IInvHolds == Spec => []IInv
  BY InitIInv, NextIInv, PTL DEF Spec

-----------------------------------------------------------------------------
(* Logs are lists of links and memberships maps of positions, always.      *)
THEOREM IdentityTypeCorrect == Spec => []TypeOK
  <1>1. IInv => TypeOK
    BY DEF IInv
  <1> QED  BY <1>1, IInvHolds, PTL

(* Every Enrol and Revoke of an accepted log was signed by a device that   *)
(* was added before it and not removed since, for any number of holders,   *)
(* rogue keys and entries.                                                 *)
THEOREM AuthorityTheorem == Spec => []AuthorityIsCurrent
  <1>1. IInv => AuthorityIsCurrent
    BY DEF IInv, Sound, AuthorityIsCurrent
  <1> QED  BY <1>1, IInvHolds, PTL

(* The membership a log replays to is the one its history gives.           *)
THEOREM MembershipTheorem == Spec => []MembershipIsHistory
  <1>1. IInv => MembershipIsHistory
    BY DEF IInv, Sound, MembershipIsHistory
  <1> QED  BY <1>1, IInvHolds, PTL

(* No accepted log leaves its identity without a device.                   *)
THEOREM NeverOrphanedTheorem == Spec => []NeverOrphaned
  <1>1. IInv => NeverOrphaned
    BY DEF IInv, Sound, NeverOrphaned
  <1> QED  BY <1>1, IInvHolds, PTL

(* One shared link means one shared history.                               *)
THEOREM HeadTheorem == Spec => []HeadIsHistory
  <1>1. IInv => HeadIsHistory
    BY DEF IInv
  <1> QED  BY <1>1, IInvHolds, PTL

(* A stranger accepts, entry by entry, whatever a holder appended.         *)
THEOREM LocalIsRemoteTheorem == Spec => []LocalIsRemote
  <1>1. IInv => LocalIsRemote
    <2> SUFFICES ASSUME IInv, NEW h \in Holders, under = recovery[h],
                        Len(seen) < Len(log[h]),
                        \A i \in 1..Len(seen) : seen[i] = log[h][i]
                 PROVE  ReplayAccepts(log[h][Len(seen) + 1])
      BY DEF LocalIsRemote
    <2> DEFINE n == Len(seen) + 1
               e == signed[log[h][n]]
    <2>1. /\ signed \in Seq(Entry) /\ log[h] \in Seq(Nat \ {0}) /\ seen \in Seq(Nat \ {0})
          /\ Chained(signed, log[h]) /\ AuthorityHolds(signed, log[h], under)
          /\ PermissionHolds(signed, log[h]) /\ Len(log[h]) <= MaxEntries
          /\ MembersAreTrusted(signed, seen, membership)
      BY DEF IInv, Sound, TypeOK
    <2>2. n \in 1..Len(log[h]) /\ Len(seen) \in Nat /\ Len(seen) < MaxEntries
      BY <2>1, IdentityBounds
    <2>3. /\ e.sequence = Len(seen) /\ e.prev = IF n = 1 THEN 0 ELSE log[h][n - 1]
          /\ e.by = e.signer
      <3>1. /\ e.sequence = n - 1 /\ e.by = e.signer
            /\ e.prev = IF n = 1 THEN 0 ELSE log[h][n - 1]
        <4> HIDE DEF n
        <4> QED  BY <2>1, <2>2 DEF Chained
      <3> QED  BY <3>1, <2>2
    <2>4. e.kind \in Kinds /\ e.device \in Keys /\ e.by \in Keys
      BY <2>1, <2>2, EntryFacts DEF Chained
    <2>5. e.prev = LastLink(seen)
      BY <2>1, <2>2, <2>3 DEF LastLink
    <2>6. \A d \in Keys : TrustedAt(signed, log[h], n, d) <=> d \in devices(membership)
      <3> SUFFICES ASSUME NEW d \in Keys
                   PROVE  TrustedAt(signed, log[h], n, d) <=> TrustedAt(signed, seen, n, d)
        BY <2>1 DEF MembersAreTrusted, devices
      <3>1. \A i \in 1..(n - 1) : /\ Adds(signed, log[h], i, d) <=> Adds(signed, seen, i, d)
                                  /\ Severs(signed, log[h], i, d) <=> Severs(signed, seen, i, d)
        BY <2>2 DEF Adds, Severs
      <3>2. \A i \in 1..(n - 1) : \A k \in (i + 1)..(n - 1) : k \in 1..(n - 1)
        BY <2>2
      <3> HIDE DEF n
      <3> QED  BY <3>1, <3>2 DEF TrustedAt
    <2>7. authorised(membership, e, under)
      <3>1. CASE e.kind = "create"
        BY <3>1, <2>1, <2>2, <2>3 DEF AuthorityHolds, authorised
      <3>2. CASE e.kind = "recover"
        BY <3>2, <2>1, <2>2, <2>3 DEF AuthorityHolds, authorised
      <3>3. CASE e.kind \notin {"create", "recover"}
        <4>1. TrustedAt(signed, log[h], n, e.by)
          BY <3>3, <2>1, <2>2 DEF AuthorityHolds
        <4> QED  BY <4>1, <3>3, <2>3, <2>4, <2>6 DEF authorised
      <3> QED  BY <3>1, <3>2, <3>3
    <2>8. permitted(membership, e)
      <3>1. CASE e.kind = "enrol"
        <4>1. ~TrustedAt(signed, log[h], n, e.device)
          BY <3>1, <2>1, <2>2 DEF PermissionHolds
        <4> QED  BY <4>1, <3>1, <2>4, <2>6 DEF permitted
      <3>2. CASE e.kind = "revoke"
        <4>1. /\ TrustedAt(signed, log[h], n, e.device)
              /\ \E d \in Keys : d # e.device /\ TrustedAt(signed, log[h], n, d)
          BY <3>2, <2>1, <2>2 DEF PermissionHolds
        <4> QED  BY <4>1, <3>2, <2>4, <2>6 DEF permitted
      <3>3. CASE e.kind \notin {"enrol", "revoke"}
        BY <3>3 DEF permitted
      <3> QED  BY <3>1, <3>2, <3>3
    <2>9. seen = <<>> => e.kind = "create"
      BY <2>1, <2>2 DEF PermissionHolds
    <2> QED  BY <2>2, <2>3, <2>5, <2>7, <2>8, <2>9 DEF ReplayAccepts, applies, verifies
  <1> QED  BY <1>1, IInvHolds, PTL

-----------------------------------------------------------------------------
(* The relying party.  A binding by an honest device was signed over the   *)
(* head of a sound list that is gone or has grown since; ChainedSame       *)
(* relates that list to the party's own, through the link they share.      *)

(* Every set of naturals with an element has a least one.                  *)
LEMMA LeastNat ==
  ASSUME NEW T \in SUBSET Nat, T # {}
  PROVE  \E n \in T : \A m \in T : n <= m
  <1> DEFINE R == OpToRel(<, Nat)
  <1>1. IsWellFoundedOn(R, Nat)
    BY NatLessThanWellFounded
  <1>2. \A a, b \in Nat : a < b => <<a, b>> \in R
    BY DEF OpToRel
  <1> HIDE DEF R
  <1>3. PICK n \in T : \A m \in T : ~(<<m, n>> \in R)
    BY <1>1, WFMin
  <1>4. \A m \in T : ~(m < n)
    BY <1>2, <1>3
  <1>5. \A m \in T : n <= m
    BY <1>4
  <1> QED  BY <1>5

(* Two chained lists that share one link are the same up to it: the        *)
(* nearest place before it where they differ would have two links before   *)
(* one entry.                                                              *)
LEMMA ChainedSame ==
  ASSUME NEW S, NEW l \in Seq(Nat \ {0}), NEW q \in Seq(Nat \ {0}),
         Chained(S, l), Chained(S, q)
  PROVE  SameUpTo(l, q)
  <1> SUFFICES ASSUME NEW i \in 1..Len(l), NEW j \in 1..Len(q), l[i] = q[j]
               PROVE  i = j /\ \A k \in 1..i : l[k] = q[k]
    BY DEF SameUpTo
  <1>1. i = j
    <2>1. S[l[i]].sequence = i - 1 /\ S[q[j]].sequence = j - 1
      BY DEF Chained
    <2> QED  BY <2>1
  <1>0. /\ Len(l) \in Nat /\ Len(q) \in Nat
        /\ i \in Nat /\ 1 <= i /\ i <= Len(l) /\ i <= Len(q)
    <2>1. Len(l) \in Nat /\ Len(q) \in Nat
      OBVIOUS
    <2> QED  BY <1>1, <2>1
  <1> DEFINE T == {n \in Nat : n < i /\ l[i - n] # q[i - n]}
  <1>2. T = {}
    <2> SUFFICES ASSUME T # {} PROVE FALSE
      OBVIOUS
    <2>1. T \in SUBSET Nat
      OBVIOUS
    <2>2. PICK n \in T : \A m \in T : n <= m
      BY <2>1, LeastNat
    <2>3. n \in Nat /\ n < i /\ l[i - n] # q[i - n]
      OBVIOUS
    <2>4. n # 0
      BY <2>3, <1>1
    <2>5. n - 1 \in Nat /\ n - 1 < i /\ ~(n - 1 \in T)
      <3> HIDE DEF T
      <3>1. n - 1 \in Nat /\ n - 1 < i /\ ~(n <= n - 1)
        BY <1>0, <2>3, <2>4
      <3> QED  BY <3>1, <2>2
    <2>6. l[i - (n - 1)] = q[i - (n - 1)]
      BY <2>5
    <2> DEFINE a == i - (n - 1)
    <2>7. a \in 1..Len(l) /\ a \in 1..Len(q) /\ a # 1 /\ a - 1 = i - n
      <3> HIDE DEF T
      <3>1. a \in Nat /\ 1 <= a /\ a <= i /\ a # 1 /\ a - 1 = i - n
        BY <1>0, <2>3, <2>4
      <3> QED  BY <3>1, <1>0
    <2>8. l[a] = q[a]
      BY <2>6
    <2> HIDE DEF a, T
    <2>9. S[l[a]].prev = l[a - 1] /\ S[q[a]].prev = q[a - 1]
      BY <2>7 DEF Chained
    <2> QED  BY <2>3, <2>7, <2>8, <2>9
  <1>3. ASSUME NEW k \in 1..i PROVE l[k] = q[k]
    <2>1. i - k \in Nat /\ i - k < i /\ i - (i - k) = k
      OBVIOUS
    <2>2. ~(i - k \in T)
      BY <1>2
    <2> QED  BY <2>1, <2>2
  <1> QED  BY <1>1, <1>3

(* A chained list and the trust it gives stay when more entries are signed.*)
LEMMA ChainedKept ==
  ASSUME NEW S \in Seq(Entry), NEW T \in Seq(Entry), Grows(S, T),
         NEW q \in Seq(Nat \ {0}), Chained(S, q)
  PROVE  /\ Chained(T, q)
         /\ \A i \in 1..Len(q) : T[q[i]] = S[q[i]]
         /\ \A d \in Keys :
              TrustedAt(S, q, Len(q) + 1, d) => TrustedAt(T, q, Len(q) + 1, d)
  <1>1. \A i \in 1..Len(q) : q[i] \in 1..Len(T) /\ T[q[i]] = S[q[i]]
    BY DEF Chained, Grows
  <1>2. Chained(T, q)
    BY <1>1 DEF Chained
  <1>3. Len(q) \in Nat
    OBVIOUS
  <1>4. ASSUME NEW d \in Keys, TrustedAt(S, q, Len(q) + 1, d)
        PROVE  TrustedAt(T, q, Len(q) + 1, d)
    <2>1. \A i \in 1..Len(q) : /\ Adds(T, q, i, d) <=> Adds(S, q, i, d)
                               /\ Severs(T, q, i, d) <=> Severs(S, q, i, d)
      BY <1>1 DEF Adds, Severs
    <2> QED  BY <2>1, <1>3, <1>4 DEF TrustedAt
  <1> QED  BY <1>1, <1>2, <1>4

(* The list an honest binding was signed over.                             *)
VouchedBy(S, b) ==
  \E q \in Seq(Nat \ {0}) :
    /\ Chained(S, q) /\ q # <<>> /\ q[Len(q)] = b.head
    /\ TrustedAt(S, q, Len(q) + 1, b.by)

EpochsVouched ==
  \A b \in epochBindings : b.by \notin Rogues => b.by \in Keys /\ VouchedBy(signed, b)

RecoveryVouched ==
  trusted.entries # <<>> =>
    /\ trusted.entries[1] = pin
    /\ \E b \in recoveryBindings :
         b.root = pin /\ b.by = founder_key(trusted.entries) /\ b.key = trusted.recovery

(* The inductive invariant of the relying party.                           *)
BInv ==
  /\ IInv
  /\ Sound(signed, trusted.entries, trusted.members, trusted.recovery)
  /\ EpochsVouched
  /\ RecoveryVouched

LEMMA InitBInv == InitBindings => BInv
  <1> SUFFICES ASSUME InitBindings PROVE BInv
    OBVIOUS
  <1>1. IInv
    BY InitIInv DEF InitBindings
  <1>2. trusted.entries = <<>> /\ trusted.members = NoMembership /\ trusted.recovery = under
    BY DEF InitBindings, NoLog
  <1>3. signed \in Seq(Entry) /\ under \in Keys
    BY <1>1 DEF IInv, TypeOK
  <1>4. Sound(signed, trusted.entries, trusted.members, trusted.recovery)
    BY <1>2, <1>3, EmptySound
  <1> QED  BY <1>1, <1>2, <1>4 DEF BInv, EpochsVouched, RecoveryVouched, InitBindings

(* Nothing that was signed is ever lost or changed.                        *)
LEMMA NextGrows ==
  ASSUME IInv, [Next]_vars
  PROVE  signed' \in Seq(Entry) /\ Grows(signed, signed')
  <1>1. signed \in Seq(Entry) /\ signed' \in Seq(Entry)
    BY NextIInv DEF IInv, TypeOK
  <1>2. signed' = signed \/ \E e : signed' = Append(signed, e)
    <2>1. ASSUME NEW h, NEW e, Keep(h, e) PROVE \E x : signed' = Append(signed, x)
      BY <2>1 DEF Keep
    <2>2. ASSUME NEW k, RogueSigns(k) PROVE \E x : signed' = Append(signed, x)
      BY <2>2 DEF RogueSigns
    <2>3. ASSUME NEW h, NEW k, NEW r, Create(h, k, r) PROVE \E x : signed' = Append(signed, x)
      BY <2>1, <2>3 DEF Create
    <2>4. ASSUME NEW h, NEW k, NEW kind, NEW d, append(h, k, kind, d)
          PROVE  \E x : signed' = Append(signed, x)
      BY <2>1, <2>4 DEF append
    <2> QED  BY <2>2, <2>3, <2>4 DEF Next, Enrol, Revoke, Recover, ReplayStart, ReplayEntry,
                                     FromEntries, vars, replaying, logs
  <1> QED  BY <1>1, <1>2 DEF Grows

LEMMA NextBInv ==
  ASSUME BInv, Next \/ UNCHANGED vars, UNCHANGED <<bindings, party>>
  PROVE  BInv'
  <1>1. IInv /\ [Next]_vars
    BY DEF BInv
  <1>2. IInv' /\ signed \in Seq(Entry) /\ signed' \in Seq(Entry) /\ Grows(signed, signed')
    BY <1>1, NextIInv, NextGrows DEF IInv, TypeOK
  <1>3. /\ trusted' = trusted /\ pin' = pin
        /\ epochBindings' = epochBindings /\ recoveryBindings' = recoveryBindings
    BY DEF bindings, party
  <1>4. Sound(signed, trusted.entries, trusted.members, trusted.recovery)'
    <2>1. Sound(signed, trusted.entries, trusted.members, trusted.recovery)
      BY DEF BInv
    <2>2. Sound(signed', trusted.entries, trusted.members, trusted.recovery)
      BY <2>1, <1>2, KeepSound
    <2> QED  BY <2>2, <1>3
  <1>5. EpochsVouched'
    <2> SUFFICES ASSUME NEW b \in epochBindings, b.by \notin Rogues
                 PROVE  b.by \in Keys /\ VouchedBy(signed', b)
      BY <1>3 DEF EpochsVouched, VouchedBy
    <2>1. b.by \in Keys /\ VouchedBy(signed, b)
      BY DEF BInv, EpochsVouched
    <2>2. PICK q \in Seq(Nat \ {0}) :
            /\ Chained(signed, q) /\ q # <<>> /\ q[Len(q)] = b.head
            /\ TrustedAt(signed, q, Len(q) + 1, b.by)
      BY <2>1 DEF VouchedBy
    <2>3. Chained(signed', q) /\ TrustedAt(signed', q, Len(q) + 1, b.by)
      BY <2>1, <2>2, <1>2, ChainedKept
    <2> QED  BY <2>1, <2>2, <2>3 DEF VouchedBy
  <1>6. RecoveryVouched'
    <2> SUFFICES ASSUME trusted.entries # <<>>
                 PROVE  signed'[trusted.entries[1]] = signed[trusted.entries[1]]
      BY <1>3 DEF RecoveryVouched, BInv, founder_key
    <2>1. trusted.entries \in Seq(Nat \ {0}) /\ Chained(signed, trusted.entries)
      BY DEF BInv, Sound
    <2>2. 1 \in 1..Len(trusted.entries)
      BY <2>1
    <2> QED  BY <2>1, <2>2, <1>2 DEF Chained, Grows
  <1> QED  BY <1>2, <1>4, <1>5, <1>6 DEF BInv

LEMMA BindStepBInv ==
  ASSUME BInv, BindStep
  PROVE  BInv'
  <1>1. UNCHANGED vars
    BY DEF BindStep, BindRecovery, BindEpoch, RogueBindsRecovery, RogueBindsEpoch, Pin, Accept
  <1>2. IInv' /\ signed' = signed
    BY <1>1, NextIInv DEF BInv, vars
  <1>3. ASSUME NEW h \in Holders, NEW k \in Keys, NEW c \in Chains, BindEpoch(h, k, c)
        PROVE  BInv'
    <2> DEFINE x == [root |-> log[h][1], head |-> LastLink(log[h]), chain |-> c,
                     signer |-> k, by |-> k]
    <2>1. /\ log[h] # <<>> /\ k \in devices(view[h])
          /\ epochBindings' = epochBindings \cup {x}
          /\ UNCHANGED <<recoveryBindings, pin, trusted>>
      BY <1>3 DEF BindEpoch, party
    <2>2. /\ log[h] \in Seq(Nat \ {0}) /\ Chained(signed, log[h])
          /\ MembersAreTrusted(signed, log[h], view[h])
      BY DEF BInv, IInv, Sound
    <2>3. TrustedAt(signed, log[h], Len(log[h]) + 1, k)
      BY <2>1, <2>2 DEF MembersAreTrusted, devices
    <2>4. VouchedBy(signed, x)
      BY <2>1, <2>2, <2>3 DEF VouchedBy, LastLink
    <2>5. EpochsVouched'
      <3> SUFFICES ASSUME NEW b \in epochBindings', b.by \notin Rogues
                   PROVE  b.by \in Keys /\ VouchedBy(signed, b)
        BY <1>2 DEF EpochsVouched, VouchedBy
      <3>1. CASE b = x
        BY <3>1, <2>4
      <3>2. CASE b \in epochBindings
        BY <3>2 DEF BInv, EpochsVouched
      <3> QED  BY <3>1, <3>2, <2>1
    <2> QED  BY <2>1, <2>5, <1>2 DEF BInv, RecoveryVouched, founder_key
  <1>4. ASSUME NEW h \in Holders, NEW k \in Keys, BindRecovery(h, k) PROVE BInv'
    <2>1. /\ recoveryBindings \subseteq recoveryBindings'
          /\ UNCHANGED <<epochBindings, pin, trusted>>
      BY <1>4 DEF BindRecovery, party
    <2> QED  BY <2>1, <1>2 DEF BInv, EpochsVouched, VouchedBy, RecoveryVouched, founder_key
  <1>5. ASSUME NEW k \in Rogues, RogueBindsRecovery(k) PROVE BInv'
    <2>1. /\ recoveryBindings \subseteq recoveryBindings'
          /\ UNCHANGED <<epochBindings, pin, trusted>>
      BY <1>5 DEF RogueBindsRecovery, party
    <2> QED  BY <2>1, <1>2 DEF BInv, EpochsVouched, VouchedBy, RecoveryVouched, founder_key
  <1>6. ASSUME NEW k \in Rogues, RogueBindsEpoch(k) PROVE BInv'
    <2>1. /\ UNCHANGED <<recoveryBindings, pin, trusted>>
          /\ \A b \in epochBindings' : b \in epochBindings \/ b.by \in Rogues
      BY <1>6 DEF RogueBindsEpoch, party
    <2> QED  BY <2>1, <1>2 DEF BInv, EpochsVouched, VouchedBy, RecoveryVouched, founder_key
  <1>7. ASSUME NEW h \in Holders, Pin(h) PROVE BInv'
    <2>1. pin = 0 /\ UNCHANGED <<epochBindings, recoveryBindings, trusted>>
      BY <1>7 DEF Pin, bindings
    <2>2. trusted.entries = <<>>
      <3>1. /\ trusted.entries \in Seq(Nat \ {0})
            /\ trusted.entries # <<>> => trusted.entries[1] = pin
        BY DEF BInv, Sound, RecoveryVouched
      <3> QED  BY <3>1, <2>1
    <2> QED  BY <2>1, <2>2, <1>2 DEF BInv, EpochsVouched, VouchedBy, RecoveryVouched
  <1>8. ASSUME NEW b \in recoveryBindings, Accept(b) PROVE BInv'
    <2>1. /\ trusted' = [entries |-> seen, recovery |-> under, members |-> membership]
          /\ UNCHANGED <<epochBindings, recoveryBindings, pin>>
          /\ b.root = pin /\ seen[1] = b.root /\ b.by = founder_key(seen) /\ under = b.key
      BY <1>8 DEF Accept, verifies_pinned, bindings
    <2>2. trusted'.entries = seen /\ trusted'.recovery = under /\ trusted'.members = membership
      BY <2>1
    <2>3. Sound(signed, seen, membership, under)
      BY DEF BInv, IInv
    <2>4. RecoveryVouched'
      BY <2>1, <2>2, <1>2 DEF RecoveryVouched, founder_key
    <2> QED  BY <2>1, <2>2, <2>3, <2>4, <1>2 DEF BInv, EpochsVouched, VouchedBy
  <1> QED  BY <1>3, <1>4, <1>5, <1>6, <1>7, <1>8 DEF BindStep

LEMMA BInvHolds == SpecBindings => []BInv
  <1>1. BInv /\ [NextBindings]_allVars => BInv'
    <2> SUFFICES ASSUME BInv, [NextBindings]_allVars PROVE BInv'
      OBVIOUS
    <2>1. CASE Next /\ UNCHANGED <<bindings, party>>
      BY <2>1, NextBInv
    <2>2. CASE BindStep
      BY <2>2, BindStepBInv
    <2>3. CASE UNCHANGED allVars
      BY <2>3, NextBInv DEF allVars
    <2> QED  BY <2>1, <2>2, <2>3 DEF NextBindings
  <1> QED  BY <1>1, InitBInv, PTL DEF SpecBindings

(* A party that pinned a root believes only chains vouched for by a device *)
(* its log trusts now and, if the device is honest, trusted at the head    *)
(* the binding names, whatever logs, bindings and forks there are.         *)
THEOREM ChainTheorem == SpecBindings => []ChainIsVouched
  <1>1. BInv => ChainIsVouched
    <2> SUFFICES ASSUME BInv, NEW b \in epochBindings, verifies_epoch(b, b.chain)
                 PROVE  /\ TrustedAt(signed, trusted.entries, Len(trusted.entries) + 1, b.signer)
                        /\ b.signer \notin Rogues =>
                             TrustedAt(signed, trusted.entries, PlaceOf(b.head) + 1, b.signer)
      BY DEF ChainIsVouched
    <2> DEFINE l == trusted.entries
    <2>1. /\ l \in Seq(Nat \ {0}) /\ Chained(signed, l)
          /\ MembersAreTrusted(signed, l, trusted.members)
      BY DEF BInv, Sound
    <2>2. /\ b.signer \in devices(trusted.members) /\ b.by = b.signer
          /\ \E i \in 1..Len(l) : l[i] = b.head
      BY DEF verifies_epoch
    <2>3. TrustedAt(signed, l, Len(l) + 1, b.signer)
      BY <2>1, <2>2 DEF MembersAreTrusted, devices
    <2>4. ASSUME b.signer \notin Rogues
          PROVE  TrustedAt(signed, l, PlaceOf(b.head) + 1, b.signer)
      <3>1. PICK q \in Seq(Nat \ {0}) :
              /\ Chained(signed, q) /\ q # <<>> /\ q[Len(q)] = b.head
              /\ TrustedAt(signed, q, Len(q) + 1, b.signer)
        BY <2>2, <2>4 DEF BInv, EpochsVouched, VouchedBy
      <3> DEFINE p == PlaceOf(b.head)
      <3>2. p \in 1..Len(l) /\ l[p] = b.head
        BY <2>2 DEF PlaceOf
      <3>3. Len(q) \in 1..Len(q)
        BY <3>1
      <3>4. SameUpTo(l, q)
        BY <2>1, <3>1, ChainedSame
      <3> HIDE DEF p, l
      <3>5. p = Len(q) /\ \A k \in 1..p : l[k] = q[k]
        BY <3>1, <3>2, <3>3, <3>4 DEF SameUpTo
      <3>6. \A i \in 1..p : /\ Adds(signed, l, i, b.signer) <=> Adds(signed, q, i, b.signer)
                            /\ Severs(signed, l, i, b.signer) <=> Severs(signed, q, i, b.signer)
        BY <3>5 DEF Adds, Severs
      <3>7. TrustedAt(signed, l, p + 1, b.signer)
        BY <3>1, <3>3, <3>5, <3>6 DEF TrustedAt
      <3> QED  BY <3>7 DEF p
    <2> QED  BY <2>3, <2>4
  <1> QED  BY <1>1, BInvHolds, PTL

(* Every Recover in a log the party accepted was signed by the recovery    *)
(* key that the founder of the pinned root bound.                          *)
THEOREM RecoveryTheorem == SpecBindings => []RecoveryIsFounders
  <1>1. BInv => RecoveryIsFounders
    <2> SUFFICES ASSUME BInv, trusted.entries # <<>>
                 PROVE  /\ trusted.entries[1] = pin
                        /\ \A i \in 1..Len(trusted.entries) :
                             signed[trusted.entries[i]].kind = "recover" =>
                               \E b \in recoveryBindings :
                                 /\ b.root = pin /\ b.by = founder_key(trusted.entries)
                                 /\ b.key = signed[trusted.entries[i]].by
      BY DEF RecoveryIsFounders
    <2>1. AuthorityHolds(signed, trusted.entries, trusted.recovery)
      BY DEF BInv, Sound
    <2>2. \A i \in 1..Len(trusted.entries) : signed[trusted.entries[i]].kind = "recover" =>
            signed[trusted.entries[i]].by = trusted.recovery
      BY <2>1 DEF AuthorityHolds
    <2> QED  BY <2>2 DEF BInv, RecoveryVouched
  <1> QED  BY <1>1, BInvHolds, PTL
=============================================================================
