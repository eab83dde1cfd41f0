--------------------------- MODULE SurfacesProofs ---------------------------
(***************************************************************************)
(* Proofs about Surfaces, for any words, seeds, processes and bounds.      *)
(***************************************************************************)
EXTENDS Surfaces, FiniteSetTheorems, SequenceTheorems, WellFoundedInduction, TLAPS

(* Every set of naturals with an element has a least one.                  *)
LEMMA LeastNat ==
  ASSUME NEW T \in SUBSET Nat, T # {}
  PROVE  \E n \in T : \A m \in T : n <= m
  <1> DEFINE R == OpToRel(<, Nat)
  <1>1. IsWellFoundedOn(R, Nat)
    BY NatLessThanWellFounded
  <1>2. \A a, b \in Nat : a < b => <<a, b>> \in R
    BY DEF OpToRel
  <1> HIDE DEF R
  <1>3. PICK n \in T : \A m \in T : ~(<<m, n>> \in R)
    BY <1>1, WFMin
  <1>4. \A m \in T : ~(m < n)
    BY <1>2, <1>3
  <1>5. \A m \in T : n <= m
    BY <1>4
  <1> QED  BY <1>5

-----------------------------------------------------------------------------
(* Signatures.  Each is over the bytes its context and message are bound   *)
(* into, and those bytes give both back.                                   *)

LEMMA ConcatAt ==
  ASSUME NEW s \in Seq(Nat), NEW t \in Seq(Nat)
  PROVE  /\ s \o t \in Seq(Nat) /\ Len(s \o t) = Len(s) + Len(t)
         /\ Len(s) \in Nat /\ Len(t) \in Nat
         /\ \A i \in 1..Len(s) : (s \o t)[i] = s[i]
         /\ \A i \in 1..Len(t) : (s \o t)[i + Len(s)] = t[i]
  <1>1. Len(s) \in Nat /\ Len(t) \in Nat
    BY LenProperties
  <1>2. /\ s \o t \in Seq(Nat) /\ Len(s \o t) = Len(s) + Len(t)
        /\ \A i \in 1..(Len(s) + Len(t)) :
             (s \o t)[i] = IF i <= Len(s) THEN s[i] ELSE t[i - Len(s)]
    BY ConcatProperties
  <1>3. ASSUME NEW i \in 1..Len(s) PROVE (s \o t)[i] = s[i]
    <2>1. i \in 1..(Len(s) + Len(t)) /\ i <= Len(s)
      BY <1>1
    <2> QED  BY <2>1, <1>2
  <1>4. ASSUME NEW i \in 1..Len(t) PROVE (s \o t)[i + Len(s)] = t[i]
    <2>1. /\ i + Len(s) \in 1..(Len(s) + Len(t)) /\ ~(i + Len(s) <= Len(s))
          /\ i + Len(s) - Len(s) = i
      BY <1>1
    <2> QED  BY <2>1, <1>2
  <1> QED  BY <1>1, <1>2, <1>3, <1>4

(* What bind makes of a context and a message, byte by byte.               *)
LEMMA BindAt ==
  ASSUME NEW c \in Seq(Nat), NEW m \in Seq(Nat)
  PROVE  /\ Len(c) \in Nat /\ Len(m) \in Nat
         /\ Len(bind(c, m)) = 1 + Len(c) + Len(m)
         /\ bind(c, m)[1] = Len(c)
         /\ \A i \in 1..Len(c) : bind(c, m)[i + 1] = c[i]
         /\ \A i \in 1..Len(m) : bind(c, m)[i + (1 + Len(c))] = m[i]
  <1> DEFINE l == <<Len(c)>>
             q == l \o c
  <1>1. Len(c) \in Nat /\ Len(m) \in Nat
    BY LenProperties
  <1>3. l \in Seq(Nat) /\ Len(l) = 1 /\ l[1] = Len(c)
    BY <1>1
  <1> HIDE DEF l
  <1>4. /\ q \in Seq(Nat) /\ Len(q) = Len(l) + Len(c)
        /\ \A i \in 1..Len(l) : q[i] = l[i]
        /\ \A i \in 1..Len(c) : q[i + Len(l)] = c[i]
    BY <1>3, ConcatAt
  <1>5. bind(c, m) = q \o m
    BY DEF bind, l
  <1> HIDE DEF q
  <1>6. /\ Len(q \o m) = Len(q) + Len(m)
        /\ \A i \in 1..Len(q) : (q \o m)[i] = q[i]
        /\ \A i \in 1..Len(m) : (q \o m)[i + Len(q)] = m[i]
    BY <1>4, ConcatAt
  <1>7. q[1] = Len(c) /\ Len(q) = 1 + Len(c) /\ \A i \in 1..Len(c) : q[i + 1] = c[i]
    BY <1>1, <1>3, <1>4
  <1>8. 1 \in 1..Len(q) /\ \A i \in 1..Len(c) : i + 1 \in 1..Len(q)
    BY <1>1, <1>7
  <1> QED  BY <1>1, <1>5, <1>6, <1>7, <1>8

(* bind puts the length of the context first, so no byte of the context    *)
(* can be taken for one of the message.                                    *)
LEMMA BindInjective ==
  ASSUME NEW c1 \in Seq(Nat), NEW m1 \in Seq(Nat), NEW c2 \in Seq(Nat), NEW m2 \in Seq(Nat),
         bind(c1, m1) = bind(c2, m2)
  PROVE  c1 = c2 /\ m1 = m2
  <1> DEFINE b == bind(c1, m1)
  <1>1. /\ Len(c1) \in Nat /\ Len(m1) \in Nat
        /\ Len(b) = 1 + Len(c1) + Len(m1) /\ b[1] = Len(c1)
        /\ \A i \in 1..Len(c1) : b[i + 1] = c1[i]
        /\ \A i \in 1..Len(m1) : b[i + (1 + Len(c1))] = m1[i]
    BY BindAt
  <1> DEFINE d == bind(c2, m2)
  <1>2. /\ Len(c2) \in Nat /\ Len(m2) \in Nat
        /\ Len(d) = 1 + Len(c2) + Len(m2) /\ d[1] = Len(c2)
        /\ \A i \in 1..Len(c2) : d[i + 1] = c2[i]
        /\ \A i \in 1..Len(m2) : d[i + (1 + Len(c2))] = m2[i]
    BY BindAt
  <1>0. b = d
    OBVIOUS
  <1> HIDE DEF b, d
  <1>3. Len(c1) = Len(c2)
    BY <1>0, <1>1, <1>2
  <1>4. Len(m1) = Len(m2)
    BY <1>0, <1>1, <1>2, <1>3
  <1>5. \A i \in 1..Len(c1) : c1[i] = c2[i]
    BY <1>0, <1>1, <1>2, <1>3
  <1>6. \A i \in 1..Len(m1) : m1[i] = m2[i]
    BY <1>0, <1>1, <1>2, <1>3, <1>4
  <1> QED  BY <1>3, <1>4, <1>5, <1>6, SeqEqual

LEMMA BytesAreSequences ==
  Contexts \subseteq Seq(Nat) /\ Messages \subseteq Seq(Nat)
  <1>1. ASSUME NEW n, NEW q \in SeqOf(Octets, n), n \in Nat PROVE q \in Seq(Nat)
    <2>1. PICK m \in 0..n : q \in [1..m -> Octets]
      BY <1>1 DEF SeqOf
    <2>0. Octets \subseteq Nat
      BY SignaturesAssumption
    <2>3. m \in Nat
      BY <1>1, <2>1
    <2>2. q \in [1..m -> Nat]
      BY <2>0, <2>1
    <2> QED  BY <2>2, <2>3
  <1> QED  BY <1>1, SignaturesAssumption DEF Contexts, Messages

SignInv ==
  \A r \in issued :
    /\ r.seed \in Seeds /\ r.context \in Contexts /\ r.message \in Messages
    /\ r.signature = sign(from_seed(r.seed), r.context, r.message)
    /\ is_reserved_context(r.context) => r.to = "protocol"

LEMMA SignStep ==
  ASSUME SignInv, SignNext
  PROVE  SignInv'
  <1>1. PICK seed \in Seeds, context \in Contexts, message \in Messages :
          ProtocolSigns(seed, context, message) \/ ApplicationSigns(seed, context, message)
    BY DEF SignNext
  <1>2. ASSUME NEW to, NEW signatures, Issue(seed, context, message, to, signatures),
               \A s \in signatures : s = sign(from_seed(seed), context, message),
               signatures # {} /\ is_reserved_context(context) => to = "protocol"
        PROVE  SignInv'
    <2>1. ASSUME NEW r \in issued' \ issued
          PROVE  /\ r.seed = seed /\ r.context = context /\ r.message = message
                 /\ r.signature = sign(from_seed(seed), context, message) /\ r.to = to
                 /\ signatures # {}
      BY <1>2 DEF Issue
    <2> QED  BY <2>1, <1>2 DEF SignInv
  <1>3. CASE ProtocolSigns(seed, context, message)
    BY <1>3, <1>2 DEF ProtocolSigns
  <1>4. CASE ApplicationSigns(seed, context, message)
    BY <1>4, <1>2 DEF ApplicationSigns, sign_application
  <1> QED  BY <1>1, <1>3, <1>4

LEMMA SignMeans ==
  ASSUME SignInv
  PROVE  OnlyWhatWasSigned
  <1> SUFFICES ASSUME NEW a \in issued, NEW b \in issued, NEW seed \in Seeds,
                      NEW context \in Contexts, NEW message \in Messages,
                      verify(verifying_key(from_seed(seed)), context, message,
                             [ed |-> a.signature.ed, ml |-> b.signature.ml])
               PROVE  /\ a.seed = seed /\ a.context = context /\ a.message = message
                      /\ is_reserved_context(context) => a.to = "protocol"
    BY DEF OnlyWhatWasSigned
  <1>1. a.signature = sign(from_seed(a.seed), a.context, a.message)
    BY DEF SignInv
  <1>2. /\ a.signature.ed.by = from_seed(a.seed).ed
        /\ a.signature.ed.over = bind(a.context, a.message)
    BY <1>1 DEF sign
  <1>3. /\ <<"public", a.signature.ed.by>> = <<"public", from_seed(seed).ed>>
        /\ a.signature.ed.over = bind(context, message)
    BY DEF verify, verifying_key
  <1>4. a.seed = seed
    BY <1>2, <1>3 DEF from_seed
  <1>5. /\ a.context \in Seq(Nat) /\ a.message \in Seq(Nat)
        /\ context \in Seq(Nat) /\ message \in Seq(Nat)
    BY BytesAreSequences DEF SignInv
  <1>6. a.context = context /\ a.message = message
    <2> DEFINE c == a.context
               m == a.message
    <2>1. bind(c, m) = bind(context, message)
      BY <1>2, <1>3
    <2>2. c \in Seq(Nat) /\ m \in Seq(Nat) /\ context \in Seq(Nat) /\ message \in Seq(Nat)
      BY <1>5
    <2> HIDE DEF c, m
    <2>3. c = context /\ m = message
      BY <2>1, <2>2, BindInjective
    <2> QED  BY <2>3 DEF c, m
  <1> QED  BY <1>4, <1>6 DEF SignInv

-----------------------------------------------------------------------------
(* The language boundaries.                                                *)

(* The first check that fails decides.                                     *)
LEMMA VerdictAt ==
  ASSUME NEW s, DOMAIN s \subseteq Int, NEW i \in DOMAIN s, ~Passes(s[i]),
         \A j \in DOMAIN s : j < i => Passes(s[j])
  PROVE  Verdict(s) = s[i]
  <1>1. i \in Stops(s) /\ \A j \in Stops(s) : i <= j
    BY DEF Stops
  <1>2. PICK k \in Stops(s) : /\ \A j \in Stops(s) : k <= j
                              /\ Verdict(s) = s[k]
    BY <1>1 DEF Verdict
  <1>3. k = i
    BY <1>1, <1>2 DEF Stops
  <1> QED  BY <1>2, <1>3

LEMMA VerdictOK ==
  ASSUME NEW s, \A i \in DOMAIN s : Passes(s[i])
  PROVE  Verdict(s) = "OK"
  BY DEF Verdict, Stops

AllOrNothing(s) == Verdict(s) # "OK" => Written(s) = {}

(* Nothing is written before the last check, the k-th step.                *)
LEMMA WrittenLast ==
  ASSUME NEW s, NEW k \in Int, DOMAIN s \subseteq Int,
         \A i \in DOMAIN s : IF i <= k THEN s[i] \notin Slots ELSE Passes(s[i])
  PROVE  AllOrNothing(s)
  <1> SUFFICES ASSUME Verdict(s) # "OK" PROVE Written(s) = {}
    BY DEF AllOrNothing
  <1>1. PICK j \in DOMAIN s : ~Passes(s[j])
    BY VerdictOK
  <1>2. j \in Stops(s) /\ j <= k
    BY <1>1 DEF Stops
  <1> QED  BY <1>2 DEF Written

(* Lists of each length the entry points have, with their checks first.    *)
LEMMA Verdict1 ==
  ASSUME NEW x1
  PROVE  /\ Verdict(<<x1>>) = IF ~Passes(x1) THEN x1 ELSE "OK"
         /\ AllOrNothing(<<x1>>)
  <1> DEFINE s == <<x1>>
  <1>1. DOMAIN s = 1..1 /\ s[1] = x1
    OBVIOUS
  <1> HIDE DEF s
  <1>2. Verdict(s) = IF ~Passes(x1) THEN x1 ELSE "OK"
    BY <1>1, VerdictAt, VerdictOK
  <1>3. AllOrNothing(s)
    BY <1>1, <1>2 DEF AllOrNothing, Written, Passes
  <1> QED  BY <1>2, <1>3 DEF s

LEMMA Verdict2 ==
  ASSUME NEW x1, NEW x2
  PROVE  /\ Verdict(<<x1, x2>>) = IF ~Passes(x1) THEN x1 ELSE IF ~Passes(x2) THEN x2 ELSE
            "OK"
         /\ (\A x \in {x1} : x \notin Slots) =>
              AllOrNothing(<<x1, x2>>)
  <1> DEFINE s == <<x1, x2>>
  <1>1. /\ DOMAIN s = 1..2
        /\ s[1] = x1 /\ s[2] = x2
    OBVIOUS
  <1> HIDE DEF s
  <1>2. Verdict(s) =
          IF ~Passes(x1) THEN x1 ELSE IF ~Passes(x2) THEN x2 ELSE "OK"
    BY <1>1, VerdictAt, VerdictOK
  <1>3. ASSUME (\A x \in {x1} : x \notin Slots)
        PROVE  AllOrNothing(s)
    <2>1. CASE x2 \in Slots
      <3>1. DOMAIN s \subseteq Int /\ \A i \in DOMAIN s :
              IF i <= 1 THEN s[i] \notin Slots ELSE Passes(s[i])
        BY <1>1, <1>3, <2>1 DEF Passes
      <3> QED  BY <3>1, WrittenLast
    <2>2. CASE x2 \notin Slots
      BY <1>1, <1>3, <2>2 DEF AllOrNothing, Written
    <2> QED  BY <2>1, <2>2
  <1> QED  BY <1>2, <1>3 DEF s

LEMMA Verdict3 ==
  ASSUME NEW x1, NEW x2, NEW x3
  PROVE  /\ Verdict(<<x1, x2, x3>>) = IF ~Passes(x1) THEN x1 ELSE IF ~Passes(x2) THEN x2
            ELSE IF ~Passes(x3) THEN x3 ELSE "OK"
         /\ (\A x \in {x1, x2} : x \notin Slots) =>
              AllOrNothing(<<x1, x2, x3>>)
  <1> DEFINE s == <<x1, x2, x3>>
  <1>1. /\ DOMAIN s = 1..3
        /\ s[1] = x1 /\ s[2] = x2 /\ s[3] = x3
    OBVIOUS
  <1> HIDE DEF s
  <1>2. Verdict(s) =
          IF ~Passes(x1) THEN x1 ELSE IF ~Passes(x2) THEN x2 ELSE IF ~Passes(x3) THEN x3
          ELSE "OK"
    BY <1>1, VerdictAt, VerdictOK
  <1>3. ASSUME (\A x \in {x1, x2} : x \notin Slots)
        PROVE  AllOrNothing(s)
    <2>1. CASE x3 \in Slots
      <3>1. DOMAIN s \subseteq Int /\ \A i \in DOMAIN s :
              IF i <= 2 THEN s[i] \notin Slots ELSE Passes(s[i])
        BY <1>1, <1>3, <2>1 DEF Passes
      <3> QED  BY <3>1, WrittenLast
    <2>2. CASE x3 \notin Slots
      BY <1>1, <1>3, <2>2 DEF AllOrNothing, Written
    <2> QED  BY <2>1, <2>2
  <1> QED  BY <1>2, <1>3 DEF s

LEMMA Verdict4 ==
  ASSUME NEW x1, NEW x2, NEW x3, NEW x4
  PROVE  /\ Verdict(<<x1, x2, x3, x4>>) = IF ~Passes(x1) THEN x1 ELSE IF ~Passes(x2) THEN
            x2 ELSE IF ~Passes(x3) THEN x3 ELSE IF ~Passes(x4) THEN x4 ELSE "OK"
         /\ (\A x \in {x1, x2, x3} : x \notin Slots) =>
              AllOrNothing(<<x1, x2, x3, x4>>)
  <1> DEFINE s == <<x1, x2, x3, x4>>
  <1>1. /\ DOMAIN s = 1..4
        /\ s[1] = x1 /\ s[2] = x2 /\ s[3] = x3 /\ s[4] = x4
    OBVIOUS
  <1> HIDE DEF s
  <1>2. Verdict(s) =
          IF ~Passes(x1) THEN x1 ELSE IF ~Passes(x2) THEN x2 ELSE IF ~Passes(x3) THEN x3
          ELSE IF ~Passes(x4) THEN x4 ELSE "OK"
    BY <1>1, VerdictAt, VerdictOK
  <1>3. ASSUME (\A x \in {x1, x2, x3} : x \notin Slots)
        PROVE  AllOrNothing(s)
    <2>1. CASE x4 \in Slots
      <3>1. DOMAIN s \subseteq Int /\ \A i \in DOMAIN s :
              IF i <= 3 THEN s[i] \notin Slots ELSE Passes(s[i])
        BY <1>1, <1>3, <2>1 DEF Passes
      <3> QED  BY <3>1, WrittenLast
    <2>2. CASE x4 \notin Slots
      BY <1>1, <1>3, <2>2 DEF AllOrNothing, Written
    <2> QED  BY <2>1, <2>2
  <1> QED  BY <1>2, <1>3 DEF s

LEMMA Verdict5 ==
  ASSUME NEW x1, NEW x2, NEW x3, NEW x4, NEW x5
  PROVE  /\ Verdict(<<x1, x2, x3, x4, x5>>) = IF ~Passes(x1) THEN x1 ELSE IF ~Passes(x2)
            THEN x2 ELSE IF ~Passes(x3) THEN x3 ELSE IF ~Passes(x4) THEN x4 ELSE IF
            ~Passes(x5) THEN x5 ELSE "OK"
         /\ (\A x \in {x1, x2, x3, x4} : x \notin Slots) =>
              AllOrNothing(<<x1, x2, x3, x4, x5>>)
  <1> DEFINE s == <<x1, x2, x3, x4, x5>>
  <1>1. /\ DOMAIN s = 1..5
        /\ s[1] = x1 /\ s[2] = x2 /\ s[3] = x3 /\ s[4] = x4 /\ s[5] = x5
    OBVIOUS
  <1> HIDE DEF s
  <1>2. Verdict(s) =
          IF ~Passes(x1) THEN x1 ELSE IF ~Passes(x2) THEN x2 ELSE IF ~Passes(x3) THEN x3
          ELSE IF ~Passes(x4) THEN x4 ELSE IF ~Passes(x5) THEN x5 ELSE "OK"
    BY <1>1, VerdictAt, VerdictOK
  <1>3. ASSUME (\A x \in {x1, x2, x3, x4} : x \notin Slots)
        PROVE  AllOrNothing(s)
    <2>1. CASE x5 \in Slots
      <3>1. DOMAIN s \subseteq Int /\ \A i \in DOMAIN s :
              IF i <= 4 THEN s[i] \notin Slots ELSE Passes(s[i])
        BY <1>1, <1>3, <2>1 DEF Passes
      <3> QED  BY <3>1, WrittenLast
    <2>2. CASE x5 \notin Slots
      BY <1>1, <1>3, <2>2 DEF AllOrNothing, Written
    <2> QED  BY <2>1, <2>2
  <1> QED  BY <1>2, <1>3 DEF s

LEMMA Verdict6 ==
  ASSUME NEW x1, NEW x2, NEW x3, NEW x4, NEW x5, NEW x6
  PROVE  /\ Verdict(<<x1, x2, x3, x4, x5, x6>>) = IF ~Passes(x1) THEN x1 ELSE IF
            ~Passes(x2) THEN x2 ELSE IF ~Passes(x3) THEN x3 ELSE IF ~Passes(x4) THEN x4
            ELSE IF ~Passes(x5) THEN x5 ELSE IF ~Passes(x6) THEN x6 ELSE "OK"
         /\ (\A x \in {x1, x2, x3, x4, x5} : x \notin Slots) =>
              AllOrNothing(<<x1, x2, x3, x4, x5, x6>>)
  <1> DEFINE s == <<x1, x2, x3, x4, x5, x6>>
  <1>1. /\ DOMAIN s = 1..6
        /\ s[1] = x1 /\ s[2] = x2 /\ s[3] = x3 /\ s[4] = x4 /\ s[5] = x5 /\ s[6] = x6
    OBVIOUS
  <1> HIDE DEF s
  <1>2. Verdict(s) =
          IF ~Passes(x1) THEN x1 ELSE IF ~Passes(x2) THEN x2 ELSE IF ~Passes(x3) THEN x3
          ELSE IF ~Passes(x4) THEN x4 ELSE IF ~Passes(x5) THEN x5 ELSE IF ~Passes(x6) THEN
          x6 ELSE "OK"
    BY <1>1, VerdictAt, VerdictOK
  <1>3. ASSUME (\A x \in {x1, x2, x3, x4, x5} : x \notin Slots)
        PROVE  AllOrNothing(s)
    <2>1. CASE x6 \in Slots
      <3>1. DOMAIN s \subseteq Int /\ \A i \in DOMAIN s :
              IF i <= 5 THEN s[i] \notin Slots ELSE Passes(s[i])
        BY <1>1, <1>3, <2>1 DEF Passes
      <3> QED  BY <3>1, WrittenLast
    <2>2. CASE x6 \notin Slots
      BY <1>1, <1>3, <2>2 DEF AllOrNothing, Written
    <2> QED  BY <2>1, <2>2
  <1> QED  BY <1>2, <1>3 DEF s

LEMMA Verdict7 ==
  ASSUME NEW x1, NEW x2, NEW x3, NEW x4, NEW x5, NEW x6, NEW x7
  PROVE  /\ Verdict(<<x1, x2, x3, x4, x5, x6, x7>>) = IF ~Passes(x1) THEN x1 ELSE IF
            ~Passes(x2) THEN x2 ELSE IF ~Passes(x3) THEN x3 ELSE IF ~Passes(x4) THEN x4
            ELSE IF ~Passes(x5) THEN x5 ELSE IF ~Passes(x6) THEN x6 ELSE IF ~Passes(x7)
            THEN x7 ELSE "OK"
         /\ (\A x \in {x1, x2, x3, x4, x5, x6} : x \notin Slots) =>
              AllOrNothing(<<x1, x2, x3, x4, x5, x6, x7>>)
  <1> DEFINE s == <<x1, x2, x3, x4, x5, x6, x7>>
  <1>1. /\ DOMAIN s = 1..7
        /\ s[1] = x1 /\ s[2] = x2 /\ s[3] = x3 /\ s[4] = x4 /\ s[5] = x5 /\ s[6] = x6 /\
           s[7] = x7
    OBVIOUS
  <1> HIDE DEF s
  <1>2. Verdict(s) =
          IF ~Passes(x1) THEN x1 ELSE IF ~Passes(x2) THEN x2 ELSE IF ~Passes(x3) THEN x3
          ELSE IF ~Passes(x4) THEN x4 ELSE IF ~Passes(x5) THEN x5 ELSE IF ~Passes(x6) THEN
          x6 ELSE IF ~Passes(x7) THEN x7 ELSE "OK"
    BY <1>1, VerdictAt, VerdictOK
  <1>3. ASSUME (\A x \in {x1, x2, x3, x4, x5, x6} : x \notin Slots)
        PROVE  AllOrNothing(s)
    <2>1. CASE x7 \in Slots
      <3>1. DOMAIN s \subseteq Int /\ \A i \in DOMAIN s :
              IF i <= 6 THEN s[i] \notin Slots ELSE Passes(s[i])
        BY <1>1, <1>3, <2>1 DEF Passes
      <3> QED  BY <3>1, WrittenLast
    <2>2. CASE x7 \notin Slots
      BY <1>1, <1>3, <2>2 DEF AllOrNothing, Written
    <2> QED  BY <2>1, <2>2
  <1> QED  BY <1>2, <1>3 DEF s

LEMMA Verdict8 ==
  ASSUME NEW x1, NEW x2, NEW x3, NEW x4, NEW x5, NEW x6, NEW x7, NEW x8
  PROVE  /\ Verdict(<<x1, x2, x3, x4, x5, x6, x7, x8>>) = IF ~Passes(x1) THEN x1 ELSE IF
            ~Passes(x2) THEN x2 ELSE IF ~Passes(x3) THEN x3 ELSE IF ~Passes(x4) THEN x4
            ELSE IF ~Passes(x5) THEN x5 ELSE IF ~Passes(x6) THEN x6 ELSE IF ~Passes(x7)
            THEN x7 ELSE IF ~Passes(x8) THEN x8 ELSE "OK"
         /\ (\A x \in {x1, x2, x3, x4, x5, x6, x7} : x \notin Slots) =>
              AllOrNothing(<<x1, x2, x3, x4, x5, x6, x7, x8>>)
  <1> DEFINE s == <<x1, x2, x3, x4, x5, x6, x7, x8>>
  <1>1. /\ DOMAIN s = 1..8
        /\ s[1] = x1 /\ s[2] = x2 /\ s[3] = x3 /\ s[4] = x4 /\ s[5] = x5 /\ s[6] = x6 /\
           s[7] = x7 /\ s[8] = x8
    OBVIOUS
  <1> HIDE DEF s
  <1>2. Verdict(s) =
          IF ~Passes(x1) THEN x1 ELSE IF ~Passes(x2) THEN x2 ELSE IF ~Passes(x3) THEN x3
          ELSE IF ~Passes(x4) THEN x4 ELSE IF ~Passes(x5) THEN x5 ELSE IF ~Passes(x6) THEN
          x6 ELSE IF ~Passes(x7) THEN x7 ELSE IF ~Passes(x8) THEN x8 ELSE "OK"
    BY <1>1, VerdictAt, VerdictOK
  <1>3. ASSUME (\A x \in {x1, x2, x3, x4, x5, x6, x7} : x \notin Slots)
        PROVE  AllOrNothing(s)
    <2>1. CASE x8 \in Slots
      <3>1. DOMAIN s \subseteq Int /\ \A i \in DOMAIN s :
              IF i <= 7 THEN s[i] \notin Slots ELSE Passes(s[i])
        BY <1>1, <1>3, <2>1 DEF Passes
      <3> QED  BY <3>1, WrittenLast
    <2>2. CASE x8 \notin Slots
      BY <1>1, <1>3, <2>2 DEF AllOrNothing, Written
    <2> QED  BY <2>1, <2>2
  <1> QED  BY <1>2, <1>3 DEF s

LEMMA Verdict10 ==
  ASSUME NEW x1, NEW x2, NEW x3, NEW x4, NEW x5, NEW x6, NEW x7, NEW x8, NEW x9, NEW x10
  PROVE  /\ Verdict(<<x1, x2, x3, x4, x5, x6, x7, x8, x9, x10>>) = IF ~Passes(x1) THEN x1
            ELSE IF ~Passes(x2) THEN x2 ELSE IF ~Passes(x3) THEN x3 ELSE IF ~Passes(x4)
            THEN x4 ELSE IF ~Passes(x5) THEN x5 ELSE IF ~Passes(x6) THEN x6 ELSE IF
            ~Passes(x7) THEN x7 ELSE IF ~Passes(x8) THEN x8 ELSE IF ~Passes(x9) THEN x9
            ELSE IF ~Passes(x10) THEN x10 ELSE "OK"
         /\ (\A x \in {x1, x2, x3, x4, x5, x6, x7, x8, x9} : x \notin Slots) =>
              AllOrNothing(<<x1, x2, x3, x4, x5, x6, x7, x8, x9, x10>>)
  <1> DEFINE s == <<x1, x2, x3, x4, x5, x6, x7, x8, x9, x10>>
  <1>1. /\ DOMAIN s = 1..10
        /\ s[1] = x1 /\ s[2] = x2 /\ s[3] = x3 /\ s[4] = x4 /\ s[5] = x5 /\ s[6] = x6 /\
           s[7] = x7 /\ s[8] = x8 /\ s[9] = x9 /\ s[10] = x10
    OBVIOUS
  <1> HIDE DEF s
  <1>2. Verdict(s) =
          IF ~Passes(x1) THEN x1 ELSE IF ~Passes(x2) THEN x2 ELSE IF ~Passes(x3) THEN x3
          ELSE IF ~Passes(x4) THEN x4 ELSE IF ~Passes(x5) THEN x5 ELSE IF ~Passes(x6) THEN
          x6 ELSE IF ~Passes(x7) THEN x7 ELSE IF ~Passes(x8) THEN x8 ELSE IF ~Passes(x9)
          THEN x9 ELSE IF ~Passes(x10) THEN x10 ELSE "OK"
    BY <1>1, VerdictAt, VerdictOK
  <1>3. ASSUME (\A x \in {x1, x2, x3, x4, x5, x6, x7, x8, x9} : x \notin Slots)
        PROVE  AllOrNothing(s)
    <2>1. CASE x10 \in Slots
      <3>1. DOMAIN s \subseteq Int /\ \A i \in DOMAIN s :
              IF i <= 9 THEN s[i] \notin Slots ELSE Passes(s[i])
        BY <1>1, <1>3, <2>1 DEF Passes
      <3> QED  BY <3>1, WrittenLast
    <2>2. CASE x10 \notin Slots
      BY <1>1, <1>3, <2>2 DEF AllOrNothing, Written
    <2> QED  BY <2>1, <2>2
  <1> QED  BY <1>2, <1>3 DEF s

LEMMA KeyringCode ==
  /\ keyring_error_code("Malformed") = "MALFORMED"
  /\ \A why : keyring_error_code(why) \in
               {"WRONG_PASSPHRASE", "NOT_A_KEY", "INVALID_ARGUMENT", "MALFORMED"}
  <1>1. keyring_error_code("Malformed") = "MALFORMED"
    BY DEF keyring_error_code
  <1>2. ASSUME NEW why
        PROVE  keyring_error_code(why) \in
                 {"WRONG_PASSPHRASE", "NOT_A_KEY", "INVALID_ARGUMENT", "MALFORMED"}
    BY Zenon DEF keyring_error_code
  <1> QED  BY <1>1, <1>2


(* Whether what the lists c and js come to fits the arguments a: what      *)
(* YesMeansGood and SurfacesAgree ask for.                                 *)
Fits(fn, a, c, js) ==
  /\ Verdict(c) = "OK" => \A n \in DOMAIN a : a[n] \in {"good", "absent"} \cup Unchecked(fn)
  /\ (\A n \in DOMAIN a : a[n] \notin {"null", "not_utf8", "huge", "large", "unexpected"}) =>
       (Verdict(c) = "OK" <=> Verdict(js) = "OK")
  /\ OneFault(a, "garbled") =>
       Verdict(c) = "MALFORMED" /\ (fn = "documents" => Verdict(js) = "malformed")
  /\ OneFault(a, "other") =>
       Verdict(c) \in {"AUTHENTICATION", "NO_MATCHING_RECIPIENT"} /\ Verdict(js) = "error"

LEMMA ObjectCode ==
  /\ object_error_code("other") = "NO_MATCHING_RECIPIENT"
  /\ object_error_code("tampered") = "AUTHENTICATION"
  /\ \A q : q \notin {"other", "tampered"} => object_error_code(q) = "MALFORMED"
  BY Zenon DEF object_error_code

LEMMA IdentityVerifyFits ==
  ASSUME NEW a \in [out : Given, log : Document, recovery : KeyBytes]
  PROVE  /\ Fits("documents", a, hide_identity_verify(a), js_verify_identity(a))
         /\ AllOrNothing(hide_identity_verify(a))
    BY Verdict4, Verdict7 DEF hide_identity_verify, js_verify_identity, verified_log,
     from_bytes, Decodes, borrow, Document, KeyBytes, Given, Fails, INVALID, Passes,
     Slots, Unchecked, OneFault, Fits

LEMMA IdentityHeadFits ==
  ASSUME NEW a \in [out : Given, log : Document, recovery : KeyBytes]
  PROVE  /\ Fits("documents", a, hide_identity_head(a), js_identity_head(a))
         /\ AllOrNothing(hide_identity_head(a))
    BY Verdict4, Verdict7 DEF hide_identity_head, js_identity_head, js_verify_identity,
     verified_log, from_bytes, Decodes, borrow, Document, KeyBytes, Given, Fails,
     INVALID, Passes, Slots, Unchecked, OneFault, Fits

LEMMA TrustsFits ==
  ASSUME NEW a \in [out : Given, log : Document, recovery : KeyBytes, device : KeyBytes \ {"other"}]
  PROVE  /\ Fits("documents", a, hide_identity_trusts_device(a), js_identity_trusts_device(a))
         /\ AllOrNothing(hide_identity_trusts_device(a))
    BY Verdict2, Verdict4, Verdict8 DEF hide_identity_trusts_device,
     js_identity_trusts_device, js_verify_identity, from_bytes, Decodes, borrow,
     Document, KeyBytes, Given, Fails, INVALID, Passes, Slots, Unchecked, OneFault, Fits

LEMMA EpochFits ==
  ASSUME NEW a \in [out : Given, chain : Document]
  PROVE  /\ Fits("documents", a, hide_epoch_verify(a), js_epoch_records(a))
         /\ AllOrNothing(hide_epoch_verify(a))
    BY Verdict3, Verdict5 DEF hide_epoch_verify, js_epoch_records, Decodes, borrow,
     Document, Given, Fails, INVALID, Passes, Slots, Unchecked, OneFault, Fits

LEMMA EpochPublicFits ==
  ASSUME NEW a \in [out : Given, chain : Document, epoch : {"good", "beyond"}]
  PROVE  /\ Fits("documents", a, hide_epoch_public_key(a), js_epoch_public_key(a))
         /\ AllOrNothing(hide_epoch_public_key(a))
    BY Verdict2, Verdict3, Verdict6 DEF hide_epoch_public_key, js_epoch_public_key,
     js_epoch_records, Decodes, borrow, Document, Given, Fails, INVALID, Passes, Slots,
     Unchecked, OneFault, Fits

LEMMA PinnedFits ==
  ASSUME NEW a \in [out : Given, log : Document, binding : Document, root : Hash]
  PROVE  /\ Fits("documents", a, hide_identity_verify_pinned(a), js_pinned_log(a))
         /\ AllOrNothing(hide_identity_verify_pinned(a))
    BY Verdict3, Verdict5 DEF hide_identity_verify_pinned, js_pinned_log, pinned_log,
     hash, Decodes, borrow, Document, Hash, Given, Fails, INVALID, Passes, Slots,
     Unchecked, OneFault, Fits

LEMMA BoundFits ==
  ASSUME NEW a \in [out : Given, log : Document, binding : Document, root : Hash,
                     chain : Document, epochs : Document]
  PROVE  /\ Fits("documents", a, hide_epoch_verify_bound(a), js_verify_epoch_chain_bound(a))
         /\ AllOrNothing(hide_epoch_verify_bound(a))
    BY Verdict3, Verdict4, Verdict5, Verdict6 DEF hide_epoch_verify_bound,
     js_verify_epoch_chain_bound, pinned_log, js_pinned_log, js_epoch_records, hash,
     Decodes, borrow, Document, Hash, Given, Fails, INVALID, Passes, Slots, Unchecked,
     OneFault, Fits

LEMMA InclusionFits ==
  ASSUME NEW a \in [leaf : Hash, path : Hash, root : Hash]
  PROVE  /\ Fits("proofs", a, hide_transparency_verify_inclusion(a), js_verify_inclusion(a))
         /\ AllOrNothing(hide_transparency_verify_inclusion(a))
    BY Verdict3, Verdict4 DEF hide_transparency_verify_inclusion, js_verify_inclusion,
     hash, hash_path, borrow, Hash, Fails, INVALID, Passes, Slots, Unchecked, OneFault,
     Fits

LEMMA ConsistencyFits ==
  ASSUME NEW a \in [path : Hash, old : Hash, new : Hash]
  PROVE  /\ Fits("proofs", a, hide_transparency_verify_consistency(a), js_verify_consistency(a))
         /\ AllOrNothing(hide_transparency_verify_consistency(a))
    BY Verdict3, Verdict4 DEF hide_transparency_verify_consistency,
     js_verify_consistency, hash, hash_path, borrow, Hash, Fails, INVALID, Passes,
     Slots, Unchecked, OneFault, Fits

LEMMA CheckpointFits ==
  ASSUME NEW a \in [number : Given, out : Given, origin : {"good", "null", "not_utf8", "other"},
                     note : Document, key : KeyBytes, size : {"good", "unexpected"}]
  PROVE  /\ Fits("checkpoints", a, hide_checkpoint_verify(a), js_verify_checkpoint(a))
         /\ AllOrNothing(hide_checkpoint_verify(a))
  <1> DEFINE s == hide_checkpoint_verify(a)
  <1>1. Fits("checkpoints", a, s, js_verify_checkpoint(a))
    BY Verdict4, Verdict8 DEF hide_checkpoint_verify, js_verify_checkpoint, borrow,
       borrow_str, from_bytes, Decodes, Document, KeyBytes, Given, Fails, INVALID,
       Passes, Slots, Unchecked, OneFault, Fits
  <1>2. DOMAIN s = 1..8
    BY DEF hide_checkpoint_verify
  <1>3. \A i \in 1..8 : IF i <= 6 THEN s[i] \notin Slots ELSE Passes(s[i])
    BY DEF hide_checkpoint_verify, borrow, borrow_str, from_bytes, Decodes, Document,
       KeyBytes, Given, Fails, INVALID, Passes, Slots
  <1> HIDE DEF s
  <1>4. DOMAIN s \subseteq Int
    BY <1>2
  <1>5. AllOrNothing(s)
    BY <1>2, <1>3, <1>4, WrittenLast
  <1> QED  BY <1>1, <1>5 DEF s

LEMMA SignFits ==
  ASSUME NEW a \in [signer : Given, out : Given, context : {"good", "null", "huge", "reserved"},
                     message : Payload]
  PROVE  /\ Fits("signatures", a, hide_sign_message(a), js_sign(a))
         /\ AllOrNothing(hide_sign_message(a))
    BY Verdict2, Verdict5 DEF hide_sign_message, js_sign, borrow, Payload, Given, Fails,
     INVALID, Passes, Slots, Unchecked, OneFault, Fits

LEMMA VerifyFits ==
  ASSUME NEW a \in [key : KeyBytes, context : {"good", "null", "huge", "other"},
                     message : Payload \cup {"other"}, signature : SignatureBytes]
  PROVE  /\ Fits("signatures", a, hide_verify_message(a), js_verify(a))
         /\ AllOrNothing(hide_verify_message(a))
    BY Verdict3, Verdict7 DEF hide_verify_message, js_verify, borrow, from_bytes,
     Signed, KeyBytes, Payload, SignatureBytes, Fails, INVALID, Passes, Slots,
     Unchecked, OneFault, Fits

LEMMA NewChallengeFits ==
  ASSUME NEW a \in [out : Given, audience : {"good", "null", "not_utf8"}]
  PROVE  /\ Fits("challenges", a, hide_challenge_new(a), js_new_challenge(a))
         /\ AllOrNothing(hide_challenge_new(a))
    BY Verdict1, Verdict3 DEF hide_challenge_new, js_new_challenge, Given, Fails,
     INVALID, Passes, Slots, Unchecked, OneFault, Fits

LEMMA AnswerFits ==
  ASSUME NEW a \in [signer : Given, out : Given, challenge : Document \ {"other"}]
  PROVE  /\ Fits("challenges", a, hide_challenge_answer(a), js_answer(a))
         /\ AllOrNothing(hide_challenge_answer(a))
    BY Verdict1, Verdict4 DEF hide_challenge_answer, js_answer, borrow, Decodes,
     Document, Given, Fails, INVALID, Passes, Slots, Unchecked, OneFault, Fits

LEMMA AcceptFits ==
  ASSUME NEW a \in [spent : Given, challenge : Document, signature : SignatureBytes,
                     key : KeyBytes, when : {"good", "expired", "replayed"}]
  PROVE  /\ Fits("challenges", a, hide_challenge_accept(a), js_accept(a))
         /\ AllOrNothing(hide_challenge_accept(a))
    BY Verdict5, Verdict10 DEF hide_challenge_accept, js_accept, borrow, from_bytes,
     Decodes, Answered, Document, SignatureBytes, KeyBytes, Given, Fails, INVALID,
     Passes, Slots, Unchecked, OneFault, Fits

LEMMA EncryptFits ==
  ASSUME NEW a \in [out : Given, count : {"good", "none", "many"}, plaintext : Payload,
                     recipients : {"good", "null", "nonkey"}, filename : Label, media_type : Label]
  PROVE  /\ Fits("containers", a, hide_encrypt(a), js_encrypt(a))
         /\ AllOrNothing(hide_encrypt(a))
    BY Verdict4, Verdict8, ObjectCode DEF hide_encrypt, js_encrypt, borrow, borrow_str,
     Payload, Label, Given, Fails, INVALID, Passes, Slots, Unchecked, OneFault, Fits

LEMMA DecryptFits ==
  ASSUME NEW a \in [secret : Given, out : Given, container : Document \cup {"large", "tampered"},
                     filename : {"good", "absent"}, media_type : {"good", "absent"}]
  PROVE  /\ Fits("containers", a, hide_decrypt(a), js_decrypt(a))
         /\ AllOrNothing(hide_decrypt(a))
  <1> DEFINE s == hide_decrypt(a)
  <1>1. Fits("containers", a, s, js_decrypt(a))
    BY Verdict1, Verdict6, ObjectCode DEF hide_decrypt, js_decrypt, IfGiven, borrow,
       Document, Given, Fails, INVALID, Passes, Slots, Unchecked, OneFault, Fits
  <1>2. DOMAIN s = 1..6
    BY DEF hide_decrypt
  <1>3. \A i \in 1..6 : IF i <= 3 THEN s[i] \notin Slots ELSE Passes(s[i])
    BY ObjectCode DEF hide_decrypt, IfGiven, borrow, Document, Given, Fails, INVALID,
       Passes, Slots
  <1> HIDE DEF s
  <1>4. DOMAIN s \subseteq Int
    BY <1>2
  <1>5. AllOrNothing(s)
    BY <1>2, <1>3, <1>4, WrittenLast
  <1> QED  BY <1>1, <1>5 DEF s

LEMMA KeypairFits ==
  ASSUME NEW a \in [secret : Given, out : Given]
  PROVE  /\ Fits("keys", a, hide_keypair_generate(a), js_generate(a))
         /\ AllOrNothing(hide_keypair_generate(a))
  <1> DEFINE s == hide_keypair_generate(a)
  <1>1. Fits("keys", a, s, js_generate(a))
    BY Verdict1, Verdict3 DEF hide_keypair_generate, js_generate, Given, Fails, INVALID,
       Passes, Slots, Unchecked, OneFault, Fits
  <1>2. DOMAIN s = 1..3
    BY DEF hide_keypair_generate
  <1>3. \A i \in 1..3 : IF i <= 1 THEN s[i] \notin Slots ELSE Passes(s[i])
    BY DEF hide_keypair_generate, Given, Fails, INVALID, Passes, Slots
  <1> HIDE DEF s
  <1>4. DOMAIN s \subseteq Int
    BY <1>2
  <1>5. AllOrNothing(s)
    BY <1>2, <1>3, <1>4, WrittenLast
  <1> QED  BY <1>1, <1>5 DEF s

LEMMA SecretPublicFits ==
  ASSUME NEW a \in [secret : Given, out : Given]
  PROVE  /\ Fits("keys", a, hide_secret_key_public(a), js_public_key(a))
         /\ AllOrNothing(hide_secret_key_public(a))
    BY Verdict1, Verdict2 DEF hide_secret_key_public, js_public_key, Given, Fails,
     INVALID, Passes, Slots, Unchecked, OneFault, Fits

LEMMA SigningPublicFits ==
  ASSUME NEW a \in [signer : Given, out : Given]
  PROVE  /\ Fits("keys", a, hide_signing_identity_public(a), js_signing_public_key(a))
         /\ AllOrNothing(hide_signing_identity_public(a))
    BY Verdict1, Verdict2 DEF hide_signing_identity_public, js_signing_public_key,
     Given, Fails, INVALID, Passes, Slots, Unchecked, OneFault, Fits

LEMMA InspectFits ==
  ASSUME NEW a \in [out : Given, data : {"good", "null", "huge"}]
  PROVE  /\ Fits("keys", a, hide_inspect_key(a), js_inspect_key(a))
         /\ AllOrNothing(hide_inspect_key(a))
    BY Verdict1, Verdict3 DEF hide_inspect_key, js_inspect_key, borrow, Given, Fails,
     INVALID, Passes, Slots, Unchecked, OneFault, Fits

LEMMA ArmorFits ==
  ASSUME NEW a \in [out : Given, data : KeyBytes \ {"other"}]
  PROVE  /\ Fits("armor", a, hide_public_key_armor(a), js_armor_public_key(a))
         /\ AllOrNothing(hide_public_key_armor(a))
    BY Verdict1, Verdict4 DEF hide_public_key_armor, js_armor_public_key, borrow,
     KeyBytes, Given, Fails, INVALID, Passes, Slots, Unchecked, OneFault, Fits

LEMMA DearmorFits ==
  ASSUME NEW a \in [out : Given, text : {"good", "null", "not_utf8", "garbled", "misfit", "nonkey"}]
  PROVE  /\ Fits("armor", a, hide_public_key_dearmor(a), js_dearmor_public_key(a))
         /\ AllOrNothing(hide_public_key_dearmor(a))
    BY Verdict2, Verdict5, KeyringCode DEF hide_public_key_dearmor,
     js_dearmor_public_key, Given, Fails, INVALID, Passes, Slots, Unchecked, OneFault,
     Fits

(* Key files: the two surfaces ask the same of the keyring, each in lines  *)
(* of its own.                                                             *)
LEMMA CodeThrown ==
  ASSUME NEW o
  PROVE  /\ Code(o) \notin Slots /\ Thrown(o) \notin Slots
         /\ Code(o) = "OK" <=> Thrown(o) = "OK"
         /\ Code(o) = "OK" <=> o.ok
  <1>1. CASE o.ok
    BY <1>1 DEF Code, Thrown, Slots
  <1>2. CASE ~o.ok
    <2>1. Code(o) = keyring_error_code(o.why) /\ Thrown(o) = "error"
      BY <1>2 DEF Code, Thrown
    <2>2. keyring_error_code(o.why) \in
            {"WRONG_PASSPHRASE", "NOT_A_KEY", "INVALID_ARGUMENT", "MALFORMED"}
      BY KeyringCode
    <2> QED  BY <1>2, <2>1, <2>2 DEF Slots
  <1> QED  BY <1>1, <1>2

LEMMA SigningVerdicts ==
  ASSUME NEW file, NEW p
  PROVE  /\ signing_identity_open(file, p) \notin Slots /\ js_signing_load(file, p) \notin Slots
         /\ signing_identity_open(file, p) = "OK" <=> js_signing_load(file, p) = "OK"
  <1> DEFINE opened == unprotect_seed(file, p)
             code == Code(opened)
  <1>1. code \notin Slots /\ (code = "OK" <=> opened.ok)
    BY CodeThrown
  <1>2. /\ signing_identity_open(file, p) =
             IF inspect(file) = "Raw" THEN IF file = Torn THEN "NOT_A_KEY" ELSE "OK"
             ELSE IF p = NoPassphrase THEN "INVALID_ARGUMENT"
             ELSE IF opened.ok /\ opened.value.purpose # "Identity" THEN "NOT_A_KEY" ELSE code
        /\ js_signing_load(file, p) =
             IF inspect(file) = "Raw" THEN IF file = Torn THEN "error" ELSE "OK"
             ELSE IF p = NoPassphrase \/ ~opened.ok THEN "error"
             ELSE IF opened.value.purpose # "Identity" THEN "error" ELSE "OK"
    BY DEF signing_identity_open, js_signing_load, INVALID, Fails
  <1> HIDE DEF opened, code
  <1> QED  BY <1>1, <1>2 DEF Slots

LEMMA SecretOpenFits ==
  ASSUME NEW file, NEW p,
         NEW a \in [secret : Given, data : {"good", "null", "huge"}, passphrase : {"good", "not_utf8"}]
  PROVE  /\ Fits("key files", a, hide_secret_key_open(a, file, p), js_load(a, js_secret_load(file, p)))
         /\ AllOrNothing(hide_secret_key_open(a, file, p))
  <1> DEFINE code == Code(open(file, p))
             thrown == js_secret_load(file, p)
  <1>1. code \notin Slots /\ thrown \notin Slots /\ (code = "OK" <=> thrown = "OK")
    BY CodeThrown DEF js_secret_load
  <1>2. hide_secret_key_open(a, file, p) =
          <<Fails(a.secret = "null", INVALID), Fails(~borrow(a.data), INVALID),
            Fails(~borrow_str(a.passphrase), INVALID), code, "secret">>
    BY DEF hide_secret_key_open
  <1>3. js_load(a, thrown) = <<Fails(a.data = "huge", "error"), thrown>>
    BY DEF js_load
  <1> HIDE DEF code, thrown
  <1>4. /\ Fits("key files", a, hide_secret_key_open(a, file, p), js_load(a, thrown))
        /\ AllOrNothing(hide_secret_key_open(a, file, p))
    BY <1>1, <1>2, <1>3, Verdict2, Verdict5 DEF Fails, INVALID, borrow, borrow_str, Given, Passes,
       Slots, Unchecked, OneFault, Fits
  <1> QED  BY <1>4 DEF thrown

LEMMA SigningOpenFits ==
  ASSUME NEW file, NEW p,
         NEW a \in [signer : Given, data : {"good", "null", "huge"}, passphrase : {"good", "not_utf8"}]
  PROVE  /\ Fits("key files", a, hide_signing_identity_open(a, file, p),
                 js_load(a, js_signing_load(file, p)))
         /\ AllOrNothing(hide_signing_identity_open(a, file, p))
  <1>1. /\ signing_identity_open(file, p) \notin Slots /\ js_signing_load(file, p) \notin Slots
        /\ signing_identity_open(file, p) = "OK" <=> js_signing_load(file, p) = "OK"
    BY SigningVerdicts
  <1> QED  BY <1>1, Verdict2, Verdict5 DEF hide_signing_identity_open, js_load, Fails, INVALID,
              borrow, borrow_str, Given, Passes, Slots, Unchecked, OneFault, Fits

LEMMA ProtectFits ==
  ASSUME NEW p,
         NEW a \in [secret : Given, out : Given, passphrase : {"good", "null", "not_utf8"}]
  PROVE  /\ Fits("key files", a, hide_secret_key_protect(a, p), js_protect(p))
         /\ AllOrNothing(hide_secret_key_protect(a, p))
  <1> DEFINE code == Code(protect("seed", p))
             thrown == Thrown(protect("seed", p))
  <1>1. code \notin Slots /\ thrown \notin Slots /\ (code = "OK" <=> thrown = "OK")
    BY CodeThrown
  <1>2. /\ hide_secret_key_protect(a, p) =
             <<Fails(a.secret = "null" \/ a.out = "null", INVALID),
               Fails(a.passphrase # "good", INVALID), code, "out">>
        /\ js_protect(p) = <<thrown>>
    BY DEF hide_secret_key_protect, js_protect
  <1> HIDE DEF code, thrown
  <1> QED  BY <1>1, <1>2, Verdict1, Verdict4 DEF Fails, INVALID, Given, Passes, Slots, Unchecked,
              OneFault, Fits

LEMMA GenerateFits ==
  ASSUME NEW p, NEW a \in [out : Given, passphrase : {"good", "null", "not_utf8"}]
  PROVE  /\ Fits("key files", a, hide_identity_generate(a, p), js_identity_generate(p))
         /\ AllOrNothing(hide_identity_generate(a, p))
  <1> DEFINE code == Code(protect_identity("seed", p))
             thrown == Thrown(protect_identity("seed", p))
  <1>1. code \notin Slots /\ thrown \notin Slots /\ (code = "OK" <=> thrown = "OK")
    BY CodeThrown
  <1>2. /\ hide_identity_generate(a, p) =
             <<Fails(a.out = "null", INVALID), Fails(a.passphrase # "good", INVALID), code, "out">>
        /\ js_identity_generate(p) = <<thrown>>
    BY DEF hide_identity_generate, js_identity_generate
  <1> HIDE DEF code, thrown
  <1> QED  BY <1>1, <1>2, Verdict1, Verdict4 DEF Fails, INVALID, Given, Passes, Slots, Unchecked,
              OneFault, Fits

VerdictInv == YesMeansGood /\ SurfacesAgree

(* What fits the arguments is what the caller reads.                       *)
LEMMA ReturnFits ==
  ASSUME NEW fn, NEW a, NEW c, NEW js, Return(fn, a, c, js), Fits(fn, a, c, js), AllOrNothing(c)
  PROVE  VerdictInv'
  <1>1. /\ result'.fn = fn /\ result'.args = a /\ result'.c = Verdict(c)
        /\ result'.js = Verdict(js) /\ result'.written = Written(c)
    BY DEF Return
  <1>2. Verdict(c) = "OK" => Wrong(a) \subseteq Unchecked(fn)
    BY DEF Fits, Wrong
  <1>3. Wrong(a) \cap {"null", "not_utf8", "huge", "large", "unexpected"} = {} =>
          (Verdict(c) = "OK" <=> Verdict(js) = "OK")
    <2> SUFFICES ASSUME Wrong(a) \cap {"null", "not_utf8", "huge", "large", "unexpected"} = {}
                 PROVE  \A n \in DOMAIN a :
                          a[n] \notin {"null", "not_utf8", "huge", "large", "unexpected"}
      BY DEF Fits
    <2>1. ASSUME NEW n \in DOMAIN a, a[n] \in {"null", "not_utf8", "huge", "large", "unexpected"}
          PROVE  FALSE
      <3>1. a[n] \in Wrong(a)
        BY <2>1 DEF Wrong
      <3> QED  BY <3>1, <2>1
    <2> QED  BY <2>1
  <1>4. YesMeansGood'
    BY <1>1, <1>2 DEF YesMeansGood, AllOrNothing
  <1>5. SurfacesAgree'
    BY <1>1, <1>3 DEF SurfacesAgree, Fits
  <1> QED  BY <1>4, <1>5 DEF VerdictInv

LEMMA DocumentsVerdict ==
  ASSUME CallWithDocuments
  PROVE  VerdictInv'
  <1>1. ASSUME NEW a \in [out : Given, log : Document, recovery : KeyBytes],
               \/ Return("documents", a, hide_identity_verify(a), js_verify_identity(a))
               \/ Return("documents", a, hide_identity_head(a), js_identity_head(a))
        PROVE  VerdictInv'
    BY <1>1, IdentityVerifyFits, IdentityHeadFits, ReturnFits
  <1>2. ASSUME NEW a \in BoundArguments,
               Return("documents", a, hide_epoch_verify_bound(a), js_verify_epoch_chain_bound(a))
        PROVE  VerdictInv'
    BY <1>2, BoundFits, ReturnFits DEF BoundArguments
  <1> QED  BY <1>1, <1>2, TrustsFits, EpochFits, EpochPublicFits, PinnedFits, ReturnFits
           DEF CallWithDocuments

LEMMA ProofsVerdict ==
  ASSUME CallWithProofs
  PROVE  VerdictInv'
  BY InclusionFits, ConsistencyFits, CheckpointFits, ReturnFits DEF CallWithProofs

LEMMA SignaturesVerdict ==
  ASSUME CallWithSignatures
  PROVE  VerdictInv'
  BY SignFits, VerifyFits, NewChallengeFits, AnswerFits, AcceptFits, ReturnFits
     DEF CallWithSignatures

LEMMA ContainersVerdict ==
  ASSUME CallWithContainers
  PROVE  VerdictInv'
  BY EncryptFits, DecryptFits, ReturnFits DEF CallWithContainers

LEMMA KeysVerdict ==
  ASSUME CallWithKeys
  PROVE  VerdictInv'
  BY KeypairFits, SecretPublicFits, SigningPublicFits, InspectFits, ArmorFits, DearmorFits,
     ReturnFits DEF CallWithKeys

(* Both ways of opening a file, with arguments that differ in a name.      *)
OpenKeyFile(file, p, data, passphrase, slot) ==
  LET a == [secret |-> slot, data |-> data, passphrase |-> passphrase]
      b == [signer |-> slot, data |-> data, passphrase |-> passphrase]
  IN \/ Return("key files", a, hide_secret_key_open(a, file, p),
               js_load(a, js_secret_load(file, p)))
     \/ Return("key files", b, hide_signing_identity_open(b, file, p),
               js_load(b, js_signing_load(file, p)))

LEMMA OpenVerdict ==
  ASSUME NEW file, NEW p, NEW data \in {"good", "null", "huge"},
         NEW passphrase \in {"good", "not_utf8"}, NEW slot \in Given,
         OpenKeyFile(file, p, data, passphrase, slot)
  PROVE  VerdictInv'
  <1> DEFINE a == [secret |-> slot, data |-> data, passphrase |-> passphrase]
             b == [signer |-> slot, data |-> data, passphrase |-> passphrase]
  <1>1. \/ Return("key files", a, hide_secret_key_open(a, file, p),
                  js_load(a, js_secret_load(file, p)))
        \/ Return("key files", b, hide_signing_identity_open(b, file, p),
                  js_load(b, js_signing_load(file, p)))
    BY DEF OpenKeyFile
  <1>2. a \in [secret : Given, data : {"good", "null", "huge"}, passphrase : {"good", "not_utf8"}]
    OBVIOUS
  <1>3. b \in [signer : Given, data : {"good", "null", "huge"}, passphrase : {"good", "not_utf8"}]
    OBVIOUS
  <1> HIDE DEF a, b
  <1> QED  BY <1>1, <1>2, <1>3, SecretOpenFits, SigningOpenFits, ReturnFits

LEMMA KeyFilesVerdict ==
  ASSUME CallWithKeyFiles
  PROVE  VerdictInv'
  <1>1. CASE \E file \in KeyFilesAround, p \in Typed, data \in {"good", "null", "huge"},
                passphrase \in {"good", "not_utf8"}, slot \in Given :
               OpenKeyFile(file, p, data, passphrase, slot)
    BY <1>1, OpenVerdict
  <1>2. CASE \E p \in Passphrases,
                a \in [secret : Given, out : Given, passphrase : {"good", "null", "not_utf8"}] :
               Return("key files", a, hide_secret_key_protect(a, p), js_protect(p))
    BY <1>2, ProtectFits, ReturnFits
  <1>3. CASE \E p \in Passphrases, a \in [out : Given, passphrase : {"good", "null", "not_utf8"}] :
               Return("key files", a, hide_identity_generate(a, p), js_identity_generate(p))
    BY <1>3, GenerateFits, ReturnFits
  <1> QED  BY <1>1, <1>2, <1>3 DEF CallWithKeyFiles, OpenKeyFile

LEMMA LibVerdict ==
  ASSUME VerdictInv, LibNext
  PROVE  VerdictInv'
  <1>1. CASE Look
    BY <1>1 DEF Look, VerdictInv, YesMeansGood, SurfacesAgree
  <1> QED  BY <1>1, DocumentsVerdict, ProofsVerdict, SignaturesVerdict, ContainersVerdict,
              KeysVerdict, KeyFilesVerdict DEF LibNext

-----------------------------------------------------------------------------
(* Epoch stores.  A file is what one seal wrote or it has the trailer of   *)
(* one, and the trailer is over everything else; so it is enough to know   *)
(* what a seal wrote, in which order the epochs of a store are written,    *)
(* and that every epoch is there.                                          *)

Ascends(q) == \A i, j \in DOMAIN q : i < j => q[i] < q[j]

(* Any finite set of numbers can be put in order: take the least, and a    *)
(* smallest set that could not would not be one.                           *)
LEMMA AscendingExists ==
  ASSUME NEW S, S \subseteq Nat, IsFiniteSet(S)
  PROVE  \E q \in [1..Cardinality(S) -> S] : Ascends(q)
  <1> DEFINE Good(U) == \E q \in [1..Cardinality(U) -> U] : Ascends(q)
             Bad == {n \in Nat : \E U \in SUBSET Nat :
                       IsFiniteSet(U) /\ Cardinality(U) = n /\ ~Good(U)}
  <1>1. ASSUME NEW U \in SUBSET Nat, IsFiniteSet(U), U # {}, NEW m \in U,
               \A k \in U : m <= k, Good(U \ {m})
        PROVE  Good(U)
    <2> DEFINE V == U \ {m}
               n == Cardinality(U)
    <2>1. n \in Nat /\ n # 0 /\ Cardinality(V) = n - 1
      BY <1>1, FS_CardinalityType, FS_EmptySet, FS_RemoveElement
    <2>2. PICK q \in [1..(n - 1) -> V] : Ascends(q)
      BY <1>1, <2>1
    <2> HIDE DEF n
    <2> DEFINE r == [i \in 1..n |-> IF i = 1 THEN m ELSE q[i - 1]]
    <2>3. \A i \in 1..n : i = 1 \/ i - 1 \in 1..(n - 1)
      BY <2>1
    <2>4. \A i \in 1..(n - 1) : q[i] \in U /\ q[i] # m
      BY <2>2
    <2>5. \A i \in 1..n : r[i] = (IF i = 1 THEN m ELSE q[i - 1]) /\ r[i] \in U
      BY <2>3, <2>4
    <2>6. r \in [1..n -> U] /\ DOMAIN r = 1..n
      BY <2>5
    <2> HIDE DEF r
    <2>7. ASSUME NEW i \in 1..n, NEW j \in 1..n, i < j PROVE r[i] < r[j]
      <3>1. j # 1 /\ j - 1 \in 1..(n - 1) /\ r[j] = q[j - 1]
        BY <2>1, <2>3, <2>5, <2>7
      <3>2. CASE i = 1
        <4>1. m \in Nat /\ q[j - 1] \in Nat /\ m <= q[j - 1] /\ q[j - 1] # m
          BY <1>1, <2>4, <3>1
        <4>2. r[i] = m
          BY <3>2, <2>5
        <4> QED  BY <4>1, <4>2, <3>1
      <3>3. CASE i # 1
        <4>1. i - 1 \in 1..(n - 1) /\ r[i] = q[i - 1] /\ i - 1 < j - 1
          BY <2>1, <2>3, <2>5, <2>7, <3>3
        <4> QED  BY <4>1, <3>1, <2>2 DEF Ascends
      <3> QED  BY <3>2, <3>3
    <2>8. Ascends(r)
      BY <2>6, <2>7 DEF Ascends
    <2> QED  BY <2>6, <2>8 DEF n
  <1>2. Good({})
    <2> DEFINE q == [i \in 1..0 |-> 0]
    <2>0. 1..0 = {}
      OBVIOUS
    <2>1. q \in [1..0 -> {}] /\ Ascends(q)
      BY <2>0 DEF Ascends
    <2> QED  BY <2>1, FS_EmptySet
  <1>3. Bad = {}
    <2> SUFFICES ASSUME Bad # {} PROVE FALSE
      OBVIOUS
    <2>1. PICK n \in Bad : \A k \in Bad : n <= k
      <3>1. Bad \in SUBSET Nat
        OBVIOUS
      <3> QED  BY <3>1, LeastNat
    <2>2. PICK U \in SUBSET Nat : IsFiniteSet(U) /\ Cardinality(U) = n /\ ~Good(U)
      OBVIOUS
    <2>3. U # {}
      BY <1>2, <2>2
    <2>4. PICK m \in U : \A k \in U : m <= k
      BY <2>3, LeastNat
    <2> HIDE DEF Good
    <2>5. n \in Nat
      OBVIOUS
    <2>6. /\ U \ {m} \in SUBSET Nat /\ IsFiniteSet(U \ {m})
          /\ Cardinality(U \ {m}) = n - 1 /\ n - 1 \in Nat
      <3>1. IsFiniteSet(U \ {m}) /\ Cardinality(U \ {m}) = n - 1
        BY <2>2, <2>4, FS_RemoveElement
      <3>2. Cardinality(U \ {m}) \in Nat
        BY <3>1, FS_CardinalityType
      <3> QED  BY <3>1, <3>2
    <2>7. ~(n - 1 \in Bad)
      <3> HIDE DEF Bad
      <3> QED  BY <2>1, <2>5
    <2>8. Good(U \ {m})
      BY <2>6, <2>7
    <2> QED  BY <1>1, <2>2, <2>3, <2>4, <2>8
  <1>4. Cardinality(S) \in Nat
    BY FS_CardinalityType
  <1>5. Good(S)
    <2> HIDE DEF Good
    <2> QED  BY <1>3, <1>4
  <1> QED  BY <1>5

(* The order a store is written in has every epoch, once.                  *)
LEMMA AscendingFacts ==
  ASSUME NEW S, S \subseteq Nat, IsFiniteSet(S)
  PROVE  /\ Cardinality(S) \in Nat
         /\ ascending(S) \in [1..Cardinality(S) -> S]
         /\ Ascends(ascending(S))
         /\ \A x \in S : \E i \in 1..Cardinality(S) : ascending(S)[i] = x
  <1> DEFINE q == ascending(S)
             n == Cardinality(S)
  <1>1. n \in Nat
    BY FS_CardinalityType
  <1>2. q \in [1..n -> S] /\ Ascends(q)
    BY AscendingExists DEF ascending, Ascends
  <1>3. IsFiniteSet(1..n) /\ Cardinality(1..n) = n
    BY <1>1, FS_Interval
  <1> HIDE DEF q, n
  <1>4. ASSUME NEW i \in 1..n, NEW j \in 1..n, q[i] = q[j] PROVE i = j
    <2>1. q[i] \in Nat /\ q[j] \in Nat
      BY <1>2
    <2>2. (i < j => q[i] < q[j]) /\ (j < i => q[j] < q[i])
      BY <1>2 DEF Ascends
    <2> QED  BY <1>1, <1>4, <2>1, <2>2
  <1>5. q \in Injection(1..n, S)
    BY <1>2, <1>4 DEF Injection, IsInjective
  <1>6. q \in Surjection(1..n, S)
    BY <1>3, <1>5, FS_Injection DEF n
  <1>7. \A x \in S : \E i \in 1..n : q[i] = x
    BY <1>6 DEF Surjection
  <1> QED  BY <1>1, <1>2, <1>7 DEF q, n

LEMMA EpochNumbersFinite ==
  ASSUME NEW S \in SUBSET EpochNumbers
  PROVE  S \subseteq Nat /\ IsFiniteSet(S) /\ Cardinality(S) \in Nat /\ Cardinality(S) <= MAX_ENTRIES
  <1> DEFINE b == MAX_ENTRIES - 1
  <1>1. b \in Int /\ MAX_ENTRIES \in Nat
    BY KeyringAssumption
  <1>2. IsFiniteSet(0..b) /\ Cardinality(0..b) = IF 0 > b THEN 0 ELSE b - 0 + 1
    BY <1>1, FS_Interval
  <1>3. S \in SUBSET (0..b)
    BY DEF EpochNumbers
  <1>4. IsFiniteSet(S) /\ Cardinality(S) <= Cardinality(0..b)
    BY <1>2, <1>3, FS_Subset
  <1>5. Cardinality(S) \in Nat
    BY <1>4, FS_CardinalityType
  <1>6. Cardinality(0..b) \in Nat /\ Cardinality(0..b) <= MAX_ENTRIES
    BY <1>1, <1>2, KeyringAssumption
  <1>7. Cardinality(S) <= MAX_ENTRIES
    BY <1>1, <1>4, <1>5, <1>6
  <1> QED  BY <1>3, <1>4, <1>5, <1>7 DEF EpochNumbers

(* A store: the head of a chain, and secrets by number.                    *)
AStore(st) ==
  /\ st = [chain_head |-> st.chain_head, entries |-> st.entries]
  /\ st.entries = [n \in DOMAIN st.entries |-> st.entries[n]]
  /\ DOMAIN st.entries \subseteq EpochNumbers

SealRecord(s) ==
  s.p \in Passphrases /\ AStore(s.store) /\ \E salt : seal_with(s.store, s.p, salt) = Ok(s.file)

StoreInv ==
  /\ \A s \in sealed : SealRecord(s)
  /\ \A f \in found : \E s \in sealed : f.trailer = s.file.trailer

LEMMA SealStep ==
  ASSUME StoreInv, NEW store, NEW p \in Passphrases, AStore(store), Seal(store, p)
  PROVE  StoreInv'
  <1> DEFINE f == seal_with(store, p, Cardinality(sealed))
             s == [store |-> store, p |-> p, file |-> f.value]
  <1>1. f.ok /\ sealed' = sealed \cup {s} /\ found' = {f.value}
    BY DEF Seal
  <1>2. f = Ok(f.value)
    BY <1>1 DEF seal_with, Ok, Err
  <1>3. s.p = p /\ s.store = store /\ s.file = f.value
    OBVIOUS
  <1>4. SealRecord(s)
    <2>1. seal_with(s.store, s.p, Cardinality(sealed)) = Ok(s.file)
      BY <1>2
    <2> HIDE DEF s
    <2> QED  BY <1>3, <2>1 DEF SealRecord
  <1> HIDE DEF s, f
  <1> QED  BY <1>1, <1>3, <1>4 DEF StoreInv

LEMMA StoreStep ==
  ASSUME StoreInv, StoreNext
  PROVE  StoreInv'
  <1>1. ASSUME NEW p \in Passphrases, NEW head \in Heads, NEW numbers \in SUBSET EpochNumbers,
               SealNew(head, numbers, p)
        PROVE  StoreInv'
    <2> DEFINE st == [chain_head |-> head,
                      entries |-> [n \in numbers |-> Secret(n, Cardinality(sealed))]]
    <2>1. AStore(st)
      BY DEF AStore
    <2>2. Seal(st, p)
      BY <1>1 DEF SealNew
    <2> HIDE DEF st
    <2> QED  BY <2>1, <2>2, SealStep
  <1>2. ASSUME NEW p \in Passphrases, NEW head \in Heads, NEW s \in sealed, SealHead(s, head, p)
        PROVE  StoreInv'
    <2> DEFINE st == [s.store EXCEPT !.chain_head = head]
    <2>1. AStore(s.store)
      BY DEF StoreInv, SealRecord
    <2>2. st = [chain_head |-> head, entries |-> s.store.entries]
      BY <2>1 DEF AStore
    <2>3. AStore(st)
      BY <2>1, <2>2 DEF AStore
    <2>4. Seal(st, p)
      BY <1>2 DEF SealHead
    <2> HIDE DEF st
    <2> QED  BY <2>3, <2>4, SealStep
  <1>3. ASSUME NEW p \in Passphrases, NEW s \in sealed, NEW number \in EpochNumbers,
               SealMore(s, number, p)
        PROVE  StoreInv'
    <2> DEFINE secret == Secret(number, Cardinality(sealed))
               old == s.store.entries
               new == [n \in DOMAIN old \cup {number} |-> IF n = number THEN secret ELSE old[n]]
               st == [s.store EXCEPT !.entries = new]
               st2 == insert(s.store, number, secret)
    <2>1. AStore(s.store)
      BY DEF StoreInv, SealRecord
    <2>2. st2.ok /\ Seal(st2.value, p)
      BY <1>3 DEF SealMore
    <2>3. st2 = Ok(st)
      BY <2>2 DEF insert, Ok, Err
    <2>4. Seal(st, p)
      BY <2>2, <2>3 DEF Ok
    <2>5. st = [chain_head |-> s.store.chain_head, entries |-> new]
      BY <2>1 DEF AStore
    <2>6. AStore(st)
      BY <2>1, <2>5 DEF AStore
    <2> HIDE DEF st
    <2> QED  BY <2>4, <2>6, SealStep
  <1>4. ASSUME NEW p \in Passphrases, NEW s \in sealed, NEW number \in EpochNumbers,
               SealFewer(s, number, p)
        PROVE  StoreInv'
    <2> DEFINE old == s.store.entries
               new == [n \in DOMAIN old \ {number} |-> old[n]]
               st == [s.store EXCEPT !.entries = new]
    <2>1. AStore(s.store)
      BY DEF StoreInv, SealRecord
    <2>2. Seal(st, p)
      BY <1>4 DEF SealFewer, remove
    <2>3. st = [chain_head |-> s.store.chain_head, entries |-> new]
      BY <2>1 DEF AStore
    <2>4. AStore(st)
      BY <2>1, <2>3 DEF AStore
    <2> HIDE DEF st
    <2> QED  BY <2>2, <2>4, SealStep
  <1>5. ASSUME NEW a \in Files, NEW b \in Files, NEW c \in Files, NEW kept, NEW head, NEW count,
               Recombine(a.header, b.body, kept, c.trailer, head, count)
        PROVE  StoreInv'
    <2>1. sealed' = sealed /\ \A f \in found' : f.trailer = c.trailer
      BY <1>5 DEF Recombine
    <2> QED  BY <2>1 DEF StoreInv, Files
  <1> QED  BY <1>1, <1>2, <1>3, <1>4, <1>5 DEF StoreNext

LEMMA WriterReasonable == reasonable(WRITER)
  BY DEF reasonable, WRITER, MIN_MEMORY_KIB, MAX_MEMORY_KIB, MIN_ITERATIONS, MAX_ITERATIONS,
         MAX_PARALLELISM

(* What seal_with makes of a store, part by part.                          *)
LEMMA SealParts ==
  ASSUME NEW s, SealRecord(s)
  PROVE  \E salt, h, body, q :
           /\ q = ascending(DOMAIN s.store.entries)
           /\ h = encode_header(WRITER, salt, s.store.chain_head, Len(q))
           /\ body = [i \in DOMAIN q |->
                        seal_seed(argon2(WRITER, normalize_passphrase(s.p), salt), h, q[i],
                                  s.store.entries[q[i]])]
           /\ s.file = [header |-> h, body |-> body,
                        trailer |-> [key |-> argon2(WRITER, normalize_passphrase(s.p), salt),
                                     over |-> <<h, body>>]]
  <1>1. PICK salt : seal_with(s.store, s.p, salt) = Ok(s.file)
    BY DEF SealRecord
  <1> DEFINE q == ascending(DOMAIN s.store.entries)
             kek == argon2(WRITER, normalize_passphrase(s.p), salt)
             h == encode_header(WRITER, salt, s.store.chain_head, Len(q))
             body == [i \in DOMAIN q |-> seal_seed(kek, h, q[i], s.store.entries[q[i]])]
             file == [header |-> h, body |-> body, trailer |-> [key |-> kek, over |-> <<h, body>>]]
  <1>2. seal_with(s.store, s.p, salt) =
          IF s.p.word \in ShortWords THEN Err("PassphraseTooShort") ELSE Ok(file)
    BY DEF seal_with
  <1>3. Ok(file) = Ok(s.file)
    BY <1>1, <1>2 DEF Ok, Err
  <1>4. s.file = file
    BY <1>3 DEF Ok
  <1> QED  BY <1>4

(* The passphrases a word stands for, whatever was typed.                  *)
LEMMA Candidates ==
  ASSUME NEW p \in Passphrases
  PROVE  /\ normalize_passphrase(p) = [word |-> p.word, form |-> "nfc"]
         /\ normalize_passphrase(p) \in passphrase_candidates(p)
         /\ p \in passphrase_candidates(p)
         /\ [word |-> p.word, form |-> "nfd"] \in passphrase_candidates(p)
         /\ \A c \in passphrase_candidates(p) : c.word = p.word
  BY DEF Passphrases, normalize_passphrase, passphrase_candidates

(* A file with all the parts of one seal opens as that seal's store under  *)
(* every passphrase that gives its key, and under no other.                *)
LEMMA OpensAsSealed ==
  ASSUME NEW s, SealRecord(s), NEW f,
         f.header = s.file.header, f.body = s.file.body, f.trailer = s.file.trailer,
         NEW p \in Passphrases
  PROVE  IF p.word = s.p.word THEN open_store(f, p) = Ok(s.store) ELSE ~open_store(f, p).ok
  <1>1. PICK salt, h, body, q :
           /\ q = ascending(DOMAIN s.store.entries)
           /\ h = encode_header(WRITER, salt, s.store.chain_head, Len(q))
           /\ body = [i \in DOMAIN q |->
                        seal_seed(argon2(WRITER, normalize_passphrase(s.p), salt), h, q[i],
                                  s.store.entries[q[i]])]
           /\ s.file = [header |-> h, body |-> body,
                        trailer |-> [key |-> argon2(WRITER, normalize_passphrase(s.p), salt),
                                     over |-> <<h, body>>]]
    BY SealParts
  <1> DEFINE E == s.store.entries
             S == DOMAIN E
             n == Cardinality(S)
             kek == argon2(WRITER, normalize_passphrase(s.p), salt)
  <1>2. f.header = h /\ f.body = body /\ f.trailer = [key |-> kek, over |-> <<h, body>>]
    BY <1>1
  <1>3. AStore(s.store) /\ s.p \in Passphrases
    BY DEF SealRecord
  <1>4. S \in SUBSET EpochNumbers
    BY <1>3 DEF AStore
  <1>5. S \subseteq Nat /\ IsFiniteSet(S) /\ n \in Nat /\ n <= MAX_ENTRIES
    BY <1>4, EpochNumbersFinite
  <1>6. /\ q \in [1..n -> S] /\ Ascends(q) /\ \A x \in S : \E i \in 1..n : q[i] = x
    <2>1. q = ascending(S)
      BY <1>1
    <2> HIDE DEF S, E
    <2>2. /\ ascending(S) \in [1..n -> S] /\ Ascends(ascending(S))
          /\ \A x \in S : \E i \in 1..n : ascending(S)[i] = x
      BY <1>5, AscendingFacts
    <2> QED  BY <2>1, <2>2
  <1> HIDE DEF n, kek
  <1>7. DOMAIN q = 1..n /\ Len(q) = n
    BY <1>5, <1>6
  <1>8. /\ DOMAIN body = 1..n /\ Len(body) = n
        /\ \A i \in 1..n : body[i] = seal_seed(kek, h, q[i], E[q[i]])
    <2>1. body = [i \in 1..n |-> seal_seed(kek, h, q[i], E[q[i]])]
      BY <1>1, <1>7 DEF kek
    <2> QED  BY <1>5, <2>1
  <1>9. \A i \in 1..n : /\ body[i].number = q[i] /\ body[i].sealed.key = kek
                        /\ body[i].sealed.aad = entry_aad(h, q[i])
                        /\ body[i].sealed.inside = E[q[i]]
    BY <1>8 DEF seal_seed
  <1>10. /\ h.version = 1 /\ h.params = WRITER /\ h.body_len = n /\ h.salt = salt
         /\ h.chain_head = s.store.chain_head
    BY <1>1, <1>7 DEF encode_header
  <1>11. parse(f) = "parsed"
    <2>1. ~(\E i, j \in DOMAIN body : i < j /\ body[i].number >= body[j].number)
      <3> SUFFICES ASSUME NEW i \in 1..n, NEW j \in 1..n, i < j
                   PROVE  ~(body[i].number >= body[j].number)
        BY <1>8
      <3>1. q[i] < q[j] /\ q[i] \in Nat /\ q[j] \in Nat
        BY <1>5, <1>6, <1>7 DEF Ascends
      <3> QED  BY <3>1, <1>9
    <2>2. ~(Len(body) > MAX_ENTRIES)
      BY <1>5, <1>8, KeyringAssumption
    <2> QED  BY <1>2, <1>8, <1>10, <2>1, <2>2, WriterReasonable DEF parse
  <1> DEFINE keks == {argon2(WRITER, c, salt) : c \in passphrase_candidates(p)}
  <1>12. kek \in keks <=> p.word = s.p.word
    <2>1. kek = <<WRITER, [word |-> s.p.word, form |-> "nfc"], salt>>
      BY <1>3, Candidates DEF argon2, kek
    <2>2. ASSUME p.word = s.p.word PROVE kek \in keks
      <3>1. normalize_passphrase(p) = [word |-> s.p.word, form |-> "nfc"]
        BY <2>2, Candidates
      <3> QED  BY <2>1, <3>1, Candidates DEF argon2
    <2>3. ASSUME NEW c \in passphrase_candidates(p), kek = argon2(WRITER, c, salt)
          PROVE  p.word = s.p.word
      <3>1. c = [word |-> s.p.word, form |-> "nfc"]
        BY <2>1, <2>3 DEF argon2
      <3> QED  BY <3>1, Candidates
    <2> QED  BY <2>2, <2>3
  <1>13. ~(\E i \in DOMAIN body :
             LET x == body[i].sealed IN x.key # kek \/ x.aad # entry_aad(h, body[i].number))
    BY <1>8, <1>9
  <1>14. Numbers(body) = S
    BY <1>6, <1>8, <1>9 DEF Numbers
  <1> DEFINE At(k) == CHOOSE i \in DOMAIN body : body[i].number = k
  <1>15. ASSUME NEW k \in S PROVE body[At(k)].sealed.inside = E[k]
    <2>1. \E i \in DOMAIN body : body[i].number = k
      BY <1>6, <1>8, <1>9
    <2>2. At(k) \in DOMAIN body /\ body[At(k)].number = k
      BY <2>1
    <2> HIDE DEF At
    <2> QED  BY <2>2, <1>8, <1>9
  <1> DEFINE value == [chain_head |-> h.chain_head,
                       entries |-> [k \in Numbers(body) |-> body[At(k)].sealed.inside]]
  <1>16. value = s.store
    <2>1. [k \in Numbers(body) |-> body[At(k)].sealed.inside] = [k \in S |-> E[k]]
      <3> HIDE DEF At
      <3> QED  BY <1>14, <1>15
    <2>2. [k \in S |-> E[k]] = E
      BY <1>3 DEF AStore
    <2>3. s.store = [chain_head |-> s.store.chain_head, entries |-> E]
      BY <1>3 DEF AStore
    <2> QED  BY <2>1, <2>2, <2>3, <1>10
  <1>17. open_store(f, p) = IF kek \notin keks THEN Err("WrongPassphrase") ELSE Ok(value)
    BY <1>2, <1>10, <1>11, <1>13 DEF open_store
  <1> HIDE DEF value, keks
  <1> QED  BY <1>12, <1>16, <1>17 DEF Err

LEMMA StoreMeans ==
  ASSUME StoreInv
  PROVE  StoreOpensAsSealed /\ SealedStoreOpens
  <1>1. ASSUME NEW f \in found, NEW p \in Passphrases, open_store(f, p).ok
        PROVE  \E s \in sealed : s.p.word = p.word /\ s.store = open_store(f, p).value
    <2>1. PICK s \in sealed : f.trailer = s.file.trailer
      BY DEF StoreInv
    <2>2. SealRecord(s)
      BY DEF StoreInv
    <2>3. f.trailer.over = <<f.header, f.body>>
      BY <1>1 DEF open_store, Err
    <2>4. s.file.trailer.over = <<s.file.header, s.file.body>>
      <3>1. PICK h, body, kek : s.file = [header |-> h, body |-> body,
                                          trailer |-> [key |-> kek, over |-> <<h, body>>]]
        BY <2>2, SealParts, Zenon
      <3> QED  BY <3>1
    <2>5. f.header = s.file.header /\ f.body = s.file.body
      BY <2>1, <2>3, <2>4
    <2>6. IF p.word = s.p.word THEN open_store(f, p) = Ok(s.store) ELSE ~open_store(f, p).ok
      BY <2>1, <2>2, <2>5, OpensAsSealed
    <2> QED  BY <1>1, <2>6 DEF Ok
  <1>2. ASSUME NEW s \in sealed, NEW form \in Forms
        PROVE  open_store(s.file, [word |-> s.p.word, form |-> form]) = Ok(s.store)
    <2> DEFINE p == [word |-> s.p.word, form |-> form]
    <2>1. SealRecord(s)
      BY DEF StoreInv
    <2>2. p \in Passphrases /\ p.word = s.p.word
      BY <2>1 DEF SealRecord, Passphrases
    <2> HIDE DEF p
    <2>3. open_store(s.file, p) = Ok(s.store)
      BY <2>1, <2>2, OpensAsSealed
    <2> QED  BY <2>3 DEF p
  <1> QED  BY <1>1, <1>2 DEF StoreOpensAsSealed, SealedStoreOpens

-----------------------------------------------------------------------------
(* Key files.  Every secret key file there is was sealed by protect_seed,  *)
(* is a raw seed, or is an old release's.                                  *)

SealedBy(p, purpose, seed) ==
  Sealed(header(2, WRITER, purpose), argon2(WRITER, normalize_passphrase(p), "salt"), seed)

IdentityFile(seed) == {Raw(seed)} \cup {SealedBy(p, "Identity", seed) : p \in Passphrases}
EncryptionFile(seed) == {SealedBy(p, "Encryption", seed) : p \in Passphrases}
LegacyFiles == {LegacyFile(p) : p \in Passphrases}

(* Files that only open an encryption key.                                 *)
EncryptionOnly(f) == f \in LegacyFiles \/ \E seed : f \in EncryptionFile(seed)
KeyFile(f) == EncryptionOnly(f) \/ \E seed : f \in IdentityFile(seed)

(* What protect_seed writes, unprotect_seed reads under every passphrase   *)
(* that has the spelling it was sealed under among its candidates.         *)
LEMMA UnprotectSealed ==
  ASSUME NEW p, NEW purpose \in {"Identity", "Encryption"}, NEW seed, NEW q
  PROVE  unprotect_seed(SealedBy(p, purpose, seed), q) =
           IF normalize_passphrase(p) \in passphrase_candidates(q)
           THEN Ok([seed |-> seed, purpose |-> purpose]) ELSE Err("WrongPassphrase")
  <1> DEFINE f == SealedBy(p, purpose, seed)
             h == header(2, WRITER, purpose)
             k == argon2(WRITER, normalize_passphrase(p), "salt")
  <1>1. /\ f.kind = "sealed" /\ f.header = h /\ f.box.aad = h /\ f.box.key = k
        /\ f.box.inside = seed
    BY DEF SealedBy, Sealed
  <1>2. h.version = 2 /\ h.params = WRITER /\ h.purpose = purpose
    BY DEF header
  <1>3. k \in {argon2(WRITER, c, "salt") : c \in passphrase_candidates(q)}
          <=> normalize_passphrase(p) \in passphrase_candidates(q)
    BY DEF argon2
  <1> HIDE DEF f, h, k
  <1>4. unprotect_seed(f, q) = IF normalize_passphrase(p) \in passphrase_candidates(q)
                               THEN Ok([seed |-> seed, purpose |-> purpose])
                               ELSE Err("WrongPassphrase")
    BY <1>1, <1>2, <1>3, WriterReasonable DEF unprotect_seed
  <1> QED  BY <1>4 DEF f

LEMMA UnprotectLegacy ==
  ASSUME NEW p, NEW q
  PROVE  unprotect_seed(LegacyFile(p), q) =
           IF p \in passphrase_candidates(q)
           THEN Ok([seed |-> "legacy_seed", purpose |-> "Encryption"])
           ELSE Err("WrongPassphrase")
  <1> DEFINE f == LegacyFile(p)
             h == header(1, WRITER, "none")
             k == argon2(WRITER, p, "salt")
  <1>1. /\ f.kind = "sealed" /\ f.header = h /\ f.box.aad = h /\ f.box.key = k
        /\ f.box.inside = "legacy_seed"
    BY DEF LegacyFile, Sealed
  <1>2. h.version = 1 /\ h.version \in {1, 2} /\ h.version # 2 /\ h.params = WRITER
    BY DEF header
  <1>3. k \in {argon2(WRITER, c, "salt") : c \in passphrase_candidates(q)}
          <=> p \in passphrase_candidates(q)
    BY DEF argon2
  <1> HIDE DEF f, h, k
  <1>4. unprotect_seed(f, q) = IF p \in passphrase_candidates(q)
                               THEN Ok([seed |-> "legacy_seed", purpose |-> "Encryption"])
                               ELSE Err("WrongPassphrase")
    BY <1>1, <1>2, <1>3, WriterReasonable DEF unprotect_seed
  <1> QED  BY <1>4 DEF f

LEMMA NoPassphraseFacts == NoPassphrase \notin Passphrases /\ NoPassphrase \in Typed
  BY KeyringAssumption DEF NoPassphrase, Passphrases, Typed

LEMMA ProtectSeed ==
  ASSUME NEW seed, NEW p, NEW purpose, protect_seed(seed, p, purpose).ok
  PROVE  protect_seed(seed, p, purpose) = Ok(SealedBy(p, purpose, seed))
  BY DEF protect_seed, Err, SealedBy

(* The kinds of files, apart.                                              *)
LEMMA FileKinds ==
  /\ None.kind = "none" /\ Torn.kind = "torn" /\ Container.kind = "container"
  /\ \A seed : Raw(seed).kind = "raw" /\ Raw(seed).seed = seed
  /\ \A p, purpose, seed : /\ SealedBy(p, purpose, seed).kind = "sealed"
                           /\ SealedBy(p, purpose, seed).box.inside = seed
                           /\ SealedBy(p, purpose, seed).header.version = 2
                           /\ SealedBy(p, purpose, seed).header.purpose = purpose
                           /\ SealedBy(p, purpose, seed).box.key[2] = normalize_passphrase(p)
  /\ \A p : /\ LegacyFile(p).kind = "sealed" /\ LegacyFile(p).header.version = 1
            /\ LegacyFile(p).box.key[2] = p
  /\ \A k : PublicFile(k).kind = "public" /\ PublicFile(k).key = k
  /\ \A k : VerifyingFile(k).kind = "verifying" /\ VerifyingFile(k).key = k
  /\ \A k, t : Signature(k, t).kind = "signature" /\ Signature(k, t).by = k
  /\ \A b : Plain(b).kind = "plain" /\ Plain(b).authentic = b
  BY DEF None, Torn, Container, Raw, SealedBy, Sealed, LegacyFile, header, argon2, PublicFile,
         VerifyingFile, Signature, Plain

(* What a process may be in the middle of.                                 *)
Generating(r, cmd, steps) ==
  \E step \in steps : \E seed : \E f \in IdentityFile(seed) :
    r = [cmd |-> cmd, step |-> step, seed |-> seed, file |-> f]

Doing(r) ==
  \/ r = Idle
  \/ Generating(r, "keygen", {"secret", "sign", "public"})
  \/ Generating(r, "generate_keys", {"secret", "create", "public"})
  \/ \E seed : \E f \in EncryptionFile(seed) : r = [cmd |-> "passwd", file |-> f]
  \/ \E cmd \in {"encrypt", "open"}, b \in BOOLEAN : r = [cmd |-> cmd, authentic |-> b]
  \/ r = [cmd |-> "seal"]
  \/ \E key, text : r = [cmd |-> "sign", file |-> Signature(key, text)]
  \/ r = [cmd |-> "desktop_encrypt"]
  \/ \E b \in BOOLEAN : r = [cmd |-> "desktop_decrypt", authentic |-> b]

ShapeInv ==
  /\ DOMAIN disk = Paths /\ DOMAIN proc = Processes
  /\ disk["secret"] \in {None, Torn} \/ KeyFile(disk["secret"])
  /\ disk["public"] \in {None, Torn} \/ \E key : disk["public"] = PublicFile(key)
  /\ disk["sign"] = None \/ \E key : disk["sign"] = VerifyingFile(key)
  /\ \/ disk["out"] \in {None, Torn, Container, Plain(TRUE)}
     \/ \E key, text : disk["out"] = Signature(key, text)
  /\ disk["part"] \in {None, Torn}
  /\ \A p \in Processes : Doing(proc[p])

(* By its command, what a process holds.                                   *)
LEMMA DoingFacts ==
  ASSUME NEW r, Doing(r)
  PROVE  /\ r.cmd = "keygen" =>
              /\ r.file \in IdentityFile(r.seed) /\ r.step \in {"secret", "sign", "public"}
              /\ r = [cmd |-> "keygen", step |-> r.step, seed |-> r.seed, file |-> r.file]
         /\ r.cmd = "generate_keys" =>
              /\ r.file \in IdentityFile(r.seed) /\ r.step \in {"secret", "create", "public"}
              /\ r = [cmd |-> "generate_keys", step |-> r.step, seed |-> r.seed, file |-> r.file]
         /\ r.cmd = "passwd" => \E seed : r.file \in EncryptionFile(seed)
         /\ r.cmd = "sign" => \E key, text : r.file = Signature(key, text)
         /\ r.cmd = "desktop_decrypt" => r.authentic \in BOOLEAN
  <1>1. CASE r = Idle
    BY <1>1 DEF Idle
  <1>2. CASE Generating(r, "keygen", {"secret", "sign", "public"})
    <2>1. PICK step \in {"secret", "sign", "public"} :
            \E seed : \E f \in IdentityFile(seed) :
            r = [cmd |-> "keygen", step |-> step, seed |-> seed, file |-> f]
      BY <1>2 DEF Generating
    <2> QED  BY <2>1
  <1>3. CASE Generating(r, "generate_keys", {"secret", "create", "public"})
    <2>1. PICK step \in {"secret", "create", "public"} :
            \E seed : \E f \in IdentityFile(seed) :
            r = [cmd |-> "generate_keys", step |-> step, seed |-> seed, file |-> f]
      BY <1>3 DEF Generating
    <2> QED  BY <2>1
  <1>4. CASE \E seed : \E f \in EncryptionFile(seed) : r = [cmd |-> "passwd", file |-> f]
    BY <1>4
  <1>5. CASE \E cmd \in {"encrypt", "open"}, b \in BOOLEAN : r = [cmd |-> cmd, authentic |-> b]
    BY <1>5
  <1>6. CASE r = [cmd |-> "seal"]
    BY <1>6
  <1>7. CASE \E key, text : r = [cmd |-> "sign", file |-> Signature(key, text)]
    BY <1>7
  <1>8. CASE r = [cmd |-> "desktop_encrypt"]
    BY <1>8
  <1>9. CASE \E b \in BOOLEAN : r = [cmd |-> "desktop_decrypt", authentic |-> b]
    BY <1>9
  <1> QED  BY <1>1, <1>2, <1>3, <1>4, <1>5, <1>6, <1>7, <1>8, <1>9 DEF Doing

(* An action of one process: what it may do to the paths, and where it     *)
(* goes on.                                                                *)
LEMMA ShapeStep ==
  ASSUME ShapeInv, NEW p \in Processes, NEW r, Doing(r),
         proc' = [proc EXCEPT ![p] = r], DOMAIN disk' = Paths,
         /\ disk'["secret"] \in {disk["secret"], Torn} \/ KeyFile(disk'["secret"])
         /\ \/ disk'["public"] \in {disk["public"], Torn}
            \/ \E key : disk'["public"] = PublicFile(key)
         /\ disk'["sign"] = disk["sign"] \/ \E key : disk'["sign"] = VerifyingFile(key)
         /\ \/ disk'["out"] \in {disk["out"], Torn, Container, Plain(TRUE)}
            \/ \E key, text : disk'["out"] = Signature(key, text)
         /\ disk'["part"] \in {disk["part"], None, Torn}
  PROVE  ShapeInv'
  <1>1. \A q \in Processes : Doing(proc'[q])
    BY DEF ShapeInv
  <1>2. DOMAIN proc' = Processes
    BY DEF ShapeInv
  <1>3. disk'["secret"] \in {None, Torn} \/ KeyFile(disk'["secret"])
    BY DEF ShapeInv
  <1>4. disk'["public"] \in {None, Torn} \/ \E key : disk'["public"] = PublicFile(key)
    BY DEF ShapeInv
  <1>5. disk'["sign"] = None \/ \E key : disk'["sign"] = VerifyingFile(key)
    BY DEF ShapeInv
  <1>6. \/ disk'["out"] \in {None, Torn, Container, Plain(TRUE)}
        \/ \E key, text : disk'["out"] = Signature(key, text)
    BY DEF ShapeInv
  <1>7. disk'["part"] \in {None, Torn}
    BY DEF ShapeInv
  <1> QED  BY <1>1, <1>2, <1>3, <1>4, <1>5, <1>6, <1>7 DEF ShapeInv

LEMMA IdleDoing == Doing(Idle) /\ Idle.cmd = "idle"
  BY DEF Doing, Idle

LEMMA KeyInitShape ==
  ASSUME KeyInit PROVE ShapeInv
  <1>1. \A p \in Processes : Doing(proc[p])
    BY IdleDoing DEF KeyInit
  <1>2. DOMAIN proc = Processes
    BY DEF KeyInit
  <1>3. CASE disk = [path \in Paths |-> None]
    BY <1>1, <1>2, <1>3 DEF ShapeInv, Paths
  <1>4. ASSUME NEW p \in Passphrases,
               disk = [path \in Paths |->
                         IF path = "secret" THEN LegacyFile(p)
                         ELSE IF path = "public" THEN PublicFile(public_key("legacy_seed"))
                         ELSE None]
        PROVE  ShapeInv
    <2>1. /\ disk["secret"] = LegacyFile(p) /\ disk["sign"] = None
          /\ disk["public"] = PublicFile(public_key("legacy_seed"))
          /\ disk["out"] = None /\ disk["part"] = None /\ DOMAIN disk = Paths
      BY <1>4 DEF Paths
    <2>2. KeyFile(LegacyFile(p))
      BY DEF KeyFile, EncryptionOnly, LegacyFiles
    <2> QED  BY <1>1, <1>2, <2>1, <2>2 DEF ShapeInv
  <1> QED  BY <1>3, <1>4 DEF KeyInit

(* What commit_output leaves: the content at a path that held nothing, or  *)
(* everything as it was.                                                   *)
LEMMA CommitOutput ==
  ASSUME ShapeInv, NEW p, NEW path \in Paths, NEW content, NEW next,
         commit_output(p, path, content, next)
  PROVE  /\ seeds' = seeds /\ DOMAIN disk' = Paths
         /\ \/ /\ disk[path] = None /\ disk'[path] = content
               /\ \A q \in Paths \ {path} : disk'[q] = disk[q]
               /\ proc' = [proc EXCEPT ![p] = next]
            \/ /\ disk[path] # None /\ disk' = disk /\ proc' = [proc EXCEPT ![p] = Idle]
  BY DEF commit_output, Put, Go, Finish, ShapeInv

LEMMA CreateNew ==
  ASSUME ShapeInv, NEW p, NEW path \in Paths, NEW next, create_new(p, path, next)
  PROVE  /\ DOMAIN disk' = Paths
         /\ \/ /\ disk[path] = None /\ disk'[path] = Torn
               /\ \A q \in Paths \ {path} : disk'[q] = disk[q]
               /\ proc' = [proc EXCEPT ![p] = next]
            \/ /\ disk[path] # None /\ disk' = disk /\ proc' = [proc EXCEPT ![p] = Idle]
  BY DEF create_new, Put, Go, Finish, ShapeInv

LEMMA FillFacts ==
  ASSUME ShapeInv, NEW path \in Paths, NEW content, Fill(path, content)
  PROVE  /\ DOMAIN disk' = Paths
         /\ disk'[path] = IF disk[path] = Torn THEN content ELSE disk[path]
         /\ \A q \in Paths \ {path} : disk'[q] = disk[q]
  BY DEF Fill, ShapeInv

(* The file an identity is written to, raw or sealed.                      *)
LEMMA NewIdentityFile ==
  ASSUME NEW pass \in Typed, NEW seed, NEW made,
         made = IF pass = NoPassphrase THEN Ok(Raw(seed)) ELSE protect_identity(seed, pass),
         made.ok
  PROVE  made.value \in IdentityFile(seed)
  <1>1. CASE pass = NoPassphrase
    BY <1>1 DEF Ok, IdentityFile
  <1>2. CASE pass # NoPassphrase
    <2>1. pass \in Passphrases
      BY <1>2 DEF Typed
    <2>2. made = Ok(SealedBy(pass, "Identity", seed))
      BY <1>2, ProtectSeed DEF protect_identity
    <2> QED  BY <2>1, <2>2 DEF Ok, IdentityFile
  <1> QED  BY <1>1, <1>2

LEMMA SealedIsKey ==
  ASSUME NEW seed, NEW f, f \in IdentityFile(seed) \/ f \in EncryptionFile(seed)
  PROVE  KeyFile(f)
  BY DEF KeyFile, EncryptionOnly

(* One path changed by one process.                                        *)
LEMMA ShapePut ==
  ASSUME ShapeInv, NEW p \in Processes, NEW path \in Paths, NEW next, Doing(next),
         DOMAIN disk' = Paths, \A q \in Paths \ {path} : disk'[q] = disk[q],
         /\ path = "secret" => disk'[path] \in {disk[path], Torn} \/ KeyFile(disk'[path])
         /\ path = "public" => \/ disk'[path] \in {disk[path], Torn}
                               \/ \E key : disk'[path] = PublicFile(key)
         /\ path = "sign" => disk'[path] = disk[path] \/ \E key : disk'[path] = VerifyingFile(key)
         /\ path = "out" => \/ disk'[path] \in {disk[path], Torn, Container, Plain(TRUE)}
                            \/ \E key, text : disk'[path] = Signature(key, text)
         /\ path = "part" => disk'[path] \in {disk[path], None, Torn},
         proc' = [proc EXCEPT ![p] = next]
  PROVE  ShapeInv'
  <1>1. disk'["secret"] \in {disk["secret"], Torn} \/ KeyFile(disk'["secret"])
    BY DEF Paths
  <1>2. \/ disk'["public"] \in {disk["public"], Torn}
        \/ \E key : disk'["public"] = PublicFile(key)
    BY DEF Paths
  <1>3. disk'["sign"] = disk["sign"] \/ \E key : disk'["sign"] = VerifyingFile(key)
    BY DEF Paths
  <1>4. \/ disk'["out"] \in {disk["out"], Torn, Container, Plain(TRUE)}
        \/ \E key, text : disk'["out"] = Signature(key, text)
    BY DEF Paths
  <1>5. disk'["part"] \in {disk["part"], None, Torn}
    BY DEF Paths
  <1> QED  BY <1>1, <1>2, <1>3, <1>4, <1>5, ShapeStep

LEMMA ShapeCommit ==
  ASSUME ShapeInv, NEW p \in Processes, NEW path \in Paths, NEW content, NEW next, Doing(next),
         commit_output(p, path, content, next),
         /\ path = "secret" => KeyFile(content)
         /\ path = "public" => \E key : content = PublicFile(key)
         /\ path = "sign" => \E key : content = VerifyingFile(key)
         /\ path = "out" => \/ content \in {Container, Plain(TRUE)}
                            \/ \E key, text : content = Signature(key, text)
         /\ path # "part"
  PROVE  ShapeInv'
  <1>1. DOMAIN disk' = Paths
    BY CommitOutput
  <1>2. CASE /\ disk'[path] = content /\ \A q \in Paths \ {path} : disk'[q] = disk[q]
             /\ proc' = [proc EXCEPT ![p] = next]
    BY <1>1, <1>2, ShapePut
  <1>3. CASE disk' = disk /\ proc' = [proc EXCEPT ![p] = Idle]
    BY <1>1, <1>3, ShapeStep, IdleDoing
  <1> QED  BY <1>2, <1>3, CommitOutput

LEMMA ShapeCreate ==
  ASSUME ShapeInv, NEW p \in Processes, NEW path \in Paths \ {"sign"}, NEW next, Doing(next),
         create_new(p, path, next)
  PROVE  ShapeInv'
  <1>1. DOMAIN disk' = Paths
    BY CreateNew
  <1>2. CASE /\ disk'[path] = Torn /\ \A q \in Paths \ {path} : disk'[q] = disk[q]
             /\ proc' = [proc EXCEPT ![p] = next]
    BY <1>1, <1>2, ShapePut
  <1>3. CASE disk' = disk /\ proc' = [proc EXCEPT ![p] = Idle]
    BY <1>1, <1>3, ShapeStep, IdleDoing
  <1> QED  BY <1>2, <1>3, CreateNew

LEMMA KeygenShape ==
  ASSUME ShapeInv, NEW p \in Processes
  PROVE  /\ \A pass \in Typed : KeygenStart(p, pass) => ShapeInv'
         /\ KeygenCommit(p) => ShapeInv'
  <1>1. ASSUME NEW pass \in Typed, KeygenStart(p, pass)
        PROVE  ShapeInv'
    <2> DEFINE seed == seeds + 1
               made == IF pass = NoPassphrase THEN Ok(Raw(seed)) ELSE protect_identity(seed, pass)
               r == [cmd |-> "keygen", step |-> "secret", seed |-> seed, file |-> made.value]
    <2>1. made.ok /\ proc' = [proc EXCEPT ![p] = r] /\ disk' = disk
      BY <1>1 DEF KeygenStart, Go
    <2> HIDE DEF seed
    <2>2. made.value \in IdentityFile(seed)
      BY <2>1, NewIdentityFile
    <2> HIDE DEF made
    <2>3. Doing(r)
      BY <2>2 DEF Doing, Generating
    <2> HIDE DEF r
    <2> QED  BY <2>1, <2>3, ShapeStep DEF ShapeInv
  <1>2. ASSUME KeygenCommit(p) PROVE ShapeInv'
    <2> DEFINE me == proc[p]
               At(step) == [cmd |-> "keygen", step |-> step, seed |-> me.seed, file |-> me.file]
    <2>1. /\ me.file \in IdentityFile(me.seed) /\ me = At(me.step)
      BY <1>2, DoingFacts DEF ShapeInv, KeygenCommit
    <2>2. [me EXCEPT !.step = "sign"] = At("sign") /\ [me EXCEPT !.step = "public"] = At("public")
      BY <2>1
    <2>3. Doing(At("sign")) /\ Doing(At("public"))
      BY <2>1 DEF Doing, Generating
    <2>4. KeyFile(me.file)
      BY <2>1, SealedIsKey
    <2> DEFINE verifying == VerifyingFile(public_key(signing_seed(me.seed)))
               public == PublicFile(public_key(recipient_secret(me.seed)))
    <2>5. \/ commit_output(p, "secret", me.file, At("sign"))
          \/ commit_output(p, "sign", verifying, At("public"))
          \/ commit_output(p, "public", public, Idle)
      BY <1>2, <2>2 DEF KeygenCommit
    <2>6. (\E key : verifying = VerifyingFile(key)) /\ (\E key : public = PublicFile(key))
      OBVIOUS
    <2> HIDE DEF me, At, verifying, public
    <2>7. CASE commit_output(p, "secret", me.file, At("sign"))
      BY <2>3, <2>4, <2>7, ShapeCommit, IdleDoing DEF Paths
    <2>8. CASE commit_output(p, "sign", verifying, At("public"))
      BY <2>3, <2>6, <2>8, ShapeCommit, IdleDoing DEF Paths
    <2>9. CASE commit_output(p, "public", public, Idle)
      BY <2>3, <2>6, <2>9, ShapeCommit, IdleDoing DEF Paths
    <2> QED  BY <2>5, <2>7, <2>8, <2>9
  <1> QED  BY <1>1, <1>2

LEMMA GenerateShape ==
  ASSUME ShapeInv, NEW p \in Processes
  PROVE  /\ \A pass \in Typed : GenerateStart(p, pass) => ShapeInv'
         /\ GenerateStep(p) => ShapeInv'
  <1>1. ASSUME NEW pass \in Typed, GenerateStart(p, pass)
        PROVE  ShapeInv'
    <2> DEFINE seed == seeds + 1
               made == IF pass = NoPassphrase THEN Ok(Raw(seed)) ELSE protect_identity(seed, pass)
               r == [cmd |-> "generate_keys", step |-> "secret", seed |-> seed,
                     file |-> made.value]
    <2>1. made.ok /\ create_new(p, "secret", r)
      BY <1>1 DEF GenerateStart
    <2> HIDE DEF seed
    <2>2. made.value \in IdentityFile(seed)
      BY <2>1, NewIdentityFile
    <2> HIDE DEF made
    <2>3. Doing(r)
      BY <2>2 DEF Doing, Generating
    <2> HIDE DEF r
    <2> QED  BY <2>1, <2>3, ShapeCreate DEF Paths
  <1>2. ASSUME GenerateStep(p) PROVE ShapeInv'
    <2> DEFINE me == proc[p]
               At(step) == [cmd |-> "generate_keys", step |-> step, seed |-> me.seed,
                            file |-> me.file]
    <2>1. /\ me.file \in IdentityFile(me.seed) /\ me = At(me.step)
      BY <1>2, DoingFacts DEF ShapeInv, GenerateStep
    <2>2. [me EXCEPT !.step = "create"] = At("create") /\ [me EXCEPT !.step = "public"] = At("public")
      BY <2>1
    <2>3. Doing(At("create")) /\ Doing(At("public"))
      BY <2>1 DEF Doing, Generating
    <2>4. KeyFile(me.file)
      BY <2>1, SealedIsKey
    <2> DEFINE public == PublicFile(public_key(recipient_secret(me.seed)))
    <2>5. \/ Fill("secret", me.file) /\ proc' = [proc EXCEPT ![p] = At("create")]
          \/ create_new(p, "public", At("public"))
          \/ Fill("public", public) /\ proc' = [proc EXCEPT ![p] = Idle]
      BY <1>2, <2>2 DEF GenerateStep, Go, Finish
    <2>6. \E key : public = PublicFile(key)
      OBVIOUS
    <2> HIDE DEF me, At, public
    <2>7. CASE Fill("secret", me.file) /\ proc' = [proc EXCEPT ![p] = At("create")]
      BY <2>3, <2>4, <2>7, FillFacts, ShapePut DEF Paths
    <2>8. CASE create_new(p, "public", At("public"))
      BY <2>3, <2>8, ShapeCreate DEF Paths
    <2>9. CASE Fill("public", public) /\ proc' = [proc EXCEPT ![p] = Idle]
      BY <2>6, <2>9, FillFacts, ShapePut, IdleDoing DEF Paths
    <2> QED  BY <2>5, <2>7, <2>8, <2>9
  <1> QED  BY <1>1, <1>2

LEMMA PasswdShape ==
  ASSUME ShapeInv, NEW p \in Processes
  PROVE  /\ \A current \in Typed, new \in Passphrases : PasswdRead(p, current, new) => ShapeInv'
         /\ PasswdReplace(p) => ShapeInv'
  <1>1. ASSUME NEW current \in Typed, NEW new \in Passphrases, PasswdRead(p, current, new)
        PROVE  ShapeInv'
    <2> DEFINE secret == IF inspect(disk["secret"]) = "Raw" THEN Ok(disk["secret"].seed)
                         ELSE unprotect(disk["secret"], current)
               r == [cmd |-> "passwd", file |-> protect(secret.value, new).value]
    <2>1. /\ protect(secret.value, new).ok /\ disk' = disk
          /\ proc' = [proc EXCEPT ![p] = r]
      BY <1>1 DEF PasswdRead, Go
    <2> HIDE DEF secret
    <2>2. protect(secret.value, new).value \in EncryptionFile(secret.value)
      BY <2>1, ProtectSeed DEF protect, Ok, EncryptionFile
    <2>3. Doing(r)
      BY <2>2 DEF Doing
    <2> HIDE DEF r
    <2> QED  BY <2>1, <2>3, ShapeStep DEF ShapeInv
  <1>2. ASSUME PasswdReplace(p) PROVE ShapeInv'
    <2>1. \E seed : proc[p].file \in EncryptionFile(seed)
      BY <1>2, DoingFacts DEF ShapeInv, PasswdReplace
    <2>2. KeyFile(proc[p].file)
      BY <2>1, SealedIsKey
    <2>3. /\ disk' = [disk EXCEPT !["secret"] = proc[p].file]
          /\ proc' = [proc EXCEPT ![p] = Idle]
      BY <1>2 DEF PasswdReplace, Put, Finish
    <2>4. /\ DOMAIN disk' = Paths /\ disk'["secret"] = proc[p].file
          /\ \A path \in Paths \ {"secret"} : disk'[path] = disk[path]
      BY <2>3 DEF ShapeInv, Paths
    <2> QED  BY <2>2, <2>3, <2>4, ShapeStep, IdleDoing DEF ShapeInv, Paths
  <1> QED  BY <1>1, <1>2

LEMMA OutputShape ==
  ASSUME ShapeInv, NEW p \in Processes
  PROVE  /\ \A cmd \in {"encrypt", "open"}, b \in BOOLEAN, pass \in Typed :
              CliStart(p, cmd, b, pass) => ShapeInv'
         /\ seal_message(p) => ShapeInv'
         /\ \A text \in Texts, pass \in Typed : sign_file(p, text, pass) => ShapeInv'
         /\ CliPublish(p) => ShapeInv'
         /\ DesktopEncrypt(p) => ShapeInv'
         /\ \A b \in BOOLEAN, pass \in Typed : DesktopDecrypt(p, b, pass) => ShapeInv'
         /\ Crash(p) => ShapeInv'
  <1>1. ASSUME NEW cmd \in {"encrypt", "open"}, NEW b \in BOOLEAN, NEW pass \in Typed,
               CliStart(p, cmd, b, pass)
        PROVE  ShapeInv'
    <2> DEFINE r == [cmd |-> cmd, authentic |-> b]
    <2>1. disk' = disk /\ proc' = [proc EXCEPT ![p] = r]
      BY <1>1 DEF CliStart, Go
    <2>2. Doing(r)
      BY DEF Doing
    <2> HIDE DEF r
    <2> QED  BY <2>1, <2>2, ShapeStep DEF ShapeInv
  <1>2. ASSUME seal_message(p) PROVE ShapeInv'
    <2> DEFINE r == [cmd |-> "seal"]
    <2>1. disk' = disk /\ proc' = [proc EXCEPT ![p] = r]
      BY <1>2 DEF seal_message, Go
    <2>2. Doing(r)
      BY DEF Doing
    <2> HIDE DEF r
    <2> QED  BY <2>1, <2>2, ShapeStep DEF ShapeInv
  <1>3. ASSUME NEW text \in Texts, NEW pass \in Typed, sign_file(p, text, pass)
        PROVE  ShapeInv'
    <2> DEFINE key == public_key(load_signing_identity(disk["secret"], pass).value)
               r == [cmd |-> "sign", file |-> Signature(key, text)]
    <2>1. disk' = disk /\ proc' = [proc EXCEPT ![p] = r]
      BY <1>3 DEF sign_file, Go
    <2> HIDE DEF key
    <2>2. Doing(r)
      BY DEF Doing
    <2> HIDE DEF r
    <2> QED  BY <2>1, <2>2, ShapeStep DEF ShapeInv
  <1>4. ASSUME CliPublish(p) PROVE ShapeInv'
    <2>1. CASE commit_output(p, "out", Container, Idle)
      BY <2>1, ShapeCommit, IdleDoing DEF Paths
    <2>2. CASE proc[p].cmd = "sign" /\ commit_output(p, "out", proc[p].file, Idle)
      <3>1. \E key, text : proc[p].file = Signature(key, text)
        BY <2>2, DoingFacts DEF ShapeInv
      <3> QED  BY <2>2, <3>1, ShapeCommit, IdleDoing DEF Paths
    <2>3. CASE commit_output(p, "out", Plain(TRUE), Idle)
      BY <2>3, ShapeCommit, IdleDoing DEF Paths
    <2>4. CASE Finish(p) /\ UNCHANGED <<disk, seeds>>
      BY <2>4, ShapeStep, IdleDoing DEF ShapeInv, Finish
    <2> QED  BY <1>4, <2>1, <2>2, <2>3, <2>4 DEF CliPublish
  <1>5. ASSUME DesktopEncrypt(p) PROVE ShapeInv'
    <2>1. CASE create_new(p, "out", [cmd |-> "desktop_encrypt"])
      <3> DEFINE r == [cmd |-> "desktop_encrypt"]
      <3>1. Doing(r) /\ create_new(p, "out", r)
        BY <2>1 DEF Doing
      <3> HIDE DEF r
      <3> QED  BY <3>1, ShapeCreate DEF Paths
    <2>2. CASE Fill("out", Container) /\ Finish(p)
      BY <2>2, FillFacts, ShapePut, IdleDoing DEF Paths, Finish
    <2> QED  BY <1>5, <2>1, <2>2 DEF DesktopEncrypt
  <1>6. ASSUME NEW b \in BOOLEAN, NEW pass \in Typed, DesktopDecrypt(p, b, pass)
        PROVE  ShapeInv'
    <2>1. CASE create_new(p, "part", [cmd |-> "desktop_decrypt", authentic |-> b])
      <3> DEFINE r == [cmd |-> "desktop_decrypt", authentic |-> b]
      <3>1. Doing(r) /\ create_new(p, "part", r)
        BY <2>1 DEF Doing
      <3> HIDE DEF r
      <3> QED  BY <3>1, ShapeCreate DEF Paths
    <2>2. CASE disk' = [disk EXCEPT !["out"] = Plain(TRUE), !["part"] = None] /\ Finish(p)
      <3>1. /\ DOMAIN disk' = Paths /\ disk'["out"] = Plain(TRUE) /\ disk'["part"] = None
            /\ \A path \in Paths \ {"out", "part"} : disk'[path] = disk[path]
        BY <2>2 DEF ShapeInv, Paths
      <3> QED  BY <2>2, <3>1, ShapeStep, IdleDoing DEF ShapeInv, Paths, Finish
    <2>3. CASE Put("part", None) /\ Finish(p)
      <3>1. /\ DOMAIN disk' = Paths /\ disk'["part"] = None
            /\ \A path \in Paths \ {"part"} : disk'[path] = disk[path]
        BY <2>3 DEF ShapeInv, Paths, Put
      <3> QED  BY <2>3, <3>1, ShapeStep, IdleDoing DEF ShapeInv, Paths, Finish
    <2> QED  BY <1>6, <2>1, <2>2, <2>3 DEF DesktopDecrypt
  <1>7. ASSUME Crash(p) PROVE ShapeInv'
    BY <1>7, ShapeStep, IdleDoing DEF ShapeInv, Crash, Finish
  <1> QED  BY <1>1, <1>2, <1>3, <1>4, <1>5, <1>6, <1>7

LEMMA KeyShape ==
  ASSUME ShapeInv, KeyNext PROVE ShapeInv'
  BY KeygenShape, GenerateShape, PasswdShape, OutputShape DEF KeyNext

-----------------------------------------------------------------------------
(* What the programs make of a key file.                                   *)

(* A sealed file opens, to its seed for its purpose, or its passphrase is  *)
(* wrong.                                                                  *)
LEMMA SealedFileOpens ==
  ASSUME NEW f, KeyFile(f), f.kind = "sealed", NEW q
  PROVE  \/ unprotect_seed(f, q) = Err("WrongPassphrase")
         \/ \E seed, purpose : /\ purpose \in {"Identity", "Encryption"}
                               /\ unprotect_seed(f, q) = Ok([seed |-> seed, purpose |-> purpose])
  <1>1. CASE f \in LegacyFiles
    <2>1. PICK p \in Passphrases : f = LegacyFile(p)
      BY <1>1 DEF LegacyFiles
    <2> QED  BY <2>1, UnprotectLegacy
  <1>2. ASSUME NEW purpose \in {"Identity", "Encryption"}, NEW p, NEW seed,
               f = SealedBy(p, purpose, seed)
        PROVE  \/ unprotect_seed(f, q) = Err("WrongPassphrase")
               \/ \E s, why : /\ why \in {"Identity", "Encryption"}
                              /\ unprotect_seed(f, q) = Ok([seed |-> s, purpose |-> why])
    BY <1>2, UnprotectSealed
  <1>3. \/ f \in LegacyFiles
        \/ \E purpose \in {"Identity", "Encryption"} : \E p, seed : f = SealedBy(p, purpose, seed)
    BY FileKinds DEF KeyFile, EncryptionOnly, IdentityFile, EncryptionFile
  <1> QED  BY <1>1, <1>2, <1>3

(* The readers, by what unprotect_seed says of a sealed file.              *)
LEMMA ReadersOfSealed ==
  ASSUME NEW f, f.kind = "sealed", NEW p, p # NoPassphrase
  PROVE  /\ unprotect_seed(f, p) = Err("WrongPassphrase") =>
              /\ open(f, p) = Err("WrongPassphrase")
              /\ load_secret(f, p) = Err("WrongPassphrase")
              /\ desktop_load_secret(f, p) = Err("WrongPassphrase")
              /\ load_signing_identity(f, p) = Err("WrongPassphrase")
              /\ signing_identity_open(f, p) = keyring_error_code("WrongPassphrase")
         /\ \A seed : unprotect_seed(f, p) = Ok([seed |-> seed, purpose |-> "Identity"]) =>
              /\ open(f, p) = Ok(recipient_secret(seed))
              /\ load_secret(f, p) = Ok(recipient_secret(seed))
              /\ desktop_load_secret(f, p) = Ok(recipient_secret(seed))
              /\ load_signing_identity(f, p) = Ok(signing_seed(seed))
              /\ signing_identity_open(f, p) = "OK"
         /\ \A seed : unprotect_seed(f, p) = Ok([seed |-> seed, purpose |-> "Encryption"]) =>
              /\ open(f, p) = Ok(seed)
              /\ load_secret(f, p) = Ok(seed)
              /\ desktop_load_secret(f, p) = Ok(seed)
              /\ load_signing_identity(f, p) = Err("HoldsNoSigningKey")
              /\ signing_identity_open(f, p) = "NOT_A_KEY"
  <1>1. f # Torn /\ f # None /\ inspect(f) = "Protected" /\ f.kind \in {"raw", "sealed"}
    BY FileKinds DEF inspect
  <1> DEFINE opened == unprotect_seed(f, p)
  <1>2. open(f, p) = IF ~opened.ok THEN opened
                     ELSE IF opened.value.purpose = "Identity"
                     THEN Ok(recipient_secret(opened.value.seed)) ELSE Ok(opened.value.seed)
    BY <1>1 DEF open
  <1>3. load_key(f, p) = opened /\ desktop_load_secret(f, p) = open(f, p)
    BY <1>1 DEF load_key, desktop_load_secret
  <1>4. load_secret(f, p) = IF ~opened.ok THEN opened
                     ELSE IF opened.value.purpose = "Identity"
                     THEN Ok(recipient_secret(opened.value.seed)) ELSE Ok(opened.value.seed)
    BY <1>3 DEF load_secret
  <1>5. load_signing_identity(f, p) = IF ~opened.ok THEN opened
                     ELSE IF opened.value.purpose = "Identity"
                     THEN Ok(signing_seed(opened.value.seed)) ELSE Err("HoldsNoSigningKey")
    BY <1>3 DEF load_signing_identity
  <1>6. signing_identity_open(f, p) =
          IF opened.ok /\ opened.value.purpose # "Identity" THEN "NOT_A_KEY"
          ELSE IF opened.ok THEN "OK" ELSE keyring_error_code(opened.why)
    BY <1>1 DEF signing_identity_open, Code
  <1> HIDE DEF opened
  <1>7. CASE opened = Err("WrongPassphrase")
    BY <1>2, <1>3, <1>4, <1>5, <1>6, <1>7 DEF Err, Ok, opened
  <1>8. ASSUME NEW seed, opened = Ok([seed |-> seed, purpose |-> "Identity"])
        PROVE  /\ open(f, p) = Ok(recipient_secret(seed))
               /\ load_secret(f, p) = Ok(recipient_secret(seed))
               /\ desktop_load_secret(f, p) = Ok(recipient_secret(seed))
               /\ load_signing_identity(f, p) = Ok(signing_seed(seed))
               /\ signing_identity_open(f, p) = "OK"
    <2>1. opened.ok /\ opened.value.purpose = "Identity" /\ opened.value.seed = seed
      BY <1>8 DEF Ok
    <2> QED  BY <2>1, <1>2, <1>3, <1>4, <1>5, <1>6
  <1>9. ASSUME NEW seed, opened = Ok([seed |-> seed, purpose |-> "Encryption"])
        PROVE  /\ open(f, p) = Ok(seed)
               /\ load_secret(f, p) = Ok(seed)
               /\ desktop_load_secret(f, p) = Ok(seed)
               /\ load_signing_identity(f, p) = Err("HoldsNoSigningKey")
               /\ signing_identity_open(f, p) = "NOT_A_KEY"
    <2>1. opened.ok /\ opened.value.purpose = "Encryption" /\ opened.value.seed = seed
      BY <1>9 DEF Ok
    <2> QED  BY <2>1, <1>2, <1>3, <1>4, <1>5, <1>6
  <1> QED  BY <1>7, <1>8, <1>9 DEF opened

(* A raw seed, and a file cut off when it was created.                     *)
LEMMA ReadersOfRaw ==
  ASSUME NEW seed, NEW p
  PROVE  /\ open(Raw(seed), p) = Ok(recipient_secret(seed))
         /\ load_secret(Raw(seed), p) = Ok(recipient_secret(seed))
         /\ desktop_load_secret(Raw(seed), p) = Ok(recipient_secret(seed))
         /\ load_signing_identity(Raw(seed), p) = Ok(signing_seed(seed))
         /\ signing_identity_open(Raw(seed), p) = "OK"
  <1>1. /\ Raw(seed) # Torn /\ Raw(seed) # None /\ Raw(seed).kind \in {"raw", "sealed"}
        /\ Raw(seed).seed = seed /\ inspect(Raw(seed)) = "Raw"
    BY FileKinds DEF inspect
  <1>2. load_key(Raw(seed), p) = Ok([seed |-> seed, purpose |-> "Identity"])
    BY <1>1 DEF load_key
  <1>8. LET key == load_key(Raw(seed), p)
        IN key.ok /\ key.value.purpose = "Identity" /\ key.value.seed = seed
    BY <1>2 DEF Ok
  <1>3. open(Raw(seed), p) = Ok(recipient_secret(seed))
    BY <1>1 DEF open
  <1>4. desktop_load_secret(Raw(seed), p) = open(Raw(seed), p)
    BY <1>1 DEF desktop_load_secret
  <1>5. load_secret(Raw(seed), p) = Ok(recipient_secret(seed))
    BY <1>2, <1>8 DEF load_secret
  <1>6. load_signing_identity(Raw(seed), p) = Ok(signing_seed(seed))
    BY <1>2, <1>8 DEF load_signing_identity
  <1>7. signing_identity_open(Raw(seed), p) = "OK"
    BY <1>1 DEF signing_identity_open
  <1> QED  BY <1>3, <1>4, <1>5, <1>6, <1>7

LEMMA ReadersOfTorn ==
  ASSUME NEW p
  PROVE  /\ open(Torn, p) = Err("Malformed") /\ desktop_load_secret(Torn, p) = Err("Malformed")
         /\ load_secret(Torn, p) = Err("NotASecretKey")
         /\ load_signing_identity(Torn, p) = Err("NotASecretKey")
         /\ signing_identity_open(Torn, p) = "NOT_A_KEY"
  <1>1. Torn # None /\ Torn.kind \notin {"raw", "sealed"} /\ inspect(Torn) = "Raw"
    BY FileKinds DEF inspect
  <1>2. load_key(Torn, p) = Err("NotASecretKey") /\ open(Torn, p) = Err("Malformed")
    BY <1>1 DEF load_key, open
  <1>3. desktop_load_secret(Torn, p) = Err("Malformed")
    BY <1>1, <1>2 DEF desktop_load_secret
  <1>4. signing_identity_open(Torn, p) = "NOT_A_KEY"
    BY <1>1 DEF signing_identity_open
  <1>5. ~Err("NotASecretKey").ok
    BY DEF Err
  <1>6. /\ load_secret(Torn, p) = Err("NotASecretKey")
        /\ load_signing_identity(Torn, p) = Err("NotASecretKey")
    BY <1>2, <1>5 DEF load_secret, load_signing_identity
  <1> QED  BY <1>2, <1>3, <1>4, <1>6

(* keyring_error_code has a code of failure for every failure.             *)
LEMMA FailureIsNotOK == keyring_error_code("WrongPassphrase") # "OK"
  <1>1. keyring_error_code("WrongPassphrase") = "WRONG_PASSPHRASE"
    BY Zenon DEF keyring_error_code
  <1> QED  BY <1>1

(* A key sealed again by any program is still that key.                    *)
LEMMA SealedAgain ==
  ASSUME NEW key, NEW q \in Passphrases, protect(key, q).ok
  PROVE  LET again == protect(key, q).value
         IN open(again, q) = Ok(key) /\ load_secret(again, q) = Ok(key)
  <1> DEFINE again == protect(key, q).value
  <1>1. again = SealedBy(q, "Encryption", key)
    BY ProtectSeed DEF protect, Ok
  <1>2. unprotect_seed(again, q) = Ok([seed |-> key, purpose |-> "Encryption"])
    BY <1>1, UnprotectSealed, Candidates
  <1>3. again.kind = "sealed"
    BY <1>1, FileKinds
  <1>4. q # NoPassphrase
    BY NoPassphraseFacts
  <1> HIDE DEF again
  <1>5. open(again, q) = Ok(key) /\ load_secret(again, q) = Ok(key)
    BY <1>2, <1>3, <1>4, ReadersOfSealed
  <1> QED  BY <1>5 DEF again

LEMMA ShapeSame ==
  ASSUME ShapeInv PROVE SameKeyEverywhere
  <1> DEFINE file == disk["secret"]
  <1> SUFFICES ASSUME NEW p \in Typed, file.kind # "none",
                      inspect(file) = "Protected" => p # NoPassphrase
               PROVE  /\ desktop_load_secret(file, p).ok = open(file, p).ok
                      /\ load_secret(file, p).ok = open(file, p).ok
                      /\ load_signing_identity(file, p).ok <=>
                           signing_identity_open(file, p) = "OK"
                      /\ open(file, p).ok =>
                           /\ load_secret(file, p) = open(file, p)
                           /\ desktop_load_secret(file, p) = open(file, p)
                           /\ \A q \in Passphrases : protect(open(file, p).value, q).ok =>
                                LET again == protect(open(file, p).value, q).value
                                IN open(again, q) = open(file, p)
                                   /\ load_secret(again, q) = open(file, p)
    BY SigningVerdicts DEF SameKeyEverywhere
  <1>1. file = Torn \/ KeyFile(file)
    BY FileKinds DEF ShapeInv
  <1> HIDE DEF file
  <1>2. CASE file = Torn
    <2>1. ~Err("Malformed").ok /\ ~Err("NotASecretKey").ok /\ Err("Malformed").ok = FALSE
          /\ Err("NotASecretKey").ok = FALSE
      BY DEF Err
    <2> QED  BY <1>2, <2>1, ReadersOfTorn
  <1>3. ASSUME NEW v, open(file, p) = Ok(v), load_secret(file, p) = Ok(v),
               desktop_load_secret(file, p) = Ok(v)
        PROVE  /\ desktop_load_secret(file, p).ok = open(file, p).ok
               /\ load_secret(file, p).ok = open(file, p).ok
               /\ load_secret(file, p) = open(file, p)
               /\ desktop_load_secret(file, p) = open(file, p)
               /\ \A q \in Passphrases : protect(open(file, p).value, q).ok =>
                    LET again == protect(open(file, p).value, q).value
                    IN open(again, q) = open(file, p) /\ load_secret(again, q) = open(file, p)
    <2>1. open(file, p).value = v
      BY <1>3 DEF Ok
    <2> QED  BY <1>3, <2>1, SealedAgain
  <1>4. CASE \E seed : file = Raw(seed)
    <2>1. PICK seed : file = Raw(seed)
      BY <1>4
    <2>2. Ok(signing_seed(seed)).ok
      BY DEF Ok
    <2>3. load_signing_identity(file, p).ok /\ signing_identity_open(file, p) = "OK"
      BY <2>1, <2>2, ReadersOfRaw
    <2> QED  BY <2>1, <2>3, <1>3, ReadersOfRaw
  <1>5. CASE KeyFile(file) /\ file.kind = "sealed"
    <2>1. p # NoPassphrase
      BY <1>5 DEF inspect
    <2>2. CASE unprotect_seed(file, p) = Err("WrongPassphrase")
      <3>1. Err("WrongPassphrase").ok = FALSE
        BY DEF Err
      <3> QED  BY <1>5, <2>1, <2>2, <3>1, ReadersOfSealed, FailureIsNotOK
    <2>3. ASSUME NEW seed, unprotect_seed(file, p) = Ok([seed |-> seed, purpose |-> "Identity"])
          PROVE  /\ load_signing_identity(file, p).ok /\ signing_identity_open(file, p) = "OK"
                 /\ open(file, p) = Ok(recipient_secret(seed))
                 /\ load_secret(file, p) = Ok(recipient_secret(seed))
                 /\ desktop_load_secret(file, p) = Ok(recipient_secret(seed))
      <3>1. Ok(signing_seed(seed)).ok
        BY DEF Ok
      <3> QED  BY <1>5, <2>1, <2>3, <3>1, ReadersOfSealed
    <2>4. ASSUME NEW seed, unprotect_seed(file, p) = Ok([seed |-> seed, purpose |-> "Encryption"])
          PROVE  /\ ~load_signing_identity(file, p).ok /\ signing_identity_open(file, p) # "OK"
                 /\ open(file, p) = Ok(seed) /\ load_secret(file, p) = Ok(seed)
                 /\ desktop_load_secret(file, p) = Ok(seed)
      <3>1. ~Err("HoldsNoSigningKey").ok
        BY DEF Err
      <3> QED  BY <1>5, <2>1, <2>4, <3>1, ReadersOfSealed
    <2>5. \/ unprotect_seed(file, p) = Err("WrongPassphrase")
          \/ \E seed : unprotect_seed(file, p) = Ok([seed |-> seed, purpose |-> "Identity"])
          \/ \E seed : unprotect_seed(file, p) = Ok([seed |-> seed, purpose |-> "Encryption"])
      BY <1>5, SealedFileOpens
    <2> QED  BY <2>2, <2>3, <2>4, <2>5, <1>3
  <1>6. KeyFile(file) => file.kind = "sealed" \/ \E seed : file = Raw(seed)
    BY FileKinds DEF KeyFile, EncryptionOnly, IdentityFile, EncryptionFile, LegacyFiles
  <1> QED  BY <1>1, <1>2, <1>4, <1>5, <1>6

(* The passphrase a sealed file is under opens it in every spelling.       *)
LEMMA ShapeOpens ==
  ASSUME ShapeInv PROVE KeyFileOpens
  <1> DEFINE file == disk["secret"]
  <1> SUFFICES ASSUME file.kind = "sealed",
                      ~(file.header.version = 1 /\ file.box.key[2].form = "mixed"),
                      NEW form \in IF file.header.version = 1 THEN {"nfc", "nfd"} ELSE Forms
               PROVE  open(file, [word |-> file.box.key[2].word, form |-> form]).ok
    BY DEF KeyFileOpens
  <1> DEFINE q == [word |-> file.box.key[2].word, form |-> form]
  <1>1. KeyFile(file)
    BY FileKinds DEF ShapeInv
  <1>2. form \in Forms
    BY DEF Forms
  <1>3. ASSUME q \in Passphrases,
               \E seed, purpose : /\ purpose \in {"Identity", "Encryption"}
                                  /\ unprotect_seed(file, q) = Ok([seed |-> seed, purpose |-> purpose])
        PROVE  open(file, q).ok
    <2>1. q # NoPassphrase
      BY <1>3, NoPassphraseFacts
    <2>2. \E v : open(file, q) = Ok(v)
      BY <1>3, <2>1, ReadersOfSealed
    <2> QED  BY <2>2 DEF Ok
  <1>4. CASE file \in LegacyFiles
    <2>1. PICK p \in Passphrases : file = LegacyFile(p)
      BY <1>4 DEF LegacyFiles
    <2>2. file.header.version = 1 /\ file.box.key[2] = p
      BY <2>1, FileKinds
    <2>3. p.form # "mixed" /\ form \in {"nfc", "nfd"} /\ q = [word |-> p.word, form |-> form]
      BY <2>2
    <2>4. q \in Passphrases /\ p.word \in Words /\ p.form \in {"nfc", "nfd"}
          /\ p = [word |-> p.word, form |-> p.form] /\ q.word = p.word
      BY <2>3, <1>2 DEF Passphrases, Forms
    <2> HIDE DEF q, file
    <2>5. p \in passphrase_candidates(q)
      BY <2>4, Candidates
    <2>6. unprotect_seed(file, q) = Ok([seed |-> "legacy_seed", purpose |-> "Encryption"])
      BY <2>1, <2>5, UnprotectLegacy
    <2> QED  BY <2>4, <2>6, <1>3 DEF q
  <1>5. ASSUME NEW purpose \in {"Identity", "Encryption"}, NEW p \in Passphrases, NEW seed,
               file = SealedBy(p, purpose, seed)
        PROVE  open(file, q).ok
    <2>1. file.box.key[2] = normalize_passphrase(p)
      BY <1>5, FileKinds
    <2>2. q = [word |-> p.word, form |-> form]
      BY <2>1, Candidates
    <2>3. q \in Passphrases /\ q.word = p.word
      BY <2>2, <1>2 DEF Passphrases
    <2> HIDE DEF q, file
    <2>4. normalize_passphrase(p) \in passphrase_candidates(q)
      BY <2>3, Candidates
    <2>5. unprotect_seed(file, q) = Ok([seed |-> seed, purpose |-> purpose])
      BY <1>5, <2>4, UnprotectSealed
    <2> QED  BY <2>3, <2>5, <1>3
  <1>6. \/ file \in LegacyFiles
        \/ \E purpose \in {"Identity", "Encryption"}, p \in Passphrases : \E seed :
             file = SealedBy(p, purpose, seed)
    BY <1>1, FileKinds DEF KeyFile, EncryptionOnly, IdentityFile, EncryptionFile
  <1> QED  BY <1>4, <1>5, <1>6

(* A finished file: only two commands may change one.                      *)
Overwritten(path) == disk[path].kind \notin {"none", "torn"} /\ disk'[path] # disk[path]
MayOverwrite(path) ==
  \E p \in Processes : \/ path = "secret" /\ proc[p].cmd = "passwd"
                       \/ path = "out" /\ proc[p].cmd = "desktop_decrypt"

LEMMA OverwriteStep ==
  ASSUME ShapeInv, KeyNext, NEW path \in Paths, Overwritten(path)
  PROVE  MayOverwrite(path)
  <1>1. disk[path] # None /\ disk[path] # Torn /\ disk'[path] # disk[path] /\ path # "part"
    BY FileKinds DEF Overwritten, ShapeInv
  <1>2. ASSUME NEW p, NEW to \in Paths, NEW content, NEW next, commit_output(p, to, content, next)
        PROVE  FALSE
    BY <1>1, <1>2, CommitOutput
  <1>3. ASSUME NEW p, NEW to \in Paths, NEW next, create_new(p, to, next)
        PROVE  FALSE
    BY <1>1, <1>3, CreateNew
  <1>4. ASSUME NEW to \in Paths, NEW content, Fill(to, content)
        PROVE  FALSE
    BY <1>1, <1>4, FillFacts
  <1>5. PICK p \in Processes :
          \/ \E pass \in Typed : KeygenStart(p, pass)
          \/ KeygenCommit(p)
          \/ \E pass \in Typed : GenerateStart(p, pass)
          \/ GenerateStep(p)
          \/ \E current \in Typed, new \in Passphrases : PasswdRead(p, current, new)
          \/ PasswdReplace(p)
          \/ \E cmd \in {"encrypt", "open"}, b \in BOOLEAN, pass \in Typed : CliStart(p, cmd, b, pass)
          \/ seal_message(p)
          \/ \E text \in Texts, pass \in Typed : sign_file(p, text, pass)
          \/ CliPublish(p)
          \/ DesktopEncrypt(p)
          \/ \E b \in BOOLEAN, pass \in Typed : DesktopDecrypt(p, b, pass)
          \/ Crash(p)
    BY DEF KeyNext
  <1>6. "secret" \in Paths /\ "sign" \in Paths /\ "public" \in Paths /\ "out" \in Paths
        /\ "part" \in Paths
    BY DEF Paths
  <1>7. disk' # disk
    BY <1>1
  <1>8. ~(\E pass \in Typed : KeygenStart(p, pass))
    BY <1>7 DEF KeygenStart
  <1>9. ~KeygenCommit(p)
    BY <1>2, <1>6 DEF KeygenCommit
  <1>10. ~(\E pass \in Typed : GenerateStart(p, pass))
    BY <1>3, <1>6 DEF GenerateStart
  <1>11. ~GenerateStep(p)
    BY <1>3, <1>4, <1>6 DEF GenerateStep
  <1>12. ~(\E current \in Typed, new \in Passphrases : PasswdRead(p, current, new))
    BY <1>7 DEF PasswdRead
  <1>13. ASSUME PasswdReplace(p) PROVE MayOverwrite(path)
    <2>1. path = "secret" \/ disk'[path] = disk[path]
      BY <1>13 DEF PasswdReplace, Put, ShapeInv
    <2> QED  BY <1>1, <1>13, <2>1 DEF PasswdReplace, MayOverwrite
  <1>14. ~(\E cmd \in {"encrypt", "open"}, b \in BOOLEAN, pass \in Typed : CliStart(p, cmd, b, pass))
    BY <1>7 DEF CliStart
  <1>15. ~seal_message(p) /\ ~Crash(p)
    BY <1>7 DEF seal_message, Crash
  <1>16. ~(\E text \in Texts, pass \in Typed : sign_file(p, text, pass))
    BY <1>7 DEF sign_file
  <1>17. ~CliPublish(p)
    BY <1>2, <1>6, <1>7 DEF CliPublish
  <1>18. ~DesktopEncrypt(p)
    BY <1>3, <1>4, <1>6 DEF DesktopEncrypt
  <1>19. ASSUME NEW b \in BOOLEAN, NEW pass \in Typed, DesktopDecrypt(p, b, pass)
         PROVE  MayOverwrite(path)
    <2>1. proc[p].cmd = "desktop_decrypt"
      BY <1>3, <1>6, <1>19 DEF DesktopDecrypt
    <2>2. CASE disk' = [disk EXCEPT !["out"] = Plain(TRUE), !["part"] = None]
      <3>1. path = "out" \/ disk'[path] = disk[path]
        BY <1>1, <2>2 DEF ShapeInv
      <3> QED  BY <1>1, <2>1, <3>1 DEF MayOverwrite
    <2>3. CASE Put("part", None)
      <3>1. disk'[path] = disk[path]
        BY <1>1, <2>3 DEF ShapeInv, Put
      <3> QED  BY <1>1, <3>1
    <2> QED  BY <1>3, <1>6, <1>19, <2>2, <2>3 DEF DesktopDecrypt
  <1> QED  BY <1>5, <1>8, <1>9, <1>10, <1>11, <1>12, <1>13, <1>14, <1>15, <1>16, <1>17, <1>18, <1>19

LEMMA PlainIsAuthentic ==
  ASSUME ShapeInv, disk["out"].kind = "plain" PROVE disk["out"].authentic
  <1>1. /\ \A key, text : Signature(key, text).kind = "signature"
        /\ None.kind = "none" /\ Torn.kind = "torn" /\ Container.kind = "container"
    BY FileKinds
  <1>2. disk["out"] \in {None, Torn, Container, Plain(TRUE)}
    BY <1>1 DEF ShapeInv
  <1>3. disk["out"] = Plain(TRUE)
    BY <1>1, <1>2
  <1> QED  BY <1>3, FileKinds

-----------------------------------------------------------------------------
(* Which keys belong together.  Where keygen and generate_keys made the    *)
(* files, the process that has put its secret key there owns the paths:    *)
(* nobody else writes a public key until it is done, and what it leaves    *)
(* when it is killed stays as it is.  Where an old release made them, only *)
(* passwd writes the secret key, and keeps the seed.                       *)

PublicOf(secret, key) ==
  \E seed : secret \in IdentityFile(seed) /\ key = public_key(recipient_secret(seed))
VerifierOf(secret, key) ==
  \E seed : secret \in IdentityFile(seed) /\ key = public_key(signing_seed(seed))

Owner(r) == \/ r.cmd = "keygen" /\ r.step \in {"sign", "public"}
            \/ r.cmd = "generate_keys"

FreshProcess(secret, r) ==
  /\ r.cmd # "passwd"
  /\ r.cmd = "sign" => VerifierOf(secret, r.file.by)
  /\ Owner(r) => secret = IF r.cmd = "generate_keys" /\ r.step = "secret" THEN Torn ELSE r.file

FreshInv ==
  /\ disk["secret"] \in {None, Torn} \/ \E seed : disk["secret"] \in IdentityFile(seed)
  /\ disk["public"].kind = "public" => PublicOf(disk["secret"], disk["public"].key)
  /\ disk["sign"].kind = "verifying" => VerifierOf(disk["secret"], disk["sign"].key)
  /\ disk["out"].kind = "signature" => VerifierOf(disk["secret"], disk["out"].by)
  /\ \A p \in Processes : FreshProcess(disk["secret"], proc[p])
  /\ \A p, q \in Processes : Owner(proc[p]) /\ Owner(proc[q]) => p = q

LegacyInv ==
  /\ disk["secret"] \in LegacyFiles \cup EncryptionFile("legacy_seed")
  /\ disk["public"] = PublicFile(public_key("legacy_seed"))
  /\ disk["sign"] = None
  /\ \A p \in Processes :
       /\ proc[p].cmd \notin {"keygen", "generate_keys"}
       /\ proc[p].cmd = "passwd" => proc[p].file \in EncryptionFile("legacy_seed")

WorldInv == ShapeInv /\ (FreshInv \/ LegacyInv)

(* The seed of an identity's file.                                         *)
LEMMA IdentitySeed ==
  /\ \A s, t, f : f \in IdentityFile(s) /\ f \in IdentityFile(t) => s = t
  /\ \A s, f : f \in IdentityFile(s) => f # None /\ f # Torn /\ f.kind \in {"raw", "sealed"}
  <1>1. ASSUME NEW s, NEW f \in IdentityFile(s)
        PROVE  \/ f.kind = "raw" /\ f.seed = s
               \/ f.kind = "sealed" /\ f.box.inside = s
    <2>1. CASE f = Raw(s)
      BY <2>1, FileKinds
    <2>2. CASE \E p \in Passphrases : f = SealedBy(p, "Identity", s)
      BY <2>2, FileKinds
    <2> QED  BY <2>1, <2>2 DEF IdentityFile
  <1>2. None.kind = "none" /\ Torn.kind = "torn"
    BY FileKinds
  <1> QED  BY <1>1, <1>2

(* Until there is a secret key, nothing derives from one.                  *)
LEMMA NoSecretNoKeys ==
  ASSUME NEW secret \in {None, Torn}
  PROVE  \A key : ~PublicOf(secret, key) /\ ~VerifierOf(secret, key)
  BY IdentitySeed DEF PublicOf, VerifierOf

LEMMA IdleFresh ==
  ASSUME NEW secret PROVE FreshProcess(secret, Idle) /\ ~Owner(Idle)
  BY DEF FreshProcess, Owner, Idle

(* A step of a process that leaves the secret key alone.                   *)
LEMMA FreshSameSecret ==
  ASSUME FreshInv, DOMAIN proc = Processes, NEW p \in Processes, NEW next,
         proc' = [proc EXCEPT ![p] = next], disk'["secret"] = disk["secret"],
         FreshProcess(disk["secret"], next), Owner(next) => Owner(proc[p]),
         /\ disk'["public"] = disk["public"] \/ disk'["public"] = Torn
            \/ \E key : disk'["public"] = PublicFile(key) /\ PublicOf(disk["secret"], key)
         /\ disk'["sign"] = disk["sign"]
            \/ \E key : disk'["sign"] = VerifyingFile(key) /\ VerifierOf(disk["secret"], key)
         /\ \/ disk'["out"] \in {disk["out"], Torn, Container, Plain(TRUE)}
            \/ disk'["out"].kind = "signature" /\ VerifierOf(disk["secret"], disk'["out"].by)
  PROVE  FreshInv'
  <1>1. \A q \in Processes : proc'[q] = IF q = p THEN next ELSE proc[q]
    OBVIOUS
  <1>2. \A q \in Processes : FreshProcess(disk'["secret"], proc'[q])
    BY <1>1 DEF FreshInv
  <1>3. \A q, r \in Processes : Owner(proc'[q]) /\ Owner(proc'[r]) => q = r
    BY <1>1 DEF FreshInv
  <1>4. disk'["public"].kind = "public" => PublicOf(disk'["secret"], disk'["public"].key)
    BY FileKinds DEF FreshInv
  <1>5. disk'["sign"].kind = "verifying" => VerifierOf(disk'["secret"], disk'["sign"].key)
    BY FileKinds DEF FreshInv
  <1>6. disk'["out"].kind = "signature" => VerifierOf(disk'["secret"], disk'["out"].by)
    BY FileKinds DEF FreshInv
  <1>7. disk'["secret"] \in {None, Torn} \/ \E seed : disk'["secret"] \in IdentityFile(seed)
    BY DEF FreshInv
  <1> QED  BY <1>2, <1>3, <1>4, <1>5, <1>6, <1>7 DEF FreshInv

(* A step that puts the first secret key there, or the beginning of one.   *)
LEMMA FreshNewSecret ==
  ASSUME FreshInv, DOMAIN proc = Processes, NEW p \in Processes, NEW next,
         proc' = [proc EXCEPT ![p] = next], disk["secret"] \in {None, Torn},
         disk'["secret"] = Torn \/ \E seed : disk'["secret"] \in IdentityFile(seed),
         \A q \in Processes : Owner(proc[q]) => q = p,
         FreshProcess(disk'["secret"], next),
         disk'["public"] = disk["public"], disk'["sign"] = disk["sign"], disk'["out"] = disk["out"]
  PROVE  FreshInv'
  <1>1. \A q \in Processes : proc'[q] = IF q = p THEN next ELSE proc[q]
    OBVIOUS
  <1>2. \A q \in Processes : FreshProcess(disk'["secret"], proc'[q])
    BY <1>1, NoSecretNoKeys DEF FreshInv, FreshProcess
  <1>3. \A q, r \in Processes : Owner(proc'[q]) /\ Owner(proc'[r]) => q = r
    BY <1>1
  <1>4. /\ disk'["public"].kind # "public" /\ disk'["sign"].kind # "verifying"
        /\ disk'["out"].kind # "signature"
    BY NoSecretNoKeys DEF FreshInv
  <1>5. disk'["secret"] \in {None, Torn} \/ \E seed : disk'["secret"] \in IdentityFile(seed)
    OBVIOUS
  <1> QED  BY <1>2, <1>3, <1>4, <1>5 DEF FreshInv

LEMMA NoSecretNoOwner ==
  ASSUME ShapeInv, FreshInv, disk["secret"] = None
  PROVE  \A q \in Processes : ~Owner(proc[q])
  <1> SUFFICES ASSUME NEW q \in Processes, Owner(proc[q]) PROVE FALSE
    OBVIOUS
  <1>1. Doing(proc[q]) /\ FreshProcess(disk["secret"], proc[q])
    BY DEF ShapeInv, FreshInv
  <1>2. proc[q].file \in IdentityFile(proc[q].seed)
    BY <1>1, DoingFacts DEF Owner
  <1>3. None # Torn /\ proc[q].file # None
    BY <1>2, FileKinds, IdentitySeed
  <1> QED  BY <1>1, <1>3 DEF FreshProcess

LEMMA FreshKeygen ==
  ASSUME ShapeInv, FreshInv, NEW p \in Processes
  PROVE  /\ \A pass \in Typed : KeygenStart(p, pass) => FreshInv'
         /\ KeygenCommit(p) => FreshInv'
  <1>0. DOMAIN proc = Processes
    BY DEF ShapeInv
  <1>1. ASSUME NEW pass \in Typed, KeygenStart(p, pass) PROVE FreshInv'
    <2> DEFINE seed == seeds + 1
               made == IF pass = NoPassphrase THEN Ok(Raw(seed)) ELSE protect_identity(seed, pass)
               next == [cmd |-> "keygen", step |-> "secret", seed |-> seed, file |-> made.value]
    <2>1. proc' = [proc EXCEPT ![p] = next] /\ next.cmd = "keygen" /\ next.step = "secret"
      BY <1>1 DEF KeygenStart, Go
    <2> HIDE DEF next
    <2>2. ~Owner(next) /\ FreshProcess(disk["secret"], next)
      BY <2>1 DEF Owner, FreshProcess
    <2> QED  BY <1>0, <1>1, <2>1, <2>2, FreshSameSecret DEF KeygenStart
  <1>2. ASSUME KeygenCommit(p) PROVE FreshInv'
    <2> DEFINE me == proc[p]
               At(step) == [cmd |-> "keygen", step |-> step, seed |-> me.seed, file |-> me.file]
               verifying == public_key(signing_seed(me.seed))
               public == public_key(recipient_secret(me.seed))
    <2>1. me.file \in IdentityFile(me.seed) /\ me = At(me.step) /\ me.cmd = "keygen"
      BY <1>2, DoingFacts DEF ShapeInv, KeygenCommit
    <2>2. [me EXCEPT !.step = "sign"] = At("sign") /\ [me EXCEPT !.step = "public"] = At("public")
      BY <2>1
    <2>3. \A step \in {"sign", "public"} : \A secret :
            secret = me.file => FreshProcess(secret, At(step))
      BY DEF FreshProcess
    <2>4. me.step \in {"sign", "public"} => Owner(me) /\ disk["secret"] = me.file
      BY <2>1 DEF FreshInv, FreshProcess, Owner
    <2>5. \/ me.step = "secret" /\ commit_output(p, "secret", me.file, At("sign"))
          \/ me.step = "sign" /\ commit_output(p, "sign", VerifyingFile(verifying), At("public"))
          \/ me.step = "public" /\ commit_output(p, "public", PublicFile(public), Idle)
      BY <1>2, <2>2 DEF KeygenCommit
    <2>6. disk["secret"] = me.file =>
            VerifierOf(disk["secret"], verifying) /\ PublicOf(disk["secret"], public)
      BY <2>1 DEF VerifierOf, PublicOf
    <2>7. me = proc[p]
      OBVIOUS
    <2> HIDE DEF me, At, verifying, public
    <2>8. CASE disk' = disk /\ proc' = [proc EXCEPT ![p] = Idle]
      BY <1>0, <2>8, IdleFresh, FreshSameSecret
    <2>9. CASE me.step = "secret" /\ commit_output(p, "secret", me.file, At("sign"))
      <3>1. CASE /\ disk["secret"] = None /\ disk'["secret"] = me.file
                 /\ \A q \in Paths \ {"secret"} : disk'[q] = disk[q]
                 /\ proc' = [proc EXCEPT ![p] = At("sign")]
        <4>1. /\ disk'["public"] = disk["public"] /\ disk'["sign"] = disk["sign"]
              /\ disk'["out"] = disk["out"]
          BY <3>1 DEF Paths
        <4>2. \A q \in Processes : Owner(proc[q]) => q = p
          BY <3>1, NoSecretNoOwner
        <4>3. FreshProcess(disk'["secret"], At("sign"))
          BY <2>3, <3>1
        <4> QED  BY <1>0, <2>1, <3>1, <4>1, <4>2, <4>3, FreshNewSecret
      <3>2. "secret" \in Paths
        BY DEF Paths
      <3>3. \/ /\ disk["secret"] = None /\ disk'["secret"] = me.file
               /\ \A q \in Paths \ {"secret"} : disk'[q] = disk[q]
               /\ proc' = [proc EXCEPT ![p] = At("sign")]
            \/ disk' = disk /\ proc' = [proc EXCEPT ![p] = Idle]
        BY <2>9, <3>2, CommitOutput
      <3> QED  BY <2>8, <3>1, <3>3
    <2>10. CASE me.step = "sign" /\ commit_output(p, "sign", VerifyingFile(verifying), At("public"))
      <3>1. CASE /\ disk'["sign"] = VerifyingFile(verifying)
                 /\ \A q \in Paths \ {"sign"} : disk'[q] = disk[q]
                 /\ proc' = [proc EXCEPT ![p] = At("public")]
        <4>1. Owner(proc[p]) /\ VerifierOf(disk["secret"], verifying)
              /\ FreshProcess(disk["secret"], At("public"))
          BY <2>3, <2>4, <2>6, <2>7, <2>10
        <4>2. disk'["secret"] = disk["secret"] /\ disk'["public"] = disk["public"]
              /\ disk'["out"] = disk["out"]
          BY <3>1 DEF Paths
        <4> QED  BY <1>0, <3>1, <4>1, <4>2, FreshSameSecret
      <3>2. "sign" \in Paths
        BY DEF Paths
      <3> QED  BY <2>8, <2>10, <3>1, <3>2, CommitOutput
    <2>11. CASE me.step = "public" /\ commit_output(p, "public", PublicFile(public), Idle)
      <3>1. CASE /\ disk'["public"] = PublicFile(public)
                 /\ \A q \in Paths \ {"public"} : disk'[q] = disk[q]
                 /\ proc' = [proc EXCEPT ![p] = Idle]
        <4>1. PublicOf(disk["secret"], public)
          BY <2>4, <2>6, <2>11
        <4>2. disk'["secret"] = disk["secret"] /\ disk'["sign"] = disk["sign"]
              /\ disk'["out"] = disk["out"]
          BY <3>1 DEF Paths
        <4> QED  BY <1>0, <3>1, <4>1, <4>2, FreshSameSecret, IdleFresh
      <3>2. "public" \in Paths
        BY DEF Paths
      <3> QED  BY <2>8, <2>11, <3>1, <3>2, CommitOutput
    <2> QED  BY <2>5, <2>9, <2>10, <2>11
  <1> QED  BY <1>1, <1>2

LEMMA FreshGenerate ==
  ASSUME ShapeInv, FreshInv, NEW p \in Processes
  PROVE  /\ \A pass \in Typed : GenerateStart(p, pass) => FreshInv'
         /\ GenerateStep(p) => FreshInv'
  <1>0. DOMAIN proc = Processes
    BY DEF ShapeInv
  <1>1. ASSUME NEW pass \in Typed, GenerateStart(p, pass) PROVE FreshInv'
    <2>1. PICK next : create_new(p, "secret", next)
                      /\ next.cmd = "generate_keys" /\ next.step = "secret"
      BY <1>1 DEF GenerateStart
    <2>2. FreshProcess(Torn, next)
      BY <2>1 DEF FreshProcess
    <2>3. CASE disk' = disk /\ proc' = [proc EXCEPT ![p] = Idle]
      BY <1>0, <2>3, IdleFresh, FreshSameSecret
    <2>4. CASE /\ disk["secret"] = None /\ disk'["secret"] = Torn
               /\ \A q \in Paths \ {"secret"} : disk'[q] = disk[q]
               /\ proc' = [proc EXCEPT ![p] = next]
      <3>1. /\ disk'["public"] = disk["public"] /\ disk'["sign"] = disk["sign"]
            /\ disk'["out"] = disk["out"]
        BY <2>4 DEF Paths
      <3>2. \A q \in Processes : Owner(proc[q]) => q = p
        BY <2>4, NoSecretNoOwner
      <3> QED  BY <1>0, <2>2, <2>4, <3>1, <3>2, FreshNewSecret
    <2> QED  BY <2>1, <2>3, <2>4, CreateNew DEF Paths
  <1>2. ASSUME GenerateStep(p) PROVE FreshInv'
    <2> DEFINE me == proc[p]
               At(step) == [cmd |-> "generate_keys", step |-> step, seed |-> me.seed,
                            file |-> me.file]
               public == public_key(recipient_secret(me.seed))
    <2>1. me.file \in IdentityFile(me.seed) /\ me = At(me.step) /\ me.cmd = "generate_keys"
      BY <1>2, DoingFacts DEF ShapeInv, GenerateStep
    <2>2. [me EXCEPT !.step = "create"] = At("create") /\ [me EXCEPT !.step = "public"] = At("public")
      BY <2>1
    <2>3. \A step \in {"create", "public"} : \A secret :
            secret = me.file => FreshProcess(secret, At(step))
      BY DEF FreshProcess
    <2>4. /\ Owner(proc[p])
          /\ disk["secret"] = IF me.step = "secret" THEN Torn ELSE me.file
      BY <2>1 DEF FreshInv, FreshProcess, Owner
    <2>5. \/ /\ me.step = "secret" /\ Fill("secret", me.file)
             /\ proc' = [proc EXCEPT ![p] = At("create")]
          \/ me.step = "create" /\ create_new(p, "public", At("public"))
          \/ /\ me.step = "public" /\ Fill("public", PublicFile(public))
             /\ proc' = [proc EXCEPT ![p] = Idle]
      BY <1>2, <2>2 DEF GenerateStep, Go, Finish
    <2>6. disk["secret"] = me.file => PublicOf(disk["secret"], public)
      BY <2>1 DEF PublicOf
    <2> HIDE DEF me, At, public
    <2>7. CASE disk' = disk /\ proc' = [proc EXCEPT ![p] = Idle]
      BY <1>0, <2>7, IdleFresh, FreshSameSecret
    <2>8. CASE /\ me.step = "secret" /\ Fill("secret", me.file)
               /\ proc' = [proc EXCEPT ![p] = At("create")]
      <3>1. /\ disk["secret"] = Torn /\ disk'["secret"] = me.file
            /\ disk'["public"] = disk["public"] /\ disk'["sign"] = disk["sign"]
            /\ disk'["out"] = disk["out"]
        BY <2>4, <2>8, FillFacts DEF Paths
      <3>2. \A q \in Processes : Owner(proc[q]) => q = p
        BY <2>4 DEF FreshInv
      <3> QED  BY <1>0, <2>1, <2>3, <2>8, <3>1, <3>2, FreshNewSecret
    <2>9. CASE me.step = "create" /\ create_new(p, "public", At("public"))
      <3>1. CASE /\ disk'["public"] = Torn /\ \A q \in Paths \ {"public"} : disk'[q] = disk[q]
                 /\ proc' = [proc EXCEPT ![p] = At("public")]
        <4>1. FreshProcess(disk["secret"], At("public"))
          BY <2>3, <2>4, <2>9
        <4>2. disk'["secret"] = disk["secret"] /\ disk'["sign"] = disk["sign"]
              /\ disk'["out"] = disk["out"]
          BY <3>1 DEF Paths
        <4> QED  BY <1>0, <2>4, <3>1, <4>1, <4>2, FreshSameSecret
      <3> QED  BY <2>7, <2>9, <3>1, CreateNew DEF Paths
    <2>10. CASE /\ me.step = "public" /\ Fill("public", PublicFile(public))
                /\ proc' = [proc EXCEPT ![p] = Idle]
      <3>1. /\ disk'["public"] \in {PublicFile(public), disk["public"]}
            /\ disk'["secret"] = disk["secret"] /\ disk'["sign"] = disk["sign"]
            /\ disk'["out"] = disk["out"]
        BY <2>10, FillFacts DEF Paths
      <3>2. PublicOf(disk["secret"], public)
        BY <2>4, <2>6, <2>10
      <3> QED  BY <1>0, <2>10, <3>1, <3>2, FreshSameSecret, IdleFresh
    <2> QED  BY <2>5, <2>8, <2>9, <2>10
  <1> QED  BY <1>1, <1>2

(* What signs with an identity's file signs with its key.                  *)
LEMMA SigningOf ==
  ASSUME NEW seed, NEW f \in IdentityFile(seed), NEW p, load_signing_identity(f, p).ok
  PROVE  load_signing_identity(f, p).value = signing_seed(seed)
  <1>1. CASE f = Raw(seed)
    BY <1>1, ReadersOfRaw DEF Ok
  <1>2. ASSUME NEW q \in Passphrases, f = SealedBy(q, "Identity", seed)
        PROVE  load_signing_identity(f, p).value = signing_seed(seed)
    <2>1. f.kind = "sealed" /\ inspect(f) = "Protected"
      BY <1>2, FileKinds DEF inspect
    <2>2. load_key(f, p) = unprotect_seed(f, p)
      BY <2>1 DEF load_key
    <2>3. \/ unprotect_seed(f, p) = Ok([seed |-> seed, purpose |-> "Identity"])
          \/ unprotect_seed(f, p) = Err("WrongPassphrase")
      BY <1>2, UnprotectSealed
    <2>4. CASE unprotect_seed(f, p) = Err("WrongPassphrase")
      <3>1. ~load_key(f, p).ok
        BY <2>2, <2>4 DEF Err
      <3>2. load_signing_identity(f, p) = load_key(f, p)
        BY <3>1 DEF load_signing_identity
      <3> QED  BY <3>1, <3>2
    <2>5. CASE unprotect_seed(f, p) = Ok([seed |-> seed, purpose |-> "Identity"])
      <3>1. /\ load_key(f, p).ok /\ load_key(f, p).value.purpose = "Identity"
            /\ load_key(f, p).value.seed = seed
        BY <2>2, <2>5 DEF Ok
      <3>2. load_signing_identity(f, p) = Ok(signing_seed(seed))
        BY <3>1 DEF load_signing_identity
      <3> QED  BY <3>2 DEF Ok
    <2> QED  BY <2>3, <2>4, <2>5
  <1> QED  BY <1>1, <1>2 DEF IdentityFile

(* A sealed identity is not for passwd.                                    *)
LEMMA IdentityRefused ==
  ASSUME NEW seed, NEW q, NEW p
  PROVE  ~unprotect(SealedBy(q, "Identity", seed), p).ok
  <1> DEFINE opened == unprotect_seed(SealedBy(q, "Identity", seed), p)
  <1>1. \/ opened = Ok([seed |-> seed, purpose |-> "Identity"])
        \/ opened = Err("WrongPassphrase")
    BY UnprotectSealed
  <1>2. \/ opened.ok /\ opened.value.purpose = "Identity"
        \/ ~opened.ok
    BY <1>1 DEF Ok, Err
  <1>3. unprotect(SealedBy(q, "Identity", seed), p) =
          IF ~opened.ok THEN opened
          ELSE IF opened.value.purpose # "Encryption" THEN Err("WrongPurpose")
          ELSE Ok(opened.value.seed)
    BY DEF unprotect
  <1> HIDE DEF opened
  <1>4. ~Err("WrongPurpose").ok
    BY DEF Err
  <1> QED  BY <1>2, <1>3, <1>4

LEMMA FreshPasswd ==
  ASSUME ShapeInv, FreshInv, "raw" \notin PasswdOn, NEW p \in Processes
  PROVE  /\ \A current \in Typed, new \in Passphrases : ~PasswdRead(p, current, new)
         /\ ~PasswdReplace(p)
  <1>1. ASSUME NEW current \in Typed, NEW new \in Passphrases, PasswdRead(p, current, new)
        PROVE  FALSE
    <2> DEFINE file == disk["secret"]
    <2>1. file.kind \in PasswdOn
      BY <1>1 DEF PasswdRead
    <2>2. file.kind = "sealed"
      BY <2>1, KeyFilesAssumption
    <2>3. file # None /\ file # Torn
      BY <2>2, FileKinds
    <2>4. PICK seed : file \in IdentityFile(seed)
      BY <2>3 DEF FreshInv
    <2>5. PICK q : file = SealedBy(q, "Identity", seed)
      BY <2>2, <2>4, FileKinds DEF IdentityFile
    <2>6. ~unprotect(file, current).ok
      BY <2>5, IdentityRefused
    <2>7. inspect(file) # "Raw"
      BY <2>2 DEF inspect
    <2> QED  BY <1>1, <2>6, <2>7 DEF PasswdRead
  <1>2. ~PasswdReplace(p)
    BY DEF PasswdReplace, FreshInv, FreshProcess
  <1> QED  BY <1>1, <1>2

(* Steps that at most write the output.                                    *)
LEMMA FreshQuiet ==
  ASSUME ShapeInv, FreshInv, NEW p \in Processes, NEW next,
         proc' = [proc EXCEPT ![p] = next], ~Owner(next), FreshProcess(disk["secret"], next),
         disk'["secret"] = disk["secret"], disk'["public"] = disk["public"],
         disk'["sign"] = disk["sign"],
         \/ disk'["out"] \in {disk["out"], Torn, Container, Plain(TRUE)}
         \/ disk'["out"].kind = "signature" /\ VerifierOf(disk["secret"], disk'["out"].by)
  PROVE  FreshInv'
  BY FreshSameSecret DEF ShapeInv

LEMMA FreshCommitOut ==
  ASSUME ShapeInv, FreshInv, NEW p \in Processes, NEW content,
         \/ content \in {Container, Plain(TRUE)}
         \/ content.kind = "signature" /\ VerifierOf(disk["secret"], content.by),
         commit_output(p, "out", content, Idle)
  PROVE  FreshInv'
  <1>1. "out" \in Paths
    BY DEF Paths
  <1>2. proc' = [proc EXCEPT ![p] = Idle]
    BY <1>1, CommitOutput
  <1>3. CASE disk'["out"] = content /\ \A q \in Paths \ {"out"} : disk'[q] = disk[q]
    BY <1>2, <1>3, FreshQuiet, IdleFresh DEF Paths
  <1>4. CASE disk' = disk
    BY <1>2, <1>4, FreshQuiet, IdleFresh
  <1> QED  BY <1>1, <1>3, <1>4, CommitOutput

(* What a process that only makes an output is in the middle of.           *)
Outputs == {"encrypt", "open", "seal", "desktop_encrypt", "desktop_decrypt"}

LEMMA FreshOutput ==
  ASSUME ShapeInv, FreshInv, NEW p \in Processes
  PROVE  /\ \A cmd \in {"encrypt", "open"}, b \in BOOLEAN, pass \in Typed :
              CliStart(p, cmd, b, pass) => FreshInv'
         /\ seal_message(p) => FreshInv'
         /\ \A text \in Texts, pass \in Typed : sign_file(p, text, pass) => FreshInv'
         /\ CliPublish(p) => FreshInv'
         /\ DesktopEncrypt(p) => FreshInv'
         /\ \A b \in BOOLEAN, pass \in Typed : DesktopDecrypt(p, b, pass) => FreshInv'
         /\ Crash(p) => FreshInv'
  <1>0. "out" \in Paths /\ "part" \in Paths /\ DOMAIN disk = Paths
    BY DEF Paths, ShapeInv
  <1>a. ASSUME NEW r, r.cmd \in Outputs
        PROVE  ~Owner(r) /\ FreshProcess(disk["secret"], r)
    BY <1>a DEF Owner, FreshProcess, Outputs
  <1>b. ASSUME NEW r, r.cmd \in Outputs, proc' = [proc EXCEPT ![p] = r], disk' = disk
        PROVE  FreshInv'
    <2>1. ~Owner(r) /\ FreshProcess(disk["secret"], r)
      BY <1>a, <1>b
    <2> QED  BY <1>b, <2>1, FreshQuiet
  <1>1. ASSUME NEW cmd \in {"encrypt", "open"}, NEW b \in BOOLEAN, NEW pass \in Typed,
               CliStart(p, cmd, b, pass)
        PROVE  FreshInv'
    <2> DEFINE r == [cmd |-> cmd, authentic |-> b]
    <2>1. disk' = disk /\ proc' = [proc EXCEPT ![p] = r] /\ r.cmd \in Outputs
      BY <1>1 DEF CliStart, Go, Outputs
    <2> HIDE DEF r
    <2> QED  BY <2>1, <1>b
  <1>2. ASSUME seal_message(p) PROVE FreshInv'
    <2> DEFINE r == [cmd |-> "seal"]
    <2>1. disk' = disk /\ proc' = [proc EXCEPT ![p] = r] /\ r.cmd \in Outputs
      BY <1>2 DEF seal_message, Go, Outputs
    <2> HIDE DEF r
    <2> QED  BY <2>1, <1>b
  <1>3. ASSUME NEW text \in Texts, NEW pass \in Typed, sign_file(p, text, pass)
        PROVE  FreshInv'
    <2> DEFINE identity == load_signing_identity(disk["secret"], pass)
               key == public_key(identity.value)
               r == [cmd |-> "sign", file |-> Signature(key, text)]
    <2>1. disk' = disk /\ proc' = [proc EXCEPT ![p] = r] /\ identity.ok
      BY <1>3 DEF sign_file, Go
    <2>2. r.cmd = "sign" /\ r.file.by = key
      BY FileKinds
    <2>3. disk["secret"].kind \in {"raw", "sealed"}
      <3>1. disk["secret"].kind \notin {"raw", "sealed"} =>
              load_key(disk["secret"], pass) = Err("NotASecretKey")
        BY DEF load_key
      <3>2. ~Err("NotASecretKey").ok
        BY DEF Err
      <3>3. load_key(disk["secret"], pass).ok
        BY <2>1 DEF load_signing_identity
      <3> QED  BY <3>1, <3>2, <3>3
    <2>4. PICK seed : disk["secret"] \in IdentityFile(seed)
      BY <2>3, FileKinds DEF FreshInv
    <2>5. identity.value = signing_seed(seed)
      BY <2>1, <2>4, SigningOf
    <2>6. VerifierOf(disk["secret"], key)
      BY <2>4, <2>5 DEF VerifierOf
    <2> HIDE DEF r, key, identity
    <2>7. ~Owner(r) /\ FreshProcess(disk["secret"], r)
      BY <2>2, <2>6 DEF Owner, FreshProcess
    <2> QED  BY <2>1, <2>7, FreshQuiet
  <1>4. ASSUME CliPublish(p) PROVE FreshInv'
    <2>1. CASE commit_output(p, "out", Container, Idle) \/ commit_output(p, "out", Plain(TRUE), Idle)
      BY <2>1, FreshCommitOut
    <2>2. CASE proc[p].cmd = "sign" /\ commit_output(p, "out", proc[p].file, Idle)
      <3>1. PICK key, text : proc[p].file = Signature(key, text)
        BY <2>2, DoingFacts DEF ShapeInv
      <3>2. proc[p].file.kind = "signature"
        BY <3>1, FileKinds
      <3>3. VerifierOf(disk["secret"], proc[p].file.by)
        BY <2>2 DEF FreshInv, FreshProcess
      <3> QED  BY <2>2, <3>2, <3>3, FreshCommitOut
    <2>3. CASE Finish(p) /\ UNCHANGED <<disk, seeds>>
      BY <2>3, FreshQuiet, IdleFresh DEF Finish
    <2> QED  BY <1>4, <2>1, <2>2, <2>3 DEF CliPublish
  <1>c. ASSUME NEW next, NEW path \in {"out", "part"}, create_new(p, path, next),
               next.cmd \in Outputs
        PROVE  FreshInv'
    <2>1. CASE disk' = disk /\ proc' = [proc EXCEPT ![p] = Idle]
      BY <2>1, FreshQuiet, IdleFresh
    <2>2. CASE /\ disk'[path] = Torn /\ \A q \in Paths \ {path} : disk'[q] = disk[q]
               /\ proc' = [proc EXCEPT ![p] = next]
      <3>1. /\ disk'["secret"] = disk["secret"] /\ disk'["public"] = disk["public"]
            /\ disk'["sign"] = disk["sign"] /\ disk'["out"] \in {disk["out"], Torn}
        BY <2>2 DEF Paths
      <3>2. ~Owner(next) /\ FreshProcess(disk["secret"], next)
        BY <1>a, <1>c
      <3> QED  BY <2>2, <3>1, <3>2, FreshQuiet
    <2>3. path \in Paths
      BY <1>0
    <2> QED  BY <1>c, <2>1, <2>2, <2>3, CreateNew
  <1>5. ASSUME DesktopEncrypt(p) PROVE FreshInv'
    <2>1. CASE create_new(p, "out", [cmd |-> "desktop_encrypt"])
      <3> DEFINE r == [cmd |-> "desktop_encrypt"]
      <3>1. r.cmd \in Outputs /\ create_new(p, "out", r)
        BY <2>1 DEF Outputs
      <3> HIDE DEF r
      <3> QED  BY <3>1, <1>c
    <2>2. CASE Fill("out", Container) /\ Finish(p)
      <3>1. /\ disk'["secret"] = disk["secret"] /\ disk'["public"] = disk["public"]
            /\ disk'["sign"] = disk["sign"] /\ disk'["out"] \in {disk["out"], Container}
        BY <1>0, <2>2, FillFacts DEF Paths
      <3> QED  BY <2>2, <3>1, FreshQuiet, IdleFresh DEF Finish
    <2> QED  BY <1>5, <2>1, <2>2 DEF DesktopEncrypt
  <1>6. ASSUME NEW b \in BOOLEAN, NEW pass \in Typed, DesktopDecrypt(p, b, pass)
        PROVE  FreshInv'
    <2>1. CASE create_new(p, "part", [cmd |-> "desktop_decrypt", authentic |-> b])
      <3> DEFINE r == [cmd |-> "desktop_decrypt", authentic |-> b]
      <3>1. r.cmd \in Outputs /\ create_new(p, "part", r)
        BY <2>1 DEF Outputs
      <3> HIDE DEF r
      <3> QED  BY <3>1, <1>c
    <2>2. CASE disk' = [disk EXCEPT !["out"] = Plain(TRUE), !["part"] = None] /\ Finish(p)
      <3>1. /\ disk'["secret"] = disk["secret"] /\ disk'["public"] = disk["public"]
            /\ disk'["sign"] = disk["sign"] /\ disk'["out"] = Plain(TRUE)
        BY <1>0, <2>2 DEF Paths
      <3> QED  BY <2>2, <3>1, FreshQuiet, IdleFresh DEF Finish
    <2>3. CASE Put("part", None) /\ Finish(p)
      <3>1. /\ disk'["secret"] = disk["secret"] /\ disk'["public"] = disk["public"]
            /\ disk'["sign"] = disk["sign"] /\ disk'["out"] = disk["out"]
        BY <1>0, <2>3 DEF Paths, Put
      <3> QED  BY <2>3, <3>1, FreshQuiet, IdleFresh DEF Finish
    <2> QED  BY <1>6, <2>1, <2>2, <2>3 DEF DesktopDecrypt
  <1>7. ASSUME Crash(p) PROVE FreshInv'
    BY <1>7, FreshQuiet, IdleFresh DEF Crash, Finish
  <1> QED  BY <1>1, <1>2, <1>3, <1>4, <1>5, <1>6, <1>7

-----------------------------------------------------------------------------
(* The files of an old release.                                            *)

LEMMA LegacyUnprotects ==
  ASSUME NEW f \in LegacyFiles \cup EncryptionFile("legacy_seed"), NEW p
  PROVE  /\ f.kind = "sealed" /\ KeyFile(f)
         /\ \/ unprotect_seed(f, p) = Err("WrongPassphrase")
            \/ unprotect_seed(f, p) = Ok([seed |-> "legacy_seed", purpose |-> "Encryption"])
  <1>1. CASE f \in LegacyFiles
    BY <1>1, FileKinds, UnprotectLegacy DEF LegacyFiles, KeyFile, EncryptionOnly
  <1>2. CASE f \in EncryptionFile("legacy_seed")
    <2>1. PICK q \in Passphrases : f = SealedBy(q, "Encryption", "legacy_seed")
      BY <1>2 DEF EncryptionFile
    <2> QED  BY <1>2, <2>1, FileKinds, UnprotectSealed DEF KeyFile, EncryptionOnly
  <1> QED  BY <1>1, <1>2

LEMMA LegacyStep ==
  ASSUME ShapeInv, LegacyInv, NEW p \in Processes, NEW next,
         proc' = [proc EXCEPT ![p] = next], next.cmd \notin {"keygen", "generate_keys"},
         next.cmd = "passwd" => next.file \in EncryptionFile("legacy_seed"),
         disk'["secret"] \in {disk["secret"]} \cup EncryptionFile("legacy_seed"),
         disk'["public"] = disk["public"], disk'["sign"] = disk["sign"]
  PROVE  LegacyInv'
  <1>1. \A q \in Processes : proc'[q] = IF q = p THEN next ELSE proc[q]
    BY DEF ShapeInv
  <1>2. \A q \in Processes :
          /\ proc'[q].cmd \notin {"keygen", "generate_keys"}
          /\ proc'[q].cmd = "passwd" => proc'[q].file \in EncryptionFile("legacy_seed")
    BY <1>1 DEF LegacyInv
  <1> QED  BY <1>2 DEF LegacyInv

LEMMA LegacyKeys ==
  ASSUME ShapeInv, LegacyInv, NEW p \in Processes
  PROVE  /\ \A pass \in Typed : ~KeygenStart(p, pass)
         /\ ~KeygenCommit(p) /\ ~GenerateStep(p)
         /\ \A pass \in Typed : GenerateStart(p, pass) => LegacyInv'
         /\ \A current \in Typed, new \in Passphrases : PasswdRead(p, current, new) => LegacyInv'
         /\ PasswdReplace(p) => LegacyInv'
  <1>0. disk["secret"].kind = "sealed" /\ disk["secret"] # None
    BY LegacyUnprotects, FileKinds DEF LegacyInv
  <1>1. \A pass \in Typed : ~KeygenStart(p, pass)
    BY <1>0 DEF KeygenStart, new_output
  <1>2. ~KeygenCommit(p) /\ ~GenerateStep(p)
    BY DEF KeygenCommit, GenerateStep, LegacyInv
  <1>3. ASSUME NEW pass \in Typed, GenerateStart(p, pass) PROVE LegacyInv'
    <2>1. disk' = disk /\ proc' = [proc EXCEPT ![p] = Idle]
      BY <1>0, <1>3 DEF GenerateStart, create_new, Finish
    <2> QED  BY <2>1, LegacyStep, IdleDoing
  <1>4. ASSUME NEW current \in Typed, NEW new \in Passphrases, PasswdRead(p, current, new)
        PROVE  LegacyInv'
    <2> DEFINE secret == unprotect(disk["secret"], current)
               file == protect(secret.value, new).value
               r == [cmd |-> "passwd", file |-> file]
    <2>1. inspect(disk["secret"]) # "Raw"
      BY <1>0 DEF inspect
    <2>2. /\ secret.ok /\ protect(secret.value, new).ok
          /\ disk' = disk /\ proc' = [proc EXCEPT ![p] = r]
      BY <1>4, <2>1 DEF PasswdRead, Go
    <2>3. secret.value = "legacy_seed"
      <3> DEFINE opened == unprotect_seed(disk["secret"], current)
      <3>1. \/ opened = Err("WrongPassphrase")
            \/ opened = Ok([seed |-> "legacy_seed", purpose |-> "Encryption"])
        BY LegacyUnprotects DEF LegacyInv
      <3>2. \/ ~opened.ok
            \/ opened.ok /\ opened.value.purpose = "Encryption" /\ opened.value.seed = "legacy_seed"
        BY <3>1 DEF Err, Ok
      <3>3. secret = IF ~opened.ok THEN opened
                     ELSE IF opened.value.purpose # "Encryption" THEN Err("WrongPurpose")
                     ELSE Ok(opened.value.seed)
        BY DEF unprotect
      <3> HIDE DEF opened, secret
      <3>4. secret = Ok("legacy_seed")
        BY <2>2, <3>2, <3>3
      <3> QED  BY <3>4 DEF Ok
    <2> HIDE DEF secret
    <2>4. file \in EncryptionFile("legacy_seed")
      BY <2>2, <2>3, ProtectSeed DEF protect, Ok, EncryptionFile
    <2>5. r.cmd = "passwd" /\ r.file = file
      OBVIOUS
    <2> HIDE DEF r, file
    <2> QED  BY <2>2, <2>4, <2>5, LegacyStep
  <1>5. ASSUME PasswdReplace(p) PROVE LegacyInv'
    <2>1. /\ disk' = [disk EXCEPT !["secret"] = proc[p].file]
          /\ proc' = [proc EXCEPT ![p] = Idle] /\ proc[p].cmd = "passwd"
      BY <1>5 DEF PasswdReplace, Put, Finish
    <2>2. /\ disk'["secret"] = proc[p].file /\ disk'["public"] = disk["public"]
          /\ disk'["sign"] = disk["sign"]
      BY <2>1 DEF ShapeInv, Paths
    <2>3. proc[p].file \in EncryptionFile("legacy_seed")
      BY <2>1 DEF LegacyInv
    <2> QED  BY <2>1, <2>2, <2>3, LegacyStep, IdleDoing
  <1> QED  BY <1>1, <1>2, <1>3, <1>4, <1>5

(* Output commands leave the keys alone, whoever made them.                *)
LEMMA OutputLeavesKeys ==
  ASSUME ShapeInv, NEW p \in Processes,
         \/ \E cmd \in {"encrypt", "open"}, b \in BOOLEAN, pass \in Typed : CliStart(p, cmd, b, pass)
         \/ seal_message(p)
         \/ \E text \in Texts, pass \in Typed : sign_file(p, text, pass)
         \/ CliPublish(p)
         \/ DesktopEncrypt(p)
         \/ \E b \in BOOLEAN, pass \in Typed : DesktopDecrypt(p, b, pass)
         \/ Crash(p)
  PROVE  /\ disk'["secret"] = disk["secret"] /\ disk'["public"] = disk["public"]
         /\ disk'["sign"] = disk["sign"]
         /\ \E next : /\ proc' = [proc EXCEPT ![p] = next]
                      /\ next.cmd \in Outputs \cup {"sign", "idle"}
  <1>0. "out" \in Paths /\ "part" \in Paths /\ Idle.cmd = "idle"
    BY DEF Paths, Idle
  <1> DEFINE Left == /\ disk'["secret"] = disk["secret"] /\ disk'["public"] = disk["public"]
                     /\ disk'["sign"] = disk["sign"]
             Goes == \E next : /\ proc' = [proc EXCEPT ![p] = next]
                               /\ next.cmd \in Outputs \cup {"sign", "idle"}
  <1>a. Finish(p) => Goes
    BY <1>0 DEF Finish
  <1>b. ASSUME NEW r, r.cmd \in Outputs \cup {"sign", "idle"}, Go(p, r) PROVE Goes
    BY <1>b DEF Go
  <1>c. ASSUME NEW content, commit_output(p, "out", content, Idle) PROVE Left /\ Goes
    <2>1. Finish(p)
      BY <1>c DEF commit_output, Go, Finish
    <2>2. \A q \in Paths \ {"out"} : disk'[q] = disk[q]
      BY <1>0, <1>c, CommitOutput
    <2> QED  BY <2>1, <2>2, <1>a DEF Paths
  <1>d. ASSUME NEW r, r.cmd \in Outputs, NEW path \in {"out", "part"}, create_new(p, path, r)
        PROVE  Left /\ Goes
    <2>1. \A q \in Paths \ {path} : disk'[q] = disk[q]
      BY <1>0, <1>d, CreateNew
    <2>2. Finish(p) \/ Go(p, r)
      BY <1>d DEF create_new
    <2>3. Left
      BY <2>1 DEF Paths
    <2>4. Goes
      BY <2>2, <1>a, <1>b, <1>d
    <2> QED  BY <2>3, <2>4
  <1>1. ASSUME NEW cmd \in {"encrypt", "open"}, NEW b \in BOOLEAN, NEW pass \in Typed,
               CliStart(p, cmd, b, pass)
        PROVE  Left /\ Goes
    <2> DEFINE r == [cmd |-> cmd, authentic |-> b]
    <2>1. Go(p, r) /\ disk' = disk /\ r.cmd \in Outputs \cup {"sign", "idle"}
      BY <1>1 DEF CliStart, Outputs
    <2> HIDE DEF r
    <2> QED  BY <2>1, <1>b
  <1>2. ASSUME seal_message(p) PROVE Left /\ Goes
    <2> DEFINE r == [cmd |-> "seal"]
    <2>1. Go(p, r) /\ disk' = disk /\ r.cmd \in Outputs \cup {"sign", "idle"}
      BY <1>2 DEF seal_message, Outputs
    <2> HIDE DEF r
    <2> QED  BY <2>1, <1>b
  <1>3. ASSUME NEW text \in Texts, NEW pass \in Typed, sign_file(p, text, pass)
        PROVE  Left /\ Goes
    <2> DEFINE file == Signature(public_key(load_signing_identity(disk["secret"], pass).value), text)
               r == [cmd |-> "sign", file |-> file]
    <2>1. Go(p, r) /\ disk' = disk /\ r.cmd \in Outputs \cup {"sign", "idle"}
      BY <1>3 DEF sign_file, Outputs
    <2> HIDE DEF r
    <2> QED  BY <2>1, <1>b
  <1>4. ASSUME CliPublish(p) PROVE Left /\ Goes
    BY <1>4, <1>a, <1>c DEF CliPublish
  <1>5. ASSUME DesktopEncrypt(p) PROVE Left /\ Goes
    <2>1. CASE create_new(p, "out", [cmd |-> "desktop_encrypt"])
      <3> DEFINE r == [cmd |-> "desktop_encrypt"]
      <3>1. r.cmd \in Outputs /\ create_new(p, "out", r)
        BY <2>1 DEF Outputs
      <3> HIDE DEF r
      <3> QED  BY <3>1, <1>d
    <2>2. CASE Fill("out", Container) /\ Finish(p)
      <3>1. \A q \in Paths \ {"out"} : disk'[q] = disk[q]
        BY <1>0, <2>2, FillFacts
      <3> QED  BY <2>2, <3>1, <1>a DEF Paths
    <2> QED  BY <1>5, <2>1, <2>2 DEF DesktopEncrypt
  <1>6. ASSUME NEW b \in BOOLEAN, NEW pass \in Typed, DesktopDecrypt(p, b, pass)
        PROVE  Left /\ Goes
    <2>1. CASE create_new(p, "part", [cmd |-> "desktop_decrypt", authentic |-> b])
      <3> DEFINE r == [cmd |-> "desktop_decrypt", authentic |-> b]
      <3>1. r.cmd \in Outputs /\ create_new(p, "part", r)
        BY <2>1 DEF Outputs
      <3> HIDE DEF r
      <3> QED  BY <3>1, <1>d
    <2>2. CASE disk' = [disk EXCEPT !["out"] = Plain(TRUE), !["part"] = None] /\ Finish(p)
      BY <2>2, <1>a DEF ShapeInv, Paths
    <2>3. CASE Put("part", None) /\ Finish(p)
      BY <2>3, <1>a DEF ShapeInv, Paths, Put
    <2> QED  BY <1>6, <2>1, <2>2, <2>3 DEF DesktopDecrypt
  <1>7. ASSUME Crash(p) PROVE Left /\ Goes
    BY <1>7, <1>a DEF Crash
  <1> QED  BY <1>1, <1>2, <1>3, <1>4, <1>5, <1>6, <1>7

LEMMA KeyInitWorld ==
  ASSUME KeyInit PROVE WorldInv
  <1>1. ShapeInv /\ \A p \in Processes : proc[p] = Idle
    BY KeyInitShape DEF KeyInit
  <1>2. CASE disk = [path \in Paths |-> None]
    <2>1. /\ disk["secret"] = None /\ disk["public"] = None /\ disk["sign"] = None
          /\ disk["out"] = None
      BY <1>2 DEF Paths
    <2>2. None.kind = "none"
      BY FileKinds
    <2>3. \A p \in Processes : FreshProcess(disk["secret"], proc[p]) /\ ~Owner(proc[p])
      BY <1>1, IdleFresh
    <2>4. FreshInv
      BY <2>1, <2>2, <2>3 DEF FreshInv
    <2> QED  BY <1>1, <2>4 DEF WorldInv
  <1>3. ASSUME NEW p \in Passphrases,
               disk = [path \in Paths |->
                         IF path = "secret" THEN LegacyFile(p)
                         ELSE IF path = "public" THEN PublicFile(public_key("legacy_seed"))
                         ELSE None]
        PROVE  WorldInv
    <2>1. /\ disk["secret"] = LegacyFile(p) /\ disk["sign"] = None
          /\ disk["public"] = PublicFile(public_key("legacy_seed"))
      BY <1>3 DEF Paths
    <2>2. LegacyFile(p) \in LegacyFiles
      BY DEF LegacyFiles
    <2>3. LegacyInv
      BY <1>1, <2>1, <2>2, IdleDoing DEF LegacyInv
    <2> QED  BY <1>1, <2>3 DEF WorldInv
  <1> QED  BY <1>2, <1>3 DEF KeyInit

LEMMA KeyWorld ==
  ASSUME WorldInv, KeyNext, "raw" \notin PasswdOn PROVE WorldInv'
  <1>1. ShapeInv /\ ShapeInv'
    BY KeyShape DEF WorldInv
  <1>2. CASE FreshInv
    <2>1. FreshInv'
      BY <1>1, <1>2, FreshKeygen, FreshGenerate, FreshPasswd, FreshOutput DEF KeyNext
    <2> QED  BY <1>1, <2>1 DEF WorldInv
  <1>3. CASE LegacyInv
    <2>1. ASSUME NEW p \in Processes,
                 disk'["secret"] = disk["secret"] /\ disk'["public"] = disk["public"],
                 disk'["sign"] = disk["sign"],
                 \E next : /\ proc' = [proc EXCEPT ![p] = next]
                           /\ next.cmd \in Outputs \cup {"sign", "idle"}
          PROVE  LegacyInv'
      <3>1. PICK next : /\ proc' = [proc EXCEPT ![p] = next]
                        /\ next.cmd \in Outputs \cup {"sign", "idle"}
        BY <2>1
      <3>2. next.cmd \notin {"keygen", "generate_keys", "passwd"}
        BY <3>1 DEF Outputs
      <3> QED  BY <1>1, <1>3, <2>1, <3>1, <3>2, LegacyStep
    <2>2. LegacyInv'
      BY <1>1, <1>3, <2>1, LegacyKeys, OutputLeavesKeys DEF KeyNext
    <2> QED  BY <1>1, <2>2 DEF WorldInv
  <1> QED  BY <1>2, <1>3 DEF WorldInv

(* Every identity's file opens under some passphrase, or under none.       *)
LEMMA IdentityOpens ==
  ASSUME NEW seed, NEW f \in IdentityFile(seed)
  PROVE  \E p \in Typed : /\ load_secret(f, p) = Ok(recipient_secret(seed))
                          /\ load_signing_identity(f, p) = Ok(signing_seed(seed))
  <1>1. CASE f = Raw(seed)
    BY <1>1, ReadersOfRaw, NoPassphraseFacts
  <1>2. ASSUME NEW p \in Passphrases, f = SealedBy(p, "Identity", seed)
        PROVE  /\ load_secret(f, p) = Ok(recipient_secret(seed))
               /\ load_signing_identity(f, p) = Ok(signing_seed(seed))
    <2>1. unprotect_seed(f, p) = Ok([seed |-> seed, purpose |-> "Identity"])
      BY <1>2, UnprotectSealed, Candidates
    <2>2. f.kind = "sealed" /\ p # NoPassphrase
      BY <1>2, FileKinds, NoPassphraseFacts
    <2> QED  BY <2>1, <2>2, ReadersOfSealed
  <1> QED  BY <1>1, <1>2 DEF IdentityFile, Typed

LEMMA LegacyOpens ==
  ASSUME NEW f \in LegacyFiles \cup EncryptionFile("legacy_seed")
  PROVE  \E p \in Typed : load_secret(f, p) = Ok("legacy_seed")
  <1>1. ASSUME NEW p \in Passphrases,
               unprotect_seed(f, p) = Ok([seed |-> "legacy_seed", purpose |-> "Encryption"])
        PROVE  load_secret(f, p) = Ok("legacy_seed")
    <2>1. f.kind = "sealed" /\ p # NoPassphrase
      BY LegacyUnprotects, NoPassphraseFacts
    <2> QED  BY <1>1, <2>1, ReadersOfSealed
  <1>2. CASE f \in LegacyFiles
    <2>1. PICK p \in Passphrases : f = LegacyFile(p)
      BY <1>2 DEF LegacyFiles
    <2>2. unprotect_seed(f, p) = Ok([seed |-> "legacy_seed", purpose |-> "Encryption"])
      BY <2>1, UnprotectLegacy, Candidates
    <2> QED  BY <1>1, <2>2 DEF Typed
  <1>3. CASE f \in EncryptionFile("legacy_seed")
    <2>1. PICK p \in Passphrases : f = SealedBy(p, "Encryption", "legacy_seed")
      BY <1>3 DEF EncryptionFile
    <2>2. unprotect_seed(f, p) = Ok([seed |-> "legacy_seed", purpose |-> "Encryption"])
      BY <2>1, UnprotectSealed, Candidates
    <2> QED  BY <1>1, <2>2 DEF Typed
  <1> QED  BY <1>2, <1>3

LEMMA WorldMeans ==
  ASSUME WorldInv PROVE PublicHasItsSecret
  <1> USE DEF WorldInv
  <1>0. \A v : Ok(v).ok /\ Ok(v).value = v
    BY DEF Ok
  <1>1. ASSUME disk["public"].kind = "public"
        PROVE  \E p \in Typed : LET opened == load_secret(disk["secret"], p)
                                IN opened.ok /\ public_key(opened.value) = disk["public"].key
    <2>1. CASE FreshInv
      <3>1. PICK seed : /\ disk["secret"] \in IdentityFile(seed)
                        /\ disk["public"].key = public_key(recipient_secret(seed))
        BY <1>1, <2>1 DEF FreshInv, PublicOf
      <3>2. PICK p \in Typed : load_secret(disk["secret"], p) = Ok(recipient_secret(seed))
        BY <3>1, IdentityOpens
      <3> QED  BY <3>1, <3>2, <1>0
    <2>2. CASE LegacyInv
      <3>1. PICK p \in Typed : load_secret(disk["secret"], p) = Ok("legacy_seed")
        BY <2>2, LegacyOpens DEF LegacyInv
      <3>2. disk["public"].key = public_key("legacy_seed")
        BY <2>2, FileKinds DEF LegacyInv
      <3> QED  BY <3>1, <3>2, <1>0
    <2> QED  BY <2>1, <2>2
  <1>2. disk["sign"].kind = "verifying" => FreshInv
    BY FileKinds DEF LegacyInv
  <1>3. ASSUME disk["sign"].kind = "verifying"
        PROVE  \E p \in Typed : LET opened == load_signing_identity(disk["secret"], p)
                                IN opened.ok /\ public_key(opened.value) = disk["sign"].key
    <2>1. PICK seed : /\ disk["secret"] \in IdentityFile(seed)
                      /\ disk["sign"].key = public_key(signing_seed(seed))
      BY <1>2, <1>3 DEF FreshInv, VerifierOf
    <2>2. PICK p \in Typed : load_signing_identity(disk["secret"], p) = Ok(signing_seed(seed))
      BY <2>1, IdentityOpens
    <2> QED  BY <2>1, <2>2, <1>0
  <1>4. ASSUME disk["sign"].kind = "verifying", disk["out"].kind = "signature", NEW text \in Texts
        PROVE  verify_file(disk["out"], disk["sign"], text) <=> text = disk["out"].over
    <2>1. PICK s : /\ disk["secret"] \in IdentityFile(s)
                   /\ disk["sign"].key = public_key(signing_seed(s))
      BY <1>2, <1>4 DEF FreshInv, VerifierOf
    <2>2. PICK t : /\ disk["secret"] \in IdentityFile(t)
                   /\ disk["out"].by = public_key(signing_seed(t))
      BY <1>2, <1>4 DEF FreshInv, VerifierOf
    <2>3. s = t
      BY <2>1, <2>2, IdentitySeed
    <2>4. load_verifying_identity(disk["sign"]) = Ok(disk["sign"].key)
      BY <1>4 DEF load_verifying_identity
    <2>5. /\ load_verifying_identity(disk["sign"]).ok
          /\ load_verifying_identity(disk["sign"]).value = disk["out"].by
      BY <2>1, <2>2, <2>3, <2>4, <1>0
    <2> QED  BY <1>4, <2>5 DEF verify_file
  <1> QED  BY <1>1, <1>3, <1>4 DEF PublicHasItsSecret

-----------------------------------------------------------------------------
(* The Go objects.  Every allocation belongs to an object or to a call.    *)
Pending(g) == calls[g].outs \cup {h \in {calls[g].handle} : calls[g].stage = "opened"}

CallType ==
  [stage : {"idle", "opened", "native", "taking"}, object : Objects \cup {NoObject},
   handle : Addresses \cup {Nil}, outs : SUBSET Addresses]

WrapType ==
  /\ live \subseteq Addresses /\ held \subseteq Objects
  /\ handle \in [Objects -> Addresses \cup {Nil}]
  /\ calls \in [Goroutines -> CallType]

OwnInv ==
  /\ \A o \in Objects : handle[o] # Nil => handle[o] \in live
  /\ \A o, q \in Objects : handle[o] = handle[q] /\ handle[o] # Nil => o = q
  /\ \A g \in Goroutines : Pending(g) \subseteq live
  /\ \A f, g \in Goroutines : \A x : x \in Pending(f) /\ x \in Pending(g) => f = g
  /\ \A g \in Goroutines, o \in Objects : handle[o] \notin Pending(g)
  /\ \A x \in live : (\E o \in Objects : handle[o] = x) \/ \E g \in Goroutines : x \in Pending(g)

(* What a call knows of the object it works on.                            *)
CallInv ==
  \A g \in Goroutines :
    /\ calls[g].stage = "opened" =>
         /\ calls[g].object \in Objects /\ handle[calls[g].object] = Nil
         /\ calls[g].handle \in Addresses /\ calls[g].handle \notin calls[g].outs
         /\ calls[g].object \notin held
         /\ \A f \in Goroutines : calls[f].object = calls[g].object => f = g
    /\ calls[g].stage = "native" =>
         /\ calls[g].outs = {}
         /\ calls[g].object # NoObject /\ ~raced =>
              handle[calls[g].object] = calls[g].handle /\ calls[g].handle # Nil

WrapInv == WrapType /\ OwnInv /\ CallInv

LEMMA WrapMeans ==
  ASSUME WrapInv
  PROVE  OwnedOnce
  <1> SUFFICES ASSUME ~raced
               PROVE  /\ \A x \in live : \E w \in Owners(x) : Owners(x) = {w}
                      /\ \A x \in Addresses \ live : Owners(x) = {}
                      /\ \A g \in Goroutines :
                           calls[g].stage = "native" /\ calls[g].object # NoObject =>
                             /\ calls[g].handle \in live
                             /\ handle[calls[g].object] = calls[g].handle
    BY DEF OwnedOnce
  <1>1. ASSUME NEW x
        PROVE  \A w : w \in Owners(x) <=>
                 \/ \E o \in Objects : w = <<"object", o>> /\ handle[o] = x
                 \/ \E g \in Goroutines :
                      w = <<"handle", g>> /\ calls[g].stage = "opened" /\ calls[g].handle = x
                 \/ \E g \in Goroutines : w = <<"out", g>> /\ x \in calls[g].outs
    BY Zenon DEF Owners
  <1>2. ASSUME NEW x, NEW g \in Goroutines
        PROVE  x \in Pending(g) <=>
                 x \in calls[g].outs \/ (calls[g].stage = "opened" /\ calls[g].handle = x)
    BY DEF Pending
  <1>3. Nil \notin live
    BY WrappersNil DEF WrapInv, WrapType
  <1>4. ASSUME NEW x \in live
        PROVE  \E w \in Owners(x) : Owners(x) = {w}
    <2>1. x # Nil
      BY <1>3
    <2>2. CASE \E o \in Objects : handle[o] = x
      <3>1. PICK o \in Objects : handle[o] = x
        BY <2>2
      <3>2. \A q \in Objects : handle[q] = x => q = o
        BY <2>1, <3>1 DEF WrapInv, OwnInv
      <3>3. \A g \in Goroutines : x \notin Pending(g)
        BY <3>1 DEF WrapInv, OwnInv
      <3>4. \A w \in Owners(x) : w = <<"object", o>>
        BY <1>1, <1>2, <3>2, <3>3
      <3>5. <<"object", o>> \in Owners(x)
        BY <1>1, <3>1
      <3> QED  BY <3>4, <3>5
    <2>3. CASE \E g \in Goroutines : x \in Pending(g)
      <3>1. PICK g \in Goroutines : x \in Pending(g)
        BY <2>3
      <3>2. \A f \in Goroutines : x \in Pending(f) => f = g
        BY <3>1 DEF WrapInv, OwnInv
      <3>3. \A o \in Objects : handle[o] # x
        BY <3>1 DEF WrapInv, OwnInv
      <3>4. CASE x \in calls[g].outs
        <4>1. ~(calls[g].stage = "opened" /\ calls[g].handle = x)
          BY <3>4 DEF WrapInv, CallInv
        <4>2. \A w \in Owners(x) : w = <<"out", g>>
          BY <1>1, <1>2, <3>2, <3>3, <4>1
        <4>3. <<"out", g>> \in Owners(x)
          BY <1>1, <3>4
        <4> QED  BY <4>2, <4>3
      <3>5. CASE x \notin calls[g].outs
        <4>1. calls[g].stage = "opened" /\ calls[g].handle = x
          BY <1>2, <3>1, <3>5
        <4>2. \A w \in Owners(x) : w = <<"handle", g>>
          BY <1>1, <1>2, <3>2, <3>3, <3>5
        <4>3. <<"handle", g>> \in Owners(x)
          BY <1>1, <4>1
        <4> QED  BY <4>2, <4>3
      <3> QED  BY <3>4, <3>5
    <2> QED  BY <2>2, <2>3 DEF WrapInv, OwnInv
  <1>5. ASSUME NEW x \in Addresses \ live
        PROVE  Owners(x) = {}
    <2>1. \A o \in Objects : handle[o] # x
      BY WrappersNil DEF WrapInv, OwnInv
    <2>2. \A g \in Goroutines : x \notin Pending(g)
      BY DEF WrapInv, OwnInv
    <2> QED  BY <1>1, <1>2, <2>1, <2>2
  <1>6. ASSUME NEW g \in Goroutines, calls[g].stage = "native", calls[g].object # NoObject
        PROVE  calls[g].handle \in live /\ handle[calls[g].object] = calls[g].handle
    <2>1. calls[g].object \in Objects
      BY <1>6 DEF WrapInv, WrapType, CallType
    <2>2. handle[calls[g].object] = calls[g].handle /\ calls[g].handle # Nil
      BY <1>6 DEF WrapInv, CallInv
    <2> QED  BY <2>1, <2>2 DEF WrapInv, OwnInv
  <1> QED  BY <1>4, <1>5, <1>6

LEMMA WrapStart ==
  ASSUME WrapInit
  PROVE  WrapInv
  <1>1. \A g \in Goroutines : /\ calls[g].stage = "idle" /\ calls[g].object = NoObject
                              /\ calls[g].handle = Nil /\ calls[g].outs = {}
    BY DEF WrapInit, Resting, Call
  <1>2. WrapType
    BY DEF WrapInit, WrapType, CallType, Resting, Call
  <1>3. \A g \in Goroutines : Pending(g) = {}
    BY <1>1 DEF Pending
  <1>4. OwnInv
    BY <1>3 DEF WrapInit, OwnInv
  <1>5. CallInv
    BY <1>1 DEF CallInv
  <1> QED  BY <1>2, <1>4, <1>5 DEF WrapInv


(* A goroutine does its step and the others stay as they are.              *)
Became(g, c) == calls' = [calls EXCEPT ![g] = c]

LEMMA MovedCalls ==
  ASSUME WrapType, NEW g \in Goroutines, NEW stage \in {"idle", "opened", "native", "taking"},
         NEW o \in Objects \cup {NoObject}, NEW h \in Addresses \cup {Nil},
         NEW outs \in SUBSET Addresses, Became(g, Call(stage, o, h, outs))
  PROVE  /\ calls' \in [Goroutines -> CallType]
         /\ calls'[g].stage = stage /\ calls'[g].object = o
         /\ calls'[g].handle = h /\ calls'[g].outs = outs
         /\ Pending(g)' = IF stage = "opened" THEN outs \cup {h} ELSE outs
         /\ \A f \in Goroutines : f # g => calls'[f] = calls[f] /\ Pending(f)' = Pending(f)
  <1>1. /\ calls'[g] = Call(stage, o, h, outs)
        /\ \A f \in Goroutines : f # g => calls'[f] = calls[f]
    BY DEF WrapType, Became
  <1>2. calls' \in [Goroutines -> CallType]
    BY DEF WrapType, Call, CallType, Became
  <1>3. /\ calls'[g].stage = stage /\ calls'[g].object = o
        /\ calls'[g].handle = h /\ calls'[g].outs = outs
    BY <1>1 DEF Call
  <1> QED  BY <1>1, <1>2, <1>3 DEF Pending

(* A call that had nothing pending is given fresh allocations.             *)
LEMMA Allocated ==
  ASSUME WrapType, OwnInv, NEW g \in Goroutines, Pending(g) = {}, NEW fresh,
         \A x \in fresh : x \notin live /\ x # Nil,
         live' = live \cup fresh, handle' = handle, Pending(g)' = fresh,
         \A f \in Goroutines : f # g => Pending(f)' = Pending(f)
  PROVE  OwnInv'
  <1>1. \A f \in Goroutines : Pending(f) \subseteq live
    BY DEF OwnInv
  <1>2. \A o \in Objects : handle[o] # Nil => handle[o] \in live
    BY DEF OwnInv
  <1>3. \A f \in Goroutines : Pending(f)' \subseteq live'
    BY <1>1
  <1>4. \A f, e \in Goroutines : \A x : x \in Pending(f)' /\ x \in Pending(e)' => f = e
    BY <1>1 DEF OwnInv
  <1>5. \A f \in Goroutines, o \in Objects : handle'[o] \notin Pending(f)'
    BY <1>2 DEF OwnInv
  <1>6. \A x \in live' : (\E o \in Objects : handle'[o] = x) \/ \E f \in Goroutines : x \in Pending(f)'
    BY DEF OwnInv
  <1>7. /\ \A o \in Objects : handle'[o] # Nil => handle'[o] \in live'
        /\ \A o, q \in Objects : handle'[o] = handle'[q] /\ handle'[o] # Nil => o = q
    BY DEF OwnInv
  <1> QED  BY <1>3, <1>4, <1>5, <1>6, <1>7 DEF OwnInv

LEMMA Unmoved ==
  ASSUME OwnInv, live' = live, handle' = handle, \A f \in Goroutines : Pending(f)' = Pending(f)
  PROVE  OwnInv'
  BY DEF OwnInv

(* An object gives its handle back.                                        *)
LEMMA ReleasedOwn ==
  ASSUME WrapType, OwnInv, NEW o \in Objects, handle[o] # Nil, Released(o),
         \A f \in Goroutines : Pending(f)' = Pending(f)
  PROVE  OwnInv' /\ live' \subseteq Addresses /\ handle' \in [Objects -> Addresses \cup {Nil}]
  <1>1. /\ handle'[o] = Nil /\ \A q \in Objects : q # o => handle'[q] = handle[q]
        /\ live' = live \ {handle[o]}
    BY DEF Released, WrapType
  <1>2. \A q \in Objects : handle'[q] # Nil => handle'[q] \in live'
    BY <1>1 DEF OwnInv
  <1>3. \A p, q \in Objects : handle'[p] = handle'[q] /\ handle'[p] # Nil => p = q
    BY <1>1 DEF OwnInv
  <1>4. \A f \in Goroutines : Pending(f)' \subseteq live'
    BY <1>1 DEF OwnInv
  <1>5. \A f, g \in Goroutines : \A x : x \in Pending(f)' /\ x \in Pending(g)' => f = g
    BY DEF OwnInv
  <1>6. \A f \in Goroutines, q \in Objects : handle'[q] \notin Pending(f)'
    <2>1. \A f \in Goroutines : Nil \notin Pending(f)
      BY WrappersNil DEF OwnInv, WrapType
    <2> QED  BY <1>1, <2>1 DEF OwnInv
  <1>7. \A x \in live' : (\E q \in Objects : handle'[q] = x) \/ \E f \in Goroutines : x \in Pending(f)'
    BY <1>1 DEF OwnInv
  <1>8. live' \subseteq Addresses /\ handle' \in [Objects -> Addresses \cup {Nil}]
    BY DEF Released, WrapType
  <1> QED  BY <1>2, <1>3, <1>4, <1>5, <1>6, <1>7, <1>8 DEF OwnInv

LEMMA OpenStep ==
  ASSUME WrapInv, NEW g \in Goroutines, NEW o \in Objects, NEW outs,
         outs \subseteq Addresses \ live, Open(g, o, outs)
  PROVE  WrapInv'
  <1> USE DEF WrapInv
  <1>1. PICK h \in Addresses \ (live \cup outs) :
          /\ live' = live \cup outs \cup {h}
          /\ calls' = [calls EXCEPT ![g] = Call("opened", o, h, outs)]
    BY DEF Open
  <1>2. /\ calls[g].stage = "idle" /\ calls[g].outs = {} /\ handle' = handle /\ held' = held
        /\ raced' = raced /\ handle[o] = Nil /\ o \notin held
        /\ \A f \in Goroutines : calls[f].object # o
    BY DEF Open, Resting, Call
  <1>3. /\ calls' \in [Goroutines -> CallType]
        /\ calls'[g].stage = "opened" /\ calls'[g].object = o
        /\ calls'[g].handle = h /\ calls'[g].outs = outs
        /\ Pending(g)' = outs \cup {h}
        /\ \A f \in Goroutines : f # g => calls'[f] = calls[f] /\ Pending(f)' = Pending(f)
    <2>1. /\ WrapType /\ o \in Objects \cup {NoObject} /\ h \in Addresses \cup {Nil}
          /\ outs \in SUBSET Addresses /\ Became(g, Call("opened", o, h, outs))
      BY <1>1 DEF Became
    <2> QED  BY <2>1, MovedCalls
  <1>4. Pending(g) = {}
    BY <1>2 DEF Pending
  <1>5. Pending(g)' = outs \cup {h} /\ live' = live \cup (outs \cup {h})
    BY <1>1, <1>3
  <1>6. \A x \in outs \cup {h} : x \notin live /\ x # Nil
    BY <1>1, WrappersNil
  <1>7. OwnInv'
    <2> DEFINE fresh == outs \cup {h}
    <2> HIDE DEF fresh
    <2>1. live' = live \cup fresh /\ Pending(g)' = fresh /\ \A x \in fresh : x \notin live /\ x # Nil
      BY <1>5, <1>6 DEF fresh
    <2> QED  BY <1>2, <1>3, <1>4, <2>1, Allocated
  <1>8. WrapType'
    BY <1>1, <1>2, <1>3 DEF WrapType
  <1>9. CallInv'
    BY <1>1, <1>2, <1>3 DEF CallInv
  <1> QED  BY <1>7, <1>8, <1>9

LEMMA wrapStep ==
  ASSUME WrapInv, NEW g \in Goroutines, wrap(g)
  PROVE  WrapInv'
  <1> USE DEF WrapInv
  <1> DEFINE o == calls[g].object
             h == calls[g].handle
  <1>1. /\ o \in Objects /\ handle[o] = Nil /\ h \in Addresses /\ o \notin held
        /\ \A f \in Goroutines : calls[f].object = o => f = g
    BY DEF wrap, CallInv
  <1>2. Pending(g) = {h}
    BY DEF wrap, Pending
  <1>3. /\ calls' = [calls EXCEPT ![g] = Call("idle", NoObject, Nil, {})]
        /\ handle' = [handle EXCEPT ![o] = h] /\ held' = held \cup {o}
        /\ live' = live /\ raced' = raced
    BY DEF wrap, Resting
  <1> HIDE DEF o, h
  <1>4. /\ calls' \in [Goroutines -> CallType]
        /\ calls'[g].stage = "idle" /\ calls'[g].object = NoObject /\ calls'[g].outs = {}
        /\ Pending(g)' = {}
        /\ \A f \in Goroutines : f # g => calls'[f] = calls[f] /\ Pending(f)' = Pending(f)
    <2>1. WrapType /\ Became(g, Call("idle", NoObject, Nil, {}))
      BY <1>3 DEF Became
    <2> QED  BY <2>1, MovedCalls
  <1>5. Pending(g)' = {}
    BY <1>4
  <1>6. /\ handle' \in [Objects -> Addresses \cup {Nil}] /\ handle'[o] = h
        /\ \A q \in Objects : q # o => handle'[q] = handle[q]
    BY <1>1, <1>3 DEF WrapType
  <1>7. h \in live /\ h # Nil
    BY <1>1, <1>2, WrappersNil DEF OwnInv
  <1>8. OwnInv'
    <2>1. \A q \in Objects : handle'[q] # Nil => handle'[q] \in live'
      BY <1>3, <1>6, <1>7 DEF OwnInv
    <2>2. \A q \in Objects : handle[q] # h
      BY <1>2 DEF OwnInv
    <2>3. \A p, q \in Objects : handle'[p] = handle'[q] /\ handle'[p] # Nil => p = q
      BY <1>6, <2>2 DEF OwnInv
    <2>4. \A f \in Goroutines : Pending(f)' \subseteq live'
      BY <1>3, <1>4, <1>5 DEF OwnInv
    <2>5. \A f, e \in Goroutines : \A x : x \in Pending(f)' /\ x \in Pending(e)' => f = e
      BY <1>4, <1>5 DEF OwnInv
    <2>6. \A f \in Goroutines : f # g => h \notin Pending(f)
      BY <1>2 DEF OwnInv
    <2>7. \A f \in Goroutines, q \in Objects : handle'[q] \notin Pending(f)'
      BY <1>4, <1>5, <1>6, <2>6 DEF OwnInv
    <2>8. \A x \in live' : (\E q \in Objects : handle'[q] = x) \/ \E f \in Goroutines : x \in Pending(f)'
      <3> SUFFICES ASSUME NEW x \in live
                   PROVE  (\E q \in Objects : handle'[q] = x) \/ \E f \in Goroutines : x \in Pending(f)'
        BY <1>3
      <3>1. CASE x = h
        BY <3>1, <1>1, <1>6
      <3>2. CASE \E q \in Objects : handle[q] = x
        <4>1. x # Nil
          BY WrappersNil DEF WrapType
        <4> QED  BY <3>2, <4>1, <1>1, <1>6
      <3>3. CASE \E f \in Goroutines : x \in Pending(f) /\ x # h
        BY <3>3, <1>2, <1>4
      <3> QED  BY <3>1, <3>2, <3>3 DEF OwnInv
    <2> QED  BY <2>1, <2>3, <2>4, <2>5, <2>7, <2>8 DEF OwnInv
  <1>9. WrapType'
    BY <1>1, <1>3, <1>4, <1>6 DEF WrapType
  <1>10. CallInv'
    <2> SUFFICES ASSUME NEW f \in Goroutines, f # g
                 PROVE  /\ calls[f].stage = "opened" =>
                             /\ calls[f].object \in Objects /\ handle'[calls[f].object] = Nil
                             /\ calls[f].handle \in Addresses /\ calls[f].handle \notin calls[f].outs
                             /\ calls[f].object \notin held'
                             /\ \A e \in Goroutines : calls'[e].object = calls[f].object => e = f
                        /\ calls[f].stage = "native" =>
                             /\ calls[f].outs = {}
                             /\ calls[f].object # NoObject /\ ~raced' =>
                                  /\ handle'[calls[f].object] = calls[f].handle
                                  /\ calls[f].handle # Nil
      BY <1>4 DEF CallInv
    <2>1. calls[f].object # o
      BY <1>1
    <2>2. calls[f].object \in Objects \cup {NoObject}
      BY DEF WrapType, CallType
    <2>3. CASE calls[f].stage = "opened"
      <3>1. calls[f].object # NoObject
        BY <2>3, WrappersNil DEF CallInv
      <3> QED  BY <2>1, <2>3, <3>1, <1>3, <1>4, <1>6 DEF CallInv
    <2>4. CASE calls[f].stage = "native"
      BY <2>1, <2>2, <2>4, <1>3, <1>6 DEF CallInv
    <2> QED  BY <2>3, <2>4
  <1> QED  BY <1>8, <1>9, <1>10

(* Calls that go in and come out with nothing pending.                     *)
LEMMA PlainStep ==
  ASSUME WrapInv, NEW g \in Goroutines, NEW stage \in {"idle", "native"},
         NEW o \in Objects \cup {NoObject}, NEW h \in Addresses \cup {Nil},
         calls' = [calls EXCEPT ![g] = Call(stage, o, h, {})],
         UNCHANGED <<live, handle, held, raced>>, Pending(g) = {}, calls[g].stage # "opened",
         o # NoObject => stage = "native" /\ o \in held /\ handle[o] = h /\ h # Nil
  PROVE  WrapInv'
  <1> USE DEF WrapInv
  <1>1. /\ calls' \in [Goroutines -> CallType]
        /\ calls'[g].stage = stage /\ calls'[g].object = o
        /\ calls'[g].handle = h /\ calls'[g].outs = {}
        /\ Pending(g)' = {}
        /\ \A f \in Goroutines : f # g => calls'[f] = calls[f] /\ Pending(f)' = Pending(f)
    <2>1. WrapType /\ Became(g, Call(stage, o, h, {}))
      BY DEF Became
    <2> QED  BY <2>1, MovedCalls
  <1>2. \A f \in Goroutines : Pending(f)' = Pending(f)
    BY <1>1
  <1>3. OwnInv'
    BY <1>2, Unmoved
  <1>4. WrapType'
    BY <1>1 DEF WrapType
  <1>5. CallInv'
    <2>1. ASSUME NEW f \in Goroutines, calls'[f].stage = "opened", NEW e \in Goroutines,
                 calls'[e].object = calls'[f].object
          PROVE  e = f
      <3>1. f # g /\ calls'[f] = calls[f] /\ calls[f].object \in Objects /\ calls[f].object \notin held
        BY <1>1, <2>1 DEF CallInv
      <3>2. CASE e = g
        BY <3>1, <3>2, <1>1, <2>1, WrappersNil
      <3>3. CASE e # g
        BY <3>1, <3>3, <1>1, <2>1 DEF CallInv
      <3> QED  BY <3>2, <3>3
    <2>2. ASSUME NEW f \in Goroutines, f # g
          PROVE  /\ calls'[f].stage = "opened" =>
                      /\ calls'[f].object \in Objects /\ handle'[calls'[f].object] = Nil
                      /\ calls'[f].handle \in Addresses /\ calls'[f].handle \notin calls'[f].outs
                      /\ calls'[f].object \notin held'
                 /\ calls'[f].stage = "native" =>
                      /\ calls'[f].outs = {}
                      /\ calls'[f].object # NoObject /\ ~raced' =>
                           handle'[calls'[f].object] = calls'[f].handle /\ calls'[f].handle # Nil
      BY <1>1, <2>2 DEF CallInv
    <2> QED  BY <1>1, <2>1, <2>2 DEF CallInv
  <1> QED  BY <1>3, <1>4, <1>5

LEMMA SucceedStep ==
  ASSUME WrapInv, NEW g \in Goroutines, Succeed(g)
  PROVE  WrapInv'
  <1> USE DEF WrapInv
  <1>1. PICK outs \in SUBSET (Addresses \ live) :
          live' = live \cup outs /\ Became(g, Call("taking", NoObject, Nil, outs))
    BY DEF Succeed, Became
  <1>2. handle' = handle /\ held' = held /\ raced' = raced /\ calls[g].stage = "native"
    BY DEF Succeed
  <1>3. /\ calls' \in [Goroutines -> CallType]
        /\ calls'[g].stage = "taking" /\ calls'[g].object = NoObject
        /\ Pending(g)' = outs
        /\ \A f \in Goroutines : f # g => calls'[f] = calls[f] /\ Pending(f)' = Pending(f)
    <2>1. outs \in SUBSET Addresses
      OBVIOUS
    <2> QED  BY <1>1, <2>1, MovedCalls
  <1>4. Pending(g) = {}
    BY <1>2 DEF Pending, CallInv
  <1>5. \A x \in outs : x \notin live /\ x # Nil
    BY WrappersNil
  <1>6. OwnInv'
    BY <1>1, <1>2, <1>3, <1>4, <1>5, Allocated
  <1>7. WrapType'
    BY <1>1, <1>2, <1>3 DEF WrapType
  <1>8. CallInv'
    <2>1. ASSUME NEW f \in Goroutines, calls'[f].stage = "opened"
          PROVE  calls'[f].object # NoObject
      BY <2>1, <1>3, WrappersNil DEF CallInv
    <2> QED  BY <2>1, <1>2, <1>3 DEF CallInv
  <1> QED  BY <1>6, <1>7, <1>8

LEMMA takeStep ==
  ASSUME WrapInv, NEW g \in Goroutines, take(g)
  PROVE  WrapInv'
  <1> USE DEF WrapInv
  <1>1. PICK b \in calls[g].outs :
          live' = live \ {b} /\ calls' = [calls EXCEPT ![g].outs = calls[g].outs \ {b}]
    BY DEF take
  <1>2. handle' = handle /\ held' = held /\ raced' = raced
    BY DEF take
  <1>3. /\ calls' \in [Goroutines -> CallType]
        /\ calls'[g].stage = calls[g].stage /\ calls'[g].object = calls[g].object
        /\ calls'[g].handle = calls[g].handle /\ calls'[g].outs = calls[g].outs \ {b}
        /\ \A f \in Goroutines : f # g => calls'[f] = calls[f]
    BY <1>1 DEF WrapType, CallType
  <1>4. b \in Pending(g) /\ \A f \in Goroutines : f # g => Pending(f)' = Pending(f)
    BY <1>3 DEF Pending
  <1>5. Pending(g)' = Pending(g) \ {b}
    <2>1. calls[g].stage = "opened" => calls[g].handle # b
      BY <1>1 DEF CallInv
    <2> QED  BY <1>3, <2>1 DEF Pending
  <1>6. OwnInv'
    <2>1. \A f \in Goroutines : f # g => b \notin Pending(f)
      BY <1>4 DEF OwnInv
    <2>2. \A o \in Objects : handle[o] # b
      BY <1>4 DEF OwnInv
    <2>3. \A o \in Objects : handle'[o] # Nil => handle'[o] \in live'
      BY <1>1, <1>2, <2>2 DEF OwnInv
    <2>4. \A f \in Goroutines : Pending(f)' \subseteq live'
      BY <1>1, <1>4, <1>5, <2>1 DEF OwnInv
    <2>5. \A f, e \in Goroutines : \A x : x \in Pending(f)' /\ x \in Pending(e)' => f = e
      BY <1>4, <1>5 DEF OwnInv
    <2>6. \A f \in Goroutines, o \in Objects : handle'[o] \notin Pending(f)'
      BY <1>2, <1>4, <1>5 DEF OwnInv
    <2>7. \A x \in live' : (\E o \in Objects : handle'[o] = x) \/ \E f \in Goroutines : x \in Pending(f)'
      BY <1>1, <1>2, <1>4, <1>5 DEF OwnInv
    <2>8. \A o, q \in Objects : handle'[o] = handle'[q] /\ handle'[o] # Nil => o = q
      BY <1>2 DEF OwnInv
    <2> QED  BY <2>3, <2>4, <2>5, <2>6, <2>7, <2>8 DEF OwnInv
  <1>7. WrapType'
    BY <1>1, <1>2, <1>3 DEF WrapType
  <1>8. CallInv'
    <2>1. \A f \in Goroutines :
            /\ calls'[f].stage = calls[f].stage /\ calls'[f].object = calls[f].object
            /\ calls'[f].handle = calls[f].handle /\ calls'[f].outs \subseteq calls[f].outs
      BY <1>3
    <2> QED  BY <2>1, <1>2 DEF CallInv
  <1> QED  BY <1>6, <1>7, <1>8

LEMMA ReleaseStep ==
  ASSUME WrapInv, NEW o \in Objects, Close(o) \/ Finalize(o)
  PROVE  WrapInv'
  <1> USE DEF WrapInv
  <1>1. /\ handle[o] # Nil /\ Released(o) /\ held' = held /\ calls' = calls
        /\ raced' = (raced \/ InFlight(o))
    BY DEF Close, Finalize
  <1>2. \A f \in Goroutines : Pending(f)' = Pending(f)
    BY <1>1 DEF Pending
  <1>3. OwnInv' /\ live' \subseteq Addresses /\ handle' \in [Objects -> Addresses \cup {Nil}]
    BY <1>1, <1>2, ReleasedOwn
  <1>4. handle'[o] = Nil /\ \A q \in Objects : q # o => handle'[q] = handle[q]
    BY <1>1 DEF Released, WrapType
  <1>5. CallInv'
    <2>1. ASSUME NEW g \in Goroutines, calls[g].stage = "opened"
          PROVE  handle'[calls[g].object] = Nil
      BY <2>1, <1>4 DEF CallInv
    <2>2. ASSUME NEW g \in Goroutines, calls[g].stage = "native", calls[g].object # NoObject, ~raced'
          PROVE  handle'[calls[g].object] = calls[g].handle /\ calls[g].handle # Nil
      <3>1. ~raced /\ ~InFlight(o)
        BY <1>1, <2>2
      <3>2. calls[g].object # o
        BY <2>2, <3>1 DEF InFlight
      <3>3. calls[g].object \in Objects
        BY <2>2 DEF WrapType, CallType
      <3> QED  BY <2>2, <3>1, <3>2, <3>3, <1>4 DEF CallInv
    <2> QED  BY <2>1, <2>2, <1>1 DEF CallInv
  <1>6. WrapType'
    BY <1>1, <1>3 DEF WrapType
  <1> QED  BY <1>3, <1>5, <1>6

LEMMA DropStep ==
  ASSUME WrapInv, NEW o \in Objects, Drop(o)
  PROVE  WrapInv'
  <1> USE DEF WrapInv
  <1>1. \A f \in Goroutines : Pending(f)' = Pending(f)
    BY DEF Drop, Pending
  <1>2. OwnInv'
    BY <1>1, Unmoved DEF Drop
  <1> QED  BY <1>2 DEF Drop, WrapType, CallInv

LEMMA WrapStep ==
  ASSUME WrapInv, WrapNext
  PROVE  WrapInv'
  <1>1. ASSUME NEW g \in Goroutines, calls[g] = Resting
        PROVE  Pending(g) = {} /\ calls[g].stage # "opened"
    BY <1>1 DEF Pending, Resting, Call
  <1>2. ASSUME NEW g \in Goroutines, NEW o \in Objects, LoadKey(g, o) \/ GenerateKey(g, o)
        PROVE  WrapInv'
    BY <1>2, OpenStep DEF LoadKey, GenerateKey
  <1>3. ASSUME NEW g \in Goroutines, NEW o \in Objects, Enter(g, o)
        PROVE  WrapInv'
    <2>1. /\ o \in Objects \cup {NoObject} /\ handle[o] \in Addresses \cup {Nil}
          /\ calls' = [calls EXCEPT ![g] = Call("native", o, handle[o], {})]
          /\ UNCHANGED <<live, handle, held, raced>> /\ o \in held /\ handle[o] # Nil
          /\ calls[g] = Resting
      BY <1>3 DEF Enter, WrapInv, WrapType
    <2> QED  BY <1>1, <2>1, PlainStep
  <1>4. ASSUME NEW g \in Goroutines, EnterAlone(g)
        PROVE  WrapInv'
    BY <1>1, <1>4, PlainStep DEF EnterAlone
  <1>5. ASSUME NEW g \in Goroutines, Fail(g) \/ Deliver(g)
        PROVE  WrapInv'
    <2>1. Pending(g) = {} /\ calls[g].stage # "opened"
      BY <1>5 DEF Fail, Deliver, Pending, WrapInv, CallInv
    <2>2. /\ calls' = [calls EXCEPT ![g] = Call("idle", NoObject, Nil, {})]
          /\ UNCHANGED <<live, handle, held, raced>>
      BY <1>5 DEF Fail, Deliver, Resting
    <2> QED  BY <2>1, <2>2, PlainStep
  <1> QED  BY <1>2, <1>3, <1>4, <1>5, wrapStep, SucceedStep, takeStep, ReleaseStep, DropStep
           DEF WrapNext

-----------------------------------------------------------------------------
(* The surfaces together: each step moves one of the five parts.           *)

SurfaceInv == SignInv /\ WrapInv /\ VerdictInv /\ StoreInv /\ ShapeInv

LEMMA SurfaceInit == Init => SurfaceInv
  <1> SUFFICES ASSUME Init PROVE SurfaceInv
    OBVIOUS
  <1>1. SignInv
    BY DEF Init, SignInit, SignInv
  <1>2. WrapInv
    BY WrapStart DEF Init
  <1>3. StoreInv
    BY DEF Init, StoreInit, StoreInv
  <1>4. ShapeInv
    BY KeyInitShape DEF Init
  <1>5. VerdictInv
    BY DEF Init, LibInit, VerdictInv, YesMeansGood, SurfacesAgree
  <1> QED  BY <1>1, <1>2, <1>3, <1>4, <1>5 DEF SurfaceInv

(* A part that does not move keeps its invariant.                          *)
LEMMA PartsStay ==
  /\ SignInv /\ UNCHANGED issued => SignInv'
  /\ WrapInv /\ UNCHANGED wrapVars => WrapInv'
  /\ VerdictInv /\ UNCHANGED result => VerdictInv'
  /\ StoreInv /\ UNCHANGED storeVars => StoreInv'
  /\ ShapeInv /\ UNCHANGED keyVars => ShapeInv'
  /\ WorldInv /\ UNCHANGED keyVars => WorldInv'
  <1>1. SignInv /\ UNCHANGED issued => SignInv'
    BY DEF SignInv
  <1>2. WrapInv /\ UNCHANGED wrapVars => WrapInv'
    BY DEF WrapInv, WrapType, OwnInv, CallInv, Pending, wrapVars
  <1>3. StoreInv /\ UNCHANGED storeVars => StoreInv'
    BY DEF StoreInv, storeVars
  <1>4. ShapeInv /\ UNCHANGED keyVars => ShapeInv'
    BY DEF ShapeInv, keyVars
  <1>5. (FreshInv \/ LegacyInv) /\ UNCHANGED keyVars => (FreshInv' \/ LegacyInv')
    BY DEF FreshInv, LegacyInv, keyVars
  <1>6. VerdictInv /\ UNCHANGED result => VerdictInv'
    BY DEF VerdictInv, YesMeansGood, SurfacesAgree
  <1> QED  BY <1>1, <1>2, <1>3, <1>4, <1>5, <1>6 DEF WorldInv

LEMMA SurfaceStep == SurfaceInv /\ [Next]_surfaceVars => SurfaceInv'
  <1> SUFFICES ASSUME SurfaceInv, [Next]_surfaceVars PROVE SurfaceInv'
    OBVIOUS
  <1>1. /\ UNCHANGED issued \/ SignNext
        /\ UNCHANGED result \/ LibNext
        /\ UNCHANGED wrapVars \/ WrapNext
        /\ UNCHANGED storeVars \/ StoreNext
        /\ UNCHANGED keyVars \/ KeyNext
    BY DEF Next, surfaceVars
  <1>2. SignInv'
    BY <1>1, PartsStay, SignStep DEF SurfaceInv
  <1>3. WrapInv'
    BY <1>1, PartsStay, WrapStep DEF SurfaceInv
  <1>4. StoreInv'
    BY <1>1, PartsStay, StoreStep DEF SurfaceInv
  <1>5. ShapeInv'
    BY <1>1, PartsStay, KeyShape DEF SurfaceInv
  <1>6. VerdictInv'
    BY <1>1, PartsStay, LibVerdict DEF SurfaceInv
  <1> QED  BY <1>2, <1>3, <1>4, <1>5, <1>6 DEF SurfaceInv

LEMMA SurfacesInvariant == Spec => []SurfaceInv
  BY SurfaceInit, SurfaceStep, PTL DEF Spec

(* A signature verifies only over what was signed with it: sign_bound and  *)
(* verify_bound join context and message so that no other pair of them     *)
(* gives the same bytes, and the application's contexts stay apart from    *)
(* the protocol's, whatever octets and lengths there are.                  *)
THEOREM SignedTheorem == Spec => []OnlyWhatWasSigned
  <1>1. SurfaceInv => OnlyWhatWasSigned
    BY SignMeans DEF SurfaceInv
  <1> QED  BY <1>1, SurfacesInvariant, PTL

(* The Go wrappers own what the library allocates: whatever goroutines and *)
(* finalizers do in whatever order, every handle and buffer has one place  *)
(* that will free it, unless an object is closed under a call in flight.   *)
THEOREM OwnedTheorem == Spec => []OwnedOnce
  <1>1. SurfaceInv => OwnedOnce
    BY WrapMeans DEF SurfaceInv
  <1> QED  BY <1>1, SurfacesInvariant, PTL

(* No entry point of the C ABI says yes when an argument is missing,       *)
(* malformed, forged, expired or replayed, whatever else is wrong with the *)
(* call, except for what Unchecked names; and one that says no has written *)
(* none of its out arguments.                                              *)
THEOREM YesTheorem == Spec => []YesMeansGood
  <1>1. SurfaceInv => YesMeansGood
    BY DEF SurfaceInv, VerdictInv
  <1> QED  BY <1>1, SurfacesInvariant, PTL

(* The C ABI and the browser give one verdict on the arguments both can be *)
(* given and both check, and what does not decode is told apart from what  *)
(* does not verify.                                                        *)
THEOREM AgreeTheorem == Spec => []SurfacesAgree
  <1>1. SurfaceInv => SurfacesAgree
    BY DEF SurfaceInv, VerdictInv
  <1> QED  BY <1>1, SurfacesInvariant, PTL

(* An epoch store opens only as one that was sealed, under the passphrase  *)
(* it was sealed with: EpochStore::open refuses every recombination of the *)
(* headers, entries and trailers that are about, for any number of epochs. *)
THEOREM StoreTheorem == Spec => []StoreOpensAsSealed
  <1>1. SurfaceInv => StoreOpensAsSealed
    BY StoreMeans DEF SurfaceInv
  <1> QED  BY <1>1, SurfacesInvariant, PTL

(* Key files and epoch stores open under every spelling of the passphrase  *)
(* they were sealed with (normalize_passphrase, passphrase_candidates).    *)
THEOREM SpellingTheorem == Spec => []AnySpellingOpens
  <1>1. SurfaceInv => AnySpellingOpens
    BY StoreMeans, ShapeOpens DEF SurfaceInv, AnySpellingOpens
  <1> QED  BY <1>1, SurfacesInvariant, PTL

(* The command line, the desktop application, the C ABI and the browser    *)
(* make the same key of every file the commands can leave, raw, sealed,    *)
(* torn or of an old release.                                              *)
THEOREM SameKeyTheorem == Spec => []SameKeyEverywhere
  <1>1. SurfaceInv => SameKeyEverywhere
    BY ShapeSame DEF SurfaceInv
  <1> QED  BY <1>1, SurfacesInvariant, PTL

(* Only passwd and the desktop application's rename change a finished      *)
(* file, and no plaintext appears that did not authenticate, for any       *)
(* number of processes (commit_output, create_new, decrypt_file).          *)
THEOREM OverwriteTheorem == Spec => CliNeverOverwrites
  <1>1. SurfaceInv /\ SurfaceInv' /\ [Next]_surfaceVars =>
          [/\ \A path \in Paths :
                disk[path].kind \notin {"none", "torn"} /\ disk'[path] # disk[path] =>
                  \E p \in Processes :
                    \/ path = "secret" /\ proc[p].cmd = "passwd"
                    \/ path = "out" /\ proc[p].cmd = "desktop_decrypt"
           /\ disk'["out"].kind = "plain" => disk'["out"].authentic]_keyVars
    <2> SUFFICES ASSUME SurfaceInv, SurfaceInv', [Next]_surfaceVars, ~(UNCHANGED keyVars)
                 PROVE  /\ \A path \in Paths : Overwritten(path) => MayOverwrite(path)
                        /\ disk'["out"].kind = "plain" => disk'["out"].authentic
      BY DEF Overwritten, MayOverwrite
    <2>1. KeyNext
      BY DEF Next, surfaceVars
    <2>2. \A path \in Paths : Overwritten(path) => MayOverwrite(path)
      BY <2>1, OverwriteStep DEF SurfaceInv
    <2>3. ShapeInv'
      BY DEF SurfaceInv
    <2>4. (ShapeInv /\ disk["out"].kind = "plain" => disk["out"].authentic)'
      BY PlainIsAuthentic, PTL
    <2> QED  BY <2>2, <2>3, <2>4
  <1> QED  BY <1>1, SurfacesInvariant, PTL DEF Spec, CliNeverOverwrites

(* A public key on the disk has its secret key beside it, and a verifying  *)
(* key the identity whose signatures it verifies, wherever keygen,         *)
(* generate_keys and passwd were interrupted or met, as long as passwd is  *)
(* not run on a raw file (the run passwd_raw shows what happens there).    *)
THEOREM PublicTheorem ==
  ASSUME "raw" \notin PasswdOn
  PROVE  Spec => []PublicHasItsSecret
  <1>1. Init => WorldInv
    BY KeyInitWorld DEF Init
  <1>2. WorldInv /\ [Next]_surfaceVars => WorldInv'
    <2> SUFFICES ASSUME WorldInv, [Next]_surfaceVars PROVE WorldInv'
      OBVIOUS
    <2>1. UNCHANGED keyVars \/ KeyNext
      BY DEF Next, surfaceVars
    <2> QED  BY <2>1, PartsStay, KeyWorld
  <1>3. WorldInv => PublicHasItsSecret
    BY WorldMeans
  <1> QED  BY <1>1, <1>2, <1>3, PTL DEF Spec

=============================================================================
