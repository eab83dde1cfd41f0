---------------------------- MODULE LoginProofs ----------------------------
(***************************************************************************)
(* The two ways of logging in with a key.                                  *)
(*                                                                         *)
(* Challenge and response: AcceptedOnce for one caller at a time, any      *)
(* clock that does not go back, and any windows, challenges and replays.   *)
(* The record forgets; what keeps a forgotten nonce refused is that its    *)
(* challenge expired before the time any later call is made with.  That is *)
(* the part of the invariant a second caller with an older time breaks.    *)
(*                                                                         *)
(* The ssh-agent: a signature costs a yes, and every answer is for its own *)
(* request, for any clients, requests sent ahead and lines typed ahead.    *)
(***************************************************************************)
EXTENDS SpentNonces, Agent, FiniteSetTheorems, SequenceTheorems, TLAPS

(* One caller, who has the record to itself.                               *)
OneCaller == Exclusive /\ \A v, w \in Workers : v = w

Expires(n) == expires_at(challenges[n])

Record(n) == [nonce |-> n, expires |-> Expires(n)]

(* A call past its first checks is in time for its challenge.              *)
InTime ==
  \A w \in Workers :
    /\ now[w] <= clock
    /\ pc[w] \in {"inside", "push"} =>
         nonce[w] \in 1..Len(challenges) /\ now[w] <= Expires(nonce[w])

(* The record holds nonces of accepted answers with their expiry.          *)
RecordIsTrue ==
  \A s \in seen :
    /\ s.nonce \in 1..Len(challenges) /\ s = Record(s.nonce)
    /\ accepted[s.nonce] # 0

(* Between the search and the push the nonce is not in the record.         *)
PushIsNew ==
  \A w \in Workers : pc[w] = "push" =>
    \A s \in seen : s.nonce # nonce[w] /\ s.expires >= now[w]

(* An accepted nonce is in the record, or expired before every time that   *)
(* a call is or will be made with.                                         *)
ForgottenIsExpired ==
  \A n \in Nonces : accepted[n] # 0 =>
    /\ n \in 1..Len(challenges)
    /\ \/ Record(n) \in seen
       \/ /\ Expires(n) < clock
          /\ \A w \in Workers : pc[w] # "idle" => Expires(n) < now[w]

IInv ==
  /\ TypeOK /\ AcceptedOnce /\ InTime /\ RecordIsTrue /\ PushIsNew
  /\ ForgottenIsExpired

-----------------------------------------------------------------------------
LEMMA ExpiresType ==
  ASSUME TypeOK, NEW n \in 1..Len(challenges)
  PROVE  /\ Expires(n) \in 0..LastTime /\ n \in Nonces
         /\ challenges[n] \in [issued : 0..LastTime, window : Windows]
         /\ challenges[n].issued \in Nat /\ challenges[n].window \in Nat
  <1>1. challenges[n] \in [issued : 0..LastTime, window : Windows]
    <2> DEFINE R == [issued : 0..LastTime, window : Windows]
    <2>1. challenges \in Seq(R)
      BY DEF TypeOK
    <2> HIDE DEF R
    <2>2. challenges[n] \in R
      BY <2>1
    <2> QED  BY <2>2 DEF R
  <1>2. challenges[n].issued \in 0..LastTime /\ challenges[n].window \in 0..LastTime
    BY <1>1, NonceBounds
  <1> QED  BY <1>1, <1>2, NonceBounds DEF Expires, expires_at, TypeOK, Nonces

LEMMA InitIInv == Init => IInv
  BY NonceBounds DEF Init, IInv, TypeOK, AcceptedOnce, InTime, RecordIsTrue, PushIsNew,
     ForgottenIsExpired, PCs, Nonces

LEMMA TickStep ==
  ASSUME IInv, Tick PROVE IInv'
  <1> USE DEF Tick, Expires, Record
  <1>1. TypeOK'  BY NonceBounds DEF IInv, TypeOK
  <1>2. clock \in Nat /\ clock' = clock + 1 /\ now \in [Workers -> 0..Horizon]
    BY NonceBounds DEF IInv, TypeOK
  <1>3. AcceptedOnce' /\ RecordIsTrue' /\ PushIsNew'
    BY DEF IInv, AcceptedOnce, RecordIsTrue, PushIsNew
  <1>4. InTime'
    BY <1>2, NonceBounds DEF IInv, InTime
  <1>5. ForgottenIsExpired'
    <2> SUFFICES ASSUME NEW n \in Nonces, accepted[n] # 0
                 PROVE  /\ n \in 1..Len(challenges)
                        /\ \/ Record(n) \in seen
                           \/ /\ Expires(n) < clock + 1
                              /\ \A w \in Workers : pc[w] # "idle" => Expires(n) < now[w]
      BY <1>2 DEF ForgottenIsExpired
    <2>1. n \in 1..Len(challenges)
      BY DEF IInv, ForgottenIsExpired
    <2>2. Expires(n) \in Nat
      BY <2>1, ExpiresType, NonceBounds DEF IInv
    <2> HIDE DEF Expires
    <2>3. Expires(n) < clock => Expires(n) < clock + 1
      BY <2>2, <1>2
    <2> QED  BY <2>1, <2>3 DEF IInv, ForgottenIsExpired
  <1> QED  BY <1>1, <1>3, <1>4, <1>5 DEF IInv

LEMMA IssueStep ==
  ASSUME IInv, NEW v \in Windows, Issue(v) PROVE IInv'
  <1>1. /\ challenges \in Seq([issued : 0..LastTime, window : Windows])
        /\ challenges' = Append(challenges, [issued |-> clock, window |-> v])
        /\ Len(challenges) < MaxChallenges /\ clock \in 0..Horizon
        /\ clock' = clock /\ answered' = answered /\ pc' = pc /\ now' = now
        /\ nonce' = nonce /\ seen' = seen /\ accepted' = accepted
    BY DEF Issue, IInv, TypeOK
  <1>2. [issued |-> clock, window |-> v] \in [issued : 0..LastTime, window : Windows]
    BY <1>1, NonceBounds
  <1>3. /\ challenges' \in Seq([issued : 0..LastTime, window : Windows])
        /\ Len(challenges') = Len(challenges) + 1 /\ Len(challenges) \in Nat
        /\ \A n \in 1..Len(challenges) : challenges'[n] = challenges[n]
    BY <1>1, <1>2
  <1>4. 1..Len(challenges) \subseteq 1..Len(challenges')
    BY <1>3
  <1>5. \A n \in 1..Len(challenges) : Expires(n)' = Expires(n) /\ Record(n)' = Record(n)
    BY <1>3 DEF Expires, Record
  <1>6. TypeOK'
    BY <1>1, <1>3, <1>4, NonceBounds DEF IInv, TypeOK
  <1>7. InTime'
    BY <1>1, <1>4, <1>5 DEF IInv, InTime
  <1>8. RecordIsTrue'
    BY <1>1, <1>4, <1>5 DEF IInv, RecordIsTrue
  <1>9. ForgottenIsExpired'
    BY <1>1, <1>4, <1>5 DEF IInv, ForgottenIsExpired
  <1>10. AcceptedOnce' /\ PushIsNew'
    BY <1>1 DEF IInv, AcceptedOnce, PushIsNew
  <1> QED  BY <1>6, <1>7, <1>8, <1>9, <1>10 DEF IInv

LEMMA AnswerStep ==
  ASSUME IInv, NEW n \in 1..Len(challenges), Answer(n) PROVE IInv'
  BY DEF Answer, IInv, TypeOK, AcceptedOnce, InTime, RecordIsTrue, PushIsNew,
     ForgottenIsExpired, Expires, Record

LEMMA ReadClockStep ==
  ASSUME IInv, NEW w \in Workers, ReadClock(w) PROVE IInv'
  <1>1. /\ pc[w] = "idle" /\ pc' = [pc EXCEPT ![w] = "timed"]
        /\ now' = [now EXCEPT ![w] = clock] /\ clock' = clock
        /\ challenges' = challenges /\ answered' = answered /\ nonce' = nonce
        /\ seen' = seen /\ accepted' = accepted
    BY DEF ReadClock
  <1>2. TypeOK
    BY DEF IInv
  <1>3. \A x \in Workers : /\ pc'[x] = IF x = w THEN "timed" ELSE pc[x]
                           /\ now'[x] = IF x = w THEN clock ELSE now[x]
    BY <1>1, <1>2 DEF TypeOK
  <1>4. TypeOK'
    BY <1>1, <1>2 DEF TypeOK, PCs
  <1>5. \A n : Expires(n)' = Expires(n) /\ Record(n)' = Record(n)
    BY <1>1 DEF Expires, Record
  <1>6. InTime'
    BY <1>1, <1>2, <1>3, <1>5, NonceBounds DEF IInv, InTime, TypeOK
  <1>7. AcceptedOnce' /\ RecordIsTrue' /\ PushIsNew'
    BY <1>1, <1>3, <1>5 DEF IInv, AcceptedOnce, RecordIsTrue, PushIsNew
  <1>8. ForgottenIsExpired'
    BY <1>1, <1>3, <1>5 DEF IInv, ForgottenIsExpired
  <1> QED  BY <1>4, <1>6, <1>7, <1>8 DEF IInv

LEMMA RefuseStep ==
  ASSUME IInv, NEW w \in Workers, NEW n \in 1..Len(challenges), Refuse(w, n) PROVE IInv'
  <1>1. /\ pc' = [pc EXCEPT ![w] = "idle"]
        /\ now' = now /\ clock' = clock
        /\ challenges' = challenges /\ answered' = answered /\ nonce' = nonce
        /\ seen' = seen /\ accepted' = accepted
    BY DEF Refuse
  <1>2. TypeOK
    BY DEF IInv
  <1>3. \A x \in Workers : pc'[x] = IF x = w THEN "idle" ELSE pc[x]
    BY <1>1, <1>2 DEF TypeOK
  <1>4. TypeOK'
    BY <1>1, <1>2 DEF TypeOK, PCs
  <1>5. \A i : Expires(i)' = Expires(i) /\ Record(i)' = Record(i)
    BY <1>1 DEF Expires, Record
  <1>6. InTime' /\ AcceptedOnce' /\ RecordIsTrue' /\ PushIsNew'
    BY <1>1, <1>3, <1>5 DEF IInv, InTime, AcceptedOnce, RecordIsTrue, PushIsNew
  <1>7. ForgottenIsExpired'
    BY <1>1, <1>3, <1>5 DEF IInv, ForgottenIsExpired
  <1> QED  BY <1>4, <1>6, <1>7 DEF IInv

LEMMA CallStep ==
  ASSUME IInv, NEW w \in Workers, NEW n \in 1..Len(challenges), Call(w, n) PROVE IInv'
  <1>1. /\ pc[w] = "timed" /\ pc' = [pc EXCEPT ![w] = "inside"]
        /\ nonce' = [nonce EXCEPT ![w] = n] /\ now[w] <= Expires(n)
        /\ now' = now /\ clock' = clock
        /\ challenges' = challenges /\ answered' = answered
        /\ seen' = seen /\ accepted' = accepted
    BY DEF Call, Expires
  <1>2. TypeOK
    BY DEF IInv
  <1>3. \A x \in Workers : /\ pc'[x] = IF x = w THEN "inside" ELSE pc[x]
                           /\ nonce'[x] = IF x = w THEN n ELSE nonce[x]
    BY <1>1, <1>2 DEF TypeOK
  <1>4. TypeOK'
    BY <1>1, <1>2 DEF TypeOK, PCs
  <1>5. \A i : Expires(i)' = Expires(i) /\ Record(i)' = Record(i)
    BY <1>1 DEF Expires, Record
  <1>6. InTime' /\ AcceptedOnce' /\ RecordIsTrue' /\ PushIsNew'
    BY <1>1, <1>3, <1>5 DEF IInv, InTime, AcceptedOnce, RecordIsTrue, PushIsNew
  <1>7. ForgottenIsExpired'
    BY <1>1, <1>3, <1>5 DEF IInv, ForgottenIsExpired
  <1> QED  BY <1>4, <1>6, <1>7 DEF IInv

(* What the record forgets here expired before the caller's time.          *)
LEMMA ScanStep ==
  ASSUME OneCaller, IInv, NEW w \in Workers, Scan(w) PROVE IInv'
  <1> DEFINE to == IF \E s \in seen' : s.nonce = nonce[w] THEN "idle" ELSE "push"
  <1>1. /\ pc[w] = "inside" /\ seen' = {s \in seen : s.expires >= now[w]}
        /\ pc' = [pc EXCEPT ![w] = to]
        /\ now' = now /\ clock' = clock /\ nonce' = nonce
        /\ challenges' = challenges /\ answered' = answered /\ accepted' = accepted
    BY DEF Scan, forget_expired
  <1>2. TypeOK /\ now[w] \in Nat /\ clock \in Nat /\ now[w] <= clock
    BY NonceBounds DEF IInv, TypeOK, InTime
  <1>3. \A x \in Workers : x = w
    BY DEF OneCaller
  <1>4. pc'[w] = to /\ to \in {"idle", "push"}
    BY <1>1, <1>2 DEF TypeOK
  <1>5. TypeOK'
    BY <1>1, <1>2, <1>4 DEF TypeOK, PCs
  <1>6. \A i : Expires(i)' = Expires(i) /\ Record(i)' = Record(i)
    BY <1>1 DEF Expires, Record
  <1>7. InTime'
    BY <1>1, <1>3, <1>6 DEF IInv, InTime
  <1>8. AcceptedOnce' /\ RecordIsTrue'
    BY <1>1, <1>6 DEF IInv, AcceptedOnce, RecordIsTrue
  <1>9. PushIsNew'
    BY <1>1, <1>3, <1>4 DEF PushIsNew
  <1>10. ForgottenIsExpired'
    <2> SUFFICES ASSUME NEW n \in Nonces, accepted[n] # 0
                 PROVE  /\ n \in 1..Len(challenges)
                        /\ \/ Record(n) \in seen'
                           \/ /\ Expires(n) < clock
                              /\ \A x \in Workers : pc'[x] # "idle" => Expires(n) < now[x]
      BY <1>1, <1>6 DEF ForgottenIsExpired
    <2>1. n \in 1..Len(challenges)
      BY DEF IInv, ForgottenIsExpired
    <2>2. Expires(n) \in Nat
      BY <2>1, <1>2, ExpiresType, NonceBounds
    <2>3. CASE Record(n) \in seen
      <3>1. Record(n).expires = Expires(n)
        BY DEF Record
      <3>2. CASE Expires(n) >= now[w]
        BY <2>1, <2>3, <3>1, <3>2, <1>1
      <3>3. CASE Expires(n) < now[w]
        BY <2>1, <2>2, <3>3, <1>2, <1>3
      <3> QED  BY <3>2, <3>3, <2>2, <1>2
    <2>4. CASE Record(n) \notin seen
      <3>1. Expires(n) < clock /\ Expires(n) < now[w]
        BY <2>4, <1>1 DEF IInv, ForgottenIsExpired
      <3> QED  BY <2>1, <3>1, <1>3
    <2> QED  BY <2>3, <2>4
  <1> QED  BY <1>5, <1>7, <1>8, <1>9, <1>10 DEF IInv

LEMMA PushStep ==
  ASSUME OneCaller, IInv, NEW w \in Workers, Push(w) PROVE IInv'
  <1> DEFINE n == nonce[w]
  <1>1. /\ pc[w] = "push" /\ seen' = seen \cup {Record(n)}
        /\ accepted' = [accepted EXCEPT ![n] = accepted[n] + 1]
        /\ pc' = [pc EXCEPT ![w] = "idle"]
        /\ now' = now /\ clock' = clock /\ nonce' = nonce
        /\ challenges' = challenges /\ answered' = answered
    BY DEF Push, Record, Expires
  <1>2. TypeOK
    BY DEF IInv
  <1>3. \A x \in Workers : x = w
    BY DEF OneCaller
  <1>4. /\ n \in 1..Len(challenges) /\ n \in Nonces /\ Expires(n) \in 0..LastTime
        /\ now[w] <= Expires(n) /\ now[w] \in Nat /\ Expires(n) \in Nat
    BY <1>1, <1>2, ExpiresType, NonceBounds DEF IInv, InTime, TypeOK
  <1>5. accepted[n] = 0
    <2> SUFFICES ASSUME accepted[n] # 0 PROVE FALSE
      OBVIOUS
    <2>1. Record(n) \notin seen
      BY <1>1 DEF IInv, PushIsNew, Record
    <2>2. Expires(n) < now[w]
      BY <2>1, <1>1, <1>4 DEF IInv, ForgottenIsExpired
    <2> QED  BY <2>2, <1>4
  <1>6. \A i \in Nonces : accepted'[i] = IF i = n THEN 1 ELSE accepted[i]
    BY <1>1, <1>2, <1>4, <1>5 DEF TypeOK
  <1>7. pc'[w] = "idle"
    BY <1>1, <1>2 DEF TypeOK
  <1>8. \A i : Expires(i)' = Expires(i) /\ Record(i)' = Record(i)
    BY <1>1 DEF Expires, Record
  <1>9. TypeOK'
    <2>1. Record(n) \in Spent
      BY <1>4 DEF Record, Spent
    <2>2. accepted' \in [Nonces -> Nat]
      <3>1. accepted \in [Nonces -> Nat]
        BY <1>2 DEF TypeOK
      <3>2. accepted' = [accepted EXCEPT ![n] = 1]
        BY <1>1, <1>4, <1>5, <3>1
      <3> QED  BY <3>1, <3>2
    <2> QED  BY <2>1, <2>2, <1>1, <1>2 DEF TypeOK, PCs
  <1>10. AcceptedOnce'
    BY <1>6 DEF IInv, AcceptedOnce
  <1>11. InTime' /\ PushIsNew'
    BY <1>1, <1>3, <1>7, <1>8 DEF IInv, InTime, PushIsNew
  <1>12. RecordIsTrue'
    <2>1. Record(n).nonce = n
      BY DEF Record
    <2> SUFFICES ASSUME NEW s \in seen'
                 PROVE  /\ s.nonce \in 1..Len(challenges) /\ s = Record(s.nonce)
                        /\ accepted'[s.nonce] # 0
      BY <1>1, <1>8 DEF RecordIsTrue
    <2>2. CASE s = Record(n)
      BY <2>1, <2>2, <1>4, <1>6
    <2>3. CASE s \in seen
      <3>1. s.nonce \in 1..Len(challenges) /\ s = Record(s.nonce) /\ accepted[s.nonce] # 0
        BY <2>3 DEF IInv, RecordIsTrue
      <3>2. s.nonce \in Nonces
        BY <3>1, <1>2, ExpiresType
      <3> QED  BY <3>1, <3>2, <1>6
    <2> QED  BY <2>2, <2>3, <1>1
  <1>13. ForgottenIsExpired'
    <2> SUFFICES ASSUME NEW i \in Nonces, accepted'[i] # 0
                 PROVE  /\ i \in 1..Len(challenges)
                        /\ \/ Record(i) \in seen'
                           \/ Expires(i) < clock
      BY <1>1, <1>3, <1>7, <1>8 DEF ForgottenIsExpired
    <2>1. CASE i = n
      BY <2>1, <1>1, <1>4
    <2>2. CASE i # n
      BY <2>2, <1>1, <1>6 DEF IInv, ForgottenIsExpired
    <2> QED  BY <2>1, <2>2
  <1> QED  BY <1>9, <1>10, <1>11, <1>12, <1>13 DEF IInv

LEMMA NextIInv == ASSUME OneCaller PROVE IInv /\ [Next]_vars => IInv'
  <1> SUFFICES ASSUME IInv, [Next]_vars PROVE IInv'
    OBVIOUS
  <1>1. CASE Next
    BY <1>1, TickStep, IssueStep, AnswerStep, ReadClockStep, RefuseStep, CallStep,
       ScanStep, PushStep DEF Next
  <1>2. CASE UNCHANGED vars
    BY <1>2 DEF vars, IInv, TypeOK, AcceptedOnce, InTime, RecordIsTrue, PushIsNew,
       ForgottenIsExpired, Expires, Record
  <1> QED  BY <1>1, <1>2

-----------------------------------------------------------------------------
(* No answer is ever accepted twice by a verifier that makes one call at a *)
(* time with a clock that does not go back.                                *)
THEOREM AcceptedOnceTheorem == ASSUME OneCaller PROVE Spec => []AcceptedOnce
  <1>1. IInv => AcceptedOnce
    BY DEF IInv
  <1> QED  BY <1>1, InitIInv, NextIInv, PTL DEF Spec

(* What a pruned record still holds can still be presented.                *)
THEOREM RecordIsLiveTheorem == ASSUME OneCaller PROVE Spec => []RecordIsLive
  <1>1. IInv => RecordIsLive
    BY DEF IInv, PushIsNew, RecordIsTrue, RecordIsLive
  <1> QED  BY <1>1, InitIInv, NextIInv, PTL DEF Spec

(* Types and windows do not depend on how many callers there are, or on    *)
(* whether they take turns.                                                *)
CallsAreNamed ==
  \A w \in Workers : pc[w] \in {"inside", "push"} => nonce[w] \in 1..Len(challenges)

LEMMA NonceTypes == TypeOK /\ CallsAreNamed /\ [Next]_vars => TypeOK' /\ CallsAreNamed'
  <1> SUFFICES ASSUME TypeOK, CallsAreNamed, [Next]_vars PROVE TypeOK' /\ CallsAreNamed'
    OBVIOUS
  <1>1. CASE UNCHANGED vars
    BY <1>1 DEF vars, TypeOK, CallsAreNamed
  <1>2. CASE Tick
    BY <1>2, NonceBounds DEF Tick, TypeOK, CallsAreNamed
  <1>3. ASSUME NEW v \in Windows, Issue(v) PROVE TypeOK' /\ CallsAreNamed'
    <2> DEFINE R == [issued : 0..LastTime, window : Windows]
    <2>1. /\ challenges \in Seq(R) /\ [issued |-> clock, window |-> v] \in R
          /\ challenges' = Append(challenges, [issued |-> clock, window |-> v])
      BY <1>3, NonceBounds DEF Issue, TypeOK
    <2>2. challenges' \in Seq(R) /\ Len(challenges') = Len(challenges) + 1
          /\ Len(challenges) \in Nat
      <3> HIDE DEF R
      <3> QED  BY <2>1, AppendProperties, LenProperties
    <2>3. 1..Len(challenges) \subseteq 1..Len(challenges')
          /\ 0..Len(challenges) \subseteq 0..Len(challenges')
      BY <2>2
    <2>4. Len(challenges') <= MaxChallenges
      BY <1>3, <2>2, NonceBounds DEF Issue
    <2> QED  BY <1>3, <2>2, <2>3, <2>4 DEF Issue, TypeOK, CallsAreNamed
  <1>4. ASSUME NEW n \in 1..Len(challenges), Answer(n) PROVE TypeOK' /\ CallsAreNamed'
    BY <1>4 DEF Answer, TypeOK, CallsAreNamed
  <1>5. ASSUME NEW w \in Workers, ReadClock(w) PROVE TypeOK' /\ CallsAreNamed'
    BY <1>5 DEF ReadClock, TypeOK, CallsAreNamed, PCs
  <1>6. ASSUME NEW w \in Workers, NEW n \in 1..Len(challenges), Refuse(w, n)
        PROVE  TypeOK' /\ CallsAreNamed'
    BY <1>6 DEF Refuse, TypeOK, CallsAreNamed, PCs
  <1>7. ASSUME NEW w \in Workers, NEW n \in 1..Len(challenges), Call(w, n)
        PROVE  TypeOK' /\ CallsAreNamed'
    BY <1>7 DEF Call, TypeOK, CallsAreNamed, PCs
  <1>8. ASSUME NEW w \in Workers, Scan(w) PROVE TypeOK' /\ CallsAreNamed'
    BY <1>8 DEF Scan, forget_expired, TypeOK, CallsAreNamed, PCs
  <1>9. ASSUME NEW w \in Workers, Push(w) PROVE TypeOK' /\ CallsAreNamed'
    <2>1. nonce[w] \in 1..Len(challenges)
      BY <1>9 DEF Push, CallsAreNamed
    <2>2. nonce[w] \in Nonces /\ expires_at(challenges[nonce[w]]) \in 0..LastTime
      BY <2>1, ExpiresType DEF Expires
    <2>3. [nonce |-> nonce[w], expires |-> expires_at(challenges[nonce[w]])] \in Spent
      BY <2>2 DEF Spent
    <2>4. seen' \subseteq Spent /\ accepted' \in [Nonces -> Nat]
      BY <1>9, <2>2, <2>3 DEF Push, TypeOK
    <2>5. /\ pc' = [pc EXCEPT ![w] = "idle"] /\ clock' = clock /\ challenges' = challenges
          /\ answered' = answered /\ now' = now /\ nonce' = nonce
      BY <1>9 DEF Push
    <2> QED  BY <2>4, <2>5 DEF TypeOK, CallsAreNamed, PCs
  <1> QED  BY <1>1, <1>2, <1>3, <1>4, <1>5, <1>6, <1>7, <1>8, <1>9 DEF Next

LEMMA NonceTypesInit == Init => TypeOK /\ CallsAreNamed
  BY InitIInv DEF Init, IInv, CallsAreNamed

(* The record, the clock and the calls have their types, for any number of *)
(* callers at once, in turns or not.                                       *)
THEOREM NonceTypeCorrect == Spec => []TypeOK
  BY NonceTypesInit, NonceTypes, PTL DEF Spec

(* A challenge is alive throughout its window, whatever its fields are and *)
(* whoever calls.                                                          *)
THEOREM AliveTheorem == Spec => []AliveWhenIssued
  <1>1. TypeOK => AliveWhenIssued
    <2> SUFFICES ASSUME TypeOK, NEW n \in 1..Len(challenges),
                        NEW t \in challenges[n].issued..Horizon,
                        t - challenges[n].issued <= challenges[n].window
                 PROVE  t <= expires_at(challenges[n])
      BY DEF AliveWhenIssued
    <2>1. challenges[n].issued \in Nat /\ challenges[n].window \in Nat
      BY ExpiresType
    <2> QED  BY <2>1, NonceBounds DEF expires_at
  <1> QED  BY <1>1, NonceTypeCorrect, PTL

-----------------------------------------------------------------------------
(* The SSH agent.                                                          *)

(* Lines at the terminal, and those that say yes.                          *)
Words == {"yes", "no"}
YesAt(lines) == {i \in 1..Len(lines) : lines[i] = "yes"}

LEMMA YesFinite ==
  ASSUME NEW lines \in Seq(Words)
  PROVE  /\ DOMAIN lines = 1..Len(lines) /\ Len(lines) \in Nat
         /\ IsFiniteSet(YesAt(lines)) /\ Cardinality(YesAt(lines)) \in Nat
  <1>1. Len(lines) \in Nat /\ DOMAIN lines = 1..Len(lines)
    BY LenProperties
  <1>2. IsFiniteSet(1..Len(lines))
    BY <1>1, FS_Interval
  <1>3. YesAt(lines) \in SUBSET (1..Len(lines))
    BY DEF YesAt
  <1>4. IsFiniteSet(YesAt(lines))
    BY <1>2, <1>3, FS_Subset
  <1> QED  BY <1>1, <1>4, FS_CardinalityType

LEMMA YesAppend ==
  ASSUME NEW lines \in Seq(Words), NEW line \in Words
  PROVE  Cardinality(YesAt(Append(lines, line))) =
           Cardinality(YesAt(lines)) + (IF line = "yes" THEN 1 ELSE 0)
  <1> DEFINE n == Len(lines)
             more == Append(lines, line)
  <1>1. /\ n \in Nat /\ Len(more) = n + 1 /\ more[n + 1] = line
        /\ \A i \in 1..n : more[i] = lines[i]
    BY AppendProperties, LenProperties
  <1>2. IsFiniteSet(YesAt(lines)) /\ Cardinality(YesAt(lines)) \in Nat
    BY YesFinite
  <1> HIDE DEF more, n
  <1>3. YesAt(lines) = {i \in 1..n : lines[i] = "yes"}
    BY DEF YesAt, n
  <1>4. CASE line = "yes"
    <2>1. YesAt(more) = YesAt(lines) \cup {n + 1} /\ n + 1 \notin YesAt(lines)
      BY <1>1, <1>3, <1>4 DEF YesAt
    <2>2. Cardinality(YesAt(more)) = Cardinality(YesAt(lines)) + 1
      BY <1>2, <2>1, FS_AddElement
    <2> QED  BY <1>4, <2>2 DEF more
  <1>5. CASE line # "yes"
    <2>1. YesAt(more) = YesAt(lines)
      BY <1>1, <1>3, <1>5 DEF YesAt
    <2> QED  BY <1>2, <1>5, <2>1 DEF more
  <1> QED  BY <1>4, <1>5

LEMMA YesTail ==
  ASSUME NEW lines \in Seq(Words), lines # <<>>
  PROVE  /\ Head(lines) \in Words /\ Tail(lines) \in Seq(Words)
         /\ Cardinality(YesAt(lines)) =
              Cardinality(YesAt(Tail(lines))) + (IF Head(lines) = "yes" THEN 1 ELSE 0)
  <1> DEFINE rest == Tail(lines)
             n == Len(lines)
             f == [i \in YesAt(rest) |-> i + 1]
             later == YesAt(lines) \ {1}
  <1>1. /\ rest \in Seq(Words) /\ n \in Nat \ {0} /\ Len(rest) = n - 1
        /\ \A i \in 1..(n - 1) : rest[i] = lines[i + 1]
        /\ Head(lines) = lines[1] /\ Head(lines) \in Words
    BY HeadTailProperties, EmptySeq, LenProperties
  <1>2. /\ IsFiniteSet(YesAt(lines)) /\ Cardinality(YesAt(lines)) \in Nat
        /\ IsFiniteSet(YesAt(rest)) /\ Cardinality(YesAt(rest)) \in Nat
    BY <1>1, YesFinite
  <1> HIDE DEF rest
  <1>3. YesAt(rest) = {i \in 1..(n - 1) : lines[i + 1] = "yes"}
    BY <1>1 DEF YesAt
  <1>4. later = {i \in 2..n : lines[i] = "yes"}
    BY <1>1 DEF YesAt
  <1>5. f \in [YesAt(rest) -> later]
    BY <1>1, <1>3, <1>4
  <1>6. \A i, j \in YesAt(rest) : f[i] = f[j] => i = j
    BY <1>3
  <1>7. \A k \in later : \E i \in YesAt(rest) : f[i] = k
    <2>1. ASSUME NEW k \in later PROVE k - 1 \in YesAt(rest) /\ f[k - 1] = k
      BY <1>1, <1>3, <1>4
    <2> QED  BY <2>1
  <1>8. IsFiniteSet(later)
    BY <1>2, FS_Subset
  <1> HIDE DEF f, later
  <1>9. f \in Surjection(YesAt(rest), later) /\ f \in Injection(YesAt(rest), later)
    BY <1>5, <1>6, <1>7 DEF Surjection, Injection, IsInjective
  <1>10. Cardinality(later) = Cardinality(YesAt(rest))
    BY <1>2, <1>9, FS_Surjection
  <1>11. CASE Head(lines) = "yes"
    <2>1. 1 \in YesAt(lines)
      BY <1>1, <1>11 DEF YesAt
    <2>2. Cardinality(later) = Cardinality(YesAt(lines)) - 1
      BY <1>2, <2>1, FS_RemoveElement DEF later
    <2> QED  BY <1>1, <1>2, <1>10, <1>11, <2>2 DEF rest
  <1>12. CASE Head(lines) # "yes"
    <2>1. later = YesAt(lines)
      BY <1>1, <1>12 DEF YesAt, later
    <2> QED  BY <1>1, <1>2, <1>10, <1>12, <2>1 DEF rest
  <1> QED  BY <1>11, <1>12

(* What the agent may answer, and whether an answer is one for a request.  *)
Answers ==
  {FAILURE, IDENTITIES_ANSWER} \cup
  {SIGN_RESPONSE(c, i) : c \in Clients, i \in Nat}

Matches(request, c, i, reply) ==
  \/ request = "identities" /\ reply = IDENTITIES_ANSWER
  \/ request = "sign" /\ reply \in {SIGN_RESPONSE(c, i), FAILURE}
  \/ request \in {"foreign", "unknown"} /\ reply = FAILURE

Place(c) == Len(replies[c]) + 1

(* What the clients sent and got: answers are never ahead of requests.     *)
ClientsInv ==
  /\ queue \in Seq(Clients)
  /\ sent \in [Clients -> Seq(Requests)]
  /\ replies \in [Clients -> Seq(Answers)]
  /\ \A c \in Clients : Len(replies[c]) <= Len(sent[c])
  /\ \A c \in Clients : \A i \in 1..Len(replies[c]) : Matches(sent[c][i], c, i, replies[c][i])

(* What the agent is in the middle of is the client's next request: it     *)
(* asks only about a signature, and the answer it is about to write is one *)
(* for that request, however far the client has sent ahead by then.        *)
ServingInv ==
  agent.state \in {"reading", "asking", "writing"} =>
    /\ agent.client \in Clients
    /\ agent.state \in {"asking", "writing"} => Place(agent.client) <= Len(sent[agent.client])
    /\ agent.state = "asking" => sent[agent.client][Place(agent.client)] = "sign"
    /\ agent.state = "writing" =>
         /\ agent.reply \in Answers
         /\ Matches(sent[agent.client][Place(agent.client)], agent.client,
                    Place(agent.client), agent.reply)

(* Signatures made and yeses unread do not exceed the yeses typed.         *)
YesInv ==
  /\ tty \in Seq(Words) /\ typed \in Nat /\ signed \in Nat
  /\ confirm \in BOOLEAN /\ (agent.state = "starting" => confirm)
  /\ confirm => signed + Cardinality(YesAt(tty)) <= typed

AgentInv == ClientsInv /\ ServingInv /\ YesInv

LEMMA ClientFacts ==
  ASSUME ClientsInv, NEW c \in Clients
  PROVE  /\ replies[c] \in Seq(Answers) /\ Len(replies[c]) \in Nat
         /\ DOMAIN replies[c] = 1..Len(replies[c])
         /\ sent[c] \in Seq(Requests) /\ Len(sent[c]) \in Nat
         /\ DOMAIN sent[c] = 1..Len(sent[c]) /\ Len(replies[c]) <= Len(sent[c])
         /\ Place(c) \in Nat \ {0}
         /\ Place(c) <= Len(sent[c]) => sent[c][Place(c)] \in Requests
  <1> DEFINE A == Answers
             R == Requests
  <1>1. replies[c] \in Seq(A) /\ sent[c] \in Seq(R) /\ Len(replies[c]) <= Len(sent[c])
    BY DEF ClientsInv
  <1> HIDE DEF A, R
  <1>2. /\ Len(replies[c]) \in Nat /\ DOMAIN replies[c] = 1..Len(replies[c])
        /\ Len(sent[c]) \in Nat /\ DOMAIN sent[c] = 1..Len(sent[c])
    BY <1>1, LenProperties
  <1>3. Place(c) \in Nat \ {0}
    BY <1>2 DEF Place
  <1>4. Place(c) <= Len(sent[c]) => sent[c][Place(c)] \in R
    BY <1>1, <1>2, <1>3, ElementOfSeq
  <1> QED  BY <1>1, <1>2, <1>3, <1>4 DEF A, R

(* A step that leaves what was sent and answered alone.                    *)
LEMMA ClientsStay ==
  ASSUME ClientsInv, queue' \in Seq(Clients), sent' = sent, replies' = replies
  PROVE  ClientsInv'
  BY DEF ClientsInv

(* A step that leaves the terminal alone.                                  *)
LEMMA YesStays ==
  ASSUME YesInv, tty' = tty, typed' = typed, signed' = signed, confirm' = confirm,
         agent'.state # "starting"
  PROVE  YesInv'
  BY DEF YesInv

(* A step to where nobody is served.                                       *)
LEMMA NobodyServed ==
  ASSUME agent'.state \in {"accepting", "stopped"}
  PROVE  ServingInv'
  BY DEF ServingInv

LEMMA AgentInit == InitAgent => AgentInv
  <1> SUFFICES ASSUME InitAgent PROVE AgentInv
    OBVIOUS
  <1>1. /\ agent.state = "starting" /\ confirm = TRUE /\ queue = <<>>
        /\ sent = [c \in Clients |-> <<>>] /\ replies = [c \in Clients |-> <<>>]
        /\ tty = <<>> /\ typed = 0 /\ signed = 0
    BY DEF InitAgent, Doing
  <1>2. ClientsInv
    <2>1. \A c \in Clients : Len(sent[c]) = 0 /\ Len(replies[c]) = 0
      BY <1>1
    <2>2. /\ queue \in Seq(Clients) /\ sent \in [Clients -> Seq(Requests)]
          /\ replies \in [Clients -> Seq(Answers)]
      BY <1>1
    <2> QED  BY <2>1, <2>2 DEF ClientsInv
  <1>3. ServingInv
    BY <1>1 DEF ServingInv
  <1>4. YesInv
    <2>1. YesAt(tty) = {}
      BY <1>1 DEF YesAt
    <2>2. Cardinality(YesAt(tty)) = 0
      BY <2>1, FS_EmptySet
    <2> QED  BY <1>1, <2>2 DEF YesInv
  <1> QED  BY <1>2, <1>3, <1>4 DEF AgentInv

LEMMA RunStep ==
  ASSUME AgentInv, NEW windows \in BOOLEAN, NEW no_confirm \in BOOLEAN,
         NEW has_terminal \in BOOLEAN, run_agent(windows, no_confirm, has_terminal)
  PROVE  AgentInv'
  <1>1. /\ agent'.state \in {"accepting", "stopped"} /\ agent.state = "starting"
        /\ queue' = queue /\ sent' = sent /\ replies' = replies
        /\ tty' = tty /\ typed' = typed /\ signed' = signed
    BY DEF run_agent, Accepting, Doing, clients, terminal
  <1>2. confirm' \in BOOLEAN
    BY DEF run_agent
  <1>3. ClientsInv'
    BY <1>1 DEF AgentInv, ClientsInv
  <1>4. ServingInv'
    BY <1>1, NobodyServed
  <1>5. YesInv'
    BY <1>1, <1>2 DEF AgentInv, YesInv
  <1> QED  BY <1>3, <1>4, <1>5 DEF AgentInv

LEMMA AcceptStep ==
  ASSUME AgentInv, Accept \/ AcceptFails
  PROVE  AgentInv'
  <1>1. CASE Accept
    <2>1. /\ agent'.state = "reading" /\ agent'.client = Head(queue) /\ queue # <<>>
          /\ queue' = Tail(queue) /\ sent' = sent /\ replies' = replies
          /\ tty' = tty /\ typed' = typed /\ signed' = signed /\ confirm' = confirm
      BY <1>1 DEF Accept, Doing, terminal
    <2>2. Head(queue) \in Clients /\ queue' \in Seq(Clients)
      BY <2>1, HeadTailProperties DEF AgentInv, ClientsInv
    <2>3. ClientsInv'
      BY <2>1, <2>2, ClientsStay DEF AgentInv
    <2>4. ServingInv'
      BY <2>1, <2>2 DEF ServingInv
    <2>5. YesInv'
      BY <2>1, YesStays DEF AgentInv
    <2> QED  BY <2>3, <2>4, <2>5 DEF AgentInv
  <1>2. CASE AcceptFails
    <2>1. /\ agent'.state = "stopped" /\ queue' = <<>> /\ sent' = sent /\ replies' = replies
          /\ tty' = tty /\ typed' = typed /\ signed' = signed /\ confirm' = confirm
      BY <1>2 DEF AcceptFails, Doing, terminal
    <2>2. ClientsInv'
      BY <2>1, ClientsStay DEF AgentInv
    <2> QED  BY <2>1, <2>2, NobodyServed, YesStays DEF AgentInv
  <1> QED  BY <1>1, <1>2

LEMMA EndStep ==
  ASSUME AgentInv, EndConnection
  PROVE  AgentInv'
  <1>1. /\ agent'.state = "accepting" /\ queue' = queue /\ sent' = sent /\ replies' = replies
        /\ tty' = tty /\ typed' = typed /\ signed' = signed /\ confirm' = confirm
    BY DEF EndConnection, Accepting, Doing, terminal
  <1>2. ClientsInv'
    BY <1>1, ClientsStay DEF AgentInv, ClientsInv
  <1> QED  BY <1>1, <1>2, NobodyServed, YesStays DEF AgentInv

(* The agent turns to the next request of its client: asks, or answers.    *)
LEMMA TurnStep ==
  ASSUME AgentInv, agent.client \in Clients, Place(agent.client) <= Len(sent[agent.client]),
         queue' = queue, sent' = sent, replies' = replies,
         agent'.client = agent.client,
         \/ agent'.state = "asking" /\ sent[agent.client][Place(agent.client)] = "sign"
         \/ /\ agent'.state = "writing" /\ agent'.reply \in Answers
            /\ Matches(sent[agent.client][Place(agent.client)], agent.client,
                       Place(agent.client), agent'.reply)
  PROVE  ClientsInv' /\ ServingInv'
  <1>1. ClientsInv'
    BY ClientsStay DEF AgentInv, ClientsInv
  <1>2. Place(agent.client)' = Place(agent.client) /\ sent'[agent'.client] = sent[agent.client]
    BY DEF Place
  <1>3. ServingInv'
    BY <1>2 DEF ServingInv
  <1> QED  BY <1>1, <1>3

LEMMA AnswersHave ==
  ASSUME NEW c \in Clients, NEW i \in Nat
  PROVE  /\ FAILURE \in Answers /\ IDENTITIES_ANSWER \in Answers
         /\ SIGN_RESPONSE(c, i) \in Answers
  BY DEF Answers

LEMMA RespondStep ==
  ASSUME AgentInv, agent.client \in Clients, NEW i, i = Place(agent.client),
         i <= Len(sent[agent.client]),
         sent[agent.client][i] \notin {"absurd", "partial"},
         try_respond(sent[agent.client][i], i)
  PROVE  AgentInv'
  <1> DEFINE c == agent.client
             r == sent[c][i]
  <1>1. r \in Requests /\ i \in Nat
    BY ClientFacts DEF AgentInv
  <1>2. /\ FAILURE \in Answers /\ IDENTITIES_ANSWER \in Answers
        /\ SIGN_RESPONSE(c, i) \in Answers
    BY <1>1, AnswersHave
  <1>3. \/ r = "identities" /\ Reply(IDENTITIES_ANSWER) /\ UNCHANGED signed
        \/ /\ r = "sign" /\ confirm /\ agent' = Doing("asking", c, Nothing)
           /\ UNCHANGED <<confirm, clients, terminal, signed>>
        \/ r = "sign" /\ ~confirm /\ Reply(SIGN_RESPONSE(c, i)) /\ signed' = signed + 1
        \/ r \notin {"identities", "sign"} /\ Reply(FAILURE) /\ UNCHANGED signed
    <2> HIDE DEF c
    <2>1. try_respond(r, i)
      BY DEF c
    <2> HIDE DEF r
    <2> QED  BY <2>1, Zenon DEF try_respond, c
  <1> HIDE DEF r
  <1>4. CASE r = "identities" /\ Reply(IDENTITIES_ANSWER) /\ UNCHANGED signed
    <2>1. /\ agent'.state = "writing" /\ agent'.client = c /\ agent'.reply = IDENTITIES_ANSWER
          /\ queue' = queue /\ sent' = sent /\ replies' = replies
          /\ tty' = tty /\ typed' = typed /\ signed' = signed /\ confirm' = confirm
      BY <1>4 DEF Reply, Doing, clients, terminal
    <2>2. Matches(r, c, i, agent'.reply)
      BY <1>4, <2>1 DEF Matches
    <2>3. ClientsInv' /\ ServingInv'
      BY <1>2, <2>1, <2>2, TurnStep DEF r
    <2> QED  BY <2>1, <2>3, YesStays DEF AgentInv
  <1>5. CASE /\ r = "sign" /\ confirm /\ agent' = Doing("asking", c, Nothing)
             /\ UNCHANGED <<confirm, clients, terminal, signed>>
    <2>1. /\ agent'.state = "asking" /\ agent'.client = c
          /\ queue' = queue /\ sent' = sent /\ replies' = replies
          /\ tty' = tty /\ typed' = typed /\ signed' = signed /\ confirm' = confirm
      BY <1>5 DEF Doing, clients, terminal
    <2>2. ClientsInv' /\ ServingInv'
      BY <1>5, <2>1, TurnStep DEF r
    <2> QED  BY <2>1, <2>2, YesStays DEF AgentInv
  <1>6. CASE r = "sign" /\ ~confirm /\ Reply(SIGN_RESPONSE(c, i)) /\ signed' = signed + 1
    <2>1. /\ agent'.state = "writing" /\ agent'.client = c /\ agent'.reply = SIGN_RESPONSE(c, i)
          /\ queue' = queue /\ sent' = sent /\ replies' = replies
          /\ tty' = tty /\ typed' = typed /\ confirm' = confirm
      BY <1>6 DEF Reply, Doing, clients, terminal
    <2>2. Matches(r, c, i, agent'.reply)
      BY <1>6, <2>1 DEF Matches
    <2>3. ClientsInv' /\ ServingInv'
      BY <1>2, <2>1, <2>2, TurnStep DEF r
    <2>4. YesInv'
      BY <1>6, <2>1 DEF AgentInv, YesInv
    <2> QED  BY <2>3, <2>4 DEF AgentInv
  <1>7. CASE r \notin {"identities", "sign"} /\ Reply(FAILURE) /\ UNCHANGED signed
    <2>1. /\ agent'.state = "writing" /\ agent'.client = c /\ agent'.reply = FAILURE
          /\ queue' = queue /\ sent' = sent /\ replies' = replies
          /\ tty' = tty /\ typed' = typed /\ signed' = signed /\ confirm' = confirm
      BY <1>7 DEF Reply, Doing, clients, terminal
    <2>2. r \in {"foreign", "unknown"}
      BY <1>1, <1>7 DEF Requests, r
    <2>3. Matches(r, c, i, agent'.reply)
      BY <2>1, <2>2 DEF Matches
    <2>4. ClientsInv' /\ ServingInv'
      BY <1>2, <2>1, <2>3, TurnStep DEF r
    <2> QED  BY <2>1, <2>4, YesStays DEF AgentInv
  <1> QED  BY <1>3, <1>4, <1>5, <1>6, <1>7

LEMMA ServeStep ==
  ASSUME AgentInv, Serve
  PROVE  AgentInv'
  <1> DEFINE c == agent.client
             i == Place(c)
  <1>1. agent.state = "reading" /\ c \in Clients
    BY DEF Serve, AgentInv, ServingInv
  <1>2. Len(sent[c]) \in Nat /\ i \in Nat
    BY <1>1, ClientFacts DEF AgentInv
  <1>3. \/ EndConnection
        \/ /\ i <= Len(sent[c]) /\ sent[c][i] \notin {"absurd", "partial"}
           /\ try_respond(sent[c][i], i)
    <2>1. ~(i > Len(sent[c])) => i <= Len(sent[c])
      BY <1>2
    <2> QED  BY <2>1, Zenon DEF Serve, Place
  <1>4. CASE EndConnection
    BY <1>4, EndStep
  <1>5. CASE /\ i <= Len(sent[c]) /\ sent[c][i] \notin {"absurd", "partial"}
             /\ try_respond(sent[c][i], i)
    BY <1>1, <1>5, RespondStep
  <1> QED  BY <1>3, <1>4, <1>5

(* The line that is read is used up with the signature it allows.          *)
LEMMA ApproveStep ==
  ASSUME AgentInv, approve
  PROVE  AgentInv'
  <1> DEFINE c == agent.client
             i == Place(c)
  <1>1. /\ agent.state = "asking" /\ c \in Clients /\ i <= Len(sent[c])
        /\ sent[c][i] = "sign"
    BY DEF approve, AgentInv, ServingInv
  <1>2. i \in Nat
    BY <1>1, ClientFacts DEF AgentInv
  <1>3. FAILURE \in Answers /\ SIGN_RESPONSE(c, i) \in Answers
    BY <1>1, <1>2, AnswersHave
  <1>4. /\ queue' = queue /\ sent' = sent /\ replies' = replies /\ typed' = typed
        /\ confirm' = confirm /\ agent'.state = "writing" /\ agent'.client = c
        /\ agent'.reply \in {FAILURE, SIGN_RESPONSE(c, i)}
    BY DEF approve, clients, Doing, Place
  <1>5. ClientsInv' /\ ServingInv'
    <2>1. Matches(sent[c][i], c, i, agent'.reply) /\ agent'.reply \in Answers
      BY <1>1, <1>3, <1>4 DEF Matches
    <2> QED  BY <1>1, <1>4, <2>1, TurnStep
  <1>6. \/ tty # <<>> /\ Head(tty) = "yes" /\ tty' = Tail(tty) /\ signed' = signed + 1
        \/ tty # <<>> /\ Head(tty) # "yes" /\ tty' = Tail(tty) /\ signed' = signed
        \/ tty' = tty /\ signed' = signed
    BY DEF approve
  <1>7. /\ tty \in Seq(Words) /\ typed \in Nat /\ signed \in Nat /\ confirm \in BOOLEAN
        /\ confirm => signed + Cardinality(YesAt(tty)) <= typed
    BY DEF AgentInv, YesInv
  <1>8. YesInv'
    <2>1. CASE tty # <<>> /\ tty' = Tail(tty)
      <3> DEFINE old == Cardinality(YesAt(tty))
                 new == Cardinality(YesAt(tty'))
      <3>1. /\ tty' \in Seq(Words) /\ old = new + (IF Head(tty) = "yes" THEN 1 ELSE 0)
        BY <1>7, <2>1, YesTail
      <3>2. old \in Nat /\ new \in Nat
        BY <1>7, <3>1, YesFinite
      <3>3. signed' \in Nat /\ (confirm' => signed' + new <= typed')
        <4> HIDE DEF old, new
        <4>1. CASE Head(tty) = "yes" /\ signed' = signed + 1
          <5>1. confirm => signed + old <= typed
            BY <1>7 DEF old
          <5> QED  BY <1>4, <1>7, <3>1, <3>2, <4>1, <5>1
        <4>2. CASE signed' = signed
          <5>1. confirm => signed + old <= typed
            BY <1>7 DEF old
          <5> QED  BY <1>4, <1>7, <3>1, <3>2, <4>2, <5>1
        <4> QED  BY <1>6, <4>1, <4>2
      <3> QED  BY <1>4, <1>7, <3>1, <3>3 DEF YesInv
    <2>2. CASE tty' = tty /\ signed' = signed
      BY <1>4, <1>7, <2>2 DEF YesInv
    <2> QED  BY <1>6, <2>1, <2>2
  <1> QED  BY <1>5, <1>8 DEF AgentInv

LEMMA WriteStep ==
  ASSUME AgentInv, WriteReply
  PROVE  AgentInv'
  <1> DEFINE c == agent.client
             i == Place(c)
             more == Append(replies[c], agent.reply)
  <1>1. CASE EndConnection
    BY <1>1, EndStep
  <1>2. CASE ~EndConnection
    <2>1. /\ agent.state = "writing" /\ replies' = [replies EXCEPT ![c] = more]
          /\ agent'.state = "reading" /\ agent'.client = c
          /\ queue' = queue /\ sent' = sent
          /\ tty' = tty /\ typed' = typed /\ signed' = signed /\ confirm' = confirm
      BY <1>2 DEF WriteReply, Doing, terminal
    <2>2. /\ c \in Clients /\ i <= Len(sent[c]) /\ agent.reply \in Answers
          /\ Matches(sent[c][i], c, i, agent.reply)
      BY <2>1 DEF AgentInv, ServingInv
    <2>3. replies[c] \in Seq(Answers) /\ Len(replies[c]) \in Nat
      BY <2>2, ClientFacts DEF AgentInv
    <2>4. /\ more \in Seq(Answers) /\ Len(more) = i /\ more[i] = agent.reply
          /\ \A j \in 1..Len(replies[c]) : more[j] = replies[c][j]
      BY <2>2, <2>3, AppendProperties DEF Place
    <2> HIDE DEF more
    <2>5. /\ queue \in Seq(Clients) /\ sent \in [Clients -> Seq(Requests)]
          /\ replies \in [Clients -> Seq(Answers)]
          /\ \A d \in Clients : Len(replies[d]) <= Len(sent[d])
          /\ \A d \in Clients : \A j \in 1..Len(replies[d]) :
               Matches(sent[d][j], d, j, replies[d][j])
      BY DEF AgentInv, ClientsInv
    <2>6. replies' \in [Clients -> Seq(Answers)] /\ replies'[c] = more
          /\ \A d \in Clients : d # c => replies'[d] = replies[d]
      BY <2>1, <2>2, <2>4, <2>5
    <2>7. \A d \in Clients : Len(replies'[d]) <= Len(sent'[d])
      BY <2>1, <2>2, <2>4, <2>5, <2>6
    <2>8. ASSUME NEW d \in Clients, NEW j \in 1..Len(replies'[d])
          PROVE  Matches(sent'[d][j], d, j, replies'[d][j])
      <3>1. CASE d # c
        BY <2>1, <2>5, <2>6, <3>1
      <3>2. CASE d = c /\ j # i
        <4>1. j \in 1..Len(replies[c]) /\ replies'[d][j] = replies[c][j]
          BY <2>3, <2>4, <2>6, <3>2 DEF Place
        <4> QED  BY <2>1, <2>2, <2>5, <3>2, <4>1
      <3>3. CASE d = c /\ j = i
        BY <2>1, <2>2, <2>4, <2>6, <3>3
      <3> QED  BY <3>1, <3>2, <3>3
    <2>9. ClientsInv'
      BY <2>1, <2>5, <2>6, <2>7, <2>8 DEF ClientsInv
    <2>10. ServingInv'
      BY <2>1, <2>2 DEF ServingInv
    <2> QED  BY <2>1, <2>9, <2>10, YesStays DEF AgentInv
  <1> QED  BY <1>1, <1>2

LEMMA ComingStep ==
  ASSUME AgentInv, NEW c \in Clients, Connect(c) \/ Hangup(c)
  PROVE  AgentInv'
  <1>1. /\ agent' = agent /\ sent' = sent /\ replies' = replies
        /\ tty' = tty /\ typed' = typed /\ signed' = signed /\ confirm' = confirm
    BY DEF Connect, Hangup, terminal
  <1>2. queue' = queue \/ queue' = Append(queue, c)
    BY DEF Connect, Hangup
  <1>3. queue' \in Seq(Clients)
    <2>1. queue \in Seq(Clients)
      BY DEF AgentInv, ClientsInv
    <2>2. Append(queue, c) \in Seq(Clients)
      BY <2>1, AppendProperties
    <2> QED  BY <1>2, <2>1, <2>2
  <1>4. ClientsInv'
    BY <1>1, <1>3, ClientsStay DEF AgentInv
  <1>5. ServingInv' /\ YesInv'
    BY <1>1 DEF AgentInv, ServingInv, YesInv, Place
  <1> QED  BY <1>4, <1>5 DEF AgentInv

LEMMA SendStep ==
  ASSUME AgentInv, NEW c \in Clients, NEW request \in Requests, Send(c, request)
  PROVE  AgentInv'
  <1> DEFINE more == Append(sent[c], request)
  <1>1. /\ agent' = agent /\ queue' = queue /\ replies' = replies
        /\ sent' = [sent EXCEPT ![c] = more]
        /\ tty' = tty /\ typed' = typed /\ signed' = signed /\ confirm' = confirm
    BY DEF Send, terminal
  <1>2. \A d \in Clients : /\ sent[d] \in Seq(Requests) /\ Len(sent[d]) \in Nat
                           /\ Len(replies[d]) \in Nat /\ Len(replies[d]) <= Len(sent[d])
                           /\ Place(d) \in Nat \ {0}
    BY ClientFacts DEF AgentInv
  <1>3. /\ more \in Seq(Requests) /\ Len(more) = Len(sent[c]) + 1
        /\ \A j \in 1..Len(sent[c]) : more[j] = sent[c][j]
    BY <1>2, AppendProperties
  <1> HIDE DEF more
  <1>4. /\ queue \in Seq(Clients) /\ sent \in [Clients -> Seq(Requests)]
        /\ replies \in [Clients -> Seq(Answers)]
        /\ \A d \in Clients : \A j \in 1..Len(replies[d]) :
             Matches(sent[d][j], d, j, replies[d][j])
    BY DEF AgentInv, ClientsInv
  <1>5. /\ sent' \in [Clients -> Seq(Requests)] /\ sent'[c] = more
        /\ \A d \in Clients : d # c => sent'[d] = sent[d]
    BY <1>1, <1>3, <1>4
  <1>6. \A d \in Clients : /\ Len(sent'[d]) \in Nat /\ Len(sent[d]) <= Len(sent'[d])
                           /\ \A j \in 1..Len(sent[d]) : sent'[d][j] = sent[d][j]
    <2>1. ASSUME NEW d \in Clients, d # c
          PROVE  sent'[d] = sent[d] /\ Len(sent[d]) \in Nat
      BY <1>2, <1>5, <2>1
    <2>2. Len(more) \in Nat /\ Len(sent[c]) <= Len(more)
      BY <1>2, <1>3
    <2> QED  BY <1>3, <1>5, <2>1, <2>2
  <1>7. ClientsInv'
    <2>1. \A d \in Clients : Len(replies'[d]) <= Len(sent'[d])
      BY <1>1, <1>2, <1>6
    <2>2. \A d \in Clients : \A j \in 1..Len(replies'[d]) :
            Matches(sent'[d][j], d, j, replies'[d][j])
      BY <1>1, <1>2, <1>4, <1>6
    <2> QED  BY <1>1, <1>4, <1>5, <2>1, <2>2 DEF ClientsInv
  <1>8. ServingInv'
    <2>1. ASSUME NEW d \in Clients, Place(d) <= Len(sent[d])
          PROVE  Place(d) <= Len(sent'[d]) /\ sent'[d][Place(d)] = sent[d][Place(d)]
      BY <1>2, <1>6, <2>1
    <2>2. \A d : Place(d)' = Place(d)
      BY <1>1 DEF Place
    <2> QED  BY <1>1, <2>1, <2>2 DEF AgentInv, ServingInv
  <1>9. YesInv'
    BY <1>1 DEF AgentInv, YesInv
  <1> QED  BY <1>7, <1>8, <1>9 DEF AgentInv

LEMMA TypeStep ==
  ASSUME AgentInv, NEW line \in Words, Type(line)
  PROVE  AgentInv'
  <1>1. /\ agent' = agent /\ confirm' = confirm /\ queue' = queue /\ sent' = sent
        /\ replies' = replies /\ signed' = signed /\ tty' = Append(tty, line)
        /\ typed' = IF line = "yes" THEN typed + 1 ELSE typed
    BY DEF Type, clients
  <1>2. ClientsInv' /\ ServingInv'
    BY <1>1 DEF AgentInv, ClientsInv, ServingInv, Place
  <1>3. /\ tty \in Seq(Words) /\ typed \in Nat /\ signed \in Nat /\ confirm \in BOOLEAN
        /\ (agent.state = "starting" => confirm)
        /\ confirm => signed + Cardinality(YesAt(tty)) <= typed
    BY DEF AgentInv, YesInv
  <1>4. YesInv'
    <2> DEFINE old == Cardinality(YesAt(tty))
               new == Cardinality(YesAt(tty'))
    <2>1. tty' \in Seq(Words)
      BY <1>1, <1>3, AppendProperties
    <2>2. new = old + (IF line = "yes" THEN 1 ELSE 0)
      BY <1>1, <1>3, YesAppend
    <2>3. old \in Nat /\ (confirm => signed + old <= typed)
      BY <1>3, YesFinite
    <2>4. typed' \in Nat /\ (confirm => signed + new <= typed')
      <3> HIDE DEF old, new
      <3> QED  BY <1>1, <1>3, <2>2, <2>3
    <2> QED  BY <1>1, <1>3, <2>1, <2>4 DEF YesInv
  <1> QED  BY <1>2, <1>4 DEF AgentInv

LEMMA LoseStep ==
  ASSUME AgentInv, LoseTerminal
  PROVE  AgentInv'
  <1>1. /\ agent' = agent /\ confirm' = confirm /\ queue' = queue /\ sent' = sent
        /\ replies' = replies /\ signed' = signed /\ typed' = typed /\ tty' = <<>>
    BY DEF LoseTerminal, clients
  <1>2. ClientsInv' /\ ServingInv'
    BY <1>1 DEF AgentInv, ClientsInv, ServingInv, Place
  <1>3. /\ tty \in Seq(Words) /\ typed \in Nat /\ signed \in Nat /\ confirm \in BOOLEAN
        /\ (agent.state = "starting" => confirm)
        /\ confirm => signed + Cardinality(YesAt(tty)) <= typed
    BY DEF AgentInv, YesInv
  <1>4. YesInv'
    <2> DEFINE old == Cardinality(YesAt(tty))
               new == Cardinality(YesAt(tty'))
    <2>1. YesAt(tty') = {} /\ tty' \in Seq(Words)
      BY <1>1 DEF YesAt
    <2>2. new = 0
      BY <2>1, FS_EmptySet
    <2>3. old \in Nat /\ (confirm => signed + old <= typed)
      BY <1>3, YesFinite
    <2>4. confirm => signed + new <= typed
      <3> HIDE DEF old, new
      <3> QED  BY <1>3, <2>2, <2>3
    <2> QED  BY <1>1, <1>3, <2>1, <2>4 DEF YesInv
  <1> QED  BY <1>2, <1>4 DEF AgentInv

LEMMA AgentStep == AgentInv /\ [NextAgent]_agentVars => AgentInv'
  <1> SUFFICES ASSUME AgentInv, [NextAgent]_agentVars PROVE AgentInv'
    OBVIOUS
  <1>1. CASE UNCHANGED agentVars
    BY <1>1 DEF agentVars, AgentInv, ClientsInv, ServingInv, YesInv, Place
  <1>2. CASE NextAgent
    <2>1. CASE \E windows, no_confirm, has_terminal \in BOOLEAN :
                 run_agent(windows, no_confirm, has_terminal)
      BY <2>1, RunStep
    <2>2. CASE Accept \/ AcceptFails
      BY <2>2, AcceptStep
    <2>3. CASE Serve \/ approve \/ WriteReply
      BY <2>3, ServeStep, ApproveStep, WriteStep
    <2>4. CASE \E c \in Clients : \/ Connect(c) \/ Hangup(c)
                                  \/ \E r \in Requests : Send(c, r)
      BY <2>4, ComingStep, SendStep
    <2>5. CASE \E line \in {"yes", "no"} : TypeWhenAsked(line) \/ TypeAhead(line)
      <3>1. PICK line \in Words : TypeWhenAsked(line) \/ TypeAhead(line)
        BY <2>5 DEF Words
      <3>2. Type(line)
        BY <3>1 DEF TypeWhenAsked, TypeAhead
      <3> QED  BY <3>2, TypeStep
    <2>6. CASE LoseTerminal
      BY <2>6, LoseStep
    <2> QED  BY <1>2, <2>1, <2>2, <2>3, <2>4, <2>5, <2>6 DEF NextAgent
  <1> QED  BY <1>1, <1>2

LEMMA AgentInvariant == SpecAgent => []AgentInv
  BY AgentInit, AgentStep, PTL DEF SpecAgent

(* One yes, one signature, for any clients, requests and lines typed.      *)
THEOREM OneYesTheorem == SpecAgent => []OneYesOneSignature
  <1>1. AgentInv => OneYesOneSignature
    <2> SUFFICES ASSUME AgentInv, confirm
                 PROVE  signed + Cardinality({i \in DOMAIN tty : tty[i] = "yes"}) <= typed
      BY DEF OneYesOneSignature
    <2>1. tty \in Seq(Words) /\ signed + Cardinality(YesAt(tty)) <= typed
      BY DEF AgentInv, YesInv
    <2>2. DOMAIN tty = 1..Len(tty)
      BY <2>1, YesFinite
    <2> QED  BY <2>1, <2>2 DEF YesAt
  <1> QED  BY <1>1, AgentInvariant, PTL

(* Every answer is for the client's own request in that place.             *)
THEOREM AnswersTheorem == SpecAgent => []AnswersMatch
  <1>1. AgentInv => AnswersMatch
    <2> SUFFICES ASSUME AgentInv, NEW c \in Clients, NEW i \in DOMAIN replies[c]
                 PROVE  Matches(sent[c][i], c, i, replies[c][i])
      BY DEF AnswersMatch, Matches
    <2>1. i \in 1..Len(replies[c])
      BY ClientFacts DEF AgentInv
    <2> QED  BY <2>1 DEF AgentInv, ClientsInv
  <1> QED  BY <1>1, AgentInvariant, PTL

=============================================================================
