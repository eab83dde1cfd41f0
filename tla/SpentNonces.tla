----------------------------- MODULE SpentNonces ----------------------------
(***************************************************************************)
(* Challenge and response (crates/hide-sign/src/challenge.rs): a verifier  *)
(* issues challenges, provers answer them, and the verifier's record of    *)
(* spent nonces accepts an answer once.  The calls are made by the request *)
(* handlers of a server through the Rust API or the C ABI                  *)
(* (hide_challenge_accept); each reads the clock first and passes the time *)
(* it read, and answers may be delivered any number of times.              *)
(*                                                                         *)
(* A nonce is the number of its challenge: getrandom never repeats one.    *)
(***************************************************************************)
EXTENDS Naturals, Sequences, FiniteSets

CONSTANTS
  Workers,             \* request handlers of the verifier
  Exclusive,           \* TRUE: accept() has the record to itself (&mut self)
  LastTime,            \* u64::MAX
  Horizon,             \* bound on the clock
  Windows,             \* the values of valid_for in use
  MaxChallenges        \* bound on the challenges issued

ASSUME NonceBounds == /\ LastTime \in Nat /\ Horizon \in Nat /\ Horizon <= LastTime
                      /\ Windows \subseteq 0..LastTime
                      /\ MaxChallenges \in Nat
                      /\ Exclusive \in BOOLEAN

VARIABLES
  clock,               \* the time of day
  challenges,          \* challenges issued so far: nonce -> its fields
  answered,            \* nonces whose challenge a prover signed
  pc,                  \* where each worker is
  now,                 \* the time each worker read
  nonce,               \* the nonce of the answer each worker handles
  seen,                \* SpentNonces.seen
  accepted             \* how often each nonce was accepted

vars == <<clock, challenges, answered, pc, now, nonce, seen, accepted>>

PCs == {"idle", "timed", "inside", "push"}

Nonces == 1..MaxChallenges

Spent == [nonce : Nonces, expires : 0..LastTime]

-----------------------------------------------------------------------------
(* Mutant of expires_at: the sum wraps.                                    *)
expires_at_wraps(c) == (c.issued + c.window) % (LastTime + 1)
(* Challenge::expires_at: the sum saturates at the largest time.           *)
expires_at(c) ==
  IF c.issued + c.window > LastTime THEN LastTime ELSE c.issued + c.window

Init ==
  /\ clock = 0
  /\ challenges = <<>>
  /\ answered = {}
  /\ pc = [w \in Workers |-> "idle"]
  /\ now = [w \in Workers |-> 0]
  /\ nonce = [w \in Workers |-> 0]
  /\ seen = {}
  /\ accepted = [n \in Nonces |-> 0]

Tick ==
  /\ clock < Horizon
  /\ clock' = clock + 1
  /\ UNCHANGED <<challenges, answered, pc, now, nonce, seen, accepted>>

(* Challenge::new.                                                         *)
Issue(v) ==
  /\ Len(challenges) < MaxChallenges
  /\ challenges' = Append(challenges, [issued |-> clock, window |-> v])
  /\ UNCHANGED <<clock, answered, pc, now, nonce, seen, accepted>>

(* Challenge::answer.                                                      *)
Answer(n) ==
  /\ answered' = answered \cup {n}
  /\ UNCHANGED <<clock, challenges, pc, now, nonce, seen, accepted>>

(* The caller reads the clock.                                             *)
ReadClock(w) ==
  /\ pc[w] = "idle"
  /\ pc' = [pc EXCEPT ![w] = "timed"]
  /\ now' = [now EXCEPT ![w] = clock]
  /\ UNCHANGED <<clock, challenges, answered, nonce, seen, accepted>>

Inside(w) == pc[w] \in {"inside", "push"}

(* accept() is called with the answer to n, and returns Expired or         *)
(* NotSigned before it touches the record.                                 *)
Refuse(w, n) ==
  /\ pc[w] = "timed"
  /\ Exclusive => \A v \in Workers : ~Inside(v)
  /\ now[w] > expires_at(challenges[n]) \/ n \notin answered
  /\ pc' = [pc EXCEPT ![w] = "idle"]
  /\ UNCHANGED <<clock, challenges, answered, now, nonce, seen, accepted>>

(* accept() is called, in time and with a signature that verifies.         *)
Call(w, n) ==
  /\ pc[w] = "timed"
  /\ Exclusive => \A v \in Workers : ~Inside(v)
  /\ now[w] <= expires_at(challenges[n]) /\ n \in answered
  /\ pc' = [pc EXCEPT ![w] = "inside"]
  /\ nonce' = [nonce EXCEPT ![w] = n]
  /\ UNCHANGED <<clock, challenges, answered, now, seen, accepted>>

(* Mutant of forget_expired: a record expiring now is dropped.             *)
forget_expired_early(t) == {s \in seen : s.expires > t}
(* SpentNonces::forget_expired.                                            *)
forget_expired(t) == {s \in seen : s.expires >= t}

(* The record is pruned and searched: a nonce in it is Replayed.           *)
Scan(w) ==
  /\ pc[w] = "inside"
  /\ seen' = forget_expired(now[w])
  /\ pc' = [pc EXCEPT ![w] = IF \E s \in seen' : s.nonce = nonce[w]
                             THEN "idle" ELSE "push"]
  /\ UNCHANGED <<clock, challenges, answered, now, nonce, accepted>>

(* The nonce is spent and the answer accepted.                             *)
Push(w) ==
  /\ pc[w] = "push"
  /\ seen' = seen \cup
       {[nonce |-> nonce[w], expires |-> expires_at(challenges[nonce[w]])]}
  /\ accepted' = [accepted EXCEPT ![nonce[w]] = @ + 1]
  /\ pc' = [pc EXCEPT ![w] = "idle"]
  /\ UNCHANGED <<clock, challenges, answered, now, nonce>>

Next ==
  \/ Tick
  \/ \E v \in Windows : Issue(v)
  \/ \E n \in 1..Len(challenges) : Answer(n)
  \/ \E w \in Workers : ReadClock(w)
  \/ \E w \in Workers, n \in 1..Len(challenges) : Refuse(w, n)
  \/ \E w \in Workers, n \in 1..Len(challenges) : Call(w, n)
  \/ \E w \in Workers : Scan(w)
  \/ \E w \in Workers : Push(w)

Spec == Init /\ [][Next]_vars

-----------------------------------------------------------------------------
(* Every variable has its type.                                            *)
TypeOK ==
  /\ clock \in 0..Horizon
  /\ challenges \in Seq([issued : 0..LastTime, window : Windows])
  /\ Len(challenges) <= MaxChallenges
  /\ answered \subseteq 1..Len(challenges)
  /\ pc \in [Workers -> PCs]
  /\ now \in [Workers -> 0..Horizon]
  /\ nonce \in [Workers -> 0..Len(challenges)]
  /\ seen \subseteq Spent
  /\ accepted \in [Nonces -> Nat]

(* "Accepts an answer once": whatever is replayed and whenever, no answer  *)
(* to the same challenge is accepted twice, although the record forgets.   *)
AcceptedOnce == \A n \in Nonces : accepted[n] <= 1

(* "Entries are dropped once no live challenge could still carry them":    *)
(* when a worker has pruned the record, everything left in it is the nonce *)
(* of an accepted answer whose challenge is alive at the worker's time.    *)
RecordIsLive ==
  \A w \in Workers : pc[w] = "push" =>
    \A s \in seen : accepted[s.nonce] # 0 /\ s.expires >= now[w]

(* A challenge is alive from the moment it is issued to the end of its     *)
(* window, also where the sum of the two passes the largest time, so an    *)
(* answer given at once is never refused as expired.                       *)
AliveWhenIssued ==
  \A n \in 1..Len(challenges) :
    LET c == challenges[n] IN
    \A t \in c.issued..Horizon : t - c.issued <= c.window => t <= expires_at(c)
=============================================================================
