-------------------------- MODULE IdentityBindings --------------------------
(***************************************************************************)
(* What a relying party believes of an identity it knows only by a pinned  *)
(* root: the recovery key the founder signed, the log replayed under it,   *)
(* and the epoch chains its devices vouch for                              *)
(* (crates/hide-identity/src/bindings.rs, over IdentityLog).               *)
(*                                                                         *)
(* A valid list of epoch records is one value of Chains: its head and its  *)
(* length follow from it.  The list the party was sent is the one being    *)
(* replayed in IdentityLog.                                                *)
(***************************************************************************)
EXTENDS IdentityLog

CONSTANTS
  Chains,              \* epoch chains, each a valid, non-empty list of records
  MaxBindings          \* bound on the bindings of each kind in a behaviour

ASSUME BindingBound == MaxBindings \in Nat

VARIABLES
  recoveryBindings,    \* every RecoveryBinding signed so far
  epochBindings,       \* every EpochBinding signed so far
  pin,                 \* the root the relying party trusts; 0 before it has one
  trusted              \* the log verify_pinned returned to it last

bindings == <<recoveryBindings, epochBindings>>
party == <<pin, trusted>>
allVars == <<vars, bindings, party>>

RecoveryBinding == [root : Nat, key : Keys, by : Keys]
EpochBinding == [root : Nat, head : Nat, chain : Chains, signer : Keys, by : Keys]

(* IdentityLog as verify_pinned returns it, with what it replays to.       *)
NoLog == [entries |-> <<>>, recovery |-> under, members |-> NoMembership]

founder_key(l) == signed[l[1]].device

-----------------------------------------------------------------------------
InitBindings ==
  /\ Init
  /\ recoveryBindings = {}
  /\ epochBindings = {}
  /\ pin = 0
  /\ trusted = NoLog

(* RecoveryBinding::create: the founding device signs the recovery key its *)
(* copy of the log was made or loaded with.                                *)
BindRecovery(h, k) ==
  /\ k \in KeysOf[h]
  /\ log[h] # <<>> /\ k = founder_key(log[h])
  /\ Cardinality(recoveryBindings) < MaxBindings
  /\ recoveryBindings' = recoveryBindings \cup
       {[root |-> log[h][1], key |-> recovery[h], by |-> k]}
  /\ UNCHANGED <<vars, epochBindings, party>>

(* EpochBinding::create: a device trusted now signs the head and the       *)
(* chain as they stand.                                                    *)
BindEpoch(h, k, c) ==
  /\ k \in KeysOf[h]
  /\ log[h] # <<>> /\ k \in devices(view[h])
  /\ Cardinality(epochBindings) < MaxBindings
  /\ epochBindings' = epochBindings \cup
       {[root |-> log[h][1], head |-> LastLink(log[h]), chain |-> c,
         signer |-> k, by |-> k]}
  /\ UNCHANGED <<vars, recoveryBindings, party>>

(* A key outside the program signs any binding whatever.                   *)
RogueBindsRecovery(k) ==
  /\ Cardinality(recoveryBindings) < MaxBindings
  /\ \E root \in 1..Len(signed), r \in RecoveryKeys :
       recoveryBindings' = recoveryBindings \cup {[root |-> root, key |-> r, by |-> k]}
  /\ UNCHANGED <<vars, epochBindings, party>>

RogueBindsEpoch(k) ==
  /\ Cardinality(epochBindings) < MaxBindings
  /\ \E root, head \in 1..Len(signed), c \in Chains, s \in Keys :
       epochBindings' = epochBindings \cup
         {[root |-> root, head |-> head, chain |-> c, signer |-> s, by |-> k]}
  /\ UNCHANGED <<vars, recoveryBindings, party>>

(* The relying party learns the root once, from a contact card.            *)
Pin(h) ==
  /\ pin = 0 /\ log[h] # <<>>
  /\ pin' = log[h][1]
  /\ UNCHANGED <<vars, bindings, trusted>>

(* Mutant of verifies_pinned: the founder's signature is not checked.      *)
verifies_pinned_unsigned(b) ==
  /\ b.root = pin
  /\ seen # <<>> /\ seen[1] = b.root
  /\ under = b.key

(* RecoveryBinding::verify_pinned: the binding names the pinned root, the  *)
(* list starts at it, the founder signed the binding, and the list         *)
(* replayed to its end under the bound key.                                *)
verifies_pinned(b) ==
  /\ b.root = pin
  /\ seen # <<>> /\ seen[1] = b.root
  /\ b.by = founder_key(seen)
  /\ under = b.key

Accept(b) ==
  /\ verifies_pinned(b)
  /\ trusted' = [entries |-> seen, recovery |-> under, members |-> membership]
  /\ UNCHANGED <<vars, bindings, pin>>

(* Mutant of verifies_epoch: trust at the bound head is enough.            *)
verifies_epoch_once(b, c) ==
  /\ trusted.entries # <<>>
  /\ b.root = trusted.entries[1]
  /\ \E i \in 1..Len(trusted.entries) : trusted.entries[i] = b.head
  /\ c = b.chain
  /\ trusted.members.enrolled[b.signer] + trusted.members.revoked[b.signer] # 0
  /\ b.by = b.signer

(* EpochBinding::verify, against the trusted log and a chain in hand.      *)
verifies_epoch(b, c) ==
  /\ trusted.entries # <<>>
  /\ b.root = trusted.entries[1]
  /\ \E i \in 1..Len(trusted.entries) : trusted.entries[i] = b.head
  /\ c = b.chain
  /\ b.signer \in devices(trusted.members)
  /\ b.by = b.signer

BindStep ==
  \/ \E h \in Holders, k \in Keys : BindRecovery(h, k)
  \/ \E h \in Holders, k \in Keys, c \in Chains : BindEpoch(h, k, c)
  \/ \E k \in Rogues : RogueBindsRecovery(k)
  \/ \E k \in Rogues : RogueBindsEpoch(k)
  \/ \E h \in Holders : Pin(h)
  \/ \E b \in recoveryBindings : Accept(b)

NextBindings == (Next /\ UNCHANGED <<bindings, party>>) \/ BindStep

SpecBindings == InitBindings /\ [][NextBindings]_allVars

-----------------------------------------------------------------------------
PlaceOf(x) == CHOOSE i \in 1..Len(trusted.entries) : trusted.entries[i] = x

(* A chain the relying party believes was vouched for by a device that the *)
(* party's own log adds and has not removed since; and, if that device's   *)
(* key is in honest hands, the history it was signed at is a beginning of  *)
(* the party's log in which the device was trusted too.                    *)
ChainIsVouched ==
  \A b \in epochBindings : verifies_epoch(b, b.chain) =>
    /\ TrustedAt(signed, trusted.entries, Len(trusted.entries) + 1, b.signer)
    /\ b.signer \notin Rogues =>
         TrustedAt(signed, trusted.entries, PlaceOf(b.head) + 1, b.signer)

(* "A forger would need the founder's signature over a different key":     *)
(* while the founder's key is in honest hands, every Recover in a log the  *)
(* party accepts was signed by a recovery key that some honest copy of     *)
(* this identity was made or loaded with, however many recovery keys       *)
(* others present and whatever they append.                                *)
RecoveryIsFounders ==
  trusted.entries # <<>> /\ founder_key(trusted.entries) \notin Rogues =>
    /\ trusted.entries[1] = pin
    /\ \A i \in 1..Len(trusted.entries) :
         signed[trusted.entries[i]].kind = "recover" =>
           \E b \in recoveryBindings :
             /\ b.root = pin /\ b.by = founder_key(trusted.entries)
             /\ b.key = signed[trusted.entries[i]].by
=============================================================================
