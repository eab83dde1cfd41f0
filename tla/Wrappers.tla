------------------------------ MODULE Wrappers ------------------------------
(***************************************************************************)
(* The Go SDK over the C ABI (sdk/go/hide.go, sdk/go/signing.go): who      *)
(* frees what the native library allocates.  An object (SecretKey,         *)
(* SigningIdentity, SpentNonces) wraps a handle; Close frees it, and a     *)
(* finalizer is there for a program that forgets.  What a call returns in  *)
(* buffers is copied and freed by take.  Goroutines call at any moment,    *)
(* and the collector runs a finalizer as soon as the program has let go of *)
(* an object, even while the last call on it is still inside the library.  *)
(***************************************************************************)
EXTENDS Naturals, FiniteSets

CONSTANTS
  Addresses,      \* of the native heap; an address may be used again once freed
  Objects,        \* places for objects of the Go program
  Goroutines,
  MAX_OUTS        \* buffers one call fills; hide_decrypt fills three

ASSUME WrappersAssumption == MAX_OUTS \in Nat

Nil == "nil"
NoObject == "none"

ASSUME WrappersNil == Nil \notin Addresses /\ NoObject \notin Objects

VARIABLES
  live,     \* addresses allocated and not freed
  handle,   \* the handle of each object, Nil once closed
  held,     \* the objects the program can reach
  calls,    \* what each goroutine is doing
  raced     \* an object was closed or finalized while the library was using its handle

wrapVars == <<live, handle, held, calls, raced>>

Call(stage, o, h, outs) == [stage |-> stage, object |-> o, handle |-> h, outs |-> outs]

Resting == Call("idle", NoObject, Nil, {})

(* The collector may not look: a goroutine that has read the handle keeps  *)
(* no reference to the object.                                             *)
InFlight(o) == \E g \in Goroutines : calls[g].stage = "native" /\ calls[g].object = o

-----------------------------------------------------------------------------
(* hide_secret_key_open, hide_signing_identity_open and                    *)
(* hide_spent_nonces_new give a handle; hide_keypair_generate also gives   *)
(* the public key in a buffer.  One that fails gives nothing.              *)
Open(g, o, outs) ==
  /\ calls[g] = Resting
  /\ handle[o] = Nil /\ o \notin held /\ \A f \in Goroutines : calls[f].object # o
  /\ \E h \in Addresses \ (live \cup outs) :
       /\ live' = live \cup outs \cup {h}
       /\ calls' = [calls EXCEPT ![g] = Call("opened", o, h, outs)]
  /\ UNCHANGED <<handle, held, raced>>

LoadKey(g, o) == Open(g, o, {})

GenerateKey(g, o) == \E b \in Addresses \ live : Open(g, o, {b})

(* wrap and wrapIdentity, once the public key has been freed.              *)
wrap(g) ==
  /\ calls[g].stage = "opened" /\ calls[g].outs = {}
  /\ handle' = [handle EXCEPT ![calls[g].object] = calls[g].handle]
  /\ held' = held \cup {calls[g].object}
  /\ calls' = [calls EXCEPT ![g] = Resting]
  /\ UNCHANGED <<live, raced>>

(* PublicKey, Protect, Decrypt, Sign, Answer and Accept read the handle    *)
(* and enter the library with it; a closed object is refused.              *)
Enter(g, o) ==
  /\ calls[g] = Resting /\ o \in held /\ handle[o] # Nil
  /\ calls' = [calls EXCEPT ![g] = Call("native", o, handle[o], {})]
  /\ UNCHANGED <<live, handle, held, raced>>

(* Encrypt, GenerateIdentity, armoring, verifying: no handle is involved.  *)
EnterAlone(g) ==
  /\ calls[g] = Resting
  /\ calls' = [calls EXCEPT ![g] = Call("native", NoObject, Nil, {})]
  /\ UNCHANGED <<live, handle, held, raced>>

(* The library returns: with its outs, or with a code and nothing written, *)
(* and then the wrapper returns too, freeing nothing.                      *)
Succeed(g) ==
  /\ calls[g].stage = "native"
  /\ \E outs \in SUBSET (Addresses \ live) :
       /\ Cardinality(outs) <= MAX_OUTS
       /\ live' = live \cup outs
       /\ calls' = [calls EXCEPT ![g] = Call("taking", NoObject, Nil, outs)]
  /\ UNCHANGED <<handle, held, raced>>

Fail(g) ==
  /\ calls[g].stage = "native"
  /\ calls' = [calls EXCEPT ![g] = Resting]
  /\ UNCHANGED <<live, handle, held, raced>>

(* take copies a buffer and hide_buffer_free returns it to the library.    *)
take(g) ==
  /\ \E b \in calls[g].outs :
       /\ live' = live \ {b}
       /\ calls' = [calls EXCEPT ![g].outs = @ \ {b}]
  /\ UNCHANGED <<handle, held, raced>>

Deliver(g) ==
  /\ calls[g].stage = "taking" /\ calls[g].outs = {}
  /\ calls' = [calls EXCEPT ![g] = Resting]
  /\ UNCHANGED <<live, handle, held, raced>>

-----------------------------------------------------------------------------
(* Mutant of Released: the object keeps the handle it has freed.           *)
Released_kept(o) ==
  /\ live' = live \ {handle[o]}
  /\ UNCHANGED handle

(* hide_secret_key_free and its like, and the handle forgotten.            *)
Released(o) ==
  /\ live' = live \ {handle[o]}
  /\ handle' = [handle EXCEPT ![o] = Nil]

(* Close; the second one does nothing.                                     *)
Close(o) ==
  /\ o \in held /\ handle[o] # Nil
  /\ Released(o)
  /\ raced' = (raced \/ InFlight(o))
  /\ UNCHANGED <<held, calls>>

(* The program lets go of an object, closed or not, and the collector runs *)
(* the finalizer that Close has not taken off.                             *)
Drop(o) ==
  /\ o \in held
  /\ held' = held \ {o}
  /\ UNCHANGED <<live, handle, calls, raced>>

Finalize(o) ==
  /\ o \notin held /\ handle[o] # Nil
  /\ Released(o)
  /\ raced' = (raced \/ InFlight(o))
  /\ UNCHANGED <<held, calls>>

WrapInit ==
  /\ live = {} /\ held = {} /\ raced = FALSE
  /\ handle = [o \in Objects |-> Nil]
  /\ calls = [g \in Goroutines |-> Resting]

WrapNext ==
  \/ \E g \in Goroutines, o \in Objects : LoadKey(g, o) \/ GenerateKey(g, o) \/ Enter(g, o)
  \/ \E g \in Goroutines :
       wrap(g) \/ EnterAlone(g) \/ Succeed(g) \/ Fail(g) \/ take(g) \/ Deliver(g)
  \/ \E o \in Objects : Close(o) \/ Drop(o) \/ Finalize(o)

-----------------------------------------------------------------------------
(* Who will free an address: an object, or a call that has yet to wrap or  *)
(* to take it.                                                             *)
Owners(x) ==
  {<<"object", o>> : o \in {o \in Objects : handle[o] = x}}
  \cup {<<"handle", g>> : g \in {g \in Goroutines :
                              calls[g].stage = "opened" /\ calls[g].handle = x}}
  \cup {<<"out", g>> : g \in {g \in Goroutines : x \in calls[g].outs}}

(* Nothing is freed twice, used after it was freed, or forgotten: every    *)
(* allocation of the library has one owner, nobody holds one that is gone, *)
(* and the library works on handles their objects still have.  It is so as *)
(* long as no object is closed or finalized under a call in flight, which  *)
(* neither Close nor the finalizer keeps from happening.                   *)
OwnedOnce ==
  ~raced =>
    /\ \A x \in live : \E w \in Owners(x) : Owners(x) = {w}
    /\ \A x \in Addresses \ live : Owners(x) = {}
    /\ \A g \in Goroutines :
         calls[g].stage = "native" /\ calls[g].object # NoObject =>
           calls[g].handle \in live /\ handle[calls[g].object] = calls[g].handle

=============================================================================
