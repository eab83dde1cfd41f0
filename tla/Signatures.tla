----------------------------- MODULE Signatures -----------------------------
(***************************************************************************)
(* Hybrid signatures (crates/hide-sign/src/lib.rs).  A byte string is a    *)
(* sequence of small numbers; a half of a signature is the key that made   *)
(* it and the bytes it is over.  The protocol crates sign under contexts   *)
(* of their own, applications under any other, with the same identity;     *)
(* whoever holds signatures may put halves of different ones together.     *)
(***************************************************************************)
EXTENDS Naturals, Sequences, FiniteSets, SequencesExt

CONSTANTS Seeds,
          Octets,              \* the bytes, a set of numbers
          RESERVED_CONTEXT_PREFIX,
          MAX_CONTEXT,         \* bound: length of a context
          MAX_MESSAGE,         \* bound: length of a message
          MAX_ISSUED           \* bound: signatures made

ASSUME SignaturesAssumption ==
  /\ Octets \subseteq Nat
  /\ RESERVED_CONTEXT_PREFIX \in Seq(Octets)
  /\ {MAX_CONTEXT, MAX_MESSAGE, MAX_ISSUED} \subseteq Nat

VARIABLE issued   \* what each identity signed, and for whom

-----------------------------------------------------------------------------
is_reserved_context(context) == IsPrefix(RESERVED_CONTEXT_PREFIX, context)

from_seed(seed) == [ed |-> <<seed, "ed25519">>, ml |-> <<seed, "ml-dsa-65">>]

verifying_key(identity) == [ed |-> <<"public", identity.ed>>, ml |-> <<"public", identity.ml>>]

(* Mutant of bind: the context runs into the message.                      *)
bind_concat(context, message) == context \o message

(* bind: the length of the context comes first.                            *)
bind(context, message) == <<Len(context)>> \o context \o message

sign(identity, context, message) ==
  [ed |-> [by |-> identity.ed, over |-> bind(context, message)],
   ml |-> [by |-> identity.ml, over |-> bind(context, message)]]

sign_application(identity, context, message) ==
  IF is_reserved_context(context) THEN {} ELSE {sign(identity, context, message)}

(* verify: both halves, neither alone.                                     *)
verify(key, context, message, signature) ==
  LET payload == bind(context, message)
      classical == <<"public", signature.ed.by>> = key.ed /\ signature.ed.over = payload
      quantum == <<"public", signature.ml.by>> = key.ml /\ signature.ml.over = payload
  IN classical /\ quantum

-----------------------------------------------------------------------------
Contexts == SeqOf(Octets, MAX_CONTEXT)
Messages == SeqOf(Octets, MAX_MESSAGE)

Issue(seed, context, message, to, signatures) ==
  /\ Cardinality(issued) < MAX_ISSUED
  /\ signatures # {}
  /\ issued' = issued \cup {[seed |-> seed, context |-> context, message |-> message,
                             to |-> to, signature |-> s] : s \in signatures}

(* A protocol crate signs a record of its own.                             *)
ProtocolSigns(seed, context, message) ==
  /\ is_reserved_context(context)
  /\ Issue(seed, context, message, "protocol", {sign(from_seed(seed), context, message)})

(* An application asks for a signature, through any surface.               *)
ApplicationSigns(seed, context, message) ==
  Issue(seed, context, message, "application",
        sign_application(from_seed(seed), context, message))

SignInit == issued = {}

SignNext ==
  \E seed \in Seeds, context \in Contexts, message \in Messages :
    ProtocolSigns(seed, context, message) \/ ApplicationSigns(seed, context, message)

-----------------------------------------------------------------------------
(* A signature verifies only for what its holder signed: whichever halves  *)
(* of the signatures made are put together, they verify under a key, a     *)
(* context and a message only when that identity signed exactly these, and *)
(* under a reserved context only when a protocol crate asked (bind,        *)
(* verify, sign_application).                                              *)
OnlyWhatWasSigned ==
  \A a, b \in issued, seed \in Seeds, context \in Contexts, message \in Messages :
    verify(verifying_key(from_seed(seed)), context, message,
           [ed |-> a.signature.ed, ml |-> b.signature.ml]) =>
      \E r \in issued : /\ r.seed = seed /\ r.context = context /\ r.message = message
                        /\ is_reserved_context(context) => r.to = "protocol"

=============================================================================
