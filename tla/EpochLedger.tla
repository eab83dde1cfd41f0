---------------------------- MODULE EpochLedger ----------------------------
(***************************************************************************)
(* What an epoch chain promises, without files, processes or crashes: a    *)
(* published list of epoch keys that only grows, and the set of epochs     *)
(* whose secret its owner can still produce.  An epoch becomes readable    *)
(* when it is published and stops being readable, for good, when it is     *)
(* erased; the epoch senders are told to use is always readable.           *)
(*                                                                         *)
(* The in-memory EpochChain of crates/hide-epoch is this machine; the two  *)
(* files the command line keeps are shown to implement it in EpochFiles.   *)
(***************************************************************************)
EXTENDS Naturals, Sequences

CONSTANT Key            \* public keys; each names the secret it belongs to

VARIABLES
  published,            \* the public history: key of epoch n at index n + 1
  readable              \* the epochs (by number) whose secret is still held

vars == <<published, readable>>

Init ==
  /\ published = <<>>
  /\ readable = {}

(* EpochChain::advance: a new key is published and readable.               *)
Advance(k) ==
  /\ published' = Append(published, k)
  /\ readable' = readable \cup {Len(published)}

(* EpochChain::erase, as the command line calls it: never the current      *)
(* epoch, and only one that is still held.                                 *)
Erase(n) ==
  /\ n \in readable
  /\ n # Len(published) - 1
  /\ readable' = readable \ {n}
  /\ UNCHANGED published

Next ==
  \/ \E k \in Key : Advance(k)
  \/ \E n \in readable : Erase(n)

Spec == Init /\ [][Next]_vars
=============================================================================
