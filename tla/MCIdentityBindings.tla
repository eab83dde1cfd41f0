------------------------- MODULE MCIdentityBindings -------------------------
(* Instances of IdentityBindings for TLC: one holder with the keys the     *)
(* instance gives it, and a relying party.                                 *)
EXTENDS IdentityBindings

CONSTANTS alice, laptop, phone, offline, chain1, HeldKeys

MCKeysOf == [h \in Holders |-> HeldKeys]
=============================================================================
