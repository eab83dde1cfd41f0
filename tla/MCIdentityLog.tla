--------------------------- MODULE MCIdentityLog ----------------------------
(* IdentityLog for TLC.  Alice has the laptop and the offline recovery     *)
(* key; Bob's program has the phone, and the phone's key is stolen too.    *)
EXTENDS IdentityLog

CONSTANTS alice, bob, laptop, phone, offline

MCKeysOf == [h \in Holders |-> IF h = alice THEN {laptop, offline} ELSE {phone}]
=============================================================================
