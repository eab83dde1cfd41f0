--------------------------- MODULE MCWitnessedLog ---------------------------
(* WitnessedLog for TLC.  The operator runs the log the clients expect    *)
(* and another one under the same key.  The clients list an honest         *)
(* witness, one that signs anything and is listed twice, and the log.      *)
EXTENDS WitnessedLog

AnIdentity == identity_leaf("root", "recovery", "head", 1)

AnEpoch == epoch_leaf("root", "head", 1)

MCEntries == [log |-> <<{AnIdentity}, {AnIdentity, AnEpoch}, {AnIdentity, AnEpoch}, {AnEpoch}>>,
              other |-> <<{AnEpoch}>>]

MCWitnesses == <<[name |-> "rogue", key |-> "rogue key"],
                 [name |-> "log", key |-> "log key"],
                 [name |-> "honest", key |-> "honest key"],
                 [name |-> "rogue", key |-> "rogue key"]>>
=============================================================================
