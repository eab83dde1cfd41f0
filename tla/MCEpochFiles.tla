---------------------------- MODULE MCEpochFiles ----------------------------
(* EpochFiles on small instances: one process for commands run one after   *)
(* another, two for commands that overlap.                                 *)
EXTENDS EpochFiles, TLC

(* Processes are interchangeable: nothing orders them or treats one        *)
(* differently.                                                            *)
Symmetry == Permutations(Procs)
=============================================================================
