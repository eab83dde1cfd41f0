---------------------------- MODULE MCDeviceGroup ---------------------------
(* Commands differ only in what they do: exchanging processes is sound.    *)
EXTENDS DeviceGroup, TLC

ProcessSymmetry == Permutations(Processes)
=============================================================================
