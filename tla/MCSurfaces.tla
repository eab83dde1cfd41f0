----------------------------- MODULE MCSurfaces -----------------------------
(* Two words, one of them too short, in three spellings; two processes;    *)
(* two seeds; contexts and messages of up to two bytes, a zero reserved.   *)
EXTENDS Surfaces

MCReserved == <<0>>

=============================================================================
