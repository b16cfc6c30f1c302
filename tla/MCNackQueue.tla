---------------------------- MODULE MCNackQueue ----------------------------
(***************************************************************************)
(* NackQueue for TLC: a stream of a few packets whose extended sequence    *)
(* numbers cross a 2^16 boundary, so that one of them has 16-bit value 0.  *)
(***************************************************************************)
EXTENDS NackQueue

=============================================================================
