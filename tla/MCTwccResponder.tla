-------------------------- MODULE MCTwccResponder --------------------------
(***************************************************************************)
(* TwccResponder for TLC.  The batch thresholds of Push are scaled down   *)
(* from 20 and 100 to MinBatch and MaxBatch of the cfg, so that a handful *)
(* of packets fills a batch; the times keep their nanosecond values.  The *)
(* stream starts three packets before the 2^16 wrap.                       *)
(***************************************************************************)
EXTENDS TwccResponder
=============================================================================
