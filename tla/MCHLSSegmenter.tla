---------------------------- MODULE MCHLSSegmenter ----------------------------
(* HLSSegmenter for TLC. *)
EXTENDS HLSSegmenter, TLC
==============================================================================
