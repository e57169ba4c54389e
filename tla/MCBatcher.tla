----------------------------- MODULE MCBatcher -----------------------------
(***************************************************************************)
(* TLC instance of the batcher.                                            *)
(***************************************************************************)
EXTENDS Batcher
=============================================================================
