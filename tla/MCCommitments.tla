--------------------------- MODULE MCCommitments ---------------------------
(***************************************************************************)
(* Commitments with one verifier, a proposer that commits, another account *)
(* that may become the block signer, and two blocks, so that payloads can  *)
(* arrive out of order.  op-node gives every block the fee vault as fee    *)
(* recipient.                                                              *)
(***************************************************************************)
EXTENDS Commitments
=============================================================================
