------------------------------ MODULE MCTxMgr ------------------------------
(***************************************************************************)
(* TLC instance of the transaction manager.  One call of Send may bump its  *)
(* fee once, the other publishes the same version again.                   *)
(***************************************************************************)
EXTENDS TxMgr

CONSTANTS s1, s2

MCMaxVersions == (s1 :> 2) @@ (s2 :> 1)
=============================================================================
