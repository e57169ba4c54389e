------------------------------ MODULE MCDriver ------------------------------
(***************************************************************************)
(* Driver with a pipeline of two stages, which is enough for a reset that  *)
(* has not begun, is under way and is done.                                *)
(***************************************************************************)
EXTENDS Driver
=============================================================================
