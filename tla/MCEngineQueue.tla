--------------------------- MODULE MCEngineQueue ---------------------------
(***************************************************************************)
(* EngineQueue on L1 blocks with a batch of one of two contents, or with   *)
(* a good one followed by one that the engine rejects.  The longer one of  *)
(* the gossiped blocks fills the buffer alone, and both are what the       *)
(* sequencer may build too.                                                *)
(***************************************************************************)
EXTENDS EngineQueue, FiniteSetsExt

CONSTANTS A, B, Z

MCBatches == [t \in L1Contents |-> CASE t = "a" -> <<A>>
                                     [] t = "b" -> <<B>>
                                     [] t = "bz" -> <<B, Z>>]

GossipAhead == {<<A>>, <<A, B>>}
NoGossip == {}
MCNumber == [p \in Payloads |-> Len(p)]
Size(p) == Len(p)
MCMem == [S \in SUBSET Payloads |-> MapThenSumSet(Size, S)]
=============================================================================
