---------------------------- MODULE MCDataStages ----------------------------
(***************************************************************************)
(* DataStages on two channels.  The transactions: one that does not parse, *)
(* the first frame of channel a in two versions of different length, a     *)
(* channel b in one frame with the end of a, the middle of a, a later end  *)
(* of a, frames of both beyond the end of a.  A block holds up to two of   *)
(* them.  The bank is full with three frames.                              *)
(***************************************************************************)
EXTENDS DataStages

CONSTANTS a, b

F(id, n, last) == [id |-> id, number |-> n, isLast |-> last, data |-> 1]

LongFrame == [F(a, 0, FALSE) EXCEPT !.data = 2]

MCFrames ==
  {F(id, n, last) : id \in {a, b}, n \in 0 .. 2, last \in BOOLEAN} \cup {LongFrame}

MCTransactions ==
  { << >>,
    << F(a, 0, FALSE) >>,
    << LongFrame >>,
    << F(b, 0, TRUE), F(a, 1, TRUE) >>,
    << F(a, 1, FALSE) >>,
    << F(a, 2, TRUE) >>,
    << F(a, 2, FALSE), F(b, 1, FALSE) >> }

MCBlocks == {<< >>} \cup {<<t>> : t \in MCTransactions}
                   \cup (MCTransactions \X MCTransactions)
=============================================================================
