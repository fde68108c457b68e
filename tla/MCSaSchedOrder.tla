--------------------------- MODULE MCSaSchedOrder ----------------------------
(***************************************************************************)
(* SaSchedOrder with two banks: a load, an EX that reads its bank, a store *)
(* of the EX's result, and an invalid command.                             *)
(***************************************************************************)
EXTENDS SaSchedOrder

MCBank == {"spad", "acc"}

C(eng, r, w) == [eng |-> eng, ok |-> TRUE, code |-> "none", r |-> r, w |-> w]

MCCmd ==
    { C("LD", {}, {"spad"}),
      C("ST", {"acc"}, {}),
      C("EX", {"spad"}, {"acc"}),
      [eng |-> "EX", ok |-> FALSE, code |-> "RANGE", r |-> {}, w |-> {}] }

=============================================================================
