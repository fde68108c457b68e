------------------------------- MODULE MCSaDma -------------------------------
(***************************************************************************)
(* Programs for SaDma: two lanes per beat, two beats per burst, a page of  *)
(* eight lanes.  The commands start at odd and even lanes, cross pages,    *)
(* have rows that end in the middle of a beat or of a word.                *)
(***************************************************************************)
EXTENDS SaDma

C(eng, mode, ddr, rows, len, pitch, lpw) ==
    [eng |-> eng, mode |-> mode, ddr |-> ddr, word |-> 1, rows |-> rows, len |-> len,
     pitch |-> pitch, lpw |-> lpw]

Load(ddr, rows, len, pitch, lpw) == C("LD", "LINEAR", ddr, rows, len, pitch, lpw)
Strips(ddr, rows, len, pitch, lpw) == C("LD", "INTERLEAVE", ddr, rows, len, pitch, lpw)
Gemv(ddr, rows, len, pitch) == C("LD", "GEMV", ddr, rows, len, pitch, 2)
Store(ddr, rows, len, pitch, lpw) == C("ST", "LINEAR", ddr, rows, len, pitch, lpw)

MCPrograms ==
    { <<Load(5, 2, 4, 4, 2), Load(0, 2, 3, 5, 2)>>,     \* flat over a page; odd rows
      <<Load(1, 1, 5, 0, 1)>>, <<Load(3, 1, 14, 0, 4)>>,        \* full queues
      <<Strips(1, 2, 4, 6, 2), Load(2, 1, 2, 2, 2)>>,
      <<Gemv(4, 2, 6, 8), Load(1, 1, 2, 0, 4)>>,
      <<Store(5, 2, 4, 4, 2), Store(0, 2, 3, 5, 2)>>,
      <<Store(1, 1, 5, 0, 1)>>, <<Store(3, 1, 14, 0, 4)>> }

=============================================================================
