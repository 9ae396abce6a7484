--------------------------- MODULE MC_SsetIndex ---------------------------
(***************************************************************************)
(* SsetIndex for TLC: three keys, one entry per key; scores 0..1 in the  *)
(* passing run, 0..2 in the violation runs.                               *)
(***************************************************************************)
EXTENDS SsetIndex

MCKeys == 1..3
MCScores == 0..2
MCDeltas == {-1, 1}
MCScoresSmall == 0..1
MCNodes == 1..3

=============================================================================
