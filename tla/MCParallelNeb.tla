---------------------------- MODULE MCParallelNeb ----------------------------
(***************************************************************************)
(* ParallelNeb and SerialNeb with two bands of different size: both fit    *)
(* one chunk, which a retry splits.                                        *)
(***************************************************************************)
EXTENDS SerialNeb

MCCost == <<1, 2>>
=============================================================================
