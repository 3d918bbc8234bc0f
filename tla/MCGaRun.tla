------------------------------- MODULE MCGaRun -------------------------------
(***************************************************************************)
(* GaRun with two geometries: a relaxation gives a poor structure, a       *)
(* better one of another geometry, or one of the best energy that fails    *)
(* validation.                                                             *)
(***************************************************************************)
EXTENDS GaRun

MCRelaxed ==
  {[score |-> 1, shape |-> 0, ok |-> TRUE],
   [score |-> 2, shape |-> 1, ok |-> TRUE],
   [score |-> 3, shape |-> 1, ok |-> FALSE]}
=============================================================================
