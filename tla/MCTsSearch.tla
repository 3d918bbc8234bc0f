---------------------------- MODULE MCTsSearch -----------------------------
(***************************************************************************)
(* TsSearch with three minima, of which the second is known at first, in   *)
(* two databases of one basename.                                          *)
(***************************************************************************)
EXTENDS TsSearch

MCMinima == 1..3
MCKnown == {2}
MCHome == <<"second", "first", "first">>
MCBaseName == [db \in {"first", "second"} |-> "ga_go.db"]
=============================================================================
