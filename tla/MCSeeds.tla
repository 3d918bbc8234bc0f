------------------------------ MODULE MCSeeds ------------------------------
(***************************************************************************)
(* Seeds for Pt2Au and Pt3Au from two databases: one of Pt2, with two      *)
(* minima of one shape in one energy bin and a linear one, and one of      *)
(* Pt2Au, a seed for the larger target and an exact match for the smaller. *)
(***************************************************************************)
EXTENDS Seeds

Comp(pt, au) == [e \in {"Pt", "Au"} |-> IF e = "Pt" THEN pt ELSE au]

MCDatabases == {"pair", "triple"}
MCPathComposition ==
  [db \in MCDatabases |-> IF db = "pair" THEN Comp(2, 0) ELSE Comp(2, 1)]
MCFindable ==
  [db \in MCDatabases |->
     IF db = "pair"
       THEN {[comp |-> Comp(2, 0), energy |-> 1, shape |-> 1],
             [comp |-> Comp(2, 0), energy |-> 2, shape |-> 1],
             [comp |-> Comp(2, 0), energy |-> 4, shape |-> 2]}
       ELSE {[comp |-> Comp(2, 1), energy |-> 1, shape |-> 1]}]
MCGoals == {Comp(2, 1), Comp(3, 1)}
=============================================================================
