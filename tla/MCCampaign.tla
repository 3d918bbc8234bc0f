----------------------------- MODULE MCCampaign -----------------------------
(***************************************************************************)
(* Campaign with four structures: 1 and 3 look alike, 2 and 4 look alike,  *)
(* and 2 is no true minimum.                                               *)
(***************************************************************************)
EXTENDS Campaign

MCShape == <<"compact", "flat", "compact", "flat">>
MCReal == {1, 3, 4}

\* A poor minimum of each shape; then the same shapes, lower; then a poor one.
MCFinds == <<<<3, 4>>, <<2, 1>>, <<3>>>>
=============================================================================
