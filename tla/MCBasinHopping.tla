--------------------------- MODULE MCBasinHopping ----------------------------
(***************************************************************************)
(* BasinHopping with three sound geometries and an unsound one.  The      *)
(* first two look alike and lie on both sides of a border between bins of *)
(* energy; the third looks like the second only, one tolerance above it.  *)
(***************************************************************************)
EXTENDS BasinHopping

MCEnergyOf == <<-4, -2, 0, -5>>
MCAlike == {<<g, g>> : g \in 1..4} \cup {<<1, 2>>, <<2, 1>>, <<2, 3>>, <<3, 2>>}
=============================================================================
