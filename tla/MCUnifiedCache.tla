--------------------------- MODULE MCUnifiedCache ---------------------------
(***************************************************************************)
(* UnifiedCache with the two keys of one cluster, its extent and the hull  *)
(* the extent needs, and a result loaded from a database, in a namespace   *)
(* of its own.                                                             *)
(***************************************************************************)
EXTENDS UnifiedCache

CONSTANTS extent, hull, loaded, hulls, results

MCNamespaceOf == [k \in Keys |-> IF k = loaded THEN results ELSE hulls]
MCPart == [k \in Keys |-> IF k = extent THEN hull ELSE NoKey]
=============================================================================
