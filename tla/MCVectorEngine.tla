--------------------------- MODULE MCVectorEngine ---------------------------
(* VectorEngine for TLC: three prices, so that a level can lie between two *)
(* others in the list of levels.                                           *)
EXTENDS VectorEngine
=============================================================================
