----------------------------- MODULE MCGateway -----------------------------
(* Gateway for TLC: sessions and descriptors are interchangeable.          *)
EXTENDS Gateway, TLC

Symmetry == Permutations(Sessions) \cup Permutations(Fds)
=============================================================================
