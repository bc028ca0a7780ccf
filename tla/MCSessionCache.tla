--------------------------- MODULE MCSessionCache ---------------------------
(***************************************************************************)
(* Small instances of SessionCache for TLC.                                *)
(***************************************************************************)
EXTENDS SessionCache, TLC

Symmetry == Permutations(Readers) \cup Permutations(Deleters)

=============================================================================
