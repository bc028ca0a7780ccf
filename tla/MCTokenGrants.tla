--------------------------- MODULE MCTokenGrants ---------------------------
(***************************************************************************)
(* Small instances of TokenGrants for TLC.                                 *)
(***************************************************************************)
EXTENDS TokenGrants, TLC

\* Tokens are minted in a fixed order, so only the handlers are symmetric.
Symmetry == Permutations(Tasks)

=============================================================================
