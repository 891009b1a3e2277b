----------------------------- MODULE MCRunStream -----------------------------
(***************************************************************************)
(* RunStream for model checking: clients are alike.                        *)
(***************************************************************************)
EXTENDS RunStream, TLC

Symmetry == Permutations(Clients)
=============================================================================
