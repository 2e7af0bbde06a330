---------------------------- MODULE MCIdentity ----------------------------
(* Identity for TLC: names are interchangeable, and so are workers.          *)
EXTENDS Identity, TLC

Symmetry == Permutations(Names) \union Permutations(Workers)

=============================================================================
