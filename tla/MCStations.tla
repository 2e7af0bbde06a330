----------------------------- MODULE MCStations -----------------------------
(* Stations for TLC: model values, and the symmetry of those the actions     *)
(* and the properties treat alike.                                           *)
EXTENDS Stations, TLC

Symmetry == Permutations(Users) \union Permutations(Workers)

=============================================================================
