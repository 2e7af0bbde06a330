------------------------------- MODULE Newest -------------------------------
(***************************************************************************)
(* What a SELECT ... ORDER BY time DESC LIMIT n of the daemon may return.  *)
(*                                                                         *)
(* The times of its tables are DATETIMEs, which count seconds: rows of the *)
(* same second come in any order, and which of them a limit cuts off may   *)
(* change from one SELECT to the next.                                     *)
(***************************************************************************)
EXTENDS Naturals, FiniteSets

(* The sets of n of the rows, or of all if they are fewer, such that no row  *)
(* left out is of a later second.                                            *)
Newest(rows, n) ==
  {some \in SUBSET rows :
     /\ Cardinality(some) <= n
     /\ some = rows \/ Cardinality(some) = n
     /\ \A x \in some, y \in rows \ some : y.second <= x.second}

=============================================================================
