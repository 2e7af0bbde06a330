------------------------------ MODULE MCPages ------------------------------
(***************************************************************************)
(* The pages of the desktop's main window for TLC.                         *)
(***************************************************************************)
EXTENDS Pages, TLC

CONSTANTS a, b, all  \* model values: two stations, users or paths; a search

MCStations == {a, b}
MCQueries == {all}
MCMatches == [q \in MCQueries |-> MCStations]

(* "all" finds both paths, "some" one of them. *)
MCTexts == {"all", "some"}
MCFoundBy == [q \in MCTexts |-> IF q = "all" THEN {a, b} ELSE {a}]

MCBounds ==
  [podcasts |-> [same |-> 2, calls |-> 2, clicks |-> 2],
   events   |-> [same |-> 2, calls |-> 2, clicks |-> 3],
   stations |-> [same |-> 2, calls |-> 3, clicks |-> 2],
   media    |-> [same |-> 1, calls |-> 2, clicks |-> 2],
   windows  |-> [same |-> 1, calls |-> 2, clicks |-> 4]]

=============================================================================
