---------------------------- MODULE MCDirectory ----------------------------
(***************************************************************************)
(* Directory for TLC: the threads are model values. Liveness is checked, so *)
(* there is no symmetry.                                                   *)
(*                                                                         *)
(* The questions the properties ask need one thing at a time next to the   *)
(* ingest, so TLC looks at scenes, each with every interleaving of its     *)
(* own: which URLs the feed lists, which users tag, and whether an         *)
(* administrator refreshes.                                                *)
(***************************************************************************)
EXTENDS Directory

CONSTANTS
  Jazz, JAZZ, Rock,  \* three URLs: two spellings of one, and another one
  alice, bob,        \* two users who tag,
  w1, w2,            \* the workers that serve them,
  admin              \* and one that may serve a refresh

VARIABLE scene

(* Jazz and JAZZ are equal but for their case. *)
MCUrls == {Jazz, JAZZ, Rock}
MCStationOf == [u \in MCUrls |-> IF u = Rock THEN Rock ELSE Jazz]

(* Two savers of one station; a saver and two ingesters; two ingesters and  *)
(* two stations, or two spellings; and all three URLs.                       *)
MCScenes ==
  {[urls |-> {Jazz}, users |-> {alice, bob}, workers |-> {w1, w2}, admins |-> {}],
   [urls |-> {Jazz}, users |-> {alice}, workers |-> {w1}, admins |-> {admin}],
   [urls |-> {Jazz, Rock}, users |-> {}, workers |-> {}, admins |-> {admin}],
   [urls |-> {Jazz, JAZZ}, users |-> {}, workers |-> {}, admins |-> {admin}],
   [urls |-> MCUrls, users |-> {}, workers |-> {}, admins |-> {}]}

(* What a scene leaves out does not happen: no fair action is among it. *)
InScene ==
  /\ \A u \in Urls \ scene.urls : feed[u] = "absent"
  /\ \A t \in Users \X StationIds : t[1] \notin scene.users => tags[t] = "none"
  /\ \A w \in Workers \ scene.workers : recount[w] = NoStation
  /\ \A i \in Admins \ scene.admins : cycle[i] = "idle"

MCInit == Init /\ scene \in MCScenes /\ InScene
MCNext == Next /\ UNCHANGED scene /\ InScene'
MCSpec == MCInit /\ [][MCNext]_<<vars, scene>> /\ Fairness

=============================================================================
