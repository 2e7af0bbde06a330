--------------------------- MODULE StationService ---------------------------
(***************************************************************************)
(* What the station endpoints of tagstackd promise, one atomic step per    *)
(* promise, with no handlers, no faults and no half-done requests:         *)
(*                                                                         *)
(*  - a station id is claimed only while free; an owned station may be     *)
(*    retired, a seeded one never is, and retiring takes everything        *)
(*    recorded about the station with it at once (sql/013, sql/014: ON     *)
(*    DELETE CASCADE);                                                     *)
(*  - a push goes on air only on a registered station;                     *)
(*  - the journal only grows while the station lives, holds a push at most *)
(*    once, and a push is accepted only in the step that journals it.      *)
(*                                                                         *)
(* Module Stations (the handlers, statement by statement) implements it.   *)
(***************************************************************************)

CONSTANTS
  Users,       \* cc_user_link.user_id of the callers
  StationIds,  \* the slugs that may name a station
  Seeded,      \* the ownerless stations of sql/012 (demo-station)
  Pushes,      \* the now-playing requests: records with a field station
  Nobody,      \* stations.user_id IS NULL
  Absent,      \* no row of that id
  NoPush       \* no row in now_playing

VARIABLES
  owner,       \* owner[s]: whose station s is
  onAir,       \* onAir[s]: the push shown as playing on s
  journal,     \* journal[s]: the pushes recorded for s
  accepted     \* the pushes whose callers were told "accepted"

avars == <<owner, onAir, journal, accepted>>

AInit ==
  /\ owner = [s \in StationIds |-> IF s \in Seeded THEN Nobody ELSE Absent]
  /\ onAir = [s \in StationIds |-> NoPush]
  /\ journal = [s \in StationIds |-> {}]
  /\ accepted = {}

(* POST /me/stations *)
Claim(u, s) ==
  /\ owner[s] = Absent
  /\ owner' = [owner EXCEPT ![s] = u]
  /\ UNCHANGED <<onAir, journal, accepted>>

(* DELETE /me/stations/:id *)
Retire(s) ==
  /\ owner[s] \in Users
  /\ owner' = [owner EXCEPT ![s] = Absent]
  /\ onAir' = [onAir EXCEPT ![s] = NoPush]
  /\ journal' = [journal EXCEPT ![s] = {}]
  /\ accepted' = {p \in accepted : p.station # s}

(* PUT /now-playing/:station, its two effects *)
Air(p) ==
  /\ owner[p.station] # Absent
  /\ onAir' = [onAir EXCEPT ![p.station] = p]
  /\ UNCHANGED <<owner, journal, accepted>>

Enter(p) ==
  /\ owner[p.station] # Absent
  /\ p \notin journal[p.station]
  /\ journal' = [journal EXCEPT ![p.station] = @ \union {p}]
  /\ accepted' \in {accepted, accepted \union {p}}
  /\ UNCHANGED <<owner, onAir>>

ANext ==
  \/ \E u \in Users, s \in StationIds : Claim(u, s)
  \/ \E s \in StationIds : Retire(s)
  \/ \E p \in Pushes : Air(p) \/ Enter(p)

ASpec == AInit /\ [][ANext]_avars

=============================================================================
