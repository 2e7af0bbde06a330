----------------------------- MODULE Directory -----------------------------
(***************************************************************************)
(* The station directory of tagstackd: the ingest of the casterclub YP     *)
(* feed (daemon/include/directory.hpp, the thread at main.cpp:2750 and the *)
(* admin refresh at main.cpp:2650) and the users' #hashtags on its rows    *)
(* (main.cpp:925, 1030), over directory_stations and user_station_tags.    *)
(*                                                                         *)
(* An ingest cycle reads the feed once, then runs one upsert per row and   *)
(* at the end one UPDATE that deactivates the rows not seen for the        *)
(* threshold. Every statement commits by itself; the first that throws     *)
(* ends the cycle. Tagging is an insert followed by a recount whose        *)
(* errors are swallowed.                                                   *)
(*                                                                         *)
(* Time is counted in units of the threshold's granularity: age[s] is how  *)
(* long ago last_seen_at was set, up to just beyond the threshold. The     *)
(* column is ON UPDATE CURRENT_TIMESTAMP (sql/015:29), so any UPDATE that  *)
(* changes the row and does not set it resets the age.                     *)
(*                                                                         *)
(* A row is found by its id, the SHA1 of the listen_url, or by its second  *)
(* unique key, the listen_url under a collation that ignores case          *)
(* (sql/015:34, 41): all spellings of a URL that the collation takes for   *)
(* equal share one row, which keeps the id and the listen_url of the first *)
(* that came.                                                              *)
(***************************************************************************)
EXTENDS Naturals, FiniteSets

CONSTANTS
  Urls,         \* the listen_urls of the feed, as they are spelt
  StationIds,   \* the rows of the directory, one for all spellings of a URL
  StationOf,    \* the row that the upsert of a listen_url writes
  Users,        \* the users who tag (one hashtag each: user_id, station_id, tag)
  Admins,       \* the workers that may serve an admin refresh
  Thread,       \* the ingester thread
  Workers,      \* the workers that serve tag requests
  Stale,        \* the threshold: INTERVAL 6 HOUR
  CycleTicks,   \* how much time one cycle may take
  MaxChanges,   \* bound: changes of the upstream feed
  MaxFaults,    \* bound: failing statements and crashes
  NoStation     \* what an idle worker recounts

Ingesters == Admins \union {Thread}

ASSUME DirectoryAssumption ==
  /\ Thread \notin Admins
  /\ NoStation \notin StationIds
  /\ StationOf \in [Urls -> StationIds]
  /\ Stale \in Nat /\ CycleTicks \in Nat /\ CycleTicks <= Stale
  /\ MaxChanges \in Nat /\ MaxFaults \in Nat
  /\ IsFiniteSet(Users)

VARIABLES
  feed,      \* upstream, by URL: absent, listed, or listed with an empty server_name
  row,       \* directory_stations: unknown (no row), active or inactive
  age,       \* now - last_seen_at
  tagCount,  \* tag_count_cached
  tags,      \* user_station_tags: none, public or private
  cycle,     \* per ingester: idle, rows (upserting)
  pending,   \* per ingester: its snapshot of the feed, less the rows done
  elapsed,   \* per ingester: time its cycle has taken
  recount,   \* per worker: the station whose tags it is about to recount
  since,     \* history: time since the last upsert of the station
  bumped,    \* history: last_seen_at was reset by something else since then
  lost,      \* history: a recount was lost since the last one that ran
  removed,   \* history: a tag was deleted since the last recount
  changes, faults

upstream == <<feed, changes>>
listing  == <<row, age, since, bumped>>
tagging  == <<tagCount, tags, recount, lost, removed>>
ingest   == <<cycle, pending, elapsed>>
vars == <<upstream, listing, tagging, ingest, faults>>

Listings == {"absent", "listed", "unnamed"}
Cap == Stale + 1

(* The spellings of a station's URL. *)
UrlsOf(s) == {u \in Urls : StationOf[u] = s}

(* The snapshot of an ingester that is not in a cycle. *)
NoRows == [u \in Urls |-> "absent"]

(* COUNT of user_station_tags WHERE station_id AND visibility='public' *)
Public(s) == Cardinality({u \in Users : tags[<<u, s>>] = "public"})

-----------------------------------------------------------------------------
Init ==
  /\ feed \in [Urls -> {"absent", "listed"}]
  /\ row = [s \in StationIds |-> "unknown"]
  /\ age = [s \in StationIds |-> 0]
  /\ tagCount = [s \in StationIds |-> 0]
  /\ tags = [t \in Users \X StationIds |-> "none"]
  /\ cycle = [i \in Ingesters |-> "idle"]
  /\ pending = [i \in Ingesters |-> NoRows]
  /\ elapsed = [i \in Ingesters |-> 0]
  /\ recount = [w \in Workers |-> NoStation]
  /\ since = [s \in StationIds |-> 0]
  /\ bumped = {} /\ lost = {} /\ removed = {}
  /\ changes = 0 /\ faults = 0

-----------------------------------------------------------------------------
(* The world: the upstream table changes, time passes. *)

FeedChanges ==
  /\ changes < MaxChanges
  /\ \E u \in Urls, l \in Listings : feed' = [feed EXCEPT ![u] = l]
  /\ changes' = changes + 1
  /\ UNCHANGED <<listing, tagging, ingest, faults>>

Older(n) == IF n < Cap THEN n + 1 ELSE Cap

Tick ==
  /\ \A i \in Ingesters : cycle[i] = "rows" => elapsed[i] < CycleTicks
  /\ age' = [s \in StationIds |-> IF row[s] = "unknown" THEN 0 ELSE Older(age[s])]
  /\ since' = [s \in StationIds |-> IF row[s] = "unknown" THEN 0 ELSE Older(since[s])]
  /\ elapsed' = [i \in Ingesters |->
                   IF cycle[i] = "rows" THEN elapsed[i] + 1 ELSE 0]
  /\ UNCHANGED <<upstream, row, bumped, tagging, cycle, pending, faults>>

-----------------------------------------------------------------------------
(* run_ingest *)

EndCycle(i) ==
  /\ cycle' = [cycle EXCEPT ![i] = "idle"]
  /\ pending' = [pending EXCEPT ![i] = NoRows]
  /\ elapsed' = [elapsed EXCEPT ![i] = 0]

(* The SELECT on the YP database. Its result is stored: what the feed does    *)
(* later, this cycle does not see.                                           *)
ReadFeed(i) ==
  /\ cycle[i] = "idle"
  /\ cycle' = [cycle EXCEPT ![i] = "rows"]
  /\ pending' = [pending EXCEPT ![i] = feed]
  /\ UNCHANGED <<upstream, listing, tagging, elapsed, faults>>

(* Mutant of Seen: ON DUPLICATE KEY UPDATE without active=1. *)
SeenKeepingActive(s) ==
  [row EXCEPT ![s] = IF row[s] = "unknown" THEN "active" ELSE row[s]]

(* active=1, whether the row is new or was there. *)
Seen(s) == [row EXCEPT ![s] = "active"]

(* Mutant of Upsert: REPLACE INTO deletes the old row first, and fk_ust_station *)
(* cascades to its tags.                                                     *)
ReplaceRow(i, u) ==
  LET s == StationOf[u] IN
  /\ pending[i][u] = "listed"
  /\ pending' = [pending EXCEPT ![i][u] = "absent"]
  /\ row' = Seen(s)
  /\ age' = [age EXCEPT ![s] = 0]
  /\ since' = [since EXCEPT ![s] = 0]
  /\ bumped' = bumped \ {s}
  /\ tags' = [t \in Users \X StationIds |-> IF t[2] = s THEN "none" ELSE tags[t]]
  /\ UNCHANGED <<upstream, tagCount, recount, lost, removed, cycle, elapsed, faults>>

(* INSERT INTO directory_stations ... ON DUPLICATE KEY UPDATE ...            *)
(* last_seen_at=NOW(3), active=1: the row of another spelling is updated,    *)
(* its id and listen_url are not. The tags refer to the row by its id and    *)
(* stay as they are.                                                         *)
Upsert(i, u) ==
  LET s == StationOf[u] IN
  /\ pending[i][u] = "listed"
  /\ pending' = [pending EXCEPT ![i][u] = "absent"]
  /\ row' = Seen(s)
  /\ age' = [age EXCEPT ![s] = 0]
  /\ since' = [since EXCEPT ![s] = 0]
  /\ bumped' = bumped \ {s}
  /\ UNCHANGED <<upstream, tagging, cycle, elapsed, faults>>

UpsertRow(i) == cycle[i] = "rows" /\ \E u \in Urls : Upsert(i, u)

(* An empty server_name is sent as NULL (null_or_q), the column is NOT NULL: *)
(* the statement throws and takes the rest of the cycle with it.             *)
UnnamedRow(i) ==
  /\ cycle[i] = "rows"
  /\ \E u \in Urls : pending[i][u] = "unnamed"
  /\ EndCycle(i)
  /\ UNCHANGED <<upstream, listing, tagging, faults>>

(* Any other statement of the cycle throws. *)
CycleFails(i) ==
  /\ cycle[i] = "rows"
  /\ faults < MaxFaults
  /\ faults' = faults + 1
  /\ EndCycle(i)
  /\ UNCHANGED <<upstream, listing, tagging>>

(* Mutants of Expired: the threshold one unit too short, and never met. *)
ExpiredEarly(s) == row[s] = "active" /\ age[s] >= Stale
ExpiredNever(s) == row[s] = "active" /\ age[s] > Cap

(* active=1 AND last_seen_at < NOW - threshold *)
Expired(s) == row[s] = "active" /\ age[s] > Stale

(* UPDATE ... SET active=0 WHERE Expired: last_seen_at moves with it. *)
Deactivate(i) ==
  /\ cycle[i] = "rows"
  /\ \A u \in Urls : pending[i][u] = "absent"
  /\ row' = [s \in StationIds |-> IF Expired(s) THEN "inactive" ELSE row[s]]
  /\ age' = [s \in StationIds |-> IF Expired(s) THEN 0 ELSE age[s]]
  /\ bumped' = bumped \union {s \in StationIds : Expired(s)}
  /\ EndCycle(i)
  /\ UNCHANGED <<upstream, since, tagging, faults>>

-----------------------------------------------------------------------------
(* POST and DELETE /api/v1/me/stations/:id/tags *)

(* INSERT INTO user_station_tags ... ON DUPLICATE KEY UPDATE visibility: the *)
(* foreign key wants the station's row. On to the recount, or a 503 when the *)
(* result of the insert is lost.                                             *)
SaveTag(w) ==
  /\ recount[w] = NoStation
  /\ \E u \in Users, s \in StationIds, vis \in {"public", "private"} :
       /\ row[s] # "unknown"
       /\ tags' = [tags EXCEPT ![<<u, s>>] = vis]
       /\ \/ /\ recount' = [recount EXCEPT ![w] = s]
             /\ UNCHANGED <<lost, faults>>
          \/ /\ faults < MaxFaults
             /\ faults' = faults + 1
             /\ lost' = lost \union {s}
             /\ UNCHANGED recount
  /\ UNCHANGED <<upstream, listing, tagCount, removed, ingest>>

(* Mutant of Counted: one more, instead of a recount. *)
CountedUp(s) == tagCount[s] + 1

Counted(s) == Public(s)

(* UPDATE directory_stations SET tag_count_cached = (SELECT COUNT ...): the  *)
(* subquery reads what is committed under the row's lock. A changed count    *)
(* moves last_seen_at.                                                       *)
Recount(w) ==
  /\ recount[w] # NoStation
  /\ LET s == recount[w]
         changed == Counted(s) # tagCount[s] IN
     /\ tagCount' = [tagCount EXCEPT ![s] = Counted(s)]
     /\ age' = IF changed THEN [age EXCEPT ![s] = 0] ELSE age
     /\ bumped' = IF changed THEN bumped \union {s} ELSE bumped
     /\ lost' = lost \ {s}
     /\ removed' = removed \ {s}
  /\ recount' = [recount EXCEPT ![w] = NoStation]
  /\ UNCHANGED <<upstream, row, since, tags, ingest, faults>>

(* catch (...) {}: the recount threw, the answer is 200 all the same. *)
RecountFails(w) ==
  /\ recount[w] # NoStation
  /\ faults < MaxFaults
  /\ faults' = faults + 1
  /\ lost' = lost \union {recount[w]}
  /\ recount' = [recount EXCEPT ![w] = NoStation]
  /\ UNCHANGED <<upstream, listing, tagCount, tags, removed, ingest>>

(* Mutant of DeleteTag: the cached count is decremented with the delete. *)
DeleteTagDecrementing ==
  /\ \E u \in Users, s \in StationIds :
       /\ tags[<<u, s>>] # "none"
       /\ tags' = [tags EXCEPT ![<<u, s>>] = "none"]
       /\ tagCount' = [tagCount EXCEPT ![s] = @ - 1]
  /\ UNCHANGED <<upstream, listing, recount, lost, removed, ingest, faults>>

(* DELETE FROM user_station_tags: one statement, no recount. *)
DeleteTag ==
  /\ \E u \in Users, s \in StationIds :
       /\ tags' = [tags EXCEPT ![<<u, s>>] = "none"]
       /\ removed' = IF tags[<<u, s>>] = "public" THEN removed \union {s} ELSE removed
  /\ UNCHANGED <<upstream, listing, tagCount, recount, lost, ingest, faults>>

-----------------------------------------------------------------------------
(* The daemon dies and is started again: only the tables stay. *)
Crash ==
  /\ faults < MaxFaults
  /\ faults' = faults + 1
  /\ cycle' = [i \in Ingesters |-> "idle"]
  /\ pending' = [i \in Ingesters |-> NoRows]
  /\ elapsed' = [i \in Ingesters |-> 0]
  /\ recount' = [w \in Workers |-> NoStation]
  /\ lost' = lost \union {recount[w] : w \in {v \in Workers : recount[v] # NoStation}}
  /\ UNCHANGED <<upstream, listing, tagCount, tags, removed>>

Ingester(i) ==
  ReadFeed(i) \/ UpsertRow(i) \/ UnnamedRow(i) \/ CycleFails(i) \/ Deactivate(i)

Worker(w) == SaveTag(w) \/ Recount(w) \/ RecountFails(w)

Next ==
  \/ FeedChanges \/ Tick \/ Crash \/ DeleteTag
  \/ \E i \in Ingesters : Ingester(i)
  \/ \E w \in Workers : Worker(w)

(* The thread keeps running, a refresh that was asked for runs to its end,   *)
(* and time passes. Nobody has to ask for a refresh or a tag, and nothing    *)
(* has to fail.                                                              *)
Fairness ==
  /\ WF_vars(Ingester(Thread))
  /\ \A i \in Admins : WF_vars(cycle[i] = "rows" /\ Ingester(i))
  /\ WF_vars(Tick)

Spec == Init /\ [][Next]_vars
FairSpec == Spec /\ Fairness

-----------------------------------------------------------------------------
(* Rows, tags and snapshots have the types of their columns; what is kept    *)
(* about a station without a row is nothing (directory.hpp:50-165,            *)
(* main.cpp:925-1053).                                                        *)
TypeOK ==
  /\ feed \in [Urls -> Listings]
  /\ row \in [StationIds -> {"unknown", "active", "inactive"}]
  /\ age \in [StationIds -> 0..Cap] /\ since \in [StationIds -> 0..Cap]
  /\ tagCount \in [StationIds -> Nat]
  /\ tags \in [Users \X StationIds -> {"none", "public", "private"}]
  /\ cycle \in [Ingesters -> {"idle", "rows"}]
  /\ pending \in [Ingesters -> [Urls -> Listings]]
  /\ elapsed \in [Ingesters -> 0..CycleTicks]
  /\ recount \in [Workers -> StationIds \union {NoStation}]
  /\ bumped \subseteq StationIds
  /\ lost \subseteq StationIds /\ removed \subseteq StationIds
  /\ changes \in 0..MaxChanges /\ faults \in 0..MaxFaults

(* The two-statement save keeps the cached count right unless something is   *)
(* known to have gone wrong: the count is below the public tags only while a *)
(* recount is due or after one was lost, above them only so or after a tag   *)
(* was deleted, whatever the order in which savers of one station insert and *)
(* recount (main.cpp:967-981, 1042).                                          *)
TagCountExplained ==
  \A s \in StationIds :
    \/ \E w \in Workers : recount[w] = s
    \/ s \in lost
    \/ tagCount[s] = Public(s)
    \/ tagCount[s] > Public(s) /\ s \in removed

(* A station that some cycle saw within the threshold is not deactivated,    *)
(* not even by a concurrent cycle with an older snapshot                     *)
(* (directory.hpp:156-161).                                                   *)
NoEarlyDeactivation ==
  [][\A s \in StationIds :
       row[s] = "active" /\ row'[s] = "inactive" => since[s] > Stale]_vars

(* A cycle that runs to its end leaves no station listed that was not seen   *)
(* for longer than the threshold, but for those whose row something else has *)
(* touched in the meantime (directory.hpp:159, sql/015:29).                  *)
OnlyBumpedOutlive ==
  [][\A i \in Ingesters : Deactivate(i) =>
       \A s \in StationIds \ bumped : row'[s] = "active" => since[s] <= Stale]_vars

(* Going inactive, coming back and being refreshed never costs a station the *)
(* tags users gave it: a tag goes in no step of an ingester and in none that *)
(* touches the rows (directory.hpp:157: "tagstack data survives").           *)
TagsSurviveIngest ==
  [][\A t \in Users \X StationIds :
       tags[t] # "none" /\ tags'[t] = "none" =>
         UNCHANGED <<upstream, listing, ingest>>]_vars

(* Once the feed settles without unnamed rows, the directory follows it      *)
(* (directory.hpp:40-42). A station one of whose URLs stays is listed in the *)
(* end, however its other spellings and the rest of the feed come and go. A  *)
(* station none of whose URLs comes back ends up unlisted, unless users keep *)
(* changing the number of its tags for ever: each recount that changes the   *)
(* cached number touches last_seen_at (sql/015:29-31) and puts the threshold *)
(* off again.                                                                *)
DirectoryFollowsFeed ==
  <>[](\A u \in Urls : feed[u] # "unnamed") =>
    \A s \in StationIds :
      /\ <>[](\A u \in UrlsOf(s) : feed[u] = "absent") =>
           \/ <>[](row[s] # "active")
           \/ []<><<tagCount'[s] # tagCount[s]>>_vars
      /\ (\E u \in UrlsOf(s) : <>[](feed[u] = "listed")) => <>[](row[s] = "active")

-----------------------------------------------------------------------------
(* last_seen_at is never older than the last upsert, and it is that upsert   *)
(* unless something bumped it: what relates the rows the UPDATE selects to   *)
(* the cycles that saw a station.                                            *)
SeenAtLastUpsert ==
  \A s \in StationIds :
    /\ age[s] <= since[s]
    /\ s \notin bumped => age[s] = since[s]

=============================================================================
