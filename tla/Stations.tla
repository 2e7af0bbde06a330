------------------------------ MODULE Stations ------------------------------
(***************************************************************************)
(* The station endpoints of tagstackd (daemon/src/main.cpp) over the       *)
(* tables stations, now_playing and spin_history.                          *)
(*                                                                         *)
(* A worker thread of the HTTP server runs a handler as a sequence of SQL  *)
(* statements on a connection of its own. No handler opens a transaction,  *)
(* so each statement commits by itself and the steps of two handlers       *)
(* interleave between any two statements. An action below is one           *)
(* statement together with the code up to the next one. A statement may    *)
(* fail (the exception makes the handler answer 503), or commit and lose   *)
(* its result with the connection (503 again, with the effect in place),   *)
(* and the daemon may die at any point.                                    *)
(*                                                                         *)
(* The foreign keys of sql/013, sql/014 (ON DELETE CASCADE) and the        *)
(* primary keys are part of the statements that run into them. A request   *)
(* starts where require_auth has resolved the caller.                      *)
(***************************************************************************)
EXTENDS Naturals

CONSTANTS
  Users,        \* cc_user_link.user_id of the callers
  StationIds,   \* the slugs that may name a station
  Seeded,       \* the ownerless stations of sql/012
  Spins,        \* spin ids
  Workers,      \* the server's worker threads
  MaxRequests,  \* bound: how many requests arrive
  Nobody,       \* stations.user_id IS NULL
  Absent,       \* no row of that id in stations
  NoPush,       \* no row of that station in now_playing
  NoSpin,       \* the spin of a request that carries none
  NoReq         \* what an idle worker works on

Request ==
  [id : 1..MaxRequests, user : Users, station : StationIds,
   spin : Spins \union {NoSpin}]

ASSUME ConstantsAssumption ==
  /\ Seeded \subseteq StationIds
  /\ MaxRequests \in Nat
  /\ Nobody \notin Users /\ Absent \notin Users /\ Nobody # Absent
  /\ NoPush \notin Request /\ NoReq \notin Request

VARIABLES
  owner,       \* stations.user_id, or Absent
  editor,      \* who wrote the row's name, description, ... last
  nowPlaying,  \* now_playing: station_id |-> the push that wrote the row
  history,     \* spin_history: a set of rows
  nextRow,     \* AUTO_INCREMENT of spin_history.id
  pc,          \* the next statement of each worker
  req,         \* the request each worker serves
  nextReq,     \* numbers the requests
  accepted,    \* history: pushes answered 200 on the station's current row
  unconfirmed, \* history: pushes that wrote now_playing and were not answered 200
  overlapped,  \* history: stations where a push wrote now_playing while
               \*   another one had still to append its row
  claims       \* history: <<u, s>> where u created station s

tables == <<owner, editor, nowPlaying, history, nextRow>>
ghosts == <<accepted, unconfirmed, overlapped, claims>>
vars == <<tables, pc, req, nextReq, ghosts>>

Steps == {"idle", "check", "upsert", "append", "checkEdit", "edit",
          "create", "delete"}

Rows == [id : Nat, push : Request]

RowsOf(s) == {h \in history : h.push.station = s}

Exists(s) == owner[s] # Absent

InFlight(s) == \E w \in Workers : pc[w] = "append" /\ req[w].station = s

-----------------------------------------------------------------------------
Init ==
  /\ owner = [s \in StationIds |-> IF s \in Seeded THEN Nobody ELSE Absent]
  /\ editor = [s \in StationIds |-> Nobody]
  /\ nowPlaying = [s \in StationIds |-> NoPush]
  /\ history = {}
  /\ nextRow = 1
  /\ pc = [w \in Workers |-> "idle"]
  /\ req = [w \in Workers |-> NoReq]
  /\ nextReq = 1
  /\ accepted = {}
  /\ unconfirmed = {}
  /\ overlapped = {}
  /\ claims = {}

-----------------------------------------------------------------------------
(* Control of one handler. *)

Goto(w, step) ==
  /\ pc' = [pc EXCEPT ![w] = step]
  /\ req' = req

(* Mutant of Return: the worker keeps the request it has answered. *)
ReturnKeepingRequest(w) == Goto(w, "idle")

(* The handler returns, whatever the status of its answer. *)
Return(w) ==
  /\ pc' = [pc EXCEPT ![w] = "idle"]
  /\ req' = [req EXCEPT ![w] = NoReq]

Receive(w, step, spins) ==
  /\ pc[w] = "idle"
  /\ nextReq <= MaxRequests
  /\ \E u \in Users, s \in StationIds, sp \in spins :
       req' = [req EXCEPT ![w] = [id |-> nextReq, user |-> u, station |-> s,
                                  spin |-> sp]]
  /\ pc' = [pc EXCEPT ![w] = step]
  /\ nextReq' = nextReq + 1
  /\ UNCHANGED <<tables, ghosts>>

ReceivePush(w)   == Receive(w, "check", Spins)
ReceiveEdit(w)   == Receive(w, "checkEdit", {NoSpin})
ReceiveCreate(w) == Receive(w, "create", {NoSpin})
ReceiveDelete(w) == Receive(w, "delete", {NoSpin})

-----------------------------------------------------------------------------
(* PUT /api/v1/now-playing/{station} *)

(* Mutant of MayPush: the station is looked up, its owner is not compared. *)
MayPushUnchecked(r) == Exists(r.station)

(* An unowned station takes a push from anyone, an owned one from its owner. *)
MayPush(r) == Exists(r.station) /\ owner[r.station] \in {Nobody, r.user}

(* SELECT user_id FROM stations: 404, 403, or on to the writes. *)
CheckPush(w) ==
  /\ pc[w] = "check"
  /\ IF MayPush(req[w]) THEN Goto(w, "upsert") ELSE Return(w)
  /\ UNCHANGED <<tables, nextReq, ghosts>>

(* now_playing and spin_history: FOREIGN KEY (station_id) REFERENCES stations. *)
ForeignKey(s) == Exists(s)

(* Mutant of Upserted: INSERT IGNORE, the first spin stays. *)
InsertIgnored(s, r) ==
  IF nowPlaying[s] = NoPush THEN [nowPlaying EXCEPT ![s] = r] ELSE nowPlaying

(* ON DUPLICATE KEY UPDATE: the row of the station is r's, new or not. *)
Upserted(s, r) == [nowPlaying EXCEPT ![s] = r]

(* INSERT INTO now_playing ... ON DUPLICATE KEY UPDATE. The station's row    *)
(* may be gone since the check: the foreign key then refuses the row.        *)
UpsertNowPlaying(w) ==
  /\ pc[w] = "upsert"
  /\ LET r == req[w]
         s == r.station IN
     IF ForeignKey(s)
     THEN /\ nowPlaying' = Upserted(s, r)
          /\ overlapped' = IF InFlight(s) THEN overlapped \union {s} ELSE overlapped
          /\ \/ Goto(w, "append") /\ unconfirmed' = unconfirmed
             \/ Return(w) /\ unconfirmed' = unconfirmed \union {r}
     ELSE Return(w) /\ UNCHANGED <<nowPlaying, overlapped, unconfirmed>>
  /\ UNCHANGED <<owner, editor, history, nextRow, nextReq, accepted, claims>>

(* Mutant of AppendHistory: an append whose result is lost is tried again. *)
AppendHistoryAgain(w) ==
  /\ pc[w] = "append"
  /\ ForeignKey(req[w].station)
  /\ history' = history \union {[id |-> nextRow, push |-> req[w]]}
  /\ nextRow' = nextRow + 1
  /\ \/ Return(w) /\ accepted' = accepted \union {req[w]}
     \/ Goto(w, "append") /\ accepted' = accepted
  /\ UNCHANGED <<owner, editor, nowPlaying, nextReq, unconfirmed, overlapped,
                 claims>>

(* Mutant of AppendHistory: the append is best effort, as the tag recount is, *)
(* and the push is accepted whatever became of it.                           *)
AppendHistoryBestEffort(w) ==
  /\ pc[w] = "append"
  /\ Return(w)
  /\ history' = IF ForeignKey(req[w].station)
                THEN history \union {[id |-> nextRow, push |-> req[w]]}
                ELSE history
  /\ nextRow' = nextRow + 1
  /\ accepted' = accepted \union {req[w]}
  /\ UNCHANGED <<owner, editor, nowPlaying, nextReq, unconfirmed, overlapped,
                 claims>>

(* INSERT INTO spin_history, then 200; or the foreign key refuses. *)
AppendHistory(w) ==
  /\ pc[w] = "append"
  /\ Return(w)
  /\ LET r == req[w] IN
     IF ForeignKey(r.station)
     THEN /\ history' = history \union {[id |-> nextRow, push |-> r]}
          /\ nextRow' = nextRow + 1
          /\ \/ accepted' = accepted \union {r} /\ unconfirmed' = unconfirmed
             \/ accepted' = accepted /\ unconfirmed' = unconfirmed \union {r}
     ELSE /\ unconfirmed' = unconfirmed \union {r}
          /\ UNCHANGED <<history, nextRow, accepted>>
  /\ UNCHANGED <<owner, editor, nowPlaying, nextReq, overlapped, claims>>

-----------------------------------------------------------------------------
(* PUT /api/v1/me/stations/:id *)

(* SELECT user_id: 404 unless mine, 400 without an editable field. *)
CheckEdit(w) ==
  /\ pc[w] = "checkEdit"
  /\ \/ owner[req[w].station] = req[w].user /\ Goto(w, "edit")
     \/ Return(w)
  /\ UNCHANGED <<tables, nextReq, ghosts>>

(* UPDATE stations SET ... WHERE id=...: it names the id alone, and answers  *)
(* 200 also when it matched no row.                                          *)
EditStation(w) ==
  /\ pc[w] = "edit"
  /\ editor' = IF Exists(req[w].station)
               THEN [editor EXCEPT ![req[w].station] = req[w].user]
               ELSE editor
  /\ Return(w)
  /\ UNCHANGED <<owner, nowPlaying, history, nextRow, nextReq, ghosts>>

-----------------------------------------------------------------------------
(* POST /api/v1/me/stations: INSERT, the primary key decides (409). *)
CreateStation(w) ==
  /\ pc[w] = "create"
  /\ LET u == req[w].user
         s == req[w].station IN
     IF Exists(s)
     THEN UNCHANGED <<owner, editor, claims>>
     ELSE /\ owner' = [owner EXCEPT ![s] = u]
          /\ editor' = [editor EXCEPT ![s] = u]
          /\ claims' = claims \union {<<u, s>>}
  /\ Return(w)
  /\ UNCHANGED <<nowPlaying, history, nextRow, nextReq, accepted, unconfirmed,
                 overlapped>>

(* Mutant of DeleteMatches: DELETE ... WHERE id=... alone. *)
DeleteMatchesAny(s, u) == Exists(s)

(* DELETE ... WHERE id=... AND user_id=...: never a row without an owner. *)
DeleteMatches(s, u) == owner[s] = u

(* DELETE /api/v1/me/stations/:id: one statement, WHERE id AND user_id (404  *)
(* when it matched nothing), cascading to now_playing and spin_history.      *)
DeleteStation(w) ==
  /\ pc[w] = "delete"
  /\ LET s == req[w].station IN
     IF DeleteMatches(s, req[w].user)
     THEN /\ owner' = [owner EXCEPT ![s] = Absent]
          /\ editor' = [editor EXCEPT ![s] = Nobody]
          /\ nowPlaying' = [nowPlaying EXCEPT ![s] = NoPush]
          /\ history' = history \ RowsOf(s)
          /\ accepted' = {p \in accepted : p.station # s}
     ELSE UNCHANGED <<owner, editor, nowPlaying, history, accepted>>
  /\ Return(w)
  /\ UNCHANGED <<nextRow, nextReq, unconfirmed, overlapped, claims>>

-----------------------------------------------------------------------------
(* Mutant of Unconfirmed: the error of the append is swallowed. *)
AppendErrorSwallowed(ws) == unconfirmed

(* The pushes of workers ws end without a 200: those that had written        *)
(* now_playing stay unconfirmed.                                             *)
Unconfirmed(ws) ==
  unconfirmed \union {req[w] : w \in {v \in ws : pc[v] = "append"}}

(* The statement a worker is about to run throws without effect: 503. *)
StatementFails(w) ==
  /\ pc[w] # "idle"
  /\ unconfirmed' = Unconfirmed({w})
  /\ Return(w)
  /\ UNCHANGED <<tables, nextReq, accepted, overlapped, claims>>

(* The daemon dies and is started again (Restart=on-failure): the tables     *)
(* stay, every request in progress is gone and its caller saw no answer.     *)
Crash ==
  /\ \E w \in Workers : pc[w] # "idle"
  /\ pc' = [w \in Workers |-> "idle"]
  /\ req' = [w \in Workers |-> NoReq]
  /\ unconfirmed' = Unconfirmed(Workers)
  /\ UNCHANGED <<tables, nextReq, accepted, overlapped, claims>>

(* All requests of the bound are answered. *)
Quiescent ==
  /\ nextReq > MaxRequests
  /\ \A w \in Workers : pc[w] = "idle"
  /\ UNCHANGED vars

Worker(w) ==
  \/ ReceivePush(w) \/ ReceiveEdit(w) \/ ReceiveCreate(w) \/ ReceiveDelete(w)
  \/ CheckPush(w) \/ UpsertNowPlaying(w) \/ AppendHistory(w)
  \/ CheckEdit(w) \/ EditStation(w) \/ CreateStation(w) \/ DeleteStation(w)
  \/ StatementFails(w)

Next == (\E w \in Workers : Worker(w)) \/ Crash \/ Quiescent

Spec == Init /\ [][Next]_vars

-----------------------------------------------------------------------------
(* The tables hold rows of their columns' types, keys below the next         *)
(* AUTO_INCREMENT, and a worker has a request exactly while it serves one    *)
(* (main.cpp:374-522, 1405-1608).                                            *)
TypeOK ==
  /\ owner \in [StationIds -> Users \union {Nobody, Absent}]
  /\ editor \in [StationIds -> Users \union {Nobody}]
  /\ nowPlaying \in [StationIds -> Request \union {NoPush}]
  /\ history \subseteq Rows
  /\ nextRow \in Nat \ {0}
  /\ pc \in [Workers -> Steps]
  /\ req \in [Workers -> Request \union {NoReq}]
  /\ nextReq \in 1..MaxRequests + 1
  /\ accepted \subseteq Request
  /\ unconfirmed \subseteq Request
  /\ overlapped \subseteq StationIds
  /\ claims \subseteq Users \X StationIds
  /\ \A w \in Workers : pc[w] = "idle" <=> req[w] = NoReq

(* What a station row's children need: rows of now_playing and spin_history  *)
(* belong to a station that exists, in every interleaving of a delete with   *)
(* the two inserts of a push (main.cpp:495, 508, 1590; sql/013, sql/014).     *)
NoOrphanRows ==
  /\ \A s \in StationIds : nowPlaying[s] # NoPush => Exists(s)
  /\ \A h \in history : Exists(h.push.station)

Entitled(u, s) == s \in Seeded \/ <<u, s>> \in claims

(* Whatever races with the ownership checks at main.cpp:454 and 1531,         *)
(* nothing is ever written to a station by a user who never owned it: the    *)
(* window lets a former owner write, nobody else.                            *)
WritersWereOwners ==
  /\ \A s \in StationIds :
       /\ nowPlaying[s] # NoPush => Entitled(nowPlaying[s].user, s)
       /\ editor[s] # Nobody => Entitled(editor[s], s)
  /\ \A h \in history : Entitled(h.push.user, h.push.station)

(* No spin goes missing from the log silently: the push shown in now_playing *)
(* has its row in spin_history, or is about to append it, or its caller was  *)
(* not told that it was accepted (main.cpp:495-519).                          *)
CurrentSpinAccountedFor ==
  \A s \in StationIds : nowPlaying[s] # NoPush =>
    \/ \E h \in history : h.push = nowPlaying[s]
    \/ \E w \in Workers : pc[w] = "append" /\ req[w] = nowPlaying[s]
    \/ nowPlaying[s] \in unconfirmed

(* A request leaves at most one row in spin_history: doubles come from       *)
(* callers that repeat a push, never from the daemon (main.cpp:508).         *)
OneRowPerPush ==
  \A g, h \in history : g.push.id = h.push.id => g = h

(* An accepted push has its row for as long as its station lives             *)
(* (main.cpp:508-515).                                                       *)
AcceptedIsLogged ==
  \A p \in accepted : \E h \in history : h.push = p

(* The newest row of a station's log is what now_playing shows, once no push *)
(* of the station is in progress, unless two of its pushes overlapped        *)
(* between their statements or one of them was not confirmed                 *)
(* (main.cpp:495 and 508: two statements, no transaction).                   *)
LogFollowsAir ==
  \A s \in StationIds :
    \/ nowPlaying[s] = NoPush
    \/ InFlight(s)
    \/ s \in overlapped
    \/ \E p \in unconfirmed : p.station = s
    \/ \E h \in history : /\ h.push = nowPlaying[s]
                          /\ \A g \in RowsOf(s) : g.id <= h.id

(* The handlers implement StationService.                                    *)
Journal ==
  [s \in StationIds |-> {h.push : h \in RowsOf(s)}]

Service == INSTANCE StationService WITH
  Pushes <- Request, onAir <- nowPlaying, journal <- Journal

ImplementsService == Service!ASpec

-----------------------------------------------------------------------------
(* main.cpp:372: "only the station's owner can push, or anyone if the        *)
(* station has no owner". The check and the write are two statements: the    *)
(* station can be deleted and taken by another user between them.            *)
OnlyOwnerPushes ==
  \A s \in StationIds :
    nowPlaying[s] # NoPush /\ owner[s] # Nobody => nowPlaying[s].user = owner[s]

-----------------------------------------------------------------------------
(* The inductive invariant behind the properties above: what holds in the    *)
(* middle of the handlers.                                                   *)

Busy(w) == pc[w] # "idle"

OwnersOnRecord ==
  \A s \in StationIds :
    /\ owner[s] = Nobody => s \in Seeded
    /\ owner[s] \in Users => <<owner[s], s>> \in claims

WritingHandlersEntitled ==
  \A w \in Workers : pc[w] \in {"upsert", "append", "edit"} =>
    Entitled(req[w].user, req[w].station)

RequestsNumbered ==
  /\ \A w \in Workers : Busy(w) => req[w].id < nextReq
  /\ \A v, w \in Workers :
       Busy(v) /\ Busy(w) /\ req[v].id = req[w].id => v = w
  /\ \A h \in history : h.push.id < nextReq
  /\ \A w \in Workers, h \in history : Busy(w) => h.push.id # req[w].id

RowsNumbered == \A h \in history : h.id < nextRow

PlayingInPlace ==
  \A s \in StationIds : nowPlaying[s] # NoPush => nowPlaying[s].station = s

(* On a station without overlaps and unconfirmed pushes, only the push that  *)
(* is playing can still have its row to append.                              *)
AppenderIsCurrent ==
  \A s \in StationIds, w \in Workers :
    /\ nowPlaying[s] # NoPush /\ s \notin overlapped
    /\ \A p \in unconfirmed : p.station # s
    /\ pc[w] = "append" /\ req[w].station = s
    => req[w] = nowPlaying[s]

=============================================================================
