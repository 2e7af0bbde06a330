---------------------------- MODULE StationPages ----------------------------
(***************************************************************************)
(* The three desktop pages that share the user's list of stations: My      *)
(* Stations (desktop/src/ServersPage.cpp), Data Queue (DataQueuePage.cpp)  *)
(* and the ICY 2.2 composer (Icy22Page.cpp).                               *)
(*                                                                         *)
(* Every reply to listMyStations reaches all three, whoever asked. My      *)
(* Stations refills its table and loses the selection; Data Queue refills  *)
(* its picker, picks the former station again, and asks for the history of *)
(* each station the picker passes on the way; the composer refills its     *)
(* combo and stays at the first station, whatever was picked.              *)
(*                                                                         *)
(* A station is its place in the order of names; the history of one is the *)
(* number of its spins. What the endpoints do between their statements is  *)
(* module Stations.                                                        *)
(***************************************************************************)
EXTENDS ApiClient, FiniteSetsExt

CONSTANTS
  MaxStations,  \* bound: stations ever created
  MaxSpins,     \* bound: pushes to one station
  NoStation     \* an empty picker, no selected row, an empty history

VARIABLES
  mine,      \* the rows of stations with this user_id
  everMine,  \* the stations ever created
  spins,     \* spin_history: how many rows each station has
  list,      \* the stations the last list named: m_stations, both combos
  selected,  \* selectedStation() of My Stations
  picked,    \* m_stationPicker of Data Queue
  target,    \* m_stationCombo of the composer
  history,   \* m_history: [station, spins]
  behind     \* history: "list" or "history" after a failed request,
             \*   an overtaken reply or a push left it behind

database == <<mine, everMine, spins>>
serversPage == <<list, selected>>
dataQueuePage == <<picked, history>>
composer == <<target>>
pages == <<serversPage, dataQueuePage, composer>>
vars == <<calls, clicks, database, pages, behind>>

Ids == 1..MaxStations
Cleared == [station |-> NoStation, spins |-> 0]

List == Request("stations", NoStation)
Queue == Request("queue", NoStation)
SpinHistory(s) == Request("history", s)

(* The constructors of the three pages. *)
ServersBuilt == list = {} /\ selected = NoStation
DataQueueBuilt == picked = NoStation /\ history = Cleared
ComposerBuilt == target = NoStation

(* Each page asks for the list; MaxSame of these requests are kept.          *)
Init ==
  /\ mine \in SUBSET Ids /\ everMine = mine
  /\ spins = [s \in Ids |-> 0]
  /\ ServersBuilt /\ DataQueueBuilt /\ ComposerBuilt
  /\ behind = {}
  /\ calls = {[op |-> "stations", arg |-> NoStation, n |-> i, at |-> "sent", data |-> Unanswered]
                : i \in 1..MaxSame}
             \union {[op |-> "queue", arg |-> NoStation, n |-> 1, at |-> "sent", data |-> Unanswered]}
  /\ clicks = 0

-----------------------------------------------------------------------------
(* The user.                                                                 *)

(* ServersPage::refresh, Icy22Page::refreshStations *)
Refresh == Send({List}) /\ UNCHANGED <<pages, behind>>

(* DataQueuePage::refresh, onStationPicked *)
RefreshQueue ==
  /\ Send({List, Queue} \union (IF picked = NoStation THEN {} ELSE {SpinHistory(picked)}))
  /\ history' = IF picked = NoStation THEN Cleared ELSE history
  /\ behind' = IF picked = NoStation THEN behind ELSE behind \ {"history"}
  /\ UNCHANGED <<list, selected, picked, target>>

PickHistory(s) ==
  /\ s \in list \ {picked}
  /\ picked' = s
  /\ Send({SpinHistory(s)})
  /\ behind' = behind \ {"history"}
  /\ UNCHANGED <<list, selected, target, history>>

SelectRow(s) ==
  /\ s \in list \ {selected}
  /\ selected' = s
  /\ UNCHANGED <<calls, list, picked, target, history, behind>>

PickTarget(s) ==
  /\ s \in list \ {target}
  /\ target' = s
  /\ UNCHANGED <<calls, list, selected, picked, history, behind>>

(* What the station dialog makes of its fields (every field of the cached    *)
(* row, edited), and the composer of its four tabs: which station it is for. *)
Form(op, s) == Request(op, s)
Spin(s) == Request("push", s)

Ask(request) == Send({request}) /\ UNCHANGED <<pages, behind>>

(* onAdd, onEdit, onRemove, onPush *)
Add == Ask(Form("create", NoStation))
Edit == selected # NoStation /\ Ask(Form("update", selected))
Remove == selected # NoStation /\ Ask(Request("delete", selected))
Push == target # NoStation /\ Ask(Spin(target))

User ==
  /\ \/ Refresh \/ RefreshQueue \/ Add \/ Edit \/ Remove \/ Push
     \/ \E s \in Ids : PickHistory(s) \/ SelectRow(s) \/ PickTarget(s)
  /\ Click
  /\ UNCHANGED database

-----------------------------------------------------------------------------
(* The daemon. A refusal (403, 404, 409, 503) is RequestFails below.         *)

Told(data) == [stations |-> data, spins |-> 0]

ReadStations(c) == c.op = "stations" /\ Answer(c, Told(mine)) /\ UNCHANGED database

ReadQueue(c) == c.op = "queue" /\ Answer(c, Told({})) /\ UNCHANGED database

ReadHistory(c) ==
  /\ c.op = "history" /\ c.arg \in mine
  /\ Answer(c, [stations |-> {}, spins |-> spins[c.arg]])
  /\ UNCHANGED database

CreateStation(c) ==
  /\ c.op = "create"
  /\ Answer(c, Told({}))
  /\ \E s \in Ids \ everMine :
       mine' = mine \union {s} /\ everMine' = everMine \union {s}
  /\ UNCHANGED spins

UpdateStation(c) ==
  /\ c.op = "update" /\ c.arg \in mine
  /\ Answer(c, Told({}))
  /\ UNCHANGED database

DeleteStation(c) ==
  /\ c.op = "delete" /\ c.arg \in mine
  /\ Answer(c, Told({}))
  /\ mine' = mine \ {c.arg}
  /\ UNCHANGED <<everMine, spins>>

AcceptSpin(c) ==
  /\ c.op = "push" /\ c.arg \in mine /\ spins[c.arg] < MaxSpins
  /\ Answer(c, Told({}))
  /\ spins' = [spins EXCEPT ![c.arg] = @ + 1]
  /\ UNCHANGED <<mine, everMine>>

(* Nothing tells Data Queue of a spin.                                       *)
Serve(c) ==
  /\ \/ ReadStations(c) \/ ReadQueue(c) \/ ReadHistory(c) \/ CreateStation(c)
     \/ UpdateStation(c) \/ DeleteStation(c) \/ AcceptSpin(c)
  /\ behind' = IF c.op = "push" THEN behind \union {"history"} ELSE behind
  /\ UNCHANGED <<clicks, pages>>

-----------------------------------------------------------------------------
(* The replies.                                                              *)

(* DataQueuePage::onMyStationsReceived: clear() empties the history, the     *)
(* first addItem makes the first station current, and setCurrentIndex the    *)
(* former one, if it is still listed.                                        *)
First(stations) == IF stations = {} THEN NoStation ELSE Min(stations)
PickAgain(stations) == IF picked \in stations THEN picked ELSE First(stations)

Passed(stations) == {First(stations), PickAgain(stations)} \ {NoStation}

(* onMyStationsReceived of the three pages.                                  *)
StationsReceived(c) ==
  LET now == c.data.stations IN
  /\ c.op = "stations"
  /\ Settle(c, {SpinHistory(s) : s \in Passed(now)})
  /\ list' = now
  /\ selected' = NoStation
  /\ picked' = PickAgain(now)
  /\ target' = First(now)
  /\ history' = IF picked = NoStation THEN history ELSE Cleared
  /\ behind' = (IF now = mine THEN behind \ {"list"}
                ELSE IF list = mine THEN behind \union {"list"}
                ELSE behind) \ {"history"}

(* The test of onSpinHistoryReceived, and a mutant without it.               *)
AnyStation(s) == s \in Ids
IsPicked(s) == s = picked

HistoryReceived(c) ==
  /\ c.op = "history"
  /\ Settle(c, {})
  /\ IF IsPicked(c.arg)
     THEN /\ history' = [station |-> c.arg, spins |-> c.data.spins]
          /\ behind' = IF c.arg = picked /\ c.data.spins = spins[c.arg] THEN behind \ {"history"}
                       ELSE IF c.arg = picked THEN behind \union {"history"}
                       ELSE behind
     ELSE UNCHANGED <<history, behind>>
  /\ UNCHANGED <<list, selected, picked, target>>

(* ServersPage::onMyStationCreated, onMyStationUpdated, onMyStationDeleted.  *)
StationChanged(c) ==
  /\ c.op \in {"create", "update", "delete"}
  /\ Settle(c, {List})
  /\ UNCHANGED <<pages, behind>>

(* onNowPlayingAccepted, onSocialQueueReceived: a label, the other tab.      *)
Noted(c) ==
  /\ c.op \in {"push", "queue"}
  /\ Settle(c, {})
  /\ UNCHANGED <<pages, behind>>

Handle(c) ==
  /\ StationsReceived(c) \/ HistoryReceived(c) \/ StationChanged(c) \/ Noted(c)
  /\ UNCHANGED <<clicks, database>>

(* ServersPage::onApiError only says so.                                     *)
RequestFails(c) ==
  /\ Fail(c)
  /\ behind' = behind \union {"list", "history"}
  /\ UNCHANGED <<clicks, database, pages>>

Next ==
  \/ User
  \/ \E c \in calls : Serve(c) \/ Handle(c) \/ RequestFails(c)

Spec == Init /\ [][Next]_vars

-----------------------------------------------------------------------------
(* Properties.                                                               *)

(* Types of the tables and the pages.                                        *)
TypeOK ==
  /\ mine \subseteq everMine /\ everMine \subseteq Ids
  /\ spins \in [Ids -> 0..MaxSpins]
  /\ list \subseteq everMine
  /\ {selected, picked, target} \subseteq list \union {NoStation}
  /\ history \in [station : Ids \union {NoStation}, spins : Nat]
  /\ behind \subseteq {"list", "history"}

(* The shared list is up to date or about to be, and the history Data Queue  *)
(* shows is the picked station's latest or about to be, unless a request     *)
(* failed, a reply was overtaken or a spin came after it: although another   *)
(* page's refresh empties the picker, walks it back and drops the history    *)
(* under the user (DataQueuePage.cpp:71-125, ServersPage.cpp:123-154).       *)
StationsExplained ==
  /\ list # mine /\ "list" \notin behind =>
       \E c \in calls : c.op \in {"create", "update", "delete"}
                        \/ (c.op = "stations" /\ (c.at = "sent" \/ c.data.stations = mine))
  /\ picked # NoStation /\ "history" \notin behind =>
       \/ history = [station |-> picked, spins |-> spins[picked]]
       \/ \E c \in calls : c.op = "history" /\ c.arg = picked

=============================================================================
