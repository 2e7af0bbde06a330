--------------------------- MODULE DirectoryPage ---------------------------
(***************************************************************************)
(* The desktop's directory page (desktop/src/DirectoryPage.cpp) and the    *)
(* player strip below it (MainWindow.cpp), over the daemon's directory and *)
(* tag endpoints (daemon/src/main.cpp).                                    *)
(*                                                                         *)
(* Selecting a row asks for three things at once: the station's detail, my *)
(* tags on it, its public tag cloud. The two lists accept a reply only for *)
(* the station that is current when it comes; the detail accepts any, and  *)
(* hands the stream to the player. A saved or removed tag, once confirmed, *)
(* asks for both lists again. The context menu's "Push my tags to social"  *)
(* makes a row current without asking for anything.                        *)
(*                                                                         *)
(* A station's tags are a version number; the daemon's rows behind them    *)
(* are modelled in Directory. Every row has a stream: the ingest takes no  *)
(* row without a listen_url.                                               *)
(***************************************************************************)
EXTENDS ApiClient

CONSTANTS
  Stations,
  Lists,       \* the tag lists of the panel: "mine", "cloud"
  Queries,     \* texts of the search field
  Matches,     \* the active stations each of them finds
  None,        \* an empty m_currentStationId, label, list or stream
  MaxChanges   \* bound: changes of a station's tags

ASSUME PageAssumption ==
  /\ "mine" \in Lists /\ Lists \subseteq {"mine", "cloud"}
  /\ Matches \in [Queries -> SUBSET Stations]
  /\ None \notin Stations \union Queries
  /\ MaxChanges \in Nat

VARIABLES
  search,   \* m_search
  table,    \* the search whose result m_stationTable shows
  current,  \* m_currentStationId
  shown,    \* what each part of the detail panel shows
  stream,   \* MainWindow::m_currentStreamUrl
  playing,  \* QMediaPlayer is in PlayingState
  tags,     \* user_station_tags: the version of each station's tags
  excused   \* history: parts of the panel that a failed request, an
            \*   overtaken reply or the push menu left behind

page == <<search, table, current, shown>>
player == <<stream, playing>>
vars == <<calls, clicks, page, player, tags, excused>>

Views == Lists \union {"detail"}
Changes == {"add", "delete"}

Nothing == [station |-> None, ver |-> 0]

(* buildPlayerStrip *)
PlayerBuilt == stream = None /\ playing = FALSE

Init ==
  /\ search \in Queries
  /\ calls = {[op |-> "list", arg |-> search, n |-> 1, at |-> "sent", data |-> Unanswered]}
  /\ clicks = 0
  /\ table = None
  /\ current = None
  /\ shown = [v \in Views |-> Nothing]
  /\ PlayerBuilt
  /\ tags = [s \in Stations |-> 0]
  /\ excused = {}

-----------------------------------------------------------------------------
(* The search row and the table.                                             *)

(* refresh(): the button and the two signals of the search field, which both *)
(* fire when Return is pressed.                                              *)
Search(q) ==
  /\ search' = q
  /\ Send({Request("list", q)})
  /\ UNCHANGED <<table, current, shown, player, tags, excused>>

Rows == IF table = None THEN {} ELSE Matches[table]

(* loadStation asks for each part of the panel, and not for the detail alone. *)
DetailOnly == {"detail"}
Asked == Views

Load(s) ==
  /\ current' = s
  /\ excused' = {}
  /\ Send({Request(v, s) : v \in Asked})

(* A selected row, or "Show details": always asks again.                     *)
Select(s) ==
  /\ s \in Rows
  /\ Load(s)
  /\ UNCHANGED <<search, table, shown, player, tags>>

LoadIfOther(s) ==
  IF s # current THEN Load(s) ELSE UNCHANGED <<calls, current, excused>>

-----------------------------------------------------------------------------
(* The player strip.                                                         *)

(* MainWindow::loadStream: stops the player before it gets the new source.   *)
LoadStream(s) == stream' = s /\ playing' = FALSE

(* A double click, and "Play this station": loadStream, then onPlayClicked.  *)
PlayRow(s) ==
  /\ s \in Rows
  /\ LoadIfOther(s)
  /\ stream' = s /\ playing' = TRUE
  /\ UNCHANGED <<search, table, shown, tags>>

(* "Load into player (don't play)" *)
LoadRow(s) ==
  /\ s \in Rows
  /\ LoadIfOther(s)
  /\ LoadStream(s)
  /\ UNCHANGED <<search, table, shown, tags>>

Play ==
  /\ stream # None /\ ~ playing
  /\ playing' = TRUE
  /\ UNCHANGED <<calls, page, stream, tags, excused>>

(* onStopClicked, a player error, the end of the stream.                     *)
Stop ==
  /\ playing
  /\ playing' = FALSE
  /\ UNCHANGED <<calls, page, stream, tags, excused>>

-----------------------------------------------------------------------------
(* The buttons of the detail panel and the other entries of the row's menu.  *)

(* onAddTagClicked, and the menu's "Tag this station" after LoadIfOther.     *)
AddTag ==
  /\ current # None
  /\ Send({Request("add", current)})
  /\ UNCHANGED <<page, player, tags, excused>>

(* "Tag this station": the row becomes current before the question is asked. *)
TagRow(s) ==
  /\ s \in Rows \ {current}
  /\ Load(s)
  /\ UNCHANGED <<search, table, shown, player, tags>>

(* onMyTagDoubleClicked: a tag of the list, of whatever station, is removed  *)
(* from the current one.                                                     *)
RemoveTag ==
  /\ current # None /\ shown["mine"].station # None
  /\ Send({Request("delete", current)})
  /\ UNCHANGED <<page, player, tags, excused>>

(* onPushToSocialClicked: the text and the tags are what the panel shows.    *)
Push(s) ==
  IF shown["mine"].station = None THEN UNCHANGED calls
  ELSE Send({Request("push", s)})

(* The button, enabled by the first detail that came.                        *)
PushCurrent ==
  /\ current # None /\ shown["detail"].station # None
  /\ Push(current)
  /\ UNCHANGED <<page, player, tags, excused>>

(* "Push my tags to social" makes the row current and asks for nothing.      *)
PushRow(s) ==
  /\ s \in Rows
  /\ current' = s
  /\ Push(s)
  /\ excused' = IF s = current THEN excused ELSE Views
  /\ UNCHANGED <<search, table, shown, player, tags>>

User ==
  /\ \/ \E q \in Queries : Search(q)
     \/ \E s \in Stations :
          Select(s) \/ PlayRow(s) \/ LoadRow(s) \/ TagRow(s) \/ PushRow(s)
     \/ Play \/ Stop \/ AddTag \/ RemoveTag \/ PushCurrent
  /\ Click

-----------------------------------------------------------------------------
(* The daemon.                                                               *)

ReadDirectory(c) == c.op = "list" /\ Answer(c, 0) /\ UNCHANGED tags
ReadDetail(c) == c.op = "detail" /\ Answer(c, 0) /\ UNCHANGED tags
ReadTags(c) == c.op \in Lists /\ Answer(c, tags[c.arg]) /\ UNCHANGED tags
QueuePush(c) == c.op = "push" /\ Answer(c, 0) /\ UNCHANGED tags

(* The upsert and the delete change the station's tags, or find them so.     *)
Reverted(s) == [tags EXCEPT ![s] = @ - 1]
Changed(s) == [tags EXCEPT ![s] = @ + 1]

ChangeTags(c) ==
  /\ c.op \in Changes
  /\ Answer(c, 0)
  /\ \/ tags[c.arg] < MaxChanges /\ tags' = Changed(c.arg)
     \/ UNCHANGED tags

Serve(c) ==
  /\ ReadDirectory(c) \/ ReadDetail(c) \/ ReadTags(c)
     \/ ChangeTags(c) \/ QueuePush(c)
  /\ UNCHANGED <<clicks, page, player, excused>>

-----------------------------------------------------------------------------
(* The replies.                                                              *)

(* onDirectoryListReceived: whatever the field says by now.                  *)
ListReceived(c) ==
  /\ c.op = "list"
  /\ Settle(c, {})
  /\ table' = c.arg
  /\ UNCHANGED <<search, current, shown, player, excused>>

(* onStationReceived: no guard; stationActivated hands on the stream.        *)
DetailReceived(c) ==
  /\ c.op = "detail"
  /\ Settle(c, {})
  /\ shown' = [shown EXCEPT !["detail"] = [station |-> c.arg, ver |-> 0]]
  /\ LoadStream(c.arg)
  /\ excused' = IF c.arg = current THEN excused \ {"detail"}
                                   ELSE excused \union {"detail"}
  /\ UNCHANGED <<search, table, current>>

(* The test that onMyTagsReceived, onTagCloudReceived, onTagAdded and        *)
(* onTagDeleted start with, and what they would do without it.               *)
AnyStation(c) == TRUE
ForCurrent(c) == c.arg = current

(* onMyTagsReceived, onTagCloudReceived *)
Overtaken(c) == shown[c.op].station = c.arg /\ c.data < shown[c.op].ver

TagsReceived(c) ==
  /\ c.op \in Lists
  /\ Settle(c, {})
  /\ IF ForCurrent(c)
     THEN /\ shown' = [shown EXCEPT ![c.op] = [station |-> c.arg, ver |-> c.data]]
          /\ excused' = IF Overtaken(c) THEN excused \union {c.op}
                        ELSE IF c.data = tags[c.arg] THEN excused \ {c.op}
                        ELSE excused
     ELSE UNCHANGED <<shown, excused>>
  /\ UNCHANGED <<search, table, current, player>>

(* onTagAdded, onTagDeleted *)
RefreshNothing(c) == {}
RefreshLists(c) == {Request(l, c.arg) : l \in Lists}

ChangeReceived(c) ==
  /\ c.op \in Changes
  /\ Settle(c, IF ForCurrent(c) THEN RefreshLists(c) ELSE {})
  /\ UNCHANGED <<page, player, excused>>

(* socialPushQueued: no page listens.                                        *)
PushReceived(c) ==
  /\ c.op = "push"
  /\ Settle(c, {})
  /\ UNCHANGED <<page, player, excused>>

Handle(c) ==
  /\ ListReceived(c) \/ DetailReceived(c) \/ TagsReceived(c)
     \/ ChangeReceived(c) \/ PushReceived(c)
  /\ UNCHANGED <<clicks, tags>>

(* What the page misses with a request that fails.                           *)
Misses(c) ==
  IF c.arg # current THEN {}
  ELSE IF c.op \in Changes THEN Lists
  ELSE {c.op} \intersect Views

RequestFails(c) ==
  /\ Fail(c)
  /\ excused' = excused \union Misses(c)
  /\ UNCHANGED <<clicks, page, player, tags>>

Next ==
  \/ User
  \/ \E c \in calls : Serve(c) \/ Handle(c) \/ RequestFails(c)

Spec == Init /\ [][Next]_vars

(* The daemon keeps answering and the event loop keeps running; nothing       *)
(* obliges the user.                                                         *)
Fairness ==
  /\ WF_vars(\E c \in calls : Serve(c))
  /\ WF_vars(\E c \in calls : Handle(c))

FairSpec == Spec /\ Fairness

-----------------------------------------------------------------------------
(* Properties.                                                               *)

Ops == Views \union Changes \union {"list", "push"}

Call == [op : Ops, arg : Stations \union Queries, n : 1..MaxSame,
         at : {"sent", "answered"}, data : Nat \union {Unanswered}]

Proper(c) ==
  /\ c \in Call
  /\ IF c.op = "list" THEN c.arg \in Queries ELSE c.arg \in Stations
  /\ c.at = "answered" => c.data \in Nat

(* Types of the page, the player, the requests and the history variables.    *)
TypeOK ==
  /\ \A c \in calls : Proper(c)
  /\ clicks \in Nat
  /\ search \in Queries /\ table \in Queries \union {None}
  /\ current \in Stations \union {None}
  /\ shown \in [Views -> [station : Stations \union {None}, ver : Nat]]
  /\ stream \in Stations \union {None} /\ playing \in BOOLEAN
  /\ tags \in [Stations -> Nat]
  /\ excused \subseteq Views

Latest(v) == [station |-> current, ver |-> IF v = "detail" THEN 0 ELSE tags[current]]

(* A request whose reply will bring v up to date.                            *)
Refreshes(c, v) ==
  /\ c.arg = current
  /\ \/ c.op = v /\ (c.at = "sent" \/ v = "detail" \/ c.data = tags[current])
     \/ c.op \in Changes /\ v \in Lists

(* Whatever the panel shows that is not the current station's latest is      *)
(* about to be replaced, or was left behind by a failed request, an          *)
(* overtaken reply or the push menu: between them the guards of the replies  *)
(* and the refreshes after a tag change lose nothing else, however           *)
(* selections, changes and replies interleave (DirectoryPage.cpp:154-159,    *)
(* 237-293).                                                                 *)
StaleExplained ==
  current # None =>
    \A v \in Views :
      \/ shown[v] = Latest(v)
      \/ v \in excused
      \/ \E c \in calls : Refreshes(c, v)

(* A selected station's lists are shown in the end, unless another row is    *)
(* chosen or the panel is excused (DirectoryPage.cpp:154, 260, 273).         *)
ListsFollowSelection ==
  \A s \in Stations, l \in Lists :
    current = s ~> (shown[l].station = s \/ current # s \/ l \in excused)

=============================================================================
