---------------------------- MODULE Pages_proofs ----------------------------
(***************************************************************************)
(* Proofs about Pages, for any bounds, ids, paths, users and searches. One *)
(* page is in use in each behaviour, so each is proved by itself, the      *)
(* directory page in DirectoryPage_proofs, and the last section puts the   *)
(* invariants together.                                                    *)
(*                                                                         *)
(* What a page shows is up to date, about to be, or known to be behind:    *)
(* the explanation of a stale part is a request in flight, so each proof   *)
(* follows the requests. A step that settles one must bring the part up to *)
(* date, send the next one, or set the history variable. That takes two    *)
(* facts about every request, inductive with the property: what it names   *)
(* is what the page may ask for, and what its answer says is of the type   *)
(* the page shows (PodCalls, StCalls, EvCalls, MedCalls, ListsOfUsers).    *)
(* The pickers keep "the first" of what is listed, which exists because    *)
(* the natural numbers are well founded (LeastExists).                     *)
(*                                                                         *)
(* The daemon under the podcasts page implements PodcastService, as the    *)
(* handlers of Podcasts do (PodDaemonStep, DaemonOfThePage).               *)
(***************************************************************************)
EXTENDS Pages, DirectoryPage_proofs, FiniteSetTheorems

-----------------------------------------------------------------------------
(* What the pages have in common.                                            *)

(* x is the request r, not answered yet. *)
Issued(x, r) == x.op = r.op /\ x.arg = r.arg /\ x.at = "sent"

(* The requests R are sent, in place of the ones gone.                       *)
Sending(gone, R) ==
  /\ calls \ gone \subseteq calls'
  /\ \A x \in calls' : x \in calls \/ \E r \in R : Issued(x, r)
  /\ \A r \in R : \E x \in calls' : Issued(x, r)

(* A set of natural numbers that is not empty has a least element.           *)
LEMMA LeastExists ==
  ASSUME NEW S \in SUBSET Nat, S # {}
  PROVE  \E x \in S : \A y \in S : x <= y
<1>1. PICK R : R = OpToRel(<, Nat)
  BY Zenon
<1>2. \A x, y \in Nat : x < y => <<x, y>> \in R
  BY <1>1, Zenon DEF OpToRel
<1>3. IsWellFoundedOn(R, Nat)
  BY <1>1, NatLessThanWellFounded, Zenon
<1>4. PICK x \in S : \A y \in S : ~ (<<y, x>> \in R)
  BY <1>3, WFMin, Zenon
<1>5. \A y \in S : ~ (y < x)
  BY <1>2, <1>4
<1> QED  BY <1>5

-----------------------------------------------------------------------------
(* The main windows.                                                         *)

LEMMA WinSends == ASSUME NEW R, Win!Send(R) PROVE Sending({}, R)
<1>1. \A r : Issued(Win!Fresh(r), r)
  BY DEF Win!Fresh, Issued
<1> QED  BY <1>1 DEF Win!Send, Sending

(* Whose list an answer names. *)
ListsOfUsers ==
  \A c \in calls : c.op = "list" =>
    /\ c.arg.user \in Users \union {NoUser}
    /\ c.at = "answered" => c.data \in Users \union {NoUser}

(* The page's handler is installed while the window is open, over Qt's own. *)
HandlerOfWindow ==
  IF open THEN handler = "page" /\ chained = "default" ELSE handler = "default"

WinInv == Win!TypeOK /\ ListsOfUsers /\ HandlerOfWindow /\ Win!LabelsHold

LEMMA WinInit == Win!Init => WinInv
<1> SUFFICES ASSUME Win!Init PROVE WinInv
  OBVIOUS
<1>1. window = 0 /\ 0 \in 0..MaxWindows
  BY WindowsAssumption DEF Win!Init
<1>2. Win!TypeOK
  BY <1>1 DEF Win!Init, Win!TypeOK
<1>3. ListsOfUsers /\ HandlerOfWindow /\ Win!LabelsHold
  BY DEF Win!Init, ListsOfUsers, HandlerOfWindow, Win!LabelsHold
<1> QED  BY <1>2, <1>3 DEF WinInv

LEMMA WinOpen == ASSUME WinInv, NEW u \in Users, Win!OpenWindow(u) PROVE WinInv'
<1> USE DEF WinInv
<1>1. Sending({}, {Win!List(u, window + 1)})
  BY WinSends DEF Win!OpenWindow
<1>2. ListsOfUsers'
  BY <1>1 DEF ListsOfUsers, Sending, Issued, Win!List, Win!Request, Win!Arg
<1>3. Win!TypeOK'
  BY WindowsAssumption
     DEF Win!TypeOK, HandlerOfWindow, Win!OpenWindow, Win!SettingsBuilt,
         Win!LoggingBuilt, Win!LiveBuilt
<1>4. HandlerOfWindow' /\ Win!LabelsHold'
  BY DEF HandlerOfWindow, Win!LabelsHold, Win!OpenWindow, Win!SettingsBuilt,
         Win!LoggingBuilt, Win!LiveBuilt
<1> QED  BY <1>2, <1>3, <1>4

(* Requests are sent, none is answered or settled. *)
LEMMA WinAsks ==
  ASSUME WinInv, NEW R, Sending({}, R), UNCHANGED <<window, open, user>>,
         \A r \in R : r.op = "list" => r.arg.user = user
  PROVE  ListsOfUsers' /\ \A c \in calls : c.op = "health" => c \in calls'
  BY DEF WinInv, Win!TypeOK, ListsOfUsers, Sending, Issued

LEMMA WinUser == ASSUME WinInv, Win!User PROVE WinInv'
<1> USE DEF WinInv
<1>1. CASE Win!SignOut
  BY <1>1 DEF Win!SignOut, Win!PutBack, Win!TypeOK, ListsOfUsers, HandlerOfWindow,
              Win!LabelsHold
<1>2. CASE Win!Refresh
  <2>1. ListsOfUsers' /\ \A c \in calls : c.op = "health" => c \in calls'
    <3>1. Sending({}, {Win!List(user, window)})
      BY <1>2, WinSends DEF Win!Refresh
    <3>2. Win!List(user, window).arg.user = user
      BY DEF Win!List, Win!Request, Win!Arg
    <3> QED  BY <1>2, <3>1, <3>2, WinAsks DEF Win!Refresh
  <2>2. UNCHANGED <<window, open, user, listed, ping, Win!logging, Win!live>> /\ open
    BY <1>2 DEF Win!Refresh
  <2> QED  BY <2>1, <2>2
              DEF Win!TypeOK, HandlerOfWindow, Win!LabelsHold, Win!Arg, Win!logging,
                  Win!live
<1>3. CASE Win!Ping
  <2>1. Sending({}, {Win!Health})
    BY <1>3, WinSends DEF Win!Ping
  <2>2. Win!Health.op = "health" /\ Win!Health.arg = Win!Arg(user, window)
    BY DEF Win!Health, Win!Request
  <2>3. /\ UNCHANGED <<window, open, user, listed, Win!logging, Win!live>>
        /\ open /\ ping' = "pinging"
    BY <1>3 DEF Win!Ping
  <2>4. ListsOfUsers'
    BY <2>1, <2>2, <2>3, WinAsks
  <2>5. \E c \in calls' : c.op = "health" /\ c.arg = Win!Arg(user, window)
    BY <2>1, <2>2 DEF Sending, Issued
  <2> QED  BY <2>3, <2>4, <2>5
              DEF Win!TypeOK, HandlerOfWindow, Win!LabelsHold, Win!Arg, Win!logging,
                  Win!live
<1>4. CASE Win!SaveUrl
  BY <1>4 DEF Win!SaveUrl, Win!TypeOK, ListsOfUsers, HandlerOfWindow, Win!LabelsHold,
              Win!logging, Win!live
<1>5. CASE Win!StartCapture \/ Win!StopCapture
  BY <1>5 DEF Win!StartCapture, Win!StopCapture, Win!IsNotStopped, Win!TypeOK,
              ListsOfUsers, HandlerOfWindow, Win!LabelsHold, Win!Arg, Win!logging
<1> QED  BY <1>1, <1>2, <1>3, <1>4, <1>5 DEF Win!User

LEMMA WinCapture == ASSUME WinInv, Win!CaptureStarts \/ Win!CaptureEnds PROVE WinInv'
  BY DEF WinInv, Win!CaptureStarts, Win!CaptureEnds, Win!TypeOK, ListsOfUsers,
         HandlerOfWindow, Win!LabelsHold, Win!Arg, Win!logging

LEMMA WinServe == ASSUME WinInv, NEW c \in calls, Win!Serve(c) PROVE WinInv'
<1> USE DEF WinInv
<1>1. PICK d \in Users \union {NoUser} : Win!Answer(c, d)
  BY DEF Win!Serve, Win!ReadList, Win!ReadHealth, ListsOfUsers
<1>2. PICK a : /\ a.op = c.op /\ a.arg = c.arg /\ a.data = d
               /\ calls' = (calls \ {c}) \union {a}
  BY <1>1 DEF Win!Answer, Win!Answered
<1>3. UNCHANGED <<clicks, window, open, user, listed, ping, Win!logging, Win!live>>
  BY DEF Win!Serve
<1>4. ListsOfUsers'
  BY <1>2 DEF ListsOfUsers
<1>5. Win!LabelsHold'
  BY <1>2, <1>3 DEF Win!LabelsHold, Win!Arg, Win!live
<1> QED  BY <1>3, <1>4, <1>5 DEF Win!TypeOK, HandlerOfWindow, Win!logging, Win!live

LEMMA WinReply == ASSUME WinInv, NEW c \in calls, Win!Reply(c) PROVE WinInv'
<1> USE DEF WinInv
<1>1. calls' = calls \ {c}
  BY DEF Win!Reply, Win!ListReceived, Win!HealthReceived, Win!RequestFails, Win!Settle,
         Win!Fail
<1>2. UNCHANGED <<clicks, window, open, user, Win!logging, Win!live>>
  BY DEF Win!Reply
<1>3. listed' \in Users \union {NoUser} /\ ping' \in {"empty", "pinging", "told", "saved"}
  BY DEF Win!Reply, Win!ListReceived, Win!HealthReceived, Win!RequestFails, Win!Heard,
         Win!Settle, Win!TypeOK, ListsOfUsers
<1>4. open /\ ping' = "pinging" => ping = "pinging" /\ c.op # "health"
  BY DEF Win!Reply, Win!ListReceived, Win!HealthReceived, Win!RequestFails, Win!Heard
<1>5. ListsOfUsers'
  BY <1>1 DEF ListsOfUsers
<1>6. Win!LabelsHold'
  BY <1>1, <1>2, <1>4 DEF Win!LabelsHold, Win!Arg, Win!live
<1> QED  BY <1>2, <1>3, <1>5, <1>6
            DEF Win!TypeOK, HandlerOfWindow, Win!logging, Win!live

LEMMA WinStep == WinInv /\ [Win!Next]_(Win!vars) => WinInv'
<1>1. ASSUME WinInv, UNCHANGED Win!vars PROVE WinInv'
  BY <1>1 DEF Win!vars, Win!mainWindow, Win!settings, Win!logging, Win!live, WinInv,
              Win!TypeOK, ListsOfUsers, HandlerOfWindow, Win!LabelsHold, Win!Arg
<1> QED  BY <1>1, WinOpen, WinUser, WinCapture, WinServe, WinReply DEF Win!Next

-----------------------------------------------------------------------------
(* The events page.                                                          *)

LEMMA EvIssued == \A r : Issued(Ev!Fresh(r), r)
  BY DEF Ev!Fresh, Issued

LEMMA EvSends == ASSUME NEW R, Ev!Send(R) PROVE Sending({}, R)
  BY EvIssued DEF Ev!Send, Sending

LEMMA EvSettles ==
  ASSUME NEW c, NEW R, Ev!Settle(c, R)
  PROVE  Sending({c}, R) /\ c.at = "answered"
  BY EvIssued DEF Ev!Settle, Sending

EventRows(t) == DOMAIN t \subseteq used /\ \A e \in DOMAIN t : t[e] \in BOOLEAN

EvShape(op, arg) ==
  /\ op = "runs" => arg.event \in used
  /\ op \in {"create", "update"} => arg.on \in BOOLEAN

(* What requests name and answers say.                                       *)
EvCalls ==
  \A c \in calls :
    /\ EvShape(c.op, c.arg)
    /\ c.op = "events" /\ c.at = "answered" => EventRows(c.data)

EvInv == Ev!TypeOK /\ EvCalls /\ Ev!EventsExplained

LEMMA EvInit == Ev!Init => EvInv
<1> SUFFICES ASSUME Ev!Init PROVE EvInv
  OBVIOUS
<1>1. DOMAIN Ev!NoRows = {}
  BY DEF Ev!NoRows
<1>2. Ev!TypeOK
  BY <1>1 DEF Ev!Init, Ev!TypeOK
<1>3. EvCalls
  BY DEF Ev!Init, EvCalls, EvShape
<1>4. Ev!EventsExplained
  BY DEF Ev!Init, Ev!EventsExplained
<1> QED  BY <1>2, <1>3, <1>4 DEF EvInv

(* Requests are sent, instead of the settled ones, and the database stays.   *)
LEMMA EvCallsSent ==
  ASSUME EvCalls, NEW gone, NEW R, Sending(gone, R), used' = used,
         \A r \in R : EvShape(r.op, r.arg)
  PROVE  EvCalls'
<1> SUFFICES ASSUME NEW x \in calls'
             PROVE  /\ EvShape(x.op, x.arg)'
                    /\ x.op = "events" /\ x.at = "answered" => EventRows(x.data)'
  BY DEF EvCalls
<1>1. CASE x \in calls
  BY <1>1 DEF EvCalls, EvShape, EventRows
<1>2. CASE x \notin calls
  <2>1. PICK r \in R : Issued(x, r)
    BY <1>2 DEF Sending
  <2> QED  BY <2>1 DEF Issued, EvShape
<1> QED  BY <1>1, <1>2

LEMMA EvUser == ASSUME EvInv, Ev!User PROVE EvInv'
<1> USE DEF EvInv
<1>1. UNCHANGED <<enabled, used>>
  BY DEF Ev!User, Ev!database
<1>2. ASSUME NEW r, Ev!Send({r}), EvShape(r.op, r.arg), UNCHANGED <<Ev!page, behind>>
      PROVE  EvInv'
  <2>1. Sending({}, {r})
    BY <1>2, EvSends
  <2>2. EvCalls'
    BY <1>1, <1>2, <2>1, EvCallsSent
  <2> QED  BY <1>1, <1>2, <2>1, <2>2 DEF Ev!TypeOK, Ev!EventsExplained, Sending, Ev!page
<1>3. EvShape(Ev!List.op, Ev!List.arg)
  BY DEF EvShape, Ev!List, Ev!Request
<1>4. CASE Ev!Refresh
  BY <1>2, <1>3, <1>4 DEF Ev!Refresh
<1>5. CASE Ev!Add
  BY <1>2, <1>5 DEF Ev!Add, EvShape, Ev!Request, Ev!Arg
<1>6. CASE Ev!ToggleEnabled
  <2>1. (~ table[selected]) \in BOOLEAN
    OBVIOUS
  <2> QED  BY <1>2, <1>6, <2>1 DEF Ev!ToggleEnabled, EvShape, Ev!Request, Ev!Arg
<1>7. CASE Ev!Delete
  BY <1>2, <1>7 DEF Ev!Delete, EvShape, Ev!Request, Ev!Arg
<1>8. ASSUME NEW e \in Events, Ev!Select(e) PROVE EvInv'
  <2>1. /\ e \in DOMAIN table /\ selected' = e /\ behind' = behind \ {"log"}
        /\ UNCHANGED <<table, log>>
    BY <1>8 DEF Ev!Select
  <2>2. e \in used
    BY <2>1 DEF Ev!TypeOK
  <2> DEFINE r == Ev!Request("runs", Ev!Arg(e, FALSE))
  <2>3. r.op = "runs" /\ r.arg.event = e /\ EvShape(r.op, r.arg)
    BY <2>2 DEF Ev!Request, Ev!Arg, EvShape
  <2>4. Sending({}, {r})
    BY <1>8, EvSends DEF Ev!Select
  <2> HIDE DEF r
  <2>5. EvCalls'
    BY <1>1, <2>3, <2>4, EvCallsSent
  <2>6. \E c \in calls' : c.op = "runs" /\ c.arg.event = e
    BY <2>3, <2>4 DEF Sending, Issued
  <2> QED  BY <1>1, <2>1, <2>4, <2>5, <2>6 DEF Ev!TypeOK, Ev!EventsExplained, Sending
<1> QED  BY <1>4, <1>5, <1>6, <1>7, <1>8 DEF Ev!User

LEMMA EvServe == ASSUME EvInv, NEW c \in calls, Ev!Serve(c) PROVE EvInv'
<1> USE DEF EvInv
<1>1. UNCHANGED <<clicks, table, selected, log, behind>>
  BY DEF Ev!Serve, Ev!page
<1>2. ASSUME NEW d, Ev!Answer(c, d), c.op = "events" => d = enabled /\ enabled' = enabled,
             used \subseteq used', used' \subseteq Events, EventRows(enabled)',
             c.op \notin {"create", "update", "delete"} => enabled' = enabled
      PROVE  EvInv'
  <2>1. PICK a : /\ a.op = c.op /\ a.arg = c.arg /\ a.at = "answered" /\ a.data = d
                 /\ calls' = (calls \ {c}) \union {a}
    BY <1>2 DEF Ev!Answer, Ev!Answered
  <2>2. Ev!TypeOK'
    BY <1>1, <1>2 DEF Ev!TypeOK, EventRows
  <2>3. EvCalls'
    BY <1>2, <2>1 DEF EvCalls, EvShape, EventRows
  <2>4. Ev!EventsExplained'
    BY <1>1, <1>2, <2>1 DEF Ev!EventsExplained
  <2> QED  BY <2>2, <2>3, <2>4
<1>3. CASE Ev!ReadEvents(c)
  BY <1>2, <1>3 DEF Ev!ReadEvents, Ev!database, Ev!TypeOK, EventRows
<1>4. CASE Ev!ReadRuns(c)
  BY <1>2, <1>4 DEF Ev!ReadRuns, Ev!database, Ev!TypeOK, EventRows
<1>5. CASE Ev!CreateEvent(c)
  <2>1. PICK e \in Events \ used :
          /\ used' = used \union {e}
          /\ enabled' = [x \in DOMAIN enabled \union {e} |->
                           IF x = e THEN c.arg.on ELSE enabled[x]]
    BY <1>5 DEF Ev!CreateEvent
  <2>2. c.arg.on \in BOOLEAN /\ c.op = "create"
    BY <1>5 DEF Ev!CreateEvent, EvCalls, EvShape
  <2>3. EventRows(enabled)'
    BY <2>1, <2>2 DEF EventRows, Ev!TypeOK
  <2> QED  BY <1>2, <1>5, <2>1, <2>2, <2>3 DEF Ev!CreateEvent, Ev!TypeOK
<1>6. CASE Ev!UpdateEvent(c)
  <2>1. c.op = "update" /\ used' = used /\ Ev!Answer(c, Ev!NoRows)
        /\ enabled' = [enabled EXCEPT ![c.arg.event] = c.arg.on]
    BY <1>6 DEF Ev!UpdateEvent
  <2>2. c.arg.on \in BOOLEAN
    BY <2>1 DEF EvCalls, EvShape
  <2>3. DOMAIN enabled' = DOMAIN enabled
    BY <2>1
  <2>4. ASSUME NEW e \in DOMAIN enabled PROVE enabled'[e] \in BOOLEAN
    BY <2>1, <2>2 DEF Ev!TypeOK
  <2> QED  BY <1>2, <2>1, <2>3, <2>4 DEF Ev!TypeOK, EventRows
<1>7. CASE Ev!DeleteEvent(c)
  BY <1>2, <1>7 DEF Ev!DeleteEvent, Ev!TypeOK, EventRows
<1> QED  BY <1>3, <1>4, <1>5, <1>6, <1>7 DEF Ev!Serve

LEMMA EvHandle == ASSUME EvInv, NEW c \in calls, Ev!Handle(c) PROVE EvInv'
<1> USE DEF EvInv
<1>1. UNCHANGED <<enabled, used>>
  BY DEF Ev!Handle, Ev!database
<1>2. CASE Ev!EventsReceived(c)
  <2>1. /\ c.op = "events" /\ table' = c.data /\ selected' = NoEvent /\ log' = log
        /\ behind' = IF c.data = enabled THEN behind \ {"table"}
                     ELSE IF table = enabled THEN behind \union {"table"}
                     ELSE behind
    BY <1>2 DEF Ev!EventsReceived
  <2>2. Sending({c}, {}) /\ c.at = "answered"
    BY <1>2, EvSettles DEF Ev!EventsReceived
  <2>3. EvCalls'
    BY <1>1, <2>2, EvCallsSent
  <2>4. Ev!TypeOK'
    BY <1>1, <2>1, <2>2 DEF Ev!TypeOK, EvCalls, EventRows
  <2>5. Ev!EventsExplained'
    BY <1>1, <2>1, <2>2 DEF Ev!EventsExplained, Sending
  <2> QED  BY <2>3, <2>4, <2>5
<1>3. CASE Ev!EventChanged(c)
  <2>1. UNCHANGED <<table, selected, log, behind>> /\ c.op # "runs"
    BY <1>3 DEF Ev!EventChanged, Ev!page
  <2>2. Sending({c}, {Ev!List})
    BY <1>3, EvSettles DEF Ev!EventChanged, Ev!RefreshEvents
  <2>3. Ev!List.op = "events" /\ EvShape(Ev!List.op, Ev!List.arg)
    BY DEF Ev!List, Ev!Request, EvShape
  <2>4. EvCalls'
    BY <1>1, <2>2, <2>3, EvCallsSent
  <2>5. \E x \in calls' : x.op = "events" /\ x.at = "sent"
    BY <2>2, <2>3 DEF Sending, Issued
  <2> QED  BY <1>1, <2>1, <2>2, <2>4, <2>5 DEF Ev!TypeOK, Ev!EventsExplained, Sending
<1>4. CASE Ev!RunsReceived(c)
  <2>1. /\ c.op = "runs" /\ log' = c.arg.event /\ UNCHANGED <<table, selected>>
        /\ behind' = IF c.arg.event = selected THEN behind \ {"log"}
                     ELSE behind \union {"log"}
    BY <1>4 DEF Ev!RunsReceived
  <2>2. Sending({c}, {}) /\ c.at = "answered"
    BY <1>4, EvSettles DEF Ev!RunsReceived
  <2>3. EvCalls'
    BY <1>1, <2>2, EvCallsSent
  <2>4. Ev!TypeOK'
    BY <1>1, <2>1 DEF Ev!TypeOK, EvCalls, EvShape
  <2>5. Ev!EventsExplained'
    BY <1>1, <2>1, <2>2 DEF Ev!EventsExplained, Sending
  <2> QED  BY <2>3, <2>4, <2>5
<1> QED  BY <1>2, <1>3, <1>4 DEF Ev!Handle

LEMMA EvFails == ASSUME EvInv, NEW c \in calls, Ev!RequestFails(c) PROVE EvInv'
<1> USE DEF EvInv
<1>1. /\ calls' = calls \ {c} /\ UNCHANGED <<clicks, enabled, used, table, selected, log>>
      /\ behind' = behind \union (IF c.op = "runs" THEN {"log"} ELSE {"table"})
  BY DEF Ev!RequestFails, Ev!Fail, Ev!database, Ev!page
<1>2. EvCalls'
  BY <1>1 DEF EvCalls, EvShape, EventRows
<1>3. Ev!TypeOK'
  BY <1>1 DEF Ev!TypeOK
<1>4. Ev!EventsExplained'
  BY <1>1 DEF Ev!EventsExplained
<1> QED  BY <1>2, <1>3, <1>4

LEMMA EvStep == EvInv /\ [Ev!Next]_(Ev!vars) => EvInv'
<1>1. ASSUME EvInv, UNCHANGED Ev!vars PROVE EvInv'
  BY <1>1 DEF Ev!vars, Ev!database, Ev!page, EvInv, Ev!TypeOK, EvCalls, EvShape,
              EventRows, Ev!EventsExplained
<1> QED  BY <1>1, EvUser, EvServe, EvHandle, EvFails DEF Ev!Next

-----------------------------------------------------------------------------
(* The podcasts page.                                                        *)

LEMMA PodIssued == \A r : Issued(Pod!Fresh(r), r)
  BY DEF Pod!Fresh, Issued

LEMMA PodSends == ASSUME NEW R, Pod!Send(R) PROVE Sending({}, R)
  BY PodIssued DEF Pod!Send, Sending

LEMMA PodSettles ==
  ASSUME NEW c, NEW R, Pod!Settle(c, R)
  PROVE  Sending({c}, R) /\ c.at = "answered"
  BY PodIssued DEF Pod!Settle, Sending

(* What a request names, and what its answer says.                           *)
PodShape(op, arg) ==
  /\ op = "list" => arg.feed = NoFeed
  /\ op \in {"episodes", "addEpisode", "deleteEpisode"} => arg.feed \in Pod!Feeds

PodCalls ==
  \A c \in calls :
    /\ PodShape(c.op, c.arg)
    /\ c.op = "list" /\ c.at = "answered" => c.data \subseteq Pod!Feeds
    /\ c.op = "episodes" /\ c.at = "answered" => c.data \subseteq 1..made

PickerExplained ==
  picker # feeds /\ "feeds" \notin behind =>
    Pod!Comes("list", feeds) \/ Pod!Pending({"addFeed", "deleteFeed"})
RowsExplained ==
  picked # NoFeed /\ rows # Pod!EpisodesOf(picked) /\ "rows" \notin behind =>
    \/ Pod!Comes("episodes", Pod!EpisodesOf(picked))
    \/ Pod!Pending({"list", "deleteFeed", "addEpisode", "deleteEpisode"})

PodInv == Pod!TypeOK /\ PodCalls /\ Pod!PodcastsExplained

LEMMA PodExplainedParts ==
  /\ Pod!PodcastsExplained <=> PickerExplained /\ RowsExplained
  /\ Pod!PodcastsExplained' <=> PickerExplained' /\ RowsExplained'
  BY DEF Pod!PodcastsExplained, PickerExplained, RowsExplained

LEMMA PodListShape == Pod!List.op = "list" /\ PodShape(Pod!List.op, Pod!List.arg)
  BY DEF Pod!List, Pod!Request, Pod!Arg, PodShape

LEMMA PodEpisodesShape ==
  ASSUME NEW f \in Pod!Feeds, NEW turn
  PROVE  /\ Pod!ListEpisodes(f, turn).op = "episodes"
         /\ Pod!ListEpisodes(f, turn).arg.feed = f
         /\ PodShape(Pod!ListEpisodes(f, turn).op, Pod!ListEpisodes(f, turn).arg)
  BY DEF Pod!ListEpisodes, Pod!Request, Pod!Arg, PodShape

LEMMA PodEpisodesIn ==
  ASSUME Pod!TypeOK, NEW f PROVE Pod!EpisodesOf(f) \subseteq 1..made
  BY DEF Pod!TypeOK, Pod!EpisodesOf

LEMMA PodInit == Pod!Init => PodInv
<1> SUFFICES ASSUME Pod!Init PROVE PodInv
  OBVIOUS
<1>1. made \in 0..MaxEpisodes /\ feeds \subseteq Pod!Feeds /\ usedFeeds = feeds
  BY DEF Pod!Init
<1>2. PICK home \in [1..made -> feeds] :
        episodes = {[id |-> i, feed |-> home[i]] : i \in 1..made}
  BY DEF Pod!Init
<1>3. episodes \subseteq [id : 1..made, feed : feeds]
  BY <1>2
<1>4. Pod!TypeOK
  BY <1>1, <1>3 DEF Pod!Init, Pod!TypeOK
<1>5. calls = {[op |-> "list", arg |-> Pod!List.arg, n |-> 1, at |-> "sent",
                data |-> Unanswered]}
  BY DEF Pod!Init
<1>6. Pod!List.arg.feed = NoFeed
  BY DEF Pod!List, Pod!Request, Pod!Arg
<1>7. PodCalls
  BY <1>5, <1>6 DEF PodCalls, PodShape
<1>8. Pod!PodcastsExplained
  BY <1>5, <1>6 DEF Pod!Init, Pod!PodcastsExplained, Pod!Comes
<1> QED  BY <1>4, <1>7, <1>8 DEF PodInv

(* Requests are sent, instead of the settled ones, and the database stays.   *)
LEMMA PodCallsSent ==
  ASSUME PodCalls, NEW gone, NEW R, Sending(gone, R), made' = made,
         \A r \in R : PodShape(r.op, r.arg)
  PROVE  PodCalls'
<1> SUFFICES ASSUME NEW x \in calls'
             PROVE  /\ PodShape(x.op, x.arg)
                    /\ x.op = "list" /\ x.at = "answered" => x.data \subseteq Pod!Feeds
                    /\ x.op = "episodes" /\ x.at = "answered" => x.data \subseteq 1..made
  BY DEF PodCalls, PodShape
<1>1. CASE x \in calls
  BY <1>1 DEF PodCalls
<1>2. CASE x \notin calls
  <2>1. PICK r \in R : Issued(x, r)
    BY <1>2 DEF Sending
  <2> QED  BY <2>1 DEF Issued
<1> QED  BY <1>1, <1>2

LEMMA PodUser == ASSUME PodInv, Pod!User PROVE PodInv'
<1> USE DEF PodInv
<1>1. UNCHANGED <<feeds, usedFeeds, episodes, made>>
  BY DEF Pod!User, Pod!database
<1>2. ASSUME NEW r, Pod!Send({r}), PodShape(r.op, r.arg), UNCHANGED <<Pod!page, behind>>
      PROVE  PodInv'
  <2>1. Sending({}, {r})
    BY <1>2, PodSends
  <2>2. PodCalls'
    BY <1>1, <1>2, <2>1, PodCallsSent
  <2>3. Pod!TypeOK'
    BY <1>1, <1>2 DEF Pod!TypeOK, Pod!page
  <2>4. Pod!PodcastsExplained'
    BY <1>1, <1>2, <2>1
       DEF Pod!PodcastsExplained, Pod!Comes, Pod!Pending, Pod!EpisodesOf, Sending,
           Pod!page
  <2> QED  BY <2>2, <2>3, <2>4
<1>3. CASE Pod!Refresh
  BY <1>2, <1>3, PodListShape DEF Pod!Refresh
<1>4. ASSUME NEW op \in {"addFeed", "deleteFeed", "addEpisode", "deleteEpisode"},
             NEW f, NEW e, Pod!Ask(op, f, e),
             op \in {"addEpisode", "deleteEpisode"} => f \in Pod!Feeds
      PROVE  PodInv'
  BY <1>2, <1>4 DEF Pod!Ask, Pod!Request, Pod!Arg, PodShape
<1>5. CASE \/ Pod!AddFeed \/ Pod!DeleteFeed \/ Pod!AddEpisode
           \/ \E e \in rows : Pod!DeleteEpisode(e)
  <2>1. picked # NoFeed => picked \in Pod!Feeds
    BY DEF Pod!TypeOK
  <2> QED  BY <1>4, <1>5, <2>1
              DEF Pod!AddFeed, Pod!DeleteFeed, Pod!AddEpisode, Pod!DeleteEpisode
<1>6. ASSUME NEW f \in Pod!Feeds, Pod!Pick(f) PROVE PodInv'
  <2>1. /\ f \in picker /\ picked' = f /\ behind' = behind \ {"rows"}
        /\ UNCHANGED <<picker, rows>>
    BY <1>6 DEF Pod!Pick
  <2> DEFINE r == Pod!ListEpisodes(f, "only")
  <2>2. r.op = "episodes" /\ r.arg.feed = f /\ PodShape(r.op, r.arg)
    BY PodEpisodesShape
  <2>3. Sending({}, {r})
    BY <1>6, PodSends DEF Pod!Pick
  <2> HIDE DEF r
  <2>4. PodCalls'
    BY <1>1, <2>2, <2>3, PodCallsSent
  <2>5. \E c \in calls' : c.op = "episodes" /\ c.at = "sent" /\ c.arg.feed = picked'
    BY <2>1, <2>2, <2>3 DEF Sending, Issued
  <2>6. Pod!TypeOK'
    BY <1>1, <2>1 DEF Pod!TypeOK
  <2>7. PickerExplained'
    <3>1. Pod!Comes("list", feeds) => Pod!Comes("list", feeds)'
      BY <1>1, <2>3 DEF Pod!Comes, Sending, PodCalls, PodShape
    <3> QED  BY <1>1, <2>1, <2>3, <3>1, PodExplainedParts
                DEF PickerExplained, Pod!Pending, Sending
  <2>8. RowsExplained'
    BY <2>5 DEF RowsExplained, Pod!Comes
  <2> QED  BY <2>4, <2>6, <2>7, <2>8, PodExplainedParts
<1> QED  BY <1>3, <1>5, <1>6 DEF Pod!User

LEMMA PodServe == ASSUME PodInv, NEW c \in calls, Pod!Serve(c) PROVE PodInv'
<1> USE DEF PodInv
<1>1. UNCHANGED <<clicks, picker, picked, rows, behind>>
  BY DEF Pod!Serve, Pod!page
<1>2. ASSUME NEW d, Pod!Answer(c, d),
             c.op = "list" => d = feeds,
             c.op = "episodes" => d = Pod!EpisodesOf(c.arg.feed),
             UNCHANGED made \/ made' = made + 1,
             feeds' \subseteq usedFeeds', usedFeeds' \subseteq Pod!Feeds,
             episodes' \subseteq [id : 1..made', feed : feeds'],
             made' \in 0..MaxEpisodes,
             c.op \in {"addFeed", "deleteFeed"} \/ feeds' = feeds,
             c.op \in {"deleteFeed", "addEpisode", "deleteEpisode"} \/ episodes' = episodes
      PROVE  PodInv'
  <2>1. PICK a : /\ a.op = c.op /\ a.arg = c.arg /\ a.at = "answered" /\ a.data = d
                 /\ calls' = (calls \ {c}) \union {a}
    BY <1>2 DEF Pod!Answer, Pod!Answered
  <2>2. made \in Nat /\ 1..made \subseteq 1..made'
    BY <1>2 DEF Pod!TypeOK
  <2>3. Pod!TypeOK'
    BY <1>1, <1>2, <2>2 DEF Pod!TypeOK
  <2>4. PodCalls'
    <3> SUFFICES ASSUME NEW x \in calls'
                 PROVE  /\ PodShape(x.op, x.arg)
                        /\ x.op = "list" /\ x.at = "answered" => x.data \subseteq Pod!Feeds
                        /\ x.op = "episodes" /\ x.at = "answered" => x.data \subseteq 1..made'
      BY DEF PodCalls, PodShape
    <3>1. CASE x \in calls
      BY <2>2, <3>1 DEF PodCalls
    <3>2. CASE x = a
      <4>1. PodShape(x.op, x.arg)
        BY <2>1, <3>2 DEF PodCalls
      <4>2. feeds \subseteq Pod!Feeds /\ Pod!EpisodesOf(c.arg.feed) \subseteq 1..made
        BY PodEpisodesIn DEF Pod!TypeOK
      <4> QED  BY <1>2, <2>1, <2>2, <3>2, <4>1, <4>2
    <3> QED  BY <2>1, <3>1, <3>2
  <2>5. PickerExplained'
    <3>1. CASE c.op \in {"addFeed", "deleteFeed"}
      BY <2>1, <3>1 DEF PickerExplained, Pod!Pending
    <3>2. CASE c.op \notin {"addFeed", "deleteFeed"}
      <4>1. Pod!Comes("list", feeds) => Pod!Comes("list", feeds)'
        BY <1>1, <1>2, <2>1, <3>2 DEF Pod!Comes
      <4>2. Pod!Pending({"addFeed", "deleteFeed"})
              => Pod!Pending({"addFeed", "deleteFeed"})'
        BY <2>1 DEF Pod!Pending
      <4> QED  BY <1>1, <1>2, <3>2, <4>1, <4>2, PodExplainedParts DEF PickerExplained
    <3> QED  BY <3>1, <3>2
  <2>6. RowsExplained'
    <3> DEFINE O == {"list", "deleteFeed", "addEpisode", "deleteEpisode"}
    <3>1. CASE c.op \in O
      BY <2>1, <3>1 DEF RowsExplained, Pod!Pending
    <3>2. CASE c.op \notin O
      <4>1. Pod!EpisodesOf(picked)' = Pod!EpisodesOf(picked)
        BY <1>1, <1>2, <3>2 DEF Pod!EpisodesOf
      <4>2. c.op = "episodes" => c.arg.feed # NoFeed
        BY PodcastsPageAssumption DEF PodCalls, PodShape, Pod!Feeds
      <4>3. Pod!Comes("episodes", Pod!EpisodesOf(picked))
              => Pod!Comes("episodes", Pod!EpisodesOf(picked))'
        BY <1>1, <1>2, <2>1, <4>1, <4>2 DEF Pod!Comes
      <4>4. Pod!Pending(O) => Pod!Pending(O)'
        BY <2>1 DEF Pod!Pending
      <4> QED  BY <1>1, <4>1, <4>3, <4>4, PodExplainedParts DEF RowsExplained
    <3> QED  BY <3>1, <3>2
  <2> QED  BY <2>3, <2>4, <2>5, <2>6, PodExplainedParts
<1>3. CASE Pod!ReadFeeds(c)
  BY <1>2, <1>3 DEF Pod!ReadFeeds, Pod!database, Pod!TypeOK
<1>4. CASE Pod!ReadEpisodes(c)
  BY <1>2, <1>4 DEF Pod!ReadEpisodes, Pod!database, Pod!TypeOK
<1>5. CASE Pod!CreateFeed(c)
  BY <1>2, <1>5 DEF Pod!CreateFeed, Pod!TypeOK
<1>6. CASE Pod!RemoveFeed(c)
  BY <1>2, <1>6 DEF Pod!RemoveFeed, Pod!TypeOK
<1>7. CASE Pod!CreateEpisode(c)
  <2>1. /\ c.op = "addEpisode" /\ c.arg.feed \in feeds /\ Pod!Answer(c, {})
        /\ made < MaxEpisodes /\ made' = made + 1 /\ UNCHANGED <<feeds, usedFeeds>>
        /\ episodes' = episodes \union {[id |-> made', feed |-> c.arg.feed]}
    BY <1>7 DEF Pod!CreateEpisode
  <2>2. made' \in 0..MaxEpisodes /\ made' \in 1..made' /\ 1..made \subseteq 1..made'
    BY <2>1, PodcastsPageAssumption DEF Pod!TypeOK
  <2>3. episodes' \subseteq [id : 1..made', feed : feeds']
    BY <2>1, <2>2 DEF Pod!TypeOK
  <2> QED  BY <1>2, <2>1, <2>2, <2>3 DEF Pod!TypeOK
<1>8. CASE Pod!RemoveEpisode(c)
  BY <1>2, <1>8 DEF Pod!RemoveEpisode, Pod!TypeOK
<1> QED  BY <1>3, <1>4, <1>5, <1>6, <1>7, <1>8 DEF Pod!Serve

(* Refilling the picker asks for the episodes of the feed it leaves current. *)
LEMMA PodRefill ==
  ASSUME Pod!TypeOK, NEW L \in SUBSET Pod!Feeds
  PROVE  /\ Pod!Current(L) \in L \union {NoFeed}
         /\ Pod!Current(L) # NoFeed =>
              Pod!ListEpisodes(Pod!Current(L), "again") \in Pod!Refill(L)
         /\ Pod!Current(L) # NoFeed => Pod!Current(L) \in Pod!Feeds
         /\ \A r \in Pod!Refill(L) : PodShape(r.op, r.arg)
<1>1. CASE L = {}
  BY <1>1 DEF Pod!Current, Pod!Refill
<1>2. CASE L # {}
  <2>1. L \in SUBSET Nat
    BY PodcastsPageAssumption DEF Pod!Feeds
  <2>2. Pod!Min(L) \in L
    BY <1>2, <2>1, LeastExists DEF Pod!Min
  <2>3. Pod!Current(L) \in L
    BY <1>2, <2>2 DEF Pod!Current
  <2> QED  BY <1>2, <2>2, <2>3, PodEpisodesShape DEF Pod!Refill
<1> QED  BY <1>1, <1>2

LEMMA PodFeedsReceived ==
  ASSUME PodInv, NEW c \in calls, Pod!Handle(c), Pod!FeedsReceived(c)
  PROVE  PodInv'
<1> USE DEF PodInv
<1>1. UNCHANGED <<feeds, usedFeeds, episodes, made>>
  BY DEF Pod!Handle, Pod!database
<1>2. /\ c.op = "list" /\ picker' = c.data /\ picked' = Pod!Current(c.data) /\ rows' = {}
      /\ behind' = Pod!GoesBack("feeds", picker, c.data, feeds) \ {"rows"}
  BY DEF Pod!FeedsReceived
<1>3. Sending({c}, Pod!Refill(c.data)) /\ c.at = "answered"
  BY PodSettles DEF Pod!FeedsReceived
<1>4. c.data \subseteq Pod!Feeds
  BY <1>2, <1>3 DEF PodCalls
<1>5. /\ picked' \in picker' \union {NoFeed} /\ (picked' # NoFeed => picked' \in Pod!Feeds)
      /\ picked' # NoFeed => Pod!ListEpisodes(picked', "again") \in Pod!Refill(c.data)
      /\ \A r \in Pod!Refill(c.data) : PodShape(r.op, r.arg)
  BY <1>2, <1>4, PodRefill
<1>6. PodCalls'
  BY <1>1, <1>3, <1>5, PodCallsSent
<1>7. Pod!TypeOK'
  <2>1. behind' \subseteq Pod!Parts
    BY <1>2 DEF Pod!GoesBack, Pod!Parts, Pod!TypeOK
  <2> QED  BY <1>1, <1>2, <1>4, <1>5, <2>1 DEF Pod!TypeOK
<1>8. PickerExplained'
  <2>1. CASE c.data = feeds
    BY <1>1, <1>2, <2>1 DEF PickerExplained
  <2>2. CASE c.data # feeds /\ picker = feeds
    BY <1>2, <2>2 DEF PickerExplained, Pod!GoesBack
  <2>3. CASE c.data # feeds /\ picker # feeds
    <3>1. behind' = behind \ {"rows"}
      BY <1>2, <2>3 DEF Pod!GoesBack
    <3>2. Pod!Comes("list", feeds) => Pod!Comes("list", feeds)'
      BY <1>1, <1>3, <2>3 DEF Pod!Comes, Sending, PodCalls, PodShape
    <3>3. Pod!Pending({"addFeed", "deleteFeed"})
            => Pod!Pending({"addFeed", "deleteFeed"})'
      BY <1>2, <1>3 DEF Pod!Pending, Sending
    <3> QED  BY <1>1, <2>3, <3>1, <3>2, <3>3, PodExplainedParts DEF PickerExplained
  <2> QED  BY <2>1, <2>2, <2>3
<1>9. RowsExplained'
  <2> SUFFICES ASSUME picked' # NoFeed PROVE Pod!Comes("episodes", Pod!EpisodesOf(picked))'
    BY DEF RowsExplained
  <2>1. PICK x \in calls' : Issued(x, Pod!ListEpisodes(picked', "again"))
    BY <1>3, <1>5 DEF Sending
  <2>2. x.op = "episodes" /\ x.arg.feed = picked' /\ x.at = "sent"
    BY <1>5, <2>1, PodEpisodesShape DEF Issued
  <2> QED  BY <2>2 DEF Pod!Comes
<1> QED  BY <1>6, <1>7, <1>8, <1>9, PodExplainedParts

LEMMA PodHandle == ASSUME PodInv, NEW c \in calls, Pod!Handle(c) PROVE PodInv'
<1> USE DEF PodInv
<1> DEFINE O == {"list", "deleteFeed", "addEpisode", "deleteEpisode"}
<1>1. UNCHANGED <<feeds, usedFeeds, episodes, made>>
  BY DEF Pod!Handle, Pod!database
<1>2. CASE Pod!EpisodesReceived(c)
  <2>1. c.op = "episodes" /\ UNCHANGED <<picker, picked>>
    BY <1>2 DEF Pod!EpisodesReceived
  <2>2. Sending({c}, {}) /\ c.at = "answered"
    BY <1>2, PodSettles DEF Pod!EpisodesReceived
  <2>3. PodCalls'
    BY <1>1, <2>2, PodCallsSent
  <2>4. c.data \subseteq 1..made /\ c.arg.feed # NoFeed
    BY <2>1, <2>2, PodcastsPageAssumption DEF PodCalls, PodShape, Pod!Feeds
  <2>5. Pod!Pending(O) => Pod!Pending(O)'
    BY <2>1, <2>2 DEF Pod!Pending, Sending
  <2>6. behind \ {"rows"} \subseteq behind' /\ behind' \subseteq Pod!Parts
    BY <1>2 DEF Pod!EpisodesReceived, Pod!GoesBack, Pod!TypeOK, Pod!Parts
  <2>7. PickerExplained'
    BY <1>1, <2>1, <2>2, <2>6, PodExplainedParts
       DEF PickerExplained, Pod!Comes, Pod!Pending, Sending
  <2>8. CASE c.arg.feed = picked
    <3>1. /\ rows' = c.data
          /\ behind' = Pod!GoesBack("rows", rows, c.data, Pod!EpisodesOf(picked))
      BY <1>2, <2>8 DEF Pod!EpisodesReceived, Pod!IsCurrent
    <3>2. Pod!TypeOK'
      BY <1>1, <2>1, <2>4, <2>6, <3>1 DEF Pod!TypeOK
    <3>3. Pod!EpisodesOf(picked)' = Pod!EpisodesOf(picked)
      BY <1>1, <2>1 DEF Pod!EpisodesOf
    <3>4. RowsExplained'
      <4>1. CASE c.data = Pod!EpisodesOf(picked)
        BY <3>1, <3>3, <4>1 DEF RowsExplained
      <4>2. CASE c.data # Pod!EpisodesOf(picked) /\ rows = Pod!EpisodesOf(picked)
        BY <3>1, <4>2 DEF RowsExplained, Pod!GoesBack
      <4>3. CASE c.data # Pod!EpisodesOf(picked) /\ rows # Pod!EpisodesOf(picked)
        <5>1. behind' = behind
          BY <3>1, <4>3 DEF Pod!GoesBack
        <5>2. Pod!Comes("episodes", Pod!EpisodesOf(picked))
                => Pod!Comes("episodes", Pod!EpisodesOf(picked))'
          BY <2>1, <2>2, <3>3, <4>3 DEF Pod!Comes, Sending
        <5> QED  BY <2>1, <2>5, <3>3, <4>3, <5>1, <5>2, PodExplainedParts
                    DEF RowsExplained
      <4> QED  BY <4>1, <4>2, <4>3
    <3> QED  BY <2>3, <2>7, <3>2, <3>4, PodExplainedParts
  <2>9. CASE c.arg.feed # picked
    <3>1. UNCHANGED <<rows, behind>>
      BY <1>2, <2>9 DEF Pod!EpisodesReceived, Pod!IsCurrent
    <3>2. Pod!TypeOK'
      BY <1>1, <2>1, <3>1 DEF Pod!TypeOK
    <3>3. Pod!EpisodesOf(picked)' = Pod!EpisodesOf(picked)
      BY <1>1, <2>1 DEF Pod!EpisodesOf
    <3>4. Pod!Comes("episodes", Pod!EpisodesOf(picked))
            => Pod!Comes("episodes", Pod!EpisodesOf(picked))'
      BY <2>1, <2>2, <2>4, <2>9, <3>3 DEF Pod!Comes, Sending
    <3>5. RowsExplained'
      BY <2>1, <2>5, <3>1, <3>3, <3>4, PodExplainedParts DEF RowsExplained
    <3> QED  BY <2>3, <2>7, <3>2, <3>5, PodExplainedParts
  <2> QED  BY <2>8, <2>9
<1>3. CASE Pod!FeedChanged(c) \/ Pod!EpisodeChanged(c)
  <2>1. /\ c.op \in {"addFeed", "deleteFeed", "addEpisode", "deleteEpisode"}
        /\ UNCHANGED <<picker, picked, rows, behind>>
    BY <1>3 DEF Pod!FeedChanged, Pod!EpisodeChanged, Pod!page
  <2>2. PICK R : Pod!Settle(c, R) /\ Pod!List \in R /\ \A r \in R : PodShape(r.op, r.arg)
    <3>1. CASE Pod!FeedChanged(c)
      BY <3>1, PodListShape DEF Pod!FeedChanged, Pod!RefreshFeeds
    <3>2. CASE Pod!EpisodeChanged(c)
      <4>1. c.arg.feed \in Pod!Feeds
        BY <3>2 DEF Pod!EpisodeChanged, PodCalls, PodShape
      <4>2. c.arg.feed = picked =>
              PodShape(Pod!ListEpisodes(picked, "only").op,
                       Pod!ListEpisodes(picked, "only").arg)
        BY <4>1, PodEpisodesShape
      <4> QED  BY <3>2, <4>2, PodListShape DEF Pod!EpisodeChanged
    <3> QED  BY <1>3, <3>1, <3>2
  <2>3. Sending({c}, R)
    BY <2>2, PodSettles
  <2>4. PodCalls'
    BY <1>1, <2>2, <2>3, PodCallsSent
  <2>5. Pod!TypeOK'
    BY <1>1, <2>1 DEF Pod!TypeOK
  <2>6. \E x \in calls' : x.op = "list" /\ x.at = "sent" /\ x.arg.feed = NoFeed
    BY <2>2, <2>3, PodListShape DEF Sending, Issued, PodShape
  <2>7. PickerExplained' /\ RowsExplained'
    BY <2>6 DEF PickerExplained, RowsExplained, Pod!Comes, Pod!Pending
  <2> QED  BY <2>4, <2>5, <2>7, PodExplainedParts
<1> QED  BY <1>2, <1>3, PodFeedsReceived DEF Pod!Handle

LEMMA PodFails == ASSUME PodInv, NEW c \in calls, Pod!RequestFails(c) PROVE PodInv'
<1> USE DEF PodInv
<1>1. /\ calls' = calls \ {c} /\ behind' = behind \union Pod!Parts
      /\ UNCHANGED <<clicks, feeds, usedFeeds, episodes, made, picker, picked, rows>>
  BY DEF Pod!RequestFails, Pod!Fail, Pod!database, Pod!page
<1>2. PodCalls'
  BY <1>1 DEF PodCalls, PodShape
<1>3. Pod!TypeOK'
  BY <1>1 DEF Pod!TypeOK
<1>4. Pod!PodcastsExplained'
  BY <1>1 DEF Pod!PodcastsExplained, Pod!Parts
<1> QED  BY <1>2, <1>3, <1>4

LEMMA PodStep == PodInv /\ [Pod!Next]_(Pod!vars) => PodInv'
<1>1. ASSUME PodInv, UNCHANGED Pod!vars PROVE PodInv'
  BY <1>1 DEF Pod!vars, Pod!database, Pod!page, PodInv, Pod!TypeOK, PodCalls, PodShape,
              Pod!PodcastsExplained, Pod!Comes, Pod!Pending, Pod!EpisodesOf
<1> QED  BY <1>1, PodUser, PodServe, PodHandle, PodFails DEF Pod!Next

-----------------------------------------------------------------------------
(* The podcasts page's daemon and PodcastService.                            *)

Entry(f) == [id |-> f, user |-> "me", slug |-> f]
Posted(e) == [id |-> e.id, feed |-> e.feed, by |-> "me", second |-> 0]

LEMMA PodDaemonInit == Pod!Init => Pod!Service!AInit
<1> SUFFICES ASSUME Pod!Init PROVE Pod!Service!AInit
  OBVIOUS
<1>1. PICK home \in [1..made -> feeds] :
        episodes = {[id |-> i, feed |-> home[i]] : i \in 1..made}
  BY DEF Pod!Init
<1> DEFINE E == {Posted(e) : e \in episodes}
<1>2. \A e \in E : e.id \in 1..made /\ e.feed = home[e.id] /\ e.by = "me"
  BY <1>1 DEF Posted
<1>3. \A d, e \in E : d.id = e.id => d = e
  BY <1>2 DEF Posted
<1>4. \A e \in E : \E x \in {Entry(f) : f \in feeds} : x.id = e.feed /\ x.user = e.by
  <2>1. \A f \in feeds : Entry(f).id = f /\ Entry(f).user = "me"
    BY DEF Entry
  <2>2. \A e \in E : e.feed \in feeds
    BY <1>1, <1>2
  <2> HIDE DEF E
  <2> QED  BY <1>2, <2>1, <2>2
<1>5. usedFeeds = feeds
  BY DEF Pod!Init
<1> QED  BY <1>2, <1>3, <1>4, <1>5 DEF Pod!Service!AInit, Entry, Posted

LEMMA PodDaemonStep ==
  ASSUME PodInv, Pod!Next PROVE Pod!Service!ANext \/ UNCHANGED Pod!Service!avars
<1>1. CASE UNCHANGED <<feeds, usedFeeds, episodes, made>>
  BY <1>1 DEF Pod!Service!avars
<1>2. ASSUME NEW c \in calls, Pod!CreateFeed(c)
      PROVE  Pod!Service!ANext
  <2>1. PICK f \in Pod!Feeds \ usedFeeds :
          feeds' = feeds \union {f} /\ usedFeeds' = usedFeeds \union {f}
    BY <1>2 DEF Pod!CreateFeed
  <2>2. f \notin feeds
    BY <2>1 DEF PodInv, Pod!TypeOK
  <2>3. Pod!Service!Claim("me", f)
    BY <1>2, <2>1, <2>2 DEF Pod!CreateFeed, Pod!Service!Claim
  <2> QED  BY <2>1, <2>3 DEF Pod!Service!ANext
<1>3. ASSUME NEW c \in calls, Pod!RemoveFeed(c)
      PROVE  Pod!Service!ANext
  <2> DEFINE x == Entry(c.arg.feed)
  <2>1. x \in {Entry(f) : f \in feeds} /\ x.id = c.arg.feed
    BY <1>3 DEF Pod!RemoveFeed, Entry
  <2>2. {Entry(f) : f \in feeds'} = {Entry(f) : f \in feeds} \ {x}
    BY <1>3 DEF Pod!RemoveFeed, Entry
  <2>3. {Posted(e) : e \in episodes'}
          = {Posted(e) : e \in episodes}
              \ {y \in {Posted(e) : e \in episodes} : y.feed = x.id}
    BY <1>3, <2>1 DEF Pod!RemoveFeed, Posted
  <2>4. Pod!Service!Retire(x)
    BY <1>3, <2>1, <2>2, <2>3
       DEF Pod!RemoveFeed, Pod!Service!Retire, Pod!Service!EpisodesOf, Entry, Posted
  <2> QED  BY <2>1, <2>4 DEF Pod!Service!ANext, Entry
<1>4. ASSUME NEW c \in calls, Pod!CreateEpisode(c)
      PROVE  Pod!Service!ANext
  <2> DEFINE x == Entry(c.arg.feed)
  <2>1. x \in {Entry(f) : f \in feeds} /\ x.id = c.arg.feed /\ x.user = "me"
    BY <1>4 DEF Pod!CreateEpisode, Entry
  <2>2. made + 1 \in (1..MaxEpisodes) \ (1..made) /\ 1..(made + 1) = 1..made \union {made + 1}
    BY <1>4, PodcastsPageAssumption DEF Pod!CreateEpisode, PodInv, Pod!TypeOK
  <2>3. {Posted(e) : e \in episodes'}
          = {Posted(e) : e \in episodes}
              \union {[id |-> made + 1, feed |-> x.id, by |-> x.user, second |-> 0]}
    <3> DEFINE new == [id |-> made + 1, feed |-> c.arg.feed]
    <3>1. episodes' = episodes \union {new}
      BY <1>4 DEF Pod!CreateEpisode
    <3>2. Posted(new) = [id |-> made + 1, feed |-> x.id, by |-> x.user, second |-> 0]
      BY DEF Posted, Entry
    <3> HIDE DEF new, x
    <3> QED  BY <3>1, <3>2
  <2>4. Pod!Service!Post(x)
    BY <1>4, <2>1, <2>2, <2>3 DEF Pod!CreateEpisode, Pod!Service!Post, Entry, Posted
  <2> QED  BY <2>1, <2>4 DEF Pod!Service!ANext, Entry
<1>5. ASSUME NEW c \in calls, Pod!RemoveEpisode(c)
      PROVE  Pod!Service!ANext
  <2>1. PICK e \in episodes : episodes' = episodes \ {e}
    BY <1>5 DEF Pod!RemoveEpisode
  <2>2. \A d \in episodes : Posted(d) = Posted(e) => d = e
    BY DEF Posted, PodInv, Pod!TypeOK
  <2>3. {Posted(d) : d \in episodes'} = {Posted(d) : d \in episodes} \ {Posted(e)}
    BY <2>1, <2>2
  <2>4. Pod!Service!Remove(Posted(e))
    BY <1>5, <2>3 DEF Pod!RemoveEpisode, Pod!Service!Remove, Posted
  <2> QED  BY <2>4 DEF Pod!Service!ANext, Posted
<1>6. ASSUME NEW c \in calls, Pod!Serve(c)
      PROVE  Pod!Service!ANext \/ UNCHANGED Pod!Service!avars
  BY <1>1, <1>2, <1>3, <1>4, <1>5, <1>6
     DEF Pod!Serve, Pod!ReadFeeds, Pod!ReadEpisodes, Pod!database
<1>7. CASE Pod!User \/ \E c \in calls : Pod!Handle(c) \/ Pod!RequestFails(c)
  BY <1>1, <1>7 DEF Pod!User, Pod!Handle, Pod!RequestFails, Pod!database
<1> QED  BY <1>6, <1>7 DEF Pod!Next

-----------------------------------------------------------------------------
(* The pages of the list of stations.                                        *)

LEMMA StIssued == \A r : Issued(St!Fresh(r), r)
  BY DEF St!Fresh, Issued

LEMMA StSends == ASSUME NEW R, St!Send(R) PROVE Sending({}, R)
  BY StIssued DEF St!Send, Sending

LEMMA StSettles ==
  ASSUME NEW c, NEW R, St!Settle(c, R)
  PROVE  Sending({c}, R) /\ c.at = "answered"
  BY StIssued DEF St!Settle, Sending

(* What the answers say.                                                     *)
StCalls ==
  \A c \in calls :
    /\ c.op = "stations" /\ c.at = "answered" => c.data.stations \subseteq everMine
    /\ c.op = "history" /\ c.at = "answered" => c.data.spins \in Nat

ListExplained ==
  list # mine /\ "list" \notin behind =>
    \E c \in calls : c.op \in {"create", "update", "delete"}
                     \/ (c.op = "stations" /\ (c.at = "sent" \/ c.data.stations = mine))
HistoryExplained ==
  picked # NoStation /\ "history" \notin behind =>
    \/ history = [station |-> picked, spins |-> spins[picked]]
    \/ \E c \in calls : c.op = "history" /\ c.arg = picked

StInv == St!TypeOK /\ StCalls /\ St!StationsExplained

LEMMA StExplainedParts ==
  /\ St!StationsExplained <=> ListExplained /\ HistoryExplained
  /\ St!StationsExplained' <=> ListExplained' /\ HistoryExplained'
  BY DEF St!StationsExplained, ListExplained, HistoryExplained

LEMMA StInit == St!Init => StInv
<1> SUFFICES ASSUME St!Init PROVE StInv
  OBVIOUS
<1> USE DEF St!ServersBuilt, St!DataQueueBuilt, St!ComposerBuilt
<1>1. St!TypeOK
  BY StationPagesAssumption DEF St!Init, St!TypeOK, St!Cleared
<1>2. StCalls
  BY DEF St!Init, StCalls
<1>3. 1 \in 1..Bounds["stations"].same
  BY BoundsAssumption
<1>4. \E c \in calls : c.op = "stations" /\ c.at = "sent"
  <2> DEFINE x == [op |-> "stations", arg |-> NoStation, n |-> 1, at |-> "sent",
                   data |-> Unanswered]
  <2>1. x \in calls /\ x.op = "stations" /\ x.at = "sent"
    BY <1>3 DEF St!Init
  <2> QED  BY <2>1
<1>5. St!StationsExplained
  BY <1>4 DEF St!Init, St!StationsExplained
<1> QED  BY <1>1, <1>2, <1>5 DEF StInv

(* Requests are sent, instead of the settled ones, and the database stays.   *)
LEMMA StCallsSent ==
  ASSUME StCalls, NEW gone, NEW R, Sending(gone, R), everMine' = everMine
  PROVE  StCalls'
  BY DEF StCalls, Sending, Issued

(* Only requests are sent, or the rows and the target change.                *)
LEMMA StAsks ==
  ASSUME StInv, NEW R, Sending({}, R),
         UNCHANGED <<St!database, list, picked, history, behind>>,
         {selected', target'} \subseteq list \union {NoStation}
  PROVE  StInv'
<1> USE DEF StInv
<1>1. StCalls'
  BY StCallsSent DEF St!database
<1>2. St!TypeOK'
  BY DEF St!TypeOK, St!database
<1>3. ListExplained'
  BY StExplainedParts DEF ListExplained, Sending, St!database
<1>4. HistoryExplained'
  BY StExplainedParts DEF HistoryExplained, Sending, St!database
<1> QED  BY <1>1, <1>2, <1>3, <1>4, StExplainedParts

LEMMA StUser == ASSUME StInv, St!User PROVE StInv'
<1> USE DEF StInv
<1>1. UNCHANGED St!database
  BY DEF St!User
<1>2. ASSUME NEW r, St!Ask(r) PROVE StInv'
  <2>1. Sending({}, {r}) /\ UNCHANGED <<list, selected, picked, target, history, behind>>
    BY <1>2, StSends DEF St!Ask, St!pages, St!serversPage, St!dataQueuePage, St!composer
  <2> QED  BY <1>1, <2>1, StAsks DEF St!TypeOK
<1>3. CASE St!Refresh
  BY <1>2, <1>3 DEF St!Refresh, St!Ask
<1>4. CASE St!Add \/ St!Edit \/ St!Remove \/ St!Push
  BY <1>2, <1>4 DEF St!Add, St!Edit, St!Remove, St!Push
<1>5. ASSUME NEW s \in St!Ids, St!SelectRow(s) \/ St!PickTarget(s) PROVE StInv'
  <2>1. /\ UNCHANGED <<calls, list, picked, history, behind>>
        /\ {selected', target'} \subseteq list \union {NoStation}
    BY <1>5 DEF St!SelectRow, St!PickTarget, St!TypeOK
  <2>2. Sending({}, {})
    BY <2>1 DEF Sending
  <2> QED  BY <1>1, <2>1, <2>2, StAsks
<1>6. ASSUME NEW s \in list \union {picked}, NEW R, St!SpinHistory(s) \in R, St!Send(R),
             picked' = s, behind' = behind \ {"history"},
             UNCHANGED <<list, selected, target, history>>
      PROVE  StInv'
  <2>1. Sending({}, R)
    BY <1>6, StSends
  <2>2. StCalls'
    BY <1>1, <2>1, StCallsSent DEF St!database
  <2>3. St!TypeOK'
    BY <1>1, <1>6 DEF St!TypeOK, St!database
  <2>4. ListExplained'
    BY <1>1, <1>6, <2>1, StExplainedParts DEF ListExplained, Sending, St!database
  <2>5. St!SpinHistory(s).op = "history" /\ St!SpinHistory(s).arg = s
    BY DEF St!SpinHistory, St!Request
  <2>6. \E c \in calls' : c.op = "history" /\ c.arg = picked'
    BY <1>6, <2>1, <2>5 DEF Sending, Issued
  <2>7. HistoryExplained'
    BY <2>6 DEF HistoryExplained
  <2> QED  BY <2>2, <2>3, <2>4, <2>7, StExplainedParts
<1>7. ASSUME NEW s \in St!Ids, St!PickHistory(s) PROVE StInv'
  BY <1>6, <1>7 DEF St!PickHistory
<1>8. CASE St!RefreshQueue /\ picked # NoStation
  BY <1>6, <1>8 DEF St!RefreshQueue
<1>9. CASE St!RefreshQueue /\ picked = NoStation
  <2>1. /\ St!Send({St!List, St!Queue}) /\ history' = St!Cleared
        /\ UNCHANGED <<list, selected, picked, target, behind>>
    BY <1>9 DEF St!RefreshQueue
  <2>2. Sending({}, {St!List, St!Queue})
    BY <2>1, StSends
  <2>3. StCalls'
    BY <1>1, <2>2, StCallsSent DEF St!database
  <2>4. St!TypeOK'
    BY <1>1, <2>1 DEF St!TypeOK, St!database, St!Cleared
  <2>5. ListExplained' /\ HistoryExplained'
    BY <1>1, <1>9, <2>1, <2>2, StExplainedParts
       DEF ListExplained, HistoryExplained, Sending, St!database
  <2> QED  BY <2>3, <2>4, <2>5, StExplainedParts
<1> QED  BY <1>3, <1>4, <1>5, <1>7, <1>8, <1>9 DEF St!User

LEMMA StServe == ASSUME StInv, NEW c \in calls, St!Serve(c) PROVE StInv'
<1> USE DEF StInv
<1>1. /\ UNCHANGED <<clicks, list, selected, picked, target, history>>
      /\ behind' = IF c.op = "push" THEN behind \union {"history"} ELSE behind
  BY DEF St!Serve, St!pages, St!serversPage, St!dataQueuePage, St!composer
<1>2. ASSUME NEW d, St!Answer(c, d),
             c.op = "stations" => d.stations = mine,
             c.op = "history" => d.spins \in Nat,
             everMine \subseteq everMine', everMine' \subseteq St!Ids,
             mine' \subseteq everMine',
             spins' \in [St!Ids -> 0..MaxSpins],
             c.op \in {"create", "delete"} \/ mine' = mine,
             c.op = "push" \/ spins' = spins
      PROVE  StInv'
  <2>1. PICK a : /\ a.op = c.op /\ a.arg = c.arg /\ a.at = "answered" /\ a.data = d
                 /\ calls' = (calls \ {c}) \union {a}
    BY <1>2 DEF St!Answer, St!Answered
  <2>2. St!TypeOK'
    BY <1>1, <1>2 DEF St!TypeOK
  <2>3. StCalls'
    BY <1>2, <2>1 DEF StCalls, St!TypeOK
  <2>4. ListExplained'
    BY <1>1, <1>2, <2>1, StExplainedParts DEF ListExplained
  <2>5. HistoryExplained'
    BY <1>1, <1>2, <2>1, StExplainedParts DEF HistoryExplained
  <2> QED  BY <2>2, <2>3, <2>4, <2>5, StExplainedParts
<1>3. CASE St!ReadStations(c)
  BY <1>2, <1>3 DEF St!ReadStations, St!Told, St!database, St!TypeOK
<1>4. CASE St!ReadQueue(c) \/ St!UpdateStation(c)
  BY <1>2, <1>4 DEF St!ReadQueue, St!UpdateStation, St!database, St!TypeOK
<1>5. CASE St!ReadHistory(c)
  <2>1. spins[c.arg] \in Nat
    BY <1>5, StationPagesAssumption DEF St!ReadHistory, St!TypeOK
  <2> QED  BY <1>2, <1>5, <2>1 DEF St!ReadHistory, St!database, St!TypeOK
<1>6. CASE St!CreateStation(c)
  BY <1>2, <1>6 DEF St!CreateStation, St!TypeOK
<1>7. CASE St!DeleteStation(c)
  BY <1>2, <1>7 DEF St!DeleteStation, St!TypeOK
<1>8. CASE St!AcceptSpin(c)
  <2>1. /\ c.op = "push" /\ St!Answer(c, St!Told({})) /\ UNCHANGED <<mine, everMine>>
        /\ c.arg \in St!Ids /\ spins[c.arg] < MaxSpins
        /\ spins' = [spins EXCEPT ![c.arg] = @ + 1]
    BY <1>8 DEF St!AcceptSpin, St!TypeOK
  <2>2. spins' \in [St!Ids -> 0..MaxSpins]
    BY <2>1, StationPagesAssumption DEF St!TypeOK
  <2> QED  BY <1>2, <2>1, <2>2 DEF St!TypeOK
<1> QED  BY <1>3, <1>4, <1>5, <1>6, <1>7, <1>8 DEF St!Serve

(* Refilling the picker leaves a station of the list picked, and passes it.  *)
LEMMA StRefill ==
  ASSUME St!TypeOK, NEW L \in SUBSET St!Ids
  PROVE  /\ {St!First(L), St!PickAgain(L)} \subseteq L \union {NoStation}
         /\ St!PickAgain(L) # NoStation => St!PickAgain(L) \in St!Passed(L)
<1>1. CASE L = {}
  BY <1>1 DEF St!First, St!PickAgain, St!Passed
<1>2. CASE L # {}
  <2>1. L \in SUBSET Nat
    BY StationPagesAssumption DEF St!Ids
  <2>2. St!Min(L) \in L
    BY <1>2, <2>1, LeastExists DEF St!Min
  <2> QED  BY <1>2, <2>2 DEF St!First, St!PickAgain, St!Passed
<1> QED  BY <1>1, <1>2

LEMMA StStationsReceived ==
  ASSUME StInv, NEW c \in calls, St!StationsReceived(c), UNCHANGED St!database
  PROVE  StInv'
<1> USE DEF StInv
<1> DEFINE now == c.data.stations
           R == {St!SpinHistory(s) : s \in St!Passed(now)}
<1>1. /\ c.op = "stations" /\ list' = now /\ selected' = NoStation
      /\ picked' = St!PickAgain(now) /\ target' = St!First(now)
      /\ history' = IF picked = NoStation THEN history ELSE St!Cleared
      /\ behind' = (IF now = mine THEN behind \ {"list"}
                    ELSE IF list = mine THEN behind \union {"list"}
                    ELSE behind) \ {"history"}
  BY DEF St!StationsReceived
<1>2. Sending({c}, R) /\ c.at = "answered"
  BY StSettles DEF St!StationsReceived
<1>3. now \subseteq everMine /\ now \in SUBSET St!Ids
  BY <1>1, <1>2 DEF StCalls, St!TypeOK
<1>4. /\ picked' \in now \union {NoStation} /\ target' \in now \union {NoStation}
      /\ picked' # NoStation => St!SpinHistory(picked') \in R
  BY <1>1, <1>3, StRefill
<1> HIDE DEF R
<1>5. StCalls'
  BY <1>2, StCallsSent DEF St!database
<1>6. St!TypeOK'
  BY <1>1, <1>3, <1>4 DEF St!TypeOK, St!database, St!Cleared
<1>7. ListExplained'
  BY <1>1, <1>2, StExplainedParts DEF ListExplained, Sending, St!database
<1>8. HistoryExplained'
  <2>1. ASSUME picked' # NoStation PROVE \E x \in calls' : x.op = "history" /\ x.arg = picked'
    <3>1. St!SpinHistory(picked').op = "history" /\ St!SpinHistory(picked').arg = picked'
      BY DEF St!SpinHistory, St!Request
    <3> QED  BY <1>2, <1>4, <2>1, <3>1 DEF Sending, Issued
  <2> QED  BY <2>1 DEF HistoryExplained
<1> QED  BY <1>5, <1>6, <1>7, <1>8, StExplainedParts

LEMMA StHandle == ASSUME StInv, NEW c \in calls, St!Handle(c) PROVE StInv'
<1> USE DEF StInv
<1>1. UNCHANGED St!database
  BY DEF St!Handle
<1>2. CASE St!HistoryReceived(c)
  <2>1. c.op = "history" /\ UNCHANGED <<list, selected, picked, target>>
    BY <1>2 DEF St!HistoryReceived
  <2>2. Sending({c}, {}) /\ c.at = "answered"
    BY <1>2, StSettles DEF St!HistoryReceived
  <2>3. StCalls'
    BY <1>1, <2>2, StCallsSent DEF St!database
  <2>4. c.data.spins \in Nat
    BY <2>1, <2>2 DEF StCalls
  <2>5. behind \ {"history"} \subseteq behind' /\ behind' \subseteq {"list", "history"}
    BY <1>2 DEF St!HistoryReceived, St!TypeOK
  <2>6. ListExplained'
    BY <1>1, <2>1, <2>2, <2>5, StExplainedParts DEF ListExplained, Sending, St!database
  <2>7. CASE c.arg = picked
    <3>1. /\ history' = [station |-> c.arg, spins |-> c.data.spins]
          /\ behind' = IF c.data.spins = spins[c.arg] THEN behind \ {"history"}
                       ELSE behind \union {"history"}
      BY <1>2, <2>7 DEF St!HistoryReceived, St!IsPicked
    <3>2. HistoryExplained'
      BY <1>1, <2>1, <2>7, <3>1 DEF HistoryExplained, St!database
    <3>3. St!TypeOK'
      BY <1>1, <2>1, <2>4, <2>5, <2>7, <3>1 DEF St!TypeOK, St!database
    <3> QED  BY <2>3, <2>6, <3>2, <3>3, StExplainedParts
  <2>8. CASE c.arg # picked
    <3>1. UNCHANGED <<history, behind>>
      BY <1>2, <2>8 DEF St!HistoryReceived, St!IsPicked
    <3>2. HistoryExplained'
      BY <1>1, <2>1, <2>2, <2>8, <3>1, StExplainedParts
         DEF HistoryExplained, Sending, St!database
    <3>3. St!TypeOK'
      BY <1>1, <2>1, <3>1 DEF St!TypeOK, St!database
    <3> QED  BY <2>3, <2>6, <3>2, <3>3, StExplainedParts
  <2> QED  BY <2>7, <2>8
<1>3. CASE St!StationChanged(c) \/ St!Noted(c)
  <2>1. UNCHANGED <<list, selected, picked, target, history, behind>> /\ c.op # "history"
    BY <1>3 DEF St!StationChanged, St!Noted, St!pages, St!serversPage,
                St!dataQueuePage, St!composer
  <2>2. PICK R : /\ Sending({c}, R)
                 /\ c.op \notin {"create", "update", "delete", "stations"} \/ St!List \in R
    BY <1>3, StSettles DEF St!StationChanged, St!Noted
  <2>3. StCalls'
    BY <1>1, <2>2, StCallsSent DEF St!database
  <2>4. St!TypeOK'
    BY <1>1, <2>1 DEF St!TypeOK, St!database
  <2>5. St!List.op = "stations"
    BY DEF St!List, St!Request
  <2>6. ListExplained'
    <3>1. CASE St!List \in R
      <4>1. \E x \in calls' : x.op = "stations" /\ x.at = "sent"
        BY <2>2, <2>5, <3>1 DEF Sending, Issued
      <4> QED  BY <4>1 DEF ListExplained
    <3>2. CASE St!List \notin R
      BY <1>1, <2>1, <2>2, <3>2, StExplainedParts
         DEF ListExplained, Sending, St!database
    <3> QED  BY <3>1, <3>2
  <2>7. HistoryExplained'
    BY <1>1, <2>1, <2>2, StExplainedParts DEF HistoryExplained, Sending, St!database
  <2> QED  BY <2>3, <2>4, <2>6, <2>7, StExplainedParts
<1> QED  BY <1>1, <1>2, <1>3, StStationsReceived DEF St!Handle

LEMMA StFails == ASSUME StInv, NEW c \in calls, St!RequestFails(c) PROVE StInv'
<1> USE DEF StInv
<1>1. /\ calls' = calls \ {c} /\ behind' = behind \union {"list", "history"}
      /\ UNCHANGED <<clicks, mine, everMine, spins, list, selected, picked, target, history>>
  BY DEF St!RequestFails, St!Fail, St!database, St!pages, St!serversPage,
         St!dataQueuePage, St!composer
<1>2. StCalls' /\ St!TypeOK' /\ St!StationsExplained'
  BY <1>1 DEF StCalls, St!TypeOK, St!StationsExplained
<1> QED  BY <1>2

LEMMA StStep == StInv /\ [St!Next]_(St!vars) => StInv'
<1>1. ASSUME StInv, UNCHANGED St!vars PROVE StInv'
  BY <1>1 DEF St!vars, St!database, St!pages, St!serversPage, St!dataQueuePage,
              St!composer, StInv, St!TypeOK, StCalls, St!StationsExplained
<1> QED  BY <1>1, StUser, StServe, StHandle, StFails DEF St!Next

-----------------------------------------------------------------------------
(* The media library.                                                        *)

LEMMA MedIssued == \A r : Issued(Med!Fresh(r), r)
  BY DEF Med!Fresh, Issued

LEMMA MedSends == ASSUME NEW R, Med!Send(R) PROVE Sending({}, R)
  BY MedIssued DEF Med!Send, Sending

LEMMA MedSettles ==
  ASSUME NEW c, NEW R, Med!Settle(c, R)
  PROVE  Sending({c}, R) /\ c.at = "answered"
  BY MedIssued DEF Med!Settle, Sending

(* What a request names, and what its answer says.                           *)
MedShape(op, arg) == op \in {"scan", "edit"} => arg.path \in Paths

MedCalls ==
  \A c \in calls :
    /\ MedShape(c.op, c.arg)
    /\ c.op = "list" /\ c.at = "answered" => c.data \subseteq [id : 1..MaxIds, path : Paths]

MedInv == Med!TypeOK /\ nextId # 0 /\ MedCalls /\ Med!ScanAccounted /\ Med!MediaExplained

LEMMA MedFound ==
  ASSUME Med!TypeOK, NEW q, NEW some \in Med!Found(items, q)
  PROVE  some \subseteq [id : 1..MaxIds, path : Paths]
<1>1. PICK kept \in Med!Newest({r \in Med!Mine(items) : r.path \in FoundBy[q]}, ListLimit) :
        some = Med!Shown(kept)
  BY DEF Med!Found
<1>2. kept \subseteq items
  BY <1>1 DEF Med!Newest, Med!Mine
<1>3. some = {[id |-> r.id, path |-> r.path] : r \in kept}
  BY <1>1 DEF Med!Shown
<1> QED  BY <1>2, <1>3 DEF Med!TypeOK

(* The rows of media_items.                                                  *)
MedRows == [id : 1..MaxIds, path : Paths, owner : {"me", "other"}, second : Seconds]

LEMMA MedListIs ==
  ASSUME NEW q PROVE Med!List(q).op = "list" /\ Med!List(q).arg.text = q
  BY DEF Med!List, Med!Request, Med!Arg

(* Media's sets are as finite as those of the theorems about them.           *)
LEMMA MedCardinality == \A S : Med!Cardinality(S) = Cardinality(S)
  BY Zenon DEF Med!Cardinality, Cardinality

LEMMA MedInit == Med!Init => MedInv
<1> SUFFICES ASSUME Med!Init PROVE MedInv
  OBVIOUS
<1>1. PICK scanned \in SUBSET Paths :
        \E id \in [scanned -> 1..Cardinality(scanned)], second \in [scanned -> Seconds] :
          items = {Med!Row(id[p], p, "me", second[p]) : p \in scanned}
  BY MedCardinality DEF Med!Init
<1>2. PICK id \in [scanned -> 1..Cardinality(scanned)], second \in [scanned -> Seconds] :
        items = {Med!Row(id[p], p, "me", second[p]) : p \in scanned}
  BY <1>1
<1>3. /\ IsFiniteSet(scanned) /\ Cardinality(scanned) \in Nat
      /\ Cardinality(scanned) <= Cardinality(Paths) /\ Cardinality(Paths) \in Nat
  BY FS_Subset, FS_CardinalityType, MediaAssumption
<1>4. 1..Cardinality(scanned) \subseteq 1..MaxIds
  BY <1>3, MediaAssumption
<1>5. items \subseteq MedRows
  BY <1>2, <1>4 DEF Med!Row, MedRows
<1>6. IsFiniteSet(items)
  <2> DEFINE f == [p \in scanned |-> Med!Row(id[p], p, "me", second[p])]
  <2>1. \A p \in scanned : f[p] \in items
    BY <1>2
  <2>2. f \in [scanned -> items] /\ \A r \in items : \E p \in scanned : f[p] = r
    BY <1>2, <2>1
  <2> HIDE DEF f
  <2>3. f \in Surjection(scanned, items)
    BY <2>2 DEF Surjection
  <2> QED  BY <1>3, <2>3, FS_Surjection
<1>7. nextId \in Nat /\ nextId # 0
  BY <1>6, FS_CardinalityType, MedCardinality DEF Med!Init
<1>8. Med!TypeOK
  BY <1>5, <1>7 DEF Med!Init, Med!TypeOK, MedRows
<1>9. MedCalls
  BY DEF Med!Init, MedCalls, MedShape
<1>10. Med!ScanAccounted
  BY DEF Med!Init, Med!ScanAccounted
<1>11. \E c \in calls : c.op = "list" /\ c.at = "sent" /\ c.arg.text = search
  BY MedListIs DEF Med!Init
<1>12. Med!MediaExplained
  BY <1>11 DEF Med!MediaExplained
<1> QED  BY <1>7, <1>8, <1>9, <1>10, <1>12 DEF MedInv

-----------------------------------------------------------------------------
(* Requests are sent, instead of the settled ones.                           *)
LEMMA MedCallsSent ==
  ASSUME MedCalls, NEW gone, NEW R, Sending(gone, R), \A r \in R : MedShape(r.op, r.arg)
  PROVE  MedCalls'
<1> SUFFICES ASSUME NEW x \in calls'
             PROVE  /\ MedShape(x.op, x.arg)
                    /\ x.op = "list" /\ x.at = "answered"
                         => x.data \subseteq [id : 1..MaxIds, path : Paths]
  BY DEF MedCalls, MedShape
<1>1. CASE x \in calls
  BY <1>1 DEF MedCalls
<1>2. CASE x \notin calls
  <2>1. PICK r \in R : Issued(x, r)
    BY <1>2 DEF Sending
  <2> QED  BY <2>1 DEF Issued
<1> QED  BY <1>1, <1>2

(* The database and the search stay, nothing is settled.                     *)
LEMMA MedKept ==
  ASSUME MedInv, NEW R, Sending({}, R), UNCHANGED <<items, nextId, search, table, behind>>
  PROVE  Med!MediaExplained'
<1>1. Med!Found(items, search)' = Med!Found(items, search)
  BY DEF Med!Found, Med!Mine
<1> QED  BY <1>1 DEF MedInv, Med!MediaExplained, Sending

LEMMA MedUser == ASSUME MedInv, Med!User PROVE MedInv'
<1> USE DEF MedInv
<1>1. UNCHANGED <<items, nextId>>
  BY DEF Med!User, Med!database
<1>2. \A q : MedShape(Med!List(q).op, Med!List(q).arg)
  BY MedListIs DEF MedShape
<1>3. ASSUME NEW q \in Texts, Med!Search(q) PROVE MedInv'
  <2>1. /\ search' = q /\ UNCHANGED <<table, scan, dialog, timer, imported, lost, behind>>
        /\ Sending({}, {Med!List(q)})
    BY <1>3, MedSends DEF Med!Search
  <2>2. MedCalls'
    BY <1>2, <2>1, MedCallsSent
  <2>3. Med!TypeOK' /\ Med!ScanAccounted'
    BY <1>1, <2>1 DEF Med!TypeOK, Med!ScanAccounted, Sending
  <2>4. \E c \in calls' : c.op = "list" /\ c.at = "sent" /\ c.arg.text = q
    BY <2>1, MedListIs DEF Sending, Issued
  <2>5. Med!MediaExplained'
    BY <2>1, <2>4 DEF Med!MediaExplained
  <2> QED  BY <1>1, <2>2, <2>3, <2>5
<1>4. ASSUME NEW files \in SUBSET Paths, Med!AddFiles(files) PROVE MedInv'
  <2>1. /\ UNCHANGED <<calls, search, table, timer, behind>>
        /\ dialog' = TRUE /\ scan' = files /\ imported' = {} /\ lost' = {}
    BY <1>4 DEF Med!AddFiles, Med!OpenScan
  <2>2. Sending({}, {})
    BY <2>1 DEF Sending
  <2>3. MedCalls' /\ Med!MediaExplained'
    BY <1>1, <2>1, <2>2, MedCallsSent, MedKept
  <2>4. Med!TypeOK' /\ Med!ScanAccounted'
    BY <1>1, <2>1 DEF Med!TypeOK, Med!ScanAccounted
  <2> QED  BY <1>1, <2>3, <2>4
<1>5. ASSUME NEW R, Med!Send(R), \A r \in R : MedShape(r.op, r.arg),
             UNCHANGED <<search, table, imported, lost, behind>>,
             scan' \subseteq Paths, dialog' \in BOOLEAN, timer' \in BOOLEAN
      PROVE  MedInv'
  <2>1. Sending({}, R)
    BY <1>5, MedSends
  <2>2. MedCalls' /\ Med!MediaExplained'
    BY <1>1, <1>5, <2>1, MedCallsSent, MedKept
  <2>3. Med!TypeOK' /\ Med!ScanAccounted'
    BY <1>1, <1>5, <2>1 DEF Med!TypeOK, Med!ScanAccounted, Sending
  <2> QED  BY <1>1, <2>2, <2>3
<1>6. CASE Med!CloseScan
  BY <1>2, <1>5, <1>6 DEF Med!CloseScan, Med!TypeOK
<1>7. ASSUME NEW r \in table, Med!Remove(r) PROVE MedInv'
  BY <1>5, <1>7
     DEF Med!Remove, Med!TypeOK, Med!page, Med!scanDialog, MedShape, Med!Request
<1>8. ASSUME NEW r \in table, Med!Edit(r) PROVE MedInv'
  <2>1. r.path \in Paths
    BY DEF Med!TypeOK
  <2>2. MedShape(Med!Metadata(r).op, Med!Metadata(r).arg)
    BY <2>1 DEF MedShape, Med!Metadata, Med!Request, Med!Arg
  <2> QED  BY <1>5, <1>8, <2>2 DEF Med!Edit, Med!TypeOK
<1> QED  BY <1>3, <1>4, <1>6, <1>7, <1>8 DEF Med!User

LEMMA MedTick == ASSUME MedInv, NEW p \in Paths, Med!Tick(p) PROVE MedInv'
<1> USE DEF MedInv
<1> DEFINE r == Med!Request("scan", Med!Arg(Med!NoText, p, 0))
<1>1. r.op = "scan" /\ r.arg.path = p /\ MedShape(r.op, r.arg)
  BY DEF Med!Request, Med!Arg, MedShape
<1>2. Sending({}, {r})
  BY MedSends DEF Med!Tick
<1> HIDE DEF r
<1>3. /\ scan' = scan \ {p} /\ imported' = imported \union {p}
      /\ UNCHANGED <<items, nextId, search, table, dialog, timer, lost, behind>>
  BY DEF Med!Tick, Med!database
<1>4. MedCalls' /\ Med!MediaExplained'
  BY <1>1, <1>2, <1>3, MedCallsSent, MedKept
<1>5. \E c \in calls' : c.op = "scan" /\ c.arg.path = p /\ c.at = "sent"
  BY <1>1, <1>2 DEF Sending, Issued
<1>6. Med!ScanAccounted'
  BY <1>2, <1>3, <1>5 DEF Med!ScanAccounted, Sending
<1>7. Med!TypeOK'
  BY <1>3 DEF Med!TypeOK
<1> QED  BY <1>3, <1>4, <1>6, <1>7

LEMMA MedTimeOut == ASSUME MedInv, Med!TimeOut PROVE MedInv'
<1> USE DEF MedInv
<1>1. Sending({}, {Med!List(search)}) /\ MedShape(Med!List(search).op, Med!List(search).arg)
  BY MedSends, MedListIs DEF Med!TimeOut, MedShape
<1>2. /\ timer' = FALSE
      /\ UNCHANGED <<items, nextId, search, table, scan, dialog, imported, lost, behind>>
  BY DEF Med!TimeOut, Med!database
<1>3. MedCalls' /\ Med!MediaExplained'
  BY <1>1, <1>2, MedCallsSent, MedKept
<1>4. Med!TypeOK' /\ Med!ScanAccounted'
  BY <1>1, <1>2 DEF Med!TypeOK, Med!ScanAccounted, Sending
<1> QED  BY <1>2, <1>3, <1>4

-----------------------------------------------------------------------------
(* An upsert keeps the row of every other path, and leaves one of this path  *)
(* with its caller.                                                          *)
LEMMA MedUpsert ==
  ASSUME MedInv, NEW p \in Paths, NEW owner \in {"me", "other"}, Med!Upsert(p, owner)
  PROVE  /\ items' \subseteq MedRows
         /\ nextId' \in Nat /\ nextId' # 0
         /\ \A r \in items : r.path # p => r \in items'
         /\ \E r \in items' : r.path = p /\ r.owner = owner
<1> USE DEF MedInv
<1>1. /\ nextId \in 1..MaxIds /\ nextId' = nextId + 1
      /\ \E t \in Seconds : items' = Med!Upserted(p, owner, t)
  BY MediaAssumption DEF Med!Upsert, Med!TypeOK
<1>2. PICK t \in Seconds : items' = Med!Upserted(p, owner, t)
  BY <1>1
<1>3. \A id, u : /\ Med!Row(id, p, owner, u).path = p
                 /\ Med!Row(id, p, owner, u).owner = owner
                 /\ id \in 1..MaxIds /\ u \in Seconds => Med!Row(id, p, owner, u) \in MedRows
  BY DEF Med!Row, MedRows
<1>4. items \subseteq MedRows
  BY DEF Med!TypeOK, MedRows
<1>5. \A r \in items : r.id \in 1..MaxIds /\ r.second \in Seconds
  BY DEF Med!TypeOK
<1>6. CASE \E r \in items : r.path = p
  <2>1. items' = {IF r.path = p THEN Med!Row(r.id, p, owner, r.second) ELSE r : r \in items}
    BY <1>2, <1>6 DEF Med!Upserted
  <2> QED  BY <1>1, <1>3, <1>4, <1>5, <1>6, <2>1
<1>7. CASE ~ \E r \in items : r.path = p
  <2>1. items' = items \union {Med!Row(nextId, p, owner, t)}
    BY <1>2, <1>7 DEF Med!Upserted
  <2> QED  BY <1>1, <1>2, <1>3, <1>4, <2>1
<1> QED  BY <1>6, <1>7

LEMMA MedServe == ASSUME MedInv, NEW c \in calls, Med!Serve(c) PROVE MedInv'
<1> USE DEF MedInv
<1>1. UNCHANGED <<clicks, search, table, scan, dialog, timer, imported>>
  BY DEF Med!Serve, Med!page, Med!scanDialog
<1>2. CASE Med!ReadMedia(c)
  <2> PICK some \in Med!Found(items, c.arg.text) : Med!Answer(c, some)
    BY <1>2 DEF Med!ReadMedia
  <2>1. c.op = "list" /\ UNCHANGED <<items, nextId, lost, behind>>
    BY <1>2 DEF Med!ReadMedia, Med!database
  <2>2. PICK a : /\ a.op = c.op /\ a.arg = c.arg /\ a.at = "answered"
                 /\ a.data = some
                 /\ calls' = (calls \ {c}) \union {a}
    BY DEF Med!Answer, Med!Answered
  <2>3. MedCalls'
    BY <2>1, <2>2, MedFound DEF MedCalls, MedShape
  <2>4. Med!TypeOK' /\ Med!ScanAccounted'
    BY <1>1, <2>1, <2>2 DEF Med!TypeOK, Med!ScanAccounted
  <2>5. Med!Found(items, search)' = Med!Found(items, search)
    BY <1>1, <2>1 DEF Med!Found, Med!Mine
  <2>6. c.at = "sent" /\ (c.arg.text = search => a.data \in Med!Found(items, search))
    BY <2>2 DEF Med!Answer
  <2>7. Med!MediaExplained'
    BY <1>1, <2>1, <2>2, <2>5, <2>6 DEF Med!MediaExplained
  <2> QED  BY <2>1, <2>3, <2>4, <2>7
<1>3. CASE Med!SaveMedia(c)
  <2>1. /\ c.op \in {"scan", "edit"} /\ Med!Answer(c, {}) /\ Med!Upsert(c.arg.path, "me")
        /\ behind' = TRUE /\ lost' = lost
    BY <1>3 DEF Med!SaveMedia
  <2>2. PICK a : /\ a.op = c.op /\ a.arg = c.arg /\ a.at = "answered"
                 /\ calls' = (calls \ {c}) \union {a}
    BY <2>1 DEF Med!Answer, Med!Answered
  <2>3. c.arg.path \in Paths
    BY <2>1 DEF MedCalls, MedShape
  <2>4. /\ items' \subseteq MedRows
        /\ nextId' \in Nat /\ nextId' # 0
        /\ \A r \in items : r.path # c.arg.path => r \in items'
        /\ \E r \in items' : r.path = c.arg.path /\ r.owner = "me"
    BY <2>1, <2>3, MedUpsert
  <2>5. MedCalls'
    BY <2>1, <2>2 DEF MedCalls, MedShape
  <2>6. Med!TypeOK' /\ Med!MediaExplained'
    BY <1>1, <2>1, <2>4 DEF Med!TypeOK, Med!MediaExplained, MedRows
  <2>7. Med!ScanAccounted'
    <3> SUFFICES ASSUME NEW p \in imported \ lost
                 PROVE  \/ \E r \in items' : r.path = p /\ r.owner = "me"
                        \/ \E x \in calls' : x.op = "scan" /\ x.arg.path = p /\ x.at = "sent"
      BY <1>1, <2>1 DEF Med!ScanAccounted
    <3> QED  BY <2>2, <2>4 DEF Med!ScanAccounted
  <2> QED  BY <2>4, <2>5, <2>6, <2>7
<1>4. CASE Med!DeleteMedia(c)
  <2>1. /\ c.op = "delete" /\ Med!Answer(c, {}) /\ UNCHANGED <<nextId, behind>>
        /\ items' = items \ Med!Deleted(c)
        /\ lost' = lost \union {r.path : r \in Med!Deleted(c)}
    BY <1>4 DEF Med!DeleteMedia
  <2>2. PICK a : /\ a.op = c.op /\ a.arg = c.arg /\ a.at = "answered"
                 /\ calls' = (calls \ {c}) \union {a}
    BY <2>1 DEF Med!Answer, Med!Answered
  <2>3. MedCalls'
    BY <2>1, <2>2 DEF MedCalls, MedShape
  <2>4. Med!TypeOK'
    BY <1>1, <2>1 DEF Med!TypeOK, Med!Deleted
  <2>5. Med!MediaExplained'
    BY <2>1, <2>2 DEF Med!MediaExplained
  <2>6. Med!ScanAccounted'
    BY <1>1, <2>1, <2>2 DEF Med!ScanAccounted
  <2> QED  BY <2>1, <2>3, <2>4, <2>5, <2>6
<1> QED  BY <1>2, <1>3, <1>4 DEF Med!Serve

LEMMA MedOther == ASSUME MedInv, NEW p \in Paths, Med!OtherScans(p) PROVE MedInv'
<1> USE DEF MedInv
<1>1. /\ Med!Upsert(p, "other") /\ lost' = lost \union {p} /\ behind' = TRUE
      /\ UNCHANGED <<calls, clicks, search, table, scan, dialog, timer, imported>>
  BY DEF Med!OtherScans, Med!page, Med!scanDialog
<1>2. /\ items' \subseteq MedRows
      /\ nextId' \in Nat /\ nextId' # 0
      /\ \A r \in items : r.path # p => r \in items'
  BY <1>1, MedUpsert
<1>3. MedCalls'
  BY <1>1 DEF MedCalls, MedShape
<1>4. Med!TypeOK' /\ Med!MediaExplained' /\ Med!ScanAccounted'
  BY <1>1, <1>2 DEF Med!TypeOK, Med!MediaExplained, Med!ScanAccounted, MedRows
<1> QED  BY <1>2, <1>3, <1>4

-----------------------------------------------------------------------------

LEMMA MedHandle == ASSUME MedInv, NEW c \in calls, Med!Handle(c) PROVE MedInv'
<1> USE DEF MedInv
<1>1. UNCHANGED <<clicks, items, nextId>>
  BY DEF Med!Handle, Med!database
<1>2. CASE Med!MediaReceived(c)
  <2>1. /\ c.op = "list" /\ table' = c.data
        /\ behind' = IF c.data \in Med!Found(items, search) THEN FALSE
                     ELSE (table \in Med!Found(items, search)) \/ c.arg.text # search \/ behind
        /\ UNCHANGED <<search, scan, dialog, timer, imported, lost>>
    BY <1>2 DEF Med!MediaReceived
  <2>2. Sending({c}, {}) /\ c.at = "answered"
    BY <1>2, MedSettles DEF Med!MediaReceived
  <2>3. MedCalls'
    BY <2>2, MedCallsSent
  <2>4. behind' \in BOOLEAN
    BY <2>1
  <2>5. table' \subseteq [id : 1..MaxIds, path : Paths]
    BY <2>1, <2>2 DEF MedCalls
  <2>6. Med!TypeOK'
    BY <1>1, <2>1, <2>4, <2>5 DEF Med!TypeOK
  <2>7. Med!ScanAccounted'
    BY <1>1, <2>1, <2>2 DEF Med!ScanAccounted, Sending
  <2>8. Med!Found(items, search)' = Med!Found(items, search)
    BY <1>1, <2>1 DEF Med!Found, Med!Mine
  <2>9. Med!MediaExplained'
    BY <2>1, <2>2, <2>8 DEF Med!MediaExplained, Sending
  <2> QED  BY <1>1, <2>3, <2>6, <2>7, <2>9
<1>3. CASE Med!MediaDeleted(c)
  <2>1. UNCHANGED <<search, table, scan, dialog, timer, imported, lost, behind>>
    BY <1>3 DEF Med!MediaDeleted, Med!page, Med!scanDialog
  <2>2. Sending({c}, {Med!List(search)}) /\ c.at = "answered"
    BY <1>3, MedSettles DEF Med!MediaDeleted, Med!RefreshTable
  <2>3. MedCalls'
    BY <2>2, MedListIs, MedCallsSent DEF MedShape
  <2>4. Med!TypeOK' /\ Med!ScanAccounted'
    BY <1>1, <2>1, <2>2 DEF Med!TypeOK, Med!ScanAccounted, Sending
  <2>5. \E x \in calls' : x.op = "list" /\ x.at = "sent" /\ x.arg.text = search
    BY <2>2, MedListIs DEF Sending, Issued
  <2>6. Med!MediaExplained'
    BY <2>1, <2>5 DEF Med!MediaExplained
  <2> QED  BY <1>1, <2>3, <2>4, <2>6
<1>4. CASE Med!MediaUpserted(c)
  <2>1. /\ c.op \in {"scan", "edit"}
        /\ UNCHANGED <<search, table, scan, dialog, timer, imported, lost, behind>>
    BY <1>4 DEF Med!MediaUpserted, Med!page, Med!scanDialog
  <2>2. Sending({c}, {}) /\ c.at = "answered"
    BY <1>4, MedSettles DEF Med!MediaUpserted
  <2>3. MedCalls'
    BY <2>2, MedCallsSent
  <2>4. Med!TypeOK' /\ Med!ScanAccounted'
    BY <1>1, <2>1, <2>2 DEF Med!TypeOK, Med!ScanAccounted, Sending
  <2>5. Med!Found(items, search)' = Med!Found(items, search)
    BY <1>1, <2>1 DEF Med!Found, Med!Mine
  <2>6. Med!MediaExplained'
    BY <2>1, <2>2, <2>5 DEF Med!MediaExplained, Sending
  <2> QED  BY <1>1, <2>3, <2>4, <2>6
<1> QED  BY <1>2, <1>3, <1>4 DEF Med!Handle

LEMMA MedFails == ASSUME MedInv, NEW c \in calls, Med!RequestFails(c) PROVE MedInv'
<1> USE DEF MedInv
<1>1. /\ calls' = calls \ {c} /\ behind' = TRUE
      /\ lost' = IF c.op = "scan" THEN lost \union {c.arg.path} ELSE lost
      /\ UNCHANGED <<clicks, items, nextId, search, table, scan, dialog, timer, imported>>
  BY DEF Med!RequestFails, Med!Fail, Med!database, Med!page, Med!scanDialog
<1>2. MedCalls' /\ Med!ScanAccounted' /\ Med!MediaExplained'
  BY <1>1 DEF MedCalls, MedShape, Med!ScanAccounted, Med!MediaExplained
<1>3. lost' \subseteq Paths
  BY <1>1 DEF Med!TypeOK, MedCalls, MedShape
<1>4. Med!TypeOK'
  BY <1>1, <1>3 DEF Med!TypeOK
<1> QED  BY <1>1, <1>2, <1>4

LEMMA MedStep == MedInv /\ [Med!Next]_(Med!vars) => MedInv'
<1>1. ASSUME MedInv, UNCHANGED Med!vars PROVE MedInv'
  BY <1>1 DEF Med!vars, Med!database, Med!page, Med!scanDialog, MedInv, Med!TypeOK,
              MedCalls, MedShape, Med!ScanAccounted, Med!MediaExplained, Med!Found,
              Med!Mine
<1> QED  BY <1>1, MedUser, MedTimeOut, MedTick, MedOther, MedServe, MedHandle, MedFails
            DEF Med!Next

-----------------------------------------------------------------------------
(* The pages together.                                                       *)

PagesInv ==
  /\ inUse = "directory" => IInv
  /\ inUse = "podcasts" => PodInv
  /\ inUse = "events" => EvInv
  /\ inUse = "stations" => StInv
  /\ inUse = "media" => MedInv
  /\ inUse = "windows" => WinInv

LEMMA PagesInitInv == PagesInit => PagesInv
  BY InitInv, PodInit, EvInit, StInit, MedInit, WinInit DEF PagesInit, PagesInv

LEMMA PagesNextInv == PagesInv /\ [PagesNext]_allVars => PagesInv'
<1> SUFFICES ASSUME PagesInv, [PagesNext]_allVars PROVE PagesInv'
  OBVIOUS
<1>1. inUse' = inUse
  BY DEF PagesNext, allVars
<1>2. CASE inUse = "directory"
  <2>1. [Next]_vars
    BY <1>2 DEF PagesNext, allVars
  <2> QED  BY <1>1, <1>2, <2>1, NextInv DEF PagesInv
<1>3. CASE inUse = "podcasts"
  <2>1. [Pod!Next]_(Pod!vars)
    BY <1>3 DEF PagesNext, allVars, vars, podcastsVars, Pod!vars, Pod!database, Pod!page
  <2> QED  BY <1>1, <1>3, <2>1, PodStep DEF PagesInv
<1>4. CASE inUse = "events"
  <2>1. [Ev!Next]_(Ev!vars)
    BY <1>4 DEF PagesNext, allVars, vars, page, eventsVars, Ev!vars, Ev!database,
                Ev!page
  <2> QED  BY <1>1, <1>4, <2>1, EvStep DEF PagesInv
<1>5. CASE inUse = "stations"
  <2>1. [St!Next]_(St!vars)
    BY <1>5 DEF PagesNext, allVars, vars, stationsVars, St!vars, St!database, St!pages,
                St!serversPage, St!dataQueuePage, St!composer
  <2> QED  BY <1>1, <1>5, <2>1, StStep DEF PagesInv
<1>6. CASE inUse = "media"
  <2>1. [Med!Next]_(Med!vars)
    BY <1>6 DEF PagesNext, allVars, vars, page, mediaVars, Med!vars, Med!database,
                Med!page, Med!scanDialog
  <2> QED  BY <1>1, <1>6, <2>1, MedStep DEF PagesInv
<1>7. CASE inUse = "windows"
  <2>1. [Win!Next]_(Win!vars)
    BY <1>7 DEF PagesNext, allVars, vars, windowsVars, Win!vars, Win!mainWindow,
                Win!settings, Win!logging, Win!live
  <2> QED  BY <1>1, <1>7, <2>1, WinStep DEF PagesInv
<1> QED  BY <1>1, <1>2, <1>3, <1>4, <1>5, <1>6, <1>7 DEF PagesInv

LEMMA PagesInvariant == PagesSpec => []PagesInv
<1>1. PagesSpec => PagesInit /\ [][PagesNext]_allVars
  BY PTL DEF PagesSpec
<1> QED  BY <1>1, PagesInitInv, PagesNextInv, PTL

-----------------------------------------------------------------------------
(* The theorems.                                                             *)

(* Each page's widgets, the rows they show and the database behind them keep *)
(* their types, whatever is asked, answered and lost.                        *)
THEOREM PagesTypes == PagesSpec => []TypesOK
<1>1. PagesInv => TypesOK
  BY DEF PagesInv, TypesOK, IInv, PodInv, EvInv, StInv, MedInv, WinInv
<1> QED  BY <1>1, PagesInvariant, PTL

(* Whatever the podcasts, events, stations and media pages show that is not  *)
(* so any longer is about to be refreshed, or a failed request, an overtaken *)
(* reply, or what the history variable says left it behind                   *)
(* (PodcastsPage.cpp:231-328, EventsPage.cpp:152-207,                        *)
(* DataQueuePage.cpp:71-125, MediaLibraryPage.cpp:178-221).                  *)
THEOREM StalePagesExplained == PagesSpec => []PagesExplained
<1>1. PagesInv => PagesExplained
  BY DEF PagesInv, PagesExplained, PodInv, EvInv, StInv, MedInv
<1> QED  BY <1>1, PagesInvariant, PTL

(* A file the scan dialog counted as imported is in the user's library, on   *)
(* its way there, or its request failed, or it was removed or taken over     *)
(* since (ScanProgressDlg.cpp:85-141, main.cpp:1716-1737).                   *)
THEOREM ScannedFiles == PagesSpec => []ScanAccounted
<1>1. PagesInv => ScanAccounted
  BY DEF PagesInv, ScanAccounted, MedInv
<1> QED  BY <1>1, PagesInvariant, PTL

(* However many windows are built one after the other, the logging page's    *)
(* message handler never chains to itself (LoggingPage.cpp:57, 74-89).       *)
THEOREM NoHandlerLoop == PagesSpec => []HandlerNotChainedToItself
<1>1. WinInv => Win!HandlerNotChainedToItself
  BY DEF WinInv, HandlerOfWindow, Win!HandlerNotChainedToItself
<1>2. PagesInv => HandlerNotChainedToItself
  BY <1>1 DEF PagesInv, HandlerNotChainedToItself
<1> QED  BY <1>2, PagesInvariant, PTL

(* "Pinging..." always has a request of this window behind it, and after     *)
(* "TagCap terminate sent." no capture is starting or running                *)
(* (SettingsPage.cpp:92-108, 151-155, LiveStreamPage.cpp:122-134).           *)
THEOREM LabelsTrue == PagesSpec => []LabelsHold
<1>1. PagesInv => LabelsHold
  BY DEF PagesInv, LabelsHold, WinInv
<1> QED  BY <1>1, PagesInvariant, PTL

(* What the podcasts page's requests do to the feeds and the episodes is     *)
(* what PodcastService promises and Podcasts' handlers implement: taking an  *)
(* endpoint for one step is right (PodcastsPage.cpp:160-328,                 *)
(* main.cpp:2380-2615).                                                      *)
THEOREM DaemonOfThePage == PagesSpec => DaemonIsPodcastService
<1>1. PagesInit => Pod!Service!AInit
  <2>1. NoPodcasts => Pod!Service!AInit
    BY DEF NoPodcasts, Pod!Service!AInit
  <2> QED  BY <2>1, PodDaemonInit DEF PagesInit
<1>2. PagesInv /\ [PagesNext]_allVars => [Pod!Service!ANext]_(Pod!Service!avars)
  <2>1. CASE UNCHANGED <<feeds, usedFeeds, episodes, made>>
    BY <2>1 DEF Pod!Service!avars
  <2>2. ASSUME PagesInv, PagesNext, inUse = "podcasts"
        PROVE  [Pod!Service!ANext]_(Pod!Service!avars)
    BY <2>2, PodDaemonStep DEF PagesNext, PagesInv
  <2>3. PagesNext /\ inUse # "podcasts" => UNCHANGED <<feeds, usedFeeds, episodes, made>>
    BY DEF PagesNext, podcastsVars
  <2>4. UNCHANGED allVars => UNCHANGED <<feeds, usedFeeds, episodes, made>>
    BY DEF allVars, podcastsVars
  <2> QED  BY <2>1, <2>2, <2>3, <2>4
<1>3. PagesSpec => PagesInit /\ [][PagesNext]_allVars
  BY PTL DEF PagesSpec
<1>4. PagesSpec => Pod!Service!ASpec
  BY <1>1, <1>2, <1>3, PagesInvariant, PTL DEF Pod!Service!ASpec
<1> QED  BY <1>4 DEF DaemonIsPodcastService

=============================================================================
