-------------------------------- MODULE Pages --------------------------------
(***************************************************************************)
(* The pages of the desktop's main window (desktop/src/MainWindow.cpp).    *)
(* They share the ApiClient, but no reply reaches a page that handles none *)
(* of its kind, and no page calls another: one page is in use in each      *)
(* behaviour, and the variables of the others keep one value.              *)
(***************************************************************************)
EXTENDS DirectoryPage

CONSTANTS
  Bounds,                         \* same, calls, clicks: ApiClient's, by page
  MaxFeeds, MaxEpisodes, NoFeed,  \* of PodcastsPage
  Events, NoEvent,                \* of EventsPage
  MaxStations, MaxSpins, NoStation,  \* of StationPages
  Paths, Texts, FoundBy, Seconds, ListLimit, MaxIds,  \* of Media, its searches Texts
  Users, NoUser, MaxWindows       \* of Windows

ASSUME BoundsAssumption ==
  \A p \in {"podcasts", "events", "stations", "media", "windows"} :
    Bounds[p].same \in Nat \ {0} /\ Bounds[p].calls \in Nat /\ Bounds[p].clicks \in Nat
ASSUME PodcastsPageAssumption ==
  MaxFeeds \in Nat /\ MaxEpisodes \in Nat /\ NoFeed \notin 1..MaxFeeds
ASSUME EventsPageAssumption == NoEvent \notin Events
ASSUME StationPagesAssumption ==
  MaxStations \in Nat /\ MaxSpins \in Nat /\ NoStation \notin 1..MaxStations
(* Every path has an id to begin with. *)
ASSUME MediaAssumption ==
  /\ IsFiniteSet(Paths) /\ FoundBy \in [Texts -> SUBSET Paths]
  /\ Seconds \subseteq Nat /\ ListLimit \in Nat
  /\ MaxIds \in Nat /\ Cardinality(Paths) <= MaxIds
ASSUME WindowsAssumption == MaxWindows \in Nat

VARIABLES
  inUse,  \* the page
  feeds, usedFeeds, episodes, made, picker, rows,
  enabled, used, log,
  mine, everMine, spins, list, target, history,
  items, nextId, scan, dialog, timer, imported, lost,
  window, open, user, listed, ping, handler, chained, capture, lastClick,
  picked, selected, behind

Pod == INSTANCE PodcastsPage
  WITH MaxSame <- Bounds["podcasts"].same, MaxCalls <- Bounds["podcasts"].calls,
       MaxClicks <- Bounds["podcasts"].clicks
Ev == INSTANCE EventsPage
  WITH MaxSame <- Bounds["events"].same, MaxCalls <- Bounds["events"].calls,
       MaxClicks <- Bounds["events"].clicks
St == INSTANCE StationPages
  WITH MaxSame <- Bounds["stations"].same, MaxCalls <- Bounds["stations"].calls,
       MaxClicks <- Bounds["stations"].clicks
Med == INSTANCE Media
  WITH Queries <- Texts, Matches <- FoundBy,
       MaxSame <- Bounds["media"].same, MaxCalls <- Bounds["media"].calls,
       MaxClicks <- Bounds["media"].clicks
Win == INSTANCE Windows
  WITH MaxSame <- Bounds["windows"].same, MaxCalls <- Bounds["windows"].calls,
       MaxClicks <- Bounds["windows"].clicks

directoryVars == <<current, shown, stream, playing, tags, excused>>
podcastsVars == <<feeds, usedFeeds, episodes, made, picker, rows>>
eventsVars == <<enabled, used, log>>
stationsVars == <<mine, everMine, spins, list, target, history>>
mediaVars == <<items, nextId, scan, dialog, timer, imported, lost>>
windowsVars == <<window, open, user, listed, ping, handler, chained,
                 capture, lastClick>>

-----------------------------------------------------------------------------

NoDirectory ==
  /\ current = None /\ shown = [v \in Views |-> Nothing]
  /\ stream = None /\ playing = FALSE /\ tags = [s \in Stations |-> 0] /\ excused = {}
NoPodcasts ==
  /\ feeds = {} /\ usedFeeds = {} /\ episodes = {} /\ made = 0 /\ picker = {} /\ rows = {}
NoEvents == enabled = {} /\ used = {} /\ log = 0
NoStations ==
  /\ mine = {} /\ everMine = {} /\ spins = 0 /\ list = {} /\ target = 0 /\ history = 0
NoMedia ==
  /\ items = {} /\ nextId = 1 /\ scan = {} /\ dialog = FALSE /\ timer = FALSE
  /\ imported = {} /\ lost = {}
NoWindows ==
  /\ window = 0 /\ open = FALSE /\ user = None /\ listed = None /\ ping = "empty"
  /\ handler = "default" /\ chained = "none" /\ capture = "none" /\ lastClick = "none"

PagesInit ==
  \/ /\ inUse = "directory" /\ Init
     /\ NoPodcasts /\ NoEvents /\ NoStations /\ NoMedia /\ NoWindows
     /\ picked = 0 /\ selected = 0 /\ behind = {}
  \/ /\ inUse = "podcasts" /\ Pod!Init
     /\ NoDirectory /\ NoEvents /\ NoStations /\ NoMedia /\ NoWindows
     /\ search = None /\ table = None /\ selected = 0
  \/ /\ inUse = "events" /\ Ev!Init
     /\ NoDirectory /\ NoPodcasts /\ NoStations /\ NoMedia /\ NoWindows
     /\ search = None /\ picked = 0
  \/ /\ inUse = "stations" /\ St!Init
     /\ NoDirectory /\ NoPodcasts /\ NoEvents /\ NoMedia /\ NoWindows
     /\ search = None /\ table = None
  \/ /\ inUse = "media" /\ Med!Init
     /\ NoDirectory /\ NoPodcasts /\ NoEvents /\ NoStations /\ NoWindows
     /\ picked = 0 /\ selected = 0
  \/ /\ inUse = "windows" /\ Win!Init
     /\ NoDirectory /\ NoPodcasts /\ NoEvents /\ NoStations /\ NoMedia
     /\ search = None /\ table = None /\ picked = 0 /\ selected = 0 /\ behind = {}

PagesNext ==
  /\ UNCHANGED inUse
  /\ \/ /\ inUse = "directory" /\ Next
        /\ UNCHANGED <<podcastsVars, eventsVars, stationsVars, mediaVars, windowsVars,
                       picked, selected, behind>>
     \/ /\ inUse = "podcasts" /\ Pod!Next
        /\ UNCHANGED <<directoryVars, eventsVars, stationsVars, mediaVars, windowsVars,
                       search, table, selected>>
     \/ /\ inUse = "events" /\ Ev!Next
        /\ UNCHANGED <<directoryVars, podcastsVars, stationsVars, mediaVars, windowsVars,
                       search, picked>>
     \/ /\ inUse = "stations" /\ St!Next
        /\ UNCHANGED <<directoryVars, podcastsVars, eventsVars, mediaVars, windowsVars,
                       search, table>>
     \/ /\ inUse = "media" /\ Med!Next
        /\ UNCHANGED <<directoryVars, podcastsVars, eventsVars, stationsVars, windowsVars,
                       picked, selected>>
     \/ /\ inUse = "windows" /\ Win!Next
        /\ UNCHANGED <<directoryVars, podcastsVars, eventsVars, stationsVars, mediaVars,
                       search, table, picked, selected, behind>>

allVars == <<vars, inUse, podcastsVars, eventsVars, stationsVars, mediaVars, windowsVars,
             picked, selected, behind>>

(* The fairness of DirectoryPage, for the behaviours in which it is in use.  *)
PagesSpec ==
  /\ PagesInit /\ [][PagesNext]_allVars
  /\ WF_vars(inUse = "directory" /\ \E c \in calls : Serve(c))
  /\ WF_vars(inUse = "directory" /\ \E c \in calls : Handle(c))

-----------------------------------------------------------------------------
(* The properties of the pages.                                              *)

(* Each page's type invariant.                                               *)
TypesOK ==
  /\ inUse = "directory" => TypeOK
  /\ inUse = "podcasts" => Pod!TypeOK
  /\ inUse = "events" => Ev!TypeOK
  /\ inUse = "stations" => St!TypeOK
  /\ inUse = "media" => Med!TypeOK
  /\ inUse = "windows" => Win!TypeOK

(* What the podcasts, events, stations and media pages show and is not so    *)
(* any longer is about to be refreshed, unless a request failed or an older  *)
(* reply overtook a newer one: their refreshes lose nothing else, however    *)
(* replies interleave (PodcastsPage.cpp:231-328, EventsPage.cpp:152-207,     *)
(* DataQueuePage.cpp:71-125, ServersPage.cpp:123-154,                        *)
(* MediaLibraryPage.cpp:178-221).                                            *)
PagesExplained ==
  /\ inUse = "podcasts" => Pod!PodcastsExplained
  /\ inUse = "events" => Ev!EventsExplained
  /\ inUse = "stations" => St!StationsExplained
  /\ inUse = "media" => Med!MediaExplained

(* What the podcasts page takes the daemon for is what the daemon promises:  *)
(* the service that module Podcasts implements statement by statement        *)
(* (PodcastsPage.cpp:160-328, main.cpp:2380-2615).                           *)
DaemonIsPodcastService == Pod!Service!ASpec

(* A file a scan counted as imported is in the user's library, on its way    *)
(* there, or its request failed, or it was removed or taken over since       *)
(* (ScanProgressDlg.cpp:85-141, main.cpp:1716-1737).                         *)
ScanAccounted == inUse = "media" => Med!ScanAccounted

(* However often the user signs out and in, the logging page's handler never *)
(* chains to itself (LoggingPage.cpp:57, 74-89).                             *)
HandlerNotChainedToItself == inUse = "windows" => Win!HandlerNotChainedToItself

(* "Pinging..." always has a request of this window behind it, and after     *)
(* "TagCap terminate sent." no capture is starting or running                *)
(* (SettingsPage.cpp:92-108, 151-155, LiveStreamPage.cpp:122-134).           *)
LabelsHold == inUse = "windows" => Win!LabelsHold

(* desktop/src/main.cpp:7-8: signing out closes the window "so the next      *)
(* session starts cleanly"; a late reply to the former window's request is   *)
(* shown by the next one, whoever has signed in.                             *)
ShowsOwnData == inUse = "windows" => Win!ShowsOwnData

=============================================================================
