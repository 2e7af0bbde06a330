---------------------------- MODULE PodcastsPage ----------------------------
(***************************************************************************)
(* The desktop's podcasts page (desktop/src/PodcastsPage.cpp) over its     *)
(* user's feeds and episodes.                                              *)
(*                                                                         *)
(* The picker is refilled by every list of feeds. Refilling empties it,    *)
(* which empties the table of episodes, and then makes the first feed      *)
(* current, then the one picked before, each time asking for episodes, and *)
(* asks once more at the end. A list of episodes is accepted only for the  *)
(* feed that is current when it comes. What the endpoints do between their *)
(* statements is module Podcasts; here each is one step.                   *)
(***************************************************************************)
EXTENDS ApiClient, FiniteSetsExt

CONSTANTS
  MaxFeeds,     \* bound: feeds ever created
  MaxEpisodes,  \* bound: episodes ever created
  NoFeed        \* m_currentFeedId = 0

VARIABLES
  feeds,     \* podcast_feeds of the user, numbered in the order of their titles
  usedFeeds, \* the numbers ever given
  episodes,  \* podcast_episodes: [id, feed]
  made,      \* AUTO_INCREMENT of podcast_episodes.id
  picker,    \* m_podcastsRaw, the content of m_podcastPicker
  picked,    \* m_currentFeedId
  rows,      \* the ids m_episodes shows
  behind     \* history: "feeds" or "rows" after a failed request or an
             \*   overtaken reply left that part of the page behind

database == <<feeds, usedFeeds, episodes, made>>
page == <<picker, picked, rows>>
vars == <<calls, clicks, database, page, behind>>

Parts == {"feeds", "rows"}
Feeds == 1..MaxFeeds
EpisodesOf(f) == {e.id : e \in {x \in episodes : x.feed = f}}

(* What a request names: the feed, the episode, and which of the calls of    *)
(* one handler it is.                                                        *)
Arg(f, e, turn) == [feed |-> f, ep |-> e, turn |-> turn]
List == Request("list", Arg(NoFeed, 0, "only"))
ListEpisodes(f, turn) == Request("episodes", Arg(f, 0, turn))

Init ==
  /\ feeds \in SUBSET Feeds
  /\ usedFeeds = feeds
  /\ made \in 0..MaxEpisodes
  /\ \E home \in [1..made -> feeds] : episodes = {[id |-> i, feed |-> home[i]] : i \in 1..made}
  /\ picker = {} /\ picked = NoFeed /\ rows = {}
  /\ behind = {}
  /\ calls = {[op |-> "list", arg |-> List.arg, n |-> 1, at |-> "sent", data |-> Unanswered]}
  /\ clicks = 0

-----------------------------------------------------------------------------
(* The user.                                                                 *)

(* refresh *)
Refresh == Send({List}) /\ UNCHANGED <<page, behind>>

(* Another entry of the picker: currentIndexChanged, onPodcastSelectionChanged. *)
Pick(f) ==
  /\ f \in picker \ {picked}
  /\ picked' = f
  /\ behind' = behind \ {"rows"}
  /\ Send({ListEpisodes(f, "only")})
  /\ UNCHANGED <<picker, rows>>

Ask(op, f, e) ==
  /\ Send({Request(op, Arg(f, e, "only"))})
  /\ UNCHANGED <<page, behind>>

(* onAddPodcast, onDeletePodcast, onAddEpisode, onDeleteEpisode: the feed is *)
(* the one picked, the episode the selected row, of whatever feed it is.     *)
AddFeed == Ask("addFeed", NoFeed, 0)
DeleteFeed == picked # NoFeed /\ Ask("deleteFeed", picked, 0)
AddEpisode == picked # NoFeed /\ Ask("addEpisode", picked, 0)
DeleteEpisode(e) == picked # NoFeed /\ e \in rows /\ Ask("deleteEpisode", picked, e)

User ==
  /\ \/ Refresh \/ AddFeed \/ DeleteFeed \/ AddEpisode
     \/ \E f \in Feeds : Pick(f)
     \/ \E e \in rows : DeleteEpisode(e)
  /\ Click
  /\ UNCHANGED database

-----------------------------------------------------------------------------
(* The daemon. A refusal (404, 409, 503) is RequestFails below.              *)

ReadFeeds(c) ==
  /\ c.op = "list"
  /\ Answer(c, feeds)
  /\ UNCHANGED database

ReadEpisodes(c) ==
  /\ c.op = "episodes" /\ c.arg.feed \in feeds
  /\ Answer(c, EpisodesOf(c.arg.feed))
  /\ UNCHANGED database

CreateFeed(c) ==
  /\ c.op = "addFeed"
  /\ Answer(c, {})
  /\ \E f \in Feeds \ usedFeeds :
       feeds' = feeds \union {f} /\ usedFeeds' = usedFeeds \union {f}
  /\ UNCHANGED <<episodes, made>>

(* Mutant of RemoveFeed: the episodes stay. *)
RemoveFeedOnly(c) ==
  /\ c.op = "deleteFeed" /\ c.arg.feed \in feeds
  /\ Answer(c, {})
  /\ feeds' = feeds \ {c.arg.feed}
  /\ UNCHANGED <<episodes, usedFeeds, made>>

(* The episodes of the feed go with it. *)
RemoveFeed(c) ==
  /\ c.op = "deleteFeed" /\ c.arg.feed \in feeds
  /\ Answer(c, {})
  /\ feeds' = feeds \ {c.arg.feed}
  /\ episodes' = {e \in episodes : e.feed # c.arg.feed}
  /\ UNCHANGED <<usedFeeds, made>>

CreateEpisode(c) ==
  /\ c.op = "addEpisode" /\ c.arg.feed \in feeds
  /\ made < MaxEpisodes
  /\ Answer(c, {})
  /\ made' = made + 1
  /\ episodes' = episodes \union {[id |-> made', feed |-> c.arg.feed]}
  /\ UNCHANGED <<feeds, usedFeeds>>

(* The join with the feed that the request names.                            *)
InFeed(e, f) == f \in feeds /\ e.feed = f

RemoveEpisode(c) ==
  /\ c.op = "deleteEpisode"
  /\ Answer(c, {})
  /\ \E e \in episodes : e.id = c.arg.ep /\ InFeed(e, c.arg.feed)
                         /\ episodes' = episodes \ {e}
  /\ UNCHANGED <<feeds, usedFeeds, made>>

Serve(c) ==
  /\ \/ ReadFeeds(c) \/ ReadEpisodes(c) \/ CreateFeed(c) \/ RemoveFeed(c)
     \/ CreateEpisode(c) \/ RemoveEpisode(c)
  /\ UNCHANGED <<clicks, page, behind>>

-----------------------------------------------------------------------------
(* The replies.                                                              *)

(* A part of the page that was up to date and no longer is.                  *)
GoesBack(part, old, new, latest) ==
  IF new = latest THEN behind \ {part}
  ELSE IF old = latest THEN behind \union {part}
  ELSE behind

(* The feed that is current after the picker was refilled.                   *)
Current(list) ==
  IF list = {} THEN NoFeed ELSE IF picked \in list THEN picked ELSE Min(list)

(* Every call of onPodcastSelectionChanged with a feed asks for its episodes: *)
(* addItem of the first one, setCurrentIndex if that is another, the call at  *)
(* the end.                                                                  *)
Refill(list) ==
  IF list = {} THEN {}
  ELSE {ListEpisodes(Min(list), "first"), ListEpisodes(Current(list), "again")}
       \union (IF Current(list) = Min(list) THEN {}
               ELSE {ListEpisodes(Current(list), "previous")})

(* onMyPodcastsReceived *)
FeedsReceived(c) ==
  /\ c.op = "list"
  /\ Settle(c, Refill(c.data))
  /\ picker' = c.data
  /\ picked' = Current(c.data)
  /\ rows' = {}
  /\ behind' = GoesBack("feeds", picker, c.data, feeds) \ {"rows"}

(* The test of onMyPodcastEpisodesReceived, and a mutant without it.         *)
AlwaysCurrent(f) == f \in Feeds
IsCurrent(f) == f = picked

(* onMyPodcastEpisodesReceived *)
EpisodesReceived(c) ==
  /\ c.op = "episodes"
  /\ Settle(c, {})
  /\ IF IsCurrent(c.arg.feed)
     THEN /\ rows' = c.data
          /\ behind' = IF c.arg.feed = picked
                       THEN GoesBack("rows", rows, c.data, EpisodesOf(picked))
                       ELSE behind
     ELSE UNCHANGED <<rows, behind>>
  /\ UNCHANGED <<picker, picked>>

(* onMyPodcastCreated, onMyPodcastDeleted, and a mutant that trusts the      *)
(* picker it has.                                                            *)
KeepFeeds == {}
RefreshFeeds == {List}

FeedChanged(c) ==
  /\ c.op \in {"addFeed", "deleteFeed"}
  /\ Settle(c, RefreshFeeds)
  /\ UNCHANGED <<page, behind>>

(* onMyPodcastEpisodeCreated, onMyPodcastEpisodeDeleted                      *)
EpisodeChanged(c) ==
  /\ c.op \in {"addEpisode", "deleteEpisode"}
  /\ Settle(c, {List} \union
               (IF c.arg.feed = picked THEN {ListEpisodes(picked, "only")} ELSE {}))
  /\ UNCHANGED <<page, behind>>

Handle(c) ==
  /\ FeedsReceived(c) \/ EpisodesReceived(c) \/ FeedChanged(c) \/ EpisodeChanged(c)
  /\ UNCHANGED <<clicks, database>>

(* Refused, or lost with the connection, before or after the daemon acted:   *)
(* nothing on the page reacts.                                               *)
RequestFails(c) ==
  /\ Fail(c)
  /\ behind' = behind \union Parts
  /\ UNCHANGED <<clicks, database, page>>

Next ==
  \/ User
  \/ \E c \in calls : Serve(c) \/ Handle(c) \/ RequestFails(c)

Spec == Init /\ [][Next]_vars

-----------------------------------------------------------------------------
(* The page's daemon as the abstract service, with one user, whose slugs are *)
(* the numbers of the feeds; the page asks for no documents and does not see *)
(* when an episode was published.                                            *)
Service == INSTANCE PodcastService
  WITH Users <- {"me"}, Slugs <- Feeds, FeedIds <- Feeds, EpisodeIds <- 1..MaxEpisodes,
       feeds <- {[id |-> f, user |-> "me", slug |-> f] : f \in feeds},
       Seconds <- {0}, DocumentLimit <- 500,
       episodes <- {[id |-> e.id, feed |-> e.feed, by |-> "me", second |-> 0] : e \in episodes},
       usedEpisodes <- 1..made, documents <- {}

-----------------------------------------------------------------------------
(* Properties.                                                               *)

(* Types of the tables, the page and the requests.                           *)
TypeOK ==
  /\ feeds \subseteq usedFeeds /\ usedFeeds \subseteq Feeds
  /\ episodes \subseteq [id : 1..made, feed : feeds] /\ made \in 0..MaxEpisodes
  /\ picker \subseteq Feeds /\ rows \subseteq 1..made
  /\ picked \in picker \union {NoFeed} /\ behind \subseteq Parts

Pending(ops) == \E c \in calls : c.op \in ops
Comes(op, latest) ==
  \E c \in calls : c.op = op /\ (c.at = "sent" \/ c.data = latest)
                   /\ c.arg.feed \in {picked, NoFeed}

(* A picker or an episode table that is not up to date is about to be        *)
(* refreshed, unless a request failed or an older reply overtook a newer     *)
(* one: the guard of the replies and the refreshes after each change lose    *)
(* nothing else, although refilling the picker switches the current feed     *)
(* twice (PodcastsPage.cpp:231-328).                                         *)
PodcastsExplained ==
  /\ picker # feeds /\ "feeds" \notin behind =>
       Comes("list", feeds) \/ Pending({"addFeed", "deleteFeed"})
  /\ picked # NoFeed /\ rows # EpisodesOf(picked) /\ "rows" \notin behind =>
       \/ Comes("episodes", EpisodesOf(picked))
       \/ Pending({"list", "deleteFeed", "addEpisode", "deleteEpisode"})

=============================================================================
