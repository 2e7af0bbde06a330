------------------------------ MODULE Podcasts ------------------------------
(***************************************************************************)
(* The podcast endpoints of tagstackd (daemon/src/main.cpp) over the       *)
(* tables podcast_feeds and podcast_episodes (sql/022), and the public RSS *)
(* feed made of them.                                                      *)
(*                                                                         *)
(* An episode is listed or created in two statements, an RSS document is   *)
(* read in two: the feed may be deleted, and its slug taken by another     *)
(* feed, between them. Every statement commits by itself, any of them may  *)
(* fail, and the result of a write may be lost with the connection.        *)
(***************************************************************************)
EXTENDS Naturals, Newest

CONSTANTS
  Users,         \* cc_user_link.user_id of the callers
  Slugs,
  NoSlug,        \* a request that names no slug
  Seconds,       \* the values of publish_at
  DocumentLimit, \* LIMIT of the episodes in an RSS document: 500
  MaxFeeds,      \* bound: feeds ever created
  MaxEpisodes,   \* bound: episodes ever created
  MaxRequests    \* bound: requests that arrive

VARIABLES
  feeds,       \* rows of podcast_feeds: [id, user, slug]
  nextFeed,    \* its AUTO_INCREMENT
  episodes,    \* rows of podcast_episodes: [id, feed, by, second]: who
               \*   posted it, and when (publish_at)
  nextEpisode, \* its AUTO_INCREMENT
  requests,    \* the requests in the handlers
  arrived,     \* counts the requests
  documents    \* history: RSS documents sent: [user, slug, feed, episodes]

tables == <<feeds, nextFeed, episodes, nextEpisode>>
vars == <<tables, requests, arrived, documents>>

Kinds == {"createFeed", "deleteFeed", "list", "post", "delete", "rss"}

(* For rss, user and slug say whose feed the reader means: ?user= and :slug. *)
(* feed is the path's :id, and in the handler of rss the row found.          *)
Request(n, kind, u, slug, f, e) ==
  [n |-> n, kind |-> kind, user |-> u, slug |-> slug, feed |-> f, ep |-> e,
   at |-> "start"]

Rows(f) == {e \in episodes : e.feed = f}
IsFeed(f) == \E x \in feeds : x.id = f

Init ==
  /\ feeds = {} /\ nextFeed = 1
  /\ episodes = {} /\ nextEpisode = 1
  /\ requests = {} /\ arrived = 0
  /\ documents = {}

-----------------------------------------------------------------------------
(* Requests.                                                                 *)

Receive(kind, u, slug, f, e) ==
  /\ arrived < MaxRequests
  /\ arrived' = arrived + 1
  /\ requests' = requests \union {Request(arrived', kind, u, slug, f, e)}
  /\ UNCHANGED <<tables, documents>>

Arrive ==
  \E u \in Users :
    \/ \E kind \in {"createFeed", "rss"}, slug \in Slugs : Receive(kind, u, slug, 0, 0)
    \/ \E f \in 1..MaxFeeds :
         \/ \E kind \in {"deleteFeed", "list", "post"} : Receive(kind, u, NoSlug, f, 0)
         \/ \E e \in 1..MaxEpisodes : Receive("delete", u, NoSlug, f, e)

Return(r) == requests' = requests \ {r}

Continue(r, step, f) ==
  requests' = (requests \ {r}) \union {[r EXCEPT !.at = step, !.feed = f]}

At(r, kinds, step) == r.kind \in kinds /\ r.at = step

-----------------------------------------------------------------------------
(* POST and DELETE of a feed.                                                *)

(* uk_user_slug: 409 *)
Duplicate(r) == \E x \in feeds : x.user = r.user /\ x.slug = r.slug

CreateFeed(r) ==
  /\ At(r, {"createFeed"}, "start")
  /\ nextFeed <= MaxFeeds
  /\ Return(r)
  /\ IF Duplicate(r) THEN UNCHANGED <<feeds, nextFeed>>
     ELSE /\ feeds' = feeds \union {[id |-> nextFeed, user |-> r.user, slug |-> r.slug]}
          /\ nextFeed' = nextFeed + 1
  /\ UNCHANGED <<episodes, nextEpisode, arrived, documents>>

(* The caller owns the feed the path names; a mutant that only looks it up.  *)
Exists(r) == IsFeed(r.feed)
Owns(r) == \E x \in feeds : x.id = r.feed /\ x.user = r.user

(* fk_episode_feed: ON DELETE CASCADE. *)
DeleteFeed(r) ==
  /\ At(r, {"deleteFeed"}, "start")
  /\ Return(r)
  /\ IF Owns(r)
     THEN /\ feeds' = {x \in feeds : x.id # r.feed}
          /\ episodes' = episodes \ Rows(r.feed)
     ELSE UNCHANGED <<feeds, episodes>>
  /\ UNCHANGED <<nextFeed, nextEpisode, arrived, documents>>

-----------------------------------------------------------------------------
(* The episodes of a feed.                                                   *)

(* SELECT 1 FROM podcast_feeds WHERE id AND user_id: 404, or go on.          *)
CheckFeed(r) ==
  /\ At(r, {"list", "post"}, "start")
  /\ IF Owns(r) THEN Continue(r, "checked", r.feed) ELSE Return(r)
  /\ UNCHANGED <<tables, arrived, documents>>

(* SELECT ... FROM podcast_episodes: what is left by now. *)
ListEpisodes(r) ==
  /\ At(r, {"list"}, "checked")
  /\ Return(r)
  /\ UNCHANGED <<tables, arrived, documents>>

(* The guid is generated, so a repeated POST makes another episode; the      *)
(* foreign key refuses the row of a feed that has gone since the check.      *)
(* publish_at is the clock at the insert, which need not grow with the ids.  *)
InsertEpisode(r) ==
  /\ At(r, {"post"}, "checked")
  /\ nextEpisode <= MaxEpisodes
  /\ Return(r)
  /\ IF IsFeed(r.feed)
     THEN /\ \E t \in Seconds :
               episodes' = episodes \union
                 {[id |-> nextEpisode, feed |-> r.feed, by |-> r.user, second |-> t]}
          /\ nextEpisode' = nextEpisode + 1
     ELSE UNCHANGED <<episodes, nextEpisode>>
  /\ UNCHANGED <<feeds, nextFeed, arrived, documents>>

(* One statement: the row, its feed and the owner are compared at once.      *)
DeleteEpisode(r) ==
  /\ At(r, {"delete"}, "start")
  /\ Return(r)
  /\ episodes' = {e \in episodes : ~ (e.id = r.ep /\ e.feed = r.feed /\ Owns(r))}
  /\ UNCHANGED <<feeds, nextFeed, nextEpisode, arrived, documents>>

-----------------------------------------------------------------------------
(* GET /podcasts/:slug/rss                                                   *)

(* WHERE slug = ... LIMIT 1, of any user. *)
FindFeed(r) ==
  /\ At(r, {"rss"}, "start")
  /\ \/ \E x \in feeds : x.slug = r.slug /\ Continue(r, "found", x.id)
     \/ (~ \E x \in feeds : x.slug = r.slug) /\ Return(r)
  /\ UNCHANGED <<tables, arrived, documents>>

(* WHERE feed_id = ... ORDER BY publish_at DESC LIMIT 500: what it may       *)
(* return; a mutant that joins the feed by its slug again.                    *)
RowsOfSlug(r) ==
  Newest({e \in episodes : \E x \in feeds : x.id = e.feed /\ x.slug = r.slug}, DocumentLimit)
RowsOfFeed(r) == Newest(Rows(r.feed), DocumentLimit)

SendDocument(r) ==
  /\ At(r, {"rss"}, "found")
  /\ Return(r)
  /\ \E listed \in RowsOfFeed(r) :
       documents' = documents \union
         {[user |-> r.user, slug |-> r.slug, feed |-> r.feed, episodes |-> listed]}
  /\ UNCHANGED <<tables, arrived>>

-----------------------------------------------------------------------------
(* A statement throws (503), the client goes away, the daemon dies.          *)
Fail(r) ==
  /\ Return(r)
  /\ UNCHANGED <<tables, arrived, documents>>

Next ==
  \/ Arrive
  \/ \E r \in requests :
       \/ CreateFeed(r) \/ DeleteFeed(r)
       \/ CheckFeed(r) \/ ListEpisodes(r) \/ InsertEpisode(r) \/ DeleteEpisode(r)
       \/ FindFeed(r) \/ SendDocument(r) \/ Fail(r)

Spec == Init /\ [][Next]_vars

-----------------------------------------------------------------------------
(* Properties.                                                               *)

Episode == [id : Nat, feed : Nat, by : Users, second : Seconds]

(* Types of the tables, the requests and the documents.                      *)
TypeOK ==
  /\ feeds \subseteq [id : Nat, user : Users, slug : Slugs] /\ nextFeed \in Nat
  /\ episodes \subseteq Episode /\ nextEpisode \in Nat
  /\ requests \subseteq [n : Nat, kind : Kinds, user : Users, slug : Slugs \union {NoSlug},
                         feed : Nat, ep : Nat, at : {"start", "checked", "found"}]
  /\ arrived \in Nat
  /\ documents \subseteq [user : Users, slug : Slugs, feed : Nat, episodes : SUBSET Episode]

(* The feed an episode is inserted into is the one its caller owned when the *)
(* handler looked, two statements earlier, whatever happened to feeds and    *)
(* slugs since (main.cpp:2453-2485).                                         *)
EpisodesByOwner ==
  \A e \in episodes : \E x \in feeds : x.id = e.feed /\ x.user = e.by

(* An RSS document lists episodes of the feed it is titled after and of no   *)
(* other, though the feed may be deleted and its slug reused between its two *)
(* statements (main.cpp:2553-2615).                                          *)
DocumentsOfOneFeed == \A d \in documents : \A e \in d.episodes : e.feed = d.feed

(* The tables as PodcastService sees them, the module the handlers implement. *)
Service == INSTANCE PodcastService WITH
  FeedIds <- 1..MaxFeeds, EpisodeIds <- 1..MaxEpisodes,
  usedFeeds <- 1..(nextFeed - 1), usedEpisodes <- 1..(nextEpisode - 1),
  documents <- {[feed |-> d.feed, episodes |-> d.episodes] : d \in documents}

=============================================================================
