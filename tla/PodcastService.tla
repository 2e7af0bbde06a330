--------------------------- MODULE PodcastService ---------------------------
(***************************************************************************)
(* What the podcast endpoints of tagstackd promise, one atomic step per    *)
(* promise, with no handlers, no faults and no half-done requests:         *)
(*                                                                         *)
(*  - a user holds a slug at most once, an id is never given twice;        *)
(*  - an episode is added only to a feed that is there, by its owner, and  *)
(*    to no feed that has taken the id or the slug of another;             *)
(*  - deleting a feed takes its episodes with it at once (sql/022: ON      *)
(*    DELETE CASCADE), and no other;                                       *)
(*  - an RSS document lists episodes of one feed and no other: all of      *)
(*    them, or the newest DocumentLimit.                                   *)
(*                                                                         *)
(* Module Podcasts (the handlers, statement by statement) implements it,   *)
(* and so does what the desktop's page takes the daemon for (PodcastsPage). *)
(***************************************************************************)
EXTENDS Newest

CONSTANTS
  Users,         \* cc_user_link.user_id of the callers
  Slugs,
  FeedIds,       \* the ids that may be given
  EpisodeIds,
  Seconds,       \* the values of publish_at
  DocumentLimit  \* episodes in an RSS document: 500

VARIABLES
  feeds,         \* podcast_feeds: [id, user, slug]
  usedFeeds,     \* the ids ever given
  episodes,      \* podcast_episodes: [id, feed, by, second]; by: who posted it
  usedEpisodes,
  documents      \* the RSS documents sent: [feed, episodes]

avars == <<feeds, usedFeeds, episodes, usedEpisodes, documents>>

EpisodesOf(f) == {e \in episodes : e.feed = f}

(* Tables as sql/022 lets them be.                                           *)
AInit ==
  /\ \A x \in feeds : x.id \in usedFeeds
  /\ \A x, y \in feeds : x.id = y.id \/ (x.user = y.user /\ x.slug = y.slug) => x = y
  /\ \A e \in episodes : /\ e.id \in usedEpisodes
                         /\ \E x \in feeds : x.id = e.feed /\ x.user = e.by
  /\ \A d, e \in episodes : d.id = e.id => d = e
  /\ documents = {}

(* POST /me/podcasts *)
Claim(u, slug) ==
  /\ ~ \E x \in feeds : x.user = u /\ x.slug = slug
  /\ \E f \in FeedIds \ usedFeeds :
       /\ feeds' = feeds \union {[id |-> f, user |-> u, slug |-> slug]}
       /\ usedFeeds' = usedFeeds \union {f}
  /\ UNCHANGED <<episodes, usedEpisodes, documents>>

(* DELETE /me/podcasts/:id *)
Retire(x) ==
  /\ x \in feeds
  /\ feeds' = feeds \ {x}
  /\ episodes' = episodes \ EpisodesOf(x.id)
  /\ UNCHANGED <<usedFeeds, usedEpisodes, documents>>

(* POST /me/podcasts/:id/episodes, by the owner of x *)
Post(x) ==
  /\ x \in feeds
  /\ \E e \in EpisodeIds \ usedEpisodes, t \in Seconds :
       /\ episodes' = episodes \union {[id |-> e, feed |-> x.id, by |-> x.user, second |-> t]}
       /\ usedEpisodes' = usedEpisodes \union {e}
  /\ UNCHANGED <<feeds, usedFeeds, documents>>

(* DELETE /me/podcasts/:id/episodes/:ep *)
Remove(e) ==
  /\ e \in episodes
  /\ episodes' = episodes \ {e}
  /\ UNCHANGED <<feeds, usedFeeds, usedEpisodes, documents>>

(* GET /podcasts/:slug/rss *)
Publish(f) ==
  /\ \E listed \in Newest(EpisodesOf(f), DocumentLimit) :
       documents' = documents \union {[feed |-> f, episodes |-> listed]}
  /\ UNCHANGED <<feeds, usedFeeds, episodes, usedEpisodes>>

ANext ==
  \/ \E u \in Users, slug \in Slugs : Claim(u, slug)
  \/ \E x \in feeds : Retire(x) \/ Post(x)
  \/ \E e \in episodes : Remove(e)
  \/ \E f \in FeedIds : Publish(f)

ASpec == AInit /\ [][ANext]_avars

=============================================================================
