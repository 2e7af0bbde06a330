------------------------------- MODULE Tables -------------------------------
(***************************************************************************)
(* What works on the daemon's remaining tables: the social endpoints, the  *)
(* podcast endpoints and the migrations. They touch disjoint tables and    *)
(* share no state, so a behaviour of the three is one of each; here one of *)
(* them runs in each behaviour, and the variables of the others keep one   *)
(* value.                                                                  *)
(***************************************************************************)
EXTENDS Social

CONSTANTS
  Slugs, NoSlug, Seconds, DocumentLimit, MaxFeeds, MaxEpisodes,
  MaxFeedRequests,                                        \* of Podcasts
  Files, Statements, Once, Deploys, MaxRuns               \* of Migrate

VARIABLES
  part,  \* which of them runs
  feeds, nextFeed, episodes, nextEpisode, requests, documents,
  done, history, run, runs, published

Pod == INSTANCE Podcasts WITH MaxRequests <- MaxFeedRequests
Mig == INSTANCE Migrate

ASSUME PodcastsAssumption ==
  MaxFeeds \in Nat /\ MaxEpisodes \in Nat /\ MaxFeedRequests \in Nat
  /\ Seconds \subseteq Nat /\ DocumentLimit \in Nat
ASSUME ReleaseAssumption == Mig!Parameters

podcastsVars == <<feeds, nextFeed, episodes, nextEpisode, requests, documents>>
migrateVars == <<done, history, run, runs, published>>
socialVars == <<tables, pushes, answers>>

-----------------------------------------------------------------------------

NoPodcasts ==
  /\ feeds = {} /\ nextFeed = 1 /\ episodes = {} /\ nextEpisode = 1
  /\ requests = {} /\ documents = {}
NoMigrate == done = 0 /\ history = {} /\ run = 0 /\ runs = 0 /\ published = {}
NoSocial ==
  /\ accounts = {} /\ nextAccount = 1 /\ queue = {} /\ nextJob = 1
  /\ pushes = {} /\ answers = {}

TablesInit ==
  \/ part = "social" /\ Init /\ NoPodcasts /\ NoMigrate
  \/ part = "podcasts" /\ Pod!Init /\ NoSocial /\ NoMigrate
  \/ part = "migrate" /\ Mig!Init /\ NoSocial /\ NoPodcasts /\ arrived = 0

TablesNext ==
  /\ UNCHANGED part
  /\ \/ part = "social" /\ Next /\ UNCHANGED <<podcastsVars, migrateVars>>
     \/ part = "podcasts" /\ Pod!Next /\ UNCHANGED <<socialVars, migrateVars>>
     \/ part = "migrate" /\ Mig!Next /\ UNCHANGED <<socialVars, podcastsVars, arrived>>

allVars == <<vars, part, podcastsVars, migrateVars>>

TablesSpec == TablesInit /\ [][TablesNext]_allVars

-----------------------------------------------------------------------------
(* The properties; PushAllOrTold and PostsThroughOwnAccount are Social's.    *)

(* Each part's type invariant.                                               *)
TypesOK ==
  /\ part = "social" => TypeOK
  /\ part = "podcasts" => Pod!TypeOK
  /\ part = "migrate" => Mig!TypeOK

(* The feed an episode is inserted into is one its caller owned, though it   *)
(* was looked up two statements earlier (main.cpp:2453-2485).                *)
EpisodesByOwner == part = "podcasts" => Pod!EpisodesByOwner

(* The podcast handlers, statement by statement, do nothing to feeds,        *)
(* episodes and RSS documents that PodcastService does not do in one step,   *)
(* though a feed may go and its slug be taken between two statements of a    *)
(* handler (main.cpp:2453-2485, 2553-2615, sql/022).                         *)
ImplementsPodcastService == Pod!Service!ASpec

(* A file touches the schema only when every earlier one is there whole, a   *)
(* recorded file is there whole, and so is every file of a release that was  *)
(* published after its run had gone through them, not skipped them, however  *)
(* runs break off, overlap and start again (migrate.sh:53-67, deploy.rb:77). *)
MigratedInOrder == part = "migrate" => Mig!MigratedInOrder

=============================================================================
