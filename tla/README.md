# TagStack, specified

TLA+ specifications of Mcaster1 TagStack: `tagstackd`, the daemon that serves a
REST API over MariaDB, and the Qt desktop client that talks to it. Each module
is translated from the C++, SQL and scripts it names; TLC checks it on a small
instance, and TLAPS proves the safety properties of all of them for every
instance. `PROJECT.json` lists
components, runs, the source lines behind every definition, hazards, findings
and theorems. Line numbers here are those of the repository's files.

1. The system
2. The modules
3. The runs
4. What the runs found
5. Proofs
6. What is not modelled
7. Plan

## 1. The system

```
 desktop client ---HTTPS---> tagstackd ----SQL----> mcaster1_tagstack (tables)
 (one event loop)            (cpp-httplib pool,     casterclub forum  (accounts)
                              watcher, ingester)    casterclub_xiph_yp (feed)
 systemd --start, SIGTERM, SIGHUP, restart--> tagstackd
```

| Component | State | Operations | Hard part | What makes it correct |
|---|---|---|---|---|
| Station endpoints (`daemon/src/main.cpp:370-522, 1405-1608`) | `stations`, `now_playing`, `spin_history` | push now-playing, create, edit, delete | several autocommitted statements per request; other workers, failing statements and a dying daemon in between | children have a parent; only owners write; what is on air is in the log or is known not to be |
| YP directory ingest (`daemon/include/directory.hpp`, `main.cpp:2650, 2750`) | `directory_stations` | periodic cycle, administrator's refresh | two cycles with their own snapshots; a row that throws; a threshold on a column other statements move | stations that stay are listed, stations that vanish are unlisted, neither early nor never |
| Station tags (`main.cpp:925-1053`) | `user_station_tags`, `tag_count_cached` | save with recount, delete | two statements, the second one best effort | the cached count is right or explained; the ingest costs no tag |
| Process lifecycle (`main.cpp:33-43, 181-223, 2750-2806`, `httplib.h`, `tagstackd.service`) | threads, listening socket, worker pool, shutdown flag, unit | start, serve, signal, stop, join, restart | a one-shot `stop()` racing the start; joins | a clean exit waits for everybody; no unknown hang; a crash is recovered from |
| Identity and tokens (`daemon/include/auth.hpp`, `main.cpp:664-768`) | `cc_user_link`, `api_tokens`; the forum's accounts | login, logout, resolve | an upsert with two unique keys over accounts that get renamed; what is cached at login | a token speaks for the account that logged in |
| Desktop session (`desktop/src/main.cpp`, `ApiClient.cpp`, `LoginDialog.cpp`, `MainWindow.cpp`) | token in memory and in QSettings, windows | sign in, sign out, quit, restart | replies arrive in any window, in any order, or never | the client holds no revoked token, forgets none silently, and answers |
| Desktop requests (`ApiClient.cpp`) | requests under way | send, settle, fail | no order, no timeout, no owner: a reply goes to every page that listens | - |
| Desktop directory page and player (`DirectoryPage.cpp`, `MainWindow.cpp:171-256`) | table, detail panel, two tag lists, player | search, select, play, tag, untag, push to social | replies of several requests cross | what the panel shows is current, or about to be, or known to be left behind |
| Podcasts, events and media pages (`PodcastsPage.cpp`, `EventsPage.cpp`, `MediaLibraryPage.cpp`, `ScanProgressDlg.cpp`) | pickers, tables, a scan | add, change, delete, scan, then refresh | a refresh changes the selection under the user; a scan counts what it sends | nothing stale stays without a cause; a click deletes what the picker names; an import is accounted for |
| Station pages (`ServersPage.cpp`, `DataQueuePage.cpp`, `Icy22Page.cpp`) | one list of stations in three pages, a history | create, edit, delete, push | any page's refresh refills all three | as above |
| Main window, settings, logging, live stream | message handler, connection test, capture process | build, sign out, ping, start, stop | what crosses from one window to the next | the handler does not chain to itself; labels say what is |
| Social accounts and queue (`main.cpp:1172-1306`) | `social_accounts`, `social_post_queue` | disconnect, queue posts | one autocommitted insert per account | each account is queued once, or the caller is told; nobody posts through another's account |
| Media, events, podcasts (`main.cpp:1610-2645`) | `media_items`, `broadcast_events`, feeds, episodes | create, change, delete, list, RSS | ownership inside one statement, or a check before it | nobody adds to another user's feed; a document is of one feed |
| Migrations (`scripts/migrate.sh`, `config/deploy.rb`) | `migration_history` and the schema | check, apply, record, publish | a crash in the middle of a file, two deploys | order is kept; what is recorded or published is there whole |
| Stub pages and dialogs | none | - | - | - |
| AI personas, health, version, landing | none | answers | - | - |
| HTTP and TLS library (`httplib.h`, vendored), database client (`db.hpp`) | socket, pool; a connection | listen, stop; query, exec | as used by the components above | - |
| Web front end, packaging, shared types, docs | none that runs | - | - | - |

How they interact: every request runs on a pool thread with a database
connection of its own and no explicit transaction, so all coordination between
handlers is in the tables (keys, foreign keys, `WHERE` clauses). The threads of
the process share one atomic flag. The client shares nothing with the daemon
but requests and replies.

## 2. The modules

| Module | Models | Composes / implements |
|---|---|---|
| `StationService` | what the station endpoints promise, in atomic steps | abstract |
| `PodcastService` | what the podcast endpoints promise, in atomic steps | abstract |
| `Stations` | the station handlers, one statement per action | implements `StationService` (`ImplementsService`) |
| `Directory` | the ingest, the refresh and the tag endpoints over the same rows | composes ingest and tags |
| `Lifecycle` | the daemon's threads, its server and systemd | composes process and supervisor |
| `Identity` | the login handler over the forum's accounts and `cc_user_link` | composes forum and daemon |
| `Session` | the client's sign-in and sign-out, the network and the daemon's token table | composes client and daemon |
| `ApiClient` | requests and replies as every page sees them | extended by the pages |
| `Newest` | what a `SELECT ... ORDER BY time DESC LIMIT n` may return | extended by `Podcasts`, `PodcastService`, `Media` |
| `DirectoryPage` | the directory page, the player strip and the endpoints they call | composes page, player and daemon |
| `PodcastsPage`, `EventsPage`, `StationPages`, `Media` | the other pages over their endpoints | compose page and daemon; the daemon of `PodcastsPage` implements `PodcastService` (`DaemonIsPodcastService`) |
| `Windows` | windows one after the other, connection test, capture process | composes main(), window and pages |
| `Social` | the social endpoints, one statement per action | - |
| `Podcasts` | the podcast endpoints and the RSS feed, one statement per action | implements `PodcastService` (`ImplementsPodcastService`) |
| `Migrate` | the migration script and the deploy around it | composes script, schema and deploys |
| `Pages` | the pages of the main window, one in use in each behaviour | extends `DirectoryPage`, instantiates the other pages and `Windows` |
| `Tables` | the remaining tables, one part at work in each behaviour | extends `Social`, instantiates `Podcasts` and `Migrate` |
| `MCStations`, `MCDirectory`, `MCLifecycle`, `MCSession`, `MCIdentity`, `MCPages`, `MCTables` | instances for TLC: nothing but values | extend the module |
| `*_proofs` | theorems and proofs | extend the module and TLAPS |

### Stations

A worker serves one request at a time: `pc[w]` is the statement it runs next,
`req[w]` what it serves. `Receive*` is `require_auth` and the parsing of the
body; every other action is one SQL statement together with the code up to the
next one or to the answer. `IF ForeignKey(s)` and `IF Exists(s)` inside an
action are decisions the database makes within the statement. Three ways to go
wrong are separate: a statement throws (`StatementFails`), it commits and its
result is lost (the second disjunct of `UpsertNowPlaying` and of
`AppendHistory`; for a single-statement handler that outcome is the same state
as success), and the daemon dies (`Crash`, all workers at once). `accepted`,
`unconfirmed`, `overlapped` and `claims` are history variables: no guard reads
them. Song, cue and profile columns are not kept apart; `editor` stands for all
the columns an edit may set.

`StationService` knows neither workers nor faults: a station is claimed, or
retired with everything recorded about it; a push goes on air; a push is
journalled once, and it is accepted only in the step that journals it. The
refinement maps `now_playing` and `spin_history` to `onAir` and `journal`.

### Directory

`cycle[i]` and `pending[i]` are an ingester's place and its snapshot of the feed;
the ingester thread and every worker that serves an administrator's refresh run
the same code. A row of the snapshot is upserted in some order, an unnamed one
throws (`UnnamedRow`), any statement may throw (`CycleFails`), and a cycle ends
with `Deactivate`. Time is `age`, counted in units of which the threshold is
`Stale`, and capped just beyond it: no guard tells greater ages apart.
`last_seen_at` is `ON UPDATE CURRENT_TIMESTAMP`, which is why `Recount` resets
`age` when the count changes. `since` and `bumped` are history: the time since
the last upsert, and whether something else moved `last_seen_at` since.

A row has two unique keys: its id, the SHA1 of the `listen_url`, and the `listen_url`
itself under a collation that ignores case (`sql/015:34, 41`). Two spellings of a URL have
two ids, and the second to come updates the row of the first. So the feed and the snapshots
go by `Urls`, the table by `StationIds`, and `StationOf` says which row an upsert hits
(`UrlsOf(s)`: all spellings that share one). The row keeps the id and `listen_url` of the first
spelling, which nothing else here reads.

One hashtag per user and station stands for the names a user may choose: the
statements treat a user's hashtags alike and the count only adds them up. The
profile columns the upsert copies are abstracted to `active`, the name being
empty, and `last_seen_at`. A cycle is assumed to take less than the threshold
(`CycleTicks <= Stale`, in `DirectoryAssumption`); the code gives it six hours.

### Lifecycle

`main` walks through `main()`: boot, spawn, bind, listen, serve, drain and the two
joins. `signal` is `g_shutting_down`, set while it is not empty, and remembers of every
signal the process got whether it came before the server was running (`early`), to a
running server (`heard`), or to one that listens on although the watcher's `stop()` is spent
(`deaf`, see `Unstopped`). `StopServer` is the watcher's one call of
`svr.stop()`: it closes the socket, or does nothing while `is_running_` is unset.
`Supervise` is systemd after an exit, `StopTimesOut` its SIGKILL after
`TimeoutStopSec`, which the unit leaves at the default. `Crash` and the failing
socket and TLS calls are bounded by `MaxFaults`, signals by `MaxSignals`,
requests in the pool by `MaxJobs`.

### Identity

`forum` is the external account table: accounts with distinct names that may be
renamed at any time, up to swapping their names by way of a free one. Names are
what the columns' collation tells apart. A login is four statements: `LookUp`
(with the lock and the password; refusals there change nothing), `UpsertLink`,
`ReadBack`, `Mint`. `UpsertLink` has the three outcomes of `INSERT ... ON
DUPLICATE KEY UPDATE` with two unique keys: a new row, the update of the row
whose key is hit first (`Duplicate`), or a name that is on yet another row, which
throws. Since `cc_userid` is not among the updated columns, the row that is hit by
name stays the other account's, and `ReadBack` finds none. The cached profile is
represented by the account it was copied from. `borne` (names accounts have had)
and `refused` are history. Password text, the token's secret and its expiry are
left out; `StatementFails` and `Crash` are as in `Stations`.

### Session

A request is a record in `calls`: at the server, on its way back, or an orphan
whose client has gone. The user may sign in (again while the button is disabled:
Return in the password field calls the same slot), sign out, close the window
and quit. `Loop` is what `main()` does between two windows. `Mint`, `Revoke`,
`Refuse` and `LoseReply` are the daemon and the network; `LoggedIn`, `LoggedOut`
and `Failed` are what `handleReply` does with what comes back. `strays` is
history: the tokens that are valid and that the client has let go of. QSettings
is written through before the process can end (its destructor flushes).
A token's life of 30 days is left out.

### ApiClient and the pages

A request is a record in `calls`: what is asked, whether the daemon has answered
it, and what the answer says, computed when the daemon answers. `Send`,
`Answer`, `Settle` and `Fail` are what a page, the daemon, `handleReply` and the
network do with it. Answers and replies come in any order: Qt opens several
connections and the daemon has a pool. A page module has one action per slot
(`User`), per endpoint (`Serve`) and per reply (`Handle`), and one for the error
branches of `handleReply` (`RequestFails`), which cover refusals (403, 404, 409,
503) as well as lost connections: no page but Servers and Settings listens to
them, and those two only change a label. Identical requests under way are
numbered (`MaxSame`).

`excused`, `behind` and `lost` are history variables: which part of a page a failed
request, an overtaken reply, or a slot that asks for nothing has left behind. No
guard reads them; the properties say that there is no other cause. The causes themselves
are what the code does: a crossed reply, a 404 for an unchanged row or a file that was
counted before its request failed are recorded there, not caught.

- `DirectoryPage`: a station's tags are a version number, `shown` says what each
  part of the panel shows. `LoadIfOther`, `PlayRow`, `LoadRow`, `TagRow`,
  `PushRow` are the entries of the row's menu; `PushRow` makes the row current
  and asks for nothing, as in the code. `DetailReceived` has no guard and hands
  the stream to `LoadStream`, which stops the player.
- `PodcastsPage`: `Refill` is what the picker does when a list of feeds comes: it
  is emptied, filled and put back, and each time the current entry changes it asks
  for episodes. Feeds are numbered in the order of their titles, which is the order
  of the picker.
- `EventsPage`: `Affected` is the count of changed rows that MariaDB reports: an
  update that changes nothing is answered 404.
- `StationPages`: three pages, one `List` request, every reply reaches all
  three.
- `Media`: the upsert by path takes a row over for its caller (`Upserted`), also
  from another user (`OtherScans`); the scan ticks through its files without
  waiting. A list holds at most `ListLimit` rows, the newest by `added_at`: the page
  asks for 200 (`ApiClient.h:70`, `main.cpp:1635`). `added_at` counts seconds, so `Found` is
  the set of lists the `SELECT` may return, and files of one scan tie.
- `Windows`: `handler` and `chained` are Qt's message handler and `g_prevHandler`;
  `PutBack` is the destructor of the logging page. A list request carries the
  user whose token it was sent with.

### Social, Podcasts, Migrate

One statement per action, as in `Stations`. In `Social` a push is `Resolve`
and then one `Enqueue` per account; in `Podcasts` `CheckFeed` goes before
`ListEpisodes` and `InsertEpisode`, and `FindFeed` before `SendDocument`. A
statement that throws, a result that is lost and a daemon that dies are `Throw`,
`Fail` and `Crash`. `by`, `answers` and `documents` are history variables.

`PodcastService` knows no handlers and no faults: a slug is claimed, a feed retired
with all its episodes, an episode posted by the feed's owner or removed, and a document
published with the episodes of one feed, each in one step. The document lists all of them, or
the newest `DocumentLimit` (500, `main.cpp:2615`); `publish_at` counts seconds, and which of the
episodes of one second are cut off is the database's choice (`Newest`). `Podcasts` implements
it with its AUTO_INCREMENT counters as the ids ever given; `PodcastsPage` implements it too,
with one user, one second and no documents. So the page may take an endpoint for one step:
both modules refine one specification.

In `Migrate` `done[f]` counts the statements of file `f` that the schema has seen.
A file of `Once` fails when a statement is repeated (006 and 009 add columns
without `IF NOT EXISTS`), every other file may be repeated. `Check` may answer
"no" for a recorded file, because the script reads an error as 0; `Break` is a lost
connection or a killed script, before or after the statement committed, and
`Stop` is `set -e`. `Start` may skip: without a configuration, or without credentials in
it, the script exits with 0 (`migrate.sh:12-15, 36-39`), to the deploy a success like any
other. `published` tells the two kinds of publishing apart: of a release whose run
skipped, nothing is claimed.

## 3. The runs

| Run | Instance | States | Shows |
|---|---|---|---|
| `stations` | 2 users, an owned and a seeded station, 2 workers, 4 requests | 220k | ownership, what is on air and logged, the refinement |
| `directory` | 3 URLs of 2 stations, 2 users, thread and 1 administrator, 2 workers, 2 changes, 1 fault, in five scenes | 388k | count, threshold, tags, liveness |
| `lifecycle` | 2 requests, 3 signals, 2 faults | 12k | exits, lost signals, where it settles |
| `session` | 4 calls, 1 quit | 40k | tokens, the dialog |
| `identity` | 2 accounts, 3 names, 2 workers, 3 renames, 4 logins | 53k | rows, tokens, refusals |
| `desktop_pages` | 2 stations, users, paths, feeds or events; 2-4 clicks; 2-4 requests after a click, 1-2 of them identical; lists of media of 1, 2 seconds; 3 windows | 724k | stale contents and their causes, scans, labels, liveness of the lists, the daemon the podcasts page assumes |
| `daemon_tables` | 2 users, 2 platforms, 3 accounts, 2 social requests; 2 feeds, 1 slug, 2 episodes, documents of 1, 2 seconds, 4 podcast requests; 3 files, 2 deploys, 4 runs | 775k | half-done pushes, owners, RSS documents, order of migrations |
| `stations_owner`, `lifecycle_reload`, `session_late`, `identity_profile`, `windows_data` | as above or smaller | - | section 4 |

Why these bounds are enough. Two workers interleave two handlers at every pair of statements;
four requests allow create, push, delete and create again with a push in flight, the longest
schedule any property needs, and the theorems cover more. In `directory` each scene
(`MCScenes`) has every interleaving of what it holds: two savers and a deleter of one station's
tags beside the thread; a saver beside two ingesters with different snapshots; two stations,
one whose failing row ends the cycle of the other; two spellings of one station; two spellings
and another station. What a scene leaves out never happens in it, and nothing of that is fair.
Saves and deletes of tags have no bound: users may go on for ever, and `DirectoryFollowsFeed`
says what that costs. `Stale = 1` puts ages below, at and beyond the threshold. In `lifecycle`
a second signal and a second fault can hit any state the first one leads to, and a third signal
a server that has been deaf to the second. In `session` four calls are sign-in, sign-out,
sign-in, sign-out with every overtaking, and two sign-ins from one dialog. In `identity` three
renames over three names swap the two accounts' names, and four logins let each account log in
before and after, two of them at once.

In `desktop_pages` one page is in use in each behaviour: no reply reaches a page that handles
none of its kind, and no page calls another, so the pages cannot influence each other; the
state is the sum of the pages and not their product. Two stations, feeds or events are what a
reply for the wrong one needs; a limit of one row cuts two paths short, with a choice where
their seconds are equal; three clicks are select, change and select another, with every order
of the replies in between; two identical requests under way overtake each other; three windows
let the second one be hit by the first one's replies and leave its own to the third. In
`daemon_tables` the three parts touch disjoint tables and run apart for the same reason. Two
social requests are a push and its disconnect, or two pushes of two users; four podcast
requests are create, delete, create under the same slug and a read or post in flight; two
episodes against a limit of one leave a document short; a file with two statements between two
with one can break off in its middle with work before and after it, and four runs allow two
deploys to start again.

`stations` uses symmetry in users and workers and `identity` in names and workers (safety
only, and the refinement is a safety property); the other runs use none. Deadlock is
checked in `stations` and `identity` (where `Quiescent` marks the end of the bounded requests)
and `directory`. It is off in `lifecycle`, where a stopped unit is the end, and
in `session`, `desktop_pages` and `daemon_tables`, where the bounds on calls, clicks
and requests are.

### Fairness

- `Directory`: weak fairness of the ingester thread (its loop never waits for
  anything but time), of a refresh that has started (a request runs to its end)
  and of the clock. Not of requests, changes or faults.
- `Lifecycle`: weak fairness of each thread, of the pool's workers, of systemd's
  reactions. `CycleEnds` and `Answer` are included: handlers and cycles are
  straight-line code over statements, so this assumes that MariaDB answers or
  the connection breaks. `db.hpp:107` sets a timeout on the connect only; where
  a statement never returns, none of this holds, and the hazard list says so.
- `Session`: weak fairness of the server or network settling each call, and of
  the event loop. `ApiClient` sets no transfer timeout: that a call is settled
  at all is the same assumption about the network. Nothing is assumed of the
  user.
- `DirectoryPage`: the same two, the daemon answering and the event loop handling
  what has come. Nothing is assumed of the user, and not that a request succeeds.

### Properties

`Stations`: `WritersWereOwners`, `CurrentSpinAccountedFor`, `OneRowPerPush`,
`AcceptedIsLogged`, `LogFollowsAir`, `ImplementsService`. `Directory`: `TagCountExplained`,
`NoEarlyDeactivation`, `OnlyBumpedOutlive`, `TagsSurviveIngest`, `DirectoryFollowsFeed`
(liveness). `Lifecycle`: `CleanExit`, `DeafOnlyIfEarly`, `Settles`, `ServesAgain` (liveness).
`Session`: `HeldIsValid`, `TokensAccountedFor`, `DialogResponds` (liveness). `Identity`:
`TokensKeepAccount`, `RowsExplained`, `RefusedOnlyForReuse`. Pages: `StaleExplained` and
`ListsFollowSelection` (liveness) for the directory page, `PagesExplained` (one conjunct per
page: podcasts, events, stations, media), `ScanAccounted`, `HandlerNotChainedToItself`,
`LabelsHold`, `DaemonIsPodcastService`. Tables: `PushAllOrTold`, `PostsThroughOwnAccount`,
`EpisodesByOwner`, `ImplementsPodcastService` (which includes that an RSS document lists one
feed's episodes and no others, all of them or the newest up to the limit), `MigratedInOrder`.
Each is stated in words above its definition, and each module has one `TypeOK` (`TypesOK` of a
composition is the conjunction). For each, a *mutant* (an operator beside the definition it
replaces, marked as such) shows a plausible bug that TLC catches by it.

Three facts that no bug in a handler could break by itself (a foreign key, a unique key, a
flag that two threads share) are only proved: `NoOrphanRows`, `OneRowEach`,
`JoinsNeedSignal`.

## 4. What the runs found

- `stations_owner`: `main.cpp:372`, "only the station's owner can push". The owner is
  checked in one statement and the push written in another; a station that is deleted and
  registered by someone else in between shows the former owner's push. What does
  hold is `WritersWereOwners`: it is a former owner, never a stranger.
- `lifecycle_reload`: `config/deploy.rb:42`, "Reload the systemd unit", which every
  deploy does at its end (`:45`, `:79`). The unit's reload is SIGHUP
  (`tagstackd.service:13`), the daemon shuts down and exits with 0 on it (`main.cpp:42`),
  which `Restart=on-failure` does not restart: the deploy leaves the service down.
- `session_late`: `desktop/src/main.cpp:7`, "so the next session starts cleanly". The
  reply to a logout clears the token that is held when it arrives, which may be
  the next session's.
- `identity_profile`: `sql/016:2` and `:12`, the row "binds" an identity to one forum account
  and "mirrors" its type. An account that has taken a name another row still caches
  updates that row at its first login, and is itself refused with 500 until the other
  account logs in again. Where two accounts have swapped names and both have rows, both
  updates hit the other's `uk_username`, and neither can log in. What does hold:
  tokens keep their account (`TokensKeepAccount`), and only reused names cause this
  (`RefusedOnlyForReuse`).

- `windows_data`: `desktop/src/main.cpp:7-8` again. Replies belong to the `ApiClient`,
  which outlives the window, and are emitted to whatever pages listen when they come
  (`ApiClient.cpp:84`). A list that one user asked for fills the window of the next.

Smaller disagreements, without a run:

- `sql/015:31`, `active` is "flipped to 0 if absent from feed > stale_threshold": saving a
  tag moves `last_seen_at` (`ON UPDATE`, line 29) when the count changes, and the station stays
  listed. `OnlyBumpedOutlive` says that this is the only way, and `DirectoryFollowsFeed` that such a
  station is unlisted in the end unless users keep changing the count for ever.
- `directory.hpp:41`, the ingest "marks any local row that didn't appear as stale": an upstream
  row without a name is sent as NULL into a NOT NULL column (`:36`, `:111`) and ends
  every cycle before the deactivation, as long as it is in the feed.
- `main.cpp:37`, "caught signal ..., shutting down": a signal before `is_running_` is set uses
  up the watcher's single `stop()` (`httplib.h:6426`); the daemon serves on, and this signal and
  every later one is lost on it. `DeafOnlyIfEarly` says that it takes an early signal.
- `main.cpp:2543`, "a ?user= query param is honored when there's ambiguity": the RSS handler
  never reads it, and of two feeds with one slug it takes either (`FindFeed`).
- `main.cpp:1667`, rescans are "idempotent": the upsert also overwrites edited
  fields and the owner of the path's row (`Upserted`); and the metadata editor sends no
  duration and size, which the same upsert then sets to 0 (`MetadataEditorDlg.cpp:57`).
- `DirectoryPage.h:30`: loading a station's details hands its stream to the player, which
  stops (`LoadStream`): a detail reply that comes late stops the station that is playing.
- `DirectoryPage.cpp:375`, "Push my tags": the tags are read from a list that still shows
  the station selected before (`PushRow`); `StaleExplained` excuses exactly this.
- `EventsPage.cpp:75`, "Latest runs for the selected event": a reply for an event selected
  before is shown (`RunsReceived` has no guard), and a refresh drops the selection
  but not the log.
- `Icy22Page.cpp:99`: any page's refresh puts the composer's station back to the first one;
  a push that follows goes there (`StationsReceived`).
- `LoggingPage.cpp:21`, "The handler itself can run on any thread": it uses the page that
  the destructor on the GUI thread is taking down (`:86`).
- `config/deploy.rb:50`, "Apply pending SQL migrations after upload, before symlink swap": without
  a configuration or credentials `migrate.sh` skips them all and exits with 0 (`:12-15`, `:36-39`), and
  the release is published with none applied (`MigratedInOrder` claims the rest).
- `main.cpp:1196`, "Each connected social_account → one row per platform": a user with two accounts
  on one platform gets a row for each; `PushAllOrTold` counts accounts.
- `MediaLibraryPage.cpp:212`, "%1 track(s) in library": it counts the rows listed, at most 200.
- `sql/README` says that the daemon applies migrations; `migrate.sh` does. `sql/018`
  declares aggregates that nothing fills, and no worker drains `social_post_queue`.
- `sql/014:2` calls `spin_history` the "append-only log
  of every spin", and a push whose second statement fails, or a crash between the two,
  leaves a spin on air that the log never gets (`CurrentSpinAccountedFor` says that its caller was
  not told it was accepted).
- `directory.hpp:156` speaks of stations unseen "over an hour" where line 161 says 6 hours.
- `main.cpp:2753` says a shutdown "aborts the cycle early", and `run_ingest` does not look
  at the flag.
- A listen that fails leaves `main()` in the join of the watcher until a signal comes
  (`ListenFailed` in `Settles`).

## 5. Proofs

Every theorem is about `Spec` of its module, for all values of the constants that
satisfy its named assumption (`ConstantsAssumption`, `DirectoryAssumption`,
`LifecycleAssumption`, `SessionAssumption`, `IdentityAssumption`, `ApiAssumption` and
`PageAssumption`; in `Tables` `SocialAssumption`, `PodcastsAssumption` and
`ReleaseAssumption`; in `Pages` one assumption per page, `BoundsAssumption` to
`WindowsAssumption`). They ask for little: bounds are naturals, special values are not
ordinary ones, a cycle is shorter than the threshold, users are finitely many (their tags
are counted), paths are finitely many and begin with an id each. For `Pages` and `Tables` the
specification is `PagesSpec` and `TablesSpec`.

| Module | Theorems | Argument |
|---|---|---|
| `Stations_proofs` | `TypeCorrect`, `NoOrphans`, `WritersOwned`, `CurrentSpinAccounted`, `AcceptedLogged`, `NoDoubleRows`, `LogFollows`, `Refinement` | what is true in the middle of a handler is the missing part of each: the writer at its second statement passed the check as an owner (`WritingHandlersEntitled`, `OwnersOnRecord`); requests and rows are numbered apart (`RequestsNumbered`, `RowsNumbered`), so that a request cannot append twice; on a station without overlaps only the push on air still has to append (`AppenderIsCurrent`). `Refinement` maps each statement to a step or a stutter of `StationService` |
| `Directory_proofs` | `DirectoryTypes`, `TagCounts`, `NotUnlistedEarly`, `UnbumpedAreUnlisted`, `TagsSurvive` | `TagCounts` follows each statement's effect on the cardinality of the set of public tags; the two threshold theorems rest on `SeenAtLastUpsert`, which relates the column the UPDATE reads to the cycles that saw the station |
| `Lifecycle_proofs` | `LifecycleTypes`, `ExitsClean`, `DeafnessExplained`, `EndNeedsSignal` | one inductive invariant `LInv`: where `main()` is determines which threads exist, who holds the socket and what is drained |
| `Session_proofs` | `SessionTypes`, `HeldValid`, `TokensAccounted` | `TokensApart`: a token is held, or in one reply, or in one logout, and in no two of them, so that no revocation and no reply can hit the held one; `SavedFollowsHeld` ties QSettings to memory, `OffHasOrphans` says that a client that is gone gets no reply |
| `Identity_proofs` | `IdentityTypes`, `TokensKept`, `RowsDistinct`, `RowsAreExplained`, `RefusalsExplained` | a row never changes its `user_id` and account, and what `Mint` uses was read from the account's row (`ReadBackOwn`); a snapshot's name is one its account has had (`SnapshotsBorne`), so a row hit by name, or in the way of an update, shows two bearers of one name (`UpsertedOrReused`) |
| `DirectoryPage_proofs` | `PageTypes`, `StaleIsExplained` | an answer carries a version that the daemon has reached (`AnswersNotAhead`), so a list that is older than the daemon's was either asked for before a change whose own reply will ask again, or overtaken; each action is shown to keep what it sends proper and to leave a cause for every stale part |
| `Tables_proofs` | `SocialTypes`, `PostsOwn`, `PushesAll`, `NeverRepaired`, `TablesTypes`, `EpisodesOwned`, `PodcastRefinement`, `InOrder` | see below |
| `Pages_proofs` | `PagesTypes`, `StalePagesExplained`, `ScannedFiles`, `NoHandlerLoop`, `LabelsTrue`, `DaemonOfThePage` | see below |

`Tables_proofs` proves each part by itself and joins them in `TablesInv`.

- Social: a push holds the accounts it resolved, which were the caller's and are not given
  to anyone else since ids are never reused (`ResolvedOwn`, `Numbered`); what is left to do
  and what is queued make up what it resolved (`LeftToDo`).
- Podcasts: what a handler found in its first statement is still so in its second, or the
  feed is gone for good, because no id is given twice (`IdsDistinct`, `FoundStays`). Every
  statement is then a step of `PodcastService` or a stutter: the check of the owner is a
  stutter, the insert that passes the foreign key is the post by the owner, and the
  document's second statement publishes the feed that the first one found, even where the
  slug has gone to another feed since. Both take the episodes through the same `Newest`, so
  nothing depends on the limit or on the order within a second.
- Migrate: a script that is at a file has found every earlier file whole, and that is
  never undone, whatever other scripts do (`ScriptsSound`). `NeverRepaired`: a file that
  cannot run twice and broke off in its middle stays so in every run (`TornStaysTorn`),
  and with `InOrder` no later file is ever applied: somebody has to repair the schema by hand.
  `InOrder` claims a published release whole only if its run went through the files: a run
  that skipped publishes as well, over whatever schema there is.

`Pages_proofs` proves each page by itself and joins them in `PagesInv`, with
`NextInv` of `DirectoryPage_proofs` for the directory page.

- `PagesExplained` is not inductive alone: the cause of a stale part is a request under
  way, and whether its reply brings the part up to date depends on what it asks and
  what its answer says. The invariants of the requests say that (`PodCalls`, `StCalls`,
  `EvCalls`, `MedCalls`, `ListsOfUsers`): a request names what its page may ask for, and an
  answer is of the type that the page shows. Each step that settles a request is then shown
  to refresh the part, to send the request that will, or to set the history variable.
- The picker and the stations' pages fall back to the first entry of a list. That it
  exists is `LeastExists`, from the well-foundedness of the naturals
  (`NatLessThanWellFounded`, `WFMin`), because induction is out of reach.
- An earlier form of `MediaExplained` let any list under way explain the table, even one
  asked for a search typed over since. It is true but not inductive, since nothing says
  that such a list will do: the explanation is now a list of the current search, an answer
  that is right by now, or a delete under way, and that is stronger.
- `ScanAccounted` is inductive with the types and the shape of the requests. What the types
  need is that the rows there are to begin with have ids: the bound `MaxIds` leaves room for
  the paths (`MediaAssumption`).
- `HandlerOfWindow`: the handler is the logging page's exactly while a window is open, so
  the next window finds the default one. `LabelsHold` is
  inductive with the types.
- `DaemonOfThePage` maps the page's rows to those of `PodcastService`; `1..made` are the ids
  given.

All safety properties that the runs check are stated by a theorem. Only model-checked are
the liveness properties (`DirectoryFollowsFeed`, `Settles`, `ServesAgain`, `DialogResponds`,
`ListsFollowSelection`), since fairness and `ENABLED` are out of the prover's reach, as are
induction over data and recursive operators (the modules use none). The violations are TLC's
counterexamples.

## 6. What is not modelled

- Endpoints that only read and that no page of the client calls: version, the public list of stations,
  the current spin of a station, trending tags, a user's social accounts.
- The text of requests and answers: JSON, escaping, validation messages.
- The limits and offsets of the other lists: the directory search (`main.cpp:843`, at most 200),
  a user's tags (`:1065`), the social queue (`:1321`), an event's runs (`:2079`) and a station's
  history (`:2134`). Their pages hold a version or a count of what they asked for, and
  what is compared is how recent the answer is, not which rows it holds.
- `httplib.h` beyond listen, stop and pool, and the MariaDB client: their contracts are
  modelled as external actions (a statement runs, throws, or loses its result).
- AI personas, version and landing endpoints: no state.
- The expiry of tokens and the edits of a profile's fields that nothing else reads.
- In the client: the log files and their tail, the list of audio devices, the appearance
  settings, the clipboard; pages and dialogs whose buttons are connected to nothing
  (`SocialcastingPage`, `AddServerDlg`, `DbBackupDlg`, `DbMigrationWizardDlg`, `SelectMountDlg`)
  or to empty slots (the composer's session bar, Save and Queue).
- The end of the logging page under a thread that logs: a use after free has no outcome to
  choose from. It is listed in section 4.
- The web front end is a placeholder; the headers under `shared/types` are not included by
  anything; the documents under `docs/` specify protocols no code implements; of the
  deployment only the two hooks that touch the schema and the service are modelled.

## 7. Plan

Done, in order of importance: `StationService`, `Stations`; `Directory`; `Lifecycle`;
`Session`; `Identity`; `ApiClient`, `DirectoryPage`; `Social`; `Podcasts`; `Migrate`; the other
pages; `Windows`; `PodcastService`, which `Podcasts` and `PodcastsPage` implement. Every safety
property of a run is proved. What is left:

1. Proofs of what the liveness properties rest on, as action properties and invariants: in
   `Lifecycle` that each step of the shutdown brings `main()` nearer to its end and none back
   (a variant for `Settles`), in `Session` that a call under way is settled at most once
   (for `DialogResponds`), in `Directory` that nothing but a failing row keeps a cycle from its
   end (for `DirectoryFollowsFeed`).
2. Refinements of the same kind as `PodcastService` for the social queue (a push is one step or
   is told) and for the token table (`Session` and `Identity` over one abstract table).
3. A page composed with `Session`, so that the error `AUTH` of a revoked token is a reply of
   its own kind.
