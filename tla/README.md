# anqa: the control owner, its clients and the operator's files in TLA+

anqa reads the session files that coding agents leave on disk and shows them in a terminal
interface, a desktop window and editors. One process per machine, the *control owner* (`anqad`),
keeps a warm list of all sessions and answers the others over a Unix socket. The clients are thin:
what they show is what the owner told them. Most of what can go wrong without a test noticing is in
steps of several threads or processes: row tables patched from disk reads taken at different times,
a revision and delta protocol that lets a client skip what it already has, a watch pipeline that has
to lose nothing, pages that arrive for a query that is no longer asked, files saved by two programs,
and owners that start, stop and replace one another around four files with one lock.

This directory models those parts, checks the models with TLC on small instances and proves some of
their properties with TLAPS for all instances. `PROJECT.json` maps definitions to source lines and
lists runs, hazards, findings and theorems; this file is the way in. All line numbers are of the
files under `src/`.

## 1. The system

| Component | Code (`anqa/`) | State | Operations | Talks to |
|---|---|---|---|---|
| Session catalog cache | `session/catalog.py` | rows, stamps, roots fingerprint, revision (`_gen`, `_seq`), delta log, `_building` | `get`, rebuild, row patches, `poll_stamps`, `invalidate`, `delta_since`, `list_page` | disk through the adapters; watch applies, the poll, request handlers |
| Catalog snapshot | `session/mtime_export.py` | one file per root | load, reuse row by row, build, write | the catalog when it starts |
| Watch apply | `control/daemon.py` `CatalogWatchApply`, `fs_watch.py` | `_pending`, `_tasks`, `_open`, watch threads | `on_paths`, `_accept`, `_kick`, `_run`, stamp poll, rebuild callback | catalog; `session/changed` to every client |
| Owner lifecycle | `control/server.py` (start, close, lock), `control/daemon.py`, `anqad.py` | socket path, flock, pid in the lock file, pid file | start, serve, close, `anqad -d`, `stop`, `restart`, `ensure_control_daemon` | each other, through these files and signals |
| Control server and client | `control/server.py`, `control/client.py` | connections, broadcast set, write locks | requests and answers, notifications, listing page by page | all clients |
| Session views | `session/control_views.py` and the readers below it | overview, job row and turn caches, the build in flight | `session/overview`, `session/turns`, `session/timeline`, search | request threads, the session's files |
| Notes and tags | `notes.py`, `tags.py`, `session/access.py` | one TOML file per session in up to three places | guarded upsert and delete, `tags_set` | several processes write the same files |
| Delete, import, export | `session/delete.py`, `imports.py`, `export_*.py` | the sessions' files, archives | copy, remove, pack | catalog |
| Home list | `ui/app.py` | rows, revision, load generations, search flight, heartbeat | load, merge a delta, fill pages, search, scan | the owner, or the disk |
| Session screen | `ui/screens/browser.py`, `session_inflight.py`, `ui/widgets/timeline.py` | the lock with its rerun bit, timers, pages, turn map | full load, light refresh, growth, filters | the owner, or the disk |
| Keys and configuration | `keys/`, `config.py`, `desktop/src/prefs.rs` | keymap, leader; cached document | overlay, arm and press; load, import, save | `keys.toml`, `config.toml` |
| Adapters, native core, front ends | `harness/`, `core/`, `desktop/`, `integrations/` | none | parse other tools' files, number the turns; draw | catalog, views, the owner |

**How they interact.** A write to a session's file wakes a watch thread, which posts the paths to
the owner's event loop. The loop files them under a session, debounces, and hands the batch to a
worker thread that patches the catalog's row (read the disk outside the lock, install under it if
nothing moved). Back on the loop, `session/changed` goes to every client with a flag `listChanged`.
A client then lists with the revision it last saw and gets nothing, a delta, or a full page; an open
session screen asks for the overview and the next pages. A full scan in a thread of its own replaces
the whole table from time to time; every five seconds a poll compares recorded file stamps. Without
an owner the terminal does all this in threads of its own.

**What makes each component correct, and what is hard about it.**

- Catalog: a merged delta gives the current list; old data never replaces newer; rows of vanished
  sessions leave; clients converge. Reads of the disk and installs of what was read are apart and
  interleave with other threads'; the log of deltas is bounded and revisions restart with the owner.
- Snapshot: a listing is never older than when it was asked for, through crashes in the middle of a
  write.
- Watch apply: no write seen by a watch goes untold; the client's list follows the owner's. Several
  applies run, a watch may be lost for a moment, the rebuild may see a change first.
- Owner lifecycle: never two owners; starts in a race end with one that stays. Owners and commands
  probe, unlink, bind, write pids and remove them in separate steps.
- Server: answers and notifications come in an order clients rely on; one that stops reading holds
  nobody up for ever.
- Views: an answer is not older than the question, although one thread builds for many and caches
  are shared.
- Notes: no acknowledged edit is overwritten unseen; the newest content is read back.
- Delete, import: what is answered has happened, in nine layouts, whatever failed half way.
- Screens: one refresh at a time; nothing goes back; what the operator asked for last is what is
  shown.
- Keys and configuration: a bad file is refused whole; a save of one setting leaves the others,
  though three kinds of writers share `config.toml` and write it in place.

## 2. Modules

| Module | Models |
|---|---|
| `CatalogCache` | the catalog, the disk below it and `session/list` clients above it |
| `CatalogSnapshot` | the snapshot file of one root, stamps, reuse and torn writes |
| `WatchApply` | watches, event loop, applies, poll, rebuild callback, and a client that lists on `listChanged` |
| `OwnerLifecycle` | owner processes, stop and start commands |
| `ControlServer` | connections, requests, answers, notifications, tags and notes writes |
| `SessionViews` | overviews built by one thread for all who ask, and the caches under them |
| `NotesStore`, `GuardedNotes` | the notes of one session in two processes; what they promise |
| `SessionArchives` | export, import and delete, for each of the nine harnesses |
| `LiveRefresh` | an open session: full loads, light jobs, timers, the watch, the lock |
| `HomeList`, `OfflineHome` | the home list with an owner and without |
| `TimelinePages` | the pages of a timeline, its filters, its growth |
| `TurnNumbers` | the pass that stamps every row of a parsed timeline with its turn |
| `TurnSegments`, `TimelineTable` | how events are cut into turns; the table that extends its map by the rows a refresh brought |
| `EventSearch` | the shared search index of a session under requests at the same time |
| `SessionWork` | jobs, schedules, workflow runs and subagents merged from several files, and the Summary pane |
| `Ranks` | a list made of a set and an order, as a sort makes it: for the two list modules |
| `QueryLanguage` | half typed queries; what a clause sees on either side of the socket, field by field |
| `WorkspaceDiff`, `UsageCounts` | the Diff of each turn and its pane; the usage page |
| `KeyOverlay`, `PrefsFile` | `keys.toml` with the leader key; `config.toml` and those who write it |
| `MCCatalogCache`, `MCWatchApply`, `MCNotesStore`, `MCKeyOverlay` | instances for TLC |
| `MCOwnerViews`, `MCScreens`, `MCRecords` | packs of components that share no state (section 3) |
| `...Proofs` | theorems (section 5) |

`SessionViews` starts where `SessionWork` looks in detail: the one says who builds and for whom, the
other what is built. `TimelineTable` extends `TurnSegments` with the table that uses it, and both
`TurnSegments` and `WorkspaceDiff` take their timelines through `TurnNumbers`.
`WatchApply` takes each catalog call as one step, as `CatalogCache` says how such calls interleave;
`HomeList` takes the owner as a revision and the revision that last touched each session, which is
what `DeltasCatchUp` gives it.

A definition with the word *Mutated* in its comment, or whose name ends in the fault it has
(`Guard_NoRevision`, `FinishedPrefixOnce`), is a variant with a fault a programmer could have made.
No specification uses it: it is there to see that each checked property fails when its code is
wrong. `PROJECT.json` pairs each with its property.

### The owner

**CatalogCache.** A row is two counters. `chrome` stands for the fields whose change makes a
revision (`_LIST_CHROME_KEYS`), `meter` for the others; a file write moves one of them, and the file
stamp is the pair. A session may be listed, gone, or turn out to be another's subagent. A patch asks of a
vanished session whether its locator still exists (`LocatorGone`): of the `SharedSessions`, rows of
one database as OpenCode and Copilot keep them, it always does, so that only a rebuild drops
such a row. Each action
is one critical section or one disk access between two: `RebuildRead`, `RebuildInstall`,
`RebuildEnd`, `RebuildFail` are `_run_rebuild`; `Watch`, `Poll`, `AfterWrite`, `Delete` start a
thread on a *plan*, the catalog calls it will make in order, and `Enter...`, `Stat`, `Read`, `Find`,
`Install`, `Abandon` are the steps of such a call; `ListSeed`, `ListKick`, `ListRead`, `ListReply`
are one `session/list` with its separately locked parts and the client's merge; `Expire`,
`Invalidate`, `Restart` and the writes are the environment, bounded by `MaxEvents` and restricted to
`Events`.

**CatalogSnapshot.** A session is the version of its files, which is its stamp, and whether its last
turn counts as live, which the clock decides too. A builder stamps every session, takes over rows
whose stamp has not moved, builds the rest, writes the file in place. It may be stopped between any
two steps; a file of another release may be there.

**WatchApply.** The event loop is one thread, so what runs between two awaits is one action
(`Accept`; `Run`, `Wake`, `Publish` of a task); an apply runs in a worker (`Apply`, `Fail`). A watch
that breaks and re-arms loses what moves in between (`Rearm`); `lost` remembers such sessions, and
those of a failed apply, so that properties can say "unless lost". `silent` remembers rows that the
owner changed without saying so.

**OwnerLifecycle.** An owner goes new, locked, clear, bound, serving, closing, released, exiting,
dead; each arrow is what it does between two points where another process may act on the files.
Commands share one copy of `stop_control_daemon`, which returns to the place in `next`. Two old
processes exist: a `Legacy` build that takes no lock and writes no pid, and an `Outdated` one that
speaks another protocol major and is replaced by `ensure`.

**ControlServer.** A connection is a coroutine: read a request, pass the gate of heavy calls, work,
answer, tell the others. `lines` is what lies in a client's stream, `Pipe` how much of it fits
before a write waits. A client may stick (stop reading), leave, give up waiting; a notification has
a time limit and hangs up on whoever exceeds it. `loop` says who holds the serve loop, as a tags or
notes write does while it waits for a rebuild.

**SessionViews.** Files are versions; a stamp is the versions read when it was taken, one by one. A
thread takes a stamp, looks into the cache, and else becomes the builder or joins the one there is.
Builds fail, notes writes drop the cache, other sessions evict it.

**NotesStore.** An edit is an upsert or a delete of one note by an editor of its own, and the text
of a note is the editor that wrote it. The owner makes edits in threads under the lock of its
process; the TUI (`Local`) falls back to doing it itself. Both use the same steps: `Lock`, three
reads (`Load`), `Check`, `OpenTmp`, `Write`, `Rename`, `Reply`. Each read and each step of the save
is an action, since the lock says nothing to readers or to the other process. Opening a temporary
file truncates the one another process may be writing; an open descriptor (`at`) then follows the
file to its new name. A content hash is modelled by the content. `GuardedNotes` has none of this:
one document, changed by whole edits made on the revision sent; `Promise` in `NotesStore` maps the
canonical content, the revisions sent and the outcomes to it.

**SessionArchives.** What a harness keeps of a session is a few planes (trace, chrome, children,
database, scratch), each a number of writes. A table gives, for each harness, what its adapter
packs, binds, lists, sees and removes; export, import and delete are sequences of steps that may
break off.

### The screens

**LiveRefresh.** Screens opened on one session one after the other; the index of the last write a
read saw stands for what it read. A full load holds the session's lock from its first read to its
last callback; a light job that finds it held sets the rerun bit. The home heartbeat takes the same
lock.

**HomeList.** Load threads with generations, the revision kept, pages of `PageSize` drained from an
owner that moves, the search box with its single flight, a delete that the owner may refuse. The
rows are a sequence that is merged, searched and painted (`Merged`, `Shown`, `Populates`). A page of
a fill is asked for, merged, applied and painted in steps of their own, as is a delete, whose answer
and whose rows are apart (`deleting`). `torn` marks what no later delta can bring, `veiled` a whole
list painted through a query (section 6).

**OfflineHome.** The list without an owner: loads, scans, a heartbeat that reads the rows in
progress, deletions, a session screen in front.

**TimelinePages, TimelineTable, TurnSegments.** A timeline is a sequence of events of which some
match a turn or a query. The operator picks a turn or steps to the next with a key (`PickTurn`,
`StepTurn`). Pages are fetched by a pass (one in flight, the latest request next) and by
fills near the end; growth is appended meanwhile. A parse
stamps every row with the number of the last numbered start up to it, the rows before the first with
that of the first, and all with 0 when no start has a number (`Parsed`). `TurnSegments` cuts events
by start and end markers, with follow-ups, late ends and turns inherited from a fork. The owner
sends a directory's rows with the stamps of the parse and any other's with the turns of this cut,
which has none for session-level rows (`Page`). A refresh of the screen reads its last row again,
then the rows after it, each as the owner stamps it at that moment (`ReadsLast`, `ReadsTail`); what
was read before keeps its stamp. The table takes the screen's list over when its tab is in front and
goes by the stamps when it builds its map (`TurnMap`, "owner stamps win"), but by the row before
when it extends it (`Extended`). One fact about the log is taken as given: the harness's own end
marker has a start somewhere before it (guard of `Gains`).

**EventSearch.** Requests parse the session, stamp it and then bring the shared index to their own
events under the lock.

### Records

**SessionWork** has the agent write facts in separate files in any order, the owner read them one
after the other and cache rows by a stamp, and the screen keep, paint and open rows. What a bookend
says is looked up by places in the timeline; the merge of a job's records is stated by its result,
the record that prevails over every other when all are merged in their order.
Where a row leads is looked up by id: that a workflow's bookend may
carry a prefix of its name and a job's a call id (`session/jobs.py:264-273`) stands under one id here.
**QueryLanguage** has two stories: a query typed token by token, and a clause answered by the
owner's row and then by the terminal's copy of it, which has the counts of a table
(`CountMeta`, `COUNT_META_ATTR`). **WorkspaceDiff** and **UsageCounts** are
projections of a growing trace; any event's stamp sets the turn the Diff files it under (`Filed`),
and the pane keeps its point, file, find, hits and line through loads, picks and steps. **KeyOverlay** lays lines over a catalog of actions and then lets
keys be pressed while timers run. **PrefsFile** has programs that read
once, import an older `config.json` once, and save by truncating and rewriting from the document
they keep (`BeginsSave`, `Opens`, `FillsFile`), the HUD, which reads before each write of its own
setting (`HudReads`), and the operator, who edits or breaks the file as he finds it. Any write may
fail before or after it emptied the file, or die there; two at once may leave a mixture. `wanted` is
what each key was last set to: a save moves it for the keys the program was told to change, and for
no other, so a save that put back, dropped or failed to keep another key is seen. `behind` says of
each writer which keys were set by others since it read the file, `takenBack` which of those it then
wrote.

## 3. Runs

| Run | Instance | Shows |
|---|---|---|
| `catalog_safety` | 1 directory session and 1 row of a shared database, poll and 1 worker, 1 client, 2 deltas kept, 2 events of write, removal or becoming a subagent | `DeltasCatchUp`, `ChromeNeverGoesBack` |
| `catalog_liveness` | 1 file-store session of a file of its own, poll and 1 worker, 1 client, 1 delta kept, 2 events of all kinds | `TypeOK`, `GoneIsUnlisted`, `ClientsCatchUp` |
| `watch_apply` | 1 directory session a root watch sees, 1 row of a shared database, 3 events of 7 kinds | `WritesAreTold`, `ListIsHeard` |
| `owner_start` | a legacy and an outdated owner, 2 new processes, 2 commands of any kind, 1 crash | `OneOwner`, `StartsEndWell` |
| `notes_store` | 2 notes, 2 edits of which one is the TUI's; a kill of the owner, a remount or a timeout | `PromiseKeptByOne` (refinement), `SentIsAnswered` |
| `live_refresh` | 2 screens, attached or offline, 2 writes, 1 of F5, tab switch, failed read, close, home heartbeat | `HeldByOne`, `ScreensNeverGoBack`, `RowsAreFetched` |
| `home_list` | 2 sessions, pages of 1, 2 load threads, 2 acts | `RevisionIsCovered`, `HomeCatchesUp` |
| `screens` | pages: 6 events in 2 turns, pages of 2, 1 fill, 2 edits; table: 4 events of 5 kinds, starts with 2 numbers or none, a directory's stamps or the cut's; offline: 2 rows, 2 loads, 1 change, 1 order; search: 2 requests, 3 changes | `RowsAreAPrefix`, `LatestIsFetched`; `EveryEventInOneTurn`, `OwnerStampsWin`; `LiveRowsSettle`; `TextIsFound` |
| `owner_views` | server: 2 callers, 1 listener, a pipe of 1, 1 fault; views: 2 threads, 2 questions; snapshot: 2 sessions, 3 listings; archives: 9 harnesses, 2 writes, 2 archives, 1 break | `StreamOrder`, `CallsEnd`, `ListenersCatchUp`; `OverviewHasTheNotes`, `AskersAnswered`; `ListIsCurrent`; `ImportedIsArchived`, `AnsweredDeletesAreGone` |
| `records` | work: 2 jobs or children, 3 facts; query: 3 tokens, 2 signs; diff: 3 writes, 1 rewind; usage: 3 calls; keys: 5 actions, files of 2 lines, 2 armings; prefs: 2 programs and the HUD, 2 settings and a key of the operator's, 3 changes | `RowsLeadRight`, `RowsAreFresh`, `FinishIsKept`; `TimelineKeepsMatches`; `WritesAreListed`, `PaneShowsAHit`; `CallsAreConserved`; `RefusedInFull`, `LeaderHoldsItsTime`; `PrefsSurvive` |
| `delete_rows` | `SessionArchives` as above | `MissingIsMissing` is violated (finding 1) |
| `diff_search` | `QueryLanguage`, one clause | `AnsweredRowsAreShown` is violated (finding 2) |

**Packs.** The components of `MCOwnerViews`, `MCScreens` and `MCRecords` share no variable and call
nothing of each other. The variable `part` chooses one of them at the start; a behaviour then runs
that component with its own actions and fairness, and the others stay in one initial state. So a
pack checks exactly what a run of each component would, on the union of their state spaces and not
on their product.

**Deadlock** is not looked for: with writes, events and acts bounded, every model comes to rest, and
so does the program when nobody asks it anything. That waiting ends is what the liveness properties
say.

**Why these bounds.** Two threads that patch and the rebuild thread are the three parties a row can
be contested by; two sessions let a patch of one carry a stale copy of the other (an install writes
back the *whole* snapshot). Two events are a change a snapshot misses plus one that makes the second
party start. A log of two deltas reaches both a replay over several deltas and a gap; a log of one
reaches the gap at once in the liveness run, which has one session. No run uses symmetry: the
sessions and the threads have parts of their own, and the liveness runs allow none. In
`watch_apply` three events are a write, another during its apply, and a removal, failure, rebuild or
re-arm around them. Two commands are what it takes for a probe and an unlink to straddle a bind. Two
notes and two edits are a lost update. Two screens are one that is left while its load runs and one
that is opened on the session meanwhile. Two loads, or two requests, are the overtaken and the
overtaking; pages of one or two make every list longer than a page. Two sessions and three listings
let a torn or reused file be met by a third. Four timeline events are a start, a follow-up, an end
that comes late and the next start, or rows before the first start, which a refresh read as turn 0
and the start then takes. The notes' harness, the adapters' tables and the catalog of keys
are data: all nine harnesses are checked, five rows of keys that share, cross and avoid each other's
chords.

**Fairness.** Threads that run are scheduled; posted callbacks are executed; interval timers and the
poll come round; clients that follow a list keep listing; watch threads deliver what the kernel told
them. Nothing forces a write, a removal, an expiry, a failure, a crash, a restart or a kill, nor an
operator to press or an editor to look or send. All fairness is weak: none of these steps is
contested in a way that disables it for ever. In `ControlServer`, `HomeList` and the pass of
`TimelinePages` one fairness condition covers all that proceeds, as what proceeds between two acts
is bounded. In `OwnerLifecycle` time appears once, in `GiveUp`: a start gives up only when no
process is in the middle of starting or stopping and no other command is at work, that is, the
ten-second waits are assumed to outlast a start or a stop that is under way.

**What the properties excuse, and why.** A property says "unless" only for what the code gives up on
knowingly or for a divergence section 6 names. `WritesAreTold` excuses batches that were lost,
`ListIsHeard` rows moved in silence, `HomeCatchesUp` and `RevisionIsCovered` torn lists,
`RowsAreAPrefix` replies that came to rows they were not asked for and filters whose first page is
misplaced, `RowsAreFetched` a stamp ahead of the rows and a watch left by a closed screen,
`LiveRowsSettle` a screen in front, `OwnerStampsWin` the last row and session-level ones,
`ListenersCatchUp` an owner that waits to answer a client that
does not read, `PrefsSurvive` a
file that does not parse and keys a writer took back that it was behind with. `HomeCatchesUp` says
exactly what may be behind in the `veiled` case: the paint, by one query that is no longer asked,
over rows that are right. `GoneIsUnlisted` is of sessions whose locator goes with them. Each of these was violated without the excuse.
`StartsEndWell` is about two commands among `start`, `ensure` and foreground `anqad`: with three,
the stop inside one start can unlink the socket a second has just bound. `ImportedIsArchived` is
about stores whose import is a file or a directory of its own. File times are assumed to differ
between two writes; revision counters are not reduced modulo their width: 32 low bits against a bump
per second last a century.

## 4. Findings

1. **A delete that deletes nothing** (`delete_rows`, `MissingIsMissing`, `session/access.py:305`).
   `session/delete` passes the session's locator alone. Of OpenCode and Copilot that is the database
   of all sessions, which no adapter binds to one: the delete answers `missing`, leaves the session
   where it is, and drops its row from the catalog. `CHANGELOG.md:92` says that delete "removes
   every store locator: directory, file, or database row".
2. **A search that hides its hits** (`diff_search`, `AnsweredRowsAreShown`, `session/query.py:263`).
   The owner answers `has:diff` from its rows; the terminal filters the answer again by its own
   copy, whose two line counts were never copied (`session/catalog.py:1173`), and shows nothing.
   `docs/control.md:102` and `docs/search.md:18` offer the clause. The other counts of
   `COUNT_META_ATTR` are copied one by one (`RowCounts`).

## 5. Proofs

`tlapm` checks every theorem below to its last leaf. A theorem is about the specification of its
module with all its constants open: any sets of sessions, threads, clients, editors, screens or
programs and any bounds, under the named assumptions of the module.

| Theorem | Module | States |
|---|---|---|
| `TypeCorrect` | `CatalogProofs` | `[]TypeOK` |
| `DeltasAlwaysCatchUp` | `CatalogProofs` | `[]DeltasCatchUp` |
| `ChromeAlwaysAdvances` | `CatalogProofs` | `ChromeNeverGoesBack` |
| `OwnerTypeCorrect`, `NeverTwoOwners` | `ControlOwnerProofs` | `[]TypeOK`, `[]OneOwner` |
| `NotesTypeCorrect` | `OperatorProofs` | `[]TypeOK` |
| `NotesKeepTheirPromise` | `OperatorProofs` | `OneLocal`: `TimedSpec => PromiseKeptByOne`, the refinement of `GuardedNotes` |
| `StreamAlwaysInOrder` | `ControlOwnerProofs` | `[]StreamOrder` |
| `OverviewAlwaysHasTheNotes`, `OneBuildAtATime` | `OwnerViewsProofs` | `[]OverviewHasTheNotes`, one thread builds |
| `ListAlwaysCurrent` | `OwnerViewsProofs` | `OneBuilder`: `[]ListIsCurrent` |
| `DeletedIsGone`, `ImportShowsItsArchive` | `OwnerViewsProofs` | `[]AnsweredDeletesAreGone`, `[]ImportedIsArchived` |
| `TimelineAlwaysKeepsMatches` | `OwnerViewsProofs` | `[]TimelineKeepsMatches` |
| `OneRefreshAtATime`, `ScreensOnlyAdvance` | `ScreenProofs` | `[]HeldByOne`, `ScreensNeverGoBack` |
| `RowsAlwaysFresh`, `RowsAlwaysLeadRight`, `FinishAlwaysKept` | `ListProofs` | `[]RowsAreFresh`, `[]RowsLeadRight`, `FinishIsKept` of background work |
| `WritesAlwaysListed` | `ListProofs` | `[]WritesAreListed` |
| `RevisionAlwaysCovered`, `BusyAlwaysNewest` | `ListProofs` | `[]RevisionIsCovered`, `[]BusyIsNewest` of the home list |
| `RowsAlwaysAPrefix`, `TimelineTyped` | `TimelineProofs` | `[]RowsAreAPrefix`, `[]TimelineTypeOK` of the pages |
| `EveryEventAlwaysInOneTurn`, `OwnerStampsAlwaysWin`, `TableAlwaysRead` | `TimelineProofs` | `[]EveryEventInOneTurn`, `[]OwnerStampsWin`, `[]TableInv` of the table |
| `RowsHaveTheirTurn` | `TurnNumberProofs` | `Carried` gives every row the number `NumberAt` says |
| `KeymapIsLoaded`, `AlwaysRefusedInFull`, `OneActionAlways`, `LeaderAlwaysHoldsItsTime` | `OperatorProofs` | `[]RefusedInFull`, one action for a press, `LeaderHoldsItsTime` |
| `PrefsAlwaysSurvive` | `OperatorProofs` | `[]PrefsSurvive` |
| `CallsAlwaysConserved` | `OperatorProofs` | `[]CallsAreConserved` |

**How the arguments go.** Each proof has an inductive invariant in named parts, a lemma for each
action (or for each kind of step that many actions are), and a last step that joins them. Why the
invariants are what they are:

- *Catalog types.* `TypeOK` is not inductive alone: a thread inside a call reads the head of its
  plan, so the plan must not be empty (`PlansOK`).
- *Deltas.* `DeltaInv`. The log holds one delta for each of the last revisions (`LogShape`), and of
  the deltas that touch a session the last carries what its row shows now (`LastDeltaWins`). An
  install writes the whole snapshot a thread took back; that this moves nothing else rests on the
  check of the revision: at the revision it was taken, a snapshot still shows what the table shows
  (`SnapshotsHold`). So a client that is not gapped already shows whatever no later delta touches
  (`ViewsHold`), and a replay shows the rest (`ReplayCatchesUp`, by the last touch of each session).
  `RevisionsKnown` says that no client is ahead of the owner, without which a log that begins again
  could serve a revision of the time before.
- *No row goes back.* `ChromeInv` on top: every table a thread carries was read from a disk that
  only moves on (`NothingInvented`); what a rebuild has read is as new as the table, which stands
  still meanwhile (`ScanNewer`); what a patch has read is as new as the table as long as the
  revision is the one it started from (`ReadNewer`), and is abandoned otherwise.
- *Owners.* `OwnerInv`. New owners exclude each other by the flock (`LockHeld`). The legacy owner
  takes none; while it serves, the path is its own, no pid is written and no command is about to
  unlink the path (`LegacyUndisturbed`), so that no new owner gets from the lock to the bind.
  Between new owners sockets and pid files play no part: they may well be removed under a living
  one (section 6), and still no two accept.
- *Notes.* While no editor has given up on a living owner (`waits # "over"`), one process makes the
  edits (`OneStore`), one thread at a time under its lock. From that thread's load to its rename the
  files stand still, so what it read is what counts (`Step`, one conjunct for each place in the
  edit); every final file is whole and of the past (`FilesTidy`); an edit made twice, after a crash,
  finds its base gone and is refused (`MadeOnce`). With these each step of the store is a step of
  `GuardedNotes`, the rename or the reply, or a stutter.
- *Streams.* `StreamInv`. Who is outside the broadcast set is in nobody's audience and finds answers
  alone (`Quiet`). Requests are numbered as they are read, and what a connection told itself bears
  the number of a request it has answered (`Numbered`); so when an answer is written no earlier line
  tells of it (`Ordered`).
- *Overviews.* `ViewsInv`. A builder holds the flight from its walk to its release (`OneFlight`), so
  what the flight says of its end is about that build; whoever takes a cached overview read the
  notes' stamp after being asked, and whoever built one read the notes after its stamp
  (`NotesRead`).
- *Snapshots.* `SnapshotInv`. No file is better dated than what it holds (`Honest`), and no call in
  progress dates its rows later than it read them (`Sound`): the stamp is taken before the rows, so
  a row may be newer than its stamp and never older. A torn or foreign file does not load.
- *Deletes and imports.* `DeletionInv`: what is still to be read of a session is still on the list
  of the delete (`RemovesAll`), by the table of each harness. `ImportInv`: of stores where an import
  is a file or directory of its own (`Plain`), what was exported had a trace (`Traced`), and between
  two steps the import store has nothing or the archive's planes (`InPlace`).
- *The Diff.* The property is of the timeline alone, and what has to be shown is what the pass over
  it computes. After each event the buckets are those of the turns so far, one each, with the places
  of their turn (`FilingFits`); the files of a bucket are one for each path written there, since a
  path has an edit's file or else a patch's and one place in the order (`PathFilesAre`), and joining
  them neither drops nor repeats any (`FlattenFits`). The timeline of the pass is a parsed one, in
  which every event bears the number that `NumberAt` reads off the starts, so the turn carried from
  event to event plays no part (`CarriedIs`).
- *Typed queries.* `BoxInv`: the Timeline's box holds tokens of its language. Of those the half
  typed are unfinished and the whole are not, and a text that parses does not end in an operator; so
  the last token that stays is the last of the finished clauses (`PrefixIs`), and what is matched is
  those clauses (`FinishedIsMatched`). What they evaluate to does not matter.
- *Session refresh.* `Inv`: one holder between `try_begin` and `end`, which is what the lock says
  (`LockInv`); because no job runs between a load's reads, what is read and not yet painted is not
  behind what is painted (`ReadsInv`).
- *Home list.* `BusyInv`: loads that run have generations of their own (`OwnGenerations`); hence the
  last to begin is the one whose end clears `busy`, and an overtaken one clears nothing.
- *What the home list shows.* `CoverInv`. Rows *cover* a revision when each session appears once and
  every session last touched up to the revision is there as the owner has it, or not there if it is
  not listed. A step of the owner touches one session with a new revision, so rows go on covering
  what they covered (`CoversStays`); a merge of a delta since a covered revision covers the delta's
  (`MergeCovers`). A load without a query has the first so many rows of the owner's list, as long as
  the owner does not move (`WholeIsRead`), and with the last page it covers the revision that came
  with it. But the revision is kept before the rows are, so coverage alone is not inductive. Between
  the two, a load that is about to install excuses it (`KeptIsCovered`); a delta carries merged rows
  that cover what it stored, unless another load is about to replace them (`DeltaIsBased`); a list
  whose later pages are to come counts as torn until the last one is painted (`PaintIsKept`). Only
  the newest load needs this (`NewestIsSound`): an overtaken one installs nothing, or tears the list.
- *Timeline.* `Inv` of `TimelineProofs`. The list of a filter is a function of places: the event at
  place k is the one up to which k events match. Places grow with the events (`PlacesGrow`), none is
  left out (`PlacesAreTaken`, by the least event up to which enough match) and none is taken twice
  (`PlacesDiffer`), so that a longer session only lengthens a list (`ListedGrows`). Hence a page
  fetched earlier still is what comes next for the rows it was asked for (`PagesFollow`), and
  appending it to those rows leaves a prefix (`RowsFollow`).
- *Stamps.* After i rows the pass has what the marks among them say (`CarryingIs`, `StampSteps`):
  a row waits while there is no mark, is given the first one's number when it comes, and keeps it.
- *Turns.* `Passed` and `Joined` are recursive functions of a length, which tlapm gives no equation
  for; that they exist is proved by a least length without one (`PassExists`, `JoinExists`). After
  each event the segments and the open one are *spread* over the events of turns so far (`PassFits`):
  each lies in one place and nothing else does. Stamping and numbering move nothing, joining moves
  whole segments (`JoinFits`), so the result is spread too: that is `EveryEventInOneTurn`.
- *Owner stamps.* `TableInv` says of every row on the screen at what length of the session it may
  have been read (`ReadRows`): none but the last was read when there was less than the screen has
  now. The stamp of a row before a row that is no boundary is the same at both lengths
  (`Steady`): of a parse, because only a numbered start moves numbers that were given
  (`NumbersGoOn`, `ParsedGoesOn`); of a cut, because a tail without a start, an end or a user's
  message lengthens the last segment and changes nothing else (`TailPassed`, `StampedLonger`,
  `AttachedTail`, `NumberedLonger`) and an event keeps its number. So the rows of a tail bear the
  turn of the row before it, provided the map has that row in the turn it was last read with:
  `MapRead` keeps this of the last row (`LastTurnRead`) beside the property itself (`StampsHold`).
  A map that is rebuilt has both (`RebuiltIs`), one that is extended keeps them (`ExtendedIs`), and a
  last row that is read again leaves the map alone and is the row the property leaves out.
- *Background work.* `AgentInv`, `OwnerInv` and `ShownInv`. The agent takes nothing back
  (`AgentGrows`), so any two readings of a file are in order (`Older`, `Prefix`). `ReadInOrder` says
  which readings what the owner holds comes from: the cached rows are of a timeline `e` and of files
  as read at `f`, after their key was taken at `o`; the overview under way took its key at `n`, no
  earlier than `f`, and reads at `g`. A stamp that is the same at `o` and now was the same at `f`
  (`SameStampBetween`), as what left a value of a file never returns to it. Two stages of one
  timeline with the same `bookend_key` have as many bookends of those kinds, hence the same ones at
  the same places (`SameKeyOf`), hence rows in the same order (`SameKeySameRows`). The one walk of
  `set_bookend_indexes` holds after each event what a search of the events so far would find
  (`WalkIs`, by a least counterexample). A job ended if any of its records or its log says so
  (`EndedIsShown`: the record that prevails has the highest rank), a child if its bookend or its
  meta does (`ShownRuns`), and either stays so by later readings (`EndedStays`, `RunStaysEnded`);
  what is drawn was held before, and what is held was answered before (`DrawnInOrder`).
- *Keys.* One timer is left, that of the last arming (`TimersInv`); the keymap is what the file gave
  at the mount (`LoadedOnce`); what a press fired has its key in the keymap or is alone
  (`FiredInv`), and the refusal of clashes lets two actions of a scope share a part only where the
  catalog does (`NoNewSharing`, counting holders).
- *Settings.* `PrefsInv`. What a writer holds is right but for the keys it is behind with: of a
  program, the settings as loaded and the rest of the document it keeps (`KeptRight`: a save that
  failed has moved the settings of that document, and the next save puts all of them there anew); of
  a write under way, its document but for the keys it is told to change (`TasksRight`). A write then
  makes the file right but for the keys it takes back, and everyone else behind with those it
  changed. An import is right because until there is a `config.toml` the older file says all
  (`JsonRight`), and it is only removed beside a new one (`LeftoverBeside`).
- *Usage page.* After each call the pass holds of every server how many of the places so far are its
  own, and the searches under a name no server has (`CountsAt`, `CallsCounted`). The rows made of
  that are one to a server, one for each that was used, and one row has all the searches, whichever
  of three rows the code puts them on (`RowsFit`, `OrphansFit`). So the rows count disjoint places
  that make up the calls, and a sum of sizes of disjoint sets is the size of their union
  (`SumIsCount`). The sum is a library fold over a set in an order nobody knows: as a function of the
  subset it has one solution, by a counterexample of least size.

**Assumptions.** The modules assume of their constants that names differ (`NamesAssumption`,
`OwnersAssumption`, `ClientsAssumption`, `ViewsAssumption`), that subsets are subsets, and that
bounds are numbers; that `Sessions` of the catalog is finite, as a walk of a disk is; that screens
are numbered in the order they open (`ScreensAssumption`); that a timeline's turns are numbers
(`TurnsAssumption`, `TableAssumption`) and that having none is not one (`UnnumberedAssumption`);
that the HUD is no program and the operator's own keys are no settings (`HudAssumption`,
`PrefsAssumption`); that ids of jobs and children differ and are not empty, as a record without one
is left out (`IdsAssumption`), and that monitors are jobs, and jobs those whose log goes on after its end (`MonitorsAssumption`); that a path has
one place in the pane's order (`PathOrderAssumption`); that servers and methods are finitely many,
that no server has one of the names the usage page keeps for calls of none ("?", "_search",
"(search)"), and that the launch files name servers and skills (`UsageAssumption`); that the poller
is one of the workers and that at least one delta is kept (`_DELTA_KEEP` is 48).
`CatalogAssumption` types the rows of `keys/catalog.py`. Two theorems name an
assumption of their own, and each fails without it:

- `OneLocal`: the terminal makes one edit at a time when it saves by itself, as it waits for each on
  its UI. Two local editors can both write on one base.
- `OneBuilder`: one process lists a root. That is what the owner is for; a terminal started without
  one lists too, and two processes that list the same root share one snapshot file without a lock
  (section 6).

`PromiseKeptByOne` says "while nobody makes an edit in the place of a living owner": that too is an
excuse for what section 6 tells.

**Only model-checked.** All liveness: `GoneIsUnlisted`, `ClientsCatchUp`, `WritesAreTold`,
`ListIsHeard`, `StartsEndWell`, `SentIsAnswered`, `RowsAreFetched`, `HomeCatchesUp`,
`LatestIsFetched`, `LiveRowsSettle`, `TextIsFound`, `CallsEnd`, `ListenersCatchUp`,
`AskersAnswered`. The provers have no rule for fairness or `ENABLED` that these could use. The
library's induction theorems cannot be cited for a traversal of data. Where a traversal is written
as a set of places, a rank, a recursive function of its length or of a subset, as in `SessionWork`,
`TurnNumbers`, `TurnSegments`, `QueryLanguage`, `WorkspaceDiff` and `UsageCounts`, a least counterexample serves
for the induction; of the library `FlattenSeq` and `MapThenSumSet` are of that form too. Type
invariants of modules not in the table are documentation of the state's shape; TLC evaluates the
actions that rely on them.

## 6. Observations, and what is not modelled

**What the code does that a reader may not expect.** Found while modelling; where a property is
named it was stated and TLC violated it. They are not findings, since no document or comment of the
repository promises otherwise, or the promise leaves room.

*The catalog and its snapshot.*
- A rebuild stamps rows with the files' state at install, seconds after they were read, and an
  abandoned patch keeps the stamp it recorded: the poll then skips a row that is out of date
  (`session/catalog.py:720`, `:837`) until the next write or rebuild.
- The first rebuild after a snapshot is announced only if it lists other sessions than the snapshot
  (`session/catalog.py:728`): a row it changed reaches a client with the next notification or poll.
- Two processes that list the same root write one snapshot file in turn; a listing may then take a
  row older than its question (`session/mtime_export.py:370`, `:139`).
- A session deleted from the database of OpenCode or Copilot leaves no locator that could be missed
  (`session/catalog.py:1038`): its row is listed until a rebuild. Each patch resets the clock of the
  TTL, so that a busy owner puts the rebuild off.
- A file written twice within one unit of its time stamp looks unwritten; the models give each write
  a time of its own.

*Owners and watches.*
- `stop` probes the socket's path and then unlinks it; an owner that binds between the two is alive
  and out of reach (`control/daemon.py:951-954`). The pid file can likewise be removed by the wrong
  process (`:1057`, `:771`).
- A batch that touches two sessions is filed whole under each (`control/daemon.py:559`), so that
  both applies tell of both.
- The stamp poll ends for good at an exception that is not an `OSError` (`control/daemon.py:734`).

*Server and clients.*
- An answer has no time limit, as a notification has: a requester that never reads keeps its
  coroutine, and with it one place of the gate.
- `tags_set` refreshes no row of a session named by a file locator; of several sessions, a stale id
  answers 404 after the first ones were tagged.
- A load fills pages under a revision that moves, and the last page's revision is kept.

*Notes.*
- A snapshot reads notes and hash separately (`notes.py:506`): what a client sees may carry the
  revision of a later state.
- A terminal that tires of a slow owner makes the same edit itself (`ui/screens/browser.py:3635`);
  both may succeed. The two processes use one temporary name, and opening it truncates: one may
  rename the other's empty or half written file into place (`notes.py:612`).

*Archives.*
- An import writes the archive's notes over those of the host's session of the same id
  (`session/imports.py:157`), as the two share an overlay directory; `CHANGELOG.md:133-135` says
  that host and import copies stay separate.
- Native archives of file and database stores cannot be imported; a re-import into OpenCode writes
  its rows over those of the same id and leaves the others, and drops tokens and cost; an
  Antigravity import lies one directory deeper than its adapter looks (`harness/antigravity.py:189`)
  and never lists; a bundle import that fails has destroyed the one
  before; a delete that fails half way leaves files of which the retry says `missing`.

*Screens.*
- Switching tabs records a fingerprint that was not painted (`_last_light_fp`); a growth that fails
  after its stamp is not fetched again before the next write; a screen closed during its load may
  leave a watch behind; one opened while another holds the lock stays blank until its next refresh.
- Fills in flight when the filter changes append to the new list (`mixed` in `TimelinePages`); a
  turn without prompt index combined with a query takes a place in the session for one among the
  hits.
- The home list keeps a revision before the rows it belongs to; a search replaces the rows a delta
  will be merged into; a delete removes the row even if the owner refused; draining a list that
  moves yields repeats (`torn` in `HomeList`).
- The home list's first load reads its pages one by one from an owner that moves
  (`ui/app.py:1144-1165`): a session that moves from a page still to come to one already read is
  missing until it is touched again. `tests/ui/test_catalog_quiet.py:158` has every page arrive from
  a list that stands still.
- A query typed and cleared again before its own search has painted, with a load in between that
  painted the whole list through it, leaves the table filtered: the next quiet poll learns that
  nothing changed and paints nothing (`ui/app.py:1206-1207`), although the rows held are right
  (`veiled` in `HomeList`). The docstring (`:1176-1178`) and
  `tests/ui/test_catalog_quiet.py:490-497` promise a refetch; the code has it for rows that were
  fetched by the query (`_catalog_query_slice`) and not for rows only painted through it.
- A refresh of the Timeline reads its last row again and no earlier one. A follow-up that was read
  before the next start therefore keeps the previous turn's number, where the owner sends the turns
  of the cut, until the timeline is read anew. The last row itself, read again with no row after it,
  leaves the map and the painted cell as they were.
- A session-level row gets a turn from a rebuilt map and none from an extended one
  (`ui/widgets/timeline.py:522-527`, `:566-569`).
- The stamps of the parse and the cut of `turns.py` do not agree on a follow-up: the parse leaves it
  with the turn before, the cut joins it to the start that comes next. Which of the two a row goes
  out with depends on its store.
- Enter on a job or subagent looks the row's place up in the list now held
  (`ui/screens/browser.py:1767`, `:1842`); between a fetch (`:1152`) and its paint it opens what
  took that place. `EnterOpensTheRow` was violated.
- A patch to a file that write calls of the same turn touched too is not shown
  (`session/workspace_diff.py:454`, `PatchesAreShown`).
- The search index of a session that grew reads its last row again and no earlier one
  (`session/event_search.py:217`): an earlier event that was completed meanwhile is found by its old
  text.
- An overview is kept under the stamp taken after its build, of which only the notes' part is
  compared with what was built (`session/control_views.py:641-645`): events written meanwhile show
  with the next write.

*Queries, work, usage.*
- A field typed half hides rows of the session list that the finished clause matches
  (`session/query.py`, `BoxKeepsMatches`); the notes of a session that is not a directory are not
  counted in its row (`session/catalog.py:198`), so `has:note` does not find it. The first letters
  of an operator (`A`, `O`, `N`, `NO`) are words until the operator is whole; a trailing operator is
  dropped.
- The log of a shell job is not part of the stamp rows are cached by, so its end may show late
  (`session/jobs.py:582`). The stamp of a monitor's log is its last line, read from the last 512
  bytes, while the row is read from the last 4000 characters (`:103-114`, `:154-159`): an end mark
  with a long line after it shows in the row and not in the stamp (`LongEnds` in `SessionWork`).
- A bridge call that names no server is counted on no row of the usage page.

*Keys and settings.*
- The same leader sequence in two scopes fires the first row's; a row of the browser hides one of
  the home screen; global chords are not compared with those of screens; a thirteenth sequence
  shares a slot; `leader+N` becomes `shift+n`; `keys.toml` is read again by `style_data_table`, so a
  table may follow a file the keymap does not.
- Whoever saves `config.toml` from what it read earlier takes back what another program, the HUD or
  the operator set since (`takenBack` in `PrefsFile`); a program that read the file while another had
  emptied it keeps blanks and may save them; two that write at once may leave a mixture. A file that
  is not TOML reads as empty, and the next save makes that so.
- A save that fails after the file was emptied leaves it so until the next one; a first import that
  fails, or a HUD that writes before the first import, leaves a `config.toml` that hides
  `config.json`. (`save_window_mode` of `desktop/src/prefs.rs` has no caller at this commit; it is
  modelled as the module offers it.)

**Not modelled.** The parsers of the event streams and the native core (data transformations of one
file; `EventSearch` takes what they answer as an input), wire framing and the schema of the
contract, rendering, themes, modals and forms, the desktop window, the Vim and Emacs clients, the
launcher and the self test. Inside the modelled parts: the
Timeline under a search that reads the rows it needs (`ui/screens/browser.py`, `_fill_control_timeline`),
whose turns `TimelineTable` does not follow; sorting, filtering and paging of the
catalog's rows, `resolve` and the parent index; shutdown of the owner and of its watches, the
journal tail, watching of directories that do not exist yet; pid reuse and refused signals; the
harness overlay of notes; the replacement of the job pools; normalisation of settings.
`PROJECT.json` says it component by component.

## 7. What is left to prove

In order of what they would say:

1. The safety part of `WatchApply`: what is pending, applied or announced covers every write the
   watches saw.
2. The search flight of `HomeList`, which is in flight exactly while a pass runs (`TimelineTyped`
   states it for the timeline's; of the rest of its state `CoverInv` states the types).
