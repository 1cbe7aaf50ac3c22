---------------------------- MODULE LiveRefresh -----------------------------
(***************************************************************************)
(* How an open session follows the agent that writes it: BrowserScreen of  *)
(* anqa/ui/screens/browser.py (full load, light job, the timers and the    *)
(* watch that ask for one), the lock that makes refreshes of a session     *)
(* single-flight (anqa/session_inflight.py), the serial pool they run on   *)
(* (anqa/job_pools.py) and the home list's heartbeat, which takes the same *)
(* lock (anqa/ui/app.py).                                                  *)
(*                                                                         *)
(* One session, screens opened on it one after another.  A step of the UI  *)
(* thread is atomic; full loads, light jobs and the home heartbeat run in  *)
(* threads of their own and wait for the UI callbacks they post.  What a   *)
(* read returns is the index of the last write it saw; a rewrite that adds *)
(* no event is left out.                                                   *)
(***************************************************************************)
EXTENDS Naturals, Sequences, FiniteSets

CONSTANTS
    Screens,    \* screens opened on the session in a behaviour: 1 .. N
    Modes,      \* how data is read: "attached" (control) or "offline" (disk)
    Events,     \* kinds of environment event a run enables
    MaxWrites,  \* bound: how often the agent writes
    MaxEvents   \* bound: of these events together

ASSUME ScreensAssumption == IsFiniteSet(Screens) /\ Screens = 1 .. Cardinality(Screens)
ASSUME BoundsAssumption == MaxWrites \in Nat /\ MaxEvents \in Nat
ASSUME ModesAssumption == Modes \subseteq {"attached", "offline"}

VARIABLES
    mode,    \* how this process reads sessions
    store,   \* one entry per write: whether a turn is open after it
    events,  \* environment events so far
    scr,     \* the screens: the fields of each BrowserScreen
    lock,    \* session_inflight: the session's inflight and rerun bits
    home     \* the home list's heartbeat thread, and whether it owes a rerun

vars == <<mode, store, events, scr, lock, home>>

Now == Len(store)
Live(v) == v # 0 /\ store[v]

NewScreen ==
    [at |-> "unopened", tab |-> "timeline",
     meta |-> 0, rows |-> 0,      \* self.meta, self.timeline
     seen |-> 0,                  \* _last_overview_stamp, _last_trace_mtime
     fp |-> <<>>, shown |-> 0,    \* _last_light_fp, the rows in the table
     need |-> "unknown",          \* _needs_live_timeline with its valid bit
     hot |-> FALSE,               \* watch, snapshot and heartbeat timers
     recheck |-> FALSE, deferred |-> FALSE,
     pending |-> FALSE, beat |-> FALSE, recent |-> FALSE,
     load |-> "none", job |-> "none", got |-> 0]

LoadHolds == {"read", "page", "stamp", "commit", "populate", "arm", "release"}
ScreenRecords ==
    [at : {"unopened", "open", "closed"}, tab : {"timeline", "other"},
     meta : Nat, rows : Nat, seen : Nat,
     fp : {<<>>} \union (Nat \X BOOLEAN), shown : Nat,
     need : {"unknown", "yes", "no"}, hot : BOOLEAN,
     recheck : BOOLEAN, deferred : BOOLEAN,
     pending : BOOLEAN, beat : BOOLEAN, recent : BOOLEAN,
     load : LoadHolds \union {"none", "begin", "refused"},
     job : {"none", "read", "grow", "parse", "meta", "paint", "done"}, got : Nat]

Asked(lk) == [lk EXCEPT !.rerun = lk.held]
Taken == [held |-> TRUE, rerun |-> FALSE]
Free == [held |-> FALSE, rerun |-> FALSE]

Holders ==
    {<<"load", s>> : s \in {t \in Screens : scr[t].load \in LoadHolds}}
    \union {<<"job", s>> : s \in {t \in Screens : scr[t].job # "none"}}
    \union {<<"home">> : x \in {h \in {home.pc} : h = "held"}}

-----------------------------------------------------------------------------
(* What the UI thread does, from the screen r it is on to the screens and  *)
(* the lock after it.                                                      *)

\* Mutated: what the timeline shows is not asked.
NeededByMeta(r) == IF r.need # "unknown" THEN r.need = "yes" ELSE Live(r.meta)
\* Whether the store's last turn signal is still running, cached.
Needed(r) ==
    IF r.need # "unknown" THEN r.need = "yes" ELSE Live(r.meta) \/ Live(r.rows)
Probed(r) == [r EXCEPT !.need = IF Needed(r) THEN "yes" ELSE "no"]
Forgotten(r) == [r EXCEPT !.need = "unknown"]

Downgraded(r) == [r EXCEPT !.hot = FALSE, !.deferred = FALSE, !.recheck = TRUE]
Deferred(r) == [r EXCEPT !.pending = TRUE, !.deferred = TRUE]
Scheduled(r) ==
    IF Needed(r) THEN [Probed(r) EXCEPT !.recheck = FALSE, !.hot = TRUE]
    ELSE Downgraded(Probed(r))

Becomes(s, r) == scr' = [scr EXCEPT ![s] = r]

\* Mutated: a holder is not looked for.
MayBeginTwice(lk) == TRUE
\* try_begin by the UI thread or by a thread: one holder per session.
MayBegin(lk) == ~lk.held

\* _live_refresh_from_fs.  The home heartbeat gives the lock up in its own
\* thread, so a request may come too late to be recorded.
RefreshFrom(s, r, lk, beat) ==
    LET q == Probed(r)
    IN \/ /\ ~Needed(r)
          /\ Becomes(s, Downgraded(q))
          /\ lock' = lk
       \/ /\ Needed(r) /\ ~beat /\ r.recent
          /\ Becomes(s, Deferred(q))
          /\ lock' = lk
       \/ /\ Needed(r) /\ (beat \/ ~r.recent) /\ ~MayBegin(lk)
          /\ Becomes(s, [q EXCEPT !.pending = TRUE, !.beat = @ \/ beat])
          /\ lock' \in {Asked(lk)} \union (IF home.pc = "held" THEN {lk} ELSE {})
       \/ /\ Needed(r) /\ (beat \/ ~r.recent) /\ MayBegin(lk)
          /\ Becomes(s, [q EXCEPT !.pending = FALSE, !.beat = @ \/ beat,
                                  !.recent = TRUE, !.job = "read"])
          /\ lock' = Taken

-----------------------------------------------------------------------------
(* What asks for a refresh.                                                *)

Top(s) == scr[s].at = "open"

\* The watch of the session's directory, which outlives its screen when it
\* was armed too late, or session/changed for the screen on top.
Signal(s) ==
    /\ scr[s].hot \/ (mode = "attached" /\ Top(s))
    /\ RefreshFrom(s, scr[s], lock, FALSE)
    /\ UNCHANGED <<mode, store, events, home>>

SnapshotTick(s) ==
    /\ Top(s) /\ scr[s].hot
    /\ RefreshFrom(s, Forgotten(scr[s]), lock, FALSE)
    /\ UNCHANGED <<mode, store, events, home>>

HeartbeatTick(s) ==
    /\ Top(s) /\ scr[s].hot
    /\ RefreshFrom(s, scr[s], lock, TRUE)
    /\ UNCHANGED <<mode, store, events, home>>

DeferredFires(s) ==
    /\ Top(s) /\ scr[s].deferred
    /\ LET r == [scr[s] EXCEPT !.deferred = FALSE]
       IN \/ /\ r.job # "none"
             /\ Becomes(s, [r EXCEPT !.pending = TRUE])
             /\ UNCHANGED lock
          \/ /\ r.job = "none"
             /\ RefreshFrom(s, r, lock, FALSE)
    /\ UNCHANGED <<mode, store, events, home>>

\* The slow probe of a screen that believes its session idle.  It reads what
\* the screen holds, not the store.
RecheckTick(s) ==
    /\ Top(s) /\ scr[s].recheck
    /\ LET r == Probed(Forgotten(scr[s]))
       IN \/ /\ ~Needed(r)
             /\ Becomes(s, r)
             /\ UNCHANGED lock
          \/ /\ Needed(r)
             /\ RefreshFrom(s, Scheduled(r), lock, FALSE)
    /\ UNCHANGED <<mode, store, events, home>>

\* The minimal gap since the last submitted job has passed.
GapPasses(s) ==
    /\ scr[s].recent
    /\ Becomes(s, [scr[s] EXCEPT !.recent = FALSE])
    /\ UNCHANGED <<mode, store, events, lock, home>>

-----------------------------------------------------------------------------
(* The full load: _load_data in its thread, once per open and per F5.      *)

LoadSteps(s, from, r) == scr[s].load = from /\ Becomes(s, r)

LoadBegins(s) ==
    /\ \/ /\ MayBegin(lock)
          /\ LoadSteps(s, "begin",
                       [scr[s] EXCEPT !.load = "read", !.fp = <<>>,
                                      !.seen = IF mode = "offline" THEN 0 ELSE @])
          /\ lock' = Taken
       \/ /\ ~MayBegin(lock)
          /\ LoadSteps(s, "begin", [scr[s] EXCEPT !.load = "refused"])
          /\ UNCHANGED lock
    /\ UNCHANGED <<mode, store, events, home>>

\* Refused, it asks the holder to run again and ends.
LoadAsks(s) ==
    /\ LoadSteps(s, "refused", [scr[s] EXCEPT !.load = "none"])
    /\ lock' = Asked(lock)
    /\ UNCHANGED <<mode, store, events, home>>

\* Attached: overview, then the first page.  Offline: detail, timeline, and
\* only then the stamp of the files.
LoadReads(s) ==
    /\ \/ /\ mode = "attached"
          /\ \/ LoadSteps(s, "read", [scr[s] EXCEPT !.load = "page", !.seen = Now, !.got = Now])
             \/ LoadSteps(s, "page", [scr[s] EXCEPT !.load = "commit", !.meta = scr[s].got,
                                                    !.rows = Now, !.got = 0])
       \/ /\ mode = "offline"
          /\ \/ LoadSteps(s, "read", [scr[s] EXCEPT !.load = "page", !.meta = Now])
             \/ LoadSteps(s, "page", [scr[s] EXCEPT !.load = "stamp", !.rows = Now])
             \/ LoadSteps(s, "stamp", [scr[s] EXCEPT !.load = "commit", !.seen = Now])
    /\ UNCHANGED <<mode, store, events, lock, home>>

LoadCommits(s) ==
    /\ LoadSteps(s, "commit", [scr[s] EXCEPT !.load = IF Top(s) THEN "populate" ELSE "release"])
    /\ UNCHANGED <<mode, store, events, lock, home>>

Painted(r) == [r EXCEPT !.shown = r.rows]

\* The load ran alone: its UI callbacks, one after another, whatever became
\* of the screen since.
LoadPaints(s) ==
    /\ \/ LoadSteps(s, "populate",
                    IF Top(s) THEN [Forgotten(Painted(scr[s])) EXCEPT !.load = "arm"]
                    ELSE [scr[s] EXCEPT !.load = "arm"])
       \/ LoadSteps(s, "arm", [Scheduled(scr[s]) EXCEPT !.load = "release"])
    /\ UNCHANGED <<mode, store, events, lock, home>>

LoadReleases(s) ==
    /\ scr[s].load = "release"
    /\ LET r == [scr[s] EXCEPT !.load = "none", !.pending = FALSE, !.beat = FALSE]
       IN \/ /\ lock.rerun /\ Top(s)
             /\ RefreshFrom(s, r, Free, scr[s].beat)
          \/ /\ ~(lock.rerun /\ Top(s))
             /\ Becomes(s, r)
             /\ lock' = Free
    /\ UNCHANGED <<mode, store, events, home>>

-----------------------------------------------------------------------------
(* The light job on the serial pool: _load_data_light_job.                 *)

JobSteps(s, from, r) == scr[s].job = from /\ Becomes(s, r)

\* Only these reach the table: new rows, another status, or a heartbeat.
JobEnds(r, grown, old) ==
    IF grown \/ Live(r.meta) # Live(old) \/ r.beat THEN "paint" ELSE "done"

\* Attached: the overview says whether anything moved, and how many events
\* there are; only if that is not what is held are the rest fetched.
JobReadsOverview(s) ==
    /\ mode = "attached"
    /\ LET r == [scr[s] EXCEPT !.meta = Now, !.seen = Now]
           same == scr[s].rows # 0 /\ (scr[s].seen = Now \/ scr[s].rows = Now)
       IN JobSteps(s, "read",
                   IF same THEN [r EXCEPT !.job = JobEnds(r, FALSE, scr[s].meta)]
                   ELSE [r EXCEPT !.job = "grow", !.got = scr[s].meta])
    /\ UNCHANGED <<mode, store, events, lock, home>>

JobFetchesGrowth(s) ==
    /\ JobSteps(s, "grow", [scr[s] EXCEPT !.rows = Now, !.job = "paint", !.got = 0])
    /\ UNCHANGED <<mode, store, events, lock, home>>

\* Offline: the stamp first, then what moved since it.
JobReadsDisk(s) ==
    /\ mode = "offline"
    /\ \/ /\ scr[s].rows = 0 \/ scr[s].seen # Now
          /\ JobSteps(s, "read", [scr[s] EXCEPT !.job = "parse", !.got = Now])
       \/ /\ ~(scr[s].rows = 0 \/ scr[s].seen # Now)
          /\ \E moved \in {TRUE, scr[s].beat \/ scr[s].meta = 0} :
                JobSteps(s, "read", [scr[s] EXCEPT !.job = IF moved THEN "meta" ELSE "done"])
       \/ JobSteps(s, "parse", [scr[s] EXCEPT !.job = "meta", !.rows = Now,
                                              !.seen = scr[s].got, !.got = 0])
       \/ JobSteps(s, "meta", [scr[s] EXCEPT !.job = "paint", !.meta = Now])
    /\ UNCHANGED <<mode, store, events, lock, home>>

\* _populate_ui_light: the table only when it is in front, and never for a
\* fingerprint already seen.
JobPaints(s) ==
    /\ LET fp == <<scr[s].rows, Live(scr[s].meta)>>
           r == [scr[s] EXCEPT !.job = "done", !.fp = fp]
           known == scr[s].fp # <<>> /\ scr[s].fp[2] = fp[2]
           q == IF known THEN r ELSE Probed(Forgotten(r))
       IN JobSteps(s, "paint",
                   IF ~Top(s) \/ scr[s].fp = fp THEN [scr[s] EXCEPT !.job = "done"]
                   ELSE IF scr[s].tab = "timeline" THEN Painted(q) ELSE q)
    /\ UNCHANGED <<mode, store, events, lock, home>>

\* _live_refresh_worker_done: release, and catch up at most once.
JobReleases(s) ==
    /\ scr[s].job = "done"
    /\ LET again == scr[s].pending \/ lock.rerun
           r == [scr[s] EXCEPT !.job = "none", !.pending = FALSE, !.beat = FALSE]
       IN \/ /\ ~again
             /\ Becomes(s, r)
             /\ lock' = Free
          \/ /\ again /\ ~scr[s].beat /\ scr[s].recent
             /\ Becomes(s, Deferred(r))
             /\ lock' = Free
          \/ /\ again /\ (scr[s].beat \/ ~scr[s].recent)
             /\ RefreshFrom(s, r, Free, scr[s].beat)
    /\ UNCHANGED <<mode, store, events, home>>

-----------------------------------------------------------------------------
(* The home list's heartbeat over its running rows, when no screen is open *)
(* as it starts.  A request it finds as it releases is handed to the       *)
(* screen then on top.                                                     *)

HomeTicks ==
    /\ "home" \in Events /\ events < MaxEvents /\ events' = events + 1
    /\ mode = "offline" /\ home.pc = "idle"
    /\ \A s \in Screens : ~Top(s)
    /\ home' = [home EXCEPT !.pc = "begin"]
    /\ UNCHANGED <<mode, store, scr, lock>>

HomeBegins ==
    /\ home.pc = "begin"
    /\ \/ /\ MayBegin(lock)
          /\ home' = [home EXCEPT !.pc = "held"]
          /\ lock' = Taken
       \/ /\ ~MayBegin(lock)
          /\ home' = [home EXCEPT !.pc = "refused"]
          /\ UNCHANGED lock
    /\ UNCHANGED <<mode, store, events, scr>>

HomeLeaves ==
    /\ \/ /\ home.pc = "refused"
          /\ home' = [pc |-> "apply", rerun |-> FALSE]
          /\ lock' = Asked(lock)
       \/ /\ home.pc = "held"
          /\ home' = [pc |-> "apply", rerun |-> lock.rerun]
          /\ lock' = Free
    /\ UNCHANGED <<mode, store, events, scr>>

HomeApplies ==
    /\ home.pc = "apply"
    /\ home' = [pc |-> "idle", rerun |-> FALSE]
    /\ \/ \E s \in Screens : Top(s) /\ home.rerun /\ RefreshFrom(s, scr[s], lock, TRUE)
       \/ /\ ~home.rerun \/ \A s \in Screens : ~Top(s)
          /\ UNCHANGED <<scr, lock>>
    /\ UNCHANGED <<mode, store, events>>

-----------------------------------------------------------------------------
(* The agent, the operator and failures.                                   *)

AgentWrites ==
    /\ Now < MaxWrites
    /\ Live(Now) \/ "resume" \in Events
    /\ \E open \in {TRUE, ~Live(Now)} : store' = Append(store, open)
    /\ UNCHANGED <<mode, events, scr, lock, home>>

Open(s) ==
    /\ scr[s].at = "unopened"
    /\ \A t \in Screens : ~Top(t) /\ (t < s => scr[t].at # "unopened")
    /\ Becomes(s, [scr[s] EXCEPT !.at = "open", !.load = "begin"])
    /\ UNCHANGED <<mode, store, events, lock, home>>

Happens(kind) ==
    /\ kind \in Events /\ events < MaxEvents
    /\ events' = events + 1
    /\ UNCHANGED <<mode, store, home>>

Close(s) ==
    /\ Happens("close") /\ Top(s)
    /\ Becomes(s, [scr[s] EXCEPT !.at = "closed", !.hot = FALSE, !.recheck = FALSE,
                                 !.deferred = FALSE])
    /\ UNCHANGED lock

\* F5 starts another full load, refused while one runs.
Reload(s) ==
    /\ Happens("reload") /\ Top(s)
    /\ \/ /\ scr[s].load = "none"
          /\ Becomes(s, [scr[s] EXCEPT !.load = "begin"])
          /\ UNCHANGED lock
       \/ /\ scr[s].load \in LoadHolds
          /\ lock' = Asked(lock)
          /\ UNCHANGED scr

SwitchTab(s) ==
    /\ Happens("tab") /\ Top(s)
    /\ Becomes(s, [scr[s] EXCEPT !.tab = IF @ = "timeline" THEN "other" ELSE "timeline"])
    /\ UNCHANGED lock

\* A read that raises: the load ends with a toast, the job without a word.
ReadFails(s) ==
    /\ Happens("fail")
    /\ \/ /\ scr[s].load \in {"read", "page", "commit"}
          /\ Becomes(s, [scr[s] EXCEPT !.load = "release", !.got = 0])
       \/ /\ scr[s].job \in {"read", "grow", "parse", "meta"}
          /\ Becomes(s, [scr[s] EXCEPT !.job = "done", !.got = 0])
    /\ UNCHANGED lock

-----------------------------------------------------------------------------
Init ==
    /\ mode \in Modes
    /\ store \in {<<TRUE>>, <<FALSE>>}
    /\ events = 0
    /\ scr = [s \in Screens |-> NewScreen]
    /\ lock = Free
    /\ home = [pc |-> "idle", rerun |-> FALSE]

\* The threads: a full load, a light job, the home heartbeat.
LoadThread(s) ==
    \/ LoadBegins(s) \/ LoadAsks(s) \/ LoadReads(s) \/ LoadCommits(s)
    \/ LoadPaints(s) \/ LoadReleases(s)
JobThread(s) ==
    \/ JobReadsOverview(s) \/ JobFetchesGrowth(s) \/ JobReadsDisk(s)
    \/ JobPaints(s) \/ JobReleases(s)
HomeThread == HomeBegins \/ HomeLeaves \/ HomeApplies

ScreenSteps(s) ==
    \/ SnapshotTick(s) \/ HeartbeatTick(s) \/ DeferredFires(s) \/ RecheckTick(s)
    \/ GapPasses(s) \/ LoadThread(s) \/ JobThread(s)

Next ==
    \/ \E s \in Screens :
          \/ ScreenSteps(s) \/ Signal(s)
          \/ Open(s) \/ Close(s) \/ Reload(s) \/ SwitchTab(s) \/ ReadFails(s)
    \/ HomeTicks \/ HomeThread
    \/ AgentWrites

Spec == Init /\ [][Next]_vars

\* Threads run, posted callbacks are executed and interval timers fire.
Fairness ==
    /\ \A s \in Screens :
          /\ WF_vars(SnapshotTick(s)) /\ WF_vars(DeferredFires(s))
          /\ WF_vars(RecheckTick(s)) /\ WF_vars(GapPasses(s))
          /\ WF_vars(LoadThread(s)) /\ WF_vars(JobThread(s))
    /\ WF_vars(HomeThread)

FairSpec == Spec /\ Fairness

-----------------------------------------------------------------------------
(* Properties.                                                             *)

TypeOK ==
    /\ mode \in Modes /\ store \in Seq(BOOLEAN) /\ events \in 0 .. MaxEvents
    /\ lock \in [held : BOOLEAN, rerun : BOOLEAN]
    /\ home \in [pc : {"idle", "begin", "refused", "held", "apply"}, rerun : BOOLEAN]
    /\ scr \in [Screens -> ScreenRecords]

\* session_inflight: a session is refreshed by one thread at a time, whoever
\* asked, and its lock is held exactly while one of them has yet to release
\* it: a lock left behind would blank every later screen on the session.
HeldByOne ==
    /\ Cardinality(Holders) <= 1
    /\ lock.held <=> Holders # {}
    /\ lock.rerun => lock.held

\* A screen never replaces what it read by something older, although full
\* loads, light jobs and the home heartbeat read in threads of their own and
\* the screens before it may still be at it.
ScreensNeverGoBack ==
    [][\A s \in Screens :
          /\ scr'[s].meta >= scr[s].meta
          /\ scr'[s].rows >= scr[s].rows
          /\ scr'[s].shown >= scr[s].shown]_vars

\* A screen that follows a running session gets hold of all the agent wrote.
\* Three things stop it, each left in the open here: it is closed; it took a
\* stamp of the store newer than the rows it read (the growth fetch failed
\* after the overview, or the files moved between parse and stamp), so that
\* the next job finds nothing to do; or a screen closed while its load was
\* still to arm the watch holds the lock again and again.
StampedAhead(s) == scr[s].seen > scr[s].rows
WatchLeft == \E s \in Screens : scr[s].at = "closed" /\ scr[s].hot
RowsAreFetched ==
    \A s \in Screens :
        (Top(s) /\ scr[s].hot)
            ~> (~Top(s) \/ scr[s].rows = Now \/ StampedAhead(s) \/ WatchLeft)

=============================================================================
