----------------------------- MODULE WatchApply -----------------------------
(***************************************************************************)
(* How a write to a session's files reaches the list a client shows: the   *)
(* class CatalogWatchApply of anqa/control/daemon.py with its callers, the *)
(* watch threads (anqa/fs_watch.py) that feed it, the 5 s stamp poll and   *)
(* the rebuild callback of serve_control_forever, and a client that, like  *)
(* the desktop and the TUI, lists again only when session/changed says so. *)
(*                                                                         *)
(* The serve loop is one thread: _accept, _kick and the pieces of _run     *)
(* between two awaits are atomic.  Watch threads post to it, applies run   *)
(* in worker threads.  The catalog is the abstract one: each call on it is *)
(* one step here, and CatalogCache says how the calls interleave.          *)
(***************************************************************************)
EXTENDS Integers, Sequences, FiniteSets

CONSTANTS
    Sessions,    \* session ids
    Stored,      \* those kept in a file or database store
    Shared,      \* those of them that are rows of one database
    Flat,        \* those whose directory a root watch sees even if not open
    FileStore,   \* FILE_STORE_APPLY, the key for paths outside any session
    Root,        \* the watch of the directory roots
    Events,      \* kinds of environment event a run enables
    MaxEvents    \* bound: how many environment events a behaviour has

ASSUME SubsetsAssumption ==
    Shared \subseteq Stored /\ Stored \subseteq Sessions /\ Flat \subseteq Sessions \ Stored
ASSUME KeysAssumption == FileStore \notin Sessions /\ Root \notin Sessions \union {FileStore}
ASSUME MaxEventsAssumption == MaxEvents \in Nat

VARIABLES
    disk,     \* disk[s]: the version of the files of s, or Gone
    events,   \* environment events so far
    open,     \* _open: sessions with a watch of their own
    fired,    \* fired[w]: sessions whose files watch w saw move
    posted,   \* batches of paths handed to call_soon_threadsafe
    pending,  \* _pending, by key
    task,     \* task[k]: the task _tasks[k] and the locals of its _run
    row,      \* the catalog's rows, by session; Gone where not listed
    stamp,    \* the catalog's recorded stamps
    build,    \* the catalog's rebuild
    poll,     \* ids the stamp poll found changed and is to publish
    told,     \* told[s]: newest version a session/changed for s was about
    stale,    \* the client heard listChanged and has not listed since
    shown,    \* shown[s]: the chrome the client shows, 0 where not listed
    lost,     \* sessions whose paths a failed apply or a re-arming watch lost
    silent    \* sessions whose listed chrome moved without a notification

catalogVars == <<row, stamp, build>>
clientVars == <<told, stale, shown, silent>>
vars == <<disk, events, open, fired, posted, pending, task, catalogVars, poll, clientVars, lost>>

Keys == (Sessions \ Stored) \union {FileStore}
Watches == Keys \union {Root}

\* A version of a session's files: ver counts every write (what the stamp
\* sees), chrome the writes that move a painted field.
Gone == [chrome |-> 0, ver |-> 0]
There(s) == disk[s] # Gone
IdleTask == [pc |-> "idle", batch |-> {}, sessions |-> {}, list |-> {},
             seen |-> [s \in Sessions |-> 0]]
NoBuild == [pc |-> "idle", scan |-> [s \in Sessions |-> Gone]]

\* The owner has its watches and a rebuilt catalog; the client has listed it.
Init ==
    /\ disk = [s \in Sessions |-> [chrome |-> 1, ver |-> 1]]
    /\ events = 0
    /\ open = {}
    /\ fired = [w \in Watches |-> {}]
    /\ posted = <<>>
    /\ pending = [k \in Keys |-> {}]
    /\ task = [k \in Keys |-> IdleTask]
    /\ row = disk /\ stamp = disk
    /\ build = NoBuild
    /\ poll = {}
    /\ told = [s \in Sessions |-> 1]
    /\ stale = FALSE
    /\ shown = [s \in Sessions |-> 1]
    /\ lost = {} /\ silent = {}

-----------------------------------------------------------------------------
(***************************************************************************)
(* The disk, and the watch threads.                                        *)
(***************************************************************************)
Event(e) ==
    /\ e \in Events
    /\ events < MaxEvents
    /\ events' = events + 1

\* The watches that see a file of s move: the one of its store or root, and,
\* once s is open, one of its own.
SeenBy(s) ==
    IF s \in Stored THEN {FileStore}
    ELSE (IF s \in Flat THEN {Root} ELSE {}) \union ({s} \intersect open)

Fire(s) == fired' = [w \in Watches |-> fired[w] \union IF w \in SeenBy(s) THEN {s} ELSE {}]

\* A process writes a file of s, and may move a painted field by it.
Write(s) ==
    /\ There(s)
    /\ \/ Event("chrome") /\ disk' = [disk EXCEPT ![s] = [chrome |-> @.chrome + 1, ver |-> @.ver + 1]]
       \/ Event("trace") /\ disk' = [disk EXCEPT ![s].ver = @ + 1]
    /\ Fire(s)
    /\ UNCHANGED <<open, posted, pending, task, catalogVars, poll, clientVars, lost>>

\* The files of s are removed by something other than the owner.
Vanish(s) ==
    /\ There(s)
    /\ Event("vanish")
    /\ disk' = [disk EXCEPT ![s] = Gone]
    /\ Fire(s)
    /\ UNCHANGED <<open, posted, pending, task, catalogVars, poll, clientVars, lost>>

\* mark_open: a request on s starts a watch of its directory.
MarkOpen(s) ==
    /\ s \notin Stored \union open /\ There(s)
    /\ Event("open")
    /\ open' = open \union {s}
    /\ UNCHANGED <<disk, fired, posted, pending, task, catalogVars, poll, clientVars, lost>>

\* A watch thread hands over what it saw, if anything: _emit, then enqueue.
Deliver(w) ==
    /\ fired[w] # {}
    /\ posted' = Append(posted, fired[w])
    /\ fired' = [fired EXCEPT ![w] = {}]
    /\ UNCHANGED <<disk, events, open, pending, task, catalogVars, poll, clientVars, lost>>

\* The root watch found its directories changed, or raised: what it had not
\* yielded by then is gone before watchfiles arms again.
Rearm ==
    /\ fired[Root] # {}
    /\ Event("rearm")
    /\ lost' = lost \union fired[Root]
    /\ fired' = [fired EXCEPT ![Root] = {}]
    /\ UNCHANGED <<disk, open, posted, pending, task, catalogVars, poll, clientVars>>

-----------------------------------------------------------------------------
(***************************************************************************)
(* CatalogWatchApply on the serve loop.                                    *)
(***************************************************************************)

\* session_dirs: the paths of batch that lie under a session directory.
SessionDirs(batch) == {s \in batch \ Stored : There(s)}

\* _accept puts the whole batch under every session in it, or under the file
\* store if there is none, and kicks those keys: a task that runs is let be.
Accept ==
    LET batch == Head(posted)
        keys == IF SessionDirs(batch) = {} THEN {FileStore} ELSE SessionDirs(batch)
    IN  /\ posted # <<>>
        /\ posted' = Tail(posted)
        /\ pending' = [k \in Keys |-> pending[k] \union IF k \in keys THEN batch ELSE {}]
        /\ task' = [k \in Keys |-> IF k \in keys /\ task[k].pc = "idle"
                                  THEN [IdleTask EXCEPT !.pc = "new"] ELSE task[k]]
        /\ UNCHANGED <<disk, events, open, fired, catalogVars, poll, clientVars, lost>>

\* The head of the loop of _run.  It ends when nothing is pending, waits 50 ms
\* for more if it is the file store, and else takes what is pending to a thread.
Taken(k) == [IdleTask EXCEPT !.pc = "apply", !.batch = pending[k]]
Loop_Once(k) == task' = [task EXCEPT ![k] = IdleTask] /\ UNCHANGED pending
Loop(k) ==
    IF pending[k] = {} \/ k = FileStore
    THEN /\ task' = [task EXCEPT ![k] = IF pending[k] = {} THEN IdleTask
                                        ELSE [IdleTask EXCEPT !.pc = "sleep"]]
         /\ UNCHANGED pending
    ELSE task' = [task EXCEPT ![k] = Taken(k)] /\ pending' = [pending EXCEPT ![k] = {}]

\* A new task gets its first turn on the loop.
Run(k) ==
    /\ task[k].pc = "new"
    /\ Loop(k)
    /\ UNCHANGED <<disk, events, open, fired, posted, catalogVars, poll, clientVars, lost>>

Wake(k) ==
    /\ task[k].pc = "sleep"
    /\ task' = [task EXCEPT ![k] = Taken(k)]
    /\ pending' = [pending EXCEPT ![k] = {}]
    /\ UNCHANGED <<disk, events, open, fired, posted, catalogVars, poll, clientVars, lost>>

-----------------------------------------------------------------------------
(***************************************************************************)
(* The catalog, in calls.  While a rebuild runs every call does nothing.   *)
(***************************************************************************)
Building == build.pc # "idle"
Moved(S) == {s \in S : There(s) /\ stamp[s] # disk[s]}

\* The listed rows whose locator is gone.  Of a row of a shared database the
\* locator is the database, which is still there.
Missing == {s \in Sessions \ Shared : row[s] # Gone /\ ~ There(s)}

\* refresh_rows or refresh_file_store for S, then drop_missing_locators.
Refresh(S) ==
    /\ row' = [s \in Sessions |->
                 IF Building THEN row[s]
                 ELSE IF s \in Moved(S) THEN disk[s]
                 ELSE IF s \in Missing THEN Gone ELSE row[s]]
    /\ stamp' = [s \in Sessions |-> IF ~ Building /\ s \in Moved(S) THEN disk[s] ELSE stamp[s]]
    /\ build' = build

\* The list_changed map of that, as the set of ids it maps to true.  (The faulty
\* variant compares after the patch, and so sees only what went backwards.)
ListChanged_RowsAfter(S) ==
    IF Building THEN {} ELSE Missing \union {s \in Moved(S) : stamp[s].chrome > disk[s].chrome}
ListChanged(S) ==
    IF Building THEN {}
    ELSE Missing \union {s \in Moved(S) : row[s].chrome # disk[s].chrome}

\* apply_fs_catalog_events looks at the paths again, and refreshes either the
\* sessions they lie in or the file store.
Dirty(batch) ==
    IF SessionDirs(batch) # {} THEN SessionDirs(batch)
    ELSE IF \E s \in batch \intersect Stored : There(s) \/ s \in Shared THEN Stored ELSE {}

\* _apply_disk in a worker thread.
Apply(k) ==
    LET batch == task[k].batch
    IN  /\ task[k].pc = "apply"
        /\ Refresh(Dirty(batch))
        /\ task' = [task EXCEPT ![k] =
              [pc |-> "publish", batch |-> {}, sessions |-> SessionDirs(batch),
               list |-> ListChanged(Dirty(batch)),
               seen |-> [s \in Sessions |-> IF s \in SessionDirs(batch) THEN disk[s].ver ELSE 0]]]
        /\ UNCHANGED <<disk, events, open, fired, posted, pending, poll, clientVars, lost>>

\* _apply_disk raises, before or after it patched the catalog.  _run logs it
\* and ends.  Its last line kicks the key if something is pending, to no avail:
\* the task it runs in is still the task of the key, and not done.
Fail(k) ==
    LET dirty == Dirty(task[k].batch)
    IN  /\ task[k].pc = "apply"
        /\ Event("fail")
        /\ \/ UNCHANGED <<catalogVars, silent>>
           \/ Refresh(dirty) /\ silent' = silent \union ListChanged(dirty)
        /\ task' = [task EXCEPT ![k] = IdleTask]
        /\ lost' = lost \union task[k].batch \union pending[k]
        /\ UNCHANGED <<disk, open, fired, posted, pending, poll, told, stale, shown>>

\* _publish: session/changed for each session the paths lie in, with its flag;
\* for none, one without an id if the list changed at all.  Then the loop again.
Publish(k) ==
    LET sessions == task[k].sessions
        list == task[k].list
        heard == IF sessions = {} THEN list # {} ELSE sessions \intersect list # {}
    IN  /\ task[k].pc = "publish"
        /\ told' = [s \in Sessions |->
                      IF s \in sessions /\ told[s] < task[k].seen[s] THEN task[k].seen[s] ELSE told[s]]
        /\ stale' = (stale \/ heard)
        /\ silent' = IF heard THEN silent ELSE silent \union list
        /\ Loop(k)
        /\ UNCHANGED <<disk, events, open, fired, posted, catalogVars, poll, shown, lost>>

-----------------------------------------------------------------------------
(***************************************************************************)
(* The stamp poll and the rebuild callback of serve_control_forever.       *)
(***************************************************************************)
\* poll_stamps, every 5 s: the listed rows whose stamp moved, or are gone.
PollStamps ==
    LET listed == {s \in Sessions : row[s] # Gone}
    IN  /\ poll = {} /\ ~ Building
        /\ Moved(listed) \union Missing # {}
        /\ Refresh(listed)
        /\ poll' = ListChanged(listed)
        /\ UNCHANGED <<disk, events, open, fired, posted, pending, task, clientVars, lost>>

\* An id is published if the catalog still resolves it.
PollPublish ==
    LET found == {s \in poll : row[s] # Gone}
    IN  /\ poll # {}
        /\ poll' = {}
        /\ told' = [s \in Sessions |->
                      IF s \in found /\ told[s] < row[s].ver THEN row[s].ver ELSE told[s]]
        /\ stale' = (stale \/ found # {})
        /\ silent' = IF found = {} THEN silent \union poll ELSE silent
        /\ UNCHANGED <<disk, events, open, fired, posted, pending, task, catalogVars, shown, lost>>

\* A session/list after the TTL, or a forced get, starts a rebuild ...
RebuildStart ==
    /\ ~ Building
    /\ Event("rebuild")
    /\ build' = [NoBuild EXCEPT !.pc = "scan"]
    /\ UNCHANGED <<disk, open, fired, posted, pending, task, row, stamp, poll, clientVars, lost>>

RebuildScan ==
    /\ build.pc = "scan"
    /\ build' = [pc |-> "install", scan |-> disk]
    /\ UNCHANGED <<disk, events, open, fired, posted, pending, task, row, stamp, poll, clientVars, lost>>

\* ... which calls _on_rebuilt only if the set of listed ids moved.
RebuildInstall ==
    LET listed(t) == {s \in Sessions : t[s] # Gone}
        heard == listed(row) # listed(build.scan)
    IN  /\ build.pc = "install"
        /\ build' = NoBuild
        /\ row' = build.scan
        /\ stamp' = disk
        /\ stale' = (stale \/ heard)
        /\ silent' = IF heard THEN silent
                     ELSE silent \union {s \in Sessions : row[s].chrome # build.scan[s].chrome}
        /\ UNCHANGED <<disk, events, open, fired, posted, pending, task, poll, told, shown, lost>>

\* The client lists again.
List ==
    /\ stale
    /\ stale' = FALSE
    /\ shown' = [s \in Sessions |-> row[s].chrome]
    /\ silent' = {}
    /\ UNCHANGED <<disk, events, open, fired, posted, pending, task, catalogVars, poll, told, lost>>

-----------------------------------------------------------------------------
TaskStep(k) == Run(k) \/ Wake(k) \/ Apply(k) \/ Publish(k)
RebuildStep == RebuildScan \/ RebuildInstall

Next ==
    \/ \E s \in Sessions : Write(s) \/ Vanish(s) \/ MarkOpen(s)
    \/ \E w \in Watches : Deliver(w)
    \/ Rearm
    \/ Accept
    \/ \E k \in Keys : TaskStep(k) \/ Fail(k)
    \/ PollStamps \/ PollPublish
    \/ RebuildStart \/ RebuildStep
    \/ List

\* The loop runs what is posted and every task, watch threads deliver, the poll
\* and the rebuild thread run, the client lists.  Writes, failures and rebuilds
\* need not happen.
Fairness ==
    /\ WF_vars(Accept) /\ WF_vars(PollStamps) /\ WF_vars(PollPublish)
    /\ WF_vars(RebuildStep) /\ WF_vars(List)
    /\ \A w \in Watches : WF_vars(Deliver(w))
    /\ \A k \in Keys : WF_vars(TaskStep(k))
Spec == Init /\ [][Next]_vars
FairSpec == Spec /\ Fairness

-----------------------------------------------------------------------------
Version == [chrome: Nat \ {0}, ver: Nat \ {0}] \union {Gone}

\* Types; and a batch is never empty once a worker has it, nor does a thread
\* ever publish a session kept in a store.
TypeOK ==
    /\ disk \in [Sessions -> Version] /\ row \in [Sessions -> Version]
    /\ stamp \in [Sessions -> Version]
    /\ events \in Nat /\ open \subseteq Sessions \ Stored
    /\ fired \in [Watches -> SUBSET Sessions]
    /\ posted \in Seq(SUBSET Sessions \ {{}})
    /\ pending \in [Keys -> SUBSET Sessions]
    /\ task \in [Keys -> [pc: {"idle", "new", "sleep", "apply", "publish"},
                          batch: SUBSET Sessions, sessions: SUBSET (Sessions \ Stored),
                          list: SUBSET Sessions, seen: [Sessions -> Nat]]]
    /\ \A k \in Keys : task[k].pc = "apply" => task[k].batch # {}
    /\ build \in [pc: {"idle", "scan", "install"}, scan: [Sessions -> Version]]
    /\ poll \subseteq Sessions /\ lost \subseteq Sessions /\ silent \subseteq Sessions
    /\ told \in [Sessions -> Nat] /\ shown \in [Sessions -> Nat] /\ stale \in BOOLEAN

\* A write a watch saw is told with session/changed, whatever is in flight for
\* that session or a rebuild does, unless its batch was lost.
WritesAreTold ==
    \A s \in Sessions \ Stored, n \in 2 .. MaxEvents + 1 :
        (disk[s].ver = n /\ \E w \in Watches : s \in fired[w])
            ~> (told[s] >= n \/ ~ There(s) \/ s \in lost)

\* What the owner lists, a client that lists on listChanged ends up showing,
\* except where the owner itself moved the list without a notification.
ListIsHeard ==
    \A s \in Sessions :
        (shown[s] # row[s].chrome) ~> (shown[s] = row[s].chrome \/ s \in silent)
=============================================================================
