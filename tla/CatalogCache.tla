---------------------------- MODULE CatalogCache ----------------------------
(***************************************************************************)
(* The warm session catalog of the owner process, the class                *)
(* SessionCatalogCache of anqa/session/catalog.py, together with the disk  *)
(* it mirrors and the clients that poll it with session/list.              *)
(*                                                                         *)
(* One cache is shared by many threads: the thread that rebuilds it from a *)
(* full scan, the watch-apply threads and the 5 s stamp poll that patch    *)
(* single rows, the request handlers that refresh or drop rows after a     *)
(* write, and the handlers that answer session/list.  The lock is held     *)
(* only around the reads and writes of the fields; the disk is read        *)
(* outside it.  Every action below is therefore either one critical        *)
(* section or one disk access between two of them.                         *)
(*                                                                         *)
(* What a row says is abstracted to two counters.  "chrome" stands for the *)
(* painted fields (_LIST_CHROME_KEYS: title, status, tags, ...), "meter"   *)
(* for the ones that may move without a new catalog revision (counts,      *)
(* context, updatedAt).  A write to a session's files moves one of them,   *)
(* and the list stamp (the mtimes of the files) moves with it.             *)
(***************************************************************************)
EXTENDS Integers, Sequences, FiniteSets

CONSTANTS
    Sessions,       \* session ids
    StoreSessions,  \* those kept in a file or database store, not a directory
    SharedSessions, \* those of them that are rows of one database (OpenCode, Copilot)
    Workers,        \* threads that patch rows: watch applies, poll, handlers
    Poller,         \* the one of them that runs poll_stamps every 5 s
    Clients,        \* session/list clients that send sinceRevision
    DeltaKeep,      \* SessionCatalogCache._DELTA_KEEP
    Events,         \* kinds of environment event a run enables
    MaxEvents       \* bound: how many environment events a behaviour has

ASSUME SessionsAssumption ==
    IsFiniteSet(Sessions) /\ StoreSessions \subseteq Sessions /\ SharedSessions \subseteq StoreSessions
ASSUME DeltaKeepAssumption == DeltaKeep \in Nat \ {0}
ASSUME PollerAssumption == Poller \in Workers
ASSUME MaxEventsAssumption == MaxEvents \in Nat

VARIABLES
    \* the disk
    kind,      \* kind[s]: "gone", "listed", or "child" (a harness subagent)
    data,      \* data[s]: what the files of s hold now, a row
    saved,     \* rows of the on-disk snapshot file, as the last scan wrote it
    events,    \* environment events so far
    \* the fields of SessionCatalogCache
    loaded,    \* _rows is not None
    rows,      \* _rows, by session id; NoRow where none is listed
    seeded,    \* _rows_seeded
    expired,   \* monotonic() - _mono has reached the TTL
    roots,     \* _fingerprint: directory names at the last rebuild, if known
    stamps,    \* _ref_stamps, by session id; NoRow where none is recorded
    gen,       \* _gen, the owner instance
    seq,       \* _seq, the low half of _revision; 0 before the first bump
    deltas,    \* _deltas
    build,     \* _building and the locals of the thread in _run_rebuild
    work,      \* work[w]: the locals of a thread inside a row-patching call
    client     \* client[c]: what c shows, and its session/list in flight

diskVars == <<kind, data, saved, events>>
cacheVars == <<loaded, rows, seeded, expired, roots, stamps, gen, seq, deltas>>
vars == <<diskVars, cacheVars, build, work, client>>

-----------------------------------------------------------------------------
(***************************************************************************)
(* Rows, snapshots of the row table, and catalog revisions.                *)
(***************************************************************************)
NoRow == [chrome |-> 0, meter |-> 0]
Files == [chrome: Nat \ {0}, meter: Nat]
Row == Files \union {NoRow}
Table == [Sessions -> Row]
EmptyTable == [s \in Sessions |-> NoRow]

\* The ids a row table lists.
Listed(t) == {s \in Sessions : t[s] # NoRow}

\* What a client can tell of a row table: list_row_fingerprint of each row,
\* 0 where the session is not listed.
Chrome(t) == [s \in Sessions |-> t[s].chrome]

\* _revision: the generation in the high bits, the sequence number below.
Revision(g, n) == [gen |-> g, seq |-> n]
NoRevision == Revision(0, 0)
CurrentRevision == IF seq = 0 THEN NoRevision ELSE Revision(gen, seq)

\* catalog_roots_fingerprint: the child names of the scanned directories.  A
\* store counts as present whatever sessions it holds.
Fingerprint == [known |-> TRUE, names |-> {s \in Sessions \ StoreSessions : kind[s] # "gone"}]
NoRoots == [known |-> FALSE, names |-> {}]

\* One row as session_catalog_row or catalog_row_for_ref reads it now.
RowOnDisk_Half(s) == IF kind[s] = "gone" THEN [data[s] EXCEPT !.chrome = 0] ELSE data[s]
RowOnDisk(s) == IF kind[s] = "gone" THEN NoRow ELSE data[s]

\* One row of list_session_catalog, which leaves harness children out.
RowInScan(s) == IF kind[s] = "listed" THEN data[s] ELSE NoRow

\* The locator of s does not exist.  A row of a database has the database for its
\* locator, which stays when the row goes: only a rebuild unlists such a session.
LocatorGone(s) == kind[s] = "gone" /\ s \notin SharedSessions

\* The recorded stamp of s is the one its files have now.
Unmoved(s) == kind[s] # "gone" /\ stamps[s] = data[s]

-----------------------------------------------------------------------------
(***************************************************************************)
(* The delta log: one record per revision, oldest first.                   *)
(***************************************************************************)
Delta == [seq: Nat, upserted: [Sessions -> Nat], removed: SUBSET Sessions]

Touches(d, s) == s \in d.removed \/ d.upserted[s] # 0

\* _bump_locked without clear_deltas: append to a deque(maxlen=_DELTA_KEEP).
Logged(d) == Append(IF Len(deltas) < DeltaKeep THEN deltas ELSE Tail(deltas), d)

\* delta_since answers None: no usable revision, another generation, a
\* revision from the future, or a gap before the oldest delta kept.
Gapped_AnyGeneration(since) ==
    \/ since.seq = 0
    \/ since.seq > seq
    \/ since.seq < seq /\ (deltas = <<>> \/ deltas[1].seq > since.seq + 1)
Gapped_NoGap(since) ==
    \/ since.seq = 0
    \/ since.gen # gen
    \/ since.seq > seq
Gapped(since) ==
    \/ since.seq = 0
    \/ since.gen # gen
    \/ since.seq > seq
    \/ since.seq < seq /\ (deltas = <<>> \/ deltas[1].seq > since.seq + 1)

\* The deltas delta_since replays, and the last of them to touch s: an upsert
\* discards an earlier removal and a removal an earlier upsert.
After(n) == {i \in 1 .. Len(deltas) : deltas[i].seq > n}
TouchedAfter(n, s) == \E i \in After(n) : Touches(deltas[i], s)
LastTouch(n, s) ==
    CHOOSE i \in After(n) :
        /\ Touches(deltas[i], s)
        /\ \A j \in After(n) : j > i => ~ Touches(deltas[j], s)

\* A client's list after it merges the delta page for revision n into view.
Replayed(view, n) ==
    [s \in Sessions |->
        IF TouchedAfter(n, s) THEN deltas[LastTouch(n, s)].upserted[s] ELSE view[s]]

-----------------------------------------------------------------------------
(***************************************************************************)
(* Initial state: an owner that has just started in front of any disk.     *)
(***************************************************************************)
NoBuild == [pc |-> "idle", todo |-> {}, scan |-> EmptyTable, roots |-> NoRoots]
IdleWork == [pc |-> "idle", plan |-> <<>>, dirs |-> {}, todo |-> {}, snap |-> EmptyTable,
             seq |-> 0, new |-> EmptyTable, drop |-> {}, at |-> {}, stamp |-> NoRow]
NoReply == [view |-> [s \in Sessions |-> 0], rev |-> NoRevision]

Init ==
    /\ kind \in [Sessions -> {"gone", "listed"}]
    /\ data = [s \in Sessions |-> [chrome |-> 1, meter |-> 0]]
    /\ saved = EmptyTable
    /\ events = 0
    /\ loaded = FALSE
    /\ rows = EmptyTable
    /\ seeded = FALSE
    /\ expired = TRUE
    /\ roots = NoRoots
    /\ stamps = EmptyTable
    /\ gen = 1
    /\ seq = 0
    /\ deltas = <<>>
    /\ build = NoBuild
    /\ work = [w \in Workers |-> IdleWork]
    /\ client = [c \in Clients |->
                    [pc |-> "idle", view |-> [s \in Sessions |-> 0], rev |-> NoRevision,
                     page |-> NoReply]]

-----------------------------------------------------------------------------
(***************************************************************************)
(* The environment: agents write session files, sessions come and go, time *)
(* passes, the owner is killed and started again.                          *)
(***************************************************************************)
Event(e) ==
    /\ e \in Events
    /\ events < MaxEvents
    /\ events' = events + 1

\* The agent moves a painted field of s.
WriteChrome(s) ==
    /\ Event("chrome")
    /\ kind[s] # "gone"
    /\ data' = [data EXCEPT ![s].chrome = @ + 1]
    /\ UNCHANGED <<kind, saved, cacheVars, build, work, client>>

\* The agent appends to the trace of s: the stamp moves, no painted field does.
WriteMeter(s) ==
    /\ Event("meter")
    /\ kind[s] # "gone"
    /\ data' = [data EXCEPT ![s].meter = @ + 1]
    /\ UNCHANGED <<kind, saved, cacheVars, build, work, client>>

\* A session is created or imported with files of its own.
Appear(s) ==
    /\ Event("appear")
    /\ kind[s] = "gone"
    /\ kind' = [kind EXCEPT ![s] = "listed"]
    /\ data' = [data EXCEPT ![s].chrome = @ + 1]
    /\ UNCHANGED <<saved, cacheVars, build, work, client>>

\* A session is removed by something other than the owner.
Vanish(s) ==
    /\ Event("vanish")
    /\ kind[s] # "gone"
    /\ kind' = [kind EXCEPT ![s] = "gone"]
    /\ UNCHANGED <<data, saved, cacheVars, build, work, client>>

\* A session turns out to be the subagent of another one.
BecomeChild(s) ==
    /\ Event("child")
    /\ kind[s] = "listed" /\ s \notin StoreSessions
    /\ kind' = [kind EXCEPT ![s] = "child"]
    /\ UNCHANGED <<data, saved, cacheVars, build, work, client>>

\* DEFAULT_TTL seconds pass since _mono was last set.
Expire ==
    /\ Event("expire")
    /\ loaded /\ ~ expired
    /\ expired' = TRUE
    /\ UNCHANGED <<kind, data, saved, loaded, rows, seeded, roots, stamps, gen, seq, deltas,
                   build, work, client>>

\* session/import ends by calling invalidate.  The revision does not move.
Invalidate ==
    /\ Event("invalidate")
    /\ loaded
    /\ loaded' = FALSE
    /\ rows' = EmptyTable
    /\ seeded' = FALSE
    /\ expired' = TRUE
    /\ roots' = NoRoots
    /\ deltas' = <<>>
    /\ UNCHANGED <<kind, data, saved, stamps, gen, seq, build, work, client>>

\* The owner dies with its threads; a new one starts with a new generation.
\* Requests in flight fail, and clients keep what they show.
Restart ==
    /\ Event("restart")
    /\ loaded' = FALSE
    /\ rows' = EmptyTable
    /\ seeded' = FALSE
    /\ expired' = TRUE
    /\ roots' = NoRoots
    /\ stamps' = EmptyTable
    /\ gen' = gen + 1
    /\ seq' = 0
    /\ deltas' = <<>>
    /\ build' = NoBuild
    /\ work' = [w \in Workers |-> IdleWork]
    /\ client' = [c \in Clients |-> [client[c] EXCEPT !.pc = "idle", !.page = NoReply]]
    /\ UNCHANGED <<kind, data, saved>>

-----------------------------------------------------------------------------
(***************************************************************************)
(* The rebuild: one thread at a time, started by _kick_rebuild.            *)
(***************************************************************************)
Building == build.pc # "idle"

\* _is_fresh_locked without force.
Fresh == loaded /\ roots = Fingerprint /\ ~ expired

\* _kick_rebuild: nothing when fresh or building, else the thread starts with
\* the fingerprint taken before it scans.
Kick(force) ==
    build' = IF (~ force /\ Fresh) \/ Building
             THEN build
             ELSE [NoBuild EXCEPT !.pc = "scan", !.todo = Sessions, !.roots = Fingerprint]

\* list_session_catalog reads the sessions one after the other, in any order,
\* and ends by writing the snapshot file.  A row reused from the snapshot is
\* one whose stamp has not moved.
RebuildRead(s) ==
    LET scan == [build.scan EXCEPT ![s] = RowInScan(s)]
        last == build.todo = {s}
    IN  /\ build.pc = "scan" /\ s \in build.todo
        /\ build' = [build EXCEPT !.pc = IF last THEN "install" ELSE "scan",
                                  !.todo = @ \ {s}, !.scan = scan]
        /\ saved' = IF last THEN scan ELSE saved
        /\ UNCHANGED <<kind, data, events, cacheVars, work, client>>

\* The scan raises: the finally clause clears _building.
RebuildFail ==
    /\ build.pc = "scan"
    /\ build' = NoBuild
    /\ Event("fail")
    /\ UNCHANGED <<kind, data, saved, cacheVars, work, client>>

\* Install the scan.  The stamps recorded are those the files have now, not
\* those they had when their rows were read.
RebuildInstall ==
    /\ build.pc = "install"
    /\ build' = [build EXCEPT !.pc = "installed"]
    /\ loaded' = TRUE
    /\ rows' = build.scan
    /\ seeded' = FALSE
    /\ expired' = FALSE
    /\ roots' = build.roots
    /\ stamps' = [s \in Sessions |->
                    IF build.scan[s] = NoRow THEN NoRow ELSE RowOnDisk(s)]
    /\ seq' = seq + 1
    /\ deltas' = <<>>
    /\ UNCHANGED <<diskVars, gen, work, client>>

\* _on_rebuilt has been called; the finally clause clears _building.
RebuildEnd ==
    /\ build.pc = "installed"
    /\ build' = NoBuild
    /\ UNCHANGED <<diskVars, cacheVars, work, client>>

-----------------------------------------------------------------------------
(***************************************************************************)
(* session/list: list_for_rpc, and the client that merges its answer.      *)
(***************************************************************************)

\* _seed_from_snapshots has something to do: the cache is empty and the
\* snapshot file lists something.
Seedable == ~ loaded /\ saved # EmptyTable

ListSeed(c) ==
    /\ client[c].pc = "idle" /\ Seedable
    /\ client' = [client EXCEPT ![c].pc = "kick"]
    /\ loaded' = TRUE
    /\ rows' = saved
    /\ seeded' = TRUE
    /\ UNCHANGED <<diskVars, expired, roots, stamps, gen, seq, deltas, build, work>>

ListKick(c) ==
    /\ client[c].pc = "kick" \/ (client[c].pc = "idle" /\ ~ Seedable)
    /\ Kick(FALSE)
    /\ client' = [client EXCEPT ![c].pc = "read"]
    /\ UNCHANGED <<diskVars, cacheVars, work>>

\* The critical section that reads _rows and _revision.
ListRead(c) ==
    /\ client[c].pc = "read"
    /\ client' = [client EXCEPT
                     ![c].pc = "reply",
                     ![c].page = [view |-> Chrome(rows), rev |-> CurrentRevision]]
    /\ UNCHANGED <<diskVars, cacheVars, build, work>>

\* The answer, and what the client makes of it: "unchanged" keeps the list,
\* a delta (from the log as it is now, under a second lock) is merged into
\* it, and a full page replaces it.
ListReply(c) ==
    LET me == client[c]
        view == IF me.rev.seq > 0 /\ me.rev = me.page.rev THEN me.view
                ELSE IF ~ Gapped(me.rev) THEN Replayed(me.view, me.rev.seq)
                ELSE me.page.view
    IN  /\ me.pc = "reply"
        /\ client' = [client EXCEPT ![c] = [pc |-> "idle", view |-> view,
                                            rev |-> me.page.rev, page |-> NoReply]]
        /\ UNCHANGED <<diskVars, cacheVars, build, work>>

-----------------------------------------------------------------------------
(***************************************************************************)
(* Row patches.  A thread runs a plan: one call after another, each of     *)
(*   "dirs"      refresh_rows                                              *)
(*   "store"     refresh_file_store                                        *)
(*   "missing"   drop_missing_locators                                     *)
(*   "ids"       drop_session_ids                                          *)
(* Each call snapshots the table under the lock, reads the disk without    *)
(* it, and installs its patch under the lock again if neither a rebuild    *)
(* nor a new revision came in between.  (drop_subagent_rows, the fifth     *)
(* such call, has no caller.)                                              *)
(***************************************************************************)
Start(w, plan, dirs) ==
    /\ work[w].pc = "idle"
    /\ work' = [work EXCEPT ![w] = [IdleWork EXCEPT !.pc = "enter", !.plan = plan,
                                                    !.dirs = dirs]]

\* apply_fs_catalog_events for a path under s.  (An event that finds nothing
\* moved changes nothing, so it is not taken.)
Watch(w, s) ==
    /\ ~ Unmoved(s) \/ kind[s] = "child"
    /\ Start(w, <<IF s \in StoreSessions THEN "store" ELSE "dirs", "missing">>, {s})
    /\ UNCHANGED <<diskVars, cacheVars, build, client>>

\* poll_stamps: compare every listed row's stamp, then refresh those that moved
\* and whose locator exists (a database without the row is looked through too),
\* and drop those whose locator is gone.
Poll(w) ==
    LET moved == {s \in Listed(rows) : ~ Unmoved(s) /\ ~ LocatorGone(s)}
        dirs == moved \ StoreSessions
    IN  /\ loaded /\ ~ Building
        /\ \E s \in Listed(rows) : ~ Unmoved(s)
        /\ Start(w, (IF dirs # {} THEN <<"dirs">> ELSE <<>>)
                    \o (IF moved \ dirs # {} THEN <<"store">> ELSE <<>>)
                    \o <<"missing">>, dirs)
        /\ UNCHANGED <<diskVars, cacheVars, build, client>>

\* A notes or tags write that a handler follows with refresh_rows.
AfterWrite(w, s) ==
    /\ Start(w, <<"dirs">>, {s})
    /\ Event("chrome")
    /\ kind[s] = "listed" /\ s \notin StoreSessions
    /\ data' = [data EXCEPT ![s].chrome = @ + 1]
    /\ UNCHANGED <<kind, saved, cacheVars, build, client>>

\* session/delete: the files go first, then drop_session_ids, which drops the
\* row of a session whose files could not be removed too.
Delete(w, s) ==
    /\ Start(w, <<"ids">>, {s})
    /\ Event("vanish")
    /\ kind[s] # "gone"
    /\ kind' \in {kind, [kind EXCEPT ![s] = "gone"]}
    /\ UNCHANGED <<data, saved, cacheVars, build, client>>

\* The call a thread is in returns: on to the next one of its plan.
Call(w) == Head(work[w].plan)
Returned(me) ==
    IF Len(me.plan) = 1
    THEN IdleWork
    ELSE [IdleWork EXCEPT !.pc = "enter", !.plan = Tail(me.plan), !.dirs = me.dirs]
Done(w) == work' = [work EXCEPT ![w] = Returned(@)]

\* The loop over the sessions of a refresh: the next one, or the installation
\* of what was found, or nothing to do.
Looked(me) ==
    IF me.todo # {} THEN [me EXCEPT !.pc = "stat"]
    ELSE IF me.new = EmptyTable /\ me.drop = {} THEN Returned(me)
    ELSE [me EXCEPT !.pc = "install"]

\* The first critical section.  A rebuild in progress, or an empty cache,
\* ends the call at once ...
EnterSkip(w) ==
    /\ work[w].pc = "enter"
    /\ Building \/ (~ loaded /\ Call(w) # "dirs")
    /\ Done(w)
    /\ UNCHANGED <<diskVars, cacheVars, build, client>>

\* ... except that refresh_rows on an empty cache goes to get, which seeds it,
\* forces a rebuild and waits for its end.  (What get gives up waiting for after
\* two minutes is a list its caller here throws away.)
EnterGet(w) ==
    /\ work[w].pc = "enter" /\ ~ Building /\ ~ loaded /\ Call(w) = "dirs"
    /\ IF Seedable THEN loaded' = TRUE /\ rows' = saved /\ seeded' = TRUE
                   ELSE UNCHANGED <<loaded, rows, seeded>>
    /\ work' = [work EXCEPT ![w].pc = "kick"]
    /\ UNCHANGED <<diskVars, expired, roots, stamps, gen, seq, deltas, build, client>>

GetKick(w) ==
    /\ work[w].pc = "kick"
    /\ Kick(TRUE)
    /\ work' = [work EXCEPT ![w].pc = "wait"]
    /\ UNCHANGED <<diskVars, cacheVars, client>>

Waited(w) ==
    /\ work[w].pc = "wait" /\ ~ Building
    /\ Done(w)
    /\ UNCHANGED <<diskVars, cacheVars, build, client>>

\* Otherwise it snapshots the table and the revision.
Enter(w) ==
    LET me == [work[w] EXCEPT !.snap = rows, !.seq = seq]
    IN  /\ me.pc = "enter" /\ ~ Building /\ loaded
        /\ work' = [work EXCEPT ![w] =
              CASE Call(w) = "dirs" -> Looked([me EXCEPT !.todo = me.dirs])
                [] Call(w) = "store" ->
                     Looked([me EXCEPT !.todo = {s \in StoreSessions : kind[s] = "listed"}])
                [] OTHER -> [me EXCEPT !.pc = "find"]]
        /\ UNCHANGED <<diskVars, cacheVars, build, client>>

\* Take the stamp of one session: skip it if it is the recorded one, drop it
\* if it is a harness child.  refresh_file_store records the stamp here.
Stat(w, s) ==
    LET me == [work[w] EXCEPT !.todo = @ \ {s}]
        child == Call(w) = "dirs" /\ kind[s] = "child"
    IN  /\ me.pc = "stat" /\ s \in work[w].todo
        /\ work' = [work EXCEPT ![w] =
              IF child THEN Looked([me EXCEPT !.drop = @ \union {s}])
              ELSE IF Unmoved(s) THEN Looked(me)
              ELSE [me EXCEPT !.pc = "read", !.at = {s}, !.stamp = RowOnDisk(s)]]
        /\ stamps' = IF Call(w) = "store" THEN [stamps EXCEPT ![s] = RowOnDisk(s)] ELSE stamps
        /\ UNCHANGED <<diskVars, loaded, rows, seeded, expired, roots, gen, seq, deltas,
                       build, client>>

\* Build the row.  None drops the session.  refresh_rows records the stamp it
\* took before the read, whether or not the patch will be installed.
Read(w, s) ==
    LET me == [work[w] EXCEPT !.at = {}, !.stamp = NoRow]
        row == RowOnDisk(s)
    IN  /\ me.pc = "read" /\ work[w].at = {s}
        /\ work' = [work EXCEPT ![w] =
              Looked(IF row = NoRow THEN [me EXCEPT !.drop = @ \union {s}]
                     ELSE [me EXCEPT !.new[s] = row])]
        /\ stamps' = IF row = NoRow \/ Call(w) = "store" THEN stamps
                     ELSE [stamps EXCEPT ![s] = work[w].stamp]
        /\ UNCHANGED <<diskVars, loaded, rows, seeded, expired, roots, gen, seq, deltas,
                       build, client>>

\* The drop calls look for their rows in the snapshot: those whose locator does
\* not exist, or those asked for.
Lost_Child(w, s) == IF Call(w) = "missing" THEN kind[s] = "child" ELSE s \in work[w].dirs
Lost(w, s) == IF Call(w) = "missing" THEN LocatorGone(s) ELSE s \in work[w].dirs
Find(w) ==
    LET me == work[w]
        found == {s \in Listed(me.snap) : Lost(w, s)}
    IN  /\ me.pc = "find"
        /\ work' = [work EXCEPT ![w] = IF found = {} THEN Returned(me)
                                      ELSE [me EXCEPT !.pc = "install", !.drop = found]]
        /\ UNCHANGED <<diskVars, cacheVars, build, client>>

\* The patched table, and the delta of list_refresh_delta: a replaced row is
\* an upsert only if its chrome moved, an appended one always.
Patched(w) ==
    [s \in Sessions |-> IF s \in work[w].drop THEN NoRow
                        ELSE IF work[w].new[s] # NoRow THEN work[w].new[s]
                        ELSE work[w].snap[s]]
PatchDelta(w) ==
    LET me == work[w]
    IN  [seq |-> seq + 1,
         upserted |-> [s \in Sessions |->
            IF s \notin me.drop /\ me.new[s] # NoRow
               /\ (me.snap[s] = NoRow \/ me.snap[s].chrome # me.new[s].chrome)
            THEN me.new[s].chrome ELSE 0],
         removed |-> me.drop \intersect Listed(me.snap)]
\* Nothing came in between the two critical sections of a patch.
Guard_NoRevision(w) == ~ Building
Guard(w) == ~ Building /\ seq = work[w].seq

\* The second critical section.
Install(w) ==
    /\ work[w].pc = "install"
    /\ Guard(w)
    /\ loaded' = TRUE
    /\ rows' = Patched(w)
    /\ expired' = FALSE
    /\ IF \E s \in Sessions : Touches(PatchDelta(w), s)
       THEN seq' = seq + 1 /\ deltas' = Logged(PatchDelta(w))
       ELSE UNCHANGED <<seq, deltas>>
    /\ Done(w)
    /\ UNCHANGED <<diskVars, seeded, roots, stamps, gen, build, client>>

\* A rebuild runs or the revision moved: the patch is abandoned.
Abandon(w) ==
    /\ work[w].pc = "install"
    /\ ~ Guard(w)
    /\ Done(w)
    /\ UNCHANGED <<diskVars, cacheVars, build, client>>

-----------------------------------------------------------------------------
Environment ==
    \/ \E s \in Sessions : WriteChrome(s) \/ WriteMeter(s) \/ Appear(s) \/ Vanish(s)
                           \/ BecomeChild(s)
    \/ Expire \/ Invalidate \/ Restart

RebuildStep ==
    RebuildInstall \/ RebuildEnd \/ \E s \in Sessions : RebuildRead(s)

ListStep(c) == ListSeed(c) \/ ListKick(c) \/ ListRead(c) \/ ListReply(c)

PatchStep(w) ==
    \/ EnterSkip(w) \/ EnterGet(w) \/ GetKick(w) \/ Waited(w) \/ Enter(w)
    \/ Find(w) \/ Install(w) \/ Abandon(w)
    \/ \E s \in Sessions : Stat(w, s) \/ Read(w, s)

Begin(w) ==
    \/ w = Poller /\ Poll(w)
    \/ /\ w # Poller
       /\ \E s \in Sessions : Watch(w, s) \/ AfterWrite(w, s) \/ Delete(w, s)

Next ==
    \/ Environment
    \/ RebuildStep \/ RebuildFail
    \/ \E c \in Clients : ListStep(c)
    \/ \E w \in Workers : Begin(w) \/ PatchStep(w)

Spec == Init /\ [][Next]_vars

\* Threads that run are scheduled, the poll loop and the clients keep calling.
\* Nothing forces a write, a watch event or a restart to happen.
Fairness ==
    /\ WF_vars(RebuildStep)
    /\ \A w \in Workers : WF_vars(PatchStep(w))
    /\ WF_vars(Poll(Poller))
    /\ \A c \in Clients : WF_vars(ListStep(c))
FairSpec == Spec /\ Fairness

-----------------------------------------------------------------------------
(***************************************************************************)
(* Properties.                                                             *)
(***************************************************************************)
Roots == [known: BOOLEAN, names: SUBSET Sessions]
View == [Sessions -> Nat]
Rev == [gen: Nat, seq: Nat]
Plans == Seq({"dirs", "store", "missing", "ids"})
BuildState == [pc: {"idle", "scan", "install", "installed"}, todo: SUBSET Sessions,
               scan: Table, roots: Roots]
WorkState == [pc: {"idle", "enter", "kick", "wait", "stat", "read", "find", "install"},
              plan: Plans,
              dirs: SUBSET Sessions, todo: SUBSET Sessions, snap: Table, seq: Nat,
              new: Table, drop: SUBSET Sessions, at: SUBSET Sessions, stamp: Row]
ClientState == [pc: {"idle", "kick", "read", "reply"}, view: View, rev: Rev,
                page: [view: View, rev: Rev]]

\* The fields of the cache and the locals of its threads keep their types: no
\* row is ever half there (a chrome with no session, a delta with no number).
TypeOK ==
    /\ kind \in [Sessions -> {"gone", "listed", "child"}]
    /\ data \in [Sessions -> Files] /\ saved \in Table /\ rows \in Table /\ stamps \in Table
    /\ events \in Nat /\ gen \in Nat /\ seq \in Nat
    /\ loaded \in BOOLEAN /\ seeded \in BOOLEAN /\ expired \in BOOLEAN
    /\ roots \in Roots
    /\ deltas \in Seq(Delta)
    /\ build \in BuildState
    /\ work \in [Workers -> WorkState]
    /\ client \in [Clients -> ClientState]

\* A client that merges what delta_since would send it now shows the chrome of
\* the current rows; in particular a client told "unchanged" already does.
\* (While _fingerprint is None the rows are a seeded snapshot or none, and the
\* answer says "incomplete".)
DeltasCatchUp ==
    roots.known =>
        \A c \in Clients :
            ~ Gapped(client[c].rev) =>
                Replayed(client[c].view, client[c].rev.seq) = Chrome(rows)

\* No install, patch or rebuild, puts an older chrome back over a newer one.
ChromeNeverGoesBack ==
    [][ roots.known /\ roots'.known =>
            \A s \in Listed(rows) \intersect Listed(rows') : rows'[s].chrome >= rows[s].chrome
      ]_vars

\* A session whose locator is gone leaves the list.  (A row deleted from a shared
\* database leaves no locator behind that could be missed: it stays listed until
\* the catalog is rebuilt, which nothing but the TTL asks for.)
GoneIsUnlisted ==
    \A s \in Sessions : (LocatorGone(s) /\ s \in Listed(rows))
                            ~> (kind[s] # "gone" \/ s \notin Listed(rows))

\* Clients end up showing what the owner lists.
ClientsCatchUp == <>[](\A c \in Clients : client[c].view = Chrome(rows))

=============================================================================
