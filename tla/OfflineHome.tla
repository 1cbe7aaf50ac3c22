---------------------------- MODULE OfflineHome -----------------------------
(***************************************************************************)
(* The home list of a terminal interface that runs without an owner        *)
(* (--no-serve, anqa/ui/app.py): the list _meta_only and the threads that  *)
(* write it.  A load walks the stores and replaces the list; a scan, after *)
(* a change in the store, reads the sessions it found against the list it  *)
(* saw and merges into the list there is by then; every minute a heartbeat *)
(* reads the sessions whose rows say they are in progress; a deletion      *)
(* takes rows away.  Harness programs write the store all along.           *)
(***************************************************************************)
EXTENDS Naturals, Sequences, FiniteSets, SequencesExt

CONSTANTS
    Rows,       \* sessions that may be in the store
    Loaders,    \* loads that may be under way at once
    NoRow,      \* no session screen is open
    MaxChanges, \* bound: changes of the store by harness programs
    MaxOrders   \* bound: reloads, deletions and screens the user asks for

VARIABLES
    disk,       \* a session in the store: "absent", "live" or "settled"
    listed,     \* _meta_only: sequence of [key, status]
    gen,        \* _sessions_load_gen
    loading,    \* _sessions_catalog_busy
    load,       \* a load thread: pc, its generation, what it has still to
                \* read, and the rows it has built
    scan,       \* the scan worker: the list it saw, what it has still to
                \* read, and the rows it has built
    walkDue,    \* LIVE_POLL_FULL_WALK_INTERVAL has gone by since the last walk
    event,      \* the store changed and the tick has not run
    beat,       \* the heartbeat worker: rows to read, updates, failed
    screen,     \* the session whose screen is open, or NoRow
    held,       \* sessions whose KIND_REFRESH is taken by a screen's refresh
    deletion,   \* _do_delete_sessions: pc and paths
    running,    \* the app has not ended
    changes, orders

homeVars == <<disk, listed, gen, loading, load, scan, walkDue, event, beat,
              screen, held, deletion, running, changes, orders>>

Row(key, status) == [key |-> key, status |-> status]
Keys(rows) == {rows[i].key : i \in DOMAIN rows}
Present == {s \in Rows : disk[s] # "absent"}

\* Stores are walked in one order.
Walked(todo) == CHOOSE s \in todo : TRUE

IdleLoad == [pc |-> "idle", gen |-> 0, todo |-> {}, rows |-> <<>>]
IdleScan == [pc |-> "idle", seen |-> << >>, todo |-> {}, rows |-> <<>>]
IdleBeat == [pc |-> "idle", todo |-> <<>>, ups |-> <<>>, failed |-> FALSE]
IdleDeletion == [pc |-> "idle", paths |-> {}]

OfflineInit ==
    /\ disk \in [Rows -> {"absent", "live"}]
    /\ listed = <<>>
    /\ gen = 0 /\ loading = FALSE
    /\ LET onMount == CHOOSE l \in Loaders : TRUE IN
         load = [l \in Loaders |->
                   IF l = onMount THEN [IdleLoad EXCEPT !.pc = "begin"]
                   ELSE IdleLoad]
    /\ scan = IdleScan /\ walkDue = TRUE /\ event = FALSE
    /\ beat = IdleBeat
    /\ screen = NoRow /\ held = {}
    /\ deletion = IdleDeletion
    /\ running = TRUE
    /\ changes = 0 /\ orders = 0

-----------------------------------------------------------------------------
(* Everyone else.                                                           *)

\* A harness program starts, settles, resumes or removes a session.  The
\* observer is stopped while a session screen is open.
Changes(s) ==
    /\ changes < MaxChanges
    /\ \E to \in {"absent", "live", "settled"} \ {disk[s]} :
         disk' = [disk EXCEPT ![s] = to]
    /\ event' = (event \/ screen = NoRow)
    /\ changes' = changes + 1
    /\ UNCHANGED <<listed, gen, loading, load, scan, walkDue, beat, screen,
                   held, deletion, running, orders>>

MinutePasses ==
    /\ ~walkDue /\ walkDue' = TRUE
    /\ UNCHANGED <<disk, listed, gen, loading, load, scan, event, beat, screen,
                   held, deletion, running, changes, orders>>

-----------------------------------------------------------------------------
(* Loads: _load_sessions, and _run_refresh_everything, which clears the     *)
(* list first.                                                              *)

Current(l) == load[l].gen = gen

OrderLoad(l, clears) ==
    /\ running /\ screen = NoRow /\ orders < MaxOrders
    /\ load[l].pc = "idle"
    /\ load' = [load EXCEPT ![l].pc = "begin"]
    /\ listed' = IF clears THEN <<>> ELSE listed
    /\ orders' = orders + 1
    /\ UNCHANGED <<disk, gen, loading, scan, walkDue, event, beat, screen,
                   held, deletion, running, changes>>

\* _begin_sessions_load and collect_session_dirs.
LoadBegins(l) ==
    /\ running /\ load[l].pc = "begin"
    /\ gen' = gen + 1 /\ loading' = TRUE
    /\ load' = [load EXCEPT ![l] = [pc |-> "read", gen |-> gen + 1,
                                    todo |-> Present, rows |-> <<>>]]
    /\ UNCHANGED <<disk, listed, scan, walkDue, event, beat, screen, held,
                   deletion, running, changes, orders>>

\* One round of _build_session_meta_rows: superseded, the load stops; a
\* session that cannot be read any more is passed over.
LoadReads(l) ==
    /\ running /\ load[l].pc = "read" /\ load[l].todo # {}
    /\ LET s == Walked(load[l].todo) IN
         load' = [load EXCEPT ![l] =
             IF ~Current(l) THEN [@ EXCEPT !.pc = "finish"]
             ELSE [@ EXCEPT !.todo = @ \ {s},
                            !.rows = IF s \in Present
                                     THEN Append(@, Row(s, disk[s])) ELSE @]]
    /\ UNCHANGED <<disk, listed, gen, loading, scan, walkDue, event, beat,
                   screen, held, deletion, running, changes, orders>>

\* _apply_session_meta_rows.
LoadApplies(l) ==
    /\ running /\ load[l].pc = "read" /\ load[l].todo = {}
    /\ listed' = IF Current(l) THEN load[l].rows ELSE listed
    /\ load' = [load EXCEPT ![l].pc = "finish"]
    /\ UNCHANGED <<disk, gen, loading, scan, walkDue, event, beat, screen,
                   held, deletion, running, changes, orders>>

\* _finish_sessions_load, on the UI thread.
LoadFinishes(l) ==
    /\ running /\ load[l].pc = "finish"
    /\ loading' = (loading /\ ~Current(l))
    /\ load' = [load EXCEPT ![l] = IdleLoad]
    /\ UNCHANGED <<disk, listed, gen, scan, walkDue, event, beat, screen,
                   held, deletion, running, changes, orders>>

-----------------------------------------------------------------------------
(* The scan after a change: _live_sessions_tick and                         *)
(* _scan_live_sessions_into_table.                                          *)

\* A tick that finds a scan at work, or a session screen open, is dropped.
Tick ==
    /\ running /\ event /\ event' = FALSE
    /\ scan' = IF scan.pc = "idle" /\ screen = NoRow
               THEN [IdleScan EXCEPT !.pc = "start"] ELSE scan
    /\ UNCHANGED <<disk, listed, gen, loading, load, walkDue, beat, screen,
                   held, deletion, running, changes, orders>>

\* Given up while a load is under way, too soon after the last scan, or when
\* the walk is not due or finds nothing.
ScanGivesUp ==
    /\ running /\ scan.pc = "start"
    /\ scan' = IdleScan
    /\ walkDue' \in {walkDue, walkDue /\ (loading \/ Present # {})}
    /\ UNCHANGED <<disk, listed, gen, loading, load, event, beat, screen,
                   held, deletion, running, changes, orders>>

ScanWalks ==
    /\ running /\ scan.pc = "start"
    /\ ~loading /\ walkDue /\ Present # {}
    /\ walkDue' = FALSE
    /\ scan' = [pc |-> "read", rows |-> <<>>, todo |-> Present,
                seen |-> [s \in Keys(listed) |->
                            Last(SelectSeq(listed, LAMBDA r : r.key = s)).status]]
    /\ UNCHANGED <<disk, listed, gen, loading, load, event, beat, screen,
                   held, deletion, running, changes, orders>>

\* A session the list did not have is loaded whole; one that is live, or was
\* live and is not, is read again; any other keeps its row.
Wanted(s) ==
    /\ s \in Present
    /\ s \in DOMAIN scan.seen => disk[s] = "live" \/ scan.seen[s] = "live"

ScanReads ==
    /\ running /\ scan.pc = "read" /\ scan.todo # {}
    /\ LET s == Walked(scan.todo) IN
         scan' = [scan EXCEPT !.todo = @ \ {s},
                              !.rows = IF Wanted(s) THEN Append(@, Row(s, disk[s]))
                                       ELSE @]
    /\ UNCHANGED <<disk, listed, gen, loading, load, walkDue, event, beat,
                   screen, held, deletion, running, changes, orders>>

\* by_key is taken from the list there is when the rows are merged.
Place(rows, s) == SelectLastInSeq(rows, LAMBDA r : r.key = s)

Merged(rows, new) ==
    FoldSeq(LAMBDA r, acc :
              IF Place(acc, r.key) # 0
              THEN [acc EXCEPT ![Place(acc, r.key)] = r]
              ELSE Append(acc, r),
            rows, new)

ScanMerges ==
    /\ running /\ scan.pc = "read" /\ scan.todo = {}
    /\ listed' = Merged(listed, scan.rows)
    /\ scan' = IdleScan
    /\ UNCHANGED <<disk, gen, loading, load, walkDue, event, beat, screen,
                   held, deletion, running, changes, orders>>

-----------------------------------------------------------------------------
(* The heartbeat over rows in progress.                                     *)

LiveRows == SelectSeq(listed, LAMBDA r : r.status = "live")

Beat ==
    /\ running /\ beat.pc = "idle" /\ screen = NoRow /\ LiveRows # <<>>
    /\ beat' = [IdleBeat EXCEPT !.pc = "read", !.todo = LiveRows]
    /\ UNCHANGED <<disk, listed, gen, loading, load, scan, walkDue, event,
                   screen, held, deletion, running, changes, orders>>

\* A session a screen is reading is left to it.  A session that cannot be
\* read ends the loop: nothing catches the error of load_meta.
BeatReads ==
    /\ running /\ beat.pc = "read" /\ beat.todo # <<>>
    /\ LET r == Head(beat.todo) IN
         beat' =
           IF r.key \in held THEN [beat EXCEPT !.todo = Tail(@)]
           ELSE IF r.key \notin Present
           THEN [beat EXCEPT !.pc = "apply", !.failed = TRUE]
           ELSE [beat EXCEPT !.todo = Tail(@),
                             !.ups = IF disk[r.key] = r.status THEN @
                                     ELSE Append(@, Row(r.key, disk[r.key]))]
    /\ UNCHANGED <<disk, listed, gen, loading, load, scan, walkDue, event,
                   screen, held, deletion, running, changes, orders>>

\* The busy flag comes down with the updates, whether the loop ended or
\* failed.  Mutated: only when there is something to update.
BeatOver(b) == b.pc = "apply" \/ b.todo = <<>>
BeatStaysBusy(b) == IF b.ups = <<>> THEN b ELSE IdleBeat
BeatFree(b) == IdleBeat

\* Updates replace rows that are still listed.  An error that left the worker
\* ends the app: a Textual worker is made with exit_on_error.
BeatApplies ==
    /\ running /\ beat.pc \in {"read", "apply"} /\ BeatOver(beat)
    /\ listed' = FoldSeq(LAMBDA r, acc :
                           IF Place(acc, r.key) = 0 THEN acc
                           ELSE [acc EXCEPT ![Place(acc, r.key)] = r],
                         listed, beat.ups)
    /\ beat' = BeatFree(beat)
    /\ running' = ~beat.failed
    /\ UNCHANGED <<disk, gen, loading, load, scan, walkDue, event, screen,
                   held, deletion, changes, orders>>

-----------------------------------------------------------------------------
(* Session screens and deletion.                                            *)

\* _push_browser stops the observer; what it had seen is dropped with it.
OpenScreen(s) ==
    /\ running /\ screen = NoRow /\ orders < MaxOrders
    /\ s \in Keys(listed)
    /\ screen' = s /\ event' = FALSE /\ orders' = orders + 1
    /\ UNCHANGED <<disk, listed, gen, loading, load, scan, walkDue, beat,
                   held, deletion, running, changes>>

CloseScreen ==
    /\ running /\ screen # NoRow
    /\ screen' = NoRow
    /\ UNCHANGED <<disk, listed, gen, loading, load, scan, walkDue, event,
                   beat, held, deletion, running, changes, orders>>

RefreshBegins ==
    /\ running /\ screen # NoRow /\ screen \notin held
    /\ held' = held \cup {screen}
    /\ UNCHANGED <<disk, listed, gen, loading, load, scan, walkDue, event,
                   beat, screen, deletion, running, changes, orders>>

\* It may end after its screen was closed.
RefreshEnds(s) ==
    /\ s \in held
    /\ held' = held \ {s}
    /\ UNCHANGED <<disk, listed, gen, loading, load, scan, walkDue, event,
                   beat, screen, deletion, running, changes, orders>>

OrderDelete(paths) ==
    /\ running /\ screen = NoRow /\ orders < MaxOrders
    /\ deletion.pc = "idle" /\ paths # {} /\ paths \subseteq Keys(listed)
    /\ deletion' = [pc |-> "disk", paths |-> paths]
    /\ orders' = orders + 1
    /\ UNCHANGED <<disk, listed, gen, loading, load, scan, walkDue, event,
                   beat, screen, held, running, changes>>

\* delete_session_dirs: some of them may fail and stay.
Deletes ==
    /\ running /\ deletion.pc = "disk"
    /\ \E gone \in SUBSET deletion.paths :
         disk' = [s \in Rows |-> IF s \in gone THEN "absent" ELSE disk[s]]
    /\ event' = (event \/ screen = NoRow)
    /\ deletion' = [deletion EXCEPT !.pc = "rows"]
    /\ UNCHANGED <<listed, gen, loading, load, scan, walkDue, beat, screen,
                   held, running, changes, orders>>

\* _refresh: every row that was asked for is taken away.
DropsRows ==
    /\ running /\ deletion.pc = "rows"
    /\ listed' = SelectSeq(listed, LAMBDA r : r.key \notin deletion.paths)
    /\ deletion' = IdleDeletion
    /\ UNCHANGED <<disk, gen, loading, load, scan, walkDue, event, beat,
                   screen, held, running, changes, orders>>

-----------------------------------------------------------------------------
LoadSteps(l) == LoadBegins(l) \/ LoadReads(l) \/ LoadApplies(l) \/ LoadFinishes(l)
ScanSteps == ScanGivesUp \/ ScanWalks \/ ScanReads \/ ScanMerges
BeatSteps == BeatReads \/ BeatApplies

OfflineNext ==
    \/ \E s \in Rows : Changes(s) \/ OpenScreen(s) \/ RefreshEnds(s)
    \/ \E l \in Loaders : LoadSteps(l) \/ \E c \in BOOLEAN : OrderLoad(l, c)
    \/ \E paths \in SUBSET Rows : OrderDelete(paths)
    \/ MinutePasses \/ Tick \/ ScanSteps \/ Beat \/ BeatSteps
    \/ CloseScreen \/ RefreshBegins \/ Deletes \/ DropsRows

\* Threads go on once started, timers fire; the user and the harness
\* programs owe nothing.
OfflineFairness ==
    /\ \A l \in Loaders : WF_homeVars(LoadSteps(l))
    /\ WF_homeVars(Tick) /\ WF_homeVars(ScanSteps)
    /\ WF_homeVars(Beat) /\ WF_homeVars(BeatSteps)
    /\ \A s \in Rows : WF_homeVars(RefreshEnds(s))
    /\ WF_homeVars(Deletes) /\ WF_homeVars(DropsRows)

OfflineSpec == OfflineInit /\ [][OfflineNext]_homeVars /\ OfflineFairness

-----------------------------------------------------------------------------
OfflineTypeOK ==
    /\ disk \in [Rows -> {"absent", "live", "settled"}]
    /\ Keys(listed) \subseteq Rows
    /\ \A l \in Loaders : load[l].pc \in {"idle", "begin", "read", "finish"}
                          /\ load[l].gen <= gen /\ load[l].todo \subseteq Rows
    /\ (\A l \in Loaders : load[l].pc = "idle") => ~loading
    /\ DOMAIN scan.seen \subseteq Rows /\ scan.todo \subseteq Rows
    /\ screen \in Rows \cup {NoRow} /\ held \subseteq Rows

\* A row that says its session is in progress when it is not is put right,
\* unless it goes, the session goes on or away, the user stays in a session
\* screen, or the app ends.
ShownLive(s) == \E i \in DOMAIN listed : listed[i] = Row(s, "live")
LiveRowsSettle ==
    \A s \in Rows :
      (ShownLive(s) /\ disk[s] = "settled") ~>
        (~ShownLive(s) \/ disk[s] # "settled" \/ screen # NoRow \/ ~running)
=============================================================================
