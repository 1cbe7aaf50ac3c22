------------------------------ MODULE HomeList ------------------------------
(***************************************************************************)
(* The home list of an attached terminal interface: the debounced reloads, *)
(* the load threads with their generations, delta polls and page fills     *)
(* (_load_sessions, _load_sessions_via_control and                         *)
(* _fill_remaining_catalog_pages of anqa/ui/app.py), the search box and    *)
(* its one pass (_run_session_search), the drain of                        *)
(* ControlClient.session_list_all, and a delete.                           *)
(*                                                                         *)
(* The UI thread handles keys, timers, notifications and the callbacks of  *)
(* call_ui; loads and the search pass are threads.  An exclusive worker    *)
(* that is replaced runs on: a thread is not stopped.  The owner is the    *)
(* abstract one: a revision, and for each session the revision that last   *)
(* touched it.                                                             *)
(***************************************************************************)
EXTENDS Naturals, Sequences, FiniteSets, Ranks

CONSTANTS
    Sessions,    \* session ids, numbers
    Hits,        \* those the query matches
    Extra,       \* those the owner lists only later
    PageSize,    \* DEFAULT_SESSION_LIST_LIMIT
    Loaders,     \* load threads that may run at the same time
    Acts,        \* what may happen: touch, drop, gap, type, reload, delete, fail
    MaxActs      \* bound: how often something happens

ASSUME SessionsAssumption == IsFiniteSet(Sessions)
ASSUME HitsAssumption == Sessions \subseteq Nat /\ Hits \subseteq Sessions /\ Extra \subseteq Sessions
ASSUME PageAssumption == PageSize \in Nat \ {0}

VARIABLES
    rev, touched, listed, floor,   \* the owner: revision, last touches, who is
                                   \* listed, and the oldest revision it has a delta from
    notice,      \* a session/changed with listChanged is on its way
    box, applied, debounce,        \* the search box, the query committed, its idle gap
    flight, pass,                  \* SearchFlight, and the thread of _run_session_search
    rows,        \* _meta_only: a sequence of [id, ver]
    table,       \* what is painted of it
    revision,    \* _catalog_revision
    slice,       \* _catalog_query_slice
    gen, busy,   \* _sessions_load_gen, _sessions_catalog_busy
    timer,       \* the pending reload: "none", "quiet" or "loud"
    load,        \* the load threads
    deleting,    \* sessions whose delete is answered and whose rows are still held
    acts,        \* how much has happened
    torn,        \* a load was overtaken or a page moved: rows may lack something
                 \* that no later delta brings
    veiled       \* a list that is not the hits of the query committed is painted
                 \* through that query

ownerVars == <<rev, touched, listed, floor>>
searchVars == <<box, applied, debounce, flight, pass>>
paintVars == <<table, veiled>>
homeVars == <<ownerVars, notice, searchVars, rows, paintVars, revision, slice, gen, busy, timer,
              load, deleting, acts, torn>>

-----------------------------------------------------------------------------
(* What the owner answers.                                                 *)

Matches(s, q) == q = "" \/ s \in Hits

\* Newest first.
Newest(ids) ==
    LET newer == {p \in ids \X ids : \/ touched[p[1]] > touched[p[2]]
                                    \/ (touched[p[1]] = touched[p[2]] /\ p[1] < p[2])}
        order == Ranked(ids, newer)
    IN [i \in 1 .. Cardinality(ids) |-> [id |-> order[i], ver |-> touched[order[i]]]]
Listing(q) == Newest({s \in listed : Matches(s, q)})
PageAt(q, off) ==
    LET all == Listing(q)
    IN SubSeq(all, off + 1, IF off + PageSize < Len(all) THEN off + PageSize ELSE Len(all))

\* Mutated: the last row is not waited for.
NextOffsetShort(off, batch, matched) ==
    IF batch < PageSize \/ off + batch + 1 >= matched THEN 0 ELSE off + batch
\* catalog_list_next_offset, 0 when the list is done.
NextOffset(off, batch, matched) ==
    IF batch < PageSize \/ off + batch >= matched THEN 0 ELSE off + batch

Upserted(since) == Newest({s \in listed : touched[s] > since})
Removed(since) == {s \in Sessions \ listed : touched[s] > since}

Without(rs, ids) == Picked(rs, {i \in DOMAIN rs : rs[i].id \notin ids})

\* _merge_control_catalog_rows: a known row is replaced in its last place, the
\* others are appended.  What comes in has each session once.
RowIds(rs) == {rs[i].id : i \in DOMAIN rs}
LastOf(rs, i) == \A j \in DOMAIN rs : j > i => rs[j].id # rs[i].id
RowOf(rs, s) == rs[CHOOSE i \in DOMAIN rs : rs[i].id = s]
Merged(held, incoming, removed) ==
    LET kept == Without(held, removed)
    IN [i \in DOMAIN kept |->
           IF kept[i].id \in RowIds(incoming) /\ LastOf(kept, i) THEN RowOf(incoming, kept[i].id)
           ELSE kept[i]]
       \o Without(incoming, RowIds(kept))

\* _filtered_session_rows: the first of the rows of a session counts.
FirstOf(rs, s) ==
    CHOOSE i \in DOMAIN rs : rs[i].id = s /\ \A j \in DOMAIN rs : rs[j].id = s => i <= j
Shown(rs, q) ==
    [s \in Sessions |-> IF s \in RowIds(rs) /\ Matches(s, q) THEN rs[FirstOf(rs, s)].ver ELSE 0]

\* _populate_session_table: rs are painted through the query committed, be they
\* its hits or not.
Populates(rs, hits) == table' = Shown(rs, applied) /\ veiled' = (applied # "" /\ ~hits)

-----------------------------------------------------------------------------
(* The owner's list moves, and says so.                                    *)

Act(a) == a \in Acts /\ acts < MaxActs /\ acts' = acts + 1

Changed(s, there) ==
    /\ rev' = rev + 1
    /\ touched' = [touched EXCEPT ![s] = rev + 1]
    /\ listed' = IF there THEN listed \union {s} ELSE listed \ {s}
    /\ notice' = TRUE
    /\ UNCHANGED <<searchVars, rows, paintVars, revision, slice, gen, busy, timer, load, deleting,
                   torn>>

OwnerTouches(s) == Act("touch") /\ Changed(s, TRUE) /\ UNCHANGED floor
OwnerDrops(s) == s \in listed /\ Act("drop") /\ Changed(s, FALSE) /\ UNCHANGED floor
\* A change the log of deltas does not reach across.
OwnerGaps(s) == Act("gap") /\ Changed(s, TRUE) /\ floor' = rev + 1

-----------------------------------------------------------------------------
(* Reloads: a notification, F5, the debounce.                              *)

\* A later loud request wins.
TimerAfter(quiet) == IF quiet /\ timer # "loud" THEN "quiet" ELSE "loud"

NoLoad == [pc |-> "none", gen |-> 0, quiet |-> TRUE, since |-> 0, delta |-> FALSE, query |-> "",
           off |-> 0, got |-> <<>>, gone |-> {}, base |-> <<>>, rev |-> 0, shift |-> FALSE]
LoaderFree(l) == load[l].pc = "none"

\* @work starts a thread of its own for each call.
StartsLoad(quiet) ==
    \E l \in Loaders : LoaderFree(l) /\ load' = [load EXCEPT ![l] = [NoLoad EXCEPT !.pc = "begin", !.quiet = quiet]]

Hear ==
    /\ notice /\ notice' = FALSE
    /\ timer' = TimerAfter(TRUE)
    /\ UNCHANGED <<ownerVars, searchVars, rows, paintVars, revision, slice, gen, busy, load,
                   deleting, acts, torn>>

RefreshSessionsList ==
    /\ Act("reload")
    /\ timer' = TimerAfter(FALSE)
    /\ UNCHANGED <<ownerVars, notice, searchVars, rows, paintVars, revision, slice, gen, busy, load,
                   deleting, torn>>

FireReload ==
    /\ timer # "none" /\ timer' = "none"
    /\ StartsLoad(timer = "quiet")
    /\ UNCHANGED <<ownerVars, notice, searchVars, rows, paintVars, revision, slice, gen, busy,
                   deleting, acts, torn>>

-----------------------------------------------------------------------------
(* The search box.                                                         *)

Request(fl) ==
    IF fl.inflight THEN [fl EXCEPT !.again = TRUE] ELSE [fl EXCEPT !.inflight = TRUE, !.again = FALSE]
NoPass == [pc |-> "none", gen |-> 0, query |-> "", off |-> 0, got |-> <<>>, rev |-> 0, shift |-> FALSE]
PassStarts(fl) == pass' = IF fl.inflight THEN pass ELSE [NoPass EXCEPT !.pc = "start"]

SearchChanges ==
    /\ Act("type")
    /\ box' = IF box = "" THEN "q" ELSE ""
    /\ debounce' = TRUE
    /\ UNCHANGED <<ownerVars, notice, applied, flight, pass, rows, paintVars, revision, slice, gen,
                   busy, timer, load, deleting, torn>>

\* _apply_debounced_session_search: a query has a pass, an empty box a load.
ApplySearch ==
    LET bumped == [flight EXCEPT !.gen = @ + 1]
    IN /\ debounce /\ debounce' = FALSE
       /\ applied' = box
       /\ IF box # ""
          THEN flight' = Request(bumped) /\ PassStarts(bumped) /\ UNCHANGED load
          ELSE flight' = bumped /\ StartsLoad(TRUE) /\ UNCHANGED pass
       /\ UNCHANGED <<ownerVars, notice, box, rows, paintVars, revision, slice, gen, busy, timer,
                      deleting, acts, torn>>

PassGoes(from, p) == pass.pc = from /\ pass' = p

PassReads ==
    /\ PassGoes("start", [NoPass EXCEPT !.pc = IF applied = "" THEN "done" ELSE "drain",
                                       !.gen = flight.gen, !.query = applied])
    /\ flight' = [flight EXCEPT !.again = FALSE]
    /\ UNCHANGED <<ownerVars, notice, box, applied, debounce, rows, paintVars, revision, slice, gen,
                   busy, timer, load, deleting, acts, torn>>

\* session_list_all: a page at a time, until matched or the list stalls.
Stalls(d, batch) == d.off # 0 /\ batch # <<>> /\ batch[1].id = d.got[1].id
Drained(d, next) ==
    LET batch == PageAt(d.query, d.off)
        stop == batch = <<>> \/ Stalls(d, batch)
        nxt == IF stop THEN 0 ELSE NextOffset(d.off, Len(batch), Len(Listing(d.query)))
    IN [d EXCEPT !.pc = IF nxt = 0 THEN next ELSE @, !.off = nxt, !.rev = rev,
                 !.got = IF stop THEN @ ELSE @ \o batch,
                 !.shift = @ \/ (d.off # 0 /\ d.rev # rev)]

PassDrains ==
    /\ PassGoes("drain", Drained(pass, "apply"))
    /\ UNCHANGED <<ownerVars, notice, box, applied, debounce, flight, rows, paintVars, revision,
                   slice, gen, busy, timer, load, deleting, acts, torn>>

\* What other loads have installed is replaced under them.
Overtaken(ld, others) ==
    [k \in Loaders |-> [ld[k] EXCEPT !.shift =
        @ \/ (k \in others /\ ld[k].pc \in {"paint", "fill", "fillapply", "fillpaint"})]]

\* _apply on the UI thread; the loop looks at the generation before and after.
PassApplies ==
    /\ IF pass.gen = flight.gen
       THEN /\ PassGoes("apply", [NoPass EXCEPT !.pc = "done"])
            /\ rows' = pass.got /\ slice' = TRUE /\ revision' = pass.rev
            /\ Populates(pass.got, TRUE)
            /\ torn' = pass.shift
            /\ load' = Overtaken(load, Loaders)
       ELSE /\ PassGoes("apply", [NoPass EXCEPT !.pc = "start"])
            /\ UNCHANGED <<rows, slice, revision, table, torn, veiled, load>>
    /\ UNCHANGED <<ownerVars, notice, box, applied, debounce, flight, gen, busy, timer, deleting,
                   acts>>

PassFails ==
    /\ Act("fail") /\ PassGoes("drain", [NoPass EXCEPT !.pc = "done"])
    /\ torn' = TRUE
    /\ UNCHANGED <<ownerVars, notice, box, applied, debounce, flight, rows, paintVars, revision,
                   slice, gen, busy, timer, load, deleting>>

\* Mutated: finish leaves inflight set.
PassEndsInflight ==
    LET again == flight.again /\ applied # ""
    IN /\ PassGoes("done", IF again THEN [NoPass EXCEPT !.pc = "start"] ELSE NoPass)
       /\ flight' = [flight EXCEPT !.again = FALSE]
       /\ UNCHANGED <<ownerVars, notice, box, applied, debounce, rows, paintVars, revision, slice,
                      gen, busy, timer, load, deleting, acts, torn>>
\* _done: once more if asked, and the box still holds a query.
PassEnds ==
    LET again == flight.again /\ applied # ""
    IN /\ PassGoes("done", IF again THEN [NoPass EXCEPT !.pc = "start"] ELSE NoPass)
       /\ flight' = [flight EXCEPT !.inflight = again, !.again = FALSE]
       /\ UNCHANGED <<ownerVars, notice, box, applied, debounce, rows, paintVars, revision, slice,
                      gen, busy, timer, load, deleting, acts, torn>>

-----------------------------------------------------------------------------
(* A load.                                                                 *)

Goes(l, from, r) == load[l].pc = from /\ load' = [load EXCEPT ![l] = r]
Is(l, from) == load[l].pc = from
Current(l) == load[l].gen = gen
At(l, pc) == [load[l] EXCEPT !.pc = pc]
Over(l) == [NoLoad EXCEPT !.pc = "finish", !.gen = load[l].gen]

\* _begin_sessions_load.  With a query committed the search is run again.
ListLoadBegins(l) ==
    /\ Goes(l, "begin", [At(l, IF applied # "" THEN "refresh" ELSE "ask") EXCEPT !.gen = gen + 1])
    /\ gen' = gen + 1 /\ busy' = TRUE
    /\ UNCHANGED <<ownerVars, notice, searchVars, rows, paintVars, revision, slice, timer, deleting,
                   acts, torn>>

\* _refresh_session_search on the UI thread.  A pass in flight is only told
\* that it is out of date: one that has looked for the last time is not.
LoadRefreshes(l) ==
    LET bumped == [flight EXCEPT !.gen = @ + 1]
    IN /\ Goes(l, "refresh", Over(l))
       /\ IF flight.inflight \/ applied = "" THEN flight' = bumped /\ UNCHANGED pass
          ELSE flight' = Request(bumped) /\ PassStarts(bumped)
       /\ torn' = (torn \/ pass.pc = "done")
       /\ UNCHANGED <<ownerVars, notice, box, applied, debounce, rows, paintVars, revision, slice,
                      gen, busy, timer, deleting, acts>>

\* Mutated: rows that are the hits of a query are polled for like a whole list.
UseDeltaOfSlice(l, q) == load[l].quiet /\ revision > 0 /\ q = ""
UseDelta(l, q) == load[l].quiet /\ revision > 0 /\ q = "" /\ ~slice

LoadAsksList(l) ==
    /\ Goes(l, "ask", [load[l] EXCEPT !.query = applied, !.since = revision,
                                      !.delta = UseDelta(l, applied),
                                      !.pc = IF applied # "" THEN "drain" ELSE "reply"])
    /\ UNCHANGED <<ownerVars, notice, searchVars, rows, paintVars, revision, slice, gen, busy,
                   timer, deleting, acts, torn>>

\* Unchanged, and nothing is painted again; a delta; no delta, which asks for the
\* whole list instead; or the first page.
LoadReplies(l) ==
    LET d == load[l]
    IN /\ Goes(l, "reply",
             IF d.delta /\ d.since = rev THEN Over(l)
             ELSE IF d.delta /\ d.since >= floor
                  THEN [At(l, "store") EXCEPT !.got = Upserted(d.since), !.gone = Removed(d.since), !.rev = rev]
             ELSE IF d.delta THEN IF Current(l) THEN [At(l, "drain") EXCEPT !.delta = FALSE] ELSE Over(l)
             ELSE [At(l, "store") EXCEPT !.got = PageAt("", 0), !.rev = rev,
                                         !.off = NextOffset(0, Len(PageAt("", 0)), Len(Listing("")))])
       /\ UNCHANGED <<ownerVars, notice, searchVars, rows, paintVars, revision, slice, gen, busy,
                      timer, deleting, acts, torn>>

LoadDrains(l) ==
    /\ Goes(l, "drain", Drained(load[l], "store"))
    /\ UNCHANGED <<ownerVars, notice, searchVars, rows, paintVars, revision, slice, gen, busy,
                   timer, deleting, acts, torn>>

\* The revision is kept before the rows are: a delta is merged into the rows
\* as they are now, for a while.
LoadStores(l) ==
    LET d == load[l]
    IN /\ Goes(l, "store",
             IF ~Current(l) THEN Over(l)
             ELSE IF d.delta THEN [At(l, "apply") EXCEPT !.base = rows,
                                       !.got = Merged(rows, d.got, d.gone), !.gone = {}]
             ELSE At(l, "apply"))
       /\ revision' = IF Current(l) THEN d.rev ELSE revision
       /\ UNCHANGED <<ownerVars, notice, searchVars, rows, paintVars, slice, gen, busy, timer,
                      deleting, acts, torn>>

\* _apply_session_meta_rows.
LoadApplies(l) ==
    LET d == load[l]
    IN /\ Is(l, "apply")
       /\ IF Current(l)
          THEN /\ rows' = d.got
               /\ load' = Overtaken([load EXCEPT ![l] = [d EXCEPT !.pc = "paint", !.base = <<>>]],
                                     Loaders \ {l})
               /\ torn' = IF d.delta THEN torn \/ rows # d.base \/ revision # d.rev
                          ELSE d.shift \/ d.off # 0 \/ revision # d.rev
          ELSE torn' = TRUE /\ load' = [load EXCEPT ![l] = Over(l)] /\ UNCHANGED rows
       /\ UNCHANGED <<ownerVars, notice, searchVars, paintVars, revision, slice, gen, busy, timer,
                      deleting, acts>>

LoadShows(l) ==
    LET d == load[l]
    IN /\ Goes(l, "paint", IF d.off # 0 THEN At(l, "fill") ELSE Over(l))
       /\ slice' = IF d.delta THEN slice ELSE d.query # ""
       /\ Populates(rows, slice')
       /\ torn' = (torn \/ (~d.delta /\ (d.shift \/ ~Current(l) \/ rows # d.got)))
       /\ UNCHANGED <<ownerVars, notice, searchVars, rows, revision, gen, busy, timer, deleting,
                      acts>>

\* _fill_remaining_catalog_pages: the later pages, one by one, each merged into
\* the rows as they are once it has come.
LoadFills(l) ==
    LET d == load[l]
        page == PageAt("", d.off)
    IN /\ Goes(l, "fill",
             IF ~Current(l) \/ page = <<>> THEN Over(l)
             ELSE [At(l, "fillmerge") EXCEPT !.base = rows, !.got = page,
                       !.off = NextOffset(d.off, Len(page), Len(Listing(""))),
                       !.shift = @ \/ d.rev # rev \/ rows # d.got, !.rev = rev])
       /\ UNCHANGED <<ownerVars, notice, searchVars, rows, paintVars, revision, slice, gen, busy,
                      timer, deleting, acts, torn>>

LoadFillMerges(l) ==
    LET d == load[l]
    IN /\ Goes(l, "fillmerge",
             [At(l, "fillapply") EXCEPT !.base = rows, !.got = Merged(rows, d.got, {}),
                                        !.shift = @ \/ rows # d.base])
       /\ UNCHANGED <<ownerVars, notice, searchVars, rows, paintVars, revision, slice, gen, busy,
                      timer, deleting, acts, torn>>

LoadFillApplies(l) ==
    LET d == load[l]
    IN /\ Goes(l, "fillapply",
             IF ~Current(l) THEN Over(l)
             ELSE [At(l, "fillpaint") EXCEPT !.base = <<>>, !.shift = @ \/ rows # d.base])
       /\ rows' = IF Current(l) THEN d.got ELSE rows
       /\ UNCHANGED <<ownerVars, notice, searchVars, paintVars, revision, slice, gen, busy, timer,
                      deleting, acts, torn>>

\* The last page's revision is the one kept.
LoadFillPaints(l) ==
    LET d == load[l]
        kept == ~d.shift /\ rows = d.got /\ revision <= d.rev /\ Current(l)
    IN /\ Goes(l, "fillpaint", IF d.off = 0 THEN Over(l)
             ELSE [At(l, "fill") EXCEPT !.shift = ~kept])
       /\ Populates(rows, slice)
       /\ revision' = d.rev
       /\ torn' = (~kept \/ (torn /\ d.off # 0))
       /\ UNCHANGED <<ownerVars, notice, searchVars, rows, slice, gen, busy, timer, deleting, acts>>

\* An answer that does not come ends the load.
LoadFails(l) ==
    /\ Act("fail")
    /\ load[l].pc \in {"reply", "drain", "fill"} /\ Goes(l, load[l].pc, Over(l))
    /\ torn' = TRUE
    /\ UNCHANGED <<ownerVars, notice, searchVars, rows, paintVars, revision, slice, gen, busy,
                   timer, deleting>>

\* _finish_sessions_load.
Finished(l) == busy /\ ~Current(l)

LoadEnds(l) ==
    /\ Goes(l, "finish", NoLoad)
    /\ busy' = Finished(l)
    /\ UNCHANGED <<ownerVars, notice, searchVars, rows, paintVars, revision, slice, gen, timer,
                   deleting, acts, torn>>

\* _do_delete_sessions: session/delete, which the owner may refuse ...
DeleteAsks(s) ==
    /\ Act("delete") /\ table[s] # 0 /\ s \notin deleting
    /\ deleting' = deleting \union {s}
    /\ \/ /\ s \in listed
          /\ rev' = rev + 1 /\ listed' = listed \ {s}
          /\ touched' = [touched EXCEPT ![s] = rev + 1]
          /\ notice' = TRUE /\ UNCHANGED floor
       \/ UNCHANGED <<ownerVars, notice>>
    /\ UNCHANGED <<searchVars, rows, paintVars, revision, slice, gen, busy, timer, load, torn>>

\* ... and then _refresh on the UI thread, which drops the row whatever came of
\* it, and may drop one that the owner lists (again).
DeleteDrops(s) ==
    /\ s \in deleting /\ deleting' = deleting \ {s}
    /\ rows' = Without(rows, {s})
    /\ Populates(rows', slice)
    /\ torn' = (torn \/ s \in listed)
    /\ UNCHANGED <<ownerVars, notice, searchVars, revision, slice, gen, busy, timer, load, acts>>

-----------------------------------------------------------------------------
\* Attached, nothing listed yet: on_mount's load and the one after the attach.
HomeInit ==
    /\ rev = 1 /\ touched = [s \in Sessions |-> IF s \in Extra THEN 0 ELSE 1]
    /\ listed = Sessions \ Extra /\ floor = 1
    /\ notice = FALSE
    /\ box = "" /\ applied = "" /\ debounce = FALSE
    /\ flight = [gen |-> 0, inflight |-> FALSE, again |-> FALSE] /\ pass = NoPass
    /\ rows = <<>> /\ table = [s \in Sessions |-> 0]
    /\ revision = 0 /\ slice = FALSE /\ gen = 0 /\ busy = FALSE
    /\ timer = "quiet" /\ load = [l \in Loaders |-> NoLoad]
    /\ deleting = {} /\ acts = 0 /\ torn = FALSE /\ veiled = FALSE

PassStep == PassReads \/ PassDrains \/ PassApplies \/ PassEnds
LoadStep(l) ==
    \/ ListLoadBegins(l) \/ LoadRefreshes(l) \/ LoadAsksList(l) \/ LoadReplies(l)
    \/ LoadDrains(l) \/ LoadStores(l) \/ LoadApplies(l) \/ LoadShows(l)
    \/ LoadFills(l) \/ LoadFillMerges(l) \/ LoadFillApplies(l) \/ LoadFillPaints(l) \/ LoadEnds(l)
HomeStep ==
    \/ Hear \/ FireReload \/ ApplySearch \/ PassStep
    \/ \E l \in Loaders : LoadStep(l)
    \/ \E s \in Sessions : DeleteDrops(s)

HomeNext ==
    \/ HomeStep
    \/ \E s \in Sessions : OwnerTouches(s) \/ OwnerDrops(s) \/ OwnerGaps(s) \/ DeleteAsks(s)
    \/ RefreshSessionsList \/ SearchChanges \/ PassFails
    \/ \E l \in Loaders : LoadFails(l)

\* Threads run and the loop turns; what the owner and the operator do is
\* bounded, so weak fairness of the whole reaches the end of each.
HomeSpec == HomeInit /\ [][HomeNext]_homeVars /\ WF_homeVars(HomeStep)

-----------------------------------------------------------------------------
Quiet ==
    /\ ~notice /\ ~debounce /\ timer = "none" /\ pass.pc = "none"
    /\ (\A l \in Loaders : LoaderFree(l)) /\ deleting = {}

Wanted == [s \in Sessions |-> IF s \in listed /\ Matches(s, applied) THEN touched[s] ELSE 0]

HomeTypeOK ==
    /\ rows \in Seq([id : Sessions, ver : 1 .. MaxActs + 1])
    /\ table \in [Sessions -> 0 .. MaxActs + 1]
    /\ revision \in 0 .. rev /\ gen \in Nat
    /\ flight.inflight <=> pass.pc # "none"
    /\ flight.again => flight.inflight
    /\ deleting \subseteq Sessions /\ veiled \in BOOLEAN

\* The spinner and the live scan go by busy: it is set exactly while the
\* newest load runs, whichever loads end before or after it.
BusyIsNewest == busy <=> \E l \in Loaders : load[l].pc \notin {"none", "begin"} /\ Current(l)

\* However reloads, queries, fills and deletions overlap, once the owner and the
\* operator rest the table shows what the owner lists under the query, unless
\* an overtaken load took with it what no later delta brings (torn).  One paint
\* may stay behind its rows: a whole list that was painted through a query, when
\* the query is cleared before its own pass has painted (veiled).
HomeCatchesUp ==
    <>[](Quiet /\ (\/ torn \/ table = Wanted
                  \/ (veiled /\ applied = "" /\ Shown(rows, "") = Wanted)))

\* A delta brings what came after the revision kept, and nothing else: so the
\* rows must hold everything up to it, as they are or in the hands of a load
\* about to install them, unless they are torn or the hits of a query.
RevisionIsCovered ==
    \/ torn \/ slice \/ \E l \in Loaders : load[l].pc \in {"apply", "paint"}
    \/ \A s \in Sessions : touched[s] <= revision =>
          Shown(rows, "")[s] = IF s \in listed THEN touched[s] ELSE 0

=============================================================================
