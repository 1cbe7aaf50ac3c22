---------------------------- MODULE SessionViews ----------------------------
(***************************************************************************)
(* What the owner answers about one open session, and the caches it keeps  *)
(* of it (anqa/session/control_views.py): session/overview, built by one   *)
(* thread at a time and reused while its input stamp stands                *)
(* (SessionOverview.build), the job rows within it (SessionJobs), and the  *)
(* turns that session/turns and a filtered session/timeline look up        *)
(* (SessionOverview.turn_view).  Every request runs in a thread of its     *)
(* own; the session's files move under it.                                 *)
(*                                                                         *)
(* A file is its version.  A stamp is the versions that were read, one     *)
(* after the other, when it was taken.                                     *)
(***************************************************************************)
EXTENDS Naturals

CONSTANTS
    Threads,   \* worker threads of the owner
    MaxAsks,   \* bound: requests altogether
    MaxMoves,  \* bound: how often each file of the session changes
    Nothing    \* None: of a cache, and of the one who builds

ASSUME ViewsAssumption == Nothing \notin Threads

VARIABLES
    disk,       \* the version of the timeline, the notes, the job files
    overviews,  \* SessionOverview._cache, of this session
    jobRows,    \* SessionJobs._row_cache
    turnViews,  \* SessionOverview._turn_cache
    flight,     \* _inflight: the thread that builds, and how it ended
    asker,      \* the threads
    asks,       \* requests so far
    dropDue     \* a notes write has yet to drop the overview

viewVars == <<disk, overviews, jobRows, turnViews, flight, asker, asks, dropDue>>

Files == {"notes", "jobs", "events"}
Unread == [notes |-> 0, jobs |-> 0, events |-> 0, turns |-> 0]
Idle == [at |-> "idle", asked |-> Unread, stamp |-> Unread, got |-> Unread]
Given(r, got) == [r EXCEPT !.at = "answered", !.stamp = Unread, !.got = got]
Failure == [Idle EXCEPT !.at = "failed"]
NoFlight == [owner |-> Nothing, ended |-> "no"]

Stamping == {"stamp notes", "stamp jobs", "stamp events"}
Checking == {"check notes", "check jobs", "check events"}
Building == {"walk", "read notes", "stamp rows", "read rows"}
Scanning == {"parse", "stamp turns", "view turns"}
Places == Stamping \union Checking \union Building \union Scanning \union
          {"idle", "look", "take", "join", "retry", "store", "resolve",
           "release", "answered", "failed"}

ViewsTypeOK ==
    /\ \A f \in Files : disk[f] \in 1 .. MaxMoves[f] + 1
    /\ flight \in [owner : Threads \union {Nothing}, ended : {"no", "built", "raised"}]
    /\ \A t \in Threads : asker[t].at \in Places
    /\ asks \in 0 .. MaxAsks /\ dropDue \in BOOLEAN

ViewsInit ==
    /\ disk = [f \in Files |-> 1]
    /\ overviews = Nothing /\ jobRows = Nothing /\ turnViews = Nothing
    /\ flight = NoFlight
    /\ asker = [t \in Threads |-> Idle]
    /\ asks = 0 /\ dropDue = FALSE

-----------------------------------------------------------------------------
\* A thread at here reads file into its stamp, or into what it got.
AskerGoes(t, here, there) ==
    /\ asker[t].at = here
    /\ asker' = [asker EXCEPT ![t].at = there]
Stamps(t, here, file, there) ==
    /\ asker[t].at = here
    /\ asker' = [asker EXCEPT ![t].at = there, ![t].stamp[file] = disk[file]]
ReadsInto(t, here, file, there) ==
    /\ asker[t].at = here
    /\ asker' = [asker EXCEPT ![t].at = there, ![t].got[file] = disk[file]]

Asks(t, first) ==
    /\ asker[t].at \in {"idle", "answered", "failed"}
    /\ asks < MaxAsks
    /\ asks' = asks + 1
    /\ asker' = [asker EXCEPT ![t] = [Idle EXCEPT !.at = first,
                                           !.asked = disk]]
    /\ UNCHANGED <<disk, overviews, jobRows, turnViews, flight, dropDue>>
AsksOverview(t) == Asks(t, "stamp notes")
AsksTurns(t) == Asks(t, "parse")

\* input_stamp, before the cache is looked at and again after a build.
TakesStamp(t) ==
    /\ \/ Stamps(t, "stamp notes", "notes", "stamp jobs")
       \/ Stamps(t, "stamp jobs", "jobs", "stamp events")
       \/ Stamps(t, "stamp events", "events", "look")
       \/ Stamps(t, "check notes", "notes", "check jobs")
       \/ Stamps(t, "check jobs", "jobs", "check events")
       \/ Stamps(t, "check events", "events", "store")
    /\ UNCHANGED <<disk, overviews, jobRows, turnViews, flight, asks, dropDue>>

\* Mutated: the overview stands until a notes write drops it.
ReusableAny(t) == overviews # Nothing
SameStamp(s, r) == \A f \in Files : s[f] = r[f]
Reusable(t) ==
    /\ overviews # Nothing
    /\ SameStamp(overviews.stamp, asker[t].stamp)
    /\ overviews.got.notes = asker[t].stamp.notes

\* A cached overview is the answer when every input stands where it stood.
Looks(t) ==
    /\ asker[t].at = "look"
    /\ asker' = IF Reusable(t)
                THEN [asker EXCEPT ![t] = Given(@, overviews.got)]
                ELSE [asker EXCEPT ![t].at = "take"]
    /\ UNCHANGED <<disk, overviews, jobRows, turnViews, flight, asks, dropDue>>

\* The first to come builds, the others wait for it and look again.
After(r, ended) ==
    CASE ended = "no" -> [r EXCEPT !.at = "join", !.stamp = Unread]
      [] ended = "built" -> [r EXCEPT !.at = "retry", !.stamp = Unread]
      [] ended = "raised" -> Failure
TakesFlight(t) ==
    /\ asker[t].at = "take"
    /\ IF flight.owner = Nothing
       THEN /\ flight' = [owner |-> t, ended |-> "no"]
            /\ asker' = [asker EXCEPT ![t].at = "walk", ![t].stamp = Unread]
       ELSE /\ asker' = [asker EXCEPT ![t] = After(@, flight.ended)]
            /\ UNCHANGED flight
    /\ UNCHANGED <<disk, overviews, jobRows, turnViews, asks, dropDue>>
Retries(t) ==
    /\ AskerGoes(t, "retry", "stamp notes")
    /\ UNCHANGED <<disk, overviews, jobRows, turnViews, flight, asks, dropDue>>

\* uncached: the native walk, then the notes, then the job rows.
Walks(t) ==
    /\ \/ ReadsInto(t, "walk", "events", "read notes")
       \/ ReadsInto(t, "read notes", "notes", "stamp rows")
       \/ Stamps(t, "stamp rows", "jobs", "read rows")
    /\ UNCHANGED <<disk, overviews, jobRows, turnViews, flight, asks, dropDue>>
RowsKey(t) == <<asker[t].stamp.jobs, asker[t].got.events>>
ReadsRows(t) ==
    /\ asker[t].at = "read rows"
    /\ LET rows == IF jobRows # Nothing /\ jobRows.key = RowsKey(t)
                   THEN jobRows ELSE [key |-> RowsKey(t), got |-> disk["jobs"]]
       IN /\ jobRows' = rows
          /\ asker' = [asker EXCEPT ![t].at = "check notes", ![t].stamp = Unread,
                                    ![t].got["jobs"] = rows.got]
    /\ UNCHANGED <<disk, overviews, turnViews, flight, asks, dropDue>>

\* The stamp is taken after the build; only the notes are compared with it.
KeepsNotes(t) == asker[t].got.notes = asker[t].stamp.notes
StoresOverview(t) ==
    /\ asker[t].at = "store"
    /\ asker' = [asker EXCEPT ![t].at = "resolve", ![t].stamp = Unread]
    /\ overviews' = IF KeepsNotes(t) THEN [stamp |-> asker[t].stamp, got |-> asker[t].got]
                    ELSE overviews
    /\ UNCHANGED <<disk, jobRows, turnViews, flight, asks, dropDue>>

\* Mutated: a build that fails leaves those who wait for it waiting.
ResolvedBuilt(t, ended) ==
    /\ flight' = [flight EXCEPT !.ended = ended]
    /\ asker' = [u \in Threads |->
                   IF u = t THEN [asker[u] EXCEPT !.at = "release"]
                   ELSE IF asker[u].at = "join" /\ ended = "built" THEN After(asker[u], ended)
                   ELSE asker[u]]
    /\ UNCHANGED <<disk, overviews, jobRows, turnViews, asks, dropDue>>
\* The future is resolved, and whoever waits for it runs on; then the
\* flight leaves the table.
Resolved(t, ended) ==
    /\ flight' = [flight EXCEPT !.ended = ended]
    /\ asker' = [u \in Threads |->
                   IF u = t THEN [asker[u] EXCEPT !.at = "release"]
                   ELSE IF asker[u].at = "join" THEN After(asker[u], ended)
                   ELSE asker[u]]
    /\ UNCHANGED <<disk, overviews, jobRows, turnViews, asks, dropDue>>
Resolves(t) == asker[t].at = "resolve" /\ Resolved(t, "built")
BuildFails(t) == asker[t].at \in Building \union Checking /\ Resolved(t, "raised")
Releases(t) ==
    /\ asker[t].at = "release"
    /\ asker' = [asker EXCEPT ![t] = IF flight.ended = "built" THEN Given(@, @.got) ELSE Failure]
    /\ flight' = NoFlight
    /\ UNCHANGED <<disk, overviews, jobRows, turnViews, asks, dropDue>>

\* session/turns and a filtered session/timeline: parse, then the turns of
\* the stamp that stands by then.
ParsesTurns(t) ==
    /\ \/ ReadsInto(t, "parse", "events", "stamp turns")
       \/ Stamps(t, "stamp turns", "events", "view turns")
    /\ UNCHANGED <<disk, overviews, jobRows, turnViews, flight, asks, dropDue>>
ViewsTurns(t) ==
    /\ asker[t].at = "view turns"
    /\ LET stamp == asker[t].stamp.events
           view == IF turnViews # Nothing /\ turnViews.stamp = stamp THEN turnViews
                   ELSE [stamp |-> stamp, turns |-> asker[t].got.events]
       IN /\ turnViews' = view
          /\ asker' = [asker EXCEPT ![t] = Given(@, [@.got EXCEPT !.turns = view.turns])]
    /\ UNCHANGED <<disk, overviews, jobRows, flight, asks, dropDue>>

-----------------------------------------------------------------------------
\* The agent appends to the session; a job writes its files.
Moves(file) ==
    /\ disk[file] <= MaxMoves[file]
    /\ disk' = [disk EXCEPT ![file] = @ + 1]
    /\ UNCHANGED <<overviews, jobRows, turnViews, flight, asker, asks>>
SessionMoves == \E file \in {"events", "jobs"} : Moves(file) /\ UNCHANGED dropDue
\* A notes write, and _after_notes_write once its answer is sent.
WritesNote == Moves("notes") /\ dropDue' = TRUE
Drops ==
    /\ dropDue
    /\ dropDue' = FALSE /\ overviews' = Nothing
    /\ UNCHANGED <<disk, jobRows, turnViews, flight, asker, asks>>
\* Other sessions push this one out of the caches.
Evicts ==
    /\ \E c \in {1, 2, 3} :
          /\ overviews' = IF c = 1 THEN Nothing ELSE overviews
          /\ jobRows' = IF c = 2 THEN Nothing ELSE jobRows
          /\ turnViews' = IF c = 3 THEN Nothing ELSE turnViews
    /\ UNCHANGED <<disk, flight, asker, asks, dropDue>>

Advances(t) ==
    \/ TakesStamp(t) \/ Looks(t) \/ TakesFlight(t) \/ Retries(t) \/ Walks(t) \/ ReadsRows(t)
    \/ StoresOverview(t) \/ Resolves(t) \/ Releases(t) \/ ParsesTurns(t) \/ ViewsTurns(t)
ViewsNext ==
    \/ \E t \in Threads : AsksOverview(t) \/ AsksTurns(t) \/ Advances(t) \/ BuildFails(t)
    \/ SessionMoves \/ WritesNote \/ Drops \/ Evicts

\* Every thread goes on running while it can.
ViewsSpec == ViewsInit /\ [][ViewsNext]_viewVars
             /\ \A t \in Threads : WF_viewVars(Advances(t))

-----------------------------------------------------------------------------
Answered(t) == asker[t].at \in {"answered", "failed"}
GotOverview(t) == asker[t].at = "answered" /\ asker[t].got.notes > 0

\* An overview never shows notes older than those on disk when it was asked
\* for, whoever built it and whatever was written meanwhile.
OverviewHasTheNotes ==
    \A t \in Threads : GotOverview(t) => asker[t].got.notes >= asker[t].asked.notes

\* No request waits for ever: who builds, fails or joins, the threads all
\* come to rest again and again.
AskersAnswered == []<>(\A t \in Threads : asker[t].at = "idle" \/ Answered(t))
=============================================================================
