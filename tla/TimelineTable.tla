--------------------------- MODULE TimelineTable ----------------------------
(***************************************************************************)
(* The Timeline table of a session screen while the session grows          *)
(* (TimelineTable of anqa/ui/widgets/timeline.py): its event list, the map *)
(* from events to turns that is extended rather than rebuilt when rows are *)
(* appended, and the View filter.                                          *)
(*                                                                         *)
(* A refresh reads the last held row again, then the rows after it         *)
(* (fetch_timeline_growth); the owner stamps each with the turn it is in   *)
(* at that moment, and a row that is not read again keeps its stamp.  The  *)
(* table takes the screen's list over when its tab is in front, which may  *)
(* be several refreshes later.                                             *)
(***************************************************************************)
EXTENDS TurnSegments

CONSTANTS
    EventKinds, Numbers,  \* which events the session may gain
    Stores,               \* what it is kept in: "directory", "file"
    Views,                \* entries of the View select
    MaxEvents             \* bound: length of the session

ASSUME TableAssumption == EventKinds \subseteq Kinds /\ Numbers \subseteq Nat

VARIABLES
    store,     \* how the owner numbers the rows of a page
    session,   \* the session in its store
    timeline,  \* BrowserScreen.timeline: the rows as they were read
    reread,    \* a refresh under way: the last held row read again
    events,    \* TimelineTable.events
    turnBy,    \* _turn_by_index
    view,      \* the View filter
    visible    \* _visible: the events the filter lets through

tableVars == <<store, session, timeline, reread, events, turnBy, view, visible>>

NotRead == [kind |-> "none", n |-> Unnumbered]

TableInit ==
    /\ store \in Stores
    /\ session = <<>> /\ timeline = <<>> /\ reread = NotRead /\ events = <<>>
    /\ turnBy = << >> /\ view = "all" /\ visible = {}

\* session/timeline: the rows of a session directory go out as they were
\* parsed, any other's with the turn event_display_turn_map gives, which has
\* none for a session-level row.
Page(how, tl) ==
    LET parsed == Parsed(tl)
        cut == CutTurns(parsed)
    IN IF how = "directory" THEN parsed
       ELSE [i \in DOMAIN tl |->
                [parsed[i] EXCEPT !.n = IF i \in DOMAIN cut THEN cut[i] ELSE Unnumbered]]

\* event_matches_timeline_kind, for the entries that tell turns apart.
Matches(e, v) ==
    CASE v = "all" -> TRUE
      [] v = "user" -> e.kind = "user"
      [] v = "assistant" -> e.kind = "agent"
      [] v = "session" -> e.kind \in {"system", "started", "ended", "completed", "chrome"}
Visible(evs, v) == {i \in DOMAIN evs : Matches(evs[i], v)}

\* _rebuild_turn_map: the stamps of the rows, each carried over the rows
\* after it that have none; only rows without any stamp are cut here.
StampsBefore(evs, i) == {j \in 1 .. i : evs[j].n # Unnumbered}
TurnMap(evs) ==
    IF StampsBefore(evs, Len(evs)) = {} THEN CutTurns(evs)
    ELSE [i \in {j \in DOMAIN evs : StampsBefore(evs, j) # {}} |->
             evs[Max(StampsBefore(evs, i))].n]

\* _extend_turn_map_from: a tail with a boundary in it has the map rebuilt;
\* any other inherits the turn of the row before it, whatever its stamps.
\* Mutated: a start is not taken for a boundary.
BoundaryNoStart(e) == IsEnd(e) \/ e.kind = "user"
Boundary(e) == IsStart(e) \/ IsEnd(e) \/ e.kind = "user"
Extended(map, evs, from) ==
    LET tail == (from + 1) .. Len(evs)
    IN IF \/ from \notin DOMAIN map
          \/ \E i \in tail : Boundary(evs[i])
       THEN TurnMap(evs)
       ELSE [i \in DOMAIN map \union {j \in tail : ~SessionLevel(evs[j])} |->
                IF i \in DOMAIN map THEN map[i] ELSE map[from]]

\* The session gains an event.  The log that has "turn ended" has the start
\* before it.
Gains ==
    /\ Len(session) < MaxEvents
    /\ \E e \in Logged(EventKinds, Numbers) :
          /\ e.kind = "ended" => \E i \in DOMAIN session : IsStart(session[i])
          /\ session' = Append(session, e)
    /\ UNCHANGED <<store, timeline, reread, events, turnBy, view, visible>>

\* The screen opens: the first page.
Opens ==
    /\ timeline = <<>> /\ session # <<>>
    /\ timeline' = Page(store, session)
    /\ UNCHANGED <<store, session, reread, events, turnBy, view, visible>>

\* A refresh reads the last held row, then what is after it: nothing, when
\* the overview it goes by had no more.
ReadsLast ==
    /\ timeline # <<>> /\ reread = NotRead
    /\ reread' = Page(store, session)[Len(timeline)]
    /\ UNCHANGED <<store, session, timeline, events, turnBy, view, visible>>
ReadsTail ==
    /\ reread # NotRead
    /\ LET held == Len(timeline)
       IN \E upTo \in {held, Len(session)} :
             timeline' = [timeline EXCEPT ![held] = reread]
                            \o SubSeq(Page(store, session), held + 1, upTo)
    /\ reread' = NotRead
    /\ UNCHANGED <<store, session, events, turnBy, view, visible>>

\* load_events.  With nothing painted everything is rebuilt; rows that were
\* only read again leave the map alone; rows that came extend it.
Loads ==
    /\ timeline # events
    /\ events' = timeline
    /\ visible' = Visible(timeline, view)
    /\ turnBy' = IF visible = {} THEN TurnMap(timeline)
                 ELSE IF Len(timeline) = Len(events) THEN turnBy
                 ELSE Extended(turnBy, timeline, Len(events))
    /\ UNCHANGED <<store, session, timeline, reread, view>>

\* apply_filter.
Filters ==
    \E v \in Views \ {view} :
       /\ view' = v
       /\ visible' = Visible(events, v)
       /\ UNCHANGED <<store, session, timeline, reread, events, turnBy>>

TableNext == Gains \/ Opens \/ ReadsLast \/ ReadsTail \/ Loads \/ Filters
TableSpec == TableInit /\ [][TableNext]_tableVars

-----------------------------------------------------------------------------
TableTypeOK ==
    /\ session \in Seq(Logged(EventKinds, Numbers))
    /\ Len(events) <= Len(timeline) /\ Len(timeline) <= Len(session)
    /\ view \in Views /\ visible \subseteq DOMAIN events
    /\ Range(turnBy) \subseteq Nat

\* Cutting loses nothing and doubles nothing: whatever starts and ends are
\* missing or late, every event of a turn is in one segment.
EveryEventInOneTurn == Partition(timeline)

\* "Owner stamps win": although a tail takes the turn of the row before it
\* and its own stamps are never looked at, a row has the turn the owner
\* stamped it with.  Not so the last row, which is read again while the map
\* stays, and session-level rows, which get a turn from a rebuild and none
\* from an extension.
OwnerStampsWin ==
    \A i \in 1 .. Len(events) - 1 :
        ~SessionLevel(events[i]) => i \in DOMAIN turnBy /\ turnBy[i] = events[i].n
=============================================================================
