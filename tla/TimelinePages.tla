--------------------------- MODULE TimelinePages ----------------------------
(***************************************************************************)
(* The Timeline of an attached session screen, a page at a time: the turn  *)
(* and search filters with the one pass that may be in flight for them     *)
(* (SearchFlight and SearchDebounce of anqa/ui/search.py,                  *)
(* _start_control_timeline_scope of anqa/ui/screens/browser.py), the       *)
(* threads that append the next page as the cursor nears the end, the      *)
(* growth a light refresh appends, and what the owner answers              *)
(* (SessionTimeline of anqa/session/control_views.py).                     *)
(*                                                                         *)
(* An event is its index.  The UI thread handles keys, timers and posted   *)
(* callbacks; the pass, each fill and the growth run in threads of their   *)
(* own, between whose steps any of the others may come.                    *)
(***************************************************************************)
EXTENDS Naturals, SequencesExt

CONSTANTS
    TurnOf,      \* the turn of each event the session may come to have
    Prompted,    \* turns that carry the store's prompt index
    Hits,        \* events the query matches
    PageSize,    \* TIMELINE_RPC_LIMIT
    FirstTotal,  \* events when the screen opens
    Fillers,     \* threads that may fill at the same time
    MaxEdits     \* bound: how often the operator changes a filter

ASSUME TurnsAssumption ==
    TurnOf \in Seq(Nat) /\ Prompted \subseteq Range(TurnOf) /\ Hits \subseteq DOMAIN TurnOf
ASSUME PagesAssumption == PageSize \in Nat \ {0} /\ FirstTotal \in 1 .. Len(TurnOf)

VARIABLES
    total,     \* events in the owner's timeline
    filter,    \* _turn_filter (0 for all) and whether the box holds the query
    edits,     \* changes of a filter so far
    typing,    \* the search debounce is armed
    flight,    \* SearchFlight
    pass,      \* the pass thread: where it is, its gen, what it asks
    rows,      \* self.timeline
    known,     \* _timeline_owner_total
    complete,  \* _timeline_events_complete
    busy,      \* _timeline_fill_busy
    fill,      \* the fill threads
    growth,    \* the light job's fetch of what was added
    scope,     \* the filter whose first page rows began with
    mixed,     \* rows were joined that do not belong together
    missed     \* the last pass failed

uiVars == <<filter, edits, typing, flight>>
rowVars == <<rows, known, complete, scope, mixed>>
timelineVars == <<total, uiVars, pass, rowVars, busy, fill, growth, missed>>

Turns == Range(TurnOf)
Everything == [turn |-> 0, query |-> FALSE]

\* _control_timeline_window: a turn without a prompt index has only the
\* place where it begins.
Begins(t) ==
    CHOOSE i \in DOMAIN TurnOf : TurnOf[i] = t /\ \A j \in 1 .. i - 1 : TurnOf[j] # t
BaseOf(f) == IF f.turn \in {0} \union Prompted THEN 0 ELSE Begins(f.turn) - 1
PromptOf(f) == IF f.turn \in Prompted THEN f.turn ELSE 0

\* The owner's answer: the events that match, in their order, then the page
\* of those.
Matching(f, n) ==
    {i \in 1 .. n : /\ PromptOf(f) = 0 \/ TurnOf[i] = PromptOf(f)
                    /\ f.query => i \in Hits}
PlaceOf(f, i) == Cardinality(Matching(f, i))
Listed(f, n) ==
    [k \in 1 .. PlaceOf(f, n) |-> CHOOSE i \in Matching(f, n) : PlaceOf(f, i) = k]
PageAt(all, off) ==
    SubSeq(all, off + 1, IF off + PageSize < Len(all) THEN off + PageSize ELSE Len(all))
PageFrom(f, off, n) == PageAt(Listed(f, n), off)

\* Mutated: where the turn begins is forgotten after its first page.
FillOffsetNoBase(f, held) == held
\* timeline_fill_offset: a filtered list is paged from its own start.
FillOffset(f, held) ==
    IF PromptOf(f) # 0 \/ f.query THEN held ELSE BaseOf(f) + held

-----------------------------------------------------------------------------
(* The filters and the pass that fetches for them.                         *)

\* Mutated: while a pass runs, a newer query is not noted.
RequestIgnored(fl) == [fl EXCEPT !.inflight = TRUE, !.again = FALSE]
\* SearchFlight.request: one pass; a newer query makes it run again.
Request(fl) ==
    IF fl.inflight THEN [fl EXCEPT !.again = TRUE]
    ELSE [fl EXCEPT !.inflight = TRUE, !.again = FALSE]

\* bump, then _ensure_timeline_search.
Ensure(fl) ==
    /\ flight' = Request([fl EXCEPT !.gen = @ + 1])
    /\ pass' = IF fl.inflight THEN pass ELSE [pass EXCEPT !.pc = "start"]

Edit ==
    /\ edits < MaxEdits /\ edits' = edits + 1
    /\ filter' = [filter EXCEPT !.query = ~@]
    /\ typing' = TRUE
    /\ UNCHANGED <<total, flight, pass, rowVars, busy, fill, growth, missed>>

DebounceFires ==
    /\ typing /\ typing' = FALSE
    /\ Ensure(flight)
    /\ UNCHANGED <<total, filter, edits, rowVars, busy, fill, growth, missed>>

SetsTurn(t) ==
    /\ edits < MaxEdits /\ edits' = edits + 1
    /\ filter' = [filter EXCEPT !.turn = t]
    /\ Ensure(flight)
    /\ UNCHANGED <<total, typing, rowVars, busy, fill, growth, missed>>

\* The turns of the session so far.
TurnIds == {t \in Turns : Begins(t) <= total}

\* The Select says which turn; it says so again of one that a step has set.
PickTurn == \E t \in TurnIds \union {0} : SetsTurn(t)

\* The h and l keys step through the turns in their order.  All of them (0)
\* come before the first, and on the way back after the last.
FollowsTurn(t, u) ==
    /\ t # 0 => Begins(t) < Begins(u)
    /\ \A v \in TurnIds : Begins(v) < Begins(u) => t # 0 /\ Begins(v) <= Begins(t)
LastTurn(t) == \A v \in TurnIds : Begins(v) <= Begins(t)

NextTurn(t) == t \in TurnIds /\ FollowsTurn(filter.turn, t)
PrevTurn(t) ==
    IF filter.turn = 0 THEN t \in TurnIds /\ LastTurn(t)
    ELSE t \in TurnIds \union {0} /\ FollowsTurn(t, filter.turn)
StepTurn ==
    /\ Cardinality(TurnIds) > 1
    /\ \E t \in Turns \union {0} : (NextTurn(t) \/ PrevTurn(t)) /\ SetsTurn(t)

PassSteps(from, p) == pass.pc = from /\ pass' = p

\* Each turn of the loop takes the newest generation and filter.
PassBegins ==
    /\ \/ /\ PassSteps("start", [pass EXCEPT !.pc = "gen"])
          /\ flight' = [flight EXCEPT !.again = FALSE]
       \/ /\ PassSteps("gen", [pass EXCEPT !.pc = "ask", !.gen = flight.gen])
          /\ UNCHANGED flight
       \/ /\ PassSteps("ask", [pass EXCEPT !.pc = "reply", !.ask = filter])
          /\ UNCHANGED flight
    /\ UNCHANGED <<total, filter, edits, typing, rowVars, busy, fill, growth, missed>>

PassReplies ==
    /\ PassSteps("reply", [pass EXCEPT !.pc = "check"])
    /\ rows' = PageFrom(pass.ask, BaseOf(pass.ask), total)
    /\ known' = Len(Listed(pass.ask, total))
    /\ complete' = (Len(rows') >= known')
    /\ scope' = pass.ask
    /\ mixed' = FALSE /\ missed' = FALSE
    /\ UNCHANGED <<total, uiVars, busy, fill, growth>>

PassFails ==
    /\ PassSteps("reply", [pass EXCEPT !.pc = "done"])
    /\ missed' = TRUE
    /\ UNCHANGED <<total, uiVars, rowVars, busy, fill, growth>>

PassChecks ==
    /\ PassSteps("check", [pass EXCEPT !.pc = IF pass.gen = flight.gen THEN "done" ELSE "start"])
    /\ UNCHANGED <<total, uiVars, rowVars, busy, fill, growth, missed>>

\* Mutated: finish leaves inflight set when no pass is to follow.
PassEndsInflight ==
    /\ PassSteps("done", [pass EXCEPT !.pc = IF flight.again THEN "start" ELSE "none"])
    /\ flight' = [flight EXCEPT !.again = FALSE]
    /\ UNCHANGED <<total, filter, edits, typing, rowVars, busy, fill, growth, missed>>
\* _done on the UI thread: SearchFlight.finish, and once more if asked.
PassEnds ==
    /\ PassSteps("done", [pass EXCEPT !.pc = IF flight.again THEN "start" ELSE "none"])
    /\ flight' = [flight EXCEPT !.inflight = flight.again, !.again = FALSE]
    /\ UNCHANGED <<total, filter, edits, typing, rowVars, busy, fill, growth, missed>>

-----------------------------------------------------------------------------
(* Filling: the next page, asked for by the last painted row.              *)

NoFill == [pc |-> "none", ask |-> Everything, held |-> 0, page |-> <<>>]
FillSteps(t, from, r) == fill[t].pc = from /\ fill' = [fill EXCEPT ![t] = r]

NeedMore(t) ==
    /\ ~complete /\ ~busy
    /\ FillSteps(t, "none", [NoFill EXCEPT !.pc = "start"])
    /\ UNCHANGED <<total, uiVars, pass, rowVars, busy, growth, missed>>

FillStarts(t) ==
    /\ \/ /\ complete \/ busy
          /\ FillSteps(t, "start", NoFill)
          /\ UNCHANGED <<complete, busy>>
       \/ /\ ~complete /\ ~busy /\ known # 0 /\ Len(rows) >= known
          /\ FillSteps(t, "start", NoFill)
          /\ complete' = TRUE /\ UNCHANGED busy
       \/ /\ ~complete /\ ~busy /\ ~(known # 0 /\ Len(rows) >= known)
          /\ FillSteps(t, "start", [NoFill EXCEPT !.pc = "reply", !.ask = filter, !.held = Len(rows)])
          /\ busy' = TRUE /\ UNCHANGED complete
    /\ UNCHANGED <<total, uiVars, pass, rows, known, scope, mixed, growth, missed>>

\* What it learns and appends is for the filter and the rows it started
\* from, whatever they are by now.
Strays(t) == fill[t].ask # scope \/ fill[t].held # Len(rows)

FillReplies(t) ==
    LET f == fill[t]
        page == PageFrom(f.ask, FillOffset(f.ask, f.held), total)
    IN /\ FillSteps(t, "reply", IF page = <<>> THEN NoFill
                                ELSE [f EXCEPT !.pc = "append", !.page = page])
       /\ busy' = FALSE
       /\ known' = Len(Listed(f.ask, total))
       /\ complete' = (complete \/ page = <<>>)
       /\ mixed' = (mixed \/ Strays(t))
       /\ UNCHANGED <<total, uiVars, pass, rows, scope, growth, missed>>

FillAppends(t) ==
    /\ FillSteps(t, "append", NoFill)
    /\ rows' = rows \o fill[t].page
    /\ complete' = (Len(rows') >= known)
    /\ mixed' = (mixed \/ Strays(t))
    /\ UNCHANGED <<total, uiVars, pass, known, scope, busy, growth, missed>>

FillFails(t) ==
    /\ FillSteps(t, "reply", NoFill)
    /\ busy' = FALSE
    /\ UNCHANGED <<total, uiVars, pass, rowVars, growth, missed>>

-----------------------------------------------------------------------------
(* The session grows, and the light job appends the rest of the plain      *)
(* list to what was held as it started.                                    *)

AgentAdds ==
    /\ total < Len(TurnOf) /\ total' = total + 1
    /\ UNCHANGED <<uiVars, pass, rowVars, busy, fill, growth, missed>>

GrowthStarts ==
    /\ growth.pc = "none" /\ known # total
    /\ known' = total
    /\ growth' = IF total = Len(rows) THEN growth ELSE [pc |-> "fetch", held |-> rows]
    /\ UNCHANGED <<total, uiVars, pass, rows, complete, scope, mixed, busy, fill, missed>>

GrowthLands ==
    /\ growth.pc = "fetch"
    /\ LET held == IF Len(growth.held) < total THEN growth.held ELSE <<>>
       IN rows' = held \o SubSeq(Listed(Everything, total), Len(held) + 1, total)
    /\ growth' = [pc |-> "none", held |-> <<>>]
    /\ mixed' = (mixed \/ scope # Everything \/ growth.held # rows)
    /\ UNCHANGED <<total, uiVars, pass, known, complete, scope, busy, fill, missed>>

-----------------------------------------------------------------------------
TimelineInit ==
    /\ total = FirstTotal
    /\ filter = Everything /\ edits = 0 /\ typing = FALSE
    /\ flight = [gen |-> 0, inflight |-> FALSE, again |-> FALSE]
    /\ pass = [pc |-> "none", gen |-> 0, ask |-> Everything]
    /\ rows = PageFrom(Everything, 0, FirstTotal)
    /\ known = FirstTotal /\ complete = (Len(rows) >= known)
    /\ busy = FALSE /\ fill = [t \in Fillers |-> NoFill]
    /\ growth = [pc |-> "none", held |-> <<>>]
    /\ scope = Everything /\ mixed = FALSE /\ missed = FALSE

PassStep == PassBegins \/ PassReplies \/ PassChecks \/ PassEnds \/ DebounceFires

TimelineNext ==
    \/ Edit \/ PickTurn \/ StepTurn \/ PassStep \/ PassFails
    \/ \E t \in Fillers :
          NeedMore(t) \/ FillStarts(t) \/ FillReplies(t) \/ FillAppends(t) \/ FillFails(t)
    \/ AgentAdds \/ GrowthStarts \/ GrowthLands

TimelineSpec == TimelineInit /\ [][TimelineNext]_timelineVars /\ WF_timelineVars(PassStep)

-----------------------------------------------------------------------------
(* Properties.                                                             *)

Quiet == pass.pc = "none" /\ ~typing

TimelineTypeOK ==
    /\ rows \in Seq(DOMAIN TurnOf) /\ known \in 0 .. Len(TurnOf)
    /\ filter \in [turn : Turns \union {0}, query : BOOLEAN]
    /\ flight.inflight <=> pass.pc # "none"
    /\ flight.again => flight.inflight

\* SearchFlight: "the latest box is fetched next".  However the operator's
\* changes fall into the pass that runs, once they stop the rows come to be
\* those of the filters as they are, unless that last fetch fails.
LatestIsFetched == <>[](Quiet /\ (scope = filter \/ missed))

\* Where a filter's list begins, and the one case in which the code takes
\* an index of the whole session for a place among the hits.
ScopeList(f) == SubSeq(Listed(f, total), BaseOf(f) + 1, Len(Listed(f, total)))
Misplaced(f) == BaseOf(f) > 0 /\ f.query

\* However pages, growth and passes follow one another, the rows are the
\* list of one filter from its start, without a gap or a repeat, unless a
\* reply came to rows it was not asked for (mixed) or the filter is one whose
\* first page is misplaced.
RowsAreAPrefix == mixed \/ Misplaced(scope) \/ IsPrefix(rows, ScopeList(scope))

=============================================================================
