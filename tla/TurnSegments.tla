---------------------------- MODULE TurnSegments ----------------------------
(***************************************************************************)
(* How a timeline is cut into turns (anqa/session/turns.py): the start and *)
(* end markers of the harness, the follow-up a user sends before the next  *)
(* start, the end that arrives after it, and the turns of a forked parent  *)
(* that were never started here.                                           *)
(*                                                                         *)
(* An event is a record of its kind and of the turn number it carries      *)
(* (Unnumbered if none).  A segment holds indexes of the timeline.         *)
(***************************************************************************)
EXTENDS TurnNumbers

Kinds == {"system", "started", "ended", "completed", "user", "chrome", "agent"}

\* What a store holds: only starts have a number, and not all of them.
Logged(kinds, numbers) ==
    {[kind |-> k, n |-> Unnumbered] : k \in kinds} \union
    {[kind |-> "started", n |-> n] : n \in numbers}

IsStart(e) == e.kind = "started"
IsEnd(e) == e.kind \in {"ended", "completed"}
SessionLevel(e) == e.kind = "system"

\* A segment, and the pass over the events: those closed so far, and the
\* open one (no events: none is open).
Segment(n, open, at) == [n |-> n, open |-> open, at |-> at]
NoSegment == Segment(Unnumbered, TRUE, <<>>)
Add(seg, i) == [seg EXCEPT !.at = Append(@, i)]
OntoLast(segs, i) == [segs EXCEPT ![Len(segs)] = Add(@, i)]
Started(tl, seg) == \E j \in Range(seg.at) : IsStart(tl[j])
HasEnd(tl, seg) == \E j \in Range(seg.at) : IsEnd(tl[j])

\* A start joins the follow-up that waits for it, and otherwise closes
\* whatever ran before.
StartStep(tl, s, i) ==
    IF s.cur # NoSegment /\ ~Started(tl, s.cur)
    THEN [s EXCEPT !.cur = [Add(s.cur, i) EXCEPT
                               !.n = IF tl[i].n = Unnumbered THEN @ ELSE tl[i].n]]
    ELSE [segs |-> IF s.cur = NoSegment THEN s.segs
                   ELSE Append(s.segs, [s.cur EXCEPT !.open = FALSE]),
          cur |-> Segment(tl[i].n, TRUE, <<i>>)]

\* The store's own end marker that finds only a follow-up belongs to the
\* turn before it.
EndStep(tl, s, i) ==
    LET late == /\ s.cur # NoSegment /\ tl[i].kind = "ended"
                /\ ~Started(tl, s.cur) /\ s.segs # <<>>
    IN IF late THEN [s EXCEPT !.segs = [OntoLast(@, i) EXCEPT ![Len(s.segs)].open = FALSE]]
       ELSE IF s.cur # NoSegment
       THEN [segs |-> Append(s.segs, [Add(s.cur, i) EXCEPT !.open = FALSE]), cur |-> NoSegment]
       ELSE IF s.segs # <<>>
       THEN [s EXCEPT !.segs = [OntoLast(@, i) EXCEPT ![Len(s.segs)].open = FALSE]]
       ELSE [s EXCEPT !.segs = <<Segment(Unnumbered, FALSE, <<i>>)>>]

\* Between turns only an operator's message opens a segment.
PlainStep(tl, s, i) ==
    IF s.cur # NoSegment THEN [s EXCEPT !.cur = Add(@, i)]
    ELSE IF s.segs = <<>> \/ tl[i].kind = "user"
    THEN [s EXCEPT !.cur = Segment(Unnumbered, TRUE, <<i>>)]
    ELSE [s EXCEPT !.segs = OntoLast(@, i)]

Step(tl, s, i) ==
    CASE SessionLevel(tl[i]) -> s
      [] IsStart(tl[i]) -> StartStep(tl, s, i)
      [] IsEnd(tl[i]) -> EndStep(tl, s, i)
      [] OTHER -> PlainStep(tl, s, i)

NothingCut == [segs |-> <<>>, cur |-> NoSegment]
\* The pass after each event.
Passed(tl) ==
    LET pass[i \in 0 .. Len(tl)] == IF i = 0 THEN NothingCut ELSE Step(tl, pass[i - 1], i)
    IN pass
Closed(s) == IF s.cur = NoSegment THEN s.segs ELSE Append(s.segs, s.cur)
Cut(tl) == Closed(Passed(tl)[Len(tl)])

\* _stamp_trace_turn_ids: without any number the position is the number.
Stamped(segs) ==
    IF \E k \in DOMAIN segs : segs[k].n # Unnumbered THEN segs
    ELSE [k \in DOMAIN segs |-> [segs[k] EXCEPT !.n = k - 1]]

\* _attach_startless_turns: what was never started joins the next numbered
\* turn, or the last one (there is one: else Stamped numbered them all);
\* only finished turns before the first start stand by themselves.
Onto(seg, waiting) == [seg EXCEPT !.at = waiting \o @]
Attach(tl, acc, seg) ==
    IF seg.n # Unnumbered
    THEN [out |-> Append(acc.out, Onto(seg, acc.waiting)), waiting |-> <<>>, seen |-> TRUE]
    ELSE IF acc.seen \/ (seg.open /\ ~HasEnd(tl, seg))
    THEN [acc EXCEPT !.waiting = @ \o seg.at]
    ELSE [acc EXCEPT !.out = Append(@, seg)]
NothingJoined == [out |-> <<>>, waiting |-> <<>>, seen |-> FALSE]
\* The pass after each segment.
Joined(tl, segs) ==
    LET pass[k \in 0 .. Len(segs)] ==
            IF k = 0 THEN NothingJoined ELSE Attach(tl, pass[k - 1], segs[k])
    IN pass
\* Mutated: what waits when the turns are over is dropped.
AttachedDrops(tl, segs) == Joined(tl, segs)[Len(segs)].out
Settled(acc) ==
    IF acc.waiting = <<>> THEN acc.out
    ELSE [acc.out EXCEPT ![Len(acc.out)].at = @ \o acc.waiting]
Attached(tl, segs) == Settled(Joined(tl, segs)[Len(segs)])

\* _number_host_prefix: the first numbers the harness did not use, in turn.
FreeNumber(numbers, k) ==
    LET used == {numbers[j] : j \in DOMAIN numbers}
        before == {j \in 1 .. k - 1 : numbers[j] = Unnumbered}
    IN CHOOSE n \in (0 .. Len(numbers)) \ used :
          Cardinality((0 .. n - 1) \ used) = Cardinality(before)
Numbered(segs) ==
    LET numbers == [k \in DOMAIN segs |-> segs[k].n]
    IN [k \in DOMAIN segs |->
           [segs[k] EXCEPT !.n = IF @ = Unnumbered THEN FreeNumber(numbers, k) ELSE @]]

Segments(tl) == Numbered(Attached(tl, Stamped(Cut(tl))))

\* event_display_turn_map: an event has the number of the last start before
\* it in its segment; before the first start, that start's; without one, the
\* segment's.
NumberOf(tl, seg, pos) ==
    LET starts == {p \in 1 .. Len(seg.at) :
                      IsStart(tl[seg.at[p]]) /\ tl[seg.at[p]].n # Unnumbered}
        before == {p \in starts : p <= pos}
        pick == IF before = {} THEN starts ELSE before
    IN IF starts = {} THEN seg.n
       ELSE tl[seg.at[IF before = {} THEN CHOOSE p \in pick : \A q \in pick : p <= q
                      ELSE CHOOSE p \in pick : \A q \in pick : p >= q]].n
\* Where an event lies: segment and position.
Places(segs, i) ==
    UNION {{<<k, p>> : p \in {q \in DOMAIN segs[k].at : segs[k].at[q] = i}} : k \in DOMAIN segs}
DisplayTurns(tl, segs) ==
    [i \in UNION {Range(segs[k].at) : k \in DOMAIN segs} |->
       LET kp == CHOOSE x \in Places(segs, i) : TRUE
       IN NumberOf(tl, segs[kp[1]], kp[2])]
CutTurns(tl) == DisplayTurns(tl, Segments(tl))

-----------------------------------------------------------------------------
\* Every event of a turn lies in exactly one segment.
Partition(tl) ==
    \A i \in 1 .. Len(tl) :
        Cardinality(Places(Segments(tl), i)) = IF SessionLevel(tl[i]) THEN 0 ELSE 1
=============================================================================
