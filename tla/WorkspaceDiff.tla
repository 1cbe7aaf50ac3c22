---------------------------- MODULE WorkspaceDiff ----------------------------
(***************************************************************************)
(* The Diff pane: the points anqa/session/workspace_diff.py makes of a     *)
(* session (rewind snapshots, a store's own file diffs, or patches         *)
(* rebuilt from the tool calls of a turn), and the pane that walks them    *)
(* (anqa/ui/widgets/diff_view.py, anqa/ui/fuzzy.py): point, file, find.    *)
(***************************************************************************)
EXTENDS Naturals, SequencesExt, Ranks, TurnNumbers

CONSTANTS
    PathOrder,  \* the paths written, in the order the pane sorts them
    DiffStores, \* whose session: "grok", "opencode", "other"
    DiffFinds,  \* what is typed in the find box: sets of symbols
    MaxWrites,  \* bound: events of the timeline
    MaxPaned,   \* bound: those of a timeline whose pane is walked
    MaxRewinds  \* bound: rows of rewind_points.jsonl

\* A path has one place in the order.
ASSUME PathOrderAssumption ==
    /\ PathOrder \in Seq(ToSet(PathOrder))
    /\ \A i, j \in DOMAIN PathOrder : PathOrder[i] = PathOrder[j] => i = j

VARIABLES
    diffStore, \* the store
    trace,     \* the timeline, as far as the Diff reads it
    rewinds,   \* rewind_points.jsonl (grok)
    native,    \* the paths of the last summary.diffs (opencode)
    pane       \* the pane: its document, point, file and find

diffVars == <<diffStore, trace, rewinds, native, pane>>

-----------------------------------------------------------------------------
Paths == ToSet(PathOrder)
Words == {"x", "y"}
NoText == ""

\* n: the turn number, which the store has of a start at most.
TraceEvent(type, n, path, word) ==
    [type |-> type, n |-> n, path |-> path, word |-> word]
TraceEvents ==
    {TraceEvent("start", n, NoText, NoText) : n \in {Unnumbered, 0, 1}}
    \union {TraceEvent("prompt", Unnumbered, NoText, w) : w \in Words}
    \union {TraceEvent("edit", Unnumbered, p, w) : p \in Paths, w \in Words}
    \union {TraceEvent("patch", Unnumbered, p, w) : p \in Paths, w \in Words}
\* A row before and after a turn, that of the prompts: what the turn left in
\* the paths it holds.
RewindRows == [left : [Paths -> {"unheld", "x"}] \union [Paths -> {"same"}]]

\* A hunk's lines, each by what a find can match: the header, the change.
Hunk(path, lines) == [path |-> path, lines |-> lines]
Patch(event) == <<{event.path}, {event.word}>>
Point(source, key, files, prompt) ==
    [source |-> source, key |-> key, files |-> files, prompt |-> prompt]
NoPoint == Point("none", 0, <<>>, NoText)
Written(event) == event.type \in {"edit", "patch"}

-----------------------------------------------------------------------------
(* The document.  What a point is made of is named by its places in the    *)
(* timeline.                                                               *)

ToPath(events, at, type, path) == {i \in at : events[i].type = type /\ events[i].path = path}
\* _hunks_from_pairs: the edits of a path, stacked.
Grouped(events, at, path) ==
    LET edits == Picked(events, ToPath(events, at, "edit", path))
    IN IF edits = <<>> THEN <<>>
       ELSE <<Hunk(path, FlattenSeq([n \in DOMAIN edits |-> Patch(edits[n])]))>>
\* apply_patch: a path already listed is left as it is.
Extras(events, at, path) ==
    LET patches == ToPath(events, at, "patch", path)
    IN IF Grouped(events, at, path) # <<>> \/ patches = {} THEN <<>>
       ELSE <<Hunk(path, Patch(events[Min(patches)]))>>
Files(events, at) ==
    FlattenSeq([k \in DOMAIN PathOrder |->
        Grouped(events, at, PathOrder[k]) \o Extras(events, at, PathOrder[k])])

\* _edits_context: the last prompt of the bucket.
EditsContext(events, at) ==
    LET prompts == {i \in at : events[i].type = "prompt"}
    IN IF prompts = {} THEN NoText ELSE events[Max(prompts)].word

\* points_from_events: a bucket for each turn number, in order of arrival.
\* Any event's number sets the turn.
InBucket(buckets, turn, i) ==
    IF \E k \in DOMAIN buckets : buckets[k].turn = turn
    THEN [k \in DOMAIN buckets |->
             IF buckets[k].turn = turn
             THEN [turn |-> turn, at |-> buckets[k].at \union {i}] ELSE buckets[k]]
    ELSE Append(buckets, [turn |-> turn, at |-> {i}])
Filed(acc, e, i) ==
    LET turn == IF e.n # Unnumbered THEN e.n ELSE acc.current
    IN [current |-> turn, buckets |-> InBucket(acc.buckets, turn, i)]
NothingFiled == [current |-> 0, buckets |-> <<>>]
\* The pass after each event.
Filing(events) ==
    LET pass[i \in 0 .. Len(events)] ==
            IF i = 0 THEN NothingFiled ELSE Filed(pass[i - 1], events[i], i)
    IN pass
TurnPoints(events) ==
    LET buckets == Filing(events)[Len(events)].buckets
        points == [k \in DOMAIN buckets |->
                      Point("turn", buckets[k].turn, Files(events, buckets[k].at),
                            EditsContext(events, buckets[k].at))]
    IN Picked(points, {k \in DOMAIN points : points[k].files # <<>>})

\* _turn_context: the first prompt of the last turn that has one.  A turn
\* runs here from a start to the next, the first from the beginning.
Starts(events) == {i \in DOMAIN events : events[i].type = "start"}
FirstPrompts(events) ==
    {i \in DOMAIN events :
        /\ events[i].type = "prompt"
        /\ ~\E j \in 1 .. i - 1 :
              /\ events[j].type = "prompt"
              /\ ~\E s \in Starts(events) : j < s /\ s < i /\ s # Min(Starts(events))}
TurnContext(events) ==
    LET prompts == FirstPrompts(events)
    IN IF prompts = {} THEN NoText ELSE events[Max(prompts)].word

\* _rewind_points: the key is the row's place; a row of no file is skipped.
RewindFiles(row) ==
    FlattenSeq([i \in DOMAIN PathOrder |->
        LET p == PathOrder[i] IN
        IF row.left[p] \in Words THEN <<Hunk(p, <<{p}, {row.left[p]}>>)>> ELSE <<>>])
RewindPoints(rows, events) ==
    LET points == [i \in DOMAIN rows |->
                      [held |-> \E p \in Paths : rows[i].left[p] # "unheld",
                       point |-> Point("rewind", i, RewindFiles(rows[i]),
                                       TurnContext(events))]]
        held == SelectSeq(points, LAMBDA p : p.held)
    IN [i \in DOMAIN held |-> held[i].point]

\* _search_replace_point, point_from_file_diffs: one point, no context.
ReplacePoints(events) ==
    LET files == Files(events, {i \in DOMAIN events : events[i].type = "edit"})
    IN IF files = <<>> THEN <<>> ELSE <<Point("edits", 0, files, NoText)>>
NativePoints(paths) ==
    IF paths = {} THEN <<>>
    ELSE <<Point("edits", 0,
                 LET sorted == SelectSeq(PathOrder, LAMBDA p : p \in paths)
                 IN [i \in DOMAIN sorted |-> Hunk(sorted[i], <<{"x"}>>)], NoText)>>

\* load_workspace_diff_doc and the session_diff of a file store: the first
\* source that has a point.
FirstSource(a, b) == IF a # <<>> THEN a ELSE b
Document ==
    LET parsed == Parsed(trace) IN
    CASE diffStore = "grok" ->
            FirstSource(RewindPoints(rewinds, parsed),
                        FirstSource(ReplacePoints(trace), TurnPoints(parsed)))
      [] diffStore = "opencode" -> FirstSource(NativePoints(native), TurnPoints(parsed))
      [] OTHER -> TurnPoints(parsed)

-----------------------------------------------------------------------------
(* The pane.  A line of 0 is none: a file found by its path alone.         *)

NoFile == ""
EmptyPane == [doc |-> <<>>, point |-> NoPoint, file |-> NoFile, find |-> {},
              hits |-> <<>>, at |-> 0, line |-> 0]

\* The current point: the chosen one by its key, else the last.
KeyOf(point) == <<point.source, point.key>>
CurrentPoint(p) ==
    LET same == {i \in DOMAIN p.doc : KeyOf(p.doc[i]) = KeyOf(p.point)}
    IN IF same # {} THEN p.doc[Min(same)]
       ELSE IF p.doc # <<>> THEN Last(p.doc) ELSE NoPoint

\* match_lines: the lines that match; else the first, when the whole does.
MatchLines(find, lines) ==
    LET hits == {i \in DOMAIN lines : find \subseteq lines[i]}
    IN IF hits # {} THEN hits
       ELSE IF lines # <<>> /\ find \subseteq UNION ToSet(lines) THEN {1} ELSE {}
FileHits(find, hunk) ==
    LET lines == MatchLines(find, hunk.lines)
        sorted == SetToSortSeq(lines, <)
    IN IF lines # {} THEN [i \in DOMAIN sorted |-> <<hunk.path, sorted[i]>>]
       ELSE IF find \subseteq {hunk.path} THEN <<<<hunk.path, 0>>>> ELSE <<>>
DiffHits(find, files) ==
    IF find = {} THEN <<>>
    ELSE FlattenSeq([i \in DOMAIN files |-> FileHits(find, files[i])])
\* filter_diff_hunks.
Visible(p) ==
    SelectSeq(p.point.files, LAMBDA h :
        \/ p.find = {}
        \/ p.find \subseteq {h.path}
        \/ h.lines # <<>> /\ p.find \subseteq UNION ToSet(h.lines))

ApplyHit(p) == IF p.hits = <<>> THEN p
               ELSE [p EXCEPT !.file = p.hits[p.at][1], !.line = p.hits[p.at][2]]
RebuildHits(p) ==
    LET hits == DiffHits(p.find, p.point.files)
        here == {i \in DOMAIN hits : hits[i][1] = p.file}
        at == IF here # {} THEN Min(here) ELSE 1
    IN IF hits = <<>>
       THEN [p EXCEPT !.hits = hits, !.at = 0, !.line = IF p.find = {} THEN 0 ELSE @]
       ELSE ApplyHit([p EXCEPT !.hits = hits, !.at = at])
FillFiles(p) ==
    LET files == Visible(p) IN
    [p EXCEPT !.file = IF files = <<>> THEN NoFile
                       ELSE IF \E i \in DOMAIN files : files[i].path = p.file THEN p.file
                       ELSE Head(files).path]
PaintPane(p) ==
    FillFiles(RebuildHits([p EXCEPT !.point = CurrentPoint(p)]))

-----------------------------------------------------------------------------
DiffInit ==
    /\ diffStore \in DiffStores
    /\ trace = <<>> /\ rewinds = <<>> /\ native = {}
    /\ pane = EmptyPane

\* The agent works.  A long timeline is of a session nobody looks at.
Room == IF pane = EmptyPane /\ rewinds = <<>> /\ native = {} THEN MaxWrites ELSE MaxPaned
AgentActs(e) == /\ Len(trace) < Room
                /\ trace' = Append(trace, e)
                /\ UNCHANGED <<diffStore, rewinds, native, pane>>
AgentRewinds(row) == /\ diffStore = "grok" /\ Len(rewinds) < MaxRewinds
                     /\ Len(trace) <= MaxPaned
                     /\ rewinds' = Append(rewinds, row)
                     /\ UNCHANGED <<diffStore, trace, native, pane>>
StoreSums == /\ diffStore = "opencode" /\ Len(trace) <= MaxPaned
             /\ \E paths \in SUBSET Paths :
                   paths \subseteq {trace[i].path : i \in DOMAIN trace} \ {NoText}
                   /\ native' = paths
             /\ UNCHANGED <<diffStore, trace, rewinds, pane>>

\* A full load of the screen; set_doc.
LoadsDiff == /\ Len(trace) <= MaxPaned
             /\ pane' = PaintPane([pane EXCEPT !.doc = Document])
             /\ UNCHANGED <<diffStore, trace, rewinds, native>>
\* step_point, which forgets the line, and _on_point_changed.
PicksPoint(i) ==
    /\ KeyOf(pane.doc[i]) # KeyOf(pane.point)
    /\ \E line \in {0, pane.line} :
          pane' = PaintPane([pane EXCEPT !.point = pane.doc[i], !.file = NoFile,
                                         !.line = line])
    /\ UNCHANGED <<diffStore, trace, rewinds, native>>
\* _on_search_changed.
TypesFind(find) ==
    /\ pane.find # find
    /\ pane' = FillFiles(RebuildHits([pane EXCEPT !.find = find]))
    /\ UNCHANGED <<diffStore, trace, rewinds, native>>
\* step_hit, around the ends.
StepsHit(delta) ==
    /\ pane.hits # <<>>
    /\ LET n == Len(pane.hits)
       IN pane' = FillFiles(ApplyHit([pane EXCEPT !.at = ((@ - 1 + n + delta) % n) + 1]))
    /\ UNCHANGED <<diffStore, trace, rewinds, native>>
\* _on_file_highlighted, _snap_hit_to_file.
\* Mutated: the hit is not moved along.
OpensFileAlone(i) ==
    LET files == Visible(pane)
    IN /\ i \in DOMAIN files /\ files[i].path # pane.file
       /\ pane' = [pane EXCEPT !.file = files[i].path, !.line = 0]
       /\ UNCHANGED <<diffStore, trace, rewinds, native>>
OpensFile(i) ==
    LET files == Visible(pane)
        here == {k \in DOMAIN pane.hits : pane.hits[k][1] = files[i].path}
    IN /\ i \in DOMAIN files /\ files[i].path # pane.file
       /\ pane' = IF here = {} THEN [pane EXCEPT !.file = files[i].path, !.line = 0]
                  ELSE ApplyHit([pane EXCEPT !.file = files[i].path, !.at = Min(here)])
       /\ UNCHANGED <<diffStore, trace, rewinds, native>>

DiffNext ==
    \/ \E e \in TraceEvents : AgentActs(e)
    \/ \E row \in RewindRows : AgentRewinds(row)
    \/ StoreSums
    \/ LoadsDiff
    \/ \E i \in DOMAIN pane.doc : PicksPoint(i)
    \/ \E find \in DiffFinds : TypesFind(find)
    \/ \E delta \in {1, -1} : StepsHit(delta)
    \/ \E i \in DOMAIN Visible(pane) : OpensFile(i)
DiffSpec == DiffInit /\ [][DiffNext]_diffVars

-----------------------------------------------------------------------------
\* Variables have the shape the actions rely on.
DiffTypeOK ==
    /\ diffStore \in DiffStores /\ native \subseteq Paths
    /\ ToSet(trace) \subseteq TraceEvents /\ ToSet(rewinds) \subseteq RewindRows
    /\ pane.file \in Paths \union {NoFile}
    /\ pane.at \in 0 .. Len(pane.hits)

\* What is rebuilt from the tool calls is all of them: a path a turn wrote is
\* listed once, under that turn's number, its text has every edit of it, and
\* the prompt above is the last of that turn.  What was written before the
\* first start is of the first turn.
TurnAt(i) == NumberAt([j \in DOMAIN trace |-> trace[j].n], i)
EditsOf(turn, path) ==
    {trace[i].word : i \in {j \in DOMAIN trace :
        trace[j].type = "edit" /\ trace[j].path = path /\ TurnAt(j) = turn}}
ListedIn(points, turn, path) ==
    {at \in UNION {{k} \X DOMAIN points[k].files : k \in DOMAIN points} :
        points[at[1]].key = turn /\ points[at[1]].files[at[2]].path = path}
WritesAreListed ==
    LET points == TurnPoints(Parsed(trace))
        pairs == {<<TurnAt(i), trace[i].path>> :
                     i \in {j \in DOMAIN trace : Written(trace[j])}}
    IN /\ \A w \in pairs :
             /\ Cardinality(ListedIn(points, w[1], w[2])) = 1
             /\ \A at \in ListedIn(points, w[1], w[2]) :
                   EditsOf(w[1], w[2])
                     \subseteq UNION ToSet(points[at[1]].files[at[2]].lines)
       /\ \A k \in DOMAIN points :
             LET said == {i \in DOMAIN trace :
                            trace[i].type = "prompt" /\ TurnAt(i) = points[k].key}
             IN /\ \A f \in DOMAIN points[k].files :
                      <<points[k].key, points[k].files[f].path>> \in pairs
                /\ points[k].prompt = IF said = {} THEN NoText ELSE trace[Max(said)].word

\* What the pane shows of a find is one of its hits: the counter, the file
\* and the line that are painted go together, whatever point was picked, file
\* opened, hit stepped to or document loaded in between.  Without a find no
\* line is marked.
PaneShowsAHit ==
    pane.file # NoFile =>
        LET hits == DiffHits(pane.find, pane.point.files) IN
        IF pane.find = {} THEN pane.line = 0
        ELSE /\ pane.hits = hits /\ pane.at \in DOMAIN hits
             /\ hits[pane.at] = <<pane.file, pane.line>>
=============================================================================
