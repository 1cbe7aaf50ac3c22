----------------------------- MODULE SessionWork -----------------------------
(***************************************************************************)
(* The work a session starts beside its own turns, as the owner merges it  *)
(* from several files and the Summary pane lists it: background jobs and   *)
(* schedules (anqa/session/jobs.py), workflow runs                         *)
(* (anqa/session/workflows.py) and subagent runs                           *)
(* (anqa/session/subagents.py), and the tables of BrowserScreen            *)
(* (anqa/ui/screens/browser.py).                                           *)
(*                                                                         *)
(* The agent writes each fact in its own file, in an order of its own: a   *)
(* bookend of the timeline, the manifest, a log's last line, a state file. *)
(* It never takes a fact back.  The owner reads the files one after the    *)
(* other; one thread builds an overview (SessionViews says why).           *)
(***************************************************************************)
EXTENDS Naturals, Sequences, FiniteSets, Ranks

CONSTANTS
    Jobs,      \* ids of background jobs, as they sort: a sequence
    Monitors,  \* those of them whose log is a monitor's
    LongEnds,  \* those of the monitors whose last word is followed by more
               \* than the 512 bytes the stamp reads
    Children,  \* ids of subagents, as they sort: a sequence
    Stories,   \* what a behaviour is about: "jobs", "flows" or "children"
    MaxFacts,  \* bound: how much the agent writes
    MaxKeys    \* bound: what the operator does on the screen

\* Ids are distinct strings; a record without one is left out.
DistinctIds(ids) ==
    /\ ids \in Seq(STRING \ {""})
    /\ \A i, k \in DOMAIN ids : ids[i] = ids[k] => i = k
ASSUME IdsAssumption == DistinctIds(Jobs) /\ DistinctIds(Children)
ASSUME MonitorsAssumption ==
    Monitors \subseteq {Jobs[i] : i \in DOMAIN Jobs} /\ LongEnds \subseteq Monitors

VARIABLES
    story,     \* which files this agent writes
    events,    \* the bookends of the timeline
    files,     \* manifest, logs, scheduler, state files, subagents/*/meta.json
    facts,     \* writes so far
    build,     \* the overview being built
    rowCache,  \* SessionJobs._row_cache, of this session
    answer,    \* the last overview given
    screen     \* the open BrowserScreen, attached

workVars == <<story, events, files, facts, build, rowCache, answer, screen>>

JobIds == {Jobs[i] : i \in DOMAIN Jobs}
ChildIds == {Children[i] : i \in DOMAIN Children}
Sorts(ids, a, b) == \E i, k \in DOMAIN ids : i < k /\ ids[i] = a /\ ids[k] = b
JobEnds == {"done", "failed"}
Rank == [running |-> 0, done |-> 1, failed |-> 2]

Event(type, id, name) == [type |-> type, id |-> id, name |-> name]
\* Places in the timeline, 0 for none.
OfType(evs, types) == {i \in 1 .. Len(evs) : evs[i].type \in types}
Of(evs, types, id) == {i \in OfType(evs, types) : evs[i].id = id}
FirstAt(places) == IF places = {} THEN 0 ELSE CHOOSE i \in places : \A k \in places : i <= k
LastAt(places) == IF places = {} THEN 0 ELSE CHOOSE i \in places : \A k \in places : k <= i

-----------------------------------------------------------------------------
(* Jobs: BackgroundJob.from_event, from_mapping, merge, SessionJobs.load.  *)

TaskEnds == {"task_done", "task_failed"}
JobTypes == {"task_backgrounded"} \union TaskEnds
Said(type) == CASE type = "task_backgrounded" -> "running"
                [] type = "task_done" -> "done"
                [] type = "task_failed" -> "failed"

\* Mutated: the record read last has the say.
MergedStatusLatest(old, new) == new
\* The later record wins unless it is of a lower rank.
MergedStatus(old, new) == IF Rank[new] >= Rank[old] THEN new ELSE old

\* What is said of a job, the manifest last.
JobRecords(evs, manifest, j) ==
    {<<i, Said(evs[i].type)>> : i \in Of(evs, JobTypes, j)}
    \union (IF manifest[j] = "absent" THEN {} ELSE {<<Len(evs) + 1, manifest[j]>>})
\* The record that is left when all are merged in their order.
Prevails(records, r) ==
    \A s \in records : /\ s[1] < r[1] => MergedStatus(s[2], r[2]) = r[2]
                       /\ s[1] > r[1] => MergedStatus(r[2], s[2]) = r[2]
JobStatus(evs, manifest, logs, j) ==
    IF logs[j] # "open" THEN logs[j]
    ELSE LET records == JobRecords(evs, manifest, j)
         IN (CHOOSE r \in records : Prevails(records, r))[2]

\* A job without a start time, known by its end alone, sorts first.
KnownJobs(evs, manifest) == {j \in JobIds : JobRecords(evs, manifest, j) # {}}
Started(evs, manifest, j) ==
    manifest[j] # "absent" \/ Of(evs, {"task_backgrounded"}, j) # {}
JobsOrder(evs, manifest) ==
    {p \in JobIds \X JobIds :
        \/ ~Started(evs, manifest, p[1]) /\ Started(evs, manifest, p[2])
        \/ /\ Started(evs, manifest, p[1]) <=> Started(evs, manifest, p[2])
           /\ Sorts(Jobs, p[1], p[2])}
JobRows(evs, manifest, logs) ==
    LET ids == Ranked(KnownJobs(evs, manifest), JobsOrder(evs, manifest))
    IN [i \in DOMAIN ids |->
           [id |-> ids[i], status |-> JobStatus(evs, manifest, logs, ids[i]), at |-> 0]]

(* Schedules: SessionJobs.schedules_from; the newest creation is the one   *)
(* that counts, else the first word of the task.                           *)
ScheduleTypes == {"scheduled_task_created", "scheduled_task_fired"}
ScheduleAt(evs) ==
    LET created == OfType(evs, {"scheduled_task_created"})
    IN IF created # {} THEN LastAt(created) ELSE FirstAt(OfType(evs, ScheduleTypes))
ScheduleRows(evs, held) ==
    IF held \/ ScheduleAt(evs) # 0
    THEN <<[id |-> "task", status |-> "scheduled", at |-> 0]>>
    ELSE <<>>

(* Workflow runs: WorkflowRun.from_directory, load_session_workflows.      *)
FlowRows(flow) ==
    IF flow = "absent" THEN <<>>
    ELSE <<[id |-> "run", status |-> flow, at |-> 0]>>

-----------------------------------------------------------------------------
(* Where a row's Enter leads.  BackgroundJob.event_index,                  *)
(* WorkflowRun.event_index and schedules_from say it row by row;           *)
(* set_bookend_indexes finds them all in one walk.  The bookends of a job  *)
(* carry its id and its call alike, so the call both look for as well      *)
(* finds no other; "flow" stands for every name the run's begins with.     *)

LeadsTo(evs, kind, id) ==
    CASE kind = "jobs" -> FirstAt(Of(evs, JobTypes, id))
      [] kind = "schedules" -> ScheduleAt(evs)
      [] kind = "flows" ->
            LET runs == OfType(evs, {"workflow"})
                byId == FirstAt({i \in runs : evs[i].id = id})
            IN IF byId # 0 THEN byId ELSE FirstAt({i \in runs : evs[i].name = "flow"})

Walk0 == [ids |-> {}, named |-> 0, fired |-> 0]
Known(walk, id) == \E p \in walk.ids : p[1] = id
Noted(walk, id, i) ==
    IF id = "" \/ Known(walk, id) THEN walk.ids ELSE walk.ids \union {<<id, i>>}
WalkStep(evs, walk, i) ==
    [ids |-> Noted(walk, evs[i].id, i),
     named |-> IF evs[i].type = "workflow" /\ evs[i].name = "flow" /\ walk.named = 0
               THEN i ELSE walk.named,
     fired |-> IF \/ evs[i].type = "scheduled_task_created"
                  \/ evs[i].type = "scheduled_task_fired" /\ walk.fired = 0
               THEN i ELSE walk.fired]
Walked(evs) ==
    LET walk[i \in 0 .. Len(evs)] ==
            IF i = 0 THEN Walk0 ELSE WalkStep(evs, walk[i - 1], i)
    IN walk[Len(evs)]
ById(walk, id) == IF Known(walk, id) THEN (CHOOSE p \in walk.ids : p[1] = id)[2] ELSE 0
WalkedTo(walk, kind, id) ==
    CASE kind = "jobs" -> ById(walk, id)
      [] kind = "schedules" -> walk.fired
      [] kind = "flows" -> IF ById(walk, id) # 0 THEN ById(walk, id) ELSE walk.named

Pointed(evs, kind, rows) ==
    LET walk == Walked(evs)
    IN [i \in DOMAIN rows |-> [rows[i] EXCEPT !.at = WalkedTo(walk, kind, rows[i].id)]]

-----------------------------------------------------------------------------
(* Subagents: apply_spawn and apply_finish over the bookends, then         *)
(* merge_meta, link_turn and the order of subagent_runs_for_session.       *)

Spawned(evs, c) == LastAt(Of(evs, {"subagent_spawned"}, c))
ChildEnds == {"subagent_finished", "subagent_failed"}
FinishedAt(evs, c) == LastAt(Of(evs, ChildEnds, c))
RunStatus(evs, meta, c) ==
    IF FinishedAt(evs, c) # 0
    THEN IF evs[FinishedAt(evs, c)].type = "subagent_failed" THEN "failed" ELSE "completed"
    ELSE IF meta[c] = "absent" THEN "running" ELSE meta[c]
KnownRuns(evs, meta) ==
    {c \in ChildIds : Spawned(evs, c) # 0 \/ FinishedAt(evs, c) # 0 \/ meta[c] # "absent"}
\* Runs with a spawn bookend in its order, then the others by id.
RunsOrder(evs) ==
    {p \in ChildIds \X ChildIds :
        LET a == Spawned(evs, p[1])
            b == Spawned(evs, p[2])
        IN \/ a # 0 /\ (b = 0 \/ a < b)
           \/ a = 0 /\ b = 0 /\ Sorts(Children, p[1], p[2])}
RunRows(evs, meta) ==
    LET ids == Ranked(KnownRuns(evs, meta), RunsOrder(evs))
    IN [i \in DOMAIN ids |->
           [id |-> ids[i], status |-> RunStatus(evs, meta, ids[i]), at |-> Spawned(evs, ids[i])]]

-----------------------------------------------------------------------------
NoRowsYet == [jobs |-> <<>>, schedules |-> <<>>, flows |-> <<>>]
NoAnswer == [events |-> <<>>, rows |-> NoRowsYet, runs |-> <<>>]
NoBuild == [at |-> "idle", events |-> <<>>, runs |-> <<>>, key |-> <<>>,
            manifest |-> <<>>, held |-> FALSE, rows |-> NoRowsYet]
NothingCached == [key |-> <<>>, rows |-> NoRowsYet]
NothingHeld == [total |-> 0, rows |-> NoRowsYet, runs |-> <<>>]
WorkFiles ==
    [manifest : [JobIds -> {"absent", "running"} \union JobEnds],
     logs : [JobIds -> {"open"} \union JobEnds],
     scheduler : BOOLEAN,
     flow : {"absent", "running", "complete"},
     meta : [ChildIds -> {"absent", "running", "completed"}]]

WorkInit ==
    /\ story \in Stories
    /\ events = <<>> /\ facts = 0
    /\ files = [manifest |-> [j \in JobIds |-> "absent"],
                logs |-> [j \in JobIds |-> "open"], scheduler |-> FALSE,
                flow |-> "absent", meta |-> [c \in ChildIds |-> "absent"]]
    /\ build = NoBuild /\ rowCache = NothingCached /\ answer = NoAnswer
    /\ screen = [at |-> "idle", tab |-> "timeline", selecting |-> FALSE, keys |-> 0,
                 held |-> NothingHeld, drawn |-> NothingHeld, paint |-> FALSE,
                 fp |-> <<>>, opened |-> <<>>]

-----------------------------------------------------------------------------
(* The agent.                                                              *)

Writes == facts < MaxFacts /\ facts' = facts + 1
Has(types, id) == Of(events, types, id) # {}
Logs(type, id, name) ==
    /\ Writes
    /\ events' = Append(events, Event(type, id, name))
    /\ UNCHANGED <<story, files, build, rowCache, answer, screen>>
Saves(new) ==
    /\ Writes
    /\ files' = new
    /\ UNCHANGED <<story, events, build, rowCache, answer, screen>>

JobStarts(j) == /\ story = "jobs" /\ ~Has(JobTypes, j)
                /\ Logs("task_backgrounded", j, "")
JobEndsInTimeline(j) ==
    /\ story = "jobs"
    /\ files.manifest[j] # "absent" \/ Has(JobTypes, j)
    /\ ~Has(TaskEnds, j)
    /\ \E type \in TaskEnds : Logs(type, j, "")
ManifestMoves(j) ==
    /\ story = "jobs"
    /\ \/ /\ files.manifest[j] = "absent"
          /\ Saves([files EXCEPT !.manifest[j] = "running"])
       \/ /\ files.manifest[j] = "running"
          /\ \E s \in JobEnds : Saves([files EXCEPT !.manifest[j] = s])
LogCloses(j) ==
    /\ story = "jobs" /\ files.logs[j] = "open"
    /\ files.manifest[j] # "absent" \/ Has(JobTypes, j)
    /\ \E s \in JobEnds : Saves([files EXCEPT !.logs[j] = s])

ScheduleSpeaks ==
    /\ story = "flows"
    /\ \/ \E type \in ScheduleTypes : Logs(type, "task", "")
       \/ /\ ~files.scheduler
          /\ Saves([files EXCEPT !.scheduler = TRUE])
FlowMoves ==
    /\ story = "flows"
    /\ \/ Logs("workflow", "", "flow")
       \/ Logs("workflow", "run", "")
       \/ /\ files.flow = "absent"
          /\ Saves([files EXCEPT !.flow = "running"])
       \/ /\ files.flow = "running"
          /\ Saves([files EXCEPT !.flow = "complete"])

ChildSpawns(c) == /\ story = "children" /\ ~Has({"subagent_spawned"}, c)
                  /\ Logs("subagent_spawned", c, "")
ChildFinishes(c) ==
    /\ story = "children" /\ ~Has(ChildEnds, c)
    /\ files.meta[c] # "absent" \/ Has({"subagent_spawned"}, c)
    /\ \E type \in ChildEnds : Logs(type, c, "")
MetaMoves(c) ==
    /\ story = "children"
    /\ \/ /\ files.meta[c] = "absent"
          /\ Saves([files EXCEPT !.meta[c] = "running"])
       \/ /\ files.meta[c] = "running"
          /\ Saves([files EXCEPT !.meta[c] = "completed"])

AgentWorks ==
    \/ \E j \in JobIds : JobStarts(j) \/ JobEndsInTimeline(j)
                         \/ ManifestMoves(j) \/ LogCloses(j)
    \/ ScheduleSpeaks \/ FlowMoves
    \/ \E c \in ChildIds : ChildSpawns(c) \/ ChildFinishes(c) \/ MetaMoves(c)

-----------------------------------------------------------------------------
(* The owner builds an overview: SessionOverview.uncached, overview_rows.  *)

WalksBookends ==
    /\ build.at = "idle"
    /\ build' = [NoBuild EXCEPT !.at = "runs", !.events = events]
    /\ UNCHANGED <<story, events, files, facts, rowCache, answer, screen>>
ReadsMetas ==
    /\ build.at = "runs"
    /\ build' = [build EXCEPT !.at = "stamp", !.runs = RunRows(build.events, files.meta)]
    /\ UNCHANGED <<story, events, files, facts, rowCache, answer, screen>>

\* job_input_stamp: the logs of monitors only, by what their last 512 bytes
\* say, where the rows read the last 4000 characters.
LastLineClass(f, j) == IF j \in LongEnds THEN "open" ELSE f.logs[j]
JobInputStamp(f) == <<f.manifest, f.scheduler, f.flow,
                      [j \in Monitors |-> LastLineClass(f, j)]>>
\* bookend_key: a finish does not say which.
Identity(event) ==
    <<IF event.type \in TaskEnds THEN "task_completed" ELSE event.type, event.id>>
\* Mutated: a schedule's bookends are not part of the key.
BookendKeyJobs(evs) ==
    LET rows == Picked(evs, OfType(evs, JobTypes)) IN [n \in DOMAIN rows |-> Identity(rows[n])]
BookendKey(evs) ==
    LET rows == Picked(evs, OfType(evs, JobTypes \union ScheduleTypes))
    IN [n \in DOMAIN rows |-> Identity(rows[n])]
RowsKey(f, evs) == <<JobInputStamp(f), BookendKey(evs)>>
\* Mutated: rows taken from the cache keep the places they were cached with.
Repointed_Cached(b, rows) == rows
Repointed(b, rows) == [jobs |-> Pointed(b.events, "jobs", rows.jobs),
                       schedules |-> Pointed(b.events, "schedules", rows.schedules),
                       flows |-> Pointed(b.events, "flows", rows.flows)]
Answers(b, rows) ==
    /\ answer' = [events |-> b.events, runs |-> b.runs, rows |-> Repointed(b, rows)]
    /\ build' = NoBuild
LooksUpRows ==
    /\ build.at = "stamp"
    /\ LET key == RowsKey(files, build.events)
       IN \/ /\ rowCache.key = key
             /\ Answers(build, rowCache.rows)
          \/ /\ rowCache.key # key
             /\ build' = [build EXCEPT !.at = "manifest", !.key = key]
             /\ UNCHANGED answer
    /\ UNCHANGED <<story, events, files, facts, rowCache, screen>>
ReadsManifest ==
    /\ build.at = "manifest"
    /\ build' = [build EXCEPT !.at = "logs", !.manifest = files.manifest,
                              !.held = files.scheduler]
    /\ UNCHANGED <<story, events, files, facts, rowCache, answer, screen>>
ReadsLogs ==
    /\ build.at = "logs"
    /\ build' = [build EXCEPT !.at = "flows",
                   !.rows.jobs = JobRows(build.events, build.manifest, files.logs),
                   !.rows.schedules = ScheduleRows(build.events, build.held)]
    /\ UNCHANGED <<story, events, files, facts, rowCache, answer, screen>>
ReadsFlows ==
    /\ build.at = "flows"
    /\ LET rows == [build.rows EXCEPT !.flows = FlowRows(files.flow)]
       IN /\ rowCache' = [key |-> build.key, rows |-> rows]
          /\ Answers(build, rows)
    /\ UNCHANGED <<story, events, files, facts, screen>>

Owner == WalksBookends \/ ReadsMetas \/ LooksUpRows \/ ReadsManifest
         \/ ReadsLogs \/ ReadsFlows

-----------------------------------------------------------------------------
(* The screen: _load_data_light_job attached, _populate_ui_light, the      *)
(* Summary tables and their Enter.                                         *)

Faces(rows) == [i \in DOMAIN rows |-> <<rows[i].id, rows[i].status>>]
\* _jobs_status_key; the schedule's times are left out, as of its rows.
JobsStatusKey(held) == <<Faces(held.rows.jobs), Faces(held.rows.flows)>>
Fingerprint(held) == <<held.total, JobsStatusKey(held)>>

\* The worker thread replaces the lists, then goes on for the timeline.
ScreenFetches ==
    /\ screen.at = "idle"
    /\ LET held == [total |-> Len(answer.events), rows |-> answer.rows,
                    runs |-> answer.runs]
       IN screen' = [screen EXCEPT !.at = "grow", !.held = held,
             !.paint = \/ held.total # screen.held.total
                       \/ JobsStatusKey(held) # JobsStatusKey(screen.held)]
    /\ UNCHANGED <<story, events, files, facts, build, rowCache, answer>>
ScreenGrows ==
    /\ screen.at = "grow"
    /\ screen' = [screen EXCEPT !.at = IF screen.paint THEN "populate" ELSE "idle"]
    /\ UNCHANGED <<story, events, files, facts, build, rowCache, answer>>
ScreenPopulates ==
    /\ screen.at = "populate"
    /\ LET changed == Fingerprint(screen.held) # screen.fp
           showing == screen.tab = "summary" /\ ~screen.selecting
       IN screen' = [screen EXCEPT !.at = "idle", !.paint = FALSE,
             !.fp = Fingerprint(screen.held),
             !.drawn = IF changed /\ showing THEN screen.held ELSE @]
    /\ UNCHANGED <<story, events, files, facts, build, rowCache, answer>>
Presses(r) ==
    /\ screen.keys < MaxKeys
    /\ screen' = [r EXCEPT !.keys = @ + 1]
    /\ UNCHANGED <<story, events, files, facts, build, rowCache, answer>>
\* Coming to the pane paints it.
TabSwitches ==
    Presses(IF screen.tab = "summary" THEN [screen EXCEPT !.tab = "timeline"]
            ELSE [screen EXCEPT !.tab = "summary", !.drawn = screen.held])
SelectsText == Presses([screen EXCEPT !.selecting = ~@])
\* A row's key is its place; Enter looks that place up in the list now held.
EntersRow(drawn, held, i) ==
    /\ screen.tab = "summary" /\ i \in DOMAIN drawn \intersect DOMAIN held
    /\ Presses([screen EXCEPT !.opened = <<drawn[i].id, held[i].id>>])
Enters ==
    \/ \E i \in 1 .. Len(Jobs) : EntersRow(screen.drawn.rows.jobs, screen.held.rows.jobs, i)
    \/ \E i \in 1 .. Len(Children) : EntersRow(screen.drawn.runs, screen.held.runs, i)

Operator == TabSwitches \/ SelectsText \/ Enters
WorkNext == AgentWorks \/ Owner \/ ScreenFetches \/ ScreenGrows \/ ScreenPopulates
            \/ Operator
WorkSpec == WorkInit /\ [][WorkNext]_workVars

-----------------------------------------------------------------------------
\* Variables have the shape the actions rely on.
WorkTypeOK ==
    /\ story \in Stories /\ facts \in 0 .. MaxFacts
    /\ files \in WorkFiles
    /\ build.at \in {"idle", "runs", "stamp", "manifest", "logs", "flows"}
    /\ screen.at \in {"idle", "grow", "populate"}

\* What the pane shows finished, a job by the timeline, the manifest or its
\* log, a child by its bookend or its meta.json, is never shown running
\* again, in whatever order the files said so and whichever were read.
ShownFinished(rows, id) ==
    \E i \in DOMAIN rows : rows[i].id = id /\ rows[i].status # "running"
FinishIsKept ==
    [][/\ \A j \in JobIds : ShownFinished(screen.drawn.rows.jobs, j)
                            => ShownFinished(screen'.drawn.rows.jobs, j)
       /\ \A c \in ChildIds : ShownFinished(screen.drawn.runs, c)
                              => ShownFinished(screen'.drawn.runs, c)]_workVars

\* A row leads where its own search of the timeline would, of the bookends
\* this overview was built on: also when the rows came from the cache, whose
\* key does not cover a workflow's bookends.
RowsLeadRight ==
    \A kind \in {"jobs", "schedules", "flows"} :
        \A i \in DOMAIN answer.rows[kind] :
            answer.rows[kind][i].at
              = LeadsTo(answer.events, kind, answer.rows[kind][i].id)

\* Rows about to be taken from the cache are those the files would give, in
\* their order, but for a log that closed unseen: job_input_stamp omits the
\* logs of shells, and reads less of a monitor's than the rows do.
RowsAreFresh ==
    LET cached == rowCache.rows.jobs
        now == JobRows(build.events, files.manifest, files.logs)
        Covered(j) == j \in Monitors \ LongEnds \/ files.logs[j] = "open"
    IN build.at = "stamp" /\ rowCache.key = RowsKey(files, build.events)
       => /\ DOMAIN cached = DOMAIN now
          /\ \A i \in DOMAIN now : /\ cached[i].id = now[i].id
                                   /\ Covered(now[i].id) => cached[i] = now[i]
          /\ rowCache.rows.flows = FlowRows(files.flow)
          /\ rowCache.rows.schedules = ScheduleRows(build.events, files.scheduler)

=============================================================================
