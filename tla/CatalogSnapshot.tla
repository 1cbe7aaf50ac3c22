-------------------------- MODULE CatalogSnapshot --------------------------
(***************************************************************************)
(* The snapshot file of one catalog root (anqa/session/mtime_export.py):   *)
(* the list rows of its sessions and the stamps they were built under.     *)
(* Whoever lists the root stamps every session, takes over the rows whose  *)
(* stamps have not moved, builds the others, and writes the file again.    *)
(* The owner may be stopped between any two steps, the agents go on        *)
(* writing meanwhile, and an older release may have left its file behind.  *)
(*                                                                         *)
(* A session is the version of its files (which is its stamp) and whether  *)
(* its last turn still counts as live, which also the clock decides.       *)
(***************************************************************************)
EXTENDS Naturals

CONSTANTS
    SessionDirs,    \* session directories the root may come to have
    Builders,    \* processes that list the root
    MaxVersion,  \* bound: how often the files of a session change
    MaxBuilds,    \* bound: calls of load_or_rebuild_catalog
    None

ASSUME SnapshotAssumption == MaxVersion \in Nat \ {0} /\ MaxBuilds \in Nat

VARIABLES
    store,     \* store[s]: the session on disk
    snapshot,  \* the file
    builder,   \* builder[b]: the call that b is in
    calls      \* calls so far

snapshotVars == <<store, snapshot, builder, calls>>

Versions == 0 .. MaxVersion
NoStamps == [s \in SessionDirs |-> 0]
NoneBuilt == [s \in SessionDirs |-> None]
BuiltRows == [version : Versions, live : BOOLEAN]

\* The file: there or not, cut off by a crash, or whole; of this release or not.
Payload(stamps, rows) == [form |-> "whole", stamps |-> stamps, rows |-> rows]
NoFile == [Payload(NoStamps, NoneBuilt) EXCEPT !.form = "absent"]
TornFile == [NoFile EXCEPT !.form = "torn"]
Readable(x) == x.form \in {"whole", "older"}

There == {s \in SessionDirs : store[s].version > 0}
IdleBuilder == [pc |-> "idle", dirs |-> {}, todo |-> {}, stamps |-> NoStamps, cached |-> NoFile,
                rows |-> NoneBuilt, changed |-> FALSE, asked |-> NoStamps]

SnapshotInit ==
    /\ store \in [SessionDirs -> [version : {0, 1}, live : BOOLEAN]]
    /\ snapshot \in {NoFile} \union
          {[form |-> "older", stamps |-> [s \in SessionDirs |-> store[s].version],
            rows |-> [s \in SessionDirs |-> IF s \in There THEN [version |-> 0, live |-> FALSE] ELSE None]]}
    /\ builder = [b \in Builders |-> IdleBuilder]
    /\ calls = 0

-----------------------------------------------------------------------------
\* An agent writes its session; a turn nobody writes to stops being live.
Writes(s) ==
    /\ store[s].version < MaxVersion
    /\ \E live \in BOOLEAN : store' = [store EXCEPT ![s] = [version |-> @.version + 1, live |-> live]]
    /\ UNCHANGED <<snapshot, builder, calls>>
Settles(s) ==
    /\ store[s].live
    /\ store' = [store EXCEPT ![s].live = FALSE]
    /\ UNCHANGED <<snapshot, builder, calls>>

BuilderGoes(b, you) == builder' = [builder EXCEPT ![b] = you]

\* load_or_rebuild_catalog lists the directories and stamps them one by one.
ListsDirs(b) ==
    /\ builder[b].pc = "idle" /\ calls < MaxBuilds
    /\ calls' = calls + 1
    /\ BuilderGoes(b, [IdleBuilder EXCEPT !.pc = "stamp", !.dirs = There, !.todo = There,
                                   !.asked = [s \in SessionDirs |-> store[s].version]])
    /\ UNCHANGED <<store, snapshot>>
TakesStamps(b) ==
    /\ builder[b].pc = "stamp"
    /\ IF builder[b].todo = {} THEN BuilderGoes(b, [builder[b] EXCEPT !.pc = "read"])
       ELSE \E s \in builder[b].todo :
               BuilderGoes(b, [builder[b] EXCEPT !.todo = @ \ {s}, !.stamps[s] = store[s].version])
    /\ UNCHANGED <<store, snapshot, calls>>

\* _read_payload, and once more in export_is_stale.
ReadsFile(b) ==
    /\ builder[b].pc = "read"
    /\ BuilderGoes(b, [builder[b] EXCEPT !.pc = "check", !.cached = snapshot])
    /\ UNCHANGED <<store, snapshot, calls>>
Stale(b) == snapshot.form # "whole" \/ snapshot.stamps # builder[b].stamps
NeedsRebuild(row) == row # None /\ row.live
Checks(b) ==
    /\ builder[b].pc = "check"
    /\ LET me == builder[b]
       IN IF Readable(me.cached) /\ ~Stale(b)
          THEN BuilderGoes(b, [me EXCEPT !.pc = "remap", !.rows = me.cached.rows,
                                  !.todo = {s \in me.dirs : NeedsRebuild(me.cached.rows[s])}])
          ELSE BuilderGoes(b, [me EXCEPT !.pc = "build", !.todo = me.dirs])
    /\ UNCHANGED <<store, snapshot, calls>>

\* build_row: what the session is now, or nothing if it cannot be read.
Built(s) == {None, [version |-> store[s].version, live |-> store[s].live]}

\* _refresh_live_rows: a row is taken anew if its chrome differs.
Chrome(new, old) == IF new.version = old.version THEN {new.live # old.live} ELSE BOOLEAN
Remaps(b) ==
    /\ builder[b].pc = "remap"
    /\ LET me == builder[b]
       IN IF me.todo = {} THEN BuilderGoes(b, [me EXCEPT !.pc = IF me.changed THEN "open" ELSE "answered"])
          ELSE \E s \in me.todo, row \in UNION {Built(x) : x \in me.todo} :
                  /\ row \in Built(s)
                  /\ IF row = None
                     THEN BuilderGoes(b, [me EXCEPT !.todo = @ \ {s}])
                     ELSE \E differs \in Chrome(row, me.rows[s]) :
                             BuilderGoes(b, [me EXCEPT !.todo = @ \ {s}, !.changed = @ \/ differs,
                                                !.rows[s] = IF differs THEN row ELSE @])
    /\ UNCHANGED <<store, snapshot, calls>>

\* Mutated: the row is reused whatever its stamp.
RowReusableAlways(me, s) == me.cached.form = "whole" /\ me.cached.rows[s] # None
\* _row_for_dir: the old row if its stamp is still the same and it has
\* settled; one that cannot be built anew is better than none.
RowReusable(me, s) ==
    /\ me.cached.form = "whole"
    /\ me.cached.stamps[s] = me.stamps[s]
    /\ me.cached.rows[s] # None
Builds(b) ==
    /\ builder[b].pc = "build"
    /\ LET me == builder[b]
       IN IF me.todo = {} THEN BuilderGoes(b, [me EXCEPT !.pc = "open"])
          ELSE \E s \in me.todo, row \in UNION {Built(x) : x \in me.todo} :
                  LET old == me.cached.rows[s]
                      kept == RowReusable(me, s) /\ (row = None \/ ~NeedsRebuild(old))
                  IN /\ row \in Built(s)
                     /\ BuilderGoes(b, [me EXCEPT !.todo = @ \ {s}, !.rows[s] = IF kept THEN old ELSE row])
    /\ UNCHANGED <<store, snapshot, calls>>

\* _write_snapshot truncates the file and writes it; what a longer text of
\* another process left behind makes it unreadable.
Opens(b) ==
    /\ builder[b].pc = "open"
    /\ snapshot' = TornFile
    /\ BuilderGoes(b, [builder[b] EXCEPT !.pc = "write"])
    /\ UNCHANGED <<store, calls>>
Saves(b) ==
    /\ builder[b].pc = "write"
    /\ snapshot' \in {Payload(builder[b].stamps, builder[b].rows)} \union
                     (IF snapshot = TornFile THEN {} ELSE {TornFile})
    /\ BuilderGoes(b, [builder[b] EXCEPT !.pc = "answered"])
    /\ UNCHANGED <<store, calls>>
Returns(b) ==
    /\ builder[b].pc = "answered"
    /\ BuilderGoes(b, IdleBuilder)
    /\ UNCHANGED <<store, snapshot, calls>>

\* The process ends where it is.
Stops(b) ==
    /\ builder[b].pc # "idle"
    /\ BuilderGoes(b, IdleBuilder)
    /\ UNCHANGED <<store, snapshot, calls>>

BuilderStep(b) ==
    \/ ListsDirs(b) \/ TakesStamps(b) \/ ReadsFile(b) \/ Checks(b) \/ Remaps(b) \/ Builds(b)
    \/ Opens(b) \/ Saves(b) \/ Returns(b)
SnapshotNext ==
    \/ \E s \in SessionDirs : Writes(s) \/ Settles(s)
    \/ \E b \in Builders : BuilderStep(b) \/ Stops(b)
SnapshotSpec == SnapshotInit /\ [][SnapshotNext]_snapshotVars

-----------------------------------------------------------------------------
SnapshotTypeOK ==
    /\ \A s \in SessionDirs : store[s] \in BuiltRows
    /\ snapshot.form \in {"absent", "torn", "older", "whole"}
    /\ snapshot.rows \in [SessionDirs -> BuiltRows \union {None}]
    /\ \A b \in Builders : builder[b].rows \in [SessionDirs -> BuiltRows \union {None}]
    /\ calls \in 0 .. MaxBuilds

\* "Reuse a cached row when that session's stamp ... is unchanged": whatever
\* was reused, built or left behind by a crash, a list never shows a session
\* as it was before the list was asked for.
ListIsCurrent ==
    \A b \in Builders, s \in SessionDirs :
       (builder[b].pc = "answered" /\ builder[b].rows[s] # None)
          => builder[b].rows[s].version >= builder[b].asked[s]
=============================================================================
