--------------------------- MODULE SessionArchives ---------------------------
(* One session that is exported, imported and deleted, in the store of any *)
(* of the nine harnesses (harness/*.py, session/export_bundle.py,          *)
(* session/imports.py, session/delete.py).  What a harness keeps of a      *)
(* session is a few planes; a plane is the number of times its agent wrote *)
(* it, 0 when it is not there.  An import is a second copy of the planes,  *)
(* and the operator's notes belong to the id, not to a copy.               *)
EXTENDS Integers, Sequences, FiniteSets

CONSTANTS
    Harnesses,   \* the harnesses whose stores are used
    MaxWrites,   \* bound on what the agent and the operator write
    MaxBreaks,   \* bound on operations that break off
    MaxArchives, \* bound on the archives made
    NoArchive    \* no archive

ASSUME ArchivesAssumption ==
    /\ Harnesses \subseteq {"claude", "codex", "gemini", "pi", "grok", "cursor",
                            "antigravity", "opencode", "copilot"}
    /\ MaxWrites \in Nat /\ MaxBreaks \in Nat /\ MaxArchives \in Nat

-----------------------------------------------------------------------------
(* The stores.  Of each harness: what kind of thing a locator is, the      *)
(* planes of a session, the plane that makes it one (key), whether         *)
(* bind_locator accepts the key where an archive was extracted (binds),    *)
(* whether discover lists an import (lists), the planes it finds of an     *)
(* import (sees), those it looks up in the host's tree even then           *)
(* (borrows), and those whose rows an archive's are added to (adds).       *)

Planes == {"trace", "chrome", "children", "db", "scratch"}

OneFile == [store |-> "file", planes |-> {"trace"}, key |-> "trace", binds |-> TRUE,
            lists |-> TRUE, sees |-> {"trace"}, borrows |-> {}, adds |-> {}]
CodexFiles == OneFile
GeminiFiles == OneFile
PiFiles == OneFile
\* Subagents are looked up beside the file, in <id>/subagents; an archive
\* holds them one directory up.
ClaudeFiles == [OneFile EXCEPT !.planes = {"trace", "children"}]
\* A transcript binds, and is listed, only below a directory agent-transcripts.
CursorFiles == [OneFile EXCEPT !.planes = {"trace", "chrome"}, !.binds = FALSE,
                               !.lists = FALSE, !.borrows = {"chrome"}]
\* The tree of a database is its parent's parent when that is named
\* conversations, else the host's.  discover looks for databases in one
\* directory, and an import lies in a folder below it.
AntigravityFiles == [OneFile EXCEPT !.planes = {"db", "trace", "chrome"}, !.key = "db",
                                    !.lists = FALSE,
                                    !.sees = {"db"}, !.borrows = {"trace", "chrome"}]
GrokFiles == [store |-> "directory", planes |-> {"trace", "chrome", "scratch"},
              key |-> "trace", binds |-> TRUE, lists |-> TRUE,
              sees |-> {"trace", "chrome", "scratch"}, borrows |-> {}, adds |-> {}]
\* The locator is the database of all sessions, which binds to none.
OpenCodeFiles == [store |-> "database", planes |-> {"trace", "chrome", "children"},
                  key |-> "chrome", binds |-> FALSE, lists |-> TRUE,
                  sees |-> {"trace", "chrome"}, borrows |-> {}, adds |-> {"trace"}]
\* An import is written under another name than the one discover looks for.
CopilotFiles == [OpenCodeFiles EXCEPT !.planes = {"trace", "chrome"}, !.lists = FALSE,
                                      !.adds = {}]

\* What the adapter does with them: the planes write_archive packs, in
\* order, and the steps of delete_session.
Sole == [packs |-> <<"trace">>, removes |-> <<{"trace"}>>]
Codex == Sole
Gemini == Sole
Pi == Sole
Claude_TraceOnly == [packs |-> <<"trace", "children">>, removes |-> <<{"trace"}>>]
Claude == [packs |-> <<"trace", "children">>, removes |-> <<{"children"}, {"trace"}>>]
Cursor == [packs |-> <<"trace", "chrome">>, removes |-> <<{"trace"}, {"chrome"}>>]
Antigravity == [packs |-> <<"db", "trace">>, removes |-> <<{"db"}, {"trace"}, {"chrome"}>>]
Grok == [packs |-> <<"chrome", "trace">>, removes |-> <<{"trace", "chrome", "scratch"}>>]
OpenCode == [packs |-> <<"chrome", "trace">>, removes |-> <<{"trace", "chrome", "children"}>>]
Copilot == [packs |-> <<"trace">>, removes |-> <<{"chrome"}, {"trace"}>>]

FilesOf == [claude |-> ClaudeFiles, codex |-> CodexFiles, gemini |-> GeminiFiles,
            pi |-> PiFiles, grok |-> GrokFiles, cursor |-> CursorFiles,
            antigravity |-> AntigravityFiles, opencode |-> OpenCodeFiles,
            copilot |-> CopilotFiles]
AdapterOf == [claude |-> Claude, codex |-> Codex, gemini |-> Gemini, pi |-> Pi,
              grok |-> Grok, cursor |-> Cursor, antigravity |-> Antigravity,
              opencode |-> OpenCode, copilot |-> Copilot]

-----------------------------------------------------------------------------
VARIABLES
    harness,    \* the harness of the session
    host,       \* its planes in the host's store
    imports,    \* its planes in the import store
    notes,      \* the operator's notes in the overlay of its id
    archives,   \* the export bundles written so far
    operation,  \* the operation under way: what to pack or do, what is left to
                \* remove, what it holds, and whether the agent kept quiet
    writes,     \* how often the agent and the operator wrote
    breaks,     \* how often an operation broke off
    restored,   \* the archive of the last import that succeeded, if nothing followed
    told        \* what the last deletion said of which side, if nothing followed

archiveVars == <<harness, host, imports, notes, archives, operation, writes, breaks, restored, told>>

Store == FilesOf[harness]
Adapter == AdapterOf[harness]
NoPlanes == [p \in Planes |-> 0]
NoOperation == [op |-> "none", side |-> "host", todo |-> <<>>, left |-> <<>>,
                holds |-> NoPlanes, archive |-> NoArchive, quiet |-> TRUE]
NothingTold == [side |-> "host", says |-> "nothing"]

\* The planes the adapter reads for a copy: an import's are those it finds
\* there, and the host's where it looks in the host's tree.
Read(side) ==
    IF side = "host" THEN host
    ELSE [p \in Planes |-> IF p \in Store.borrows THEN host[p]
                           ELSE IF p \in Store.sees THEN imports[p] ELSE 0]

\* A copy discover finds.  Of a file or database store it keeps one ref of
\* each id, the host's first.
Found(side) == Read(side)[Store.key] > 0 /\ (side = "imports" => Store.lists)
Listed(side) == /\ Found(side)
                /\ side = "imports" /\ Store.store # "directory" => ~Found("host")

ArchivesInit ==
    /\ harness \in Harnesses
    /\ host = [p \in Planes |-> IF p \in Store.planes THEN 1 ELSE 0]
    /\ imports = NoPlanes
    /\ notes = 1 /\ archives = {} /\ operation = NoOperation
    /\ writes = 0 /\ breaks = 0
    /\ restored = NoArchive /\ told = NothingTold

-----------------------------------------------------------------------------
(* The agent and the operator.                                             *)

\* The agent writes a plane, maybe in the middle of an operation, maybe
\* after its session was deleted.
AgentWrites(p) ==
    /\ p \in Store.planes /\ writes < MaxWrites
    /\ writes' = writes + 1
    /\ host' = [host EXCEPT ![p] = @ + 1]
    /\ operation' = [operation EXCEPT !.quiet = FALSE]
    /\ told' = NothingTold
    /\ UNCHANGED <<harness, imports, notes, archives, breaks, restored>>

\* The operator edits the notes of the session, whichever copy is open.
OperatorNotes ==
    /\ Store.store # "directory" /\ writes < MaxWrites
    /\ writes' = writes + 1 /\ notes' = writes' + 1
    /\ UNCHANGED <<harness, host, imports, archives, operation, breaks, restored, told>>

OperationEnds == operation' = NoOperation

\* An operation meets a full disk, a file it may not write, or its process's
\* end.  What it packed is thrown away; what it extracted or removed stays
\* so, and of a directory any part may have been removed.
Breaks ==
    /\ operation.op # "none" /\ breaks < MaxBreaks
    /\ breaks' = breaks + 1 /\ OperationEnds
    /\ \/ UNCHANGED <<host, imports>>
       \/ /\ operation.op = "delete" /\ Store.store = "directory" /\ operation.left # <<>>
          /\ \E gone \in SUBSET Head(operation.left) :
                 LET Cut(copy) == [p \in Planes |-> IF p \in gone THEN 0 ELSE copy[p]]
                 IN IF operation.side = "host" THEN host' = Cut(host) /\ UNCHANGED imports
                                         ELSE imports' = Cut(imports) /\ UNCHANGED host
    /\ told' = IF operation.op = "delete" THEN [side |-> operation.side, says |-> "error"] ELSE told
    /\ UNCHANGED <<harness, notes, archives, writes, restored>>

-----------------------------------------------------------------------------
(* Export.                                                                 *)

\* export_session_bundle of a listed copy.
StartsExport(side) ==
    /\ operation = NoOperation /\ Listed(side) /\ Cardinality(archives) < MaxArchives
    /\ operation' = [NoOperation EXCEPT !.op = "export", !.side = side, !.todo = Adapter.packs]
    /\ UNCHANGED <<harness, host, imports, notes, archives, writes, breaks, restored, told>>

\* write_archive adds one plane after the other while the agent goes on.
\* The first must be there.
Packs ==
    /\ operation.op = "export" /\ operation.todo # <<>>
    /\ LET p == Head(operation.todo)
           there == Read(operation.side)[p] > 0
       IN IF ~there /\ p = Head(Adapter.packs) THEN OperationEnds
          ELSE operation' = [operation EXCEPT !.todo = Tail(@), !.holds[p] = Read(operation.side)[p]]
    /\ UNCHANGED <<harness, host, imports, notes, archives, writes, breaks, restored, told>>

\* The bundle takes the notes along, and replaces what is at its path when
\* it is complete.
Bundles ==
    /\ operation.op = "export" /\ operation.todo = <<>>
    /\ archives' = archives \cup {[planes |-> operation.holds, notes |-> notes]}
    /\ OperationEnds
    /\ UNCHANGED <<harness, host, imports, notes, writes, breaks, restored, told>>

-----------------------------------------------------------------------------
(* Import.                                                                 *)

\* import_session of a bundle, of the native archive in it, or of the
\* session's own directory, whose copy takes everything along.
StartsImport(kind) ==
    /\ operation = NoOperation
    /\ \E a \in IF kind = "directory" THEN {[planes |-> host, notes |-> 0]} ELSE archives :
           /\ kind = "directory" => Store.store = "directory" /\ Listed("host")
           /\ operation' = [NoOperation EXCEPT !.op = "import", !.side = "imports", !.archive = a,
                          !.todo = IF kind = "bundle" THEN <<"clear", "move", "bind", "notes">>
                                                      ELSE <<"clear", "copy", "bind">>]
    /\ restored' = NoArchive /\ told' = NothingTold
    /\ UNCHANGED <<harness, host, imports, notes, archives, writes, breaks>>

Step(s) == operation.op = "import" /\ operation.todo # <<>> /\ Head(operation.todo) = s
StepsOn == operation' = [operation EXCEPT !.todo = Tail(@)]

\* The earlier import is removed first.  A database's rows are not.
Clears_Nothing == Step("clear") /\ StepsOn /\ UNCHANGED imports
                  /\ UNCHANGED <<harness, host, notes, archives, writes, breaks, restored, told>>
Clears ==
    /\ Step("clear") /\ StepsOn
    /\ imports' = IF Store.store = "database" THEN imports ELSE NoPlanes
    /\ UNCHANGED <<harness, host, notes, archives, writes, breaks, restored, told>>

\* The extracted folder is moved to its place; what is in its way would
\* take it in as a folder of its own.  A database keeps what the archive does
\* not hold; what it holds replaces the old, but rows beyond its own stay.
MovesIn ==
    /\ Step("move") /\ StepsOn
    /\ LET Stays(p) == \/ operation.archive.planes[p] = 0
                       \/ p \in Store.adds /\ imports[p] > operation.archive.planes[p]
       IN imports' = CASE Store.store = "database" ->
                              [p \in Planes |-> IF Stays(p) THEN imports[p]
                                                ELSE operation.archive.planes[p]]
                       [] imports[Store.key] > 0 -> imports
                       [] OTHER -> operation.archive.planes
    /\ UNCHANGED <<harness, host, notes, archives, writes, breaks, restored, told>>

\* _copy_bound_session copies the locator to a name without a suffix: a
\* directory is copied whole, of a file is left what no adapter reads.
Copies ==
    /\ Step("copy") /\ StepsOn
    /\ imports' = IF Store.store = "directory" THEN operation.archive.planes ELSE imports
    /\ UNCHANGED <<harness, host, notes, archives, writes, breaks, restored, told>>

Succeeds == OperationEnds /\ restored' = operation.archive

\* The adapter binds what is there now, or the import fails.
Binds ==
    /\ Step("bind")
    /\ LET copied == Len(operation.todo) = 1   \* a native archive or a directory
       IN IF copied THEN IF Store.store = "directory" THEN Succeeds
                         ELSE OperationEnds /\ UNCHANGED restored
          ELSE IF Store.binds \/ Store.store = "database" THEN StepsOn /\ UNCHANGED restored
          ELSE OperationEnds /\ UNCHANGED restored
    /\ UNCHANGED <<harness, host, imports, notes, archives, writes, breaks, told>>

\* The notes of a bundle go to the overlay of the session's id.
RestoresNotes ==
    /\ Step("notes") /\ Succeeds
    /\ notes' = IF Store.store = "directory" THEN notes ELSE operation.archive.notes
    /\ UNCHANGED <<harness, host, imports, archives, writes, breaks, told>>

-----------------------------------------------------------------------------
(* Deletion.                                                               *)

\* delete_session_dirs of a locator, as the owner passes it on, or of
\* harness:id, as a terminal without an owner does for the host's sessions.
\* The path of a database names no session.
StartsDelete(side, by) ==
    /\ operation = NoOperation /\ Listed(side)
    /\ by = "id" => side = "host"
    /\ IF by = "path" /\ Store.store = "database"
       THEN told' = [side |-> side, says |-> "missing"] /\ UNCHANGED operation
       ELSE /\ operation' = [NoOperation EXCEPT !.op = "delete", !.side = side, !.left = Adapter.removes]
            /\ told' = NothingTold
    /\ restored' = IF side = "imports" THEN NoArchive ELSE restored
    /\ UNCHANGED <<harness, host, imports, notes, archives, writes, breaks>>

\* One step of delete_session, in the tree the adapter derives from the locator.
Removes ==
    /\ operation.op = "delete" /\ operation.left # <<>>
    /\ LET set == Head(operation.left)
           OfHost(p) == p \in set /\ (operation.side = "host" \/ p \in Store.borrows)
           OfImports(p) == p \in set /\ operation.side = "imports" /\ p \in Store.sees
       IN /\ host' = [p \in Planes |-> IF OfHost(p) THEN 0 ELSE host[p]]
          /\ imports' = [p \in Planes |-> IF OfImports(p) THEN 0 ELSE imports[p]]
    /\ operation' = [operation EXCEPT !.left = Tail(@)]
    /\ UNCHANGED <<harness, notes, archives, writes, breaks, restored, told>>

AnswersDelete ==
    /\ operation.op = "delete" /\ operation.left = <<>>
    /\ told' = IF operation.quiet THEN [side |-> operation.side, says |-> "deleted"] ELSE NothingTold
    /\ OperationEnds
    /\ UNCHANGED <<harness, host, imports, notes, archives, writes, breaks, restored>>

-----------------------------------------------------------------------------
ArchivesNext ==
    \/ \E p \in Planes : AgentWrites(p)
    \/ OperatorNotes \/ Breaks
    \/ \E side \in {"host", "imports"} : StartsExport(side)
    \/ Packs \/ Bundles
    \/ \E kind \in {"bundle", "native", "directory"} : StartsImport(kind)
    \/ Clears \/ MovesIn \/ Copies \/ Binds \/ RestoresNotes
    \/ \E side \in {"host", "imports"}, by \in {"path", "id"} : StartsDelete(side, by)
    \/ Removes \/ AnswersDelete

ArchivesSpec == ArchivesInit /\ [][ArchivesNext]_archiveVars

-----------------------------------------------------------------------------
(* What must hold.                                                         *)

CopyOfPlanes == [Planes -> 0..MaxWrites + 1]
Archive == [planes : CopyOfPlanes, notes : 0..MaxWrites + 1]

\* The copies and archives hold versions that were written, and an
\* operation's archive is one that exists or a directory's.
ArchivesTypeOK ==
    /\ host \in CopyOfPlanes /\ imports \in CopyOfPlanes
    /\ notes \in 0..MaxWrites + 1
    /\ archives \subseteq Archive
    /\ operation.op \in {"none", "export", "import", "delete"}
    /\ operation.holds \in CopyOfPlanes
    /\ operation.archive \in Archive \cup {NoArchive}
    /\ restored \in Archive \cup {NoArchive}

\* An import that succeeded shows the trace its archive holds, whatever was
\* imported before it or broke off on the way ("Re-import of the same
\* harness + id replaces", imports.py import_session): of every store whose
\* import is a file or directory of its own.
ImportedIsArchived ==
    restored # NoArchive /\ Store.store # "database" /\ Store.borrows = {}
    => /\ Found("imports")
       /\ Read("imports")["trace"] = restored.planes["trace"]

\* A deletion that reports no error leaves nothing of the session that its
\* adapter reads, unless the agent wrote it again (delete.py delete_session_dirs).
AnsweredDeletesAreGone ==
    told.says = "deleted" => \A p \in Planes : Read(told.side)[p] = 0

\* A deletion calls a session missing only when it is not there: it deletes
\* "every store locator: directory, file, or database row".
MissingIsMissing == told.says = "missing" => ~Listed(told.side)

=============================================================================
