---------------------------- MODULE MCOwnerViews ----------------------------
(* What an owner answers and announces, in one model-checking run: its     *)
(* connections and the handlers behind them (ControlServer), the views of  *)
(* a session it keeps (SessionViews), the snapshot of the catalog it       *)
(* starts from (CatalogSnapshot) and the copies and deletions it carries   *)
(* out (SessionArchives).  The parts share no state: a behaviour runs one  *)
(* of them and leaves the others as they began.                            *)
EXTENDS ControlServer, SessionViews, CatalogSnapshot, SessionArchives

VARIABLE part   \* the part that runs

ownerVars == <<part, serverVars, viewVars, snapshotVars, archiveVars>>

\* One asker connected and one that connects, one listener, two sessions.
CatalogOrder == <<"s1", "s2">>
CallsOf == [c \in {"a1", "a2"} |->
               IF c = "a1" THEN {"tags", "notes"} ELSE {"import", "list"}]
\* A session whose notes and events change once each.
MovesOf == [notes |-> 1, events |-> 1, jobs |-> 0]

\* A part that is left alone starts without a snapshot and without sessions.
Empty == snapshot = NoFile /\ \A s \in SessionDirs : store[s] = [version |-> 0, live |-> FALSE]
OwnerInit ==
    /\ part \in {"server", "views", "snapshot", "archives"}
    /\ ServerInit /\ ViewsInit /\ SnapshotInit /\ ArchivesInit
    /\ part = "snapshot" \/ Empty
    /\ part = "archives" \/ harness = "codex"

Server == /\ part = "server" /\ ServerNext
          /\ UNCHANGED <<part, viewVars, snapshotVars, archiveVars>>
ViewsOf == /\ part = "views" /\ ViewsNext
           /\ UNCHANGED <<part, serverVars, snapshotVars, archiveVars>>
Snapshot == /\ part = "snapshot" /\ SnapshotNext
            /\ UNCHANGED <<part, serverVars, viewVars, archiveVars>>
Archives == /\ part = "archives" /\ ArchivesNext
            /\ UNCHANGED <<part, serverVars, viewVars, snapshotVars>>
OwnerNext == Server \/ ViewsOf \/ Snapshot \/ Archives

\* The fairness of each part, while it runs: ServerFairness and what ViewsSpec asks for.
OwnerFairness ==
    /\ WF_serverVars(part = "server" /\ Proceeds)
    /\ \A t \in Threads : WF_viewVars(part = "views" /\ Advances(t))
OwnerSpec == OwnerInit /\ [][OwnerNext]_ownerVars /\ OwnerFairness
=============================================================================
