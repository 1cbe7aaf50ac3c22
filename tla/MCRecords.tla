----------------------------- MODULE MCRecords -----------------------------
(* What is read from the records of a session and of the operator, in one     *)
(* model-checked run: background work (SessionWork), the query language       *)
(* (QueryLanguage), the Diff (WorkspaceDiff), the usage page (UsageCounts),   *)
(* keys.toml (MCKeyOverlay) and config.toml (PrefsFile).  The parts share no  *)
(* state: a behaviour runs one of them and leaves the others as they began.   *)
EXTENDS SessionWork, QueryLanguage, WorkspaceDiff, UsageCounts, MCKeyOverlay, PrefsFile

VARIABLE part   \* the part that runs

RecordParts == {"work", "query", "diff", "usage", "keys", "prefs"}

TwoJobs == <<"j1", "j2">>
TwoChildren == <<"c1", "c2">>
TwoPaths == <<"a", "b">>
SomeFinds == {{}, {"a"}, {"x"}, {"x", "y"}}

\* What the launch files may name, of two servers and a skill.
Names(mcp, skills, disabled) == [mcp |-> mcp, skills |-> skills, disabled |-> disabled]
NoNames == Names({}, {}, {})
SomeLaunches ==
    {[run |-> Names(r, {}, {}), toml |-> <<t, Names({"s"}, {}, {})>>,
      announced |-> Names(a, {"k"}, {}), mounted |-> {}] :
        r \in {{}, {"s", "t"}}, a \in {{}, {"t"}}, t \in {NoNames, Names({"t"}, {}, {"k"})}}
NoLaunch == [run |-> NoNames, toml |-> <<NoNames, Names({"s"}, {}, {})>>,
             announced |-> NoNames, mounted |-> {}]

recordVars == <<part, workVars, queryVars, diffVars, usageVars, keyVars, prefsVars>>

\* A part that does not run begins in one state.
RecordsInit ==
    /\ part \in RecordParts
    /\ WorkInit /\ (part = "work" \/ story = "jobs")
    /\ QueryInit /\ (part = "query" \/ (query = "presence" /\ session.store = "file"))
    /\ DiffInit /\ (part = "diff" \/ diffStore = "other")
    /\ IF part = "usage" THEN UsageInit ELSE launch = NoLaunch /\ calls = <<>> /\ page = NoPage
    /\ IF part = "keys" THEN keyFile \in KeyFiles ELSE keyFile = File("absent", Unset, Unset, {})
    /\ KeyInit
    /\ PrefsInit /\ (part = "prefs" \/ json = [there |-> FALSE, doc |-> [Blank EXCEPT !["theme"] = 1]])

Work == part = "work" /\ WorkNext
        /\ UNCHANGED <<part, queryVars, diffVars, usageVars, keyVars, prefsVars>>
Query == part = "query" /\ QueryNext
         /\ UNCHANGED <<part, workVars, diffVars, usageVars, keyVars, prefsVars>>
Diff == part = "diff" /\ DiffNext
        /\ UNCHANGED <<part, workVars, queryVars, usageVars, keyVars, prefsVars>>
Usage == part = "usage" /\ UsageNext
         /\ UNCHANGED <<part, workVars, queryVars, diffVars, keyVars, prefsVars>>
KeyMap == part = "keys" /\ KeyNext
          /\ UNCHANGED <<part, workVars, queryVars, diffVars, usageVars, prefsVars>>
Prefs == part = "prefs" /\ PrefsNext
         /\ UNCHANGED <<part, workVars, queryVars, diffVars, usageVars, keyVars>>
RecordsNext == Work \/ Query \/ Diff \/ Usage \/ KeyMap \/ Prefs

RecordsSpec == RecordsInit /\ [][RecordsNext]_recordVars
=============================================================================
