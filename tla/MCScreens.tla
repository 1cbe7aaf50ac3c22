----------------------------- MODULE MCScreens -----------------------------
(* What a terminal interface keeps on its screens, in one model-checking   *)
(* run: the list it reads from the disk without an owner (OfflineHome), the *)
(* timeline pages it fetches from one (TimelinePages), the rows of a       *)
(* timeline and their turns (TimelineTable), and the search of its events  *)
(* (EventSearch).  The parts share no state: a behaviour runs one of them  *)
(* and leaves the others as they began.                                    *)
EXTENDS TimelinePages, TimelineTable, OfflineHome, EventSearch

VARIABLE part   \* the part that runs

screensVars == <<part, timelineVars, tableVars, homeVars, searchVars>>

TurnOfInstance == <<1, 1, 2, 2, 2, 2>>

ScreensInit ==
    /\ part \in {"pages", "table", "offline", "search"}
    /\ TimelineInit /\ TableInit /\ OfflineInit /\ SearchInit
    /\ part = "offline" \/ \A s \in Rows : disk[s] = "absent"
    /\ part = "search" \/ ~stamped
    /\ part = "table" \/ store = "directory"

Pages == part = "pages" /\ TimelineNext /\ UNCHANGED <<part, tableVars, homeVars, searchVars>>
Table == part = "table" /\ TableNext /\ UNCHANGED <<part, timelineVars, homeVars, searchVars>>
Offline == part = "offline" /\ OfflineNext /\ UNCHANGED <<part, timelineVars, tableVars, searchVars>>
Search == part = "search" /\ SearchNext /\ UNCHANGED <<part, timelineVars, tableVars, homeVars>>
ScreensNext == Pages \/ Table \/ Offline \/ Search

\* The fairness of each part, while it runs: what TimelineSpec and
\* OfflineFairness ask for.
Runs(action) == part = "offline" /\ action
ScreensFairness ==
    /\ WF_timelineVars(part = "pages" /\ PassStep)
    /\ \A l \in Loaders : WF_homeVars(Runs(LoadSteps(l)))
    /\ WF_homeVars(Runs(Tick)) /\ WF_homeVars(Runs(ScanSteps))
    /\ WF_homeVars(Runs(Beat)) /\ WF_homeVars(Runs(BeatSteps))
    /\ \A s \in Rows : WF_homeVars(Runs(RefreshEnds(s)))
    /\ WF_homeVars(Runs(Deletes)) /\ WF_homeVars(Runs(DropsRows))

ScreensSpec == ScreensInit /\ [][ScreensNext]_screensVars /\ ScreensFairness
=============================================================================
