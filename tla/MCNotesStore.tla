---------------------------- MODULE MCNotesStore ----------------------------
(* NotesStore in two kinds of behaviour: several editors whose owner answers   *)
(* unless it dies, and one editor of the TUI that may tire of waiting and make *)
(* on the disk the edit the living owner is making too.  GuardedNotes promises *)
(* nothing about an edit that is made twice: its promise is checked up to      *)
(* there, and that there is an answer beyond it.                               *)
EXTENDS NotesStore

VARIABLE waits      \* "long": no editor tires; "short": the only one may; "over": it has

TimedVars == <<vars, waits>>
TimedInit == Init /\ waits \in {"long", "short"}
EditorActs(e) == Look(e) \/ LookOn(e) \/ Send(e) \/ Resort(e) \/ GiveUp(e)
TimedNext ==
    \/ /\ UNCHANGED waits
       /\ \/ Remount \/ Crash
          \/ \E e \in Editors : EditorActs(e) /\ (waits = "long" \/ e \in Local)
          \/ \E p \in Processes, e \in Editors : JobStep(p, e)
    \/ waits # "long" /\ waits' = "over" /\ \E e \in Editors : Timeout(e)
TimedSpec ==
    /\ TimedInit /\ [][TimedNext]_TimedVars
    /\ \A e \in Editors : WF_TimedVars(EditStep(e) /\ UNCHANGED waits)

\* The owner and, once it is gone, a TUI keep the promise of GuardedNotes, as
\* long as no editor turns to the disk while the owner lives (notes.py,
\* upsert_note and delete_note).
PromiseKeptByOne ==
    /\ Promise!Init
    /\ [][waits' = "over" \/ Promise!Next]_<<Promise!vars, waits>>

\* An edit that was sent is answered, whatever becomes of the owner or of the
\* directory: with an error only if there is no owner and no disk to resort to,
\* or if owner and TUI took the temporary file from one another.
SentIsAnswered ==
    \A e \in Editors :
        (editor[e].snap.pc = "sent")
            ~> (\/ editor[e].snap.pc \in {"saved", "conflict"}
                \/ editor[e].snap.pc = "failed" /\ (waits = "over" \/ (e \notin Local /\ Owner \notin up)))
=============================================================================
