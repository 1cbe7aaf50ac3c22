--------------------------- MODULE OperatorProofs ---------------------------
(* What holds of the operator's own files.                                     *)
(*                                                                             *)
(* Notes, for any notes, editors, events and number of them: the state keeps   *)
(* its types, and two threads of one process are never inside a guarded edit   *)
(* at once; and the store implements GuardedNotes.                             *)
(*                                                                             *)
(* The keys, for every catalog, every keys.toml and any number of armings of   *)
(* the leader.                                                                 *)
(*                                                                             *)
(* config.toml, for every number of programs, settings and changes.  What a    *)
(* program keeps, and what a write under way will put into the file, is right  *)
(* for every key but those the writer is behind with (KeptRight, TasksRight):  *)
(* a failed save changes the document that is kept, but not the settings, and  *)
(* the next save writes all of them.                                           *)
(*                                                                             *)
(* The usage page, for whatever servers and skills the launch files name and   *)
(* any timeline: it counts every call once.                                    *)
(* After each call its pass holds, of every server, the number of the places  *)
(* so far that are its own (CountsAt), and the searches under a name no server *)
(* has.  The rows it makes of that (RowsFit) are one to a server, one for      *)
(* every server that was used, and one row has all the searches, in each of    *)
(* the three ways the code finds it a row.  So the places the rows count are   *)
(* disjoint and make up the calls, and a sum of the sizes of disjoint sets is  *)
(* the size of their union (SumIsCount).                                       *)
EXTENDS MCNotesStore, KeyOverlay, PrefsFile, UsageCounts, FunctionTheorems, FiniteSetTheorems,
        WellFoundedInduction, TLAPS


-----------------------------------------------------------------------------
\* Documents, files and revisions keep their types under the operations on them.
LEMMA DocTypes ==
    /\ NoDoc \in Docs /\ Absent \in FileState
    /\ \A x \in FileState : x.doc \in Docs /\ Hash(x) \in Revisions
    /\ \A d \in Docs, t \in Nat :
          File("whole", d, t) \in FileState /\ File("broken", d, t) \in FileState
          /\ File("blank", d, t) \in FileState
<1>1. NoDoc \in Docs
    BY DEF NoDoc, Docs
<1> QED BY <1>1 DEF Absent, FileState, Form, File, Hash, Revisions

\* An edited document is a document.
LEMMA EditedType ==
    ASSUME TypeOK, NEW e \in Editors, NEW d \in Docs
    PROVE  Edited(d, e) \in Docs
<1>1. want[e].note \in Notes
    BY DEF TypeOK, Wants
<1> QED BY <1>1 DEF Edited, Docs

\* A reader of the files is still one after its next step, and not yet at its end.
LEMMA ReaderType ==
    ASSUME TypeOK, NEW pcs, ReadPcs \subseteq pcs, NEW me \in Reader(pcs), Reading(me)
    PROVE  ReadOn(me) \in Reader(pcs) /\ ReadOn(me).pc \in {"fallback", "hash", "have"}
<1>1. /\ file \in [Files -> FileState] /\ "primary" \in Files /\ "fallback" \in Files
      /\ "primary" \in Sources /\ "fallback" \in Sources /\ "none" \in Sources
    BY DEF TypeOK, Files, Sources
<1>2. {"fallback", "hash", "have"} \subseteq pcs
    BY DEF ReadPcs
<1>3. LoadPrimary(me) \in Reader(pcs) /\ LoadPrimary(me).pc = "fallback"
    BY <1>1, <1>2 DEF LoadPrimary, Reader
<1>4. LoadFallback(me) \in Reader(pcs) /\ LoadFallback(me).pc = "hash"
    <2>1. CASE Newest(me.load, file["fallback"])
        BY <1>1, <1>2, <2>1 DEF LoadFallback, Reader
    <2>2. CASE ~ Newest(me.load, file["fallback"])
        <3>1. LoadFallback(me) =
                [me EXCEPT !.pc = "hash", !.load = IF Loads(@) THEN @ ELSE Absent]
            BY <2>2 DEF LoadFallback
        <3>2. (IF Loads(me.load) THEN me.load ELSE Absent) \in FileState
            BY DocTypes DEF Reader
        <3> QED BY <1>2, <3>1, <3>2 DEF Reader
    <2> QED BY <2>1, <2>2
<1>5. me.pc = "hash" => TakeHash(me) \in Reader(pcs) /\ TakeHash(me).pc = "have"
    <2>1. (IF me.src = "none" THEN Absent ELSE file[me.src]) \in FileState
        BY <1>1, DocTypes DEF Reader, Sources
    <2> QED BY <1>2, <2>1, DocTypes DEF TakeHash, Reader
<1> QED BY <1>3, <1>4, <1>5 DEF ReadOn, Reading

\* An editor that changes its place keeps its types.
LEMMA AtType ==
    ASSUME TypeOK, NEW e \in Editors, NEW x \in EditorPcs
    PROVE  At(e, x) \in EditorState
BY DEF TypeOK, At, EditorState, Reader

\* So does a thread that makes an edit.
LEMMA JobAtType ==
    ASSUME NEW me \in JobState, NEW x \in JobPcs
    PROVE  [me EXCEPT !.snap.pc = x] \in JobState /\ [me EXCEPT !.snap.pc = x].snap.pc = x
BY DEF JobState, Reader

\* The lock's part of TypeOK.
Locked == \A p \in Processes, e \in Editors : Inside(p, e) => holder[p] = e
Jobs == [Processes -> [Editors -> JobState]]

\* A thread that goes on, inside only if it was, leaves the jobs as they should be.
LEMMA JobStepType ==
    ASSUME TypeOK, NEW p \in Processes, NEW e \in Editors, NEW you \in JobState,
           SetJob(p, e, you), holder' = holder,
           you.snap.pc \in {"idle", "queued"} \/ Inside(p, e)
    PROVE  job' \in Jobs /\ Locked'
<1>1. job \in Jobs /\ Locked
    BY DEF TypeOK, Jobs, Locked
<1>2. job' = [job EXCEPT ![p][e] = you]
    BY DEF SetJob
<1>3. job' \in Jobs
    BY <1>1, <1>2 DEF Jobs
<1>4. ASSUME NEW q \in Processes, NEW d \in Editors, Inside(q, d)'
      PROVE  holder'[q] = d
    <2>1. CASE q = p /\ d = e
        <3>1. job'[p][e] = you
            BY <1>1, <1>2 DEF Jobs
        <3> QED BY <1>1, <1>4, <2>1, <3>1 DEF Inside, Locked
    <2>2. CASE ~ (q = p /\ d = e)
        <3>1. job'[q][d] = job[q][d]
            BY <1>1, <1>2, <2>2 DEF Jobs
        <3> QED BY <1>1, <1>4, <3>1 DEF Inside, Locked
    <2> QED BY <2>1, <2>2
<1> QED BY <1>3, <1>4 DEF Locked

\* A thread that is new waits for the lock.
LEMMA QueuedType ==
    IdleJob \in JobState /\ [IdleJob EXCEPT !.snap.pc = "queued"] \in JobState
    /\ IdleEditor \in EditorState
<1>1. Blind \in [pc: {"idle"}, load: FileState, src: Sources, rev: Revisions]
    BY DocTypes DEF Blind, Sources
<1> QED BY <1>1 DEF IdleJob, IdleEditor, JobState, EditorState, Reader, ReadPcs, JobPcs, EditorPcs, Files

\* So an editor that asks a process keeps the types, and takes no lock.
LEMMA AskType ==
    ASSUME TypeOK, NEW p \in Processes, NEW e \in Editors, Ask(e, p)
    PROVE  editor' \in [Editors -> EditorState] /\ job' \in Jobs /\ Locked'
<1>1. At(e, "sent") \in EditorState
    BY AtType DEF EditorPcs
<1>2. [At(e, "sent") EXCEPT !.asks = p] \in EditorState
    BY <1>1 DEF EditorState
<1>3. editor' \in [Editors -> EditorState]
    BY <1>2 DEF Ask, SetEditor, TypeOK
<1>4. [IdleJob EXCEPT !.snap.pc = "queued"].snap.pc = "queued"
    BY DEF IdleJob, Blind
<1>5. job' \in Jobs /\ Locked'
    BY <1>4, QueuedType, JobStepType DEF Ask
<1> QED BY <1>3, <1>5

\* The temporary and the final files keep their types in a save.
LEMMA SaveTypes ==
    ASSUME TypeOK, NEW f \in Files, NEW x \in FileState
    PROVE  [file EXCEPT ![f] = x] \in [Files -> FileState]
           /\ [tmp EXCEPT ![f] = x] \in [Files -> FileState]
BY DEF TypeOK

-----------------------------------------------------------------------------
\* The initial state has the types.
LEMMA InitType == Init => TypeOK
<1> SUFFICES ASSUME Init PROVE TypeOK
    OBVIOUS
<1>1. ASSUME NEW x \in {Old, None}
      PROVE  Was(x) \subseteq FileState
    <2>1. [n \in Notes |-> x] \in Docs
        BY DEF Docs
    <2> QED BY <2>1, DocTypes DEF Was
<1>2. file \in [Files -> FileState] /\ tmp \in [Files -> FileState]
    BY <1>1, DocTypes DEF Init
<1>3. editor \in [Editors -> EditorState] /\ job \in Jobs
    BY QueuedType DEF Init, Jobs
<1>4. Locked
    BY DEF Init, Locked, Inside, IdleJob, Blind
<1> QED BY <1>2, <1>3, <1>4, MaxEventsAssumption DEF Init, TypeOK, Jobs, Locked

-----------------------------------------------------------------------------
\* What editors and the environment do keeps the types.
LEMMA EditorsType ==
    ASSUME TypeOK, NEW e \in Editors,
           Look(e) \/ LookOn(e) \/ Send(e) \/ Resort(e) \/ Timeout(e) \/ GiveUp(e)
    PROVE  TypeOK'
<1> USE DEF diskVars
<1>1. Owner \in Processes /\ Tui \in Processes
    BY DEF Processes
<1>2. CASE Look(e)
    <2>1. At(e, "primary") \in EditorState
        BY AtType DEF EditorPcs, ReadPcs
    <2> QED BY <1>2, <2>1 DEF Look, SetEditor, TypeOK, Inside
<1>3. CASE LookOn(e)
    <2>1. editor[e] \in EditorState
        BY DEF TypeOK
    <2>2. ReadOn(editor[e].snap) \in Reader(EditorPcs)
        BY <1>3, <2>1, ReaderType DEF LookOn, EditorState, EditorPcs
    <2>3. [editor[e] EXCEPT !.snap = ReadOn(@)] \in EditorState
        BY <2>1, <2>2 DEF EditorState
    <2> QED BY <1>3, <2>3 DEF LookOn, SetEditor, TypeOK, Inside
<1>4. CASE Send(e)
    <2>1. Ask(e, Owner) /\ events' = events
        BY <1>4 DEF Send
    <2> QED BY <1>1, <2>1, AskType DEF Ask, TypeOK, Jobs, Locked
<1>5. CASE Resort(e)
    <2>1. Ask(e, Tui) /\ events' = events
        BY <1>5 DEF Resort
    <2> QED BY <1>1, <2>1, AskType DEF Ask, TypeOK, Jobs, Locked
<1>6. CASE Timeout(e)
    <2>1. Ask(e, Tui) /\ events' \in 0 .. MaxEvents
        BY <1>6, MaxEventsAssumption DEF Timeout, Event, TypeOK
    <2> QED BY <1>1, <2>1, AskType DEF Ask, TypeOK, Jobs, Locked
<1>7. CASE GiveUp(e)
    <2>1. At(e, "failed") \in EditorState
        BY AtType DEF EditorPcs
    <2> QED BY <1>7, <2>1 DEF GiveUp, SetEditor, TypeOK, Inside
<1> QED BY <1>2, <1>3, <1>4, <1>5, <1>6, <1>7

\* A remount and a crash keep the types; a crash also takes the owner's threads
\* out of their edits.
LEMMA EnvironmentType ==
    ASSUME TypeOK, Remount \/ Crash
    PROVE  TypeOK'
<1>1. CASE Remount
    BY <1>1, MaxEventsAssumption DEF Remount, Event, TypeOK, Inside
<1>2. CASE Crash
    <2>1. /\ job \in Jobs /\ Locked /\ Owner \in Processes
          /\ job' = [job EXCEPT ![Owner] = [e \in Editors |-> IdleJob]]
          /\ holder' = [holder EXCEPT ![Owner] = None]
        BY <1>2 DEF Crash, TypeOK, Jobs, Locked, Processes
    <2>2. job' \in Jobs
        BY <2>1, QueuedType DEF Jobs
    <2>3. ASSUME NEW q \in Processes, NEW d \in Editors, Inside(q, d)'
          PROVE  holder'[q] = d
        <3>1. q # Owner
            BY <2>1, <2>3 DEF Inside, IdleJob, Blind, Jobs
        <3> QED BY <2>1, <2>3, <3>1 DEF Inside, Locked, Jobs, TypeOK
    <2>4. holder' \in [Processes -> Editors \union {None}] /\ events' \in 0 .. MaxEvents
          /\ up' \subseteq Processes
        BY <1>2, MaxEventsAssumption DEF Crash, Event, TypeOK
    <2> QED BY <1>2, <2>2, <2>3, <2>4 DEF Crash, diskVars, TypeOK, Jobs
<1> QED BY <1>1, <1>2

\* A thread that makes an edit keeps them too.  Each step of it but the first is
\* inside the lock.
LEMMA JobType ==
    ASSUME TypeOK, NEW p \in Processes, NEW e \in Editors, JobStep(p, e)
    PROVE  TypeOK'
<1> DEFINE me == job[p][e]
<1> USE DEF diskVars
<1>1. me \in JobState /\ job \in Jobs /\ Locked /\ me.snap \in Reader(JobPcs)
    BY DEF TypeOK, Jobs, Locked, JobState
<1>2. CASE Lock(p, e)
    <2>1. [me EXCEPT !.snap.pc = "primary"] \in JobState
        BY <1>1, JobAtType DEF JobPcs, ReadPcs
    <2>2. job' \in Jobs /\ holder' \in [Processes -> Editors \union {None}]
        BY <1>1, <1>2, <2>1 DEF Lock, SetJob, Jobs, TypeOK
    <2>3. ASSUME NEW q \in Processes, NEW d \in Editors, Inside(q, d)'
          PROVE  holder'[q] = d
        <3>1. CASE q = p /\ d = e
            BY <1>2, <3>1 DEF Lock, TypeOK
        <3>2. CASE ~ (q = p /\ d = e)
            <4>1. Inside(q, d)
                BY <1>1, <1>2, <2>3, <3>2 DEF Lock, SetJob, Jobs, Inside
            <4>2. holder[q] = d /\ q # p
                BY <1>1, <1>2, <4>1, NamesAssumption DEF Lock, Locked
            <4> QED BY <1>2, <4>2 DEF Lock, TypeOK
        <3> QED BY <3>1, <3>2
    <2> QED BY <1>2, <2>2, <2>3 DEF Lock, TypeOK, Jobs
<1>3. CASE Load(p, e)
    <2>1. /\ ReadOn(me.snap) \in Reader(JobPcs) /\ Reading(me.snap)
          /\ SetJob(p, e, [me EXCEPT !.snap = ReadOn(@)])
        BY <1>1, <1>3, ReaderType DEF Load, JobPcs
    <2>2. [me EXCEPT !.snap = ReadOn(@)] \in JobState
        BY <1>1, <2>1 DEF JobState
    <2>3. Inside(p, e)
        BY <2>1 DEF Inside, Reading
    <2>4. job' \in Jobs /\ Locked'
        BY <1>3, <2>1, <2>2, <2>3, JobStepType DEF Load
    <2> QED BY <1>3, <2>4 DEF Load, TypeOK, Jobs, Locked
<1>4. CASE Check(p, e)
    <2>1. /\ [me EXCEPT !.snap.pc = "conflict"] \in JobState
          /\ [me EXCEPT !.snap.pc = "saved"] \in JobState
        BY <1>1, JobAtType DEF JobPcs
    <2>2. [me EXCEPT !.snap.pc = "open", !.snap.load.doc = Edited(@, e)] \in JobState
        <3>1. me.snap.load \in FileState /\ Edited(me.snap.load.doc, e) \in Docs
            BY <1>1, EditedType, DocTypes DEF Reader
        <3>2. [me.snap.load EXCEPT !.doc = Edited(@, e)] \in FileState
            BY <3>1 DEF FileState
        <3> QED BY <1>1, <3>2 DEF JobState, Reader, JobPcs
    <2>3. \E you \in JobState : SetJob(p, e, you)
        BY <1>4, <2>1, <2>2 DEF Check
    <2>4. Inside(p, e) /\ holder' = holder
        BY <1>4 DEF Check, Inside
    <2>5. job' \in Jobs /\ Locked'
        BY <2>3, <2>4, JobStepType
    <2> QED BY <1>4, <2>5 DEF Check, TypeOK, Jobs, Locked
<1>5. Failed(me) \in JobState /\ me.target \in Files
    BY <1>1 DEF Failed, JobState, Reader, JobPcs, Files
<1>6. CASE OpenTmp(p, e)
    <2>1. [me EXCEPT !.snap.pc = "write", !.at = "tmp"] \in JobState
        BY <1>1 DEF JobState, Reader, JobPcs
    <2>2. \E you \in JobState : SetJob(p, e, you)
        BY <1>5, <1>6, <2>1 DEF OpenTmp
    <2>3. Inside(p, e) /\ holder' = holder
        BY <1>6 DEF OpenTmp, Inside
    <2>4. job' \in Jobs /\ Locked'
        BY <2>2, <2>3, JobStepType
    <2>5. clock + 1 \in Nat /\ File("blank", NoDoc, clock + 1) \in FileState
        BY DocTypes DEF TypeOK
    <2>6. tmp' \in [Files -> FileState] /\ clock' \in Nat
        BY <1>5, <1>6, <2>5, SaveTypes DEF OpenTmp, TypeOK
    <2> QED BY <1>6, <2>4, <2>6 DEF OpenTmp, TypeOK, Jobs, Locked
<1>7. CASE Write(p, e)
    <2> DEFINE text == File("whole", me.snap.load.doc, clock + 1)
               texts(x) == IF x.form = "blank" \/ x.doc = text.doc THEN {text}
                           ELSE {text, File("broken", NoDoc, clock + 1)}
    <2>1. clock + 1 \in Nat /\ me.snap.load.doc \in Docs
        BY <1>1, DocTypes DEF TypeOK, Reader
    <2>2. \A x : texts(x) \subseteq FileState
        BY <2>1, DocTypes
    <2>3. /\ SetJob(p, e, [me EXCEPT !.snap.pc = "rename"]) /\ me.snap.pc = "write"
          /\ clock' = clock + 1
          /\ UNCHANGED <<writable, up, holder, want, editor, made, events>>
          /\ \/ file' = file /\ \E x \in texts(tmp[me.target]) : tmp' = [tmp EXCEPT ![me.target] = x]
             \/ tmp' = tmp /\ \E x \in texts(file[me.target]) : file' = [file EXCEPT ![me.target] = x]
             \/ UNCHANGED <<file, tmp>>
        BY <1>7 DEF Write
    <2>4. file' \in [Files -> FileState] /\ tmp' \in [Files -> FileState]
        <3> HIDE DEF texts
        <3> QED BY <1>5, <2>2, <2>3, SaveTypes DEF TypeOK
    <2>5. [me EXCEPT !.snap.pc = "rename"] \in JobState
        BY <1>1, JobAtType DEF JobPcs
    <2>6. job' \in Jobs /\ Locked'
        BY <2>3, <2>5, JobStepType DEF Inside
    <2> QED BY <2>1, <2>3, <2>4, <2>6 DEF TypeOK, Jobs, Locked
<1>8. CASE Rename(p, e)
    <2> DEFINE done == [me EXCEPT !.snap.pc = "saved", !.at = "nowhere"]
    <2>1. done \in JobState /\ me.snap.pc = "rename" /\ holder' = holder
        BY <1>1, <1>8 DEF JobState, Reader, JobPcs, Rename
    <2>2. CASE Refused(me) \/ tmp[me.target] = Absent
        <3>1. SetJob(p, e, Failed(me)) /\ UNCHANGED <<file, tmp, made>>
            BY <1>8, <2>2 DEF Rename
        <3>2. job' \in Jobs /\ Locked'
            BY <1>5, <2>1, <3>1, JobStepType DEF Inside
        <3> QED BY <1>8, <3>1, <3>2 DEF Rename, TypeOK, Jobs, Locked
    <2>3. CASE ~ (Refused(me) \/ tmp[me.target] = Absent)
        <3>1. /\ file' = [file EXCEPT ![me.target] = tmp[me.target]]
              /\ tmp' = [tmp EXCEPT ![me.target] = Absent]
              /\ made' = made \union {e}
              /\ job' = [q \in Processes |-> [d \in Editors |->
                           IF <<q, d>> = <<p, e>> THEN done ELSE Follow(job[q][d], me.target)]]
              /\ UNCHANGED <<clock, writable, up, holder, want, editor, events>>
            BY <1>8, <2>3 DEF Rename
        <3>2. file' \in [Files -> FileState] /\ tmp' \in [Files -> FileState]
            BY <1>5, <3>1, DocTypes, SaveTypes DEF TypeOK
        <3>3. ASSUME NEW q \in Processes, NEW d \in Editors
              PROVE  /\ Follow(job[q][d], me.target) \in JobState
                     /\ Follow(job[q][d], me.target).snap = job[q][d].snap
            <4>1. job[q][d] \in JobState
                BY <1>1 DEF Jobs
            <4> QED BY <4>1 DEF Follow, JobState
        <3>4. job' \in Jobs
            BY <2>1, <3>1, <3>3 DEF Jobs
        <3>5. ASSUME NEW q \in Processes, NEW d \in Editors, Inside(q, d)'
              PROVE  holder'[q] = d
            <4>1. Inside(q, d)
                BY <2>1, <3>1, <3>3, <3>5 DEF Inside
            <4> QED BY <1>1, <2>1, <4>1 DEF Locked
        <3> QED BY <3>1, <3>2, <3>4, <3>5 DEF TypeOK, Jobs
    <2> QED BY <2>2, <2>3
<1>9. CASE Reply(p, e)
    <2> DEFINE x == me.snap.pc
               awaits == editor[e].asks = p /\ editor[e].snap.pc = "sent"
               resort == awaits /\ x = "failed" /\ p = Owner /\ e \in Local
               queued == [IdleJob EXCEPT !.snap.pc = "queued"]
    <2>1. /\ x \in {"saved", "conflict", "failed"}
          /\ holder' = [holder EXCEPT ![p] = None]
          /\ editor' = IF ~ awaits THEN editor
                       ELSE [editor EXCEPT ![e] = IF resort THEN [@ EXCEPT !.asks = Tui] ELSE At(e, x)]
          /\ job' = [job EXCEPT ![p][e] = IdleJob, ![Tui][e] = IF resort THEN queued ELSE @]
          /\ UNCHANGED <<diskVars, up, want, made, events>>
        BY <1>9 DEF Reply
    <2>2. editor' \in [Editors -> EditorState]
        <3>1. At(e, x) \in EditorState
            BY <2>1, AtType DEF EditorPcs
        <3>2. editor \in [Editors -> EditorState] /\ [editor[e] EXCEPT !.asks = Tui] \in EditorState
            BY DEF TypeOK, EditorState, Processes
        <3> QED BY <2>1, <3>1, <3>2
    <2>3. Tui \in Processes /\ IdleJob \in JobState /\ queued \in JobState
        BY QueuedType DEF Processes
    <2>4. job' \in Jobs
        BY <1>1, <2>1, <2>3 DEF Jobs
    <2>5. IdleJob.snap.pc = "idle" /\ queued.snap.pc = "queued"
        BY DEF IdleJob, Blind
    <2>6. ASSUME NEW q \in Processes, NEW d \in Editors, Inside(q, d)'
          PROVE  holder'[q] = d
        <3>1. ~ (q = p /\ d = e) /\ Inside(q, d)
            BY <1>1, <2>1, <2>3, <2>5, <2>6 DEF Inside, Jobs
        <3>2. holder[p] = e /\ holder[q] = d
            BY <1>1, <2>1, <3>1 DEF Locked, Inside
        <3> QED BY <2>1, <3>1, <3>2 DEF TypeOK
    <2>7. holder' \in [Processes -> Editors \union {None}]
        BY <2>1 DEF TypeOK
    <2> QED BY <2>1, <2>2, <2>4, <2>6, <2>7 DEF TypeOK, Jobs
<1> QED BY <1>2, <1>3, <1>4, <1>6, <1>7, <1>8, <1>9 DEF JobStep

\* So every step keeps the types.
LEMMA StepType == TypeOK /\ [Next]_vars => TypeOK'
<1> SUFFICES ASSUME TypeOK, [Next]_vars PROVE TypeOK'
    OBVIOUS
<1>1. CASE Next
    BY <1>1, EnvironmentType, EditorsType, JobType DEF Next
<1>2. CASE UNCHANGED vars
    BY <1>2 DEF vars, diskVars, TypeOK, Inside
<1> QED BY <1>1, <1>2

\* The state keeps its types, and the lock of a process its meaning: whoever is
\* inside a guarded edit holds it (notes.py, _notes_lock).
THEOREM NotesTypeCorrect == Spec => []TypeOK
BY StepType, InitType, PTL DEF Spec

-----------------------------------------------------------------------------
(***************************************************************************)
(* The promise of GuardedNotes, as long as no editor tires of a living     *)
(* owner.  Then one process makes the edits, the owner and after it the    *)
(* TUI (OneStore), in one thread at a time, which holds the lock: from its *)
(* load to its rename the files stand still, so that what it has read is   *)
(* what counts (Step).  The file that counts says of an edit only what was *)
(* made of it (FilesTidy), so an edit that goes on from its editor's       *)
(* revision changes the notes, and its editor's revision is no longer      *)
(* theirs: made again after a crash, it is refused (MadeOnce).             *)
(***************************************************************************)
\* The process whose threads make the edits.
Store == IF Owner \in up THEN Owner ELSE Tui

\* What _load_notes_source settles on: see Canonical.
Selected ==
    IF Newest(file["primary"], file["fallback"]) THEN "fallback"
    ELSE IF Loads(file["primary"]) THEN "primary" ELSE "none"
Chosen == IF Selected = "none" THEN Absent ELSE file[Selected]

\* Only one process makes edits, each for an editor that waits for it.
OneStore ==
    /\ Tui \in up
    /\ \A p \in Processes, e \in Editors :
          job[p][e].snap.pc # "idle" =>
              p = Store /\ editor[e].asks = p /\ editor[e].snap.pc = "sent"
    /\ \A e \in Editors : editor[e].asks = Tui => Owner \notin up /\ e \in Local

\* A final file is whole or absent, and not newer than the clock.
Tidy(x) == x = Absent \/ (x.form = "whole" /\ x.doc \in Docs /\ x.mtime <= clock)
FilesTidy ==
    /\ \A f \in Files : Tidy(file[f]) /\ file[f].mtime <= clock
    /\ \A f \in Files, n \in Notes : file[f].doc[n] \in Editors => file[f].doc[n] \in made

\* How far the thread of p for e is, and what it knows of the notes.
Saving == {"open", "write", "rename"}
Step(p, e) ==
    LET me == job[p][e]
        base == editor[e].snap.rev
    IN  /\ me.at = IF me.snap.pc \in {"write", "rename"} THEN "tmp" ELSE "nowhere"
        /\ me.snap.pc = "fallback" =>
              /\ me.snap.load = file["primary"]
              /\ me.snap.src = IF Loads(file["primary"]) THEN "primary" ELSE "none"
        /\ me.snap.pc = "hash" => me.snap.src = Selected /\ me.snap.load = Chosen
        /\ me.snap.pc = "have" => me.snap.rev = Canonical /\ me.snap.load.doc = Canonical.doc
        /\ me.snap.pc \in Saving =>
              /\ Canonical = base
              /\ me.snap.load.doc = Edited(Canonical.doc, e)
              /\ want[e].verb = "delete" => Canonical.doc[want[e].note] # None
        /\ me.snap.pc = "write" => tmp[me.target].form = "blank"
        /\ me.snap.pc = "rename" =>
              /\ tmp[me.target] = File("whole", me.snap.load.doc, tmp[me.target].mtime)
              /\ tmp[me.target].mtime <= clock
              /\ \A f \in Files : file[f].mtime < tmp[me.target].mtime
        /\ me.snap.pc = "conflict" => Canonical # base
        /\ me.snap.pc = "saved" =>
              \/ e \in made
              \/ Canonical = base /\ want[e].verb = "delete" /\ Canonical.doc[want[e].note] = None
        /\ me.snap.pc # "failed"

\* An edit that is made is on its way to its editor, and its base is gone.
MadeOnce ==
    \A e \in made :
        /\ editor[e].snap.pc \in {"sent", "saved", "conflict", "failed"}
        /\ editor[e].snap.pc = "sent" /\ Owner \in up => job[Owner][e].snap.pc = "saved"
        /\ editor[e].snap.pc = "sent" /\ (Owner \in up \/ e \in Local) => Canonical # editor[e].snap.rev

\* The TUI makes one edit at a time.
OneLocal == \A a, b \in Local : a = b

Calm == OneStore /\ FilesTidy /\ MadeOnce /\ \A p \in Processes, e \in Editors : Step(p, e)
Kept == waits # "over" => Calm

\* Two threads inside an edit are one.
LEMMA OnlyOne ==
    ASSUME TypeOK, OneStore, NEW p \in Processes, NEW e \in Editors, Inside(p, e),
           NEW q \in Processes, NEW d \in Editors, Inside(q, d)
    PROVE  p = q /\ d = e /\ p = Store
<1>1. p = Store /\ q = Store
    BY DEF OneStore, Inside
<1>2. holder[p] = e /\ holder[q] = d
    BY DEF TypeOK
<1> QED BY <1>1, <1>2

\* While one is inside, the others wait.
LEMMA OtherWaits ==
    ASSUME TypeOK, Calm, NEW p \in Processes, NEW e \in Editors, Inside(p, e),
           NEW q \in Processes, NEW d \in Editors, ~ (q = p /\ d = e)
    PROVE  job[q][d].snap.pc \in {"idle", "queued"} /\ job[q][d].at = "nowhere"
<1>1. job[q][d].snap.pc \in {"idle", "queued"}
    BY OnlyOne DEF Calm, Inside
<1> QED BY <1>1 DEF Calm, Step

\* A thread that waits knows nothing.
LEMMA WaitingStep ==
    ASSUME NEW q \in Processes, NEW d \in Editors,
           job'[q][d].snap.pc \in {"idle", "queued"}, job'[q][d].at = "nowhere"
    PROVE  Step(q, d)'
BY DEF Step, Saving

\* What counts depends on the files.
LEMMA SameCanonical ==
    ASSUME UNCHANGED file
    PROVE  Canonical' = Canonical /\ Selected' = Selected /\ Chosen' = Chosen
<1>1. Selected' = Selected
    BY DEF Selected
<1>2. Chosen' = Chosen
    BY <1>1 DEF Chosen
<1> QED BY <1>1, <1>2 DEF Canonical

\* A thread is no further if the disk and its editor's revision are as they were.
LEMMA StepStays ==
    ASSUME NEW q \in Processes, NEW d \in Editors, Step(q, d),
           UNCHANGED <<file, tmp, clock, want, made>>,
           job'[q][d] = job[q][d], editor'[d].snap.rev = editor[d].snap.rev
    PROVE  Step(q, d)'
<1>1. Canonical' = Canonical /\ Selected' = Selected /\ Chosen' = Chosen
    BY SameCanonical
<1>2. \A x : Edited(x, d)' = Edited(x, d)
    BY DEF Edited
<1> QED BY <1>1, <1>2 DEF Step, Saving

\* Files that stay are as tidy as they were.
LEMMA FilesStay ==
    ASSUME TypeOK, FilesTidy, UNCHANGED <<file, made>>, clock' \in Nat, clock' >= clock
    PROVE  FilesTidy'
<1>1. \A f \in Files : file[f].mtime \in Nat /\ clock \in Nat
    BY DEF TypeOK, FileState
<1> QED BY <1>1 DEF FilesTidy, Tidy

\* A step inside the lock that leaves the files.
LEMMA InsideGoesOn ==
    ASSUME TypeOK, Calm, NEW p \in Processes, NEW e \in Editors, Inside(p, e),
           job[p][e].snap.pc # "saved", NEW you \in JobState, SetJob(p, e, you),
           UNCHANGED <<file, up, want, editor, made>>, clock' \in Nat, clock' >= clock,
           Step(p, e)'
    PROVE  Calm'
<1>1. job'[p][e] = you /\ \A q \in Processes, d \in Editors :
          ~ (q = p /\ d = e) => job'[q][d] = job[q][d]
    BY DEF SetJob, TypeOK
<1>2. OneStore'
    <2>1. \A q \in Processes, d \in Editors : job'[q][d].snap.pc # "idle" => job[q][d].snap.pc # "idle"
        BY <1>1 DEF Inside
    <2>2. Store' = Store
        BY DEF Store
    <2> QED BY <2>1, <2>2 DEF Calm, OneStore
<1>3. FilesTidy'
    BY FilesStay DEF Calm
<1>4. \A q \in Processes, d \in Editors : Step(q, d)'
    BY <1>1, OtherWaits, WaitingStep
<1>5. MadeOnce'
    <2>1. Canonical' = Canonical
        BY SameCanonical
    <2>2. ASSUME NEW d \in made, editor[d].snap.pc = "sent", Owner \in up
          PROVE  job'[Owner][d].snap.pc = "saved"
        <3>1. job[Owner][d].snap.pc = "saved" /\ d \in Editors /\ Owner \in Processes
            BY <2>2 DEF Calm, MadeOnce, TypeOK, Processes
        <3> QED BY <1>1, <3>1
    <2> QED BY <2>1, <2>2 DEF Calm, MadeOnce
<1> QED BY <1>2, <1>3, <1>4, <1>5 DEF Calm

\* The revision is the hash of the chosen file.
LEMMA CanonicalIsChosen == Canonical = Hash(Chosen) /\ Canonical.doc = Chosen.doc
<1>1. Canonical = Hash(Chosen)
    BY DEF Canonical, Chosen, Selected
<1> QED BY <1>1 DEF Hash

\* A reader inside the lock reads the files as they stay.
LEMMA LoadKeeps ==
    ASSUME TypeOK, Calm, NEW p \in Processes, NEW e \in Editors, Load(p, e)
    PROVE  Calm'
<1> DEFINE me == job[p][e]
           you == [me EXCEPT !.snap = ReadOn(@)]
<1>1. /\ me \in JobState /\ me.snap \in Reader(JobPcs) /\ Reading(me.snap) /\ Inside(p, e)
      /\ SetJob(p, e, you) /\ Step(p, e)
      /\ UNCHANGED <<diskVars, up, holder, want, editor, made, events>>
    BY DEF TypeOK, JobState, Load, Reading, Inside, Calm
<1>2. ReadOn(me.snap) \in Reader(JobPcs)
    BY <1>1, ReaderType DEF JobPcs
<1>3. you \in JobState /\ you.snap = ReadOn(me.snap) /\ you.at = me.at
    BY <1>1, <1>2 DEF JobState
<1>4. job'[p][e] = you
    BY <1>1 DEF SetJob, TypeOK
<1>5. /\ Canonical' = Canonical /\ Selected' = Selected /\ Chosen' = Chosen
      /\ file' = file /\ clock' = clock /\ clock \in Nat
    BY <1>1, SameCanonical DEF diskVars, TypeOK
<1>6. Step(p, e)'
    <2> HIDE DEF me, you
    <2>1. CASE me.snap.pc = "primary"
        <3>1. you.snap = LoadPrimary(me.snap)
            BY <1>3, <2>1 DEF ReadOn
        <3>2. /\ you.snap.pc = "fallback" /\ you.snap.load = file["primary"]
              /\ you.snap.src = IF Loads(file["primary"]) THEN "primary" ELSE "none"
            BY <1>1, <3>1 DEF LoadPrimary, Reader
        <3> QED BY <1>1, <1>3, <1>4, <1>5, <2>1, <3>2 DEF Step, Saving, me
    <2>2. CASE me.snap.pc = "fallback"
        <3>1. you.snap = LoadFallback(me.snap)
            BY <1>3, <2>2 DEF ReadOn
        <3>2. /\ me.snap.load = file["primary"]
              /\ me.snap.src = IF Loads(file["primary"]) THEN "primary" ELSE "none"
              /\ me.at = "nowhere"
            BY <1>1, <2>2 DEF Step, me
        <3>3. you.snap.pc = "hash" /\ you.snap.src = Selected /\ you.snap.load = Chosen
            <4>1. CASE Newest(me.snap.load, file["fallback"])
                <5>1. /\ you.snap.pc = "hash" /\ you.snap.load = file["fallback"]
                      /\ you.snap.src = "fallback"
                    BY <1>1, <3>1, <4>1 DEF LoadFallback, Reader
                <5>2. Selected = "fallback" /\ Chosen = file["fallback"]
                    BY <3>2, <4>1 DEF Selected, Chosen
                <5> QED BY <5>1, <5>2
            <4>2. CASE ~ Newest(me.snap.load, file["fallback"])
                <5>1. /\ you.snap.pc = "hash" /\ you.snap.src = me.snap.src
                      /\ you.snap.load = IF Loads(me.snap.load) THEN me.snap.load ELSE Absent
                    BY <1>1, <3>1, <4>2 DEF LoadFallback, Reader
                <5>2. /\ Selected = me.snap.src
                      /\ Chosen = IF Loads(file["primary"]) THEN file["primary"] ELSE Absent
                    BY <3>2, <4>2 DEF Selected, Chosen
                <5> QED BY <3>2, <5>1, <5>2
            <4> QED BY <4>1, <4>2
        <3> QED BY <1>3, <1>4, <1>5, <3>2, <3>3 DEF Step, Saving
    <2>3. CASE me.snap.pc = "hash"
        <3>1. you.snap = TakeHash(me.snap)
            BY <1>3, <2>3 DEF ReadOn
        <3>2. me.snap.src = Selected /\ me.snap.load = Chosen /\ me.at = "nowhere"
            BY <1>1, <2>3 DEF Step, me
        <3>3. you.snap.pc = "have" /\ you.snap.rev = Hash(Chosen) /\ you.snap.load = Chosen
            BY <1>1, <3>1, <3>2 DEF TakeHash, Reader, Chosen
        <3> QED BY <1>3, <1>4, <1>5, <3>2, <3>3, CanonicalIsChosen DEF Step, Saving
    <2> QED BY <1>1, <2>1, <2>2, <2>3 DEF Reading
<1>7. me.snap.pc # "saved"
    BY <1>1 DEF Reading
<1> QED BY <1>1, <1>3, <1>5, <1>6, <1>7, InsideGoesOn

\* Who takes the lock starts to read.
LEMMA LockKeeps ==
    ASSUME TypeOK, Calm, NEW p \in Processes, NEW e \in Editors, Lock(p, e)
    PROVE  Calm'
<1> DEFINE me == job[p][e]
           you == [me EXCEPT !.snap.pc = "primary"]
<1>1. /\ me \in JobState /\ me.snap.pc = "queued" /\ me.at = "nowhere"
      /\ SetJob(p, e, you) /\ UNCHANGED <<diskVars, up, want, editor, made, events>>
    BY DEF TypeOK, Lock, Calm, Step
<1>2. you.snap.pc = "primary" /\ you.at = "nowhere"
    BY <1>1 DEF JobState, Reader
<1>3. job'[p][e] = you /\ \A q \in Processes, d \in Editors :
          ~ (q = p /\ d = e) => job'[q][d] = job[q][d]
    BY <1>1 DEF SetJob, TypeOK
<1>4. Canonical' = Canonical /\ Store' = Store /\ FilesTidy'
    BY <1>1, SameCanonical, FilesStay DEF diskVars, Store, Calm, TypeOK
<1> HIDE DEF me, you
<1>5. OneStore'
    BY <1>1, <1>2, <1>3, <1>4 DEF Calm, OneStore, me
<1>6. MadeOnce'
    BY <1>1, <1>2, <1>3, <1>4 DEF Calm, MadeOnce, Processes, TypeOK, me
<1>7. ASSUME NEW q \in Processes, NEW d \in Editors PROVE Step(q, d)'
    <2>1. CASE q = p /\ d = e
        BY <1>2, <1>3, <2>1 DEF Step, Saving
    <2>2. CASE ~ (q = p /\ d = e)
        BY <1>1, <1>3, <2>2, StepStays DEF Calm, diskVars
    <2> QED BY <2>1, <2>2
<1> QED BY <1>4, <1>5, <1>6, <1>7 DEF Calm

\* An edit goes on only from the revision its editor sent.
LEMMA CheckKeeps ==
    ASSUME TypeOK, Calm, NEW p \in Processes, NEW e \in Editors, Check(p, e)
    PROVE  Calm'
<1> DEFINE me == job[p][e]
           needless == want[e].verb = "delete" /\ me.snap.load.doc[want[e].note] = None
           edited == [me EXCEPT !.snap.pc = "open", !.snap.load.doc = Edited(@, e)]
<1>1. /\ me \in JobState /\ me.snap.pc = "have" /\ Inside(p, e)
      /\ me.snap.rev = Canonical /\ me.snap.load.doc = Canonical.doc /\ me.at = "nowhere"
      /\ UNCHANGED <<diskVars, up, holder, want, editor, made, events>>
    BY DEF TypeOK, Check, Inside, Calm, Step
<1>2. /\ Canonical' = Canonical /\ file' = file /\ clock' = clock /\ clock \in Nat
      /\ \A x : Edited(x, e)' = Edited(x, e)
    BY <1>1, SameCanonical DEF diskVars, TypeOK, Edited
<1>3. CASE ~ Current(p, e)
    <2> DEFINE you == [me EXCEPT !.snap.pc = "conflict"]
    <2>1. SetJob(p, e, you) /\ you \in JobState /\ you.snap.pc = "conflict" /\ you.at = "nowhere"
        BY <1>1, <1>3, JobAtType DEF Check, JobPcs, JobState
    <2>2. job'[p][e] = you
        BY <2>1 DEF SetJob, TypeOK
    <2> HIDE DEF you, me
    <2>3. Step(p, e)'
        BY <1>1, <1>2, <1>3, <2>1, <2>2 DEF Step, Saving, Current, me
    <2> QED BY <1>1, <1>2, <2>1, <2>3, InsideGoesOn DEF me
<1>4. CASE Current(p, e) /\ needless
    <2> DEFINE you == [me EXCEPT !.snap.pc = "saved"]
    <2>1. SetJob(p, e, you) /\ you \in JobState /\ you.snap.pc = "saved" /\ you.at = "nowhere"
        BY <1>1, <1>4, JobAtType DEF Check, JobPcs, JobState
    <2>2. job'[p][e] = you
        BY <2>1 DEF SetJob, TypeOK
    <2>3. needless
        BY <1>4
    <2>4. want[e].verb = "delete" /\ Canonical.doc[want[e].note] = None
          /\ Canonical = editor[e].snap.rev
        BY <1>1, <1>4, <2>3 DEF Current
    <2> HIDE DEF you, me
    <2>5. Step(p, e)'
        BY <1>1, <1>2, <2>1, <2>2, <2>4 DEF Step, Saving
    <2> QED BY <1>1, <1>2, <2>1, <2>5, InsideGoesOn DEF me
<1>5. CASE Current(p, e) /\ ~ needless
    <2>1. SetJob(p, e, edited)
        BY <1>5 DEF Check
    <2>2. me.snap.load \in FileState /\ Edited(me.snap.load.doc, e) \in Docs
        BY <1>1, EditedType, DocTypes DEF JobState, Reader
    <2>3. /\ edited \in JobState /\ edited.snap.pc = "open" /\ edited.at = "nowhere"
          /\ edited.snap.load.doc = Edited(Canonical.doc, e)
        <3>1. /\ [me.snap.load EXCEPT !.doc = Edited(@, e)] \in FileState
              /\ [me.snap.load EXCEPT !.doc = Edited(@, e)].doc = Edited(Canonical.doc, e)
            BY <1>1, <2>2 DEF FileState
        <3> QED BY <1>1, <3>1 DEF JobState, Reader, JobPcs
    <2>4. /\ want[e].verb = "delete" => Canonical.doc[want[e].note] # None
          /\ Canonical = editor[e].snap.rev
        BY <1>1, <1>5 DEF Current
    <2>5. job'[p][e] = edited
        BY <2>1 DEF SetJob, TypeOK
    <2> HIDE DEF edited, me
    <2>6. Step(p, e)'
        BY <1>1, <1>2, <2>3, <2>4, <2>5 DEF Step, Saving
    <2> QED BY <1>1, <1>2, <2>1, <2>3, <2>6, InsideGoesOn DEF me
<1> QED BY <1>3, <1>4, <1>5

\* A place that takes no writes sends the save to the other one.
LEMMA RefusedKeeps ==
    ASSUME TypeOK, Calm, NEW p \in Processes, NEW e \in Editors, Refused(job[p][e]),
           job[p][e].snap.pc \in {"open", "rename"}, SetJob(p, e, Failed(job[p][e])),
           UNCHANGED <<file, tmp, clock, up, want, editor, made>>
    PROVE  Calm'
<1> DEFINE me == job[p][e]
           you == [me EXCEPT !.snap.pc = "open", !.target = "fallback", !.at = "nowhere"]
<1>1. /\ me \in JobState /\ SetJob(p, e, you) /\ Step(p, e) /\ Inside(p, e)
      /\ me.snap.pc \in {"open", "rename"}
    BY DEF TypeOK, Refused, Failed, Calm, Inside
<1>2. /\ you \in JobState /\ you.snap.pc = "open" /\ you.at = "nowhere"
      /\ you.snap.load = me.snap.load
    BY <1>1 DEF JobState, Reader, JobPcs, Files
<1>3. job'[p][e] = you
    BY <1>1 DEF SetJob, TypeOK
<1>4. Canonical' = Canonical /\ clock \in Nat /\ \A x : Edited(x, e)' = Edited(x, e)
    BY SameCanonical DEF TypeOK, Edited
<1> HIDE DEF you
<1>5. Step(p, e)'
    BY <1>1, <1>2, <1>3, <1>4 DEF Step, Saving
<1> QED BY <1>1, <1>2, <1>4, <1>5, InsideGoesOn

\* A save starts with an empty temporary file ...
LEMMA OpenTmpKeeps ==
    ASSUME TypeOK, Calm, NEW p \in Processes, NEW e \in Editors, OpenTmp(p, e)
    PROVE  Calm'
<1> DEFINE me == job[p][e]
           you == [me EXCEPT !.snap.pc = "write", !.at = "tmp"]
<1>1. CASE Refused(me)
    BY <1>1, RefusedKeeps DEF OpenTmp
<1>2. CASE ~ Refused(me)
    <2>1. /\ me \in JobState /\ SetJob(p, e, you) /\ Step(p, e) /\ Inside(p, e)
          /\ me.snap.pc = "open" /\ clock' = clock + 1 /\ clock \in Nat
          /\ tmp' = [tmp EXCEPT ![me.target] = File("blank", NoDoc, clock + 1)]
          /\ UNCHANGED <<file, writable, up, holder, want, editor, made, events>>
        BY <1>2 DEF TypeOK, OpenTmp, Calm, Inside
    <2>2. /\ you \in JobState /\ you.snap.pc = "write" /\ you.at = "tmp"
          /\ you.snap.load = me.snap.load /\ you.target = me.target /\ me.target \in Files
        BY <2>1 DEF JobState, Reader, JobPcs
    <2>3. job'[p][e] = you
        BY <2>1 DEF SetJob, TypeOK
    <2>4. Canonical' = Canonical /\ \A x : Edited(x, e)' = Edited(x, e)
        BY <2>1, SameCanonical DEF Edited
    <2>5. tmp'[me.target].form = "blank"
        BY <2>1, <2>2 DEF TypeOK, File
    <2> HIDE DEF you
    <2>6. Step(p, e)'
        BY <2>1, <2>2, <2>3, <2>4, <2>5 DEF Step, Saving
    <2> QED BY <2>1, <2>2, <2>6, InsideGoesOn
<1> QED BY <1>1, <1>2

\* ... which nobody else writes to, ...
LEMMA WriteKeeps ==
    ASSUME TypeOK, Calm, NEW p \in Processes, NEW e \in Editors, Write(p, e)
    PROVE  Calm'
<1> DEFINE me == job[p][e]
           you == [me EXCEPT !.snap.pc = "rename"]
           text == File("whole", me.snap.load.doc, clock + 1)
<1>1. /\ me \in JobState /\ SetJob(p, e, you) /\ Step(p, e) /\ Inside(p, e)
      /\ me.snap.pc = "write" /\ clock' = clock + 1 /\ clock \in Nat
      /\ UNCHANGED <<writable, up, holder, want, editor, made, events>>
    BY DEF TypeOK, Write, Calm, Inside
<1>2. me.at = "tmp" /\ tmp[me.target].form = "blank"
    BY <1>1 DEF Step
<1>3. file' = file /\ tmp' = [tmp EXCEPT ![me.target] = text]
    BY <1>2 DEF Write
<1>4. /\ you \in JobState /\ you.snap.pc = "rename" /\ you.at = "tmp"
      /\ you.snap.load = me.snap.load /\ you.target = me.target /\ me.target \in Files
    BY <1>1, <1>2 DEF JobState, Reader, JobPcs
<1>5. job'[p][e] = you
    BY <1>1 DEF SetJob, TypeOK
<1>6. Canonical' = Canonical /\ \A x : Edited(x, e)' = Edited(x, e)
    BY <1>1, <1>3, SameCanonical DEF Edited
<1>7. /\ tmp'[me.target] = File("whole", me.snap.load.doc, clock + 1)
      /\ tmp'[me.target].mtime = clock + 1
    BY <1>3, <1>4 DEF TypeOK, File
<1>8. \A f \in Files : file[f].mtime < clock + 1
    BY <1>1 DEF Calm, FilesTidy, TypeOK, FileState
<1> HIDE DEF you, me
<1>9. Step(p, e)'
    BY <1>1, <1>2, <1>3, <1>4, <1>5, <1>6, <1>7, <1>8 DEF Step, Saving, me
<1> QED BY <1>1, <1>3, <1>4, <1>9, InsideGoesOn DEF me

\* What a rename puts into place is newer than both files, so it counts.
LEMMA RenamedCounts ==
    ASSUME TypeOK, NEW t \in Files, NEW d \in Docs, NEW m \in Nat, \A f \in Files : file[f].mtime < m,
           file' = [file EXCEPT ![t] = File("whole", d, m)]
    PROVE  Canonical' = [form |-> "whole", doc |-> d]
<1>1. /\ file'[t] = File("whole", d, m) /\ \A f \in Files : f # t => file'[f] = file[f]
      /\ \A f \in Files : file[f].mtime \in Nat /\ file \in [Files -> FileState]
    BY DEF TypeOK, FileState
<1>2. File("whole", d, m).form = "whole" /\ File("whole", d, m).doc = d /\ File("whole", d, m).mtime = m
    BY DEF File
<1>3. Hash(File("whole", d, m)) = [form |-> "whole", doc |-> d]
    BY <1>2 DEF Hash
<1>4. CASE t = "primary"
    <2>1. file'["primary"] = File("whole", d, m) /\ file'["fallback"] = file["fallback"]
          /\ file["fallback"].mtime < m /\ file["fallback"].mtime \in Nat
        BY <1>1, <1>4 DEF Files
    <2>2. ~ Newest(file'["primary"], file'["fallback"]) /\ Loads(file'["primary"])
        BY <1>2, <2>1 DEF Newest, Loads
    <2> QED BY <1>3, <2>1, <2>2 DEF Canonical
<1>5. CASE t = "fallback"
    <2>1. file'["fallback"] = File("whole", d, m) /\ file'["primary"] = file["primary"]
          /\ file["primary"].mtime < m /\ file["primary"].mtime \in Nat
        BY <1>1, <1>5 DEF Files
    <2>2. Newest(file'["primary"], file'["fallback"])
        BY <1>2, <2>1 DEF Newest, Loads
    <2> QED BY <1>3, <2>1, <2>2 DEF Canonical
<1> QED BY <1>4, <1>5 DEF Files

\* What the notes say of an edit, they say because it was made.
LEMMA SaysWhatIsMade ==
    ASSUME TypeOK, FilesTidy, NEW n \in Notes, Canonical.doc[n] \in Editors
    PROVE  Canonical.doc[n] \in made
<1>1. Canonical.doc = Chosen.doc
    BY CanonicalIsChosen
<1>2. Absent.doc[n] = None
    BY DEF Absent, File, NoDoc
<1>3. Selected \in Files \/ Selected = "none"
    BY DEF Selected, Files
<1> QED BY <1>1, <1>2, <1>3, NamesAssumption DEF Chosen, FilesTidy

\* What counts is a document and its revision.
LEMMA CanonicalType ==
    ASSUME TypeOK
    PROVE  Canonical \in Revisions /\ Canonical.doc \in Docs
<1>1. Chosen \in FileState
    BY DocTypes DEF Chosen, Selected, TypeOK, Files
<1> QED BY <1>1, DocTypes, CanonicalIsChosen

\* An edit that is being saved is made for the first time, on the revision its
\* editor sent, and changes it.
LEMMA SavesOnce ==
    ASSUME TypeOK, Calm, NEW p \in Processes, NEW e \in Editors, job[p][e].snap.pc \in Saving
    PROVE  /\ e \notin made /\ Canonical = editor[e].snap.rev
           /\ editor[e].snap.pc = "sent" /\ editor[e].asks = p /\ p = Store
           /\ [form |-> "whole", doc |-> Edited(Canonical.doc, e)] # Canonical
<1>1. /\ p = Store /\ editor[e].asks = p /\ editor[e].snap.pc = "sent"
      /\ Canonical = editor[e].snap.rev
      /\ want[e].verb = "delete" => Canonical.doc[want[e].note] # None
    BY DEF Calm, OneStore, Step, Saving
<1>2. Owner \notin up => e \in Local
    BY <1>1 DEF Store, Calm, OneStore
<1>3. e \notin made
    BY <1>1, <1>2 DEF Calm, MadeOnce, Store, Saving
<1>4. Edited(Canonical.doc, e) # Canonical.doc
    <2>1. want[e].note \in Notes /\ want[e].verb \in {"upsert", "delete"}
        BY DEF TypeOK, Wants
    <2>2. Canonical.doc[want[e].note] # e
        BY <1>3, <2>1, SaysWhatIsMade DEF Calm
    <2>3. Edited(Canonical.doc, e)[want[e].note] = IF want[e].verb = "upsert" THEN e ELSE None
        BY <2>1, CanonicalType DEF Edited, Docs
    <2> QED BY <1>1, <2>1, <2>2, <2>3
<1> QED BY <1>1, <1>3, <1>4

\* The rename makes it.
LEMMA RenameMakes ==
    ASSUME TypeOK, Calm, NEW p \in Processes, NEW e \in Editors, Rename(p, e),
           ~ Refused(job[p][e])
    PROVE  /\ Canonical' = [form |-> "whole", doc |-> Edited(Canonical.doc, e)]
           /\ made' = made \union {e} /\ Step(p, e)'
           /\ job'[p][e].snap.pc = "saved"
           /\ \A q \in Processes, d \in Editors : ~ (q = p /\ d = e) =>
                 job'[q][d].snap = job[q][d].snap /\ (job[q][d].at = "nowhere" => job'[q][d].at = "nowhere")
           /\ FilesTidy' /\ UNCHANGED <<up, want, editor>>
<1> DEFINE me == job[p][e]
           done == [me EXCEPT !.snap.pc = "saved", !.at = "nowhere"]
           doc == Edited(Canonical.doc, e)
           m == tmp[me.target].mtime
<1>1. /\ me \in JobState /\ me.snap.pc = "rename" /\ me.target \in Files
      /\ tmp[me.target] = File("whole", doc, m)
      /\ m \in Nat /\ m <= clock /\ \A f \in Files : file[f].mtime < m
    <2>1. me \in JobState /\ me.snap.pc = "rename" /\ me.target \in Files
        BY DEF TypeOK, Rename, JobState
    <2>2. tmp[me.target] \in FileState
        BY <2>1 DEF TypeOK
    <2> QED BY <2>1, <2>2 DEF Calm, Step, Saving, FileState
<1>2. tmp[me.target] # Absent
    BY <1>1 DEF File, Absent
<1>3. /\ file' = [file EXCEPT ![me.target] = File("whole", doc, m)]
      /\ made' = made \union {e}
      /\ job' = [q \in Processes |-> [d \in Editors |->
                     IF <<q, d>> = <<p, e>> THEN done ELSE Follow(job[q][d], me.target)]]
      /\ UNCHANGED <<clock, writable, up, holder, want, editor, events>>
    BY <1>1, <1>2 DEF Rename
<1>4. doc \in Docs
    BY EditedType, CanonicalType
<1>5. Canonical' = [form |-> "whole", doc |-> doc]
    BY <1>1, <1>3, <1>4, RenamedCounts
<1>6. job'[p][e] = done /\ done.snap.pc = "saved" /\ done.at = "nowhere"
    BY <1>1, <1>3 DEF JobState, Reader
<1>7. ASSUME NEW q \in Processes, NEW d \in Editors, ~ (q = p /\ d = e)
      PROVE  job'[q][d].snap = job[q][d].snap /\ (job[q][d].at = "nowhere" => job'[q][d].at = "nowhere")
    <2>1. job'[q][d] = Follow(job[q][d], me.target) /\ job[q][d] \in JobState
        BY <1>3, <1>7 DEF TypeOK
    <2> QED BY <2>1 DEF Follow, JobState
<1>8. Step(p, e)'
    BY <1>3, <1>6 DEF Step, Saving
<1>9. FilesTidy'
    <2>1. \A f \in Files : file'[f] = IF f = me.target THEN File("whole", doc, m) ELSE file[f]
        BY <1>1, <1>3 DEF TypeOK
    <2>2. /\ File("whole", doc, m).form = "whole" /\ File("whole", doc, m).doc = doc
          /\ File("whole", doc, m).mtime = m
        BY DEF File
    <2>3. ASSUME NEW n \in Notes, doc[n] \in Editors PROVE doc[n] \in made'
        <3>1. CASE n = want[e].note
            <4>1. doc[n] \in {e, None}
                BY <3>1, CanonicalType DEF Edited, Docs
            <4> QED BY <1>3, <2>3, <4>1, NamesAssumption
        <3>2. CASE n # want[e].note
            <4>1. doc[n] = Canonical.doc[n]
                BY <3>2, CanonicalType DEF Edited, Docs
            <4> QED BY <1>3, <2>3, <4>1, SaysWhatIsMade DEF Calm
        <3> QED BY <3>1, <3>2
    <2> HIDE DEF doc, m
    <2>4. \A f \in Files :
             /\ file'[f] = Absent \/ (file'[f].form = "whole" /\ file'[f].doc \in Docs /\ file'[f].mtime <= clock')
             /\ file'[f].mtime <= clock'
        BY <1>1, <1>3, <1>4, <2>1, <2>2 DEF Tidy, Calm, FilesTidy
    <2>5. \A f \in Files, n \in Notes : file'[f].doc[n] \in Editors => file'[f].doc[n] \in made'
        BY <1>3, <2>1, <2>2, <2>3 DEF Calm, FilesTidy
    <2> QED BY <2>4, <2>5 DEF FilesTidy, Tidy
<1> QED BY <1>3, <1>5, <1>6, <1>7, <1>8, <1>9

\* ... and its rename leaves the others where they waited.
LEMMA RenameKeeps ==
    ASSUME TypeOK, Calm, OneLocal, NEW p \in Processes, NEW e \in Editors, Rename(p, e)
    PROVE  Calm'
<1> DEFINE me == job[p][e]
<1>1. Inside(p, e) /\ me.snap.pc = "rename"
    BY DEF Rename, Inside
<1>2. CASE Refused(me)
    BY <1>1, <1>2, RefusedKeeps DEF Rename
<1>3. CASE ~ Refused(me)
    <2>1. /\ e \notin made /\ Canonical = editor[e].snap.rev
          /\ editor[e].snap.pc = "sent" /\ editor[e].asks = p /\ p = Store
          /\ [form |-> "whole", doc |-> Edited(Canonical.doc, e)] # Canonical
        BY <1>1, SavesOnce DEF Saving
    <2>2. /\ Canonical' = [form |-> "whole", doc |-> Edited(Canonical.doc, e)]
          /\ made' = made \union {e} /\ Step(p, e)'
          /\ job'[p][e].snap.pc = "saved"
          /\ \A q \in Processes, d \in Editors : ~ (q = p /\ d = e) =>
                job'[q][d].snap = job[q][d].snap /\ (job[q][d].at = "nowhere" => job'[q][d].at = "nowhere")
          /\ FilesTidy' /\ UNCHANGED <<up, want, editor>>
        BY <1>3, RenameMakes
    <2>3. OneStore'
        BY <1>1, <2>2 DEF Calm, OneStore, Store
    <2>4. \A q \in Processes, d \in Editors : Step(q, d)'
        BY <1>1, <2>2, OtherWaits, WaitingStep
    <2>5. ASSUME NEW d \in made'
          PROVE  /\ editor'[d].snap.pc \in {"sent", "saved", "conflict", "failed"}
                 /\ editor'[d].snap.pc = "sent" /\ Owner \in up' => job'[Owner][d].snap.pc = "saved"
                 /\ editor'[d].snap.pc = "sent" /\ (Owner \in up' \/ d \in Local) =>
                        Canonical' # editor'[d].snap.rev
        <3>1. CASE d = e
            BY <2>1, <2>2, <3>1 DEF Store
        <3>2. CASE d # e
            <4>1. d \in made /\ d \in Editors /\ Owner \in Processes
                BY <2>2, <3>2 DEF TypeOK, Processes
            <4>2. /\ editor[d].snap.pc \in {"sent", "saved", "conflict", "failed"}
                  /\ editor[d].snap.pc = "sent" /\ Owner \in up => job[Owner][d].snap.pc = "saved"
                BY <4>1 DEF Calm, MadeOnce
            <4>3. editor[d].snap.pc = "sent" => Owner \notin up
                BY <1>1, <3>2, <4>1, <4>2, OnlyOne DEF Calm, Inside
            <4>4. Owner \notin up => e \in Local
                BY <2>1 DEF Calm, OneStore, Store
            <4>5. editor[d].snap.pc = "sent" => d \notin Local
                BY <3>2, <4>3, <4>4 DEF OneLocal
            <4> QED BY <2>2, <4>2, <4>3, <4>5
        <3> QED BY <3>1, <3>2
    <2>6. MadeOnce'
        BY <2>5 DEF MadeOnce
    <2> QED BY <2>2, <2>3, <2>4, <2>6 DEF Calm
<1> QED BY <1>2, <1>3

\* The answer leaves its editor with it, and the lock to the next.
LEMMA ReplyAnswers ==
    ASSUME TypeOK, Calm, NEW p \in Processes, NEW e \in Editors, Reply(p, e)
    PROVE  /\ job[p][e].snap.pc \in {"saved", "conflict"} /\ editor[e].snap.pc = "sent" /\ p = Store
           /\ editor' = [editor EXCEPT ![e] = At(e, job[p][e].snap.pc)]
           /\ job'[p][e] = IdleJob
           /\ \A q \in Processes, d \in Editors : ~ (q = p /\ d = e) => job'[q][d] = job[q][d]
           /\ UNCHANGED <<diskVars, up, want, made, events>>
<1>1. /\ job[p][e].snap.pc \in {"saved", "conflict", "failed"} /\ job[p][e].snap.pc # "failed"
      /\ p = Store /\ editor[e].asks = p /\ editor[e].snap.pc = "sent"
    BY DEF Reply, Calm, OneStore, Step
<1>2. /\ editor' = [editor EXCEPT ![e] = At(e, job[p][e].snap.pc)]
      /\ job' = [job EXCEPT ![p][e] = IdleJob, ![Tui][e] = @]
      /\ UNCHANGED <<diskVars, up, want, made, events>>
    BY <1>1 DEF Reply
<1>3. /\ job'[p][e] = IdleJob
      /\ \A q \in Processes, d \in Editors : ~ (q = p /\ d = e) => job'[q][d] = job[q][d]
    BY <1>2 DEF TypeOK, Processes
<1> QED BY <1>1, <1>2, <1>3

\* An answered editor is done, and its thread with it.
LEMMA ReplyKeeps ==
    ASSUME TypeOK, Calm, NEW p \in Processes, NEW e \in Editors, Reply(p, e)
    PROVE  Calm'
<1> DEFINE x == job[p][e].snap.pc
<1>1. /\ x \in {"saved", "conflict"} /\ editor[e].snap.pc = "sent" /\ p = Store
      /\ editor' = [editor EXCEPT ![e] = At(e, x)]
      /\ job'[p][e] = IdleJob
      /\ \A q \in Processes, d \in Editors : ~ (q = p /\ d = e) => job'[q][d] = job[q][d]
      /\ UNCHANGED <<diskVars, up, want, made, events>>
    BY ReplyAnswers
<1>2. /\ \A d \in Editors : d # e => editor'[d] = editor[d]
      /\ editor'[e].snap.pc = x /\ editor'[e].snap.rev = editor[e].snap.rev
      /\ editor'[e].asks = editor[e].asks
    BY <1>1 DEF TypeOK, At, EditorState, Reader
<1>3. IdleJob.snap.pc = "idle" /\ IdleJob.at = "nowhere"
    BY DEF IdleJob, Blind
<1>4. Inside(p, e)
    BY <1>1 DEF Inside
<1>5. Canonical' = Canonical /\ Store' = Store /\ FilesTidy'
    BY <1>1, SameCanonical, FilesStay DEF diskVars, Store, Calm, TypeOK
<1> HIDE DEF x
<1>6. \A q \in Processes, d \in Editors : Step(q, d)'
    BY <1>1, <1>3, <1>4, OtherWaits, WaitingStep
<1>7. OneStore'
    BY <1>1, <1>2, <1>3, <1>5, <1>4, OnlyOne DEF Calm, OneStore
<1>8. MadeOnce'
    <2>1. ASSUME NEW d \in made, d # e
          PROVE  d \in Editors /\ job'[Owner][d] = job[Owner][d] /\ editor'[d] = editor[d]
        BY <1>1, <1>2, <2>1 DEF TypeOK, Processes
    <2> QED BY <1>1, <1>2, <1>5, <2>1 DEF Calm, MadeOnce
<1> QED BY <1>5, <1>6, <1>7, <1>8 DEF Calm

\* An editor for whom no thread works may go on with its snapshot, or give up.
LEMMA EditorGoesOn ==
    ASSUME TypeOK, Calm, NEW e \in Editors, NEW you, editor' = [editor EXCEPT ![e] = you],
           \A q \in Processes : job[q][e].snap.pc = "idle",
           you.asks = editor[e].asks, e \in made => you.snap.pc = "failed",
           UNCHANGED <<diskVars, up, job, want, made>>
    PROVE  Calm'
<1>1. /\ editor'[e] = you /\ \A d \in Editors : d # e => editor'[d] = editor[d]
      /\ UNCHANGED <<file, tmp, clock>>
    BY DEF TypeOK, diskVars
<1>2. Canonical' = Canonical /\ Store' = Store /\ FilesTidy'
    BY <1>1, SameCanonical, FilesStay DEF Store, Calm, TypeOK
<1>3. ASSUME NEW q \in Processes, NEW d \in Editors PROVE Step(q, d)'
    <2>1. CASE d = e
        <3>1. job'[q][d].snap.pc = "idle" /\ job[q][d].at = "nowhere"
            BY <2>1 DEF Calm, Step
        <3> QED BY <3>1, WaitingStep
    <2>2. CASE d # e
        BY <1>1, <2>2, StepStays DEF Calm
    <2> QED BY <2>1, <2>2
<1>4. OneStore'
    BY <1>1, <1>2 DEF Calm, OneStore
<1>5. MadeOnce'
    BY <1>1, <1>2 DEF Calm, MadeOnce, TypeOK
<1> QED BY <1>2, <1>3, <1>4, <1>5 DEF Calm

\* No thread works for an editor that has not sent, or has nobody to wait for.
LEMMA NobodyWorks ==
    ASSUME TypeOK, Calm, NEW e \in Editors,
           \/ editor[e].snap.pc # "sent"
           \/ Owner \notin up /\ (e \notin Local \/ editor[e].asks = Owner)
    PROVE  \A q \in Processes : job[q][e].snap.pc = "idle"
BY NamesAssumption DEF Calm, OneStore, Store

\* An editor asks the process that makes the edits.
LEMMA AskKeeps ==
    ASSUME TypeOK, Calm, NEW e \in Editors, NEW p \in Processes, Ask(e, p), p = Store,
           Owner \notin up => e \in Local,
           \A q \in Processes : job[q][e].snap.pc = "idle",
           editor[e].snap.pc = "have" \/ (editor[e].snap.pc = "sent" /\ Owner \notin up)
    PROVE  Calm'
<1> DEFINE you == [At(e, "sent") EXCEPT !.asks = p]
           new == [IdleJob EXCEPT !.snap.pc = "queued"]
<1>1. /\ editor' = [editor EXCEPT ![e] = you] /\ job' = [job EXCEPT ![p][e] = new]
      /\ UNCHANGED <<diskVars, up, holder, want, made>>
    BY DEF Ask, SetEditor, SetJob
<1>2. you.snap.pc = "sent" /\ you.snap.rev = editor[e].snap.rev /\ you.asks = p
    BY DEF At, TypeOK, EditorState, Reader
<1>3. new.snap.pc = "queued" /\ new.at = "nowhere"
    BY DEF IdleJob, Blind
<1> HIDE DEF you, new
<1>4. /\ editor'[e] = you /\ \A d \in Editors : d # e => editor'[d] = editor[d]
      /\ job'[p][e] = new
      /\ \A q \in Processes, d \in Editors : ~ (q = p /\ d = e) => job'[q][d] = job[q][d]
      /\ UNCHANGED <<file, tmp, clock>>
    BY <1>1 DEF TypeOK, diskVars
<1>5. Canonical' = Canonical /\ Store' = Store /\ FilesTidy'
    BY <1>1, <1>4, SameCanonical, FilesStay DEF Store, Calm, TypeOK
<1>6. ASSUME NEW q \in Processes, NEW d \in Editors PROVE Step(q, d)'
    <2>1. CASE q = p /\ d = e
        BY <1>3, <1>4, <2>1, WaitingStep
    <2>2. CASE ~ (q = p /\ d = e)
        <3>1. editor'[d].snap.rev = editor[d].snap.rev
            BY <1>2, <1>4
        <3> QED BY <1>1, <1>4, <2>2, <3>1, StepStays DEF Calm
    <2> QED BY <2>1, <2>2
<1>7. OneStore'
    BY <1>1, <1>2, <1>4, <1>5, NamesAssumption DEF Calm, OneStore, Store
<1>8. MadeOnce'
    <2>1. e \in made => editor[e].snap.pc = "sent" /\ Owner \notin up /\ Canonical # editor[e].snap.rev
        BY DEF Calm, MadeOnce
    <2>2. ASSUME NEW d \in made, d # e
          PROVE  d \in Editors /\ job'[Owner][d] = job[Owner][d] /\ editor'[d] = editor[d]
        BY <1>4, <2>2 DEF TypeOK, Processes
    <2> QED BY <1>1, <1>2, <1>4, <1>5, <2>1, <2>2 DEF Calm, MadeOnce
<1> QED BY <1>5, <1>6, <1>7, <1>8 DEF Calm

\* What an editor does.
LEMMA EditorKeeps ==
    ASSUME TypeOK, Calm, NEW e \in Editors, EditorActs(e)
    PROVE  Calm'
<1>0. editor[e] \in EditorState /\ (e \in made => editor[e].snap.pc \in {"sent", "saved", "conflict", "failed"})
    BY DEF TypeOK, Calm, MadeOnce
<1>1. CASE Look(e)
    <2>1. At(e, "primary").asks = editor[e].asks
        BY <1>0 DEF At, EditorState
    <2>2. e \notin made /\ \A q \in Processes : job[q][e].snap.pc = "idle"
        BY <1>0, <1>1, NobodyWorks DEF Look
    <2> QED BY <1>1, <2>1, <2>2, EditorGoesOn DEF Look, SetEditor
<1>2. CASE LookOn(e)
    <2> DEFINE you == [editor[e] EXCEPT !.snap = ReadOn(@)]
    <2>1. you.asks = editor[e].asks
        BY <1>0 DEF EditorState
    <2>2. e \notin made /\ \A q \in Processes : job[q][e].snap.pc = "idle"
        BY <1>0, <1>2, NobodyWorks DEF LookOn, Reading
    <2> HIDE DEF you
    <2>3. editor' = [editor EXCEPT ![e] = you] /\ UNCHANGED <<diskVars, up, job, want, made>>
        BY <1>2 DEF LookOn, SetEditor, you
    <2> QED BY <2>1, <2>2, <2>3, EditorGoesOn
<1>3. CASE Send(e)
    <2>1. Owner \in Processes /\ Owner = Store
        BY <1>3 DEF Send, Store, Processes
    <2> QED BY <1>3, <2>1, NobodyWorks, AskKeeps DEF Send
<1>4. CASE Resort(e)
    <2>1. Tui \in Processes /\ Tui = Store
        BY <1>4 DEF Resort, Store, Processes
    <2>2. \A q \in Processes : job[q][e].snap.pc = "idle"
        BY <1>4, NobodyWorks DEF Resort
    <2> QED BY <1>4, <2>1, <2>2, AskKeeps DEF Resort
<1>5. CASE GiveUp(e)
    <2>1. At(e, "failed").asks = editor[e].asks /\ At(e, "failed").snap.pc = "failed"
        BY <1>0 DEF At, EditorState, Reader
    <2>2. \A q \in Processes : job[q][e].snap.pc = "idle"
        BY <1>5, NobodyWorks DEF GiveUp
    <2> QED BY <1>5, <2>1, <2>2, EditorGoesOn DEF GiveUp, SetEditor
<1> QED BY <1>1, <1>2, <1>3, <1>4, <1>5 DEF EditorActs

\* Where it stands with an edit is as it was after a remount, and after a crash
\* of the owner nobody works on one.
LEMMA EnvironmentKeeps ==
    ASSUME TypeOK, Calm, Remount \/ Crash
    PROVE  Calm'
<1>1. CASE Remount
    <2>1. UNCHANGED <<file, tmp, clock, up, holder, want, editor, job, made>>
        BY <1>1 DEF Remount
    <2>2. Canonical' = Canonical /\ Store' = Store /\ FilesTidy'
        BY <2>1, SameCanonical, FilesStay DEF Store, Calm, TypeOK
    <2>3. \A q \in Processes, d \in Editors : Step(q, d)'
        BY <2>1, StepStays DEF Calm
    <2> QED BY <2>1, <2>2, <2>3 DEF Calm, OneStore, MadeOnce
<1>2. CASE Crash
    <2>1. /\ UNCHANGED <<file, tmp, clock, want, editor, made>> /\ Owner \in up
          /\ up' = up \ {Owner} /\ Owner \in Processes
          /\ job'[Owner] = [e \in Editors |-> IdleJob]
          /\ \A q \in Processes : q # Owner => job'[q] = job[q]
        BY <1>2 DEF Crash, diskVars, TypeOK, Processes
    <2>2. Canonical' = Canonical /\ FilesTidy'
        BY <2>1, SameCanonical, FilesStay DEF Calm, TypeOK
    <2>3. \A q \in Processes, d \in Editors :
              job'[q][d].snap.pc \in {"idle", "queued"} /\ job'[q][d].at = "nowhere"
        <3> TAKE q \in Processes, d \in Editors
        <3>1. CASE q = Owner
            BY <2>1, <3>1 DEF IdleJob, Blind
        <3>2. CASE q # Owner
            BY <2>1, <3>2 DEF Calm, OneStore, Store, Step
        <3> QED BY <3>1, <3>2
    <2>4. \A q \in Processes, d \in Editors : job'[q][d].snap.pc = "idle"
        <3> TAKE q \in Processes, d \in Editors
        <3>1. CASE q = Owner
            BY <2>1, <3>1 DEF IdleJob, Blind
        <3>2. CASE q # Owner
            BY <2>1, <3>2 DEF Calm, OneStore, Store
        <3> QED BY <3>1, <3>2
    <2>5. \A q \in Processes, d \in Editors : Step(q, d)'
        BY <2>3, WaitingStep
    <2> QED BY <2>1, <2>2, <2>4, <2>5, NamesAssumption DEF Calm, OneStore, MadeOnce
<1> QED BY <1>1, <1>2

\* What a thread does.
LEMMA JobKeeps ==
    ASSUME TypeOK, Calm, OneLocal, NEW p \in Processes, NEW e \in Editors, JobStep(p, e)
    PROVE  Calm'
BY LockKeeps, LoadKeeps, CheckKeeps, OpenTmpKeeps, WriteKeeps, RenameKeeps, ReplyKeeps DEF JobStep

\* The first state.
LEMMA InitCalm == Init => Calm
<1> SUFFICES ASSUME Init PROVE Calm
    OBVIOUS
<1>1. /\ \A x : IdleJob.snap.pc = "idle" /\ IdleJob.at = "nowhere"
      /\ IdleEditor.snap.pc = "idle" /\ IdleEditor.asks = "nobody"
    BY DEF IdleJob, IdleEditor, Blind
<1>2. \A p \in Processes, e \in Editors : Step(p, e)
    BY <1>1 DEF Init, Step, Saving
<1>3. OneStore
    BY <1>1, NamesAssumption DEF Init, OneStore, Processes
<1>4. ASSUME NEW x \in {Old, None}, NEW was \in Was(x)
      PROVE  /\ Tidy(was) /\ was.mtime <= clock
             /\ \A n \in Notes : was.doc[n] \notin Editors
    <2>1. [n \in Notes |-> x] \in Docs /\ clock = 2
        BY DEF Docs, Init
    <2> QED BY <2>1, NamesAssumption DEF Was, Tidy, File, Absent, NoDoc
<1>5. FilesTidy
    BY <1>4 DEF Init, FilesTidy
<1> QED BY <1>2, <1>3, <1>5 DEF Init, Calm, MadeOnce

\* Every step of the run.
LEMMA TimedStepKeeps ==
    ASSUME TypeOK, Kept, OneLocal, [TimedNext]_TimedVars
    PROVE  Kept'
<1> SUFFICES ASSUME waits' # "over" PROVE Calm'
    BY DEF Kept
<1>1. CASE UNCHANGED TimedVars
    <2>1. /\ Calm /\ UNCHANGED <<file, tmp, clock, up, want, editor, job, made>>
        BY <1>1 DEF TimedVars, vars, diskVars, Kept
    <2>2. Canonical' = Canonical /\ Store' = Store /\ FilesTidy'
        BY <2>1, SameCanonical, FilesStay DEF Store, Calm, TypeOK
    <2>3. \A q \in Processes, d \in Editors : Step(q, d)'
        BY <2>1, StepStays DEF Calm
    <2> QED BY <2>1, <2>2, <2>3 DEF Calm, OneStore, MadeOnce
<1>2. CASE TimedNext
    <2>1. /\ UNCHANGED waits
          /\ \/ Remount \/ Crash
             \/ \E e \in Editors : EditorActs(e)
             \/ \E p \in Processes, e \in Editors : JobStep(p, e)
        BY <1>2 DEF TimedNext
    <2>2. Calm
        BY <2>1 DEF Kept
    <2> QED BY <2>1, <2>2, EnvironmentKeeps, EditorKeeps, JobKeeps
<1> QED BY <1>1, <1>2

\* A step that leaves the files, and what is said of the edits, stutters.
LEMMA PromiseStutters ==
    ASSUME UNCHANGED <<file, want>>,
           \A d \in Editors : editor'[d].snap.rev = editor[d].snap.rev /\ Outcome(d)' = Outcome(d)
    PROVE  UNCHANGED Promise!vars
<1>1. Canonical' = Canonical
    BY SameCanonical
<1>2. [d \in Editors |-> editor[d].snap.rev]' = [d \in Editors |-> editor[d].snap.rev]
    OBVIOUS
<1>3. [d \in Editors |-> Outcome(d)]' = [d \in Editors |-> Outcome(d)]
    OBVIOUS
<1> QED BY <1>1, <1>2, <1>3 DEF Promise!vars

\* What is said of an edit depends on its editor and on whether it was made.
LEMMA SaidOfIt ==
    ASSUME NEW d \in Editors, UNCHANGED made, editor'[d] = editor[d]
    PROVE  Outcome(d)' = Outcome(d)
BY DEF Outcome

\* What the store does for an edit, the promise allows.
LEMMA JobKeepsPromise ==
    ASSUME TypeOK, Calm, NEW p \in Processes, NEW e \in Editors, JobStep(p, e)
    PROVE  Promise!Next \/ UNCHANGED Promise!vars
<1>1. CASE UNCHANGED <<file, want, editor, made>>
    BY <1>1, PromiseStutters, SaidOfIt
<1>2. CASE Lock(p, e) \/ Load(p, e) \/ Check(p, e) \/ OpenTmp(p, e)
    <2>1. UNCHANGED <<file, want, editor, made>>
        BY <1>2 DEF Lock, Load, Check, OpenTmp, diskVars
    <2> QED BY <1>1, <2>1
<1>3. CASE Write(p, e)
    <2>1. job[p][e].at = "tmp"
        BY <1>3 DEF Write, Calm, Step
    <2>2. UNCHANGED <<file, want, editor, made>>
        BY <1>3, <2>1 DEF Write
    <2> QED BY <1>1, <2>2
<1>4. CASE Rename(p, e)
    <2>1. job[p][e].snap.pc = "rename" /\ job[p][e].snap.pc \in Saving
        BY <1>4 DEF Rename, Saving
    <2>2. CASE Refused(job[p][e])
        <3>1. UNCHANGED <<file, want, editor, made>>
            BY <1>4, <2>2 DEF Rename
        <3> QED BY <1>1, <3>1
    <2>3. CASE ~ Refused(job[p][e])
        <3>1. e \notin made /\ Canonical = editor[e].snap.rev /\ editor[e].snap.pc = "sent"
            BY <2>1, SavesOnce
        <3>2. /\ Canonical' = [form |-> "whole", doc |-> Edited(Canonical.doc, e)]
              /\ made' = made \union {e} /\ UNCHANGED <<want, editor>>
            BY <1>4, <2>3, RenameMakes
        <3>3. Outcome(e) = "open"
            BY <3>1 DEF Outcome
        <3>4. [d \in Editors |-> Outcome(d)]' = [[d \in Editors |-> Outcome(d)] EXCEPT ![e] = "made"]
            <4>1. Outcome(e)' = "made"
                BY <3>1, <3>2 DEF Outcome
            <4>2. \A d \in Editors : d # e => Outcome(d)' = Outcome(d)
                BY <3>2 DEF Outcome
            <4> QED BY <4>1, <4>2
        <3>5. Promise!Whole(Promise!Edited(Canonical.doc, e, want[e])) = Canonical'
            BY <3>2 DEF Promise!Whole, Promise!Edited, Edited
        <3>6. Promise!Make(e)
            BY <3>1, <3>2, <3>3, <3>4, <3>5 DEF Promise!Make
        <3> QED BY <3>6 DEF Promise!Next
    <2> QED BY <2>2, <2>3
<1>5. CASE Reply(p, e)
    <2> DEFINE x == job[p][e].snap.pc
    <2>1. /\ x \in {"saved", "conflict"} /\ editor[e].snap.pc = "sent"
          /\ editor' = [editor EXCEPT ![e] = At(e, x)] /\ UNCHANGED <<diskVars, up, want, made, events>>
        BY <1>5, ReplyAnswers
    <2>2. /\ editor'[e].snap.pc = x /\ editor'[e].snap.rev = editor[e].snap.rev
          /\ \A d \in Editors : d # e => editor'[d] = editor[d]
        BY <2>1 DEF TypeOK, At, EditorState, Reader
    <2>3. Canonical' = Canonical
        BY <2>1, SameCanonical DEF diskVars
    <2>4. [d \in Editors |-> editor[d].snap.rev]' = [d \in Editors |-> editor[d].snap.rev]
        BY <2>2
    <2>5. \A d \in Editors : d # e => Outcome(d)' = Outcome(d)
        BY <2>1, <2>2, SaidOfIt
    <2>6. Outcome(e) = IF e \in made THEN "made" ELSE "open"
        BY <2>1 DEF Outcome
    <2>7. CASE x = "saved"
        <3>1. Outcome(e)' = "acknowledged"
            BY <2>2, <2>7 DEF Outcome
        <3>2. [d \in Editors |-> Outcome(d)]' = [[d \in Editors |-> Outcome(d)] EXCEPT ![e] = "acknowledged"]
            BY <2>5, <3>1
        <3>3. \/ e \in made
              \/ Canonical = editor[e].snap.rev /\ want[e].verb = "delete" /\ Canonical.doc[want[e].note] = None
            BY <2>7 DEF Calm, Step
        <3>4. Promise!Acknowledge(e)
            BY <2>1, <2>3, <2>4, <2>6, <3>2, <3>3 DEF Promise!Acknowledge
        <3> QED BY <3>4 DEF Promise!Next
    <2>8. CASE x = "conflict"
        <3>1. Outcome(e)' = "refused"
            BY <2>2, <2>8 DEF Outcome
        <3>2. [d \in Editors |-> Outcome(d)]' = [[d \in Editors |-> Outcome(d)] EXCEPT ![e] = "refused"]
            BY <2>5, <3>1
        <3>3. Canonical # editor[e].snap.rev
            BY <2>8 DEF Calm, Step
        <3>4. Promise!Refuse(e)
            BY <2>1, <2>3, <2>4, <2>6, <3>2, <3>3 DEF Promise!Refuse
        <3> QED BY <3>4 DEF Promise!Next
    <2> QED BY <2>1, <2>7, <2>8
<1> QED BY <1>2, <1>3, <1>4, <1>5 DEF JobStep

\* So are an editor's own steps.
LEMMA EditorKeepsPromise ==
    ASSUME TypeOK, TypeOK', Calm, NEW e \in Editors, EditorActs(e)
    PROVE  Promise!Next \/ UNCHANGED Promise!vars
<1>0. editor \in [Editors -> EditorState]
      /\ (e \in made => editor[e].snap.pc \in {"sent", "saved", "conflict", "failed"})
    BY DEF TypeOK, Calm, MadeOnce
<1>1. ASSUME NEW x \in EditorPcs, NEW you, editor' = [editor EXCEPT ![e] = you],
             you.snap.pc = x, you.snap.rev = editor[e].snap.rev,
             UNCHANGED <<file, want, made>>,
             x \notin {"saved", "conflict", "failed"},
             editor[e].snap.pc \notin {"saved", "conflict", "failed"}
      PROVE  UNCHANGED Promise!vars
    <2>1. editor'[e] = you /\ \A d \in Editors : d # e => editor'[d] = editor[d]
        BY <1>0, <1>1
    <2>2. Outcome(e)' = Outcome(e)
        BY <1>1, <2>1 DEF Outcome
    <2> QED BY <1>1, <2>1, <2>2, PromiseStutters, SaidOfIt
<1>2. ASSUME NEW x \in EditorPcs
      PROVE  At(e, x).snap.pc = x /\ At(e, x).snap.rev = editor[e].snap.rev
    BY <1>0 DEF At, EditorState, Reader
<1>3. CASE Look(e)
    <2>1. UNCHANGED <<file, want, made>> /\ editor' = [editor EXCEPT ![e] = At(e, "primary")]
          /\ editor[e].snap.pc = "idle" /\ "primary" \in EditorPcs
        BY <1>3 DEF Look, SetEditor, diskVars, EditorPcs, ReadPcs
    <2> QED BY <1>1, <1>2, <2>1
<1>4. ASSUME NEW p, Ask(e, p), editor[e].snap.pc \in {"have", "sent"}
      PROVE  UNCHANGED Promise!vars
    <2> DEFINE you == [At(e, "sent") EXCEPT !.asks = p]
    <2>1. UNCHANGED <<file, want, made>> /\ editor' = [editor EXCEPT ![e] = you] /\ "sent" \in EditorPcs
        BY <1>4 DEF Ask, SetEditor, diskVars, EditorPcs
    <2>2. you.snap = At(e, "sent").snap
        BY <1>0 DEF At, EditorState
    <2> HIDE DEF you
    <2> QED BY <1>1, <1>2, <1>4, <2>1, <2>2
<1>5. CASE Send(e)
    BY <1>4, <1>5 DEF Send
<1>6. CASE Resort(e)
    BY <1>4, <1>6 DEF Resort
<1>7. CASE GiveUp(e)
    <2>1. /\ UNCHANGED <<file, want, made>> /\ editor' = [editor EXCEPT ![e] = At(e, "failed")]
          /\ editor[e].snap.pc \in {"have", "sent"} /\ "failed" \in EditorPcs
        BY <1>7 DEF GiveUp, SetEditor, diskVars, EditorPcs
    <2>2. editor'[e] = At(e, "failed") /\ \A d \in Editors : d # e => editor'[d] = editor[d]
        BY <1>0, <2>1
    <2>3. [d \in Editors |-> editor[d].snap.rev]' = [d \in Editors |-> editor[d].snap.rev]
        BY <1>2, <2>1, <2>2
    <2>4. Outcome(e)' = "unknown" /\ Outcome(e) \in {"open", "made"}
        BY <1>2, <2>1, <2>2 DEF Outcome
    <2>5. [d \in Editors |-> Outcome(d)]' = [[d \in Editors |-> Outcome(d)] EXCEPT ![e] = "unknown"]
        BY <2>1, <2>2, <2>4, SaidOfIt
    <2>6. Canonical' = Canonical
        BY <2>1, SameCanonical
    <2>7. Promise!Abandon(e)
        BY <2>1, <2>3, <2>4, <2>5, <2>6 DEF Promise!Abandon
    <2> QED BY <2>7 DEF Promise!Next
<1>8. CASE LookOn(e)
    <2> DEFINE you == [editor[e] EXCEPT !.snap = ReadOn(@)]
    <2>1. /\ UNCHANGED <<file, want, made>> /\ editor' = [editor EXCEPT ![e] = you]
          /\ Reading(editor[e].snap) /\ e \notin made
        BY <1>0, <1>8 DEF LookOn, SetEditor, diskVars, Reading
    <2>2. you.snap.pc \in {"fallback", "hash", "have"}
        <3>1. editor[e].snap \in Reader(EditorPcs) /\ you.snap = ReadOn(editor[e].snap)
            BY <1>0 DEF EditorState
        <3> QED BY <2>1, <3>1, ReaderType DEF EditorPcs
    <2>3. editor'[e] = you /\ \A d \in Editors : d # e => editor'[d] = editor[d]
        BY <1>0, <2>1
    <2> HIDE DEF you
    <2>4. Outcome(e) = "open" /\ Outcome(e)' = "open"
        BY <2>1, <2>2, <2>3 DEF Outcome, Reading
    <2>5. [d \in Editors |-> Outcome(d)]' = [d \in Editors |-> Outcome(d)]
        BY <2>1, <2>3, <2>4, SaidOfIt
    <2>6. Canonical' = Canonical
        BY <2>1, SameCanonical
    <2>7. [d \in Editors |-> editor[d].snap.rev]' \in [Editors -> Promise!Revisions]
        BY DEF TypeOK, EditorState, Reader, Revisions, Form, Docs, Promise!Revisions, Promise!Docs
    <2>8. Promise!Look(e)
        BY <2>1, <2>3, <2>4, <2>5, <2>6, <2>7 DEF Promise!Look
    <2> QED BY <2>8 DEF Promise!Next
<1> QED BY <1>3, <1>5, <1>6, <1>7, <1>8 DEF EditorActs

\* A remount and a crash change nothing of it.
LEMMA EnvironmentKeepsPromise ==
    ASSUME Remount \/ Crash
    PROVE  UNCHANGED Promise!vars
<1>1. UNCHANGED <<file, want, editor, made>>
    BY DEF Remount, Crash, diskVars
<1> QED BY <1>1, PromiseStutters, SaidOfIt

\* The first state is one of the promise.
LEMMA InitPromises == Init => Promise!Init
<1> SUFFICES ASSUME Init PROVE Promise!Init
    OBVIOUS
<1>1. TypeOK
    BY InitType
<1>2. \A e \in Editors : Outcome(e) = "open"
    BY DEF Init, Outcome, IdleEditor, Blind
<1>3. Canonical \in Promise!Revisions
    BY <1>1, CanonicalType DEF Revisions, Form, Docs, Promise!Revisions, Promise!Docs
<1>4. [e \in Editors |-> editor[e].snap.rev] \in [Editors -> Promise!Revisions]
    BY <1>1 DEF TypeOK, EditorState, Reader, Revisions, Form, Docs, Promise!Revisions, Promise!Docs
<1>5. want \in [Editors -> Promise!Wants]
    BY <1>1 DEF TypeOK, Wants, Promise!Wants
<1> QED BY <1>2, <1>3, <1>4, <1>5 DEF Promise!Init

\* As long as no editor of the TUI tires of a living owner, the owner and after
\* it the TUI keep the promise of GuardedNotes: every step that changes the notes
\* is one edit, made once, on the revision its editor sent (notes.py, upsert_note
\* and delete_note), for a TUI that makes one edit at a time.
THEOREM NotesKeepTheirPromise == ASSUME OneLocal PROVE TimedSpec => PromiseKeptByOne
<1>1. TimedInit => TypeOK /\ Kept /\ Promise!Init
    BY InitType, InitCalm, InitPromises DEF TimedInit, Kept
<1>2. [TimedNext]_TimedVars => [Next]_vars
    BY DEF TimedNext, TimedVars, Next, EditorActs
<1>3. TypeOK /\ [Next]_vars => TypeOK'
    BY StepType
<1>4. TypeOK /\ Kept /\ [TimedNext]_TimedVars => TypeOK' /\ Kept'
    BY <1>2, <1>3, TimedStepKeeps
<1>5. TypeOK /\ TypeOK' /\ Kept /\ [TimedNext]_TimedVars
        => [waits' = "over" \/ Promise!Next]_<<Promise!vars, waits>>
    <2> SUFFICES ASSUME TypeOK, TypeOK', Kept, [TimedNext]_TimedVars, waits' # "over"
                 PROVE  Promise!Next \/ UNCHANGED <<Promise!vars, waits>>
        OBVIOUS
    <2>1. CASE UNCHANGED TimedVars
        <3>1. UNCHANGED <<file, want, editor, made>> /\ UNCHANGED waits
            BY <2>1 DEF TimedVars, vars, diskVars
        <3>2. UNCHANGED Promise!vars
            BY <3>1, PromiseStutters, SaidOfIt
        <3> QED BY <3>1, <3>2
    <2>2. CASE TimedNext
        <3>1. /\ UNCHANGED waits
              /\ \/ Remount \/ Crash
                 \/ \E e \in Editors : EditorActs(e)
                 \/ \E p \in Processes, e \in Editors : JobStep(p, e)
            BY <2>2 DEF TimedNext
        <3>2. Calm
            BY <3>1 DEF Kept
        <3>3. Promise!Next \/ UNCHANGED Promise!vars
            BY <3>1, <3>2, JobKeepsPromise, EditorKeepsPromise, EnvironmentKeepsPromise
        <3> QED BY <3>1, <3>3
    <2> QED BY <2>1, <2>2
<1> QED BY <1>1, <1>4, <1>5, PTL DEF TimedSpec, PromiseKeptByOne



-----------------------------------------------------------------------------
(* The leader. *)

\* One timer runs while the leader is armed, that of the last arming, and none
\* otherwise: _leader_disarm leaves no timer behind.
TimersInv ==
    /\ arming \in Nat
    /\ armed \in BOOLEAN
    /\ timers = IF armed THEN {arming} ELSE {}

LEMMA TimersInitially == KeyInit => TimersInv
<1> SUFFICES ASSUME KeyInit PROVE TimersInv
    OBVIOUS
<1>1. armed = FALSE /\ arming = 0 /\ timers = {}
      BY DEF KeyInit
<1>2. armed \in BOOLEAN /\ ~armed
      BY <1>1, Zenon
<1>3. arming \in Nat
      BY <1>1
<1> QED BY <1>1, <1>2, <1>3, Zenon DEF TimersInv

LEMMA DisarmsKeeps == TimersInv /\ armed /\ Disarms => TimersInv'
BY DEF TimersInv, Disarms

LEMMA StaysKeeps == TimersInv /\ Stays => TimersInv'
BY DEF TimersInv, Stays

LEMMA ArmsKeeps == TimersInv /\ ~armed /\ Arms => TimersInv'
BY DEF TimersInv, Arms

LEMMA TimersStep == TimersInv /\ [KeyNext]_keyVars => TimersInv'
<1> SUFFICES ASSUME TimersInv, [KeyNext]_keyVars PROVE TimersInv'
    OBVIOUS
<1>1. CASE PressesKey
  <2>1. PICK k \in PressedKeys :
           \/ PressesWithoutLeader(k) \/ PressesInAField(k) \/ PressesEscape(k)
           \/ PressesAfterLeader(k) \/ PressesUnarmed(k)
        BY <1>1 DEF PressesKey
  <2>2. CASE PressesWithoutLeader(k)
        BY <2>2, StaysKeeps DEF PressesWithoutLeader
  <2>3. CASE PressesInAField(k)
        BY <2>3, StaysKeeps, DisarmsKeeps DEF PressesInAField
  <2>4. CASE PressesEscape(k)
        BY <2>4, StaysKeeps, DisarmsKeeps DEF PressesEscape
  <2>5. CASE PressesAfterLeader(k)
        BY <2>5, DisarmsKeeps DEF PressesAfterLeader
  <2>6. CASE PressesUnarmed(k)
        BY <2>6, StaysKeeps, ArmsKeeps DEF PressesUnarmed
  <2> QED BY <2>1, <2>2, <2>3, <2>4, <2>5, <2>6
<1>2. CASE TimesOut
      BY <1>2 DEF TimesOut, TimersInv
<1>3. CASE TurnsTo
      BY <1>3 DEF TurnsTo, TimersInv
<1>4. CASE UNCHANGED keyVars
      BY <1>4 DEF keyVars, TimersInv
<1> QED BY <1>1, <1>2, <1>3, <1>4 DEF KeyNext

\* The timer of an earlier arming never ends a later one (app.py, _leader_arm
\* and _leader_disarm).
THEOREM LeaderAlwaysHoldsItsTime == KeySpec => LeaderHoldsItsTime
<1>1. TimersInv /\ [KeyNext]_keyVars
         => [armed /\ ~armed' /\ pressed' = pressed => timers = {arming}]_keyVars
      BY DEF TimersInv
<1> QED BY <1>1, TimersInitially, TimersStep, PTL DEF KeySpec, LeaderHoldsItsTime

-----------------------------------------------------------------------------
(* The file. *)

\* The keymap is what was loaded at the mount; no step reads the file again.
LoadedOnce == keymap = Loaded(keyFile)

THEOREM KeymapIsLoaded == KeySpec => []LoadedOnce
<1>1. KeyInit => LoadedOnce
      BY DEF KeyInit, LoadedOnce
<1>2. LoadedOnce /\ [KeyNext]_keyVars => LoadedOnce'
  <2> SUFFICES ASSUME LoadedOnce, [KeyNext]_keyVars PROVE LoadedOnce'
      OBVIOUS
  <2>1. UNCHANGED <<keyFile, keymap>>
        BY DEF KeyNext, PressesKey, TimesOut, TurnsTo, keyVars
  <2> QED BY <2>1 DEF LoadedOnce
<1> QED BY <1>1, <1>2, PTL DEF KeySpec

\* Of a file that stands, every line of a known action gives it its chord.
LEMMA MergedTakesEachLine ==
    ASSUME NEW f, ~RemappedTwice(f), NEW e \in Remaps(f)
    PROVE  MergedChords(f)[e.id] = e.chord
<1>1. e.id \in Ids
      BY DEF Remaps, KnownLine, Ids
<1> DEFINE own == {d \in Remaps(f) : d.id = e.id}
<1>2. /\ own # {}
      /\ \A d \in own : d.chord = e.chord
      BY DEF RemappedTwice
<1>3. (CHOOSE d \in own : TRUE) \in own
      BY <1>2
<1>4. MergedChords(f)[e.id] = (CHOOSE d \in own : TRUE).chord
      BY <1>1, <1>2 DEF MergedChords
<1> QED BY <1>2, <1>3, <1>4

\* "A bad overlay is refused in full" (overlay.py): whatever the file says, the
\* keys are the catalog's or follow every line of a known action.
THEOREM AlwaysRefusedInFull == KeySpec => []RefusedInFull
<1>1. LoadedOnce => RefusedInFull
  <2> SUFFICES ASSUME LoadedOnce, keymap # DefaultKeymap PROVE RefusedInFull
      BY DEF RefusedInFull
  <2>1. /\ keymap = [chords |-> MergedChords(keyFile), leader |-> keyFile.leader]
        /\ ~DocumentIsBad(keyFile)
        /\ ~RemappedTwice(keyFile)
        BY DEF LoadedOnce, Loaded
  <2>2. ASSUME NEW e \in keyFile.remaps
        PROVE  /\ ~e.nested /\ e.table \in KeyScopes
               /\ KnownLine(e) => keymap.chords[e.id] = e.chord
    <3>1. ~e.nested /\ e.table \in KeyScopes
          BY <2>1 DEF DocumentIsBad
    <3>2. ASSUME KnownLine(e) PROVE keymap.chords[e.id] = e.chord
          BY <2>1, <3>2, MergedTakesEachLine DEF Remaps
    <3> QED BY <3>1, <3>2
  <2> QED BY <2>1, <2>2 DEF RefusedInFull
<1> QED BY <1>1, KeymapIsLoaded, PTL

-----------------------------------------------------------------------------
(* One press. *)

\* What a press fired has its key in the keymap, or is alone.
FiredInv ==
    /\ fired.ids \subseteq Ids
    /\ \/ \A i \in fired.ids : fired.part \in keymap.chords[i]
       \/ \A i, j \in fired.ids : i = j

LEMMA PlainFires ==
    ASSUME NEW k, GoesToTheScreen(k), UNCHANGED keymap
    PROVE  FiredInv'
BY DEF GoesToTheScreen, FiresNothing, Fires, PlainHolders, FiredInv

LEMMA NothingFires ==
    ASSUME NEW k, FiresNothing(k)
    PROVE  FiredInv'
BY DEF FiresNothing, Fires, FiredInv

\* Of the rows that have a sequence, the first alone fires.
LEMMA SequenceFiresOne ==
    ASSUME NEW k
    PROVE  /\ SequenceRow(k) \subseteq Ids
           /\ \A i, j \in SequenceRow(k) : i = j
<1>1. DOMAIN Catalog \subseteq Nat
      BY CatalogAssumption
<1> QED BY <1>1 DEF SequenceRow, Ids

LEMMA FiredStep == FiredInv /\ [KeyNext]_keyVars => FiredInv'
<1> SUFFICES ASSUME FiredInv, [KeyNext]_keyVars PROVE FiredInv'
    OBVIOUS
<1>1. CASE PressesKey
  <2>1. PICK k \in PressedKeys :
           \/ PressesWithoutLeader(k) \/ PressesInAField(k) \/ PressesEscape(k)
           \/ PressesAfterLeader(k) \/ PressesUnarmed(k)
        BY <1>1 DEF PressesKey
  <2>2. UNCHANGED keymap
        BY <1>1 DEF PressesKey
  <2>3. CASE PressesWithoutLeader(k)
        BY <2>2, <2>3, PlainFires DEF PressesWithoutLeader
  <2>4. CASE PressesInAField(k)
        BY <2>2, <2>4, PlainFires DEF PressesInAField
  <2>5. CASE PressesEscape(k)
        BY <2>2, <2>5, PlainFires, NothingFires DEF PressesEscape
  <2>6. CASE PressesAfterLeader(k)
    <3>1. CASE k = keymap.leader
          BY <2>6, <3>1, NothingFires DEF PressesAfterLeader
    <3>2. CASE k # keymap.leader
      <4>1. fired' = [part |-> After(k), ids |-> {i \in SequenceRow(k) : Reachable(i, onScreen)}]
            BY <2>6, <3>2 DEF PressesAfterLeader, Fires
      <4> QED BY <4>1, SequenceFiresOne DEF FiredInv
    <3> QED BY <3>1, <3>2
  <2>7. CASE PressesUnarmed(k)
        BY <2>2, <2>7, PlainFires, NothingFires DEF PressesUnarmed
  <2> QED BY <2>1, <2>3, <2>4, <2>5, <2>6, <2>7
<1>2. CASE TimesOut
      BY <1>2 DEF TimesOut, FiredInv
<1>3. CASE TurnsTo
      BY <1>3 DEF TurnsTo, FiredInv
<1>4. CASE UNCHANGED keyVars
      BY <1>4 DEF keyVars, FiredInv
<1> QED BY <1>1, <1>2, <1>3, <1>4 DEF KeyNext

LEMMA IdsAreFinite == IsFiniteSet(Ids)
<1>1. IsFiniteSet(DOMAIN Catalog)
  <2>1. Len(Catalog) \in Nat /\ DOMAIN Catalog = 1 .. Len(Catalog)
        BY CatalogAssumption
  <2> QED BY <2>1, FS_Interval
<1> DEFINE name == [n \in DOMAIN Catalog |-> Catalog[n].id]
<1>2. name \in Surjection(DOMAIN Catalog, Ids)
      BY DEF Ids, Surjection
<1> QED BY <1>1, <1>2, FS_Surjection

\* Two actions of one scope hold a part of the keymap only if the catalog
\* already gave it to both.
LEMMA NoNewSharing ==
    ASSUME LoadedOnce, NEW i \in Ids, NEW j \in Ids, NEW part,
           i # j, Row(i).scope = Row(j).scope,
           part \in keymap.chords[i], part \in keymap.chords[j]
    PROVE  part \in DefaultChords[i] \intersect DefaultChords[j]
<1>1. CASE keymap = DefaultKeymap
      BY <1>1 DEF DefaultKeymap
<1>2. CASE keymap # DefaultKeymap
  <2> DEFINE scope == Row(i).scope
             holders == Holders(keymap.chords, scope, part)
  <2>1. ~Clashing(keymap.chords)
        BY <1>2 DEF LoadedOnce, Loaded
  <2>2. scope \in KeyScopes
    <3>1. PICK n \in DOMAIN Catalog : Row(i) = Catalog[n]
          BY DEF Row, Ids
    <3>2. \A m \in DOMAIN Catalog : Catalog[m].scope \in KeyScopes
      <4> DEFINE Rows == [id : STRING, scope : KeyScopes, keys : SUBSET STRING,
                          tables : SUBSET KeyScopes]
      <4>1. Catalog \in Seq(Rows)
            BY CatalogAssumption
      <4>2. \A m \in DOMAIN Catalog : Catalog[m] \in Rows
        <5> HIDE DEF Rows
        <5> QED BY <4>1
      <4> QED BY <4>2
    <3> QED BY <3>1, <3>2
  <2>3. part \in Parts(keymap.chords)
        BY DEF Parts
  <2>4. i \in holders /\ j \in holders
        BY DEF Holders
  <2>5. Cardinality(holders) > 1
    <3>1. IsFiniteSet(holders)
          BY IdsAreFinite, FS_Subset DEF Holders
    <3>2. Cardinality({i, j}) = 2
      <4>1. IsFiniteSet({i}) /\ Cardinality({i}) = 1
            BY FS_Singleton
      <4>2. j \notin {i}
            OBVIOUS
      <4>3. Cardinality({i} \union {j}) = Cardinality({i}) + 1
            BY <4>1, <4>2, FS_AddElement, Zenon
      <4>4. {i, j} = {i} \union {j}
            OBVIOUS
      <4> QED BY <4>1, <4>3, <4>4
    <3>3. Cardinality({i, j}) <= Cardinality(holders)
          BY <2>4, <3>1, FS_Subset
    <3>4. Cardinality(holders) \in Nat
          BY <3>1, FS_CardinalityType
    <3> QED BY <3>2, <3>3, <3>4
  <2>6. holders \subseteq Holders(DefaultChords, scope, part)
        BY <2>1, <2>2, <2>3, <2>5 DEF Clashing
  <2> QED BY <2>4, <2>6 DEF Holders
<1> QED BY <1>1, <1>2

\* One press never fires two actions of one scope that the catalog does not
\* itself give the key to (overlay.py, _clash_errors).
THEOREM OneActionAlways == KeySpec => []OneActionForAPress
<1>1. KeyInit => FiredInv
      BY DEF KeyInit, FiredInv
<1>2. KeySpec => []FiredInv
      BY <1>1, FiredStep, PTL DEF KeySpec
<1>3. FiredInv /\ LoadedOnce => OneActionForAPress
      BY NoNewSharing DEF FiredInv, OneActionForAPress
<1> QED BY <1>2, <1>3, KeymapIsLoaded, PTL

-----------------------------------------------------------------------------
(* config.toml. *)

Documents == [Keys -> Nat]
Tasks == [kind : {"idle", "import", "unlink", "save", "fill"}, keys : SUBSET Keys, doc : Documents]
KeptDocuments == [read : BOOLEAN, cfg : [Settings -> Nat], doc : Documents]

\* What a writer would put into the file is right but for the keys it is
\* behind with: of a program, what it keeps, the settings as loaded and the
\* rest of the document; of a write under way, its document.
Held(p, k) == IF k \in Settings THEN kept[p].cfg[k] ELSE kept[p].doc[k]
KeptRight ==
    \A p \in Programs : kept[p].read =>
        \A k \in Keys \ (behind[p] \union takenBack) : Held(p, k) = wanted[k]
TasksRight ==
    \A w \in Writers : task[w].kind \in {"import", "save", "fill"} =>
        \A k \in Keys \ (behind[w] \union takenBack \union task[w].keys) : task[w].doc[k] = wanted[k]
\* Until there is a config.toml, config.json says all.
JsonRight ==
    toml.state = "absent" => wanted = IF json.there THEN json.doc ELSE Blank
\* A leftover is only removed beside a config.toml.
LeftoverBeside == \A w \in Writers : task[w].kind = "unlink" => toml.state # "absent"
PrefsInv ==
    PrefsTypeOK /\ PrefsSurvive /\ KeptRight /\ TasksRight /\ JsonRight /\ LeftoverBeside

LEMMA BlankIsDocument ==
    /\ Blank \in Documents /\ Idle \in Tasks /\ NothingKept \in KeptDocuments
    /\ Idle.kind = "idle" /\ Idle.keys = {} /\ ~NothingKept.read
BY DEF Blank, Documents, Idle, Task, Tasks, NothingKept, KeptDocuments

LEMMA KeysAre == \A k : k \in Keys <=> k \in Settings \/ k = Own
BY DEF Keys

\* What a reader finds is right but for the keys it misses.
LEMMA ReadIsRight ==
    ASSUME PrefsInv
    PROVE  /\ ReadDocument \in Documents /\ Unread \subseteq Keys
           /\ \A k \in Keys \ (Unread \union takenBack) : ReadDocument[k] = wanted[k]
<1>1. ReadDocument \in Documents
  BY BlankIsDocument DEF ReadDocument, PrefsInv, PrefsTypeOK, Documents
<1>2. CASE toml.state = "whole"
  BY <1>1, <1>2 DEF ReadDocument, Unread, PrefsInv, PrefsSurvive
<1>3. CASE toml.state = "absent" /\ ~json.there
  BY <1>1, <1>3 DEF ReadDocument, Unread, PrefsInv, JsonRight
<1>4. CASE toml.state # "whole" /\ ~(toml.state = "absent" /\ ~json.there)
  BY <1>1, <1>4 DEF Unread
<1> QED BY <1>2, <1>3, <1>4

\* A program that reads the file holds what a reader finds.
LEMMA ReadsKeeps ==
    ASSUME PrefsInv, NEW p \in Programs, ReadsPrefs(p), UNCHANGED <<toml, changes, wanted, takenBack>>,
           json' \in {json, [json EXCEPT !.there = FALSE]},
           json' # json => toml.state # "absent"
    PROVE  PrefsInv'
<1> DEFINE d == ReadDocument
           b == [read |-> TRUE, cfg |-> SettingsOf(d), doc |-> d]
<1>1. /\ d \in Documents /\ Unread \subseteq Keys
      /\ \A k \in Keys \ (Unread \union takenBack) : d[k] = wanted[k]
  BY ReadIsRight
<1>2. /\ kept' = [kept EXCEPT ![p] = b] /\ behind' = [behind EXCEPT ![p] = Unread]
      /\ task' = [task EXCEPT ![p] = Idle]
  BY DEF ReadsPrefs
<1> HIDE DEF d
<1>3. /\ SettingsOf(d) \in [Settings -> Nat] /\ \A s \in Settings : SettingsOf(d)[s] = d[s]
  BY <1>1, KeysAre DEF SettingsOf, Documents
<1>4. b \in KeptDocuments /\ b.read /\ b.doc = d /\ b.cfg = SettingsOf(d)
  BY <1>1, <1>3 DEF KeptDocuments
<1> HIDE DEF b
<1>5. p \in Writers /\ Programs \subseteq Writers
  BY DEF Writers
<1>6. PrefsTypeOK
  BY DEF PrefsInv
<1>7. PrefsTypeOK'
  BY <1>1, <1>2, <1>4, <1>5, <1>6, BlankIsDocument
     DEF PrefsTypeOK, Documents, Tasks, KeptDocuments
<1>8. PrefsSurvive' /\ JsonRight'
  BY DEF PrefsInv, PrefsSurvive, JsonRight
<1>9. KeptRight'
  <2> SUFFICES ASSUME NEW q \in Programs, kept'[q].read,
                      NEW k \in Keys \ (behind'[q] \union takenBack')
               PROVE  Held(q, k)' = wanted'[k]
    BY DEF KeptRight
  <2>1. CASE q = p
    <3>1. kept'[p] = b /\ behind'[p] = Unread
      BY <1>2, <1>5, <1>6 DEF PrefsTypeOK
    <3>2. d[k] = wanted[k]
      BY <1>1, <2>1, <3>1
    <3> QED BY <1>3, <1>4, <2>1, <3>1, <3>2, KeysAre DEF Held
  <2>2. CASE q # p
    <3>1. kept'[q] = kept[q] /\ behind'[q] = behind[q]
      BY <1>2, <1>5, <1>6, <2>2 DEF PrefsTypeOK
    <3> QED BY <3>1 DEF PrefsInv, KeptRight, Held
  <2> QED BY <2>1, <2>2
<1>10. TasksRight'
  <2> SUFFICES ASSUME NEW w \in Writers, task'[w].kind \in {"import", "save", "fill"}
               PROVE  \A k \in Keys \ (behind'[w] \union takenBack' \union task'[w].keys) :
                         task'[w].doc[k] = wanted'[k]
    BY DEF TasksRight
  <2>1. w # p
    BY <1>2, <1>5, <1>6, BlankIsDocument DEF PrefsTypeOK
  <2>2. task'[w] = task[w] /\ behind'[w] = behind[w]
    BY <1>2, <1>5, <1>6, <2>1 DEF PrefsTypeOK
  <2> QED BY <2>2 DEF PrefsInv, TasksRight
<1>11. LeftoverBeside'
  <2>1. task'[p] = Idle /\ \A w \in Writers \ {p} : task'[w] = task[w]
    BY <1>2, <1>5, <1>6 DEF PrefsTypeOK
  <2> QED BY <2>1, BlankIsDocument DEF PrefsInv, LeftoverBeside
<1> QED BY <1>7, <1>8, <1>9, <1>10, <1>11 DEF PrefsInv

\* A step that only begins or drops a write.
LEMMA TaskChanges ==
    ASSUME PrefsInv, NEW w \in Writers, NEW t \in Tasks, task' = [task EXCEPT ![w] = t],
           UNCHANGED <<json, wanted, takenBack>>, changes' \in Nat,
           toml' = toml \/ toml' = [toml EXCEPT !.state = "empty"],
           behind' \in [Writers -> SUBSET Keys], \A v \in Writers \ {w} : behind'[v] = behind[v],
           kept' \in [Programs -> KeptDocuments],
           \A p \in Programs : kept'[p].read =>
              /\ kept[p].read /\ behind'[p] = behind[p] /\ kept'[p].cfg = kept[p].cfg
              /\ kept'[p].doc[Own] = kept[p].doc[Own],
           t.kind \in {"import", "save", "fill"} =>
              \A k \in Keys \ (behind'[w] \union takenBack \union t.keys) : t.doc[k] = wanted[k],
           t.kind # "unlink"
    PROVE  PrefsInv'
<1>1. PrefsTypeOK
  BY DEF PrefsInv
<1>2. task'[w] = t /\ \A v \in Writers \ {w} : task'[v] = task[v]
  BY <1>1 DEF PrefsTypeOK
<1>3. PrefsTypeOK'
  BY <1>1, <1>2 DEF PrefsTypeOK, Tasks, KeptDocuments, Documents
<1>4. PrefsSurvive' /\ JsonRight'
  BY <1>1 DEF PrefsInv, PrefsSurvive, JsonRight, PrefsTypeOK
<1>5. KeptRight'
  BY KeysAre DEF PrefsInv, KeptRight, Held
<1>6. TasksRight'
  BY <1>2 DEF PrefsInv, TasksRight
<1>7. LeftoverBeside'
  <2>1. toml' = toml \/ toml'.state = "empty"
    BY <1>1 DEF PrefsTypeOK
  <2> QED BY <1>2, <2>1 DEF PrefsInv, LeftoverBeside
<1> QED BY <1>3, <1>4, <1>5, <1>6, <1>7 DEF PrefsInv

LEMMA FillKeeps ==
    ASSUME PrefsInv, NEW w \in Writers, FillsFile(w)
    PROVE  PrefsInv'
<1> DEFINE save == task[w]
<1>1. PrefsTypeOK
  BY DEF PrefsInv
<1>2. /\ toml'.doc = save.doc /\ toml'.state \in {"whole", "broken"}
      /\ toml' \in [state : {"absent", "empty", "broken", "whole"}, doc : Documents]
  BY <1>1 DEF FillsFile, PrefsTypeOK, Documents
<1>3. /\ wanted' = [k \in Keys |-> IF k \in save.keys THEN save.doc[k] ELSE wanted[k]]
      /\ takenBack' = (takenBack \union behind[w]) \ save.keys
      /\ behind' = [v \in Writers |-> IF v = w THEN behind[w] ELSE behind[v] \union save.keys]
      /\ json' = json /\ changes' = changes
  BY DEF FillsFile
<1>4. save \in Tasks /\ save.kind \in {"import", "fill"}
  BY <1>1 DEF FillsFile, PrefsTypeOK, Tasks, Documents
<1>5. PICK t \in Tasks : t.kind \in {"idle", "unlink"} /\ task' = [task EXCEPT ![w] = t]
  <2>1. [save EXCEPT !.kind = "unlink"] \in Tasks /\ [save EXCEPT !.kind = "unlink"].kind = "unlink"
    BY <1>4 DEF Tasks
  <2> QED BY <2>1, BlankIsDocument DEF FillsFile
<1>6. \A k \in Keys \ (behind[w] \union takenBack \union save.keys) : save.doc[k] = wanted[k]
  BY <1>4 DEF PrefsInv, TasksRight
<1>7. \A k \in Keys \ takenBack' : save.doc[k] = wanted'[k]
  BY <1>3, <1>6
<1>8. wanted' \in Documents
  BY <1>1, <1>3, <1>4 DEF PrefsTypeOK, Documents, Tasks
<1> DEFINE b == [[[kept[w] EXCEPT !.read = save.kind = "fill"] EXCEPT !.doc = save.doc]
                    EXCEPT !.cfg = SettingsOf(save.doc)]
<1>9. kept \in [Programs -> KeptDocuments]
  BY <1>1 DEF PrefsTypeOK, KeptDocuments, Documents
<1>16. save.doc \in Documents /\ SettingsOf(save.doc) \in [Settings -> Nat]
  BY <1>4, KeysAre DEF Tasks, Documents, SettingsOf
<1>17. w \in Programs => b \in KeptDocuments /\ b.doc = save.doc /\ b.cfg = SettingsOf(save.doc)
  BY <1>9, <1>16 DEF KeptDocuments
<1>18. \/ w = Hud /\ kept' = kept
       \/ w \in Programs /\ kept' = [kept EXCEPT ![w] = b]
  <2>1. CASE w = Hud
    BY <2>1 DEF FillsFile
  <2>2. CASE w # Hud
    <3>1. kept' = [kept EXCEPT ![w].read = save.kind = "fill", ![w].doc = save.doc,
                               ![w].cfg = SettingsOf(save.doc)]
      BY <2>2 DEF FillsFile
    <3>2. w \in Programs
      BY <2>2 DEF Writers
    <3> QED BY <3>1, <3>2, <1>9
  <2> QED BY <2>1, <2>2
<1> HIDE DEF b
<1>19. \A p \in Programs : \/ p = w /\ kept'[p] = b /\ w \in Programs
                           \/ p # w /\ kept'[p] = kept[p]
  BY <1>9, <1>18, HudAssumption
<1>20. \A p \in Programs : \/ p = w /\ kept'[p].cfg = SettingsOf(save.doc) /\ kept'[p].doc = save.doc
                           \/ p # w /\ kept'[p] = kept[p]
  BY <1>17, <1>19
<1>10. kept' \in [Programs -> KeptDocuments]
  BY <1>9, <1>17, <1>18
<1>11. takenBack' \subseteq Keys /\ behind' \in [Writers -> SUBSET Keys]
  BY <1>1, <1>3, <1>4 DEF PrefsTypeOK, Tasks
<1>12. PrefsTypeOK'
  BY <1>1, <1>2, <1>3, <1>5, <1>8, <1>10, <1>11 DEF PrefsTypeOK, Documents, KeptDocuments, Tasks
<1>13. PrefsSurvive' /\ JsonRight' /\ LeftoverBeside'
  BY <1>2, <1>7 DEF PrefsSurvive, JsonRight, LeftoverBeside
<1>14. KeptRight'
  <2> SUFFICES ASSUME NEW p \in Programs, kept'[p].read,
                      NEW k \in Keys \ (behind'[p] \union takenBack')
               PROVE  Held(p, k)' = wanted'[k]
    BY DEF KeptRight
  <2>1. CASE p = w
    <3>1. SettingsOf(save.doc) = [s \in Settings |-> save.doc[s]]
      BY DEF SettingsOf
    <3> QED BY <1>7, <1>20, <2>1, <3>1 DEF Held
  <2>2. CASE p # w
    <3>1. kept'[p] = kept[p] /\ p \in Writers
      BY <1>20, <2>2 DEF Writers
    <3>2. k \notin behind[p] /\ k \notin save.keys /\ k \notin takenBack
      BY <1>3, <2>2, <3>1
    <3>3. wanted'[k] = wanted[k]
      BY <1>3, <3>2
    <3> QED BY <3>1, <3>2, <3>3 DEF PrefsInv, KeptRight, Held
  <2> QED BY <2>1, <2>2
<1>15. TasksRight'
  <2> SUFFICES ASSUME NEW v \in Writers, task'[v].kind \in {"import", "save", "fill"},
                      NEW k \in Keys \ (behind'[v] \union takenBack' \union task'[v].keys)
               PROVE  task'[v].doc[k] = wanted'[k]
    BY DEF TasksRight
  <2>1. v # w
    BY <1>1, <1>5 DEF PrefsTypeOK
  <2>2. task'[v] = task[v]
    BY <1>1, <1>5, <2>1 DEF PrefsTypeOK
  <2>3. k \notin behind[v] /\ k \notin save.keys /\ k \notin takenBack
    BY <1>3, <2>1
  <2>4. wanted'[k] = wanted[k]
    BY <1>3, <2>3
  <2> QED BY <2>2, <2>3, <2>4 DEF PrefsInv, TasksRight
<1> QED BY <1>12, <1>13, <1>14, <1>15 DEF PrefsInv

LEMMA SaveKeeps ==
    ASSUME PrefsInv, NEW p \in Programs, BeginsSave(p)
    PROVE  PrefsInv'
<1>1. PrefsTypeOK
  BY DEF PrefsInv
<1>2. PICK keys \in SUBSET Settings \ {{}} :
         LET doc == Applied(kept[p].doc, Changed(p, keys), keys) IN
         /\ kept' = [kept EXCEPT ![p].doc = doc]
         /\ task' = [task EXCEPT ![p] = Task("save", keys, doc)]
  BY DEF BeginsSave
<1> DEFINE new == Changed(p, keys)
           doc == Applied(kept[p].doc, new, keys)
           t == Task("save", keys, doc)
<1>3. /\ kept[p] \in KeptDocuments /\ kept \in [Programs -> KeptDocuments] /\ changes \in Nat
      /\ kept[p].read /\ p \in Writers /\ keys \subseteq Keys
  BY <1>1, KeysAre DEF PrefsTypeOK, KeptDocuments, Documents, BeginsSave, Writers
<1>4. new \in [Settings -> Nat] /\ \A s \in Settings \ keys : new[s] = kept[p].cfg[s]
  BY <1>3 DEF Changed, KeptDocuments
<1> HIDE DEF new
<1>5. /\ doc \in Documents /\ doc[Own] = kept[p].doc[Own]
      /\ \A s \in Settings : doc[s] = new[s]
  BY <1>3, <1>4, KeysAre, PrefsAssumption DEF Applied, Documents, KeptDocuments
<1> HIDE DEF doc
<1>6. t \in Tasks /\ t.keys = keys /\ t.doc = doc /\ t.kind # "unlink"
  BY <1>3, <1>5 DEF Task, Tasks
<1>7. \A k \in Keys \ (behind[p] \union takenBack \union keys) : doc[k] = wanted[k]
  BY <1>3, <1>4, <1>5, KeysAre DEF PrefsInv, KeptRight, Held
<1>8. task' = [task EXCEPT ![p] = t] /\ kept' = [kept EXCEPT ![p].doc = doc]
  BY <1>2 DEF doc, new
<1> HIDE DEF t
<1>9. /\ kept' \in [Programs -> KeptDocuments]
      /\ \A q \in Programs : /\ kept'[q].read = kept[q].read /\ kept'[q].cfg = kept[q].cfg
                             /\ kept'[q].doc[Own] = kept[q].doc[Own]
  <2>1. [kept[p] EXCEPT !.doc = doc] \in KeptDocuments
    BY <1>3, <1>5 DEF KeptDocuments
  <2>2. kept' = [kept EXCEPT ![p] = [kept[p] EXCEPT !.doc = doc]]
    BY <1>3, <1>8
  <2>3. [kept[p] EXCEPT !.doc = doc].doc = doc
    BY <1>3 DEF KeptDocuments
  <2>4. /\ [kept[p] EXCEPT !.doc = doc].read = kept[p].read
        /\ [kept[p] EXCEPT !.doc = doc].cfg = kept[p].cfg
    BY <1>3 DEF KeptDocuments
  <2>5. kept'[p] = [kept[p] EXCEPT !.doc = doc] /\ \A q \in Programs \ {p} : kept'[q] = kept[q]
    BY <1>3, <2>2
  <2>6. kept' \in [Programs -> KeptDocuments]
    BY <1>3, <2>1, <2>2
  <2> QED BY <1>5, <2>3, <2>4, <2>5, <2>6
<1>10. /\ UNCHANGED <<toml, json, wanted, behind, takenBack>> /\ changes' = changes + 1
       /\ behind \in [Writers -> SUBSET Keys]
  BY <1>1 DEF BeginsSave, PrefsTypeOK
<1>11. /\ changes' \in Nat /\ behind' \in [Writers -> SUBSET Keys]
       /\ \A v \in Writers \ {p} : behind'[v] = behind[v]
  BY <1>3, <1>10
<1>12. \A q \in Programs : kept'[q].read =>
          /\ kept[q].read /\ behind'[q] = behind[q] /\ kept'[q].cfg = kept[q].cfg
          /\ kept'[q].doc[Own] = kept[q].doc[Own]
  BY <1>9, <1>10
<1>13. t.kind \in {"import", "save", "fill"} =>
          \A k \in Keys \ (behind'[p] \union takenBack \union t.keys) : t.doc[k] = wanted[k]
  BY <1>6, <1>7, <1>10
<1> QED BY <1>3, <1>6, <1>8, <1>9, <1>10, <1>11, <1>12, <1>13, TaskChanges

LEMMA ByHandKeeps == ASSUME PrefsInv, EditsByHand PROVE PrefsInv'
<1>1. PrefsTypeOK
  BY DEF PrefsInv
<1>2. PICK k0 \in Keys :
         /\ toml' = [state |-> "whole", doc |-> [ReadDocument EXCEPT ![k0] = changes + 1]]
         /\ wanted' = [wanted EXCEPT ![k0] = changes + 1]
         /\ takenBack' = (takenBack \union Unread) \ {k0}
         /\ behind' = [v \in Writers |-> behind[v] \union {k0}]
  BY DEF EditsByHand
<1>3. UNCHANGED <<json, kept, task>> /\ changes' = changes + 1 /\ changes \in Nat
  BY <1>1 DEF EditsByHand, PrefsTypeOK
<1> DEFINE d == ReadDocument
           e == [d EXCEPT ![k0] = changes + 1]
<1>4. /\ d \in Documents /\ Unread \subseteq Keys
      /\ \A k \in Keys \ (Unread \union takenBack) : d[k] = wanted[k]
  BY ReadIsRight
<1>5. toml' = [state |-> "whole", doc |-> e]
  BY <1>2
<1> HIDE DEF d
<1>6. e \in Documents /\ e[k0] = changes + 1 /\ \A k \in Keys \ {k0} : e[k] = d[k]
  BY <1>3, <1>4 DEF Documents
<1> HIDE DEF e
<1>7. /\ wanted' \in Documents /\ wanted'[k0] = changes + 1
      /\ \A k \in Keys \ {k0} : wanted'[k] = wanted[k]
  BY <1>1, <1>2, <1>3 DEF PrefsTypeOK, Documents
<1>8. takenBack' \subseteq Keys /\ behind' \in [Writers -> SUBSET Keys]
  BY <1>1, <1>2, <1>4 DEF PrefsTypeOK
<1>9. PrefsTypeOK'
  BY <1>1, <1>3, <1>5, <1>6, <1>7, <1>8 DEF PrefsTypeOK, Documents
<1>14. toml'.doc = e /\ toml'.state = "whole"
  BY <1>5
<1>15. \A k \in Keys \ takenBack' : e[k] = wanted'[k]
  BY <1>2, <1>4, <1>6, <1>7
<1>10. PrefsSurvive' /\ JsonRight'
  BY <1>14, <1>15 DEF PrefsSurvive, JsonRight
<1>16. LeftoverBeside'
  BY <1>14 DEF LeftoverBeside
<1>11. \A v \in Writers : \A k \in Keys : k \notin behind'[v] \union takenBack'
          => k # k0 /\ k \notin behind[v] /\ k \notin takenBack /\ wanted'[k] = wanted[k]
  BY <1>2, <1>7
<1>12. KeptRight'
  <2>1. Programs \subseteq Writers
    BY DEF Writers
  <2> QED BY <1>3, <1>11, <2>1 DEF PrefsInv, KeptRight, Held
<1>13. TasksRight'
  BY <1>3, <1>11 DEF PrefsInv, TasksRight
<1> QED BY <1>9, <1>10, <1>12, <1>13, <1>16 DEF PrefsInv

LEMMA PrefsStep == PrefsInv /\ [PrefsNext]_prefsVars => PrefsInv'
<1> SUFFICES ASSUME PrefsInv, [PrefsNext]_prefsVars PROVE PrefsInv'
    OBVIOUS
<1>1. PrefsTypeOK /\ Programs \subseteq Writers /\ Hud \in Writers
  BY DEF PrefsInv, Writers
<1>2. /\ behind \in [Writers -> SUBSET Keys] /\ kept \in [Programs -> KeptDocuments]
      /\ changes \in Nat /\ task \in [Writers -> Tasks]
  BY <1>1 DEF PrefsTypeOK, KeptDocuments, Documents, Tasks
<1>3. ASSUME NEW p \in Programs, LoadsPrefs(p) PROVE PrefsInv'
  BY <1>3, ReadsKeeps DEF LoadsPrefs
<1>4. ASSUME NEW p \in Programs, BeginsImport(p) PROVE PrefsInv'
  <2> DEFINE t == Task("import", {}, json.doc)
  <2>1. t \in Tasks /\ t.keys = {} /\ t.doc = json.doc
    BY <1>1 DEF Task, Tasks, PrefsTypeOK, Documents
  <2>8. t.kind # "unlink"
    BY DEF Task
  <2>2. wanted = json.doc
    BY <1>4 DEF BeginsImport, MustImport, PrefsInv, JsonRight
  <2>3. /\ task' = [task EXCEPT ![p] = t] /\ UNCHANGED <<json, kept, changes, wanted, takenBack>>
        /\ toml' = [toml EXCEPT !.state = "empty"] /\ behind' = [behind EXCEPT ![p] = {}]
        /\ ~kept[p].read
    BY <1>4 DEF BeginsImport, Empties
  <2> HIDE DEF t
  <2>4. /\ behind' \in [Writers -> SUBSET Keys] /\ \A v \in Writers \ {p} : behind'[v] = behind[v]
    BY <1>1, <1>2, <2>3
  <2>5. \A q \in Programs : kept'[q].read =>
           /\ kept[q].read /\ behind'[q] = behind[q] /\ kept'[q].cfg = kept[q].cfg
           /\ kept'[q].doc[Own] = kept[q].doc[Own]
    BY <1>1, <2>3, <2>4
  <2>6. \A k \in Keys \ (behind'[p] \union takenBack \union t.keys) : t.doc[k] = wanted[k]
    BY <2>1, <2>2
  <2>7. kept' \in [Programs -> KeptDocuments] /\ changes' \in Nat /\ p \in Writers
    BY <1>1, <1>2, <2>3
  <2> QED BY <2>1, <2>3, <2>4, <2>5, <2>6, <2>7, <2>8, TaskChanges
<1>5. ASSUME NEW p \in Programs, RemovesLeftover(p) PROVE PrefsInv'
  <2>1. toml.state # "absent"
    BY <1>1, <1>5 DEF RemovesLeftover, PrefsInv, LeftoverBeside
  <2> QED BY <1>5, <2>1, ReadsKeeps DEF RemovesLeftover
<1>6. ASSUME NEW p \in Programs, BeginsSave(p) PROVE PrefsInv'
  BY <1>6, SaveKeeps
<1>7. CASE HudReads
  <2> DEFINE d == ReadDocument
             e == [d EXCEPT ![Shared] = changes + 1]
             t == Task("save", {Shared}, e)
  <2>1. /\ d \in Documents /\ Unread \subseteq Keys
        /\ \A k \in Keys \ (Unread \union takenBack) : d[k] = wanted[k]
    BY ReadIsRight
  <2>2. task' = [task EXCEPT ![Hud] = t]
    BY <1>7 DEF HudReads
  <2> HIDE DEF d
  <2>10. Shared \in Keys /\ changes + 1 \in Nat
    BY <1>2, PrefsAssumption, KeysAre
  <2>3. e \in Documents /\ \A k \in Keys \ {Shared} : e[k] = d[k]
    BY <2>1, <2>10 DEF Documents
  <2> HIDE DEF e
  <2>4. t \in Tasks /\ t.keys = {Shared} /\ t.doc = e /\ t.kind # "unlink"
    BY <2>3, PrefsAssumption, KeysAre DEF Task, Tasks
  <2> HIDE DEF t
  <2>5. /\ behind' = [behind EXCEPT ![Hud] = Unread] /\ changes' = changes + 1
        /\ UNCHANGED <<toml, json, kept, wanted, takenBack>>
    BY <1>7 DEF HudReads
  <2>6. /\ behind' \in [Writers -> SUBSET Keys] /\ behind'[Hud] = Unread
        /\ \A v \in Writers \ {Hud} : behind'[v] = behind[v]
    BY <1>1, <1>2, <2>1, <2>5
  <2>7. \A q \in Programs : kept'[q].read =>
           /\ kept[q].read /\ behind'[q] = behind[q] /\ kept'[q].cfg = kept[q].cfg
           /\ kept'[q].doc[Own] = kept[q].doc[Own]
    <3>1. \A q \in Programs : q # Hud
      BY HudAssumption
    <3> QED BY <1>1, <2>5, <2>6, <3>1
  <2>8. \A k \in Keys \ (behind'[Hud] \union takenBack \union t.keys) : t.doc[k] = wanted[k]
    BY <2>1, <2>3, <2>4, <2>6
  <2>9. kept' \in [Programs -> KeptDocuments] /\ changes' \in Nat
    BY <1>2, <2>5
  <2> QED BY <1>1, <2>2, <2>4, <2>5, <2>6, <2>7, <2>8, <2>9, TaskChanges
<1>8. ASSUME NEW w \in Writers, Opens(w) PROVE PrefsInv'
  <2> DEFINE t == [task[w] EXCEPT !.kind = "fill"]
  <2>1. t \in Tasks /\ t.keys = task[w].keys /\ t.doc = task[w].doc /\ t.kind # "unlink"
    BY <1>2 DEF Tasks
  <2>2. \A k \in Keys \ (behind[w] \union takenBack \union t.keys) : t.doc[k] = wanted[k]
    BY <1>8, <2>1 DEF Opens, PrefsInv, TasksRight
  <2>3. task' = [task EXCEPT ![w] = t] /\ toml' = [toml EXCEPT !.state = "empty"]
        /\ UNCHANGED <<json, kept, changes, wanted, behind, takenBack>>
    BY <1>2, <1>8 DEF Opens, Empties
  <2> HIDE DEF t
  <2>4. /\ behind' \in [Writers -> SUBSET Keys] /\ changes' \in Nat
        /\ kept' \in [Programs -> KeptDocuments]
    BY <1>2, <2>3
  <2> QED BY <2>1, <2>2, <2>3, <2>4, TaskChanges
<1>9. ASSUME NEW w \in Writers, FillsFile(w) PROVE PrefsInv'
  BY <1>9, FillKeeps
<1>10. ASSUME NEW w \in Writers, SaveFails(w) PROVE PrefsInv'
  <2>1. /\ task' = [task EXCEPT ![w] = Idle]
        /\ UNCHANGED <<toml, json, kept, changes, wanted, behind, takenBack>>
    BY <1>10 DEF SaveFails
  <2>2. /\ behind' \in [Writers -> SUBSET Keys] /\ changes' \in Nat
        /\ kept' \in [Programs -> KeptDocuments]
    BY <1>2, <2>1
  <2> QED BY <2>1, <2>2, BlankIsDocument, TaskChanges
<1>15. ASSUME NEW p \in Programs, ImportFails(p) PROVE PrefsInv'
  BY <1>15, ReadsKeeps DEF ImportFails
<1>11. ASSUME NEW w \in Writers, Ends(w) PROVE PrefsInv'
  <2>1. /\ task' = [task EXCEPT ![w] = Idle]
        /\ kept' = [p \in Programs |-> IF p = w THEN NothingKept ELSE kept[p]]
        /\ UNCHANGED <<toml, json, changes, wanted, behind, takenBack>>
    BY <1>11 DEF Ends
  <2>2. /\ behind' \in [Writers -> SUBSET Keys] /\ changes' \in Nat
        /\ kept' \in [Programs -> KeptDocuments]
    BY <1>2, <2>1, BlankIsDocument
  <2>3. \A q \in Programs : kept'[q].read => kept'[q] = kept[q]
    BY <2>1, BlankIsDocument
  <2> QED BY <2>1, <2>2, <2>3, BlankIsDocument, TaskChanges
<1>12. CASE EditsByHand
  BY <1>12, ByHandKeeps
<1>13. CASE BreaksFile
  <2>1. /\ toml' = [toml EXCEPT !.state = "broken"] /\ changes' = changes + 1
        /\ UNCHANGED <<json, kept, task, wanted, behind, takenBack>>
    BY <1>13 DEF BreaksFile
  <2>3. toml \in [state : {"absent", "empty", "broken", "whole"}, doc : Documents]
    BY <1>1 DEF PrefsTypeOK, Documents
  <2>4. toml'.state = "broken" /\ toml' \in [state : {"absent", "empty", "broken", "whole"}, doc : Documents]
    BY <2>1, <2>3
  <2>2. toml'.state = "broken" /\ PrefsTypeOK'
    BY <1>1, <1>2, <2>1, <2>4 DEF PrefsTypeOK, Documents
  <2> QED BY <2>1, <2>2 DEF PrefsInv, PrefsSurvive, JsonRight, KeptRight, TasksRight, Held,
                                  LeftoverBeside
<1>14. CASE UNCHANGED prefsVars
  BY <1>14 DEF prefsVars, PrefsInv, PrefsTypeOK, PrefsSurvive, JsonRight, KeptRight, TasksRight,
               Held, LeftoverBeside
<1> QED BY <1>3, <1>4, <1>5, <1>6, <1>7, <1>8, <1>9, <1>10, <1>11, <1>12, <1>13, <1>14, <1>15
        DEF PrefsNext

LEMMA PrefsInitially == PrefsInit => PrefsInv
<1> SUFFICES ASSUME PrefsInit PROVE PrefsInv
    OBVIOUS
<1>1. /\ toml = [state |-> "absent", doc |-> Blank] /\ kept = [p \in Programs |-> NothingKept]
      /\ task = [w \in Writers |-> Idle] /\ changes = 1
      /\ wanted = IF json.there THEN json.doc ELSE Blank
      /\ behind = [w \in Writers |-> {}] /\ takenBack = {}
  BY DEF PrefsInit
<1>2. json \in [there : BOOLEAN, doc : Documents]
  <2>1. \A s \in Settings : [Blank EXCEPT ![s] = 1] \in Documents
    BY BlankIsDocument DEF Documents
  <2> QED BY <2>1 DEF PrefsInit
<1>3. PrefsTypeOK
  BY <1>1, <1>2, BlankIsDocument DEF PrefsTypeOK, Documents, Tasks, KeptDocuments
<1>4. PrefsSurvive /\ JsonRight
  BY <1>1 DEF PrefsSurvive, JsonRight
<1>5. KeptRight /\ TasksRight /\ LeftoverBeside
  BY <1>1, BlankIsDocument DEF KeptRight, TasksRight, LeftoverBeside
<1> QED BY <1>3, <1>4, <1>5 DEF PrefsInv

\* However many programs write config.toml beside the HUD and the operator's
\* editor, whatever saves fail, are killed or mix: a file that parses has every
\* key as it was last set, but for those a writer took back that had not read it.
THEOREM PrefsAlwaysSurvive == PrefsSpec => []PrefsSurvive
<1>1. PrefsInv => PrefsSurvive
  BY DEF PrefsInv
<1> QED BY <1>1, PrefsInitially, PrefsStep, PTL DEF PrefsSpec

-----------------------------------------------------------------------------
(* The usage page. *)

LEMMA LeastNatural ==
    ASSUME NEW S, S \subseteq Nat, S # {}
    PROVE  \E i \in S : \A j \in S : i <= j
<1>1. PICK i \in S : \A j \in S : ~(<<j, i>> \in OpToRel(<, Nat))
  BY NatLessThanWellFounded, WFMin
<1>2. ASSUME NEW j \in S, j < i PROVE FALSE
  <2>1. <<j, i>> \in OpToRel(<, Nat)
    BY <1>2, Zenon DEF OpToRel
  <2> QED BY <1>1, <2>1
<1> QED BY <1>2

-----------------------------------------------------------------------------
(* Sums (Total).                                                           *)

SumOf(f, D, h) ==
    h = [s \in SUBSET D |-> IF s = {} THEN 0
                            ELSE LET x == CHOOSE x \in s : TRUE IN f[x] + h[s \ {x}]]

LEMMA TotalIs ==
    ASSUME NEW D, NEW f, DOMAIN f = D
    PROVE  Total(f) = (CHOOSE h : SumOf(f, D, h))[D]
BY DEF Total, MapThenSumSet, MapThenFoldSet, SumOf

\* A sum of counts of disjoint sets of places counts what the sets hold.
LEMMA SumIsCount ==
    ASSUME NEW n \in Nat, NEW D, IsFiniteSet(D), NEW f, DOMAIN f = D, NEW P,
           \A x \in D : P[x] \subseteq 1 .. n /\ f[x] = Cardinality(P[x]),
           \A x, y \in D : x # y => P[x] \cap P[y] = {}
    PROVE  Total(f) = Cardinality(UNION {P[x] : x \in D})
<1> DEFINE Over(s) == UNION {P[x] : x \in s}
           g == [s \in SUBSET D |-> Cardinality(Over(s))]
<1>1. ASSUME NEW s \in SUBSET D, NEW x \in s
      PROVE  Cardinality(Over(s)) = f[x] + Cardinality(Over(s \ {x}))
  <2>1. Over(s) = P[x] \union Over(s \ {x}) /\ P[x] \cap Over(s \ {x}) = {}
        OBVIOUS
  <2>2. IsFiniteSet(1 .. n)
        BY FS_Interval
  <2>3. IsFiniteSet(P[x]) /\ IsFiniteSet(Over(s \ {x}))
    <3>1. P[x] \in SUBSET (1 .. n) /\ Over(s \ {x}) \in SUBSET (1 .. n)
          OBVIOUS
    <3> HIDE DEF Over
    <3> QED BY <2>2, <3>1, FS_Subset
  <2>4. Cardinality(P[x]) \in Nat /\ Cardinality(Over(s \ {x})) \in Nat /\ f[x] = Cardinality(P[x])
    <3> HIDE DEF Over
    <3> QED BY <2>3, FS_CardinalityType
  <2> HIDE DEF Over
  <2>5. \A S, T : IsFiniteSet(S) /\ IsFiniteSet(T) =>
            Cardinality(S \union T) = Cardinality(S) + Cardinality(T) - Cardinality(S \cap T)
        BY FS_Union
  <2>6. Cardinality(P[x] \union Over(s \ {x}))
          = Cardinality(P[x]) + Cardinality(Over(s \ {x})) - Cardinality(P[x] \cap Over(s \ {x}))
        BY <2>3, <2>5, Zenon
  <2>7. Cardinality({}) = 0
        BY FS_EmptySet
  <2>8. Cardinality(Over(s)) = Cardinality(P[x] \union Over(s \ {x}))
        BY <2>1, Zenon
  <2>9. Cardinality(P[x] \cap Over(s \ {x})) = 0
        BY <2>1, <2>7, Zenon
  <2> QED BY <2>4, <2>6, <2>8, <2>9
<1>2. \A s \in SUBSET D : g[s] \in Nat
  <2> SUFFICES ASSUME NEW s \in SUBSET D PROVE Cardinality(Over(s)) \in Nat
      OBVIOUS
  <2>1. Over(s) \in SUBSET (1 .. n)
        OBVIOUS
  <2> HIDE DEF Over
  <2>2. IsFiniteSet(1 .. n)
        BY FS_Interval
  <2>3. IsFiniteSet(Over(s))
        BY <2>1, <2>2, FS_Subset
  <2> QED BY <2>3, FS_CardinalityType
<1>3. g[{}] = 0
      BY FS_EmptySet
<1>4. \A s \in SUBSET D : \A x \in s : g[s] = f[x] + g[s \ {x}]
  <2> HIDE DEF Over
  <2> QED BY <1>1
<1>g. g = [s \in SUBSET D |-> g[s]]
      OBVIOUS
<1>d. g[D] = Cardinality(UNION {P[x] : x \in D})
      OBVIOUS
<1> HIDE DEF g
<1>5. SumOf(f, D, g)
  <2>1. ASSUME NEW s \in SUBSET D
        PROVE  g[s] = IF s = {} THEN 0 ELSE LET x == CHOOSE x \in s : TRUE IN f[x] + g[s \ {x}]
        BY <1>3, <1>4
  <2> QED BY <1>g, <2>1 DEF SumOf
<1>6. ASSUME NEW h, SumOf(f, D, h) PROVE h[D] = g[D]
  <2> DEFINE Bad == {s \in SUBSET D : h[s] # g[s]}
  <2> SUFFICES ASSUME Bad # {} PROVE FALSE
      OBVIOUS
  <2>1. \A s \in SUBSET D : IsFiniteSet(s) /\ Cardinality(s) \in Nat
        BY FS_Subset, FS_CardinalityType
  <2> DEFINE sizes == {Cardinality(s) : s \in Bad}
  <2>2. sizes \subseteq Nat /\ sizes # {}
        BY <2>1
  <2>3. PICK k \in sizes : \A j \in sizes : k <= j
    <3> HIDE DEF sizes
    <3> QED BY <2>2, LeastNatural
  <2>4. PICK s \in Bad : k = Cardinality(s)
        OBVIOUS
  <2>5. h[s] = IF s = {} THEN 0 ELSE LET x == CHOOSE x \in s : TRUE IN f[x] + h[s \ {x}]
        BY <1>6 DEF SumOf
  <2>6. s # {}
        BY <1>3, <2>5
  <2>7. PICK x \in s : h[s] = f[x] + h[s \ {x}]
        BY <2>5, <2>6
  <2>8. s \ {x} \in SUBSET D /\ Cardinality(s \ {x}) = k - 1 /\ k \in Nat
        BY <2>1, <2>4, FS_RemoveElement
  <2>9. s \ {x} \notin Bad
        BY <2>3, <2>8
  <2>10. h[s \ {x}] = g[s \ {x}]
        BY <2>8, <2>9
  <2> QED BY <1>4, <2>7, <2>10
<1>7. (CHOOSE h : SumOf(f, D, h))[D] = g[D]
      BY <1>5, <1>6
<1> QED BY <1>7, <1>d, TotalIs

-----------------------------------------------------------------------------
(* The pass over the calls (McpCalls): what it has counted after each. *)

\* Of the first n of the timeline: a server's uses, those of one method and
\* those that failed, and the searches.
UsesBy(cs, n, s) == {i \in 1 .. n : cs[i].tool \in {"use", "direct"} /\ cs[i].server = s}
UsesThat(cs, n, s, m) == {i \in UsesBy(cs, n, s) : cs[i].method = m}
FailuresBy(cs, n, s) == {i \in UsesBy(cs, n, s) : cs[i].failed}
SearchesIn(cs, n) == {i \in 1 .. n : cs[i].tool = "search"}
CountsAt(cs, n) ==
    [methods |-> [s \in Tallied |-> [m \in Methods |-> Cardinality(UsesThat(cs, n, s, m))]],
     uses |-> [s \in Tallied |-> Cardinality(UsesBy(cs, n, s))],
     errors |-> [s \in Tallied |-> Cardinality(FailuresBy(cs, n, s))],
     searches |-> [s \in Tallied |-> IF s = Unsorted THEN Cardinality(SearchesIn(cs, n)) ELSE 0]]

LEMMA EventShape ==
    ASSUME NEW c \in UsageEvents
    PROVE  /\ c.tool \in {"host", "read", "use", "search", "direct", "says"}
           /\ c.failed \in BOOLEAN
           /\ c.tool \in {"use", "direct"} =>
                c.server \in Servers \union {NoServer} /\ c.method \in Methods
           /\ c.tool = "search" => c.server = NoServer
           /\ c.tool = "read" => c.method \in Skills
<1>1. CASE \E f \in BOOLEAN : c = Called("host", NoServer, "grep", f)
      BY <1>1 DEF Called
<1>2. CASE \E s \in Skills : c = Called("read", NoServer, s, FALSE)
      BY <1>2 DEF Called
<1>3. CASE \E s \in Servers \union {NoServer}, m \in Methods, f \in BOOLEAN : c = Called("use", s, m, f)
      BY <1>3 DEF Called
<1>4. CASE c = Called("search", NoServer, "words", FALSE)
      BY <1>4 DEF Called
<1>5. CASE \E s \in Servers, m \in Methods : c = Called("direct", s, m, FALSE)
      BY <1>5 DEF Called
<1>6. CASE \E s \in Skills : c = Called("says", NoServer, s, FALSE)
      BY <1>6 DEF Called
<1>7. \/ \E f \in BOOLEAN : c = Called("host", NoServer, "grep", f)
      \/ \E s \in Skills : c = Called("read", NoServer, s, FALSE)
      \/ \E s \in Servers \union {NoServer}, m \in Methods, f \in BOOLEAN : c = Called("use", s, m, f)
      \/ c = Called("search", NoServer, "words", FALSE)
      \/ \E s \in Servers, m \in Methods : c = Called("direct", s, m, FALSE)
      \/ \E s \in Skills : c = Called("says", NoServer, s, FALSE)
      BY DEF UsageEvents, Called
<1> QED BY <1>1, <1>2, <1>3, <1>4, <1>5, <1>6, <1>7

LEMMA OneMore ==
    ASSUME NEW n \in Nat, NEW S, S \subseteq 1 .. n
    PROVE  /\ IsFiniteSet(S)
           /\ Cardinality(S) \in Nat
           /\ Cardinality(S \union {n + 1}) = Cardinality(S) + 1
<1>1. IsFiniteSet(1 .. n) /\ S \in SUBSET (1 .. n)
      BY FS_Interval
<1>2. IsFiniteSet(S)
      BY <1>1, FS_Subset
<1>3. n + 1 \notin S
      OBVIOUS
<1> QED BY <1>2, <1>3, FS_AddElement, FS_CardinalityType

LEMMA OneMoreIf ==
    ASSUME NEW n \in Nat, NEW S, S \subseteq 1 .. n, NEW b
    PROVE  /\ Cardinality(S) \in Nat
           /\ Cardinality(S \union IF b THEN {n + 1} ELSE {}) = Cardinality(S) + IF b THEN 1 ELSE 0
<1>1. Cardinality(S) \in Nat /\ Cardinality(S \union {n + 1}) = Cardinality(S) + 1
      BY OneMore
<1>2. CASE b
      BY <1>1, <1>2
<1>3. CASE ~b
  <2>1. S \union (IF b THEN {n + 1} ELSE {}) = S
        BY <1>3, Zenon
  <2> QED BY <1>1, <1>3, <2>1
<1> QED BY <1>2, <1>3

LEMMA CountsGrow ==
    ASSUME NEW cs, NEW n \in Nat, NEW s
    PROVE  LET c == cs[n + 1]
               use == c.tool \in {"use", "direct"} /\ c.server = s
           IN /\ Cardinality(UsesBy(cs, n + 1, s))
                    = Cardinality(UsesBy(cs, n, s)) + IF use THEN 1 ELSE 0
              /\ Cardinality(FailuresBy(cs, n + 1, s))
                    = Cardinality(FailuresBy(cs, n, s)) + IF use /\ c.failed THEN 1 ELSE 0
              /\ Cardinality(SearchesIn(cs, n + 1))
                    = Cardinality(SearchesIn(cs, n)) + IF c.tool = "search" THEN 1 ELSE 0
              /\ Cardinality(UsesBy(cs, n, s)) \in Nat
              /\ Cardinality(FailuresBy(cs, n, s)) \in Nat
              /\ Cardinality(SearchesIn(cs, n)) \in Nat
<1> DEFINE c == cs[n + 1]
           use == c.tool \in {"use", "direct"} /\ c.server = s
           Uses0 == UsesBy(cs, n, s)
           Fail0 == FailuresBy(cs, n, s)
           Find0 == SearchesIn(cs, n)
           lost == use /\ c.failed
           find == c.tool = "search"
<1>1. Uses0 \subseteq 1 .. n /\ Fail0 \subseteq 1 .. n /\ Find0 \subseteq 1 .. n
      BY DEF UsesBy, FailuresBy, SearchesIn
<1>2. /\ UsesBy(cs, n + 1, s) = Uses0 \union IF use THEN {n + 1} ELSE {}
      /\ FailuresBy(cs, n + 1, s) = Fail0 \union IF lost THEN {n + 1} ELSE {}
      /\ SearchesIn(cs, n + 1) = Find0 \union IF find THEN {n + 1} ELSE {}
  <2>1. 1 .. (n + 1) = (1 .. n) \union {n + 1} /\ n + 1 \notin 1 .. n
        OBVIOUS
  <2> QED BY <2>1, Zenon DEF UsesBy, FailuresBy, SearchesIn
<1> HIDE DEF c, use, lost, find, Uses0, Fail0, Find0
<1>3. /\ Cardinality(UsesBy(cs, n + 1, s)) = Cardinality(Uses0) + IF use THEN 1 ELSE 0
      /\ Cardinality(Uses0) \in Nat
  <2>1. Uses0 \subseteq 1 .. n
        BY <1>1
  <2>2. UsesBy(cs, n + 1, s) = Uses0 \union IF use THEN {n + 1} ELSE {}
        BY <1>2
  <2> QED BY <2>1, <2>2, OneMoreIf, Zenon
<1>4. /\ Cardinality(FailuresBy(cs, n + 1, s)) = Cardinality(Fail0) + IF lost THEN 1 ELSE 0
      /\ Cardinality(Fail0) \in Nat
  <2>1. Fail0 \subseteq 1 .. n
        BY <1>1
  <2>2. FailuresBy(cs, n + 1, s) = Fail0 \union IF lost THEN {n + 1} ELSE {}
        BY <1>2
  <2> QED BY <2>1, <2>2, OneMoreIf, Zenon
<1>5. /\ Cardinality(SearchesIn(cs, n + 1)) = Cardinality(Find0) + IF find THEN 1 ELSE 0
      /\ Cardinality(Find0) \in Nat
  <2>1. Find0 \subseteq 1 .. n
        BY <1>1
  <2>2. SearchesIn(cs, n + 1) = Find0 \union IF find THEN {n + 1} ELSE {}
        BY <1>2
  <2> QED BY <2>1, <2>2, OneMoreIf, Zenon
<1> QED BY <1>3, <1>4, <1>5 DEF c, use, lost, find, Uses0, Fail0, Find0

LEMMA MethodsGrow ==
    ASSUME NEW cs, NEW n \in Nat, NEW s, NEW m
    PROVE  LET c == cs[n + 1]
               it == c.tool \in {"use", "direct"} /\ c.server = s /\ c.method = m
           IN /\ Cardinality(UsesThat(cs, n + 1, s, m))
                    = Cardinality(UsesThat(cs, n, s, m)) + IF it THEN 1 ELSE 0
              /\ Cardinality(UsesThat(cs, n, s, m)) \in Nat
<1> DEFINE c == cs[n + 1]
           it == c.tool \in {"use", "direct"} /\ c.server = s /\ c.method = m
           That0 == UsesThat(cs, n, s, m)
<1>1. That0 \subseteq 1 .. n
      BY DEF UsesThat, UsesBy
<1>2. UsesThat(cs, n + 1, s, m) = That0 \union IF it THEN {n + 1} ELSE {}
  <2>1. 1 .. (n + 1) = (1 .. n) \union {n + 1} /\ n + 1 \notin 1 .. n
        OBVIOUS
  <2> QED BY <2>1, Zenon DEF UsesBy, UsesThat
<1> HIDE DEF c, it, That0
<1>3. /\ Cardinality(UsesThat(cs, n + 1, s, m)) = Cardinality(That0) + IF it THEN 1 ELSE 0
      /\ Cardinality(That0) \in Nat
      BY <1>1, <1>2, OneMoreIf, Zenon
<1> QED BY <1>3 DEF c, it, That0

LEMMA Acc0IsNone == ASSUME NEW cs PROVE CountsAt(cs, 0) = Acc0
<1>1. \A s, m : /\ UsesBy(cs, 0, s) = {} /\ UsesThat(cs, 0, s, m) = {}
                /\ FailuresBy(cs, 0, s) = {} /\ SearchesIn(cs, 0) = {}
      BY DEF UsesBy, UsesThat, FailuresBy, SearchesIn
<1>2. Cardinality({}) = 0
      BY FS_EmptySet
<1> QED BY <1>1, <1>2 DEF CountsAt, Acc0

LEMMA RecordedCounts ==
    ASSUME NEW cs, NEW n \in Nat, cs[n + 1] \in UsageEvents
    PROVE  Recorded(CountsAt(cs, n), cs[n + 1]) = CountsAt(cs, n + 1)
<1> DEFINE c == cs[n + 1]
           a == CountsAt(cs, n)
           b == CountsAt(cs, n + 1)
           use(s) == c.tool \in {"use", "direct"} /\ c.server = s
<1>1. /\ c.tool \in {"host", "read", "use", "search", "direct", "says"}
      /\ c.failed \in BOOLEAN
      /\ c.tool \in {"use", "direct"} => c.server \in Servers \union {NoServer} /\ c.method \in Methods
      /\ c.tool = "search" => c.server = NoServer
  <2> HIDE DEF c
  <2>1. c \in UsageEvents
        BY DEF c
  <2> QED BY <2>1, EventShape
<1>2. ASSUME NEW s \in Tallied
      PROVE  /\ a.uses[s] \in Nat
             /\ b.uses[s] = a.uses[s] + IF use(s) THEN 1 ELSE 0
             /\ a.errors[s] \in Nat
             /\ b.errors[s] = a.errors[s] + IF use(s) /\ c.failed THEN 1 ELSE 0
             /\ a.searches[s] \in Nat
             /\ b.searches[s] = a.searches[s] + IF c.tool = "search" /\ s = Unsorted THEN 1 ELSE 0
  <2>1. /\ a.uses[s] = Cardinality(UsesBy(cs, n, s))
        /\ b.uses[s] = Cardinality(UsesBy(cs, n + 1, s))
        /\ a.errors[s] = Cardinality(FailuresBy(cs, n, s))
        /\ b.errors[s] = Cardinality(FailuresBy(cs, n + 1, s))
        /\ a.searches[s] = IF s = Unsorted THEN Cardinality(SearchesIn(cs, n)) ELSE 0
        /\ b.searches[s] = IF s = Unsorted THEN Cardinality(SearchesIn(cs, n + 1)) ELSE 0
        BY <1>2 DEF CountsAt
  <2> HIDE DEF a, b
  <2>2. /\ Cardinality(UsesBy(cs, n + 1, s))
               = Cardinality(UsesBy(cs, n, s)) + IF use(s) THEN 1 ELSE 0
        /\ Cardinality(FailuresBy(cs, n + 1, s))
               = Cardinality(FailuresBy(cs, n, s)) + IF use(s) /\ c.failed THEN 1 ELSE 0
        /\ Cardinality(SearchesIn(cs, n + 1))
               = Cardinality(SearchesIn(cs, n)) + IF c.tool = "search" THEN 1 ELSE 0
        /\ Cardinality(UsesBy(cs, n, s)) \in Nat
        /\ Cardinality(FailuresBy(cs, n, s)) \in Nat
        /\ Cardinality(SearchesIn(cs, n)) \in Nat
        BY CountsGrow
  <2> QED BY <2>1, <2>2
<1>3. ASSUME NEW s \in Tallied, NEW m \in Methods
      PROVE  /\ a.methods[s][m] \in Nat
             /\ b.methods[s][m] = a.methods[s][m] + IF use(s) /\ c.method = m THEN 1 ELSE 0
  <2>1. /\ a.methods[s][m] = Cardinality(UsesThat(cs, n, s, m))
        /\ b.methods[s][m] = Cardinality(UsesThat(cs, n + 1, s, m))
        BY <1>3 DEF CountsAt
  <2> HIDE DEF a, b
  <2>2. /\ Cardinality(UsesThat(cs, n + 1, s, m))
               = Cardinality(UsesThat(cs, n, s, m)) + IF use(s) /\ c.method = m THEN 1 ELSE 0
        /\ Cardinality(UsesThat(cs, n, s, m)) \in Nat
        BY MethodsGrow
  <2> QED BY <2>1, <2>2
<1>4. \A x \in {a, b} :
        /\ x = [methods |-> x.methods, uses |-> x.uses, errors |-> x.errors, searches |-> x.searches]
        /\ x.methods = [s \in Tallied |-> [m \in Methods |-> x.methods[s][m]]]
        /\ x.uses = [s \in Tallied |-> x.uses[s]]
        /\ x.errors = [s \in Tallied |-> x.errors[s]]
        /\ x.searches = [s \in Tallied |-> x.searches[s]]
      BY DEF CountsAt
<1>5. Unsorted \in Tallied /\ NoServer \in Tallied /\ Servers \subseteq Tallied
      BY DEF Tallied
<1>6. Recorded(CountsAt(cs, n), cs[n + 1]) = Recorded(a, c)
      OBVIOUS
<1> SUFFICES Recorded(a, c) = b
    BY <1>6
<1> HIDE DEF a, b, c
<1>7. CASE c.tool \in {"use", "direct"}
  <2>1. Recorded(a, c) = [a EXCEPT !.methods[c.server][c.method] = @ + 1,
                                   !.uses[c.server] = @ + 1,
                                   !.errors[c.server] = @ + IF c.failed THEN 1 ELSE 0]
        BY <1>7 DEF Recorded, RecordMethod
  <2>2. [a.methods EXCEPT ![c.server][c.method] = @ + 1] = b.methods
    <3> DEFINE M == a.methods
               N == b.methods
    <3>1. M = [s \in Tallied |-> [m \in Methods |-> M[s][m]]]
          /\ N = [s \in Tallied |-> [m \in Methods |-> N[s][m]]]
          BY <1>4
    <3>2. c.server \in Tallied /\ c.method \in Methods
          BY <1>1, <1>5, <1>7
    <3>3. \A s \in Tallied, m \in Methods :
             /\ M[s][m] \in Nat
             /\ N[s][m] = M[s][m] + IF c.server = s /\ c.method = m THEN 1 ELSE 0
          BY <1>3, <1>7
    <3> HIDE DEF M, N
    <3>4. \A s \in Tallied : M[s] = [m \in Methods |-> M[s][m]] /\ N[s] = [m \in Methods |-> N[s][m]]
          BY <3>1
    <3>5. \A s \in Tallied : s # c.server => N[s] = M[s]
      <4>1. ASSUME NEW s \in Tallied, s # c.server PROVE N[s] = M[s]
        <5>1. \A m \in Methods : N[s][m] = M[s][m]
              BY <3>3, <4>1
        <5> QED BY <3>4, <5>1
      <4> QED BY <4>1
    <3>6. N[c.server] = [M[c.server] EXCEPT ![c.method] = @ + 1]
      <4> DEFINE row == M[c.server]
                 new == N[c.server]
      <4>1. row = [m \in Methods |-> row[m]] /\ new = [m \in Methods |-> new[m]]
            BY <3>2, <3>4
      <4>2. \A m \in Methods : row[m] \in Nat /\ new[m] = row[m] + IF c.method = m THEN 1 ELSE 0
            BY <3>2, <3>3
      <4> HIDE DEF row, new
      <4>3. new = [row EXCEPT ![c.method] = @ + 1]
            BY <3>2, <4>1, <4>2
      <4> QED BY <4>3 DEF row, new
    <3>7. M = [s \in Tallied |-> M[s]] /\ N = [s \in Tallied |-> N[s]]
          BY <3>1
    <3>8. [M EXCEPT ![c.server] = [M[c.server] EXCEPT ![c.method] = @ + 1]] = N
          BY <3>2, <3>5, <3>6, <3>7
    <3> QED BY <3>8 DEF M, N
  <2>3. [a.uses EXCEPT ![c.server] = @ + 1] = b.uses
        BY <1>1, <1>2, <1>4, <1>5, <1>7
  <2>4. [a.errors EXCEPT ![c.server] = @ + IF c.failed THEN 1 ELSE 0] = b.errors
        BY <1>1, <1>2, <1>4, <1>5, <1>7
  <2>5. a.searches = b.searches
        BY <1>1, <1>2, <1>4, <1>5, <1>7
  <2>6. Recorded(a, c) = [methods |-> [a.methods EXCEPT ![c.server][c.method] = @ + 1],
                          uses |-> [a.uses EXCEPT ![c.server] = @ + 1],
                          errors |-> [a.errors EXCEPT ![c.server] = @ + IF c.failed THEN 1 ELSE 0],
                          searches |-> a.searches]
        BY <1>4, <2>1
  <2>7. b = [methods |-> b.methods, uses |-> b.uses, errors |-> b.errors, searches |-> b.searches]
        BY <1>4
  <2> QED BY <2>2, <2>3, <2>4, <2>5, <2>6, <2>7, Zenon
<1>8. CASE c.tool \notin {"use", "direct"}
  <2>1. a.methods = b.methods /\ a.uses = b.uses /\ a.errors = b.errors
        BY <1>2, <1>3, <1>4, <1>8
  <2>2. CASE c.tool = "search"
    <3>1. Recorded(a, c) = [a EXCEPT !.searches[Unsorted] = @ + 1]
          BY <1>1, <1>8, <2>2 DEF Recorded, RecordSearch
    <3>2. [a.searches EXCEPT ![Unsorted] = @ + 1] = b.searches
          BY <1>2, <1>4, <1>5, <2>2
    <3> QED BY <1>4, <2>1, <3>1, <3>2
  <2>3. CASE c.tool # "search"
    <3>1. Recorded(a, c) = a
          BY <1>8, <2>3 DEF Recorded
    <3>2. a.searches = b.searches
          BY <1>2, <1>4, <2>3
    <3> QED BY <1>4, <2>1, <3>1, <3>2
  <2> QED BY <2>2, <2>3
<1> QED BY <1>7, <1>8

RecordsOn(cs, pass) ==
    pass = [i \in 0 .. Len(cs) |-> IF i = 0 THEN Acc0 ELSE Recorded(pass[i - 1], cs[i])]

LEMMA CallsCounted ==
    ASSUME calls \in Seq(UsageEvents)
    PROVE  McpCalls = CountsAt(calls, Len(calls))
<1> DEFINE n == Len(calls)
           g == [i \in 0 .. n |-> CountsAt(calls, i)]
<1>1. n \in Nat /\ \A i \in 1 .. n : calls[i] \in UsageEvents
      OBVIOUS
<1>2. McpCalls = (CHOOSE pass : RecordsOn(calls, pass))[n]
      BY DEF McpCalls, Recording, RecordsOn
<1>3. \A i \in 0 .. n : g[i] = CountsAt(calls, i)
      OBVIOUS
<1>4. g = [i \in 0 .. n |-> g[i]]
      OBVIOUS
<1> HIDE DEF g
<1>5. \A i \in 1 .. n : g[i] = Recorded(g[i - 1], calls[i])
  <2> SUFFICES ASSUME NEW i \in 1 .. n PROVE g[i] = Recorded(g[i - 1], calls[i])
      OBVIOUS
  <2> DEFINE k == i - 1
  <2>1. k \in Nat /\ k + 1 = i /\ k \in 0 .. n /\ i \in 0 .. n
        BY <1>1
  <2> HIDE DEF k
  <2>2. Recorded(CountsAt(calls, k), calls[k + 1]) = CountsAt(calls, k + 1)
        BY <1>1, <2>1, RecordedCounts
  <2> QED BY <1>3, <2>1, <2>2 DEF k
<1>6. g[0] = Acc0
      BY <1>1, <1>3, Acc0IsNone
<1>7. RecordsOn(calls, g)
  <2>1. \A i \in 0 .. n : g[i] = IF i = 0 THEN Acc0 ELSE Recorded(g[i - 1], calls[i])
        BY <1>1, <1>5, <1>6
  <2> QED BY <1>4, <2>1 DEF RecordsOn
<1>8. ASSUME NEW h, RecordsOn(calls, h) PROVE h[n] = g[n]
  <2>1. \A i \in 0 .. n : h[i] = IF i = 0 THEN Acc0 ELSE Recorded(h[i - 1], calls[i])
        BY <1>8 DEF RecordsOn
  <2> DEFINE Bad == {i \in 0 .. n : h[i] # g[i]}
  <2> SUFFICES ASSUME Bad # {} PROVE FALSE
      BY <1>1
  <2>2. PICK i \in Bad : \A j \in Bad : i <= j
    <3>1. Bad \subseteq Nat
          OBVIOUS
    <3> HIDE DEF Bad
    <3> QED BY <3>1, LeastNatural
  <2>3. i # 0
        BY <1>1, <1>6, <2>1
  <2>4. i \in 1 .. n /\ i - 1 \in 0 .. n /\ i - 1 < i
        BY <1>1, <2>3
  <2>5. i - 1 \notin Bad
        BY <2>2, <2>4
  <2>6. h[i - 1] = g[i - 1]
        BY <2>4, <2>5
  <2>7. h[i] = Recorded(h[i - 1], calls[i])
        BY <2>1, <2>3, <2>4
  <2> QED BY <1>5, <2>4, <2>6, <2>7
<1> QED BY <1>1, <1>2, <1>3, <1>7, <1>8

-----------------------------------------------------------------------------
(* The servers' rows (McpServers).                                         *)

\* Rows that fit the first n of the timeline: each server once, with its own
\* uses; every server that was used; one that has all the searches.
HasUses(cs, n, r) ==
    /\ r.server \in Servers \union {SearchRow}
    /\ r.uses = Cardinality(UsesBy(cs, n, r.server))
    /\ r.methods = [m \in Methods |-> Cardinality(UsesThat(cs, n, r.server, m))]
HasSearches(cs, n, r, finder) ==
    r.searches = IF r.server = finder THEN Cardinality(SearchesIn(cs, n)) ELSE 0
Holds(cs, n, rows, finder) ==
    /\ \A r \in rows : HasSearches(cs, n, r, finder)
    /\ SearchesIn(cs, n) # {} => \E r \in rows : r.server = finder
RowsFit(cs, n, rows) ==
    /\ IsFiniteSet(rows)
    /\ \A r, q \in rows : r.server = q.server => r = q
    /\ \A r \in rows : HasUses(cs, n, r)
    /\ \A s \in Servers : UsesBy(cs, n, s) # {} => \E r \in rows : r.server = s
    /\ \E finder : Holds(cs, n, rows, finder)

LEMMA Emptiness ==
    ASSUME NEW cs, NEW n \in Nat, NEW s
    PROVE  /\ Cardinality(UsesBy(cs, n, s)) \in Nat
           /\ Cardinality(SearchesIn(cs, n)) \in Nat
           /\ Cardinality(UsesBy(cs, n, s)) = 0 <=> UsesBy(cs, n, s) = {}
           /\ Cardinality(SearchesIn(cs, n)) = 0 <=> SearchesIn(cs, n) = {}
<1> DEFINE A == UsesBy(cs, n, s)
           B == SearchesIn(cs, n)
<1>1. A \subseteq 1 .. n /\ B \subseteq 1 .. n
      BY DEF UsesBy, SearchesIn
<1> HIDE DEF A, B
<1>2. IsFiniteSet(A) /\ IsFiniteSet(B) /\ Cardinality(A) \in Nat /\ Cardinality(B) \in Nat
      BY <1>1, OneMore
<1>3. (Cardinality(A) = 0 <=> A = {}) /\ (Cardinality(B) = 0 <=> B = {})
      BY <1>2, FS_EmptySet
<1> QED BY <1>2, <1>3 DEF A, B

LEMMA NoUses ==
    ASSUME NEW cs, NEW n \in Nat, \A i \in 1 .. n : cs[i] \in UsageEvents,
           NEW s, s \notin Servers \union {NoServer}
    PROVE  /\ UsesBy(cs, n, s) = {}
           /\ \A m : UsesThat(cs, n, s, m) = {}
<1>1. \A i \in 1 .. n : cs[i].tool \in {"use", "direct"} => cs[i].server # s
      BY EventShape
<1> QED BY <1>1, Zenon DEF UsesBy, UsesThat

LEMMA ConfiguredAreServers ==
    ASSUME launch \in Launches
    PROVE  McpConfigured \subseteq Servers /\ IsFiniteSet(McpConfigured)
<1>1. /\ launch.run \in Capabilities /\ launch.announced \in Capabilities
      /\ launch.toml \in Seq(Capabilities)
      BY UsageAssumption
<1>2. FirstToml.mcp \subseteq Servers
  <2> DEFINE naming == {i \in DOMAIN launch.toml : launch.toml[i].mcp \union launch.toml[i].disabled # {}}
  <2>1. FirstToml = IF naming = {} THEN [mcp |-> {}, disabled |-> {}] ELSE launch.toml[Min(naming)]
        BY DEF FirstToml
  <2>2. CASE naming = {}
        BY <2>1, <2>2
  <2>3. CASE naming # {}
    <3>1. naming \subseteq Nat
          BY <1>1
    <3>2. Min(naming) \in naming
      <4>1. PICK i \in naming : \A j \in naming : i <= j
        <5> HIDE DEF naming
        <5> QED BY <2>3, <3>1, LeastNatural
      <4> QED BY <4>1 DEF Min
    <3>3. launch.toml[Min(naming)] \in Capabilities
      <4>1. \A i \in DOMAIN launch.toml : launch.toml[i] \in Capabilities
            BY <1>1
      <4>2. Min(naming) \in DOMAIN launch.toml
            BY <3>2
      <4> QED BY <4>1, <4>2, Zenon
    <3> QED BY <2>1, <2>3, <3>3 DEF Capabilities
  <2> QED BY <2>2, <2>3
<1>3. McpConfigured \subseteq Servers
      BY <1>1, <1>2 DEF McpConfigured, Capabilities
<1>4. IsFiniteSet(McpConfigured)
      BY <1>3, UsageAssumption, FS_Subset
<1> QED BY <1>3, <1>4
SeenIn(cs, n) == McpConfigured \union {s \in Servers : UsesBy(cs, n, s) # {}}

LEMMA SeenAre ==
    ASSUME NEW cs, NEW n \in Nat, \A i \in 1 .. n : cs[i] \in UsageEvents, launch \in Launches
    PROVE  /\ SeenServers(CountsAt(cs, n)) = SeenIn(cs, n)
           /\ Orphans(CountsAt(cs, n)) = Cardinality(SearchesIn(cs, n))
<1> DEFINE acc == CountsAt(cs, n)
           found == Cardinality(SearchesIn(cs, n))
<1>1. DOMAIN acc.uses = Tallied
      BY DEF CountsAt
<1>2. \A s \in Tallied : /\ acc.uses[s] = Cardinality(UsesBy(cs, n, s))
                         /\ acc.searches[s] = IF s = Unsorted THEN found ELSE 0
      BY DEF CountsAt
<1>3. \A s : /\ Cardinality(UsesBy(cs, n, s)) \in Nat
             /\ Cardinality(UsesBy(cs, n, s)) = 0 <=> UsesBy(cs, n, s) = {}
      BY Emptiness
<1>4. found \in Nat
      BY Emptiness
<1> HIDE DEF acc, found
<1>5. /\ Servers \subseteq Tallied /\ NoServer \in Tallied /\ Unsorted \in Tallied
      /\ NoServer # Unsorted /\ NoServer \notin Servers /\ Unsorted \notin Servers
      BY UsageAssumption DEF Tallied, NoServer, Unsorted
<1>6. {s \in DOMAIN acc.uses : acc.uses[s] + acc.searches[s] > 0} \ {NoServer, Unsorted}
        = {s \in Servers : UsesBy(cs, n, s) # {}}
  <2>1. \A s \in Servers : acc.uses[s] + acc.searches[s] > 0 <=> UsesBy(cs, n, s) # {}
        BY <1>2, <1>3, <1>5
  <2>2. Tallied \ {NoServer, Unsorted} = Servers
        BY <1>5 DEF Tallied
  <2> QED BY <1>1, <2>1, <2>2, Zenon
<1>7. SeenServers(acc) = SeenIn(cs, n)
  <2>1. McpConfigured \subseteq Servers
        BY ConfiguredAreServers
  <2> QED BY <1>5, <1>6, <2>1, Zenon DEF SeenServers, SeenIn
<1>8. Orphans(acc) = found
      BY <1>2, <1>4, <1>5 DEF Orphans
<1> QED BY <1>7, <1>8 DEF acc, found

\* The rows before the searches of no server are put on one.
UsedRows(cs, n) == {ServerRow(s, CountsAt(cs, n)) : s \in SeenIn(cs, n)}

LEMMA RowOf ==
    ASSUME NEW cs, NEW n \in Nat, NEW s \in Servers
    PROVE  LET r == ServerRow(s, CountsAt(cs, n))
           IN /\ r.server = s /\ HasUses(cs, n, r) /\ r.searches = 0
              /\ HasUses(cs, n, [r EXCEPT !.searches = Cardinality(SearchesIn(cs, n))])
<1>1. s \in Tallied /\ s # Unsorted
      BY UsageAssumption DEF Tallied
<1> QED BY <1>1 DEF ServerRow, CountsAt, HasUses

LEMMA UsedRowsFit ==
    ASSUME NEW cs, NEW n \in Nat, launch \in Launches
    PROVE  LET rows == UsedRows(cs, n)
           IN /\ IsFiniteSet(rows)
              /\ \A r, q \in rows : r.server = q.server => r = q
              /\ \A r \in rows : HasUses(cs, n, r) /\ r.searches = 0 /\ r.server \in Servers
              /\ \A s \in Servers : UsesBy(cs, n, s) # {} => \E r \in rows : r.server = s
              /\ \A s \in McpConfigured : \E r \in rows : r.server = s
<1> DEFINE row(s) == ServerRow(s, CountsAt(cs, n))
           rows == UsedRows(cs, n)
<1>1. SeenIn(cs, n) \subseteq Servers
      BY ConfiguredAreServers DEF SeenIn
<1>2. \A s \in SeenIn(cs, n) : row(s).server = s /\ HasUses(cs, n, row(s)) /\ row(s).searches = 0
      BY <1>1, RowOf
<1>3. rows = {row(s) : s \in SeenIn(cs, n)}
      BY DEF UsedRows
<1>4. McpConfigured \subseteq SeenIn(cs, n)
      /\ \A s \in Servers : UsesBy(cs, n, s) # {} => s \in SeenIn(cs, n)
      BY DEF SeenIn
<1>5. IsFiniteSet(rows)
  <2> DEFINE S == SeenIn(cs, n)
             f == [s \in S |-> row(s)]
  <2>1. IsFiniteSet(S)
        BY <1>1, UsageAssumption, FS_Subset
  <2>2. f \in Surjection(S, rows)
        BY <1>3 DEF Surjection
  <2> HIDE DEF S, f, rows
  <2> QED BY <2>1, <2>2, FS_Surjection
<1> HIDE DEF row, rows
<1>6. \A r \in rows : \E s \in SeenIn(cs, n) : r = row(s) /\ r.server = s
      BY <1>2, <1>3
<1>7. \A s \in SeenIn(cs, n) : row(s) \in rows /\ row(s).server = s
      BY <1>2, <1>3
<1>8. \A r, q \in rows : r.server = q.server => r = q
      BY <1>6
<1>9. \A r \in rows : HasUses(cs, n, r) /\ r.searches = 0 /\ r.server \in Servers
      BY <1>1, <1>2, <1>6
<1> QED BY <1>4, <1>5, <1>7, <1>8, <1>9 DEF rows

\* However many servers are configured, the searches are on one row.
LEMMA OrphansFit ==
    ASSUME NEW cs, NEW n \in Nat, \A i \in 1 .. n : cs[i] \in UsageEvents, launch \in Launches
    PROVE  LET rows == WithOrphans(UsedRows(cs, n), Cardinality(SearchesIn(cs, n)))
           IN /\ RowsFit(cs, n, rows)
              /\ \A s \in McpConfigured : \E r \in rows : r.server = s
<1> DEFINE used == UsedRows(cs, n)
           k == Cardinality(SearchesIn(cs, n))
           rows == WithOrphans(used, k)
<1>1. /\ IsFiniteSet(used)
      /\ \A r, q \in used : r.server = q.server => r = q
      /\ \A r \in used : HasUses(cs, n, r) /\ r.searches = 0 /\ r.server \in Servers
      /\ \A s \in Servers : UsesBy(cs, n, s) # {} => \E r \in used : r.server = s
      /\ \A s \in McpConfigured : \E r \in used : r.server = s
      BY UsedRowsFit
<1>2. k \in Nat /\ (k = 0 <=> SearchesIn(cs, n) = {})
      BY Emptiness
<1>3. McpConfigured \subseteq Servers /\ SearchRow \notin Servers
      BY ConfiguredAreServers, UsageAssumption
<1>4. UsesBy(cs, n, SearchRow) = {} /\ \A m : UsesThat(cs, n, SearchRow, m) = {}
      BY <1>3, NoUses, SearchRow # NoServer DEF SearchRow, NoServer
<1>u. used = {ServerRow(s, CountsAt(cs, n)) : s \in SeenIn(cs, n)}
      BY DEF UsedRows
<1>k. k = Cardinality(SearchesIn(cs, n))
      OBVIOUS
<1> HIDE DEF used, k
<1>5. CASE k = 0
  <2>1. rows = used
        BY <1>5 DEF WithOrphans
  <2>2. Holds(cs, n, used, SearchRow)
        BY <1>1, <1>2, <1>3, <1>5 DEF Holds, HasSearches
  <2>3. \A r \in used : r.server \in Servers \union {SearchRow}
        BY <1>1
  <2>4. RowsFit(cs, n, used)
        BY <1>1, <2>2, <2>3 DEF RowsFit
  <2> QED BY <1>1, <2>1, <2>4 DEF k, used
<1>6. CASE k # 0 /\ Cardinality(McpConfigured) # 1
  <2> DEFINE row == EmptyRow(SearchRow, k)
  <2>1. rows = used \union {row}
        BY <1>6 DEF WithOrphans
  <2>2. /\ row.server = SearchRow /\ row.searches = k /\ row.uses = 0
        /\ row.methods = [m \in Methods |-> 0]
        BY DEF EmptyRow
  <2> HIDE DEF row, rows
  <2>3. HasUses(cs, n, row)
    <3>1. Cardinality({}) = 0
          BY FS_EmptySet
    <3> QED BY <1>4, <2>2, <3>1 DEF HasUses
  <2>4. Holds(cs, n, rows, SearchRow)
        BY <1>1, <1>2, <1>3, <1>k, <2>1, <2>2 DEF Holds, HasSearches
  <2>5. IsFiniteSet(rows)
        BY <1>1, <2>1, FS_AddElement
  <2>6. \A r, q \in rows : r.server = q.server => r = q
        BY <1>1, <1>3, <2>1, <2>2
  <2>7. \A r \in rows : HasUses(cs, n, r)
        BY <1>1, <2>1, <2>3
  <2>8. /\ \A s \in Servers : UsesBy(cs, n, s) # {} => \E r \in rows : r.server = s
        /\ \A s \in McpConfigured : \E r \in rows : r.server = s
        BY <1>1, <2>1
  <2>9. RowsFit(cs, n, rows)
        BY <2>4, <2>5, <2>6, <2>7, <2>8 DEF RowsFit
  <2> QED BY <2>8, <2>9 DEF rows, k, used
<1>7. CASE k # 0 /\ Cardinality(McpConfigured) = 1
  <2> DEFINE only == CHOOSE s \in McpConfigured : TRUE
             its == {r \in used : r.server = only}
  <2>1. only \in McpConfigured
    <3>1. \E s : McpConfigured = {s}
          BY <1>7, ConfiguredAreServers, FS_Singleton
    <3> QED BY <3>1
  <2>2. rows = (used \ its) \union IF its = {} THEN {EmptyRow(only, k)}
                                   ELSE {[r EXCEPT !.searches = @ + k] : r \in its}
        BY <1>7 DEF WithOrphans
  <2> HIDE DEF only
  <2>3. PICK r0 \in used : r0.server = only
        BY <1>1, <2>1
  <2>4. its = {r0}
        BY <1>1, <2>3
  <2> DEFINE row == [r0 EXCEPT !.searches = @ + k]
  <2>5. rows = (used \ {r0}) \union {row}
        BY <2>2, <2>4
  <2>6. row.server = only /\ row.searches = k /\ HasUses(cs, n, row)
    <3>1. r0 = ServerRow(only, CountsAt(cs, n)) /\ only \in Servers
          BY <1>1, <1>3, <1>u, <2>1, <2>3 DEF ServerRow
    <3>2. r0.searches = 0 /\ HasUses(cs, n, [r0 EXCEPT !.searches = k])
          BY <1>k, <3>1, RowOf
    <3>3. row = [r0 EXCEPT !.searches = k]
          BY <1>2, <3>2
    <3>4. r0 = [server |-> r0.server, configured |-> r0.configured, uses |-> r0.uses,
                methods |-> r0.methods, searches |-> r0.searches, errors |-> r0.errors]
          BY <3>1 DEF ServerRow
    <3>5. row.server = r0.server /\ row.searches = k
          BY <3>3, <3>4
    <3> QED BY <2>3, <3>2, <3>3, <3>5
  <2> HIDE DEF row, rows, its
  <2>7. \A r \in used \ {r0} : r.server # only
        BY <1>1, <2>3
  <2>8. Holds(cs, n, rows, only)
        BY <1>1, <1>2, <1>k, <2>5, <2>6, <2>7 DEF Holds, HasSearches
  <2>9. IsFiniteSet(rows)
        BY <1>1, <2>5, FS_AddElement, FS_RemoveElement
  <2>10. \A r, q \in rows : r.server = q.server => r = q
        BY <1>1, <2>5, <2>6, <2>7
  <2>11. \A r \in rows : HasUses(cs, n, r)
        BY <1>1, <2>5, <2>6
  <2>12. \A s : (\E r \in used : r.server = s) => \E r \in rows : r.server = s
        BY <2>3, <2>5, <2>6
  <2>13. /\ \A s \in Servers : UsesBy(cs, n, s) # {} => \E r \in rows : r.server = s
         /\ \A s \in McpConfigured : \E r \in rows : r.server = s
        BY <1>1, <2>12
  <2>14. RowsFit(cs, n, rows)
        BY <2>8, <2>9, <2>10, <2>11, <2>13 DEF RowsFit
  <2> QED BY <2>13, <2>14 DEF rows, k, used
<1> QED BY <1>2, <1>5, <1>6, <1>7

LEMMA ServersFit ==
    ASSUME calls \in Seq(UsageEvents), launch \in Launches
    PROVE  RowsFit(calls, Len(calls), McpServers)
<1> DEFINE n == Len(calls)
           rows == WithOrphans(UsedRows(calls, n), Cardinality(SearchesIn(calls, n)))
           left == {EmptyRow(s, 0) : s \in McpConfigured \ {r.server : r \in rows}}
<1>1. n \in Nat /\ \A i \in 1 .. n : calls[i] \in UsageEvents
      OBVIOUS
<1>2. McpCalls = CountsAt(calls, n)
      BY CallsCounted
<1>3. /\ SeenServers(McpCalls) = SeenIn(calls, n)
      /\ Orphans(McpCalls) = Cardinality(SearchesIn(calls, n))
  <2> HIDE DEF n
  <2> QED BY <1>1, <1>2, SeenAre
<1>4. McpServers = rows \union left
      BY <1>2, <1>3 DEF McpServers, UsedRows
<1>5. RowsFit(calls, n, rows) /\ \A s \in McpConfigured : \E r \in rows : r.server = s
  <2> HIDE DEF n
  <2> QED BY <1>1, OrphansFit
<1> HIDE DEF rows
<1>6. left = {}
      BY <1>5
<1>7. McpServers = rows
      BY <1>4, <1>6
<1> QED BY <1>5, <1>7

-----------------------------------------------------------------------------
(* What the rows add up to. *)

MadeIn(cs, n, tools) == {i \in 1 .. n : cs[i].tool \in tools}
NamedIn(cs, n) == {i \in MadeIn(cs, n, {"use", "direct"}) : cs[i].server # NoServer}

LEMMA UsesAddUp ==
    ASSUME NEW cs, NEW n \in Nat, \A i \in 1 .. n : cs[i] \in UsageEvents,
           NEW rws, RowsFit(cs, n, rws)
    PROVE  Total([r \in rws |-> r.uses]) = Cardinality(NamedIn(cs, n))
<1> DEFINE f == [r \in rws |-> r.uses]
           P == [r \in rws |-> UsesBy(cs, n, r.server)]
<1>1. IsFiniteSet(rws) /\ DOMAIN f = rws
      BY DEF RowsFit
<1>2. \A r \in rws : P[r] \subseteq 1 .. n /\ f[r] = Cardinality(P[r])
      BY DEF RowsFit, HasUses, UsesBy
<1>3. \A r, q \in rws : r # q => P[r] \cap P[q] = {}
      BY DEF RowsFit, UsesBy
<1>4. UNION {P[r] : r \in rws} = NamedIn(cs, n)
  <2>1. ASSUME NEW r \in rws, NEW i \in P[r] PROVE i \in NamedIn(cs, n)
    <3>1. r.server \in Servers \union {SearchRow}
          BY DEF RowsFit, HasUses
    <3>2. r.server # NoServer
          BY <3>1, UsageAssumption DEF SearchRow, NoServer
    <3> QED BY <2>1, <3>2 DEF NamedIn, MadeIn, UsesBy
  <2>2. ASSUME NEW i \in NamedIn(cs, n) PROVE \E r \in rws : i \in P[r]
    <3>1. i \in 1 .. n /\ cs[i].tool \in {"use", "direct"} /\ cs[i].server # NoServer
          BY <2>2 DEF NamedIn, MadeIn
    <3>2. cs[i].server \in Servers
          BY <3>1, EventShape
    <3>3. i \in UsesBy(cs, n, cs[i].server)
          BY <3>1 DEF UsesBy
    <3>4. PICK r \in rws : r.server = cs[i].server
          BY <3>2, <3>3 DEF RowsFit
    <3> QED BY <3>3, <3>4
  <2> QED BY <2>1, <2>2
<1> HIDE DEF f, P
<1>5. Total(f) = Cardinality(UNION {P[r] : r \in rws})
      BY <1>1, <1>2, <1>3, SumIsCount
<1> QED BY <1>4, <1>5 DEF f

LEMMA SearchesAddUp ==
    ASSUME NEW cs, NEW n \in Nat, NEW rws, RowsFit(cs, n, rws)
    PROVE  Total([r \in rws |-> r.searches]) = Cardinality(MadeIn(cs, n, {"search"}))
<1>1. PICK finder : Holds(cs, n, rws, finder)
      BY DEF RowsFit
<1> DEFINE f == [r \in rws |-> r.searches]
           S == SearchesIn(cs, n)
           P == [r \in rws |-> IF r.server = finder THEN S ELSE {}]
<1>2. IsFiniteSet(rws) /\ DOMAIN f = rws
      BY DEF RowsFit
<1>3. S \subseteq 1 .. n /\ S = MadeIn(cs, n, {"search"})
      BY DEF SearchesIn, MadeIn
<1>4. /\ \A r \in rws : r.searches = IF r.server = finder THEN Cardinality(S) ELSE 0
      /\ S # {} => \E r \in rws : r.server = finder
      BY <1>1 DEF Holds, HasSearches
<1> HIDE DEF S
<1>5. \A r \in rws : P[r] \subseteq 1 .. n /\ f[r] = Cardinality(P[r])
      BY <1>3, <1>4, FS_EmptySet
<1>6. \A r, q \in rws : r # q => P[r] \cap P[q] = {}
      BY DEF RowsFit
<1>7. UNION {P[r] : r \in rws} = S
      BY <1>4
<1> HIDE DEF f, P
<1>8. Total(f) = Cardinality(UNION {P[r] : r \in rws})
      BY <1>2, <1>5, <1>6, SumIsCount
<1> QED BY <1>3, <1>7, <1>8 DEF f

LEMMA MethodsAddUp ==
    ASSUME NEW cs, NEW n \in Nat, \A i \in 1 .. n : cs[i] \in UsageEvents,
           NEW r, HasUses(cs, n, r)
    PROVE  Total([m \in Methods |-> r.methods[m]]) = r.uses
<1> DEFINE f == [m \in Methods |-> r.methods[m]]
           P == [m \in Methods |-> UsesThat(cs, n, r.server, m)]
<1>1. IsFiniteSet(Methods) /\ DOMAIN f = Methods
      BY UsageAssumption
<1>2. \A m \in Methods : P[m] \subseteq 1 .. n /\ f[m] = Cardinality(P[m])
      BY DEF HasUses, UsesThat, UsesBy
<1>3. \A m, k \in Methods : m # k => P[m] \cap P[k] = {}
      BY DEF UsesThat
<1>4. UNION {P[m] : m \in Methods} = UsesBy(cs, n, r.server)
  <2>1. ASSUME NEW i \in UsesBy(cs, n, r.server) PROVE cs[i].method \in Methods
        BY <2>1, EventShape DEF UsesBy
  <2> QED BY <2>1 DEF UsesThat
<1>5. r.uses = Cardinality(UsesBy(cs, n, r.server))
      BY DEF HasUses
<1> HIDE DEF f, P
<1>6. Total(f) = Cardinality(UNION {P[m] : m \in Methods})
      BY <1>1, <1>2, <1>3, SumIsCount
<1> QED BY <1>4, <1>5, <1>6 DEF f

\* Host calls, bridge calls and direct calls are the tool calls.
LEMMA ToolsAddUp ==
    ASSUME calls \in Seq(UsageEvents)
    PROVE  HostCalls + BridgeCalls + Cardinality(MadeIn(calls, Len(calls), {"direct"}))
             = Cardinality((1 .. Len(calls)) \ MadeIn(calls, Len(calls), {"says"}))
<1> DEFINE n == Len(calls)
           H == {i \in ToolCalls : Category(calls[i].tool) = "builtin"}
           B == {i \in ToolCalls : Category(calls[i].tool) = "mcp_bridge"}
           D == MadeIn(calls, n, {"direct"})
           A == (1 .. n) \ MadeIn(calls, n, {"says"})
<1>1. n \in Nat /\ DOMAIN calls = 1 .. n /\ \A i \in 1 .. n : calls[i] \in UsageEvents
      OBVIOUS
<1>2. \A i \in 1 .. n : calls[i].tool \in {"host", "read", "use", "search", "direct", "says"}
      BY <1>1, EventShape
<1>3. H = MadeIn(calls, n, {"host", "read"}) /\ B = MadeIn(calls, n, {"use", "search"})
      BY <1>1, <1>2 DEF MadeIn, ToolCalls, Category
<1>4. /\ H \subseteq 1 .. n /\ B \subseteq 1 .. n /\ D \subseteq 1 .. n
      /\ H \cap B = {} /\ (H \union B) \cap D = {} /\ A = (H \union B) \union D
      BY <1>2, <1>3 DEF MadeIn
<1>5. HostCalls = Cardinality(H) /\ BridgeCalls = Cardinality(B)
      BY DEF HostCalls, BridgeCalls, CallsOf
<1> HIDE DEF H, B, D, A, n
<1>6. IsFiniteSet(H) /\ IsFiniteSet(B) /\ IsFiniteSet(D)
      BY <1>1, <1>4, OneMore
<1>7. \A S, T : IsFiniteSet(S) /\ IsFiniteSet(T) /\ S \cap T = {} =>
         IsFiniteSet(S \union T) /\ Cardinality(S \union T) = Cardinality(S) + Cardinality(T)
  <2> SUFFICES ASSUME NEW S, NEW T, IsFiniteSet(S), IsFiniteSet(T), S \cap T = {}
               PROVE  IsFiniteSet(S \union T)
                      /\ Cardinality(S \union T) = Cardinality(S) + Cardinality(T)
      OBVIOUS
  <2>1. /\ IsFiniteSet(S \union T)
        /\ Cardinality(S \union T) = Cardinality(S) + Cardinality(T) - Cardinality(S \cap T)
        BY FS_Union
  <2>2. Cardinality(S \cap T) = 0
        BY FS_EmptySet
  <2>3. Cardinality(S) \in Nat /\ Cardinality(T) \in Nat
        BY FS_CardinalityType
  <2> QED BY <2>1, <2>2, <2>3
<1>8. IsFiniteSet(H \union B) /\ Cardinality(H \union B) = Cardinality(H) + Cardinality(B)
      BY <1>4, <1>6, <1>7, Zenon
<1>9. Cardinality(A) = Cardinality(H \union B) + Cardinality(D)
      BY <1>4, <1>6, <1>7, <1>8, Zenon
<1>10. Cardinality(A) = Cardinality(H) + Cardinality(B) + Cardinality(D)
      BY <1>8, <1>9, Zenon
<1> QED BY <1>5, <1>10 DEF A, D, n

-----------------------------------------------------------------------------
Conserved(cs, p) ==
    /\ p.host + p.bridge + Cardinality(MadeIn(cs, p.upto, {"direct"}))
         = Cardinality((1 .. p.upto) \ MadeIn(cs, p.upto, {"says"}))
    /\ \A r, q \in p.servers : r.server = q.server => r = q
    /\ Total([r \in p.servers |-> r.uses]) = Cardinality(NamedIn(cs, p.upto))
    /\ Total([r \in p.servers |-> r.searches]) = Cardinality(MadeIn(cs, p.upto, {"search"}))
    /\ \A r \in p.servers :
          /\ Total([m \in Methods |-> r.methods[m]]) = r.uses
          /\ r.server \in Servers \union {SearchRow}
    /\ \A i \in MadeIn(cs, p.upto, {"read"}) :
          \E r \in p.skills : r.skill = cs[i].method /\ r.reads > 0

LEMMA ConservedIs == CallsAreConserved <=> Conserved(calls, page)
BY DEF CallsAreConserved, Conserved, Made, MadeIn, NamedIn

LEMMA ConservedNext == CallsAreConserved' <=> Conserved(calls', page')
BY DEF CallsAreConserved, Conserved, Made, MadeIn, NamedIn

LEMMA FitIsConserved ==
    ASSUME NEW cs, NEW p, p.upto \in Nat, \A i \in 1 .. p.upto : cs[i] \in UsageEvents,
           RowsFit(cs, p.upto, p.servers),
           p.host + p.bridge + Cardinality(MadeIn(cs, p.upto, {"direct"}))
             = Cardinality((1 .. p.upto) \ MadeIn(cs, p.upto, {"says"})),
           \A i \in MadeIn(cs, p.upto, {"read"}) :
             \E r \in p.skills : r.skill = cs[i].method /\ r.reads > 0
    PROVE  Conserved(cs, p)
<1> DEFINE n == p.upto
           rws == p.servers
<1>1. n \in Nat /\ (\A i \in 1 .. n : cs[i] \in UsageEvents) /\ RowsFit(cs, n, rws)
      OBVIOUS
<1> HIDE DEF n, rws
<1>2. /\ Total([r \in rws |-> r.uses]) = Cardinality(NamedIn(cs, n))
      /\ Total([r \in rws |-> r.searches]) = Cardinality(MadeIn(cs, n, {"search"}))
      BY <1>1, UsesAddUp, SearchesAddUp
<1>3. \A r \in rws : HasUses(cs, n, r)
      BY <1>1 DEF RowsFit
<1>4. \A r \in rws : /\ Total([m \in Methods |-> r.methods[m]]) = r.uses
                     /\ r.server \in Servers \union {SearchRow}
  <2> SUFFICES ASSUME NEW r \in rws
               PROVE  /\ Total([m \in Methods |-> r.methods[m]]) = r.uses
                      /\ r.server \in Servers \union {SearchRow}
      OBVIOUS
  <2>1. HasUses(cs, n, r)
        BY <1>3
  <2> QED BY <1>1, <2>1, MethodsAddUp DEF HasUses
<1>5. \A r, q \in rws : r.server = q.server => r = q
      BY <1>1 DEF RowsFit
<1> QED BY <1>2, <1>4, <1>5 DEF Conserved, n, rws

LEMMA ReadsAreLoaded ==
    ASSUME calls \in Seq(UsageEvents), NEW i \in MadeIn(calls, Len(calls), {"read"})
    PROVE  \E r \in SkillRows : r.skill = calls[i].method /\ r.reads > 0
<1> DEFINE k == calls[i].method
           S == {j \in DOMAIN calls : calls[j].tool = "read" /\ calls[j].method = k}
<1>1. i \in 1 .. Len(calls) /\ Len(calls) \in Nat /\ calls[i] \in UsageEvents /\ calls[i].tool = "read"
      BY DEF MadeIn
<1>2. k \in Skills
      BY <1>1, EventShape
<1>3. S \subseteq 1 .. Len(calls) /\ i \in S
      BY <1>1
<1>4. Reads(k) = Cardinality(S)
      BY DEF Reads
<1> HIDE DEF k, S
<1>5. Cardinality(S) \in Nat /\ Cardinality(S) # 0
  <2>1. IsFiniteSet(S) /\ Cardinality(S) \in Nat
        BY <1>1, <1>3, OneMore
  <2> QED BY <1>3, <2>1, FS_EmptySet
<1>6. Reads(k) > 0
      BY <1>4, <1>5
<1>7. [skill |-> k, configured |-> k \in SkillsConfigured, reads |-> Reads(k),
       named |-> Named(k) /\ Reads(k) = 0] \in SkillRows
      BY <1>2, <1>6 DEF SkillRows
<1> QED BY <1>6, <1>7 DEF k

-----------------------------------------------------------------------------
UsageInv ==
    /\ launch \in Launches
    /\ calls \in Seq(UsageEvents)
    /\ page.upto \in 0 .. Len(calls)
    /\ CallsAreConserved

LEMMA UsageInitially == UsageInit => UsageInv
<1> SUFFICES ASSUME UsageInit PROVE UsageInv
    OBVIOUS
<1>1. launch \in Launches /\ calls = <<>> /\ page = NoPage
      BY DEF UsageInit
<1>2. \A m : /\ MadeIn(calls, 0, m) = {} /\ SearchesIn(calls, 0) = {}
      BY DEF MadeIn, SearchesIn
<1>3. \A s : UsesBy(calls, 0, s) = {}
      BY DEF UsesBy
<1>4. RowsFit(calls, 0, {})
      BY <1>2, <1>3, FS_EmptySet DEF RowsFit, Holds
<1>5. 1 .. 0 = {} /\ Cardinality({}) = 0
      BY FS_EmptySet
<1>6. Conserved(calls, page)
  <2>1. /\ page.upto = 0 /\ page.servers = {} /\ page.host = 0 /\ page.bridge = 0
        BY <1>1 DEF NoPage
  <2>2. /\ page.upto \in Nat /\ \A i \in 1 .. page.upto : calls[i] \in UsageEvents
        /\ RowsFit(calls, page.upto, page.servers)
        /\ page.host + page.bridge + Cardinality(MadeIn(calls, page.upto, {"direct"}))
             = Cardinality((1 .. page.upto) \ MadeIn(calls, page.upto, {"says"}))
        /\ \A i \in MadeIn(calls, page.upto, {"read"}) :
             \E r \in page.skills : r.skill = calls[i].method /\ r.reads > 0
    <3>1. (1 .. 0) \ {} = {}
          BY <1>5
    <3>2. Cardinality(MadeIn(calls, 0, {"direct"})) = 0
          /\ Cardinality((1 .. 0) \ MadeIn(calls, 0, {"says"})) = 0
          BY <1>2, <1>5, <3>1
    <3> QED BY <1>2, <1>4, <2>1, <3>2
  <2> QED BY <2>2, FitIsConserved
<1> QED BY <1>1, <1>6, ConservedIs DEF UsageInv, NoPage

LEMMA CollectsConserves == UsageInv /\ Collects => UsageInv'
<1> SUFFICES ASSUME UsageInv, Collects PROVE UsageInv'
    OBVIOUS
<1> DEFINE n == Len(calls)
           p == [upto |-> n, host |-> HostCalls, bridge |-> BridgeCalls,
                 servers |-> McpServers, skills |-> SkillRows]
<1>1. launch \in Launches /\ calls \in Seq(UsageEvents)
      BY DEF UsageInv
<1>2. page' = p /\ calls' = calls /\ launch' = launch
      BY DEF Collects
<1>3. n \in Nat /\ \A i \in 1 .. n : calls[i] \in UsageEvents
      BY <1>1
<1>4. RowsFit(calls, n, McpServers)
      BY <1>1, ServersFit
<1>5. HostCalls + BridgeCalls + Cardinality(MadeIn(calls, n, {"direct"}))
        = Cardinality((1 .. n) \ MadeIn(calls, n, {"says"}))
      BY <1>1, ToolsAddUp
<1>6. \A i \in MadeIn(calls, n, {"read"}) :
        \E r \in SkillRows : r.skill = calls[i].method /\ r.reads > 0
      BY <1>1, ReadsAreLoaded
<1>7. Conserved(calls, p)
  <2>1. /\ p.upto = n /\ p.host = HostCalls /\ p.bridge = BridgeCalls
        /\ p.servers = McpServers /\ p.skills = SkillRows
        OBVIOUS
  <2> HIDE DEF p, n
  <2> QED BY <1>3, <1>4, <1>5, <1>6, <2>1, FitIsConserved
<1>8. CallsAreConserved'
      BY <1>2, <1>7, ConservedNext
<1> QED BY <1>1, <1>2, <1>3, <1>8 DEF UsageInv

LEMMA AgentCallsConserves ==
    ASSUME UsageInv, NEW c \in UsageEvents, AgentCalls(c)
    PROVE  UsageInv'
<1> DEFINE n == page.upto
<1>1. /\ launch \in Launches /\ calls \in Seq(UsageEvents) /\ n \in 0 .. Len(calls)
      /\ Conserved(calls, page)
      BY ConservedIs DEF UsageInv
<1>2. calls' = Append(calls, c) /\ page' = page /\ launch' = launch
      BY DEF AgentCalls
<1>3. calls' \in Seq(UsageEvents) /\ Len(calls') = Len(calls) + 1 /\ Len(calls) \in Nat
      /\ \A i \in 1 .. Len(calls) : calls'[i] = calls[i]
      BY <1>1, <1>2
<1>4. \A i \in 1 .. n : calls'[i] = calls[i]
      BY <1>1, <1>3
<1>5. /\ \A T : MadeIn(calls', n, T) = MadeIn(calls, n, T) /\ MadeIn(calls, n, T) \subseteq 1 .. n
      /\ NamedIn(calls', n) = NamedIn(calls, n)
      BY <1>4 DEF MadeIn, NamedIn
<1>6. \A i \in MadeIn(calls, n, {"read"}) : calls'[i].method = calls[i].method
      BY <1>4, <1>5
<1>7. Conserved(calls', page)
  <2> DEFINE Made1(T) == MadeIn(calls, n, T)
  <2>1. \A i \in Made1({"read"}) :
           \E r \in page.skills : r.skill = calls[i].method /\ r.reads > 0
        BY <1>1 DEF Conserved
  <2>2. \A i \in Made1({"read"}) :
           \E r \in page.skills : r.skill = calls'[i].method /\ r.reads > 0
        BY <1>6, <2>1
  <2>3. /\ MadeIn(calls', n, {"direct"}) = Made1({"direct"})
        /\ MadeIn(calls', n, {"says"}) = Made1({"says"})
        /\ MadeIn(calls', n, {"search"}) = Made1({"search"})
        /\ MadeIn(calls', n, {"read"}) = Made1({"read"})
        BY <1>5
  <2> QED BY <1>1, <1>5, <2>2, <2>3, Zenon DEF Conserved
<1>8. CallsAreConserved'
      BY <1>2, <1>7, ConservedNext
<1> QED BY <1>1, <1>2, <1>3, <1>8 DEF UsageInv

LEMMA UsageStep == UsageInv /\ [UsageNext]_usageVars => UsageInv'
<1> SUFFICES ASSUME UsageInv, [UsageNext]_usageVars PROVE UsageInv'
    OBVIOUS
<1>1. CASE Collects
      BY <1>1, CollectsConserves
<1>2. ASSUME NEW c \in UsageEvents, AgentCalls(c) PROVE UsageInv'
      BY <1>2, AgentCallsConserves
<1>3. CASE UNCHANGED usageVars
  <2>1. calls' = calls /\ page' = page /\ launch' = launch
        BY <1>3 DEF usageVars
  <2>2. CallsAreConserved'
        BY <2>1, ConservedIs, ConservedNext DEF UsageInv
  <2> QED BY <2>1, <2>2 DEF UsageInv
<1> QED BY <1>1, <1>2, <1>3 DEF UsageNext

\* However long the timeline and whatever the files name, the usage page counts
\* every call once: no use, search or read is lost, and none is on two rows.
THEOREM CallsAlwaysConserved == UsageSpec => []CallsAreConserved
<1>1. UsageInit => UsageInv
      BY UsageInitially
<1>2. UsageInv /\ [UsageNext]_usageVars => UsageInv'
      BY UsageStep
<1>3. UsageInv => CallsAreConserved
      BY DEF UsageInv
<1> QED BY <1>1, <1>2, <1>3, PTL DEF UsageSpec
=============================================================================
