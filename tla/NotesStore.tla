----------------------------- MODULE NotesStore -----------------------------
(***************************************************************************)
(* The operator notes of one session (anqa/notes.py): two files, of which  *)
(* the newest that parses counts, edits guarded by the revision their      *)
(* editor read, and a save through a temporary file.  The owner makes the  *)
(* edits that reach it over the control socket, each in a thread of its    *)
(* own; the TUI makes its own when the owner does not answer               *)
(* (BrowserScreen._persist_note_mutation).  Each process has a lock per    *)
(* session, readers take none.                                             *)
(*                                                                         *)
(* A process may be stopped between any two file operations; each is one   *)
(* action.  A temporary file has one name, so that two processes that      *)
(* save at once share it: a thread's descriptor then follows the file to   *)
(* wherever somebody renames it.                                           *)
(***************************************************************************)
EXTENDS Naturals, FiniteSets

CONSTANTS
    Notes,      \* note ids
    Editors,    \* edits, each made by an editor of its own
    Local,      \* those made in the TUI, which may fall back to the disk
    Old,        \* what a note said before any of them
    None,       \* no such note
    Owner,      \* the owner process
    Tui,        \* the TUI process
    Events,     \* kinds of environment event a run enables
    MaxEvents   \* bound: how many environment events a behaviour has

ASSUME LocalAssumption == Local \subseteq Editors
ASSUME NamesAssumption ==
    /\ Old # None /\ {Old, None} \intersect Editors = {}
    /\ Owner # Tui /\ "nobody" \notin {Owner, Tui}
ASSUME MaxEventsAssumption == MaxEvents \in Nat

VARIABLES
    file,      \* file[f]: the notes file f, with its mtime
    tmp,       \* tmp[f]: the temporary file next to it
    clock,     \* the mtime of the latest write
    writable,  \* the session directory takes writes, and is no adapter's store
    up,        \* processes that run
    holder,    \* holder[p]: whose thread holds _notes_lock in p
    want,      \* want[e]: the note e is about, and whether e writes or deletes it
    editor,    \* editor[e]: the snapshot it took, and whom it asked
    job,       \* job[p][e]: the locals of the thread in p that makes the edit
    made,      \* edits whose save has renamed its file into place
    events     \* environment events so far

diskVars == <<file, tmp, clock, writable>>
vars == <<diskVars, up, holder, want, editor, job, made, events>>

-----------------------------------------------------------------------------
(***************************************************************************)
(* Files and documents.                                                    *)
(***************************************************************************)
Files == {"primary", "fallback"}
Processes == {Owner, Tui}
Docs == [Notes -> Editors \union {Old, None}]
NoDoc == [n \in Notes |-> None]

\* A file holds a document, nothing yet, or the mixture of two; or is not there.
File(form, doc, mtime) == [form |-> form, doc |-> doc, mtime |-> mtime]
Absent == File("absent", NoDoc, 0)
Wants == [note: Notes, verb: {"upsert", "delete"}]
Edited(doc, e) == [doc EXCEPT ![want[e].note] = IF want[e].verb = "upsert" THEN e ELSE None]

\* _try_load.  An empty file parses, as a document without notes.
Loads(x) == x.form \in {"whole", "blank"}

\* _content_revision: the hash of the bytes, none if there is no file.
Hash(x) == [form |-> IF x.form = "absent" THEN "blank" ELSE x.form, doc |-> x.doc]

\* What _load_notes_source settles on: the first of the files that load, unless
\* a later one is newer.
Newest_First(first, second) == Loads(second) /\ ~ Loads(first)
Newest(first, second) == Loads(second) /\ (~ Loads(first) \/ second.mtime > first.mtime)
Canonical ==
    IF Newest(file["primary"], file["fallback"]) THEN Hash(file["fallback"])
    ELSE IF Loads(file["primary"]) THEN Hash(file["primary"]) ELSE Hash(Absent)

-----------------------------------------------------------------------------
(***************************************************************************)
(* notes_snapshot, in an editor's list request or in a guarded edit: the   *)
(* files are loaded one by one, and the chosen one is read again for its   *)
(* revision.                                                               *)
(***************************************************************************)
Blind == [pc |-> "idle", load |-> Absent, src |-> "none", rev |-> Hash(Absent)]

LoadPrimary(me) ==
    [me EXCEPT !.pc = "fallback", !.load = file["primary"],
               !.src = IF Loads(file["primary"]) THEN "primary" ELSE "none"]
LoadFallback(me) ==
    IF Newest(me.load, file["fallback"])
    THEN [me EXCEPT !.pc = "hash", !.load = file["fallback"], !.src = "fallback"]
    ELSE [me EXCEPT !.pc = "hash", !.load = IF Loads(@) THEN @ ELSE Absent]
TakeHash(me) ==
    [me EXCEPT !.pc = "have", !.rev = Hash(IF me.src = "none" THEN Absent ELSE file[me.src])]
Reading(me) == me.pc \in {"primary", "fallback", "hash"}
ReadOn(me) ==
    CASE me.pc = "primary" -> LoadPrimary(me)
      [] me.pc = "fallback" -> LoadFallback(me)
      [] me.pc = "hash" -> TakeHash(me)

IdleEditor == [snap |-> Blind, asks |-> "nobody"]
IdleJob == [snap |-> Blind, target |-> "primary", at |-> "nowhere"]

\* Any of the two files may be there, either may be the newer one: notes beside
\* the session, and a fallback with none left.
Was(x) == {Absent} \union {File("whole", [n \in Notes |-> x], t) : t \in {1, 2}}
Init ==
    /\ file \in [Files -> Was(Old) \union Was(None)]
    /\ file["primary"] \in Was(Old) /\ file["fallback"] \in Was(None)
    /\ tmp = [f \in Files |-> Absent]
    /\ clock = 2
    /\ writable \in BOOLEAN
    /\ up = Processes
    /\ holder = [p \in Processes |-> None]
    /\ want \in [Editors -> Wants]
    /\ editor = [e \in Editors |-> IdleEditor]
    /\ job = [p \in Processes |-> [e \in Editors |-> IdleJob]]
    /\ made = {}
    /\ events = 0

-----------------------------------------------------------------------------
Event(x) ==
    /\ x \in Events
    /\ events < MaxEvents
    /\ events' = events + 1

\* The session directory becomes read-only, or writable again.
Remount ==
    /\ Event("remount")
    /\ writable' = ~ writable
    /\ UNCHANGED <<file, tmp, clock, up, holder, want, editor, job, made>>

\* The owner is killed; its threads end where they are.
Crash ==
    /\ Owner \in up
    /\ Event("crash")
    /\ up' = up \ {Owner}
    /\ holder' = [holder EXCEPT ![Owner] = None]
    /\ job' = [job EXCEPT ![Owner] = [e \in Editors |-> IdleJob]]
    /\ UNCHANGED <<diskVars, want, editor, made>>

-----------------------------------------------------------------------------
(***************************************************************************)
(* Editors.                                                                *)
(***************************************************************************)
SetEditor(e, you) == editor' = [editor EXCEPT ![e] = you]
At(e, pc) == [editor[e] EXCEPT !.snap.pc = pc]
SetJob(p, e, you) == job' = [job EXCEPT ![p][e] = you]

\* An editor takes a snapshot of the notes ...
Look(e) ==
    /\ editor[e].snap.pc = "idle"
    /\ SetEditor(e, At(e, "primary"))
    /\ UNCHANGED <<diskVars, up, holder, want, job, made, events>>
LookOn(e) ==
    /\ Reading(editor[e].snap)
    /\ SetEditor(e, [editor[e] EXCEPT !.snap = ReadOn(@)])
    /\ UNCHANGED <<diskVars, up, holder, want, job, made, events>>

\* ... and sends its edit with the revision to the owner, which starts a thread
\* for it.
Ask(e, p) ==
    /\ SetEditor(e, [At(e, "sent") EXCEPT !.asks = p])
    /\ SetJob(p, e, [IdleJob EXCEPT !.snap.pc = "queued"])
    /\ UNCHANGED <<diskVars, up, holder, want, made>>
Send(e) ==
    /\ editor[e].snap.pc = "have" /\ Owner \in up
    /\ Ask(e, Owner)
    /\ UNCHANGED events

\* Without an owner, or when it is not attached or gets no answer in time, the TUI
\* makes the edit itself; another editor gives up.
Resort_BeforeSending(e) ==
    /\ e \in Local /\ Owner \notin up
    /\ editor[e].snap.pc = "have"
    /\ Ask(e, Tui)
    /\ UNCHANGED events
Resort(e) ==
    /\ e \in Local /\ Owner \notin up
    /\ editor[e].snap.pc = "have" \/ (editor[e].snap.pc = "sent" /\ editor[e].asks = Owner)
    /\ Ask(e, Tui)
    /\ UNCHANGED events
Timeout(e) ==
    /\ e \in Local /\ Owner \in up
    /\ editor[e].snap.pc = "have" \/ (editor[e].snap.pc = "sent" /\ editor[e].asks = Owner)
    /\ Event("timeout")
    /\ Ask(e, Tui)
GiveUp(e) ==
    /\ e \notin Local /\ Owner \notin up
    /\ editor[e].snap.pc \in {"have", "sent"}
    /\ SetEditor(e, At(e, "failed"))
    /\ UNCHANGED <<diskVars, up, holder, want, job, made, events>>

-----------------------------------------------------------------------------
(***************************************************************************)
(* upsert_note and delete_note, in a thread of p for e.                    *)
(***************************************************************************)
Lock(p, e) ==
    /\ job[p][e].snap.pc = "queued" /\ holder[p] = None
    /\ holder' = [holder EXCEPT ![p] = e]
    /\ SetJob(p, e, [job[p][e] EXCEPT !.snap.pc = "primary"])
    /\ UNCHANGED <<diskVars, up, want, editor, made, events>>

Load(p, e) ==
    /\ Reading(job[p][e].snap)
    /\ SetJob(p, e, [job[p][e] EXCEPT !.snap = ReadOn(@)])
    /\ UNCHANGED <<diskVars, up, holder, want, editor, made, events>>

\* The revision is still the one the editor sent, or a conflict.  There is
\* nothing to save if the note to delete is not there.
Current(p, e) == job[p][e].snap.rev = editor[e].snap.rev
Check(p, e) ==
    LET me == job[p][e]
        needless == want[e].verb = "delete" /\ me.snap.load.doc[want[e].note] = None
    IN  /\ me.snap.pc = "have"
        /\ SetJob(p, e,
              IF ~ Current(p, e) THEN [me EXCEPT !.snap.pc = "conflict"]
              ELSE IF needless THEN [me EXCEPT !.snap.pc = "saved"]
              ELSE [me EXCEPT !.snap.pc = "open", !.snap.load.doc = Edited(@, e)])
        /\ UNCHANGED <<diskVars, up, holder, want, editor, made, events>>

\* Another place to save, or none: an OSError.
Failed(me) ==
    IF me.target = "primary" THEN [me EXCEPT !.snap.pc = "open", !.target = "fallback", !.at = "nowhere"]
    ELSE [me EXCEPT !.snap.pc = "failed", !.at = "nowhere"]
Refused(me) == me.target = "primary" /\ ~ writable

\* _atomic_write opens the temporary file and truncates it, if it is there ...
OpenTmp(p, e) ==
    LET me == job[p][e]
    IN  /\ me.snap.pc = "open"
        /\ IF Refused(me)
           THEN SetJob(p, e, Failed(me)) /\ UNCHANGED <<tmp, clock>>
           ELSE /\ SetJob(p, e, [me EXCEPT !.snap.pc = "write", !.at = "tmp"])
                /\ tmp' = [tmp EXCEPT ![me.target] = File("blank", NoDoc, clock + 1)]
                /\ clock' = clock + 1
        /\ UNCHANGED <<file, writable, up, holder, want, editor, made, events>>

\* ... writes the text, which may leave a rest of a longer one that another
\* process wrote in between ...
Write(p, e) ==
    LET me == job[p][e]
        text == File("whole", me.snap.load.doc, clock + 1)
        texts(x) == IF x.form = "blank" \/ x.doc = text.doc THEN {text}
                    ELSE {text, File("broken", NoDoc, clock + 1)}
    IN  /\ me.snap.pc = "write"
        /\ \/ me.at = "tmp" /\ file' = file
              /\ \E x \in texts(tmp[me.target]) : tmp' = [tmp EXCEPT ![me.target] = x]
           \/ me.at = "file" /\ tmp' = tmp
              /\ \E x \in texts(file[me.target]) : file' = [file EXCEPT ![me.target] = x]
           \/ me.at = "nowhere" /\ UNCHANGED <<file, tmp>>
        /\ clock' = clock + 1
        /\ SetJob(p, e, [me EXCEPT !.snap.pc = "rename"])
        /\ UNCHANGED <<writable, up, holder, want, editor, made, events>>

\* ... and renames it.  Open descriptors follow the files.
Follow(me, target) ==
    IF me.target # target THEN me
    ELSE [me EXCEPT !.at = CASE @ = "tmp" -> "file" [] OTHER -> "nowhere"]
Rename(p, e) ==
    LET me == job[p][e]
        done == [me EXCEPT !.snap.pc = "saved", !.at = "nowhere"]
    IN  /\ me.snap.pc = "rename"
        /\ IF Refused(me) \/ tmp[me.target] = Absent
           THEN SetJob(p, e, Failed(me)) /\ UNCHANGED <<file, tmp, made>>
           ELSE /\ file' = [file EXCEPT ![me.target] = tmp[me.target]]
                /\ tmp' = [tmp EXCEPT ![me.target] = Absent]
                /\ made' = made \union {e}
                /\ job' = [q \in Processes |-> [d \in Editors |->
                              IF <<q, d>> = <<p, e>> THEN done ELSE Follow(job[q][d], me.target)]]
        /\ UNCHANGED <<clock, writable, up, holder, want, editor, events>>

\* Release the lock and answer, if the editor still waits for p.  A failure of
\* the owner sends the TUI to the disk, as a timeout does.  (The snapshot that
\* goes with an acknowledgement is for the editor's next edit.)
Reply(p, e) ==
    LET x == job[p][e].snap.pc
        waits == editor[e].asks = p /\ editor[e].snap.pc = "sent"
        resort == waits /\ x = "failed" /\ p = Owner /\ e \in Local
    IN  /\ x \in {"saved", "conflict", "failed"}
        /\ holder' = [holder EXCEPT ![p] = None]
        /\ editor' = IF ~ waits THEN editor
                     ELSE [editor EXCEPT ![e] = IF resort THEN [@ EXCEPT !.asks = Tui] ELSE At(e, x)]
        /\ job' = [job EXCEPT ![p][e] = IdleJob,
                              ![Tui][e] = IF resort THEN [IdleJob EXCEPT !.snap.pc = "queued"] ELSE @]
        /\ UNCHANGED <<diskVars, up, want, made, events>>

-----------------------------------------------------------------------------
JobStep(p, e) ==
    \/ Lock(p, e) \/ Load(p, e) \/ Check(p, e)
    \/ OpenTmp(p, e) \/ Write(p, e) \/ Rename(p, e) \/ Reply(p, e)

Next ==
    \/ Remount \/ Crash
    \/ \E e \in Editors : Look(e) \/ LookOn(e) \/ Send(e) \/ Resort(e) \/ Timeout(e) \/ GiveUp(e)
    \/ \E p \in Processes, e \in Editors : JobStep(p, e)

\* While a thread that makes an edit can go on, or its editor can notice that the
\* owner is gone, one of them does.  No editor has to look or to send.
EditStep(e) == Resort(e) \/ GiveUp(e) \/ \E p \in Processes : JobStep(p, e)
Spec == Init /\ [][Next]_vars

-----------------------------------------------------------------------------
Form == {"absent", "blank", "whole", "broken"}
FileState == [form: Form, doc: Docs, mtime: Nat]
Revisions == [form: Form \ {"absent"}, doc: Docs]
Sources == Files \union {"none"}
Reader(pcs) == [pc: pcs, load: FileState, src: Sources, rev: Revisions]
ReadPcs == {"idle", "primary", "fallback", "hash", "have"}
EditorPcs == ReadPcs \union {"sent", "saved", "conflict", "failed"}
JobPcs == ReadPcs \union {"queued", "open", "write", "rename", "saved", "conflict", "failed"}
EditorState == [snap: Reader(EditorPcs), asks: Processes \union {"nobody"}]
JobState == [snap: Reader(JobPcs), target: Files, at: {"tmp", "file", "nowhere"}]
Inside(p, e) == job[p][e].snap.pc \notin {"idle", "queued"}

\* The types of the state; and the thread that is inside a guarded edit is the one
\* that holds the lock of its process, so that no two of a process are.
TypeOK ==
    /\ file \in [Files -> FileState] /\ tmp \in [Files -> FileState]
    /\ clock \in Nat /\ events \in 0 .. MaxEvents /\ writable \in BOOLEAN
    /\ up \subseteq Processes /\ made \subseteq Editors
    /\ holder \in [Processes -> Editors \union {None}]
    /\ want \in [Editors -> Wants]
    /\ editor \in [Editors -> EditorState]
    /\ job \in [Processes -> [Editors -> JobState]]
    /\ \A p \in Processes, e \in Editors : Inside(p, e) => holder[p] = e

\* The owner and, once it is gone, a TUI keep the promise of GuardedNotes.
Outcome(e) ==
    CASE editor[e].snap.pc = "saved" -> "acknowledged"
      [] editor[e].snap.pc = "conflict" -> "refused"
      [] editor[e].snap.pc = "failed" -> "unknown"
      [] OTHER -> IF e \in made THEN "made" ELSE "open"
Promise == INSTANCE GuardedNotes WITH
    content <- Canonical,
    expected <- [e \in Editors |-> editor[e].snap.rev],
    outcome <- [e \in Editors |-> Outcome(e)]
=============================================================================
