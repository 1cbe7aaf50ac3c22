---------------------------- MODULE GuardedNotes ----------------------------
(***************************************************************************)
(* What the notes store promises its editors (docs/control.md, "Notes      *)
(* revision"): one document, which changes only by an edit made on the     *)
(* revision its editor sends, once, and with nothing of the others' lost;  *)
(* an edit is acknowledged only if it was made, and refused only if the    *)
(* notes are no longer at the revision the editor sent.  A document is its *)
(* own revision, as in the code, where the revision is a content hash.     *)
(***************************************************************************)
CONSTANTS
    Notes,     \* note ids
    Editors,   \* edits, each made by an editor of its own
    Old,       \* what a note said before any of them
    None       \* no such note

VARIABLES
    content,   \* the document
    want,      \* want[e]: the note e is about, and whether e writes or deletes it
    expected,  \* expected[e]: the revision e sends
    outcome    \* outcome[e]: how far the edit is

vars == <<content, want, expected, outcome>>

Docs == [Notes -> Editors \union {Old, None}]

\* A file that holds a document, nothing (as good as no file), or no TOML.
Revisions == [form: {"whole", "blank", "broken"}, doc: Docs]
Wants == [note: Notes, verb: {"upsert", "delete"}]

\* NotesDoc.upsert and NotesDoc.remove.
Edited(doc, e, w) == [doc EXCEPT ![w.note] = IF w.verb = "upsert" THEN e ELSE None]
Whole(doc) == [form |-> "whole", doc |-> doc]

Init ==
    /\ content \in Revisions
    /\ want \in [Editors -> Wants]
    /\ expected \in [Editors -> Revisions]
    /\ outcome = [e \in Editors |-> "open"]

\* An editor reads the notes, and may be told an older revision.
Look(e) ==
    /\ outcome[e] = "open"
    /\ expected' \in [Editors -> Revisions]
    /\ \A d \in Editors \ {e} : expected'[d] = expected[d]
    /\ UNCHANGED <<content, want, outcome>>

Make(e) ==
    /\ outcome[e] = "open"
    /\ content = expected[e]
    /\ content' = Whole(Edited(content.doc, e, want[e]))
    /\ outcome' = [outcome EXCEPT ![e] = "made"]
    /\ UNCHANGED <<want, expected>>

\* A note that is not there needs no deletion.
Acknowledge(e) ==
    /\ \/ outcome[e] = "made"
       \/ /\ outcome[e] = "open" /\ content = expected[e]
          /\ want[e].verb = "delete" /\ content.doc[want[e].note] = None
    /\ outcome' = [outcome EXCEPT ![e] = "acknowledged"]
    /\ UNCHANGED <<content, want, expected>>

Refuse(e) ==
    /\ outcome[e] \in {"open", "made"}
    /\ content # expected[e]
    /\ outcome' = [outcome EXCEPT ![e] = "refused"]
    /\ UNCHANGED <<content, want, expected>>

\* The editor never learns what became of it.
Abandon(e) ==
    /\ outcome[e] \in {"open", "made"}
    /\ outcome' = [outcome EXCEPT ![e] = "unknown"]
    /\ UNCHANGED <<content, want, expected>>

Next == \E e \in Editors : Look(e) \/ Make(e) \/ Acknowledge(e) \/ Refuse(e) \/ Abandon(e)
Spec == Init /\ [][Next]_vars

=============================================================================
