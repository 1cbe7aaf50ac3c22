------------------------------ MODULE PrefsFile ------------------------------
(***************************************************************************)
(* ~/.anqa/config.toml, "the prefs the terminal app and the desktop HUD    *)
(* share": anqa/config.py reads it once, keeps the settings and the parsed *)
(* document, and rewrites it whole when a setting changes; it takes over   *)
(* an older config.json the first time.  desktop/src/prefs.rs reads it     *)
(* again before each write of its own setting.  The operator edits it by   *)
(* hand while they run.                                                    *)
(*                                                                         *)
(* A document gives every key a number: 0 is the default, or no entry.     *)
(***************************************************************************)
EXTENDS Naturals, FiniteSets

CONSTANTS
    Programs,       \* the processes of anqa that share the file
    Settings,       \* the keys of AppConfig
    Shared,         \* the setting the HUD writes (hud.window_mode)
    Own,            \* the operator's keys and comments, which no program knows
    MaxChanges      \* bound: changes of the file

ASSUME PrefsAssumption == Shared \in Settings /\ Own \notin Settings

Hud == "hud"
Writers == Programs \union {Hud}
Keys == Settings \union {Own}

ASSUME HudAssumption == Hud \notin Programs

VARIABLES
    toml,           \* [state, doc]: config.toml
    json,           \* [there, doc]: config.json
    kept,           \* _CACHE and _DOC_CACHE of each program
    task,           \* what a writer is in the middle of: [kind, keys, doc]
    changes,        \* changes so far
    wanted,         \* what every key was last set to, by whoever did
    behind,         \* the keys that others set after a writer read the file,
                    \* or all when it could not be read
    takenBack       \* the keys a writer wrote that it was behind with

prefsVars == <<toml, json, kept, task, changes, wanted, behind, takenBack>>

Blank == [k \in Keys |-> 0]
NothingKept == [read |-> FALSE, cfg |-> [s \in Settings |-> 0], doc |-> Blank]
Task(kind, keys, doc) == [kind |-> kind, keys |-> keys, doc |-> doc]
Idle == Task("idle", {}, Blank)

\* _read_doc: a file that is missing or does not parse reads as a blank one.
ReadDocument == IF toml.state = "whole" THEN toml.doc ELSE Blank
MustImport == toml.state = "absent" /\ json.there
\* The keys a reader of the file misses.
Unread == IF toml.state = "whole" \/ (toml.state = "absent" /\ ~json.there) THEN {} ELSE Keys

\* _apply_cfg: every setting goes into the document, which keeps the rest.
\* Mutated: the settings that changed do.
AppliedChanges(doc, cfg, keys) == [k \in Keys |-> IF k \in keys THEN cfg[k] ELSE doc[k]]
Applied(doc, cfg, keys) == [k \in Keys |-> IF k \in Settings THEN cfg[k] ELSE doc[k]]
SettingsOf(doc) == [s \in Settings |-> doc[s]]

ReadsPrefs(p) ==
    /\ kept' = [kept EXCEPT ![p] = [read |-> TRUE, cfg |-> SettingsOf(ReadDocument),
                                    doc |-> ReadDocument]]
    /\ behind' = [behind EXCEPT ![p] = Unread]
    /\ task' = [task EXCEPT ![p] = Idle]

\* write_text empties the file before it fills it.
Empties == toml' = [toml EXCEPT !.state = "empty"]

-----------------------------------------------------------------------------
\* load_app_config, with nothing to import or a config.json that is none.
LoadsPrefs(p) ==
    /\ task[p] = Idle /\ ~kept[p].read
    /\ ReadsPrefs(p)
    /\ UNCHANGED <<toml, json, changes, wanted, takenBack>>

\* _import_json_if_needed.
BeginsImport(p) ==
    /\ task[p] = Idle /\ ~kept[p].read /\ MustImport
    /\ Empties
    /\ task' = [task EXCEPT ![p] = Task("import", {}, json.doc)]
    /\ behind' = [behind EXCEPT ![p] = {}]
    /\ UNCHANGED <<json, kept, changes, wanted, takenBack>>
\* The leftover goes when the new file is there; removing it may fail.  The
\* load goes on with what it finds.
RemovesLeftover(p) ==
    /\ task[p].kind = "unlink"
    /\ json' \in {json, [json EXCEPT !.there = FALSE]}
    /\ ReadsPrefs(p)
    /\ UNCHANGED <<toml, changes, wanted, takenBack>>

\* update_app_config: some settings get new values.  The document kept is
\* changed in place, before the write.
Changed(p, keys) == [s \in Settings |-> IF s \in keys THEN changes + 1 ELSE kept[p].cfg[s]]
BeginsSave(p) ==
    /\ task[p] = Idle /\ kept[p].read /\ changes < MaxChanges
    /\ \E keys \in SUBSET Settings \ {{}} :
          LET doc == Applied(kept[p].doc, Changed(p, keys), keys) IN
          /\ kept' = [kept EXCEPT ![p].doc = doc]
          /\ task' = [task EXCEPT ![p] = Task("save", keys, doc)]
    /\ changes' = changes + 1
    /\ UNCHANGED <<toml, json, wanted, behind, takenBack>>

\* save_window_mode: the file is read, then written.
HudReads ==
    /\ task[Hud] = Idle /\ changes < MaxChanges
    /\ task' = [task EXCEPT ![Hud] =
                  Task("save", {Shared}, [ReadDocument EXCEPT ![Shared] = changes + 1])]
    /\ behind' = [behind EXCEPT ![Hud] = Unread]
    /\ changes' = changes + 1
    /\ UNCHANGED <<toml, json, kept, wanted, takenBack>>

Opens(w) ==
    /\ task[w].kind = "save"
    /\ Empties
    /\ task' = [task EXCEPT ![w].kind = "fill"]
    /\ UNCHANGED <<json, kept, changes, wanted, behind, takenBack>>

\* Two that fill it at once may leave a mixture.
FillsFile(w) ==
    /\ task[w].kind \in {"import", "fill"}
    /\ LET job == task[w]
           others == \E v \in Writers \ {w} : task[v].kind \in {"import", "fill"}
       IN /\ \E state \in {"whole"} \union {s \in {"broken"} : others} :
                toml' = [state |-> state, doc |-> job.doc]
          /\ wanted' = [k \in Keys |-> IF k \in job.keys THEN job.doc[k] ELSE wanted[k]]
          /\ takenBack' = (takenBack \union behind[w]) \ job.keys
          /\ behind' = [v \in Writers |-> IF v = w THEN behind[w] ELSE behind[v] \union job.keys]
          /\ kept' = IF w = Hud THEN kept
                     ELSE [kept EXCEPT ![w].read = job.kind = "fill", ![w].doc = job.doc,
                                       ![w].cfg = SettingsOf(job.doc)]
          /\ task' = [task EXCEPT ![w] = IF job.kind = "import" THEN [job EXCEPT !.kind = "unlink"]
                                         ELSE Idle]
    /\ UNCHANGED <<json, changes>>

\* The write raises, before or after the file was emptied.  The load an
\* import is part of goes on with what it finds.
SaveFails(w) ==
    /\ task[w].kind \in {"save", "fill"}
    /\ task' = [task EXCEPT ![w] = Idle]
    /\ UNCHANGED <<toml, json, kept, changes, wanted, behind, takenBack>>
ImportFails(p) ==
    /\ task[p].kind = "import"
    /\ ReadsPrefs(p)
    /\ UNCHANGED <<toml, json, changes, wanted, takenBack>>

\* A process ends, or is killed in the middle of a write.
Ends(w) ==
    /\ kept' = [p \in Programs |-> IF p = w THEN NothingKept ELSE kept[p]]
    /\ task' = [task EXCEPT ![w] = Idle]
    /\ UNCHANGED <<toml, json, changes, wanted, behind, takenBack>>

\* The operator changes a key in the file as he finds it, or breaks it.
EditsByHand ==
    /\ changes < MaxChanges
    /\ \E k \in Keys :
          /\ toml' = [state |-> "whole", doc |-> [ReadDocument EXCEPT ![k] = changes + 1]]
          /\ wanted' = [wanted EXCEPT ![k] = changes + 1]
          /\ takenBack' = (takenBack \union Unread) \ {k}
          /\ behind' = [v \in Writers |-> behind[v] \union {k}]
    /\ changes' = changes + 1
    /\ UNCHANGED <<json, kept, task>>
BreaksFile ==
    /\ changes < MaxChanges /\ toml.state = "whole"
    /\ toml' = [toml EXCEPT !.state = "broken"]
    /\ changes' = changes + 1
    /\ UNCHANGED <<json, kept, task, wanted, behind, takenBack>>

\* What a config.json says is wanted, until it is taken over.
PrefsInit ==
    /\ toml = [state |-> "absent", doc |-> Blank]
    /\ json \in [there : BOOLEAN, doc : {[Blank EXCEPT ![s] = 1] : s \in Settings}]
    /\ kept = [p \in Programs |-> NothingKept]
    /\ task = [w \in Writers |-> Idle]
    /\ changes = 1 /\ wanted = IF json.there THEN json.doc ELSE Blank
    /\ behind = [w \in Writers |-> {}] /\ takenBack = {}

PrefsNext ==
    \/ EditsByHand \/ BreaksFile \/ HudReads
    \/ \E p \in Programs :
        \/ LoadsPrefs(p) \/ BeginsImport(p) \/ RemovesLeftover(p) \/ ImportFails(p)
        \/ BeginsSave(p)
    \/ \E w \in Writers : Opens(w) \/ FillsFile(w) \/ SaveFails(w) \/ Ends(w)

PrefsSpec == PrefsInit /\ [][PrefsNext]_prefsVars

-----------------------------------------------------------------------------
(* Correctness. *)

PrefsTypeOK ==
    /\ toml \in [state : {"absent", "empty", "broken", "whole"}, doc : [Keys -> Nat]]
    /\ json \in [there : BOOLEAN, doc : [Keys -> Nat]]
    /\ kept \in [Programs -> [read : BOOLEAN, cfg : [Settings -> Nat], doc : [Keys -> Nat]]]
    /\ task \in [Writers -> [kind : {"idle", "import", "unlink", "save", "fill"},
                             keys : SUBSET Keys, doc : [Keys -> Nat]]]
    /\ changes \in Nat /\ wanted \in [Keys -> Nat]
    /\ behind \in [Writers -> SUBSET Keys] /\ takenBack \subseteq Keys

\* A file that parses says of every key what was last put there, by any
\* program, the leftover file or the operator, however many saves failed,
\* were killed or raced: "comments on untouched keys stay put".  Only a
\* writer that had read the file before a key was changed, or could not read
\* it, takes that key back to what it held.
PrefsSurvive ==
    toml.state = "whole" => \A k \in Keys \ takenBack : toml.doc[k] = wanted[k]
=============================================================================
