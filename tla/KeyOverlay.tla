----------------------------- MODULE KeyOverlay -----------------------------
(* The keys of the terminal: the catalog of actions, the optional keys.toml    *)
(* laid over it when the program mounts (anqa/keys/overlay.py), and the leader *)
(* key of the running program, which holds for a time and takes one more key   *)
(* (anqa/ui/app.py).                                                           *)
(*                                                                             *)
(* A chord is a set of parts (the comma list of the code, normalized); a part  *)
(* is one key, or one key after the leader.  An entry of the file names a      *)
(* table, an action id and the chord it should have.  Wording of the errors is *)
(* left out: an error is there or not.                                         *)
EXTENDS Naturals, Sequences, FiniteSets

CONSTANTS
    Catalog,        \* the actions in their order: [id, scope, keys, tables]
    ReservedKeys,   \* Esc, Enter, Tab, Shift+Tab, ?
    ListNav,        \* ids that may not be leader sequences
    PressedKeys,    \* the keys a hand presses
    KeyFiles,       \* the keys.toml files the program may find
    MaxArmings      \* bound: how often the leader is armed

VARIABLES
    keyFile,        \* the file found at the mount
    keymap,         \* _resolved_keymap: [chords, leader]
    onScreen,       \* the screen on top: "home" or "browser"
    typing,         \* an Input or TextArea has the focus
    armed,          \* _leader_armed
    arming,         \* number of the last arming
    timers,         \* the armings whose timer is running
    pressed,        \* presses so far, modulo 2: tells a press from another step
    fired           \* what the last press fires: [part, ids]

keyVars == <<keyFile, keymap, onScreen, typing, armed, arming, timers, pressed, fired>>

Unset == "unset"
Malformed == "malformed"
KeyScopes == {"global", "home", "browser", "modal"}

ASSUME CatalogAssumption ==
    Catalog \in Seq([id : STRING, scope : KeyScopes, keys : SUBSET STRING, tables : SUBSET KeyScopes])

Ids == {Catalog[n].id : n \in DOMAIN Catalog}
Row(i) == Catalog[CHOOSE n \in DOMAIN Catalog : Catalog[n].id = i]
Key(k) == [lead |-> FALSE, key |-> k]
After(k) == [lead |-> TRUE, key |-> k]
DefaultChords == [i \in Ids |-> {Key(k) : k \in Row(i).keys}]
IsReserved(part) == ~part.lead /\ part.key \in ReservedKeys
Remappable(i) == \A part \in DefaultChords[i] : ~IsReserved(part)

-----------------------------------------------------------------------------
(* Reading the file. *)

\* An entry for an id the catalog does not have in that table is passed over.
KnownLine(e) == ~e.nested /\ \E n \in DOMAIN Catalog : Catalog[n].id = e.id /\ e.table \in Catalog[n].tables

EntryIsBad(e) ==
    \/ e.chord = {}
    \/ ~Remappable(e.id)
    \/ \E part \in e.chord : IsReserved(part)

DocumentIsBad(f) ==
    \/ f.leader = Malformed \/ f.leader \in ReservedKeys
    \/ f.timeout = Malformed
    \/ \E e \in f.remaps : e.table \notin KeyScopes \/ e.nested \/ (KnownLine(e) /\ EntryIsBad(e))

Remaps(f) == {e \in f.remaps : KnownLine(e)}

\* A table may name an id that another table names too: the last one stands.
MergedChords(f) ==
    [i \in Ids |->
        LET own == {e \in Remaps(f) : e.id = i}
        IN  IF own = {} THEN DefaultChords[i] ELSE (CHOOSE e \in own : TRUE).chord]

RemappedTwice(f) == \E e, d \in Remaps(f) : e.id = d.id /\ e.chord # d.chord

Holders(chords, scope, part) == {i \in Ids : Row(i).scope = scope /\ part \in chords[i]}
Parts(chords) == UNION {chords[i] : i \in Ids}

Clashing(chords) ==
    \E scope \in KeyScopes, part \in Parts(chords) :
        LET ids == Holders(chords, scope, part)
        IN  Cardinality(ids) > 1 /\ ids \ Holders(DefaultChords, scope, part) # {}

HasSequence(chord) == \E part \in chord : part.lead
SequenceIsGood(chord) == Cardinality(chord) = 1 /\ \A part \in chord : part.key \notin ReservedKeys

BadSequences(f) ==
    \E e \in Remaps(f) :
        /\ HasSequence(e.chord)
        /\ e.id \in ListNav \/ ~SequenceIsGood(e.chord) \/ f.leader = Unset

LeaderIsTaken(f, chords) == f.leader # Unset /\ Key(f.leader) \in Parts(chords)

DefaultKeymap == [chords |-> DefaultChords, leader |-> Unset]

\* The plausible slip: what the document got wrong is left out, the rest applied.
LoadedPartly(f) ==
    LET good == [f EXCEPT !.remaps = {e \in @ : KnownLine(e) /\ ~EntryIsBad(e)}]
        chords == MergedChords(good)
        refused == f.state # "table" \/ DocumentIsBad(good) \/ RemappedTwice(good)
                   \/ Clashing(chords) \/ BadSequences(good) \/ LeaderIsTaken(good, chords)
    IN  IF refused THEN DefaultKeymap ELSE [chords |-> chords, leader |-> f.leader]

\* load_keymap: no file is the defaults, and any error refuses the whole file.
Loaded(f) ==
    LET chords == MergedChords(f)
        refused == \/ f.state # "table"
                   \/ DocumentIsBad(f)
                   \/ RemappedTwice(f) \/ Clashing(chords) \/ BadSequences(f)
                   \/ LeaderIsTaken(f, chords)
    IN  IF refused THEN DefaultKeymap ELSE [chords |-> chords, leader |-> f.leader]

-----------------------------------------------------------------------------
(* What a key does. *)

\* The bindings in reach: those of the screen on top and the program's own.
Reachable(i, screen) == Row(i).scope = "global" \/ screen \in Row(i).tables

\* textual_keymap: a sequence is given a chord nobody presses.
PlainHolders(k) == {i \in Ids : Reachable(i, onScreen) /\ Key(k) \in keymap.chords[i]}

\* lookup_sequence: the first row of the catalog that has the chord.
SequenceRow(k) ==
    LET rows == {n \in DOMAIN Catalog : After(k) \in keymap.chords[Catalog[n].id]}
    IN  {Catalog[n].id : n \in {m \in rows : \A o \in rows : m <= o}}

Fires(part, ids) == fired' = [part |-> part, ids |-> ids]
FiresNothing(k) == Fires(Key(k), {})

\* The plausible slip: the timer of the arming runs on.
DisarmsRunning == armed' = FALSE /\ UNCHANGED <<timers, arming>>

Disarms ==
    /\ armed' = FALSE
    /\ timers' = timers \ {arming}
    /\ UNCHANGED arming

Arms ==
    /\ armed' = TRUE
    /\ arming' = arming + 1
    /\ timers' = timers \union {arming + 1}

Stays == UNCHANGED <<armed, arming, timers>>

\* Textual dispatches what the leader did not take; a field takes it as text.
GoesToTheScreen(k) == IF typing THEN FiresNothing(k) ELSE Fires(Key(k), PlainHolders(k))

\* _handle_leader_key
PressesWithoutLeader(k) ==
    /\ keymap.leader = Unset
    /\ Stays /\ GoesToTheScreen(k)

PressesInAField(k) ==
    /\ keymap.leader # Unset /\ typing
    /\ IF armed THEN Disarms ELSE Stays
    /\ GoesToTheScreen(k)

PressesEscape(k) ==
    /\ keymap.leader # Unset /\ ~typing /\ k = "escape"
    /\ \/ armed /\ Disarms /\ FiresNothing(k)
       \/ ~armed /\ Stays /\ GoesToTheScreen(k)

PressesAfterLeader(k) ==
    /\ keymap.leader # Unset /\ ~typing /\ k # "escape" /\ armed
    /\ Disarms
    /\ IF k = keymap.leader THEN FiresNothing(k)
       ELSE Fires(After(k), {i \in SequenceRow(k) : Reachable(i, onScreen)})

PressesUnarmed(k) ==
    /\ keymap.leader # Unset /\ ~typing /\ k # "escape" /\ ~armed
    /\ \/ k = keymap.leader /\ arming < MaxArmings /\ Arms /\ FiresNothing(k)
       \/ k # keymap.leader /\ Stays /\ GoesToTheScreen(k)

PressesKey ==
    \E k \in PressedKeys :
        /\ \/ PressesWithoutLeader(k) \/ PressesInAField(k) \/ PressesEscape(k)
           \/ PressesAfterLeader(k) \/ PressesUnarmed(k)
        /\ pressed' = 1 - pressed
        /\ UNCHANGED <<keyFile, keymap, onScreen, typing>>

\* A timer that is due calls _leader_disarm, which stops the newest timer.
TimesOut ==
    \E n \in timers :
        /\ armed' = FALSE
        /\ timers' = timers \ {n, arming}
        /\ UNCHANGED <<keyFile, keymap, onScreen, typing, arming, pressed, fired>>

\* The operator opens or leaves a session, or moves the focus to a field and back.
TurnsTo ==
    /\ \/ onScreen' \in {"home", "browser"} \ {onScreen} /\ UNCHANGED typing
       \/ typing' = ~typing /\ UNCHANGED onScreen
    /\ UNCHANGED <<keyFile, keymap, armed, arming, timers, pressed, fired>>

KeyInit ==
    /\ keyFile \in KeyFiles
    /\ keymap = Loaded(keyFile)
    /\ onScreen = "home" /\ typing = FALSE
    /\ armed = FALSE /\ arming = 0 /\ timers = {}
    /\ pressed = 0 /\ fired = [part |-> Key(Unset), ids |-> {}]

KeyNext == PressesKey \/ TimesOut \/ TurnsTo

KeySpec == KeyInit /\ [][KeyNext]_keyVars

-----------------------------------------------------------------------------
(* Correctness. *)

KeyTypeOK ==
    /\ keyFile \in KeyFiles
    /\ DOMAIN keymap.chords = Ids
    /\ onScreen \in {"home", "browser"}
    /\ typing \in BOOLEAN /\ armed \in BOOLEAN
    /\ arming \in 0 .. MaxArmings /\ timers \subseteq 1 .. MaxArmings
    /\ pressed \in {0, 1} /\ fired.ids \subseteq Ids

\* Whatever file was laid over the catalog, one press never fires two actions of
\* one scope, unless the catalog itself gives both of them that key (overlay.py,
\* _clash_errors and its companions).
OneActionForAPress ==
    \A i, j \in fired.ids :
        \/ i = j \/ Row(i).scope # Row(j).scope
        \/ fired.part \in DefaultChords[i] \intersect DefaultChords[j]

\* "A bad overlay is refused in full" (overlay.py, module comment): the keys are
\* the catalog's, or every line of the file for a known action is in force.
RefusedInFull ==
    \/ keymap = DefaultKeymap
    \/ /\ keymap.leader = keyFile.leader
       /\ \A e \in keyFile.remaps :
            /\ ~e.nested /\ e.table \in KeyScopes
            /\ KnownLine(e) => keymap.chords[e.id] = e.chord

\* The leader once pressed waits for its key until a press takes it or its own
\* time is up: the timer of an earlier arming never ends a later one (app.py,
\* _leader_arm and _leader_disarm).
LeaderHoldsItsTime ==
    [][armed /\ ~armed' /\ pressed' = pressed => timers = {arming}]_keyVars
=============================================================================
