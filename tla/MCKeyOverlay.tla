---------------------------- MODULE MCKeyOverlay ----------------------------
(* Five rows of the catalog and the files of up to two lines over them. *)
EXTENDS KeyOverlay

KeyRow(id, scope, keys, tables) == [id |-> id, scope |-> scope, keys |-> keys, tables |-> tables]

SomeActions == <<
    KeyRow("help.toggle", "global", {"?"}, {"global"}),
    KeyRow("list.down", "home", {"j"}, {"home", "browser"}),
    KeyRow("session.delete", "home", {"x", "d"}, {"home", "browser"}),
    KeyRow("edit.copy", "browser", {"y"}, {"browser"}),
    KeyRow("notes", "browser", {"n"}, {"browser"}) >>

Line(t, i, c) == [table |-> t, id |-> i, chord |-> c, nested |-> FALSE]

\* Lines that stand by themselves, in pairs; and every kind of line alone.
PairedLines ==
    {Line("browser", i, c) : i \in {"session.delete", "edit.copy", "notes"},
                             c \in {{Key("x")}, {Key("y"), Key("x")}, {After("n")}}}
    \union {Line("home", "session.delete", {Key("y")}), Line("home", "list.down", {Key("x")})}

SingleLines ==
    {Line(t, i, c) : t \in {"home", "browser"}, i \in Ids \union {"gone"},
        c \in {{}, {Key("escape")}, {After("n")}, {After("n"), Key("y")}, {After("escape")}}}
    \union {Line("junk", "notes", {Key("y")}),
            [table |-> "home", id |-> "gone", chord |-> {}, nested |-> TRUE]}

OnePerName(s) == \A e, d \in s : e.table = d.table /\ e.id = d.id => e = d
File(state, leader, timeout, remaps) ==
    [state |-> state, leader |-> leader, timeout |-> timeout, remaps |-> remaps]

SomeKeyFiles ==
    {File(s, Unset, Unset, {}) : s \in {"absent", "unreadable"}}
    \union {File("table", l, Unset, {e}) : l \in {Unset, ";"}, e \in SingleLines}
    \union {File("table", l, t, {Line("browser", "notes", {Key("y"), Key("x")})}) :
            l \in {"x", ";", "escape", Malformed}, t \in {Unset, Malformed}}
    \union {File("table", l, Unset, s) : l \in {Unset, ";"},
            s \in {d \in {{e, f} : e, f \in PairedLines} : OnePerName(d)}}
=============================================================================
