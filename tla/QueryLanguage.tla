---------------------------- MODULE QueryLanguage ----------------------------
(***************************************************************************)
(* The query language of the search boxes (anqa/session/query.py): how a   *)
(* half typed query is cut to its finished part, parsed and matched, and   *)
(* what a has: or count: clause sees of a session, on the owner's side     *)
(* (rows of session/list) and on the terminal's (anqa/session/catalog.py,  *)
(* anqa/ui/app.py).  A behaviour is about one of the two stories.          *)
(***************************************************************************)
EXTENDS Naturals, SequencesExt

CONSTANTS
    QueryStories, \* what a behaviour is about: "presence" or "typing"
    Scopes,       \* the boxes typed in: "timeline", "catalog"
    MaxTokens,    \* bound: tokens in the box
    MaxSigns      \* bound: what the agent and the operator leave in a session

VARIABLES
    query,    \* which story
    box,      \* typing: the box, its scope, and the event or row looked at
    session,  \* presence: what the session holds
    listed    \* presence: the owner's row, its answer, and what is shown

queryVars == <<query, box, session, listed>>

-----------------------------------------------------------------------------
(* Tokens.  Of a field, "none" of its value is typed, a proper "part", or  *)
(* the "whole".  Of AND, "none" stands for A and "part" for AN; of OR and  *)
(* NOT, "none" stands for O, N, NO.                                        *)

NoValue == ""
Token(kind, name, value, typed) ==
    [kind |-> kind, name |-> name, value |-> value, typed |-> typed]
Clauses ==
    [timeline |-> {<<"is", "tool">>, <<"has", "error">>, <<"user", "w">>},
     catalog |-> {<<"is", "complete">>, <<"has", "note">>, <<"has", "error">>}]
Joins == {"AND", "OR", "NOT"}
Tokens(scope) ==
    {Token("field", c[1], c[2], t) : c \in Clauses[scope], t \in {"none", "part", "whole"}}
    \union {Token("join", j, NoValue, t) : j \in Joins, t \in {"none", "whole"}}
    \union {Token("join", "AND", NoValue, "part"), Token("word", "w", NoValue, "whole")}

\* list_query_values, of the values that occur here.
ClosedValues ==
    [timeline |-> [is |-> {"tool"}, has |-> {"error"}],
     turns |-> [is |-> {}, has |-> {"error"}],
     catalog |-> [is |-> {"complete"}, has |-> {"note", "error"}]]
Chain == <<"timeline", "turns", "catalog">>
\* strip_incomplete_enum: the first box that closes the field has the say.
Closed(field) ==
    LET naming == {i \in DOMAIN Chain : ClosedValues[Chain[i]][field] # {}}
    IN ClosedValues[Chain[Min(naming)]][field]

Unfinished(token) ==
    \/ token.kind = "field" /\ token.typed = "none"
    \/ token.kind = "join" /\ token.typed \in {"part", "whole"}
    \/ /\ token.kind = "field" /\ token.typed = "part"
       /\ token.name \in {"is", "has"} /\ token.value \in Closed(token.name)

\* Mutated: the loop is run once.
FinishedPrefixOnce(text) ==
    IF text # <<>> /\ Unfinished(Last(text)) THEN Front(text) ELSE text
\* The loop ends before the last token that stays.
FinishedPrefix(text) ==
    SubSeq(text, 1, Max({0} \union {i \in DOMAIN text : ~Unfinished(text[i])}))

(* The parser is luqum's: an implicit AND binds least, then OR, AND, NOT.  *)
IsJoin(token) == token.kind = "join" /\ token.typed = "whole"
Negates(token) == IsJoin(token) /\ token.name = "NOT"
Binary(token) == IsJoin(token) /\ token.name # "NOT"
Parses(text) ==
    /\ text # <<>>
    /\ ~Binary(Head(text)) /\ ~IsJoin(Last(text))
    /\ \A i \in 1 .. Len(text) - 1 : IsJoin(text[i]) => ~Binary(text[i + 1])

Glue(acc, value) ==
    LET v == value # acc.neg IN
    CASE acc.join = "AND" -> [acc EXCEPT !.both = @ /\ v]
      [] acc.join = "OR" -> [acc EXCEPT !.some = @ \/ acc.both, !.both = v]
      [] OTHER -> [acc EXCEPT !.all = @ /\ (acc.some \/ acc.both),
                              !.some = FALSE, !.both = v]
Evaluated(text, Value(_)) ==
    LET Step(acc, token) ==
            IF Negates(token) THEN [acc EXCEPT !.neg = ~@]
            ELSE IF Binary(token) THEN [acc EXCEPT !.join = token.name]
            ELSE [Glue(acc, Value(token)) EXCEPT !.neg = FALSE, !.join = ""]
        end == FoldLeft(Step, [all |-> TRUE, some |-> FALSE, both |-> TRUE,
                               neg |-> FALSE, join |-> ""], text)
    IN end.all /\ (end.some \/ end.both)

\* matches_field and matches_words, of a row or an event.  seen: the closed
\* values that hold, the hay's words, and the words of a user's message.
Matched(token, seen) ==
    CASE token.kind = "word" -> token.name \in seen.hay
      [] token.kind = "join" -> FALSE
      [] token.kind = "field" /\ token.name = "user" -> token.value \in seen.user
      [] OTHER -> token.typed = "whole" /\ <<token.name, token.value>> \in seen.holds
Holds(text, seen) == Evaluated(text, LAMBDA t : Matched(t, seen))
\* bare_words, when the text is not a tree: the words of the text, fields too.
BareWords(text) == SelectSeq(text, LAMBDA t : ~IsJoin(t))
BareMatched(text, seen) ==
    \A t \in ToSet(BareWords(text)) : t.kind = "word" /\ Matched(t, seen)
Matches(text, seen) ==
    LET finished == FinishedPrefix(text) IN
    \/ finished = <<>>
    \/ Parses(finished) /\ Holds(finished, seen)
    \/ /\ finished # <<>> /\ ~Parses(finished)
       /\ BareMatched(finished, seen)

-----------------------------------------------------------------------------
(* What a has: or count: clause sees.                                      *)

OnDisk == {"workflows", "goals", "plans", "subagents", "jobs", "logs",
           "schedules", "compaction"}
InTrace == {"children", "errors", "failures", "diff", "compactions", "doom"}
Signs == OnDisk \union InTrace \union {"notes"}
Counted == {"workflows", "notes", "goals", "plans", "subagents", "tasks", "jobs",
            "schedules", "errors", "failures", "diff", "compaction", "doom"}
NothingThere == [c \in Counted |-> 0]

\* What is there to be found, whatever the store.
Larger(a, b) == IF a > b THEN a ELSE b
JobSigns(s) == IF s.holds["jobs"] > 0 THEN s.holds["jobs"] ELSE s.holds["logs"]

\* The adapters' list meta: a directory's signals, a file's window.
LoadMeta(s) ==
    IF s.store = "directory"
    THEN [NothingThere EXCEPT !["errors"] = s.holds["errors"],
              !["failures"] = s.holds["failures"], !["diff"] = s.holds["diff"],
              !["compaction"] = s.holds["compactions"], !["doom"] = s.holds["doom"]]
    ELSE [NothingThere EXCEPT !["subagents"] = s.holds["children"]]
\* SessionDir.presence.
DirPresence(s, meta) ==
    [meta EXCEPT !["workflows"] = s.holds["workflows"], !["notes"] = s.holds["notes"],
        !["goals"] = s.holds["goals"], !["plans"] = s.holds["plans"],
        !["subagents"] = s.holds["subagents"], !["jobs"] = JobSigns(s),
        !["schedules"] = s.holds["schedules"], !["tasks"] = JobSigns(s) + s.holds["schedules"],
        !["compaction"] = Larger(s.holds["compaction"], @)]
\* catalog_presence_from_meta.
MetaPresence(meta) ==
    [meta EXCEPT !["tasks"] = IF @ > 0 THEN @ ELSE meta["jobs"] + meta["schedules"]]
CatalogRow(s) == IF s.store = "directory" THEN DirPresence(s, LoadMeta(s))
                 ELSE MetaPresence(LoadMeta(s))
\* The terminal's copy of an owner's row: the counts COUNT_META_ATTR names,
\* the errors, and the three apply_catalog_presence_row copies by hand.  The
\* two line counts from_meta adds up are nobody's, so they stay 0.
CountMeta == {"workflows", "notes", "goals", "plans", "subagents", "tasks", "jobs", "schedules"}
RowCounts == {"errors", "failures", "compaction", "doom"}
CatalogMeta(row) == [c \in Counted |-> IF c \in CountMeta \union RowCounts THEN row[c] ELSE 0]

\* match_number, at one bound.
Bounds == {1, 2}
HasCount(row, name, bound) == row[name] >= bound

-----------------------------------------------------------------------------
NoSeen == [holds |-> {}, hay |-> {}, user |-> {}]
SeenBy(scope) ==
    [holds : SUBSET Clauses[scope], hay : SUBSET {"w"},
     user : IF scope = "timeline" THEN SUBSET {"w"} ELSE {{}}]
NoSearch == [at |-> "none", name |-> "notes", bound |-> 1, not |-> FALSE,
             page |-> NothingThere, answered |-> FALSE, shown |-> FALSE]

QueryInit ==
    /\ query \in QueryStories
    /\ \E store \in {"directory", "file"} :
           session = [store |-> store, holds |-> [g \in Signs |-> 0]]
    /\ listed = [row |-> NothingThere, current |-> TRUE, search |-> NoSearch]
    /\ IF query = "typing"
       THEN \E scope \in Scopes : \E seen \in SeenBy(scope) :
                \* What a user says is in the hay of the event.
                /\ seen.user \subseteq seen.hay
                /\ box = [scope |-> scope, text |-> <<>>, seen |-> seen]
       ELSE box = [scope |-> "catalog", text |-> <<>>, seen |-> NoSeen]

Typed(text) == /\ query = "typing" /\ Len(text) <= MaxTokens
               /\ box' = [box EXCEPT !.text = text]
               /\ UNCHANGED <<query, session, listed>>
\* A field's colon takes the next word for its value.
OpenField(t) == t.kind = "field" /\ t.typed = "none"
TypesToken == /\ ~\E i \in DOMAIN box.text : i = Len(box.text) /\ OpenField(box.text[i])
              /\ \E t \in Tokens(box.scope) : Typed(Append(box.text, t))
\* suggest_last_token, apply_suggestion: the hint finishes the last token.
TakesHint == /\ box.text # <<>> /\ Last(box.text).kind = "field"
             /\ Last(box.text).typed # "whole"
             /\ Typed(Append(Front(box.text), [Last(box.text) EXCEPT !.typed = "whole"]))
Erases == box.text # <<>> /\ Typed(Front(box.text))

\* The agent works, the operator writes notes.
Leaves(g) ==
    /\ query = "presence"
    /\ MapThenSumSet(LAMBDA h : session.holds[h], Signs) < MaxSigns
    /\ g \in OnDisk => session.store = "directory"
    /\ g = "children" => session.store = "file"
    /\ g \in {"goals", "plans"} => session.holds[g] = 0
    /\ session' = [session EXCEPT !.holds[g] = @ + 1]
    /\ listed' = [listed EXCEPT !.current = FALSE]
    /\ UNCHANGED <<query, box>>
OwnerRebuilds ==
    /\ query = "presence" /\ ~listed.current
    /\ listed' = [listed EXCEPT !.row = CatalogRow(session), !.current = TRUE]
    /\ UNCHANGED <<query, box, session>>
\* The box holds one clause, negated or not; the owner answers it.  Of all
\* the searches of a session, one is followed.
OwnerAnswers ==
    /\ query = "presence" /\ listed.search.at = "none"
    /\ \E name \in Counted : \E bound \in Bounds : \E not \in BOOLEAN :
          listed' = [listed EXCEPT !.search =
                       [at |-> "answered", name |-> name, bound |-> bound, not |-> not,
                        page |-> listed.row, shown |-> FALSE,
                        answered |-> HasCount(listed.row, name, bound) # not]]
    /\ UNCHANGED <<query, box, session>>
\* _filtered_session_rows asks the same of the rows the owner answered with.
TerminalShows ==
    /\ listed.search.at = "answered"
    /\ LET asked == listed.search
       IN listed' = [listed EXCEPT !.search.at = "shown", !.search.shown =
             asked.answered
             /\ HasCount(CatalogMeta(asked.page), asked.name, asked.bound) # asked.not]
    /\ UNCHANGED <<query, box, session>>

QueryNext == TypesToken \/ TakesHint \/ Erases \/ (\E g \in Signs : Leaves(g))
             \/ OwnerRebuilds \/ OwnerAnswers \/ TerminalShows
QuerySpec == QueryInit /\ [][QueryNext]_queryVars

-----------------------------------------------------------------------------
\* Variables have the shape the actions rely on.
QueryTypeOK ==
    /\ query \in QueryStories
    /\ Len(box.text) <= MaxTokens /\ ToSet(box.text) \subseteq Tokens(box.scope)
    /\ session.holds \in [Signs -> 0 .. MaxSigns]
    /\ listed.search.at \in {"none", "answered", "shown"}

\* While a clause is typed, or the operator before it, the box matches what
\* its finished clauses match: "so as-you-type keeps matches".
HalfTyped(t) ==
    \/ t.kind = "field" /\ t.typed = "none"
    \/ t.kind = "field" /\ t.typed = "part" /\ t.name \in {"is", "has"}
    \/ t.kind = "join" /\ t.typed # "none"
IsFinished(text) ==
    \/ text = <<>>
    \/ /\ Parses(text)
       /\ \A t \in ToSet(text) : t.typed = "whole"
BoxKeepsMatches ==
    \A k \in 0 .. Len(box.text) :
        LET finished == SubSeq(box.text, 1, k) IN
        /\ IsFinished(finished)
        /\ \A i \in k + 1 .. Len(box.text) : HalfTyped(box.text[i])
        => Matches(box.text, box.seen) = (k = 0 \/ Holds(finished, box.seen))
\* It does in the Timeline's box; the session list's is another matter.
TimelineKeepsMatches == box.scope = "timeline" => BoxKeepsMatches

\* The terminal shows the rows the owner answered with, whatever the clause.
AnsweredRowsAreShown ==
    listed.search.at = "shown" => listed.search.shown = listed.search.answered
=============================================================================
