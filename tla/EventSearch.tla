---------------------------- MODULE EventSearch -----------------------------
(***************************************************************************)
(* The search index of a session's Timeline (anqa/session/event_search.py) *)
(* under requests that run at the same time.  A request parses the         *)
(* session, takes its stamp, and then, under the lock, brings the shared   *)
(* index of the session up to its own events and scans it.  The index is   *)
(* rebuilt, extended or reused; what its rows hold of the bodies is        *)
(* written only when a query reads text.  A parse gives events positions   *)
(* for indexes, and changes events it has given before: a stream grows,    *)
(* a failed tool marks its call.                                           *)
(***************************************************************************)
EXTENDS Naturals, Sequences, FiniteSets, SequencesExt

CONSTANTS
    Readers,      \* requests at once
    SearchWords,  \* words that bodies hold and queries ask for
    MaxGrowth,    \* bound: changes of the session
    MaxSearches   \* bound: requests

VARIABLES
    log,       \* the events a parse gives: [type, body, err, of]
    grown,     \* changes so far: the timeline stamp of the session
    stamped,   \* the session has a stamp; session_timeline of a store that
               \* is no directory passes the same one always
    index,     \* _indexes[key]: [there, stamp, rows]
    reader,    \* a request: pc, events, stamp
    searches   \* requests so far

searchVars == <<log, grown, stamped, index, reader, searches>>

-----------------------------------------------------------------------------
(* Queries and the columns they read.                                       *)

Word(w) == [op |-> "word", word |-> w]
User(w) == [op |-> "user", word |-> w]
Is(kind) == [op |-> "is", kind |-> kind]
HasError == [op |-> "has", kind |-> "error"]
Not(q) == [op |-> "not", arg |-> q]
Both(q, r) == [op |-> "and", left |-> q, right |-> r]

Queries ==
    UNION {{Word(w), Not(Word(w)), User(w), Both(Is("tool"), Word(w)),
            Both(User(w), Not(Is("assistant")))} : w \in SearchWords}
      \cup {Is("tool"), Is("error"), HasError}

\* walk_event_need.
RECURSIVE Need(_)
Need(q) ==
    CASE q.op = "word" -> {"hay"}
      [] q.op = "user" -> {"user", "kinds"}
      [] q.op = "is"   -> {"kinds", q.kind}
      [] q.op = "has"  -> {"error"}
      [] q.op = "not"  -> Need(q.arg)
      [] q.op = "and"  -> Need(q.left) \cup Need(q.right)

NeedsHay(q) == Need(q) \cap {"hay", "user"} # {}

\* event_matches_timeline_kind.
KindsOf(e) ==
    (CASE e.type \in {"call", "result"} -> {"tool"}
       [] e.type = "user" -> {"user"}
       [] e.type = "agent" -> {"assistant"})
      \cup (IF e.err THEN {"error"} ELSE {})

\* ListQueryBag.matches_field, matches_words and CatalogQuery._eval.
RECURSIVE Eval(_, _)
Eval(q, bag) ==
    CASE q.op = "word" -> q.word \in bag.hay
      [] q.op = "user" -> q.word \in bag.userHay
      [] q.op = "is"   -> q.kind \in bag.kinds
      [] q.op = "has"  -> bag.err
      [] q.op = "not"  -> ~Eval(q.arg, bag)
      [] q.op = "and"  -> Eval(q.left, bag) /\ Eval(q.right, bag)

\* ListQueryBag.from_event: the columns a query needs, the others empty.
BagKinds == {"tool", "user", "assistant", "error"}
Checked(need) ==
    LET wanted == need \ {"kinds", "hay", "error", "tool", "user"}
    IN {k \in BagKinds : wanted = {} \/ k \in wanted \/ (k = "user" /\ "user" \in need)}
FromEvent(e, need) ==
    LET kinds == IF need \cap {"kinds", "user"} = {} THEN {}
                 ELSE KindsOf(e) \cap Checked(need)
    IN [hay |-> IF "hay" \in need THEN e.body ELSE {},
        kinds |-> kinds,
        err |-> "error" \in need /\ e.err,
        userHay |-> IF "user" \in need /\ "user" \in kinds THEN e.body ELSE {}]

\* event_matches_query: the language, without an index.
EventHits(events, q) == {i \in DOMAIN events : Eval(q, FromEvent(events[i], Need(q)))}

-----------------------------------------------------------------------------
(* The index.                                                               *)

NoIndex == [there |-> FALSE, stamp |-> 0, rows |-> <<>>]

ColumnRow(e) == [kinds |-> KindsOf(e), err |-> e.err,
                 hay |-> {}, userHay |-> {}, ready |-> FALSE, sig |-> {}]

\* _hay_sig stands for the body: bodies that differ only in the middle of
\* two long texts of one length would pass for the same.
Sig(e) == e.body

WithHay(row, e) ==
    [row EXCEPT !.hay = e.body, !.ready = TRUE, !.sig = Sig(e),
                !.userHay = IF "user" \in row.kinds THEN e.body ELSE {}]

\* _fill_hay.  Mutated: a row that has its text keeps it.
FilledOnce(rows, events) ==
    [i \in DOMAIN rows |-> IF rows[i].ready THEN rows[i] ELSE WithHay(rows[i], events[i])]
Filled(rows, events) ==
    [i \in DOMAIN rows |-> IF rows[i].ready /\ rows[i].sig = Sig(events[i])
                           THEN rows[i] ELSE WithHay(rows[i], events[i])]

\* _refresh_row: the last row the index held, whose event may have grown.
Refreshed(row, e) ==
    [row EXCEPT !.kinds = KindsOf(e), !.err = e.err, !.ready = FALSE, !.sig = {}]

\* _prefix_matches compares positions with positions.
PrefixMatches(idx, events) == Len(idx.rows) <= Len(events)

ExtendedTo(idx, events) ==
    LET n == Len(idx.rows)
    IN [i \in DOMAIN events |->
          IF i < n THEN idx.rows[i]
          ELSE IF i = n THEN Refreshed(idx.rows[n], events[n])
          ELSE ColumnRow(events[i])]

\* _ensure.
Ensured(idx, events, stamp, hay) ==
    LET rows ==
          IF idx.there /\ idx.stamp = stamp /\ Len(idx.rows) = Len(events) THEN idx.rows
          ELSE IF idx.there /\ PrefixMatches(idx, events) THEN ExtendedTo(idx, events)
          ELSE [i \in DOMAIN events |-> ColumnRow(events[i])]
    IN [there |-> TRUE, stamp |-> stamp,
        rows |-> IF hay THEN Filled(rows, events) ELSE rows]

\* _bag
Bag(row) == [hay |-> row.hay, kinds |-> row.kinds, err |-> row.err, userHay |-> row.userHay]
Scanned(idx, q) == {i \in DOMAIN idx.rows : Eval(q, Bag(idx.rows[i]))}

-----------------------------------------------------------------------------
(* What the session does: the parse of its records (core/src/stores).       *)

Event(type, body, err, of) == [type |-> type, body |-> body, err |-> err, of |-> of]
LastEvent == log[Len(log)]
HasResult(c) == \E i \in DOMAIN log : log[i].type = "result" /\ log[i].of = c

Grows(newLog) ==
    /\ grown < MaxGrowth
    /\ log' = newLog
    /\ grown' = grown + 1
    /\ UNCHANGED <<stamped, index, reader, searches>>

\* A chunk of a message the agent is still writing joins it.
Says(type, body) ==
    IF type = "agent" /\ log # <<>> /\ LastEvent.type = "agent"
    THEN Grows([log EXCEPT ![Len(log)].body = @ \cup body])
    ELSE Grows(Append(log, Event(type, body, FALSE, 0)))

Calls(body) == Grows(Append(log, Event("call", body, FALSE, 0)))

\* A tool's result comes, after other calls perhaps; a failure marks the
\* call.  A later update of a result replaces it where it stands.
Results(c, body, failed) ==
    /\ log[c].type = "call"
    /\ LET marked == [log EXCEPT ![c].err = @ \/ failed] IN
         IF HasResult(c)
         THEN Grows([i \in DOMAIN log |->
                       IF log[i].type = "result" /\ log[i].of = c
                       THEN [marked[i] EXCEPT !.body = body, !.err = @ \/ failed]
                       ELSE marked[i]])
         ELSE Grows(Append(marked, Event("result", body, failed, c)))

SessionGoesOn ==
    \/ Says("user", SearchWords)
    \/ Calls({})
    \/ \E body \in {{}, SearchWords} :
          \/ Says("agent", body)
          \/ \E c \in DOMAIN log, failed \in BOOLEAN : Results(c, body, failed)

-----------------------------------------------------------------------------
(* Requests: SessionTimeline.scan, session_timeline, warm_timeline_search.  *)

IdleReader == [pc |-> "idle", events |-> <<>>, stamp |-> 0]

Parses(r) ==
    /\ reader[r].pc = "idle" /\ searches < MaxSearches
    /\ reader' = [reader EXCEPT ![r] = [pc |-> "parsed", events |-> log, stamp |-> 0]]
    /\ searches' = searches + 1
    /\ UNCHANGED <<log, grown, stamped, index>>

\* The stamp is read when the search is called, after the parse.
TakesStamp(r) ==
    /\ reader[r].pc = "parsed"
    /\ reader' = [reader EXCEPT ![r].pc = "stamped",
                                ![r].stamp = IF stamped THEN grown ELSE 0]
    /\ UNCHANGED <<log, grown, stamped, index, searches>>

\* matching_indexes, or ensure_indexed, under the lock.  All the index takes
\* from the query is whether it reads text (warm_timeline_search always
\* does); the answer is scanned from the index it leaves.
Searches(r, hay) ==
    /\ reader[r].pc = "stamped"
    /\ index' = Ensured(index, reader[r].events, reader[r].stamp, hay)
    /\ reader' = [reader EXCEPT ![r] = IdleReader]
    /\ UNCHANGED <<log, grown, stamped, searches>>

SearchInit ==
    /\ log = <<>> /\ grown = 0
    /\ stamped \in BOOLEAN
    /\ index = NoIndex
    /\ reader = [r \in Readers |-> IdleReader]
    /\ searches = 0

SearchNext ==
    \/ SessionGoesOn
    \/ \E r \in Readers :
         \/ Parses(r) \/ TakesStamp(r)
         \/ \E hay \in BOOLEAN : Searches(r, hay)

SearchSpec == SearchInit /\ [][SearchNext]_searchVars

-----------------------------------------------------------------------------
SearchTypeOK ==
    /\ \A i \in DOMAIN log : /\ log[i].body \subseteq SearchWords
                             /\ KindsOf(log[i]) \subseteq BagKinds
    /\ \A r \in Readers : reader[r].pc \in {"idle", "parsed", "stamped"}
    /\ \A i \in DOMAIN index.rows : index.rows[i].ready \in BOOLEAN
    /\ grown <= MaxGrowth

\* What a request for q is answered out of the index its search leaves.
Exact(r, q) == Scanned(index', q) = EventHits(reader[r].events, q)
Answers(r, q) == reader[r].pc = "stamped" /\ Searches(r, NeedsHay(q))

\* A search for text or for kinds of events answers what the query language
\* says of the very events the request parsed, whatever other requests made
\* of the shared index with older or newer parses, and whichever rows had
\* their text written before.
TextIsFound ==
    [][\A r \in Readers, q \in Queries :
         ("error" \notin Need(q) /\ Answers(r, q)) => Exact(r, q)]_searchVars

=============================================================================
