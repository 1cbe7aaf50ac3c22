--------------------------- MODULE ControlServer ---------------------------
(***************************************************************************)
(* The owner's end of the control socket (control/server.py) with its      *)
(* clients (control/client.py): one coroutine per connection that reads a  *)
(* request, runs it, answers and then tells everyone, on one event loop.   *)
(* A write is a new version of a session, the catalog's row shows some     *)
(* version, a notification names a session and makes its reader list.      *)
(* A connection is used until it ends; a client that reconnects is another *)
(* member of Askers or Listeners, or the same one after its coroutine ends.*)
(***************************************************************************)
EXTENDS Naturals, FiniteSets, SequencesExt

CONSTANTS
    Askers,       \* connections of ControlClient: one call at a time
    Listeners,    \* connections of listen_control_notifications
    Joined,       \* those that start connected, their first request done
    Catalog,      \* the sessions, in the order a call names them
    Directories,  \* those whose locator is a directory
    Gate,         \* HEAVY_IO_CONCURRENCY
    Pipe,         \* lines a stream holds before drain() waits
    Calls,        \* per asker: the methods it calls
    MaxCalls,     \* bound: requests of each client
    MaxFaults,    \* bound: clients that stick, leave or give up, calls that fail
    Nobody

Clients == Askers \cup Listeners
Sessions == ToSet(Catalog)
Poll == "poll"
ASSUME ClientsAssumption == {Poll, Nobody} \cap Clients = {}

VARIABLES
    link,     \* per client: "off", "up", or "cut" (closed by the owner, still flushing)
    inbox,    \* per client: requests written and not read
    lines,    \* per client: lines of the owner not read
    waits,    \* per client: the id _exchange reads for, 0 when it does not read
    stuck,    \* clients that stopped reading
    hand,     \* the coroutine of each connection, and _stamp_poll
    loop,     \* the coroutine the event loop runs, until it awaits what is not there
    writers,  \* _writers, the broadcast set
    empty,    \* session/import dropped the cached rows
    stored,   \* per session: the version on disk
    listed,   \* per session: the version its cached row shows
    seen,     \* per client: the sessions its last list showed as they are
    due,      \* per client: the sessions written while it was in the broadcast set
    called, faults

clientVars == <<link, inbox, lines, waits, stuck>>
catalogVars == <<empty, stored, listed, seen, due>>
serverVars == <<clientVars, hand, loop, writers, catalogVars, called, faults>>

Heavy == {"list", "tags", "import"}
Waiting == [pc |-> "read", call |-> "none", id |-> 0, about |-> <<>>, to |-> {}, at |-> Nobody]
Answer(id) == [kind |-> "answer", by |-> Nobody, id |-> id]
News(h) == [kind |-> "news", by |-> h, id |-> hand[h].id]

ServerInit ==
    /\ link = [c \in Clients |-> IF c \in Joined THEN "up" ELSE "off"]
    /\ inbox = [c \in Clients |-> <<>>]
    /\ lines = [c \in Clients |-> <<>>]
    /\ waits = [c \in Clients |-> IF c \in Joined \cap Listeners THEN 1 ELSE 0]
    /\ stuck = {}
    /\ hand = [c \in Clients \cup {Poll} |-> Waiting]
    /\ loop = Nobody
    /\ writers = Joined
    /\ empty = FALSE
    /\ stored = [s \in Sessions |-> 0]
    /\ listed = stored
    /\ seen = [c \in Clients |-> {}]
    /\ due = [c \in Clients |-> {}]
    /\ called = waits
    /\ faults = 0

(***************************************************************************)
(* Clients.                                                                *)
(***************************************************************************)
\* Nothing refers to the connection c had: the next one is another writer.
Forgotten(c) ==
    /\ hand[c] = Waiting
    /\ inbox[c] = <<>>
    /\ c \notin writers
    /\ \A h \in DOMAIN hand : c \notin hand[h].to

\* request and _exchange: connect when there is no stream, write one line,
\* read until its answer. A listener sends initialize and reads for ever.
Call(c) ==
    /\ c \notin stuck
    /\ waits[c] = 0
    /\ link[c] = "off" => Forgotten(c)
    /\ called[c] < MaxCalls
    /\ called' = [called EXCEPT ![c] = @ + 1]
    /\ \E call \in IF c \in Listeners THEN {"initialize"} ELSE Calls[c] :
        inbox' = [inbox EXCEPT ![c] = Append(@, [call |-> call, id |-> called'[c]])]
    /\ waits' = [waits EXCEPT ![c] = called'[c]]
    /\ link' = [link EXCEPT ![c] = IF @ = "off" THEN "up" ELSE @]
    /\ UNCHANGED <<lines, stuck, hand, loop, writers, catalogVars, faults>>

\* Catalog rows as a list finds them: dropped rows are scanned.
Scanned ==
    /\ listed' = IF empty THEN stored ELSE listed
    /\ empty' = FALSE

\* A caller skips every line that is not the answer to its request; a listener
\* takes a line with a method for a notification and lists again.
Ends(c, line) == c \in Askers /\ line.kind = "answer" /\ line.id = waits[c]

ReadsLines(c) ==
    /\ c \notin stuck
    /\ waits[c] # 0
    /\ lines[c] # <<>>
    /\ LET last == SelectInSeq(lines[c], LAMBDA line : Ends(c, line)) IN
        /\ lines' = [lines EXCEPT ![c] = IF last = 0 THEN <<>> ELSE SubSeq(@, last + 1, Len(@))]
        /\ waits' = [waits EXCEPT ![c] = IF last = 0 THEN @ ELSE 0]
    /\ IF c \in Listeners /\ \E i \in DOMAIN lines[c] : lines[c][i].kind = "news"
       THEN Scanned /\ seen' = [seen EXCEPT ![c] = {s \in Sessions : listed'[s] = stored[s]}]
       ELSE UNCHANGED <<listed, empty, seen>>
    /\ UNCHANGED <<link, inbox, stuck, hand, loop, writers, stored, due, called, faults>>

\* close(): what was written to the owner is still there for it to read.
Shut(c) ==
    /\ link' = [link EXCEPT ![c] = "off"]
    /\ lines' = [lines EXCEPT ![c] = <<>>]
    /\ waits' = [waits EXCEPT ![c] = 0]
    /\ stuck' = stuck \ {c}
    /\ due' = [due EXCEPT ![c] = {}]
    /\ UNCHANGED <<inbox, hand, loop, writers, empty, stored, listed, seen, called>>

\* End of file, the owner having closed the stream.
ReadsEnd(c) ==
    /\ c \notin stuck
    /\ waits[c] # 0
    /\ link[c] = "cut"
    /\ lines[c] = <<>>
    /\ Shut(c)
    /\ UNCHANGED faults

Faulty == faults < MaxFaults /\ faults' = faults + 1

\* A read deadline, the end of a one-shot client or of its process.
Leaves(c) == link[c] # "off" /\ Faulty /\ Shut(c)

\* A cancelled call leaves the stream open and its answer under way.
GivesUp(c) ==
    /\ c \in Askers \ stuck
    /\ waits[c] # 0
    /\ Faulty
    /\ waits' = [waits EXCEPT ![c] = 0]
    /\ UNCHANGED <<link, inbox, lines, stuck, hand, loop, writers, catalogVars, called>>

\* A client process that stops.
Sticks(c) ==
    /\ link[c] = "up"
    /\ c \notin stuck
    /\ Faulty
    /\ stuck' = stuck \cup {c}
    /\ UNCHANGED <<link, inbox, lines, waits, hand, loop, writers, catalogVars, called>>

(***************************************************************************)
(* A connection's coroutine. The loop runs one coroutine until it awaits a *)
(* line, the gate, a thread or a full stream; threads and clients run on.  *)
(***************************************************************************)
Runs(h) == loop \in {Nobody, h}
Goes(h, next) == hand' = [hand EXCEPT ![h] = next]
Awaits == loop' = Nobody
Keeps(h) == loop' = h

\* readline: the next request.
ReadsRequest(c) ==
    /\ loop = Nobody
    /\ hand[c].pc = "read"
    /\ inbox[c] # <<>>
    /\ LET request == Head(inbox[c]) IN
        Goes(c, [Waiting EXCEPT !.call = request.call, !.id = request.id,
                    !.pc = CASE request.call = "initialize" -> "answer"
                             [] request.call \in Heavy -> "gate"
                             [] OTHER -> "work"])
    /\ inbox' = [inbox EXCEPT ![c] = Tail(@)]
    /\ UNCHANGED <<link, lines, waits, stuck, loop, writers, catalogVars, called, faults>>

\* readline: end of file. A stream the owner closed may end before all is read.
HangsUp(c) ==
    /\ loop = Nobody
    /\ hand[c].pc = "read"
    /\ \/ link[c] = "off" /\ inbox[c] = <<>> /\ c \in writers
       \/ link[c] = "cut" /\ lines[c] = <<>>
    /\ writers' = writers \ {c}
    /\ inbox' = [inbox EXCEPT ![c] = <<>>]
    /\ UNCHANGED <<link, lines, waits, stuck, hand, loop, catalogVars, called, faults>>

Inside == {c \in Clients : hand[c].pc = "work" /\ hand[c].call \in Heavy}

\* async with self._heavy_sem.
Room == Cardinality(Inside) < Gate

Enters(c) ==
    /\ loop = Nobody
    /\ hand[c].pc = "gate"
    /\ Room
    /\ Goes(c, [hand[c] EXCEPT !.pc = "work"])
    /\ UNCHANGED <<clientVars, loop, writers, catalogVars, called, faults>>

Working(c, call) == hand[c].pc = "work" /\ hand[c].call = call

\* A new version of s on disk, due to everyone in the broadcast set.
Stores(s) ==
    /\ stored' = [stored EXCEPT ![s] = @ + 1]
    /\ seen' = [c \in Clients |-> seen[c] \ {s}]
    /\ due' = [c \in Clients |-> IF c \in writers /\ link[c] = "up" THEN due[c] \cup {s} ELSE due[c]]

Wrote(c) == {change.session : change \in ToSet(hand[c].about)}
WithChange(c, s) == Append(hand[c].about, [session |-> s, version |-> stored[s] + 1])

\* tags_set: save_tags for the next of its sessions.
TagsOne(c) ==
    /\ Working(c, "tags")
    /\ LET next == Len(hand[c].about) + 1 IN
        /\ Stores(Catalog[next])
        /\ Goes(c, [hand[c] EXCEPT !.about = WithChange(c, Catalog[next]),
                                   !.pc = IF next = Len(Catalog) THEN "after" ELSE "work"])
    /\ UNCHANGED <<clientVars, loop, writers, empty, listed, called, faults>>

\* notes/upsert and notes/delete, outside the gate.
WritesNotes(c, s) ==
    /\ Working(c, "notes")
    /\ s \in Directories
    /\ Stores(s)
    /\ Goes(c, [hand[c] EXCEPT !.about = WithChange(c, s), !.pc = "after"])
    /\ UNCHANGED <<clientVars, loop, writers, empty, listed, called, faults>>

\* session/import: the rows are dropped, the next reader scans.
Imports(c, s) ==
    /\ loop = Nobody
    /\ Working(c, "import")
    /\ Stores(s)
    /\ empty' = TRUE
    /\ Goes(c, [hand[c] EXCEPT !.about = WithChange(c, s), !.pc = "answer"])
    /\ UNCHANGED <<clientVars, loop, writers, listed, called, faults>>

\* session/list, in its thread.
Lists(c) ==
    /\ Working(c, "list")
    /\ Scanned
    /\ Goes(c, [hand[c] EXCEPT !.pc = "answer"])
    /\ UNCHANGED <<clientVars, loop, writers, stored, seen, due, called, faults>>

\* A missing session, a conflict or an OSError: an error answer, no refresh and
\* nothing to tell, whatever tags/set has already written.
Fails(c) ==
    /\ hand[c].pc = "work"
    /\ Faulty
    /\ Goes(c, [hand[c] EXCEPT !.pc = "answer", !.about = <<>>])
    /\ UNCHANGED <<clientVars, loop, writers, catalogVars, called>>

\* The rows a write is followed by.
Rows(c) == Wrote(c) \cap Directories

\* refresh_rows after a tags or notes write, on the loop. With the rows dropped
\* it is the whole scan, and the loop stands until that ends.
Refreshes(c) ==
    /\ loop = Nobody
    /\ hand[c].pc = "after"
    /\ Goes(c, [hand[c] EXCEPT !.pc = IF empty /\ Rows(c) # {} THEN "scan" ELSE "answer"])
    /\ listed' = [s \in Sessions |-> IF s \in Rows(c) /\ ~empty THEN stored[s] ELSE listed[s]]
    /\ Keeps(c)
    /\ UNCHANGED <<clientVars, writers, empty, stored, seen, due, called, faults>>

Scans(c) ==
    /\ hand[c].pc = "scan"
    /\ Scanned
    /\ Goes(c, [hand[c] EXCEPT !.pc = "answer"])
    /\ UNCHANGED <<clientVars, loop, writers, stored, seen, due, called, faults>>

(***************************************************************************)
(* _send: write() and drain(). A stream the owner closed takes lines while *)
(* it has some to flush; one that is gone takes none and never waits.      *)
(***************************************************************************)
Takes(c) == link[c] = "up" \/ (link[c] = "cut" /\ lines[c] # <<>>)
Puts(to, line) ==
    lines' = [c \in Clients |-> IF c \in to /\ Takes(c) THEN Append(lines[c], line) ELSE lines[c]]
Drained(c) == link[c] = "off" \/ Len(lines[c]) <= Pipe

Answers(c) ==
    /\ Runs(c)
    /\ hand[c].pc = "answer"
    /\ Puts({c}, Answer(hand[c].id))
    /\ Goes(c, [hand[c] EXCEPT !.pc = "answered"])
    /\ loop' = IF link[c] = "off" \/ Len(lines'[c]) <= Pipe THEN c ELSE Nobody
    /\ UNCHANGED <<link, inbox, waits, stuck, writers, catalogVars, called, faults>>

\* The writers a notification is for: those whose first request is done. The
\* mutant tells every open connection.
Connected == {c \in Clients : link[c] = "up"}
Audience == writers

\* The answer is out, or everyone has been told of a change: the next one is for
\* the writers of now.
Onward(h) ==
    /\ Runs(h)
    /\ \/ hand[h].pc = "answered" /\ Drained(h)
       \/ hand[h].pc = "tell" /\ hand[h].to = {}

Announces(h) ==
    /\ Onward(h)
    /\ LET left == IF hand[h].pc = "tell" THEN Tail(hand[h].about) ELSE hand[h].about IN
        /\ left # <<>>
        /\ Goes(h, [hand[h] EXCEPT !.pc = "tell", !.about = left, !.to = Audience])
    /\ Keeps(h)
    /\ UNCHANGED <<clientVars, writers, catalogVars, called, faults>>

\* notify: a send that need not wait goes on to the next writer.
Ready(h) == {w \in hand[h].to : ~Takes(w) \/ Len(lines[w]) < Pipe}

Tells(h) ==
    /\ Runs(h)
    /\ hand[h].pc = "tell"
    /\ Ready(h) # {}
    /\ Puts(Ready(h), News(h))
    /\ Goes(h, [hand[h] EXCEPT !.to = @ \ Ready(h)])
    /\ Keeps(h)
    /\ UNCHANGED <<link, inbox, waits, stuck, writers, catalogVars, called, faults>>

\* drain() of a full stream gives the loop away; the mutant blocks it.
Blocks(h) == Keeps(h)
Drains(h) == Awaits

TellsFull(h) ==
    /\ Runs(h)
    /\ hand[h].pc = "tell"
    /\ \E w \in hand[h].to \ Ready(h) :
        /\ Puts({w}, News(h))
        /\ Goes(h, [hand[h] EXCEPT !.pc = "drain", !.to = @ \ {w}, !.at = w])
    /\ Drains(h)
    /\ UNCHANGED <<link, inbox, waits, stuck, writers, catalogVars, called, faults>>

TellsOn(h) ==
    /\ loop = Nobody
    /\ hand[h].pc = "drain"
    /\ Drained(hand[h].at)
    /\ Goes(h, [hand[h] EXCEPT !.pc = "tell", !.at = Nobody])
    /\ Keeps(h)
    /\ UNCHANGED <<clientVars, writers, catalogVars, called, faults>>

\* Who is still to be told after a send timed out; the mutant ends the broadcast.
NobodyElse(h) == {}
Others(h) == hand[h].to

\* NOTIFY_TIMEOUT_SECONDS: the writer leaves the set and its stream is closed.
TimesOut(h) ==
    /\ loop = Nobody
    /\ hand[h].pc = "drain"
    /\ LET w == hand[h].at IN
        /\ writers' = writers \ {w}
        /\ link' = [link EXCEPT ![w] = IF @ = "up" THEN "cut" ELSE @]
    /\ Goes(h, [hand[h] EXCEPT !.pc = "tell", !.to = Others(h), !.at = Nobody])
    /\ Keeps(h)
    /\ UNCHANGED <<inbox, lines, waits, stuck, catalogVars, called, faults>>

Finished(h) == Onward(h) /\ Len(hand[h].about) = IF hand[h].pc = "tell" THEN 1 ELSE 0

\* The request is done: only now does its connection join the broadcast set.
Joins(c) ==
    /\ Finished(c)
    /\ Goes(c, Waiting)
    /\ writers' = writers \cup {c}
    /\ Awaits
    /\ UNCHANGED <<clientVars, catalogVars, called, faults>>

(***************************************************************************)
(* _stamp_poll: the rows whose stamp moved are read again and announced.   *)
(* It comes every 5 seconds: here, between the requests (how it meets a    *)
(* write in the cache is CatalogCache's).                                  *)
(***************************************************************************)
Polls ==
    /\ loop = Nobody
    /\ ~empty
    /\ hand[Poll] = Waiting
    /\ \A c \in Clients : hand[c].pc \in {"read", "answered"}
    /\ listed # stored
    /\ listed' = stored
    /\ LET moved == SelectSeq(Catalog, LAMBDA s : listed[s] # stored[s]) IN
        Goes(Poll, [Waiting EXCEPT !.pc = "tell", !.to = Audience,
                       !.about = [i \in DOMAIN moved |-> [session |-> moved[i], version |-> stored[moved[i]]]]])
    /\ UNCHANGED <<clientVars, loop, writers, empty, stored, seen, due, called, faults>>

Polled ==
    /\ Finished(Poll)
    /\ Goes(Poll, Waiting)
    /\ Awaits
    /\ UNCHANGED <<clientVars, writers, catalogVars, called, faults>>

\* What the loop, the threads and a client that reads do when they can.
Serves(c) ==
    \/ ReadsRequest(c) \/ HangsUp(c) \/ Enters(c)
    \/ TagsOne(c) \/ (\E s \in Sessions : WritesNotes(c, s) \/ Imports(c, s))
    \/ Lists(c) \/ Refreshes(c) \/ Scans(c) \/ Answers(c) \/ Joins(c)
Notifies(h) == Announces(h) \/ Tells(h) \/ TellsFull(h) \/ TellsOn(h) \/ TimesOut(h)
Reads(c) == ReadsLines(c) \/ ReadsEnd(c)
Meets(c) == Call(c) \/ Leaves(c) \/ GivesUp(c) \/ Sticks(c) \/ Fails(c)

Proceeds ==
    \/ \E c \in Clients : Serves(c) \/ Reads(c)
    \/ \E h \in Clients \cup {Poll} : Notifies(h)
    \/ Polls
    \/ Polled
ServerNext == Proceeds \/ \E c \in Clients : Meets(c)

\* Coroutines run when they can, threads end, readers read, the poll comes round.
\* What proceeds comes to an end between two calls, so that fairness of the whole
\* leaves none of them out.
ServerFairness == WF_serverVars(Proceeds)
ServerSpec == ServerInit /\ [][ServerNext]_serverVars /\ ServerFairness

(***************************************************************************)
(* Properties.                                                             *)
(***************************************************************************)
Coroutine ==
    [pc : {"read", "gate", "work", "after", "scan", "answer", "answered", "tell", "drain"},
     call : Heavy \cup {"notes", "none", "initialize"}, id : 0..MaxCalls,
     about : Seq([session : Sessions, version : Nat]),
     to : SUBSET Clients, at : Clients \cup {Nobody}]

\* The state is well formed; no more heavy calls run than the gate lets in, and a
\* coroutine that scans has the loop.
ServerTypeOK ==
    /\ link \in [Clients -> {"off", "up", "cut"}]
    /\ waits \in [Clients -> 0..MaxCalls]
    /\ hand \in [Clients \cup {Poll} -> Coroutine]
    /\ writers \subseteq Clients
    /\ Cardinality(Inside) <= Gate
    /\ \A c \in Clients : hand[c].pc = "scan" => loop = c

\* What a client finds in its stream: no notification before the answer to the
\* first request (a one-shot client takes the first line for its result), and
\* the notification of its own write only after the answer to it (it knows its
\* echo by the revision the answer gave it).
StreamOrder ==
    \A c \in Clients : link[c] = "up" =>
        /\ c \notin writers /\ lines[c] # <<>> => Head(lines[c]).kind = "answer"
        /\ \A i, j \in DOMAIN lines[c] :
               lines[c][i].by = c /\ lines[c][j].kind = "answer" /\ lines[c][i].id = lines[c][j].id => j < i

\* Calls come and go, and again and again every client that reads has its answer,
\* or the end of its stream, however many others have stopped reading.
CallsEnd == []<>(\A c \in Askers : waits[c] = 0 \/ c \in stuck)

\* The owner waits to answer a client that does not read.
Muted == \E c \in Clients : hand[c].pc = "answered" /\ ~Drained(c)

\* A listener that reads comes to list every version written while it was in the
\* broadcast set, or its stream is closed: whoever else has stopped reading, and
\* though tags/set failed halfway.
Current(l) == due[l] \subseteq seen[l]
ListenersCatchUp == []<>(Muted \/ \A l \in Listeners : Current(l) \/ link[l] # "up" \/ l \in stuck)
=============================================================================
