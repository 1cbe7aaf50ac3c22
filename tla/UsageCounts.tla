----------------------------- MODULE UsageCounts -----------------------------
(***************************************************************************)
(* The usage page of a session (anqa/session/usage_stats.py): what was     *)
(* configured at launch, read from several files, and what the timeline's  *)
(* tool calls come to: host tools, MCP servers with their methods and      *)
(* searches, and skills.                                                   *)
(***************************************************************************)
EXTENDS Naturals, SequencesExt

CONSTANTS
    Servers,  \* the MCP servers
    Methods,  \* their methods
    Skills,   \* the skills
    Launches, \* what the files may name
    MaxCalls  \* bound: tool calls and messages of the timeline

VARIABLES
    launch, \* what each file names: run.json, the toml files in order, the
            \* announcement, the mounted skills
    calls,  \* the timeline's tool calls and messages
    page    \* the usage page as last collected

usageVars == <<launch, calls, page>>

-----------------------------------------------------------------------------
\* _split_mcp_qualified: of a name without a server, the server is unknown.
NoServer == "?"
Unsorted == "_search"
SearchRow == "(search)"

Called(tool, server, method, failed) ==
    [tool |-> tool, server |-> server, method |-> method, failed |-> failed]
\* Of run.json, a toml file, the announcement: the servers and skills it names.
Capabilities == [mcp : SUBSET Servers, skills : SUBSET Skills, disabled : SUBSET Skills]
\* tool: "host" a built-in, "read" one whose path is a skill's (method), "use"
\* the bridge's call, "search" its search, "direct" a server's method by its
\* own name; "says" is a message that names the skill.
UsageEvents ==
    {Called("host", NoServer, "grep", f) : f \in BOOLEAN}
    \union {Called("read", NoServer, s, FALSE) : s \in Skills}
    \union {Called("use", s, m, f) : s \in Servers \union {NoServer}, m \in Methods,
                                     f \in BOOLEAN}
    \union {Called("search", NoServer, "words", FALSE)}
    \union {Called("direct", s, m, FALSE) : s \in Servers, m \in Methods}
    \union {Called("says", NoServer, s, FALSE) : s \in Skills}

\* Counts of a server and of no server are kept under these names; what the
\* files name are servers and skills.
ASSUME UsageAssumption ==
    /\ IsFiniteSet(Servers) /\ IsFiniteSet(Methods)
    /\ Servers \cap {NoServer, Unsorted, SearchRow} = {}
    /\ Launches \subseteq [run : Capabilities, toml : Seq(Capabilities),
                           announced : Capabilities, mounted : SUBSET Skills]

(* What was configured: the union of the files, but of the toml files the  *)
(* first that names a server or a disabled skill.                          *)
FirstToml ==
    LET naming == {i \in DOMAIN launch.toml : launch.toml[i].mcp \union launch.toml[i].disabled # {}}
    IN IF naming = {} THEN [mcp |-> {}, disabled |-> {}] ELSE launch.toml[Min(naming)]
McpConfigured == launch.run.mcp \union FirstToml.mcp \union launch.announced.mcp
SkillsConfigured == launch.run.skills \union launch.mounted \union launch.announced.skills

\* _categorize_tool.
Category(tool) == CASE tool \in {"use", "search"} -> "mcp_bridge"
                    [] tool = "direct" -> "mcp"
                    [] OTHER -> "builtin"
ToolCalls == {i \in DOMAIN calls : calls[i].tool # "says"}
CallsOf(category) == Cardinality({i \in ToolCalls : Category(calls[i].tool) = category})
HostCalls == CallsOf("builtin")
BridgeCalls == CallsOf("mcp_bridge")

-----------------------------------------------------------------------------
(* _McpCallAcc, over the timeline.                                         *)

Tallied == Servers \union {NoServer, Unsorted}
Acc0 == [methods |-> [s \in Tallied |-> [m \in Methods |-> 0]],
         uses |-> [s \in Tallied |-> 0],
         errors |-> [s \in Tallied |-> 0],
         searches |-> [s \in Tallied |-> 0]]
RecordMethod(acc, c) ==
    [acc EXCEPT !.methods[c.server][c.method] = @ + 1,
                !.uses[c.server] = @ + 1,
                !.errors[c.server] = @ + IF c.failed THEN 1 ELSE 0]
\* A search names words, never a server.
RecordSearch(acc, c) ==
    LET server == IF c.server = NoServer THEN Unsorted ELSE c.server
    IN [acc EXCEPT !.searches[server] = @ + 1]
Recorded(acc, c) ==
    CASE c.tool \in {"use", "direct"} -> RecordMethod(acc, c)
      [] c.tool = "search" -> RecordSearch(acc, c)
      [] OTHER -> acc
\* The pass after each call.
Recording ==
    LET pass[i \in 0 .. Len(calls)] ==
            IF i = 0 THEN Acc0 ELSE Recorded(pass[i - 1], calls[i])
    IN pass
McpCalls == Recording[Len(calls)]

ServerRow(server, acc) ==
    [server |-> server, configured |-> server \in McpConfigured,
     uses |-> acc.uses[server], methods |-> acc.methods[server],
     searches |-> acc.searches[server], errors |-> acc.errors[server]]
EmptyRow(server, searches) ==
    [server |-> server, configured |-> server \in McpConfigured, uses |-> 0,
     methods |-> [m \in Methods |-> 0], searches |-> searches, errors |-> 0]

\* Mutated: the searches of no server stay among the servers.
SeenServersAll(acc) ==
    (McpConfigured \union {s \in DOMAIN acc.uses : acc.uses[s] + acc.searches[s] > 0})
        \ {NoServer}
SeenServers(acc) ==
    (McpConfigured \union {s \in DOMAIN acc.uses : acc.uses[s] + acc.searches[s] > 0})
        \ {NoServer, Unsorted}
Orphans(acc) == acc.searches[NoServer] + acc.searches[Unsorted]
\* The searches of no server: the only one configured, else a row of theirs.
WithOrphans(rows, searches) ==
    IF searches = 0 THEN rows
    ELSE IF Cardinality(McpConfigured) # 1 THEN rows \union {EmptyRow(SearchRow, searches)}
    ELSE LET only == CHOOSE s \in McpConfigured : TRUE
             its == {r \in rows : r.server = only}
         IN (rows \ its)
            \union IF its = {} THEN {EmptyRow(only, searches)}
                   ELSE {[r EXCEPT !.searches = @ + searches] : r \in its}
McpServers ==
    LET acc == McpCalls
        used == {ServerRow(s, acc) : s \in SeenServers(acc)}
        rows == WithOrphans(used, Orphans(acc))
    IN rows \union {EmptyRow(s, 0) : s \in McpConfigured \ {r.server : r \in rows}}

(* Skills: reads of their file; a name in the transcript counts only when  *)
(* there is no read.                                                       *)
Reads(skill) ==
    Cardinality({i \in DOMAIN calls : calls[i].tool = "read" /\ calls[i].method = skill})
\* The transcript is the messages and the arguments of the calls.
Named(skill) == \E i \in DOMAIN calls : calls[i].method = skill
SkillRows ==
    {[skill |-> s, configured |-> s \in SkillsConfigured, reads |-> Reads(s),
      named |-> Named(s) /\ Reads(s) = 0] :
        s \in SkillsConfigured \union {k \in Skills : Reads(k) > 0}}

-----------------------------------------------------------------------------
NoPage == [upto |-> 0, host |-> 0, bridge |-> 0, servers |-> {}, skills |-> {}]
UsageInit == launch \in Launches /\ calls = <<>> /\ page = NoPage
AgentCalls(c) == /\ Len(calls) < MaxCalls
                 /\ calls' = Append(calls, c)
                 /\ UNCHANGED <<launch, page>>
\* collect_session_usage, of the timeline as far as it goes.
Collects == /\ page' = [upto |-> Len(calls), host |-> HostCalls, bridge |-> BridgeCalls,
                        servers |-> McpServers, skills |-> SkillRows]
            /\ UNCHANGED <<launch, calls>>
UsageNext == Collects \/ \E c \in UsageEvents : AgentCalls(c)
UsageSpec == UsageInit /\ [][UsageNext]_usageVars

-----------------------------------------------------------------------------
\* Variables have the shape the actions rely on.
UsageTypeOK ==
    /\ ToSet(calls) \subseteq UsageEvents
    /\ {launch.run, launch.announced} \union ToSet(launch.toml) \subseteq Capabilities
    /\ launch.mounted \subseteq Skills

\* The page counts every call once: host tools, bridge and direct calls add up
\* to the tool calls; the servers' rows, each server once, have every use of a
\* named server, and every search is on exactly one row; a read skill is loaded.
Total(f) == MapThenSumSet(LAMBDA x : f[x], DOMAIN f)
Made(n, tools) == {i \in 1 .. n : calls[i].tool \in tools}
CallsAreConserved ==
    LET n == page.upto
        named == {i \in Made(n, {"use", "direct"}) : calls[i].server # NoServer}
    IN /\ page.host + page.bridge + Cardinality(Made(n, {"direct"}))
            = Cardinality((1 .. n) \ Made(n, {"says"}))
       /\ \A r, q \in page.servers : r.server = q.server => r = q
       /\ Total([r \in page.servers |-> r.uses]) = Cardinality(named)
       /\ Total([r \in page.servers |-> r.searches]) = Cardinality(Made(n, {"search"}))
       /\ \A r \in page.servers :
             /\ Total([m \in Methods |-> r.methods[m]]) = r.uses
             /\ r.server \in Servers \union {SearchRow}
       /\ \A i \in Made(n, {"read"}) :
             \E r \in page.skills : r.skill = calls[i].method /\ r.reads > 0
=============================================================================
