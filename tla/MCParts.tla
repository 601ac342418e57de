------------------------------- MODULE MCParts -------------------------------
(***************************************************************************)
(* The components whose properties are all of safety, for TLC.  On the     *)
(* server: the gateway, the cache with its lock, the database router, the  *)
(* registry of worker ids, the payment orders.  In the agent:              *)
(* conversations, a batch of tool calls, the client of an MCP server, the  *)
(* skill store, the memory engine, the index of a project's documents.     *)
(* They share no variable, so each initial state sets one of them in       *)
(* motion and leaves the others at rest.  The gateway is explored under    *)
(* four loads, the documents with failures or with prompts that read them. *)
(***************************************************************************)
EXTENDS Gateway, CacheLock, DbRouter, WorkerRegistry, PaymentOrders,
        Histories, ToolRuntime, SkillStore, MemoryEngine, McpClient, ProjectDocs

VARIABLE part   \* what is in motion

serviceVars == <<gwVars, cacheVars, routerVars, registryVars, orderVars>>
agentVars == <<history, runtimeVars, skillVars, engineVars, mcpVars, docVars>>
vars == <<part, serviceVars, agentVars>>

GatewayParts == {"breaker", "select", "windows", "admin"}
ServiceParts == GatewayParts \cup {"cache", "router", "registry", "orders"}
DocParts == {"docs", "prompts"}
AgentParts == DocParts \cup {"conversation", "tools", "skills", "engine", "mcp"}

MCLimit == [rpm |-> 2, tpm |-> 2, tenant |-> 2]
\* One unit, two (the whole window), and an estimate of zero.
MCCost == [r \in GwRequests |-> CASE r = "r1" -> 1 [] r = "r2" -> 2 [] OTHER -> 0]

MCMixes ==
    {[p \in Callers |-> "locked"], [p \in Callers |-> "buy"],
     [p \in Callers |-> CASE p = "a" -> "insert" [] p = "b" -> "user" [] OTHER -> "locked"]}

MCStatements ==
    {[q \in Queries |-> "select"],
     [q \in Queries |-> IF q = "q1" THEN "with_write" ELSE "locking"],
     [q \in Queries |-> IF q = "q1" THEN "with_inner_write" ELSE "write"]}

ToolCall(t, k, key, n) == [tool |-> t, kind |-> k, key |-> key, note |-> n]

\* Two updates of one document; a sensitive call among two documents; a call
\* judged under another's name and one that leaves plan mode; one that reads;
\* one that is always denied.  "a" and "b" are notes the list already has.
MCBatches ==
    {<<ToolCall("todo", "write", "f", "n1"), ToolCall("todo", "write", "f", "n2")>>,
     <<ToolCall("todo", "write", "f", "n1"), ToolCall("shell", "sensitive", "-", "n2"),
       ToolCall("todo", "write", "g", "a")>>,
     <<ToolCall("bg", "write", "-", "n1"), ToolCall("exit", "exit_plan", "-", "n2")>>,
     <<ToolCall("date", "read", "-", "b"), ToolCall("todo", "write", "f", "n1")>>,
     <<ToolCall("shell", "denied", "-", "n1")>>}

MCIdentity == [t \in {"todo", "shell", "date", "exit", "bg"} |-> IF t = "bg" THEN "shell" ELSE t]

\* One administrator of a tenant, and the system.
MCScope == [e \in Editors |-> {"t1"}]

MCOldList == <<"a", "b">>

\* One session of a project, two of another with different embeddings.
OneFile(x) == [n \in FileNames |-> IF n = "AGENTS.md" THEN x ELSE NoFile]
MCFiles == {OneFile("y"), [n \in FileNames |-> "x"]}
MCProjectOf == [s \in DocSessions |-> IF s = 1 THEN "p" ELSE "q"]
MCProfileOf == [s \in DocSessions |-> IF s = 3 THEN "B" ELSE "A"]

\* Where each component stands when it is not in motion.  Without a fallback
\* only the last step of a read differs; one read shows it.
AtRest ==
    /\ part # "cache" => \A p \in Callers : call[p].way = "buy"
    /\ part # "router" => fallback /\ \A q \in Queries : query[q].kind = "select"
    /\ fallback \/ \E q \in Queries : query[q].kind # "select"
    /\ part # "registry" => \A p \in IdServers : skew[p] = 0
    /\ part # "tools" => Len(calls) = 1
    /\ part \notin DocParts => file["p"]["AGENTS.md"] = "y"

Init ==
    /\ part \in ServiceParts \cup AgentParts
    /\ limiter = (part = "windows")
    /\ row = [c \in Channels |-> IF c = "c1" \/ part = "select" THEN "active" ELSE "none"]
    /\ GatewayInit /\ HistoryInit /\ EngineInit /\ OrdersInit /\ McpInit
    /\ DocsInit /\ file["p"] \in MCFiles /\ file["q"] = OneFile("x")
    /\ SkillInit /\ (part # "skills" => pkg = NoPackage)
    /\ CacheInit /\ RouterInit /\ RegistryInit /\ RuntimeInit /\ AtRest

\* Three failing requests for the breaker, two where channels or windows are
\* chosen from, one against the administrator.
Live == CASE part = "breaker" -> GwRequests
          [] part = "admin" -> {"r3"}
          [] OTHER -> {"r1", "r2"}

\* Writers matter where the callers differ; three alike only race for the lock.
AllAlike == \A p, q \in Callers : call[p].way = call[q].way

GatewayPart ==
    \/ \E r \in Live : RequestStep(r)
    \/ part = "admin" /\ (AdminStep \/ Replicate)
    \/ Expire

\* Nobody is late, so that every state is one where the ids must differ.
RegistryPart == RegistryNext /\ ~late'

\* The user switches at most one tool off or changes the mode once.
ToolPart ==
    /\ RuntimeNext
    /\ Cardinality(offTools') + (IF permMode' = "default" THEN 0 ELSE 1) <= 1
    /\ permMode # "default" => permMode' = permMode

\* One tab changes the package, and may be closed, while the other reads it.
\* What an undo could not restore or a closed tab has left is followed where
\* it concerns a built-in package.
SkillPart ==
    /\ tidy \/ system
    /\ ChangeStep("t") \/ CloseTab("t") \/ WriteOk \/ CheckFails \/ WriteFails
       \/ ReadStep("u")

\* The files of the first project change while the second, with a text that
\* may be the same, is indexed too; the third session has other embeddings and
\* only tries to store a memory.  Either calls fail, or the first session
\* searches.  At first the files of a project have one text, or it has one file.
DocsPart ==
    /\ DocsNext
    /\ file'["q"] = file["q"] /\ indexRun'.by # 3
    /\ \A s \in DocSessions \ {1} : prompt'[s] = NoPrompt
    /\ IF part = "docs"
       THEN prompt'[1] = NoPrompt /\ fileEdits' + docFaults' <= 2
       ELSE docFaults' = 0 /\ contract' # "B" /\ fileEdits' <= 1

ServiceStep ==
    \/ /\ part \in GatewayParts /\ GatewayPart
       /\ UNCHANGED <<cacheVars, routerVars, registryVars, orderVars>>
    \/ /\ part = "cache" /\ CacheNext /\ (AllAlike => db' = db)
       /\ UNCHANGED <<gwVars, routerVars, registryVars, orderVars>>
    \/ /\ part = "router" /\ RouterNext
       /\ UNCHANGED <<gwVars, cacheVars, registryVars, orderVars>>
    \/ /\ part = "registry" /\ RegistryPart
       /\ UNCHANGED <<gwVars, cacheVars, routerVars, orderVars>>
    \/ /\ part = "orders" /\ OrdersNext
       /\ UNCHANGED <<gwVars, cacheVars, routerVars, registryVars>>

AgentStep ==
    \/ /\ part = "conversation" /\ HistoryNext
       /\ UNCHANGED <<runtimeVars, skillVars, engineVars, mcpVars, docVars>>
    \/ /\ part = "tools" /\ ToolPart
       /\ UNCHANGED <<history, skillVars, engineVars, mcpVars, docVars>>
    \/ /\ part = "skills" /\ SkillPart
       /\ UNCHANGED <<history, runtimeVars, engineVars, mcpVars, docVars>>
    \/ /\ part = "engine" /\ EngineNext /\ writes' + mishaps' <= 5
       /\ UNCHANGED <<history, runtimeVars, skillVars, mcpVars, docVars>>
    \/ /\ part = "mcp" /\ McpNext
       /\ UNCHANGED <<history, runtimeVars, skillVars, engineVars, docVars>>
    \/ /\ part \in DocParts /\ DocsPart
       /\ UNCHANGED <<history, runtimeVars, skillVars, engineVars, mcpVars>>

Next ==
    /\ UNCHANGED part
    /\ \/ ServiceStep /\ UNCHANGED agentVars
       \/ AgentStep /\ UNCHANGED serviceVars

Spec == Init /\ [][Next]_vars

=============================================================================
