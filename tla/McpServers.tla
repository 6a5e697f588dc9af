----------------------------- MODULE McpServers -----------------------------
(***************************************************************************)
(* The MCP servers of one user: the handlers of api/routes/mcp.py, the     *)
(* table behind them (agent/mcp/repository.py) and what they keep in       *)
(* memory (MCPState in api/models.py): a config and a client per server,   *)
(* and one registry of bridged tools.                                      *)
(*                                                                         *)
(* A configuration is whether it is enabled and the request that defined   *)
(* it.  A request opens at most one client, which bears its name; list     *)
(* opens one per server.  All tools of a server are registered together.   *)
(***************************************************************************)
EXTENDS Integers, FiniteSets

CONSTANTS
    Names,          \* names of servers
    McpRequests,
    Kind,           \* Kind[q]: "add", "update", "enable", "disable", "remove" or "list"
    Name,           \* Name[q]: the server in the path or the body
    NewName,        \* NewName[q]: the name an update gives it
    McpCasts,       \* the sets of requests that overlap in one behaviour
    Stored,         \* names with a row at the start, from an earlier run of the server
    NoClient

Clients == McpRequests \X Names
Kinds(ks) == {q \in McpRequests : Kind[q] \in ks}
Config == [enabled : BOOLEAN, by : McpRequests \cup {NoClient}]

\* Only an update gives a server another name, and a server may have any name but those
\* of the stages of a list.
ASSUME McpAssumption ==
    /\ Kind \in [McpRequests -> {"add", "update", "enable", "disable", "remove", "list"}]
    /\ Name \in [McpRequests -> Names] /\ NewName \in [McpRequests -> Names]
    /\ \A q \in McpRequests : Kind[q] # "update" => NewName[q] = Name[q]
    /\ McpCasts \subseteq SUBSET McpRequests /\ Stored \subseteq Names
    /\ NoClient \notin McpRequests /\ NoClient \notin Clients /\ NoClient \notin Config \cup Names
    /\ Names \cap {"idle", "restoring", "done"} = {}

VARIABLES
    rows,       \* the table mcp_servers: name to configuration or NoClient
    configs,    \* mcp_state.configs
    clients,    \* mcp_state.clients
    tools,      \* the client that the registered tools of a server call
    connected,  \* clients connected and not closed
    mcpLock,    \* who holds mcp_state.lock
    mcpAt,      \* where a request is suspended
    read,       \* what it has read: a table, or a configuration
    mcpFailed,  \* a write to the table has failed
    mcpCast,    \* the requests of this behaviour
    overrun     \* history: names whose client gave way to another without being taken out

mcpVars == <<rows, configs, clients, tools, connected, mcpLock, mcpAt, read, mcpFailed, mcpCast, overrun>>
memory == <<configs, clients, tools>>

-----------------------------------------------------------------------------
At(q, kinds, where) == Kind[q] \in kinds /\ mcpAt[q] = where

Ends(q) == mcpAt' = [mcpAt EXCEPT ![q] = "done"]
Goes(q, where) == mcpAt' = [mcpAt EXCEPT ![q] = where]

Client(q, n) == <<q, n>>
Own(q) == Client(q, NewName[q])

\* remove_by_tag of one server, then _register_mcp_tool_schemas of another: what is
\* registered under its name stays.
Registered(cleared, n, c) ==
    LET kept == [m \in Names |-> IF m = cleared THEN NoClient ELSE tools[m]]
    IN  IF kept[n] = NoClient THEN [kept EXCEPT ![n] = c] ELSE kept

\* Something takes the place of the client that a name has.
PutOver(n) == overrun' = IF clients[n] = NoClient THEN overrun ELSE overrun \cup {n}

Unregistered(n) == [tools EXCEPT ![n] = NoClient]
Closed(c) == connected \ {c}

-----------------------------------------------------------------------------
(* add_server: the look comes before the lock, the connection under it *)

AddLook(q) ==
    /\ At(q, {"add"}, "idle")
    /\ IF configs[Name[q]] # NoClient THEN Ends(q) ELSE Goes(q, "locking")
    /\ UNCHANGED <<rows, memory, connected, mcpLock, read, mcpFailed, overrun>>

AddLock(q) ==
    /\ At(q, {"add"}, "locking") /\ mcpLock = NoClient
    /\ mcpLock' = q
    /\ Goes(q, "adding")
    /\ UNCHANGED <<rows, memory, connected, read, mcpFailed, overrun>>

AddConnects(q) ==
    /\ At(q, {"add"}, "adding")
    /\ connected' = connected \cup {Own(q)}
    /\ tools' = Registered(NoClient, Name[q], Own(q))
    /\ clients' = [clients EXCEPT ![Name[q]] = Own(q)]
    /\ configs' = [configs EXCEPT ![Name[q]] = [enabled |-> TRUE, by |-> q]]
    /\ PutOver(Name[q])
    /\ mcpLock' = NoClient
    /\ Goes(q, "saving")
    /\ UNCHANGED <<rows, read, mcpFailed>>

AddFails(q) ==
    /\ At(q, {"add"}, "adding")
    /\ mcpLock' = NoClient
    /\ Ends(q)
    /\ UNCHANGED <<rows, memory, connected, read, mcpFailed, overrun>>

\* save_mcp_server inserts or overwrites; its failure is only logged.
AddSave(q) ==
    /\ At(q, {"add"}, "saving")
    /\ \/ rows' = [rows EXCEPT ![Name[q]] = [enabled |-> TRUE, by |-> q]] /\ UNCHANGED mcpFailed
       \/ mcpFailed' = TRUE /\ UNCHANGED rows
    /\ Ends(q)
    /\ UNCHANGED <<memory, connected, mcpLock, read, overrun>>

-----------------------------------------------------------------------------
(* update_server and toggle_server: look, connect, write, and only then the lock *)

UpdateLook(q) ==
    /\ At(q, {"update"}, "idle")
    /\ IF configs[Name[q]] = NoClient THEN Ends(q) ELSE Goes(q, "reading")
    /\ UNCHANGED <<rows, memory, connected, mcpLock, read, mcpFailed, overrun>>

UpdateRead(q) ==
    /\ At(q, {"update"}, "reading")
    /\ read' = [read EXCEPT ![q] = rows[Name[q]]]
    /\ IF rows[Name[q]] = NoClient \/ (NewName[q] # Name[q] /\ rows[NewName[q]] # NoClient)
       THEN Ends(q)
       ELSE Goes(q, IF rows[Name[q]].enabled THEN "connecting" ELSE "writing")
    /\ UNCHANGED <<rows, memory, connected, mcpLock, mcpFailed, overrun>>

ToggleLook(q) ==
    /\ At(q, {"enable", "disable"}, "idle")
    /\ IF configs[Name[q]] = NoClient
       THEN Ends(q)
       ELSE Goes(q, IF Kind[q] = "enable" THEN "connecting" ELSE "writing")
    /\ UNCHANGED <<rows, memory, connected, mcpLock, read, mcpFailed, overrun>>

\* _connect_and_list_tools closes what it could not use.
Reconnect(q) ==
    /\ At(q, {"update", "enable"}, "connecting")
    /\ \/ connected' = connected \cup {Own(q)} /\ Goes(q, "writing")
       \/ Ends(q) /\ UNCHANGED connected
    /\ UNCHANGED <<rows, memory, mcpLock, read, mcpFailed, overrun>>

Wanted(q) ==
    IF Kind[q] = "update" THEN [enabled |-> read[q].enabled, by |-> q]
    ELSE [rows[Name[q]] EXCEPT !.enabled = (Kind[q] = "enable")]

\* update_mcp_server and set_mcp_server_enabled.
Writable(q) ==
    /\ rows[Name[q]] # NoClient
    /\ Kind[q] = "update" /\ NewName[q] # Name[q] => rows[NewName[q]] = NoClient

WriteRow(q) ==
    /\ At(q, {"update", "enable", "disable"}, "writing") /\ Writable(q)
    /\ rows' = [rows EXCEPT ![Name[q]] = NoClient, ![NewName[q]] = Wanted(q)]
    /\ read' = [read EXCEPT ![q] = Wanted(q)]
    /\ Goes(q, "swapping")
    /\ UNCHANGED <<memory, connected, mcpLock, mcpFailed, overrun>>

\* The row is gone, the new name taken, or the database fails: close the new client.
WriteRefused(q) ==
    /\ At(q, {"update", "enable", "disable"}, "writing")
    /\ mcpFailed' = (mcpFailed \/ Writable(q))
    /\ connected' = Closed(Own(q))
    /\ Ends(q)
    /\ UNCHANGED <<rows, memory, mcpLock, read, overrun>>

\* The old client is taken out and closed, which awaits, under the lock.
TakeOut(q) ==
    /\ At(q, {"update", "enable", "disable", "remove"}, "swapping") /\ mcpLock = NoClient
    /\ clients' = [clients EXCEPT ![Name[q]] = NoClient]
    /\ connected' = Closed(clients[Name[q]])
    /\ mcpLock' = q
    /\ Goes(q, "installing")
    /\ UNCHANGED <<rows, configs, tools, read, mcpFailed, overrun>>

\* A server that stays disabled loses its tools, and the client of its new name.
SwapDisabled(q) ==
    LET m == NewName[q] IN
    /\ At(q, {"update", "disable"}, "installing") /\ ~read[q].enabled
    /\ tools' = Unregistered(Name[q])
    /\ clients' = [clients EXCEPT ![m] = NoClient]
    /\ connected' = Closed(clients[m])
    /\ configs' = [configs EXCEPT ![Name[q]] = NoClient, ![m] = read[q]]
    /\ PutOver(m)
    /\ mcpLock' = NoClient
    /\ Ends(q)
    /\ UNCHANGED <<rows, read, mcpFailed>>

\* Mutant: the tools registered before are not removed first.
MutantSwapEnabled(q) ==
    LET m == NewName[q] IN
    /\ At(q, {"update", "enable"}, "installing") /\ read[q].enabled
    /\ tools' = Registered(NoClient, m, Own(q))
    /\ clients' = [clients EXCEPT ![m] = Own(q)]
    /\ configs' = [configs EXCEPT ![Name[q]] = NoClient, ![m] = read[q]]
    /\ PutOver(m)
    /\ mcpLock' = NoClient
    /\ Ends(q)
    /\ UNCHANGED <<rows, connected, read, mcpFailed>>

SwapEnabled(q) ==
    LET m == NewName[q] IN
    /\ At(q, {"update", "enable"}, "installing") /\ read[q].enabled
    /\ tools' = Registered(Name[q], m, Own(q))
    /\ clients' = [clients EXCEPT ![m] = Own(q)]
    /\ configs' = [configs EXCEPT ![Name[q]] = NoClient, ![m] = read[q]]
    /\ PutOver(m)
    /\ mcpLock' = NoClient
    /\ Ends(q)
    /\ UNCHANGED <<rows, connected, read, mcpFailed>>

-----------------------------------------------------------------------------
(* remove_server: memory first, then the table *)

RemoveLook(q) ==
    /\ At(q, {"remove"}, "idle")
    /\ IF configs[Name[q]] = NoClient THEN Ends(q) ELSE Goes(q, "swapping")
    /\ UNCHANGED <<rows, memory, connected, mcpLock, read, mcpFailed, overrun>>

RemoveMemory(q) ==
    /\ At(q, {"remove"}, "installing")
    /\ configs' = [configs EXCEPT ![Name[q]] = NoClient]
    /\ tools' = Unregistered(Name[q])
    /\ mcpLock' = NoClient
    /\ Goes(q, "deleting")
    /\ UNCHANGED <<rows, clients, connected, read, mcpFailed, overrun>>

RemoveRow(q) ==
    /\ At(q, {"remove"}, "deleting")
    /\ \/ rows' = [rows EXCEPT ![Name[q]] = NoClient] /\ UNCHANGED mcpFailed
       \/ mcpFailed' = TRUE /\ UNCHANGED rows
    /\ Ends(q)
    /\ UNCHANGED <<memory, connected, mcpLock, read, overrun>>

-----------------------------------------------------------------------------
(* list_servers: _restore_persisted_servers, one stored server after the other *)

RestoreRead(q) ==
    /\ At(q, {"list"}, "idle")
    /\ read' = [read EXCEPT ![q] = rows]
    /\ Goes(q, "restoring")
    /\ UNCHANGED <<rows, memory, connected, mcpLock, mcpFailed, overrun>>

\* What is left to restore; a server that is done is struck out of the copy.
Left(q) == {n \in Names : read[q][n] # NoClient}
Struck(q, n) == read' = [read EXCEPT ![q] = [@ EXCEPT ![n] = NoClient]]

\* The lock is held for no more than a look.
RestoreLook(q, n) ==
    /\ At(q, {"list"}, "restoring") /\ n \in Left(q) /\ mcpLock = NoClient
    /\ IF configs[n] = NoClient /\ read[q][n].enabled
       THEN Goes(q, n) /\ UNCHANGED <<configs, read>>
       ELSE /\ configs' = IF configs[n] = NoClient THEN [configs EXCEPT ![n] = read[q][n]] ELSE configs
            /\ Struck(q, n)
            /\ UNCHANGED mcpAt
    /\ UNCHANGED <<rows, clients, tools, connected, mcpLock, mcpFailed, overrun>>

\* Connected; whoever comes second closes the client it has opened.
Restore(q, n) ==
    /\ At(q, {"list"}, n) /\ mcpLock = NoClient
    /\ IF configs[n] # NoClient
       THEN UNCHANGED <<memory, connected>>
       ELSE /\ tools' = Registered(NoClient, n, Client(q, n))
            /\ clients' = [clients EXCEPT ![n] = Client(q, n)]
            /\ configs' = [configs EXCEPT ![n] = read[q][n]]
            /\ connected' = connected \cup {Client(q, n)}
    /\ Struck(q, n)
    /\ Goes(q, "restoring")
    /\ UNCHANGED <<rows, mcpLock, mcpFailed, overrun>>

RestoreFails(q, n) ==
    /\ At(q, {"list"}, n)
    /\ Struck(q, n)
    /\ Goes(q, "restoring")
    /\ UNCHANGED <<rows, memory, connected, mcpLock, mcpFailed, overrun>>

RestoreEnds(q) ==
    /\ At(q, {"list"}, "restoring") /\ Left(q) = {}
    /\ Ends(q)
    /\ UNCHANGED <<rows, memory, connected, mcpLock, read, mcpFailed, overrun>>

-----------------------------------------------------------------------------
\* The server has just started, or a list request has restored the rows.
McpStart(cast, loader) ==
    /\ rows = [n \in Names |-> IF n \in Stored THEN [enabled |-> TRUE, by |-> NoClient] ELSE NoClient]
    /\ LET loaded(n) == loader # NoClient /\ n \in Stored IN
       /\ configs = [n \in Names |-> IF loaded(n) THEN rows[n] ELSE NoClient]
       /\ clients = [n \in Names |-> IF loaded(n) THEN Client(loader, n) ELSE NoClient]
       /\ connected = {Client(loader, n) : n \in {m \in Names : loaded(m)}}
    /\ tools = clients
    /\ mcpLock = NoClient /\ mcpFailed = FALSE
    /\ mcpAt = [q \in McpRequests |-> IF q \in cast THEN "idle" ELSE "done"]
    /\ read = [q \in McpRequests |-> NoClient]
    /\ mcpCast = cast /\ overrun = {}

McpInit == \E cast \in McpCasts, loader \in {NoClient} \cup Kinds({"list"}) : McpStart(cast, loader)

Add(q) == AddLook(q) \/ AddLock(q) \/ AddConnects(q) \/ AddFails(q) \/ AddSave(q)
Change(q) == \/ UpdateLook(q) \/ UpdateRead(q) \/ ToggleLook(q) \/ Reconnect(q) \/ WriteRow(q)
             \/ WriteRefused(q) \/ TakeOut(q) \/ SwapDisabled(q) \/ SwapEnabled(q)
Delete(q) == RemoveLook(q) \/ RemoveMemory(q) \/ RemoveRow(q)
List(q) == RestoreRead(q) \/ RestoreEnds(q)
           \/ \E n \in Names : RestoreLook(q, n) \/ Restore(q, n) \/ RestoreFails(q, n)

McpNext ==
    /\ \E q \in McpRequests : Add(q) \/ Change(q) \/ Delete(q) \/ List(q)
    /\ UNCHANGED mcpCast

McpSpec == McpInit /\ [][McpNext]_mcpVars

-----------------------------------------------------------------------------
(* What overlaps *)

\* What a request does to the name of a server: it brings it in, changes what bears it,
\* opens that again, takes it away.
Brings(q) == Kind[q] = "add" \/ (Kind[q] = "update" /\ NewName[q] # Name[q])
Alters(q, n) == Kind[q] \in {"update", "enable", "disable"} /\ Name[q] = n /\ NewName[q] = n
Reopens(q, n) == Alters(q, n) /\ Kind[q] # "disable"
Frees(q, n) == Name[q] = n /\ (Kind[q] = "remove" \/ NewName[q] # n)

Lists(cast) == \E r \in cast : Kind[r] = "list"
NoneFrees(cast, n) == \A r \in cast : ~Frees(r, n)

\* An add, and a rename, look at the names before they take the lock: no other request may
\* bring in the same name, or open it again once it was taken away, and no list restore it.
BringsAlone(cast, q) ==
    LET n == NewName[q] IN
    /\ \A r \in cast \ {q} : Brings(r) => NewName[r] # n
    /\ Lists(cast) => Kind[q] = "add" /\ n \notin Stored
    /\ Kind[q] = "update" => \A r \in cast : Kind[r] = "update" /\ Name[r] = n => NewName[r] = n
    /\ NoneFrees(cast, n) \/ \A r \in cast : ~Reopens(r, n)

Compatible(cast) == \A q \in cast : Brings(q) => BringsAlone(cast, q)

-----------------------------------------------------------------------------
(* Properties *)

McpTypeOK ==
    /\ rows \in [Names -> Config \cup {NoClient}] /\ configs \in [Names -> Config \cup {NoClient}]
    /\ clients \in [Names -> Clients \cup {NoClient}] /\ tools \in [Names -> Clients \cup {NoClient}]
    /\ connected \subseteq Clients /\ mcpLock \in McpRequests \cup {NoClient} /\ mcpFailed \in BOOLEAN
    /\ mcpCast \subseteq McpRequests /\ overrun \subseteq Names

\* While nobody holds the lock, tools and clients agree on a client that is connected.
ToolsCallTheirClient ==
    mcpLock = NoClient => \A n \in Names \ overrun :
        /\ tools[n] = clients[n]
        /\ clients[n] # NoClient => clients[n] \in connected
        /\ clients[n] # NoClient <=> configs[n] # NoClient /\ configs[n].enabled

Holding(q) == Kind[q] \in {"update", "enable"} /\ mcpAt[q] \in {"writing", "swapping", "installing"}

\* A connection is the client of a server or in the hands of a request.
NoClientLeaks ==
    \A c \in connected : (\E n \in Names : clients[n] = c) \/ Holding(c[1]) \/ c[2] \in overrun

\* Whatever requests connect, write, rename and remove the same servers at a time, no tool calls
\* a closed client, no server is without its client and no connection is left that nobody will
\* close, but for a server that came up under a name after an add or a rename had found the name
\* free: the add, which looks no more once it has the lock, leaves its client open, and a rename
\* its tools.  That can happen only to requests which are not compatible: two that bring in one
\* name, an add or a rename and a list that restores it, or a change of it while it is taken away.
ClientsAgree ==
    /\ ToolsCallTheirClient /\ NoClientLeaks
    /\ Compatible(mcpCast) => overrun = {}
=============================================================================
