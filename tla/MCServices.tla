----------------------------- MODULE MCServices -----------------------------
(* Small instances of SubAgents, Sandboxes, McpServers, McpClient,         *)
(* AgentLoop, Background, Planning, SkillShelf, Memories and Artifacts for *)
(* TLC.  They share no state: part says which of them a behaviour is       *)
(* about, and the others rest in an initial state.                         *)
EXTENDS MCSubAgents, Sandboxes, McpServers, McpClient, AgentLoop, Background, Planning, SkillShelf, Memories, Artifacts

CONSTANTS step1, step2, v1, v2, v3, bundle, own, twin, c1, c2, n1, n2, add1, add2, upd, ren, on, off, rem, lst

VARIABLE part

McpKind == [r \in McpRequests |->
    CASE r \in {add1, add2} -> "add"    [] r \in {upd, ren} -> "update" [] r = on -> "enable"
      [] r = off -> "disable"           [] r = rem -> "remove"          [] r = lst -> "list"]
McpName == [r \in McpRequests |-> IF r = add2 THEN n2 ELSE n1]
McpNewName == [r \in McpRequests |-> IF r \in {add2, ren} THEN n2 ELSE n1]

\* Up to three requests.
AnyRequests == {c \in SUBSET McpRequests : Cardinality(c) <= 3}

TurnsOf == [web |-> 2, planner |-> 1, worker |-> 1]
IterationsOf == [web |-> 1, planner |-> 3, worker |-> 3]

\* Two plans in a turn; letters in a turn; and a turn after a cleanup that was cut short.
Delegated(steps) == [s \in Steps |-> IF s \in steps THEN "parallel_worker" ELSE "planner_owned"]
PlanScope(turns, plans, mail, declared, limits, strict) ==
    [turns |-> turns, plans |-> plans, workers |-> 2, mail |-> mail, declared |-> declared,
     limits |-> limits, strict |-> strict]
PlanScopes == {
    PlanScope(1, 2, 0, {Delegated({step1}), Delegated({step1, step2})}, 0..2, BOOLEAN),
    PlanScope(1, 1, 2, {Delegated({step1, step2})}, {2}, {FALSE}),
    PlanScope(2, 1, 1, {Delegated({step1})}, {1}, {FALSE})}

\* Three requests of any kind, about a bundled skill, one of the user, and one that goes to
\* the same directory.
ShelfAsks == <<<<"install", own>>, <<"uninstall", own>>, <<"enable", own>>, <<"disable", own>>, <<"list", own>>,
               <<"install", bundle>>, <<"uninstall", bundle>>, <<"enable", bundle>>, <<"disable", bundle>>,
               <<"install", twin>>>>
ShelfCasts == {[v \in Visits |-> ShelfAsks[CASE v = v1 -> a [] v = v2 -> b [] v = v3 -> c]] :
                  <<a, b, c>> \in {t \in (1..10) \X (1..10) \X (1..10) : t[1] <= t[2] /\ t[2] <= t[3]}}
FolderOf == [n \in SkillNames |-> IF n = twin THEN own ELSE n]

\* What a user says in two conversations, one of which compacts, or sends twice.
Script(says, compacts, again) == [says |-> says, compacts |-> compacts, again |-> again]
MemoryScripts == {
    Script(<<<<c1, "x">>, <<c2, "y">>>>, {c1}, FALSE), Script(<<<<c1, "x">>, <<c1, "y">>>>, {c1}, FALSE),
    Script(<<<<c1, "x">>, <<c2, "x">>>>, {}, FALSE), Script(<<<<c1, "x">>, <<Nothing, Nothing>>>>, {c1}, FALSE),
    Script(<<<<c1, "x">>>>, {}, TRUE), Script(<<>>, {}, FALSE)}

services == <<vars, sandboxVars, mcpVars, clientVars, loopVars, shellVars, noticeVars, teamVars, shelfVars, memoryVars, artifactVars, previewVars>>

\* Whoever is not among those that move rests.
Rests(who) ==
    /\ "agents" \in who => UNCHANGED vars
    /\ "sandboxes" \in who => UNCHANGED sandboxVars
    /\ "mcp" \in who => UNCHANGED mcpVars
    /\ "client" \in who => UNCHANGED clientVars
    /\ "loop" \in who => UNCHANGED loopVars
    /\ "shells" \in who => UNCHANGED shellVars
    /\ "notices" \in who => UNCHANGED noticeVars
    /\ "planning" \in who => UNCHANGED teamVars
    /\ "skills" \in who => UNCHANGED shelfVars
    /\ "memory" \in who => UNCHANGED memoryVars
    /\ "files" \in who => UNCHANGED artifactVars
    /\ "previews" \in who => UNCHANGED previewVars

Parts == {"agents", "sandboxes", "mcp", "client", "loop", "shells", "notices", "planning", "skills", "memory", "files", "previews"}

ServicesInit ==
    /\ part \in Parts
    /\ Init /\ SandboxInit /\ ClientInit /\ BackgroundInit /\ FilesInit /\ PreviewsInit
    /\ IF part = "planning" THEN PlanningInit ELSE PlanningStart(CHOOSE sc \in Scopes : TRUE)
    /\ IF part = "skills" THEN ShelfInit ELSE ShelfStart(CHOOSE asks \in Asks : TRUE)
    /\ IF part = "memory" THEN MemoryInit ELSE MemoryStart(Script(<<>>, {}, FALSE)) /\ \A s \in Storers : storer[s].value = "x"
    /\ IF part = "mcp" THEN McpInit ELSE McpStart({}, NoClient)
    /\ IF part = "loop" THEN LoopInit ELSE LoopStart("web")

ServicesNext ==
    /\ UNCHANGED part /\ Rests(Parts \ {part})
    /\ \/ part = "agents" /\ Next
       \/ part = "sandboxes" /\ SandboxNext
       \/ part = "mcp" /\ McpNext
       \/ part = "client" /\ ClientNext
       \/ part = "loop" /\ LoopNext
       \/ part = "shells" /\ (ShellTool \/ ShellProcess)
       \/ part = "notices" /\ \E n \in Notices : NoticeStep(n)
       \/ part = "planning" /\ PlanningNext
       \/ part = "skills" /\ ShelfNext
       \/ part = "memory" /\ MemoryNext
       \/ part = "files" /\ FilesNext
       \/ part = "previews" /\ PreviewsNext

ServicesSpec == ServicesInit /\ [][ServicesNext]_<<part, services>>
=============================================================================
