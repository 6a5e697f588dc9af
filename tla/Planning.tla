------------------------------ MODULE Planning -------------------------------
(***************************************************************************)
(* What a planner turn declares and delegates (PlannerState with the tools *)
(* plan_create, agent_spawn and agent_wait and the policy of an explicit   *)
(* planner turn), and the bus its workers write to each other on           *)
(* (AgentMessageBus with agent_send and agent_receive).  How the workers   *)
(* run is in SubAgents; here a worker runs and ends.                       *)
(*                                                                         *)
(* The tools change the plan and the bus without an await in between.      *)
(***************************************************************************)
EXTENDS Integers, Sequences, FiniteSets

CONSTANTS
    Steps,      \* names of plan steps
    Works,      \* normalised role and task of a worker
    Scopes      \* bounds: records of the turns, plans of a turn, workers of all turns and
                \* messages since the bus was cleared there may be, the plans declared, the
                \* spawn limits of the execution shapes (0: no workers) and strict, the kinds
                \* of turn

ASSUME PlanningAssumption ==
    \A sc \in Scopes : sc.limits \subseteq Nat /\ sc.strict \subseteq BOOLEAN

VARIABLES
    scope,
    teamStage,      \* of the turn: "idle", "runs", "cleaning"
    allowance,       \* limit: max_worker_spawns; strict: an explicit turn; nudges it was given
    plan,       \* the declared steps, [name -> execution type]; register_steps ran: hasPlan
    hasPlan,
    agentOf,    \* _agent_ids_by_spawned_step_name
    waited,     \* _waited_agent_ids
    worker,     \* by id: its work, task state, whether it has a result and a config
    mailbox,    \* _mailboxes
    posted,     \* _broadcast
    heard,      \* _broadcast_cursor_by_agent
    born,       \* history: <<turn, plan>> of each worker
    got,        \* what each worker received
    letters,       \* what was sent since the bus was cleared
    epoch,      \* <<turn, plan>>
    leftover    \* a cleanup was interrupted, and none has completed since

declaredVars == <<plan, hasPlan, agentOf, waited>>
busVars == <<mailbox, posted, heard, got, letters>>
teamVars == <<scope, teamStage, allowance, declaredVars, worker, born, busVars, epoch, leftover>>

-----------------------------------------------------------------------------
Workers == DOMAIN worker
Known == {a \in Workers : worker[a].known}
Active == {a \in Workers : worker[a].at = "runs"}
EndedTasks == {a \in Workers : worker[a].at = "over"}
Extended(f, a, v) == [b \in DOMAIN f \cup {a} |-> IF b = a THEN v ELSE f[b]]

\* PlannerState.register_steps refuses a plan that names a step twice, before any change.
PlanCreate(p) ==
    /\ teamStage = "runs" /\ epoch[2] < scope.plans
    /\ plan' = p /\ hasPlan' = TRUE /\ agentOf' = <<>> /\ waited' = {}
    /\ epoch' = [epoch EXCEPT ![2] = @ + 1]
    /\ UNCHANGED <<scope, teamStage, allowance, worker, born, busVars, leftover>>

\* validate_spawn and validate_new_spawn: a step that has its agent keeps it.
MayDelegate(s) ==
    /\ hasPlan /\ s \in DOMAIN plan /\ plan[s] # "planner_owned" /\ s \notin DOMAIN agentOf
    /\ Cardinality(DOMAIN agentOf) < allowance.limit

\* redundant_active_agent_id: the first worker with the same work and no result, be it of
\* an earlier turn whose cleanup was interrupted.
SameWork(work) == {a \in Known : worker[a].work = work /\ ~worker[a].resolved}

Delegates(s, a) == agentOf' = Extended(agentOf, s, a)

SpawnNew(s, work, redundantly) ==
    /\ teamStage = "runs" /\ MayDelegate(s) /\ Len(worker) < scope.workers
    /\ redundantly \/ SameWork(work) = {}
    /\ Delegates(s, Len(worker) + 1)
    /\ worker' = Append(worker, [work |-> work, at |-> "runs", resolved |-> FALSE, known |-> TRUE])
    /\ born' = Extended(born, Len(worker) + 1, epoch) /\ got' = Extended(got, Len(worker) + 1, <<>>)
    /\ UNCHANGED <<scope, teamStage, allowance, plan, hasPlan, waited, mailbox, posted, heard, letters, epoch, leftover>>

SpawnRedundant(s, work) ==
    /\ teamStage = "runs" /\ MayDelegate(s) /\ SameWork(work) # {}
    /\ Delegates(s, CHOOSE a \in SameWork(work) : \A b \in SameWork(work) : a <= b)
    /\ UNCHANGED <<scope, teamStage, allowance, plan, hasPlan, waited, worker, born, busVars, epoch, leftover>>

Resolves(ids) == worker' = [a \in Workers |-> IF a \in ids THEN [worker[a] EXCEPT !.resolved = TRUE] ELSE worker[a]]

\* agent_wait finds a result for whoever has ended.
AgentWaitReturns(ids) ==
    /\ teamStage = "runs" /\ ids # {} /\ ids \subseteq Known \cap EndedTasks
    /\ Resolves(ids) /\ waited' = waited \cup ids
    /\ UNCHANGED <<scope, teamStage, allowance, plan, hasPlan, agentOf, born, busVars, epoch, leftover>>

-----------------------------------------------------------------------------
(* The bus *)

Everyone == 0                           \* agent_send to "all"
Letter(a, b) == [from |-> a, to |-> b, n |-> Len(letters) + 1]
Sends(a, b) == a \in Active /\ Len(letters) < scope.mail /\ letters' = Append(letters, Letter(a, b))

\* A worker that is not there, or is done, gets none.
SendToAgent(a, b) ==
    /\ Sends(a, b) /\ b \in {c \in Known : worker[c].at # "over"}
    /\ mailbox' = Extended(mailbox, b, (IF b \in DOMAIN mailbox THEN mailbox[b] ELSE <<>>) \o <<Letter(a, b)>>)
    /\ UNCHANGED <<scope, teamStage, allowance, declaredVars, worker, born, posted, heard, got, epoch, leftover>>

Broadcast(a) ==
    /\ Sends(a, Everyone) /\ posted' = Append(posted, Letter(a, Everyone))
    /\ UNCHANGED <<scope, teamStage, allowance, declaredVars, worker, born, mailbox, heard, got, epoch, leftover>>

Cursor(a) == IF a \in DOMAIN heard THEN heard[a] ELSE 0
Direct(a) == IF a \in DOMAIN mailbox THEN mailbox[a] ELSE <<>>

\* SelectSeq for the letters of a set, as a function that a proof can look into.
Among(s, Letters) ==
    LET kept[i \in 0..Len(s)] ==
            IF i = 0 THEN <<>>
            ELSE IF s[i] \in Letters THEN Append(kept[i - 1], s[i]) ELSE kept[i - 1]
    IN  kept[Len(s)]

To(b) == [from : Nat, to : {b}, n : Nat]
NotFrom(a) == [from : Nat \ {a}, to : Nat, n : Nat]

\* Mutant: every broadcast is heard every time.
MutantUnheard(a) == Among(posted, NotFrom(a))

Unheard(a) == Among(SubSeq(posted, Cursor(a) + 1, Len(posted)), NotFrom(a))

Receive(a) ==
    /\ a \in Active
    /\ got' = [got EXCEPT ![a] = @ \o Direct(a) \o Unheard(a)]
    /\ mailbox' = [b \in DOMAIN mailbox \ {a} |-> mailbox[b]]
    /\ heard' = Extended(heard, a, Len(posted))
    /\ UNCHANGED <<scope, teamStage, allowance, declaredVars, worker, born, posted, letters, epoch, leftover>>

-----------------------------------------------------------------------------
(* Workers and turns *)

\* A cancelled task may end without a result.
WorkerEnds(a, resolved) ==
    /\ worker[a].at # "over" /\ (resolved \/ worker[a].at = "cancelled")
    /\ worker' = [worker EXCEPT ![a] = [worker[a] EXCEPT !.at = "over", !.resolved = @ \/ resolved]]
    /\ got' = [got EXCEPT ![a] = <<>>]
    /\ UNCHANGED <<scope, teamStage, allowance, declaredVars, born, mailbox, posted, heard, letters, epoch, leftover>>

BeginTurn(limit, strict) ==
    /\ teamStage = "idle" /\ epoch[1] < scope.turns
    /\ teamStage' = "runs" /\ allowance' = [limit |-> limit, strict |-> strict, nudges |-> 0]
    /\ plan' = <<>> /\ hasPlan' = FALSE /\ agentOf' = <<>> /\ waited' = {}
    /\ epoch' = <<epoch[1] + 1, 0>>
    /\ UNCHANGED <<scope, worker, born, busVars, leftover>>

Violates == allowance.strict /\ (~hasPlan \/ (agentOf # <<>> /\ waited = {}))

\* cleanup() cancels the workers that still run.
Cleans ==
    /\ teamStage' = "cleaning"
    /\ worker' = [a \in Workers |-> IF worker[a].at = "runs" THEN [worker[a] EXCEPT !.at = "cancelled"] ELSE worker[a]]

\* An explicit turn is reminded twice of its plan and of its workers, and then fails.
Remind ==
    /\ teamStage = "runs" /\ Violates
    /\ allowance' = [allowance EXCEPT !.nudges = @ + 1]
    /\ IF allowance.nudges = 2 THEN Cleans ELSE UNCHANGED <<teamStage, worker>>
    /\ UNCHANGED <<scope, declaredVars, born, busVars, epoch, leftover>>

CompletePlanned ==
    /\ teamStage = "runs" /\ ~Violates /\ Cleans
    /\ UNCHANGED <<scope, allowance, declaredVars, born, busVars, epoch, leftover>>

CleanedUp ==
    /\ teamStage = "cleaning" /\ Workers = EndedTasks
    /\ teamStage' = "idle" /\ leftover' = FALSE
    /\ worker' = [a \in Workers |-> [worker[a] EXCEPT !.resolved = TRUE, !.known = FALSE]]
    /\ mailbox' = <<>> /\ posted' = <<>> /\ heard' = <<>> /\ letters' = <<>>
    /\ got' = [a \in Workers |-> <<>>]
    /\ UNCHANGED <<scope, allowance, declaredVars, born, epoch>>

\* A second cancellation ends the turn with the bus and the books as they are.
CleanupInterrupted ==
    /\ teamStage = "cleaning" /\ teamStage' = "idle" /\ leftover' = TRUE
    /\ UNCHANGED <<scope, allowance, declaredVars, worker, born, busVars, epoch>>

-----------------------------------------------------------------------------
PlanningStart(limits) ==
    /\ scope = limits
    /\ teamStage = "idle" /\ allowance = [limit |-> 0, strict |-> FALSE, nudges |-> 0]
    /\ plan = <<>> /\ hasPlan = FALSE /\ agentOf = <<>> /\ waited = {}
    /\ worker = <<>> /\ born = <<>> /\ got = <<>>
    /\ mailbox = <<>> /\ posted = <<>> /\ heard = <<>> /\ letters = <<>>
    /\ epoch = <<0, 0>> /\ leftover = FALSE

PlanningInit == \E limits \in Scopes : PlanningStart(limits)

PlannerActs ==
    \/ \E limit \in scope.limits, strict \in scope.strict : BeginTurn(limit, strict)
    \/ \E p \in scope.declared : PlanCreate(p)
    \/ \E s \in Steps, w \in Works : SpawnRedundant(s, w) \/ \E r \in BOOLEAN : SpawnNew(s, w, r)
    \/ \E ids \in SUBSET Workers : AgentWaitReturns(ids)
    \/ Remind \/ CompletePlanned \/ CleanedUp \/ CleanupInterrupted

WorkerActs(a) ==
    \/ \E b \in Workers : SendToAgent(a, b)
    \/ Broadcast(a) \/ Receive(a) \/ \E resolved \in BOOLEAN : WorkerEnds(a, resolved)

PlanningNext == PlannerActs \/ \E a \in Workers : WorkerActs(a)

PlanningSpec == PlanningInit /\ [][PlanningNext]_teamVars

-----------------------------------------------------------------------------

\* A worker that runs has received, or still finds, what was sent to it and what the others
\* said to all: each once, in the order it was sent, and nothing of an earlier turn unless
\* a cleanup was cut short.
MailKept ==
    \A a \in Active :
        /\ Among(got[a], To(a)) \o Direct(a) = Among(letters, To(a))
        /\ Among(got[a], To(Everyone)) \o Unheard(a) = Among(letters, To(Everyone) \cap NotFrom(a))
        /\ leftover \/ \A i \in DOMAIN got[a] : born[got[a][i].from][1] = born[a][1]

\* Workers are for declared steps that are to be delegated, as many as the shape of the turn
\* allows for each plan, and one that a step was given still counts; an agent named for a
\* step is there to be waited for.
PlanKept ==
    teamStage = "runs" =>
        /\ \A s \in DOMAIN agentOf : s \in DOMAIN plan /\ plan[s] # "planner_owned" /\ agentOf[s] \in Known
        /\ Cardinality({a \in Workers : born[a] = epoch}) <= Cardinality(DOMAIN agentOf)
        /\ Cardinality(DOMAIN agentOf) <= allowance.limit
        /\ leftover \/ \A s \in DOMAIN agentOf : born[agentOf[s]][1] = epoch[1]
        /\ \A a \in waited : worker[a].resolved

\* The team of a planner keeps to its plan and gets its mail.
TeamKept == MailKept /\ PlanKept
=============================================================================
