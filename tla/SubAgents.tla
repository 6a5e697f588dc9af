------------------------------ MODULE SubAgents ------------------------------
(***************************************************************************)
(* The planner's task agents: agent/runtime/sub_agent_manager.py, with the *)
(* stage outcome of task_runner.py and the planner turn that drives the    *)
(* manager (planner.py, wait_for_agents.py).                               *)
(*                                                                         *)
(* Everything runs on one asyncio loop, so an action is what one coroutine *)
(* does between two awaits.  Agent ids are uuids; the model numbers them   *)
(* in spawn order, which is also their order in the manager's dicts.       *)
(***************************************************************************)
EXTENDS Integers, FiniteSets

CONSTANTS
    MaxTotal,       \* max_total: agents per planner turn
    MaxConcurrent,  \* max_concurrent: permits of the semaphore
    MaxHandoffs,    \* TaskAgentConfig.max_handoffs
    Budget,         \* AGENT_GLOBAL_TOKEN_BUDGET; 0 disables it
    Usage,          \* tokens a finished agent may turn out to have used
    Tasks,          \* normalised (role, task) signatures
    Requests,       \* the configs the planner may ask agent_spawn for
    WaitSets,       \* the id sets it may pass to agent_wait
    MaxTurns        \* bound: planner turns of one behaviour

ASSUME SubAgentsAssumption ==
    /\ MaxTotal \in Nat \ {0}
    /\ MaxConcurrent \in Nat \ {0}
    /\ MaxHandoffs \in Nat
    /\ Budget \in Nat
    /\ Usage \subseteq Nat /\ 0 \in Usage
    /\ Tasks # {}
    /\ MaxTurns \in Nat \ {0}

Agents == 1..MaxTotal
FailureModes == {"degrade", "cancel_downstream", "replan"}
Configs == [deps: SUBSET Agents, mode: FailureModes \cup {"inherit"},
            task: Tasks, allow_redundant: BOOLEAN]
NoConfig == [deps |-> {}, mode |-> "inherit", task |-> CHOOSE t \in Tasks : TRUE,
             allow_redundant |-> FALSE]

ASSUME RequestsAssumption ==
    /\ Requests \subseteq Configs
    /\ WaitSets \subseteq SUBSET Agents

\* AgentResult: success, failure, skip_execution and replan_required.
Verdicts == {"ok", "failed", "skipped", "replan"}
Outcomes == {"ok", "failed", "handoff", "cancelled"}

VARIABLES
    spawned,      \* total_spawned: the ids given out are 1..spawned
    config,       \* _configs
    pc,           \* where each agent's task stands (_agents)
    outcome,      \* what the stage that is being closed returned
    handoffs,     \* max_handoffs of the agent's current stage
    result,       \* _results
    permits,      \* _semaphore
    cancelling,   \* tasks whose cancel() has not reached them yet
    reserved,     \* _reserved_agent_token_estimates, an estimate being 1
    spent,        \* tokens of the results stored this turn
    emitted,      \* _terminal_events_emitted
    complete,     \* AGENT_COMPLETE events delivered, per agent
    registered,   \* agents with an executor in _executors
    holders,      \* agents whose executor has sandboxes in its _sandbox_sessions
    lost,         \* agents with a sandbox that is in no table and perhaps not destroyed
    planner,      \* where the planner turn stands
    waitSet,      \* the tasks agent_wait is still polling
    asked,        \* the ids the current agent_wait was given
    cursor,       \* cleanup(): next agent to synthesize and announce
    turn          \* planner turns so far

taskVars == <<pc, outcome, handoffs, permits, cancelling, registered, holders, lost>>
bookVars == <<result, reserved, spent, emitted, complete>>
turnVars == <<spawned, config, planner, waitSet, asked, cursor, turn>>
vars == <<taskVars, bookVars, turnVars>>

Spawned == 1..spawned
Live == {"waitdeps", "starting", "queued", "running", "closing", "handoff", "emitting"}
MutantOver == {"done"}                       \* a cancelled task is not seen as done
Over == {"done", "cancelled"}                \* task.done()
HoldsPermit == {"running", "closing"}        \* inside "async with _semaphore"
PCs == Live \cup Over \cup {"none"}
PlannerPCs == {"idle", "turn", "waiting", "gathering", "interrupted", "announcing"}
Unresolved == {a \in Spawned : result[a] = "none"}

-----------------------------------------------------------------------------
(* Dependency policy (_wait_for_dependencies)                              *)

Priority == [degrade |-> 0, cancel_downstream |-> 1, replan |-> 2]

\* AgentResult.failure_mode: "replan" on a replan result, else the default.
FailureMode(v) == IF v = "replan" THEN "replan" ELSE "cancel_downstream"

\* Mutant: a skipped or replan dependency does not count as failed.
MutantFailedDeps(a, res) == {d \in config[a].deps : res[d] = "failed"}

FailedDeps(a, res) == {d \in config[a].deps : res[d] \notin {"ok", "none"}}

\* Mutant: the mode of lowest priority wins.
MutantInherited(a, res) ==
    LET modes == {FailureMode(res[d]) : d \in FailedDeps(a, res)}
    IN  CHOOSE m \in modes : \A n \in modes : Priority[m] <= Priority[n]

Inherited(a, res) ==
    LET modes == {FailureMode(res[d]) : d \in FailedDeps(a, res)}
    IN  CHOOSE m \in modes : \A n \in modes : Priority[m] >= Priority[n]

EffectiveMode(a, res) ==
    IF FailedDeps(a, res) = {} THEN "degrade"
    ELSE IF config[a].mode = "inherit" THEN Inherited(a, res)
    ELSE config[a].mode

-----------------------------------------------------------------------------
(* Result bookkeeping                                                      *)

\* Mutant: a result that is already there is replaced.
MutantSynthesized(S) ==
    [a \in Agents |-> IF a \in S /\ pc[a] \in Over THEN "failed" ELSE result[a]]

\* Mutant: nothing is synthesized for a task that was cancelled.
MutantSynthesizedDone(S) ==
    [a \in Agents |-> IF a \in S /\ result[a] = "none" /\ pc[a] = "done"
                      THEN "failed" ELSE result[a]]

\* _synthesize_result_for_finished_task over S: only a finished task that
\* has no result gets one, and that can only be a cancelled task.
Synthesized(S) ==
    [a \in Agents |-> IF a \in S /\ result[a] = "none" /\ pc[a] \in Over
                      THEN "failed" ELSE result[a]]

\* Mutant: only a success gives the reservation back.
MutantStore(res) ==
    /\ result' = res
    /\ reserved' = {a \in reserved : res[a] # "ok"}

\* _store_result: the reservation goes when the result arrives.
Store(res) ==
    /\ result' = res
    /\ reserved' = {a \in reserved : res[a] = "none"}

-----------------------------------------------------------------------------
(* The planner's tools: agent_spawn and agent_wait                         *)

\* redundant_active_agent_id
Redundant(c) ==
    ~c.allow_redundant /\ \E a \in Unresolved : config[a].task = c.task

CapacityLeft == spawned < MaxTotal

\* spawn(): no await between the first check and create_task.
Spawn(c) ==
    /\ planner = "turn"
    /\ CapacityLeft
    /\ c.deps \subseteq Spawned
    /\ Budget > 0 => spent + Cardinality(reserved) + 1 < Budget
    /\ ~Redundant(c)
    /\ spawned' = spawned + 1
    /\ LET a == spawned + 1 IN
       /\ config' = [config EXCEPT ![a] = c]
       /\ pc' = [pc EXCEPT ![a] = "waitdeps"]
       /\ handoffs' = [handoffs EXCEPT ![a] = MaxHandoffs]
       /\ reserved' = IF Budget > 0 THEN reserved \cup {a} ELSE reserved
    /\ UNCHANGED <<outcome, permits, cancelling, registered, holders, lost, result, spent,
                   emitted, complete, planner, waitSet, asked, cursor, turn>>

\* wait() up to its poll loop; ids with a result are not polled.
WaitStart(ids) ==
    /\ planner = "turn"
    /\ ids \subseteq Spawned
    /\ planner' = "waiting"
    /\ asked' = ids
    /\ waitSet' = ids \cap Unresolved
    /\ UNCHANGED <<taskVars, bookVars, spawned, config, cursor, turn>>

\* One poll of wait(): the finished tasks leave, with a result.
WaitPoll ==
    /\ planner = "waiting"
    /\ LET done == {a \in waitSet : pc[a] \in Over} IN
       /\ done # {}
       /\ waitSet' = waitSet \ done
       /\ Store(Synthesized(done))
    /\ UNCHANGED <<taskVars, spent, emitted, complete, spawned, config, planner,
                   asked, cursor, turn>>

WaitReturn ==
    /\ planner = "waiting"
    /\ waitSet = {}
    /\ planner' = "turn"
    /\ asked' = {}
    /\ UNCHANGED <<taskVars, bookVars, spawned, config, waitSet, cursor, turn>>

\* cancel_check fires: AgentWaitCancelled, which the tool turns into a failure.
WaitCancelled ==
    /\ planner = "waiting"
    /\ waitSet # {}
    /\ planner' = "turn"
    /\ waitSet' = {}
    /\ asked' = {}
    /\ UNCHANGED <<taskVars, bookVars, spawned, config, cursor, turn>>

-----------------------------------------------------------------------------
(* One agent's task: _run_agent                                            *)

\* The gather over the dependencies is over; apply the failure policy.
ResolveDeps(a) ==
    /\ pc[a] = "waitdeps" /\ a \notin cancelling
    /\ \A d \in config[a].deps : pc[d] \in Over
    /\ LET res  == Synthesized(config[a].deps)
           mode == EffectiveMode(a, res)
       IN  \/ /\ mode = "degrade"
              /\ pc' = [pc EXCEPT ![a] = "starting"]
              /\ Store(res)
              /\ UNCHANGED emitted
           \/ /\ mode # "degrade"
              /\ Store([res EXCEPT ![a] = IF mode = "replan" THEN "replan" ELSE "skipped"])
              /\ emitted' = emitted \cup {a}
              /\ pc' = [pc EXCEPT ![a] = "emitting"]
    /\ UNCHANGED <<outcome, handoffs, permits, cancelling, registered, holders, lost, spent,
                   complete, turnVars>>

\* AGENT_START has been delivered; wait for the semaphore.
Start(a) ==
    /\ pc[a] = "starting" /\ a \notin cancelling
    /\ pc' = [pc EXCEPT ![a] = "queued"]
    /\ UNCHANGED <<outcome, handoffs, permits, cancelling, registered, holders, lost,
                   bookVars, turnVars>>

\* Mutant: only an agent's first executor is remembered.
MutantRegister(a) ==
    registered' = IF handoffs[a] = MaxHandoffs THEN registered \cup {a} ELSE registered

Register(a) == registered' = registered \cup {a}

\* The semaphore is acquired and _execute_agent makes the stage's executor, which
\* takes sandboxes as its tools ask for them; the model has it take them at once.
Acquire(a) ==
    /\ pc[a] = "queued" /\ a \notin cancelling
    /\ permits > 0
    /\ permits' = permits - 1
    /\ pc' = [pc EXCEPT ![a] = "running"]
    /\ Register(a)
    /\ holders' = holders \cup {a}
    /\ UNCHANGED <<outcome, handoffs, cancelling, lost, bookVars, turnVars>>

\* Mutant: only a stage that ended by itself cleans its executor up.
MutantBeginClose(a, o) ==
    /\ outcome' = [outcome EXCEPT ![a] = o]
    /\ pc' = [pc EXCEPT ![a] = "closing"]
    /\ holders' = IF o = "cancelled" THEN holders ELSE holders \ {a}

\* The finally clause calls executor.cleanup(), which empties the table of sandboxes
\* before it awaits the destruction of the first.
BeginClose(a, o) ==
    /\ outcome' = [outcome EXCEPT ![a] = o]
    /\ pc' = [pc EXCEPT ![a] = "closing"]
    /\ holders' = holders \ {a}

\* TaskAgentRunner.run returns (a timeout or an exception is a failure);
\* agent_handoff refuses when no handoff remains.
FinishRun(a, o) ==
    /\ pc[a] = "running" /\ a \notin cancelling
    /\ o = "handoff" => handoffs[a] > 0
    /\ BeginClose(a, o)
    /\ UNCHANGED <<handoffs, permits, cancelling, registered, lost, bookVars, turnVars>>

\* Mutant: the permit is kept between the stages of a handoff.
MutantRelease(a) ==
    /\ permits' = IF outcome[a] = "handoff" THEN permits ELSE permits + 1
    /\ registered' = registered \ {a}

\* End of _execute_agent's finally and of the semaphore block.
Release(a) ==
    /\ permits' = permits + 1
    /\ registered' = registered \ {a}

\* The stage is closed: hand off to the next one, or store and announce.
CloseStage(a) ==
    /\ pc[a] = "closing" /\ a \notin cancelling
    /\ Release(a)
    /\ \/ /\ outcome[a] = "handoff"
          /\ pc' = [pc EXCEPT ![a] = "handoff"]
          /\ handoffs' = [handoffs EXCEPT ![a] = @ - 1]
          /\ UNCHANGED bookVars
       \/ /\ outcome[a] \in {"ok", "failed"}
          /\ pc' = [pc EXCEPT ![a] = "emitting"]
          /\ Store([result EXCEPT ![a] = outcome[a]])
          /\ \E u \in Usage : spent' = spent + u
          /\ emitted' = emitted \cup {a}
          /\ UNCHANGED <<handoffs, complete>>
       \/ /\ outcome[a] = "cancelled"
          /\ pc' = [pc EXCEPT ![a] = "cancelled"]
          /\ UNCHANGED <<handoffs, bookVars>>
    /\ outcome' = [outcome EXCEPT ![a] = "none"]
    /\ UNCHANGED <<cancelling, holders, lost, turnVars>>

\* AGENT_HANDOFF and AGENT_STAGE_TRANSITION are out: queue again.
Requeue(a) ==
    /\ pc[a] = "handoff" /\ a \notin cancelling
    /\ pc' = [pc EXCEPT ![a] = "queued"]
    /\ UNCHANGED <<outcome, handoffs, permits, cancelling, registered, holders, lost,
                   bookVars, turnVars>>

\* _emit_terminal_events ends and the task returns.
Announced(a) ==
    /\ pc[a] = "emitting" /\ a \notin cancelling
    /\ complete' = [complete EXCEPT ![a] = @ + 1]
    /\ pc' = [pc EXCEPT ![a] = "done"]
    /\ UNCHANGED <<outcome, handoffs, permits, cancelling, registered, holders, lost,
                   result, reserved, spent, emitted, turnVars>>

-----------------------------------------------------------------------------
(* CancelledError arrives at the await the agent is suspended in           *)

\* Outside the semaphore block the task simply ends.  In the middle of its
\* terminal events AGENT_COMPLETE may be out already, or is lost.
CancelOutside(a) ==
    /\ a \in cancelling
    /\ pc[a] \in Live \ HoldsPermit
    /\ pc' = [pc EXCEPT ![a] = "cancelled"]
    /\ cancelling' = cancelling \ {a}
    /\ \/ UNCHANGED complete
       \/ pc[a] = "emitting" /\ complete' = [complete EXCEPT ![a] = @ + 1]
    /\ UNCHANGED <<outcome, handoffs, permits, registered, holders, lost, result, reserved,
                   spent, emitted, turnVars>>

\* Inside the runner the finally clause still cleans the executor up.
CancelRunning(a) ==
    /\ a \in cancelling
    /\ pc[a] = "running"
    /\ BeginClose(a, "cancelled")
    /\ cancelling' = cancelling \ {a}
    /\ UNCHANGED <<handoffs, permits, registered, lost, bookVars, turnVars>>

\* Inside executor.cleanup() the rest of the finally clause is skipped and the
\* semaphore block is left.  The executor stays registered, with an empty table: the
\* sandboxes cleanup() had not destroyed are lost, if there were any.
CancelClosing(a) ==
    /\ a \in cancelling
    /\ pc[a] = "closing"
    /\ permits' = permits + 1
    /\ pc' = [pc EXCEPT ![a] = "cancelled"]
    /\ outcome' = [outcome EXCEPT ![a] = "none"]
    /\ cancelling' = cancelling \ {a}
    /\ lost' \in {lost, lost \cup {a}}
    /\ UNCHANGED <<handoffs, registered, holders, bookVars, turnVars>>

-----------------------------------------------------------------------------
(* The end of the planner turn: cleanup(), in run's finally clause         *)

\* Normal end, error or a force-cancel of the turn task: cleanup() cancels
\* every task that is not done and gathers them all.
EndTurn ==
    /\ planner \in {"turn", "waiting"}
    /\ planner' = "gathering"
    /\ cancelling' = {a \in Spawned : pc[a] \in Live}
    /\ waitSet' = {}
    /\ asked' = {}
    /\ UNCHANGED <<pc, outcome, handoffs, permits, registered, holders, lost, bookVars,
                   spawned, config, cursor, turn>>

GatherDone ==
    /\ planner = "gathering"
    /\ \A a \in Spawned : pc[a] \in Over
    /\ planner' = "announcing"
    /\ cursor' = 1
    /\ UNCHANGED <<taskVars, bookVars, spawned, config, waitSet, asked, turn>>

\* Mutant: only a task that ended normally counts as announced.
MutantTerminalEmitted(a) == pc[a] = "done"
TerminalEmitted(a) == a \in emitted

\* One agent of the loop over _configs: synthesize, announce if nobody has.
Announce ==
    /\ planner = "announcing"
    /\ cursor \in Spawned
    /\ Store(Synthesized({cursor}))
    /\ emitted' = emitted \cup {cursor}
    /\ complete' = IF TerminalEmitted(cursor) THEN complete
                   ELSE [complete EXCEPT ![cursor] = @ + 1]
    /\ cursor' = cursor + 1
    /\ UNCHANGED <<taskVars, spent, spawned, config, planner, waitSet, asked, turn>>

\* The loop over _configs is over.  The loop over _executors destroys what they still
\* hold, which is nothing (SandboxesKept), so that it does not suspend; then clear():
\* every agent of the turn is forgotten.
Clear ==
    /\ planner = "announcing"
    /\ cursor \notin Spawned
    /\ holders' = holders \ registered
    /\ planner' = "idle"
    /\ spawned' = 0
    /\ config' = [a \in Agents |-> NoConfig]
    /\ pc' = [a \in Agents |-> "none"]
    /\ outcome' = [a \in Agents |-> "none"]
    /\ handoffs' = [a \in Agents |-> 0]
    /\ result' = [a \in Agents |-> "none"]
    /\ complete' = [a \in Agents |-> 0]
    /\ reserved' = {}
    /\ spent' = 0
    /\ emitted' = {}
    /\ registered' = {}
    /\ lost' = {}
    /\ cursor' = 0
    /\ UNCHANGED <<permits, cancelling, waitSet, asked, turn>>

\* A second force-cancel of the turn task while cleanup() is gathering: the
\* gather cancels its tasks again and raises once they are all done.
InterruptGather ==
    /\ planner = "gathering"
    /\ planner' = "interrupted"
    /\ cancelling' = {a \in Spawned : pc[a] \in Live}
    /\ UNCHANGED <<pc, outcome, handoffs, permits, registered, holders, lost, bookVars,
                   spawned, config, waitSet, asked, cursor, turn>>

InterruptedGatherDone ==
    /\ planner = "interrupted"
    /\ \A a \in Spawned : pc[a] \in Over
    /\ planner' = "idle"
    /\ UNCHANGED <<taskVars, bookVars, spawned, config, waitSet, asked, cursor, turn>>

\* ... or while it announces: the event in flight is lost, its guard is set.
InterruptAnnounce ==
    /\ planner = "announcing"
    /\ cursor \in Spawned /\ ~TerminalEmitted(cursor)
    /\ Store(Synthesized({cursor}))
    /\ emitted' = emitted \cup {cursor}
    /\ planner' = "idle"
    /\ cursor' = 0
    /\ UNCHANGED <<taskVars, spent, complete, spawned, config, waitSet, asked, turn>>

\* The conversation's next planner turn, on the same manager.
NewTurn ==
    /\ planner = "idle"
    /\ turn < MaxTurns
    /\ planner' = "turn"
    /\ turn' = turn + 1
    /\ UNCHANGED <<taskVars, bookVars, spawned, config, waitSet, asked, cursor>>

-----------------------------------------------------------------------------
Init ==
    /\ spawned = 0
    /\ config = [a \in Agents |-> NoConfig]
    /\ pc = [a \in Agents |-> "none"]
    /\ outcome = [a \in Agents |-> "none"]
    /\ handoffs = [a \in Agents |-> 0]
    /\ result = [a \in Agents |-> "none"]
    /\ permits = MaxConcurrent
    /\ cancelling = {}
    /\ reserved = {}
    /\ spent = 0
    /\ emitted = {}
    /\ complete = [a \in Agents |-> 0]
    /\ registered = {}
    /\ holders = {}
    /\ lost = {}
    /\ planner = "idle"
    /\ waitSet = {}
    /\ asked = {}
    /\ cursor = 0
    /\ turn = 0

AgentStep(a) ==
    \/ ResolveDeps(a)
    \/ Start(a)
    \/ Acquire(a)
    \/ \E o \in {"ok", "failed", "handoff"} : FinishRun(a, o)
    \/ CloseStage(a)
    \/ Requeue(a)
    \/ Announced(a)
    \/ CancelOutside(a)
    \/ CancelRunning(a)
    \/ CancelClosing(a)

\* What cleanup() does when nothing interrupts it.
CleanupStep ==
    \/ GatherDone
    \/ Announce
    \/ Clear

PlannerStep ==
    \/ NewTurn
    \/ \E c \in Requests : Spawn(c)
    \/ \E ids \in WaitSets : WaitStart(ids)
    \/ WaitPoll
    \/ WaitReturn
    \/ WaitCancelled
    \/ EndTurn

InterruptStep ==
    \/ InterruptGather
    \/ InterruptedGatherDone
    \/ InterruptAnnounce

Next ==
    \/ PlannerStep
    \/ CleanupStep
    \/ InterruptStep
    \/ \E a \in Agents : AgentStep(a)

Spec == Init /\ [][Next]_vars

\* The loop runs every ready coroutine; a stage ends by AGENT_TIMEOUT_SECONDS
\* at the latest; agent_wait polls every 50 ms.
Fairness ==
    /\ \A a \in Agents : WF_vars(AgentStep(a))
    /\ WF_vars(WaitPoll) /\ WF_vars(WaitReturn)
    /\ WF_vars(CleanupStep) /\ WF_vars(InterruptedGatherDone)

FairSpec == Spec /\ Fairness

-----------------------------------------------------------------------------
(* Properties                                                              *)

TypeOK ==
    /\ spawned \in 0..MaxTotal
    /\ config \in [Agents -> Configs]
    /\ pc \in [Agents -> PCs]
    /\ outcome \in [Agents -> Outcomes \cup {"none"}]
    /\ handoffs \in [Agents -> 0..MaxHandoffs]
    /\ result \in [Agents -> Verdicts \cup {"none"}]
    /\ permits \in Nat
    /\ cancelling \subseteq Agents
    /\ reserved \subseteq Agents
    /\ spent \in Nat
    /\ emitted \subseteq Agents
    /\ complete \in [Agents -> Nat]
    /\ registered \subseteq Agents
    /\ holders \subseteq Agents
    /\ lost \subseteq Agents
    /\ planner \in PlannerPCs
    /\ waitSet \subseteq Agents
    /\ asked \subseteq Agents
    /\ cursor \in 0..(MaxTotal + 1)
    /\ turn \in 0..MaxTurns

\* Whatever mix of handoffs, timeouts and cancellations the stages go through,
\* every permit of _semaphore is either free or held by one agent inside its
\* "async with" block: none is leaked, none is given twice.
PermitsConserved ==
    permits + Cardinality({a \in Agents : pc[a] \in HoldsPermit}) = MaxConcurrent

\* An agent that got past _wait_for_dependencies had a result from every
\* dependency, and each failed one was waived by an explicit "degrade": an
\* inherited mode never lets an agent run on a failed dependency.
Begun == {"starting", "queued", "running", "closing", "handoff"}
DependencyPolicy ==
    \A a \in Agents : (pc[a] \in Begun \/ result[a] = "ok") =>
        \A d \in config[a].deps :
            \/ result[d] = "ok"
            \/ result[d] # "none" /\ config[a].mode = "degrade"

\* A replan request climbs the dependency chain: an agent that inherits its
\* mode and has a dependency in "replan" never settles as merely skipped.
ReplanClimbs ==
    \A a \in Agents : \A d \in config[a].deps :
        (result[d] = "replan" /\ config[a].mode = "inherit") => result[a] # "skipped"

\* The agent's own announcement and cleanup()'s never both deliver
\* AGENT_COMPLETE, even when a cancel falls between the two.
AtMostOneComplete == \A a \in Agents : complete[a] <= 1

\* Sandboxes in an executor's table are those of a stage that goes on, through
\* handoffs, timeouts and cancels, and of an executor that _executors knows; they
\* get lost only to a cancel that strikes inside the executor's cleanup(), never for
\* an agent that ends by itself.  So cleanup() finds nothing to close.
SandboxesKept ==
    /\ \A a \in holders : pc[a] = "running" /\ a \in registered
    /\ \A a \in lost : pc[a] = "cancelled" /\ a \in registered

\* The token reservation of an agent is held exactly until its result is known,
\* whichever of the five places that store a result stores it.
ReservationsExact == reserved = (IF Budget > 0 THEN Unresolved ELSE {})

\* agent_wait reports on every agent it was asked about, also on agents that a
\* cleanup cut short left cancelled and without a result.
WaitedHaveResults ==
    planner = "waiting" => \A a \in asked \ waitSet : result[a] # "none"

\* redundant_active_agent_id: 'Return an active agent already covering the same
\* task and role.'  The agents it can return are the ones without a result.
RedundantIsActive ==
    planner = "turn" => \A a \in Unresolved : pc[a] \in Live

\* The inductive invariant behind the state properties, one agent at a time and
\* then the planner.  An id not given out has no trace.
Unborn(a) ==
    a > spawned =>
        /\ pc[a] = "none" /\ result[a] = "none" /\ complete[a] = 0
        /\ config[a].deps = {}
        /\ a \notin emitted \cup registered \cup reserved \cup cancelling

\* Dependencies are older agents; a stage outcome exists while it is closed; the
\* executor of a stage is registered.
Staged(a) ==
    /\ a <= spawned => pc[a] # "none" /\ config[a].deps \subseteq 1..(a - 1)
    /\ (outcome[a] # "none") = (pc[a] = "closing")
    /\ outcome[a] = "handoff" => handoffs[a] > 0
    /\ a \in cancelling => pc[a] \in Live
    /\ pc[a] \in HoldsPermit => a \in registered

\* The result arrives at the last step before the terminal events.
Resolved(a) ==
    /\ pc[a] \in Begun \cup {"waitdeps"} => result[a] = "none"
    /\ pc[a] \in {"emitting", "done"} => result[a] # "none"
    /\ a \in emitted => result[a] # "none"
    /\ a \notin emitted \/ pc[a] = "emitting" => complete[a] = 0
    /\ pc[a] = "emitting" => a \in emitted
    /\ complete[a] <= 1
    /\ Budget > 0 => (a \in reserved) = (a \in Spawned /\ result[a] = "none")
    /\ Budget = 0 => a \notin reserved

\* A skipped agent's dependencies have their final results.
Judged(a) == result[a] = "skipped" => \A d \in config[a].deps : result[d] # "none"

Phases ==
    /\ planner = "announcing" => \A a \in Spawned : pc[a] \in Over
    /\ planner = "announcing" =>
           cursor >= 1 /\ \A a \in Spawned : a < cursor => result[a] # "none"
    /\ planner = "waiting" => asked \subseteq Spawned

IInv ==
    /\ TypeOK
    /\ \A a \in Agents : Unborn(a) /\ Staged(a) /\ Resolved(a) /\ Judged(a)
    /\ SandboxesKept
    /\ Phases
    /\ DependencyPolicy /\ ReplanClimbs /\ WaitedHaveResults /\ PermitsConserved

\* No agent waits for ever: not on its dependencies, not on the semaphore, not
\* on an agent that hands off between the two.
TasksEnd == \A a \in Agents : (pc[a] \in Live) ~> (pc[a] \notin Live)

\* A turn whose cleanup has begun ends, and the manager can serve the next one.
CleanupEnds == (planner = "gathering") ~> (planner = "idle")

\* The manager implements the abstract task graph.
stageOf ==
    [a \in Agents |->
        IF a \notin Spawned THEN "absent"
        ELSE IF result[a] # "none" THEN "settled"
        ELSE IF pc[a] \in Over THEN "stopped"
        ELSE IF pc[a] = "waitdeps" THEN "waiting"
        ELSE "running"]

Graph == INSTANCE TaskGraph WITH
    Task <- Agents,
    stage <- stageOf,
    needs <- [a \in Agents |-> config[a].deps],
    tolerant <- [a \in Agents |-> config[a].mode = "degrade"],
    verdict <- result

ImplementsTaskGraph == Graph!GSpec
=============================================================================
