--------------------------- MODULE SubAgentsProofs ----------------------------
(***************************************************************************)
(* Theorems about SubAgents, for every value of its constants.  The        *)
(* inductive invariant is IInv; the proof treats its parts one after the   *)
(* other: the types, what is known of one agent, the phases of the planner *)
(* turn, the dependency policy and the permits of the semaphore.  From it  *)
(* follows that SubAgents implements TaskGraph.                            *)
(***************************************************************************)
EXTENDS SubAgents, FiniteSetTheorems, TLAPS

-----------------------------------------------------------------------------
(* Types                                                                   *)

LEMMA NoConfigOK == NoConfig \in Configs /\ NoConfig.deps = {}
BY SubAgentsAssumption DEF SubAgentsAssumption, NoConfig, Configs

LEMMA SynthesizedOK ==
    ASSUME TypeOK, NEW S
    PROVE  Synthesized(S) \in [Agents -> Verdicts \cup {"none"}]
BY DEF TypeOK, Synthesized, Verdicts

LEMMA SpawnedAgents == TypeOK => Spawned \subseteq Agents
BY SubAgentsAssumption DEF SubAgentsAssumption, TypeOK, Spawned, Agents

LEMMA TypeInit == Init => TypeOK
BY SubAgentsAssumption, NoConfigOK
   DEF SubAgentsAssumption, Init, TypeOK, PCs, Live, Over, Outcomes, Verdicts,
       PlannerPCs, Agents

\* The fields of the type invariant a step can leave without a look at them.
LEMMA TypeNext == IInv /\ [Next]_vars => TypeOK'
<1> SUFFICES ASSUME TypeOK, \A a \in Agents : Staged(a), [Next]_vars PROVE TypeOK'
  BY DEF IInv
<1> USE SubAgentsAssumption, RequestsAssumption
<1>1. CASE PlannerStep
  <2>1. CASE NewTurn
    BY <2>1 DEF TypeOK, SubAgentsAssumption, NewTurn, PlannerPCs, taskVars, bookVars
  <2>2. ASSUME NEW c \in Requests, Spawn(c) PROVE TypeOK'
    <3>1. spawned' \in 0..MaxTotal /\ spawned' \in Agents
      BY <2>2 DEF TypeOK, SubAgentsAssumption, Spawn, CapacityLeft, Agents
    <3>2. /\ config' \in [Agents -> Configs] /\ pc' \in [Agents -> PCs]
          /\ handoffs' \in [Agents -> 0..MaxHandoffs] /\ reserved' \subseteq Agents
      BY <2>2, <3>1 DEF TypeOK, SubAgentsAssumption, RequestsAssumption, Spawn, PCs, Live
    <3>3. QED
      BY <2>2, <3>1, <3>2 DEF TypeOK, Spawn
  <2>3. ASSUME NEW ids \in WaitSets, WaitStart(ids) PROVE TypeOK'
    BY <2>3 DEF TypeOK, RequestsAssumption, WaitStart, PlannerPCs, taskVars, bookVars
  <2>4. CASE WaitPoll
    BY <2>4, SynthesizedOK DEF TypeOK, WaitPoll, Store, taskVars
  <2>5. CASE WaitReturn
    BY <2>5 DEF TypeOK, WaitReturn, PlannerPCs, taskVars, bookVars
  <2>6. CASE WaitCancelled
    BY <2>6 DEF TypeOK, WaitCancelled, PlannerPCs, taskVars, bookVars
  <2>7. CASE EndTurn
    BY <2>7, SpawnedAgents DEF TypeOK, EndTurn, PlannerPCs, bookVars
  <2>8. QED
    BY <1>1, <2>1, <2>2, <2>3, <2>4, <2>5, <2>6, <2>7 DEF PlannerStep
<1>2. CASE CleanupStep
  <2>1. CASE GatherDone
    BY <2>1 DEF TypeOK, SubAgentsAssumption, GatherDone, PlannerPCs, taskVars, bookVars
  <2>2. CASE Announce
    <3>1. cursor \in Agents /\ cursor + 1 \in 0..(MaxTotal + 1)
      BY <2>2 DEF TypeOK, SubAgentsAssumption, Announce, Spawned, Agents
    <3>2. /\ result' \in [Agents -> Verdicts \cup {"none"}] /\ reserved' \subseteq Agents
          /\ emitted' \subseteq Agents
      BY <2>2, <3>1, SynthesizedOK DEF TypeOK, Announce, Store
    <3>3. complete' \in [Agents -> Nat]
      BY <2>2, <3>1 DEF TypeOK, Announce
    <3>4. QED
      BY <2>2, <3>1, <3>2, <3>3 DEF TypeOK, Announce, taskVars
  <2>3. CASE Clear
    BY <2>3, NoConfigOK
       DEF TypeOK, SubAgentsAssumption, Clear, PCs, Outcomes, Verdicts, PlannerPCs
  <2>4. QED
    BY <1>2, <2>1, <2>2, <2>3 DEF CleanupStep
<1>3. CASE InterruptStep
  <2>1. CASE InterruptGather
    BY <2>1, SpawnedAgents DEF TypeOK, InterruptGather, PlannerPCs, bookVars
  <2>2. CASE InterruptedGatherDone
    BY <2>2 DEF TypeOK, InterruptedGatherDone, PlannerPCs, taskVars, bookVars
  <2>3. CASE InterruptAnnounce
    <3>1. cursor \in Agents /\ 0 \in 0..(MaxTotal + 1)
      BY <2>3 DEF TypeOK, SubAgentsAssumption, InterruptAnnounce, Spawned, Agents
    <3>2. /\ result' \in [Agents -> Verdicts \cup {"none"}] /\ reserved' \subseteq Agents
          /\ emitted' \subseteq Agents
      BY <2>3, <3>1, SynthesizedOK DEF TypeOK, InterruptAnnounce, Store
    <3>3. QED
      BY <2>3, <3>1, <3>2 DEF TypeOK, InterruptAnnounce, PlannerPCs, taskVars
  <2>4. QED
    BY <1>3, <2>1, <2>2, <2>3 DEF InterruptStep
<1>4. ASSUME NEW a \in Agents, AgentStep(a) PROVE TypeOK'
  <2> USE DEF PCs, Live
  <2>1. CASE ResolveDeps(a)
    BY <2>1, SynthesizedOK DEF TypeOK, ResolveDeps, Store, Verdicts, turnVars
  <2>2. CASE Start(a)
    BY <2>2 DEF TypeOK, Start, bookVars, turnVars
  <2>3. CASE Requeue(a)
    BY <2>3 DEF TypeOK, Requeue, bookVars, turnVars
  <2>4. CASE Acquire(a)
    BY <2>4 DEF TypeOK, Acquire, Register, bookVars, turnVars
  <2>5. ASSUME NEW o \in {"ok", "failed", "handoff"}, FinishRun(a, o) PROVE TypeOK'
    BY <2>5 DEF TypeOK, FinishRun, BeginClose, Outcomes, bookVars, turnVars
  <2>6. CASE CloseStage(a)
    <3>1. /\ pc' \in [Agents -> PCs] /\ outcome' \in [Agents -> Outcomes \cup {"none"}]
          /\ permits' \in Nat /\ registered' \subseteq Agents
      BY <2>6 DEF TypeOK, CloseStage, Release, Over
    <3>2. handoffs' \in [Agents -> 0..MaxHandoffs]
      BY <2>6 DEF TypeOK, SubAgentsAssumption, CloseStage, Staged, bookVars
    <3>3. /\ result' \in [Agents -> Verdicts \cup {"none"}] /\ reserved' \subseteq Agents
          /\ emitted' \subseteq Agents /\ complete' \in [Agents -> Nat]
      BY <2>6 DEF TypeOK, CloseStage, Store, Verdicts, bookVars
    <3>4. spent' \in Nat
      BY <2>6 DEF TypeOK, SubAgentsAssumption, CloseStage, bookVars
    <3>5. QED
      BY <2>6, <3>1, <3>2, <3>3, <3>4 DEF TypeOK, CloseStage, turnVars
  <2>7. CASE Announced(a)
    BY <2>7 DEF TypeOK, Announced, Over, turnVars
  <2>8. CASE CancelOutside(a)
    BY <2>8 DEF TypeOK, CancelOutside, Over, turnVars
  <2>9. CASE CancelRunning(a)
    BY <2>9 DEF TypeOK, CancelRunning, BeginClose, Outcomes, bookVars, turnVars
  <2>10. CASE CancelClosing(a)
    BY <2>10 DEF TypeOK, CancelClosing, Over, bookVars, turnVars
  <2>11. QED
    BY <1>4, <2>1, <2>2, <2>3, <2>4, <2>5, <2>6, <2>7, <2>8, <2>9, <2>10 DEF AgentStep
<1>5. CASE UNCHANGED vars
  BY <1>5 DEF TypeOK, vars, taskVars, bookVars, turnVars
<1>6. QED
  BY <1>1, <1>2, <1>3, <1>4, <1>5 DEF Next

-----------------------------------------------------------------------------
(* What is known of one agent                                              *)

\* What _synthesize_result_for_finished_task may do to one result.
LEMMA SynthesizedOne ==
    ASSUME NEW S, NEW a \in Agents
    PROVE  /\ result[a] # "none" => Synthesized(S)[a] = result[a]
           /\ Synthesized(S)[a] # result[a] => Synthesized(S)[a] = "failed" /\ a \in S
           /\ pc[a] \notin Over => Synthesized(S)[a] = result[a]
           /\ a \in S /\ pc[a] \in Over => Synthesized(S)[a] # "none"
BY DEF Synthesized

LEMMA AgentsInit == Init => \A a \in Agents : Unborn(a) /\ Staged(a) /\ Resolved(a)
BY SubAgentsAssumption, NoConfigOK
   DEF HoldsPermit, SubAgentsAssumption, Init, Unborn, Staged, Resolved, Live, Begun, Spawned, Agents

LEMMA AgentsNext ==
    IInv /\ [Next]_vars => (\A b \in Agents : Unborn(b) /\ Staged(b) /\ Resolved(b))'
<1> SUFFICES ASSUME TypeOK, Phases,
                    \A d \in Agents : Unborn(d) /\ Staged(d) /\ Resolved(d),
                    [Next]_vars, NEW b \in Agents
             PROVE  (Unborn(b) /\ Staged(b) /\ Resolved(b))'
  BY DEF IInv, Agents
<1> DEFINE Local == Unborn(b) /\ Staged(b) /\ Resolved(b)
<1>0. Local /\ b \in Nat /\ spawned \in Nat
  BY DEF TypeOK, Agents
<1> SUFFICES Local'
  OBVIOUS
<1> USE DEF Unborn, Staged, Resolved, HoldsPermit
<1>1. CASE PlannerStep
  <2>1. CASE NewTurn
    BY <1>0, <2>1 DEF NewTurn, Spawned, taskVars, bookVars
  <2>2. ASSUME NEW c \in Requests, Spawn(c) PROVE Local'
    <3>1. CASE b = spawned + 1
      BY <1>0, <2>2, <3>1 DEF TypeOK, Spawn, Spawned, Begun, Live
    <3>2. CASE b # spawned + 1
      BY <1>0, <2>2, <3>2 DEF TypeOK, Spawn, Spawned
    <3>3. QED
      BY <3>1, <3>2
  <2>3. ASSUME NEW ids \in WaitSets, WaitStart(ids) PROVE Local'
    BY <1>0, <2>3 DEF WaitStart, Spawned, taskVars, bookVars
  <2>4. CASE WaitPoll
    BY <1>0, <2>4, SynthesizedOne DEF WaitPoll, Store, Spawned, Begun, Over, taskVars
  <2>5. CASE WaitReturn
    BY <1>0, <2>5 DEF WaitReturn, Spawned, taskVars, bookVars
  <2>6. CASE WaitCancelled
    BY <1>0, <2>6 DEF WaitCancelled, Spawned, taskVars, bookVars
  <2>7. CASE EndTurn
    BY <1>0, <2>7 DEF EndTurn, Spawned, bookVars
  <2>8. QED
    BY <1>1, <2>1, <2>2, <2>3, <2>4, <2>5, <2>6, <2>7 DEF PlannerStep
<1>2. CASE CleanupStep
  <2>1. CASE GatherDone
    BY <1>0, <2>1 DEF GatherDone, Spawned, taskVars, bookVars
  <2>2. CASE Announce
    <3>1. cursor \in Agents /\ pc[cursor] \in Over
      BY <2>2, SpawnedAgents DEF Announce, Phases
    <3>2. QED
      BY <1>0, <2>2, <3>1, SynthesizedOne
         DEF TypeOK, Announce, Store, Spawned, Begun, Over, TerminalEmitted, taskVars
  <2>3. CASE Clear
    <3>1. b \notin cancelling
      BY <1>0, <2>3 DEF Clear, Phases, Spawned, Live, Over, Agents
    <3>2. /\ pc'[b] = "none" /\ outcome'[b] = "none" /\ result'[b] = "none"
          /\ complete'[b] = 0 /\ config'[b].deps = {} /\ spawned' = 0
          /\ emitted' = {} /\ registered' = {} /\ reserved' = {} /\ cancelling' = cancelling
      BY <2>3, NoConfigOK DEF Clear
    <3>3. QED
      BY <1>0, <3>1, <3>2 DEF Spawned, Begun, Live, Agents
  <2>4. QED
    BY <1>2, <2>1, <2>2, <2>3 DEF CleanupStep
<1>3. CASE InterruptStep
  <2>1. CASE InterruptGather
    BY <1>0, <2>1 DEF InterruptGather, Spawned, bookVars
  <2>2. CASE InterruptedGatherDone
    BY <1>0, <2>2 DEF InterruptedGatherDone, Spawned, taskVars, bookVars
  <2>3. CASE InterruptAnnounce
    <3>1. cursor \in Agents /\ pc[cursor] \in Over
      BY <2>3, SpawnedAgents DEF InterruptAnnounce, Phases
    <3>2. QED
      BY <1>0, <2>3, <3>1, SynthesizedOne
         DEF TypeOK, InterruptAnnounce, Store, Spawned, Begun, Over, TerminalEmitted, taskVars
  <2>4. QED
    BY <1>3, <2>1, <2>2, <2>3 DEF InterruptStep
<1>4. ASSUME NEW a \in Agents, AgentStep(a) PROVE Local'
  <2>0. Staged(a) /\ Resolved(a) /\ Unborn(a) /\ a \in Nat
    BY DEF Agents
  <2> USE <1>0, <2>0 DEF Spawned, Begun, Live
  <2>1. CASE ResolveDeps(a)
    <3>1. a \in Spawned /\ a \notin config[a].deps
      BY <2>1 DEF ResolveDeps, Agents
    <3> DEFINE res == Synthesized(config[a].deps)
               mode == EffectiveMode(a, res)
    <3>2. /\ \/ /\ pc' = [pc EXCEPT ![a] = "starting"]
                /\ Store(res)
                /\ emitted' = emitted
             \/ /\ Store([res EXCEPT ![a] = IF mode = "replan" THEN "replan" ELSE "skipped"])
                /\ emitted' = emitted \cup {a}
                /\ pc' = [pc EXCEPT ![a] = "emitting"]
          /\ UNCHANGED <<outcome, cancelling, registered, handoffs, complete, config, spawned>>
      BY <2>1 DEF ResolveDeps, turnVars
    <3>3. /\ res \in [Agents -> Verdicts \cup {"none"}]
          /\ res[a] = result[a]
          /\ result[b] # "none" => res[b] = result[b]
          /\ res[b] # result[b] => pc[b] \in Over
      BY <2>1, SynthesizedOK, SynthesizedOne DEF ResolveDeps, Over
    <3> HIDE DEF res, mode
    <3>4. QED
      BY <2>1, <3>1, <3>2, <3>3 DEF TypeOK, ResolveDeps, Store, Over
  <2>2. CASE Start(a)
    BY <2>2 DEF TypeOK, Start, bookVars, turnVars
  <2>3. CASE Requeue(a)
    BY <2>3 DEF TypeOK, Requeue, bookVars, turnVars
  <2>4. CASE Acquire(a)
    BY <2>4 DEF TypeOK, Acquire, Register, bookVars, turnVars
  <2>5. ASSUME NEW o \in {"ok", "failed", "handoff"}, FinishRun(a, o) PROVE Local'
    BY <2>5 DEF TypeOK, FinishRun, BeginClose, bookVars, turnVars
  <2>6. CASE CloseStage(a)
    BY <2>6 DEF TypeOK, CloseStage, Release, Store, bookVars, turnVars
  <2>7. CASE Announced(a)
    BY <2>7 DEF TypeOK, Announced, turnVars
  <2>8. CASE CancelOutside(a)
    BY <2>8 DEF TypeOK, CancelOutside, HoldsPermit, turnVars
  <2>9. CASE CancelRunning(a)
    BY <2>9 DEF TypeOK, CancelRunning, BeginClose, bookVars, turnVars
  <2>10. CASE CancelClosing(a)
    BY <2>10 DEF TypeOK, CancelClosing, bookVars, turnVars
  <2>11. QED
    BY <1>4, <2>1, <2>2, <2>3, <2>4, <2>5, <2>6, <2>7, <2>8, <2>9, <2>10 DEF AgentStep
<1>5. CASE UNCHANGED vars
  BY <1>0, <1>5 DEF Spawned, vars, taskVars, bookVars, turnVars
<1>6. QED
  BY <1>1, <1>2, <1>3, <1>4, <1>5 DEF Next

-----------------------------------------------------------------------------
(* The planner turn and the executors                                      *)

\* No step takes a result back, except Clear.
LEMMA ResultsStay ==
    ASSUME IInv, Next, NEW a \in Agents, result[a] # "none", ~Clear
    PROVE  result'[a] = result[a]
<1> USE DEF IInv
<1>1. CASE PlannerStep
  BY <1>1, SynthesizedOne
     DEF PlannerStep, NewTurn, Spawn, WaitStart, WaitPoll, WaitReturn, WaitCancelled,
         EndTurn, Store, bookVars
<1>2. CASE CleanupStep \/ InterruptStep
  BY <1>2, SynthesizedOne
     DEF CleanupStep, GatherDone, Announce, InterruptStep, InterruptGather,
         InterruptedGatherDone, InterruptAnnounce, Store, bookVars
<1>3. ASSUME NEW d \in Agents, AgentStep(d) PROVE result'[a] = result[a]
  <2>1. CASE ResolveDeps(d)
    <3>1. d # a /\ Synthesized(config[d].deps)[a] = result[a]
      BY <2>1, SynthesizedOne DEF ResolveDeps, Resolved
    <3>2. QED
      BY <2>1, <3>1, SynthesizedOK DEF ResolveDeps, Store
  <2>2. CASE CloseStage(d)
    BY <2>2 DEF TypeOK, CloseStage, Store, Resolved, Staged, Begun, bookVars
  <2>3. QED
    BY <1>3, <2>1, <2>2
       DEF AgentStep, Start, Acquire, FinishRun, BeginClose, Requeue, Announced, CancelOutside,
           CancelRunning, CancelClosing, bookVars
<1>4. QED
  BY <1>1, <1>2, <1>3 DEF Next

LEMMA SandboxesNext == IInv /\ [Next]_vars => SandboxesKept'
<1> SUFFICES ASSUME IInv, [Next]_vars PROVE SandboxesKept'
  OBVIOUS
<1> USE DEF SandboxesKept, IInv
<1>1. CASE PlannerStep
  <2>1. CASE \E c \in Requests : Spawn(c)
    <3>1. ASSUME NEW a \in holders \cup lost PROVE pc'[a] = pc[a]
      <4>1. a \in Agents /\ pc[a] # "none" /\ Unborn(a)
        BY DEF TypeOK
      <4>2. ~(a > spawned) /\ spawned \in Nat
        BY <4>1 DEF Unborn, TypeOK
      <4>3. a # spawned + 1
        BY <4>1, <4>2 DEF Agents
      <4>4. QED
        BY <2>1, <4>1, <4>3 DEF TypeOK, Spawn
    <3>2. QED
      BY <2>1, <3>1 DEF Spawn
  <2>2. QED
    BY <1>1, <2>1 DEF PlannerStep, NewTurn, WaitStart, WaitPoll, WaitReturn, WaitCancelled,
                      EndTurn, taskVars
<1>2. CASE CleanupStep
  <2>1. CASE Clear
    <3>1. \A a \in holders : a \in registered
      OBVIOUS
    <3>2. holders' = {} /\ lost' = {}
      BY <2>1, <3>1 DEF Clear
    <3>3. QED
      BY <3>2
  <2>2. QED
    BY <1>2, <2>1 DEF CleanupStep, GatherDone, Announce, taskVars
<1>3. CASE InterruptStep
  BY <1>3 DEF InterruptStep, InterruptGather, InterruptedGatherDone, InterruptAnnounce, taskVars
<1>4. ASSUME NEW a \in Agents, AgentStep(a) PROVE SandboxesKept'
  <2>1. /\ pc \in [Agents -> PCs] /\ holders \subseteq Agents /\ lost \subseteq Agents
        /\ pc[a] \in Live
    BY <1>4 DEF TypeOK, AgentStep, ResolveDeps, Start, Acquire, FinishRun, CloseStage,
                Requeue, Announced, CancelOutside, CancelRunning, CancelClosing, Live, HoldsPermit
  <2>2. a \notin lost /\ (a \in holders => pc[a] = "running")
    BY <2>1 DEF Live
  <2>3. \A d \in Agents : d # a => pc'[d] = pc[d]
    BY <1>4, <2>1
       DEF AgentStep, ResolveDeps, Start, Acquire, FinishRun, BeginClose, CloseStage,
           Requeue, Announced, CancelOutside, CancelRunning, CancelClosing
  <2>4. CASE Acquire(a)
    BY <2>1, <2>2, <2>3, <2>4 DEF Acquire, Register
  <2>5. CASE CancelRunning(a) \/ \E o \in {"ok", "failed", "handoff"} : FinishRun(a, o)
    BY <2>1, <2>2, <2>3, <2>5 DEF CancelRunning, FinishRun, BeginClose
  <2>6. CASE CloseStage(a)
    BY <2>1, <2>2, <2>3, <2>6 DEF CloseStage, Release
  <2>7. CASE CancelClosing(a)
    <3>1. a \in registered
      BY <2>7 DEF CancelClosing, Staged, HoldsPermit
    <3>2. QED
      BY <2>1, <2>2, <2>3, <2>7, <3>1 DEF CancelClosing
  <2>8. CASE ResolveDeps(a) \/ Start(a) \/ Requeue(a) \/ Announced(a) \/ CancelOutside(a)
    <3>1. holders' = holders /\ lost' = lost /\ registered' = registered
      BY <2>8 DEF ResolveDeps, Start, Requeue, Announced, CancelOutside
    <3>2. a \notin holders
      BY <2>2, <2>8 DEF ResolveDeps, Start, Requeue, Announced, CancelOutside, HoldsPermit
    <3>3. QED
      BY <2>1, <2>2, <2>3, <3>1, <3>2
  <2>9. QED
    BY <1>4, <2>4, <2>5, <2>6, <2>7, <2>8 DEF AgentStep
<1>5. QED
  BY <1>1, <1>2, <1>3, <1>4 DEF Next, vars, taskVars

LEMMA PhasesNext == IInv /\ [Next]_vars => Phases' /\ WaitedHaveResults'
<1> SUFFICES ASSUME IInv, [Next]_vars PROVE Phases' /\ WaitedHaveResults'
  OBVIOUS
<1> USE SpawnedAgents DEF IInv, Phases, WaitedHaveResults
<1>0. spawned \in Nat
  BY DEF TypeOK
<1>1. CASE PlannerStep
  <2>1. CASE NewTurn
    BY <2>1 DEF NewTurn, Spawned, taskVars, bookVars
  <2>2. ASSUME NEW c \in Requests, Spawn(c) PROVE Phases' /\ WaitedHaveResults'
    BY <1>0, <2>2 DEF Spawn, Spawned
  <2>3. ASSUME NEW ids \in WaitSets, WaitStart(ids) PROVE Phases' /\ WaitedHaveResults'
    BY <2>3 DEF WaitStart, Spawned, Unresolved, taskVars, bookVars
  <2>4. CASE WaitPoll
    BY <2>4, SynthesizedOne DEF WaitPoll, Store, Spawned, taskVars
  <2>5. CASE WaitReturn \/ WaitCancelled \/ EndTurn
    BY <2>5 DEF WaitReturn, WaitCancelled, EndTurn, Spawned
  <2>6. QED
    BY <1>1, <2>1, <2>2, <2>3, <2>4, <2>5 DEF PlannerStep
<1>2. CASE CleanupStep
  <2>1. CASE GatherDone
    BY <1>0, <2>1 DEF GatherDone, Spawned, taskVars, bookVars
  <2>2. CASE Announce
    <3>1. /\ spawned' = spawned /\ pc' = pc /\ planner' = "announcing" /\ planner = "announcing"
          /\ asked' = asked /\ cursor' = cursor + 1 /\ cursor \in Spawned
          /\ result' = Synthesized({cursor})
      BY <2>2 DEF Announce, Store, taskVars
    <3>2. ASSUME NEW a \in Spawned, a < cursor' PROVE result'[a] # "none"
      BY <1>0, <3>1, <3>2, SynthesizedOne DEF Spawned
    <3>3. QED
      BY <1>0, <3>1, <3>2 DEF Spawned
  <2>3. CASE Clear
    BY <2>3 DEF Clear, Spawned
  <2>4. QED
    BY <1>2, <2>1, <2>2, <2>3 DEF CleanupStep
<1>3. CASE InterruptStep
  BY <1>3 DEF InterruptStep, InterruptGather, InterruptedGatherDone, InterruptAnnounce, Spawned
<1>4. ASSUME NEW a \in Agents, AgentStep(a) PROVE Phases' /\ WaitedHaveResults'
  <2>1. /\ UNCHANGED turnVars
        /\ pc[a] \in Live
        /\ \A d \in Agents : d # a => pc'[d] = pc[d]
    BY <1>4 DEF TypeOK, AgentStep, ResolveDeps, Start, Acquire, FinishRun, BeginClose, CloseStage, Requeue,
                Announced, CancelOutside, CancelRunning, CancelClosing, BeginClose, Live, HoldsPermit
  <2>2. a \in Spawned /\ ~Clear
    BY <1>0, <2>1 DEF Unborn, Spawned, Live, Clear, turnVars, Agents
  <2>3. planner # "announcing"
    BY <2>1, <2>2 DEF Live, Over
  <2>4. \A d \in Agents : result[d] # "none" => result'[d] = result[d]
    BY <1>4, <2>2, ResultsStay DEF Next
  <2>5. QED
    BY <2>1, <2>3, <2>4 DEF turnVars, Spawned
<1>5. CASE UNCHANGED vars
  BY <1>5 DEF Spawned, vars, taskVars, bookVars, turnVars
<1>6. QED
  BY <1>1, <1>2, <1>3, <1>4, <1>5 DEF Next

-----------------------------------------------------------------------------
(* The dependency policy                                                   *)

\* An inherited mode is one of the failed dependencies' modes, the highest.
LEMMA InheritedIsHighest ==
    ASSUME NEW a \in Agents, NEW res, FailedDeps(a, res) # {}
    PROVE  /\ Inherited(a, res) \in {"cancel_downstream", "replan"}
           /\ \A d \in FailedDeps(a, res) : res[d] = "replan" => Inherited(a, res) = "replan"
<1> DEFINE modes == {FailureMode(res[d]) : d \in FailedDeps(a, res)}
           Highest(m) == \A n \in modes : Priority[m] >= Priority[n]
<1>1. modes \subseteq {"cancel_downstream", "replan"} /\ modes # {}
  BY DEF FailureMode
<1>2. Priority["cancel_downstream"] = 1 /\ Priority["replan"] = 2
  BY DEF Priority
<1>3. \E m \in modes : Highest(m)
  <2>1. CASE "replan" \in modes
    BY <1>1, <1>2, <2>1
  <2>2. CASE "replan" \notin modes
    BY <1>1, <1>2, <2>2
  <2>3. QED
    BY <2>1, <2>2
<1>4. Inherited(a, res) \in modes /\ Highest(Inherited(a, res))
  <2>1. Inherited(a, res) = CHOOSE m \in modes : Highest(m)
    BY DEF Inherited
  <2> HIDE DEF modes, Highest
  <2>2. QED
    BY <1>3, <2>1
<1>5. ASSUME NEW d \in FailedDeps(a, res), res[d] = "replan"
      PROVE  Inherited(a, res) = "replan"
  <2>1. "replan" \in modes
    BY <1>5 DEF FailureMode
  <2>2. Priority[Inherited(a, res)] >= Priority["replan"]
    BY <1>4, <2>1
  <2>3. Inherited(a, res) \in {"cancel_downstream", "replan"}
    BY <1>1, <1>4
  <2>4. QED
    BY <1>2, <2>2, <2>3
<1>6. QED
  BY <1>1, <1>4, <1>5

\* What the mode that _wait_for_dependencies applies says of the dependencies.
LEMMA EffectiveModeFacts ==
    ASSUME NEW a \in Agents, NEW res
    PROVE  /\ EffectiveMode(a, res) = "degrade" =>
                  FailedDeps(a, res) = {} \/ config[a].mode = "degrade"
           /\ \A d \in FailedDeps(a, res) :
                  res[d] = "replan" /\ config[a].mode = "inherit"
                      => EffectiveMode(a, res) = "replan"
BY InheritedIsHighest DEF EffectiveMode

Policy == DependencyPolicy /\ ReplanClimbs /\ \A a \in Agents : Judged(a)

\* Steps that only add a failure, or the result of a stage that ran, keep the policy.
LEMMA PolicyFrame ==
    ASSUME TypeOK, Policy, config' = config,
           \A a \in Agents : pc'[a] \in Begun => pc[a] \in Begun,
           \A a \in Agents : \/ result'[a] = result[a]
                             \/ result[a] = "none" /\ result'[a] = "failed"
                             \/ /\ result[a] = "none" /\ result'[a] = "ok"
                                /\ pc[a] \in Begun
    PROVE  Policy'
<1>0. \A a \in Agents : config[a].deps \subseteq Agents
  BY DEF TypeOK, Configs
<1>1. DependencyPolicy'
  BY <1>0 DEF Policy, DependencyPolicy
<1>2. ReplanClimbs'
  BY <1>0 DEF Policy, ReplanClimbs
<1>3. (\A a \in Agents : Judged(a))'
  BY <1>0 DEF Policy, Judged
<1>4. QED
  BY <1>1, <1>2, <1>3 DEF Policy

LEMMA PolicyNext == IInv /\ [Next]_vars => Policy'
<1> SUFFICES ASSUME IInv, [Next]_vars PROVE Policy'
  OBVIOUS
<1>0. TypeOK /\ Policy /\ \A a \in Agents : config[a].deps \subseteq Agents
  BY DEF IInv, Policy, TypeOK, Configs
<1>1. CASE PlannerStep
  <2>1. ASSUME NEW c \in Requests, Spawn(c) PROVE Policy'
    <3> DEFINE n == spawned + 1
    <3>0. n \in Agents /\ n > spawned
      BY <2>1, SubAgentsAssumption
         DEF SubAgentsAssumption, IInv, TypeOK, Spawn, CapacityLeft, Agents
    <3>1. /\ result[n] = "none" /\ result' = result
          /\ pc' = [pc EXCEPT ![n] = "waitdeps"] /\ config' = [config EXCEPT ![n] = c]
      BY <2>1, <3>0 DEF IInv, Unborn, Spawn
    <3>2. /\ \A a \in Agents : a # n => config'[a] = config[a] /\ pc'[a] = pc[a]
          /\ pc'[n] \notin Begun
      BY <1>0, <3>0, <3>1 DEF TypeOK, Begun
    <3>3. QED
      BY <1>0, <3>0, <3>1, <3>2 DEF Policy, DependencyPolicy, ReplanClimbs, Judged
  <2>2. CASE WaitPoll
    BY <1>0, <2>2, PolicyFrame, SynthesizedOne DEF WaitPoll, Store, taskVars
  <2>3. CASE NewTurn \/ WaitReturn \/ WaitCancelled \/ EndTurn
                     \/ \E ids \in WaitSets : WaitStart(ids)
    BY <1>0, <2>3, PolicyFrame
       DEF NewTurn, WaitStart, WaitReturn, WaitCancelled, EndTurn, taskVars, bookVars
  <2>4. QED
    BY <1>1, <2>1, <2>2, <2>3 DEF PlannerStep
<1>2. CASE CleanupStep
  <2>1. CASE Announce
    BY <1>0, <2>1, PolicyFrame, SynthesizedOne DEF Announce, Store, taskVars
  <2>2. CASE Clear
    BY <2>2, NoConfigOK DEF Clear, Policy, DependencyPolicy, ReplanClimbs, Judged, Begun
  <2>3. CASE GatherDone
    BY <1>0, <2>3, PolicyFrame
       DEF GatherDone, taskVars, bookVars, turnVars
  <2>4. QED
    BY <1>2, <2>1, <2>2, <2>3 DEF CleanupStep
<1>3. CASE InterruptStep
  <2>1. CASE InterruptAnnounce
    BY <1>0, <2>1, PolicyFrame, SynthesizedOne DEF InterruptAnnounce, Store, taskVars
  <2>2. CASE InterruptGather \/ InterruptedGatherDone
    BY <1>0, <2>2, PolicyFrame
       DEF InterruptGather, InterruptedGatherDone, taskVars, bookVars
  <2>3. QED
    BY <1>3, <2>1, <2>2 DEF InterruptStep
<1>4. ASSUME NEW a \in Agents, AgentStep(a) PROVE Policy'
  <2>1. CASE ResolveDeps(a)
    <3> DEFINE res  == Synthesized(config[a].deps)
               mode == EffectiveMode(a, res)
    <3>1. /\ \/ /\ mode = "degrade"
                /\ pc' = [pc EXCEPT ![a] = "starting"]
                /\ result' = res
             \/ /\ result' = [res EXCEPT ![a] = IF mode = "replan" THEN "replan" ELSE "skipped"]
                /\ pc' = [pc EXCEPT ![a] = "emitting"]
          /\ config' = config
      BY <2>1 DEF ResolveDeps, Store, turnVars
    <3>2. /\ res \in [Agents -> Verdicts \cup {"none"}]
          /\ \A d \in config[a].deps : res[d] # "none"
          /\ \A d \in Agents : \/ res[d] = result[d]
                               \/ result[d] = "none" /\ res[d] = "failed"
          /\ result[a] = "none" /\ res[a] = "none" /\ a \notin config[a].deps
      <4>1. a \in Spawned /\ a \notin config[a].deps /\ result[a] = "none"
        BY <2>1 DEF ResolveDeps, IInv, TypeOK, Unborn, Staged, Resolved, Spawned, Agents
      <4>2. QED
        BY <1>0, <2>1, <4>1, SynthesizedOK, SynthesizedOne DEF ResolveDeps, Over
    <3>3. /\ mode = "degrade" => \A d \in config[a].deps :
                  res[d] = "ok" \/ config[a].mode = "degrade"
          /\ \A d \in config[a].deps :
                  res[d] = "replan" /\ config[a].mode = "inherit" => mode = "replan"
      BY <3>2, EffectiveModeFacts DEF FailedDeps
    <3> HIDE DEF res, mode
    <3>4. \A d \in Agents : d # a => /\ pc'[d] = pc[d]
                                     /\ \/ result'[d] = result[d]
                                        \/ result[d] = "none" /\ result'[d] = "failed"
      BY <1>0, <3>1, <3>2 DEF TypeOK
    <3>5. /\ pc'[a] \in Begun \/ result'[a] = "ok" => mode = "degrade"
          /\ \A d \in config[a].deps : result'[d] = res[d]
          /\ result'[a] = "skipped" => mode # "replan"
      BY <1>0, <3>1, <3>2 DEF TypeOK, Begun
    <3>6. DependencyPolicy'
      BY <1>0, <3>1, <3>2, <3>3, <3>4, <3>5 DEF Policy, DependencyPolicy
    <3>7. ReplanClimbs'
      BY <1>0, <3>1, <3>2, <3>3, <3>4, <3>5 DEF Policy, ReplanClimbs, Judged
    <3>8. (\A b \in Agents : Judged(b))'
      BY <1>0, <3>1, <3>2, <3>4, <3>5 DEF Policy, Judged
    <3>9. QED
      BY <3>6, <3>7, <3>8 DEF Policy
  <2>2. CASE CloseStage(a)
    <3>1. result[a] = "none" /\ pc[a] \in Begun /\ config' = config
      BY <2>2 DEF CloseStage, IInv, Resolved, Begun, turnVars
    <3>2. QED
      BY <1>0, <2>2, <3>1, PolicyFrame DEF TypeOK, CloseStage, Store, bookVars
  <2>3. CASE Start(a) \/ Requeue(a) \/ Acquire(a) \/ Announced(a) \/ CancelOutside(a)
             \/ CancelRunning(a) \/ CancelClosing(a)
             \/ \E o \in {"ok", "failed", "handoff"} : FinishRun(a, o)
    <3>1. config' = config /\ result' = result /\ \A d \in Agents : pc'[d] \in Begun => pc[d] \in Begun
      BY <1>0, <2>3
         DEF TypeOK, Begun, Start, Requeue, Acquire, Announced, CancelOutside, CancelRunning,
             CancelClosing, FinishRun, BeginClose, bookVars, turnVars
    <3>2. QED
      BY <1>0, <3>1, PolicyFrame
  <2>4. QED
    BY <1>4, <2>1, <2>2, <2>3 DEF AgentStep
<1>5. CASE UNCHANGED vars
  BY <1>0, <1>5, PolicyFrame DEF vars, taskVars, bookVars, turnVars
<1>6. QED
  BY <1>1, <1>2, <1>3, <1>4, <1>5 DEF Next

-----------------------------------------------------------------------------
(* The permits of the semaphore                                            *)

Holding == {a \in Agents : pc[a] \in HoldsPermit}

LEMMA AgentsFinite == \A S \in SUBSET Agents : IsFiniteSet(S) /\ Cardinality(S) \in Nat
<1>1. IsFiniteSet(Agents)
  BY SubAgentsAssumption, FS_Interval DEF SubAgentsAssumption, Agents
<1>2. ASSUME NEW S \in SUBSET Agents PROVE IsFiniteSet(S) /\ Cardinality(S) \in Nat
  BY <1>1, FS_Subset, FS_CardinalityType
<1>3. QED
  BY <1>2

LEMMA PermitsInit == Init => PermitsConserved
<1> SUFFICES ASSUME Init PROVE PermitsConserved
  OBVIOUS
<1>1. Holding = {}
  BY DEF Init, Holding, HoldsPermit
<1>2. QED
  BY <1>1, FS_EmptySet, SubAgentsAssumption
     DEF SubAgentsAssumption, Init, PermitsConserved, Holding

LEMMA PermitsNext == IInv /\ [Next]_vars => PermitsConserved'
<1> SUFFICES ASSUME IInv, [Next]_vars PROVE PermitsConserved'
  OBVIOUS
<1>0. /\ permits + Cardinality(Holding) = MaxConcurrent /\ permits \in Nat
      /\ IsFiniteSet(Holding) /\ Cardinality(Holding) \in Nat
  BY AgentsFinite DEF IInv, TypeOK, PermitsConserved, Holding
<1>1. CASE permits' = permits /\ Holding' = Holding
  BY <1>0, <1>1 DEF PermitsConserved, Holding
<1>2. ASSUME NEW a \in Agents, Acquire(a) PROVE PermitsConserved'
  <2>1. a \notin Holding /\ Holding' = Holding \cup {a} /\ permits' = permits - 1
    BY <1>2 DEF IInv, TypeOK, Acquire, Holding, HoldsPermit
  <2>2. Cardinality(Holding') = Cardinality(Holding) + 1
    BY <1>0, <2>1, FS_AddElement
  <2>3. QED
    BY <1>0, <2>1, <2>2 DEF PermitsConserved, Holding
<1>3. ASSUME NEW a \in Agents, CloseStage(a) \/ CancelClosing(a) PROVE PermitsConserved'
  <2>1. a \in Holding /\ Holding' = Holding \ {a} /\ permits' = permits + 1
    BY <1>3 DEF IInv, TypeOK, CloseStage, Release, CancelClosing, Holding, HoldsPermit
  <2>2. Cardinality(Holding') = Cardinality(Holding) - 1
    BY <1>0, <2>1, FS_RemoveElement
  <2>3. QED
    BY <1>0, <2>1, <2>2 DEF PermitsConserved, Holding
<1>4. CASE PlannerStep
  <2>1. ASSUME NEW c \in Requests, Spawn(c) PROVE permits' = permits /\ Holding' = Holding
    <3>1. pc' = [pc EXCEPT ![spawned + 1] = "waitdeps"] /\ permits' = permits
      BY <2>1 DEF Spawn
    <3>2. \A a \in Agents : a = spawned + 1 => pc[a] = "none"
      BY DEF IInv, TypeOK, Unborn
    <3>3. QED
      BY <3>1, <3>2 DEF IInv, TypeOK, Holding, HoldsPermit
  <2>2. QED
    BY <1>1, <1>4, <2>1
       DEF PlannerStep, NewTurn, WaitStart, WaitPoll, WaitReturn, WaitCancelled, EndTurn,
           Holding, taskVars
<1>5. CASE CleanupStep
  <2>1. CASE Clear
    <3>1. \A a \in Agents : pc[a] \notin HoldsPermit
      BY <2>1 DEF IInv, TypeOK, Phases, Unborn, Clear, HoldsPermit, Over, Spawned, Agents
    <3>2. permits' = permits /\ Holding' = Holding
      BY <2>1, <3>1 DEF Clear, Holding, HoldsPermit
    <3>3. QED
      BY <1>1, <3>2
  <2>2. QED
    BY <1>1, <1>5, <2>1
       DEF CleanupStep, GatherDone, Announce, Holding, taskVars
<1>6. CASE InterruptStep
  BY <1>1, <1>6
     DEF InterruptStep, InterruptGather, InterruptedGatherDone, InterruptAnnounce,
         Holding, taskVars
<1>7. ASSUME NEW a \in Agents, AgentStep(a) PROVE PermitsConserved'
  <2>1. CASE ~(Acquire(a) \/ CloseStage(a) \/ CancelClosing(a))
    <3>1. /\ permits' = permits
          /\ \A d \in Agents : (pc'[d] \in HoldsPermit) = (pc[d] \in HoldsPermit)
      BY <1>7, <2>1
         DEF IInv, TypeOK, AgentStep, ResolveDeps, Start, FinishRun, BeginClose, Requeue,
             Announced, CancelOutside, CancelRunning, HoldsPermit, Live
    <3>2. QED
      BY <1>1, <3>1 DEF Holding
  <2>2. QED
    BY <1>2, <1>3, <2>1
<1>8. CASE UNCHANGED vars
  BY <1>1, <1>8 DEF vars, taskVars, Holding
<1>9. QED
  BY <1>4, <1>5, <1>6, <1>7, <1>8 DEF Next

-----------------------------------------------------------------------------
(* The theorems                                                            *)

LEMMA InvInit == Init => IInv
BY TypeInit, AgentsInit, PermitsInit
   DEF IInv, Init, Judged, SandboxesKept, Phases, DependencyPolicy, ReplanClimbs,
       WaitedHaveResults, Begun

LEMMA InvNext == IInv /\ [Next]_vars => IInv'
BY TypeNext, AgentsNext, SandboxesNext, PhasesNext, PolicyNext, PermitsNext
   DEF IInv, Policy, Agents

\* The inductive invariant holds in every reachable state.
THEOREM Invariant == Spec => []IInv
BY InvInit, InvNext, PTL DEF Spec

\* Types: every field of SubAgentManager keeps its shape.
THEOREM TypeCorrect == Spec => []TypeOK
<1>1. IInv => TypeOK
  BY DEF IInv
<1>2. QED
  BY <1>1, Invariant, PTL

\* _semaphore never leaks or doubles a permit, for any number of agents,
\* handoffs and cancellations.
THEOREM PermitSafety == Spec => []PermitsConserved
<1>1. IInv => PermitsConserved
  BY DEF IInv
<1>2. QED
  BY <1>1, Invariant, PTL

\* _wait_for_dependencies lets an agent run only on good or waived dependencies.
THEOREM PolicySafety == Spec => []DependencyPolicy
<1>1. IInv => DependencyPolicy
  BY DEF IInv
<1>2. QED
  BY <1>1, Invariant, PTL

\* A request to re-plan is not lost on its way up a chain of inheriting agents, of any
\* length (_wait_for_dependencies).
THEOREM ReplanSafety == Spec => []ReplanClimbs
<1>1. IInv => ReplanClimbs
  BY DEF IInv
<1>2. QED
  BY <1>1, Invariant, PTL

\* No agent of a turn is announced complete twice.
THEOREM CompleteOnce == Spec => []AtMostOneComplete
<1>1. IInv => AtMostOneComplete
  BY DEF IInv, Resolved, AtMostOneComplete
<1>2. QED
  BY <1>1, Invariant, PTL

\* Sandboxes are in the table of a registered executor whose stage goes on, or were
\* lost to a cancel inside its cleanup.
THEOREM SandboxSafety == Spec => []SandboxesKept
<1>1. IInv => SandboxesKept
  BY DEF IInv
<1>2. QED
  BY <1>1, Invariant, PTL

\* The reserved token estimates are those of the agents without a result.
THEOREM ReservationSafety == Spec => []ReservationsExact
<1>1. IInv => ReservationsExact
  <2> SUFFICES ASSUME IInv PROVE ReservationsExact
    OBVIOUS
  <2>1. \A a \in Agents : (a \in reserved) = (Budget > 0 /\ a \in Unresolved)
    BY SubAgentsAssumption DEF SubAgentsAssumption, IInv, Resolved, Unresolved
  <2>2. Unresolved \subseteq Agents /\ reserved \subseteq Agents
    BY SpawnedAgents DEF IInv, TypeOK, Unresolved
  <2>3. QED
    BY <2>1, <2>2 DEF ReservationsExact
<1>2. QED
  BY <1>1, Invariant, PTL

\* agent_wait knows the result of every agent it stops polling.
THEOREM WaitSafety == Spec => []WaitedHaveResults
<1>1. IInv => WaitedHaveResults
  BY DEF IInv
<1>2. QED
  BY <1>1, Invariant, PTL

-----------------------------------------------------------------------------
(* The task graph: the planner's spawn is Submit, the clear() calls at the end of cleanup()
   are Forget, and every other step advances some tasks or stutters.       *)

\* An agent's abstract stage, written for one agent.
StageAt(a) ==
    IF a \notin Spawned THEN "absent"
    ELSE IF result[a] # "none" THEN "settled"
    ELSE IF pc[a] \in Over THEN "stopped"
    ELSE IF pc[a] = "waitdeps" THEN "waiting"
    ELSE "running"

LEMMA StageOfAt == stageOf = [a \in Agents |-> StageAt(a)]
BY DEF stageOf, StageAt

\* One agent of a step of TaskGraph's Advance.
AdvanceAt(a) ==
    \/ StageAt(a)' = StageAt(a) /\ result'[a] = result[a]
    \/ /\ StageAt(a) = "waiting" /\ StageAt(a)' = "running" /\ result'[a] = result[a]
       /\ \A d \in config[a].deps :
              \/ result'[d] = "ok"
              \/ config[a].mode = "degrade" /\ result'[d] # "none"
    \/ /\ StageAt(a) \in {"waiting", "running"} /\ StageAt(a)' = "stopped"
       /\ result'[a] = result[a]
    \/ /\ StageAt(a) \in {"waiting", "running", "stopped"} /\ StageAt(a)' = "settled"
       /\ result[a] = "none" /\ result'[a] # "none"
       /\ result'[a] = "ok" => StageAt(a) = "running"

LEMMA AdvanceStep ==
    ASSUME TypeOK, config' = config, \A a \in Agents : AdvanceAt(a)
    PROVE  Graph!Advance
<1>1. /\ stageOf = [a \in Agents |-> StageAt(a)]
      /\ stageOf' = [a \in Agents |-> StageAt(a)']
  BY StageOfAt DEF stageOf, StageAt
<1>2. ASSUME NEW a \in Agents
      PROVE  Graph!Stays(a) \/ Graph!Starts(a) \/ Graph!Stops(a) \/ Graph!Settles(a)
  <2>1. stageOf[a] = StageAt(a) /\ stageOf'[a] = StageAt(a)' /\ AdvanceAt(a)
    BY <1>1
  <2>2. \A d \in config[a].deps : d \in Agents
    BY DEF TypeOK, Configs
  <2> HIDE DEF stageOf, StageAt
  <2>3. QED
    BY <2>1, <2>2 DEF AdvanceAt, Graph!Stays, Graph!Starts, Graph!Stops, Graph!Settles
<1>3. QED
  BY <1>2 DEF Graph!Advance

\* Neither a step of the planner's other tools nor a failure synthesized for a
\* stopped task goes beyond Advance.
LEMMA BookStep ==
    ASSUME IInv, UNCHANGED <<config, spawned, pc>>,
           \A a \in Agents :
               \/ result'[a] = result[a]
               \/ /\ a \in Spawned /\ pc[a] \in Over
                  /\ result[a] = "none" /\ result'[a] = "failed"
    PROVE  Graph!Advance
<1>1. ASSUME NEW a \in Agents PROVE AdvanceAt(a)
  BY DEF AdvanceAt, StageAt, Spawned
<1>2. QED
  BY <1>1, AdvanceStep DEF IInv

LEMMA SynthesizedAdvances ==
    ASSUME IInv, UNCHANGED <<config, spawned, pc>>, NEW S, result' = Synthesized(S)
    PROVE  Graph!Advance
<1>1. ASSUME NEW a \in Agents, result'[a] # result[a]
      PROVE  /\ a \in Spawned /\ pc[a] \in Over
             /\ result[a] = "none" /\ result'[a] = "failed"
  <2>1. pc[a] \in Over /\ result[a] = "none" /\ result'[a] = "failed"
    BY <1>1, SynthesizedOne
  <2>2. a \in Spawned
    BY <2>1 DEF IInv, TypeOK, Unborn, Over, Spawned, Agents
  <2>3. QED
    BY <2>1, <2>2
<1>2. QED
  BY <1>1, BookStep

LEMMA SpawnSubmits ==
    ASSUME IInv, NEW c \in Requests, Spawn(c)
    PROVE  \E t \in Agents : Graph!Submit(t)
<1>0. spawned + 1 \in Agents /\ spawned + 1 \notin Spawned /\ spawned \in Nat
  BY SubAgentsAssumption
     DEF SubAgentsAssumption, IInv, TypeOK, Spawn, CapacityLeft, Spawned, Agents
<1> PICK n \in Agents : n = spawned + 1
  BY <1>0
<1>1. n \in Agents /\ n \notin Spawned /\ spawned \in Nat /\ n = spawned + 1
  BY <1>0
<1>2. /\ spawned' = n /\ config' = [config EXCEPT ![n] = c] /\ result' = result
      /\ pc' = [pc EXCEPT ![n] = "waitdeps"] /\ c.deps \subseteq Spawned /\ c \in Configs
  BY <1>1, RequestsAssumption DEF RequestsAssumption, Spawn
<1>3. result[n] = "none"
  BY <1>1 DEF IInv, Unborn, Spawned
<1>4. \A a \in Agents : StageAt(a)' = IF a = n THEN "waiting" ELSE StageAt(a)
  BY <1>1, <1>2, <1>3 DEF IInv, TypeOK, StageAt, Spawned, Over
<1>5. stageOf' = [stageOf EXCEPT ![n] = "waiting"]
  <2>1. stageOf' = [a \in Agents |-> StageAt(a)'] /\ stageOf = [a \in Agents |-> StageAt(a)]
    BY DEF stageOf, StageAt
  <2> HIDE DEF StageAt
  <2>2. QED
    BY <1>1, <1>4, <2>1
<1>6. stageOf[n] = "absent" /\ \A a \in Spawned : stageOf[a] # "absent"
  BY <1>1, SpawnedAgents DEF IInv, stageOf
<1>7. c.deps \in SUBSET {d \in Agents : stageOf[d] # "absent"}
  BY <1>2, <1>6, SpawnedAgents DEF IInv
<1>8. /\ [a \in Agents |-> config'[a].deps]
              = [[a \in Agents |-> config[a].deps] EXCEPT ![n] = c.deps]
      /\ [a \in Agents |-> config'[a].mode = "degrade"]
              = [[a \in Agents |-> config[a].mode = "degrade"] EXCEPT ![n] = (c.mode = "degrade")]
  BY <1>1, <1>2 DEF IInv, TypeOK
<1>9. (c.mode = "degrade") \in BOOLEAN
  OBVIOUS
<1> HIDE DEF stageOf
<1>10. Graph!Submit(n)
  BY <1>1, <1>2, <1>5, <1>6, <1>7, <1>8, <1>9 DEF Graph!Submit
<1>11. QED
  BY <1>10

LEMMA ClearForgets ==
    ASSUME IInv, Clear
    PROVE  Graph!Forget
<1>1. \A a \in Agents : stageOf[a] \in {"absent", "settled"}
  <2>1. ASSUME NEW a \in Spawned PROVE a \in Agents /\ result[a] # "none"
    <3>1. spawned \in Nat /\ cursor \in Nat /\ a \in Nat /\ a <= spawned /\ a \in Agents
      BY <2>1, SpawnedAgents DEF IInv, TypeOK, Spawned
    <3>2. a < cursor
      BY <3>1 DEF IInv, Phases, Clear, Spawned
    <3>3. QED
      BY <2>1, <3>1, <3>2 DEF IInv, Phases, Clear
  <2>2. QED
    BY <2>1 DEF stageOf
<1>2. stageOf' = [a \in Agents |-> "absent"]
  BY DEF Clear, stageOf, Spawned, Agents
<1>3. /\ [a \in Agents |-> config'[a].deps] = [a \in Agents |-> {}]
      /\ [a \in Agents |-> config'[a].mode = "degrade"] = [a \in Agents |-> FALSE]
  BY SubAgentsAssumption, NoConfigOK DEF Clear, NoConfig
<1>4. QED
  BY <1>1, <1>2, <1>3 DEF Graph!Forget, Clear

LEMMA AgentAdvances ==
    ASSUME IInv, NEW a \in Agents, AgentStep(a)
    PROVE  Graph!Advance
<1>0. /\ TypeOK /\ a \in Spawned /\ spawned' = spawned /\ config' = config
      /\ Staged(a) /\ Resolved(a)
      /\ \A d \in Agents : d # a => pc'[d] = pc[d]
  <2>1. pc[a] \in Live /\ UNCHANGED turnVars /\ \A d \in Agents : d # a => pc'[d] = pc[d]
    BY DEF IInv, TypeOK, AgentStep, ResolveDeps, Start, Acquire, FinishRun, BeginClose, CloseStage, Requeue,
           Announced, CancelOutside, CancelRunning, CancelClosing, BeginClose, Live, HoldsPermit
  <2>2. a \in Spawned
    BY <2>1 DEF IInv, TypeOK, Unborn, Live, Spawned, Agents
  <2>3. QED
    BY <2>1, <2>2 DEF IInv, turnVars
<1>1. CASE ResolveDeps(a)
  <2> DEFINE res  == Synthesized(config[a].deps)
             mode == EffectiveMode(a, res)
  <2>1. \/ /\ mode = "degrade" /\ result' = res /\ pc' = [pc EXCEPT ![a] = "starting"]
        \/ /\ result' = [res EXCEPT ![a] = IF mode = "replan" THEN "replan" ELSE "skipped"]
           /\ pc' = [pc EXCEPT ![a] = "emitting"]
    BY <1>1 DEF ResolveDeps, Store
  <2>2. /\ res \in [Agents -> Verdicts \cup {"none"}]
        /\ res[a] = "none" /\ result[a] = "none" /\ pc[a] = "waitdeps"
    BY <1>0, <1>1, SynthesizedOK, SynthesizedOne DEF ResolveDeps, Resolved, Over
  <2>3. \A d \in Agents : \/ res[d] = result[d]
                          \/ pc[d] \in Over /\ result[d] = "none" /\ res[d] = "failed"
    BY SynthesizedOne
  <2>4. \A d \in Agents : pc[d] \in Over => d \in Spawned
    BY DEF IInv, TypeOK, Unborn, Over, Spawned, Agents
  <2> HIDE DEF res, mode
  <2>5. ASSUME NEW d \in Agents, d # a PROVE AdvanceAt(d)
    BY <1>0, <2>1, <2>2, <2>3, <2>4, <2>5 DEF AdvanceAt, StageAt, Spawned
  <2>6. AdvanceAt(a)
    <3>1. CASE result' = res /\ pc' = [pc EXCEPT ![a] = "starting"]
      <4>1. (DependencyPolicy)'
        BY PolicyNext DEF Policy, Next
      <4>2. \A d \in config[a].deps :
              \/ result'[d] = "ok"
              \/ config[a].mode = "degrade" /\ result'[d] # "none"
        BY <1>0, <3>1, <4>1 DEF TypeOK, DependencyPolicy, Begun
      <4>3. StageAt(a) = "waiting" /\ StageAt(a)' = "running" /\ result'[a] = result[a]
        BY <1>0, <2>2, <3>1 DEF TypeOK, StageAt, Spawned, Over
      <4>4. QED
        BY <4>2, <4>3 DEF AdvanceAt
    <3>2. CASE result' = [res EXCEPT ![a] = IF mode = "replan" THEN "replan" ELSE "skipped"]
      BY <1>0, <2>2, <3>2 DEF AdvanceAt, StageAt, Spawned, Over
    <3>3. QED
      BY <2>1, <3>1, <3>2
  <2>7. QED
    BY <1>0, <2>5, <2>6, AdvanceStep
<1>2. CASE CloseStage(a)
  <2>1. ASSUME NEW d \in Agents, d # a PROVE AdvanceAt(d)
    BY <1>0, <1>2, <2>1 DEF TypeOK, CloseStage, Store, AdvanceAt, StageAt, Spawned, bookVars
  <2>2. AdvanceAt(a)
    BY <1>0, <1>2
       DEF TypeOK, CloseStage, Store, Resolved, Begun, Over, AdvanceAt, StageAt, Spawned, bookVars
  <2>3. QED
    BY <1>0, <2>1, <2>2, AdvanceStep
<1>3. CASE Start(a) \/ Requeue(a) \/ Acquire(a) \/ Announced(a) \/ CancelOutside(a)
           \/ CancelRunning(a) \/ CancelClosing(a)
           \/ \E o \in {"ok", "failed", "handoff"} : FinishRun(a, o)
  <2>1. /\ result' = result
        /\ \/ pc[a] # "waitdeps" /\ pc'[a] \notin Over \cup {"waitdeps"}
           \/ pc'[a] = "cancelled"
           \/ pc[a] = "emitting"
    BY <1>0, <1>3
       DEF TypeOK, Start, Requeue, Acquire, Announced, CancelOutside, CancelRunning,
           CancelClosing, FinishRun, BeginClose, Over, bookVars
  <2>2. pc[a] \in Live
    BY <1>3 DEF Start, Requeue, Acquire, Announced, CancelOutside, CancelRunning,
                CancelClosing, FinishRun, BeginClose, Live
  <2>3. ASSUME NEW d \in Agents PROVE AdvanceAt(d)
    BY <1>0, <2>1, <2>2 DEF AdvanceAt, StageAt, Spawned, Over, Live, Resolved
  <2>4. QED
    BY <1>0, <2>3, AdvanceStep
<1>4. QED
  BY <1>1, <1>2, <1>3 DEF AgentStep

LEMMA GraphNext == IInv /\ [Next]_vars => [Graph!GNext]_(Graph!gvars)
<1> SUFFICES ASSUME IInv, [Next]_vars PROVE Graph!GNext \/ UNCHANGED Graph!gvars
  OBVIOUS
<1> USE DEF Graph!GNext
<1>1. CASE \E c \in Requests : Spawn(c)
  BY <1>1, SpawnSubmits
<1>2. CASE Clear
  BY <1>2, ClearForgets
<1>3. CASE WaitPoll
  BY <1>3, SynthesizedAdvances DEF WaitPoll, Store, taskVars
<1>4. CASE Announce \/ InterruptAnnounce
  BY <1>4, SynthesizedAdvances DEF Announce, InterruptAnnounce, Store, taskVars
<1>5. CASE \E a \in Agents : AgentStep(a)
  BY <1>5, AgentAdvances
<1>6. ASSUME UNCHANGED <<spawned, config, pc, result>> PROVE UNCHANGED Graph!gvars
  BY <1>6 DEF Graph!gvars, stageOf, Spawned
<1>7. CASE NewTurn \/ WaitReturn \/ WaitCancelled \/ EndTurn \/ \E ids \in WaitSets : WaitStart(ids)
  BY <1>6, <1>7 DEF NewTurn, WaitReturn, WaitCancelled, EndTurn, WaitStart, taskVars, bookVars
<1>8. CASE GatherDone \/ InterruptGather \/ InterruptedGatherDone
  BY <1>6, <1>8
     DEF GatherDone, InterruptGather, InterruptedGatherDone, taskVars, bookVars, turnVars
<1>9. CASE UNCHANGED vars
  BY <1>6, <1>9 DEF vars, taskVars, bookVars, turnVars
<1>10. QED
  BY <1>1, <1>2, <1>3, <1>4, <1>5, <1>7, <1>8, <1>9
     DEF Next, PlannerStep, CleanupStep, InterruptStep

\* SubAgentManager keeps what TaskGraph promises: no agent starts before its
\* dependencies have settled well, no result is overwritten, and only an agent
\* that ran succeeds.
THEOREM Refinement == Spec => ImplementsTaskGraph
<1>1. ASSUME Init PROVE Graph!GInit
  <2>1. stageOf = [a \in Agents |-> "absent"]
    BY <1>1 DEF Init, stageOf, Spawned, Agents
  <2>2. /\ [a \in Agents |-> config[a].deps] = [a \in Agents |-> {}]
        /\ [a \in Agents |-> config[a].mode = "degrade"] = [a \in Agents |-> FALSE]
    BY <1>1, NoConfigOK DEF Init, NoConfig
  <2>3. QED
    BY <1>1, <2>1, <2>2 DEF Init, Graph!GInit
<1>2. QED
  BY <1>1, GraphNext, Invariant, PTL DEF Spec, ImplementsTaskGraph, Graph!GSpec
===============================================================================
