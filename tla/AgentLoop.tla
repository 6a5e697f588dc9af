----------------------------- MODULE AgentLoop -----------------------------
(***************************************************************************)
(* One runtime and its ReAct loop (agent/runtime/engine.py): the turns of  *)
(* an orchestrator or a planner, or the single run of a task agent, on a   *)
(* message history that tool calls, compaction, cancellation and errors    *)
(* all change.                                                             *)
(*                                                                         *)
(* The loop works on a copy, messages; the runtime has stored kept, which  *)
(* it replaces only when the loop returns.  What the model answers and     *)
(* what a tool returns are choices of the environment.                     *)
(***************************************************************************)
EXTENDS Compaction

CONSTANTS
    Modes,          \* of "web", "planner" and "worker"
    TurnLimit,      \* TurnLimit[mode]: bound on the messages a user sends; a worker gets one
    MaxIterations,  \* MaxIterations[mode]: max_iterations of the runtime
    MaxCalls,       \* bound on the tool calls of a response
    Weights,        \* of what users, models and tools write
    Skills,
    Nil             \* no skill

ASSUME LoopAssumption ==
    /\ Nil \notin Skills
    /\ TurnLimit \in [Modes -> Nat] /\ MaxIterations \in [Modes -> Nat]
    /\ Weights \subseteq Nat

VARIABLES
    mode,       \* the LoopPolicy: orchestrator, planner with an explicit request, worker
    sent,       \* messages sent so far
    messages,   \* state.messages of the loop
    kept,       \* self._state.messages of the runtime
    base,       \* _current_turn_base_messages
    stage,      \* where the turn is suspended
    iteration,
    completed,  \* state.completed
    failed,     \* state.error
    signalled, \* _cancel_event
    finished,   \* a summary of task_complete, or a handoff, is waiting
    batch,      \* the tool calls of the last response: id, how many, how many answered
    offered,    \* the skill whose tools and prompt the model is offered
    pendingSkill,   \* _pending_mid_turn_update
    allowed,    \* the skill to whose tools the executor restricts calls
    injected,   \* _auto_injected_skill
    planned,    \* planner_state.has_plan
    workers,    \* whether workers of this turn were spawned, and waited for
    nudges,     \* _explicit_policy_nudge_count
    broken      \* batches whose processing ended in an exception

history  == <<messages, kept, base>>
verdict  == <<completed, failed, finished>>
skillVars == <<offered, pendingSkill, allowed, injected>>
planVars == <<planned, workers, nudges>>
loopVars == <<mode, sent, history, stage, iteration, verdict, signalled, batch, skillVars,
              planVars, broken>>

-----------------------------------------------------------------------------
(* The turn around the loop: _run_locked, _execute_loop *)

\* Quotas, tool restrictions and the planner's state are reset; then a skill may match.
Begin ==
    /\ stage = "idle" /\ sent < TurnLimit[mode]
    /\ sent' = sent + 1
    /\ base' = kept
    /\ finished' = FALSE
    /\ planned' = FALSE /\ workers' = "none" /\ nudges' = 0
    /\ pendingSkill' = Nil
    /\ stage' = "setup"
    /\ \E s \in Skills \cup {Nil} : injected' = s
    /\ offered' = Nil /\ allowed' = Nil
    /\ UNCHANGED <<mode, messages, kept, iteration, completed, failed, signalled, batch, broken>>

\* Only now, with skill and attachments in place, does the history get the message.
SetUp ==
    /\ stage = "setup"
    /\ offered' = injected /\ allowed' = injected
    /\ \E w \in Weights : kept' = Append(kept, Ask(sent, w))
    /\ messages' = kept'
    /\ completed' = FALSE /\ failed' = FALSE /\ iteration' = 0
    /\ stage' = "top"
    /\ UNCHANGED <<mode, sent, base, finished, signalled, batch, pendingSkill, injected,
                   planVars, broken>>

\* A skill that cannot be staged or an attachment that cannot be uploaded ends the turn
\* before its loop, and without finalize_conversation_turn.
SetUpFails ==
    /\ stage = "setup"
    /\ stage' = "idle"
    /\ UNCHANGED <<mode, sent, history, iteration, verdict, signalled, batch, skillVars,
                   planVars, broken>>

Return ==
    /\ stage = "top" /\ (completed \/ failed \/ signalled)
    /\ kept' = messages
    /\ stage' = "finish"
    /\ UNCHANGED <<mode, sent, messages, base, iteration, verdict, signalled, batch, skillVars,
                   planVars, broken>>

\* finalize_conversation_turn: a signalled turn is taken out of the history.
Finish ==
    /\ stage = "finish"
    /\ stage' = "idle"
    /\ IF signalled
       THEN kept' = base /\ signalled' = FALSE /\ completed' = FALSE /\ failed' = FALSE
       ELSE UNCHANGED <<kept, signalled, completed, failed>>
    /\ messages' = kept'
    /\ UNCHANGED <<mode, sent, base, iteration, finished, batch, skillVars, planVars, broken>>

\* The task is cancelled, or an exception leaves the loop: what the loop did is gone, the
\* user's message stays.  After the loop the turn stays whole, signalled or not.
BreakOff ==
    /\ stage \notin {"idle", "setup"}
    /\ stage' = "idle"
    /\ messages' = kept
    /\ IF stage = "finish"
       THEN signalled' \in {FALSE, signalled} /\ UNCHANGED <<completed, failed>>
       ELSE completed' = FALSE /\ failed' = FALSE /\ UNCHANGED signalled
    /\ UNCHANGED <<mode, sent, kept, base, iteration, finished, batch, skillVars, planVars, broken>>

SignalStop ==
    /\ stage # "idle" /\ mode # "worker" /\ ~signalled
    /\ signalled' = TRUE
    /\ UNCHANGED <<mode, sent, history, stage, iteration, verdict, batch, skillVars, planVars, broken>>

\* rollback_to_before_last_user_message; the route then sends the message again.
Rollback ==
    LET asks == {i \in DOMAIN kept : kept[i].kind = "ask"} IN
    /\ stage = "idle" /\ mode # "worker" /\ asks # {}
    /\ kept' = SubSeq(kept, 1, Greatest(asks) - 1)
    /\ messages' = kept'
    /\ completed' = FALSE /\ failed' = FALSE
    /\ UNCHANGED <<mode, sent, base, stage, iteration, finished, signalled, batch, skillVars,
                   planVars, broken>>

-----------------------------------------------------------------------------
(* The loop: AgentLoop.run_turn and _run_iteration *)

Iterate ==
    /\ stage = "top" /\ ~completed /\ ~failed /\ ~signalled
    /\ iteration' = iteration + 1
    /\ messages' \in Compactions(messages)
    /\ IF iteration' > MaxIterations[mode]
       THEN failed' = TRUE /\ UNCHANGED stage
       ELSE stage' = "llm" /\ UNCHANGED failed
    /\ UNCHANGED <<mode, sent, kept, base, completed, finished, signalled, batch, skillVars,
                   planVars, broken>>

\* The explicit planner policy: the nudges before the third let the loop go on, the third
\* ends the turn.
Unmet == mode = "planner" /\ (~planned \/ workers = "spawned")
Nudge ==
    /\ nudges' = nudges + 1
    /\ failed' = (nudges' >= 3)
    /\ finished' = FALSE
    /\ UNCHANGED completed

LlmFails ==
    /\ stage = "llm"
    /\ failed' = TRUE /\ stage' = "top"
    /\ UNCHANGED <<mode, sent, history, iteration, completed, finished, signalled, batch,
                   skillVars, planVars, broken>>

\* No tool calls: a text, or nothing at all, which is not recorded.  A question for
\* clarification is exempt from the policy.
Answer ==
    /\ stage = "llm"
    /\ \/ UNCHANGED messages
       \/ \E w \in Weights : messages' = Append(messages, Text(w))
    /\ stage' = "top"
    /\ \/ Unmet /\ Nudge
       \/ /\ Unmet => messages' # messages
          /\ completed' = TRUE /\ UNCHANGED <<failed, finished, nudges>>
    /\ UNCHANGED <<mode, sent, kept, base, iteration, signalled, batch, skillVars, planned,
                   workers, broken>>

\* Call ids are unique: the turn and the iteration tell the batches apart.
FreshId == sent * (MaxIterations[mode] + 1) + iteration

CallTools ==
    /\ stage = "llm"
    /\ \E n \in 1 .. MaxCalls :
          /\ batch' = [id |-> FreshId, size |-> n, answered |-> 0]
          /\ messages' = Append(messages, Use(FreshId, n))
    /\ stage' = "tools"
    /\ UNCHANGED <<mode, sent, kept, base, iteration, verdict, signalled, skillVars, planVars, broken>>

-----------------------------------------------------------------------------
(* process_tool_calls; a parallel batch answers in the same order *)

Running == stage = "tools" /\ batch.answered < batch.size

\* After a signal the rest is skipped, with results that say so.
Answered == batch' = [batch EXCEPT !.answered = IF signalled THEN batch.size ELSE @ + 1]

\* A tool that succeeds or fails.
RunTool ==
    /\ Running
    /\ Answered
    /\ UNCHANGED <<mode, sent, history, stage, iteration, verdict, signalled, skillVars,
                   planVars, broken>>

\* Mutant: the calls after task_complete get no results.
MutantComplete ==
    /\ Running
    /\ finished' = TRUE
    /\ batch' = [batch EXCEPT !.size = batch.answered + 1, !.answered = @ + 1]
    /\ UNCHANGED <<mode, sent, history, stage, iteration, completed, failed, signalled,
                   skillVars, planVars, broken>>

\* task_complete, or a worker's agent_handoff: the rest is skipped.
Complete ==
    /\ Running
    /\ finished' = TRUE
    /\ batch' = [batch EXCEPT !.answered = batch.size]
    /\ UNCHANGED <<mode, sent, history, stage, iteration, completed, failed, signalled,
                   skillVars, planVars, broken>>

\* plan_create, agent_spawn and agent_wait of the planner.
Plan ==
    /\ Running /\ mode = "planner"
    /\ Answered
    /\ \/ planned' = TRUE /\ UNCHANGED workers
       \/ workers = "none" /\ workers' = "spawned" /\ UNCHANGED planned
       \/ workers = "spawned" /\ workers' = "waited" /\ UNCHANGED planned
    /\ UNCHANGED <<mode, sent, history, stage, iteration, verdict, signalled, skillVars,
                   nudges, broken>>

\* Mutant: the tools and the prompt of the skill are not put aside for the next iteration.
MutantActivate(s) ==
    /\ Running /\ s # injected
    /\ Answered
    /\ injected' = s /\ allowed' = s
    /\ UNCHANGED <<mode, sent, history, stage, iteration, verdict, signalled, planVars,
                   offered, pendingSkill, broken>>

\* apply_mid_turn after a successful activate_skill.
Activate(s) ==
    /\ Running
    /\ Answered
    /\ IF s = injected
       THEN UNCHANGED skillVars
       ELSE injected' = s /\ allowed' = s /\ pendingSkill' = s /\ UNCHANGED offered
    /\ UNCHANGED <<mode, sent, history, stage, iteration, verdict, signalled, planVars, broken>>

\* The skill cannot be staged or its dependencies not installed: the exception passes
\* through process_tool_calls, and the results of the batch are not recorded.
ActivateFails(s) ==
    /\ Running /\ s # injected
    /\ injected' = s /\ allowed' = Nil
    /\ offered' = IF pendingSkill = Nil THEN offered ELSE pendingSkill
    /\ pendingSkill' = Nil
    /\ failed' = TRUE
    /\ broken' = broken \cup {batch.id}
    /\ stage' = "top"
    /\ UNCHANGED <<mode, sent, history, iteration, completed, finished, signalled, batch, planVars>>

\* One user message with all the results, the hooks of the policy, and the tools of an
\* activated skill for the next iteration.
RecordResults ==
    LET full(w, bad) == Append(messages, Results(batch.id, batch.answered, w, bad)) IN
    /\ stage = "tools" /\ batch.answered = batch.size
    /\ \E w \in Weights, bad \in BOOLEAN :
          messages' = IF finished /\ ~Unmet THEN Append(full(w, bad), Text(1)) ELSE full(w, bad)
    /\ IF finished /\ Unmet
       THEN Nudge
       ELSE completed' = finished /\ UNCHANGED <<failed, finished, nudges>>
    /\ offered' = IF pendingSkill = Nil THEN offered ELSE pendingSkill
    /\ pendingSkill' = Nil
    /\ stage' = "top"
    /\ UNCHANGED <<mode, sent, kept, base, iteration, signalled, batch, allowed, injected,
                   planned, workers, broken>>

-----------------------------------------------------------------------------
LoopStart(m) ==
    /\ mode = m
    /\ sent = 0 /\ stage = "idle" /\ iteration = 0
    /\ messages = <<>> /\ kept = <<>> /\ base = <<>>
    /\ completed = FALSE /\ failed = FALSE /\ finished = FALSE /\ signalled = FALSE
    /\ batch = [id |-> 0, size |-> 0, answered |-> 0]
    /\ offered = Nil /\ pendingSkill = Nil /\ allowed = Nil /\ injected = Nil
    /\ planned = FALSE /\ workers = "none" /\ nudges = 0
    /\ broken = {}

LoopInit == \E m \in Modes : LoopStart(m)

LoopNext ==
    \/ Begin \/ SetUp \/ SetUpFails \/ Return \/ Finish \/ BreakOff \/ SignalStop \/ Rollback
    \/ Iterate \/ LlmFails \/ Answer \/ CallTools
    \/ RunTool \/ Complete \/ Plan \/ RecordResults
    \/ \E s \in Skills : Activate(s) \/ ActivateFails(s)

LoopSpec == LoopInit /\ [][LoopNext]_loopVars

-----------------------------------------------------------------------------
(* Properties *)

LoopTypeOK ==
    /\ mode \in Modes /\ sent \in 0..TurnLimit[mode]
    /\ stage \in {"idle", "setup", "top", "llm", "tools", "finish"}
    /\ iteration \in 0 .. MaxIterations[mode] + 1
    /\ {completed, failed, signalled, finished, planned} \subseteq BOOLEAN
    /\ batch.answered \in 0 .. batch.size
    /\ {offered, pendingSkill, allowed, injected} \subseteq Skills \cup {Nil}
    /\ workers \in {"none", "spawned", "waited"} /\ nudges \in 0..3

\* What a provider accepts: tool calls are followed by the results of all of them.
AnsweredAt(msgs, i) ==
    /\ i < Len(msgs)
    /\ msgs[i + 1].kind = "results" /\ msgs[i + 1].id = msgs[i].id
    /\ msgs[i + 1].size = msgs[i].size

\* All of them, but for the batches that are excused.  A compaction may leave results at
\* the head of its suffix, behind its summary.
Chained(msgs, excused) ==
    \A i \in DOMAIN msgs :
        /\ msgs[i].kind = "use" => AnsweredAt(msgs, i) \/ msgs[i].id \in excused
        /\ msgs[i].kind = "results" =>
              \/ i > 1 /\ msgs[i - 1].kind = "use" /\ AnsweredAt(msgs, i - 1)
              \/ i = 3 /\ msgs[2].kind = "work"

\* Whatever was cancelled, skipped, compacted or rolled back before, every request sent to
\* the model pairs tool calls with their results; the exceptions are a batch whose skill
\* activation raised, and results that a compaction left at the head of its suffix.
RequestChain == stage = "llm" => Chained(messages, broken)

\* The tools the model is offered are those the executor lets it run, whatever skills were
\* activated, repeated or failed on the way.
SkillsAgree == stage = "llm" => offered = allowed

\* So every request is one that the provider accepts and the executor agrees with, however
\* the turns and batches before it ended.
RequestSound == RequestChain /\ SkillsAgree

\* test_runtime_guardrails.py: collect_message_chain_warnings finds nothing.
NoChainWarnings ==
    stage = "llm" => \A i \in DOMAIN messages : messages[i].kind = "use" => AnsweredAt(messages, i)

=============================================================================
