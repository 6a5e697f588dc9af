---------------------------- MODULE Conversation ----------------------------
(***************************************************************************)
(* The turns of one conversation: api/routes/conversations.py with the run *)
(* of agent/runtime/orchestrator.py and helpers.py.  send_message,         *)
(* cancel_turn and retry_turn requests, the turn tasks they start, the     *)
(* forced cancellations and the eviction of idle conversations interleave  *)
(* on one event loop; an action is what one of them does between two       *)
(* awaits.  A conversation that was evicted is reconstructed as a new      *)
(* ConversationEntry, so entries are numbered; so are the turns.           *)
(***************************************************************************)
EXTENDS Integers, Sequences, FiniteSets

CONSTANTS
    Senders,     \* send_message requests; each one's message is itself
    Retriers,    \* retry_turn requests
    Cancellers,  \* cancel_turn requests
    First,       \* the message create_conversation starts the first turn with
    Key,         \* idempotency key of a message, or NoKey
    NoKey,
    CacheLimit,  \* idempotency answers an entry remembers (32)
    CanDelete,   \* bound: whether delete_conversation is called
    MaxEntries,  \* bound: entries the conversation goes through
    MaxTurns     \* bound: turns; a send or a retry starts at most one

Requests == Senders \cup Retriers \cup Cancellers
Messages == Senders \cup {First}
Entries == 1..MaxEntries
Turns == 1..MaxTurns

ASSUME ConversationAssumption ==
    /\ First \notin Senders
    /\ Senders \cap (Retriers \cup Cancellers) = {} /\ Retriers \cap Cancellers = {}
    /\ IsFiniteSet(Requests) /\ "free" \notin Requests
    /\ DOMAIN Key = Messages
    /\ CacheLimit \in Nat \ {0}
    /\ CanDelete \in BOOLEAN
    /\ MaxEntries \in Nat \ {0}
    /\ MaxTurns \in Nat \ {0}

VARIABLES
    current,   \* state.conversations: the entry in memory, 0 when evicted
    made,      \* entries made so far
    exists,    \* the conversation's row is in the database
    db,        \* user messages in the database, saved on TURN_START
    lock,      \* entry.lock: "free" or the request that holds it
    task,      \* entry.turn_task, 0 before the first
    ready,     \* entry.orchestrator is a real one, not the placeholder
    flag,      \* the orchestrator's _cancel_event
    history,   \* user messages of the orchestrator's _state
    base,      \* those before the turn (_current_turn_base_messages)
    cache,     \* keys of entry.idempotency_cache, oldest first
    turns,     \* turn tasks created
    owner,     \* the entry a turn was started on
    text,      \* its message
    key,       \* its idempotency key
    stage,     \* where it stands
    outcome,   \* how it ended
    killed,    \* turns whose task.cancel() has not reached them yet
    asked,     \* turns some cancel, retry or eviction meant to stop
    started,   \* turns that announced TURN_START
    ended,     \* turns that announced their end
    rpc,       \* where each request stands
    rEntry,    \* the entry it works on
    rTurn,     \* the turn it waits for or is going to force
    rNew,      \* the turn it started
    reaper     \* _cleanup_stale_conversations has judged the entry stale

entryVars == <<current, made, exists, db, ready, reaper>>
orchVars == <<flag, history>>
newVars == <<turns, owner, text, key, task>>
turnVars == <<stage, base, outcome, started, ended, cache>>
stopVars == <<killed, asked>>
reqVars == <<lock, rpc, rEntry, rTurn, rNew>>
vars == <<entryVars, orchVars, newVars, turnVars, stopVars, reqVars>>

Live == {"boot", "fresh", "hook", "setup", "loop", "final", "stopping", "cancelling"}
Stages == Live \cup {"none", "done"}
Outcomes == {"none", "answered", "silent", "stopped", "error", "cached", "cancelled", "aborted"}
Holding == {"building", "switching", "stopping", "forced", "refusing", "refusingForced"}
Rpcs == Holding \cup {"idle", "rebuilding", "queued", "waiting", "forcing", "done", "failed"}

Running(t) == t # 0 /\ stage[t] # "done"       \* turn_task is not None and not done()
LiveOn(e) == {t \in Turns : owner[t] = e /\ stage[t] \in Live}

-----------------------------------------------------------------------------
(* Idempotency                                                             *)

Remembered(c) == {c[i] : i \in DOMAIN c}

\* Mutant: the answers are never looked up.
MutantAnswered(e, k) == FALSE

Answered(e, k) == k # NoKey /\ k \in Remembered(cache[e])
InFlight(e, k) == k # NoKey /\ \E t \in LiveOn(e) : key[t] = k

\* A full cache drops its oldest key first.
Remember(c, k) ==
    LET kept == IF Len(c) >= CacheLimit THEN Tail(c) ELSE c
    IN  IF k \in Remembered(kept) THEN kept ELSE Append(kept, k)

\* The answer goes to the entry that is in memory now, if there is one.
StoreAnswer(t) ==
    cache' = IF key[t] = NoKey \/ current = 0 THEN cache
             ELSE [cache EXCEPT ![current] = Remember(@, key[t])]

-----------------------------------------------------------------------------
(* One turn: _bootstrap_and_run_initial_turn, _run_turn, orchestrator.run  *)

Finish(t, o) ==
    /\ stage' = [stage EXCEPT ![t] = "done"]
    /\ outcome' = [outcome EXCEPT ![t] = o]

EmitTerminal(t) == ended' = ended \cup {t}

\* The bootstrap has put the real orchestrator in place.
Bootstrapped(t) ==
    /\ stage[t] = "boot" /\ t \notin killed
    /\ ready' = [ready EXCEPT ![owner[t]] = TRUE]
    /\ stage' = [stage EXCEPT ![t] = "fresh"]
    /\ UNCHANGED <<current, made, exists, db, reaper, orchVars, newVars, base, outcome,
                   started, ended, cache, stopVars, reqVars>>

\* It raises before that or, saving the mode, after it.
BootstrapFailed(t) ==
    /\ stage[t] = "boot" /\ t \notin killed
    /\ \/ UNCHANGED ready
       \/ ready' = [ready EXCEPT ![owner[t]] = TRUE]
    /\ Finish(t, "error")
    /\ EmitTerminal(t)
    /\ UNCHANGED <<current, made, exists, db, reaper, orchVars, newVars, base, started, cache,
                   stopVars, reqVars>>

\* _run_turn begins: the key may have been answered meanwhile.
RunTurn(t) ==
    /\ stage[t] = "fresh" /\ t \notin killed
    /\ IF current # 0 /\ Answered(current, key[t])
       THEN Finish(t, "cached")
       ELSE stage' = [stage EXCEPT ![t] = "hook"] /\ UNCHANGED outcome
    /\ UNCHANGED <<entryVars, orchVars, newVars, base, started, ended, cache, stopVars, reqVars>>

\* before_turn raises, or the orchestrator is the placeholder and run() raises, or an
\* exception leaves run() after TURN_START: the flag and the message, if it is in the
\* history already, stay.
RunFailed(t) ==
    /\ stage[t] \in {"hook", "setup", "loop"} /\ t \notin killed
    /\ Finish(t, "error")
    /\ IF current # 0 THEN EmitTerminal(t) ELSE UNCHANGED ended
    /\ UNCHANGED <<entryVars, orchVars, newVars, base, started, cache, stopVars, reqVars>>

\* run(): TURN_START is out and the history before the turn is remembered.
Begin(t) ==
    /\ stage[t] = "hook" /\ t \notin killed
    /\ ready[owner[t]]
    /\ stage' = [stage EXCEPT ![t] = "setup"]
    /\ started' = started \cup {t}
    /\ base' = [base EXCEPT ![owner[t]] = history[owner[t]]]
    /\ db' = IF exists THEN Append(db, text[t]) ELSE db
    /\ UNCHANGED <<current, made, exists, ready, reaper, orchVars, newVars, outcome, ended,
                   cache, stopVars, reqVars>>

\* Skill activation or the upload of attachments fails: an "Error: ..." result.
SetupFailed(t) ==
    /\ stage[t] = "setup" /\ t \notin killed
    /\ Finish(t, "error")
    /\ EmitTerminal(t)
    /\ StoreAnswer(t)
    /\ UNCHANGED <<entryVars, orchVars, newVars, base, started, stopVars, reqVars>>

SetupDone(t) ==
    /\ stage[t] = "setup" /\ t \notin killed
    /\ stage' = [stage EXCEPT ![t] = "loop"]
    /\ history' = [history EXCEPT ![owner[t]] = Append(@, text[t])]
    /\ UNCHANGED <<entryVars, flag, newVars, base, outcome, started, ended, cache, stopVars,
                   reqVars>>

\* The loop is over, at its end or because it saw the flag, and
\* finalize_conversation_turn looks at the flag.
EndLoop(t) ==
    /\ stage[t] = "loop" /\ t \notin killed
    /\ stage' = [stage EXCEPT ![t] = IF flag[owner[t]] THEN "stopping" ELSE "final"]
    /\ flag' = [flag EXCEPT ![owner[t]] = FALSE]
    /\ UNCHANGED <<entryVars, history, newVars, base, outcome, started, ended, cache, stopVars,
                   reqVars>>

\* TURN_COMPLETE or TASK_ERROR is out; an empty result is not remembered.
Answer(t) ==
    /\ stage[t] = "final" /\ t \notin killed
    /\ EmitTerminal(t)
    /\ \/ Finish(t, "answered") /\ StoreAnswer(t)
       \/ Finish(t, "silent") /\ UNCHANGED cache
    /\ UNCHANGED <<entryVars, orchVars, newVars, base, started, stopVars, reqVars>>

\* TURN_CANCELLED is out; the history goes back to what it was.
Stopped(t) ==
    /\ stage[t] = "stopping" /\ t \notin killed
    /\ Finish(t, "stopped")
    /\ EmitTerminal(t)
    /\ history' = [history EXCEPT ![owner[t]] = base[owner[t]]]
    /\ StoreAnswer(t) \/ UNCHANGED cache
    /\ UNCHANGED <<entryVars, flag, newVars, base, started, stopVars, reqVars>>

\* Mutant: the handler reports the cancellation only before the finalization.
MutantReports(t) == current # 0 /\ stage[t] # "final"

\* _run_turn's CancelledError handler finds an emitter.
Reports(t) == current # 0

\* CancelledError arrives.  Before _run_turn nothing catches it; inside, the
\* handler reports; in the handler itself it ends the task.  An event that was
\* being emitted is out or lost.
Cancelled(t) ==
    /\ t \in killed
    /\ killed' = killed \ {t}
    /\ \/ /\ stage[t] \in {"boot", "fresh", "cancelling"}
          /\ Finish(t, "aborted")
       \/ /\ stage[t] \in {"hook", "setup", "loop", "final", "stopping"}
          /\ Reports(t)
          /\ stage' = [stage EXCEPT ![t] = "cancelling"]
          /\ UNCHANGED outcome
       \/ /\ stage[t] \in {"hook", "setup", "loop", "final", "stopping"}
          /\ ~Reports(t)
          /\ Finish(t, "cancelled")
    /\ \/ UNCHANGED ended
       \/ stage[t] \in {"final", "stopping", "cancelling"} /\ EmitTerminal(t)
    /\ UNCHANGED <<entryVars, orchVars, newVars, base, started, cache, asked, reqVars>>

CancelReported(t) ==
    /\ stage[t] = "cancelling" /\ t \notin killed
    /\ Finish(t, "cancelled")
    /\ EmitTerminal(t)
    /\ UNCHANGED <<entryVars, orchVars, newVars, base, started, cache, stopVars, reqVars>>

-----------------------------------------------------------------------------
(* Starting a turn                                                         *)

\* _start_turn_task, and with it create_task.
StartTurn(r, e, m, k) ==
    LET t == turns + 1 IN
    /\ turns < MaxTurns
    /\ turns' = t
    /\ owner' = [owner EXCEPT ![t] = e]
    /\ text' = [text EXCEPT ![t] = m]
    /\ key' = [key EXCEPT ![t] = k]
    /\ stage' = [stage EXCEPT ![t] = "fresh"]
    /\ task' = [task EXCEPT ![e] = t]
    /\ rNew' = [rNew EXCEPT ![r] = t]

Goes(r, to) == rpc' = [rpc EXCEPT ![r] = to]
Acquirable(r) == rpc[r] = "queued" /\ lock[rEntry[r]] = "free"

\* Mutant: the lock is not released where the request is refused.
MutantUnlocks(r) ==
    lock' = IF rpc[r] \in {"refusing", "refusingForced"} THEN lock
            ELSE [lock EXCEPT ![rEntry[r]] = "free"]

Unlocks(r) == lock' = [lock EXCEPT ![rEntry[r]] = "free"]

-----------------------------------------------------------------------------
(* Every request: find the entry, or reconstruct it from the database      *)

Lookup(r) ==
    /\ rpc[r] = "idle"
    /\ \/ /\ current # 0
          /\ rEntry' = [rEntry EXCEPT ![r] = current]
          /\ Goes(r, "queued")
       \/ /\ current = 0
          /\ Goes(r, IF exists THEN "rebuilding" ELSE "failed")
          /\ UNCHANGED rEntry
    /\ UNCHANGED <<entryVars, orchVars, newVars, turnVars, stopVars, lock, rTurn, rNew>>

\* _reconstruct_conversation puts its entry in place, whatever is there now.
Rebuilt(r) ==
    /\ rpc[r] = "rebuilding"
    /\ made < MaxEntries
    /\ LET e == made + 1 IN
       /\ made' = e
       /\ current' = e
       /\ ready' = [ready EXCEPT ![e] = TRUE]
       /\ history' = [history EXCEPT ![e] = db]
       /\ rEntry' = [rEntry EXCEPT ![r] = e]
    /\ Goes(r, IF r \in Cancellers THEN "done" ELSE "queued")
    /\ UNCHANGED <<exists, db, reaper, flag, newVars, turnVars, stopVars, lock, rTurn, rNew>>

\* The row is gone by now: 404.
RebuildFailed(r) ==
    /\ rpc[r] = "rebuilding"
    /\ ~exists
    /\ Goes(r, "failed")
    /\ UNCHANGED <<entryVars, orchVars, newVars, turnVars, stopVars, lock, rEntry, rTurn, rNew>>

-----------------------------------------------------------------------------
(* send_message                                                            *)

Duplicate(r) == Answered(rEntry[r], Key[r]) \/ InFlight(rEntry[r], Key[r])

SendDuplicate(r) ==
    /\ Acquirable(r)
    /\ Duplicate(r)
    /\ Goes(r, "done")
    /\ UNCHANGED <<entryVars, orchVars, newVars, turnVars, stopVars, lock, rEntry, rTurn, rNew>>

\* A turn is running: leave the lock and wait for it.
SendWaits(r) ==
    /\ Acquirable(r)
    /\ ~Duplicate(r)
    /\ Running(task[rEntry[r]])
    /\ Goes(r, "waiting")
    /\ rTurn' = [rTurn EXCEPT ![r] = task[rEntry[r]]]
    /\ UNCHANGED <<entryVars, orchVars, newVars, turnVars, stopVars, lock, rEntry, rNew>>

\* Mutant: after the wait the turn is started without another look.
MutantAfterWait(r) == IF outcome[rTurn[r]] = "aborted" THEN "failed" ELSE "building"

\* The CancelledError of a turn that was aborted reaches the waiting request.
AfterWait(r) == IF outcome[rTurn[r]] = "aborted" THEN "failed" ELSE "queued"

SendWaited(r) ==
    /\ rpc[r] = "waiting"
    /\ ~Running(rTurn[r])
    /\ Goes(r, AfterWait(r))
    /\ UNCHANGED <<entryVars, orchVars, newVars, turnVars, stopVars, lock, rEntry, rTurn, rNew>>

\* The route is known without an await: the turn starts on the orchestrator at hand.
SendStarts(r) ==
    /\ Acquirable(r)
    /\ ~Duplicate(r)
    /\ ~Running(task[rEntry[r]])
    /\ StartTurn(r, rEntry[r], r, Key[r])
    /\ Goes(r, "done")
    /\ UNCHANGED <<entryVars, orchVars, base, outcome, started, ended, cache, stopVars, lock,
                   rEntry, rTurn>>

\* The router or a change of mode awaits with the lock held.
SendBuilds(r) ==
    /\ Acquirable(r)
    /\ ~Duplicate(r)
    /\ ~Running(task[rEntry[r]])
    /\ lock' = [lock EXCEPT ![rEntry[r]] = r]
    /\ Goes(r, "building")
    /\ UNCHANGED <<entryVars, orchVars, newVars, turnVars, stopVars, rEntry, rTurn, rNew>>

\* The other mode was chosen, and the row of the conversation found.
SendSwitches(r) ==
    /\ rpc[r] = "building"
    /\ exists
    /\ Goes(r, "switching")
    /\ UNCHANGED <<entryVars, orchVars, newVars, turnVars, stopVars, lock, rEntry, rTurn, rNew>>

\* A new orchestrator, with the history of the database and a flag of its own.
Replace(e) ==
    /\ ready' = [ready EXCEPT ![e] = TRUE]
    /\ flag' = [flag EXCEPT ![e] = FALSE]
    /\ history' = [history EXCEPT ![e] = db]

SendBuilt(r) ==
    /\ rpc[r] \in {"building", "switching"}
    /\ LET e == rEntry[r] IN
       /\ StartTurn(r, e, r, Key[r])
       /\ IF rpc[r] = "switching" THEN Replace(e) ELSE UNCHANGED <<ready, orchVars>>
    /\ Unlocks(r)
    /\ Goes(r, "done")
    /\ UNCHANGED <<current, made, exists, db, reaper, base, outcome, started, ended, cache,
                   stopVars, rEntry, rTurn>>

\* The row is gone or an await raises, before or after the replacement.
SendBuildFailed(r) ==
    /\ rpc[r] \in {"building", "switching"}
    /\ \/ UNCHANGED <<ready, orchVars>>
       \/ rpc[r] = "switching" /\ Replace(rEntry[r])
    /\ Unlocks(r)
    /\ Goes(r, "failed")
    /\ UNCHANGED <<current, made, exists, db, reaper, newVars, turnVars, stopVars, rEntry,
                   rTurn, rNew>>

-----------------------------------------------------------------------------
(* cancel_turn and its background task                                     *)

\* orchestrator.cancel(); the placeholder's does nothing.
SignalCancel(e) ==
    /\ flag' = IF ready[e] THEN [flag EXCEPT ![e] = TRUE] ELSE flag
    /\ asked' = asked \cup {task[e]}

CancelLocked(r) ==
    /\ Acquirable(r)
    /\ \/ /\ ~Running(task[rEntry[r]])
          /\ Goes(r, "done")
          /\ UNCHANGED <<flag, asked, rTurn>>
       \/ /\ Running(task[rEntry[r]])
          /\ SignalCancel(rEntry[r])
          /\ rTurn' = [rTurn EXCEPT ![r] = task[rEntry[r]]]
          /\ Goes(r, "forcing")
    /\ UNCHANGED <<entryVars, history, newVars, turnVars, killed, lock, rEntry, rNew>>

\* Mutant: the turn that runs when the five seconds are over.
MutantForced(r) == task[rEntry[r]]

\* The turn the request was accepted for.
Forced(r) == rTurn[r]

\* Mutant: a signal that was taken counts as a turn that is over.
MutantForceTurn(r) ==
    /\ rpc[r] = "forcing"
    /\ Running(Forced(r))
    /\ killed' = IF flag[rEntry[r]] THEN killed \cup {Forced(r)} ELSE killed
    /\ Goes(r, "done")
    /\ UNCHANGED <<entryVars, orchVars, newVars, turnVars, asked, lock, rEntry, rTurn, rNew>>

\* Five seconds are over.
ForceTurn(r) ==
    /\ rpc[r] = "forcing"
    /\ Running(Forced(r))
    /\ killed' = killed \cup {Forced(r)}
    /\ Goes(r, "done")
    /\ UNCHANGED <<entryVars, orchVars, newVars, turnVars, asked, lock, rEntry, rTurn, rNew>>

ForceSpared(r) ==
    /\ rpc[r] = "forcing"
    /\ ~Running(rTurn[r])
    /\ Goes(r, "done")
    /\ UNCHANGED <<entryVars, orchVars, newVars, turnVars, stopVars, lock, rEntry, rTurn, rNew>>

-----------------------------------------------------------------------------
(* retry_turn, with the lock held throughout                               *)

\* Take back the last user message of the history and run it again.
Rerun(r) ==
    LET e == rEntry[r]
        h == history[e]
    IN  \/ /\ ready[e] /\ h # <<>>
           /\ history' = [history EXCEPT ![e] = SubSeq(h, 1, Len(h) - 1)]
           /\ flag' = [flag EXCEPT ![e] = FALSE]
           /\ StartTurn(r, e, h[Len(h)], NoKey)
           /\ Goes(r, "done")
        \/ /\ ~ready[e] \/ h = <<>>
           /\ Goes(r, "failed")
           /\ UNCHANGED <<orchVars, newVars, stage, rNew>>

RetryIdle(r) ==
    /\ Acquirable(r)
    /\ ~Running(task[rEntry[r]])
    /\ Rerun(r)
    /\ UNCHANGED <<entryVars, base, outcome, started, ended, cache, stopVars, lock, rEntry, rTurn>>

\* The orchestrator is captured here: with the placeholder the retry is refused
\* in the end.
RetryStops(r) ==
    /\ Acquirable(r)
    /\ Running(task[rEntry[r]])
    /\ SignalCancel(rEntry[r])
    /\ lock' = [lock EXCEPT ![rEntry[r]] = r]
    /\ rTurn' = [rTurn EXCEPT ![r] = task[rEntry[r]]]
    /\ Goes(r, IF ready[rEntry[r]] THEN "stopping" ELSE "refusing")
    /\ UNCHANGED <<entryVars, history, newVars, turnVars, killed, rEntry, rNew>>

RetryForces(r) ==
    /\ rpc[r] \in {"stopping", "refusing"}
    /\ Running(rTurn[r])
    /\ killed' = killed \cup {rTurn[r]}
    /\ Goes(r, IF rpc[r] = "stopping" THEN "forced" ELSE "refusingForced")
    /\ UNCHANGED <<entryVars, orchVars, newVars, turnVars, asked, lock, rEntry, rTurn, rNew>>

RetryReruns(r) ==
    /\ rpc[r] \in {"stopping", "forced"}
    /\ ~Running(rTurn[r])
    /\ Rerun(r)
    /\ Unlocks(r)
    /\ UNCHANGED <<entryVars, base, outcome, started, ended, cache, stopVars, rEntry, rTurn>>

RetryRefused(r) ==
    /\ rpc[r] \in {"refusing", "refusingForced"}
    /\ ~Running(rTurn[r])
    /\ Unlocks(r)
    /\ Goes(r, "failed")
    /\ UNCHANGED <<entryVars, orchVars, newVars, turnVars, stopVars, rEntry, rTurn, rNew>>

-----------------------------------------------------------------------------
(* Eviction: _cleanup_stale_conversations, delete_conversation             *)

\* _cleanup_conversation pops the entry and cancels its turn without waiting.
Evict ==
    /\ current' = 0
    /\ IF current # 0 /\ Running(task[current])
       THEN killed' = killed \cup {task[current]} /\ asked' = asked \cup {task[current]}
       ELSE UNCHANGED stopVars

\* The round over all conversations finds this one idle for an hour ...  The
\* bound leaves an entry for every request that may have to reconstruct.
ReaperJudges ==
    /\ ~reaper /\ made < MaxEntries
    /\ made + Cardinality({r \in Requests : rpc[r] \in {"idle", "rebuilding"}}) <= MaxEntries
    /\ current # 0 /\ ~Running(task[current])
    /\ reaper' = TRUE
    /\ UNCHANGED <<current, made, exists, db, ready, orchVars, newVars, turnVars, stopVars, reqVars>>

\* ... and gets to it after having cleaned up others.
ReaperEvicts ==
    /\ reaper
    /\ Evict
    /\ reaper' = FALSE
    /\ UNCHANGED <<made, exists, db, ready, orchVars, newVars, turnVars, reqVars>>

Delete ==
    /\ exists /\ CanDelete
    /\ Evict
    /\ exists' = FALSE
    /\ db' = <<>>
    /\ UNCHANGED <<made, ready, reaper, orchVars, newVars, turnVars, reqVars>>

-----------------------------------------------------------------------------
\* create_conversation has made the first entry, with the placeholder, and
\* started the bootstrap.
Init ==
    /\ current = 1 /\ made = 1 /\ exists = TRUE /\ db = <<>> /\ reaper = FALSE
    /\ lock = [e \in Entries |-> "free"]
    /\ task = [e \in Entries |-> IF e = 1 THEN 1 ELSE 0]
    /\ ready = [e \in Entries |-> FALSE]
    /\ flag = [e \in Entries |-> FALSE]
    /\ history = [e \in Entries |-> <<>>]
    /\ cache = [e \in Entries |-> <<>>]
    /\ turns = 1
    /\ owner = [t \in Turns |-> 1]
    /\ text = [t \in Turns |-> First]
    /\ key = [t \in Turns |-> IF t = 1 THEN Key[First] ELSE NoKey]
    /\ stage = [t \in Turns |-> IF t = 1 THEN "boot" ELSE "none"]
    /\ base = [e \in Entries |-> <<>>]
    /\ outcome = [t \in Turns |-> "none"]
    /\ killed = {} /\ asked = {} /\ started = {} /\ ended = {}
    /\ rpc = [r \in Requests |-> "idle"]
    /\ rEntry = [r \in Requests |-> 1]
    /\ rTurn = [r \in Requests |-> 0]
    /\ rNew = [r \in Requests |-> 0]

TurnStep(t) ==
    \/ Bootstrapped(t) \/ BootstrapFailed(t)
    \/ RunTurn(t) \/ RunFailed(t)
    \/ Begin(t) \/ SetupFailed(t) \/ SetupDone(t)
    \/ EndLoop(t) \/ Answer(t) \/ Stopped(t)
    \/ Cancelled(t) \/ CancelReported(t)

FindEntry(r) == Lookup(r) \/ Rebuilt(r) \/ RebuildFailed(r)

SendStep(r) ==
    \/ SendDuplicate(r) \/ SendWaits(r) \/ SendWaited(r) \/ SendStarts(r)
    \/ SendBuilds(r) \/ SendSwitches(r) \/ SendBuilt(r) \/ SendBuildFailed(r)

CancelStep(r) == CancelLocked(r) \/ ForceTurn(r) \/ ForceSpared(r)

RetryStep(r) ==
    RetryIdle(r) \/ RetryStops(r) \/ RetryForces(r) \/ RetryReruns(r) \/ RetryRefused(r)

EvictStep == ReaperJudges \/ ReaperEvicts \/ Delete

Next ==
    \/ \E t \in Turns : TurnStep(t)
    \/ \E r \in Requests : FindEntry(r)
    \/ \E r \in Senders : SendStep(r)
    \/ \E r \in Cancellers : CancelStep(r)
    \/ \E r \in Retriers : RetryStep(r)
    \/ EvictStep

Spec == Init /\ [][Next]_vars

\* The loop serves every ready coroutine and every timer fires, but a turn may
\* hang in an await of its own for ever.
TimerFairness ==
    /\ \A t \in Turns : WF_vars(Cancelled(t)) /\ WF_vars(CancelReported(t))
    /\ \A r \in Cancellers : WF_vars(ForceTurn(r))
    /\ \A r \in Retriers : WF_vars(RetryForces(r))

TimerSpec == Spec /\ TimerFairness

-----------------------------------------------------------------------------
(* Properties                                                              *)

TypeOK ==
    /\ current \in 0..MaxEntries /\ made \in Entries /\ exists \in BOOLEAN
    /\ db \in Seq(Messages) /\ reaper \in BOOLEAN
    /\ lock \in [Entries -> Requests \cup {"free"}]
    /\ task \in [Entries -> 0..MaxTurns]
    /\ ready \in [Entries -> BOOLEAN] /\ flag \in [Entries -> BOOLEAN]
    /\ history \in [Entries -> Seq(Messages)]
    /\ cache \in [Entries -> Seq({Key[m] : m \in Messages})]
    /\ \A e \in Entries : Len(cache[e]) <= CacheLimit
    /\ turns \in Turns
    /\ owner \in [Turns -> Entries]
    /\ text \in [Turns -> Messages]
    /\ key \in [Turns -> {Key[m] : m \in Messages} \cup {NoKey}]
    /\ stage \in [Turns -> Stages]
    /\ base \in [Entries -> Seq(Messages)]
    /\ outcome \in [Turns -> Outcomes]
    /\ killed \subseteq Turns /\ asked \subseteq Turns
    /\ started \subseteq Turns /\ ended \subseteq Turns
    /\ rpc \in [Requests -> Rpcs]
    /\ rEntry \in [Requests -> Entries]
    /\ rTurn \in [Requests -> 0..MaxTurns]
    /\ rNew \in [Requests -> 0..MaxTurns]

\* However sends, retries and cancellations interleave, an entry never runs two
\* turns at once, and the one it runs is its turn_task: the one a cancel reaches.
OneTurn == \A t \in Turns : stage[t] \in Live => task[owner[t]] = t

\* A turn works on the history it found plus its own message: nothing is
\* appended, rolled back or reloaded under a running turn.
HistoryKept ==
    \A t \in Turns :
        /\ stage[t] = "setup" => history[owner[t]] = base[owner[t]]
        /\ stage[t] \in {"loop", "final", "stopping"} =>
               history[owner[t]] = Append(base[owner[t]], text[t])

\* A force-cancel falls on no turn but one that somebody asked to stop: the five
\* seconds of an earlier cancel never end a later turn.
ForcedWasAsked == killed \subseteq asked

\* A message that is sent again under its idempotency key is answered once: while
\* the conversation keeps its first entry, and unless so many answers to other keys
\* came between that the cache forgot it.
AnsweredOnce ==
    \A t, u \in Turns :
        /\ current = 1
        /\ t < u /\ key[t] = key[u] /\ key[t] # NoKey
        /\ outcome[t] = "answered" /\ outcome[u] = "answered"
        => LET between == {v \in t..u : key[v] \notin {NoKey, key[t]}}
           IN  Cardinality(between) >= CacheLimit

\* A turn that announced its start announces an end: unless a second cancel
\* struck its own report of the first, or the entry was evicted under it.
EndAnnounced ==
    \A t \in started :
        stage[t] = "done" /\ outcome[t] # "aborted" /\ current = owner[t] => t \in ended

\* The inductive invariant behind the four.  Turns and entries are numbered in the
\* order they are made, and turn_task is a turn of its own entry.
Numbered ==
    /\ current \in {0, made}
    /\ \A t \in Turns : (stage[t] = "none") = (t > turns) /\ owner[t] <= made
    /\ \A e \in Entries : task[e] # 0 => task[e] <= turns /\ owner[task[e]] = e
    /\ \A r \in Requests : rEntry[r] <= made

\* The lock has one holder.  While it builds a turn none runs, and while it waits
\* for one that is still the turn_task; a turn to be forced was asked to stop.
Locked(r) ==
    /\ rpc[r] \in Holding => lock[rEntry[r]] = r
    /\ rpc[r] \in {"building", "switching"} => ~Running(task[rEntry[r]])
    /\ rpc[r] \in {"stopping", "forced", "refusing", "refusingForced"} =>
           rTurn[r] = task[rEntry[r]]
    /\ rpc[r] \in {"forcing", "stopping", "refusing"} => rTurn[r] \in asked

\* TURN_START marks the beginning of the stages that end with an announcement.
Unstarted == \A t \in started : stage[t] \notin {"none", "boot", "fresh", "hook"}

IInv ==
    /\ TypeOK
    /\ Numbered
    /\ \A r \in Requests : Locked(r)
    /\ Unstarted
    /\ OneTurn /\ HistoryKept /\ ForcedWasAsked /\ EndAnnounced

\* orchestrator.cancel: 'Signal the current turn to stop.'  So a turn stops by
\* the signal only if it was the current one of some cancel.
StoppedWasAsked == \A t \in Turns : outcome[t] = "stopped" => t \in asked

\* retry_turn: 'Cancel the last turn, roll back, and re-run the last user
\* message.'  The turn a retry starts has the message of the turn it stopped.
RetryRerunsLast ==
    \A r \in Retriers :
        /\ rNew[r] # 0 /\ rTurn[r] # 0
        /\ outcome[rTurn[r]] = "stopped"
        => text[rNew[r]] = text[rTurn[r]]

\* Five seconds and the handler's report after a cancel was accepted the turn it
\* was accepted for is over, even if the turn hangs.
CancelEnds == \A r \in Cancellers : (rpc[r] = "forcing") ~> ~Running(rTurn[r])

\* If moreover every await of a turn ends (max_iterations, the timeouts of the
\* client and of the tools), and every await of a request ...
Progress ==
    /\ \A t \in Turns : WF_vars(TurnStep(t))
    /\ \A r \in Requests : WF_vars(FindEntry(r))
    /\ \A r \in Senders : WF_vars(SendStep(r))
    /\ \A r \in Cancellers : WF_vars(CancelStep(r))
    /\ \A r \in Retriers : WF_vars(RetryStep(r))

\* ... then every send_message returns: no cycle of waiting between the lock, the
\* turns and the retries that hold one while they wait for the other.
SendReturns == Progress => \A r \in Senders : <>(rpc[r] \in {"done", "failed"})
=============================================================================
