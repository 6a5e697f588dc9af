----------------------------- MODULE AgentRuns ------------------------------
(***************************************************************************)
(* The public API of api/routes/v1.py: requests that create runs (with     *)
(* idempotency keys), post messages, cancel and stream, and the task of    *)
(* each run.  A run and the conversation of a create carry the name of the *)
(* request that made them.  The turn inside a run is that of Conversation, *)
(* cut down to where it stands; the log is stored in the order Delivery    *)
(* keeps.                                                                  *)
(***************************************************************************)
EXTENDS Integers, Sequences, FiniteSets, SequencesExt

CONSTANTS
    Creators,       \* POST /agent-runs
    Messagers,      \* POST /conversations/{id}/messages
    Stoppers,       \* POST /agent-runs/{id}/cancel
    Streamers,      \* GET /agent-runs/{id}/events
    Thread,         \* Thread[m]: the conversation a messager posts to
    Subject,        \* Subject[x]: the run a stopper or streamer names
    RunKey,         \* RunKey[q]: the idempotency key of a creator or messager
    Payload,        \* Payload[q]: the request_fingerprint
    Unkeyed,        \* the absence of a key
    NoRun,
    Casts,          \* the sets of requests that may be sent in one behaviour
    MayCrash        \* whether the server may restart once

Runs == Creators \cup Messagers
Callers == Runs \cup Stoppers \cup Streamers
Terminal == {"completed", "failed", "cancelled"}
ThreadOf(r) == IF r \in Creators THEN r ELSE Thread[r]
Replies == {"none", "conflict", "missing", "busy", "already", "inactive", "cancelling", "closed"}

ASSUME RunsAssumption ==
    /\ Creators \cap Messagers = {} /\ Stoppers \cap Streamers = {}
    /\ Runs \cap (Stoppers \cup Streamers \cup {NoRun} \cup Replies) = {} /\ NoRun \notin Stoppers
    /\ \A m \in Messagers : Thread[m] \in Creators
    /\ \A x \in Stoppers \cup Streamers : Subject[x] \in Runs

VARIABLES
    threads,    \* rows of conversations
    status,     \* agent_runs.status of each run, "none" without a row
    entries,    \* the conversations in state.conversations
    turnTask,   \* entry.turn_task, named by its run
    holder,     \* who holds entry.lock
    stage,      \* where a run's task is suspended
    result,     \* the status it will write
    stopping,   \* tasks with a CancelledError on its way
    signal,     \* conversations whose orchestrator has its cancel event set
    call,       \* where a request is suspended
    answer,     \* its answer
    known,      \* the status a stopper or streamer has read
    forced,     \* the task a stopper's background task waits for
    log,        \* events of each conversation: [run, what]; "cut" is TURN_CANCELLED
    persisted,  \* how many of them are stored
    view,       \* the positions a stream has yielded
    next,       \* how far a live stream has read, -1 before it subscribes
    begun,      \* its run_started
    crashed,
    early       \* conversations that got a message before their create had started its turn

taskVars == <<turnTask, stage, result, stopping, signal>>
requestVars == <<call, answer, known, forced>>
eventVars == <<log, persisted>>
streamVs == <<view, next, begun>>
runsVars == <<threads, status, entries, turnTask, holder, stage, result, stopping, signal,
              call, answer, known, forced, log, persisted, view, next, begun, crashed, early>>

-----------------------------------------------------------------------------
(* Shared by the requests *)

SameKey(q) == {r \in Runs : RunKey[q] # Unkeyed /\ RunKey[r] = RunKey[q] /\ status[r] # "none"}

SameOperation(q, r) == (q \in Creators <=> r \in Creators) /\ Payload[q] = Payload[r]

Reused(q) ==
    LET r == CHOOSE s \in SameKey(q) : TRUE
    IN  IF SameOperation(q, r) THEN r ELSE "conflict"

Reply(q, a) ==
    /\ call' = [call EXCEPT ![q] = "answered"]
    /\ answer' = [answer EXCEPT ![q] = a]

Goto(q, where) == call' = [call EXCEPT ![q] = where] /\ UNCHANGED answer

\* A client names only what some answer has told it.
Told(c) == \E q \in Runs : answer[q] \in Runs /\ ThreadOf(answer[q]) = c

TaskDone(r) == r = NoRun \/ stage[r] \in {"none", "done", "broken"}
Free(c) == holder[c] = NoRun
Release(c) == holder' = [holder EXCEPT ![c] = NoRun]

-----------------------------------------------------------------------------
(* create_agent_run *)

CreateLook(q) ==
    /\ q \in Creators /\ call[q] = "idle"
    /\ IF SameKey(q) # {} THEN Reply(q, Reused(q)) ELSE Goto(q, "making")
    /\ UNCHANGED <<threads, status, entries, holder, taskVars, known, forced, eventVars, streamVs, crashed, early>>

CreateThread(q) ==
    /\ q \in Creators /\ call[q] = "making"
    /\ threads' = threads \cup {q}
    /\ Goto(q, "recording")
    /\ UNCHANGED <<status, entries, holder, taskVars, known, forced, eventVars, streamVs, crashed, early>>

\* The unique index on (api_key_hash, idempotency_key) decides.
CreateRecord(q) ==
    /\ q \in Creators /\ call[q] = "recording"
    /\ IF SameKey(q) # {}
       THEN Goto(q, "undoing") /\ UNCHANGED status
       ELSE Goto(q, "installing") /\ status' = [status EXCEPT ![q] = "queued"]
    /\ UNCHANGED <<threads, entries, holder, taskVars, known, forced, eventVars, streamVs, crashed, early>>

\* Mutant: the loser's conversation is not deleted.
MutantCreateUndo(q) ==
    /\ q \in Creators /\ call[q] = "undoing"
    /\ Reply(q, Reused(q))
    /\ UNCHANGED <<threads, status, entries, holder, taskVars, known, forced, eventVars, streamVs, crashed, early>>

\* The loser deletes its conversation and returns the winner's run.
CreateUndo(q) ==
    /\ q \in Creators /\ call[q] = "undoing"
    /\ threads' = threads \ {q}
    /\ Reply(q, Reused(q))
    /\ UNCHANGED <<status, entries, holder, taskVars, known, forced, eventVars, streamVs, crashed, early>>

\* The entry is there while _resolve_turn_locale awaits its session.
CreateInstall(q) ==
    /\ q \in Creators /\ call[q] = "installing"
    /\ entries' = entries \cup {q}
    /\ turnTask' = [turnTask EXCEPT ![q] = NoRun]
    /\ Goto(q, "locale")
    /\ UNCHANGED <<threads, status, holder, stage, result, stopping, signal, known, forced,
                   eventVars, streamVs, crashed, early>>

StartTask(c, r) ==
    /\ turnTask' = [turnTask EXCEPT ![c] = r]
    /\ stage' = [stage EXCEPT ![r] = "starting"]
    /\ UNCHANGED <<result, stopping, signal>>

CreateStart(q) ==
    /\ q \in Creators /\ call[q] = "locale"
    /\ StartTask(q, q)
    /\ Reply(q, q)
    /\ UNCHANGED <<threads, status, entries, holder, known, forced, eventVars, streamVs, crashed, early>>

-----------------------------------------------------------------------------
(* create_conversation_message *)

\* Key, ownership and _ensure_entry, which reconstructs an entry without a turn.  No message
\* falls into the one await between a create's row and its entry (the session's close).
MessageLook(q) ==
    /\ q \in Messagers /\ call[q] = "idle" /\ Told(Thread[q]) /\ call[Thread[q]] # "installing"
    /\ CASE SameKey(q) # {} -> Reply(q, Reused(q)) /\ UNCHANGED <<entries, early>>
         [] SameKey(q) = {} /\ Thread[q] \notin threads ->
                Reply(q, "missing") /\ UNCHANGED <<entries, early>>
         [] OTHER ->
                /\ Goto(q, "locking")
                /\ entries' = entries \cup {Thread[q]}
                /\ early' = IF call[Thread[q]] = "answered" THEN early ELSE early \cup {Thread[q]}
    /\ UNCHANGED <<threads, status, holder, taskVars, known, forced, eventVars, streamVs, crashed>>

MessageLock(q) ==
    /\ q \in Messagers /\ call[q] = "locking" /\ Free(Thread[q])
    /\ IF TaskDone(turnTask[Thread[q]])
       THEN Goto(q, "recording") /\ holder' = [holder EXCEPT ![Thread[q]] = q]
       ELSE Reply(q, "busy") /\ UNCHANGED holder
    /\ UNCHANGED <<threads, status, entries, taskVars, known, forced, eventVars, streamVs, crashed, early>>

MessageRecord(q) ==
    /\ q \in Messagers /\ call[q] = "recording"
    /\ Release(Thread[q])
    /\ IF SameKey(q) # {}
       THEN Reply(q, Reused(q)) /\ UNCHANGED <<status, taskVars>>
       ELSE /\ Reply(q, q)
            /\ status' = [status EXCEPT ![q] = "queued"]
            /\ StartTask(Thread[q], q)
    /\ UNCHANGED <<threads, entries, known, forced, eventVars, streamVs, crashed, early>>

-----------------------------------------------------------------------------
(* The task of a run: _run_public_initial_turn, _run_public_followup_turn *)

OutsideRequests == UNCHANGED <<threads, entries, requestVars, streamVs, persisted, crashed, early>>

Move(r, to) == stage' = [stage EXCEPT ![r] = to]

\* The run will be recorded as s, by the try block or by one of its handlers.
Conclude(r, to, s) == Move(r, to) /\ result' = [result EXCEPT ![r] = s]

Says(r, what) ==
    log' = [log EXCEPT ![ThreadOf(r)] = Append(@, [run |-> r, what |-> what])]

\* The update to "running", before the try block, whatever the status is by now.
Begin(r) ==
    /\ stage[r] = "starting" /\ r \notin stopping
    /\ status' = [status EXCEPT ![r] = "running"]
    /\ Move(r, IF r \in Creators THEN "booting" ELSE "queueing")
    /\ UNCHANGED <<holder, turnTask, result, stopping, signal, log>> /\ OutsideRequests

\* That update fails or is cancelled, made or not: the task ends and records nothing.
BeginFails(r) ==
    /\ stage[r] = "starting"
    /\ Move(r, IF r \in stopping THEN "done" ELSE "broken")
    /\ stopping' = stopping \ {r}
    /\ status' \in {status, [status EXCEPT ![r] = "running"]}
    /\ UNCHANGED <<holder, turnTask, result, signal, log>> /\ OutsideRequests

\* A follow-up takes the entry's lock for routing and a change of runtime.
EnterRoute(r) ==
    /\ stage[r] = "queueing" /\ r \notin stopping /\ Free(ThreadOf(r))
    /\ Move(r, "routing")
    /\ holder' = [holder EXCEPT ![ThreadOf(r)] = r]
    /\ UNCHANGED <<status, turnTask, result, stopping, signal, log>> /\ OutsideRequests

LeaveRoute(r) ==
    /\ stage[r] = "routing" /\ r \notin stopping
    /\ \/ Move(r, "setup") /\ UNCHANGED result
       \/ Conclude(r, "marking", "failed")
    /\ Release(ThreadOf(r))
    /\ UNCHANGED <<status, turnTask, stopping, signal, log>> /\ OutsideRequests

\* Bootstrap of a first turn; a failure emits TASK_ERROR and returns "Error:".
Boot(r) ==
    /\ stage[r] = "booting" /\ r \notin stopping
    /\ \/ Move(r, "setup") /\ UNCHANGED <<result, log>>
       \/ Conclude(r, "finishing", "failed") /\ Says(r, "end")
    /\ UNCHANGED <<status, holder, turnTask, stopping, signal>> /\ OutsideRequests

TurnStart(r) ==
    /\ stage[r] = "setup" /\ r \notin stopping
    /\ Move(r, "loop")
    /\ Says(r, "start")
    /\ UNCHANGED <<status, holder, turnTask, result, stopping, signal>> /\ OutsideRequests

\* finalize_conversation_turn: a signal in time makes the end TURN_CANCELLED, and what
\* the turn has said so far its answer; _result_status takes any answer for success.
TurnFinal(r) ==
    LET cut == ThreadOf(r) \in signal IN
    /\ stage[r] = "loop" /\ r \notin stopping
    /\ \E s \in IF cut THEN {"completed"} ELSE {"completed", "failed"} : Conclude(r, "finishing", s)
    /\ Says(r, IF cut THEN "cut" ELSE "end")
    /\ signal' = signal \ {ThreadOf(r)}
    /\ UNCHANGED <<status, holder, turnTask, stopping>> /\ OutsideRequests

\* TASK_ERROR for a failing hook, skill or upload, or for an exception of the loop.
TurnBreaks(r) ==
    /\ stage[r] \in {"setup", "loop"} /\ r \notin stopping
    /\ Conclude(r, "finishing", "failed")
    /\ Says(r, "end")
    /\ UNCHANGED <<status, holder, turnTask, stopping, signal>> /\ OutsideRequests

\* _mark_run_finished, _mark_run_failed or _mark_run_cancelled.
Record(r) ==
    /\ stage[r] \in {"finishing", "marking"} /\ r \notin stopping
    /\ status' = [status EXCEPT ![r] = result[r]]
    /\ Move(r, "done")
    /\ UNCHANGED <<holder, turnTask, result, stopping, signal, log>> /\ OutsideRequests

\* The update raises, made or not: after a first one the handler records a failure, and
\* nobody handles a second one.
RecordFails(r) ==
    /\ r \notin stopping
    /\ \/ stage[r] = "finishing" /\ Conclude(r, "marking", "failed")
       \/ stage[r] = "marking" /\ Move(r, "broken") /\ UNCHANGED result
    /\ status' \in {status, [status EXCEPT ![r] = result[r]]}
    /\ UNCHANGED <<holder, turnTask, stopping, signal, log>> /\ OutsideRequests

\* CancelledError: _run_turn reports it and returns "Cancelled."; before it the
\* handlers here record the run; the update that was under way may have been made.
Stopped(r) ==
    /\ r \in stopping
    /\ stopping' = stopping \ {r}
    /\ \/ /\ stage[r] \in {"queueing", "routing", "booting"}
          /\ Conclude(r, "marking", "cancelled")
          /\ holder' = IF holder[ThreadOf(r)] = r THEN [holder EXCEPT ![ThreadOf(r)] = NoRun] ELSE holder
          /\ UNCHANGED <<status, log>>
       \/ /\ stage[r] \in {"setup", "loop"}
          /\ Conclude(r, "finishing", "cancelled")
          /\ Says(r, "cut")
          /\ UNCHANGED <<status, holder>>
       \/ /\ stage[r] = "finishing"
          /\ Conclude(r, "marking", "cancelled")
          /\ status' \in {status, [status EXCEPT ![r] = result[r]]}
          /\ UNCHANGED <<holder, log>>
       \/ /\ stage[r] = "marking"
          /\ Move(r, "done")
          /\ status' \in {status, [status EXCEPT ![r] = result[r]]}
          /\ UNCHANGED <<result, holder, log>>
    /\ UNCHANGED <<turnTask, signal>> /\ OutsideRequests

-----------------------------------------------------------------------------
(* cancel_agent_run *)

OutsideStops == UNCHANGED <<threads, entries, turnTask, stage, result, eventVars, streamVs, crashed, early>>

StopRead(x) ==
    /\ x \in Stoppers /\ call[x] = "idle" /\ Told(ThreadOf(Subject[x]))
    /\ status[Subject[x]] # "none"
    /\ known' = [known EXCEPT ![x] = status[Subject[x]]]
    /\ Goto(x, "looking")
    /\ UNCHANGED <<status, holder, stopping, signal, forced>> /\ OutsideStops

\* What the stopper does with the record it has read: nothing awaits from here to the
\* signal but the lock.
StopAct(x) ==
    LET c == ThreadOf(Subject[x]) IN
    /\ x \in Stoppers /\ call[x] = "looking"
    /\ CASE known[x] \in Terminal ->
                Reply(x, "already") /\ UNCHANGED <<holder, signal, forced>>
         [] known[x] \notin Terminal /\ c \notin entries ->
                Goto(x, "marking") /\ UNCHANGED <<holder, signal, forced>>
         [] OTHER ->
                /\ Free(c)
                /\ IF TaskDone(turnTask[c])
                   THEN /\ Goto(x, "marking")
                        /\ holder' = [holder EXCEPT ![c] = x]
                        /\ UNCHANGED <<signal, forced>>
                   ELSE /\ call' = [call EXCEPT ![x] = "forcing"]
                        /\ answer' = [answer EXCEPT ![x] = "cancelling"]
                        /\ signal' = signal \cup {c}
                        /\ forced' = [forced EXCEPT ![x] = turnTask[c]]
                        /\ UNCHANGED holder
    /\ UNCHANGED <<status, stopping, known>> /\ OutsideStops

\* _mark_run_cancelled: no look at what the status has become.
StopMark(x) ==
    LET c == ThreadOf(Subject[x]) IN
    /\ x \in Stoppers /\ call[x] = "marking"
    /\ status' = [status EXCEPT ![Subject[x]] = "cancelled"]
    /\ holder' = IF holder[c] = x THEN [holder EXCEPT ![c] = NoRun] ELSE holder
    /\ call' = [call EXCEPT ![x] = "answered"]
    /\ answer' = IF answer[x] = "cancelling" THEN answer ELSE [answer EXCEPT ![x] = "inactive"]
    /\ UNCHANGED <<stopping, signal, known, forced>> /\ OutsideStops

\* Five seconds have passed: task.cancel(), then wait for the task.
StopForce(x) ==
    /\ x \in Stoppers /\ call[x] = "forcing" /\ ~TaskDone(forced[x])
    /\ stopping' = stopping \cup {forced[x]}
    /\ Goto(x, "awaiting")
    /\ UNCHANGED <<status, holder, signal, known, forced>> /\ OutsideStops

\* An exception of the task during the five seconds goes through wait_for.
Thrown(x) == call[x] = "forcing" /\ forced[x] # NoRun /\ stage[forced[x]] = "broken"

\* Mutant: the record is not looked at again.
MutantStopTail(x) ==
    /\ x \in Stoppers /\ call[x] \in {"forcing", "awaiting"} /\ TaskDone(forced[x]) /\ ~Thrown(x)
    /\ known' = [known EXCEPT ![x] = status[Subject[x]]]
    /\ Goto(x, "marking")
    /\ UNCHANGED <<status, holder, stopping, signal, forced>> /\ OutsideStops

\* Mutant: the task is trusted to have recorded the run.
MutantStopTailTrusts(x) ==
    /\ x \in Stoppers /\ call[x] \in {"forcing", "awaiting"} /\ TaskDone(forced[x])
    /\ Goto(x, "answered")
    /\ UNCHANGED <<status, holder, stopping, signal, known, forced>> /\ OutsideStops

\* The task is over: look again, and record the cancellation if nobody has.
StopTail(x) ==
    /\ x \in Stoppers /\ call[x] \in {"forcing", "awaiting"} /\ TaskDone(forced[x]) /\ ~Thrown(x)
    /\ known' = [known EXCEPT ![x] = status[Subject[x]]]
    /\ Goto(x, IF status[Subject[x]] \in Terminal THEN "answered" ELSE "marking")
    /\ UNCHANGED <<status, holder, stopping, signal, forced>> /\ OutsideStops

\* What nobody handles ends the request or its background task: the task's exception, the
\* second look raising, or the update raising, made or not.
StopFails(x) ==
    LET c == ThreadOf(Subject[x]) IN
    /\ x \in Stoppers
    /\ \/ /\ call[x] \in {"forcing", "awaiting"} /\ TaskDone(forced[x])
          /\ UNCHANGED <<status, holder>>
       \/ /\ call[x] = "marking"
          /\ status' \in {status, [status EXCEPT ![Subject[x]] = "cancelled"]}
          /\ holder' = IF holder[c] = x THEN [holder EXCEPT ![c] = NoRun] ELSE holder
    /\ Goto(x, "failed")
    /\ UNCHANGED <<stopping, signal, known, forced>> /\ OutsideStops

-----------------------------------------------------------------------------
(* The stream: stream_agent_run_events, _public_event_generator *)

OutsideStreams == UNCHANGED <<threads, status, entries, holder, taskVars, forced, eventVars, crashed, early>>

Stored(c) == 1..persisted[c]

\* _events_for_run: from the run's TURN_START to the next TURN_START.
History(c, r) ==
    LET starts(i) == log[c][i].what = "start"
        first == {i \in Stored(c) : starts(i) /\ log[c][i].run = r}
    IN  {i \in Stored(c) : \E f \in first :
            f <= i /\ \A j \in f + 1..i : ~starts(j)}

\* In ascending order.
Positions(S) ==
    CHOOSE s \in [1..Cardinality(S) -> S] : ToSet(s) = S /\ \A i, j \in DOMAIN s : i < j => s[i] < s[j]

StreamRead(s) ==
    /\ s \in Streamers /\ call[s] = "idle" /\ Told(ThreadOf(Subject[s]))
    /\ status[Subject[s]] # "none"
    /\ known' = [known EXCEPT ![s] = status[Subject[s]]]
    /\ Goto(s, "history")
    /\ UNCHANGED streamVs /\ OutsideStreams

\* What is stored is yielded; a run that had ended by then gets nothing more.
StreamHistory(s) ==
    LET past == History(ThreadOf(Subject[s]), Subject[s]) IN
    /\ s \in Streamers /\ call[s] = "history"
    /\ view' = [view EXCEPT ![s] = Positions(past)]
    /\ begun' = [begun EXCEPT ![s] = past # {}]
    /\ IF known[s] \in Terminal THEN Reply(s, "closed") ELSE Goto(s, "subscribing")
    /\ UNCHANGED <<known, next>> /\ OutsideStreams

\* _ensure_entry, then subscribe.
StreamSubscribe(s) ==
    LET c == ThreadOf(Subject[s]) IN
    /\ s \in Streamers /\ call[s] = "subscribing"
    /\ entries' = entries \cup {c}
    /\ next' = [next EXCEPT ![s] = Len(log[c])]
    /\ Goto(s, "checking")
    /\ UNCHANGED <<threads, status, holder, taskVars, forced, eventVars, crashed, early, known, view, begun>>

\* Mutant: the second look yields the history again.
MutantStreamCheck(s) ==
    LET past == History(ThreadOf(Subject[s]), Subject[s]) IN
    /\ s \in Streamers /\ call[s] = "checking"
    /\ IF status[Subject[s]] \in Terminal
       THEN Reply(s, "closed") /\ view' = [view EXCEPT ![s] = @ \o Positions(past)]
       ELSE Goto(s, "live") /\ UNCHANGED view
    /\ UNCHANGED <<known, next, begun>> /\ OutsideStreams

\* A run that has ended meanwhile: what is newly stored, then the end.
StreamCheck(s) ==
    LET c == ThreadOf(Subject[s])
        fresh == History(c, Subject[s]) \ ToSet(view[s])
    IN
    /\ s \in Streamers /\ call[s] = "checking"
    /\ IF status[Subject[s]] \in Terminal
       THEN Reply(s, "closed") /\ view' = [view EXCEPT ![s] = @ \o Positions(fresh)]
       ELSE Goto(s, "live") /\ UNCHANGED view
    /\ UNCHANGED <<known, next, begun>> /\ OutsideStreams

\* One event of the queue; only TURN_START carries a run_id.
StreamNext(s) ==
    LET c == ThreadOf(Subject[s])
        i == next[s] + 1
        starts == log[c][i].what = "start"
        own == IF starts THEN log[c][i].run = Subject[s] ELSE begun[s]
    IN
    /\ s \in Streamers /\ call[s] = "live" /\ i <= Len(log[c])
    /\ next' = [next EXCEPT ![s] = i]
    /\ begun' = [begun EXCEPT ![s] = @ \/ (starts /\ own)]
    /\ view' = IF own THEN [view EXCEPT ![s] = Append(@, i)] ELSE view
    /\ IF own /\ ~starts THEN Reply(s, "closed") ELSE Goto(s, "live")
    /\ UNCHANGED known /\ OutsideStreams

\* 300 quiet seconds: the status decides.
StreamTimeout(s) ==
    /\ s \in Streamers /\ call[s] = "live" /\ next[s] = Len(log[ThreadOf(Subject[s])])
    /\ status[Subject[s]] \in Terminal
    /\ Reply(s, "closed")
    /\ UNCHANGED <<known, streamVs>> /\ OutsideStreams

-----------------------------------------------------------------------------
(* Around them *)

\* The persistence worker stores the next event.
Persist(c) ==
    /\ persisted[c] < Len(log[c])
    /\ persisted' = [persisted EXCEPT ![c] = @ + 1]
    /\ UNCHANGED <<threads, status, entries, holder, taskVars, requestVars, log, streamVs, crashed, early>>

\* The server stops and starts again: the database keeps what it has.
Crash ==
    /\ MayCrash /\ ~crashed /\ crashed' = TRUE
    /\ entries' = {}
    /\ turnTask' = [c \in Creators |-> NoRun] /\ holder' = [c \in Creators |-> NoRun]
    /\ stage' = [r \in Runs |-> IF stage[r] = "none" THEN "none" ELSE "done"]
    /\ stopping' = {} /\ signal' = {}
    /\ call' = [q \in Callers |-> IF call[q] \in {"idle", "absent"} THEN call[q] ELSE "answered"]
    /\ log' = [c \in Creators |-> SubSeq(log[c], 1, persisted[c])]
    /\ view' = [s \in Streamers |-> <<>>]
    /\ UNCHANGED <<threads, status, result, answer, known, forced, persisted, next, begun, early>>

RunsStart(cast) ==
    /\ threads = {} /\ entries = {} /\ stopping = {} /\ signal = {}
    /\ status = [r \in Runs |-> "none"] /\ stage = [r \in Runs |-> "none"]
    /\ result = [r \in Runs |-> "none"]
    /\ turnTask = [c \in Creators |-> NoRun] /\ holder = [c \in Creators |-> NoRun]
    /\ call = [q \in Callers |-> IF q \in cast THEN "idle" ELSE "absent"]
    /\ answer = [q \in Callers |-> "none"]
    /\ known = [q \in Stoppers \cup Streamers |-> "none"]
    /\ forced = [x \in Stoppers |-> NoRun]
    /\ log = [c \in Creators |-> <<>>] /\ persisted = [c \in Creators |-> 0]
    /\ view = [s \in Streamers |-> <<>>] /\ next = [s \in Streamers |-> -1]
    /\ begun = [s \in Streamers |-> FALSE]
    /\ crashed = FALSE /\ early = {}

RunsInit == \E cast \in Casts : RunsStart(cast)

Create(q) == \/ CreateLook(q) \/ CreateThread(q) \/ CreateRecord(q) \/ CreateUndo(q)
             \/ CreateInstall(q) \/ CreateStart(q)
Post(q) == MessageLook(q) \/ MessageLock(q) \/ MessageRecord(q)
TaskStep(r) == \/ Begin(r) \/ EnterRoute(r) \/ LeaveRoute(r) \/ Boot(r) \/ TurnStart(r)
               \/ TurnFinal(r) \/ TurnBreaks(r) \/ Record(r) \/ RecordFails(r) \/ Stopped(r)
               \/ BeginFails(r)
StopStep(x) == StopRead(x) \/ StopAct(x) \/ StopMark(x) \/ StopForce(x) \/ StopTail(x) \/ StopFails(x)
StreamStep(s) == \/ StreamRead(s) \/ StreamHistory(s) \/ StreamSubscribe(s) \/ StreamCheck(s)
                 \/ StreamNext(s) \/ StreamTimeout(s)

RunsNext ==
    \/ \E q \in Creators : Create(q)
    \/ \E q \in Messagers : Post(q)
    \/ \E r \in Runs : TaskStep(r)
    \/ \E x \in Stoppers : StopStep(x)
    \/ \E s \in Streamers : StreamStep(s)
    \/ \E c \in Creators : Persist(c)
    \/ Crash

RunsSpec == RunsInit /\ [][RunsNext]_runsVars

\* Updates and sends end, timers fire and ready tasks run; a turn may hang for ever.
RunsFairness ==
    /\ \A r \in Runs : WF_runsVars(Begin(r) \/ BeginFails(r)) /\ WF_runsVars(Stopped(r))
                       /\ WF_runsVars(Record(r) \/ RecordFails(r))
    /\ \A x \in Stoppers : WF_runsVars(StopForce(x) \/ StopTail(x) \/ StopMark(x) \/ StopFails(x))

RunsFairSpec == RunsSpec /\ RunsFairness

-----------------------------------------------------------------------------
(* Properties *)

RunsTypeOK ==
    /\ threads \subseteq Creators /\ entries \subseteq Creators /\ signal \subseteq Creators
    /\ status \in [Runs -> Terminal \cup {"none", "queued", "running"}]
    /\ turnTask \in [Creators -> Runs \cup {NoRun}]
    /\ holder \in [Creators -> Runs \cup Stoppers \cup {NoRun}]
    /\ stage \in [Runs -> {"none", "starting", "queueing", "routing", "booting", "setup", "loop",
                           "finishing", "marking", "done", "broken"}]
    /\ result \in [Runs -> Terminal \cup {"none"}]
    /\ stopping \subseteq Runs
    /\ call \in [Callers -> {"absent", "idle", "making", "recording", "undoing", "installing", "locale",
                             "locking", "looking", "marking", "forcing", "awaiting", "history",
                             "subscribing", "checking", "live", "answered", "failed"}]
    /\ answer \in [Callers -> Runs \cup Replies]
    /\ forced \in [Stoppers -> Runs \cup {NoRun}]
    /\ early \subseteq Creators

\* Requests that repeat a key share one run, and a create that loses the race for it
\* leaves no conversation behind (unless the server stops first).
RunPerKey ==
    /\ \A q, r \in Runs : RunKey[q] # Unkeyed /\ RunKey[q] = RunKey[r]
                          /\ status[q] # "none" /\ status[r] # "none" => q = r
    /\ \A c \in threads : status[c] # "none" \/ call[c] \in {"recording", "undoing"} \/ crashed

\* An outcome in the database is only revised because of a cancel that read the record
\* before there was one: it named the run, or it stopped the task that it found instead; or
\* by the run's own task, as failed, when the update that recorded the outcome has raised.
OutcomeRevised ==
    [][\A r \in Runs : status[r] \in Terminal /\ status'[r] # status[r] =>
        \/ \E x \in Stoppers : (Subject[x] = r \/ forced[x] = r) /\ known[x] \notin Terminal \cup {"none"}
        \/ stage[r] = "marking" /\ result[r] = "failed" /\ status'[r] = "failed"
      ]_runsVars

\* A cancel that was accepted ends with its run recorded, whichever task it stopped and
\* though the turn may hang or break, unless its own look or update fails or the task
\* throws at it.
CancelSettles ==
    \A x \in Stoppers : answer[x] = "cancelling" ~>
        status[Subject[x]] \in Terminal \/ crashed \/ call[x] = "failed"

\* 'test_cancel_agent_run_signals_active_turn_and_marks_cancelled': a run whose turn was
\* reported as cancelled is not recorded as completed.
CutIsCancelled ==
    \A r \in Runs : status[r] = "completed" =>
        \A i \in DOMAIN log[ThreadOf(r)] : log[ThreadOf(r)][i] # [run |-> r, what |-> "cut"]

OwnEnd(s) == {i \in DOMAIN log[ThreadOf(Subject[s])] :
                log[ThreadOf(Subject[s])][i] \in [run : {Subject[s]}, what : {"end", "cut"}]}

\* A stream shows an event at most once and in order across history, recheck and live
\* queue, and another run's events only after its own run's end, which a restart of the
\* server can leave out.  A message on the answer of a repeated create may overlap the
\* first turn: events carry no run, and the stream cannot tell the two apart.
StreamFaithful ==
    \A s \in Streamers :
        LET c == ThreadOf(Subject[s]) IN
        /\ \A i, j \in DOMAIN view[s] : i < j => view[s][i] < view[s][j]
        /\ \A i \in ToSet(view[s]) :
            log[c][i].run # Subject[s] => crashed \/ c \in early \/ \E j \in OwnEnd(s) : j < i

=============================================================================
