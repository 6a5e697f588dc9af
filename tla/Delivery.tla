------------------------------ MODULE Delivery ------------------------------
(***************************************************************************)
(* The events of one conversation on their way to the web client and to    *)
(* the database: EventEmitter.emit (api/events.py), the queue subscriber   *)
(* (api/sse.py) and the persistence subscriber (api/db_subscriber.py).     *)
(*                                                                         *)
(* An event is its number in the order of the calls of emit.  gather runs  *)
(* the subscribers as tasks, which the event loop starts in that order.    *)
(***************************************************************************)
EXTENDS Integers, Sequences, SequencesExt

CONSTANTS
    EventKinds,     \* kinds of events the instance emits, of DOMAIN Writes
    Responders,     \* channel responders subscribed beside the two queues
    MaxPending,     \* max_pending of the emitter
    LiveSize,       \* _EVENT_QUEUE_MAXSIZE
    QueueSize,      \* _PERSISTENCE_QUEUE_MAXSIZE
    MaxRetries,     \* _MAX_RETRIES
    MaxEvents       \* bound: events of one behaviour

\* A size of 0 would mean a queue without bound.
ASSUME DeliveryAssumption == LiveSize \in Nat \ {0} /\ QueueSize \in Nat \ {0}

VARIABLES
    kind,       \* the kind of each event emitted so far
    starting,   \* events whose subscribers have not run yet, in order
    sending,    \* how many emits only wait for a responder to finish
    live,       \* entry.event_queue
    seen,       \* the last event the stream has yielded, 0 for none
    queue,      \* persistence_queue
    worker,     \* worker_task: "none", "getting", "writing", "leaving", "done"
    job,        \* what the worker writes: event, next step, attempt
    stored,     \* what is committed, in order
    count,      \* PendingWrites._count; _drained is set while it is 0
    refused,    \* events a full persistence queue turned away or dropped
    lost,       \* events the worker gave up on
    abandoned   \* the last worker left events behind and none came since

streamVars == <<live, seen>>
writeVars == <<queue, worker, job, stored, count, refused, lost, abandoned>>
deliveryVars == <<kind, starting, sending, live, seen, queue, worker, job, stored,
                  count, refused, lost, abandoned>>

-----------------------------------------------------------------------------
(* Kinds of events *)

\* The commits of _do_write, in order, for one representative of each kind.
Writes ==
    [delta    |-> <<>>,                       \* TEXT_DELTA, never stored
     note     |-> <<"event">>,                \* THINKING and most others
     stage    |-> <<"event">>,                \* AGENT_STAGE_TRANSITION
     nudge    |-> <<"event">>,                \* LOOP_GUARD_NUDGE
     tool     |-> <<"event">>,                \* TOOL_CALL, ASK_USER, ...
     start    |-> <<"message", "event">>,     \* TURN_START
     end      |-> <<"message", "event">>,     \* TURN_COMPLETE
     artifact |-> <<"artifact", "event">>,    \* ARTIFACT_CREATED
     usage    |-> <<"event", "usage">>,       \* LLM_RESPONSE
     summary  |-> <<"summary", "event">>,     \* CONTEXT_COMPACTED
     skill    |-> <<"event", "activation">>,  \* SKILL_ACTIVATED
     title    |-> <<"title">>,                \* CONVERSATION_TITLE
     answer   |-> <<>>]                       \* USER_RESPONSE saved by the submit

NonLossy == {"nudge", "stage", "tool", "end", "usage", "answer"}
NonLossyLive == {"stage", "tool", "end", "usage", "answer"}
NonDroppable == {"tool", "start", "end", "artifact", "usage", "summary", "answer"}
Skipped == {"delta"}

\* The only table whose rows the event names: a second insert is an IntegrityError.
Unique == {"artifact"}

NoJob == [event |-> 0, step |-> 0, attempt |-> 0]

PendingCount == (2 + Responders) * (Len(starting) + sending)

-----------------------------------------------------------------------------
(* The bounded queues *)

\* Mutant: what was taken out while looking for a lossy event goes back behind the new one.
MutantOfferOrder(q, size, e, keep) ==
    CASE Len(q) < size -> Append(q, e)
      [] Len(q) >= size /\ kind[e] \in keep /\ (\E i \in DOMAIN q : kind[q[i]] \notin keep) ->
            <<e>> \o RemoveFirstMatch(q, LAMBDA f : kind[f] \notin keep)
      [] OTHER -> q

\* Mutant: a full queue drops its oldest event.
MutantOfferOldest(q, size, e, keep) == Append(IF Len(q) < size THEN q ELSE Tail(q), e)

\* The event goes in; into a full queue only by pushing out the first one not kept.
Offer(q, size, e, keep) ==
    CASE Len(q) < size -> Append(q, e)
      [] Len(q) >= size /\ kind[e] \in keep /\ (\E i \in DOMAIN q : kind[q[i]] \notin keep) ->
            Append(RemoveFirstMatch(q, LAMBDA f : kind[f] \notin keep), e)
      [] OTHER -> q

-----------------------------------------------------------------------------
(* Emitting *)

\* A lossy event over the limit is dropped at once and gets no number.
Emit(k) ==
    /\ Len(kind) < MaxEvents
    /\ PendingCount < MaxPending \/ k \in NonLossy
    /\ kind' = Append(kind, k)
    /\ starting' = Append(starting, Len(kind) + 1)
    /\ UNCHANGED <<sending, streamVars, writeVars>>

\* The emitting task is cancelled: gather cancels the subscribers that have not started.
CancelEmit(e) ==
    /\ \E i \in DOMAIN starting : starting[i] = e /\ starting' = RemoveAt(starting, i)
    /\ UNCHANGED <<kind, sending, streamVars, writeVars>>

\* _subscriber of sse.py.
Show(e) == live' = Offer(live, LiveSize, e, NonLossyLive)

\* Mutant: a worker that has left is not replaced.
MutantEnsureWorker == worker' = IF worker = "none" THEN "getting" ELSE worker

\* _ensure_worker.
EnsureWorker == worker' = IF worker \in {"none", "done"} THEN "getting" ELSE worker

\* Mutant: a refused or evicted event stays counted.
MutantEnqueue(e) ==
    LET q == Offer(queue, QueueSize, e, NonDroppable) IN
    /\ EnsureWorker
    /\ queue' = q
    /\ refused' = refused \cup ((ToSet(queue) \cup {e}) \ ToSet(q))
    /\ count' = count + 1
    /\ abandoned' = FALSE
    /\ UNCHANGED <<job, stored, lost>>

\* _subscriber of db_subscriber.py: count, worker, then the queue; a turned away or
\* pushed out event is uncounted.
Enqueue(e) ==
    LET q == Offer(queue, QueueSize, e, NonDroppable)
        out == (ToSet(queue) \cup {e}) \ ToSet(q)
    IN  /\ EnsureWorker
        /\ queue' = q
        /\ refused' = refused \cup out
        /\ count' = IF out = {} THEN count + 1 ELSE count
        /\ abandoned' = FALSE
        /\ UNCHANGED <<job, stored, lost>>

Deliver(e) ==
    /\ starting # <<>> /\ e = Head(starting)
    /\ starting' = Tail(starting)
    /\ sending' = IF Responders = 0 THEN sending ELSE sending + 1
    /\ Show(e)
    /\ IF kind[e] \in Skipped THEN UNCHANGED writeVars ELSE Enqueue(e)
    /\ UNCHANGED <<kind, seen>>

\* The responders of some event are done, or its emit is cancelled.
Sent ==
    /\ sending > 0
    /\ sending' = sending - 1
    /\ UNCHANGED <<kind, starting, streamVars, writeVars>>

-----------------------------------------------------------------------------
(* The stream *)

\* _event_generator; a keepalive changes nothing, and nothing ever puts None.
Yield ==
    /\ live # <<>>
    /\ seen' = Head(live)
    /\ live' = Tail(live)
    /\ UNCHANGED <<kind, starting, sending, writeVars>>

-----------------------------------------------------------------------------
(* The persistence worker *)

Take ==
    /\ worker = "getting" /\ queue # <<>>
    /\ worker' = "writing"
    /\ job' = [event |-> Head(queue), step |-> 1, attempt |-> 1]
    /\ queue' = Tail(queue)
    /\ UNCHANGED <<kind, starting, sending, streamVars, stored, count, refused, lost, abandoned>>

\* The timer of wait_for cancels the get; the item of a put that came first stays queued.
IdleOut ==
    /\ worker = "getting"
    /\ worker' = "leaving"
    /\ UNCHANGED <<kind, starting, sending, streamVars, queue, job, stored, count, refused,
                   lost, abandoned>>

Leave ==
    /\ worker = "leaving"
    /\ worker' = "done"
    /\ abandoned' = (queue # <<>>)
    /\ UNCHANGED <<kind, starting, sending, streamVars, queue, job, stored, count, refused, lost>>

\* The finally clause of _worker.
Finish ==
    /\ worker' = "getting"
    /\ job' = NoJob
    /\ count' = IF count > 0 THEN count - 1 ELSE 0

Row == [event |-> job.event, what |-> Writes[kind[job.event]][job.step]]

Steps == Len(Writes[kind[job.event]])

Duplicate == Row.what \in Unique /\ \E i \in DOMAIN stored : stored[i] = Row

\* _retry_with_backoff after a transient failure: the whole of _do_write again.
Retry ==
    IF job.attempt < MaxRetries
    THEN /\ job' = [job EXCEPT !.step = 1, !.attempt = @ + 1]
         /\ UNCHANGED <<worker, count, lost>>
    ELSE Finish /\ lost' = lost \cup {job.event}

WritingOnly == UNCHANGED <<kind, starting, sending, streamVars, queue, refused, abandoned>>

\* A USER_RESPONSE that was saved with the answer writes nothing.
NothingToWrite ==
    /\ worker = "writing" /\ Steps = 0
    /\ Finish
    /\ UNCHANGED <<stored, lost>> /\ WritingOnly

Commit ==
    /\ worker = "writing" /\ job.step <= Steps /\ ~Duplicate
    /\ stored' = Append(stored, Row)
    /\ IF job.step < Steps
       THEN job' = [job EXCEPT !.step = @ + 1] /\ UNCHANGED <<worker, count>>
       ELSE Finish
    /\ UNCHANGED lost /\ WritingOnly

\* The commit is made and its answer lost.
CommitUnsure ==
    /\ worker = "writing" /\ job.step <= Steps /\ ~Duplicate
    /\ stored' = Append(stored, Row)
    /\ Retry
    /\ WritingOnly

\* OperationalError and the like, or a foreign key not visible yet.
FailTransient ==
    /\ worker = "writing" /\ job.step <= Steps
    /\ Retry
    /\ UNCHANGED stored /\ WritingOnly

\* Any other error: the event is lost at once.
FailForGood ==
    /\ worker = "writing" /\ job.step <= Steps
    /\ Finish
    /\ lost' = lost \cup {job.event}
    /\ UNCHANGED stored /\ WritingOnly

-----------------------------------------------------------------------------
DeliveryInit ==
    /\ kind = <<>> /\ starting = <<>> /\ sending = 0
    /\ live = <<>> /\ seen = 0
    /\ queue = <<>> /\ worker = "none" /\ job = NoJob
    /\ stored = <<>> /\ count = 0
    /\ refused = {} /\ lost = {} /\ abandoned = FALSE

Emits == \E k \in EventKinds : Emit(k)
Delivers == \E e \in 1..MaxEvents : Deliver(e)
Works == Take \/ Leave \/ NothingToWrite \/ Commit \/ CommitUnsure \/ FailTransient \/ FailForGood

DeliveryNext ==
    \/ Emits
    \/ Delivers
    \/ \E e \in 1..MaxEvents : CancelEmit(e)
    \/ Sent
    \/ Yield
    \/ IdleOut
    \/ Works

DeliverySpec == DeliveryInit /\ [][DeliveryNext]_deliveryVars

\* The loop runs ready tasks, and the driver's awaits end.
DeliveryFairness == WF_deliveryVars(Delivers) /\ WF_deliveryVars(Works)

DeliveryFairSpec == DeliverySpec /\ DeliveryFairness

-----------------------------------------------------------------------------
(* Properties *)

DeliveryTypeOK ==
    /\ kind \in Seq(EventKinds) /\ Len(kind) <= MaxEvents
    /\ starting \in Seq(1..Len(kind)) /\ sending \in 0..Len(kind)
    /\ live \in Seq(1..Len(kind)) /\ seen \in 0..Len(kind)
    /\ queue \in Seq(1..Len(kind))
    /\ worker \in {"none", "getting", "writing", "leaving", "done"}
    /\ job \in [event : 0..Len(kind), step : Nat, attempt : 0..MaxRetries]
    /\ stored \in Seq([event : 1..Len(kind), what : STRING])
    /\ count \in Nat
    /\ refused \subseteq 1..Len(kind) /\ lost \subseteq 1..Len(kind)
    /\ abandoned \in BOOLEAN

\* The count that shutdown waits for is the number of events queued or being written,
\* through refusals, evictions, retries and workers that come and go.
WritesAccounted ==
    count = Len(queue) + IF worker = "writing" THEN 1 ELSE 0

\* Rows are committed in the order of the events, retries and changes of worker
\* included, so that the messages of a rebuilt conversation are in order.
StoredInOrder ==
    /\ \A i, j \in DOMAIN stored : i < j => stored[i].event <= stored[j].event
    /\ \A i \in DOMAIN stored, j \in DOMAIN queue : stored[i].event < queue[j]

\* The stream never goes back and never repeats an event, whatever room was made.
LiveInOrder ==
    /\ \A i, j \in DOMAIN live : i < j => live[i] < live[j]
    /\ \A i \in DOMAIN live : seen < live[i]

\* Both: no order of deliveries, drops, retries and workers mixes the events up.
InOrder == StoredInOrder /\ LiveInOrder

\* Nothing that was queued is left out of the count or overtaken.
WritesKept == WritesAccounted /\ InOrder

\* A structural event is turned away only by a queue full of structural events; a queue
\* that was full stays full, so nothing is dropped in vain.
DropsJustified ==
    [][/\ \A e \in refused' \ refused :
            kind[e] \in NonDroppable =>
                Len(queue) = QueueSize /\ \A i \in DOMAIN queue : kind[queue[i]] \in NonDroppable
       /\ \A e \in DOMAIN kind :
            Deliver(e) /\ kind[e] \in NonLossyLive /\ e \notin ToSet(live') =>
                Len(live) = LiveSize /\ \A i \in DOMAIN live : kind[live[i]] \in NonLossyLive
      ]_deliveryVars

\* The emits over, the wait for the count to reach 0 ends: every event queued is written or
\* given up, except when an idle worker left one behind whose put came with its timeout.
DrainEnds == count > 0 ~> count = 0 \/ abandoned

=============================================================================
