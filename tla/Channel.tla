------------------------------ MODULE Channel ------------------------------
(***************************************************************************)
(* One conversation held over a messaging channel: the inbound messages of *)
(* api/routes/channels.py and api/channels/router.py, the responders of    *)
(* api/channels/responder.py, and the questions a turn asks its user, with *)
(* the persisted prompts of api/events.py and api/user_responses.py.       *)
(* A question can be answered from the channel, or from the web through    *)
(* this process or another one.  An action is what one coroutine does      *)
(* between two awaits.                                                     *)
(***************************************************************************)
EXTENDS Integers, FiniteSets

CONSTANTS
    Deliveries,  \* inbound messages as the provider delivers them, and the turns they start
    Message,     \* the message a delivery carries; a webhook may be retried
    Submits,     \* answers submitted to the respond endpoints
    Foreign,     \* those that another process serves
    Nobody,      \* no answer, no turn
    CanDelete,   \* bound: whether the conversation is deleted
    MaxAsks      \* bound: questions

Asks == 1..MaxAsks
Answerers == Deliveries \cup Submits

ASSUME ChannelAssumption ==
    /\ Deliveries \cap Submits = {} /\ Foreign \subseteq Submits
    /\ Nobody \notin Answerers /\ {"none", "open"} \cap Answerers = {}
    /\ DOMAIN Message = Deliveries
    /\ CanDelete \in BOOLEAN
    /\ MaxAsks \in Nat

VARIABLES
    exists,    \* the conversation's row, to which the prompts cascade
    logged,    \* messages in channel_message_log
    inbound,   \* where each delivery stands
    turn,      \* where the turn of a delivery stands
    task,      \* entry.turn_task
    awaited,   \* the turn a delivery waits for
    asks,      \* questions asked
    asker,     \* the turn that asked
    pc,        \* where emit_and_wait stands
    row,       \* the status of the persisted prompt, "none" without a row
    reply,     \* whose response the row holds
    waiter,    \* the future in _waiters: "none", "open", or whose response it has
    got,       \* whose response emit_and_wait returned
    todo,      \* responders that have not handled the ASK_USER event
    pending,   \* _pending_prompts of the channel router: a question, or 0
    subs,      \* responders subscribed to the emitter
    timer,     \* <<responder, question>>: _ask_user_timeout tasks that run
    latest,    \* the question of _ask_user_timeout_task
    submit,    \* where submit_response stands
    aim,       \* the question an answer is for
    saved      \* responses saved as messages of a question

rowVars == <<exists, row, reply, saved>>
turnVars == <<turn, task>>
inVars == <<logged, inbound, awaited>>
askVars == <<asks, asker, pc, got, waiter, todo>>
respVars == <<pending, subs, timer, latest>>
submitVars == <<submit, aim>>
vars == <<rowVars, turnVars, inVars, askVars, respVars, submitVars>>

Over == {"answered", "timedout", "cancelled"}
Asking == {"emitting", "polling", "sleeping"}
Submitting == {"looking", "updating", "saving", "logging"}
Processed == {"logged", "answering", "joining", "waiting", "processed"}

Running(t) == t # Nobody /\ turn[t] \in {"running", "asking", "announced"}

-----------------------------------------------------------------------------
(* Inbound messages: _handle_channel_message                               *)

Arrives(d) ==
    /\ inbound[d] = "idle" /\ exists
    /\ inbound' = [inbound EXCEPT ![d] = IF Message[d] \in logged THEN "dropped" ELSE "fresh"]
    /\ UNCHANGED <<rowVars, turnVars, logged, awaited, askVars, respVars, submitVars>>

\* Mutant: the log does not refuse a second row.
MutantLogs(d) ==
    /\ inbound[d] = "fresh"
    /\ inbound' = [inbound EXCEPT ![d] = "logged"]
    /\ logged' = logged \cup {Message[d]}
    /\ UNCHANGED <<rowVars, turnVars, awaited, askVars, respVars, submitVars>>

\* uq_channel_msg_dedupe refuses what a concurrent delivery has logged meanwhile.
Logs(d) ==
    /\ inbound[d] = "fresh"
    /\ inbound' = [inbound EXCEPT ![d] = IF Message[d] \in logged THEN "dropped" ELSE "logged"]
    /\ logged' = logged \cup {Message[d]}
    /\ UNCHANGED <<rowVars, turnVars, awaited, askVars, respVars, submitVars>>

\* A question is pending: the message answers it.  One without text does not.
Answers(d) ==
    /\ inbound[d] = "logged" /\ pending # 0
    /\ \/ /\ inbound' = [inbound EXCEPT ![d] = "processed"]
          /\ UNCHANGED <<pending, submitVars>>
       \/ /\ inbound' = [inbound EXCEPT ![d] = "answering"]
          /\ pending' = 0
          /\ submit' = [submit EXCEPT ![d] = "looking"]
          /\ aim' = [aim EXCEPT ![d] = pending]
    /\ UNCHANGED <<rowVars, turnVars, logged, awaited, askVars, subs, timer, latest>>

\* None is: a responder subscribes for the turn this message will start.
Subscribes(d) ==
    /\ inbound[d] = "logged" /\ pending = 0
    /\ inbound' = [inbound EXCEPT ![d] = "joining"]
    /\ subs' = subs \cup {d}
    /\ UNCHANGED <<rowVars, turnVars, logged, awaited, askVars, pending, timer, latest, submitVars>>

StartTurn(d) ==
    /\ inbound' = [inbound EXCEPT ![d] = "processed"]
    /\ turn' = [turn EXCEPT ![d] = "running"]
    /\ task' = d

\* The attachment is there.
Joins(d) ==
    /\ inbound[d] = "joining"
    /\ IF Running(task)
       THEN /\ inbound' = [inbound EXCEPT ![d] = "waiting"]
            /\ awaited' = [awaited EXCEPT ![d] = task]
            /\ UNCHANGED <<turn, task>>
       ELSE StartTurn(d) /\ UNCHANGED awaited
    /\ UNCHANGED <<rowVars, logged, askVars, respVars, submitVars>>

\* The turn is over or 30 seconds are: the message starts its own without another
\* look at turn_task.
Waited(d) ==
    /\ inbound[d] = "waiting"
    /\ turn[awaited[d]] # "aborted"
    /\ StartTurn(d)
    /\ awaited' = [awaited EXCEPT ![d] = Nobody]
    /\ UNCHANGED <<rowVars, logged, askVars, respVars, submitVars>>

\* The CancelledError of an aborted turn comes through the shield.
WaitFailed(d) ==
    /\ inbound[d] = "waiting"
    /\ turn[awaited[d]] = "aborted"
    /\ inbound' = [inbound EXCEPT ![d] = "processed"]
    /\ awaited' = [awaited EXCEPT ![d] = Nobody]
    /\ UNCHANGED <<rowVars, turnVars, logged, askVars, respVars, submitVars>>

-----------------------------------------------------------------------------
(* The turn and its responders                                             *)

\* TURN_COMPLETE or TASK_ERROR: every responder that is subscribed sends the text,
\* cancels its timer and leaves.
Announces(t) ==
    /\ turn[t] = "running"
    /\ turn' = [turn EXCEPT ![t] = "announced"]
    /\ timer' = {x \in timer : ~(x[1] \in subs /\ x[2] = latest[x[1]])}
    /\ latest' = [d \in Deliveries |-> IF d \in subs THEN 0 ELSE latest[d]]
    /\ subs' = {}
    /\ UNCHANGED <<rowVars, task, inVars, askVars, pending, submitVars>>

TurnDone(t) ==
    /\ turn[t] = "announced"
    /\ turn' = [turn EXCEPT ![t] = "done"]
    /\ UNCHANGED <<rowVars, task, inVars, askVars, respVars, submitVars>>

\* cancel_turn or the eviction: no responder listens to TURN_CANCELLED.  A question
\* whose event is still being emitted leaves its future behind.
TurnCancelled(t) ==
    /\ Running(t)
    /\ \E s \in {"done", "aborted"} : turn' = [turn EXCEPT ![t] = s]
    /\ LET mine == {a \in Asks : asker[a] = t /\ pc[a] \in Asking}
       IN  /\ pc' = [a \in Asks |-> IF a \in mine THEN "cancelled" ELSE pc[a]]
           /\ todo' = [a \in Asks |-> IF a \in mine THEN {} ELSE todo[a]]
           /\ waiter' = [a \in Asks |->
                  IF a \in mine /\ pc[a] # "emitting" THEN "none" ELSE waiter[a]]
    /\ UNCHANGED <<rowVars, task, inVars, asks, asker, got, respVars, submitVars>>

\* 300 seconds after the question, answered or not.
Notice(d, a) ==
    /\ <<d, a>> \in timer
    /\ timer' = timer \ {<<d, a>>}
    /\ subs' = subs \ {d}
    /\ UNCHANGED <<rowVars, turnVars, inVars, askVars, pending, latest, submitVars>>

-----------------------------------------------------------------------------
(* A question: emit_and_wait and wait_for_response                         *)

\* The prompt is persisted, the future registered and the event on its way.
Ask(t) ==
    /\ turn[t] = "running" /\ asks < MaxAsks /\ exists
    /\ LET a == asks + 1 IN
       /\ asks' = a
       /\ asker' = [asker EXCEPT ![a] = t]
       /\ row' = [row EXCEPT ![a] = "pending"]
       /\ waiter' = [waiter EXCEPT ![a] = "open"]
       /\ pc' = [pc EXCEPT ![a] = "emitting"]
       /\ todo' = [todo EXCEPT ![a] = subs]
    /\ turn' = [turn EXCEPT ![t] = "asking"]
    /\ UNCHANGED <<exists, reply, saved, task, inVars, got, respVars, submitVars>>

\* A responder has sent the question to the chat.
Asked(d, a) ==
    /\ d \in todo[a]
    /\ todo' = [todo EXCEPT ![a] = @ \ {d}]
    /\ pending' = a
    /\ timer' = timer \cup {<<d, a>>}
    /\ latest' = [latest EXCEPT ![d] = a]
    /\ UNCHANGED <<rowVars, turnVars, inVars, asks, asker, pc, got, waiter, subs, submitVars>>

\* emit_and_wait is over: with an answer, or with the timeout.
Leaves(a, how, x) ==
    /\ pc' = [pc EXCEPT ![a] = how]
    /\ got' = [got EXCEPT ![a] = x]
    /\ waiter' = [waiter EXCEPT ![a] = "none"]
    /\ turn' = [turn EXCEPT ![asker[a]] = "running"]

\* _poll_or_wait looks at the future, when the event is out and after each pause ...
Looks(a) ==
    /\ \/ pc[a] = "emitting" /\ todo[a] = {}
       \/ pc[a] = "sleeping"
    /\ IF waiter[a] = "open"
       THEN pc' = [pc EXCEPT ![a] = "polling"] /\ UNCHANGED <<got, waiter, turn>>
       ELSE Leaves(a, "answered", waiter[a])
    /\ UNCHANGED <<rowVars, task, inVars, asks, asker, todo, respVars, submitVars>>

\* Mutant: the stored answer is not looked for.
MutantPolls(a) ==
    /\ pc[a] = "polling"
    /\ pc' = [pc EXCEPT ![a] = "sleeping"]
    /\ UNCHANGED <<rowVars, turnVars, inVars, asks, asker, got, waiter, todo, respVars, submitVars>>

\* ... and then at the row.
Polls(a) ==
    /\ pc[a] = "polling"
    /\ IF row[a] = "responded"
       THEN Leaves(a, "answered", reply[a])
       ELSE pc' = [pc EXCEPT ![a] = "sleeping"] /\ UNCHANGED <<got, waiter, turn>>
    /\ UNCHANGED <<rowVars, task, inVars, asks, asker, todo, respVars, submitVars>>

TimesOut(a) ==
    /\ pc[a] \in {"polling", "sleeping"}
    /\ Leaves(a, "timedout", Nobody)
    /\ UNCHANGED <<rowVars, task, inVars, asks, asker, todo, respVars, submitVars>>

-----------------------------------------------------------------------------
(* An answer: submit_response                                              *)

Submit(x) ==
    /\ submit[x] = "idle"
    /\ \E a \in 1..asks : aim' = [aim EXCEPT ![x] = a]
    /\ submit' = [submit EXCEPT ![x] = "looking"]
    /\ UNCHANGED <<rowVars, turnVars, inVars, askVars, respVars>>

\* resolve_local: the future is there and has no result.
Resolve(a, x) ==
    waiter' = IF waiter[a] = "open" THEN [waiter EXCEPT ![a] = x] ELSE waiter

\* Mutant: the callback is called before the status is looked at.
MutantEnds(x, status) ==
    /\ submit' = [submit EXCEPT ![x] = "over"]
    /\ IF x \in Deliveries
       THEN /\ inbound' = [inbound EXCEPT ![x] = "processed"]
            /\ Resolve(aim[x], x)
       ELSE /\ UNCHANGED inbound
            /\ IF status = "fulfilled" /\ x \notin Foreign THEN Resolve(aim[x], x)
               ELSE UNCHANGED waiter

\* The endpoint only reports the status.  The channel ignores a message that came
\* too late, and calls the callback of the question also when there is no row.
Ends(x, status) ==
    /\ submit' = [submit EXCEPT ![x] = "over"]
    /\ inbound' = IF x \in Deliveries THEN [inbound EXCEPT ![x] = "processed"] ELSE inbound
    /\ IF (status = "fulfilled" /\ x \notin Foreign) \/ (status = "notfound" /\ x \in Deliveries)
       THEN Resolve(aim[x], x)
       ELSE UNCHANGED waiter

FindsConversation(x) ==
    /\ submit[x] = "looking"
    /\ IF exists
       THEN submit' = [submit EXCEPT ![x] = "updating"] /\ UNCHANGED <<inbound, waiter>>
       ELSE Ends(x, "notfound")
    /\ UNCHANGED <<rowVars, turnVars, logged, awaited, asks, asker, pc, got, todo, respVars, aim>>

\* Mutant: any prompt is updated.
MutantAccepts(a) == row[a] # "none"

Accepts(a) == row[a] = "pending"
Fulfil(a) == row' = [row EXCEPT ![a] = "responded"]

\* fulfill_prompt: UPDATE ... WHERE status = 'pending', and commit.
Updates(x) ==
    /\ submit[x] = "updating"
    /\ LET a == aim[x] IN
       \/ /\ Accepts(a)
          /\ Fulfil(a)
          /\ reply' = [reply EXCEPT ![a] = x]
          /\ submit' = [submit EXCEPT ![x] = "saving"]
          /\ UNCHANGED <<inbound, waiter>>
       \/ /\ ~Accepts(a)
          /\ Ends(x, IF row[a] = "none" THEN "notfound" ELSE "already")
          /\ UNCHANGED <<row, reply>>
    /\ UNCHANGED <<exists, saved, turnVars, logged, awaited, asks, asker, pc, got, todo, respVars,
                   aim>>

\* The prompt is read again and the response saved as a message.
Saves(x) ==
    /\ submit[x] = "saving"
    /\ IF row[aim[x]] # "none"
       THEN /\ saved' = [saved EXCEPT ![aim[x]] = @ \cup {x}]
            /\ submit' = [submit EXCEPT ![x] = "logging"]
            /\ UNCHANGED <<inbound, waiter>>
       ELSE Ends(x, "notfound") /\ UNCHANGED saved
    /\ UNCHANGED <<exists, row, reply, turnVars, logged, awaited, asks, asker, pc, got, todo,
                   respVars, aim>>

\* The event is saved, and who waits here is told.
Fulfilled(x) ==
    /\ submit[x] = "logging"
    /\ Ends(x, "fulfilled")
    /\ UNCHANGED <<rowVars, turnVars, logged, awaited, asks, asker, pc, got, todo, respVars, aim>>

\* The database fails, or the request is dropped, at any of these awaits.
SubmitFails(x) ==
    /\ submit[x] \in Submitting
    /\ submit' = [submit EXCEPT ![x] = "over"]
    /\ inbound' = IF x \in Deliveries THEN [inbound EXCEPT ![x] = "processed"] ELSE inbound
    /\ UNCHANGED <<rowVars, turnVars, logged, awaited, askVars, respVars, aim>>

\* delete_conversation; that it cancels the turn is TurnCancelled.
Delete ==
    /\ CanDelete /\ exists
    /\ exists' = FALSE
    /\ row' = [a \in Asks |-> "none"]
    /\ UNCHANGED <<reply, saved, turnVars, inVars, askVars, respVars, submitVars>>

-----------------------------------------------------------------------------

\* The account is linked and its session has a conversation.
Init ==
    /\ exists = TRUE /\ logged = {} /\ task = Nobody /\ asks = 0 /\ pending = 0
    /\ subs = {} /\ timer = {}
    /\ inbound = [d \in Deliveries |-> "idle"]
    /\ turn = [d \in Deliveries |-> "none"]
    /\ awaited = [d \in Deliveries |-> Nobody]
    /\ latest = [d \in Deliveries |-> 0]
    /\ asker = [a \in Asks |-> Nobody]
    /\ pc = [a \in Asks |-> "none"]
    /\ row = [a \in Asks |-> "none"]
    /\ reply = [a \in Asks |-> Nobody]
    /\ waiter = [a \in Asks |-> "none"]
    /\ got = [a \in Asks |-> Nobody]
    /\ todo = [a \in Asks |-> {}]
    /\ saved = [a \in Asks |-> {}]
    /\ submit = [x \in Answerers |-> "idle"]
    /\ aim = [x \in Answerers |-> 0]

InboundStep(d) ==
    \/ Arrives(d) \/ Logs(d) \/ Answers(d) \/ Subscribes(d)
    \/ Joins(d) \/ Waited(d) \/ WaitFailed(d)

TurnStep(t) == Announces(t) \/ TurnDone(t) \/ TurnCancelled(t) \/ Ask(t)

WaitStep(a) == (\E d \in Deliveries : Asked(d, a)) \/ Looks(a) \/ Polls(a)

SubmitStep(x) ==
    FindsConversation(x) \/ Updates(x) \/ Saves(x) \/ Fulfilled(x) \/ SubmitFails(x)

Next ==
    \/ \E d \in Deliveries : InboundStep(d) \/ TurnStep(d)
    \/ \E a \in Asks : WaitStep(a) \/ TimesOut(a)
    \/ \E d \in Deliveries, a \in Asks : Notice(d, a)
    \/ \E x \in Submits : Submit(x)
    \/ \E x \in Answerers : SubmitStep(x)
    \/ Delete

Spec == Init /\ [][Next]_vars

\* Messages are sent, pauses end and the database answers the polls.  Nothing is
\* assumed of who answers, nor that the 300 seconds ever pass.
PollFairness == \A a \in Asks : WF_vars(WaitStep(a))

PollSpec == Spec /\ PollFairness

-----------------------------------------------------------------------------
(* Properties                                                              *)

TypeOK ==
    /\ exists \in BOOLEAN
    /\ logged \subseteq {Message[d] : d \in Deliveries}
    /\ inbound \in [Deliveries -> Processed \cup {"idle", "fresh", "dropped"}]
    /\ turn \in [Deliveries -> {"none", "running", "asking", "announced", "done", "aborted"}]
    /\ task \in Deliveries \cup {Nobody}
    /\ awaited \in [Deliveries -> Deliveries \cup {Nobody}]
    /\ asks \in 0..MaxAsks
    /\ asker \in [Asks -> Deliveries \cup {Nobody}]
    /\ pc \in [Asks -> Asking \cup Over \cup {"none"}]
    /\ row \in [Asks -> {"none", "pending", "responded"}]
    /\ reply \in [Asks -> Answerers \cup {Nobody}]
    /\ waiter \in [Asks -> Answerers \cup {"none", "open"}]
    /\ got \in [Asks -> Answerers \cup {Nobody}]
    /\ todo \in [Asks -> SUBSET Deliveries]
    /\ pending \in 0..MaxAsks
    /\ subs \subseteq Deliveries
    /\ timer \subseteq Deliveries \X Asks
    /\ latest \in [Deliveries -> 0..MaxAsks]
    /\ submit \in [Answerers -> Submitting \cup {"idle", "over"}]
    /\ aim \in [Answerers -> 0..MaxAsks]
    /\ saved \in [Asks -> SUBSET Answerers]

\* However answers from the chat, from here and from other processes race, the
\* turn goes on with the one answer that the prompt's row has, whether it came by
\* the future or by polling.
OneAnswer == \A a \in Asks : pc[a] = "answered" /\ exists => got[a] = reply[a]

\* The history has no other answer to a question, and no more than one.
SavedIsReply == \A a \in Asks : saved[a] \subseteq {reply[a]}

\* Row, turn and history agree on what was answered.
AnswersKept == OneAnswer /\ SavedIsReply

\* A webhook that the provider repeats is processed once, also when both
\* deliveries looked at the log before either wrote it.
ProcessedOnce ==
    \A d, e \in Deliveries :
        d # e /\ Message[d] = Message[e] => ~(inbound[d] \in Processed /\ inbound[e] \in Processed)

\* An answer that is committed ends the wait, also when the request that brought it
\* failed afterwards or another process served it.
AnswerArrives ==
    \A a \in Asks : (row[a] = "responded" /\ pc[a] \in Asking) ~> (pc[a] \in Over \/ ~exists)

\* 'Assistant text is sent back through ChannelResponder as channel messages': a
\* turn of the channel that ends has a responder.
AnswerSentBack == [][\A t \in Deliveries : Announces(t) => subs # {}]_vars
=============================================================================
