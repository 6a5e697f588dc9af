------------------------------ MODULE Streaming ------------------------------
(***************************************************************************)
(* The text of a turn on its way to a chat: AnthropicClient streams it     *)
(* (agent/llm/client.py), trying again what broke, the loop emits each     *)
(* delta (agent/runtime/engine.py), and a ChannelResponder collects them   *)
(* in a buffer, which a timer, a threshold and the end of the turn empty   *)
(* into messages (api/channels/responder.py).                              *)
(*                                                                         *)
(* Deltas are numbered as they come; 0 is the answer of the turn before.   *)
(* Thinking blocks, and the splitting of long texts, are left out.         *)
(***************************************************************************)
EXTENDS Integers, Sequences, FiniteSets

CONSTANTS
    Tries,      \* _MAX_RETRIES
    Rounds,     \* bounds: calls of the model in the turn, deltas of the turn
    MaxDeltas,
    FlushAt     \* FLUSH_BUFFER_THRESHOLD, in deltas

ASSUME StreamingAssumption == Tries \in Nat \ {0}

VARIABLES
    llm,        \* the call: stage, round, attempt, and the deltas before this attempt
    said,       \* how many deltas came
    answer,     \* extract_final_text: the text of the last answer that has any
    buffer,
    flushTimer,      \* _flush_timer: "none", "set", or "fired" until its task begins
    flushes,    \* tasks of _flush_buffer that have not begun
    sending,    \* messages on their way, as deltas
    chat,       \* the deltas that the chat shows, in order
    dropped,    \* history: deltas discarded, or of messages that failed
    again,      \* history: deltas that the end of the turn sent again
    swapped     \* history: a message arrived before an earlier one

clientSide == <<llm, said, answer>>
chatSide == <<sending, chat, dropped, again, swapped>>
streamVars == <<clientSide, buffer, flushTimer, flushes, chatSide>>

From(a, b) == [i \in 1..(b - a) |-> a + i]
Elements(s) == {s[i] : i \in DOMAIN s}
Stage(st) == llm.stage = st

-----------------------------------------------------------------------------
(* create_message_stream *)

Calls ==
    /\ Stage("ready")
    /\ llm' = [llm EXCEPT !.stage = "streams", !.attempt = 1, !.before = said]
    /\ UNCHANGED <<said, answer, buffer, flushTimer, flushes, chatSide>>

\* _append_delta: a flush at the threshold, with each delta until it has begun; or a timer.
Delta ==
    /\ Stage("streams") /\ said < MaxDeltas
    /\ said' = said + 1
    /\ buffer' = Append(buffer, said')
    /\ IF Len(buffer') >= FlushAt THEN flushes' = flushes + 1 /\ UNCHANGED flushTimer
       ELSE /\ flushTimer' = IF flushTimer = "none" THEN "set" ELSE flushTimer
            /\ UNCHANGED flushes
    /\ UNCHANGED <<llm, answer, chatSide>>

\* A transient error: the next attempt begins anew, and what came has been shown.
StreamBreaks ==
    /\ Stage("streams")
    /\ llm' = [llm EXCEPT !.stage = IF llm.attempt < Tries THEN "sleeps" ELSE "failed"]
    /\ UNCHANGED <<said, answer, buffer, flushTimer, flushes, chatSide>>

\* Any other error, such as a content policy rejection.
StreamRefused ==
    /\ Stage("streams") /\ llm' = [llm EXCEPT !.stage = "failed"]
    /\ UNCHANGED <<said, answer, buffer, flushTimer, flushes, chatSide>>

RetryStream ==
    /\ Stage("sleeps")
    /\ llm' = [llm EXCEPT !.stage = "streams", !.attempt = @ + 1, !.before = said]
    /\ UNCHANGED <<said, answer, buffer, flushTimer, flushes, chatSide>>

StreamEnds ==
    /\ Stage("streams") /\ llm' = [llm EXCEPT !.stage = "answered"]
    /\ answer' = IF said = llm.before THEN answer ELSE From(llm.before, said)
    /\ UNCHANGED <<said, buffer, flushTimer, flushes, chatSide>>

\* The answer calls tools, after which the model is called again.
NextRound ==
    /\ Stage("answered") /\ llm.round < Rounds
    /\ llm' = [llm EXCEPT !.stage = "ready", !.round = @ + 1]
    /\ UNCHANGED <<said, answer, buffer, flushTimer, flushes, chatSide>>

-----------------------------------------------------------------------------
(* The responder *)

Sends(text) == sending' = IF text = <<>> THEN sending ELSE Append(sending, text)

\* Mutant: the buffer is kept.
MutantDiscarded == buffer

Discarded == <<>>

TimerFires ==
    /\ flushTimer = "set" /\ flushTimer' = "fired"
    /\ flushes' = flushes + 1
    /\ UNCHANGED <<clientSide, buffer, chatSide>>

FlushBuffer ==
    /\ flushes > 0 /\ flushes' = flushes - 1
    /\ flushTimer' = "none" /\ buffer' = <<>>
    /\ Sends(buffer)
    /\ UNCHANGED <<clientSide, chat, dropped, again, swapped>>

\* ASK_USER, while a tool of the answer waits: what was not sent yet never is.
AsksUser ==
    /\ Stage("answered") /\ llm.round < Rounds
    /\ flushTimer' = "none" /\ buffer' = Discarded
    /\ dropped' = dropped \cup Elements(buffer)
    /\ UNCHANGED <<clientSide, flushes, sending, chat, again, swapped>>

\* TURN_COMPLETE: what is in the buffer, or else the whole answer, though all of it, or that
\* of an earlier turn, was sent before.
TurnCompletes ==
    /\ Stage("answered") /\ llm' = [llm EXCEPT !.stage = "over"]
    /\ flushTimer' = "none" /\ buffer' = Discarded
    /\ Sends(IF buffer = <<>> THEN answer ELSE buffer)
    /\ again' = IF buffer = <<>> THEN Elements(answer) ELSE again
    /\ UNCHANGED <<said, answer, flushes, chat, dropped, swapped>>

\* TASK_ERROR
TurnFails ==
    /\ Stage("failed") /\ llm' = [llm EXCEPT !.stage = "over"]
    /\ flushTimer' = "none" /\ buffer' = Discarded
    /\ dropped' = dropped \cup Elements(buffer)
    /\ UNCHANGED <<said, answer, flushes, sending, chat, again, swapped>>

\* TURN_CANCELLED is none of the responder's events: the timer goes on.
TurnStops ==
    /\ llm.stage \in {"streams", "sleeps", "answered"}
    /\ llm' = [llm EXCEPT !.stage = "over"]
    /\ UNCHANGED <<said, answer, buffer, flushTimer, flushes, chatSide>>

\* Messages that are on their way together arrive in any order, or fail, which is only logged.
DeliverText(i) ==
    /\ sending' = [j \in 1..(Len(sending) - 1) |-> sending[IF j < i THEN j ELSE j + 1]]
    /\ \/ chat' = chat \o sending[i] /\ swapped' = (swapped \/ i > 1) /\ UNCHANGED dropped
       \/ dropped' = dropped \cup Elements(sending[i]) /\ UNCHANGED <<chat, swapped>>
    /\ UNCHANGED <<clientSide, buffer, flushTimer, flushes, again>>

-----------------------------------------------------------------------------
StreamingStart(old) ==
    /\ llm = [stage |-> "ready", round |-> 1, attempt |-> 0, before |-> 0]
    /\ said = 0 /\ answer = old
    /\ buffer = <<>> /\ flushTimer = "none" /\ flushes = 0
    /\ sending = <<>> /\ chat = <<>> /\ dropped = {} /\ again = {} /\ swapped = FALSE

\* The first turn of a chat, or a later one.
StreamingInit == \E old \in {<<>>, <<0>>} : StreamingStart(old)

StreamingNext ==
    \/ Calls \/ Delta \/ StreamBreaks \/ StreamRefused \/ RetryStream \/ StreamEnds \/ NextRound
    \/ TimerFires \/ FlushBuffer \/ AsksUser \/ TurnCompletes \/ TurnFails \/ TurnStops
    \/ \E i \in DOMAIN sending : DeliverText(i)

StreamingSpec == StreamingInit /\ [][StreamingNext]_streamVars

-----------------------------------------------------------------------------
\* How often a delta is in a sequence, and where it is by now.
Times(n, s) == Cardinality({i \in DOMAIN s : s[i] = n})
Shown(n) == Times(n, chat) + Times(n, buffer) + Cardinality({i \in DOMAIN sending : Times(n, sending[i]) > 0})

\* Each delta that streams to a chat is accounted for.  It is in the buffer, on its way or shown,
\* and that once; it is nowhere only if a question or an error discarded the buffer with it, or
\* its message failed; and twice at most, which happens only to the answer that a turn ends with,
\* when nothing is left in the buffer.  Nothing waits without a timer or a flush to come; and text
\* is shown in the order it came in, unless messages overtook each other.
TextAccounted ==
    /\ \A n \in 1..said : n \notin dropped \cup again => Shown(n) = 1
    /\ \A n \in dropped \ again : Shown(n) = 0
    /\ \A n \in again : Shown(n) <= 2
    /\ buffer # <<>> => flushTimer # "none" \/ flushes > 0
    /\ ~swapped => \A i, j \in DOMAIN chat : i < j => chat[i] < chat[j] \/ chat[j] \in again
    /\ Stage("over") /\ again # {} => again = Elements(answer)
=============================================================================
