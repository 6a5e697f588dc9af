----------------------------- MODULE McpClient ------------------------------
(***************************************************************************)
(* One client of an MCP server (agent/mcp/sse_client.py): it connects over *)
(* Streamable HTTP or, if the server does not support it, over a legacy    *)
(* event stream, and its calls overlap with each other, with the end of    *)
(* the stream, with the expiry of the session, with timeouts, with the     *)
(* cancellation of their tasks and with close().                           *)
(*                                                                         *)
(* The server is external: it answers, refuses, forgets sessions, ends     *)
(* streams or says nothing.  It gives out sessions, and answers the        *)
(* initialize of a renewal with anything but 404.                          *)
(***************************************************************************)
EXTENDS Integers, FiniteSets

CONSTANTS
    Rpcs,           \* calls of tools, resources and prompts
    Hello,          \* the call initialize of connect()
    MaxSessions     \* sessions the server gives out; a bound

AllRpcs == Rpcs \cup {Hello}
Streams == 1..2     \* the candidates of _legacy_sse_urls

VARIABLES
    phase,      \* how far connect() and close() have come
    legacy,     \* _legacy
    alive,      \* _connected
    stream,     \* the tasks of _legacy_read_stream; "ending" has yet to run its finally
    current,    \* the stream of _legacy_task
    endpoint,   \* _legacy_endpoint_ready
    rpcAt,      \* where a call is suspended
    future,     \* what it waits for
    table,      \* _pending
    wire,       \* answers on the stream
    unheard,    \* history: calls sent when the stream was over already
    sid,        \* _session_id, 0 for None
    held,       \* the sessions the server knows
    given,      \* how many it has given out
    farewell,   \* the session of a DELETE
    header,     \* the session id in the headers of a call's last request
    renewed     \* calls that are past retry_session_expired

clientVars == <<phase, legacy, alive, stream, current, endpoint, rpcAt, future, table, wire, unheard,
                sid, held, given, farewell, header, renewed>>
legacyVars == <<stream, current, endpoint, future, table, wire, unheard>>
sessionVars == <<sid, held, given, farewell, header, renewed>>
connVars == <<phase, legacy, alive>>

-----------------------------------------------------------------------------
Moves(c, to) == rpcAt' = [rpcAt EXCEPT ![c] = to]
Resolve(c, to) == future' = [future EXCEPT ![c] = to]
Awaiting(c) == rpcAt[c] = "waiting" /\ future[c] = "pending"

\* Mutant: the table is emptied before it is copied.
MutantRejected == future

\* _reject_pending: every future of the table that is not done gets an exception.
Rejected == [c \in AllRpcs |-> IF c \in table /\ future[c] = "pending" THEN "error" ELSE future[c]]

\* Whoever opens the conversation: the calls once it is open, initialize in connect().
MaySend(c) ==
    /\ rpcAt[c] = "idle"
    /\ IF c = Hello THEN phase = (IF legacy THEN "greeting" ELSE "probing")
                    ELSE phase \in {"open", "closing", "closed"}

-----------------------------------------------------------------------------
(* connect() *)

\* Streamable HTTP is not supported: the first candidate of the legacy stream is opened.
FallBack ==
    /\ phase = "probing" /\ rpcAt[Hello] = "failed" /\ sid = 0
    /\ phase' = "looking" /\ legacy' = TRUE
    /\ Moves(Hello, "idle")
    /\ current' = 1 /\ stream' = [stream EXCEPT ![1] = "reading"] /\ endpoint' = FALSE
    /\ UNCHANGED <<alive, future, table, wire, unheard, sessionVars>>

\* Any other error, or no fallback: connect() raises, and its caller closes the client.
ProbeFails ==
    /\ phase = "probing" /\ rpcAt[Hello] = "failed"
    /\ phase' = "refused"
    /\ UNCHANGED <<legacy, alive, rpcAt, legacyVars, sessionVars>>

\* An endpoint of another origin is ignored.
EndpointEvent ==
    /\ phase = "looking" /\ stream[current] = "reading" /\ ~endpoint
    /\ endpoint' = TRUE
    /\ UNCHANGED <<connVars, stream, current, rpcAt, future, table, wire, unheard, sessionVars>>

\* The stream is cancelled, which does not wait for its finally clause, and the next
\* candidate opened, or the client closed.
EndpointTimeout ==
    /\ phase = "looking" /\ ~endpoint
    /\ LET rest == [stream EXCEPT ![current] = IF @ = "reading" THEN "ending" ELSE @]
       IN  IF current = 1
           THEN current' = 2 /\ stream' = [rest EXCEPT ![2] = "reading"] /\ UNCHANGED <<phase, future, table>>
           ELSE /\ phase' = "closed" /\ stream' = rest
                /\ future' = Rejected /\ table' = {}
                /\ UNCHANGED current
    /\ UNCHANGED <<legacy, alive, endpoint, rpcAt, wire, unheard, sessionVars>>

Greet ==
    /\ phase = "looking" /\ endpoint
    /\ phase' = "greeting"
    /\ UNCHANGED <<legacy, alive, rpcAt, legacyVars, sessionVars>>

\* initialize has its result and the notification is out.
Connected ==
    /\ phase \in {"probing", "greeting"} /\ rpcAt[Hello] = "done"
    /\ phase' = "open" /\ alive' = TRUE
    /\ UNCHANGED <<legacy, rpcAt, legacyVars, sessionVars>>

\* initialize or the notification has failed: connect() raises.
GreetFails ==
    /\ phase = "greeting" /\ rpcAt[Hello] \in {"failed", "done"}
    /\ phase' = "refused"
    /\ UNCHANGED <<legacy, alive, rpcAt, legacyVars, sessionVars>>

-----------------------------------------------------------------------------
(* close() *)

Close ==
    /\ phase \in {"open", "refused"}
    /\ phase' = "closing" /\ alive' = FALSE
    /\ stream' = [n \in Streams |-> IF n = current /\ stream[n] = "reading" THEN "ending" ELSE stream[n]]
    /\ future' = Rejected /\ table' = {}
    /\ farewell' = IF legacy THEN 0 ELSE sid
    /\ UNCHANGED <<legacy, current, endpoint, rpcAt, wire, unheard, sid, held, given, header, renewed>>

\* The session is deleted, if there is one and the server can be reached; then no call is
\* sent any more, and those being sent fail.
CloseEnds ==
    /\ phase = "closing" /\ phase' = "closed"
    /\ held' \in {held, held \ {farewell}}
    /\ sid' = IF farewell = 0 THEN sid ELSE 0
    /\ UNCHANGED <<legacy, alive, rpcAt, legacyVars, given, farewell, header, renewed>>

-----------------------------------------------------------------------------
(* A call over the legacy stream *)

\* The future is in the table before the POST, and stays there if the POST fails.  Nobody
\* looks whether the stream is still read.
Send(c) ==
    /\ legacy /\ MaySend(c)
    /\ Resolve(c, "pending") /\ table' = table \cup {c}
    /\ unheard' = IF stream[current] = "over" THEN unheard \cup {c} ELSE unheard
    /\ Moves(c, IF phase = "closed" THEN "failed" ELSE "posting")
    /\ UNCHANGED <<connVars, stream, current, endpoint, wire, sessionVars>>

Posted(c) ==
    /\ legacy /\ rpcAt[c] = "posting" /\ phase # "closed"
    /\ Moves(c, "waiting")
    /\ UNCHANGED <<connVars, legacyVars, sessionVars>>

\* The POST fails, over either transport, or its task is cancelled.
PostFails(c) ==
    /\ rpcAt[c] \in {"posting", "renewing", "notifying"}
    /\ Moves(c, "failed")
    /\ UNCHANGED <<connVars, legacyVars, sessionVars>>

\* The server has the request as soon as it is posted, and answers on the stream.
ServerAnswers(c) ==
    /\ legacy /\ wire[c] = "none" /\ future[c] # "none" /\ rpcAt[c] # "idle"
    /\ stream[current] = "reading" /\ phase # "closed"
    /\ wire' = [wire EXCEPT ![c] = "sent"]
    /\ UNCHANGED <<connVars, stream, current, endpoint, rpcAt, future, table, unheard, sessionVars>>

\* _legacy_handle_event: the answer of a request that is in the table resolves its future.
\* If the future was cancelled, set_result raises InvalidStateError, which ends the stream.
Read(c) ==
    /\ wire[c] = "sent" /\ stream[current] = "reading"
    /\ wire' = [wire EXCEPT ![c] = "read"]
    /\ table' = table \ {c}
    /\ \/ c \notin table /\ UNCHANGED <<future, stream>>
       \/ c \in table /\ future[c] = "cancelled" /\ UNCHANGED future
            /\ stream' = [stream EXCEPT ![current] = "ending"]
       \/ c \in table /\ future[c] = "pending" /\ UNCHANGED stream
            /\ \E answer \in {"result", "error"} : Resolve(c, answer)
    /\ UNCHANGED <<connVars, current, endpoint, rpcAt, unheard, sessionVars>>

\* The server closes the stream, or refuses to open it.
StreamBreaks ==
    /\ legacy /\ stream[current] = "reading"
    /\ stream' = [stream EXCEPT ![current] = "ending"]
    /\ UNCHANGED <<connVars, current, endpoint, rpcAt, future, table, wire, unheard, sessionVars>>

\* The finally clause, which may come long after the cancellation, when another stream
\* has taken over.
StreamEnds(n) ==
    /\ stream[n] = "ending"
    /\ stream' = [stream EXCEPT ![n] = "over"]
    /\ alive' = FALSE
    /\ future' = Rejected /\ table' = {}
    /\ UNCHANGED <<phase, legacy, current, endpoint, rpcAt, wire, unheard, sessionVars>>

\* wait_for cancels the future; the call takes it out of the table when it wakes up.
Expires(c) ==
    /\ Awaiting(c)
    /\ Resolve(c, "cancelled") /\ Moves(c, "waking")
    /\ UNCHANGED <<connVars, stream, current, endpoint, table, wire, unheard, sessionVars>>

GivesUp(c) ==
    /\ rpcAt[c] = "waking"
    /\ table' = table \ {c} /\ Moves(c, "failed")
    /\ UNCHANGED <<connVars, stream, current, endpoint, future, wire, unheard, sessionVars>>

\* The task of a call is cancelled: no TimeoutError, and the entry stays in the table.
Abandoned(c) ==
    /\ Awaiting(c) /\ c # Hello
    /\ Resolve(c, "cancelled") /\ Moves(c, "failed")
    /\ UNCHANGED <<connVars, stream, current, endpoint, table, wire, unheard, sessionVars>>

Returns(c) ==
    /\ rpcAt[c] = "waiting" /\ future[c] \in {"result", "error"}
    /\ Moves(c, IF future[c] = "result" THEN "done" ELSE "failed")
    /\ UNCHANGED <<connVars, legacyVars, sessionVars>>

-----------------------------------------------------------------------------
(* A call over Streamable HTTP *)

\* The session id is read when the request is made.
Request(c, to) ==
    /\ Moves(c, to)
    /\ header' = [header EXCEPT ![c] = sid]

SendHttp(c) ==
    /\ ~legacy /\ MaySend(c)
    /\ IF phase = "closed" THEN Moves(c, "failed") /\ UNCHANGED header ELSE Request(c, "posting")
    /\ UNCHANGED <<connVars, legacyVars, sid, held, given, farewell, renewed>>

\* Any response but a refusal tells the session id, which may be an old one's.
Accepted(c) ==
    /\ ~legacy /\ rpcAt[c] = "posting" /\ phase # "closed"
    /\ c # Hello /\ header[c] \in held
    /\ sid' = header[c]
    /\ \E end \in {"done", "failed"} : Moves(c, end)
    /\ UNCHANGED <<connVars, legacyVars, held, given, farewell, header, renewed>>

\* initialize, of connect() or of a renewal, starts a session.
Welcomed(c) ==
    /\ ~legacy /\ phase # "closed" /\ given < MaxSessions
    /\ rpcAt[c] = (IF c = Hello THEN "posting" ELSE "renewing")
    /\ given' = given + 1 /\ held' = held \cup {given'} /\ sid' = given'
    /\ Moves(c, "notifying")
    /\ UNCHANGED <<connVars, legacyVars, farewell, header, renewed>>

\* The notification is out; initialize is over, or the call made once more.
Notified(c) ==
    /\ rpcAt[c] = "notifying" /\ phase # "closed"
    /\ IF c = Hello
       THEN Moves(c, "done") /\ UNCHANGED <<header, renewed>>
       ELSE Request(c, "posting") /\ renewed' = renewed \cup {c}
    /\ UNCHANGED <<connVars, legacyVars, sid, held, given, farewell>>

Renews(c) == c \notin renewed /\ sid # 0

\* 404: the session is unknown.  The client forgets the one it has, which another call
\* may have renewed already; without one, or the second time, the call fails.
Refused(c) ==
    /\ ~legacy /\ rpcAt[c] = "posting" /\ phase # "closed"
    /\ c # Hello /\ header[c] \notin held
    /\ IF Renews(c) THEN Moves(c, "renewing") /\ sid' = 0
                    ELSE Moves(c, "failed") /\ UNCHANGED sid
    /\ UNCHANGED <<connVars, legacyVars, held, given, farewell, header, renewed>>

SessionExpires(s) ==
    /\ s \in held /\ held' = held \ {s}
    /\ UNCHANGED <<connVars, rpcAt, legacyVars, sid, given, farewell, header, renewed>>

-----------------------------------------------------------------------------
ClientInit ==
    /\ phase = "probing" /\ legacy = FALSE /\ alive = FALSE
    /\ stream = [n \in Streams |-> "none"] /\ current = 0 /\ endpoint = FALSE
    /\ rpcAt = [c \in AllRpcs |-> "idle"] /\ future = [c \in AllRpcs |-> "none"] /\ table = {}
    /\ wire = [c \in AllRpcs |-> "none"] /\ unheard = {}
    /\ sid = 0 /\ held = {} /\ given = 0 /\ farewell = 0
    /\ header = [c \in AllRpcs |-> 0] /\ renewed = {}

Connects == FallBack \/ ProbeFails \/ EndpointEvent \/ EndpointTimeout \/ Greet \/ Connected \/ GreetFails
Closes == Close \/ CloseEnds
LegacyCall(c) == \/ Send(c) \/ Posted(c) \/ ServerAnswers(c) \/ Read(c)
                 \/ Expires(c) \/ GivesUp(c) \/ Abandoned(c) \/ Returns(c)
HttpCall(c) == SendHttp(c) \/ Accepted(c) \/ Welcomed(c) \/ Notified(c) \/ Refused(c)

ClientNext ==
    \/ Connects \/ Closes \/ StreamBreaks
    \/ \E n \in Streams : StreamEnds(n)
    \/ \E s \in held : SessionExpires(s)
    \/ \E c \in AllRpcs : LegacyCall(c) \/ HttpCall(c) \/ PostFails(c)

ClientSpec == ClientInit /\ [][ClientNext]_clientVars

-----------------------------------------------------------------------------
\* The values of the variables.
ClientTypeOK ==
    /\ phase \in {"probing", "looking", "greeting", "open", "refused", "closing", "closed"}
    /\ legacy \in BOOLEAN /\ alive \in BOOLEAN /\ endpoint \in BOOLEAN
    /\ stream \in [Streams -> {"none", "reading", "ending", "over"}] /\ current \in 0..2
    /\ rpcAt \in [AllRpcs -> {"idle", "posting", "waiting", "waking", "renewing", "notifying", "done", "failed"}]
    /\ future \in [AllRpcs -> {"none", "pending", "result", "error", "cancelled"}]
    /\ table \subseteq AllRpcs /\ wire \in [AllRpcs -> {"none", "sent", "read"}]
    /\ unheard \subseteq AllRpcs
    /\ sid \in 0..MaxSessions /\ held \subseteq 1..MaxSessions
    /\ given \in 0..MaxSessions /\ farewell \in 0..MaxSessions
    /\ header \in [AllRpcs -> 0..MaxSessions] /\ renewed \subseteq AllRpcs

\* Whatever ends under it, the stream, the client or another call, a call that waits for an
\* answer is in the table, and the stream that resolves or rejects what is in the table is
\* not over yet.  A call sent only after that, when nobody reads any more, waits for its
\* timeout.
NoCallStranded ==
    \A c \in AllRpcs :
        Awaiting(c) => c \in table /\ (c \in unheard \/ stream[current] \in {"reading", "ending"})

=============================================================================
