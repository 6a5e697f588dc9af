---------------------------- MODULE ServicesProofs ----------------------------
(***************************************************************************)
(* Theorems about the services around a turn, which share no state: MCP    *)
(* calls, shells with their notices, the skills a turn is offered and the  *)
(* history it sends to the model, artifacts with their previews, and the   *)
(* team of a planner turn.                                                 *)
(***************************************************************************)
EXTENDS McpClient, Background, AgentLoop, Artifacts, Planning, WellFoundedInduction,
        FiniteSetTheorems, SequenceTheorems, TLAPS

-----------------------------------------------------------------------------
(* MCP calls *)

FutureStates == {"none", "pending", "result", "error", "cancelled"}

\* A call in one of these stages looks at its future next, or when the stream resolves it.
AtStream(c) == rpcAt[c] \in {"posting", "waiting"}

\* A call has a future only over the legacy stream, whose calls never renew a session, and
\* a future nobody has resolved is in the table from before the POST on.  The stream that
\* takes it out is not over, or was over when the call was sent.
ClientInv ==
    /\ rpcAt \in [AllRpcs -> {"idle", "posting", "waiting", "waking", "renewing", "notifying",
                              "done", "failed"}]
    /\ future \in [AllRpcs -> FutureStates]
    /\ stream \in [Streams -> {"none", "reading", "ending", "over"}]
    /\ current \in 0..2 /\ (legacy => current \in Streams /\ stream[current] # "none")
    /\ \A c \in AllRpcs : ~legacy \/ rpcAt[c] \in {"renewing", "notifying"} => future[c] = "none"
    /\ \A c \in AllRpcs :
          AtStream(c) /\ future[c] = "pending"
          => c \in table /\ (c \in unheard \/ stream[current] \in {"reading", "ending"})

LEMMA ClientStarts == ClientInit => ClientInv
BY DEF ClientInit, ClientInv, FutureStates, AtStream

\* Every future of the table has been resolved, so nothing pending is left out of it.
LEMMA RejectedKeeps ==
    ASSUME ClientInv, future' = Rejected, rpcAt' = rpcAt, legacy' = legacy,
           stream' \in [Streams -> {"none", "reading", "ending", "over"}], current' = current,
           legacy => stream'[current] # "none"
    PROVE  ClientInv'
<1>1. future' \in [AllRpcs -> FutureStates]
  BY DEF ClientInv, Rejected, FutureStates
<1>2. ASSUME NEW c \in AllRpcs
      PROVE  /\ future[c] = "none" => future'[c] = "none"
             /\ AtStream(c) => future'[c] # "pending"
  BY <1>2 DEF ClientInv, Rejected
<1>3. QED
  BY <1>1, <1>2 DEF ClientInv, AtStream

LEMMA ConnectsKeep == ASSUME ClientInv, Connects \/ Closes \/ StreamBreaks PROVE ClientInv'
<1> USE DEF Streams
<1>1. CASE FallBack
  BY <1>1 DEF FallBack, ClientInv, AtStream, Moves, AllRpcs
<1>2. CASE EndpointTimeout
  <2>1. stream' \in [Streams -> {"none", "reading", "ending", "over"}]
    BY <1>2 DEF EndpointTimeout, ClientInv
  <2>2. rpcAt' = rpcAt /\ legacy' = legacy /\ unheard' = unheard
    BY <1>2 DEF EndpointTimeout
  <2>3. CASE current = 1
    <3>1. current' = 2 /\ stream'[2] = "reading" /\ UNCHANGED <<future, table>>
      BY <1>2, <2>3 DEF EndpointTimeout, ClientInv
    <3>2. QED
      BY <2>1, <2>2, <3>1 DEF ClientInv, AtStream
  <2>4. CASE current # 1
    <3>1. future' = Rejected /\ UNCHANGED current
      BY <1>2, <2>4 DEF EndpointTimeout
    <3>2. legacy => stream'[current] # "none"
      BY <1>2, <2>4 DEF EndpointTimeout, ClientInv
    <3>3. QED
      BY <2>1, <2>2, <3>1, <3>2, RejectedKeeps
  <2>5. QED
    BY <2>3, <2>4
<1>3. CASE ProbeFails \/ EndpointEvent \/ Greet \/ Connected \/ GreetFails \/ CloseEnds
  BY <1>3 DEF ProbeFails, EndpointEvent, Greet, Connected, GreetFails, CloseEnds, legacyVars,
      connVars, ClientInv, AtStream
<1>4. CASE Close
  <2>1. stream' \in [Streams -> {"none", "reading", "ending", "over"}]
    BY <1>4 DEF Close, ClientInv
  <2>2. legacy => stream'[current] # "none"
    BY <1>4 DEF Close, ClientInv
  <2>3. QED
    BY <1>4, <2>1, <2>2, RejectedKeeps DEF Close
<1>5. CASE StreamBreaks
  BY <1>5 DEF StreamBreaks, connVars, ClientInv, AtStream
<1>6. QED
  BY <1>1, <1>2, <1>3, <1>4, <1>5 DEF Connects, Closes

LEMMA StreamKeeps == ASSUME ClientInv, NEW n \in Streams, StreamEnds(n) PROVE ClientInv'
<1>1. stream' \in [Streams -> {"none", "reading", "ending", "over"}]
  BY DEF StreamEnds, ClientInv
<1>2. legacy => stream'[current] # "none"
  BY DEF StreamEnds, ClientInv
<1>3. QED
  BY <1>1, <1>2, RejectedKeeps DEF StreamEnds

LEMMA LegacyKeeps == ASSUME ClientInv, NEW c \in AllRpcs, LegacyCall(c) PROVE ClientInv'
<1>1. CASE Send(c)
  <2>1. stream[current] \in {"reading", "ending", "over"} /\ UNCHANGED <<legacy, stream, current>>
    BY <1>1 DEF Send, connVars, ClientInv
  <2>2. QED
    BY <1>1, <2>1 DEF Send, Resolve, Moves, MaySend, ClientInv, AtStream, FutureStates
<1>2. CASE Posted(c)
  BY <1>2 DEF Posted, Moves, connVars, legacyVars, ClientInv, AtStream
<1>3. CASE ServerAnswers(c)
  BY <1>3 DEF ServerAnswers, connVars, ClientInv, AtStream
<1>4. CASE Read(c)
  <2>1. UNCHANGED <<rpcAt, legacy, current, unheard>> /\ table' = table \ {c}
    BY <1>4 DEF Read, connVars
  <2>2. stream' \in [Streams -> {"none", "reading", "ending", "over"}]
    BY <1>4 DEF Read, ClientInv
  <2>2a. legacy => stream'[current] \in {"reading", "ending"}
    BY <1>4 DEF Read, ClientInv
  <2>3. CASE UNCHANGED future /\ (c \notin table \/ future[c] = "cancelled")
    BY <2>1, <2>2, <2>2a, <2>3 DEF ClientInv, AtStream
  <2>4. CASE future[c] = "pending" /\ \E answer \in {"result", "error"} : Resolve(c, answer)
    BY <2>1, <2>2, <2>2a, <2>4 DEF ClientInv, AtStream, Resolve, FutureStates
  <2>5. QED
    BY <1>4, <2>3, <2>4 DEF Read
<1>5. CASE Expires(c)
  BY <1>5 DEF Expires, Awaiting, Resolve, Moves, connVars, ClientInv, AtStream, FutureStates
<1>6. CASE GivesUp(c)
  BY <1>6 DEF GivesUp, Moves, connVars, ClientInv, AtStream
<1>7. CASE Abandoned(c)
  BY <1>7 DEF Abandoned, Awaiting, Resolve, Moves, connVars, ClientInv, AtStream, FutureStates
<1>8. CASE Returns(c)
  BY <1>8 DEF Returns, Moves, connVars, legacyVars, ClientInv, AtStream
<1>9. QED
  BY <1>1, <1>2, <1>3, <1>4, <1>5, <1>6, <1>7, <1>8 DEF LegacyCall

LEMMA HttpKeeps ==
    ASSUME ClientInv, NEW c \in AllRpcs, HttpCall(c) \/ PostFails(c) PROVE ClientInv'
<1>1. UNCHANGED <<legacy, future, table, stream, current, unheard>>
  BY DEF HttpCall, PostFails, SendHttp, Accepted, Welcomed, Notified, Refused, connVars, legacyVars
<1>2. CASE SendHttp(c) \/ Accepted(c) \/ Welcomed(c) \/ Refused(c)
  BY <1>1, <1>2 DEF SendHttp, Accepted, Welcomed, Refused, Request, Moves, ClientInv, AtStream
<1>3. CASE Notified(c)
  BY <1>1, <1>3 DEF Notified, Request, Moves, ClientInv, AtStream
<1>4. CASE PostFails(c)
  BY <1>1, <1>4 DEF PostFails, Moves, ClientInv, AtStream
<1>5. QED
  BY <1>2, <1>3, <1>4 DEF HttpCall

\* Futures exist only over the legacy stream, and nothing pending leaves _pending, in every
\* reachable state of a client.
THEOREM ClientInvariant == ClientSpec => []ClientInv
<1>1. ClientInv /\ [ClientNext]_clientVars => ClientInv'
  <2> SUFFICES ASSUME ClientInv, [ClientNext]_clientVars PROVE ClientInv'
    OBVIOUS
  <2>1. CASE \E s \in held : SessionExpires(s)
    BY <2>1 DEF SessionExpires, connVars, legacyVars, ClientInv, AtStream
  <2>2. CASE UNCHANGED clientVars
    BY <2>2 DEF clientVars, ClientInv, AtStream
  <2>3. QED
    BY <2>1, <2>2, ConnectsKeep, StreamKeeps, LegacyKeeps, HttpKeeps DEF ClientNext
<1>2. QED
  BY <1>1, ClientStarts, PTL DEF ClientSpec

\* A call that waits for its answer is in _pending, whatever ended under it, and the stream
\* that empties _pending is not over, unless it was over when the call was sent
\* (sse_client.py: _legacy_handle_event, _reject_pending, the finally clause of
\* _legacy_read_stream, _legacy_send_request).
THEOREM NoCallIsStranded == ClientSpec => []NoCallStranded
<1>1. ClientInv => NoCallStranded
  BY DEF ClientInv, NoCallStranded, Awaiting, AtStream
<1>2. QED
  BY <1>1, ClientInvariant, PTL

-----------------------------------------------------------------------------
(* Helpers *)

LEMMA LeastNumber ==
    ASSUME NEW I \in SUBSET Nat, I # {}
    PROVE  \E x \in I : \A y \in I : x <= y
<1>1. \E x \in I : \A y \in I : <<y, x>> \notin OpToRel(<, Nat)
  BY NatLessThanWellFounded, WFMin
<1>2. PICK x \in I : \A y \in I : <<y, x>> \notin OpToRel(<, Nat)
  BY <1>1
<1>3. ASSUME NEW y \in I PROVE x <= y
  <2>1. <<y, x>> \in Nat \X Nat /\ <<y, x>>[1] = y /\ <<y, x>>[2] = x
    OBVIOUS
  <2>2. ~(y < x)
    BY <1>2, <2>1 DEF OpToRel
  <2>3. x \in Nat /\ y \in Nat
    OBVIOUS
  <2>4. QED
    BY <2>2, <2>3
<1>4. QED
  BY <1>3

-----------------------------------------------------------------------------
(* Background                                                              *)

\* The latest command of a session, started while no other was alive, is the only one of it
\* that is alive: it alone writes the exit code, and the marker is no younger than it.
SessionTrue(s) ==
    LET p == dir[s].pid IN
    p # 0 =>
        /\ proc[p].shell = s /\ proc[p].state # "none"
        /\ p \notin overlapped =>
            /\ \A q \in Procs \ {p} : proc[q].shell = s => ~Alive(q)
            /\ proc[p].state \in {"finishing", "exited"} => dir[s].code = proc[p].code
            /\ wrote[p] \subseteq since[s]

\* A call looks at the latest command of its session, and collects what has ended.
ToolTrue ==
    /\ tool.op \in {"none", "exec", "wait", "collect", "write", "kill"}
    /\ tool.op \in {"wait", "collect", "write", "kill"} =>
          tool.shell \in Shells /\ tool.pid = dir[tool.shell].pid /\ tool.pid \in Procs
    /\ tool.op = "collect" =>
          /\ ~Alive(tool.pid)
          /\ tool.pid \notin overlapped /\ proc[tool.pid].state = "exited" => tool.code = proc[tool.pid].code

ReportTrue ==
    LET p == report.pid IN
    /\ p \in 0..MaxProcs
    /\ p # 0 =>
        /\ proc[p].state \in {"exited", "quit", "killed"}
        /\ p \notin overlapped => /\ proc[p].state = "exited" => report.code = proc[p].code
                                  /\ report.named \/ wrote[p] \ Uploaded \subseteq report.paths

ProcsTrue ==
    /\ \A p \in Procs : proc[p].state = "none" => wrote[p] = {} /\ proc[p].shell = Foreground
    /\ \A p \in Procs : proc[p].state \in {"finishing", "exited"} => proc[p].code # NoCode

BackgroundInv ==
    /\ BackgroundTypeOK /\ ProcsTrue
    /\ \A s \in Shells : SessionTrue(s)
    /\ ToolTrue /\ ReportTrue
    /\ told \in [Notices -> SUBSET {"running", "completed"}]

LEMMA BackgroundStarts == BackgroundInit => BackgroundInv
BY BackgroundAssumption
DEF BackgroundInit, BackgroundInv, BackgroundTypeOK, ProcsTrue, SessionTrue, ToolTrue, ReportTrue,
    NoTool, NoReport, Procs, Markers

LEMMA NoticesKeep ==
    ASSUME BackgroundInv, NEW n \in Notices, NoticeStep(n)
    PROVE  BackgroundInv'
<1>1. UNCHANGED shellVars /\ revoking' \subseteq Notices
  BY DEF BackgroundInv, BackgroundTypeOK, NoticeStep, Schedule, Fires, Tells, Completes, Fails, CancelNotice,
         CancelReturns, Replay
<1>2. told' \in [Notices -> SUBSET {"running", "completed"}]
  BY DEF BackgroundInv, NoticeStep, Schedule, Fires, Tells, Completes, Fails, CancelNotice,
         CancelReturns, Replay
<1>3. QED
  BY <1>1, <1>2
  DEF BackgroundInv, BackgroundTypeOK, ProcsTrue, SessionTrue, ToolTrue, ReportTrue, Alive, shellVars

\* A new command of a session starts with an empty set of files since its marker, and is alive
\* alone unless it is recorded as overlapped.
LEMMA StartShellKeeps ==
    ASSUME BackgroundInv, NEW s \in Shells, NEW explicit \in SUBSET Files, StartShell(s, explicit)
    PROVE  BackgroundInv'
<1> DEFINE p == CHOOSE p \in Unused : \A q \in Unused : p <= q
<1>1. p \in Unused
  <2>1. Unused \in SUBSET Nat /\ Unused # {}
    BY BackgroundAssumption DEF StartShell, Unused, Procs
  <2>2. QED
    BY <2>1, LeastNumber
<1>2. p \in Procs /\ proc[p].state = "none" /\ wrote[p] = {} /\ p \in 1..MaxProcs
  BY <1>1 DEF Unused, BackgroundInv, ProcsTrue, Procs
<1>3. /\ tool = NoTool /\ UNCHANGED <<written, wrote, tool, report, noticeVars>>
      /\ proc' = [proc EXCEPT ![p] = [shell |-> s, state |-> "blocked", code |-> NoCode]]
      /\ dir' = [dir EXCEPT ![s] = [pid |-> p, code |-> dir[s].code, explicit |-> explicit]]
      /\ overlapped' = IF \E q \in Procs : proc[q].shell = s /\ Alive(q)
                       THEN overlapped \cup {p} ELSE overlapped
      /\ since' = [since EXCEPT ![s] = {}]
  BY DEF StartShell, Idle
<1> HIDE DEF p
<1>4. BackgroundTypeOK'
  BY <1>2, <1>3, BackgroundAssumption DEF BackgroundInv, BackgroundTypeOK, Waiting, Markers, noticeVars
<1>5. ProcsTrue'
  BY <1>2, <1>3 DEF BackgroundInv, BackgroundTypeOK, ProcsTrue
<1>6. SessionTrue(s)'
  <2>1. dir'[s].pid = p /\ proc'[p].shell = s /\ proc'[p].state = "blocked" /\ p \notin overlapped' =>
            \A q \in Procs : proc[q].shell = s => ~Alive(q)
    BY <1>2, <1>3 DEF BackgroundInv, BackgroundTypeOK
  <2>2. \A q \in Procs \ {p} : proc'[q] = proc[q]
    BY <1>2, <1>3 DEF BackgroundInv, BackgroundTypeOK
  <2>3. dir'[s].pid = p /\ proc'[p].shell = s /\ proc'[p].state = "blocked" /\ wrote'[p] = {}
    BY <1>2, <1>3 DEF BackgroundInv, BackgroundTypeOK
  <2>4. QED
    BY <2>1, <2>2, <2>3 DEF SessionTrue, Alive
<1>7. ASSUME NEW t \in Shells \ {s} PROVE SessionTrue(t)'
  <2>1. dir'[t] = dir[t] /\ since'[t] = since[t] /\ dir[t].pid \in 0..MaxProcs
    BY <1>3, <1>7 DEF BackgroundInv, BackgroundTypeOK, Markers
  <2>2. SUFFICES ASSUME dir[t].pid # 0 PROVE SessionTrue(t)'
    BY <2>1 DEF SessionTrue
  <2>3. dir[t].pid # p /\ dir[t].pid \in Procs /\ SessionTrue(t)
    BY <1>2, <2>1, <2>2 DEF BackgroundInv, SessionTrue, Procs
  <2>4. \A q \in Procs \ {p} : proc'[q] = proc[q] /\ wrote'[q] = wrote[q] /\ (q \in overlapped' <=> q \in overlapped)
    BY <1>2, <1>3 DEF BackgroundInv, BackgroundTypeOK
  <2>5. proc'[p].shell # t
    BY <1>2, <1>3, <1>7 DEF BackgroundInv, BackgroundTypeOK
  <2>6. QED
    BY <2>1, <2>2, <2>3, <2>4, <2>5 DEF SessionTrue, Alive
<1>8. ToolTrue'
  BY <1>3 DEF ToolTrue, NoTool
<1>9. ReportTrue'
  BY <1>2, <1>3 DEF BackgroundInv, BackgroundTypeOK, ReportTrue, Procs
<1>10. QED
  BY <1>3, <1>4, <1>5, <1>6, <1>7, <1>8, <1>9 DEF BackgroundInv, noticeVars

\* A step in which a file may be written, the processes start no work, end none and record
\* nothing, and the call under way does not become another's.
LEMMA WritesKeep ==
    ASSUME BackgroundInv, NEW f \in Files, Writes(f), UNCHANGED <<proc, dir, overlapped, tool, report, noticeVars>>,
           \/ wrote' = wrote
           \/ \E p \in Procs : proc[p].state = "running" /\ wrote' = [wrote EXCEPT ![p] = @ \cup {f}]
    PROVE  BackgroundInv'
<1>1. BackgroundTypeOK'
  BY DEF BackgroundInv, BackgroundTypeOK, Writes, noticeVars
<1>2. \A p \in Procs : proc[p].state # "running" => wrote'[p] = wrote[p]
  BY DEF BackgroundInv, BackgroundTypeOK
<1>3. ASSUME NEW s \in Shells PROVE SessionTrue(s)'
  <2>1. dir[s].pid # 0 => dir[s].pid \in Procs
    BY DEF BackgroundInv, BackgroundTypeOK, Procs
  <2>2. since'[s] = since[s] \cup {f} /\ \A p \in Procs : wrote'[p] \subseteq wrote[p] \cup {f}
    BY <1>3 DEF Writes, Markers, BackgroundInv, BackgroundTypeOK
  <2>3. QED
    BY <2>1, <2>2 DEF BackgroundInv, SessionTrue, Alive
<1>4. ReportTrue'
  BY <1>2 DEF BackgroundInv, ReportTrue, Procs
<1>5. QED
  BY <1>1, <1>2, <1>3, <1>4 DEF BackgroundInv, ProcsTrue, ToolTrue, Alive, noticeVars

\* A command that ends records its code in the directory of its session: of a session whose
\* latest command was alone, no other process is left to do so.
LEMMA FinishesKeeps ==
    ASSUME BackgroundInv, NEW p \in Procs, NEW code \in ExitCodes, Finishes(p, code)
    PROVE  BackgroundInv'
<1>1. /\ proc[p].state = "running" /\ proc' = [proc EXCEPT ![p].state = "finishing", ![p].code = code]
      /\ dir' = [dir EXCEPT ![proc[p].shell].code = code]
      /\ UNCHANGED <<since, written, wrote, overlapped, tool, report, noticeVars>>
  BY DEF Finishes, Records, fileVars
<1>2. BackgroundTypeOK'
  <2>1. proc' \in [Procs -> [shell : Markers, code : ExitCodes \cup {NoCode},
                            state : Waiting \cup {"none", "exited", "quit", "killed"}]]
    <3>1. proc \in [Procs -> [shell : Markers, code : ExitCodes \cup {NoCode},
                             state : Waiting \cup {"none", "exited", "quit", "killed"}]]
      BY DEF BackgroundInv, BackgroundTypeOK
    <3>2. proc' = [proc EXCEPT ![p] = [proc[p] EXCEPT !.state = "finishing", !.code = code]]
      BY <1>1, <3>1
    <3>3. [proc[p] EXCEPT !.state = "finishing", !.code = code] \in
             [shell : Markers, code : ExitCodes \cup {NoCode}, state : Waiting \cup {"none", "exited", "quit", "killed"}]
      BY <3>1 DEF Waiting
    <3>4. QED
      BY <3>1, <3>2, <3>3
  <2>2. dir \in [Shells -> [pid : 0..MaxProcs, code : ExitCodes \cup {NoCode}, explicit : SUBSET Files]]
    BY DEF BackgroundInv, BackgroundTypeOK
  <2>3. dir' \in [Shells -> [pid : 0..MaxProcs, code : ExitCodes \cup {NoCode}, explicit : SUBSET Files]]
    <3>1. CASE proc[p].shell \in Shells
      BY <1>1, <2>2, <3>1
    <3>2. CASE proc[p].shell \notin Shells
      <4>1. dir' = dir
        BY <1>1, <2>2, <3>2
      <4>2. QED
        BY <2>2, <4>1
    <3>3. QED
      BY <3>1, <3>2
  <2>4. QED
    BY <1>1, <2>1, <2>3 DEF BackgroundInv, BackgroundTypeOK, noticeVars
<1>3. /\ \A q \in Procs \ {p} : proc'[q] = proc[q]
      /\ proc'[p].state = "finishing" /\ proc'[p].code = code /\ proc'[p].shell = proc[p].shell
  BY <1>1 DEF BackgroundInv, BackgroundTypeOK
<1>4. \A s \in Shells : dir'[s].pid = dir[s].pid /\ dir'[s].explicit = dir[s].explicit
                        /\ dir'[s].code = IF s = proc[p].shell THEN code ELSE dir[s].code
  BY <1>1 DEF BackgroundInv, BackgroundTypeOK
<1>5. ProcsTrue'
  <2>1. code # NoCode
    BY BackgroundAssumption DEF NoCode
  <2>2. QED
    BY <1>1, <1>3, <2>1 DEF BackgroundInv, ProcsTrue
<1>6. ASSUME NEW s \in Shells PROVE SessionTrue(s)'
  <2>1. dir[s].pid # 0 => dir[s].pid \in Procs
    BY DEF BackgroundInv, BackgroundTypeOK, Procs
  <2>2. \A q \in Procs : (Alive(q)' <=> Alive(q)) /\ proc'[q].shell = proc[q].shell
    BY <1>1, <1>3 DEF Alive, Waiting
  <2>3. dir[s].pid # 0 /\ dir[s].pid \notin overlapped /\ s = proc[p].shell => p = dir[s].pid
    <3>1. Alive(p)
      BY <1>1 DEF Alive, Waiting
    <3>2. QED
      BY <2>1, <3>1 DEF BackgroundInv, SessionTrue
  <2>4. SessionTrue(s) /\ dir'[s].pid = dir[s].pid
    BY <1>4 DEF BackgroundInv
  <2>5. SUFFICES ASSUME dir[s].pid # 0 PROVE SessionTrue(s)'
    BY <2>4 DEF SessionTrue
  <2>6. /\ proc'[dir[s].pid].shell = s /\ proc'[dir[s].pid].state # "none"
    BY <1>1, <1>3, <2>1, <2>4, <2>5 DEF SessionTrue
  <2>7. ASSUME dir[s].pid \notin overlapped
        PROVE  /\ \A q \in Procs \ {dir[s].pid} : proc'[q].shell = s => ~Alive(q)'
               /\ proc'[dir[s].pid].state \in {"finishing", "exited"} => dir'[s].code = proc'[dir[s].pid].code
               /\ wrote[dir[s].pid] \subseteq since[s]
    <3>1. \A q \in Procs \ {dir[s].pid} : proc'[q].shell = s => ~Alive(q)'
      BY <2>2, <2>4, <2>5, <2>7 DEF SessionTrue
    <3>2. CASE p = dir[s].pid
      BY <1>3, <1>4, <2>4, <2>5, <2>7, <3>1, <3>2 DEF SessionTrue
    <3>3. CASE p # dir[s].pid
      BY <1>3, <1>4, <2>1, <2>3, <2>4, <2>5, <2>7, <3>1, <3>3 DEF SessionTrue
    <3>4. QED
      BY <3>2, <3>3
  <2>8. dir'[s].pid = dir[s].pid /\ overlapped' = overlapped /\ since' = since /\ wrote' = wrote
    BY <1>1, <2>4
  <2>9. QED
    BY <2>6, <2>7, <2>8 DEF SessionTrue
<1>7. ToolTrue'
  <2>1. tool.op \in {"wait", "collect", "write", "kill"} => dir'[tool.shell].pid = dir[tool.shell].pid
    BY <1>4 DEF BackgroundInv, ToolTrue
  <2>2. tool.op = "collect" => proc'[tool.pid] = proc[tool.pid]
    BY <1>1, <1>3 DEF BackgroundInv, ToolTrue, Alive, Waiting
  <2>3. QED
    BY <1>1, <2>1, <2>2 DEF BackgroundInv, ToolTrue, Alive
<1>8. ReportTrue'
  <2>1. report.pid # 0 => report.pid \in Procs \ {p}
    <3>1. report.pid # 0 => report.pid \in Procs
      BY BackgroundAssumption DEF BackgroundInv, ReportTrue, Procs
    <3>2. report.pid # 0 => proc[report.pid].state # "running"
      BY DEF BackgroundInv, ReportTrue
    <3>3. QED
      BY <1>1, <3>1, <3>2
  <2>2. QED
    BY <1>1, <1>3, <2>1 DEF BackgroundInv, ReportTrue
<1>9. QED
  BY <1>1, <1>2, <1>5, <1>6, <1>7, <1>8 DEF BackgroundInv, noticeVars

\* Processes that go on, exit after recording their code, quit without, or are killed.
LEMMA TurnsKeep ==
    ASSUME BackgroundInv, UNCHANGED <<dir, since, written, wrote, overlapped, report, noticeVars>>,
           proc' \in [Procs -> [shell : Markers, code : ExitCodes \cup {NoCode},
                                state : Waiting \cup {"none", "exited", "quit", "killed"}]],
           \A q \in Procs :
               /\ proc'[q].shell = proc[q].shell
               /\ proc'[q].state # "quit" => proc'[q].code = proc[q].code
               /\ \/ proc'[q].state = proc[q].state
                  \/ proc[q].state = "blocked" /\ proc'[q].state = "running"
                  \/ proc[q].state = "finishing" /\ proc'[q].state = "exited"
                  \/ Alive(q) /\ proc'[q].state \in {"killed", "quit"},
           tool' = tool \/ tool' = NoTool
    PROVE  BackgroundInv'
<1>1. BackgroundTypeOK'
  BY DEF BackgroundInv, BackgroundTypeOK, noticeVars
<1>2. \A q \in Procs : /\ Alive(q)' => Alive(q) 
                       /\ ~Alive(q) => proc'[q].state = proc[q].state
                       /\ proc'[q].state = "none" <=> proc[q].state = "none"
                       /\ proc'[q].state \in {"finishing", "exited"} => proc[q].state \in {"finishing", "exited"}
  BY DEF Alive, Waiting
<1>3. ProcsTrue'
  BY <1>2 DEF BackgroundInv, ProcsTrue
<1>4. ASSUME NEW s \in Shells PROVE SessionTrue(s)'
  <2>1. dir[s].pid # 0 => dir[s].pid \in Procs
    BY DEF BackgroundInv, BackgroundTypeOK, Procs
  <2>2. QED
    BY <1>2, <2>1 DEF BackgroundInv, SessionTrue
<1>5. ToolTrue'
  <2>1. CASE tool' = tool
    BY <1>2, <2>1 DEF BackgroundInv, ToolTrue
  <2>2. CASE tool' = NoTool
    BY <2>2 DEF ToolTrue, NoTool
  <2>3. QED
    BY <2>1, <2>2
<1>6. ReportTrue'
  <2>1. report.pid # 0 => report.pid \in Procs /\ ~Alive(report.pid)
    BY DEF BackgroundInv, ReportTrue, Procs, Alive, Waiting
  <2>2. QED
    BY <1>2, <2>1 DEF BackgroundInv, ReportTrue
<1>7. QED
  BY <1>1, <1>3, <1>4, <1>5, <1>6 DEF BackgroundInv, noticeVars

\* Steps of the calls: none of them changes a process or a session.
ToolOnly == UNCHANGED <<proc, dir, written, wrote, overlapped, noticeVars>>

LEMMA ToolKeeps ==
    ASSUME BackgroundInv, ToolOnly, ToolTrue', ReportTrue', since' \in [Markers -> SUBSET Files],
           \A s \in Shells : since'[s] = since[s]
    PROVE  BackgroundInv'
BY DEF ToolOnly, BackgroundInv, BackgroundTypeOK, ProcsTrue, SessionTrue, Alive, noticeVars

LEMMA ToolsKeep ==
    ASSUME BackgroundInv,
           \/ Execute
           \/ \E explicit \in SUBSET Files : ExecuteEnds(explicit)
           \/ \E s \in Shells, op \in {"wait", "write", "kill"} : Looks(s, op)
           \/ WaitTimesOut \/ WaitReadsCode \/ WaitReturns
    PROVE  BackgroundInv'
<1>0. since \in [Markers -> SUBSET Files]
  BY DEF BackgroundInv, BackgroundTypeOK
<1>1. CASE Execute
  <2>1. ToolOnly /\ ToolTrue' /\ ReportTrue'
    BY <1>1 DEF Execute, ToolOnly, ToolTrue, NoTool, BackgroundInv, ReportTrue
  <2>2. since' \in [Markers -> SUBSET Files] /\ \A s \in Shells : since'[s] = since[s]
    BY <1>0, <1>1, BackgroundAssumption DEF Execute, Markers
  <2>3. QED
    BY <2>1, <2>2, ToolKeeps
<1>2. ASSUME NEW explicit \in SUBSET Files, ExecuteEnds(explicit) PROVE BackgroundInv'
  BY <1>0, <1>2, ToolKeeps, BackgroundAssumption
  DEF ExecuteEnds, ToolOnly, fileVars, ToolTrue, NoTool, ReportTrue, NoReport
<1>3. ASSUME NEW s \in Shells, NEW op \in {"wait", "write", "kill"}, Looks(s, op) PROVE BackgroundInv'
  <2>1. tool' = [op |-> op, shell |-> s, pid |-> dir[s].pid, code |-> NoCode]
        /\ UNCHANGED <<proc, dir, since, written, wrote, overlapped, report, noticeVars>>
    BY <1>3 DEF Looks, fileVars
  <2>2. dir[s].pid \in Procs
    BY <1>3 DEF Looks, BackgroundInv, BackgroundTypeOK, Procs
  <2>3. ToolTrue' /\ ReportTrue'
    BY <2>1, <2>2 DEF ToolTrue, BackgroundInv, ReportTrue
  <2>4. QED
    BY <1>0, <2>1, <2>3, ToolKeeps DEF ToolOnly
<1>4. CASE WaitTimesOut
  BY <1>0, <1>4, ToolKeeps DEF WaitTimesOut, ToolOnly, fileVars, ToolTrue, NoTool, ReportTrue, BackgroundInv
<1>5. CASE WaitReadsCode
  <2>1. /\ tool.op = "wait" /\ ~Alive(tool.pid) /\ UNCHANGED <<proc, dir, since, written, wrote, overlapped, report, noticeVars>>
        /\ tool' = [tool EXCEPT !.op = "collect",
                                !.code = IF dir[tool.shell].code = NoCode THEN 0 ELSE dir[tool.shell].code]
    BY <1>5 DEF WaitReadsCode, Busy, fileVars
  <2>2. /\ tool.shell \in Shells /\ tool.pid = dir[tool.shell].pid /\ tool.pid \in Procs /\ tool.pid # 0
    BY <2>1 DEF BackgroundInv, ToolTrue, Procs
  <2>3. SessionTrue(tool.shell)
    BY <2>2 DEF BackgroundInv
  <2>4. tool.pid \notin overlapped /\ proc[tool.pid].state = "exited" =>
           dir[tool.shell].code = proc[tool.pid].code /\ proc[tool.pid].code # NoCode
    BY <2>2, <2>3 DEF SessionTrue, BackgroundInv, ProcsTrue
  <2>5. ToolTrue' /\ ReportTrue'
    BY <2>1, <2>2, <2>4 DEF BackgroundInv, ToolTrue, ReportTrue, Alive
  <2>6. QED
    BY <1>0, <2>1, <2>5, ToolKeeps DEF ToolOnly
<1>6. CASE WaitReturns
  <2>1. /\ tool.op = "collect" /\ UNCHANGED <<proc, dir, since, written, wrote, overlapped, noticeVars>> /\ tool' = NoTool
        /\ report' = [pid |-> tool.pid, code |-> tool.code, named |-> dir[tool.shell].explicit # {},
                      paths |-> Built(dir[tool.shell].explicit, since[tool.shell])]
    BY <1>6 DEF WaitReturns, Busy, fileVars
  <2>2. /\ tool.shell \in Shells /\ tool.pid = dir[tool.shell].pid /\ tool.pid \in Procs /\ tool.pid # 0
        /\ ~Alive(tool.pid)
        /\ tool.pid \notin overlapped /\ proc[tool.pid].state = "exited" => tool.code = proc[tool.pid].code
    BY <2>1 DEF BackgroundInv, ToolTrue, Procs
  <2>3. SessionTrue(tool.shell)
    BY <2>2 DEF BackgroundInv
  <2>4. proc[tool.pid].state \in {"exited", "quit", "killed"}
    BY <2>2, <2>3 DEF SessionTrue, BackgroundInv, BackgroundTypeOK, Alive
  <2>5. tool.pid \notin overlapped => \/ dir[tool.shell].explicit # {}
                                      \/ wrote[tool.pid] \ Uploaded \subseteq Built(dir[tool.shell].explicit, since[tool.shell])
    BY <2>2, <2>3 DEF SessionTrue, Built, Detected
  <2>6. ReportTrue'
    <3>1. /\ report'.pid = tool.pid /\ report'.code = tool.code /\ report'.named = (dir[tool.shell].explicit # {})
          /\ report'.paths = Built(dir[tool.shell].explicit, since[tool.shell])
          /\ proc' = proc /\ overlapped' = overlapped /\ wrote' = wrote
      BY <2>1
    <3>2. tool.pid \in 0..MaxProcs
      BY <2>2, BackgroundAssumption DEF Procs
    <3>3. QED
      BY <2>2, <2>4, <2>5, <3>1, <3>2 DEF ReportTrue
  <2>7. QED
    BY <1>0, <2>1, <2>6, ToolKeeps DEF ToolOnly, ToolTrue, NoTool
<1>7. QED
  BY <1>1, <1>2, <1>3, <1>4, <1>5, <1>6

LEMMA BackgroundStep == BackgroundInv /\ [BackgroundNext]_backgroundVars => BackgroundInv'
<1>0. SUFFICES ASSUME BackgroundInv, [BackgroundNext]_backgroundVars PROVE BackgroundInv'
  OBVIOUS
<1>1. ASSUME NEW n \in Notices, NoticeStep(n) PROVE BackgroundInv'
  BY <1>0, <1>1, NoticesKeep
<1>2. ASSUME NEW f \in Files, ExecuteWrites(f) PROVE BackgroundInv'
  BY <1>0, <1>2, WritesKeep DEF ExecuteWrites
<1>3. ASSUME NEW p \in Procs, NEW f \in Files, ProcessWrites(p, f) PROVE BackgroundInv'
  BY <1>0, <1>3, WritesKeep DEF ProcessWrites
<1>4. ASSUME NEW p \in Procs, Exits(p) PROVE BackgroundInv'
  BY <1>0, <1>4, TurnsKeep DEF Exits, Turns, fileVars, BackgroundInv, BackgroundTypeOK
<1>4a. ASSUME NEW p \in Procs, NEW code \in ExitCodes, Quits(p, code) PROVE BackgroundInv'
  <2>1. /\ proc[p].state = "running" /\ proc' = [proc EXCEPT ![p].state = "quit", ![p].code = code]
        /\ UNCHANGED <<dir, since, written, wrote, overlapped, tool, report, noticeVars>>
    BY <1>4a DEF Quits, fileVars
  <2>2. proc \in [Procs -> [shell : Markers, code : ExitCodes \cup {NoCode},
                            state : Waiting \cup {"none", "exited", "quit", "killed"}]]
    BY <1>0 DEF BackgroundInv, BackgroundTypeOK
  <2>3. proc' = [proc EXCEPT ![p] = [proc[p] EXCEPT !.state = "quit", !.code = code]]
    BY <2>1, <2>2
  <2>4. [proc[p] EXCEPT !.state = "quit", !.code = code] \in
           [shell : Markers, code : ExitCodes \cup {NoCode}, state : Waiting \cup {"none", "exited", "quit", "killed"}]
    BY <2>2
  <2>5. proc' \in [Procs -> [shell : Markers, code : ExitCodes \cup {NoCode},
                            state : Waiting \cup {"none", "exited", "quit", "killed"}]]
    BY <2>2, <2>3, <2>4
  <2>6. /\ \A q \in Procs \ {p} : proc'[q] = proc[q]
        /\ proc'[p].state = "quit" /\ proc'[p].shell = proc[p].shell /\ Alive(p)
    BY <2>1, <2>2 DEF Alive, Waiting
  <2>7. QED
    BY <1>0, <2>1, <2>5, <2>6, TurnsKeep
<1>5. CASE WriteInput
  <2>1. /\ \A q \in Procs : \/ proc'[q] = proc[q]
                            \/ proc[q].state = "blocked" /\ proc'[q] = [proc[q] EXCEPT !.state = "running"]
        /\ DOMAIN proc' = Procs /\ proc' = [q \in Procs |-> proc'[q]]
    BY <1>5 DEF WriteInput
  <2>2. proc \in [Procs -> [shell : Markers, code : ExitCodes \cup {NoCode},
                            state : Waiting \cup {"none", "exited", "quit", "killed"}]]
    BY <1>0 DEF BackgroundInv, BackgroundTypeOK
  <2>3. ASSUME NEW q \in Procs
        PROVE  /\ proc'[q] \in [shell : Markers, code : ExitCodes \cup {NoCode},
                                 state : Waiting \cup {"none", "exited", "quit", "killed"}]
               /\ proc'[q].shell = proc[q].shell /\ proc'[q].code = proc[q].code
               /\ \/ proc'[q].state = proc[q].state
                  \/ proc[q].state = "blocked" /\ proc'[q].state = "running"
    BY <2>1, <2>2 DEF Waiting
  <2>4. UNCHANGED <<dir, since, written, wrote, overlapped, report, noticeVars>> /\ tool' = NoTool
    BY <1>5 DEF WriteInput, fileVars
  <2>5. QED
    BY <1>0, <2>1, <2>3, <2>4, TurnsKeep
<1>6. CASE Signal
  <2>1. tool.pid \in Procs
    BY <1>0, <1>6 DEF Signal, Busy, BackgroundInv, ToolTrue
  <2>2. UNCHANGED <<dir, since, written, wrote, overlapped, report, noticeVars>> /\ tool' = NoTool
    BY <1>6 DEF Signal, fileVars
  <2>3. CASE Alive(tool.pid) /\ Turns(tool.pid, "killed")
    BY <1>0, <2>1, <2>2, <2>3, TurnsKeep DEF Turns, BackgroundInv, BackgroundTypeOK
  <2>4. CASE UNCHANGED proc
    BY <1>0, <2>2, <2>4, TurnsKeep DEF BackgroundInv, BackgroundTypeOK
  <2>5. QED
    BY <1>6, <2>3, <2>4 DEF Signal
<1>7. CASE UNCHANGED backgroundVars
  BY <1>0, <1>7
  DEF backgroundVars, shellVars, noticeVars, BackgroundInv, BackgroundTypeOK, ProcsTrue, SessionTrue,
                    ToolTrue, ReportTrue, Alive
<1>8. QED
  BY <1>0, <1>1, <1>2, <1>3, <1>4, <1>4a, <1>5, <1>6, <1>7, StartShellKeeps, FinishesKeeps, ToolsKeep
  DEF BackgroundNext, ShellTool, ShellProcess

\* What outlives its call is told as it was, for any number of commands, sessions and notices
\* (shell_tools.py, background_tasks.py).
THEOREM BackgroundTold == BackgroundSpec => []ToldTruthfully
<1>1. BackgroundInv => ToldTruthfully
  BY DEF BackgroundInv, ReportTrue, ToldTruthfully, WaitTruthful, NoticesTruthful
<1>2. QED
  BY <1>1, BackgroundStarts, BackgroundStep, PTL DEF BackgroundSpec

-----------------------------------------------------------------------------
(* The agent loop *)

\* While a batch runs, the skill it has activated is waiting to be offered; a turn whose
\* activation failed asks the model nothing any more.
SkillsInv ==
    /\ stage \in {"top", "llm"} /\ ~failed => offered = allowed
    /\ stage \in {"setup", "top", "llm"} /\ ~failed => pendingSkill = Nil
    /\ stage \in {"llm", "tools"} => ~failed
    /\ stage = "setup" => pendingSkill = Nil
    /\ stage = "tools" => IF pendingSkill = Nil THEN offered = allowed ELSE pendingSkill = allowed

\* Whatever skills a turn matches, activates, repeats or fails to activate, the model is offered
\* the tools the executor lets it run.
THEOREM SkillsOffered == LoopSpec => []SkillsAgree
<1>1. LoopInit => SkillsInv
  BY DEF LoopInit, LoopStart, SkillsInv
<1>2. SkillsInv /\ [LoopNext]_loopVars => SkillsInv'
  <2> SUFFICES ASSUME SkillsInv, [LoopNext]_loopVars PROVE SkillsInv'
    OBVIOUS
  <2> USE DEF SkillsInv, skillVars, verdict, planVars
  <2>1. CASE UNCHANGED loopVars
    BY <2>1 DEF loopVars
  <2>2. CASE Begin
    BY <2>2 DEF Begin
  <2>3. CASE SetUp
    BY <2>3 DEF SetUp
  <2>4. CASE SetUpFails \/ Return \/ Finish \/ BreakOff
    BY <2>4 DEF SetUpFails, Return, Finish, BreakOff
  <2>5. CASE SignalStop
    BY <2>5 DEF SignalStop
  <2>6. CASE Rollback
    BY <2>6 DEF Rollback
  <2>7. CASE Iterate
    BY <2>7 DEF Iterate
  <2>8. CASE LlmFails
    BY <2>8 DEF LlmFails
  <2>9. CASE Answer
    BY <2>9 DEF Answer, Nudge
  <2>10. CASE CallTools
    BY <2>10 DEF CallTools
  <2>11. CASE RunTool \/ Complete \/ Plan
    BY <2>11 DEF RunTool, Complete, Plan
  <2>12. CASE RecordResults
    BY <2>12 DEF RecordResults, Nudge
  <2>13. ASSUME NEW s \in Skills, Activate(s)
         PROVE  SkillsInv'
    BY <2>13, LoopAssumption DEF Activate, Running
  <2>14. ASSUME NEW s \in Skills, ActivateFails(s)
         PROVE  SkillsInv'
    BY <2>14 DEF ActivateFails
  <2> QED
    BY <2>1, <2>2, <2>3, <2>4, <2>5, <2>6, <2>7, <2>8, <2>9, <2>10, <2>11, <2>12, <2>13, <2>14 DEF LoopNext
<1>3. SkillsInv => SkillsAgree
  BY DEF SkillsInv, SkillsAgree
<1> QED
  BY <1>1, <1>2, <1>3, PTL DEF LoopSpec

-----------------------------------------------------------------------------
(* Histories that a compaction keeps in one piece                          *)

PostKinds == {"ask", "text", "use", "results", "work", "talk"}
Posts == [kind : PostKinds, id : Int, size : Int, w : Int, bad : BOOLEAN]

\* A history in which tool calls have their results, but for the excused batches, and that
\* begins with what the user asked.
Sound(msgs, excused) ==
    /\ msgs \in Seq(Posts)
    /\ Chained(msgs, excused)
    /\ msgs # <<>> => msgs[1].kind = "ask"

Whole(msgs, excused) == Sound(msgs, excused) /\ msgs # <<>>

LEMMA MessageIsPost ==
    ASSUME NEW k \in PostKinds, NEW i \in Int, NEW n \in Int, NEW w \in Int, NEW b \in BOOLEAN
    PROVE  /\ Message(k, i, n, w, b) \in Posts
           /\ Message(k, i, n, w, b).kind = k
           /\ Message(k, i, n, w, b).id = i
           /\ Message(k, i, n, w, b).size = n
BY DEF Message, Posts

LEMMA PostFields ==
    ASSUME NEW m \in Posts
    PROVE  m.kind \in PostKinds /\ m.id \in Int /\ m.size \in Int /\ m.w \in Int /\ m.bad \in BOOLEAN
BY DEF Posts

\* To shorten a text changes nothing a history's soundness is about.
SameShape(m, n) == n.kind = m.kind /\ n.id = m.id /\ n.size = m.size

LEMMA RewrittenShape ==
    ASSUME NEW m \in Posts, NEW w \in Int
    PROVE  Rewritten(m, w) \in Posts /\ SameShape(m, Rewritten(m, w))
<1>1. m.kind \in PostKinds /\ m.id \in Int /\ m.size \in Int /\ m.bad \in BOOLEAN
  BY PostFields
<1>2. PICK n : n = Message(m.kind, m.id, m.size, w, m.bad)
  OBVIOUS
<1>3. n \in Posts
  BY <1>1, <1>2 DEF Message, Posts
<1>4. n.kind = m.kind /\ n.id = m.id /\ n.size = m.size
  BY <1>2 DEF Message
<1> QED
  BY <1>2, <1>3, <1>4 DEF Rewritten, SameShape

LEMMA PreviewShape ==
    ASSUME NEW m \in Posts
    PROVE  Preview(m) \in Posts /\ SameShape(m, Preview(m))
<1>1. m.w \in Int /\ m.size \in Int /\ PreviewWeight \in Int
  BY PostFields, CompactionAssumption
<1>2. SmallerOf(m.w, m.size * PreviewWeight) \in Int
  BY <1>1 DEF SmallerOf
<1> QED
  BY <1>2, RewrittenShape DEF Preview, SameShape

LEMMA ShapeSound ==
    ASSUME NEW E, NEW s, NEW t \in Seq(Posts), Whole(s, E), Len(t) = Len(s),
           \A i \in 1..Len(s) : SameShape(s[i], t[i])
    PROVE  Whole(t, E)
<1>1. s \in Seq(Posts) /\ Chained(s, E) /\ s # <<>> /\ s[1].kind = "ask"
  BY DEF Whole, Sound
<1>2. Len(s) \in Nat \ {0} /\ DOMAIN s = 1..Len(s) /\ DOMAIN t = 1..Len(s)
  BY <1>1, EmptySeq, LenProperties
<1>3. t # <<>>
  BY <1>2, EmptySeq
<1>4. t[1].kind = "ask"
  BY <1>1, <1>2 DEF SameShape
<1>5. \A i \in 1..Len(s) : AnsweredAt(s, i) => AnsweredAt(t, i)
  BY <1>2 DEF AnsweredAt, SameShape
<1>6. Chained(t, E)
  <2>1. ASSUME NEW i \in 1..Len(s), t[i].kind = "use"
        PROVE  AnsweredAt(t, i) \/ t[i].id \in E
    BY <2>1, <1>1, <1>2, <1>5 DEF Chained, SameShape
  <2>2. ASSUME NEW i \in 1..Len(s), t[i].kind = "results"
        PROVE  \/ i > 1 /\ t[i - 1].kind = "use" /\ AnsweredAt(t, i - 1)
               \/ i = 3 /\ t[2].kind = "work"
    <3>1. \/ i > 1 /\ s[i - 1].kind = "use" /\ AnsweredAt(s, i - 1)
          \/ i = 3 /\ s[2].kind = "work"
      BY <2>2, <1>1, <1>2 DEF Chained, SameShape
    <3>2. CASE i > 1 /\ s[i - 1].kind = "use" /\ AnsweredAt(s, i - 1)
      BY <3>2, <1>5 DEF SameShape
    <3>3. CASE i = 3 /\ s[2].kind = "work"
      BY <3>3, <1>2 DEF SameShape
    <3> QED
      BY <3>1, <3>2, <3>3
  <2> QED
    BY <2>1, <2>2, <1>2 DEF Chained
<1> QED
  BY <1>3, <1>4, <1>6 DEF Whole, Sound

LEMMA HalvedSound ==
    ASSUME NEW E, NEW s, Whole(s, E), NEW i \in 1..Len(s)
    PROVE  Whole(Halved(s, i), E)
<1>1. s \in Seq(Posts)
  BY DEF Whole, Sound
<1>2. s[i] \in Posts /\ s[i].w \in Int
  BY <1>1, ElementOfSeq, PostFields
<1>3. PICK m : m = Rewritten(s[i], s[i].w \div 2)
  OBVIOUS
<1>4. m \in Posts /\ SameShape(s[i], m)
  <2>1. s[i].w \div 2 \in Int
    BY <1>2
  <2> QED
    BY <1>2, <1>3, <2>1, RewrittenShape
<1>5. Halved(s, i) = [s EXCEPT ![i] = m]
  BY <1>3 DEF Halved
<1>6. /\ Halved(s, i) \in Seq(Posts) /\ Len(Halved(s, i)) = Len(s)
      /\ \A j \in 1..Len(s) : Halved(s, i)[j] = IF j = i THEN m ELSE s[j]
  BY <1>1, <1>4, <1>5, ExceptSeq
<1>7. \A j \in 1..Len(s) : SameShape(s[j], Halved(s, i)[j])
  BY <1>4, <1>6 DEF SameShape
<1> QED
  BY <1>6, <1>7, ShapeSound

\* The first message and a summary.
LEMMA PairSound ==
    ASSUME NEW E, NEW m \in Posts, m.kind = "ask", NEW k \in {"work", "talk"}, NEW w \in Int
    PROVE  Whole(<<m, Summary(k, w)>>, E)
<1>1. Summary(k, w) \in Posts /\ Summary(k, w).kind = k
  <2>1. k \in PostKinds
    BY DEF PostKinds
  <2> QED
    BY <2>1 DEF Summary, Message, Posts
<1>2. PICK s : s = <<m, Summary(k, w)>>
  OBVIOUS
<1>3. s \in Seq(Posts) /\ Len(s) = 2 /\ DOMAIN s = 1..2 /\ s[1] = m /\ s[2] = Summary(k, w) /\ s # <<>>
  BY <1>1, <1>2
<1>4. \A i \in DOMAIN s : s[i].kind # "use" /\ s[i].kind # "results"
  BY <1>1, <1>3
<1>5. Chained(s, E)
  BY <1>4 DEF Chained
<1> QED
  BY <1>2, <1>3, <1>5 DEF Whole, Sound

-----------------------------------------------------------------------------
(* Least and greatest of a set of numbers                                  *)

LEMMA LeastIs ==
    ASSUME NEW S \in SUBSET Nat, S # {}
    PROVE  Least(S) \in S
BY LeastNumber DEF Least

LEMMA GreatestIs ==
    ASSUME NEW S \in SUBSET Nat, S # {}, NEW n \in Nat, \A i \in S : i <= n
    PROVE  Greatest(S) \in S
<1> DEFINE Up == {j \in Nat : \A i \in S : i <= j}
<1>1. Up \in SUBSET Nat /\ Up # {}
  OBVIOUS
<1>2. PICK m \in Up : \A j \in Up : m <= j
  BY <1>1, LeastNumber
<1>3. m \in S
  <2>1. SUFFICES ASSUME m \notin S PROVE FALSE
    OBVIOUS
  <2>2. \A i \in S : i <= m - 1
    BY <1>2, <2>1
  <2>3. m - 1 \in Nat
    <3>1. PICK i \in S : TRUE
      OBVIOUS
    <3>2. i \in Nat /\ i <= m - 1 /\ m \in Nat
      BY <2>2
    <3> QED
      BY <3>2
  <2>4. m - 1 \in Up
    BY <2>2, <2>3
  <2> QED
    BY <1>2, <2>4
<1>4. \E i \in S : \A j \in S : i >= j
  BY <1>2, <1>3
<1> QED
  BY <1>4 DEF Greatest

LEMMA LongestSummary == Greatest(SummaryWeights) \in Int
<1>1. \E i \in SummaryWeights : \A j \in SummaryWeights : i >= j
  BY CompactionAssumption
<1>2. PICK g : g = Greatest(SummaryWeights)
  OBVIOUS
<1>3. g \in SummaryWeights
  BY <1>1, <1>2 DEF Greatest
<1>4. g \in Int
  BY <1>3, CompactionAssumption
<1> QED
  BY <1>2, <1>4

-----------------------------------------------------------------------------
(* Rounds of shortening                                                    *)

LEMMA ShrinkToolSound ==
    ASSUME NEW E, NEW s, Whole(s, E)
    PROVE  Whole(ShrinkTool(s), E)
<1>1. s \in Seq(Posts) /\ s[1].kind = "ask" /\ Len(s) \in Nat \ {0}
  BY EmptySeq DEF Whole, Sound
<1>2. \A k : Shortenable(s, k) \in SUBSET Nat /\ Shortenable(s, k) \subseteq 1..Len(s)
  BY <1>1 DEF Shortenable
<1>3. \A k : Shortenable(s, k) # {} => Whole(Halved(s, Least(Shortenable(s, k))), E)
  BY <1>2, LeastIs, HalvedSound
<1>4. Whole(Halved(s, 1), E)
  BY <1>1, HalvedSound
<1>5. Whole(<<s[1], Summary("work", Greatest(SummaryWeights))>>, E)
  <2>1. s[1] \in Posts
    BY <1>1, ElementOfSeq
  <2> QED
    BY <1>1, <2>1, PairSound, LongestSummary
<1> QED
  BY <1>3, <1>4, <1>5 DEF ShrinkTool

LEMMA ShrinkTalkSound ==
    ASSUME NEW E, NEW s, Whole(s, E)
    PROVE  Whole(ShrinkTalk(s), E)
<1>1. s \in Seq(Posts) /\ Len(s) \in Nat \ {0}
  BY EmptySeq DEF Whole, Sound
<1>2. Shortenable(s, "talk") \in SUBSET Nat /\ Shortenable(s, "talk") \subseteq 1..Len(s)
  BY <1>1 DEF Shortenable
<1>3. Shortenable(s, "talk") # {} => Whole(Halved(s, Least(Shortenable(s, "talk"))), E)
  BY <1>2, LeastIs, HalvedSound
<1>4. Whole(Halved(s, 1), E)
  BY <1>1, HalvedSound
<1> QED
  BY <1>3, <1>4 DEF ShrinkTalk

ShrinkStep(style, msgs, after, k) == IF k = 0 THEN msgs ELSE Shrink(style, after[k - 1])
IsCourse(style, msgs, n, after) == after = [k \in 0..n |-> ShrinkStep(style, msgs, after, k)]
CourseOf(style, msgs, n) == CHOOSE after : IsCourse(style, msgs, n, after)

LEMMA ShrunkIs == \A style, msgs, n : Shrunk(style, msgs, n) = CourseOf(style, msgs, n)[n]
BY DEF Shrunk, CourseOf, IsCourse, ShrinkStep

LEMMA CourseGrows ==
    ASSUME NEW style, NEW msgs, NEW n \in Nat, NEW F, IsCourse(style, msgs, n, F)
    PROVE  \E G : IsCourse(style, msgs, n + 1, G)
<1> DEFINE G == [k \in 0..n + 1 |-> IF k = n + 1 THEN ShrinkStep(style, msgs, F, k) ELSE F[k]]
<1>0. \A k \in 0..n : F[k] = ShrinkStep(style, msgs, F, k)
  BY DEF IsCourse
<1>1. ASSUME NEW k \in 0..n + 1 PROVE G[k] = ShrinkStep(style, msgs, G, k)
  <2>1. CASE k = 0
    <3>1. 0 # n + 1 /\ 0 \in 0..n + 1 /\ 0 \in 0..n
      OBVIOUS
    <3>2. G[0] = F[0] /\ F[0] = msgs
      BY <3>1, <1>0 DEF ShrinkStep
    <3> HIDE DEF G
    <3> QED
      BY <2>1, <3>2 DEF ShrinkStep
  <2>2. CASE k # 0
    <3>1. k - 1 \in 0..n + 1 /\ k - 1 # n + 1
      BY <2>2
    <3>2. G[k - 1] = F[k - 1]
      BY <3>1
    <3>3. G[k] = IF k = n + 1 THEN ShrinkStep(style, msgs, F, k) ELSE F[k]
      OBVIOUS
    <3>4. k # n + 1 => k \in 0..n
      OBVIOUS
    <3> HIDE DEF G
    <3>5. ShrinkStep(style, msgs, G, k) = ShrinkStep(style, msgs, F, k)
      BY <2>2, <3>2 DEF ShrinkStep
    <3> QED
      BY <3>3, <3>4, <3>5, <1>0
  <2> QED
    BY <2>1, <2>2
<1>2. G = [k \in 0..n + 1 |-> ShrinkStep(style, msgs, G, k)]
  <2>1. G = [k \in 0..n + 1 |-> G[k]]
    OBVIOUS
  <2> HIDE DEF G
  <2> QED
    BY <1>1, <2>1
<1> QED
  BY <1>2 DEF IsCourse

LEMMA CourseExists ==
    ASSUME NEW style, NEW msgs, NEW n \in Nat
    PROVE  \E F : IsCourse(style, msgs, n, F)
<1> DEFINE Lacking == {k \in Nat : ~\E F : IsCourse(style, msgs, k, F)}
<1>1. SUFFICES ASSUME Lacking # {} PROVE FALSE
  OBVIOUS
<1>2. PICK k \in Lacking : \A j \in Lacking : k <= j
  BY <1>1, LeastNumber
<1>3. CASE k = 0
  <2> DEFINE F == [i \in 0..0 |-> msgs]
  <2>1. F = [i \in 0..0 |-> ShrinkStep(style, msgs, F, i)]
    BY DEF ShrinkStep
  <2> QED
    BY <1>3, <2>1 DEF IsCourse
<1>4. CASE k # 0
  <2>1. k - 1 \in Nat /\ k - 1 \notin Lacking /\ (k - 1) + 1 = k
    BY <1>2, <1>4
  <2>2. PICK F : IsCourse(style, msgs, k - 1, F)
    BY <2>1
  <2>3. \E G : IsCourse(style, msgs, (k - 1) + 1, G)
    BY <2>1, <2>2, CourseGrows
  <2> QED
    BY <2>1, <2>3
<1> QED
  BY <1>3, <1>4

LEMMA ShrunkSound ==
    ASSUME NEW E, NEW s, Whole(s, E), NEW style, NEW n \in Nat
    PROVE  Whole(Shrunk(style, s, n), E)
<1>1. PICK F : F = CourseOf(style, s, n)
  OBVIOUS
<1>2. IsCourse(style, s, n, F)
  BY <1>1, CourseExists DEF CourseOf
<1>3. \A k \in 0..n : F[k] = ShrinkStep(style, s, F, k)
  BY <1>2 DEF IsCourse
<1> DEFINE Lost == {k \in 0..n : ~Whole(F[k], E)}
<1>4. Lost = {}
  <2>1. SUFFICES ASSUME Lost # {} PROVE FALSE
    OBVIOUS
  <2>2. Lost \in SUBSET Nat
    OBVIOUS
  <2>3. PICK k \in Lost : \A j \in Lost : k <= j
    BY <2>1, <2>2, LeastNumber
  <2>4. CASE k = 0
    <3>1. F[k] = s
      BY <1>3, <2>4 DEF ShrinkStep
    <3> QED
      BY <2>3, <3>1
  <2>5. CASE k # 0
    <3>1. k \in 0..n /\ k - 1 \in 0..n /\ k - 1 \notin Lost
      BY <2>3, <2>5
    <3>2. Whole(F[k - 1], E)
      BY <3>1
    <3>3. F[k] = Shrink(style, F[k - 1])
      BY <1>3, <2>5, <3>1 DEF ShrinkStep
    <3>4. Whole(Shrink(style, F[k - 1]), E)
      BY <3>2, ShrinkToolSound, ShrinkTalkSound DEF Shrink
    <3> QED
      BY <2>3, <3>3, <3>4
  <2> QED
    BY <2>4, <2>5
<1>5. Whole(F[n], E)
  BY <1>4
<1> QED
  BY <1>1, <1>5, ShrunkIs

LEMMA ToolShrunkSound == ASSUME NEW E, NEW s, Whole(s, E) PROVE Whole(ToolShrunk(s), E)
BY ShrunkSound DEF ToolShrunk

LEMMA TalkShrunkSound == ASSUME NEW E, NEW s, Whole(s, E) PROVE Whole(TalkShrunk(s), E)
<1>1. PICK t : t = Shrunk("talk", s, 24)
  OBVIOUS
<1>2. Whole(t, E)
  BY <1>1, ShrunkSound
<1>3. t[1] \in Posts /\ t[1].kind = "ask"
  BY <1>2, EmptySeq, ElementOfSeq DEF Whole, Sound
<1>4. PICK p : p = <<t[1], Summary("talk", Greatest(SummaryWeights))>>
  OBVIOUS
<1>5. Whole(p, E)
  BY <1>3, <1>4, PairSound, LongestSummary
<1>6. Whole(Shrunk("talk", p, 24), E)
  BY <1>5, ShrunkSound
<1>7. TalkShrunk(s) = IF Fits(t) THEN t ELSE Shrunk("talk", p, 24)
  BY <1>1, <1>4 DEF TalkShrunk
<1> QED
  BY <1>2, <1>6, <1>7

-----------------------------------------------------------------------------
(* What a compaction leaves out                                            *)

\* The parts a compaction splits a history into.
LEMMA PartsAre ==
    ASSUME NEW E, NEW s, Whole(s, E)
    PROVE  /\ Head(s) = s[1] /\ s[1] \in Posts /\ s[1].kind = "ask"
           /\ Tail(s) \in Seq(Posts) /\ Len(s) \in Nat \ {0} /\ Len(Tail(s)) = Len(s) - 1
           /\ \A i \in 1..Len(s) - 1 : Tail(s)[i] = s[i + 1]
<1>1. s \in Seq(Posts) /\ s # <<>> /\ s[1].kind = "ask"
  BY DEF Whole, Sound
<1>2. Len(s) \in Nat \ {0}
  BY <1>1, EmptySeq
<1>3. /\ Tail(s) \in Seq(Posts) /\ Len(Tail(s)) = Len(s) - 1
      /\ \A i \in 1..Len(Tail(s)) : Tail(s)[i] = s[i + 1]
  BY <1>1, HeadTailProperties
<1>4. Head(s) = s[1] /\ s[1] \in Posts
  BY <1>1, <1>2, ElementOfSeq
<1> QED
  BY <1>1, <1>2, <1>3, <1>4

\* A suffix behind a summary.  Its first results may have lost their calls.
LEMMA SuffixSound ==
    ASSUME NEW E, NEW s, Whole(s, E), NEW cut \in 1..Len(s) - 1, NEW w \in Int
    PROVE  Whole(<<Head(s)>> \o <<Summary("work", w)>> \o SubSeq(Tail(s), cut + 1, Len(Tail(s))), E)
<1>1. PICK rest, hot : rest = Tail(s) /\ hot = SubSeq(Tail(s), cut + 1, Len(Tail(s)))
  OBVIOUS
<1>2. /\ Head(s) = s[1] /\ s[1] \in Posts /\ s[1].kind = "ask"
      /\ rest \in Seq(Posts) /\ Len(s) \in Nat \ {0} /\ Len(rest) = Len(s) - 1
      /\ \A i \in 1..Len(s) - 1 : rest[i] = s[i + 1]
  BY <1>1, PartsAre
<1>3. \A i \in cut + 1..Len(rest) : rest[i] \in Posts
  BY <1>2, ElementOfSeq
<1>4. /\ hot \in Seq(Posts) /\ Len(hot) = Len(s) - 1 - cut
      /\ \A i \in 1..Len(s) - 1 - cut : hot[i] = s[cut + i + 1]
  <2>1. hot = SubSeq(rest, cut + 1, Len(rest)) /\ cut + 1 \in Int /\ Len(rest) \in Int
    BY <1>1, <1>2
  <2>2. /\ hot \in Seq(Posts)
        /\ Len(hot) = IF cut + 1 <= Len(rest) THEN Len(rest) - (cut + 1) + 1 ELSE 0
        /\ \A i \in 1..Len(rest) - (cut + 1) + 1 : hot[i] = rest[(cut + 1) + i - 1]
    BY <2>1, <1>3, SubSeqProperties
  <2>3. Len(hot) = Len(s) - 1 - cut
    BY <2>2, <1>2
  <2>4. ASSUME NEW i \in 1..Len(s) - 1 - cut PROVE hot[i] = s[cut + i + 1]
    <3>1. i \in 1..Len(rest) - (cut + 1) + 1 /\ (cut + 1) + i - 1 = cut + i /\ cut + i \in 1..Len(s) - 1
      BY <1>2
    <3> QED
      BY <3>1, <2>2, <1>2
  <2> QED
    BY <2>2, <2>3, <2>4
<1>5. PICK m : m = Summary("work", w)
  OBVIOUS
<1>6. m \in Posts /\ m.kind = "work"
  <2>1. "work" \in PostKinds
    BY DEF PostKinds
  <2> QED
    BY <1>5, <2>1 DEF Summary, Message, Posts
<1>7. PICK c : c = <<s[1]>> \o <<m>> \o hot
  OBVIOUS
<1>8. /\ c \in Seq(Posts) /\ Len(c) = Len(s) + 1 - cut
      /\ c[1] = s[1] /\ c[2] = m
      /\ \A i \in 3..Len(c) : c[i] = s[i + cut - 1]
  <2>1. PICK h : h = <<s[1]>> \o <<m>>
    OBVIOUS
  <2>2. h \in Seq(Posts) /\ Len(h) = 2 /\ h[1] = s[1] /\ h[2] = m
    <3>1. PICK a, b : a = <<s[1]>> /\ b = <<m>>
      OBVIOUS
    <3>2. a \in Seq(Posts) /\ b \in Seq(Posts) /\ Len(a) = 1 /\ Len(b) = 1 /\ a[1] = s[1] /\ b[1] = m
      BY <3>1, <1>2, <1>6
    <3>3. /\ a \o b \in Seq(Posts) /\ Len(a \o b) = Len(a) + Len(b)
          /\ \A i \in 1..Len(a) + Len(b) : (a \o b)[i] = IF i <= Len(a) THEN a[i] ELSE b[i - Len(a)]
      BY <3>2, ConcatProperties
    <3>4. h = a \o b
      BY <2>1, <3>1
    <3> QED
      BY <3>2, <3>3, <3>4
  <2>3. /\ h \o hot \in Seq(Posts) /\ Len(h \o hot) = Len(h) + Len(hot)
        /\ \A i \in 1..Len(h) + Len(hot) : (h \o hot)[i] = IF i <= Len(h) THEN h[i] ELSE hot[i - Len(h)]
    BY <2>2, <1>4, ConcatProperties
  <2>4. c = h \o hot
    BY <1>7, <2>1
  <2>5. c \in Seq(Posts) /\ Len(c) = Len(s) + 1 - cut /\ c[1] = s[1] /\ c[2] = m
    BY <2>2, <2>3, <2>4, <1>2, <1>4
  <2>6. ASSUME NEW i \in 3..Len(c) PROVE c[i] = s[i + cut - 1]
    <3>1. i \in 1..Len(h) + Len(hot) /\ ~(i <= Len(h)) /\ i - Len(h) = i - 2
      BY <2>5, <2>2, <1>2, <1>4
    <3>2. c[i] = hot[i - 2]
      BY <3>1, <2>3, <2>4
    <3>3. i - 2 \in 1..Len(s) - 1 - cut /\ cut + (i - 2) + 1 = i + cut - 1
      BY <2>5, <1>2
    <3> QED
      BY <3>2, <3>3, <1>4
  <2> QED
    BY <2>5, <2>6
<1>9. DOMAIN c = 1..Len(c) /\ Len(c) \in Nat /\ c # <<>> /\ Len(s) \in Nat
  BY <1>2, <1>8, LenProperties, EmptySeq
<1>10. Chained(s, E) /\ DOMAIN s = 1..Len(s)
  BY LenProperties DEF Whole, Sound
<1>11. ASSUME NEW i \in 3..Len(c), AnsweredAt(s, i + cut - 1) PROVE AnsweredAt(c, i)
  <2>1. i + cut - 1 < Len(s) /\ i < Len(c)
    BY <1>11, <1>8, <1>9 DEF AnsweredAt
  <2>2. c[i] = s[i + cut - 1] /\ c[i + 1] = s[(i + cut - 1) + 1]
    <3>1. i + 1 \in 3..Len(c) /\ (i + 1) + cut - 1 = (i + cut - 1) + 1
      BY <2>1, <1>9
    <3>2. c[i] = s[i + cut - 1]
      BY <1>8
    <3>3. c[i + 1] = s[(i + 1) + cut - 1]
      BY <3>1, <1>8
    <3> QED
      BY <3>1, <3>2, <3>3
  <2> QED
    BY <2>1, <2>2, <1>11 DEF AnsweredAt
<1>12. ASSUME NEW i \in 1..Len(c), c[i].kind = "use" PROVE AnsweredAt(c, i) \/ c[i].id \in E
  <2>1. i \in 3..Len(c)
    BY <1>2, <1>6, <1>8, <1>9, <1>12
  <2>2. i + cut - 1 \in 1..Len(s) /\ s[i + cut - 1] = c[i]
    <3>1. PICK l : l = Len(s)
      OBVIOUS
    <3>2. l \in Nat /\ cut \in 1..l - 1 /\ i \in 3..l + 1 - cut
      BY <1>8, <1>9, <2>1, <3>1
    <3>3. i + cut - 1 \in 1..l
      BY <3>2
    <3> QED
      BY <1>8, <2>1, <3>1, <3>3
  <2>3. AnsweredAt(s, i + cut - 1) \/ s[i + cut - 1].id \in E
    BY <2>2, <1>10, <1>12 DEF Chained
  <2> QED
    BY <2>1, <2>2, <2>3, <1>11
<1>13. ASSUME NEW i \in 1..Len(c), c[i].kind = "results"
       PROVE  \/ i > 1 /\ c[i - 1].kind = "use" /\ AnsweredAt(c, i - 1)
              \/ i = 3 /\ c[2].kind = "work"
  <2>1. i \in 3..Len(c)
    BY <1>2, <1>6, <1>8, <1>9, <1>13
  <2>2. CASE i = 3
    BY <2>2, <1>6, <1>8
  <2>3. CASE i # 3
    <3>1. /\ i - 1 \in 3..Len(c) /\ i + cut - 1 \in 1..Len(s) /\ i + cut - 1 > 3
          /\ (i - 1) + cut - 1 = (i + cut - 1) - 1
      BY <2>1, <2>3, <1>8, <1>9
    <3>2. s[i + cut - 1] = c[i] /\ s[(i + cut - 1) - 1] = c[i - 1]
      BY <2>1, <3>1, <1>8
    <3>3. s[(i + cut - 1) - 1].kind = "use" /\ AnsweredAt(s, (i + cut - 1) - 1)
      <4>1. PICK p : p = i + cut - 1
        OBVIOUS
      <4>2. p \in DOMAIN s /\ p > 3 /\ s[p].kind = "results"
        BY <3>1, <3>2, <4>1, <1>10, <1>13
      <4>3. s[p - 1].kind = "use" /\ AnsweredAt(s, p - 1)
        <5>1. \/ p > 1 /\ s[p - 1].kind = "use" /\ AnsweredAt(s, p - 1)
              \/ p = 3 /\ s[2].kind = "work"
          BY <1>10, <4>2 DEF Chained
        <5> QED
          BY <4>2, <5>1, <3>1, <4>1
      <4> QED
        BY <4>1, <4>3
    <3>4. AnsweredAt(c, i - 1)
      BY <3>1, <3>3, <1>11
    <3> QED
      BY <3>1, <3>2, <3>3, <3>4
  <2> QED
    BY <2>2, <2>3
<1>14. Chained(c, E)
  BY <1>9, <1>12, <1>13 DEF Chained
<1>15. Whole(c, E)
  BY <1>2, <1>8, <1>9, <1>14 DEF Whole, Sound
<1> QED
  BY <1>1, <1>2, <1>5, <1>7, <1>15

\* What a rule about each message leaves of a first part, in front of the rest.
LEMMA PreviewedSound ==
    ASSUME NEW E, NEW s, Whole(s, E), NEW cut \in 0..Len(s) - 1
    PROVE  \A warm, hot : warm = SubSeq(Tail(s), 1, cut) /\ hot = SubSeq(Tail(s), cut + 1, Len(Tail(s)))
               => Whole(<<Head(s)>> \o [i \in DOMAIN warm |-> Preview(warm[i])] \o hot, E)
<1>a. SUFFICES ASSUME NEW warm, NEW hot, warm = SubSeq(Tail(s), 1, cut),
                      hot = SubSeq(Tail(s), cut + 1, Len(Tail(s)))
               PROVE  Whole(<<Head(s)>> \o [i \in DOMAIN warm |-> Preview(warm[i])] \o hot, E)
  OBVIOUS
<1>1. PICK rest : rest = Tail(s)
  OBVIOUS
<1>2. /\ Head(s) = s[1] /\ s[1] \in Posts
      /\ rest \in Seq(Posts) /\ Len(s) \in Nat \ {0} /\ Len(rest) = Len(s) - 1
      /\ \A i \in 1..Len(s) - 1 : rest[i] = s[i + 1]
  BY <1>1, PartsAre
<1>3. \A i \in 1..Len(rest) : rest[i] \in Posts
  BY <1>2, ElementOfSeq
<1>4. /\ hot \in Seq(Posts) /\ Len(hot) = Len(s) - 1 - cut
      /\ \A i \in 1..Len(s) - 1 - cut : hot[i] = rest[cut + i]
  <2>1. /\ hot = SubSeq(rest, cut + 1, Len(rest)) /\ cut + 1 \in Int /\ Len(rest) \in Int
        /\ \A i \in cut + 1..Len(rest) : rest[i] \in Posts
    BY <1>a, <1>1, <1>2, <1>3
  <2>2. /\ hot \in Seq(Posts)
        /\ Len(hot) = IF cut + 1 <= Len(rest) THEN Len(rest) - (cut + 1) + 1 ELSE 0
        /\ \A i \in 1..Len(rest) - (cut + 1) + 1 : hot[i] = rest[(cut + 1) + i - 1]
    BY <2>1, SubSeqProperties
  <2> QED
    BY <2>2, <1>2
<1>5. /\ warm \in Seq(Posts) /\ Len(warm) = cut
      /\ \A i \in 1..cut : warm[i] = rest[i]
  <2>1. warm = SubSeq(rest, 1, cut) /\ cut \in Int /\ \A i \in 1..cut : rest[i] \in Posts
    BY <1>a, <1>1, <1>2, <1>3
  <2>2. PICK one : one = 1
    OBVIOUS
  <2>3. /\ warm \in Seq(Posts) /\ Len(warm) = IF one <= cut THEN cut - one + 1 ELSE 0
        /\ \A i \in 1..cut - one + 1 : warm[i] = rest[one + i - 1]
    BY <2>1, <2>2, SubSeqProperties
  <2> QED
    BY <2>2, <2>3
<1>6. PICK p : p = [i \in DOMAIN warm |-> Preview(warm[i])]
  OBVIOUS
<1>7. p \in Seq(Posts) /\ Len(p) = cut /\ \A i \in 1..cut : SameShape(rest[i], p[i])
  <2>1. DOMAIN warm = 1..cut /\ cut \in Nat
    BY <1>5, LenProperties
  <2>2. \A i \in 1..cut : p[i] = Preview(warm[i])
    BY <1>6, <2>1
  <2>3. \A i \in 1..cut : rest[i] \in Posts
    BY <1>2, <1>3
  <2>4. \A i \in 1..cut : p[i] \in Posts /\ SameShape(rest[i], p[i])
    BY <2>2, <2>3, <1>5, PreviewShape
  <2>5. p \in [1..cut -> Posts]
    BY <1>6, <2>1, <2>4
  <2> QED
    BY <2>1, <2>4, <2>5
<1>8. PICK h : h = <<s[1]>> \o p
  OBVIOUS
<1>9. /\ h \in Seq(Posts) /\ Len(h) = cut + 1 /\ h[1] = s[1]
      /\ \A i \in 2..cut + 1 : h[i] = p[i - 1]
  <2>1. PICK a : a = <<s[1]>>
    OBVIOUS
  <2>2. a \in Seq(Posts) /\ Len(a) = 1 /\ a[1] = s[1]
    BY <2>1, <1>2
  <2>3. /\ a \o p \in Seq(Posts) /\ Len(a \o p) = Len(a) + Len(p)
        /\ \A i \in 1..Len(a) + Len(p) : (a \o p)[i] = IF i <= Len(a) THEN a[i] ELSE p[i - Len(a)]
    BY <2>2, <1>7, ConcatProperties
  <2>4. h = a \o p
    BY <2>1, <1>8
  <2> QED
    BY <2>2, <2>3, <2>4, <1>7
<1>10. PICK c : c = h \o hot
  OBVIOUS
<1>11. /\ c \in Seq(Posts) /\ Len(c) = Len(s)
       /\ \A i \in 1..Len(s) : c[i] = IF i <= cut + 1 THEN h[i] ELSE hot[i - (cut + 1)]
  <2>1. /\ h \o hot \in Seq(Posts) /\ Len(h \o hot) = Len(h) + Len(hot)
        /\ \A i \in 1..Len(h) + Len(hot) : (h \o hot)[i] = IF i <= Len(h) THEN h[i] ELSE hot[i - Len(h)]
    BY <1>4, <1>9, ConcatProperties
  <2>2. Len(h) + Len(hot) = Len(s)
    <3>1. Len(h) = cut + 1 /\ Len(hot) = Len(s) - 1 - cut /\ Len(s) \in Nat
      BY <1>2, <1>4, <1>9
    <3> QED
      BY <3>1
  <2> QED
    BY <2>1, <2>2, <1>9, <1>10
<1>12. ASSUME NEW i \in 1..Len(s) PROVE SameShape(s[i], c[i])
  <2>1. CASE i = 1
    BY <2>1, <1>9, <1>11 DEF SameShape
  <2>2. CASE i \in 2..cut + 1
    <3>1. i - 1 \in 1..cut /\ i - 1 \in 1..Len(s) - 1 /\ (i - 1) + 1 = i
      BY <2>2, <1>2
    <3>2. c[i] = p[i - 1] /\ rest[i - 1] = s[i]
      BY <2>2, <3>1, <1>2, <1>9, <1>11
    <3> QED
      BY <3>1, <3>2, <1>7
  <2>3. CASE i > cut + 1
    <3>1. /\ i - (cut + 1) \in 1..Len(s) - 1 - cut /\ cut + (i - (cut + 1)) = i - 1
          /\ i - 1 \in 1..Len(s) - 1 /\ (i - 1) + 1 = i
      <4>1. PICK l : l = Len(s)
        OBVIOUS
      <4>2. l \in Nat \ {0}
        BY <1>2, <4>1
      <4>3. i \in 1..l /\ cut \in 0..l - 1
        BY <4>1
      <4>4. /\ i - (cut + 1) \in 1..l - 1 - cut /\ cut + (i - (cut + 1)) = i - 1
            /\ i - 1 \in 1..l - 1 /\ (i - 1) + 1 = i
        BY <2>3, <4>2, <4>3
      <4> QED
        BY <4>1, <4>4
    <3>2. c[i] = hot[i - (cut + 1)] /\ hot[i - (cut + 1)] = rest[i - 1] /\ rest[i - 1] = s[i]
      BY <2>3, <3>1, <1>2, <1>4, <1>11
    <3> QED
      BY <3>2 DEF SameShape
  <2> QED
    BY <2>1, <2>2, <2>3
<1>13. Whole(c, E)
  BY <1>11, <1>12, ShapeSound
<1> QED
  BY <1>2, <1>6, <1>8, <1>10, <1>13

LEMMA CutSound ==
    ASSUME NEW E, NEW s, Whole(s, E), NEW cut \in 1..Len(s) - 1, NEW w \in Nat
    PROVE  Whole(Cut(Head(s), Tail(s), cut, w), E)
<1>1. Len(s) \in Nat
  BY PartsAre
<1>2. CASE w > 0
  <2>1. PICK c : c = <<Head(s)>> \o <<Summary("work", w)>> \o SubSeq(Tail(s), cut + 1, Len(Tail(s)))
    OBVIOUS
  <2>2. Whole(c, E)
    BY <2>1, SuffixSound
  <2>3. Cut(Head(s), Tail(s), cut, w) = ToolShrunk(c)
    BY <1>2, <2>1 DEF Cut
  <2> QED
    BY <2>2, <2>3, ToolShrunkSound
<1>3. CASE ~(w > 0)
  <2>1. PICK warm, hot : warm = SubSeq(Tail(s), 1, cut) /\ hot = SubSeq(Tail(s), cut + 1, Len(Tail(s)))
    OBVIOUS
  <2>2. PICK c : c = <<Head(s)>> \o [i \in DOMAIN warm |-> Preview(warm[i])] \o hot
    OBVIOUS
  <2>3. cut \in 0..Len(s) - 1
    BY <1>1
  <2>4. Whole(c, E)
    BY <2>1, <2>2, <2>3, PreviewedSound
  <2>5. Cut(Head(s), Tail(s), cut, w) = ToolShrunk(c)
    BY <1>3, <2>1, <2>2 DEF Cut
  <2> QED
    BY <2>4, <2>5, ToolShrunkSound
<1> QED
  BY <1>2, <1>3

LEMMA SmallerLarger ==
    ASSUME NEW a \in Int, NEW b \in Int
    PROVE  /\ SmallerOf(a, b) \in Int /\ SmallerOf(a, b) <= a /\ SmallerOf(a, b) <= b
           /\ SmallerOf(a, b) \in {a, b}
           /\ LargerOf(a, b) \in Int /\ a <= LargerOf(a, b) /\ b <= LargerOf(a, b)
           /\ LargerOf(a, b) \in {a, b}
BY DEF SmallerOf, LargerOf

LEMMA HotOverflowSound ==
    ASSUME NEW E, NEW s, Whole(s, E), NEW w \in Nat
    PROVE  Whole(HotOverflow(Head(s), Tail(s), w), E)
<1>1. Len(s) \in Nat \ {0} /\ Len(Tail(s)) = Len(s) - 1 /\ Tail(s) \in Seq(Posts)
  BY PartsAre
<1>2. PICK suffix : suffix = SmallerOf(Len(Tail(s)), LargerOf(4, 2 * MaxFull))
  OBVIOUS
<1>3. suffix \in Int /\ suffix <= Len(s) - 1 /\ suffix >= 0
  <2>1. 2 * MaxFull \in Int
    BY CompactionAssumption
  <2>2. PICK n : n = LargerOf(4, 2 * MaxFull)
    OBVIOUS
  <2>3. n \in Int /\ 4 <= n
    BY <2>1, <2>2, SmallerLarger
  <2>4. suffix = SmallerOf(Len(Tail(s)), n) /\ Len(Tail(s)) \in Int
    BY <1>1, <1>2, <2>2
  <2>5. suffix \in Int /\ suffix <= Len(Tail(s)) /\ suffix \in {Len(Tail(s)), n}
    BY <2>3, <2>4, SmallerLarger
  <2>6. PICK l : l = Len(Tail(s))
    OBVIOUS
  <2>7. l \in Nat /\ l = Len(s) - 1 /\ suffix <= l /\ suffix \in {l, n}
    <3>1. Len(s) - 1 \in Nat
      BY <1>1
    <3>2. l = Len(s) - 1
      BY <1>1, <2>6
    <3> QED
      BY <2>5, <2>6, <3>1, <3>2
  <2> QED
    BY <2>3, <2>5, <2>7
<1>4. CASE suffix = Len(Tail(s))
  <2>1. PICK rest, none : rest = Tail(s) /\ none = SubSeq(Tail(s), Len(s), Len(s) - 1)
    OBVIOUS
  <2>2. rest = SubSeq(Tail(s), 1, Len(s) - 1)
    BY <1>1, <2>1, SubSeqFull
  <2>3. none = <<>>
    BY <1>1, <2>1, SubSeqEmpty
  <2>4. PICK h : h = <<Head(s)>> \o [i \in DOMAIN rest |-> Preview(rest[i])]
    OBVIOUS
  <2>5. Whole(h \o none, E)
    <3>1. PICK cut : cut = Len(s) - 1
      OBVIOUS
    <3>2. cut \in 0..Len(s) - 1 /\ cut + 1 = Len(s) /\ Len(Tail(s)) = Len(s) - 1
      BY <1>1, <3>1
    <3>3. rest = SubSeq(Tail(s), 1, cut) /\ none = SubSeq(Tail(s), cut + 1, Len(Tail(s)))
      BY <2>1, <2>2, <3>1, <3>2
    <3> QED
      BY <2>4, <3>2, <3>3, PreviewedSound
  <2>6. h \in Seq(Posts)
    <3>1. PICK p : p = [i \in DOMAIN rest |-> Preview(rest[i])]
      OBVIOUS
    <3>2. DOMAIN rest = 1..Len(rest) /\ Len(rest) \in Nat /\ \A i \in 1..Len(rest) : rest[i] \in Posts
      BY <1>1, <2>1, LenProperties, ElementOfSeq
    <3>3. p \in [1..Len(rest) -> Posts]
      BY <3>1, <3>2, PreviewShape
    <3>4. p \in Seq(Posts)
      BY <3>2, <3>3
    <3>5. PICK a : a = <<Head(s)>>
      OBVIOUS
    <3>6. a \in Seq(Posts)
      BY <3>5, PartsAre
    <3>7. h = a \o p
      BY <2>4, <3>1, <3>5
    <3> QED
      BY <3>4, <3>6, <3>7, ConcatProperties
  <2>7. h \o none = h
    BY <2>3, <2>6, ConcatEmptySeq
  <2>8. HotOverflow(Head(s), Tail(s), w) = ToolShrunk(h)
    BY <1>2, <1>4, <2>1, <2>4 DEF HotOverflow
  <2> QED
    BY <2>5, <2>7, <2>8, ToolShrunkSound
<1>5. CASE suffix # Len(Tail(s))
  <2>1. PICK cut : cut = Len(Tail(s)) - suffix
    OBVIOUS
  <2>2. cut \in 1..Len(s) - 1
    <3>1. PICK l : l = Len(s) - 1
      OBVIOUS
    <3>2. l \in Nat /\ cut = l - suffix /\ suffix \in Int /\ suffix <= l /\ suffix >= 0 /\ suffix # l
      <4>1. Len(s) - 1 \in Nat
        BY <1>1
      <4>2. l = Len(Tail(s))
        BY <1>1, <3>1
      <4>3. cut = l - suffix /\ suffix # l
        BY <1>5, <2>1, <4>2
      <4>4. suffix \in Int /\ suffix <= l /\ suffix >= 0
        BY <1>3, <3>1
      <4> QED
        BY <3>1, <4>1, <4>3, <4>4
    <3>3. cut \in 1..l
      BY <3>2
    <3> QED
      BY <3>1, <3>3
  <2>3. HotOverflow(Head(s), Tail(s), w) = Cut(Head(s), Tail(s), cut, w)
    BY <1>2, <1>5, <2>1 DEF HotOverflow
  <2> QED
    BY <2>2, <2>3, CutSound
<1> QED
  BY <1>4, <1>5

\* Behind a summary of the dialogue there are no tool calls that were answered.
LEMMA TailSound ==
    ASSUME NEW E, NEW s, Whole(s, E), \A i \in DOMAIN Tail(s) : Tail(s)[i].kind # "results",
           NEW n \in Nat, NEW w \in Int
    PROVE  Whole(WithTail(Head(s), Tail(s), n, w), E)
<1>1. PICK rest : rest = Tail(s)
  OBVIOUS
<1>2. /\ Head(s) = s[1] /\ s[1] \in Posts /\ s[1].kind = "ask"
      /\ rest \in Seq(Posts) /\ Len(s) \in Nat \ {0} /\ Len(rest) = Len(s) - 1
      /\ \A i \in 1..Len(s) - 1 : rest[i] = s[i + 1]
  BY <1>1, PartsAre
<1>3. CASE n >= Len(rest)
  <2>1. Whole(<<Head(s), Summary("talk", w)>>, E)
    BY <1>2, PairSound
  <2> QED
    BY <1>1, <1>3, <2>1 DEF WithTail
<1>4. CASE ~(n >= Len(rest))
  <2>1. PICK h : h = <<Head(s), Summary("talk", w)>>
    OBVIOUS
  <2>2. h \in Seq(Posts) /\ Len(h) = 2 /\ h[1] = s[1] /\ h[2].kind = "talk"
    <3>1. "talk" \in PostKinds
      BY DEF PostKinds
    <3>2. Summary("talk", w) \in Posts /\ Summary("talk", w).kind = "talk"
      BY <3>1 DEF Summary, Message, Posts
    <3> QED
      BY <1>2, <2>1, <3>2
  <2>3. PICK t, from : from = Len(rest) - n + 1 /\ t = SubSeq(rest, from, Len(rest))
    OBVIOUS
  <2>4. from \in Int /\ from >= 1 /\ from <= Len(rest) + 1 /\ Len(rest) \in Nat
    BY <1>2, <1>4, <2>3
  <2>5. \A i \in from..Len(rest) : rest[i] \in Posts
    BY <1>2, <2>4, ElementOfSeq
  <2>6. /\ t \in Seq(Posts) /\ Len(t) = n
        /\ \A i \in 1..n : t[i] = rest[from + i - 1]
    <3>1. /\ t \in Seq(Posts) /\ Len(t) = IF from <= Len(rest) THEN Len(rest) - from + 1 ELSE 0
          /\ \A i \in 1..Len(rest) - from + 1 : t[i] = rest[from + i - 1]
      BY <2>3, <2>4, <2>5, SubSeqProperties
    <3>2. Len(rest) - from + 1 = n
      BY <2>3, <2>4
    <3> QED
      BY <3>1, <3>2, <2>4
  <2>7. PICK c : c = h \o t
    OBVIOUS
  <2>8. /\ c \in Seq(Posts) /\ Len(c) = n + 2 /\ c[1] = s[1] /\ c[2].kind = "talk"
        /\ \A i \in 3..n + 2 : c[i] = s[from + i - 2]
    <3>1. /\ h \o t \in Seq(Posts) /\ Len(h \o t) = Len(h) + Len(t)
          /\ \A i \in 1..Len(h) + Len(t) : (h \o t)[i] = IF i <= Len(h) THEN h[i] ELSE t[i - Len(h)]
      BY <2>2, <2>6, ConcatProperties
    <3>2. c \in Seq(Posts) /\ Len(c) = n + 2 /\ c[1] = s[1] /\ c[2].kind = "talk"
      BY <3>1, <2>2, <2>6, <2>7
    <3>3. ASSUME NEW i \in 3..n + 2 PROVE c[i] = s[from + i - 2]
      <4>1. i \in 1..Len(h) + Len(t) /\ ~(i <= Len(h)) /\ i - Len(h) = i - 2 /\ i - 2 \in 1..n
        BY <2>2, <2>6
      <4>2. c[i] = t[i - 2] /\ t[i - 2] = rest[from + (i - 2) - 1]
        BY <4>1, <3>1, <2>6, <2>7
      <4>3. from + (i - 2) - 1 \in 1..Len(s) - 1 /\ (from + (i - 2) - 1) + 1 = from + i - 2
        BY <1>2, <2>3, <2>4
      <4> QED
        BY <4>2, <4>3, <1>2
    <3> QED
      BY <3>2, <3>3
  <2>9. DOMAIN c = 1..n + 2 /\ c # <<>> /\ DOMAIN s = 1..Len(s) /\ Chained(s, E)
    BY <2>8, LenProperties, EmptySeq DEF Whole, Sound
  <2>10. \A i \in 2..Len(s) : s[i].kind # "results"
    <3>1. \A i \in 1..Len(s) - 1 : rest[i].kind # "results"
      BY <1>1, <1>2, LenProperties
    <3>2. ASSUME NEW i \in 2..Len(s) PROVE s[i].kind # "results"
      <4>1. i - 1 \in 1..Len(s) - 1 /\ (i - 1) + 1 = i
        BY <1>2
      <4> QED
        BY <4>1, <3>1, <1>2
    <3> QED
      BY <3>2
  <2>11. ASSUME NEW i \in 3..n + 2
         PROVE  c[i].kind # "results" /\ (c[i].kind = "use" => c[i].id \in E)
    <3>1. PICK p : p = from + i - 2
      OBVIOUS
    <3>a. p \in 2..Len(s)
      <4>1. PICK l : l = Len(rest)
        OBVIOUS
      <4>2. l \in Nat /\ Len(s) = l + 1 /\ from = l - n + 1 /\ from >= 1
        BY <4>1, <1>2, <2>3, <2>4
      <4>3. p \in 2..l + 1
        BY <3>1, <4>2
      <4> QED
        BY <4>2, <4>3
    <3>2. p \in 2..Len(s) /\ c[i] = s[p]
      BY <3>1, <3>a, <2>8
    <3>3. ~AnsweredAt(s, p)
      <4>1. p < Len(s) => p + 1 \in 2..Len(s)
        BY <3>2, <1>2
      <4> QED
        BY <4>1, <2>10 DEF AnsweredAt
    <3>4. p \in DOMAIN s
      BY <3>2, <2>9
    <3> QED
      BY <3>2, <3>3, <3>4, <2>9, <2>10 DEF Chained
  <2>12. Chained(c, E)
    <3>1. \A i \in 1..n + 2 : c[i].kind # "results" /\ (c[i].kind = "use" => c[i].id \in E)
      BY <1>2, <2>8, <2>11
    <3> QED
      BY <3>1, <2>9 DEF Chained
  <2>13. Whole(c, E)
    BY <1>2, <2>8, <2>9, <2>12 DEF Whole, Sound
  <2>14. WithTail(Head(s), rest, n, w) = c
    BY <1>4, <2>1, <2>3, <2>7 DEF WithTail
  <2> QED
    BY <1>1, <2>13, <2>14
<1> QED
  BY <1>3, <1>4

LEMMA PureDialogueSound ==
    ASSUME NEW E, NEW s, Whole(s, E), \A i \in DOMAIN Tail(s) : Tail(s)[i].kind # "results",
           NEW w \in Int
    PROVE  Whole(PureDialogue(Head(s), Tail(s), w), E)
<1>1. Len(s) \in Nat \ {0} /\ Len(Tail(s)) = Len(s) - 1
  BY PartsAre
<1>2. PICK most : most = SmallerOf(LargerOf(2, 2 * MaxDialogue), Len(Tail(s)))
  OBVIOUS
<1>3. most \in Nat
  <2>1. PICK n : n = LargerOf(2, 2 * MaxDialogue)
    OBVIOUS
  <2>2. n \in Int /\ 2 <= n
    <3>1. 2 * MaxDialogue \in Int
      BY CompactionAssumption
    <3> QED
      BY <2>1, <3>1, SmallerLarger
  <2>3. most = SmallerOf(n, Len(Tail(s))) /\ Len(Tail(s)) \in Nat
    BY <1>1, <1>2, <2>1
  <2>4. most \in {n, Len(Tail(s))}
    BY <2>2, <2>3, SmallerLarger
  <2> QED
    BY <2>2, <2>3, <2>4
<1>4. PICK tails : tails = {n \in 2 .. LargerOf(2, most) : \E k \in 0..16 : n = LargerOf(2, most \div 2^k)}
  OBVIOUS
<1>5. PICK fitting : fitting = {n \in tails : Fits(WithTail(Head(s), Tail(s), n, w))}
  OBVIOUS
<1>6. fitting # {} => Greatest(fitting) \in Nat
  <2>1. PICK m : m = LargerOf(2, most)
    OBVIOUS
  <2>2. m \in Int /\ 2 <= m
    BY <1>3, <2>1, SmallerLarger
  <2>3. fitting \subseteq 2..m
    BY <1>4, <1>5, <2>1
  <2>4. fitting \in SUBSET Nat /\ m \in Nat /\ \A i \in fitting : i <= m
    BY <2>2, <2>3
  <2>5. fitting # {} => Greatest(fitting) \in fitting
    BY <2>4, GreatestIs
  <2> QED
    BY <2>4, <2>5
<1>7. PureDialogue(Head(s), Tail(s), w) =
        IF most >= Len(Tail(s)) THEN TalkShrunk(WithTail(Head(s), Tail(s), most, w))
        ELSE IF fitting # {} THEN WithTail(Head(s), Tail(s), Greatest(fitting), w)
        ELSE TalkShrunk(WithTail(Head(s), Tail(s), 2, w))
  BY <1>2, <1>4, <1>5 DEF PureDialogue
<1>8. \A n \in Nat : Whole(WithTail(Head(s), Tail(s), n, w), E)
  BY TailSound
<1>9. \A n \in Nat : Whole(TalkShrunk(WithTail(Head(s), Tail(s), n, w)), E)
  BY <1>8, TalkShrunkSound
<1> QED
  BY <1>3, <1>6, <1>7, <1>8, <1>9

LEMMA FullBoundaryIs ==
    ASSUME NEW rest \in Seq(Posts), NEW k \in Nat \ {0}
    PROVE  FullBoundary(rest, k) \in 0..Len(rest)
<1>1. PICK found : found = {i \in DOMAIN rest : rest[i].kind = "results"}
  OBVIOUS
<1>2. PICK followed : followed = {i \in found : Cardinality({j \in found : j > i}) >= k - 1}
  OBVIOUS
<1>3. FullBoundary(rest, k) = IF Cardinality(found) <= k THEN 0 ELSE LargerOf(0, Greatest(followed) - 2)
  BY <1>1, <1>2 DEF FullBoundary
<1>4. Len(rest) \in Nat /\ found \in SUBSET Nat /\ found \subseteq 1..Len(rest)
  BY <1>1, LenProperties
<1>5. IsFiniteSet(found) /\ Cardinality(found) \in Nat
  <2>1. \A i \in found : i <= Len(rest)
    BY <1>4
  <2> QED
    BY <1>4, <2>1, FS_BoundedSetOfNaturals, FS_CardinalityType
<1>6. CASE Cardinality(found) <= k
  BY <1>3, <1>4, <1>6
<1>7. CASE ~(Cardinality(found) <= k)
  <2>1. found # {}
    BY <1>7, FS_EmptySet
  <2>2. PICK i \in found : \A j \in found : i <= j
    BY <1>4, <2>1, LeastNumber
  <2>3. {j \in found : j > i} = found \ {i}
    <3>1. ASSUME NEW j \in found PROVE j > i <=> j # i
      <4>1. i \in Nat /\ j \in Nat /\ i <= j
        BY <1>4, <2>2
      <4> QED
        BY <4>1
    <3> QED
      BY <3>1
  <2>4. Cardinality(found \ {i}) = Cardinality(found) - 1
    BY <1>5, <2>2, FS_RemoveElement
  <2>5. Cardinality({j \in found : j > i}) >= k - 1
    <3>1. PICK n : n = Cardinality(found)
      OBVIOUS
    <3>2. n \in Nat /\ n > k
      BY <1>5, <1>7, <3>1
    <3>3. n - 1 >= k - 1
      BY <3>2
    <3> QED
      BY <2>3, <2>4, <3>1, <3>3
  <2>6. followed # {} /\ followed \in SUBSET Nat /\ \A j \in followed : j <= Len(rest)
    <3>1. i \in followed
      BY <1>2, <2>2, <2>5
    <3>2. followed \subseteq found
      BY <1>2
    <3> QED
      BY <1>4, <3>1, <3>2
  <2>7. Greatest(followed) \in followed
    BY <2>6, <1>4, GreatestIs
  <2>8. PICK g : g = Greatest(followed)
    OBVIOUS
  <2>9. g \in 1..Len(rest)
    BY <1>2, <1>4, <2>7, <2>8
  <2>10. FullBoundary(rest, k) = LargerOf(0, g - 2)
    BY <1>3, <1>7, <2>8
  <2>11. PICK f : f = LargerOf(0, g - 2)
    OBVIOUS
  <2>12. f \in {0, g - 2} /\ 0 <= f
    <3>1. g - 2 \in Int /\ 0 \in Int
      BY <2>9
    <3> QED
      BY <2>11, <3>1, SmallerLarger
  <2>13. f \in 0..Len(rest)
    BY <1>4, <2>9, <2>12
  <2> QED
    BY <2>10, <2>11, <2>13
<1> QED
  BY <1>6, <1>7

LEMMA KeepFullFromIs == ASSUME NEW rest \in Seq(Posts) PROVE KeepFullFrom(rest) \in 0..Len(rest)
<1>1. PICK fewer : fewer = {k \in 1 .. MaxFull : FullBoundary(rest, k) > 0}
  OBVIOUS
<1>2. KeepFullFrom(rest) = IF fewer = {} THEN 0 ELSE FullBoundary(rest, Greatest(fewer))
  BY <1>1 DEF KeepFullFrom
<1>3. MaxFull \in Nat
  BY CompactionAssumption
<1>4. fewer \in SUBSET Nat /\ fewer \subseteq 1..MaxFull /\ \A k \in fewer : k <= MaxFull
  BY <1>1, <1>3
<1>5. fewer # {} => Greatest(fewer) \in fewer
  BY <1>3, <1>4, GreatestIs
<1>6. PICK g : g = Greatest(fewer)
  OBVIOUS
<1>7. fewer # {} => g \in Nat \ {0}
  <2>1. fewer # {} => g \in 1..MaxFull
    BY <1>4, <1>5, <1>6
  <2> QED
    BY <1>3, <2>1
<1>8. fewer # {} => FullBoundary(rest, g) \in 0..Len(rest)
  BY <1>7, FullBoundaryIs
<1>9. Len(rest) \in Nat
  OBVIOUS
<1> QED
  BY <1>2, <1>6, <1>8, <1>9

\* Whatever the budget, the tiers and the summariser.
LEMMA CompactionsSound ==
    ASSUME NEW E, NEW s, Whole(s, E), NEW c \in Compactions(s)
    PROVE  Whole(c, E)
<1>1. PICK from, tools : /\ from = KeepFullFrom(Tail(s))
                         /\ tools = {i \in DOMAIN Tail(s) : Tail(s)[i].kind = "results"}
  OBVIOUS
<1>2. Compactions(s) =
        IF Len(s) <= 1 \/ Fits(s) THEN {s}
        ELSE IF from > 0 THEN {Cut(Head(s), Tail(s), from, w) : w \in {0} \cup SummaryWeights}
        ELSE IF tools # {} THEN {HotOverflow(Head(s), Tail(s), w) : w \in {0} \cup SummaryWeights}
        ELSE {PureDialogue(Head(s), Tail(s), w) : w \in SummaryWeights}
  BY <1>1 DEF Compactions
<1>3. Len(s) \in Nat \ {0} /\ Len(Tail(s)) = Len(s) - 1 /\ Tail(s) \in Seq(Posts)
  BY PartsAre
<1>4. from \in 0..Len(s) - 1
  BY <1>1, <1>3, KeepFullFromIs
<1>5. SummaryWeights \subseteq Nat
  BY CompactionAssumption
<1>6. CASE Len(s) <= 1 \/ Fits(s)
  BY <1>2, <1>6
<1>7. CASE ~(Len(s) <= 1 \/ Fits(s)) /\ from > 0
  <2>1. PICK w \in {0} \cup SummaryWeights : c = Cut(Head(s), Tail(s), from, w)
    BY <1>2, <1>7
  <2>2. w \in Nat /\ from \in 1..Len(s) - 1
    BY <1>3, <1>4, <1>5, <1>7
  <2> QED
    BY <2>1, <2>2, CutSound
<1>8. CASE ~(Len(s) <= 1 \/ Fits(s)) /\ ~(from > 0) /\ tools # {}
  <2>1. PICK w \in {0} \cup SummaryWeights : c = HotOverflow(Head(s), Tail(s), w)
    BY <1>2, <1>8
  <2>2. w \in Nat
    BY <1>5
  <2> QED
    BY <2>1, <2>2, HotOverflowSound
<1>9. CASE ~(Len(s) <= 1 \/ Fits(s)) /\ ~(from > 0) /\ tools = {}
  <2>1. PICK w \in SummaryWeights : c = PureDialogue(Head(s), Tail(s), w)
    BY <1>2, <1>9
  <2>2. w \in Int /\ \A i \in DOMAIN Tail(s) : Tail(s)[i].kind # "results"
    BY <1>1, <1>5, <1>9
  <2> QED
    BY <2>1, <2>2, PureDialogueSound
<1> QED
  BY <1>6, <1>7, <1>8, <1>9

-----------------------------------------------------------------------------
(* What the loop appends, and what a rollback takes away                   *)

LEMMA SoundMore ==
    ASSUME NEW E, NEW F, E \subseteq F, NEW s, Sound(s, E)
    PROVE  Sound(s, F)
BY DEF Sound, Chained

LEMMA AppendIs ==
    ASSUME NEW s \in Seq(Posts), NEW m \in Posts, NEW t, t = Append(s, m)
    PROVE  /\ t \in Seq(Posts) /\ Len(s) \in Nat /\ Len(t) = Len(s) + 1 /\ t # <<>>
           /\ DOMAIN t = 1..Len(s) + 1 /\ DOMAIN s = 1..Len(s)
           /\ t[Len(s) + 1] = m /\ \A i \in 1..Len(s) : t[i] = s[i]
<1>1. /\ t \in Seq(Posts) /\ Len(t) = Len(s) + 1
      /\ t[Len(s) + 1] = m /\ \A i \in 1..Len(s) : t[i] = s[i]
  BY AppendProperties
<1>2. Len(s) \in Nat /\ DOMAIN t = 1..Len(t) /\ DOMAIN s = 1..Len(s)
  BY <1>1, LenProperties
<1>3. t # <<>>
  BY <1>1, <1>2, EmptySeq
<1> QED
  BY <1>1, <1>2, <1>3

\* What was chained stays so behind which anything is written.
LEMMA ChainedBefore ==
    ASSUME NEW E, NEW s \in Seq(Posts), NEW m \in Posts, NEW t, t = Append(s, m), Chained(s, E)
    PROVE  \A i \in 1..Len(s) :
              /\ t[i].kind = "use" => AnsweredAt(t, i) \/ t[i].id \in E
              /\ t[i].kind = "results" =>
                    \/ i > 1 /\ t[i - 1].kind = "use" /\ AnsweredAt(t, i - 1)
                    \/ i = 3 /\ t[2].kind = "work"
<1>1. /\ Len(s) \in Nat /\ Len(t) = Len(s) + 1 /\ DOMAIN s = 1..Len(s)
      /\ \A i \in 1..Len(s) : t[i] = s[i]
  BY AppendIs
<1>2. ASSUME NEW i \in 1..Len(s), AnsweredAt(s, i) PROVE AnsweredAt(t, i)
  <2>1. i + 1 \in 1..Len(s) /\ i < Len(t)
    BY <1>1, <1>2 DEF AnsweredAt
  <2> QED
    BY <1>1, <1>2, <2>1 DEF AnsweredAt
<1>3. TAKE i \in 1..Len(s)
<1>4. ASSUME t[i].kind = "use" PROVE AnsweredAt(t, i) \/ t[i].id \in E
  <2>1. s[i].kind = "use" /\ s[i].id = t[i].id
    BY <1>1, <1>4
  <2>2. AnsweredAt(s, i) \/ s[i].id \in E
    BY <1>1, <2>1 DEF Chained
  <2> QED
    BY <1>2, <2>1, <2>2
<1>5. ASSUME t[i].kind = "results"
      PROVE  \/ i > 1 /\ t[i - 1].kind = "use" /\ AnsweredAt(t, i - 1)
             \/ i = 3 /\ t[2].kind = "work"
  <2>1. \/ i > 1 /\ s[i - 1].kind = "use" /\ AnsweredAt(s, i - 1)
        \/ i = 3 /\ s[2].kind = "work"
    <3>1. s[i].kind = "results" /\ i \in DOMAIN s
      BY <1>1, <1>5
    <3> QED
      BY <3>1 DEF Chained
  <2>2. CASE i > 1 /\ s[i - 1].kind = "use" /\ AnsweredAt(s, i - 1)
    <3>1. i - 1 \in 1..Len(s)
      BY <2>2
    <3>2. t[i - 1] = s[i - 1] /\ AnsweredAt(t, i - 1)
      BY <1>1, <1>2, <2>2, <3>1
    <3> QED
      BY <2>2, <3>2
  <2>3. CASE i = 3 /\ s[2].kind = "work"
    BY <1>1, <2>3
  <2> QED
    BY <2>1, <2>2, <2>3
<1> QED
  BY <1>4, <1>5

\* A message that neither calls tools nor answers calls; the first one asks.  Calls of an
\* excused batch do no harm either.
LEMMA AppendSound ==
    ASSUME NEW E, NEW s, Sound(s, E), NEW m \in Posts, m.kind # "results",
           m.kind = "use" => m.id \in E, s = <<>> => m.kind = "ask"
    PROVE  Whole(Append(s, m), E)
<1>1. PICK t : t = Append(s, m)
  OBVIOUS
<1>2. s \in Seq(Posts) /\ Chained(s, E)
  BY DEF Sound
<1>3. /\ t \in Seq(Posts) /\ Len(s) \in Nat /\ Len(t) = Len(s) + 1 /\ t # <<>>
      /\ DOMAIN t = 1..Len(s) + 1 /\ DOMAIN s = 1..Len(s)
      /\ t[Len(s) + 1] = m /\ \A i \in 1..Len(s) : t[i] = s[i]
  BY <1>1, <1>2, AppendIs
<1>4. ASSUME NEW i \in 1..Len(s) + 1
      PROVE  /\ t[i].kind = "use" => AnsweredAt(t, i) \/ t[i].id \in E
             /\ t[i].kind = "results" =>
                   \/ i > 1 /\ t[i - 1].kind = "use" /\ AnsweredAt(t, i - 1)
                   \/ i = 3 /\ t[2].kind = "work"
  <2>1. CASE i \in 1..Len(s)
    BY <2>1, <1>1, <1>2, ChainedBefore
  <2>2. CASE i = Len(s) + 1
    BY <2>2, <1>3
  <2> QED
    BY <2>1, <2>2, <1>3
<1>5. t[1].kind = "ask"
  <2>1. CASE s = <<>>
    <3>1. Len(s) = 0
      BY <2>1, EmptySeq
    <3> QED
      BY <2>1, <3>1, <1>3
  <2>2. CASE s # <<>>
    <3>1. Len(s) \in Nat \ {0}
      BY <1>2, <2>2, EmptySeq
    <3>2. s[1].kind = "ask"
      BY <2>2 DEF Sound
    <3> QED
      BY <1>3, <3>1, <3>2
  <2> QED
    BY <2>1, <2>2
<1>6. Chained(t, E)
  BY <1>3, <1>4 DEF Chained
<1> QED
  BY <1>1, <1>3, <1>5, <1>6 DEF Whole, Sound

\* Tool calls, and the results of all of them.
LEMMA AnsweredSound ==
    ASSUME NEW E, NEW s, Whole(s, E), NEW u \in Posts, NEW r \in Posts,
           u.kind = "use", r.kind = "results", r.id = u.id, r.size = u.size
    PROVE  Whole(Append(Append(s, u), r), E)
<1>1. PICK t, v : t = Append(s, u) /\ v = Append(t, r)
  OBVIOUS
<1>2. s \in Seq(Posts) /\ Chained(s, E) /\ s # <<>> /\ s[1].kind = "ask"
  BY DEF Whole, Sound
<1>3. /\ t \in Seq(Posts) /\ Len(s) \in Nat /\ Len(t) = Len(s) + 1 /\ DOMAIN t = 1..Len(t)
      /\ t[Len(s) + 1] = u /\ \A i \in 1..Len(s) : t[i] = s[i]
  <2>1. /\ t \in Seq(Posts) /\ Len(s) \in Nat /\ Len(t) = Len(s) + 1
        /\ t[Len(s) + 1] = u /\ \A i \in 1..Len(s) : t[i] = s[i]
    BY <1>1, <1>2, AppendIs
  <2> QED
    BY <2>1, LenProperties
<1>4. /\ v \in Seq(Posts) /\ Len(v) = Len(t) + 1 /\ v # <<>> /\ DOMAIN v = 1..Len(t) + 1
      /\ v[Len(t) + 1] = r /\ \A i \in 1..Len(t) : v[i] = t[i]
  BY <1>1, <1>3, AppendIs
<1>5. PICK n : n = Len(s)
  OBVIOUS
<1>6. /\ n \in Nat /\ n # 0 /\ Len(v) = n + 2 /\ DOMAIN v = 1..n + 2 /\ Len(t) = n + 1
      /\ v[n + 1] = u /\ v[n + 2] = r /\ \A i \in 1..n : v[i] = s[i]
  <2>1. n \in Nat \ {0} /\ Len(t) = n + 1
    BY <1>2, <1>3, <1>5, EmptySeq
  <2>2. Len(t) + 1 = n + 2 /\ n + 1 \in 1..Len(t) /\ \A i \in 1..n : i \in 1..Len(t)
    BY <2>1
  <2>3. v[n + 1] = u /\ v[n + 2] = r /\ \A i \in 1..n : v[i] = s[i]
    BY <1>3, <1>4, <1>5, <2>2
  <2> QED
    BY <1>4, <2>1, <2>2, <2>3
<1>7. AnsweredAt(v, n + 1)
  <2>1. n + 1 < Len(v) /\ (n + 1) + 1 = n + 2
    BY <1>6
  <2> QED
    BY <1>6, <2>1 DEF AnsweredAt
<1>8. ASSUME NEW i \in 1..n, AnsweredAt(s, i) PROVE AnsweredAt(v, i)
  <2>1. i + 1 \in 1..n /\ i < Len(v)
    BY <1>5, <1>6, <1>8 DEF AnsweredAt
  <2> QED
    BY <1>6, <1>8, <2>1 DEF AnsweredAt
<1>9. ASSUME NEW i \in 1..n + 2, v[i].kind = "use" PROVE AnsweredAt(v, i) \/ v[i].id \in E
  <2>1. i \in 1..n \/ i = n + 1
    BY <1>6, <1>9
  <2>2. CASE i \in 1..n
    <3>1. i \in DOMAIN s /\ s[i].kind = "use" /\ s[i] = v[i]
      BY <1>2, <1>5, <1>6, <1>9, <2>2, LenProperties
    <3>2. AnsweredAt(s, i) \/ s[i].id \in E
      BY <1>2, <3>1 DEF Chained
    <3> QED
      BY <1>8, <2>2, <3>1, <3>2
  <2> QED
    BY <1>7, <2>1, <2>2
<1>10. ASSUME NEW i \in 1..n + 2, v[i].kind = "results"
       PROVE  \/ i > 1 /\ v[i - 1].kind = "use" /\ AnsweredAt(v, i - 1)
              \/ i = 3 /\ v[2].kind = "work"
  <2>1. i \in 1..n \/ i = n + 2
    BY <1>6, <1>10
  <2>2. CASE i = n + 2
    <3>1. i - 1 = n + 1 /\ i > 1
      BY <2>2, <1>6
    <3> QED
      BY <1>6, <1>7, <3>1
  <2>3. CASE i \in 1..n
    <3>1. i \in DOMAIN s /\ s[i].kind = "results"
      BY <1>2, <1>5, <1>6, <1>10, <2>3, LenProperties
    <3>2. \/ i > 1 /\ s[i - 1].kind = "use" /\ AnsweredAt(s, i - 1)
          \/ i = 3 /\ s[2].kind = "work"
      BY <1>2, <3>1 DEF Chained
    <3>3. CASE i > 1 /\ s[i - 1].kind = "use" /\ AnsweredAt(s, i - 1)
      <4>1. i - 1 \in 1..n
        BY <1>6, <2>3, <3>3
      <4> QED
        BY <1>6, <1>8, <3>3, <4>1
    <3>4. CASE i = 3 /\ s[2].kind = "work"
      <4>1. 2 \in 1..n
        BY <1>6, <2>3, <3>4
      <4> QED
        BY <1>6, <3>4, <4>1
    <3> QED
      BY <3>2, <3>3, <3>4
  <2> QED
    BY <2>1, <2>2, <2>3
<1>11. Chained(v, E)
  BY <1>6, <1>9, <1>10 DEF Chained
<1>12. v[1].kind = "ask"
  BY <1>2, <1>6
<1> QED
  BY <1>1, <1>4, <1>11, <1>12 DEF Whole, Sound

\* The part before a message that is not results.
LEMMA PrefixSound ==
    ASSUME NEW E, NEW s, Sound(s, E), NEW n \in 0..Len(s) - 1, s[n + 1].kind # "results"
    PROVE  Sound(SubSeq(s, 1, n), E)
<1>1. s \in Seq(Posts) /\ Chained(s, E) /\ (s # <<>> => s[1].kind = "ask")
  BY DEF Sound
<1>2. Len(s) \in Nat /\ DOMAIN s = 1..Len(s) /\ \A i \in 1..Len(s) : s[i] \in Posts
  BY <1>1, LenProperties, ElementOfSeq
<1>3. n \in Nat /\ n < Len(s)
  BY <1>2
<1>4. PICK t : t = SubSeq(s, 1, n)
  OBVIOUS
<1>5. t \in Seq(Posts) /\ Len(t) = n /\ \A i \in 1..n : t[i] = s[i]
  <2>1. PICK one : one = 1
    OBVIOUS
  <2>2. one \in Int /\ n \in Int /\ \A i \in one..n : s[i] \in Posts
    BY <1>2, <1>3, <2>1
  <2>3. /\ t \in Seq(Posts) /\ Len(t) = IF one <= n THEN n - one + 1 ELSE 0
        /\ \A i \in 1..n - one + 1 : t[i] = s[one + i - 1]
    BY <1>4, <2>1, <2>2, SubSeqProperties
  <2> QED
    BY <1>3, <2>1, <2>3
<1>6. DOMAIN t = 1..n
  BY <1>5, LenProperties
<1>7. ASSUME NEW i \in 1..n, AnsweredAt(s, i) PROVE AnsweredAt(t, i)
  <2>1. s[i + 1].kind = "results"
    BY <1>7 DEF AnsweredAt
  <2>2. i # n
    BY <2>1
  <2>3. i + 1 \in 1..n /\ i < n
    BY <1>3, <2>2
  <2> QED
    BY <1>5, <1>7, <2>3 DEF AnsweredAt
<1>8. ASSUME NEW i \in 1..n, t[i].kind = "use" PROVE AnsweredAt(t, i) \/ t[i].id \in E
  <2>1. i \in DOMAIN s /\ s[i] = t[i]
    BY <1>2, <1>3, <1>5
  <2>2. AnsweredAt(s, i) \/ s[i].id \in E
    BY <1>1, <1>8, <2>1 DEF Chained
  <2> QED
    BY <1>7, <2>1, <2>2
<1>9. ASSUME NEW i \in 1..n, t[i].kind = "results"
      PROVE  \/ i > 1 /\ t[i - 1].kind = "use" /\ AnsweredAt(t, i - 1)
             \/ i = 3 /\ t[2].kind = "work"
  <2>1. i \in DOMAIN s /\ s[i] = t[i]
    BY <1>2, <1>3, <1>5
  <2>2. \/ i > 1 /\ s[i - 1].kind = "use" /\ AnsweredAt(s, i - 1)
        \/ i = 3 /\ s[2].kind = "work"
    BY <1>1, <1>9, <2>1 DEF Chained
  <2>3. CASE i > 1 /\ s[i - 1].kind = "use" /\ AnsweredAt(s, i - 1)
    <3>1. i - 1 \in 1..n
      BY <2>3
    <3> QED
      BY <1>5, <1>7, <2>3, <3>1
  <2>4. CASE i = 3 /\ s[2].kind = "work"
    <3>1. 2 \in 1..n
      BY <2>4
    <3> QED
      BY <1>5, <2>4, <3>1
  <2> QED
    BY <2>2, <2>3, <2>4
<1>10. Chained(t, E)
  BY <1>6, <1>8, <1>9 DEF Chained
<1>11. t # <<>> => t[1].kind = "ask"
  <2>1. t # <<>> => n \in Nat \ {0}
    BY <1>5, EmptySeq
  <2>2. s # <<>>
    BY <1>2, <1>3, EmptySeq
  <2> QED
    BY <1>1, <1>5, <2>1, <2>2
<1> QED
  BY <1>4, <1>5, <1>10, <1>11 DEF Sound

-----------------------------------------------------------------------------
(* The history of a loop                                                   *)

LoopStages == {"idle", "setup", "top", "llm", "tools", "finish"}

\* Both histories that a turn may go back to are sound, and so is the one it works on,
\* but for the calls of the batch that is being processed.
ChainInv ==
    /\ mode \in Modes /\ sent \in Int /\ iteration \in Int /\ stage \in LoopStages
    /\ batch \in [id : Int, size : Int, answered : Int]
    /\ Sound(kept, broken) /\ Sound(base, broken)
    /\ stage \in {"top", "llm", "finish"} => Whole(messages, broken)
    /\ stage = "tools" => \E asked : /\ Whole(asked, broken)
                                     /\ messages = Append(asked, Use(batch.id, batch.size))

LEMMA KindsAre ==
    /\ \A i \in Int, w \in Int : Ask(i, w) \in Posts /\ Ask(i, w).kind = "ask"
    /\ \A w \in Int : Text(w) \in Posts /\ Text(w).kind = "text"
    /\ \A i, n \in Int : Use(i, n) \in Posts /\ Use(i, n).kind = "use" /\ Use(i, n).id = i /\ Use(i, n).size = n
    /\ \A i, n, w \in Int, b \in BOOLEAN :
          /\ Results(i, n, w, b) \in Posts /\ Results(i, n, w, b).kind = "results"
          /\ Results(i, n, w, b).id = i /\ Results(i, n, w, b).size = n
BY DEF Ask, Text, Use, Results, Message, Posts, PostKinds

LEMMA ChainStart == LoopInit => ChainInv
<1>1. PICK e : e = <<>>
  OBVIOUS
<1>2. Len(e) = 0 /\ e \in Seq(Posts) /\ DOMAIN e = {}
  BY <1>1
<1>3. Sound(e, {})
  BY <1>1, <1>2 DEF Sound, Chained
<1> QED
  BY <1>1, <1>3 DEF LoopInit, LoopStart, ChainInv, LoopStages

\* Outside the loop: what is kept, and what a turn goes back to.
LEMMA TurnKeepsChain ==
    ASSUME ChainInv, Begin \/ SetUp \/ SetUpFails \/ Return \/ Finish \/ BreakOff \/ SignalStop \/ Rollback
    PROVE  ChainInv'
<1> USE DEF history, verdict, skillVars, planVars
<1>1. CASE Begin
  <2>1. sent' \in Int
    BY <1>1 DEF Begin, ChainInv
  <2> QED
    BY <1>1, <2>1 DEF Begin, ChainInv, LoopStages
<1>2. CASE SetUp
  <2>1. PICK w \in Weights : kept' = Append(kept, Ask(sent, w))
    BY <1>2 DEF SetUp
  <2>2. sent \in Int /\ w \in Int /\ Sound(kept, broken)
    BY LoopAssumption DEF ChainInv
  <2>3. Whole(kept', broken)
    <3>1. PICK m : m = Ask(sent, w)
      OBVIOUS
    <3>2. m \in Posts /\ m.kind = "ask"
      BY <2>2, <3>1, KindsAre
    <3> QED
      BY <2>1, <2>2, <3>1, <3>2, AppendSound
  <2>4. Sound(kept', broken) /\ stage' = "top" /\ messages' = kept' /\ iteration' = 0 /\ broken' = broken
    BY <1>2, <2>3 DEF SetUp, Whole
  <2> QED
    BY <1>2, <2>3, <2>4 DEF SetUp, ChainInv, LoopStages
<1>3. CASE SetUpFails
  BY <1>3 DEF SetUpFails, ChainInv, LoopStages
<1>4. CASE Return
  <2>1. Whole(messages, broken)
    BY <1>4 DEF Return, ChainInv
  <2> QED
    BY <1>4, <2>1 DEF Return, ChainInv, LoopStages, Whole
<1>5. CASE Finish
  BY <1>5 DEF Finish, ChainInv, LoopStages
<1>6. CASE BreakOff
  BY <1>6 DEF BreakOff, ChainInv, LoopStages
<1>7. CASE SignalStop
  BY <1>7 DEF SignalStop, ChainInv, LoopStages
<1>8. CASE Rollback
  <2>1. PICK asks : asks = {i \in DOMAIN kept : kept[i].kind = "ask"}
    OBVIOUS
  <2>2. asks # {} /\ kept' = SubSeq(kept, 1, Greatest(asks) - 1)
    BY <1>8, <2>1 DEF Rollback
  <2>3. kept \in Seq(Posts) /\ Sound(kept, broken)
    BY DEF ChainInv, Sound
  <2>4. Len(kept) \in Nat /\ asks \in SUBSET Nat /\ asks \subseteq 1..Len(kept) /\ \A i \in asks : i <= Len(kept)
    BY <2>1, <2>3, LenProperties
  <2>5. Greatest(asks) \in asks
    BY <2>2, <2>4, GreatestIs
  <2>6. PICK n : n = Greatest(asks) - 1
    OBVIOUS
  <2>7. n \in 0..Len(kept) - 1 /\ kept[n + 1].kind # "results"
    <3>1. PICK g : g = Greatest(asks)
      OBVIOUS
    <3>2. g \in 1..Len(kept) /\ kept[g].kind = "ask" /\ n = g - 1
      BY <2>1, <2>4, <2>5, <2>6, <3>1
    <3>3. n \in 0..Len(kept) - 1 /\ n + 1 = g
      BY <2>4, <3>2
    <3> QED
      BY <3>2, <3>3
  <2>8. Sound(SubSeq(kept, 1, n), broken)
    BY <2>3, <2>7, PrefixSound
  <2>9. Sound(kept', broken)
    BY <2>2, <2>6, <2>8
  <2> QED
    BY <1>8, <2>9 DEF Rollback, ChainInv, LoopStages
<1> QED
  BY <1>1, <1>2, <1>3, <1>4, <1>5, <1>6, <1>7, <1>8

\* An iteration up to the model's answer.
LEMMA IterationKeepsChain ==
    ASSUME ChainInv, Iterate \/ LlmFails \/ Answer \/ CallTools
    PROVE  ChainInv'
<1> USE DEF history, verdict, skillVars, planVars
<1>1. CASE Iterate
  <2>1. Whole(messages, broken) /\ messages' \in Compactions(messages) /\ broken' = broken
    BY <1>1 DEF Iterate, ChainInv
  <2>2. Whole(messages', broken)
    BY <2>1, CompactionsSound
  <2>3. iteration' \in Int /\ stage' \in {"top", "llm"}
    BY <1>1 DEF Iterate, ChainInv
  <2> QED
    BY <1>1, <2>1, <2>2, <2>3 DEF Iterate, ChainInv, LoopStages
<1>2. CASE LlmFails
  BY <1>2 DEF LlmFails, ChainInv, LoopStages
<1>3. CASE Answer
  <2>1. Whole(messages, broken) /\ Sound(messages, broken) /\ messages # <<>>
    BY <1>3 DEF Answer, ChainInv, Whole
  <2>2. Whole(messages', broken)
    <3>1. CASE messages' = messages
      BY <2>1, <3>1
    <3>2. ASSUME NEW w \in Weights, messages' = Append(messages, Text(w)) PROVE Whole(messages', broken)
      <4>1. PICK m : m = Text(w)
        OBVIOUS
      <4>2. m \in Posts /\ m.kind = "text"
        BY <4>1, KindsAre, LoopAssumption
      <4> QED
        BY <2>1, <3>2, <4>1, <4>2, AppendSound
    <3> QED
      BY <1>3, <3>1, <3>2 DEF Answer
  <2>3. stage' = "top" /\ broken' = broken
    BY <1>3 DEF Answer
  <2> QED
    BY <1>3, <2>2, <2>3 DEF Answer, ChainInv, LoopStages
<1>4. CASE CallTools
  <2>1. Whole(messages, broken)
    BY <1>4 DEF CallTools, ChainInv
  <2>2. FreshId \in Int
    <3>1. mode \in Modes /\ MaxIterations[mode] \in Int /\ sent \in Int /\ iteration \in Int
      BY LoopAssumption DEF ChainInv
    <3> QED
      BY <3>1 DEF FreshId
  <2>3. PICK n \in 1..MaxCalls : batch' = [id |-> FreshId, size |-> n, answered |-> 0]
                                 /\ messages' = Append(messages, Use(FreshId, n))
    BY <1>4 DEF CallTools
  <2>4. /\ batch' \in [id : Int, size : Int, answered : Int]
        /\ messages' = Append(messages, Use(batch'.id, batch'.size))
    BY <2>2, <2>3
  <2>5. stage' = "tools" /\ broken' = broken
    BY <1>4 DEF CallTools
  <2>6. \E asked : Whole(asked, broken') /\ messages' = Append(asked, Use(batch'.id, batch'.size))
    BY <2>1, <2>4, <2>5
  <2> QED
    BY <1>4, <2>4, <2>5, <2>6 DEF CallTools, ChainInv, LoopStages
<1> QED
  BY <1>1, <1>2, <1>3, <1>4

\* A call that ends leaves the batch what it is.
LEMMA CallKeepsChain ==
    ASSUME ChainInv, UNCHANGED <<mode, sent, history, stage, iteration, broken>>, stage = "tools",
           \E n \in Int : batch' = [batch EXCEPT !.answered = n]
    PROVE  ChainInv'
<1>1. PICK n \in Int : batch' = [batch EXCEPT !.answered = n]
  OBVIOUS
<1>2. batch \in [id : Int, size : Int, answered : Int]
  BY DEF ChainInv
<1>3. batch' \in [id : Int, size : Int, answered : Int] /\ batch'.id = batch.id /\ batch'.size = batch.size
  BY <1>1, <1>2
<1>4. PICK asked : Whole(asked, broken) /\ messages = Append(asked, Use(batch.id, batch.size))
  BY DEF ChainInv
<1>5. \E old : Whole(old, broken') /\ messages' = Append(old, Use(batch'.id, batch'.size))
  BY <1>3, <1>4 DEF history
<1> QED
  BY <1>3, <1>5 DEF ChainInv, history

LEMMA AnsweredChanges == ASSUME ChainInv, Answered PROVE \E n \in Int : batch' = [batch EXCEPT !.answered = n]
<1>1. batch.answered \in Int /\ batch.size \in Int
  BY DEF ChainInv
<1>2. PICK n : n = IF signalled THEN batch.size ELSE batch.answered + 1
  OBVIOUS
<1>3. n \in Int
  BY <1>1, <1>2
<1>4. batch' = [batch EXCEPT !.answered = n]
  BY <1>2 DEF Answered
<1> QED
  BY <1>3, <1>4

LEMMA ToolsKeepChain ==
    ASSUME ChainInv, \/ RunTool \/ Complete \/ Plan \/ RecordResults
                     \/ \E s \in Skills : Activate(s) \/ ActivateFails(s)
    PROVE  ChainInv'
<1> USE DEF history, verdict, skillVars, planVars
<1>1. CASE RunTool
  BY <1>1, AnsweredChanges, CallKeepsChain DEF RunTool, Running
<1>2. CASE Complete
  <2>1. batch.size \in Int
    BY DEF ChainInv
  <2>2. \E n \in Int : batch' = [batch EXCEPT !.answered = n]
    BY <1>2, <2>1 DEF Complete
  <2> QED
    BY <1>2, <2>2, CallKeepsChain DEF Complete, Running
<1>3. CASE Plan
  BY <1>3, AnsweredChanges, CallKeepsChain DEF Plan, Running
<1>4. ASSUME NEW s \in Skills, Activate(s) PROVE ChainInv'
  BY <1>4, AnsweredChanges, CallKeepsChain DEF Activate, Running
<1>5. ASSUME NEW s \in Skills, ActivateFails(s) PROVE ChainInv'
  <2>1. stage = "tools" /\ stage' = "top" /\ broken' = broken \cup {batch.id}
        /\ UNCHANGED <<mode, sent, messages, kept, base, iteration, batch>>
    BY <1>5 DEF ActivateFails, Running
  <2>2. PICK asked : Whole(asked, broken) /\ messages = Append(asked, Use(batch.id, batch.size))
    BY <2>1 DEF ChainInv
  <2>3. PICK E : E = broken \cup {batch.id}
    OBVIOUS
  <2>4. broken \subseteq E /\ batch.id \in E
    BY <2>3
  <2>5. Sound(kept, E) /\ Sound(base, E) /\ Sound(asked, E)
    BY <2>2, <2>4, SoundMore DEF ChainInv, Whole
  <2>6. Whole(messages, E)
    <3>1. PICK m : m = Use(batch.id, batch.size)
      OBVIOUS
    <3>2. m \in Posts /\ m.kind = "use" /\ m.id = batch.id
      <4>1. batch.id \in Int /\ batch.size \in Int
        BY DEF ChainInv
      <4> QED
        BY <3>1, <4>1, KindsAre
    <3>3. asked # <<>>
      BY <2>2 DEF Whole
    <3> QED
      BY <2>2, <2>4, <2>5, <3>1, <3>2, <3>3, AppendSound
  <2> QED
    BY <2>1, <2>3, <2>5, <2>6 DEF ChainInv, LoopStages
<1>6. CASE RecordResults
  <2>1. stage = "tools" /\ batch.answered = batch.size /\ stage' = "top"
        /\ UNCHANGED <<mode, sent, kept, base, iteration, batch, broken>>
    BY <1>6 DEF RecordResults
  <2>2. PICK asked : Whole(asked, broken) /\ messages = Append(asked, Use(batch.id, batch.size))
    BY <2>1 DEF ChainInv
  <2>3. PICK w \in Weights, bad \in BOOLEAN :
            LET full == Append(messages, Results(batch.id, batch.answered, w, bad))
            IN  messages' = IF finished /\ ~Unmet THEN Append(full, Text(1)) ELSE full
    BY <1>6 DEF RecordResults
  <2>4. PICK full : full = Append(messages, Results(batch.id, batch.answered, w, bad))
    OBVIOUS
  <2>5. Whole(full, broken)
    <3>1. PICK u, r : u = Use(batch.id, batch.size) /\ r = Results(batch.id, batch.size, w, bad)
      OBVIOUS
    <3>2. batch.id \in Int /\ batch.size \in Int /\ w \in Int
      BY LoopAssumption DEF ChainInv
    <3>3. u \in Posts /\ u.kind = "use" /\ u.id = batch.id /\ u.size = batch.size
      BY <3>1, <3>2, KindsAre
    <3>4. r \in Posts /\ r.kind = "results" /\ r.id = batch.id /\ r.size = batch.size
      BY <3>1, <3>2, KindsAre
    <3>5. full = Append(Append(asked, u), r)
      BY <2>1, <2>2, <2>4, <3>1
    <3> QED
      BY <2>2, <3>3, <3>4, <3>5, AnsweredSound
  <2>6. Whole(Append(full, Text(1)), broken)
    <3>1. PICK m : m = Text(1)
      OBVIOUS
    <3>2. m \in Posts /\ m.kind = "text"
      BY <3>1, KindsAre
    <3>3. full # <<>> /\ Sound(full, broken)
      BY <2>5 DEF Whole
    <3> QED
      BY <3>1, <3>2, <3>3, AppendSound
  <2>7. Whole(messages', broken)
    BY <2>3, <2>4, <2>5, <2>6
  <2> QED
    BY <2>1, <2>7 DEF ChainInv, LoopStages
<1> QED
  BY <1>1, <1>2, <1>3, <1>4, <1>5, <1>6

LEMMA ChainRests == ASSUME ChainInv, UNCHANGED loopVars PROVE ChainInv'
BY DEF ChainInv, loopVars, history

\* Whatever was cancelled, skipped, compacted or rolled back before, a request to the model
\* pairs tool calls with their results, but for batches whose skill activation raised and
\* for results whose calls a compaction has folded into its summary.
THEOREM RequestsChained == LoopSpec => []RequestChain
<1>1. ChainInv /\ [LoopNext]_loopVars => ChainInv'
  BY TurnKeepsChain, IterationKeepsChain, ToolsKeepChain, ChainRests DEF LoopNext
<1>2. ChainInv => RequestChain
  BY DEF ChainInv, RequestChain, Whole, Sound
<1> QED
  BY ChainStart, <1>1, <1>2, PTL DEF LoopSpec

\* A request to the model is one that the provider accepts, and offers the tools that the
\* executor lets it run, for every answer of models, tools and summariser.
THEOREM RequestsSound == LoopSpec => []RequestSound
<1>1. RequestChain /\ SkillsAgree <=> RequestSound
  BY DEF RequestSound
<1> QED
  BY SkillsOffered, RequestsChained, <1>1, PTL

\* A tool call without its result has one cause only, a skill activation that raised in the
\* batch: until that has happened, collect_message_chain_warnings finds no missing result
\* (helpers.py process_tool_calls), in spite of signals, compactions and rollbacks.
THEOREM OnlyRaisingBreaks == LoopSpec => [](broken = {} => NoChainWarnings)
<1>1. RequestChain => (broken = {} => NoChainWarnings)
  BY DEF RequestChain, Chained, NoChainWarnings
<1> QED
  BY RequestsChained, <1>1, PTL

-----------------------------------------------------------------------------
(* Artifacts of a turn *)

FilesTypes ==
    /\ made \in Seq([turn : Nat, own : BOOLEAN]) /\ Len(made) <= MaxArtifacts
    /\ call \in [Extractors -> [at : {"idle", "ran", "loads", "saves", "emits"}, id : 0..MaxArtifacts, own : BOOLEAN]]
    /\ cached \in 0..Len(made)
    /\ announced \subseteq 1..Len(made)
    /\ rowJob \in [ArtifactIds -> {"none", "queued", "again", "done"}]
    /\ fileTurn \in [n : Nat, cut : BOOLEAN, clashed : BOOLEAN]

\* A call that is about to announce an artifact has it to itself.
CallTrue(c) ==
    IF call[c].at = "emits"
    THEN /\ call[c].id \in (1..Len(made)) \ announced
         /\ made[call[c].id].turn = fileTurn.n
         /\ \A d \in Extractors \ {c} : call[d].id # call[c].id
    ELSE call[c].id = 0

\* What will be named is of this turn, and announced by then.
NamesTrue ==
    /\ \A a \in named : a \in 1..Len(made) /\ made[a].turn = fileTurn.n
    /\ cached # 0 => made[cached].turn = fileTurn.n
    /\ ~fileTurn.cut => named \cup ({cached} \ {0}) \subseteq announced \cup {call[c].id : c \in Extractors}

OfFile(a) == ~made[a].own /\ made[a].turn = fileTurn.n

\* While calls have not overlapped one of them at most extracts the file, and none any more
\* once it is cached: then the file has made its artifact of this turn.
OnceTrue ==
    /\ \A a \in DOMAIN made : made[a].turn <= fileTurn.n
    /\ cached = 0 => \A a \in DOMAIN made : ~OfFile(a)
    /\ ~fileTurn.clashed =>
          /\ \A c, d \in Extracting : c = d
          /\ cached = 0 \/ Extracting = {}
          /\ \A a, b \in DOMAIN made : OfFile(a) /\ OfFile(b) => a = b

\* A row comes from an announcement, and goes for good once no write of it is left.
ArtifactRowsTrue ==
    /\ \A a \in ArtifactIds : rowJob[a] # "none" => a \in announced
    /\ artifactRows \subseteq announced /\ artifactRows \cap undone = {}
    /\ \A a \in undone : a \in announced /\ rowJob[a] = "done"

FilesInv == FilesTypes /\ (\A c \in Extractors : CallTrue(c)) /\ NamesTrue /\ OnceTrue /\ ArtifactRowsTrue

LEMMA FilesStart == FilesInit => FilesInv
BY ArtifactsAssumption
DEF FilesInit, FilesInv, FilesTypes, CallTrue, NamesTrue, OnceTrue, OfFile, Extracting, ArtifactRowsTrue, NoCall

\* The call of a turn that moves between steps neither makes, names nor announces.
LEMMA CallMoves ==
    ASSUME FilesInv, NEW c \in Extractors, NEW at \in {"ran", "loads", "saves"}, call[c].at # "emits",
           call' = [call EXCEPT ![c].at = at],
           fileTurn' \in [n : Nat, cut : BOOLEAN, clashed : BOOLEAN],
           fileTurn'.n = fileTurn.n, fileTurn'.cut = fileTurn.cut, fileTurn.clashed => fileTurn'.clashed,
           at \in {"loads", "saves"} /\ ~fileTurn'.clashed => cached = 0 /\ Extracting \subseteq {c},
           UNCHANGED <<cached, made, announced, rowJob, artifactRows, named, undone>>
    PROVE  FilesInv'
<1>1. /\ \A d \in Extractors : call'[d].id = call[d].id
      /\ \A d \in Extractors \ {c} : call'[d] = call[d]
      /\ call'[c].at = at
  BY DEF FilesInv, FilesTypes
<1>2. FilesTypes'
  BY DEF FilesInv, FilesTypes
<1>3. ASSUME NEW d \in Extractors PROVE CallTrue(d)'
  BY <1>1 DEF FilesInv, CallTrue
<1>4. NamesTrue'
  <2>1. {call'[d].id : d \in Extractors} = {call[d].id : d \in Extractors}
    BY <1>1
  <2>2. QED
    BY <2>1 DEF FilesInv, NamesTrue
<1>5. OnceTrue'
  <2>1. Extracting' \subseteq Extracting \cup {c} /\ (at = "ran" => Extracting' \subseteq Extracting)
    BY <1>1 DEF Extracting
  <2>2. ASSUME ~fileTurn'.clashed PROVE (\A d, e \in Extracting' : d = e) /\ (cached = 0 \/ Extracting' = {})
    <3>1. CASE at = "ran"
      BY <2>1, <2>2, <3>1 DEF FilesInv, OnceTrue
    <3>2. CASE at # "ran"
      BY <2>1, <2>2, <3>2
    <3>3. QED
      BY <3>1, <3>2
  <2>3. QED
    BY <2>2 DEF FilesInv, OnceTrue, OfFile
<1>6. ArtifactRowsTrue'
  BY DEF FilesInv, ArtifactRowsTrue
<1>7. QED
  BY <1>2, <1>3, <1>4, <1>5, <1>6 DEF FilesInv

\* A call ends without an announcement and names what is cached, if anything.
LEMMA CallEnds ==
    ASSUME FilesInv, NEW c \in Extractors, call[c].at # "emits", EndsWith(c, cached) \/ EndsWith(c, 0),
           UNCHANGED <<cached, made, announced, rowJob, artifactRows, fileTurn, undone>>
    PROVE  FilesInv'
<1>1. call' = [call EXCEPT ![c] = NoCall] /\ named' \subseteq named \cup ({cached} \ {0})
  BY DEF EndsWith, FilesInv, FilesTypes
<1>2. /\ \A d \in Extractors : call'[d].id = call[d].id
      /\ \A d \in Extractors \ {c} : call'[d] = call[d]
      /\ call'[c].at = "idle"
  BY <1>1 DEF FilesInv, FilesTypes, CallTrue, NoCall
<1>3. FilesTypes'
  BY <1>1, ArtifactsAssumption DEF FilesInv, FilesTypes, NoCall
<1>4. ASSUME NEW d \in Extractors PROVE CallTrue(d)'
  BY <1>2 DEF FilesInv, CallTrue
<1>5. NamesTrue'
  <2>1. {call'[d].id : d \in Extractors} = {call[d].id : d \in Extractors}
    BY <1>2
  <2>2. cached # 0 => cached \in 1..Len(made)
    BY DEF FilesInv, FilesTypes
  <2>3. QED
    BY <1>1, <2>1, <2>2 DEF FilesInv, NamesTrue
<1>6. OnceTrue'
  <2>1. Extracting' \subseteq Extracting
    BY <1>2 DEF Extracting
  <2>2. QED
    BY <2>1 DEF FilesInv, OnceTrue, OfFile
<1>7. ArtifactRowsTrue'
  BY DEF FilesInv, ArtifactRowsTrue
<1>8. QED
  BY <1>3, <1>4, <1>5, <1>6, <1>7 DEF FilesInv

\* A call makes an artifact: of the file, after which it is cached, or one of its own.
LEMMA CallMakes ==
    ASSUME FilesInv, NEW c \in Extractors, call[c].at # "emits", NEW o \in BOOLEAN, Makes(c, o),
           UNCHANGED <<announced, rowJob, artifactRows, fileTurn, named, undone>>,
           IF o THEN cached' = cached /\ call[c].at = "idle"
           ELSE call[c].at = "saves" /\ cached' = IF cached = 0 THEN Len(made) + 1 ELSE cached
    PROVE  FilesInv'
<1>0. PICK k \in Nat : k = Len(made) + 1
  BY DEF FilesInv, FilesTypes
<1>1. /\ k <= MaxArtifacts /\ made' = Append(made, [turn |-> fileTurn.n, own |-> o])
      /\ call' = [call EXCEPT ![c] = [at |-> "emits", id |-> k, own |-> o]]
  BY <1>0, ArtifactsAssumption DEF Makes, FilesInv, FilesTypes
<1>2. /\ Len(made) \in Nat /\ Len(made') = k /\ DOMAIN made = 1..Len(made) /\ DOMAIN made' = 1..k
      /\ \A a \in 1..Len(made) : made'[a] = made[a]
      /\ made'[k] = [turn |-> fileTurn.n, own |-> o]
      /\ made' \in Seq([turn : Nat, own : BOOLEAN])
      /\ \A a \in DOMAIN made' : a = k \/ a \in DOMAIN made
  BY <1>0, <1>1 DEF FilesInv, FilesTypes
<1>3. \A d \in Extractors \ {c} : call'[d] = call[d]
  BY <1>1 DEF FilesInv, FilesTypes
<1>4. call'[c] = [at |-> "emits", id |-> k, own |-> o] /\ call[c].id = 0
  BY <1>1 DEF FilesInv, FilesTypes, CallTrue
<1>5. cached \in 0..Len(made) /\ announced \subseteq 1..Len(made) /\ fileTurn' = fileTurn
      /\ \A d \in Extractors : call[d].id \in 0..Len(made)
  BY <1>2 DEF FilesInv, FilesTypes, CallTrue
<1>6. FilesTypes'
  <2>1. cached' \in 0..k /\ announced \subseteq 1..k
    BY <1>0, <1>2, <1>5
  <2>2. k \in 0..MaxArtifacts
    BY <1>0, <1>1, <1>2, ArtifactsAssumption
  <2>3. call' \in [Extractors -> [at : {"idle", "ran", "loads", "saves", "emits"}, id : 0..MaxArtifacts, own : BOOLEAN]]
    BY <1>1, <2>2 DEF FilesInv, FilesTypes
  <2>4. QED
    BY <1>1, <1>2, <2>1, <2>3 DEF FilesInv, FilesTypes
<1>7. ASSUME NEW d \in Extractors PROVE CallTrue(d)'
  <2>1. CASE d = c
    <3>1. call'[c].at = "emits" /\ call'[c].id = k
      BY <1>4
    <3>2. k \in (1..k) \ announced' /\ made'[k].turn = fileTurn'.n
      BY <1>0, <1>2, <1>5
    <3>3. \A e \in Extractors \ {c} : call'[e].id # k
      BY <1>0, <1>2, <1>3, <1>5
    <3>4. QED
      BY <1>2, <2>1, <3>1, <3>2, <3>3 DEF CallTrue
  <2>2. CASE d # c
    <3>1. CallTrue(d) /\ call'[d] = call[d]
      BY <1>3, <2>2 DEF FilesInv
    <3>2. call[d].at # "emits" => CallTrue(d)'
      BY <3>1 DEF CallTrue
    <3>3. ASSUME call[d].at = "emits" PROVE CallTrue(d)'
      <4>1. call[d].id \in (1..Len(made)) \ announced /\ made'[call[d].id].turn = fileTurn.n
        BY <1>2, <3>1, <3>3 DEF CallTrue
      <4>2. call[d].id \in (1..k) \ announced
        BY <1>0, <1>2, <4>1
      <4>3. \A e \in Extractors \ {d} : call'[e].id # call[d].id
        BY <1>0, <1>2, <1>3, <1>4, <3>1, <3>3, <4>1 DEF CallTrue
      <4>4. QED
        BY <1>2, <1>5, <3>1, <4>1, <4>2, <4>3 DEF CallTrue
    <3>4. QED
      BY <3>2, <3>3
  <2>3. QED
    BY <2>1, <2>2
<1>8. NamesTrue'
  <2>1. \A a \in named : a \in 1..k /\ made'[a].turn = fileTurn.n
    BY <1>0, <1>2 DEF FilesInv, NamesTrue
  <2>2. cached' # 0 => made'[cached'].turn = fileTurn.n
    BY <1>0, <1>2, <1>5 DEF FilesInv, NamesTrue
  <2>3. {call[d].id : d \in Extractors} \ {0} \subseteq {call'[d].id : d \in Extractors}
    BY <1>3, <1>4
  <2>4. k \in {call'[d].id : d \in Extractors}
    BY <1>4
  <2>5. named \cup ({cached} \ {0}) \subseteq 1..Len(made)
    BY <1>2, <1>5 DEF FilesInv, NamesTrue
  <2>6. ~fileTurn.cut => named \cup ({cached} \ {0}) \subseteq announced \cup {call'[d].id : d \in Extractors}
    BY <2>3, <2>5 DEF FilesInv, NamesTrue
  <2>7. QED
    BY <1>0, <1>2, <1>5, <2>1, <2>2, <2>4, <2>6 DEF NamesTrue
<1>9. OnceTrue'
  <2>1. Extracting' = Extracting \ {c}
    BY <1>3, <1>4 DEF Extracting
  <2>2. \A a \in DOMAIN made' : made'[a].turn <= fileTurn.n
    <3>1. fileTurn.n \in Nat /\ \A a \in DOMAIN made : made[a].turn <= fileTurn.n
      BY DEF FilesInv, FilesTypes, OnceTrue
    <3>2. made'[k].turn <= fileTurn.n /\ \A a \in DOMAIN made : made'[a].turn <= fileTurn.n
      BY <1>2, <3>1
    <3>3. QED
      BY <1>2, <3>2
  <2>3. (\A a \in DOMAIN made : OfFile(a)' = OfFile(a)) /\ (OfFile(k)' => ~o)
    <3>1. ASSUME NEW a \in DOMAIN made PROVE OfFile(a)' = OfFile(a)
      BY <1>2, <1>5 DEF OfFile
    <3>2. OfFile(k)' => ~o
      BY <1>2 DEF OfFile
    <3>3. QED
      BY <3>1, <3>2
  <2>4. cached' = 0 => \A a \in DOMAIN made' : ~OfFile(a)'
    <3>1. cached' = 0 => cached = 0 /\ o
      BY <1>0, <1>2
    <3>2. cached = 0 => \A a \in DOMAIN made : ~OfFile(a)
      BY DEF FilesInv, OnceTrue
    <3>3. QED
      BY <1>2, <2>3, <3>1, <3>2
  <2>5. ASSUME ~fileTurn.clashed
        PROVE  /\ \A d, e \in Extracting' : d = e
               /\ cached' = 0 \/ Extracting' = {}
               /\ \A a, b \in DOMAIN made' : OfFile(a)' /\ OfFile(b)' => a = b
    <3>1. CASE o
      <4>1. /\ \A d, e \in Extracting : d = e
            /\ cached = 0 \/ Extracting = {}
            /\ \A a, b \in DOMAIN made : OfFile(a) /\ OfFile(b) => a = b
        BY <2>5 DEF FilesInv, OnceTrue
      <4>2. cached' = cached /\ Extracting' \subseteq Extracting
        BY <2>1, <3>1
      <4>3. \A a \in DOMAIN made' : OfFile(a)' => a \in DOMAIN made /\ OfFile(a)
        BY <1>2, <2>3, <3>1
      <4>4. QED
        BY <4>1, <4>2, <4>3
    <3>2. CASE ~o
      <4>1. c \in Extracting
        BY <3>2 DEF Extracting
      <4>2. cached = 0 /\ Extracting' = {}
        BY <2>1, <2>5, <4>1 DEF FilesInv, OnceTrue
      <4>3. \A a \in DOMAIN made : ~OfFile(a)'
        BY <2>3, <4>2 DEF FilesInv, OnceTrue
      <4>4. QED
        BY <1>0, <1>2, <4>2, <4>3
    <3>3. QED
      BY <3>1, <3>2
  <2>6. QED
    BY <1>5, <2>2, <2>4, <2>5 DEF OnceTrue
<1>10. ArtifactRowsTrue'
  BY DEF FilesInv, ArtifactRowsTrue
<1>11. QED
  BY <1>6, <1>7, <1>8, <1>9, <1>10 DEF FilesInv

\* The announcement, which starts the write of the row.
LEMMA CallAnnounces ==
    ASSUME FilesInv, NEW c \in Extractors, EmitCreated(c)
    PROVE  FilesInv'
<1> DEFINE k == call[c].id
<1>1. /\ call[c].at = "emits" /\ announced' = announced \cup {k}
      /\ rowJob' = [rowJob EXCEPT ![k] = "queued"]
      /\ call' = [call EXCEPT ![c] = NoCall]
      /\ named' \subseteq named \cup (({k} \cup {cached}) \ {0})
      /\ UNCHANGED <<cached, made, artifactRows, fileTurn, undone>>
  BY DEF EmitCreated, EndsWith
<1>2. /\ k \in (1..Len(made)) \ announced /\ made[k].turn = fileTurn.n
      /\ \A d \in Extractors \ {c} : call[d].id # k
  BY <1>1 DEF FilesInv, CallTrue
<1> HIDE DEF k
<1>3. /\ \A d \in Extractors \ {c} : call'[d] = call[d]
      /\ call'[c].at = "idle" /\ call'[c].id = 0
  BY <1>1 DEF FilesInv, FilesTypes, NoCall
<1>4. FilesTypes'
  <2>1. call' \in [Extractors -> [at : {"idle", "ran", "loads", "saves", "emits"}, id : 0..MaxArtifacts, own : BOOLEAN]]
    BY <1>1, ArtifactsAssumption DEF FilesInv, FilesTypes, NoCall
  <2>2. rowJob' \in [ArtifactIds -> {"none", "queued", "again", "done"}]
    BY <1>1 DEF FilesInv, FilesTypes
  <2>3. QED
    BY <1>1, <1>2, <2>1, <2>2 DEF FilesInv, FilesTypes
<1>5. ASSUME NEW d \in Extractors PROVE CallTrue(d)'
  BY <1>1, <1>2, <1>3 DEF FilesInv, CallTrue
<1>6. NamesTrue'
  <2>1. cached # 0 => cached \in 1..Len(made) /\ made[cached].turn = fileTurn.n
    BY DEF FilesInv, FilesTypes, NamesTrue
  <2>2. {call[d].id : d \in Extractors} \subseteq {call'[d].id : d \in Extractors} \cup {k}
    BY <1>3 DEF k
  <2>3. QED
    BY <1>1, <1>2, <2>1, <2>2 DEF FilesInv, NamesTrue
<1>7. OnceTrue'
  <2>1. Extracting' \subseteq Extracting
    BY <1>3 DEF Extracting
  <2>2. QED
    BY <1>1, <2>1 DEF FilesInv, OnceTrue, OfFile
<1>8. ArtifactRowsTrue'
  <2>1. k \notin undone
    BY <1>2 DEF FilesInv, ArtifactRowsTrue
  <2>2. \A a \in ArtifactIds : a # k => rowJob'[a] = rowJob[a]
    BY <1>1 DEF FilesInv, FilesTypes
  <2>3. announced \subseteq ArtifactIds
    BY ArtifactsAssumption DEF FilesInv, FilesTypes, ArtifactIds
  <2>4. QED
    BY <1>1, <2>1, <2>2, <2>3 DEF FilesInv, ArtifactRowsTrue
<1>9. QED
  BY <1>4, <1>5, <1>6, <1>7, <1>8 DEF FilesInv

\* The rows alone change.
LEMMA RowsMove ==
    ASSUME FilesInv, UNCHANGED <<call, cached, made, announced, fileTurn, named>>,
           rowJob' \in [ArtifactIds -> {"none", "queued", "again", "done"}], ArtifactRowsTrue'
    PROVE  FilesInv'
BY DEF FilesInv, FilesTypes, CallTrue, NamesTrue, OnceTrue, OfFile, Extracting

LEMMA TurnsOfFiles ==
    ASSUME FilesInv, NextFileTurn \/ CutTurn
    PROVE  FilesInv'
<1>1. CASE NextFileTurn
  <2>1. /\ \A c \in Extractors : call[c].at = "idle" 
        /\ fileTurn' = [n |-> fileTurn.n + 1, cut |-> FALSE, clashed |-> FALSE]
        /\ cached' = 0 /\ named' = {} /\ UNCHANGED <<call, made, announced, rowJob, artifactRows, undone>>
    BY <1>1 DEF NextFileTurn, Resets
  <2>2. fileTurn.n \in Nat /\ Len(made) \in Nat /\ \A a \in DOMAIN made : made[a].turn \in Nat /\ made[a].turn <= fileTurn.n
    <3>1. made \in Seq([turn : Nat, own : BOOLEAN]) /\ fileTurn.n \in Nat
      BY DEF FilesInv, FilesTypes
    <3>2. \A a \in DOMAIN made : made[a].turn \in Nat
      <4>1. \A a \in 1..Len(made) : made[a] \in [turn : Nat, own : BOOLEAN]
        BY <3>1, ElementOfSeq
      <4>2. QED
        BY <3>1, <4>1
    <3>3. QED
      BY <3>1, <3>2 DEF FilesInv, OnceTrue
  <2>3. \A a \in DOMAIN made : made[a].turn <= fileTurn'.n /\ made[a].turn # fileTurn'.n
    BY <2>1, <2>2
  <2>4. Extracting' = {}
    BY <2>1 DEF Extracting
  <2>5. FilesTypes'
    BY <2>1, <2>2 DEF FilesInv, FilesTypes
  <2>6. \A c \in Extractors : CallTrue(c)'
    BY <2>1 DEF FilesInv, CallTrue
  <2>7. NamesTrue' /\ OnceTrue'
    BY <2>1, <2>3, <2>4 DEF NamesTrue, OnceTrue, OfFile
  <2>8. QED
    BY <2>1, <2>5, <2>6, <2>7 DEF FilesInv, ArtifactRowsTrue
<1>2. CASE CutTurn
  <2>1. /\ call' = [c \in Extractors |-> NoCall] /\ fileTurn' = [fileTurn EXCEPT !.cut = TRUE]
        /\ UNCHANGED <<cached, made, announced, rowJob, artifactRows, named, undone>>
    BY <1>2 DEF CutTurn
  <2>2. fileTurn'.n = fileTurn.n /\ fileTurn'.cut /\ fileTurn'.clashed = fileTurn.clashed
    BY <2>1 DEF FilesInv, FilesTypes
  <2>3. Extracting' = {}
    BY <2>1 DEF Extracting, NoCall
  <2>4. FilesTypes'
    <3>1. call' \in [Extractors -> [at : {"idle", "ran", "loads", "saves", "emits"}, id : 0..MaxArtifacts, own : BOOLEAN]]
      BY <2>1, ArtifactsAssumption DEF NoCall
    <3>2. fileTurn' \in [n : Nat, cut : BOOLEAN, clashed : BOOLEAN]
      BY <2>1 DEF FilesInv, FilesTypes
    <3>3. QED
      BY <2>1, <3>1, <3>2 DEF FilesInv, FilesTypes
  <2>5. \A c \in Extractors : CallTrue(c)'
    BY <2>1 DEF CallTrue, NoCall
  <2>6. NamesTrue' /\ OnceTrue'
    BY <2>1, <2>2, <2>3 DEF FilesInv, NamesTrue, OnceTrue, OfFile
  <2>7. QED
    BY <2>1, <2>4, <2>5, <2>6 DEF FilesInv, ArtifactRowsTrue
<1>3. QED
  BY <1>1, <1>2

LEMMA FilesStep == FilesInv /\ [FilesNext]_artifactVars => FilesInv'
<1>0. SUFFICES ASSUME FilesInv, [FilesNext]_artifactVars PROVE FilesInv'
  OBVIOUS
<1>1. ASSUME NEW c \in Extractors, CallStep(c) PROVE FilesInv'
  <2>1. CASE ToolRuns(c)
    BY <1>0, <2>1, CallMoves DEF ToolRuns, Idles, ToStage, FilesInv, FilesTypes
  <2>2. CASE RegisterLocal(c)
    BY <1>0, <2>2, CallMakes DEF RegisterLocal, Idles
  <2>3. CASE ExtractKnown(c)
    BY <1>0, <2>3, CallEnds DEF ExtractKnown
  <2>4. CASE ExtractNew(c)
    <3>1. fileTurn' = [fileTurn EXCEPT !.clashed = @ \/ Extracting # {}]
      BY <2>4 DEF ExtractNew
    <3>2. fileTurn \in [n : Nat, cut : BOOLEAN, clashed : BOOLEAN]
      BY <1>0 DEF FilesInv, FilesTypes
    <3>3. /\ fileTurn' \in [n : Nat, cut : BOOLEAN, clashed : BOOLEAN] 
          /\ fileTurn'.n = fileTurn.n /\ fileTurn'.cut = fileTurn.cut 
      BY <3>1, <3>2
    <3>4. fileTurn'.clashed = (fileTurn.clashed \/ Extracting # {})
      BY <3>1, <3>2
    <3>5. QED
      BY <1>0, <2>4, <3>3, <3>4, CallMoves DEF ExtractNew, ToStage
  <2>5. CASE Downloads(c)
    <3>1. c \in Extracting
      BY <2>5 DEF Downloads, Extracting
    <3>2. ~fileTurn.clashed => cached = 0 /\ Extracting \subseteq {c}
      BY <1>0, <3>1 DEF FilesInv, OnceTrue
    <3>3. QED
      BY <1>0, <2>5, <3>2, CallMoves DEF Downloads, ToStage, FilesInv, FilesTypes
  <2>6. CASE DownloadFails(c)
    BY <1>0, <2>6, CallEnds DEF DownloadFails
  <2>7. CASE SaveFile(c)
    BY <1>0, <2>7, CallMakes DEF SaveFile
  <2>8. CASE SaveFails(c)
    BY <1>0, <2>8, CallEnds DEF SaveFails
  <2>9. CASE EmitCreated(c)
    BY <1>0, <2>9, CallAnnounces
  <2>10. QED
    BY <1>1, <2>1, <2>2, <2>3, <2>4, <2>5, <2>6, <2>7, <2>8, <2>9 DEF CallStep
<1>2. CASE NextFileTurn \/ CutTurn
  BY <1>0, <1>2, TurnsOfFiles
<1>3. ASSUME NEW a \in ArtifactIds, SaveArtifact(a) PROVE FilesInv'
  <2>1. rowJob' \in [ArtifactIds -> {"none", "queued", "again", "done"}] /\ ArtifactRowsTrue'
    <3>1. PICK after \in {"again", "done"} : rowJob' = [rowJob EXCEPT ![a] = after]
      BY <1>3 DEF SaveArtifact
    <3>2. rowJob' \in [ArtifactIds -> {"none", "queued", "again", "done"}]
      BY <1>0, <3>1 DEF FilesInv, FilesTypes
    <3>3. a \in announced /\ a \notin undone
      BY <1>0, <1>3 DEF SaveArtifact, FilesInv, ArtifactRowsTrue
    <3>4. \A b \in ArtifactIds : b # a => rowJob'[b] = rowJob[b]
      BY <1>0, <3>1 DEF FilesInv, FilesTypes
    <3>5. announced \subseteq ArtifactIds
      BY <1>0, ArtifactsAssumption DEF FilesInv, FilesTypes, ArtifactIds
    <3>6. QED
      BY <1>0, <1>3, <3>2, <3>3, <3>4, <3>5 DEF SaveArtifact, FilesInv, ArtifactRowsTrue
  <2>2. QED
    BY <1>0, <1>3, <2>1, RowsMove DEF SaveArtifact
<1>4. ASSUME NEW a \in ArtifactIds, RowLost(a) PROVE FilesInv'
  <2>1. rowJob' \in [ArtifactIds -> {"none", "queued", "again", "done"}] /\ ArtifactRowsTrue'
    BY <1>0, <1>4 DEF RowLost, FilesInv, FilesTypes, ArtifactRowsTrue
  <2>2. QED
    BY <1>0, <1>4, <2>1, RowsMove DEF RowLost
<1>5. ASSUME NEW ids \in SUBSET ArtifactIds, DeleteArtifacts(ids) PROVE FilesInv'
  <2>1. rowJob' \in [ArtifactIds -> {"none", "queued", "again", "done"}] /\ ArtifactRowsTrue'
    BY <1>0, <1>5 DEF DeleteArtifacts, FilesInv, FilesTypes, ArtifactRowsTrue
  <2>2. QED
    BY <1>0, <1>5, <2>1, RowsMove DEF DeleteArtifacts
<1>6. CASE UNCHANGED artifactVars
  BY <1>0, <1>6
  DEF artifactVars, FilesInv, FilesTypes, CallTrue, NamesTrue, OnceTrue, OfFile, Extracting, ArtifactRowsTrue
<1>7. QED
  BY <1>0, <1>1, <1>2, <1>3, <1>4, <1>5, <1>6 DEF FilesNext

LEMMA FilesInvShows == FilesInv => FilesTrue
<1>1. SUFFICES ASSUME FilesInv PROVE FilesTrue
  OBVIOUS
<1>2. \A a \in ArtifactIds : Served(a) => a \in announced \ undone
  BY <1>1 DEF FilesInv, ArtifactRowsTrue, Served
<1>3. QED
  BY <1>1, <1>2 DEF FilesInv, NamesTrue, OnceTrue, OfFile, FilesTrue

-----------------------------------------------------------------------------
(* Previews *)

ViewerRecords == [at : Rendering \cup {"idle", "queues", "locked", "over"}, lock : Nat,
                  got : {"nothing", "an error", "slides", "broken slides"}]
LockRecords == [by : SUBSET Viewers, queue : Seq(Viewers)]

PreviewTypes ==
    /\ viewer \in [Viewers -> ViewerRecords]
    /\ lock \in Seq(LockRecords)
    /\ lockOf \in 0..Len(lock) /\ work \in {"none", "dir", "source", "pdf"}
    /\ \A v \in Viewers : viewer[v].at \in Rendering \cup {"queues", "locked"} => viewer[v].lock \in 1..Len(lock)

\* What a render that nobody has disturbed finds at its next step.
StageTrue(v) ==
    /\ viewer[v].at = "opens" => work \in Needs["opens"]
    /\ viewer[v].at = "converts" => work \in Needs["converts"]
    /\ viewer[v].at = "draws" => work \in Needs["draws"]
    /\ viewer[v].at \in {"drawing", "writes", "writing"} => slides # "none"
    /\ viewer[v].at = "clears" => viewer[v].got = "an error" \/ Cached

\* A render that was never under way with another is the only one.
AloneTrue == \A v \in Renderers \ entwined : Renderers = {v} /\ StageTrue(v)

GotTrue == \A v \in Viewers : viewer[v].got = "an error" => v \in faulty \cup entwined

Busies == {v \in Viewers : viewer[v].at \in Rendering \cup {"locked"}}

\* While no render has failed there is one lock at most, whose holder is the only one to
\* render, and once it is free there is a manifest.
CalmLock ==
    /\ entwined = {}
    /\ \A v, w \in Busies : v = w
    /\ Len(lock) <= 1
    /\ \A v \in Busies : lockOf = 1 /\ lock[1].by = {v}
    /\ lock # <<>> /\ Busies = {} => Cached
    /\ lock = <<>> => manifest = "none"

\* And with the manifest there are all the slides.
CalmSlides ==
    /\ \A v \in Busies :
          /\ viewer[v].at \in {"locked", "opens", "converts", "draws", "drawing"} => manifest = "none"
          /\ viewer[v].at \in {"writes", "writing", "clears"} => slides = "whole"
    /\ manifest = "whole" => slides = "whole"
    /\ \A v \in Viewers : viewer[v].got # "broken slides"

Calm == CalmLock /\ CalmSlides

PreviewsInv == PreviewTypes /\ AloneTrue /\ GotTrue /\ (faulty = {} => Calm)

LEMMA SequenceUpdated ==
    ASSUME NEW S, NEW q \in Seq(S), NEW i \in 1..Len(q), NEW x \in S
    PROVE  /\ [q EXCEPT ![i] = x] \in Seq(S) /\ Len([q EXCEPT ![i] = x]) = Len(q)
           /\ [q EXCEPT ![i] = x][i] = x
           /\ \A k \in 1..Len(q) \ {i} : [q EXCEPT ![i] = x][k] = q[k]
OBVIOUS

LEMMA SequenceNonempty ==
    ASSUME NEW S, NEW q \in Seq(S), NEW i \in 1..Len(q)
    PROVE  q # <<>>
OBVIOUS

LEMMA LockFacts ==
    ASSUME PreviewTypes
    PROVE  /\ Len(lock) \in Nat /\ DOMAIN lock = 1..Len(lock) /\ (lock = <<>> <=> Len(lock) = 0)
           /\ lockOf \in 0..Len(lock) /\ lock \in Seq(LockRecords)
           /\ \A l \in 1..Len(lock) : lock[l] \in LockRecords
<1>1. lock \in Seq(LockRecords) /\ lockOf \in 0..Len(lock)
  BY DEF PreviewTypes
<1>2. QED
  BY <1>1, ElementOfSeq

LEMMA LockHeld ==
    ASSUME PreviewTypes, lockOf = 1
    PROVE  lock # <<>>
<1>1. lock \in Seq(LockRecords) /\ 1 \in 1..Len(lock)
  BY LockFacts
<1>2. QED
  BY <1>1, SequenceNonempty

LEMMA PreviewsStart == PreviewsInit => PreviewsInv
<1>1. SUFFICES ASSUME PreviewsInit PROVE PreviewsInv
  OBVIOUS
<1>2. \A v \in Viewers : viewer[v] = [at |-> "idle", lock |-> 0, got |-> "nothing"]
  BY <1>1 DEF PreviewsInit, NoViewer
<1>3. Renderers = {} /\ Busies = {}
  BY <1>2 DEF Renderers, Busies, Rendering
<1>4. PreviewTypes
  BY <1>1, <1>2 DEF PreviewsInit, PreviewTypes, ViewerRecords, Rendering, NoViewer
<1>5. QED
  <2>1. AloneTrue /\ GotTrue
    <3>1. ASSUME NEW v \in Viewers PROVE viewer[v].got # "an error"
      <4>1. viewer[v] = [at |-> "idle", lock |-> 0, got |-> "nothing"]
        BY <1>2
      <4>2. QED
        BY <4>1
    <3>2. QED
      BY <1>3, <3>1 DEF AloneTrue, GotTrue
  <2>2. CalmLock
    BY <1>1, <1>3 DEF PreviewsInit, CalmLock
  <2>3. CalmSlides
    <3>1. ASSUME NEW v \in Viewers PROVE viewer[v].got # "broken slides"
      <4>1. viewer[v] = [at |-> "idle", lock |-> 0, got |-> "nothing"]
        BY <1>2
      <4>2. QED
        BY <4>1
    <3>2. manifest # "whole"
      BY <1>1 DEF PreviewsInit
    <3>3. QED
      BY <1>3, <3>1, <3>2 DEF CalmSlides
  <2>4. QED
    BY <1>4, <2>1, <2>2, <2>3 DEF PreviewsInv, Calm

\* The locks have their holders, and the table has the lock it had or, if there was a lock
\* that nobody held, none.
LocksKept ==
    /\ lock' \in Seq(LockRecords) /\ Len(lock') = Len(lock)
    /\ \A k \in 1..Len(lock) : lock'[k].by = lock[k].by
    /\ lockOf' = lockOf \/ (lockOf' = 0 /\ \E k \in 1..Len(lock) : lock[k].by = {})

LEMMA LocksKeptFacts ==
    ASSUME PreviewTypes, LocksKept
    PROVE  /\ Len(lock') = Len(lock) /\ lockOf' \in 0..Len(lock') /\ lock' \in Seq(LockRecords)
           /\ CalmLock => \A w \in Busies : lockOf' = 1 /\ lock'[1].by = {w}
           /\ lock' = <<>> <=> lock = <<>>
<1>1. /\ Len(lock) \in Nat /\ DOMAIN lock = 1..Len(lock) /\ (lock = <<>> <=> Len(lock) = 0)
      /\ lockOf \in 0..Len(lock)
  BY LockFacts
<1>2. /\ lock' \in Seq(LockRecords) /\ Len(lock') = Len(lock) /\ (lockOf' = lockOf \/ lockOf' = 0)
      /\ \A k \in 1..Len(lock) : lock'[k].by = lock[k].by
      /\ lockOf' # lockOf => \E k \in 1..Len(lock) : lock[k].by = {}
  BY DEF LocksKept
<1>3. lock' = <<>> <=> Len(lock') = 0
  BY <1>2
<1>4. ASSUME CalmLock, NEW w \in Busies PROVE lockOf' = 1 /\ lock'[1].by = {w}
  <2>1. Len(lock) <= 1 /\ lockOf = 1 /\ lock[1].by = {w}
    BY <1>4 DEF CalmLock
  <2>2. 1 \in 1..Len(lock) /\ \A k \in 1..Len(lock) : k = 1
    BY <1>1, <2>1
  <2>3. lockOf' = lockOf
    BY <1>2, <2>1, <2>2
  <2>4. QED
    BY <1>2, <2>1, <2>2, <2>3
<1>5. QED
  BY <1>1, <1>2, <1>3, <1>4

\* A request that is answered from the manifest.
LEMMA ViewerAnswered ==
    ASSUME PreviewsInv, NEW v \in Viewers, viewer[v].at \in {"idle", "queues"}, Cached, NEW l \in Nat, Answers(v, l, What),
           LocksKept,
           UNCHANGED <<work, slides, manifest, faulty, entwined>>
    PROVE  PreviewsInv'
<1>0. /\ PreviewTypes /\ viewer \in [Viewers -> ViewerRecords]
  BY DEF PreviewsInv, PreviewTypes
<1>a. PICK shown : shown \in {"slides", "broken slides"} /\ shown = What
  BY DEF What
<1>1. viewer' = [viewer EXCEPT ![v] = [at |-> "over", lock |-> l, got |-> shown]]
  BY <1>a DEF Answers
<1>2. /\ \A w \in Viewers \ {v} : viewer'[w] = viewer[w]
      /\ viewer'[v] = [at |-> "over", lock |-> l, got |-> shown]
  BY <1>0, <1>1
<1>3. Renderers' = Renderers /\ Busies' = Busies /\ v \notin Busies /\ v \notin Renderers
  <2>1. {"idle", "queues", "over"} \cap (Rendering \cup {"locked"}) = {}
    BY DEF Rendering
  <2>2. v \notin Busies /\ v \notin Renderers /\ v \notin Busies' /\ v \notin Renderers'
    <3>1. viewer'[v].at = "over"
      BY <1>2
    <3>2. QED
      BY <2>1, <3>1 DEF Renderers, Busies
  <2>3. QED
    BY <1>2, <2>2 DEF Renderers, Busies
<1>4. PreviewTypes'
  <2>1. viewer' \in [Viewers -> ViewerRecords]
    BY <1>0, <1>a, <1>1, <1>2 DEF ViewerRecords
  <2>2. lockOf' \in 0..Len(lock') /\ lock' \in Seq(LockRecords) /\ Len(lock') = Len(lock)
    BY <1>0, LocksKeptFacts
  <2>3. ASSUME NEW w \in Viewers, viewer'[w].at \in Rendering \cup {"queues", "locked"} PROVE viewer'[w].lock \in 1..Len(lock')
    <3>1. viewer'[v].at = "over" /\ "over" \notin Rendering \cup {"queues", "locked"}
      BY <1>2 DEF Rendering
    <3>2. viewer'[w] = viewer[w]
      BY <1>2, <2>3, <3>1
    <3>3. QED
      BY <1>0, <2>2, <2>3, <3>2 DEF PreviewTypes
  <2>4. QED
    BY <1>0, <2>1, <2>2, <2>3 DEF PreviewTypes
<1>5. AloneTrue'
  BY <1>2, <1>3 DEF PreviewsInv, AloneTrue, StageTrue, Cached, Renderers
<1>6. GotTrue'
  <2>a. shown # "an error"
    BY <1>a
  <2>b. viewer'[v].got = shown
    BY <1>2
  <2>1. viewer'[v].got # "an error"
    BY <2>a, <2>b
  <2>2. \A w \in Viewers : viewer'[w].got = "an error" => viewer[w].got = "an error"
    BY <1>2, <2>1
  <2>3. QED
    BY <2>2 DEF PreviewsInv, GotTrue
<1>7. ASSUME faulty = {} PROVE Calm'
  <2>1. CalmLock /\ CalmSlides
    BY <1>7 DEF PreviewsInv, Calm
  <2>2. shown # "broken slides"
    BY <1>a, <2>1 DEF CalmSlides, Cached, What
  <2>3. \A w \in Busies : lockOf' = 1 /\ lock'[1].by = {w}
    BY <1>0, <2>1, LocksKeptFacts
  <2>4. lock' = <<>> <=> lock = <<>>
    BY <1>0, LocksKeptFacts
  <2>5. \A w \in Viewers : viewer'[w].got # "broken slides"
    <3>1. viewer'[v].got = shown
      BY <1>2
    <3>2. QED
      BY <1>2, <2>1, <2>2, <3>1 DEF CalmSlides
  <2>6. \A w \in Busies : viewer'[w] = viewer[w]
    BY <1>2, <1>3 DEF Busies
  <2>7. CalmLock'
    <3>1. Cached' = Cached
      BY DEF Cached
    <3>2. Len(lock') = Len(lock)
      BY <1>0, LocksKeptFacts
    <3>3. QED
      BY <1>3, <2>1, <2>3, <2>4, <3>1, <3>2 DEF CalmLock
  <2>8. CalmSlides'
    BY <1>3, <2>1, <2>5, <2>6 DEF CalmSlides
  <2>9. QED
    BY <2>7, <2>8 DEF Calm
<1>8. QED
  BY <1>4, <1>5, <1>6, <1>7 DEF PreviewsInv

\* A request that waits, or that gets the lock.
LEMMA ViewerWaits ==
    ASSUME PreviewsInv, NEW v \in Viewers, viewer[v].at \in {"idle", "queues"}, ~Cached,
           NEW at \in {"queues", "locked"}, NEW l \in Nat,
           viewer' = [viewer EXCEPT ![v].at = at, ![v].lock = l],
           lock' \in Seq(LockRecords), Len(lock) <= Len(lock'), l \in 1..Len(lock'),
           lockOf' \in 0..Len(lock'),
           faulty = {} =>
              /\ Len(lock') = 1 /\ lockOf' = 1
              /\ IF at = "locked" THEN Busies = {} /\ manifest = "none" /\ lock'[1].by = {v}
                 ELSE Busies # {} /\ lock # <<>> /\ lock'[1].by = lock[1].by,
           UNCHANGED <<work, slides, manifest, faulty, entwined>>
    PROVE  PreviewsInv'
<1>0. /\ PreviewTypes /\ viewer \in [Viewers -> ViewerRecords]
      /\ Len(lock) \in Nat /\ DOMAIN lock = 1..Len(lock) /\ (lock = <<>> <=> Len(lock) = 0) /\ lockOf \in 0..Len(lock)
      /\ Len(lock') \in Nat /\ (lock' = <<>> <=> Len(lock') = 0)
  BY LockFacts DEF PreviewsInv, PreviewTypes
<1>1. /\ \A w \in Viewers \ {v} : viewer'[w] = viewer[w]
      /\ viewer'[v].at = at /\ viewer'[v].lock = l /\ viewer'[v].got = viewer[v].got
  BY <1>0 DEF ViewerRecords
<1>2. /\ Renderers' = Renderers /\ v \notin Busies /\ v \notin Renderers
      /\ Busies' = IF at = "locked" THEN Busies \cup {v} ELSE Busies
  <2>1. {"idle", "queues"} \cap (Rendering \cup {"locked"}) = {} /\ "locked" \notin Rendering
    BY DEF Rendering
  <2>2. QED
    BY <1>1, <2>1, ZenonT(30) DEF Renderers, Busies
<1>3. PreviewTypes'
  <2>1. viewer' \in [Viewers -> ViewerRecords]
    BY <1>0, ZenonT(30) DEF ViewerRecords
  <2>3. ASSUME NEW w \in Viewers, viewer'[w].at \in Rendering \cup {"queues", "locked"} PROVE viewer'[w].lock \in 1..Len(lock')
    <3>1. CASE w = v
      BY <1>1, <3>1
    <3>2. CASE w # v
      <4>1. viewer[w].lock \in 1..Len(lock)
        BY <1>0, <1>1, <2>3, <3>2 DEF PreviewTypes
      <4>2. viewer'[w].lock = viewer[w].lock /\ viewer[w].lock \in 1..Len(lock')
        BY <1>0, <1>1, <3>2, <4>1
      <4>3. QED
        BY <4>2
    <3>3. QED
      BY <3>1, <3>2
  <2>4. QED
    BY <1>0, <2>1, <2>3 DEF PreviewTypes
<1>4. AloneTrue'
  <2>1. \A w \in Renderers : viewer'[w] = viewer[w]
    BY <1>1, <1>2 DEF Renderers
  <2>2. QED
    BY <1>2, <2>1, ZenonT(30) DEF PreviewsInv, AloneTrue, StageTrue, Cached
<1>5. GotTrue'
  BY <1>1 DEF PreviewsInv, GotTrue
<1>6. ASSUME faulty = {} PROVE Calm'
  <2>1. CalmLock /\ CalmSlides
    BY <1>6 DEF PreviewsInv, Calm
  <2>2. \A w \in Busies : viewer'[w] = viewer[w]
    BY <1>1, <1>2 DEF Busies
  <2>3. /\ \A w, u \in Busies' : w = u
        /\ \A w \in Busies' : lockOf' = 1 /\ lock'[1].by = {w}
        /\ Busies' # {} /\ lock' # <<>>
    <3>1. CASE at = "locked"
      BY <1>0, <1>2, <1>6, <3>1
    <3>2. CASE at = "queues"
      BY <1>0, <1>2, <1>6, <2>1, <3>2 DEF CalmLock
    <3>3. QED
      BY <3>1, <3>2
  <2>4. \A w \in Busies' :
          /\ viewer'[w].at \in {"locked", "opens", "converts", "draws", "drawing"} => manifest = "none"
          /\ viewer'[w].at \in {"writes", "writing", "clears"} => slides = "whole"
    BY <1>1, <1>2, <1>6, <2>1, <2>2 DEF CalmSlides
  <2>5. \A w \in Viewers : viewer'[w].got # "broken slides"
    BY <1>1, <2>1 DEF CalmSlides
  <2>6. CalmLock'
    <3>1. entwined' = {}
      BY <2>1 DEF CalmLock
    <3>a. Len(lock') = 1
      BY <1>6
    <3>2. QED
      BY <2>3, <3>1, <3>a DEF CalmLock
  <2>7. CalmSlides'
    BY <2>1, <2>4, <2>5 DEF CalmSlides
  <2>8. QED
    BY <2>6, <2>7 DEF Calm
<1>7. QED
  BY <1>3, <1>4, <1>5, <1>6 DEF PreviewsInv

LEMMA AsksKeep ==
    ASSUME PreviewsInv, NEW v \in Viewers, AskPreview(v)
    PROVE  PreviewsInv'
<1>1. viewer[v].at = "idle" /\ UNCHANGED <<work, slides, manifest, faulty, entwined>>
  BY DEF AskPreview, ViewerAt
<1>2. CASE Cached
  <2>1. Answers(v, 0, What) /\ UNCHANGED <<lockOf, lock>>
    BY <1>2 DEF AskPreview
  <2>2. lock \in Seq(LockRecords) /\ 0 \in Nat
    BY LockFacts DEF PreviewsInv
  <2>3. lock' = lock /\ lockOf' = lockOf
    BY <2>1
  <2>4. QED
    BY <1>1, <1>2, <2>1, <2>2, <2>3, ViewerAnswered DEF LocksKept
<1>3. CASE ~Cached
  <2> DEFINE l == IF lockOf = 0 THEN Len(lock) + 1 ELSE lockOf
             locks == IF lockOf = 0 THEN Append(lock, NobodyHolds) ELSE lock
             free == locks[l] = NobodyHolds
  <2>1. /\ lockOf' = l
        /\ lock' = IF free THEN [locks EXCEPT ![l].by = {v}] ELSE [locks EXCEPT ![l].queue = Append(@, v)]
        /\ viewer' = [viewer EXCEPT ![v].at = IF free THEN "locked" ELSE "queues", ![v].lock = l]
    BY <1>3 DEF AskPreview
  <2>2. /\ locks \in Seq(LockRecords)
        /\ l \in 1..Len(locks) /\ l \in Nat /\ Len(lock) <= Len(locks) /\ Len(lock) \in Nat
        /\ lockOf = 0 => l = Len(lock) + 1 /\ Len(locks) = l /\ locks[l] = NobodyHolds
        /\ lockOf # 0 => locks = lock /\ l = lockOf
    <3>1. NobodyHolds \in LockRecords
      BY DEF NobodyHolds, LockRecords
    <3>2. Len(lock) \in Nat /\ lockOf \in 0..Len(lock) /\ lock \in Seq(LockRecords)
      BY LockFacts DEF PreviewsInv
    <3>3. QED
      BY <3>1, <3>2
  <2> HIDE DEF l, locks
  <2>3. locks[l] \in LockRecords /\ Len(locks) \in Nat
    BY <2>2, ElementOfSeq
  <2>4. /\ lock' \in Seq(LockRecords) /\ Len(lock') = Len(locks)
        /\ lock'[l].by = IF free THEN {v} ELSE locks[l].by
    <3>1. CASE free
      <4>1. lock' = [locks EXCEPT ![l] = [locks[l] EXCEPT !.by = {v}]]
        BY <2>1, <3>1
      <4>2. [locks[l] EXCEPT !.by = {v}] \in LockRecords /\ [locks[l] EXCEPT !.by = {v}].by = {v}
        BY <2>3 DEF LockRecords
      <4>3. QED
        BY <2>2, <3>1, <4>1, <4>2, SequenceUpdated
    <3>2. CASE ~free
      <4>1. Append(locks[l].queue, v) \in Seq(Viewers)
        BY <2>3 DEF LockRecords
      <4>2. lock' = [locks EXCEPT ![l] = [locks[l] EXCEPT !.queue = Append(locks[l].queue, v)]]
        BY <2>1, <3>2
      <4>3. /\ [locks[l] EXCEPT !.queue = Append(locks[l].queue, v)] \in LockRecords
            /\ [locks[l] EXCEPT !.queue = Append(locks[l].queue, v)].by = locks[l].by
        BY <2>3, <4>1 DEF LockRecords
      <4>4. QED
        BY <2>2, <3>2, <4>2, <4>3, SequenceUpdated
    <3>3. QED
      BY <3>1, <3>2
  <2>5. ASSUME faulty = {}
        PROVE  /\ Len(lock') = 1 /\ lockOf' = 1
               /\ IF free THEN Busies = {} /\ manifest = "none" /\ lock'[1].by = {v}
                  ELSE Busies # {} /\ lock # <<>> /\ lock'[1].by = lock[1].by
    <3>1. CalmLock
      BY <2>5 DEF PreviewsInv, Calm
    <3>2. CASE lockOf = 0
      <4>1. Busies = {} /\ lock = <<>> /\ Len(lock) = 0
        BY <1>3, <3>1, <3>2 DEF CalmLock
      <4>2. l = 1 /\ Len(locks) = 1 /\ free /\ manifest = "none"
        BY <2>2, <3>1, <3>2, <4>1 DEF CalmLock
      <4>3. QED
        BY <2>1, <2>4, <4>1, <4>2
    <3>3. CASE lockOf # 0
      <4>1. Len(lock) = 1 /\ lockOf = 1 /\ lock # <<>> /\ l = 1 /\ locks = lock
        BY <2>2, <3>1, <3>3, LockFacts DEF CalmLock, PreviewsInv
      <4>2. PICK w \in Busies : lock[1].by = {w}
        BY <1>3, <3>1, <4>1 DEF CalmLock
      <4>3. ~free
        BY <4>1, <4>2 DEF NobodyHolds
      <4>4. QED
        BY <2>1, <2>4, <4>1, <4>2, <4>3
    <3>4. QED
      BY <3>2, <3>3
  <2>a. Len(lock) <= Len(lock') /\ l \in 1..Len(lock') /\ lockOf' \in 0..Len(lock')
    BY <2>1, <2>2, <2>3, <2>4
  <2>6. CASE free
    <3>1. viewer' = [viewer EXCEPT ![v].at = "locked", ![v].lock = l]
      BY <2>1, <2>6
    <3>2. faulty = {} => Len(lock') = 1 /\ lockOf' = 1 /\ Busies = {} /\ manifest = "none" /\ lock'[1].by = {v}
      BY <2>5, <2>6
    <3>3. QED
      BY <1>1, <1>3, <2>2, <2>4, <2>a, <3>1, <3>2, ViewerWaits
  <2>7. CASE ~free
    <3>1. viewer' = [viewer EXCEPT ![v].at = "queues", ![v].lock = l]
      BY <2>1, <2>7
    <3>2. faulty = {} => Len(lock') = 1 /\ lockOf' = 1 /\ Busies # {} /\ lock # <<>> /\ lock'[1].by = lock[1].by
      BY <2>5, <2>7
    <3>3. QED
      BY <1>1, <1>3, <2>2, <2>4, <2>a, <3>1, <3>2, ViewerWaits
  <2>8. QED
    BY <2>6, <2>7
<1>4. QED
  BY <1>2, <1>3

LEMMA AcquiresKeep ==
    ASSUME PreviewsInv, NEW v \in Viewers, Acquires(v)
    PROVE  PreviewsInv'
<1> DEFINE l == viewer[v].lock
<1>1. /\ viewer[v].at = "queues" /\ lock[l].by = {} /\ lock[l].queue # <<>>
      /\ UNCHANGED <<work, slides, manifest, faulty, entwined>>
  BY DEF Acquires, ViewerAt
<1>2. /\ l \in 1..Len(lock) /\ l \in Nat /\ Len(lock) \in Nat
      /\ lock \in Seq(LockRecords) /\ lockOf \in 0..Len(lock)
  <2>1. l \in 1..Len(lock)
    BY <1>1 DEF PreviewsInv, PreviewTypes
  <2>2. QED
    BY <2>1, LockFacts DEF PreviewsInv
<1>3. lock[l] \in LockRecords
  BY <1>2, ElementOfSeq
<1>4. Tail(lock[l].queue) \in Seq(Viewers)
  BY <1>1, <1>3 DEF LockRecords
<1>5. CASE Cached
  <2>1. Answers(v, l, What) /\ lock' = [lock EXCEPT ![l].queue = Tail(@)] /\ lockOf' = 0
    BY <1>5 DEF Acquires
  <2>2. lock' = [lock EXCEPT ![l] = [lock[l] EXCEPT !.queue = Tail(lock[l].queue)]]
    BY <2>1
  <2>3. /\ [lock[l] EXCEPT !.queue = Tail(lock[l].queue)] \in LockRecords
        /\ [lock[l] EXCEPT !.queue = Tail(lock[l].queue)].by = lock[l].by
    BY <1>3, <1>4 DEF LockRecords
  <2>4. /\ lock' \in Seq(LockRecords) /\ Len(lock') = Len(lock)
        /\ \A k \in 1..Len(lock) : lock'[k].by = lock[k].by
    BY <1>2, <2>2, <2>3, SequenceUpdated
  <2>5. QED
    BY <1>1, <1>2, <1>5, <2>1, <2>4, ViewerAnswered DEF LocksKept
<1>6. CASE ~Cached
  <2>1. /\ viewer' = [viewer EXCEPT ![v].at = "locked"] /\ lockOf' = lockOf
        /\ lock' = [lock EXCEPT ![l] = [by |-> {v}, queue |-> Tail(lock[l].queue)]]
    BY <1>6 DEF Acquires, ToState
  <2>2. viewer' = [viewer EXCEPT ![v].at = "locked", ![v].lock = l]
    BY <2>1 DEF PreviewsInv, PreviewTypes, ViewerRecords
  <2>3. lock' \in Seq(LockRecords) /\ Len(lock') = Len(lock)
    <3>1. [by |-> {v}, queue |-> Tail(lock[l].queue)] \in LockRecords
      BY <1>4 DEF LockRecords
    <3>2. QED
      BY <1>2, <2>1, <3>1, SequenceUpdated
  <2>4. ASSUME faulty = {} PROVE FALSE
    <3>1. CalmLock
      BY <2>4 DEF PreviewsInv, Calm
    <3>2. l = 1 /\ lock # <<>>
      BY <1>2, <3>1 DEF CalmLock
    <3>3. Busies # {}
      BY <1>6, <3>1, <3>2 DEF CalmLock
    <3>4. QED
      BY <1>1, <3>1, <3>2, <3>3 DEF CalmLock
  <2>5. lockOf' \in 0..Len(lock') /\ Len(lock) <= Len(lock') /\ l \in 1..Len(lock')
    BY <1>2, <2>1, <2>3
  <2> HIDE DEF l
  <2>6. QED
    BY <1>1, <1>2, <1>6, <2>2, <2>3, <2>4, <2>5, ViewerWaits
<1>7. QED
  BY <1>5, <1>6

\* A step of a request that keeps its lock and goes on rendering.
LEMMA RenderGoesOn ==
    ASSUME PreviewsInv, NEW v \in Viewers, viewer[v].at \in Rendering \cup {"locked"}, NEW at \in Rendering,
           NEW shown \in {viewer[v].got, "an error"},
           viewer' = [viewer EXCEPT ![v].at = at, ![v].got = shown],
           UNCHANGED <<lock, lockOf>>, work' \in {"none", "dir", "source", "pdf"}, faulty \subseteq faulty', entwined \subseteq entwined',
           Renderers \cup {v} \subseteq entwined' \/ Renderers \subseteq {v} \/ v \in Renderers,
           v \notin entwined' => StageTrue(v)',
           shown = "an error" => v \in faulty' \cup entwined',
           faulty' = {} =>
              /\ entwined' = {}
              /\ at \in {"opens", "converts", "draws", "drawing"} => manifest' = "none"
              /\ at \in {"writes", "writing", "clears"} => slides' = "whole"
              /\ manifest' = "whole" => slides' = "whole"
    PROVE  PreviewsInv'
<1>1. /\ \A w \in Viewers \ {v} : viewer'[w] = viewer[w]
      /\ viewer'[v].at = at /\ viewer'[v].got = shown /\ viewer'[v].lock = viewer[v].lock
  BY DEF PreviewsInv, PreviewTypes, ViewerRecords
<1>2. Renderers' = Renderers \cup {v} /\ Busies' = Busies /\ v \in Busies
  BY <1>1 DEF Renderers, Busies
<1>3. PreviewTypes'
  <2>1. viewer' \in [Viewers -> ViewerRecords]
    BY DEF PreviewsInv, PreviewTypes, ViewerRecords
  <2>2. \A w \in Viewers : viewer'[w].at \in Rendering \cup {"queues", "locked"} => viewer'[w].lock \in 1..Len(lock)
    BY <1>1 DEF PreviewsInv, PreviewTypes
  <2>3. QED
    BY <2>1, <2>2 DEF PreviewsInv, PreviewTypes
<1>4. AloneTrue'
  <2>1. SUFFICES ASSUME NEW w \in Renderers' \ entwined' PROVE Renderers' = {w} /\ StageTrue(w)'
    BY DEF AloneTrue
  <2>2. (Renderers \subseteq {v} \/ v \in Renderers) /\ (v \notin entwined' => StageTrue(v)')
    BY <1>2, <2>1
  <2>3. w = v /\ Renderers' = {v}
    <3>1. CASE w \in Renderers
      <4>1. Renderers = {w}
        BY <3>1 DEF PreviewsInv, AloneTrue
      <4>2. QED
        BY <1>2, <2>2, <4>1
    <3>2. CASE w \notin Renderers
      BY <1>2, <2>2, <3>2
    <3>3. QED
      BY <3>1, <3>2
  <2>4. QED
    BY <2>2, <2>3
<1>5. GotTrue'
  BY <1>1 DEF PreviewsInv, GotTrue
<1>6. ASSUME faulty' = {} PROVE Calm'
  <2>1. CalmLock /\ CalmSlides
    BY <1>6 DEF PreviewsInv, Calm
  <2>2. Busies = {v} /\ lock # <<>>
    <3>1. Busies = {v} /\ lockOf = 1
      BY <1>2, <2>1 DEF CalmLock
    <3>2. QED
      BY <3>1, LockHeld DEF PreviewsInv
  <2>3. \A w \in Viewers : viewer'[w].got # "broken slides"
    BY <1>1, <1>6, <2>1 DEF CalmSlides
  <2>4. CalmLock'
    BY <1>2, <1>6, <2>1, <2>2 DEF CalmLock
  <2>5. CalmSlides'
    <3>1. Busies' = {v} /\ viewer'[v].at = at
      BY <1>1, <1>2, <2>2
    <3>2. /\ at \in {"opens", "converts", "draws", "drawing"} => manifest' = "none"
          /\ at \in {"writes", "writing", "clears"} => slides' = "whole"
          /\ manifest' = "whole" => slides' = "whole"
      BY <1>6
    <3>3. at # "locked"
      BY DEF Rendering
    <3>4. QED
      BY <2>3, <3>1, <3>2, <3>3 DEF CalmSlides
  <2>6. QED
    BY <2>4, <2>5 DEF Calm
<1>7. QED
  BY <1>3, <1>4, <1>5, <1>6 DEF PreviewsInv

LEMMA RendersKeep ==
    ASSUME PreviewsInv, NEW v \in Viewers,
           \/ StartRender(v) \/ Materialize(v) \/ ConvertToPdf(v) \/ DrawSlides(v)
           \/ SlidesDrawn(v) \/ WriteManifest(v) \/ RenderFails(v)
    PROVE  PreviewsInv'
<1>0. viewer \in [Viewers -> ViewerRecords]
  BY DEF PreviewsInv, PreviewTypes
<1>1. ASSUME faulty = {}, viewer[v].at \in Rendering \cup {"locked"}
      PROVE  /\ entwined = {} /\ \A w \in Viewers : viewer[w].at \in Rendering => w = v
             /\ viewer[v].got # "an error"
             /\ viewer[v].at \in {"locked", "opens", "converts", "draws", "drawing"} => manifest = "none"
             /\ viewer[v].at \in {"writes", "writing", "clears"} => slides = "whole"
             /\ manifest = "whole" => slides = "whole"
  <2>1. CalmLock /\ CalmSlides /\ GotTrue
    BY <1>1 DEF PreviewsInv, Calm
  <2>2. v \in Busies
    BY <1>1 DEF Busies
  <2>3. entwined = {} /\ \A w \in Viewers : viewer[w].at \in Rendering => w = v
    BY <2>1, <2>2 DEF CalmLock, Busies
  <2>4. viewer[v].got # "an error"
    BY <1>1, <2>1, <2>3 DEF GotTrue
  <2>5. QED
    BY <2>1, <2>2, <2>3, <2>4 DEF CalmSlides
<1>2. viewer[v].got = "an error" => v \in faulty \cup entwined
  BY DEF PreviewsInv, GotTrue
<1>3. viewer[v].at \in Rendering => v \in Renderers
  BY DEF Renderers
<1>4. v \in Renderers \ entwined => StageTrue(v)
  BY DEF PreviewsInv, AloneTrue
<1>5. ASSUME NEW at \in Rendering, viewer' = [viewer EXCEPT ![v].at = at]
      PROVE  /\ viewer' = [viewer EXCEPT ![v].at = at, ![v].got = viewer[v].got]
             /\ viewer'[v].at = at /\ viewer'[v].got = viewer[v].got
             /\ Renderers' = Renderers \cup {v}
  <2>1. /\ viewer'[v].at = at /\ viewer'[v].got = viewer[v].got
        /\ \A w \in Viewers \ {v} : viewer'[w] = viewer[w]
    BY <1>0, <1>5 DEF ViewerRecords
  <2>2. viewer' = [viewer EXCEPT ![v].at = at, ![v].got = viewer[v].got]
    BY <1>0, <1>5 DEF ViewerRecords
  <2>3. QED
    BY <2>1, <2>2 DEF Renderers
<1>6. CASE StartRender(v)
  <2>1. /\ viewer[v].at = "locked" /\ viewer' = [viewer EXCEPT ![v].at = "opens"]
        /\ work' = IF work = "none" THEN "dir" ELSE work
        /\ entwined' = IF Renderers = {} THEN entwined ELSE entwined \cup Renderers \cup {v}
        /\ lockOf' = lockOf /\ lock' = lock /\ slides' = slides /\ manifest' = manifest /\ faulty' = faulty
    BY <1>6 DEF StartRender, ViewerAt, ToState
  <2>2. "opens" \in Rendering
    BY DEF Rendering
  <2>3. faulty = {} => Renderers = {}
    <3>1. faulty = {} => \A w \in Viewers : viewer[w].at \in Rendering => w = v
      BY <1>1, <2>1
    <3>2. viewer[v].at \notin Rendering
      BY <2>1 DEF Rendering
    <3>3. QED
      BY <3>1, <3>2 DEF Renderers
  <2>4. StageTrue(v)'
    <3>1. Needs["opens"] = {"dir", "source", "pdf"}
      BY DEF Needs
    <3>a. work' \in {"dir", "source", "pdf"}
      BY <2>1 DEF PreviewsInv, PreviewTypes
    <3>2. QED
      BY <1>5, <2>1, <2>2, <3>1, <3>a DEF StageTrue
  <2>5. work' \in {"none", "dir", "source", "pdf"}
    BY <2>1 DEF PreviewsInv, PreviewTypes
  <2>6. QED
    BY <1>1, <1>2, <1>5, <2>1, <2>2, <2>3, <2>4, <2>5, RenderGoesOn
<1>7. CASE Materialize(v)
  <2>1. /\ viewer[v].at = "opens" /\ viewer' = [viewer EXCEPT ![v].at = "converts"] /\ work' = "source"
        /\ UNCHANGED <<lockOf, lock, slides, manifest, faulty, entwined>>
    BY <1>7 DEF Materialize, ViewerAt, ToState
  <2>2. "opens" \in Rendering /\ "converts" \in Rendering
    BY DEF Rendering
  <2>3. StageTrue(v)'
    <3>1. Needs["converts"] = {"source", "pdf"}
      BY DEF Needs
    <3>2. QED
      BY <1>5, <2>1, <2>2, <3>1 DEF StageTrue
  <2>4. QED
    BY <1>1, <1>2, <1>3, <1>5, <2>1, <2>2, <2>3, RenderGoesOn
<1>8. CASE ConvertToPdf(v)
  <2>1. /\ viewer[v].at = "converts" /\ viewer' = [viewer EXCEPT ![v].at = "draws"] /\ work' = "pdf"
        /\ UNCHANGED <<lockOf, lock, slides, manifest, faulty, entwined>>
    BY <1>8 DEF ConvertToPdf, ViewerAt, ToState
  <2>2. "converts" \in Rendering /\ "draws" \in Rendering
    BY DEF Rendering
  <2>3. StageTrue(v)'
    <3>1. Needs["draws"] = {"pdf"}
      BY DEF Needs
    <3>2. QED
      BY <1>5, <2>1, <2>2, <3>1 DEF StageTrue
  <2>4. QED
    BY <1>1, <1>2, <1>3, <1>5, <2>1, <2>2, <2>3, RenderGoesOn
<1>9. work \in {"none", "dir", "source", "pdf"}
  BY DEF PreviewsInv, PreviewTypes
<1>10. CASE DrawSlides(v)
  <2>1. /\ viewer[v].at = "draws" /\ viewer' = [viewer EXCEPT ![v].at = "drawing"] /\ slides' = "partial"
        /\ UNCHANGED <<lockOf, lock, work, manifest, faulty, entwined>>
    BY <1>10 DEF DrawSlides, ViewerAt, ToState
  <2>2. "draws" \in Rendering /\ "drawing" \in Rendering
    BY DEF Rendering
  <2>3. StageTrue(v)'
    BY <1>5, <2>1, <2>2 DEF StageTrue
  <2>4. QED
    BY <1>1, <1>2, <1>3, <1>5, <1>9, <2>1, <2>2, <2>3, RenderGoesOn
<1>11. CASE SlidesDrawn(v)
  <2>1. /\ viewer[v].at = "drawing" /\ viewer' = [viewer EXCEPT ![v].at = "writes"]
        /\ slides' = IF \E w \in Viewers \ {v} : viewer[w].at = "drawing" THEN "partial" ELSE "whole"
        /\ UNCHANGED <<lockOf, lock, work, manifest, faulty, entwined>>
    BY <1>11 DEF SlidesDrawn, ViewerAt, ToState
  <2>2. "drawing" \in Rendering /\ "writes" \in Rendering
    BY DEF Rendering
  <2>3. StageTrue(v)'
    BY <1>5, <2>1, <2>2 DEF StageTrue
  <2>4. faulty = {} => slides' = "whole"
    BY <1>1, <2>1, <2>2
  <2>5. QED
    BY <1>1, <1>2, <1>3, <1>5, <1>9, <2>1, <2>2, <2>3, <2>4, RenderGoesOn
<1>12. CASE WriteManifest(v)
  <2>1. UNCHANGED <<lockOf, lock, work, slides, faulty, entwined>>
    BY <1>12 DEF WriteManifest
  <2>2. {"writes", "writing", "clears"} \subseteq Rendering
    BY DEF Rendering
  <2>3. CASE viewer[v].at = "writes" /\ viewer' = [viewer EXCEPT ![v].at = "writing"] /\ manifest' = "torn"
    <3>1. v \notin entwined => StageTrue(v)'
      BY <1>3, <1>4, <1>5, <2>1, <2>2, <2>3 DEF StageTrue
    <3>2. QED
      BY <1>1, <1>2, <1>3, <1>5, <1>9, <2>1, <2>2, <2>3, <3>1, RenderGoesOn
  <2>4. CASE viewer[v].at = "writing" /\ viewer' = [viewer EXCEPT ![v].at = "clears"] /\ manifest' = "whole"
    <3>1. v \notin entwined => StageTrue(v)'
      BY <1>3, <1>4, <1>5, <2>1, <2>2, <2>4 DEF StageTrue, Cached
    <3>2. QED
      BY <1>1, <1>2, <1>3, <1>5, <1>9, <2>1, <2>2, <2>4, <3>1, RenderGoesOn
  <2>5. QED
    BY <1>12, <2>3, <2>4 DEF WriteManifest, ViewerAt, ToState
<1>13. CASE RenderFails(v)
  <2>1. /\ viewer[v].at \in {"opens", "converts", "draws", "drawing"}
        /\ viewer' = [viewer EXCEPT ![v].at = "clears", ![v].got = "an error"]
        /\ faulty' = IF viewer[v].at # "drawing" /\ work \notin Needs[viewer[v].at] THEN faulty ELSE faulty \cup {v}
        /\ UNCHANGED <<lockOf, lock, work, slides, manifest, entwined>>
    BY <1>13 DEF RenderFails
  <2>2. {"opens", "converts", "draws", "drawing", "clears"} \subseteq Rendering
    BY DEF Rendering
  <2>3. v \in faulty' \cup entwined
    BY <1>3, <1>4, <2>1, <2>2 DEF StageTrue
  <2>4. faulty' # {}
    <3>1. faulty = {} => entwined = {}
      BY <1>1, <2>1, <2>2
    <3>2. QED
      BY <2>1, <2>3, <3>1
  <2>5. viewer'[v].at = "clears" /\ viewer'[v].got = "an error"
    BY <1>0, <2>1 DEF ViewerRecords
  <2>6. StageTrue(v)'
    BY <2>5 DEF StageTrue
  <2>7. QED
    BY <1>3, <1>9, <2>1, <2>2, <2>3, <2>4, <2>6, RenderGoesOn
<1>14. QED
  BY <1>6, <1>7, <1>8, <1>10, <1>11, <1>12, <1>13

\* rmtree of the shared directory, and the lock that leaves the table.
LEMMA EndsKeep ==
    ASSUME PreviewsInv, NEW v \in Viewers, EndRender(v)
    PROVE  PreviewsInv'
<1> DEFINE l == viewer[v].lock
<1>0. PreviewTypes /\ viewer \in [Viewers -> ViewerRecords] /\ lock \in Seq(LockRecords)
  BY DEF PreviewsInv, PreviewTypes
<1>1. PICK shown : /\ shown = IF viewer[v].got = "an error" \/ ~Cached THEN "an error" ELSE What
                 /\ viewer' = [viewer EXCEPT ![v] = [at |-> "over", lock |-> l, got |-> shown]]
  BY DEF EndRender, Answers
<1>2. /\ viewer[v].at = "clears" /\ work' = "none" /\ lock' = [lock EXCEPT ![l].by = {}] /\ lockOf' = 0
      /\ UNCHANGED <<slides, manifest, faulty, entwined>>
  BY DEF EndRender, ViewerAt, GivesBack
<1>3. \A w \in Viewers \ {v} : viewer'[w] = viewer[w]
  BY <1>0, <1>1
<1>4. viewer'[v] = [at |-> "over", lock |-> l, got |-> shown]
  BY <1>0, <1>1
<1>5. /\ v \in Renderers /\ v \in Busies /\ "clears" \in Rendering
      /\ "over" \notin Rendering \cup {"queues", "locked"}
  BY <1>2 DEF Renderers, Busies, Rendering
<1>6. l \in 1..Len(lock) /\ l \in Nat
  BY <1>0, <1>2, <1>5 DEF PreviewTypes
<1>7. Renderers' = Renderers \ {v} /\ Busies' = Busies \ {v}
  <2>1. viewer'[v].at = "over"
    BY <1>4
  <2>2. QED
    BY <1>3, <1>5, <2>1 DEF Renderers, Busies
<1>8. lock' \in Seq(LockRecords) /\ Len(lock') = Len(lock)
  <2>1. lock[l] \in LockRecords
    BY <1>0, <1>6, ElementOfSeq
  <2>2. [lock[l] EXCEPT !.by = {}] \in LockRecords
    BY <2>1 DEF LockRecords
  <2>3. lock' = [lock EXCEPT ![l] = [lock[l] EXCEPT !.by = {}]]
    BY <1>2
  <2>4. QED
    BY <1>0, <1>6, <2>2, <2>3, SequenceUpdated
<1>9. shown \in {"an error", "slides", "broken slides"} /\ (shown = "an error" <=> viewer[v].got = "an error" \/ ~Cached)
  BY <1>1 DEF What
<1> HIDE DEF l
<1>10. PreviewTypes'
  <2>1. viewer' \in [Viewers -> ViewerRecords]
    BY <1>0, <1>1, <1>6, <1>9 DEF ViewerRecords
  <2>2. ASSUME NEW w \in Viewers, viewer'[w].at \in Rendering \cup {"queues", "locked"} PROVE viewer'[w].lock \in 1..Len(lock')
    <3>1. viewer'[v].at = "over"
      BY <1>4
    <3>2. viewer'[w] = viewer[w]
      BY <1>3, <1>5, <2>2, <3>1
    <3>3. QED
      BY <1>0, <1>8, <2>2, <3>2 DEF PreviewTypes
  <2>3. lockOf' \in 0..Len(lock')
    BY <1>2, <1>8
  <2>4. QED
    BY <1>2, <1>8, <2>1, <2>2, <2>3 DEF PreviewTypes
<1>11. AloneTrue'
  <2>1. SUFFICES ASSUME NEW w \in Renderers' \ entwined' PROVE FALSE
    BY DEF AloneTrue
  <2>2. w \in Renderers \ entwined /\ w # v
    BY <1>2, <1>7, <2>1
  <2>3. Renderers = {w}
    BY <2>2 DEF PreviewsInv, AloneTrue
  <2>4. QED
    BY <1>5, <2>2, <2>3
<1>12. v \notin faulty \cup entwined => viewer[v].got # "an error" /\ Cached
  BY <1>2, <1>5 DEF PreviewsInv, AloneTrue, GotTrue, StageTrue
<1>13. GotTrue'
  <2>1. viewer'[v].got = shown
    BY <1>4
  <2>2. viewer'[v].got = "an error" => v \in faulty \cup entwined
    BY <1>9, <1>12, <2>1
  <2>3. QED
    BY <1>2, <1>3, <2>2 DEF PreviewsInv, GotTrue
<1>14. ASSUME faulty = {} PROVE Calm'
  <2>1. CalmLock /\ CalmSlides
    BY <1>14 DEF PreviewsInv, Calm
  <2>2. Busies' = {} /\ entwined = {}
    BY <1>5, <1>7, <2>1 DEF CalmLock
  <2>3. Cached
    BY <1>12, <1>14, <2>2
  <2>4. Cached' = Cached
    BY <1>2 DEF Cached
  <2>5. Len(lock') <= 1 /\ lock' # <<>>
    <3>1. Len(lock) <= 1 /\ Len(lock) \in Nat
      BY <1>0, <2>1, LockFacts DEF CalmLock
    <3>2. Len(lock') = 1
      BY <1>6, <1>8, <3>1
    <3>3. QED
      BY <1>6, <1>8, <3>2, SequenceNonempty
  <2>6. CalmLock'
    BY <1>2, <2>2, <2>3, <2>4, <2>5 DEF CalmLock
  <2>7. shown # "broken slides"
    <3>1. slides = "whole"
      BY <2>1, <2>3 DEF CalmSlides, Cached
    <3>2. What = "slides"
      BY <3>1 DEF What
    <3>3. QED
      BY <1>1, <3>2
  <2>8. viewer'[v].got = shown
    BY <1>4
  <2>9. \A w \in Viewers : viewer'[w].got # "broken slides"
    BY <1>3, <2>1, <2>7, <2>8 DEF CalmSlides
  <2>10. CalmSlides'
    BY <1>2, <2>1, <2>2, <2>9 DEF CalmSlides
  <2>11. QED
    BY <2>6, <2>10 DEF Calm
<1>15. QED
  BY <1>2, <1>10, <1>11, <1>13, <1>14 DEF PreviewsInv

LEMMA PreviewsStep == PreviewsInv /\ [PreviewsNext]_previewVars => PreviewsInv'
<1>0. SUFFICES ASSUME PreviewsInv, [PreviewsNext]_previewVars PROVE PreviewsInv'
  OBVIOUS
<1>1. CASE UNCHANGED previewVars
  BY <1>0, <1>1
  DEF previewVars, PreviewsInv, PreviewTypes, AloneTrue, StageTrue, GotTrue, Calm, CalmLock, CalmSlides,
                    Cached, Renderers, Busies
<1>2. CASE PreviewsNext
  BY <1>0, <1>2, AsksKeep, AcquiresKeep, RendersKeep, EndsKeep DEF PreviewsNext
<1>3. QED
  BY <1>0, <1>1, <1>2

\* Artifacts and previews, for any number of calls, turns and requests: results name artifacts
\* of their turn, rows come from announcements and stay away once deleted (executor.py,
\* artifacts/manager.py), and what a request for a preview sees and why it fails
\* (artifact_previews.py).
THEOREM ArtifactsTrue == FilesSpec /\ PreviewsSpec => []ArtifactsShown
<1>1. FilesSpec => []FilesTrue
  BY FilesStart, FilesStep, FilesInvShows, PTL DEF FilesSpec
<1>2. PreviewsInv => PreviewsWhole
  BY DEF PreviewsInv, GotTrue, Calm, CalmLock, CalmSlides, PreviewsWhole
<1>3. PreviewsSpec => []PreviewsWhole
  BY <1>2, PreviewsStart, PreviewsStep, PTL DEF PreviewsSpec
<1>4. FilesTrue /\ PreviewsWhole => ArtifactsShown
  BY DEF ArtifactsShown
<1>5. QED
  BY <1>1, <1>3, <1>4, PTL

-----------------------------------------------------------------------------
(* The letters of a sequence that are in a set                             *)

AmongStep(s, T, F, i) == IF i = 0 THEN <<>> ELSE IF s[i] \in T THEN Append(F[i - 1], s[i]) ELSE F[i - 1]
IsTable(s, T, n, F) == F = [i \in 0..n |-> AmongStep(s, T, F, i)]
TableOf(s, T) == CHOOSE F : IsTable(s, T, Len(s), F)

LEMMA AmongIs == \A s, T : Among(s, T) = TableOf(s, T)[Len(s)]
BY DEF Among, TableOf, IsTable, AmongStep

LEMMA TableAt ==
    ASSUME NEW s, NEW T, NEW n \in Nat, NEW F, IsTable(s, T, n, F)
    PROVE  /\ F[0] = <<>>
           /\ \A i \in 1..n : F[i] = IF s[i] \in T THEN Append(F[i - 1], s[i]) ELSE F[i - 1]
<1>1. \A i \in 0..n : F[i] = AmongStep(s, T, F, i)
  BY DEF IsTable
<1> QED
  BY <1>1 DEF AmongStep

LEMMA TableGrows ==
    ASSUME NEW s, NEW T, NEW n \in Nat, NEW F, IsTable(s, T, n, F)
    PROVE  \E G : IsTable(s, T, n + 1, G)
<1> DEFINE G == [i \in 0..n + 1 |-> IF i = n + 1 THEN AmongStep(s, T, F, i) ELSE F[i]]
<1>1. ASSUME NEW i \in 0..n + 1 PROVE G[i] = AmongStep(s, T, G, i)
  <2>1. CASE i = 0
    <3>1. F[0] = <<>>
      BY TableAt, ZenonT(30)
    <3>2. 0 # n + 1 /\ 0 \in 0..n + 1
      OBVIOUS
    <3>3. G[0] = F[0]
      BY <3>2
    <3> HIDE DEF G
    <3> QED
      BY <2>1, <3>1, <3>3 DEF AmongStep
  <2>2. CASE i = n + 1
    <3>1. n \in 0..n + 1 /\ n # n + 1 /\ i - 1 = n /\ i # 0
      BY <2>2
    <3>2. G[i - 1] = F[i - 1]
      BY <3>1
    <3> HIDE DEF G
    <3>3. AmongStep(s, T, G, i) = AmongStep(s, T, F, i)
      BY <3>2, <3>1 DEF AmongStep
    <3> QED
      BY <3>3, <2>2 DEF G
  <2>3. CASE i \in 1..n
    <3>1. i \in 0..n + 1 /\ i - 1 \in 0..n + 1 /\ i # n + 1 /\ i - 1 # n + 1 /\ i # 0
      BY <2>3
    <3>2. G[i] = F[i] /\ G[i - 1] = F[i - 1]
      BY <3>1
    <3> HIDE DEF G
    <3> QED
      BY <3>1, <3>2, <2>3, TableAt DEF AmongStep
  <2> QED
    BY <2>1, <2>2, <2>3
<1>2. G = [i \in 0..n + 1 |-> AmongStep(s, T, G, i)]
  <2>1. DOMAIN G = 0..n + 1 /\ G = [i \in 0..n + 1 |-> G[i]]
    OBVIOUS
  <2> HIDE DEF G
  <2> QED
    BY <1>1, <2>1
<1> QED
  BY <1>2 DEF IsTable

LEMMA TableExists ==
    ASSUME NEW s, NEW T, NEW n \in Nat
    PROVE  \E F : IsTable(s, T, n, F)
<1> DEFINE Lacking == {k \in Nat : ~\E F : IsTable(s, T, k, F)}
<1>1. SUFFICES Lacking = {}
  OBVIOUS
<1>2. SUFFICES ASSUME Lacking # {} PROVE FALSE
  OBVIOUS
<1>3. PICK k \in Lacking : \A j \in Lacking : k <= j
  BY <1>2, LeastNumber
<1>4. CASE k = 0
  <2> DEFINE F == [i \in 0..0 |-> <<>>]
  <2>1. F = [i \in 0..0 |-> AmongStep(s, T, F, i)]
    BY DEF AmongStep
  <2> QED
    BY <1>4, <2>1 DEF IsTable
<1>5. CASE k # 0
  <2>1. k - 1 \in Nat /\ k - 1 \notin Lacking /\ (k - 1) + 1 = k
    BY <1>3, <1>5
  <2>2. PICK F : IsTable(s, T, k - 1, F)
    BY <2>1
  <2>3. \E G : IsTable(s, T, (k - 1) + 1, G)
    BY <2>1, <2>2, TableGrows
  <2> QED
    BY <2>1, <2>3
<1> QED
  BY <1>4, <1>5

\* Two tables agree as far as the sequences do.
LEMMA TableAgrees ==
    ASSUME NEW s, NEW t, NEW T, NEW n \in Nat, NEW m \in Nat, NEW F, NEW G,
           IsTable(s, T, n, F), IsTable(t, T, m, G), n <= m, \A i \in 1..n : s[i] = t[i]
    PROVE  \A i \in 0..n : F[i] = G[i]
<1> DEFINE Apart == {i \in 0..n : F[i] # G[i]}
<1>1. SUFFICES ASSUME Apart # {} PROVE FALSE
  OBVIOUS
<1>2. Apart \in SUBSET Nat
  OBVIOUS
<1>3. PICK i \in Apart : \A j \in Apart : i <= j
  BY <1>1, <1>2, LeastNumber
<1>6. F[0] = <<>> /\ \A j \in 1..n : F[j] = IF s[j] \in T THEN Append(F[j - 1], s[j]) ELSE F[j - 1]
  BY TableAt
<1>7. G[0] = <<>> /\ \A j \in 1..m : G[j] = IF t[j] \in T THEN Append(G[j - 1], t[j]) ELSE G[j - 1]
  BY TableAt
<1>4. CASE i = 0
  BY <1>3, <1>4, <1>6, <1>7
<1>5. CASE i # 0
  <2>1. i \in 1..n /\ i \in 1..m /\ i - 1 \in 0..n
    BY <1>5
  <2>2. i - 1 \notin Apart
    BY <1>3, <2>1
  <2>3. F[i - 1] = G[i - 1]
    BY <2>1, <2>2
  <2>4. F[i] = IF s[i] \in T THEN Append(F[i - 1], s[i]) ELSE F[i - 1]
    BY <2>1, <1>6
  <2>5. G[i] = IF t[i] \in T THEN Append(G[i - 1], t[i]) ELSE G[i - 1]
    BY <2>1, <1>7
  <2> QED
    BY <2>1, <2>3, <2>4, <2>5, <1>3
<1> QED
  BY <1>4, <1>5

LEMMA AmongEmpty == \A T : Among(<<>>, T) = <<>>
<1>1. TAKE T
<1>2. PICK e : e = <<>>
  OBVIOUS
<1>3. Len(e) = 0
  BY <1>2
<1>4. IsTable(e, T, 0, TableOf(e, T))
  BY <1>3, TableExists DEF TableOf
<1>5. TableOf(e, T)[0] = <<>>
  BY <1>4, TableAt
<1> QED
  BY <1>2, <1>3, <1>5, AmongIs

LEMMA AmongAppend ==
    ASSUME NEW A, NEW s \in Seq(A), NEW e \in A, NEW T
    PROVE  Among(Append(s, e), T) = IF e \in T THEN Append(Among(s, T), e) ELSE Among(s, T)
<1>1. PICK t : t = Append(s, e)
  OBVIOUS
<1>2. /\ Len(s) \in Nat /\ Len(t) = Len(s) + 1 /\ Len(t) \in Nat
      /\ t[Len(t)] = e /\ \A i \in 1..Len(s) : s[i] = t[i]
  BY <1>1
<1>3. IsTable(s, T, Len(s), TableOf(s, T)) /\ IsTable(t, T, Len(t), TableOf(t, T))
  BY <1>2, TableExists DEF TableOf
<1>4. TableOf(s, T)[Len(s)] = TableOf(t, T)[Len(s)]
  <2>1. \A i \in 0..Len(s) : TableOf(s, T)[i] = TableOf(t, T)[i]
    <3>1. PICK n \in Nat, m \in Nat : n = Len(s) /\ m = Len(t)
      BY <1>2
    <3>2. PICK F, G : F = TableOf(s, T) /\ G = TableOf(t, T)
      OBVIOUS
    <3>3. IsTable(s, T, n, F) /\ IsTable(t, T, m, G) /\ n <= m /\ \A i \in 1..n : s[i] = t[i]
      BY <1>2, <1>3, <3>1, <3>2
    <3>4. \A i \in 0..n : F[i] = G[i]
      BY <3>3, TableAgrees
    <3> QED
      BY <3>1, <3>2, <3>4
  <2> QED
    BY <2>1, <1>2
<1>5. TableOf(t, T)[Len(t)] = IF t[Len(t)] \in T THEN Append(TableOf(t, T)[Len(t) - 1], t[Len(t)])
                                                 ELSE TableOf(t, T)[Len(t) - 1]
  BY <1>2, <1>3, TableAt
<1>6. Len(t) - 1 = Len(s)
  BY <1>2
<1> QED
  BY <1>1, <1>2, <1>4, <1>5, <1>6, AmongIs

\* A sequence that is not empty is one with an element appended.
LEMMA Longer ==
    ASSUME NEW A, NEW s \in Seq(A), s # <<>>
    PROVE  \E f \in Seq(A), e \in A : s = Append(f, e) /\ Len(f) + 1 = Len(s)
<1>1. Len(s) \in Nat \ {0}
  OBVIOUS
<1> DEFINE f == SubSeq(s, 1, Len(s) - 1)
<1>2. f \in Seq(A) /\ Len(f) = Len(s) - 1 /\ \A i \in 1..Len(s) - 1 : f[i] = s[i]
  <2>1. \A i \in 1..Len(s) - 1 : s[i] \in A
    <3>1. \A i \in 1..Len(s) : s[i] \in A
      BY ElementOfSeq
    <3> QED
      BY <1>1, <3>1
  <2>2. Len(s) - 1 \in Nat /\ 1 \in Int /\ (1 <= Len(s) - 1 \/ Len(s) - 1 = 0)
    <3>1. PICK n \in Nat \ {0} : n = Len(s)
      BY <1>1
    <3>2. n - 1 \in Nat /\ (1 <= n - 1 \/ n - 1 = 0)
      OBVIOUS
    <3> QED
      BY <3>1, <3>2
  <2>3. f \in Seq(A) /\ Len(f) = Len(s) - 1
    BY <2>1, <2>2, SubSeqProperties
  <2> QED
    BY <2>1, <2>2, <2>3, SubSeqProperties
<1>3. s[Len(s)] \in A
  BY <1>1
<1>4. PICK g \in Seq(A) : g = f
  BY <1>2
<1>5. s = Append(g, s[Len(s)])
  <2>1. Append(g, s[Len(s)]) \in Seq(A) /\ Len(Append(g, s[Len(s)])) = Len(s)
    BY <1>1, <1>2, <1>3, <1>4
  <2>2. ASSUME NEW i \in 1..Len(s) PROVE Append(g, s[Len(s)])[i] = s[i]
    BY <1>1, <1>2, <1>3, <1>4
  <2> QED
    BY <2>1, <2>2, SeqEqual
<1> QED
  BY <1>1, <1>2, <1>3, <1>4, <1>5

\* Every sequence has a property that the empty one has and that appending keeps: said of a
\* set of sequences, and of those that lack the property.
LEMMA SequencesAll ==
    ASSUME NEW A, NEW Good, <<>> \in Good,
           \A f \in Seq(A), e \in A : f \in Good => Append(f, e) \in Good
    PROVE  Seq(A) \subseteq Good
<1> DEFINE Bad == {n \in Nat : \E s \in Seq(A) : s \notin Good /\ Len(s) = n}
<1>1. SUFFICES ASSUME NEW s \in Seq(A), s \notin Good PROVE FALSE
  OBVIOUS
<1>2. Len(s) \in Bad
  BY <1>1
<1>3. PICK n \in Bad : \A m \in Bad : n <= m
  <2>1. Bad \in SUBSET Nat /\ Bad # {}
    BY <1>2
  <2> HIDE DEF Bad
  <2> QED
    BY <2>1, LeastNumber
<1>4. PICK t \in Seq(A) : t \notin Good /\ Len(t) = n
  BY <1>3
<1>5. t # <<>>
  BY <1>4
<1>6. PICK f \in Seq(A), e \in A : t = Append(f, e) /\ Len(f) + 1 = Len(t)
  BY <1>4, <1>5, Longer
<1>7. f \notin Good
  BY <1>4, <1>6
<1>8. Len(f) \in Bad /\ Len(f) < n
  BY <1>4, <1>6, <1>7
<1> QED
  BY <1>3, <1>8

LEMMA AmongTyped ==
    ASSUME NEW A, NEW T
    PROVE  \A s \in Seq(A) : Among(s, T) \in Seq(A)
<1> DEFINE Good == {s \in Seq(A) : Among(s, T) \in Seq(A)}
<1>1. <<>> \in Good
  <2>1. PICK e \in Seq(A) : e = <<>>
    BY EmptySeq
  <2> QED
    BY <2>1, AmongEmpty
<1>2. ASSUME NEW f \in Seq(A), NEW e \in A, f \in Good PROVE Append(f, e) \in Good
  <2>1. PICK x \in Seq(A) : x = Among(f, T)
    BY <1>2
  <2>2. Append(f, e) \in Seq(A) /\ Append(x, e) \in Seq(A)
    BY AppendProperties
  <2>3. Among(Append(f, e), T) = IF e \in T THEN Append(x, e) ELSE x
    BY <2>1, AmongAppend
  <2> QED
    BY <2>2, <2>3
<1>3. Seq(A) \subseteq Good
  <2> HIDE DEF Good
  <2> QED
    BY <1>1, <1>2, SequencesAll
<1> QED
  BY <1>3

LEMMA AppendLast ==
    ASSUME NEW A, NEW s \in Seq(A), NEW t \in Seq(A), NEW e \in A
    PROVE  s \o Append(t, e) = Append(s \o t, e)
OBVIOUS

LEMMA AmongConcat ==
    ASSUME NEW A, NEW T, NEW s \in Seq(A)
    PROVE  \A t \in Seq(A) : Among(s \o t, T) = Among(s, T) \o Among(t, T)
<1> DEFINE Good == {t \in Seq(A) : Among(s \o t, T) = Among(s, T) \o Among(t, T)}
<1>1. <<>> \in Good
  BY AmongEmpty, AmongTyped, ConcatEmptySeq, EmptySeq
<1>2. ASSUME NEW t \in Seq(A), NEW e \in A, t \in Good PROVE Append(t, e) \in Good
  <2>1. s \o Append(t, e) = Append(s \o t, e) /\ s \o t \in Seq(A) /\ Append(t, e) \in Seq(A)
    BY AppendLast, AppendProperties, ConcatProperties
  <2>2. Among(s \o Append(t, e), T) = IF e \in T THEN Append(Among(s \o t, T), e) ELSE Among(s \o t, T)
    BY <2>1, AmongAppend
  <2>3. Among(Append(t, e), T) = IF e \in T THEN Append(Among(t, T), e) ELSE Among(t, T)
    BY AmongAppend
  <2>4. Among(s \o t, T) = Among(s, T) \o Among(t, T)
    BY <1>2
  <2>5. PICK x \in Seq(A), y \in Seq(A) : x = Among(s, T) /\ y = Among(t, T)
    BY AmongTyped
  <2>6. x \o Append(y, e) = Append(x \o y, e)
    BY AppendLast
  <2>7. Among(s \o Append(t, e), T) = Among(s, T) \o Among(Append(t, e), T)
    BY <2>2, <2>3, <2>4, <2>5, <2>6
  <2> QED
    BY <2>1, <2>7
<1>3. Seq(A) \subseteq Good
  <2> HIDE DEF Good
  <2> QED
    BY <1>1, <1>2, SequencesAll
<1> QED
  BY <1>3

\* A sequence of which all is in the set, and one of which nothing is.
LEMMA AmongAll ==
    ASSUME NEW A, NEW T, A \subseteq T
    PROVE  \A s \in Seq(A) : Among(s, T) = s
<1> DEFINE Good == {s \in Seq(A) : Among(s, T) = s}
<1>1. <<>> \in Good
  BY AmongEmpty
<1>2. ASSUME NEW f \in Seq(A), NEW e \in A, f \in Good PROVE Append(f, e) \in Good
  BY <1>2, AmongAppend
<1>3. Seq(A) \subseteq Good
  <2> HIDE DEF Good
  <2> QED
    BY <1>1, <1>2, SequencesAll
<1> QED
  BY <1>3

LEMMA AmongNone ==
    ASSUME NEW A, NEW T, A \cap T = {}
    PROVE  \A s \in Seq(A) : Among(s, T) = <<>>
<1> DEFINE Good == {s \in Seq(A) : Among(s, T) = <<>>}
<1>1. <<>> \in Good
  BY AmongEmpty
<1>2. ASSUME NEW f \in Seq(A), NEW e \in A, f \in Good PROVE Append(f, e) \in Good
  <2>1. e \notin T
    OBVIOUS
  <2> QED
    BY <1>2, <2>1, AmongAppend
<1>3. Seq(A) \subseteq Good
  <2> HIDE DEF Good
  <2> QED
    BY <1>1, <1>2, SequencesAll
<1> QED
  BY <1>3

LEMMA AmongAmong ==
    ASSUME NEW A, NEW T, NEW U
    PROVE  \A s \in Seq(A) : Among(Among(s, T), U) = Among(s, T \cap U)
<1> DEFINE Good == {s \in Seq(A) : Among(Among(s, T), U) = Among(s, T \cap U)}
<1>1. <<>> \in Good
  BY AmongEmpty
<1>2. ASSUME NEW f \in Seq(A), NEW e \in A, f \in Good PROVE Append(f, e) \in Good
  <2>1. PICK x \in Seq(A) : x = Among(f, T)
    BY AmongTyped
  <2>2. Among(Append(f, e), T) = IF e \in T THEN Append(x, e) ELSE x
    BY <2>1, AmongAppend
  <2>3. Among(Append(x, e), U) = IF e \in U THEN Append(Among(x, U), e) ELSE Among(x, U)
    BY AmongAppend
  <2>4. Among(Append(f, e), T \cap U) = IF e \in T \cap U THEN Append(Among(f, T \cap U), e)
                                                           ELSE Among(f, T \cap U)
    BY AmongAppend
  <2>5. Among(x, U) = Among(f, T \cap U) /\ Append(f, e) \in Seq(A)
    BY <1>2, <2>1
  <2>6. CASE e \in T
    <3>1. Among(Append(f, e), T) = Append(x, e) /\ (e \in T \cap U <=> e \in U)
      BY <2>2, <2>6
    <3>2. Among(Among(Append(f, e), T), U) = Among(Append(f, e), T \cap U)
      BY <3>1, <2>3, <2>4, <2>5
    <3> QED
      BY <3>2, <2>5
  <2>7. CASE e \notin T
    BY <2>2, <2>4, <2>5, <2>7
  <2> QED
    BY <2>6, <2>7
<1>3. Seq(A) \subseteq Good
  <2> HIDE DEF Good
  <2> QED
    BY <1>1, <1>2, SequencesAll
<1> QED
  BY <1>3

LEMMA AmongIn ==
    ASSUME NEW A, NEW T
    PROVE  \A s \in Seq(A) : Among(s, T) \in Seq(A \cap T)
<1> DEFINE Good == {s \in Seq(A) : Among(s, T) \in Seq(A \cap T)}
<1>1. <<>> \in Good
  <2>1. PICK e \in Seq(A) : e = <<>>
    BY EmptySeq
  <2>2. e \in Seq(A \cap T)
    BY <2>1, EmptySeq
  <2> QED
    BY <2>1, <2>2, AmongEmpty
<1>2. ASSUME NEW f \in Seq(A), NEW e \in A, f \in Good PROVE Append(f, e) \in Good
  <2>1. PICK x \in Seq(A \cap T) : x = Among(f, T)
    BY <1>2
  <2>2. Append(f, e) \in Seq(A) /\ (e \in T => Append(x, e) \in Seq(A \cap T))
    BY AppendProperties
  <2>3. Among(Append(f, e), T) = IF e \in T THEN Append(x, e) ELSE x
    BY <2>1, AmongAppend
  <2> QED
    BY <2>2, <2>3
<1>3. Seq(A) \subseteq Good
  <2> HIDE DEF Good
  <2> QED
    BY <1>1, <1>2, SequencesAll
<1> QED
  BY <1>3

\* What is left of a sequence after its first c elements, when one is appended.
LEMMA RestAppend ==
    ASSUME NEW A, NEW s \in Seq(A), NEW e \in A, NEW c \in 0..Len(s)
    PROVE  /\ SubSeq(s, c + 1, Len(s)) \in Seq(A)
           /\ SubSeq(Append(s, e), c + 1, Len(s) + 1) = Append(SubSeq(s, c + 1, Len(s)), e)
<1>1. PICK n \in Nat : n = Len(s) /\ c \in 0..n
  OBVIOUS
<1>2. PICK t \in Seq(A) : t = Append(s, e)
  BY AppendProperties
<1>3. Len(t) = n + 1 /\ t[n + 1] = e /\ \A i \in 1..n : t[i] = s[i]
  BY <1>1, <1>2
<1>4. (\A i \in c + 1..n : s[i] \in A) /\ (\A i \in c + 1..n + 1 : t[i] \in A)
  <2>1. (\A i \in 1..n : s[i] \in A) /\ (\A i \in 1..n + 1 : t[i] \in A)
    BY <1>1, <1>3, ElementOfSeq
  <2> QED
    BY <2>1, <1>1
<1>p. PICK r, u, v : r = SubSeq(s, c + 1, n) /\ u = SubSeq(t, c + 1, n + 1) /\ v = Append(r, e)
  OBVIOUS
<1>5. r \in Seq(A) /\ Len(r) = n - c /\ \A i \in 1..n - c : r[i] = s[c + i]
  <2>1. c + 1 \in Int /\ n \in Int /\ n - (c + 1) + 1 = n - c /\ (c + 1 <= n \/ n - c = 0)
    BY <1>1
  <2>2. /\ r \in Seq(A)
        /\ Len(r) = IF c + 1 <= n THEN n - (c + 1) + 1 ELSE 0
        /\ \A i \in 1..n - (c + 1) + 1 : r[i] = s[c + 1 + i - 1]
    BY <1>4, <1>p, <2>1, SubSeqProperties
  <2>3. \A i \in 1..n - c : c + 1 + i - 1 = c + i
    BY <1>1
  <2>4. Len(r) = n - c
    BY <2>1, <2>2
  <2>5. \A i \in 1..n - c : r[i] = s[c + i]
    BY <2>1, <2>2, <2>3
  <2> QED
    BY <2>2, <2>4, <2>5
<1>6. u \in Seq(A) /\ Len(u) = n + 1 - c /\ \A i \in 1..n + 1 - c : u[i] = t[c + i]
  <2>1. c + 1 \in Int /\ n + 1 \in Int /\ n + 1 - (c + 1) + 1 = n + 1 - c /\ c + 1 <= n + 1
    BY <1>1
  <2>2. /\ u \in Seq(A)
        /\ Len(u) = IF c + 1 <= n + 1 THEN n + 1 - (c + 1) + 1 ELSE 0
        /\ \A i \in 1..n + 1 - (c + 1) + 1 : u[i] = t[c + 1 + i - 1]
    BY <1>4, <1>p, <2>1, SubSeqProperties
  <2>3. \A i \in 1..n + 1 - c : c + 1 + i - 1 = c + i
    BY <1>1
  <2>4. Len(u) = n + 1 - c
    BY <2>1, <2>2
  <2>5. \A i \in 1..n + 1 - c : u[i] = t[c + i]
    BY <2>1, <2>2, <2>3
  <2> QED
    BY <2>2, <2>4, <2>5
<1>7. v \in Seq(A) /\ Len(v) = n - c + 1 /\ v[n - c + 1] = e /\ \A i \in 1..n - c : v[i] = r[i]
  <2>1. r \in Seq(A) /\ Len(r) = n - c
    BY <1>5
  <2>2. /\ v \in Seq(A) /\ Len(v) = Len(r) + 1 /\ v[Len(r) + 1] = e
        /\ \A i \in 1..Len(r) : v[i] = r[i]
    BY <1>p, <2>1, AppendProperties
  <2> QED
    BY <2>1, <2>2
<1>8. u = v
  <2>1. Len(u) = Len(v)
    BY <1>1, <1>6, <1>7
  <2>2. ASSUME NEW i \in 1..Len(u) PROVE u[i] = v[i]
    <3>1. i \in 1..n + 1 - c /\ u[i] = t[c + i]
      BY <1>6
    <3>2. CASE i = n + 1 - c
      <4>1. c + i = n + 1 /\ i = n - c + 1
        BY <3>2, <1>1
      <4> QED
        BY <4>1, <3>1, <1>3, <1>7
    <3>3. CASE i # n + 1 - c
      <4>1. i \in 1..n - c /\ c + i \in 1..n
        <5>1. i \in Int /\ 1 <= i /\ i <= n - c /\ c \in Int /\ 0 <= c
          BY <3>1, <3>3, <1>1
        <5> QED
          BY <5>1, <1>1
      <4>2. t[c + i] = s[c + i]
        BY <4>1, <1>3
      <4>3. v[i] = r[i] /\ r[i] = s[c + i]
        BY <4>1, <1>5, <1>7
      <4> QED
        BY <4>2, <4>3, <3>1
    <3> QED
      BY <3>2, <3>3
  <2> QED
    BY <1>6, <1>7, <2>1, <2>2, SeqEqual
<1> QED
  BY <1>1, <1>2, <1>p, <1>5, <1>8

-----------------------------------------------------------------------------
(* Planner turns *)

WorkerRecords == [work : Works, at : {"runs", "cancelled", "over"}, resolved : BOOLEAN, known : BOOLEAN]

TeamTypes ==
    /\ scope \in Scopes
    /\ worker \in Seq(WorkerRecords) /\ DOMAIN born = Workers /\ \A a \in Workers : born[a] \in Nat \X Nat
    /\ epoch \in Nat \X Nat /\ allowance \in [limit : Nat, strict : BOOLEAN, nudges : Nat]
    /\ IsFiniteSet(DOMAIN agentOf) /\ waited \subseteq Workers /\ leftover \in BOOLEAN

\* No worker was born later than now; one that is not over is known; and but for an
\* interrupted cleanup whoever is known is of this turn.
BornTrue ==
    \A a \in Workers : /\ born[a][1] <= epoch[1]
                       /\ born[a][1] = epoch[1] => born[a][2] <= epoch[2]
                       /\ worker[a].at # "over" => worker[a].known
                       /\ worker[a].known /\ ~leftover => teamStage # "idle" /\ born[a][1] = epoch[1]

\* The letters there may be, and those of them that an agent is to get.
Ours == IF leftover THEN Workers ELSE {a \in Workers : born[a][1] = epoch[1]}
Mail == [from : Ours, to : Workers \cup {Everyone}, n : Nat]

MailTypes ==
    /\ letters \in Seq(Mail) /\ posted = Among(letters, To(Everyone))
    /\ DOMAIN got = Workers /\ \A a \in Workers : got[a] \in Seq(Mail)
    /\ DOMAIN mailbox \subseteq Workers /\ \A b \in DOMAIN mailbox : mailbox[b] \in Seq(Mail \cap To(b))
    /\ DOMAIN heard \subseteq Workers /\ \A a \in DOMAIN heard : heard[a] \in 0..Len(posted)

\* Between turns the bus is empty unless a cleanup was interrupted.
BusAtRest ==
    teamStage = "idle" /\ ~leftover =>
        letters = <<>> /\ DOMAIN mailbox = {} /\ DOMAIN heard = {} /\ \A a \in Workers : got[a] = <<>>

TeamInv == TeamTypes /\ BornTrue /\ MailTypes /\ BusAtRest /\ MailKept /\ PlanKept

LEMMA SeqFrom ==
    ASSUME NEW A, NEW n \in Nat, NEW f \in [1..n -> A]
    PROVE  f \in Seq(A) /\ Len(f) = n
OBVIOUS

LEMMA WorkersAre ==
    ASSUME TeamTypes
    PROVE  /\ Len(worker) \in Nat /\ Workers = 1..Len(worker)
           /\ \A a \in Workers : worker[a] \in WorkerRecords /\ a \in Nat /\ a # 0
<1>1. worker \in Seq(WorkerRecords)
  BY DEF TeamTypes
<1>2. Len(worker) \in Nat /\ DOMAIN worker = 1..Len(worker)
  BY <1>1
<1>3. \A a \in 1..Len(worker) : worker[a] \in WorkerRecords
  BY <1>1, ElementOfSeq
<1> QED
  BY <1>2, <1>3 DEF Workers

\* Workers that move on, and none that is added.
WorkersGoOn ==
    /\ worker' \in Seq(WorkerRecords) /\ Workers' = Workers
    /\ \A a \in Workers : /\ worker'[a].known = worker[a].known
                          /\ worker[a].resolved => worker'[a].resolved
                          /\ worker'[a].at = "runs" => worker[a].at = "runs"
                          /\ worker'[a].at # "over" => worker[a].at # "over"

LEMMA GoOnSame ==
    ASSUME TeamTypes, UNCHANGED worker
    PROVE  WorkersGoOn
BY DEF TeamTypes, WorkersGoOn, Workers

\* One worker of a step that changes some.
LEMMA GoOnMapped ==
    ASSUME TeamTypes, NEW new, worker' = [a \in Workers |-> new[a]],
           \A a \in Workers : /\ new[a] \in WorkerRecords /\ new[a].known = worker[a].known
                              /\ worker[a].resolved => new[a].resolved
                              /\ new[a].at = "runs" => worker[a].at = "runs"
                              /\ new[a].at # "over" => worker[a].at # "over"
    PROVE  WorkersGoOn
<1>1. PICK n \in Nat : n = Len(worker) /\ Workers = 1..n
  BY WorkersAre
<1>2. worker' \in [1..n -> WorkerRecords]
  BY <1>1
<1>3. worker' \in Seq(WorkerRecords) /\ DOMAIN worker' = Workers
  BY <1>1, <1>2, SeqFrom
<1>4. \A a \in Workers : worker'[a] = new[a]
  OBVIOUS
<1> QED
  BY <1>3, <1>4 DEF WorkersGoOn, Workers

\* The records of workers.
LEMMA WorkerChanged ==
    ASSUME NEW r \in WorkerRecords
    PROVE  /\ \A b \in BOOLEAN : LET t == [r EXCEPT !.resolved = b] IN
                /\ t \in WorkerRecords /\ t.known = r.known /\ t.resolved = b /\ t.at = r.at
           /\ LET t == [r EXCEPT !.at = "cancelled"] IN
                /\ t \in WorkerRecords /\ t.known = r.known /\ t.resolved = r.resolved /\ t.at = "cancelled"
           /\ \A b \in BOOLEAN : LET t == [r EXCEPT !.at = "over", !.resolved = b] IN
                /\ t \in WorkerRecords /\ t.known = r.known /\ t.resolved = b /\ t.at = "over"
           /\ LET t == [r EXCEPT !.resolved = TRUE, !.known = FALSE] IN
                /\ t \in WorkerRecords /\ t.known = FALSE /\ t.resolved = TRUE /\ t.at = r.at
           /\ r.known \in BOOLEAN /\ r.resolved \in BOOLEAN
BY DEF WorkerRecords

LEMMA ResolvesGoOn ==
    ASSUME TeamTypes, NEW ids, Resolves(ids)
    PROVE  WorkersGoOn /\ \A a \in ids \cap Workers : worker'[a].resolved
<1>1. PICK new : new = [a \in Workers |-> IF a \in ids THEN [worker[a] EXCEPT !.resolved = TRUE] ELSE worker[a]]
  OBVIOUS
<1>2. \A a \in Workers : worker[a] \in WorkerRecords
  BY WorkersAre
<1>3. worker' = new
  BY <1>1 DEF Resolves
<1>4. ASSUME NEW a \in Workers
      PROVE  /\ new[a] \in WorkerRecords /\ new[a].known = worker[a].known
             /\ worker[a].resolved => new[a].resolved
             /\ a \in ids => new[a].resolved
             /\ new[a].at = worker[a].at
  <2>1. new[a] = IF a \in ids THEN [worker[a] EXCEPT !.resolved = TRUE] ELSE worker[a]
    BY <1>1
  <2>2. PICK r \in WorkerRecords : r = worker[a]
    BY <1>2
  <2>3. PICK t : t = [r EXCEPT !.resolved = TRUE]
    OBVIOUS
  <2>4. t \in WorkerRecords /\ t.known = r.known /\ t.resolved = TRUE /\ t.at = r.at
    BY <2>3, WorkerChanged
  <2> QED
    BY <2>1, <2>2, <2>3, <2>4
<1>5. worker' = [a \in Workers |-> new[a]]
  BY <1>1, <1>3
<1>6. WorkersGoOn
  BY <1>4, <1>5, GoOnMapped
<1> QED
  BY <1>3, <1>4, <1>6

LEMMA CleansGoOn ==
    ASSUME TeamTypes, Cleans
    PROVE  WorkersGoOn
<1>1. PICK new : new = [a \in Workers |-> IF worker[a].at = "runs" THEN [worker[a] EXCEPT !.at = "cancelled"]
                                                                     ELSE worker[a]]
  OBVIOUS
<1>2. \A a \in Workers : worker[a] \in WorkerRecords
  BY WorkersAre
<1>3. worker' = new
  BY <1>1 DEF Cleans
<1>4. ASSUME NEW a \in Workers
      PROVE  /\ new[a] \in WorkerRecords /\ new[a].known = worker[a].known
             /\ worker[a].resolved => new[a].resolved
             /\ new[a].at # "runs"
             /\ new[a].at # "over" => worker[a].at # "over"
  <2>1. new[a] = IF worker[a].at = "runs" THEN [worker[a] EXCEPT !.at = "cancelled"] ELSE worker[a]
    BY <1>1
  <2>2. PICK r \in WorkerRecords : r = worker[a]
    BY <1>2
  <2>3. PICK t : t = [r EXCEPT !.at = "cancelled"]
    OBVIOUS
  <2>4. t \in WorkerRecords /\ t.known = r.known /\ t.resolved = r.resolved /\ t.at = "cancelled"
    BY <2>3, WorkerChanged
  <2> QED
    BY <2>1, <2>2, <2>3, <2>4
<1>5. worker' = [a \in Workers |-> new[a]]
  BY <1>1, <1>3
<1> QED
  BY <1>4, <1>5, GoOnMapped

LEMMA EndsGoOn ==
    ASSUME TeamTypes, NEW a \in Workers, NEW resolved \in BOOLEAN, WorkerEnds(a, resolved)
    PROVE  WorkersGoOn /\ worker'[a].at = "over"
<1>1. PICK r \in WorkerRecords : r = worker[a]
  BY WorkersAre
<1>b. PICK b \in BOOLEAN : b = (r.resolved \/ resolved)
  OBVIOUS
<1>2. PICK t : t = [r EXCEPT !.at = "over", !.resolved = b]
  OBVIOUS
<1>3. t \in WorkerRecords /\ t.known = r.known /\ t.resolved = b /\ t.at = "over" /\ (r.resolved => b)
  <2>1. t \in WorkerRecords /\ t.known = r.known /\ t.resolved = b /\ t.at = "over"
    BY <1>2 DEF WorkerRecords
  <2>2. r.resolved => b
    BY <1>b
  <2> QED
    BY <2>1, <2>2
<1>4. worker' = [worker EXCEPT ![a] = t]
  <2>1. PICK u : u = [worker[a] EXCEPT !.at = "over", !.resolved = worker[a].resolved \/ resolved]
    OBVIOUS
  <2>2. worker' = [worker EXCEPT ![a] = u]
    BY <2>1 DEF WorkerEnds
  <2>3. u = t
    BY <2>1, <1>1, <1>2, <1>b
  <2> QED
    BY <2>2, <2>3
<1>5. worker \in Seq(WorkerRecords) /\ DOMAIN worker = Workers /\ \A c \in Workers : worker[c] \in WorkerRecords
  BY WorkersAre DEF TeamTypes, Workers
<1>6. PICK new : new = [c \in Workers |-> IF c = a THEN t ELSE worker[c]]
  OBVIOUS
<1>7. worker' = [c \in Workers |-> new[c]]
  BY <1>4, <1>5, <1>6
<1>8. \A c \in Workers : new[c] = IF c = a THEN t ELSE worker[c]
  BY <1>6
<1>9. WorkersGoOn
  <2>1. ASSUME NEW c \in Workers
        PROVE  /\ new[c] \in WorkerRecords /\ new[c].known = worker[c].known
               /\ worker[c].resolved => new[c].resolved
               /\ new[c].at = "runs" => worker[c].at = "runs"
               /\ new[c].at # "over" => worker[c].at # "over"
    <3>1. CASE c = a
      BY <3>1, <1>1, <1>3, <1>8
    <3>2. CASE c # a
      BY <3>2, <1>5, <1>8
    <3> QED
      BY <3>1, <3>2
  <2> QED
    BY <1>7, <2>1, GoOnMapped
<1> QED
  BY <1>3, <1>4, <1>5, <1>9

TurnGoesOn ==
    /\ UNCHANGED <<scope, plan, agentOf, born, epoch, leftover>>
    /\ allowance' \in [limit : Nat, strict : BOOLEAN, nudges : Nat] /\ allowance'.limit = allowance.limit
    /\ teamStage' = "runs" => teamStage = "runs"
    /\ teamStage' = "idle" => teamStage = "idle"
    /\ \A a \in waited' : a \in waited \/ (a \in Workers /\ worker'[a].resolved)

\* A step within a turn that delegates nothing.
LEMMA PlanStill ==
    ASSUME TeamTypes, BornTrue, PlanKept, WorkersGoOn, TurnGoesOn
    PROVE  TeamTypes' /\ BornTrue' /\ PlanKept'
<1>1. TeamTypes'
  BY DEF TeamTypes, WorkersGoOn, TurnGoesOn
<1>2. BornTrue'
  <2>1. SUFFICES ASSUME NEW a \in Workers
                 PROVE  /\ born[a][1] <= epoch[1]
                        /\ born[a][1] = epoch[1] => born[a][2] <= epoch[2]
                        /\ worker'[a].at # "over" => worker'[a].known
                        /\ worker'[a].known /\ ~leftover => teamStage' # "idle" /\ born[a][1] = epoch[1]
    BY DEF BornTrue, WorkersGoOn, TurnGoesOn
  <2> QED
    BY DEF BornTrue, WorkersGoOn, TurnGoesOn
<1>3. Known' = Known
  BY DEF Known, WorkersGoOn
<1>4. ASSUME teamStage' = "runs"
      PROVE  /\ \A s \in DOMAIN agentOf : s \in DOMAIN plan /\ plan[s] # "planner_owned" /\ agentOf[s] \in Known
             /\ Cardinality({a \in Workers : born[a] = epoch}) <= Cardinality(DOMAIN agentOf)
             /\ Cardinality(DOMAIN agentOf) <= allowance.limit
             /\ leftover \/ \A s \in DOMAIN agentOf : born[agentOf[s]][1] = epoch[1]
             /\ \A a \in waited' : worker'[a].resolved
  <2>1. teamStage = "runs"
    BY <1>4 DEF TurnGoesOn
  <2>2. ASSUME NEW a \in waited' PROVE worker'[a].resolved
    <3>1. CASE a \in waited
      BY <2>1, <3>1 DEF PlanKept, TeamTypes, WorkersGoOn
    <3> QED
      BY <3>1, <2>2 DEF TurnGoesOn
  <2> QED
    BY <2>1, <2>2 DEF PlanKept
<1>5. PlanKept'
  BY <1>3, <1>4 DEF PlanKept, TurnGoesOn, WorkersGoOn
<1> QED
  BY <1>1, <1>2, <1>5

\* Workers born for a plan that has only begun.
LEMMA NoneBorn ==
    ASSUME TeamTypes, NEW now, \A a \in Workers : born[a] # now
    PROVE  Cardinality({a \in Workers : born[a] = now}) = 0
<1>1. {a \in Workers : born[a] = now} = {}
  OBVIOUS
<1> QED
  BY <1>1, FS_EmptySet

LEMMA PlanBegins ==
    ASSUME TeamTypes, BornTrue, UNCHANGED <<scope, worker, born, leftover>>,
           allowance' \in [limit : Nat, strict : BOOLEAN, nudges : Nat],
           epoch' \in Nat \X Nat, agentOf' = <<>>, waited' = {}, teamStage' = "runs",
           \/ epoch'[1] = epoch[1] + 1 /\ teamStage = "idle"
           \/ epoch'[1] = epoch[1] /\ epoch'[2] = epoch[2] + 1 /\ teamStage = "runs"
    PROVE  TeamTypes' /\ BornTrue' /\ PlanKept'
<1>1. PICK e : e = agentOf' /\ DOMAIN e = {} /\ IsFiniteSet(DOMAIN e) /\ Cardinality(DOMAIN e) = 0
  <2>1. DOMAIN agentOf' = {}
    OBVIOUS
  <2> QED
    BY <2>1, FS_EmptySet
<1>2. \A a \in Workers : born[a] \in Nat \X Nat /\ born[a][1] \in Nat /\ born[a][2] \in Nat
  BY DEF TeamTypes
<1>3. epoch[1] \in Nat /\ epoch[2] \in Nat /\ epoch'[1] \in Nat /\ epoch'[2] \in Nat
  BY DEF TeamTypes
<1>4. Workers' = Workers
  BY DEF Workers
<1>5. TeamTypes'
  BY <1>1, <1>4 DEF TeamTypes
<1>6. ASSUME NEW a \in Workers
      PROVE  /\ born[a][1] <= epoch'[1]
             /\ born[a][1] = epoch'[1] => born[a][2] <= epoch'[2] /\ born[a][2] # epoch'[2]
             /\ worker[a].at # "over" => worker[a].known
             /\ worker[a].known /\ ~leftover => born[a][1] = epoch'[1]
  BY <1>2, <1>3, SMTT(30) DEF BornTrue
<1>7. BornTrue'
  BY <1>4, <1>6 DEF BornTrue
<1>8. \A a \in Workers : born[a] # epoch'
  BY <1>6
<1>9. Cardinality({a \in Workers : born[a] = epoch'}) = 0
  BY <1>8, NoneBorn
<1>10. allowance'.limit \in Nat
  OBVIOUS
<1>11. Cardinality({a \in Workers' : born'[a] = epoch'}) = 0
  BY <1>9, <1>4
<1>12. PlanKept'
  BY <1>1, <1>10, <1>11 DEF PlanKept
<1> QED
  BY <1>5, <1>7, <1>12

LEMMA BeginTurnPlan ==
    ASSUME TeamInv, NEW limit \in scope.limits, NEW strict \in scope.strict, BeginTurn(limit, strict)
    PROVE  TeamTypes' /\ BornTrue' /\ PlanKept'
<1>1. TeamTypes /\ BornTrue
  BY DEF TeamInv
<1>2. limit \in Nat /\ strict \in BOOLEAN
  BY <1>1, PlanningAssumption DEF TeamTypes
<1>3. epoch[1] + 1 \in Nat
  BY <1>1 DEF TeamTypes
<1>4. epoch' \in Nat \X Nat /\ epoch'[1] = epoch[1] + 1
  BY <1>3 DEF BeginTurn
<1>5. allowance' \in [limit : Nat, strict : BOOLEAN, nudges : Nat]
  BY <1>2 DEF BeginTurn
<1> QED
  BY <1>1, <1>4, <1>5, PlanBegins DEF BeginTurn, declaredVars, busVars

LEMMA PlanCreatePlan ==
    ASSUME TeamInv, NEW p, PlanCreate(p)
    PROVE  TeamTypes' /\ BornTrue' /\ PlanKept'
<1>1. TeamTypes /\ BornTrue
  BY DEF TeamInv
<1>2. epoch' \in Nat \X Nat /\ epoch'[1] = epoch[1] /\ epoch'[2] = epoch[2] + 1
  BY <1>1 DEF TeamTypes, PlanCreate
<1>3. allowance' \in [limit : Nat, strict : BOOLEAN, nudges : Nat]
  BY <1>1 DEF TeamTypes, PlanCreate
<1> QED
  BY <1>1, <1>2, <1>3, PlanBegins DEF PlanCreate, declaredVars, busVars

\* A step that is given its agent.
LEMMA Delegated ==
    ASSUME TeamTypes, PlanKept, NEW s, NEW a, MayDelegate(s), Delegates(s, a)
    PROVE  /\ DOMAIN agentOf' = DOMAIN agentOf \cup {s} /\ IsFiniteSet(DOMAIN agentOf')
           /\ agentOf'[s] = a /\ \A r \in DOMAIN agentOf : r # s /\ agentOf'[r] = agentOf[r]
           /\ Cardinality(DOMAIN agentOf') = Cardinality(DOMAIN agentOf) + 1
           /\ Cardinality(DOMAIN agentOf) \in Nat
           /\ Cardinality(DOMAIN agentOf') <= allowance.limit
<1>1. agentOf' = [b \in DOMAIN agentOf \cup {s} |-> IF b = s THEN a ELSE agentOf[b]]
  BY DEF Delegates, Extended
<1>2. s \notin DOMAIN agentOf /\ Cardinality(DOMAIN agentOf) < allowance.limit
  BY DEF MayDelegate
<1>3. DOMAIN agentOf' = DOMAIN agentOf \cup {s} /\ agentOf'[s] = a
      /\ \A r \in DOMAIN agentOf : r # s /\ agentOf'[r] = agentOf[r]
  BY <1>1, <1>2
<1>4. IsFiniteSet(DOMAIN agentOf) /\ allowance.limit \in Nat
  BY DEF TeamTypes
<1>5. /\ IsFiniteSet(DOMAIN agentOf \cup {s})
      /\ Cardinality(DOMAIN agentOf \cup {s}) = Cardinality(DOMAIN agentOf) + 1
      /\ Cardinality(DOMAIN agentOf) \in Nat
  BY <1>2, <1>4, FS_AddElement, FS_CardinalityType
<1> QED
  BY <1>2, <1>3, <1>4, <1>5

LEMMA RedundantPlan ==
    ASSUME TeamInv, NEW s, NEW task, SpawnRedundant(s, task)
    PROVE  TeamTypes' /\ BornTrue' /\ PlanKept'
<1>1. TeamTypes /\ BornTrue /\ PlanKept
  BY DEF TeamInv
<1>2. PICK a \in SameWork(task) : agentOf' = Extended(agentOf, s, a)
  <2>1. SameWork(task) \in SUBSET Nat /\ SameWork(task) # {}
    BY <1>1, WorkersAre DEF SpawnRedundant, SameWork, Known
  <2>2. \E a \in SameWork(task) : \A b \in SameWork(task) : a <= b
    BY <2>1, LeastNumber
  <2>3. (CHOOSE a \in SameWork(task) : \A b \in SameWork(task) : a <= b) \in SameWork(task)
    BY <2>2
  <2> QED
    BY <2>3 DEF SpawnRedundant, Delegates
<1>3. a \in Known /\ a \in Workers /\ worker[a].known
  BY DEF SameWork, Known
<1>4. MayDelegate(s) /\ Delegates(s, a)
  BY <1>2 DEF SpawnRedundant, Delegates
<1>5. /\ DOMAIN agentOf' = DOMAIN agentOf \cup {s} /\ IsFiniteSet(DOMAIN agentOf')
      /\ agentOf'[s] = a /\ \A r \in DOMAIN agentOf : agentOf'[r] = agentOf[r]
      /\ Cardinality(DOMAIN agentOf') = Cardinality(DOMAIN agentOf) + 1
      /\ Cardinality(DOMAIN agentOf) \in Nat
      /\ Cardinality(DOMAIN agentOf') <= allowance.limit
  BY <1>1, <1>4, Delegated
<1>6. UNCHANGED <<scope, teamStage, allowance, plan, hasPlan, waited, worker, born, busVars, epoch, leftover>>
      /\ teamStage = "runs"
  BY DEF SpawnRedundant
<1>7. Workers' = Workers /\ Known' = Known
  BY <1>6 DEF Workers, Known
<1>8. TeamTypes'
  BY <1>1, <1>5, <1>6, <1>7 DEF TeamTypes
<1>9. BornTrue'
  BY <1>1, <1>6, <1>7 DEF BornTrue
<1>10. s \in DOMAIN plan /\ plan[s] # "planner_owned"
  BY <1>4 DEF MayDelegate
<1>11. leftover \/ born[a][1] = epoch[1]
  BY <1>1, <1>3, <1>6 DEF BornTrue, TeamTypes
<1>12. PICK k : k = Cardinality({b \in Workers : born[b] = epoch})
  OBVIOUS
<1>13. /\ \A r \in DOMAIN agentOf : r \in DOMAIN plan /\ plan[r] # "planner_owned" /\ agentOf[r] \in Known
       /\ k <= Cardinality(DOMAIN agentOf)
       /\ leftover \/ \A r \in DOMAIN agentOf : born[agentOf[r]][1] = epoch[1]
       /\ \A b \in waited : worker[b].resolved
  BY <1>1, <1>6, <1>12 DEF PlanKept
<1>14. k <= Cardinality(DOMAIN agentOf) + 1
  <2>1. k \in Nat
    <3>1. IsFiniteSet(Workers)
      BY <1>1, WorkersAre, FS_Interval
    <3>2. IsFiniteSet({b \in Workers : born[b] = epoch})
      BY <3>1, FS_Subset
    <3> QED
      BY <1>12, <3>2, FS_CardinalityType
  <2> QED
    BY <2>1, <1>5, <1>13
<1>15. \A r \in DOMAIN agentOf' : /\ r \in DOMAIN plan /\ plan[r] # "planner_owned" /\ agentOf'[r] \in Known
                                  /\ leftover \/ born[agentOf'[r]][1] = epoch[1]
  BY <1>3, <1>5, <1>10, <1>11, <1>13
<1>16. k = Cardinality({b \in Workers' : born'[b] = epoch'})
  BY <1>6, <1>7, <1>12
<1>17. PlanKept'
  BY <1>5, <1>6, <1>7, <1>13, <1>14, <1>15, <1>16 DEF PlanKept
<1> QED
  BY <1>8, <1>9, <1>17

\* The workers that are born now.
LEMMA OneMoreBorn ==
    ASSUME TeamTypes, NEW n, n \notin Workers, Workers' = Workers \cup {n},
           NEW now, born'[n] = now, \A a \in Workers : born'[a] = born[a]
    PROVE  /\ Cardinality({a \in Workers' : born'[a] = now}) = Cardinality({a \in Workers : born[a] = now}) + 1
           /\ Cardinality({a \in Workers : born[a] = now}) \in Nat
<1>1. PICK S : S = {a \in Workers : born[a] = now}
  OBVIOUS
<1>2. {a \in Workers' : born'[a] = now} = S \cup {n}
  BY <1>1
<1>3. IsFiniteSet(S)
  <2>1. IsFiniteSet(Workers)
    BY WorkersAre, FS_Interval
  <2>2. S \subseteq Workers
    BY <1>1
  <2> QED
    BY <2>1, <2>2, FS_Subset
<1>4. n \notin S
  BY <1>1
<1>5. Cardinality(S \cup {n}) = Cardinality(S) + 1 /\ Cardinality(S) \in Nat
  BY <1>3, <1>4, FS_AddElement, FS_CardinalityType
<1> QED
  BY <1>1, <1>2, <1>5

LEMMA SpawnNewWorker ==
    ASSUME TeamTypes, NEW task \in Works,
           worker' = Append(worker, [work |-> task, at |-> "runs", resolved |-> FALSE, known |-> TRUE])
    PROVE  /\ Len(worker) + 1 \notin Workers /\ Workers' = Workers \cup {Len(worker) + 1}
           /\ worker' \in Seq(WorkerRecords) /\ \A a \in Workers : worker'[a] = worker[a]
           /\ worker'[Len(worker) + 1].known /\ worker'[Len(worker) + 1].at = "runs"
<1>1. PICK r : r = [work |-> task, at |-> "runs", resolved |-> FALSE, known |-> TRUE]
  OBVIOUS
<1>2. r \in WorkerRecords /\ r.known /\ r.at = "runs"
  BY <1>1 DEF WorkerRecords
<1>3. worker \in Seq(WorkerRecords) /\ worker' = Append(worker, r)
  BY <1>1 DEF TeamTypes
<1>4. PICK n \in Nat : n = Len(worker) /\ Workers = 1..n
  BY WorkersAre
<1>5. /\ worker' \in Seq(WorkerRecords) /\ Len(worker') = n + 1 /\ worker'[n + 1] = r
      /\ \A a \in 1..n : worker'[a] = worker[a]
  BY <1>2, <1>3, <1>4, AppendProperties
<1>6. DOMAIN worker' = 1..n + 1
  BY <1>5
<1>7. 1..n + 1 = (1..n) \cup {n + 1} /\ n + 1 \notin 1..n
  OBVIOUS
<1> QED
  BY <1>2, <1>4, <1>5, <1>6, <1>7 DEF Workers

LEMMA SpawnNewPlan ==
    ASSUME TeamInv, NEW s, NEW task \in Works, NEW redundantly, SpawnNew(s, task, redundantly)
    PROVE  TeamTypes' /\ BornTrue' /\ PlanKept'
<1>1. TeamTypes /\ BornTrue /\ PlanKept
  BY DEF TeamInv
<1>2. PICK a : a = Len(worker) + 1
  OBVIOUS
<1>3. /\ a \notin Workers /\ Workers' = Workers \cup {a}
      /\ worker' \in Seq(WorkerRecords) /\ \A b \in Workers : worker'[b] = worker[b]
      /\ worker'[a].known /\ worker'[a].at = "runs"
  BY <1>1, <1>2, SpawnNewWorker DEF SpawnNew
<1>4. MayDelegate(s) /\ Delegates(s, a) /\ teamStage = "runs" /\ born' = Extended(born, a, epoch)
      /\ UNCHANGED <<scope, teamStage, allowance, plan, hasPlan, waited, epoch, leftover>>
  BY <1>2 DEF SpawnNew
<1>5. /\ DOMAIN agentOf' = DOMAIN agentOf \cup {s} /\ IsFiniteSet(DOMAIN agentOf')
      /\ agentOf'[s] = a /\ \A r \in DOMAIN agentOf : agentOf'[r] = agentOf[r]
      /\ Cardinality(DOMAIN agentOf') = Cardinality(DOMAIN agentOf) + 1
      /\ Cardinality(DOMAIN agentOf) \in Nat
      /\ Cardinality(DOMAIN agentOf') <= allowance.limit
  BY <1>1, <1>4, Delegated
<1>6. DOMAIN born = Workers /\ epoch \in Nat \X Nat /\ \A b \in Workers : born[b] \in Nat \X Nat
  BY <1>1 DEF TeamTypes
<1>7. DOMAIN born' = Workers \cup {a} /\ born'[a] = epoch /\ \A b \in Workers : born'[b] = born[b]
  <2>1. born' = [b \in Workers \cup {a} |-> IF b = a THEN epoch ELSE born[b]]
    BY <1>4, <1>6 DEF Extended
  <2> QED
    BY <2>1, <1>3
<1>8. TeamTypes'
  <2>1. \A b \in Workers' : born'[b] \in Nat \X Nat
    BY <1>3, <1>6, <1>7
  <2> QED
    BY <1>1, <1>3, <1>4, <1>5, <1>7, <2>1 DEF TeamTypes
<1>9. BornTrue'
  <2>1. SUFFICES ASSUME NEW b \in Workers'
                 PROVE  /\ born'[b][1] <= epoch[1]
                        /\ born'[b][1] = epoch[1] => born'[b][2] <= epoch[2]
                        /\ worker'[b].at # "over" => worker'[b].known
                        /\ worker'[b].known /\ ~leftover => teamStage # "idle" /\ born'[b][1] = epoch[1]
    BY <1>4 DEF BornTrue
  <2>2. CASE b = a
    <3>1. epoch[1] <= epoch[1] /\ epoch[2] <= epoch[2]
      BY <1>6
    <3> QED
      BY <2>2, <3>1, <1>3, <1>4, <1>7
  <2>3. CASE b \in Workers
    <3>1. born'[b] = born[b] /\ worker'[b] = worker[b]
      BY <2>3, <1>3, <1>7
    <3> QED
      BY <2>3, <3>1, <1>1 DEF BornTrue
  <2> QED
    BY <2>2, <2>3, <1>3
<1>10. PICK k \in Nat : k = Cardinality({b \in Workers : born[b] = epoch})
                        /\ k + 1 = Cardinality({b \in Workers' : born'[b] = epoch})
  BY <1>1, <1>3, <1>7, OneMoreBorn, SMTT(30)
<1>11. /\ \A r \in DOMAIN agentOf : r \in DOMAIN plan /\ plan[r] # "planner_owned" /\ agentOf[r] \in Known
       /\ k <= Cardinality(DOMAIN agentOf)
       /\ leftover \/ \A r \in DOMAIN agentOf : born[agentOf[r]][1] = epoch[1]
       /\ \A b \in waited : worker[b].resolved
  BY <1>1, <1>4, <1>10 DEF PlanKept
<1>12. Known \subseteq Workers /\ Known \subseteq Known' /\ a \in Known'
  BY <1>3 DEF Known
<1>13. s \in DOMAIN plan /\ plan[s] # "planner_owned"
  BY <1>4 DEF MayDelegate
<1>14. ASSUME NEW r \in DOMAIN agentOf'
       PROVE  /\ r \in DOMAIN plan /\ plan[r] # "planner_owned" /\ agentOf'[r] \in Known'
              /\ leftover \/ born'[agentOf'[r]][1] = epoch[1]
  <2>1. CASE r = s
    BY <2>1, <1>5, <1>7, <1>12, <1>13
  <2>2. CASE r \in DOMAIN agentOf
    <3>1. agentOf'[r] = agentOf[r] /\ agentOf[r] \in Known /\ agentOf[r] \in Workers
      BY <2>2, <1>5, <1>11, <1>12
    <3>2. born'[agentOf[r]] = born[agentOf[r]]
      BY <3>1, <1>7
    <3> QED
      BY <2>2, <3>1, <3>2, <1>11, <1>12
  <2> QED
    BY <2>1, <2>2, <1>5
<1>15. \A b \in waited : worker'[b].resolved
  <2>1. waited \subseteq Workers
    BY <1>1 DEF TeamTypes
  <2> QED
    BY <2>1, <1>3, <1>11
<1>16. k + 1 <= Cardinality(DOMAIN agentOf')
  BY <1>5, <1>10, <1>11
<1>17. PlanKept'
  BY <1>4, <1>5, <1>10, <1>14, <1>15, <1>16 DEF PlanKept
<1> QED
  BY <1>8, <1>9, <1>17

\* The end of a turn.
LEMMA CleanedUpPlan ==
    ASSUME TeamInv, CleanedUp
    PROVE  TeamTypes' /\ BornTrue' /\ PlanKept' /\ Workers' = Workers /\ \A a \in Workers : worker'[a].at = "over"
<1>1. TeamTypes /\ BornTrue
  BY DEF TeamInv
<1>2. PICK new : new = [a \in Workers |-> [worker[a] EXCEPT !.resolved = TRUE, !.known = FALSE]]
  OBVIOUS
<1>3. worker' = new /\ Workers = EndedTasks
      /\ UNCHANGED <<scope, allowance, plan, agentOf, waited, born, epoch>> /\ teamStage' = "idle" /\ leftover' = FALSE
  BY <1>2 DEF CleanedUp, declaredVars
<1>4. ASSUME NEW a \in Workers
      PROVE  new[a] \in WorkerRecords /\ ~new[a].known /\ new[a].at = "over"
  <2>1. PICK r \in WorkerRecords : r = worker[a]
    BY <1>1, WorkersAre
  <2>2. PICK t : t = [r EXCEPT !.resolved = TRUE, !.known = FALSE]
    OBVIOUS
  <2>3. t \in WorkerRecords /\ t.known = FALSE /\ t.at = r.at
    BY <2>2 DEF WorkerRecords
  <2>4. new[a] = t
    BY <1>2, <2>1, <2>2
  <2>5. r.at = "over"
    BY <2>1, <1>3 DEF EndedTasks
  <2> QED
    BY <2>3, <2>4, <2>5
<1>5. worker' \in Seq(WorkerRecords) /\ DOMAIN worker' = Workers
  <2>1. PICK n \in Nat : n = Len(worker) /\ Workers = 1..n
    BY <1>1, WorkersAre
  <2>2. new \in [1..n -> WorkerRecords]
    BY <1>2, <1>4, <2>1
  <2> QED
    BY <1>3, <2>1, <2>2, SeqFrom
<1>6. Workers' = Workers
  BY <1>5 DEF Workers
<1>7. TeamTypes'
  BY <1>1, <1>3, <1>5, <1>6 DEF TeamTypes
<1>8. BornTrue'
  BY <1>1, <1>3, <1>4, <1>6 DEF BornTrue
<1>9. PlanKept'
  BY <1>3 DEF PlanKept
<1> QED
  BY <1>3, <1>4, <1>6, <1>7, <1>8, <1>9

LEMMA InterruptedPlan ==
    ASSUME TeamInv, CleanupInterrupted
    PROVE  TeamTypes' /\ BornTrue' /\ PlanKept'
<1>1. TeamTypes /\ BornTrue
  BY DEF TeamInv
<1>2. /\ UNCHANGED <<scope, allowance, plan, agentOf, waited, worker, born, epoch>>
      /\ teamStage' = "idle" /\ leftover' = TRUE
  BY DEF CleanupInterrupted, declaredVars
<1>3. Workers' = Workers
  BY <1>2 DEF Workers
<1>4. TeamTypes' /\ BornTrue'
  BY <1>1, <1>2, <1>3 DEF TeamTypes, BornTrue
<1>5. PlanKept'
  BY <1>2 DEF PlanKept
<1> QED
  BY <1>4, <1>5

\* A step within a turn, for each of those that delegate nothing.
LEMMA WithinPlan ==
    ASSUME TeamInv,
           \/ \E ids \in SUBSET Workers : AgentWaitReturns(ids)
           \/ Remind \/ CompletePlanned
           \/ \E a \in Workers, b \in Workers : SendToAgent(a, b)
           \/ \E a \in Workers : Broadcast(a) \/ Receive(a)
           \/ \E a \in Workers, resolved \in BOOLEAN : WorkerEnds(a, resolved)
    PROVE  TeamTypes' /\ BornTrue' /\ PlanKept' /\ WorkersGoOn /\ TurnGoesOn
<1>1. TeamTypes /\ BornTrue /\ PlanKept
  BY DEF TeamInv
<1>2. allowance \in [limit : Nat, strict : BOOLEAN, nudges : Nat]
  BY <1>1 DEF TeamTypes
<1>3. SUFFICES WorkersGoOn /\ TurnGoesOn
  BY <1>1, PlanStill
<1>4. ASSUME NEW ids \in SUBSET Workers, AgentWaitReturns(ids) PROVE WorkersGoOn /\ TurnGoesOn
  <2>1. WorkersGoOn /\ \A a \in ids \cap Workers : worker'[a].resolved
    BY <1>1, <1>4, ResolvesGoOn DEF AgentWaitReturns
  <2>2. TurnGoesOn
    BY <1>2, <1>4, <2>1 DEF AgentWaitReturns, TurnGoesOn
  <2> QED
    BY <2>1, <2>2
<1>5. ASSUME Remind PROVE WorkersGoOn /\ TurnGoesOn
  <2>1. WorkersGoOn
    BY <1>1, <1>5, CleansGoOn, GoOnSame DEF Remind
  <2>2. allowance' \in [limit : Nat, strict : BOOLEAN, nudges : Nat] /\ allowance'.limit = allowance.limit
    BY <1>2, <1>5 DEF Remind
  <2>3. TurnGoesOn
    BY <1>5, <2>2 DEF Remind, TurnGoesOn, Cleans, declaredVars
  <2> QED
    BY <2>1, <2>3
<1>6. ASSUME CompletePlanned PROVE WorkersGoOn /\ TurnGoesOn
  BY <1>1, <1>2, <1>6, CleansGoOn DEF CompletePlanned, TurnGoesOn, Cleans, declaredVars
<1>7. ASSUME NEW a \in Workers, NEW b \in Workers, SendToAgent(a, b) PROVE WorkersGoOn /\ TurnGoesOn
  BY <1>1, <1>2, <1>7, GoOnSame DEF SendToAgent, TurnGoesOn, declaredVars
<1>8. ASSUME NEW a \in Workers, Broadcast(a) \/ Receive(a) PROVE WorkersGoOn /\ TurnGoesOn
  BY <1>1, <1>2, <1>8, GoOnSame DEF Broadcast, Receive, TurnGoesOn, declaredVars
<1>9. ASSUME NEW a \in Workers, NEW resolved \in BOOLEAN, WorkerEnds(a, resolved)
      PROVE  WorkersGoOn /\ TurnGoesOn
  <2>1. WorkersGoOn
    BY <1>1, <1>9, EndsGoOn
  <2>2. TurnGoesOn
    BY <1>2, <1>9 DEF WorkerEnds, TurnGoesOn, declaredVars
  <2> QED
    BY <2>1, <2>2
<1> QED
  BY <1>4, <1>5, <1>6, <1>7, <1>8, <1>9

-----------------------------------------------------------------------------
(* The bus of the workers *)

LEMMA SeqOfMore ==
    ASSUME NEW A, NEW B, A \subseteq B, NEW s \in Seq(A)
    PROVE  s \in Seq(B)
BY SeqMonotonic

\* The letters there may be become no fewer, or there are none.
MailGrows ==
    \/ Ours \subseteq Ours'
    \/ letters = <<>> /\ DOMAIN mailbox = {} /\ \A a \in Workers : got[a] = <<>>

LEMMA MailWider ==
    ASSUME Ours \subseteq Ours', Workers \subseteq Workers'
    PROVE  Mail \subseteq Mail'
BY DEF Mail

LEMMA MailStays ==
    ASSUME MailTypes, UNCHANGED busVars, MailGrows, Workers' = Workers
    PROVE  MailTypes'
<1>1. UNCHANGED <<letters, posted, got, mailbox, heard>>
  BY DEF busVars
<1>2. PICK M, N : M = Mail /\ N = Mail'
  OBVIOUS
<1>3. letters \in Seq(M) /\ (\A a \in Workers : got[a] \in Seq(M))
      /\ \A b \in DOMAIN mailbox : mailbox[b] \in Seq(M \cap To(b))
  BY <1>2 DEF MailTypes
<1>4. letters \in Seq(N) /\ (\A a \in Workers : got[a] \in Seq(N))
      /\ \A b \in DOMAIN mailbox : mailbox[b] \in Seq(N \cap To(b))
  <2>1. CASE M \subseteq N
    <3>1. \A b : M \cap To(b) \subseteq N \cap To(b)
      BY <2>1
    <3> QED
      BY <1>3, <2>1, <3>1, SeqOfMore
  <2>2. CASE letters = <<>> /\ DOMAIN mailbox = {} /\ \A a \in Workers : got[a] = <<>>
    <3>1. PICK e : e = <<>> /\ e \in Seq(N)
      BY EmptySeq
    <3> QED
      BY <2>2, <3>1
  <2>3. Ours \subseteq Ours' => M \subseteq N
    BY <1>2, MailWider
  <2> QED
    BY <2>1, <2>2, <2>3 DEF MailGrows
<1>5. posted' = Among(letters', To(Everyone))
  BY <1>1 DEF MailTypes
<1> QED
  BY <1>1, <1>2, <1>4, <1>5 DEF MailTypes

\* Mail that stays, for workers that move on.
LEMMA MailStill ==
    ASSUME MailTypes, MailKept, BusAtRest, UNCHANGED <<busVars, born>>, MailGrows, Workers' = Workers,
           \A a \in Workers : worker'[a].at = "runs" => worker[a].at = "runs",
           leftover => leftover', teamStage' = "idle" /\ ~leftover' => teamStage = "idle"
    PROVE  MailTypes' /\ BusAtRest' /\ MailKept'
<1>1. MailTypes'
  BY MailStays
<1>2. UNCHANGED <<letters, posted, got, mailbox, heard, born>>
  BY DEF busVars
<1>3. BusAtRest'
  BY <1>2 DEF BusAtRest
<1>4. ASSUME NEW a \in Active' PROVE a \in Active /\ Direct(a)' = Direct(a) /\ Unheard(a)' = Unheard(a)
  BY <1>2, <1>4 DEF Active, Direct, Unheard, Cursor
<1>5. ASSUME NEW a \in Active'
      PROVE  /\ Among(got'[a], To(a)) \o Direct(a)' = Among(letters', To(a))
             /\ Among(got'[a], To(Everyone)) \o Unheard(a)' = Among(letters', To(Everyone) \cap NotFrom(a))
             /\ leftover' \/ \A i \in DOMAIN got'[a] : born'[got'[a][i].from][1] = born'[a][1]
  BY <1>2, <1>4, ZenonT(30) DEF MailKept
<1>6. MailKept'
  BY <1>5 DEF MailKept
<1> QED
  BY <1>1, <1>3, <1>6

LEMMA OursStay ==
    ASSUME UNCHANGED <<born>>, Workers' = Workers, epoch'[1] = epoch[1], leftover' = leftover
    PROVE  Ours' = Ours
BY DEF Ours

LEMMA ToOne ==
    /\ \A b, m : m \in To(b) => m.to = b
    /\ \A A, b : A \cap To(b) \subseteq To(b)
    /\ \A A, b, c : b # c => (A \cap To(b)) \cap To(c) = {}
<1>1. \A b, m : m \in To(b) => m.to = b
  BY DEF To
<1> QED
  BY <1>1

LEMMA ActiveOurs ==
    ASSUME TeamTypes, BornTrue, NEW a \in Active
    PROVE  a \in Ours /\ a \in Workers /\ (leftover \/ teamStage # "idle") /\ worker[a].known
<1>1. a \in Workers /\ worker[a].at = "runs"
  BY DEF Active
<1>2. worker[a].known
  BY <1>1 DEF BornTrue
<1>3. leftover \/ (teamStage # "idle" /\ born[a][1] = epoch[1])
  BY <1>1, <1>2 DEF BornTrue
<1> QED
  BY <1>1, <1>2, <1>3 DEF Ours

LEMMA LetterSent ==
    ASSUME TeamInv, NEW a \in Active, NEW b \in Workers \cup {Everyone}, NEW L, L = Letter(a, b),
           letters' = Append(letters, L)
    PROVE  /\ L \in Mail /\ L \in To(b) /\ \A c : c # b => L \notin To(c)
           /\ \A c : L \in NotFrom(c) <=> c # a
           /\ letters \in Seq(Mail) /\ letters' \in Seq(Mail)
           /\ \A T : L \in T => Among(letters', T) = Append(Among(letters, T), L)
           /\ \A T : L \notin T => Among(letters', T) = Among(letters, T)
<1>1. TeamTypes /\ BornTrue /\ MailTypes
  BY DEF TeamInv
<1>2. a \in Ours /\ a \in Workers
  BY <1>1, ActiveOurs
<1>3. letters \in Seq(Mail)
  BY <1>1 DEF MailTypes
<1>4. PICK k \in Nat : k = Len(letters) + 1
  BY <1>3
<1>5. L = [from |-> a, to |-> b, n |-> k]
  BY <1>4 DEF Letter
<1>6. a \in Nat /\ b \in Nat
  BY <1>1, <1>2, WorkersAre DEF Everyone
<1>7. L \in Mail /\ L \in To(b) /\ L.to = b /\ L.from = a
  BY <1>2, <1>5, <1>6 DEF Mail, To
<1>8. \A c : c # b => L \notin To(c)
  BY <1>7, ToOne
<1>9. \A c : L \in NotFrom(c) <=> c # a
  BY <1>5, <1>6 DEF NotFrom
<1>10. letters' \in Seq(Mail)
  BY <1>3, <1>7, AppendProperties
<1>11. \A T : Among(Append(letters, L), T) = IF L \in T THEN Append(Among(letters, T), L) ELSE Among(letters, T)
  BY <1>3, <1>7, AmongAppend
<1> QED
  BY <1>3, <1>7, <1>8, <1>9, <1>10, <1>11

LEMMA AppendOne ==
    ASSUME NEW A, NEW x \in Seq(A), NEW y \in Seq(A), NEW e \in A
    PROVE  x \o (y \o <<e>>) = Append(x \o y, e)
<1>1. y \o <<e>> = Append(y, e)
  BY AppendIsConcat
<1> QED
  BY <1>1, AppendLast

\* What was sent to a worker and is not yet received.
LEMMA DirectIs ==
    ASSUME MailTypes, NEW a
    PROVE  Direct(a) \in Seq(Mail \cap To(a)) /\ Direct(a) \in Seq(Mail)
<1>1. Direct(a) \in Seq(Mail \cap To(a))
  <2>1. PICK e : e = <<>> /\ e \in Seq(Mail \cap To(a))
    BY EmptySeq
  <2>2. CASE a \in DOMAIN mailbox
    BY <2>2 DEF MailTypes, Direct
  <2> QED
    BY <2>1, <2>2 DEF Direct
<1> QED
  BY <1>1, SeqOfMore

LEMMA SendSafe ==
    ASSUME TeamInv, NEW a \in Workers, NEW b \in Workers, SendToAgent(a, b)
    PROVE  MailTypes' /\ BusAtRest' /\ MailKept'
<1>1. TeamTypes /\ BornTrue /\ MailTypes /\ MailKept
  BY DEF TeamInv
<1>2. /\ a \in Active /\ letters' = Append(letters, Letter(a, b))
      /\ mailbox' = Extended(mailbox, b, (IF b \in DOMAIN mailbox THEN mailbox[b] ELSE <<>>) \o <<Letter(a, b)>>)
      /\ UNCHANGED <<teamStage, worker, born, posted, heard, got, epoch, leftover>>
  BY DEF SendToAgent, Sends
<1>3. PICK L : L = Letter(a, b)
  OBVIOUS
<1>4. /\ L \in Mail /\ L \in To(b) /\ \A c : c # b => L \notin To(c)
      /\ letters' \in Seq(Mail)
      /\ \A T : L \in T => Among(letters', T) = Append(Among(letters, T), L)
      /\ \A T : L \notin T => Among(letters', T) = Among(letters, T)
  BY <1>2, <1>3, LetterSent
<1>5. PICK D : D = Direct(b) /\ D \in Seq(Mail \cap To(b)) /\ D \in Seq(Mail)
  BY <1>1, DirectIs
<1>6. /\ DOMAIN mailbox' = DOMAIN mailbox \cup {b} /\ mailbox'[b] = D \o <<L>>
      /\ \A c \in DOMAIN mailbox : c # b => mailbox'[c] = mailbox[c]
  <2>1. mailbox' = Extended(mailbox, b, D \o <<L>>)
    BY <1>2, <1>3, <1>5 DEF Direct
  <2>2. PICK x : x = D \o <<L>>
    OBVIOUS
  <2>3. mailbox' = [c \in DOMAIN mailbox \cup {b} |-> IF c = b THEN x ELSE mailbox[c]]
    BY <2>1, <2>2 DEF Extended
  <2> QED
    BY <2>2, <2>3
<1>7. b # Everyone
  BY <1>1, WorkersAre DEF Everyone
<1>8. Workers' = Workers /\ Ours' = Ours /\ Mail' = Mail /\ Active' = Active
  BY <1>2 DEF Workers, Ours, Mail, Active
<1>9. MailTypes'
  <2>1. D \o <<L>> \in Seq(Mail \cap To(b))
    <3>1. L \in Mail \cap To(b)
      BY <1>4
    <3>2. D \o <<L>> = Append(D, L)
      BY <1>5, <3>1, AppendIsConcat
    <3> QED
      BY <1>5, <3>1, <3>2, AppendProperties
  <2>2. \A c \in DOMAIN mailbox' : mailbox'[c] \in Seq(Mail \cap To(c))
    BY <1>1, <1>6, <2>1 DEF MailTypes
  <2>3. posted' = Among(letters', To(Everyone))
    BY <1>1, <1>2, <1>4, <1>7 DEF MailTypes
  <2>4. DOMAIN mailbox' \subseteq Workers
    BY <1>1, <1>6 DEF MailTypes
  <2>5. /\ DOMAIN got' = Workers /\ \A c \in Workers : got'[c] \in Seq(Mail)
        /\ DOMAIN heard' \subseteq Workers /\ \A c \in DOMAIN heard' : heard'[c] \in 0..Len(posted')
    BY <1>1, <1>2 DEF MailTypes
  <2> QED
    BY <1>4, <1>8, <2>2, <2>3, <2>4, <2>5 DEF MailTypes
<1>10. BusAtRest'
  BY <1>1, <1>2, ActiveOurs DEF BusAtRest
<1>11. ASSUME NEW c \in Active
       PROVE  /\ Among(got[c], To(c)) \o Direct(c)' = Among(letters', To(c))
              /\ Among(got[c], To(Everyone)) \o Unheard(c) = Among(letters', To(Everyone) \cap NotFrom(c))
              /\ leftover \/ \A i \in DOMAIN got[c] : born[got[c][i].from][1] = born[c][1]
  <2>1. /\ Among(got[c], To(c)) \o Direct(c) = Among(letters, To(c))
        /\ Among(got[c], To(Everyone)) \o Unheard(c) = Among(letters, To(Everyone) \cap NotFrom(c))
        /\ leftover \/ \A i \in DOMAIN got[c] : born[got[c][i].from][1] = born[c][1]
    BY <1>1 DEF MailKept
  <2>2. L \notin To(Everyone) \cap NotFrom(c)
    BY <1>4, <1>7
  <2>3. Among(letters', To(Everyone) \cap NotFrom(c)) = Among(letters, To(Everyone) \cap NotFrom(c))
    BY <1>4, <2>2
  <2>4. CASE c = b
    <3>1. Direct(c)' = D \o <<L>>
      BY <1>6, <2>4 DEF Direct
    <3>2. PICK x \in Seq(Mail) : x = Among(got[c], To(c))
      <4>1. got[c] \in Seq(Mail)
        BY <1>1, ActiveOurs DEF MailTypes
      <4> QED
        BY <4>1, AmongTyped
    <3>3. x \o (D \o <<L>>) = Append(x \o D, L)
      BY <1>4, <1>5, <3>2, AppendOne
    <3>4. Among(letters', To(c)) = Append(Among(letters, To(c)), L)
      BY <1>4, <2>4
    <3>5. x \o D = Among(letters, To(c))
      BY <1>5, <2>1, <2>4, <3>2
    <3> QED
      BY <2>1, <2>3, <3>1, <3>2, <3>3, <3>4, <3>5
  <2>5. CASE c # b
    <3>1. Direct(c)' = Direct(c)
      BY <1>6, <2>5 DEF Direct
    <3>2. Among(letters', To(c)) = Among(letters, To(c))
      BY <1>4, <2>5
    <3> QED
      BY <2>1, <2>3, <3>1, <3>2
  <2> QED
    BY <2>4, <2>5
<1>12. MailKept'
  <2>1. \A c : Unheard(c)' = Unheard(c)
    BY <1>2 DEF Unheard, Cursor
  <2> QED
    BY <1>2, <1>8, <1>11, <2>1 DEF MailKept
<1> QED
  BY <1>9, <1>10, <1>12

\* What was said to all and a worker has not heard.
LEMMA UnheardIs ==
    ASSUME MailTypes, NEW a
    PROVE  /\ posted \in Seq(Mail \cap To(Everyone)) /\ posted \in Seq(Mail) /\ Cursor(a) \in 0..Len(posted)
           /\ SubSeq(posted, Cursor(a) + 1, Len(posted)) \in Seq(Mail \cap To(Everyone))
           /\ Unheard(a) \in Seq(Mail \cap To(Everyone)) /\ Unheard(a) \in Seq(Mail)
<1>1. PICK P : P = Mail \cap To(Everyone) /\ P \subseteq Mail
  OBVIOUS
<1>2. posted \in Seq(P)
  BY <1>1, AmongIn DEF MailTypes
<1>3. PICK n \in Nat : n = Len(posted)
  BY <1>2
<1>4. PICK c \in 0..n : c = Cursor(a)
  BY <1>3 DEF MailTypes, Cursor
<1>5. SubSeq(posted, c + 1, n) \in Seq(P)
  <2>1. \A i \in 1..n : posted[i] \in P
    BY <1>2, <1>3, ElementOfSeq
  <2>2. \A i \in c + 1..n : posted[i] \in P
    BY <2>1
  <2>3. c + 1 \in Int /\ n \in Int
    OBVIOUS
  <2> QED
    BY <2>2, <2>3, SubSeqProperties
<1>6. Unheard(a) \in Seq(P)
  BY <1>3, <1>4, <1>5, AmongTyped DEF Unheard
<1>7. posted \in Seq(Mail) /\ Unheard(a) \in Seq(Mail)
  BY <1>1, <1>2, <1>6, SeqOfMore
<1> QED
  BY <1>1, <1>2, <1>3, <1>4, <1>5, <1>6, <1>7

LEMMA BroadcastSafe ==
    ASSUME TeamInv, NEW a \in Workers, Broadcast(a)
    PROVE  MailTypes' /\ BusAtRest' /\ MailKept'
<1>1. TeamTypes /\ BornTrue /\ MailTypes /\ MailKept
  BY DEF TeamInv
<1>2. /\ a \in Active /\ letters' = Append(letters, Letter(a, Everyone))
      /\ posted' = Append(posted, Letter(a, Everyone))
      /\ UNCHANGED <<teamStage, worker, born, mailbox, heard, got, epoch, leftover>>
  BY DEF Broadcast, Sends
<1>3. PICK L : L = Letter(a, Everyone)
  OBVIOUS
<1>4. /\ L \in Mail /\ L \in To(Everyone) /\ \A c : c # Everyone => L \notin To(c)
      /\ \A c : L \in NotFrom(c) <=> c # a
      /\ letters' \in Seq(Mail)
      /\ \A T : L \in T => Among(letters', T) = Append(Among(letters, T), L)
      /\ \A T : L \notin T => Among(letters', T) = Among(letters, T)
  BY <1>2, <1>3, LetterSent
<1>5. Workers' = Workers /\ Ours' = Ours /\ Mail' = Mail /\ Active' = Active
  BY <1>2 DEF Workers, Ours, Mail, Active
<1>6. posted \in Seq(Mail) /\ posted' = Append(posted, L)
  BY <1>1, <1>2, <1>3, UnheardIs
<1>l. L \in Mail
  BY <1>4
<1>p. posted \in Seq(Mail)
  BY <1>6
<1>q. Len(posted) \in Nat /\ Len(Append(posted, L)) = Len(posted) + 1
  BY <1>l, <1>p, AppendProperties
<1>7. PICK n \in Nat : n = Len(posted) /\ Len(posted') = n + 1
  BY <1>q, <1>6
<1>8. MailTypes'
  <2>1. posted' = Among(letters', To(Everyone))
    BY <1>1, <1>4, <1>6 DEF MailTypes
  <2>2. \A c \in DOMAIN heard : heard[c] \in 0..n + 1
    BY <1>1, <1>7 DEF MailTypes
  <2>3. /\ DOMAIN got' = Workers /\ \A c \in Workers : got'[c] \in Seq(Mail)
        /\ DOMAIN mailbox' \subseteq Workers /\ \A c \in DOMAIN mailbox' : mailbox'[c] \in Seq(Mail \cap To(c))
        /\ DOMAIN heard' \subseteq Workers /\ \A c \in DOMAIN heard' : heard'[c] \in 0..Len(posted')
    BY <1>1, <1>2, <1>7, <2>2 DEF MailTypes
  <2> QED
    BY <1>4, <1>5, <2>1, <2>3 DEF MailTypes
<1>9. BusAtRest'
  BY <1>1, <1>2, ActiveOurs DEF BusAtRest
<1>10. ASSUME NEW c \in Active
       PROVE  /\ Among(got[c], To(c)) \o Direct(c) = Among(letters', To(c))
              /\ Among(got[c], To(Everyone)) \o Unheard(c)' = Among(letters', To(Everyone) \cap NotFrom(c))
              /\ leftover \/ \A i \in DOMAIN got[c] : born[got[c][i].from][1] = born[c][1]
  <2>1. /\ Among(got[c], To(c)) \o Direct(c) = Among(letters, To(c))
        /\ Among(got[c], To(Everyone)) \o Unheard(c) = Among(letters, To(Everyone) \cap NotFrom(c))
        /\ leftover \/ \A i \in DOMAIN got[c] : born[got[c][i].from][1] = born[c][1]
    BY <1>1 DEF MailKept
  <2>2. c \in Workers /\ c # Everyone
    BY <1>1, ActiveOurs, WorkersAre DEF Everyone
  <2>3. Among(letters', To(c)) = Among(letters, To(c))
    BY <1>4, <2>2
  <2>4. PICK k \in 0..n : k = Cursor(c) /\ Cursor(c)' = k
    BY <1>1, <1>2, <1>7, UnheardIs DEF Cursor
  <2>5. PICK r \in Seq(Mail) : r = SubSeq(posted, k + 1, n) /\ SubSeq(posted', k + 1, n + 1) = Append(r, L)
    <3>1. n = Len(posted) /\ k \in 0..Len(posted)
      BY <1>7
    <3>2. /\ SubSeq(posted, k + 1, Len(posted)) \in Seq(Mail)
          /\ SubSeq(Append(posted, L), k + 1, Len(posted) + 1) = Append(SubSeq(posted, k + 1, Len(posted)), L)
      BY <1>l, <1>p, <3>1, RestAppend, ZenonT(30)
    <3> QED
      BY <1>6, <3>1, <3>2
  <2>6. Unheard(c) = Among(r, NotFrom(c)) /\ Unheard(c)' = Among(Append(r, L), NotFrom(c))
    BY <1>7, <2>4, <2>5 DEF Unheard
  <2>7. PICK x \in Seq(Mail), y \in Seq(Mail) : x = Among(got[c], To(Everyone)) /\ y = Among(r, NotFrom(c))
    <3>1. got[c] \in Seq(Mail)
      BY <1>1, <2>2 DEF MailTypes
    <3> QED
      BY <2>5, <3>1, AmongTyped
  <2>8. Among(Append(r, L), NotFrom(c)) = IF L \in NotFrom(c) THEN Append(y, L) ELSE y
    BY <1>l, <2>7, AmongAppend
  <2>9. x \o Unheard(c)' = Among(letters', To(Everyone) \cap NotFrom(c))
    <3>1. CASE c # a
      <4>1. L \in NotFrom(c) /\ L \in To(Everyone) \cap NotFrom(c)
        BY <1>4, <3>1
      <4>2. Unheard(c)' = Append(y, L)
        BY <2>6, <2>8, <4>1
      <4>3. x \o Append(y, L) = Append(x \o y, L)
        BY <1>4, <2>7, AppendLast
      <4>4. Among(letters', To(Everyone) \cap NotFrom(c)) = Append(Among(letters, To(Everyone) \cap NotFrom(c)), L)
        BY <1>4, <4>1
      <4>5. x \o y = Among(letters, To(Everyone) \cap NotFrom(c))
        BY <2>1, <2>6, <2>7
      <4> QED
        BY <4>2, <4>3, <4>4, <4>5
    <3>2. CASE c = a
      <4>1. L \notin NotFrom(c) /\ L \notin To(Everyone) \cap NotFrom(c)
        BY <1>4, <3>2
      <4>2. Unheard(c)' = y
        BY <2>6, <2>8, <4>1
      <4>3. Among(letters', To(Everyone) \cap NotFrom(c)) = Among(letters, To(Everyone) \cap NotFrom(c))
        BY <1>4, <4>1
      <4> QED
        BY <2>1, <2>6, <2>7, <4>2, <4>3
    <3> QED
      BY <3>1, <3>2
  <2> QED
    BY <2>1, <2>3, <2>7, <2>9
<1>11. MailKept'
  <2>1. \A c : Direct(c)' = Direct(c)
    BY <1>2 DEF Direct
  <2> QED
    BY <1>2, <1>5, <1>10, <2>1 DEF MailKept
<1> QED
  BY <1>8, <1>9, <1>11

\* What is sent together is told apart by whom it is for.
LEMMA AmongReceived ==
    ASSUME NEW A, NEW b, b # Everyone, NEW g \in Seq(A), NEW d \in Seq(A \cap To(b)),
           NEW u \in Seq(A \cap To(Everyone))
    PROVE  /\ g \o d \o u \in Seq(A)
           /\ Among(g \o d \o u, To(b)) = Among(g, To(b)) \o d
           /\ Among(g \o d \o u, To(Everyone)) = Among(g, To(Everyone)) \o u
<1>1. d \in Seq(A) /\ u \in Seq(A) /\ g \o d \in Seq(A) /\ g \o d \o u \in Seq(A)
  <2>1. d \in Seq(A) /\ u \in Seq(A)
    BY SeqOfMore
  <2> QED
    BY <2>1, ConcatProperties
<1>2. \A T : Among(g \o d \o u, T) = Among(g \o d, T) \o Among(u, T)
  BY <1>1, AmongConcat
<1>3. \A T : Among(g \o d, T) = Among(g, T) \o Among(d, T)
  BY <1>1, AmongConcat
<1>4. /\ A \cap To(b) \subseteq To(b) /\ A \cap To(Everyone) \subseteq To(Everyone)
      /\ (A \cap To(b)) \cap To(Everyone) = {} /\ (A \cap To(Everyone)) \cap To(b) = {}
  BY ToOne
<1>5. Among(d, To(b)) = d /\ Among(u, To(Everyone)) = u
  BY <1>4, AmongAll
<1>6. Among(d, To(Everyone)) = <<>> /\ Among(u, To(b)) = <<>>
  BY <1>4, AmongNone
<1>7. PICK x \in Seq(A), y \in Seq(A) : x = Among(g, To(b)) /\ y = Among(g, To(Everyone))
  BY AmongTyped
<1>8. x \o d \in Seq(A) /\ (x \o d) \o <<>> = x \o d /\ y \o <<>> = y
  BY <1>1, ConcatProperties, ConcatEmptySeq
<1>9. Among(g \o d \o u, To(b)) = x \o d
  BY <1>2, <1>3, <1>5, <1>6, <1>7, <1>8
<1>10. Among(g \o d \o u, To(Everyone)) = y \o u
  BY <1>2, <1>3, <1>5, <1>6, <1>7, <1>8
<1> QED
  BY <1>1, <1>7, <1>9, <1>10

LEMMA ReceiveSafe ==
    ASSUME TeamInv, NEW a \in Workers, Receive(a)
    PROVE  MailTypes' /\ BusAtRest' /\ MailKept'
<1>1. TeamTypes /\ BornTrue /\ MailTypes /\ MailKept
  BY DEF TeamInv
<1>2. /\ a \in Active /\ got' = [got EXCEPT ![a] = got[a] \o Direct(a) \o Unheard(a)]
      /\ mailbox' = [b \in DOMAIN mailbox \ {a} |-> mailbox[b]] /\ heard' = Extended(heard, a, Len(posted))
      /\ UNCHANGED <<teamStage, worker, born, posted, letters, epoch, leftover>>
  BY DEF Receive
<1>3. Workers' = Workers /\ Ours' = Ours /\ Mail' = Mail /\ Active' = Active
  BY <1>2 DEF Workers, Ours, Mail, Active
<1>4. a # Everyone
  BY <1>1, WorkersAre DEF Everyone
<1>5. PICK g, D, U : g = got[a] /\ D = Direct(a) /\ U = Unheard(a)
  OBVIOUS
<1>6. g \in Seq(Mail) /\ D \in Seq(Mail \cap To(a)) /\ U \in Seq(Mail \cap To(Everyone)) /\ U \in Seq(Mail)
  BY <1>1, <1>5, DirectIs, UnheardIs DEF MailTypes
<1>7. PICK h : h = g \o D \o U
  OBVIOUS
<1>8. /\ h \in Seq(Mail) /\ Among(h, To(a)) = Among(g, To(a)) \o D
      /\ Among(h, To(Everyone)) = Among(g, To(Everyone)) \o U
  <2>1. PICK M : M = Mail
    OBVIOUS
  <2>2. g \in Seq(M) /\ D \in Seq(M \cap To(a)) /\ U \in Seq(M \cap To(Everyone))
    BY <1>6, <2>1
  <2>3. /\ g \o D \o U \in Seq(M)
        /\ Among(g \o D \o U, To(a)) = Among(g, To(a)) \o D
        /\ Among(g \o D \o U, To(Everyone)) = Among(g, To(Everyone)) \o U
    BY <1>4, <2>2, AmongReceived, SMTT(30)
  <2> QED
    BY <1>7, <2>1, <2>3
<1>9. DOMAIN got' = Workers /\ got'[a] = h /\ \A c \in Workers : c # a => got'[c] = got[c]
  <2>1. got' = [got EXCEPT ![a] = h] /\ DOMAIN got = Workers
    BY <1>1, <1>2, <1>5, <1>7 DEF MailTypes
  <2> QED
    BY <2>1
<1>10. DOMAIN mailbox' = DOMAIN mailbox \ {a} /\ \A c \in DOMAIN mailbox' : mailbox'[c] = mailbox[c]
  BY <1>2
<1>11. DOMAIN heard' = DOMAIN heard \cup {a} /\ heard'[a] = Len(posted)
       /\ \A c \in DOMAIN heard : c # a => heard'[c] = heard[c]
  <2>1. heard' = [c \in DOMAIN heard \cup {a} |-> IF c = a THEN Len(posted) ELSE heard[c]]
    BY <1>2 DEF Extended
  <2> QED
    BY <2>1
<1>12. posted \in Seq(Mail) /\ Len(posted) \in Nat
  <2>1. posted \in Seq(Mail)
    BY <1>1, UnheardIs
  <2> QED
    BY <2>1, LenProperties
<1>13. MailTypes'
  <2>1. letters' \in Seq(Mail) /\ posted' = Among(letters', To(Everyone))
    BY <1>1, <1>2 DEF MailTypes
  <2>2. \A c \in Workers : got'[c] \in Seq(Mail)
    <3>1. \A c \in Workers : got[c] \in Seq(Mail)
      BY <1>1 DEF MailTypes
    <3> QED
      BY <1>8, <1>9, <3>1
  <2>3. DOMAIN mailbox' \subseteq Workers /\ \A c \in DOMAIN mailbox' : mailbox'[c] \in Seq(Mail \cap To(c))
    BY <1>1, <1>10 DEF MailTypes
  <2>4. DOMAIN heard' \subseteq Workers /\ \A c \in DOMAIN heard' : heard'[c] \in 0..Len(posted')
    <3>1. DOMAIN heard \subseteq Workers /\ \A c \in DOMAIN heard : heard[c] \in 0..Len(posted)
      BY <1>1 DEF MailTypes
    <3>2. Len(posted) \in 0..Len(posted) /\ Len(posted') = Len(posted)
      BY <1>2, <1>12
    <3> QED
      BY <1>11, <3>1, <3>2
  <2> QED
    BY <1>3, <1>9, <2>1, <2>2, <2>3, <2>4 DEF MailTypes
<1>14. BusAtRest'
  BY <1>1, <1>2, ActiveOurs DEF BusAtRest
<1>15. ASSUME NEW c \in Active
       PROVE  /\ Among(got'[c], To(c)) \o Direct(c)' = Among(letters, To(c))
              /\ Among(got'[c], To(Everyone)) \o Unheard(c)' = Among(letters, To(Everyone) \cap NotFrom(c))
              /\ leftover \/ \A i \in DOMAIN got'[c] : born[got'[c][i].from][1] = born[c][1]
  <2>1. /\ Among(got[c], To(c)) \o Direct(c) = Among(letters, To(c))
        /\ Among(got[c], To(Everyone)) \o Unheard(c) = Among(letters, To(Everyone) \cap NotFrom(c))
        /\ leftover \/ \A i \in DOMAIN got[c] : born[got[c][i].from][1] = born[c][1]
    BY <1>1 DEF MailKept
  <2>2. c \in Workers
    BY DEF Active
  <2>3. CASE c = a
    <3>1. Direct(c)' = <<>>
      BY <1>10, <2>3 DEF Direct
    <3>2. Unheard(c)' = <<>>
      <4>1. Cursor(c)' = Len(posted)
        BY <1>11, <2>3 DEF Cursor
      <4>2. SubSeq(posted, Len(posted) + 1, Len(posted)) = <<>>
        BY <1>12, SubSeqEmpty
      <4>3. Unheard(c)' = Among(SubSeq(posted, Len(posted) + 1, Len(posted)), NotFrom(c))
        BY <1>2, <4>1 DEF Unheard
      <4> QED
        BY <4>2, <4>3, AmongEmpty
    <3>3. PICK x \in Seq(Mail), y \in Seq(Mail) : x = Among(h, To(a)) /\ y = Among(h, To(Everyone))
      BY <1>8, AmongTyped
    <3>4. x \o <<>> = x /\ y \o <<>> = y
      BY ConcatEmptySeq
    <3>5. x = Among(letters, To(c)) /\ y = Among(letters, To(Everyone) \cap NotFrom(c))
      BY <1>5, <1>8, <2>1, <2>3, <3>3
    <3>6. leftover \/ \A i \in DOMAIN h : born[h[i].from][1] = born[a][1]
      <4>1. ASSUME ~leftover, NEW i \in DOMAIN h PROVE born[h[i].from][1] = born[a][1]
        <5>1. h[i] \in Mail
          BY <1>8, LenProperties, ElementOfSeq
        <5>2. h[i].from \in Ours
          BY <5>1 DEF Mail
        <5>3. born[h[i].from][1] = epoch[1]
          BY <4>1, <5>2 DEF Ours
        <5>4. a \in Ours
          BY <1>1, <1>2, ActiveOurs
        <5> QED
          BY <4>1, <5>3, <5>4 DEF Ours
      <4> QED
        BY <4>1
    <3> QED
      BY <1>9, <2>3, <3>1, <3>2, <3>3, <3>4, <3>5, <3>6
  <2>4. CASE c # a
    <3>1. got'[c] = got[c]
      BY <1>9, <2>2, <2>4
    <3>2. Direct(c)' = Direct(c)
      BY <1>10, <2>4 DEF Direct
    <3>3. Cursor(c)' = Cursor(c)
      BY <1>11, <2>4 DEF Cursor
    <3>4. Unheard(c)' = Unheard(c)
      BY <1>2, <3>3 DEF Unheard
    <3>5. PICK z : z = got[c] /\ z = got'[c]
      BY <3>1
    <3>6. leftover \/ \A i \in DOMAIN z : born[z[i].from][1] = born[c][1]
      BY <2>1, <3>5
    <3>7. leftover \/ \A i \in DOMAIN got'[c] : born[got'[c][i].from][1] = born[c][1]
      BY <3>5, <3>6
    <3> QED
      BY <2>1, <3>1, <3>2, <3>4, <3>7
  <2> QED
    BY <2>3, <2>4
<1>16. MailKept'
  BY <1>2, <1>3, <1>15 DEF MailKept
<1> QED
  BY <1>13, <1>14, <1>16

\* A worker that has ended receives nothing any more.
LEMMA EndSafe ==
    ASSUME TeamInv, NEW a \in Workers, NEW resolved \in BOOLEAN, WorkerEnds(a, resolved)
    PROVE  MailTypes' /\ BusAtRest' /\ MailKept'
<1>1. TeamTypes /\ MailTypes /\ MailKept /\ BusAtRest
  BY DEF TeamInv
<1>2. /\ got' = [got EXCEPT ![a] = <<>>]
      /\ UNCHANGED <<teamStage, born, mailbox, posted, heard, letters, epoch, leftover>>
  BY DEF WorkerEnds
<1>3. Workers' = Workers /\ worker'[a].at = "over" /\ \A c \in Workers : worker'[c].at = "runs" => worker[c].at = "runs"
  BY <1>1, EndsGoOn DEF WorkersGoOn
<1>4. Ours' = Ours /\ Mail' = Mail
  BY <1>2, <1>3 DEF Ours, Mail
<1>5. DOMAIN got' = Workers /\ got'[a] = <<>> /\ \A c \in Workers : c # a => got'[c] = got[c]
  <2>1. DOMAIN got = Workers
    BY <1>1 DEF MailTypes
  <2> QED
    BY <1>2, <2>1
<1>6. MailTypes'
  <2>1. PICK e : e = <<>> /\ e \in Seq(Mail)
    BY EmptySeq
  <2>2. \A c \in Workers : got[c] \in Seq(Mail)
    BY <1>1 DEF MailTypes
  <2>3. \A c \in Workers : got'[c] \in Seq(Mail)
    BY <1>5, <2>1, <2>2
  <2> QED
    BY <1>1, <1>2, <1>3, <1>4, <1>5, <2>3 DEF MailTypes
<1>7. BusAtRest'
  BY <1>1, <1>2, <1>3, <1>5 DEF BusAtRest
<1>8. ASSUME NEW c \in Active' PROVE c \in Active /\ c \in Workers /\ c # a
  BY <1>3 DEF Active
<1>9. ASSUME NEW c \in Active'
      PROVE  /\ Among(got'[c], To(c)) \o Direct(c)' = Among(letters', To(c))
             /\ Among(got'[c], To(Everyone)) \o Unheard(c)' = Among(letters', To(Everyone) \cap NotFrom(c))
             /\ leftover' \/ \A i \in DOMAIN got'[c] : born'[got'[c][i].from][1] = born'[c][1]
  <2>1. got'[c] = got[c] /\ c \in Active
    BY <1>5, <1>8
  <2>2. Direct(c)' = Direct(c) /\ Unheard(c)' = Unheard(c)
    BY <1>2 DEF Direct, Unheard, Cursor
  <2>3. /\ Among(got[c], To(c)) \o Direct(c) = Among(letters, To(c))
        /\ Among(got[c], To(Everyone)) \o Unheard(c) = Among(letters, To(Everyone) \cap NotFrom(c))
        /\ leftover \/ \A i \in DOMAIN got[c] : born[got[c][i].from][1] = born[c][1]
    BY <1>1, <2>1 DEF MailKept
  <2> QED
    BY <1>2, <2>1, <2>2, <2>3
<1>10. MailKept'
  BY <1>9 DEF MailKept
<1> QED
  BY <1>6, <1>7, <1>10

\* A worker that is new has received nothing and hears all that was said.
LEMMA SpawnNewMail ==
    ASSUME TeamInv, NEW s, NEW task \in Works, NEW redundantly, SpawnNew(s, task, redundantly)
    PROVE  MailTypes' /\ BusAtRest' /\ MailKept'
<1>1. TeamTypes /\ MailTypes /\ MailKept
  BY DEF TeamInv
<1>2. PICK a : a = Len(worker) + 1
  OBVIOUS
<1>3. /\ a \notin Workers /\ Workers' = Workers \cup {a}
      /\ \A b \in Workers : worker'[b] = worker[b]
  BY <1>1, <1>2, SpawnNewWorker DEF SpawnNew
<1>4. /\ teamStage' = "runs" /\ born' = Extended(born, a, epoch) /\ got' = Extended(got, a, <<>>)
      /\ UNCHANGED <<mailbox, posted, heard, letters, epoch, leftover>>
  BY <1>2 DEF SpawnNew
<1>5. a # Everyone
  BY <1>1, <1>2, WorkersAre DEF Everyone
<1>6. DOMAIN got = Workers /\ DOMAIN born = Workers
  BY <1>1 DEF TeamTypes, MailTypes
<1>7. /\ DOMAIN got' = Workers' /\ got'[a] = <<>> /\ \A b \in Workers : got'[b] = got[b]
      /\ born'[a] = epoch /\ \A b \in Workers : born'[b] = born[b]
  <2>1. got' = [b \in Workers \cup {a} |-> IF b = a THEN <<>> ELSE got[b]]
    BY <1>4, <1>6 DEF Extended
  <2>2. born' = [b \in Workers \cup {a} |-> IF b = a THEN epoch ELSE born[b]]
    BY <1>4, <1>6 DEF Extended
  <2> QED
    BY <1>3, <2>1, <2>2
<1>8. Ours \subseteq Workers /\ Ours \subseteq Ours'
  BY <1>3, <1>4, <1>7 DEF Ours
<1>9. PICK M, N : M = Mail /\ N = Mail' /\ M \subseteq N
  BY <1>3, <1>8, MailWider
<1>10. MailTypes'
  <2>1. PICK e : e = <<>> /\ e \in Seq(N)
    BY EmptySeq
  <2>2. letters \in Seq(M) /\ (\A b \in Workers : got[b] \in Seq(M))
        /\ \A b \in DOMAIN mailbox : mailbox[b] \in Seq(M \cap To(b))
    BY <1>1, <1>9 DEF MailTypes
  <2>3. letters \in Seq(N) /\ (\A b \in Workers : got[b] \in Seq(N))
        /\ \A b \in DOMAIN mailbox : mailbox[b] \in Seq(N \cap To(b))
    <3>1. \A b : M \cap To(b) \subseteq N \cap To(b)
      BY <1>9
    <3> QED
      BY <1>9, <2>2, <3>1, SeqOfMore
  <2>4. \A b \in Workers' : got'[b] \in Seq(N)
    BY <1>3, <1>7, <2>1, <2>3
  <2>5. posted' = Among(letters', To(Everyone)) /\ DOMAIN mailbox' \subseteq Workers' /\ DOMAIN heard' \subseteq Workers'
        /\ \A b \in DOMAIN heard' : heard'[b] \in 0..Len(posted')
    BY <1>1, <1>3, <1>4 DEF MailTypes
  <2>6. letters' \in Seq(N) /\ \A b \in DOMAIN mailbox' : mailbox'[b] \in Seq(N \cap To(b))
    BY <1>4, <2>3
  <2> QED
    BY <1>7, <1>9, <2>4, <2>5, <2>6 DEF MailTypes
<1>11. BusAtRest'
  BY <1>4 DEF BusAtRest
<1>12. ASSUME NEW c \in Active'
       PROVE  /\ Among(got'[c], To(c)) \o Direct(c)' = Among(letters, To(c))
              /\ Among(got'[c], To(Everyone)) \o Unheard(c)' = Among(letters, To(Everyone) \cap NotFrom(c))
              /\ leftover \/ \A i \in DOMAIN got'[c] : born'[got'[c][i].from][1] = born'[c][1]
  <2>1. Direct(c)' = Direct(c) /\ Unheard(c)' = Unheard(c)
    BY <1>4 DEF Direct, Unheard, Cursor
  <2>2. CASE c = a
    <3>1. got'[c] = <<>>
      BY <1>7, <2>2
    <3>2. Direct(c) = <<>>
      <4>1. a \notin DOMAIN mailbox
        BY <1>1, <1>3 DEF MailTypes
      <4> QED
        BY <2>2, <4>1 DEF Direct
    <3>3. Among(letters, To(a)) = <<>>
      <4>1. M \cap To(a) = {}
        <5>1. \A m \in M : m.to \in Workers \cup {Everyone}
          BY <1>9 DEF Mail
        <5> QED
          BY <1>3, <1>5, <5>1, ToOne
      <4>2. letters \in Seq(M)
        BY <1>1, <1>9 DEF MailTypes
      <4> QED
        BY <4>1, <4>2, AmongNone
    <3>4. Unheard(c) = Among(letters, To(Everyone) \cap NotFrom(a))
      <4>1. a \notin DOMAIN heard
        BY <1>1, <1>3 DEF MailTypes
      <4>2. Unheard(c) = Among(SubSeq(posted, 1, Len(posted)), NotFrom(a))
        BY <2>2, <4>1 DEF Unheard, Cursor
      <4>3. SubSeq(posted, 1, Len(posted)) = posted
        <5>1. posted \in Seq(Mail)
          BY <1>1, UnheardIs
        <5> QED
          BY <5>1, SubSeqFull
      <4>4. posted = Among(letters, To(Everyone)) /\ letters \in Seq(Mail)
        BY <1>1 DEF MailTypes
      <4>5. Among(Among(letters, To(Everyone)), NotFrom(a)) = Among(letters, To(Everyone) \cap NotFrom(a))
        BY <4>4, AmongAmong
      <4> QED
        BY <4>2, <4>3, <4>4, <4>5
    <3>5. PICK u \in Seq(Mail) : u = Unheard(c)
      BY <1>1, UnheardIs
    <3>6. <<>> \o u = u /\ <<>> \o <<>> = <<>>
      BY ConcatEmptySeq, EmptySeq
    <3>7. \A T : Among(<<>>, T) = <<>>
      BY AmongEmpty
    <3>8. Among(got'[c], To(c)) \o Direct(c)' = Among(letters, To(c))
      BY <2>1, <2>2, <3>1, <3>2, <3>3, <3>6, <3>7
    <3>9. Among(got'[c], To(Everyone)) \o Unheard(c)' = Among(letters, To(Everyone) \cap NotFrom(c))
      BY <2>1, <2>2, <3>1, <3>4, <3>5, <3>6, <3>7
    <3>10. DOMAIN got'[c] = {}
      BY <3>1
    <3> QED
      BY <3>8, <3>9, <3>10
  <2>3. CASE c \in Workers
    <3>1. c \in Active
      BY <1>3, <2>3 DEF Active
    <3>2. /\ Among(got[c], To(c)) \o Direct(c) = Among(letters, To(c))
          /\ Among(got[c], To(Everyone)) \o Unheard(c) = Among(letters, To(Everyone) \cap NotFrom(c))
          /\ leftover \/ \A i \in DOMAIN got[c] : born[got[c][i].from][1] = born[c][1]
      BY <1>1, <3>1 DEF MailKept
    <3>3. PICK z : z = got[c] /\ z = got'[c]
      BY <1>7, <2>3
    <3>4. leftover \/ \A i \in DOMAIN z : born'[z[i].from][1] = born'[c][1]
      <4>1. z \in Seq(M)
        BY <1>1, <1>9, <2>3, <3>3 DEF MailTypes
      <4>2. ASSUME NEW i \in DOMAIN z PROVE z[i].from \in Workers
        <5>1. z[i] \in M
          BY <4>1, LenProperties, ElementOfSeq
        <5> QED
          BY <5>1, <1>8, <1>9 DEF Mail
      <4>3. leftover \/ \A i \in DOMAIN z : born[z[i].from][1] = born[c][1]
        BY <3>2, <3>3
      <4>4. born'[c] = born[c] /\ \A i \in DOMAIN z : born'[z[i].from] = born[z[i].from]
        BY <1>7, <2>3, <4>2
      <4> QED
        BY <4>3, <4>4
    <3>5. leftover \/ \A i \in DOMAIN got'[c] : born'[got'[c][i].from][1] = born'[c][1]
      BY <3>3, <3>4
    <3> QED
      BY <2>1, <3>2, <3>3, <3>5
  <2>4. c \in Workers \cup {a}
    BY <1>3 DEF Active
  <2> QED
    BY <2>2, <2>3, <2>4
<1>13. MailKept'
  BY <1>4, <1>12 DEF MailKept
<1> QED
  BY <1>10, <1>11, <1>13

LEMMA CleanedUpMail ==
    ASSUME TeamInv, CleanedUp
    PROVE  MailTypes' /\ BusAtRest' /\ MailKept'
<1>1. Workers' = Workers /\ \A a \in Workers : worker'[a].at = "over"
  BY CleanedUpPlan
<1>2. /\ mailbox' = <<>> /\ posted' = <<>> /\ heard' = <<>> /\ letters' = <<>>
      /\ got' = [a \in Workers |-> <<>>]
  BY DEF CleanedUp
<1>3. DOMAIN mailbox' = {} /\ DOMAIN heard' = {}
  BY <1>2
<1>4. DOMAIN got' = Workers /\ \A a \in Workers : got'[a] = <<>>
  BY <1>2
<1>5. MailTypes'
  <2>1. PICK e, N : e = <<>> /\ N = Mail' /\ e \in Seq(N)
    BY EmptySeq
  <2>2. posted' = Among(letters', To(Everyone))
    BY <1>2, AmongEmpty
  <2>3. letters' \in Seq(N) /\ \A a \in Workers : got'[a] \in Seq(N)
    BY <1>2, <1>4, <2>1
  <2> QED
    BY <1>1, <1>3, <1>4, <2>1, <2>2, <2>3 DEF MailTypes
<1>6. BusAtRest'
  BY <1>1, <1>2, <1>3, <1>4 DEF BusAtRest
<1>7. MailKept'
  <2>1. Active' = {}
    BY <1>1 DEF Active
  <2> QED
    BY <2>1 DEF MailKept
<1> QED
  BY <1>5, <1>6, <1>7

-----------------------------------------------------------------------------
LEMMA TeamStarts == PlanningInit => TeamInv
<1>1. SUFFICES ASSUME NEW limits \in Scopes, PlanningStart(limits) PROVE TeamInv
  BY DEF PlanningInit
<1>e. PICK e : e = <<>>
  OBVIOUS
<1>2. e = <<>> /\ DOMAIN e = {} /\ \A A : e \in Seq(A)
  <2>1. DOMAIN e = {}
    BY <1>e
  <2>2. \A A : e \in Seq(A)
    BY <1>e, EmptySeq
  <2> QED
    BY <1>e, <2>1, <2>2
<1>3. /\ scope \in Scopes /\ worker = e /\ born = e /\ got = e /\ letters = e /\ posted = <<>> /\ mailbox = e
      /\ heard = e /\ agentOf = e /\ waited = {} /\ teamStage = "idle" /\ leftover = FALSE
      /\ epoch = <<0, 0>> /\ allowance = [limit |-> 0, strict |-> FALSE, nudges |-> 0] /\ letters = <<>>
  BY <1>1, <1>2 DEF PlanningStart
<1>4. Workers = {}
  BY <1>2, <1>3 DEF Workers
<1>5. TeamTypes
  <2>1. IsFiniteSet(DOMAIN agentOf)
    BY <1>2, <1>3, FS_EmptySet
  <2>2. epoch \in Nat \X Nat /\ allowance \in [limit : Nat, strict : BOOLEAN, nudges : Nat]
    BY <1>3
  <2>3. worker \in Seq(WorkerRecords) /\ DOMAIN born = Workers /\ leftover \in BOOLEAN
    BY <1>2, <1>3, <1>4
  <2> QED
    BY <1>3, <1>4, <2>1, <2>2, <2>3 DEF TeamTypes
<1>6. MailTypes
  <2>1. posted = Among(letters, To(Everyone))
    BY <1>3, AmongEmpty
  <2>2. letters \in Seq(Mail) /\ DOMAIN got = Workers /\ DOMAIN mailbox = {} /\ DOMAIN heard = {}
    BY <1>2, <1>3, <1>4
  <2> QED
    BY <1>4, <2>1, <2>2 DEF MailTypes
<1>7. BornTrue /\ BusAtRest
  BY <1>2, <1>3, <1>4 DEF BornTrue, BusAtRest
<1>8. MailKept
  BY <1>4 DEF MailKept, Active
<1>9. PlanKept
  BY <1>3 DEF PlanKept
<1> QED
  BY <1>5, <1>6, <1>7, <1>8, <1>9 DEF TeamInv

\* The mail of a step that sends, receives and ends nothing.
LEMMA QuietMail ==
    ASSUME TeamInv, UNCHANGED <<busVars, born>>, MailGrows, Workers' = Workers,
           \A a \in Workers : worker'[a].at = "runs" => worker[a].at = "runs",
           leftover => leftover', teamStage' = "idle" /\ ~leftover' => teamStage = "idle"
    PROVE  MailTypes' /\ BusAtRest' /\ MailKept'
BY MailStill DEF TeamInv

LEMMA SameMail ==
    ASSUME TeamInv, UNCHANGED <<busVars, born, worker, leftover>>, epoch'[1] = epoch[1],
           teamStage' = "idle" => teamStage = "idle"
    PROVE  MailTypes' /\ BusAtRest' /\ MailKept'
<1>1. Workers' = Workers
  BY DEF Workers
<1>2. MailGrows
  BY <1>1, OursStay DEF MailGrows
<1> QED
  BY <1>1, <1>2, QuietMail

LEMMA TeamStays == TeamInv /\ UNCHANGED teamVars => TeamInv'
<1>1. SUFFICES ASSUME TeamInv, UNCHANGED teamVars PROVE TeamInv'
  OBVIOUS
<1>2. UNCHANGED <<scope, teamStage, allowance, plan, hasPlan, agentOf, waited, worker, born, busVars, epoch, leftover>>
  BY <1>1 DEF teamVars, declaredVars
<1>3. Workers' = Workers /\ Known' = Known
  BY <1>2 DEF Workers, Known
<1>4. TeamTypes' /\ BornTrue' /\ PlanKept'
  BY <1>1, <1>2, <1>3 DEF TeamInv, TeamTypes, BornTrue, PlanKept
<1>5. MailTypes' /\ BusAtRest' /\ MailKept'
  BY <1>1, <1>2, SameMail
<1> QED
  BY <1>4, <1>5 DEF TeamInv

LEMMA PlannerSafe ==
    ASSUME TeamInv, PlannerActs
    PROVE  TeamInv'
<1>1. ASSUME NEW limit \in scope.limits, NEW strict \in scope.strict, BeginTurn(limit, strict) PROVE TeamInv'
  <2>1. TeamTypes' /\ BornTrue' /\ PlanKept'
    BY <1>1, BeginTurnPlan
  <2>2. UNCHANGED <<busVars, born, worker, leftover>> /\ teamStage = "idle" /\ teamStage' = "runs"
    BY <1>1 DEF BeginTurn
  <2>3. Workers' = Workers
    BY <2>2 DEF Workers
  <2>4. MailGrows
    <3>1. CASE leftover
      BY <2>2, <2>3, <3>1 DEF MailGrows, Ours
    <3>2. CASE ~leftover
      BY <2>2, <3>2 DEF MailGrows, TeamInv, BusAtRest
    <3> QED
      BY <3>1, <3>2
  <2>5. MailTypes' /\ BusAtRest' /\ MailKept'
    BY <2>2, <2>3, <2>4, QuietMail
  <2> QED
    BY <2>1, <2>5 DEF TeamInv
<1>2. ASSUME NEW p \in scope.declared, PlanCreate(p) PROVE TeamInv'
  <2>1. TeamTypes' /\ BornTrue' /\ PlanKept'
    BY <1>2, PlanCreatePlan
  <2>2. epoch'[1] = epoch[1]
    BY <1>2 DEF PlanCreate, TeamInv, TeamTypes
  <2>3. MailTypes' /\ BusAtRest' /\ MailKept'
    BY <1>2, <2>2, SameMail DEF PlanCreate
  <2> QED
    BY <2>1, <2>3 DEF TeamInv
<1>3. ASSUME NEW s \in Steps, NEW w \in Works, SpawnRedundant(s, w) PROVE TeamInv'
  <2>1. TeamTypes' /\ BornTrue' /\ PlanKept'
    BY <1>3, RedundantPlan
  <2>2. MailTypes' /\ BusAtRest' /\ MailKept'
    BY <1>3, SameMail DEF SpawnRedundant
  <2> QED
    BY <2>1, <2>2 DEF TeamInv
<1>4. ASSUME NEW s \in Steps, NEW w \in Works, NEW r \in BOOLEAN, SpawnNew(s, w, r) PROVE TeamInv'
  BY <1>4, SpawnNewPlan, SpawnNewMail DEF TeamInv
<1>5. ASSUME (\E ids \in SUBSET Workers : AgentWaitReturns(ids)) \/ Remind \/ CompletePlanned PROVE TeamInv'
  <2>1. TeamTypes' /\ BornTrue' /\ PlanKept' /\ WorkersGoOn /\ TurnGoesOn
    BY <1>5, WithinPlan
  <2>2. UNCHANGED <<busVars, born, epoch, leftover>>
    BY <1>5 DEF AgentWaitReturns, Remind, CompletePlanned
  <2>3. Workers' = Workers /\ \A a \in Workers : worker'[a].at = "runs" => worker[a].at = "runs"
    BY <2>1 DEF WorkersGoOn
  <2>4. MailGrows
    BY <2>2, <2>3, OursStay DEF MailGrows
  <2>5. teamStage' = "idle" => teamStage = "idle"
    BY <2>1 DEF TurnGoesOn
  <2>6. MailTypes' /\ BusAtRest' /\ MailKept'
    BY <2>2, <2>3, <2>4, <2>5, QuietMail
  <2> QED
    BY <2>1, <2>6 DEF TeamInv
<1>6. ASSUME CleanedUp PROVE TeamInv'
  BY <1>6, CleanedUpPlan, CleanedUpMail DEF TeamInv
<1>7. ASSUME CleanupInterrupted PROVE TeamInv'
  <2>1. TeamTypes' /\ BornTrue' /\ PlanKept'
    BY <1>7, InterruptedPlan
  <2>2. UNCHANGED <<busVars, born, worker, epoch>> /\ leftover' = TRUE
    BY <1>7 DEF CleanupInterrupted
  <2>3. Workers' = Workers
    BY <2>2 DEF Workers
  <2>4. MailGrows
    BY <2>2, <2>3 DEF MailGrows, Ours
  <2>5. MailTypes' /\ BusAtRest' /\ MailKept'
    BY <2>2, <2>3, <2>4, QuietMail
  <2> QED
    BY <2>1, <2>5 DEF TeamInv
<1> QED
  BY <1>1, <1>2, <1>3, <1>4, <1>5, <1>6, <1>7 DEF PlannerActs

LEMMA WorkerSafe ==
    ASSUME TeamInv, NEW a \in Workers, WorkerActs(a)
    PROVE  TeamInv'
<1>1. ASSUME NEW b \in Workers, SendToAgent(a, b) PROVE TeamInv'
  BY <1>1, WithinPlan, SendSafe DEF TeamInv
<1>2. CASE Broadcast(a)
  BY <1>2, WithinPlan, BroadcastSafe DEF TeamInv
<1>3. CASE Receive(a)
  BY <1>3, WithinPlan, ReceiveSafe DEF TeamInv
<1>4. ASSUME NEW resolved \in BOOLEAN, WorkerEnds(a, resolved) PROVE TeamInv'
  BY <1>4, WithinPlan, EndSafe DEF TeamInv
<1> QED
  BY <1>1, <1>2, <1>3, <1>4 DEF WorkerActs

\* Whatever is planned, delegated, cut short and begun again, for any number of steps, workers,
\* turns and letters, the team keeps to its plan and gets its mail (PlannerState, AgentMessageBus).
THEOREM TeamHolds == PlanningSpec => []TeamKept
<1>1. TeamInv /\ [PlanningNext]_teamVars => TeamInv'
  BY TeamStays, PlannerSafe, WorkerSafe DEF PlanningNext
<1>2. TeamInv => TeamKept
  BY DEF TeamInv, TeamKept
<1> QED
  BY <1>1, <1>2, TeamStarts, PTL DEF PlanningSpec
===============================================================================
