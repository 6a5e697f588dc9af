--------------------------- MODULE AgentRunsProofs ----------------------------
(***************************************************************************)
(* Theorems about AgentRuns, for any number of requests.                   *)
(***************************************************************************)
EXTENDS AgentRuns, FiniteSetTheorems, SequenceTheorems, WellFoundedInduction, TLAPS

-----------------------------------------------------------------------------
(* Enumerations                                                            *)

Enumerates(s, S) ==
    /\ ToSet(s) = S
    /\ \A i, j \in DOMAIN s : i < j => s[i] < s[j]

LEMMA LeastNumber ==
    ASSUME NEW I \in SUBSET Nat, I # {}
    PROVE  \E x \in I : \A y \in I : x <= y
<1>1. \E x \in I : \A y \in I : <<y, x>> \notin OpToRel(<, Nat)
  BY NatLessThanWellFounded, WFMin
<1>2. PICK x \in I : \A y \in I : <<y, x>> \notin OpToRel(<, Nat)
  BY <1>1
<1>3. ASSUME NEW y \in I PROVE x <= y
  <2>1. <<y, x>> \in Nat \X Nat /\ <<y, x>>[1] = y /\ <<y, x>>[2] = x
    OBVIOUS
  <2>2. ~(y < x)
    BY <1>2, <2>1 DEF OpToRel
  <2>3. x \in Nat /\ y \in Nat
    OBVIOUS
  <2>4. QED
    BY <2>2, <2>3
<1>4. QED
  BY <1>3

LEMMA NumbersFinite ==
    ASSUME NEW b \in Nat, NEW S \in SUBSET (1..b)
    PROVE  IsFiniteSet(S) /\ Cardinality(S) \in Nat
<1>1. S \in SUBSET Nat /\ \A k \in S : k <= b
  OBVIOUS
<1>2. IsFiniteSet(S)
  BY <1>1, FS_BoundedSetOfNaturals
<1>3. QED
  BY <1>2, FS_CardinalityType

LEMMA GreatestNumber ==
    ASSUME NEW b \in Nat, NEW S \in SUBSET (1..b), S # {}
    PROVE  \E m \in S : \A k \in S : k <= m
<1> DEFINE I == {c \in Nat : \A k \in S : k <= c}
<1>1. PICK c \in I : \A y \in I : c <= y
  <2>1. b \in I /\ I \in SUBSET Nat
    OBVIOUS
  <2> QED BY <2>1, LeastNumber
<1>2. \E k \in S : ~(k <= c - 1)
  <2>1. CASE c = 0
    <3>1. PICK k \in S : TRUE
      OBVIOUS
    <3>2. k \in Nat /\ ~(k <= c - 1)
      BY <2>1, <3>1
    <3>3. QED
      BY <3>2
  <2>2. CASE c # 0
    <3>1. c - 1 \in Nat
      BY <2>2
    <3>2. c - 1 \notin I
      BY <1>1, <3>1
    <3>3. QED
      BY <3>1, <3>2
  <2>3. QED
    BY <2>1, <2>2
<1>3. QED
  BY <1>1, <1>2

\* There is an ascending enumeration: by the least size of a set that has none.
LEMMA EnumerationExists ==
    ASSUME NEW b \in Nat, NEW S \in SUBSET (1..b)
    PROVE  \E s \in [1..Cardinality(S) -> S] : Enumerates(s, S)
<1> DEFINE Sized(n) == {T \in SUBSET (1..b) : Cardinality(T) = n}
           Fine(T) == \E s \in [1..Cardinality(T) -> T] : Enumerates(s, T)
           Bad == {n \in Nat : \E T \in Sized(n) : ~Fine(T)}
<1>0. \A T \in SUBSET (1..b) : IsFiniteSet(T) /\ Cardinality(T) \in Nat
  BY NumbersFinite
<1>1. SUFFICES ASSUME Bad # {} PROVE FALSE
  BY <1>0
<1>2. PICK n \in Bad : \A k \in Bad : n <= k
  BY <1>1, LeastNumber
<1>3. PICK T \in Sized(n) : ~Fine(T)
  BY <1>2
<1>4. T # {}
  <2>1. SUFFICES ASSUME T = {} PROVE FALSE
    OBVIOUS
  <2>2. Cardinality(T) = 0
    BY <2>1, FS_EmptySet
  <2>3. <<>> \in [1..0 -> T] /\ Enumerates(<<>>, T)
    BY <2>1 DEF Enumerates, ToSet
  <2>4. QED
    BY <1>3, <2>2, <2>3
<1>5. PICK m \in T : \A k \in T : k <= m
  BY <1>3, <1>4, GreatestNumber
<1> DEFINE R == T \ {m}
<1>6. R \in SUBSET (1..b) /\ Cardinality(R) = n - 1 /\ n - 1 \in Nat
  <2>1. IsFiniteSet(R) /\ Cardinality(R) = Cardinality(T) - 1
    BY <1>0, <1>3, <1>5, FS_RemoveElement
  <2>2. Cardinality(R) \in Nat
    BY <1>0
  <2>3. QED
    BY <1>3, <2>1, <2>2
<1>7. PICK s \in [1..(n - 1) -> R] : Enumerates(s, R)
  <2>1. n - 1 \notin Bad
    BY <1>2, <1>6
  <2>2. R \in Sized(n - 1)
    BY <1>6
  <2> HIDE DEF R
  <2>3. Fine(R)
    BY <1>6, <2>1, <2>2
  <2>4. QED
    BY <1>6, <2>3
<1> DEFINE t == [i \in 1..n |-> IF i = n THEN m ELSE s[i]]
<1>8. n \in Nat /\ Cardinality(T) = n /\ T \in SUBSET (1..b) /\ n # 0
  BY <1>3, <1>6
<1>9. t \in [1..n -> T]
  BY <1>5, <1>7, <1>8
<1>10. Enumerates(t, T)
  <2>1. ToSet(s) = R /\ \A i, j \in 1..(n - 1) : i < j => s[i] < s[j]
    BY <1>7 DEF Enumerates
  <2>2. ASSUME NEW k \in T PROVE \E i \in 1..n : t[i] = k
    <3>1. CASE k = m
      BY <1>8, <3>1
    <3>2. CASE k # m
      <4>1. PICK i \in 1..(n - 1) : s[i] = k
        BY <2>1, <1>7, <3>2 DEF ToSet
      <4>2. i \in 1..n /\ i # n
        BY <1>8
      <4>3. QED
        BY <4>1, <4>2
    <3>3. QED
      BY <3>1, <3>2
  <2>3. \A i, j \in 1..n : i < j => t[i] < t[j]
    <3>1. SUFFICES ASSUME NEW i \in 1..n, NEW j \in 1..n, i < j PROVE t[i] < t[j]
      OBVIOUS
    <3>2. QED
      <4>1. i \in 1..(n - 1) /\ t[i] = s[i] /\ s[i] \in R
        BY <1>7, <1>8, <3>1
      <4>2. CASE j = n
        <5>0. s[i] \in T /\ s[i] # m /\ t[j] = m
          BY <4>1, <4>2
        <5>1. s[i] <= m /\ s[i] \in Nat /\ m \in Nat
          <6>1. \A k \in T : k \in Nat
            BY <1>8
          <6>2. QED
            BY <1>5, <5>0, <6>1
        <5>2. QED
          BY <4>1, <5>0, <5>1
      <4>3. CASE j # n
        <5>1. j \in 1..(n - 1) /\ t[j] = s[j]
          BY <1>8, <4>3
        <5>2. QED
          BY <2>1, <3>1, <4>1, <5>1
      <4>4. QED
        BY <4>2, <4>3
  <2>4. ToSet(t) = T
    BY <2>2, <1>9, ZenonT(30) DEF ToSet
  <2>5. QED
    BY <2>3, <2>4, <1>9 DEF Enumerates
<1>11. QED
  BY <1>3, <1>8, <1>9, <1>10

LEMMA PositionsEnumerate ==
    ASSUME NEW b \in Nat, NEW S \in SUBSET (1..b)
    PROVE  /\ Positions(S) \in Seq(Nat) /\ ToSet(Positions(S)) = S
           /\ \A i, j \in DOMAIN Positions(S) : i < j => Positions(S)[i] < Positions(S)[j]
<1>1. Cardinality(S) \in Nat
  BY NumbersFinite
<1>2. Positions(S) \in [1..Cardinality(S) -> S] /\ Enumerates(Positions(S), S)
  BY EnumerationExists DEF Positions, Enumerates
<1>3. Positions(S) \in Seq(Nat)
  <2>1. \A i \in 1..Cardinality(S) : Positions(S)[i] \in Nat
    <3>1. \A k \in S : k \in Nat
      OBVIOUS
    <3>2. QED
      BY <1>2, <3>1
  <2>2. Positions(S) \in [1..Cardinality(S) -> Nat]
    BY <1>2, <2>1
  <2>3. QED
    BY <1>1, <2>2
<1>4. QED
  BY <1>2, <1>3 DEF Enumerates

-----------------------------------------------------------------------------
(* The inductive invariant                                                 *)

Events == [run : Runs, what : {"start", "end", "cut"}]
Statuses == Terminal \cup {"none", "queued", "running"}

\* The types that RunsTypeOK leaves out.
StreamsTypeOK ==
    /\ known \in [Stoppers \cup Streamers -> Statuses]
    /\ log \in [Creators -> Seq(Events)] /\ persisted \in [Creators -> Nat]
    /\ \A c \in Creators : persisted[c] <= Len(log[c])
    /\ view \in [Streamers -> Seq(Nat)] /\ next \in [Streamers -> Nat \cup {-1}]
    /\ begun \in [Streamers -> BOOLEAN] /\ crashed \in BOOLEAN

\* Where a request of each kind can be.
CallsOK ==
    /\ \A q \in Creators : call[q] \in {"absent", "idle", "making", "recording", "undoing",
                                         "installing", "locale", "answered"}
    /\ \A m \in Messagers : call[m] \in {"absent", "idle", "locking", "recording", "answered"}
    /\ \A x \in Stoppers : call[x] \in {"absent", "idle", "looking", "marking", "forcing",
                                         "awaiting", "answered", "failed"}
    /\ \A s \in Streamers : call[s] \in {"absent", "idle", "history", "subscribing", "checking",
                                          "live", "answered"}

\* A run has a row from the moment its request records it, and a task only with a row; who
\* loses the race for a key finds the winner's row.
Unrecorded == {"absent", "idle", "making", "recording", "undoing", "locking"}
RowsInv ==
    /\ \A q \in Runs : call[q] \in Unrecorded => status[q] = "none"
    /\ \A q \in Creators : call[q] \in {"installing", "locale"} => status[q] # "none"
    /\ \A q \in Creators : call[q] = "undoing" => SameKey(q) # {}
    /\ \A q \in Runs : stage[q] # "none" => call[q] = "answered" /\ status[q] # "none"
    /\ \A x \in Stoppers \cup Streamers :
          call[x] \notin {"absent", "idle", "answered", "failed"} => status[Subject[x]] # "none"

\* A run that is over in the database while its task may still record it was cancelled by a
\* stopper that has read it unfinished, or its task was stopped by one that waits for it, or
\* its task is about to call it failed.
Ongoing(r) == stage[r] \notin {"none", "done", "broken"}
Unsettled(x) == known[x] \in {"queued", "running"}
Excused(r) ==
    \/ stage[r] = "marking" /\ result[r] = "failed"
    \/ \E x \in Stoppers :
        /\ Unsettled(x)
        /\ \/ Subject[x] = r /\ call[x] \in {"answered", "failed"}
           \/ forced[x] = r /\ call[x] = "awaiting" /\ stage[r] # "none"
OutcomeInv ==
    /\ \A r \in Runs : stage[r] \in {"finishing", "marking"} => result[r] \in Terminal
    /\ \A x \in Stoppers : call[x] = "looking" => known[x] # "none"
    /\ \A x \in Stoppers : call[x] \in {"marking", "forcing", "awaiting"} => Unsettled(x)
    /\ \A x \in Stoppers : call[x] \in {"forcing", "awaiting"} =>
          forced[x] \in Runs /\ stage[forced[x]] # "none"
    /\ \A r \in stopping : Ongoing(r) /\ \E x \in Stoppers : forced[x] = r /\ call[x] = "awaiting"
    /\ \A r \in Runs : status[r] \in Terminal /\ stage[r] \notin {"done", "broken"} => Excused(r)

RunsInv == RunsTypeOK /\ StreamsTypeOK /\ CallsOK /\ RowsInv /\ OutcomeInv /\ RunPerKey

-----------------------------------------------------------------------------
(* One turn at a time, and what the streams show of it                     *)

\* Of requests that repeat a create, one is answered while the first still looks up its
\* locale; a message sent on that answer comes early.
InThread(m) == call[m] \in {"locking", "recording"} \/ Ongoing(m)
ApartInv == \A m \in Messagers : InThread(m) => call[Thread[m]] = "answered" \/ Thread[m] \in early

\* Whoever holds the lock of a conversation to start a turn finds none; and a turn that goes
\* on is the one the entry knows, unless a message came early.
TurnsInv ==
    /\ \A c \in Creators : turnTask[c] # NoRun => ThreadOf(turnTask[c]) = c
    /\ \A m \in Messagers : call[m] = "recording" =>
          /\ holder[Thread[m]] = m
          /\ TaskDone(turnTask[Thread[m]]) \/ Thread[m] \in early
    /\ \A r \in Runs : stage[r] = "routing" => holder[ThreadOf(r)] = r
    /\ \A r \in Runs : Ongoing(r) => turnTask[ThreadOf(r)] = r \/ ThreadOf(r) \in early

Ends(e, r) == e.run = r /\ e.what \in {"end", "cut"}
EndsIn(events, r, f, i) == \E j \in f + 1..i - 1 : Ends(events[j], r)

\* Between the start of a run and an event of another is the end of the first, unless a
\* message came early.
LogInv ==
    /\ \A c \in Creators : \A i \in 1..Len(log[c]) : ThreadOf(log[c][i].run) = c
    /\ crashed \/ \A c \in Creators \ early : \A f \in 1..Len(log[c]) :
          log[c][f].what = "start" =>
            /\ \A i \in f + 1..Len(log[c]) :
                  log[c][i].run # log[c][f].run => EndsIn(log[c], log[c][f].run, f, i)
            /\ \/ stage[log[c][f].run] = "loop"
               \/ EndsIn(log[c], log[c][f].run, f, Len(log[c]) + 1)

Ascending(s) == \A i, j \in DOMAIN s : i < j => s[i] < s[j]
BegunBy(s, n) ==
    LET events == log[ThreadOf(Subject[s])]
    IN  \E f \in 1..Len(events) : f <= n /\ events[f] = [run |-> Subject[s], what |-> "start"]
EarlierPart(s, n) == {i \in History(ThreadOf(Subject[s]), Subject[s]) : i <= n}
ShownOf(s) == ToSet(view[s])

\* A view is ascending, and of what is in the log; before the stream is live it is what the
\* history was, up to some event; and whatever is shown comes after the start of the run.
ViewOf(s) ==
    LET events == log[ThreadOf(Subject[s])] IN
    /\ Ascending(view[s])
    /\ \A i \in ShownOf(s) : i \in 1..Len(events)
    /\ crashed \/ ThreadOf(Subject[s]) \in early \/ \A i \in ShownOf(s) :
          events[i].run # Subject[s] => \E j \in 1..i - 1 : Ends(events[j], Subject[s])
    /\ call[s] \in {"subscribing", "checking"} =>
          \E n \in 0..persisted[ThreadOf(Subject[s])] : ShownOf(s) = EarlierPart(s, n)
    /\ call[s] = "subscribing" /\ begun[s] => BegunBy(s, Len(events))
    /\ call[s] \in {"checking", "live"} =>
          /\ next[s] \in 0..Len(events) /\ \A i \in ShownOf(s) : i <= next[s]
          /\ begun[s] => BegunBy(s, next[s])
ViewInv == \A s \in Streamers : ViewOf(s)

StreamsInv == ApartInv /\ TurnsInv /\ LogInv /\ ViewInv

-----------------------------------------------------------------------------
(* The steps: types, rows, keys                                            *)

LEMMA ReusedRun ==
    ASSUME NEW q \in Runs, SameKey(q) # {}
    PROVE  \/ Reused(q) = "conflict"
           \/ Reused(q) \in SameKey(q) /\ SameOperation(q, Reused(q))
BY DEF Reused

LEMMA ThreadTyped == \A r \in Runs : ThreadOf(r) \in Creators
BY RunsAssumption DEF ThreadOf, Runs

LEMMA TypeStep ==
    ASSUME RunsTypeOK, CallsOK, RowsInv, StreamsTypeOK, RunsNext
    PROVE  RunsTypeOK' /\ CallsOK'
<1> USE RunsAssumption
<1>1. ASSUME NEW q \in Creators, CreateLook(q) PROVE RunsTypeOK' /\ CallsOK'
  BY <1>1, ReusedRun
  DEF CreateLook, Reply, Goto, SameKey, RunsTypeOK, CallsOK, Runs, Callers, Terminal, Replies, taskVars,
      requestVars, eventVars, streamVs
<1>2. ASSUME NEW q \in Creators, CreateThread(q) PROVE RunsTypeOK' /\ CallsOK'
  BY <1>2
  DEF CreateThread, Goto, RunsTypeOK, CallsOK, Runs, Callers, Terminal, Replies, taskVars, requestVars,
      eventVars, streamVs
<1>3. ASSUME NEW q \in Creators, CreateRecord(q) PROVE RunsTypeOK' /\ CallsOK'
  BY <1>3
  DEF CreateRecord, Goto, RunsTypeOK, CallsOK, Runs, Callers, Terminal, Replies, taskVars, requestVars,
      eventVars, streamVs
<1>4. ASSUME NEW q \in Creators, CreateUndo(q) PROVE RunsTypeOK' /\ CallsOK'
  BY <1>4, ReusedRun
  DEF CreateUndo, Reply, SameKey, RunsTypeOK, CallsOK, Runs, Callers, Terminal, Replies, taskVars, requestVars,
      eventVars, streamVs, RowsInv
<1>5. ASSUME NEW q \in Creators, CreateInstall(q) PROVE RunsTypeOK' /\ CallsOK'
  BY <1>5
  DEF CreateInstall, Goto, RunsTypeOK, CallsOK, Runs, Callers, Terminal, Replies, taskVars, requestVars,
      eventVars, streamVs
<1>6. ASSUME NEW q \in Creators, CreateStart(q) PROVE RunsTypeOK' /\ CallsOK'
  BY <1>6
  DEF CreateStart, StartTask, Reply, RunsTypeOK, CallsOK, Runs, Callers, Terminal, Replies, taskVars,
      requestVars, eventVars, streamVs
<1>7. ASSUME NEW q \in Messagers, MessageLook(q) PROVE RunsTypeOK' /\ CallsOK'
  BY <1>7, ReusedRun
  DEF MessageLook, Reply, Goto, SameKey, RunsTypeOK, CallsOK, Runs, Callers, Terminal, Replies, taskVars,
      requestVars, eventVars, streamVs
<1>8. ASSUME NEW q \in Messagers, MessageLock(q) PROVE RunsTypeOK' /\ CallsOK'
  BY <1>8
  DEF MessageLock, Reply, Goto, Free, RunsTypeOK, CallsOK, Runs, Callers, Terminal, Replies, taskVars,
      requestVars, eventVars, streamVs
<1>9. ASSUME NEW q \in Messagers, MessageRecord(q) PROVE RunsTypeOK' /\ CallsOK'
  BY <1>9, ReusedRun, SMTT(30)
  DEF MessageRecord, Release, Reply, StartTask, SameKey, RunsTypeOK, CallsOK, Runs, Callers, Terminal, Replies,
      taskVars, requestVars, eventVars, streamVs
<1>10. ASSUME NEW r \in Runs, Begin(r) PROVE RunsTypeOK' /\ CallsOK'
  BY <1>10
  DEF Begin, Move, OutsideRequests, RunsTypeOK, CallsOK, Runs, Callers, Terminal, Replies, taskVars,
      requestVars, eventVars, streamVs
<1>11. ASSUME NEW r \in Runs, EnterRoute(r) PROVE RunsTypeOK' /\ CallsOK'
  BY <1>11
  DEF EnterRoute, Move, Free, OutsideRequests, RunsTypeOK, CallsOK, Runs, Callers, Terminal, Replies, taskVars,
      requestVars, eventVars, streamVs
<1>12. ASSUME NEW r \in Runs, LeaveRoute(r) PROVE RunsTypeOK' /\ CallsOK'
  <2>1. CASE Move(r, "setup") /\ UNCHANGED result
    BY <1>12, <2>1
    DEF LeaveRoute, Move, Release, OutsideRequests, RunsTypeOK, CallsOK, Runs, Callers, Terminal, Replies,
        taskVars, requestVars, eventVars, streamVs
  <2>2. CASE Conclude(r, "marking", "failed")
    BY <1>12, <2>2
    DEF LeaveRoute, Move, Conclude, Release, OutsideRequests, RunsTypeOK, CallsOK, Runs, Callers, Terminal,
        Replies, taskVars, requestVars, eventVars, streamVs
  <2>3. QED
    BY <1>12, <2>1, <2>2 DEF LeaveRoute
<1>13. ASSUME NEW r \in Runs, Boot(r) PROVE RunsTypeOK' /\ CallsOK'
  BY <1>13
  DEF Boot, Move, Conclude, Says, OutsideRequests, RunsTypeOK, CallsOK, Runs, Callers, Terminal, Replies,
      taskVars, requestVars, eventVars, streamVs
<1>14. ASSUME NEW r \in Runs, TurnStart(r) PROVE RunsTypeOK' /\ CallsOK'
  BY <1>14
  DEF TurnStart, Move, Says, OutsideRequests, RunsTypeOK, CallsOK, Runs, Callers, Terminal, Replies, taskVars,
      requestVars, eventVars, streamVs
<1>15. ASSUME NEW r \in Runs, TurnFinal(r) PROVE RunsTypeOK' /\ CallsOK'
  BY <1>15
  DEF TurnFinal, Move, Conclude, Says, OutsideRequests, RunsTypeOK, CallsOK, Runs, Callers, Terminal, Replies,
      taskVars, requestVars, eventVars, streamVs
<1>16. ASSUME NEW r \in Runs, TurnBreaks(r) PROVE RunsTypeOK' /\ CallsOK'
  BY <1>16
  DEF TurnBreaks, Move, Conclude, Says, OutsideRequests, RunsTypeOK, CallsOK, Runs, Callers, Terminal, Replies,
      taskVars, requestVars, eventVars, streamVs
<1>17. ASSUME NEW r \in Runs, Record(r) PROVE RunsTypeOK' /\ CallsOK'
  BY <1>17
  DEF Record, Move, OutsideRequests, RunsTypeOK, CallsOK, Runs, Callers, Terminal, Replies, taskVars,
      requestVars, eventVars, streamVs
<1>18. ASSUME NEW r \in Runs, RecordFails(r) PROVE RunsTypeOK' /\ CallsOK'
  BY <1>18
  DEF RecordFails, Move, Conclude, OutsideRequests, RunsTypeOK, CallsOK, Runs, Callers, Terminal, Replies,
      taskVars, requestVars, eventVars, streamVs
<1>19. ASSUME NEW r \in Runs, Stopped(r) PROVE RunsTypeOK' /\ CallsOK'
  BY <1>19
  DEF Stopped, Move, Conclude, Says, OutsideRequests, RunsTypeOK, CallsOK, Runs, Callers, Terminal, Replies,
      taskVars, requestVars, eventVars, streamVs
<1>20. ASSUME NEW r \in Runs, BeginFails(r) PROVE RunsTypeOK' /\ CallsOK'
  BY <1>20
  DEF BeginFails, Move, OutsideRequests, RunsTypeOK, CallsOK, Runs, Callers, Terminal, Replies, taskVars,
      requestVars, eventVars, streamVs
<1>21. ASSUME NEW x \in Stoppers, StopRead(x) PROVE RunsTypeOK' /\ CallsOK'
  BY <1>21
  DEF StopRead, Goto, OutsideStops, RunsTypeOK, CallsOK, Runs, Callers, Terminal, Replies, taskVars,
      requestVars, eventVars, streamVs
<1>22. ASSUME NEW x \in Stoppers, StopAct(x) PROVE RunsTypeOK' /\ CallsOK'
  BY <1>22
  DEF StopAct, Reply, Goto, Free, OutsideStops, RunsTypeOK, CallsOK, Runs, Callers, Terminal, Replies,
      taskVars, requestVars, eventVars, streamVs
<1>23. ASSUME NEW x \in Stoppers, StopMark(x) PROVE RunsTypeOK' /\ CallsOK'
  BY <1>23
  DEF StopMark, OutsideStops, RunsTypeOK, CallsOK, Runs, Callers, Terminal, Replies, taskVars, requestVars,
      eventVars, streamVs
<1>24. ASSUME NEW x \in Stoppers, StopForce(x) PROVE RunsTypeOK' /\ CallsOK'
  BY <1>24
  DEF StopForce, TaskDone, Goto, OutsideStops, RunsTypeOK, CallsOK, Runs, Callers, Terminal, Replies, taskVars,
      requestVars, eventVars, streamVs
<1>25. ASSUME NEW x \in Stoppers, StopTail(x) PROVE RunsTypeOK' /\ CallsOK'
  BY <1>25
  DEF StopTail, Goto, OutsideStops, RunsTypeOK, CallsOK, Runs, Callers, Terminal, Replies, taskVars,
      requestVars, eventVars, streamVs
<1>25a. ASSUME NEW x \in Stoppers, StopFails(x) PROVE RunsTypeOK' /\ CallsOK'
  BY <1>25a
  DEF StopFails, TaskDone, Goto, OutsideStops, RunsTypeOK, CallsOK, Runs, Callers, Terminal, Replies, taskVars,
      requestVars, eventVars, streamVs
<1>26. ASSUME NEW s \in Streamers, StreamRead(s) PROVE RunsTypeOK' /\ CallsOK'
  BY <1>26
  DEF StreamRead, Goto, OutsideStreams, RunsTypeOK, CallsOK, Runs, Callers, Terminal, Replies, taskVars,
      requestVars, eventVars, streamVs
<1>27. ASSUME NEW s \in Streamers, StreamHistory(s) PROVE RunsTypeOK' /\ CallsOK'
  BY <1>27
  DEF StreamHistory, Reply, Goto, OutsideStreams, RunsTypeOK, CallsOK, Runs, Callers, Terminal, Replies,
      taskVars, requestVars, eventVars, streamVs
<1>28. ASSUME NEW s \in Streamers, StreamSubscribe(s) PROVE RunsTypeOK' /\ CallsOK'
  BY <1>28, ThreadTyped
  DEF StreamSubscribe, Goto, RunsTypeOK, CallsOK, Runs, Callers, Terminal, Replies, taskVars, requestVars,
      eventVars, streamVs
<1>29. ASSUME NEW s \in Streamers, StreamCheck(s) PROVE RunsTypeOK' /\ CallsOK'
  BY <1>29
  DEF StreamCheck, Reply, Goto, OutsideStreams, RunsTypeOK, CallsOK, Runs, Callers, Terminal, Replies,
      taskVars, requestVars, eventVars, streamVs
<1>30. ASSUME NEW s \in Streamers, StreamNext(s) PROVE RunsTypeOK' /\ CallsOK'
  BY <1>30
  DEF StreamNext, Reply, Goto, OutsideStreams, RunsTypeOK, CallsOK, Runs, Callers, Terminal, Replies, taskVars,
      requestVars, eventVars, streamVs
<1>31. ASSUME NEW s \in Streamers, StreamTimeout(s) PROVE RunsTypeOK' /\ CallsOK'
  BY <1>31
  DEF StreamTimeout, Reply, OutsideStreams, RunsTypeOK, CallsOK, Runs, Callers, Terminal, Replies, taskVars,
      requestVars, eventVars, streamVs
<1>32. ASSUME NEW c \in Creators, Persist(c) PROVE RunsTypeOK' /\ CallsOK'
  BY <1>32
  DEF Persist, RunsTypeOK, CallsOK, Runs, Callers, Terminal, Replies, taskVars, requestVars, eventVars, streamVs
<1>33. CASE Crash
  BY <1>33
  DEF Crash, RunsTypeOK, CallsOK, Runs, Callers, Terminal, Replies, taskVars, requestVars, eventVars, streamVs
<1>34. QED
  BY <1>1, <1>2, <1>3, <1>4, <1>5, <1>6, <1>7, <1>8, <1>9, <1>10, <1>11, <1>12, <1>13, <1>14, <1>15, <1>16,
     <1>17, <1>18, <1>19, <1>20, <1>21, <1>22, <1>23, <1>24, <1>25, <1>25a, <1>26, <1>27, <1>28, <1>29, <1>30, <1>31,
     <1>32, <1>33
  DEF RunsNext, Create, Post, TaskStep, StopStep, StreamStep

LEMMA PositionsTyped ==
    ASSUME StreamsTypeOK, NEW c \in Creators, NEW r \in Runs, NEW S \in SUBSET History(c, r)
    PROVE  Positions(S) \in Seq(Nat) /\ ToSet(Positions(S)) = S /\ Ascending(Positions(S))
<1>1. S \in SUBSET (1..persisted[c]) /\ persisted[c] \in Nat
  BY DEF StreamsTypeOK, History, Stored
<1>2. QED
  BY <1>1, PositionsEnumerate DEF Ascending

\* What a log holds stays where it is.
LogGrows ==
    \A c \in Creators :
        /\ Len(log[c]) <= Len(log'[c])
        /\ \A i \in 1..Len(log[c]) : log'[c][i] = log[c][i]

LEMMA SaysOne ==
    ASSUME StreamsTypeOK, NEW r \in Runs, NEW what \in {"start", "end", "cut"}, Says(r, what)
    PROVE  /\ log' \in [Creators -> Seq(Events)] /\ LogGrows
           /\ \A c \in Creators : log'[c] = IF c = ThreadOf(r)
                                          THEN Append(log[c], [run |-> r, what |-> what]) ELSE log[c]
<1>1. ThreadOf(r) \in Creators /\ [run |-> r, what |-> what] \in Events
  BY ThreadTyped DEF Events
<1>2. log \in [Creators -> Seq(Events)]
  BY DEF StreamsTypeOK
<1>3. Append(log[ThreadOf(r)], [run |-> r, what |-> what]) \in Seq(Events)
  BY <1>1, <1>2
<1>4. log' \in [Creators -> Seq(Events)]
  BY <1>1, <1>2, <1>3 DEF Says
<1>5. \A c \in Creators : log'[c] = IF c = ThreadOf(r)
          THEN Append(log[c], [run |-> r, what |-> what]) ELSE log[c]
  BY <1>1, <1>2 DEF Says
<1>6. LogGrows
  <2>1. ASSUME NEW c \in Creators
        PROVE  Len(log[c]) <= Len(log'[c]) /\ \A i \in 1..Len(log[c]) : log'[c][i] = log[c][i]
    <3>1. log[c] \in Seq(Events)
      BY <1>2
    <3>2. CASE c = ThreadOf(r)
      <4> DEFINE e == [run |-> r, what |-> what]
      <4>1. e \in Events /\ log'[c] = Append(log[c], e)
        BY <1>1, <1>5, <3>2
      <4> HIDE DEF e
      <4>2. QED
        BY <3>1, <4>1, AppendProperties
    <3>3. CASE c # ThreadOf(r)
      BY <1>5, <3>1, <3>3
    <3>4. QED
      BY <3>2, <3>3
  <2>2. QED
    BY <2>1 DEF LogGrows
<1>7. QED
  BY <1>4, <1>5, <1>6

LEMMA SaysTyped ==
    ASSUME StreamsTypeOK, NEW r \in Runs, NEW what \in {"start", "end", "cut"}, Says(r, what),
           UNCHANGED <<known, persisted, view, next, begun, crashed>>
    PROVE  StreamsTypeOK'
<1>1. log' \in [Creators -> Seq(Events)] /\ LogGrows
  BY SaysOne
<1>2. \A c \in Creators : persisted[c] \in Nat /\ Len(log[c]) \in Nat /\ Len(log'[c]) \in Nat
  BY <1>1 DEF StreamsTypeOK
<1>3. QED
  BY <1>1, <1>2 DEF StreamsTypeOK, LogGrows

LEMMA QuietTyped ==
    ASSUME StreamsTypeOK, UNCHANGED <<log, known, persisted, view, next, begun, crashed>>
    PROVE  StreamsTypeOK'
BY DEF StreamsTypeOK

LEMMA StreamsTypeStep ==
    ASSUME RunsTypeOK, CallsOK, StreamsTypeOK, RunsNext
    PROVE  StreamsTypeOK'
<1> USE RunsAssumption, ThreadTyped
<1>1. ASSUME NEW q \in Creators, CreateLook(q) PROVE StreamsTypeOK'
  BY <1>1
  DEF CreateLook, Reply, Goto, StreamsTypeOK, Statuses, Terminal, Events, taskVars, requestVars, eventVars,
      streamVs
<1>2. ASSUME NEW q \in Creators, CreateThread(q) PROVE StreamsTypeOK'
  BY <1>2
  DEF CreateThread, Goto, StreamsTypeOK, Statuses, Terminal, Events, taskVars, requestVars, eventVars, streamVs
<1>3. ASSUME NEW q \in Creators, CreateRecord(q) PROVE StreamsTypeOK'
  BY <1>3
  DEF CreateRecord, Goto, StreamsTypeOK, Statuses, Terminal, Events, taskVars, requestVars, eventVars, streamVs
<1>4. ASSUME NEW q \in Creators, CreateUndo(q) PROVE StreamsTypeOK'
  BY <1>4
  DEF CreateUndo, Reply, StreamsTypeOK, Statuses, Terminal, Events, taskVars, requestVars, eventVars, streamVs
<1>5. ASSUME NEW q \in Creators, CreateInstall(q) PROVE StreamsTypeOK'
  BY <1>5
  DEF CreateInstall, Goto, StreamsTypeOK, Statuses, Terminal, Events, taskVars, requestVars, eventVars, streamVs
<1>6. ASSUME NEW q \in Creators, CreateStart(q) PROVE StreamsTypeOK'
  BY <1>6
  DEF CreateStart, StartTask, Reply, StreamsTypeOK, Statuses, Terminal, Events, taskVars, requestVars,
      eventVars, streamVs
<1>7. ASSUME NEW q \in Messagers, MessageLook(q) PROVE StreamsTypeOK'
  BY <1>7
  DEF MessageLook, Reply, Goto, StreamsTypeOK, Statuses, Terminal, Events, taskVars, requestVars, eventVars,
      streamVs
<1>8. ASSUME NEW q \in Messagers, MessageLock(q) PROVE StreamsTypeOK'
  BY <1>8
  DEF MessageLock, Reply, Goto, Free, StreamsTypeOK, Statuses, Terminal, Events, taskVars, requestVars,
      eventVars, streamVs
<1>9. ASSUME NEW q \in Messagers, MessageRecord(q) PROVE StreamsTypeOK'
  BY <1>9
  DEF MessageRecord, Release, Reply, StartTask, StreamsTypeOK, Statuses, Terminal, Events, taskVars,
      requestVars, eventVars, streamVs
<1>10. ASSUME NEW r \in Runs, Begin(r) PROVE StreamsTypeOK'
  BY <1>10
  DEF Begin, Move, OutsideRequests, StreamsTypeOK, Statuses, Terminal, Events, taskVars, requestVars,
      eventVars, streamVs
<1>11. ASSUME NEW r \in Runs, EnterRoute(r) PROVE StreamsTypeOK'
  BY <1>11
  DEF EnterRoute, Move, Free, OutsideRequests, StreamsTypeOK, Statuses, Terminal, Events, taskVars,
      requestVars, eventVars, streamVs
<1>12. ASSUME NEW r \in Runs, LeaveRoute(r) PROVE StreamsTypeOK'
  BY <1>12
  DEF LeaveRoute, Move, Conclude, Release, OutsideRequests, StreamsTypeOK, Statuses, Terminal, Events,
      taskVars, requestVars, eventVars, streamVs
<1>13. ASSUME NEW r \in Runs, Boot(r) PROVE StreamsTypeOK'
  <2>1. UNCHANGED <<known, persisted, view, next, begun, crashed>> /\ (Says(r, "end") \/ UNCHANGED log)
    BY <1>13 DEF Boot, Move, Conclude, OutsideRequests, taskVars, requestVars, eventVars, streamVs
  <2>2. QED
    BY <2>1, SaysTyped, QuietTyped
<1>14. ASSUME NEW r \in Runs, TurnStart(r) PROVE StreamsTypeOK'
  <2>1. UNCHANGED <<known, persisted, view, next, begun, crashed>> /\ (Says(r, "start"))
    BY <1>14 DEF TurnStart, Move, OutsideRequests, taskVars, requestVars, eventVars, streamVs
  <2>2. QED
    BY <2>1, SaysTyped, QuietTyped
<1>15. ASSUME NEW r \in Runs, TurnFinal(r) PROVE StreamsTypeOK'
  <2>1. UNCHANGED <<known, persisted, view, next, begun, crashed>> /\ (Says(r, "cut") \/ Says(r, "end"))
    BY <1>15 DEF TurnFinal, Move, Conclude, OutsideRequests, taskVars, requestVars, eventVars, streamVs
  <2>2. QED
    BY <2>1, SaysTyped, QuietTyped
<1>16. ASSUME NEW r \in Runs, TurnBreaks(r) PROVE StreamsTypeOK'
  <2>1. UNCHANGED <<known, persisted, view, next, begun, crashed>> /\ (Says(r, "end"))
    BY <1>16 DEF TurnBreaks, Move, Conclude, OutsideRequests, taskVars, requestVars, eventVars, streamVs
  <2>2. QED
    BY <2>1, SaysTyped, QuietTyped
<1>17. ASSUME NEW r \in Runs, Record(r) PROVE StreamsTypeOK'
  BY <1>17
  DEF Record, Move, OutsideRequests, StreamsTypeOK, Statuses, Terminal, Events, taskVars, requestVars,
      eventVars, streamVs
<1>18. ASSUME NEW r \in Runs, RecordFails(r) PROVE StreamsTypeOK'
  BY <1>18
  DEF RecordFails, Move, Conclude, OutsideRequests, StreamsTypeOK, Statuses, Terminal, Events, taskVars,
      requestVars, eventVars, streamVs
<1>19. ASSUME NEW r \in Runs, Stopped(r) PROVE StreamsTypeOK'
  <2>1. UNCHANGED <<known, persisted, view, next, begun, crashed>> /\ (Says(r, "cut") \/ UNCHANGED log)
    BY <1>19 DEF Stopped, Move, Conclude, OutsideRequests, taskVars, requestVars, eventVars, streamVs
  <2>2. QED
    BY <2>1, SaysTyped, QuietTyped
<1>20. ASSUME NEW r \in Runs, BeginFails(r) PROVE StreamsTypeOK'
  BY <1>20
  DEF BeginFails, Move, OutsideRequests, StreamsTypeOK, Statuses, Terminal, Events, taskVars, requestVars,
      eventVars, streamVs
<1>21. ASSUME NEW x \in Stoppers, StopRead(x) PROVE StreamsTypeOK'
  BY <1>21
  DEF StopRead, Goto, OutsideStops, RunsTypeOK, StreamsTypeOK, Statuses, Terminal, Events, taskVars,
      requestVars, eventVars, streamVs
<1>22. ASSUME NEW x \in Stoppers, StopAct(x) PROVE StreamsTypeOK'
  BY <1>22
  DEF StopAct, Reply, Goto, Free, OutsideStops, StreamsTypeOK, Statuses, Terminal, Events, taskVars,
      requestVars, eventVars, streamVs
<1>23. ASSUME NEW x \in Stoppers, StopMark(x) PROVE StreamsTypeOK'
  BY <1>23
  DEF StopMark, OutsideStops, StreamsTypeOK, Statuses, Terminal, Events, taskVars, requestVars, eventVars,
      streamVs
<1>24. ASSUME NEW x \in Stoppers, StopForce(x) PROVE StreamsTypeOK'
  BY <1>24
  DEF StopForce, Goto, OutsideStops, StreamsTypeOK, Statuses, Terminal, Events, taskVars, requestVars,
      eventVars, streamVs
<1>25. ASSUME NEW x \in Stoppers, StopTail(x) PROVE StreamsTypeOK'
  BY <1>25
  DEF StopTail, Goto, OutsideStops, RunsTypeOK, StreamsTypeOK, Statuses, Terminal, Events, taskVars,
      requestVars, eventVars, streamVs
<1>25a. ASSUME NEW x \in Stoppers, StopFails(x) PROVE StreamsTypeOK'
  BY <1>25a
  DEF StopFails, Goto, OutsideStops, StreamsTypeOK, Statuses, Terminal, Events, taskVars, requestVars,
      eventVars, streamVs
<1>26. ASSUME NEW s \in Streamers, StreamRead(s) PROVE StreamsTypeOK'
  BY <1>26
  DEF StreamRead, Goto, OutsideStreams, RunsTypeOK, StreamsTypeOK, Statuses, Terminal, Events, taskVars,
      requestVars, eventVars, streamVs
<1>27. ASSUME NEW s \in Streamers, StreamHistory(s) PROVE StreamsTypeOK'
  <2>1. History(ThreadOf(Subject[s]), Subject[s]) \in SUBSET History(ThreadOf(Subject[s]), Subject[s])
    OBVIOUS
  <2>2. Positions(History(ThreadOf(Subject[s]), Subject[s])) \in Seq(Nat)
    BY <2>1, PositionsTyped
  <2>3. QED
    BY <1>27, <2>2
    DEF StreamHistory, Reply, Goto, OutsideStreams, StreamsTypeOK, Statuses, Terminal, Events, taskVars,
        requestVars, eventVars, streamVs
<1>28. ASSUME NEW s \in Streamers, StreamSubscribe(s) PROVE StreamsTypeOK'
  <2>1. next' \in [Streamers -> Nat \cup {-1}]
    <3>1. Len(log[ThreadOf(Subject[s])]) \in Nat
      BY DEF StreamsTypeOK
    <3>2. QED
      BY <1>28, <3>1 DEF StreamSubscribe, StreamsTypeOK
  <2>2. QED
    BY <1>28, <2>1
    DEF StreamSubscribe, Goto, StreamsTypeOK, Statuses, Terminal, Events, taskVars, requestVars, eventVars,
        streamVs
<1>29. ASSUME NEW s \in Streamers, StreamCheck(s) PROVE StreamsTypeOK'
  <2> DEFINE fresh == History(ThreadOf(Subject[s]), Subject[s]) \ ToSet(view[s])
  <2>1. fresh \in SUBSET History(ThreadOf(Subject[s]), Subject[s])
    OBVIOUS
  <2>2. Positions(fresh) \in Seq(Nat)
    BY <2>1, PositionsTyped
  <2>3. view' \in [Streamers -> Seq(Nat)]
    <3>1. view[s] \o Positions(fresh) \in Seq(Nat)
      BY <2>2 DEF StreamsTypeOK
    <3> HIDE DEF fresh
    <3>2. view' = view \/ view' = [view EXCEPT ![s] = view[s] \o Positions(fresh)]
      BY <1>29 DEF StreamCheck, fresh
    <3>3. QED
      <4>1. view \in [Streamers -> Seq(Nat)]
        BY DEF StreamsTypeOK
      <4>2. QED
        BY <3>1, <3>2, <4>1
  <2>4. QED
    BY <1>29, <2>3
    DEF StreamCheck, Reply, Goto, OutsideStreams, StreamsTypeOK, Statuses, Terminal, Events, taskVars,
        requestVars, eventVars, streamVs
<1>30. ASSUME NEW s \in Streamers, StreamNext(s) PROVE StreamsTypeOK'
  <2> DEFINE i == next[s] + 1
  <2>1. next[s] \in Nat \cup {-1} /\ view[s] \in Seq(Nat)
    BY DEF StreamsTypeOK
  <2>2. view' \in [Streamers -> Seq(Nat)]
    <3>1. view' = view \/ view' = [view EXCEPT ![s] = Append(view[s], i)]
      BY <1>30 DEF StreamNext
    <3>2. i \in Nat /\ Append(view[s], i) \in Seq(Nat)
      BY <2>1
    <3>3. view \in [Streamers -> Seq(Nat)]
      BY DEF StreamsTypeOK
    <3> HIDE DEF i
    <3>4. QED
      BY <3>1, <3>2, <3>3
  <2>3. next' \in [Streamers -> Nat \cup {-1}] /\ begun' \in [Streamers -> BOOLEAN]
    BY <1>30, <2>1 DEF StreamNext, StreamsTypeOK
  <2>4. QED
    BY <1>30, <2>2, <2>3
    DEF StreamNext, Reply, Goto, OutsideStreams, StreamsTypeOK, Statuses, Terminal, Events, taskVars,
        requestVars, eventVars, streamVs
<1>31. ASSUME NEW s \in Streamers, StreamTimeout(s) PROVE StreamsTypeOK'
  BY <1>31
  DEF StreamTimeout, Reply, OutsideStreams, StreamsTypeOK, Statuses, Terminal, Events, taskVars, requestVars,
      eventVars, streamVs
<1>32. ASSUME NEW c \in Creators, Persist(c) PROVE StreamsTypeOK'
  <2>1. Len(log[c]) \in Nat /\ persisted[c] \in Nat
    BY DEF StreamsTypeOK
  <2>2. persisted' \in [Creators -> Nat] /\ \A d \in Creators : persisted'[d] <= Len(log[d])
    BY <1>32, <2>1 DEF Persist, StreamsTypeOK
  <2>3. QED
    BY <1>32, <2>2
    DEF Persist, StreamsTypeOK, Statuses, Terminal, Events, taskVars, requestVars, eventVars, streamVs
<1>33. CASE Crash
  <2>1. ASSUME NEW c \in Creators
        PROVE  /\ SubSeq(log[c], 1, persisted[c]) \in Seq(Events)
               /\ Len(SubSeq(log[c], 1, persisted[c])) = persisted[c]
    <3>1. log[c] \in Seq(Events) /\ persisted[c] \in 0..Len(log[c])
      BY DEF StreamsTypeOK
    <3>2. QED
      BY <3>1, SubSeqProperties
  <2>2. log' = [c \in Creators |-> SubSeq(log[c], 1, persisted[c])]
    BY <1>33 DEF Crash
  <2>3. /\ log' \in [Creators -> Seq(Events)]
        /\ \A c \in Creators : persisted[c] <= Len(log'[c])
    BY <2>1, <2>2 DEF StreamsTypeOK
  <2>4. view' \in [Streamers -> Seq(Nat)]
    BY <1>33 DEF Crash
  <2>5. QED
    BY <1>33, <2>3, <2>4
    DEF Crash, StreamsTypeOK, Statuses, Terminal, Events, taskVars, requestVars, eventVars, streamVs
<1>34. QED
  BY <1>1, <1>2, <1>3, <1>4, <1>5, <1>6, <1>7, <1>8, <1>9, <1>10, <1>11, <1>12, <1>13, <1>14, <1>15, <1>16,
     <1>17, <1>18, <1>19, <1>20, <1>21, <1>22, <1>23, <1>24, <1>25, <1>25a, <1>26, <1>27, <1>28, <1>29, <1>30, <1>31,
     <1>32, <1>33
  DEF RunsNext, Create, Post, TaskStep, StopStep, StreamStep

LEMMA RowsStep ==
    ASSUME RunsTypeOK, CallsOK, StreamsTypeOK, RowsInv, OutcomeInv, RunsNext
    PROVE  RowsInv'
<1> USE RunsAssumption
<1>1. ASSUME NEW q \in Creators, CreateLook(q) PROVE RowsInv'
  BY <1>1
  DEF CreateLook, Reply, Goto, RowsInv, Unrecorded, SameKey, RunsTypeOK, CallsOK, Runs, Callers, Terminal,
      taskVars, requestVars, eventVars, streamVs
<1>2. ASSUME NEW q \in Creators, CreateThread(q) PROVE RowsInv'
  BY <1>2
  DEF CreateThread, Goto, RowsInv, Unrecorded, SameKey, RunsTypeOK, CallsOK, Runs, Callers, Terminal, taskVars,
      requestVars, eventVars, streamVs
<1>3. ASSUME NEW q \in Creators, CreateRecord(q) PROVE RowsInv'
  BY <1>3
  DEF CreateRecord, Goto, RowsInv, Unrecorded, SameKey, RunsTypeOK, CallsOK, Runs, Callers, Terminal, taskVars,
      requestVars, eventVars, streamVs
<1>4. ASSUME NEW q \in Creators, CreateUndo(q) PROVE RowsInv'
  BY <1>4
  DEF CreateUndo, Reply, RowsInv, Unrecorded, SameKey, RunsTypeOK, CallsOK, Runs, Callers, Terminal, taskVars,
      requestVars, eventVars, streamVs
<1>5. ASSUME NEW q \in Creators, CreateInstall(q) PROVE RowsInv'
  BY <1>5
  DEF CreateInstall, Goto, RowsInv, Unrecorded, SameKey, RunsTypeOK, CallsOK, Runs, Callers, Terminal,
      taskVars, requestVars, eventVars, streamVs
<1>6. ASSUME NEW q \in Creators, CreateStart(q) PROVE RowsInv'
  BY <1>6
  DEF CreateStart, StartTask, Reply, RowsInv, Unrecorded, SameKey, RunsTypeOK, CallsOK, Runs, Callers,
      Terminal, taskVars, requestVars, eventVars, streamVs
<1>7. ASSUME NEW q \in Messagers, MessageLook(q) PROVE RowsInv'
  BY <1>7
  DEF MessageLook, Reply, Goto, RowsInv, Unrecorded, SameKey, RunsTypeOK, CallsOK, Runs, Callers, Terminal,
      taskVars, requestVars, eventVars, streamVs
<1>8. ASSUME NEW q \in Messagers, MessageLock(q) PROVE RowsInv'
  BY <1>8
  DEF MessageLock, Reply, Goto, Free, RowsInv, Unrecorded, SameKey, RunsTypeOK, CallsOK, Runs, Callers,
      Terminal, taskVars, requestVars, eventVars, streamVs
<1>9. ASSUME NEW q \in Messagers, MessageRecord(q) PROVE RowsInv'
  BY <1>9
  DEF MessageRecord, Release, Reply, StartTask, RowsInv, Unrecorded, SameKey, RunsTypeOK, CallsOK, Runs,
      Callers, Terminal, taskVars, requestVars, eventVars, streamVs
<1>10. ASSUME NEW r \in Runs, Begin(r) PROVE RowsInv'
  BY <1>10
  DEF Begin, Move, OutsideRequests, RowsInv, Unrecorded, SameKey, RunsTypeOK, CallsOK, Runs, Callers, Terminal,
      taskVars, requestVars, eventVars, streamVs
<1>11. ASSUME NEW r \in Runs, EnterRoute(r) PROVE RowsInv'
  BY <1>11
  DEF EnterRoute, Move, Free, OutsideRequests, RowsInv, Unrecorded, SameKey, RunsTypeOK, CallsOK, Runs,
      Callers, Terminal, taskVars, requestVars, eventVars, streamVs
<1>12. ASSUME NEW r \in Runs, LeaveRoute(r) PROVE RowsInv'
  BY <1>12
  DEF LeaveRoute, Move, Conclude, Release, OutsideRequests, RowsInv, Unrecorded, SameKey, RunsTypeOK, CallsOK,
      Runs, Callers, Terminal, taskVars, requestVars, eventVars, streamVs
<1>13. ASSUME NEW r \in Runs, Boot(r) PROVE RowsInv'
  BY <1>13
  DEF Boot, Move, Conclude, Says, OutsideRequests, RowsInv, Unrecorded, SameKey, RunsTypeOK, CallsOK, Runs,
      Callers, Terminal, taskVars, requestVars, eventVars, streamVs
<1>14. ASSUME NEW r \in Runs, TurnStart(r) PROVE RowsInv'
  BY <1>14
  DEF TurnStart, Move, Says, OutsideRequests, RowsInv, Unrecorded, SameKey, RunsTypeOK, CallsOK, Runs, Callers,
      Terminal, taskVars, requestVars, eventVars, streamVs
<1>15. ASSUME NEW r \in Runs, TurnFinal(r) PROVE RowsInv'
  BY <1>15
  DEF TurnFinal, Move, Conclude, Says, OutsideRequests, RowsInv, Unrecorded, SameKey, RunsTypeOK, CallsOK,
      Runs, Callers, Terminal, taskVars, requestVars, eventVars, streamVs
<1>16. ASSUME NEW r \in Runs, TurnBreaks(r) PROVE RowsInv'
  BY <1>16
  DEF TurnBreaks, Move, Conclude, Says, OutsideRequests, RowsInv, Unrecorded, SameKey, RunsTypeOK, CallsOK,
      Runs, Callers, Terminal, taskVars, requestVars, eventVars, streamVs
<1>17. ASSUME NEW r \in Runs, Record(r) PROVE RowsInv'
  <2>1. result[r] \in Terminal
    BY <1>17 DEF Record, OutcomeInv
  <2>2. QED
    BY <1>17, <2>1
    DEF Record, Move, OutsideRequests, RowsInv, Unrecorded, SameKey, RunsTypeOK, CallsOK, Runs, Callers,
        Terminal, taskVars, requestVars, eventVars, streamVs
<1>18. ASSUME NEW r \in Runs, RecordFails(r) PROVE RowsInv'
  <2>1. /\ UNCHANGED requestVars /\ stage[r] # "none" /\ result[r] \in Terminal
        /\ \A t \in Runs : status'[t] = status[t] \/ (t = r /\ status'[t] = result[r])
        /\ \A t \in Runs : stage'[t] # "none" => stage[t] # "none"
    BY <1>18 DEF RecordFails, Move, Conclude, OutsideRequests, OutcomeInv, RunsTypeOK
  <2>2. \A t \in Runs : status'[t] = "none" <=> status[t] = "none"
    BY <2>1 DEF RowsInv, Terminal
  <2>3. QED
    <3>1. \A q \in Runs : SameKey(q)' = SameKey(q)
      BY <2>2 DEF SameKey
    <3>2. call' = call /\ \A x \in Stoppers \cup Streamers : Subject[x] \in Runs
      BY <2>1 DEF requestVars
    <3>3. Creators \subseteq Runs
      BY DEF Runs
    <3>4. QED
      BY <2>1, <2>2, <3>1, <3>2, <3>3 DEF RowsInv
<1>19. ASSUME NEW r \in Runs, Stopped(r) PROVE RowsInv'
  <2>1. stage[r] \in {"finishing", "marking"} => result[r] \in Terminal
    BY <1>19 DEF OutcomeInv
  <2>2. QED
    BY <1>19, <2>1
    DEF Stopped, Move, Conclude, OutsideRequests, RowsInv, Unrecorded, SameKey, RunsTypeOK, CallsOK, Runs,
        Callers, Terminal, taskVars, requestVars, eventVars, streamVs
<1>20. ASSUME NEW r \in Runs, BeginFails(r) PROVE RowsInv'
  BY <1>20
  DEF BeginFails, Move, OutsideRequests, RowsInv, Unrecorded, SameKey, RunsTypeOK, CallsOK, Runs, Callers,
      Terminal, taskVars, requestVars, eventVars, streamVs
<1>21. ASSUME NEW x \in Stoppers, StopRead(x) PROVE RowsInv'
  BY <1>21
  DEF StopRead, Goto, OutsideStops, RowsInv, Unrecorded, SameKey, RunsTypeOK, CallsOK, Runs, Callers, Terminal,
      taskVars, requestVars, eventVars, streamVs
<1>22. ASSUME NEW x \in Stoppers, StopAct(x) PROVE RowsInv'
  BY <1>22
  DEF StopAct, Reply, Goto, Free, OutsideStops, RowsInv, Unrecorded, SameKey, RunsTypeOK, CallsOK, Runs,
      Callers, Terminal, taskVars, requestVars, eventVars, streamVs
<1>23. ASSUME NEW x \in Stoppers, StopMark(x) PROVE RowsInv'
  BY <1>23
  DEF StopMark, OutsideStops, RowsInv, Unrecorded, SameKey, RunsTypeOK, CallsOK, Runs, Callers, Terminal,
      taskVars, requestVars, eventVars, streamVs
<1>24. ASSUME NEW x \in Stoppers, StopForce(x) PROVE RowsInv'
  BY <1>24
  DEF StopForce, Goto, OutsideStops, RowsInv, Unrecorded, SameKey, RunsTypeOK, CallsOK, Runs, Callers,
      Terminal, taskVars, requestVars, eventVars, streamVs
<1>25. ASSUME NEW x \in Stoppers, StopTail(x) PROVE RowsInv'
  BY <1>25
  DEF StopTail, Goto, OutsideStops, RowsInv, Unrecorded, SameKey, RunsTypeOK, CallsOK, Runs, Callers, Terminal,
      taskVars, requestVars, eventVars, streamVs
<1>25a. ASSUME NEW x \in Stoppers, StopFails(x) PROVE RowsInv'
  BY <1>25a
  DEF StopFails, Goto, OutsideStops, RowsInv, Unrecorded, SameKey, RunsTypeOK, CallsOK, Runs, Callers, Terminal,
      taskVars, requestVars, eventVars, streamVs
<1>26. ASSUME NEW s \in Streamers, StreamRead(s) PROVE RowsInv'
  BY <1>26
  DEF StreamRead, Goto, OutsideStreams, RowsInv, Unrecorded, SameKey, RunsTypeOK, CallsOK, Runs, Callers,
      Terminal, taskVars, requestVars, eventVars, streamVs
<1>27. ASSUME NEW s \in Streamers, StreamHistory(s) PROVE RowsInv'
  BY <1>27
  DEF StreamHistory, Reply, Goto, OutsideStreams, RowsInv, Unrecorded, SameKey, RunsTypeOK, CallsOK, Runs,
      Callers, Terminal, taskVars, requestVars, eventVars, streamVs
<1>28. ASSUME NEW s \in Streamers, StreamSubscribe(s) PROVE RowsInv'
  BY <1>28
  DEF StreamSubscribe, Goto, RowsInv, Unrecorded, SameKey, RunsTypeOK, CallsOK, Runs, Callers, Terminal,
      taskVars, requestVars, eventVars, streamVs
<1>29. ASSUME NEW s \in Streamers, StreamCheck(s) PROVE RowsInv'
  BY <1>29
  DEF StreamCheck, Reply, Goto, OutsideStreams, RowsInv, Unrecorded, SameKey, RunsTypeOK, CallsOK, Runs,
      Callers, Terminal, taskVars, requestVars, eventVars, streamVs
<1>30. ASSUME NEW s \in Streamers, StreamNext(s) PROVE RowsInv'
  BY <1>30, SMTT(30)
  DEF StreamNext, Reply, Goto, OutsideStreams, RowsInv, Unrecorded, SameKey, RunsTypeOK, CallsOK, Runs,
      Callers, Terminal, taskVars, requestVars, eventVars, streamVs
<1>31. ASSUME NEW s \in Streamers, StreamTimeout(s) PROVE RowsInv'
  BY <1>31
  DEF StreamTimeout, Reply, OutsideStreams, RowsInv, Unrecorded, SameKey, RunsTypeOK, CallsOK, Runs, Callers,
      Terminal, taskVars, requestVars, eventVars, streamVs
<1>32. ASSUME NEW c \in Creators, Persist(c) PROVE RowsInv'
  BY <1>32
  DEF Persist, RowsInv, Unrecorded, SameKey, RunsTypeOK, CallsOK, Runs, Callers, Terminal, taskVars,
      requestVars, eventVars, streamVs
<1>33. CASE Crash
  BY <1>33
  DEF Crash, RowsInv, Unrecorded, SameKey, RunsTypeOK, CallsOK, Runs, Callers, Terminal, taskVars, requestVars,
      eventVars, streamVs
<1>34. QED
  BY <1>1, <1>2, <1>3, <1>4, <1>5, <1>6, <1>7, <1>8, <1>9, <1>10, <1>11, <1>12, <1>13, <1>14, <1>15, <1>16,
     <1>17, <1>18, <1>19, <1>20, <1>21, <1>22, <1>23, <1>24, <1>25, <1>25a, <1>26, <1>27, <1>28, <1>29, <1>30, <1>31,
     <1>32, <1>33
  DEF RunsNext, Create, Post, TaskStep, StopStep, StreamStep

\* A step that gives no run its row leaves at most one for each key.
LEMMA KeysKept ==
    ASSUME RunPerKey, RowsInv, RunsTypeOK, CallsOK,
           \A r \in Runs : status[r] = "none" => status'[r] = "none",
           \A r \in Runs : status[r] # "none" => status'[r] # "none",
           \A c \in threads' : c \in threads,
           \A c \in threads' : call[c] \in {"recording", "undoing"} => call'[c] = call[c] \/ crashed',
           crashed => crashed'
    PROVE  RunPerKey'
BY DEF RunPerKey, RunsTypeOK, Runs

LEMMA KeysStep ==
    ASSUME RunsTypeOK, CallsOK, RowsInv, OutcomeInv, RunPerKey, RunsNext
    PROVE  RunPerKey'
<1> USE RunsAssumption
<1>1. ASSUME NEW q \in Creators, CreateLook(q) PROVE RunPerKey'
  BY <1>1, KeysKept
  DEF CreateLook, Reply, Goto, RunsTypeOK, CallsOK, Runs, Callers, Terminal, taskVars, requestVars, eventVars,
      streamVs
<1>2. ASSUME NEW q \in Creators, CreateThread(q) PROVE RunPerKey'
  BY <1>2
  DEF CreateThread, Goto, RunPerKey, SameKey, RunsTypeOK, CallsOK, Runs, Callers, Terminal, taskVars,
      requestVars, eventVars, streamVs
<1>3. ASSUME NEW q \in Creators, CreateRecord(q) PROVE RunPerKey'
  BY <1>3
  DEF CreateRecord, Goto, RunPerKey, SameKey, RunsTypeOK, CallsOK, Runs, Callers, Terminal, taskVars,
      requestVars, eventVars, streamVs
<1>4. ASSUME NEW q \in Creators, CreateUndo(q) PROVE RunPerKey'
  BY <1>4
  DEF CreateUndo, Reply, RunPerKey, SameKey, RunsTypeOK, CallsOK, Runs, Callers, Terminal, taskVars,
      requestVars, eventVars, streamVs
<1>5. ASSUME NEW q \in Creators, CreateInstall(q) PROVE RunPerKey'
  BY <1>5, KeysKept
  DEF CreateInstall, Goto, RunsTypeOK, CallsOK, Runs, Callers, Terminal, taskVars, requestVars, eventVars,
      streamVs
<1>6. ASSUME NEW q \in Creators, CreateStart(q) PROVE RunPerKey'
  BY <1>6, KeysKept
  DEF CreateStart, StartTask, Reply, RunsTypeOK, CallsOK, Runs, Callers, Terminal, taskVars, requestVars,
      eventVars, streamVs
<1>7. ASSUME NEW q \in Messagers, MessageLook(q) PROVE RunPerKey'
  BY <1>7, KeysKept
  DEF MessageLook, Reply, Goto, RunsTypeOK, CallsOK, Runs, Callers, Terminal, taskVars, requestVars, eventVars,
      streamVs
<1>8. ASSUME NEW q \in Messagers, MessageLock(q) PROVE RunPerKey'
  BY <1>8, KeysKept
  DEF MessageLock, Reply, Goto, Free, RunsTypeOK, CallsOK, Runs, Callers, Terminal, taskVars, requestVars,
      eventVars, streamVs
<1>9. ASSUME NEW q \in Messagers, MessageRecord(q) PROVE RunPerKey'
  BY <1>9
  DEF MessageRecord, Release, Reply, StartTask, RunPerKey, SameKey, RunsTypeOK, CallsOK, Runs, Callers,
      Terminal, taskVars, requestVars, eventVars, streamVs
<1>10. ASSUME NEW r \in Runs, Begin(r) PROVE RunPerKey'
  BY <1>10, KeysKept
  DEF Begin, Move, OutsideRequests, RunsTypeOK, CallsOK, Runs, Callers, Terminal, RowsInv, taskVars,
      requestVars, eventVars, streamVs
<1>11. ASSUME NEW r \in Runs, EnterRoute(r) PROVE RunPerKey'
  BY <1>11, KeysKept
  DEF EnterRoute, Move, Free, OutsideRequests, RunsTypeOK, CallsOK, Runs, Callers, Terminal, RowsInv, taskVars,
      requestVars, eventVars, streamVs
<1>12. ASSUME NEW r \in Runs, LeaveRoute(r) PROVE RunPerKey'
  BY <1>12, KeysKept
  DEF LeaveRoute, Move, Conclude, Release, OutsideRequests, RunsTypeOK, CallsOK, Runs, Callers, Terminal,
      RowsInv, taskVars, requestVars, eventVars, streamVs
<1>13. ASSUME NEW r \in Runs, Boot(r) PROVE RunPerKey'
  BY <1>13, KeysKept
  DEF Boot, Move, Conclude, Says, OutsideRequests, RunsTypeOK, CallsOK, Runs, Callers, Terminal, RowsInv,
      taskVars, requestVars, eventVars, streamVs
<1>14. ASSUME NEW r \in Runs, TurnStart(r) PROVE RunPerKey'
  BY <1>14, KeysKept
  DEF TurnStart, Move, Says, OutsideRequests, RunsTypeOK, CallsOK, Runs, Callers, Terminal, RowsInv, taskVars,
      requestVars, eventVars, streamVs
<1>15. ASSUME NEW r \in Runs, TurnFinal(r) PROVE RunPerKey'
  BY <1>15, KeysKept
  DEF TurnFinal, Move, Conclude, Says, OutsideRequests, RunsTypeOK, CallsOK, Runs, Callers, Terminal, RowsInv,
      taskVars, requestVars, eventVars, streamVs
<1>16. ASSUME NEW r \in Runs, TurnBreaks(r) PROVE RunPerKey'
  BY <1>16, KeysKept
  DEF TurnBreaks, Move, Conclude, Says, OutsideRequests, RunsTypeOK, CallsOK, Runs, Callers, Terminal, RowsInv,
      taskVars, requestVars, eventVars, streamVs
<1>17. ASSUME NEW r \in Runs, Record(r) PROVE RunPerKey'
  <2>1. stage[r] \in {"finishing", "marking"} => result[r] \in Terminal
    BY <1>17 DEF Record, OutcomeInv
  <2>2. QED
    BY <1>17, <2>1, KeysKept
    DEF Record, Move, OutsideRequests, RunsTypeOK, CallsOK, Runs, Callers, Terminal, RowsInv, taskVars,
        requestVars, eventVars, streamVs
<1>18. ASSUME NEW r \in Runs, RecordFails(r) PROVE RunPerKey'
  <2>1. stage[r] \in {"finishing", "marking"} => result[r] \in Terminal
    BY <1>18 DEF OutcomeInv
  <2>2. QED
    BY <1>18, <2>1, KeysKept
    DEF RecordFails, Move, Conclude, OutsideRequests, RunsTypeOK, CallsOK, Runs, Callers, Terminal, RowsInv,
        taskVars, requestVars, eventVars, streamVs
<1>19. ASSUME NEW r \in Runs, Stopped(r) PROVE RunPerKey'
  <2>1. stage[r] \in {"finishing", "marking"} => result[r] \in Terminal
    BY <1>19 DEF Stopped, OutcomeInv
  <2>2. QED
    BY <1>19, <2>1, KeysKept
    DEF Stopped, Move, Conclude, Says, OutsideRequests, RunsTypeOK, CallsOK, Runs, Callers, Terminal, RowsInv,
        taskVars, requestVars, eventVars, streamVs
<1>20. ASSUME NEW r \in Runs, BeginFails(r) PROVE RunPerKey'
  BY <1>20, KeysKept
  DEF BeginFails, Move, OutsideRequests, RunsTypeOK, CallsOK, Runs, Callers, Terminal, RowsInv, taskVars,
      requestVars, eventVars, streamVs
<1>21. ASSUME NEW x \in Stoppers, StopRead(x) PROVE RunPerKey'
  BY <1>21, KeysKept
  DEF StopRead, Goto, OutsideStops, RunsTypeOK, CallsOK, Runs, Callers, Terminal, taskVars, requestVars,
      eventVars, streamVs
<1>22. ASSUME NEW x \in Stoppers, StopAct(x) PROVE RunPerKey'
  BY <1>22, KeysKept
  DEF StopAct, Reply, Goto, Free, OutsideStops, RunsTypeOK, CallsOK, Runs, Callers, Terminal, taskVars,
      requestVars, eventVars, streamVs
<1>23. ASSUME NEW x \in Stoppers, StopMark(x) PROVE RunPerKey'
  BY <1>23, KeysKept
  DEF StopMark, OutsideStops, RunsTypeOK, CallsOK, Runs, Callers, Terminal, RowsInv, taskVars, requestVars,
      eventVars, streamVs
<1>24. ASSUME NEW x \in Stoppers, StopForce(x) PROVE RunPerKey'
  BY <1>24, KeysKept
  DEF StopForce, Goto, OutsideStops, RunsTypeOK, CallsOK, Runs, Callers, Terminal, taskVars, requestVars,
      eventVars, streamVs
<1>25. ASSUME NEW x \in Stoppers, StopTail(x) PROVE RunPerKey'
  BY <1>25, KeysKept
  DEF StopTail, Goto, OutsideStops, RunsTypeOK, CallsOK, Runs, Callers, Terminal, taskVars, requestVars,
      eventVars, streamVs
<1>25a. ASSUME NEW x \in Stoppers, StopFails(x) PROVE RunPerKey'
  BY <1>25a
  DEF StopFails, Goto, OutsideStops, RunsTypeOK, CallsOK, Runs, Callers, Terminal, RowsInv, taskVars,
      requestVars, eventVars, streamVs, RunPerKey
<1>26. ASSUME NEW s \in Streamers, StreamRead(s) PROVE RunPerKey'
  BY <1>26, KeysKept
  DEF StreamRead, Goto, OutsideStreams, RunsTypeOK, CallsOK, Runs, Callers, Terminal, taskVars, requestVars,
      eventVars, streamVs
<1>27. ASSUME NEW s \in Streamers, StreamHistory(s) PROVE RunPerKey'
  BY <1>27, KeysKept
  DEF StreamHistory, Reply, Goto, OutsideStreams, RunsTypeOK, CallsOK, Runs, Callers, Terminal, taskVars,
      requestVars, eventVars, streamVs
<1>28. ASSUME NEW s \in Streamers, StreamSubscribe(s) PROVE RunPerKey'
  BY <1>28, KeysKept
  DEF StreamSubscribe, Goto, RunsTypeOK, CallsOK, Runs, Callers, Terminal, taskVars, requestVars, eventVars,
      streamVs
<1>29. ASSUME NEW s \in Streamers, StreamCheck(s) PROVE RunPerKey'
  BY <1>29, KeysKept
  DEF StreamCheck, Reply, Goto, OutsideStreams, RunsTypeOK, CallsOK, Runs, Callers, Terminal, taskVars,
      requestVars, eventVars, streamVs
<1>30. ASSUME NEW s \in Streamers, StreamNext(s) PROVE RunPerKey'
  BY <1>30, KeysKept
  DEF StreamNext, Reply, Goto, OutsideStreams, RunsTypeOK, CallsOK, Runs, Callers, Terminal, taskVars,
      requestVars, eventVars, streamVs
<1>31. ASSUME NEW s \in Streamers, StreamTimeout(s) PROVE RunPerKey'
  BY <1>31, KeysKept
  DEF StreamTimeout, Reply, OutsideStreams, RunsTypeOK, CallsOK, Runs, Callers, Terminal, taskVars,
      requestVars, eventVars, streamVs
<1>32. ASSUME NEW c \in Creators, Persist(c) PROVE RunPerKey'
  BY <1>32, KeysKept
  DEF Persist, RunsTypeOK, CallsOK, Runs, Callers, Terminal, taskVars, requestVars, eventVars, streamVs
<1>33. CASE Crash
  BY <1>33, KeysKept
  DEF Crash, RunsTypeOK, CallsOK, Runs, Callers, Terminal, taskVars, requestVars, eventVars, streamVs
<1>34. QED
  BY <1>1, <1>2, <1>3, <1>4, <1>5, <1>6, <1>7, <1>8, <1>9, <1>10, <1>11, <1>12, <1>13, <1>14, <1>15, <1>16,
     <1>17, <1>18, <1>19, <1>20, <1>21, <1>22, <1>23, <1>24, <1>25, <1>25a, <1>26, <1>27, <1>28, <1>29, <1>30, <1>31,
     <1>32, <1>33
  DEF RunsNext, Create, Post, TaskStep, StopStep, StreamStep

LEMMA OutcomeStep ==
    ASSUME RunsTypeOK, StreamsTypeOK, CallsOK, RowsInv, OutcomeInv, RunsNext
    PROVE  OutcomeInv'
<1> USE RunsAssumption
<1>1. ASSUME NEW q \in Creators, CreateLook(q) PROVE OutcomeInv'
  BY <1>1
  DEF CreateLook, Reply, Goto, OutcomeInv, Ongoing, Unsettled, Excused, RunsTypeOK, CallsOK, Runs, Callers,
      Terminal, taskVars, requestVars, eventVars, streamVs
<1>2. ASSUME NEW q \in Creators, CreateThread(q) PROVE OutcomeInv'
  BY <1>2
  DEF CreateThread, Goto, OutcomeInv, Ongoing, Unsettled, Excused, RunsTypeOK, CallsOK, Runs, Callers,
      Terminal, taskVars, requestVars, eventVars, streamVs
<1>3. ASSUME NEW q \in Creators, CreateRecord(q) PROVE OutcomeInv'
  BY <1>3
  DEF CreateRecord, Goto, OutcomeInv, Ongoing, Unsettled, Excused, RunsTypeOK, CallsOK, Runs, Callers,
      Terminal, taskVars, requestVars, eventVars, streamVs
<1>4. ASSUME NEW q \in Creators, CreateUndo(q) PROVE OutcomeInv'
  BY <1>4
  DEF CreateUndo, Reply, OutcomeInv, Ongoing, Unsettled, Excused, RunsTypeOK, CallsOK, Runs, Callers, Terminal,
      taskVars, requestVars, eventVars, streamVs
<1>5. ASSUME NEW q \in Creators, CreateInstall(q) PROVE OutcomeInv'
  BY <1>5
  DEF CreateInstall, Goto, OutcomeInv, Ongoing, Unsettled, Excused, RunsTypeOK, CallsOK, Runs, Callers,
      Terminal, taskVars, requestVars, eventVars, streamVs
<1>6. ASSUME NEW q \in Creators, CreateStart(q) PROVE OutcomeInv'
  <2>1. stage[q] = "none" /\ \A x \in Stoppers : x # q
    BY <1>6 DEF CreateStart, RowsInv, Runs
  <2>2. \A r \in Runs : Excused(r) => Excused(r)'
    BY <1>6, <2>1
    DEF CreateStart, StartTask, Reply, Excused, Unsettled, RunsTypeOK, Callers, taskVars, requestVars,
        eventVars, streamVs
  <2>3. QED
    BY <1>6, <2>1, <2>2
    DEF CreateStart, StartTask, Reply, OutcomeInv, Ongoing, Unsettled, RunsTypeOK, CallsOK, Runs, Callers,
        taskVars, requestVars, eventVars, streamVs
<1>7. ASSUME NEW q \in Messagers, MessageLook(q) PROVE OutcomeInv'
  BY <1>7
  DEF MessageLook, Reply, Goto, OutcomeInv, Ongoing, Unsettled, Excused, RunsTypeOK, CallsOK, Runs, Callers,
      Terminal, taskVars, requestVars, eventVars, streamVs
<1>8. ASSUME NEW q \in Messagers, MessageLock(q) PROVE OutcomeInv'
  BY <1>8
  DEF MessageLock, Reply, Goto, Free, OutcomeInv, Ongoing, Unsettled, Excused, RunsTypeOK, CallsOK, Runs,
      Callers, Terminal, taskVars, requestVars, eventVars, streamVs
<1>9. ASSUME NEW q \in Messagers, MessageRecord(q) PROVE OutcomeInv'
  BY <1>9
  DEF MessageRecord, Release, Reply, StartTask, OutcomeInv, Ongoing, Unsettled, Excused, RunsTypeOK, CallsOK,
      Runs, Callers, Terminal, taskVars, requestVars, eventVars, streamVs
<1>10. ASSUME NEW r \in Runs, Begin(r) PROVE OutcomeInv'
  BY <1>10
  DEF Begin, Move, OutsideRequests, OutcomeInv, Ongoing, Unsettled, Excused, RunsTypeOK, CallsOK, Runs,
      Callers, Terminal, taskVars, requestVars, eventVars, streamVs
<1>11. ASSUME NEW r \in Runs, EnterRoute(r) PROVE OutcomeInv'
  BY <1>11
  DEF EnterRoute, Move, Free, OutsideRequests, OutcomeInv, Ongoing, Unsettled, Excused, RunsTypeOK, CallsOK,
      Runs, Callers, Terminal, taskVars, requestVars, eventVars, streamVs
<1>12. ASSUME NEW r \in Runs, LeaveRoute(r) PROVE OutcomeInv'
  BY <1>12
  DEF LeaveRoute, Move, Conclude, Release, OutsideRequests, OutcomeInv, Ongoing, Unsettled, Excused,
      RunsTypeOK, CallsOK, Runs, Callers, Terminal, taskVars, requestVars, eventVars, streamVs
<1>13. ASSUME NEW r \in Runs, Boot(r) PROVE OutcomeInv'
  BY <1>13
  DEF Boot, Move, Conclude, Says, OutsideRequests, OutcomeInv, Ongoing, Unsettled, Excused, RunsTypeOK,
      CallsOK, Runs, Callers, Terminal, taskVars, requestVars, eventVars, streamVs
<1>14. ASSUME NEW r \in Runs, TurnStart(r) PROVE OutcomeInv'
  BY <1>14
  DEF TurnStart, Move, Says, OutsideRequests, OutcomeInv, Ongoing, Unsettled, Excused, RunsTypeOK, CallsOK,
      Runs, Callers, Terminal, taskVars, requestVars, eventVars, streamVs
<1>15. ASSUME NEW r \in Runs, TurnFinal(r) PROVE OutcomeInv'
  BY <1>15
  DEF TurnFinal, Move, Conclude, Says, OutsideRequests, OutcomeInv, Ongoing, Unsettled, Excused, RunsTypeOK,
      CallsOK, Runs, Callers, Terminal, taskVars, requestVars, eventVars, streamVs
<1>16. ASSUME NEW r \in Runs, TurnBreaks(r) PROVE OutcomeInv'
  BY <1>16
  DEF TurnBreaks, Move, Conclude, Says, OutsideRequests, OutcomeInv, Ongoing, Unsettled, Excused, RunsTypeOK,
      CallsOK, Runs, Callers, Terminal, taskVars, requestVars, eventVars, streamVs
<1>17. ASSUME NEW r \in Runs, Record(r) PROVE OutcomeInv'
  BY <1>17
  DEF Record, Move, OutsideRequests, OutcomeInv, Ongoing, Unsettled, Excused, RunsTypeOK, CallsOK, Runs,
      Callers, Terminal, taskVars, requestVars, eventVars, streamVs
<1>18. ASSUME NEW r \in Runs, RecordFails(r) PROVE OutcomeInv'
  BY <1>18
  DEF RecordFails, Move, Conclude, OutsideRequests, OutcomeInv, Ongoing, Unsettled, Excused, RunsTypeOK,
      CallsOK, Runs, Callers, Terminal, taskVars, requestVars, eventVars, streamVs
<1>19. ASSUME NEW r \in Runs, Stopped(r) PROVE OutcomeInv'
  BY <1>19
  DEF Stopped, Move, Conclude, Says, OutsideRequests, OutcomeInv, Ongoing, Unsettled, Excused, RunsTypeOK,
      CallsOK, Runs, Callers, Terminal, taskVars, requestVars, eventVars, streamVs
<1>20. ASSUME NEW r \in Runs, BeginFails(r) PROVE OutcomeInv'
  BY <1>20
  DEF BeginFails, Move, OutsideRequests, OutcomeInv, Ongoing, Unsettled, Excused, RunsTypeOK, CallsOK, Runs,
      Callers, Terminal, taskVars, requestVars, eventVars, streamVs
<1>21. ASSUME NEW x \in Stoppers, StopRead(x) PROVE OutcomeInv'
  BY <1>21, ZenonT(30)
  DEF StopRead, Goto, OutsideStops, StreamsTypeOK, Statuses, OutcomeInv, Ongoing, Unsettled, Excused,
      RunsTypeOK, CallsOK, Runs, Callers, Terminal, taskVars, requestVars, eventVars, streamVs
<1>22. ASSUME NEW x \in Stoppers, StopAct(x) PROVE OutcomeInv'
  <2>1. known[x] \in Statuses \ {"none"}
    BY <1>22 DEF StopAct, RowsInv, OutcomeInv, StreamsTypeOK
  <2>2. \A r \in Runs : Excused(r) => Excused(r)'
    BY <1>22
    DEF StopAct, Reply, Goto, OutsideStops, Excused, Unsettled, RunsTypeOK, Callers, taskVars, requestVars,
        eventVars, streamVs
  <2>3. ~TaskDone(turnTask[ThreadOf(Subject[x])]) =>
            turnTask[ThreadOf(Subject[x])] \in Runs /\ stage[turnTask[ThreadOf(Subject[x])]] # "none"
    BY ThreadTyped DEF TaskDone, RunsTypeOK
  <2>4. /\ UNCHANGED <<status, stage, result, stopping, known>>
        /\ \A y \in Stoppers : y # x => call'[y] = call[y] /\ forced'[y] = forced[y]
        /\ call[x] = "looking"
        /\ \/ call'[x] = "answered"
           \/ call'[x] = "marking" /\ Unsettled(x)
           \/ call'[x] = "forcing" /\ Unsettled(x) /\ forced'[x] = turnTask[ThreadOf(Subject[x])]
              /\ ~TaskDone(turnTask[ThreadOf(Subject[x])])
    BY <1>22, <2>1
    DEF StopAct, Reply, Goto, Statuses, Terminal, OutsideStops, Unsettled, RunsTypeOK, Callers, taskVars,
        requestVars, eventVars, streamVs
  <2>5. QED
    BY <2>2, <2>3, <2>4 DEF OutcomeInv, Ongoing, Unsettled
<1>23. ASSUME NEW x \in Stoppers, StopMark(x) PROVE OutcomeInv'
  BY <1>23
  DEF StopMark, OutsideStops, OutcomeInv, Ongoing, Unsettled, Excused, RunsTypeOK, CallsOK, Runs, Callers,
      Terminal, taskVars, requestVars, eventVars, streamVs
<1>24. ASSUME NEW x \in Stoppers, StopForce(x) PROVE OutcomeInv'
  <2>1. forced[x] \in Runs /\ Ongoing(forced[x])
    BY <1>24 DEF StopForce, OutcomeInv, TaskDone, Ongoing
  <2>2. QED
    BY <1>24, <2>1
    DEF StopForce, Goto, OutsideStops, OutcomeInv, Ongoing, Unsettled, Excused, RunsTypeOK, CallsOK, Runs,
        Callers, Terminal, taskVars, requestVars, eventVars, streamVs
<1>25. ASSUME NEW x \in Stoppers, StopTail(x) PROVE OutcomeInv'
  <2>1. status[Subject[x]] \in {"queued", "running"} \cup Terminal
    BY <1>25 DEF StopTail, RowsInv, RunsTypeOK
  <2>2. forced[x] \in Runs /\ stage[forced[x]] \in {"done", "broken"}
    BY <1>25 DEF StopTail, OutcomeInv, TaskDone
  <2>3. \A r \in Runs : stage[r] \notin {"done", "broken"} /\ Excused(r) => Excused(r)'
    BY <1>25, <2>2
    DEF StopTail, Goto, OutsideStops, Excused, Unsettled, RunsTypeOK, Callers, taskVars, requestVars,
        eventVars, streamVs
  <2>4. QED
    BY <1>25, <2>1, <2>2, <2>3
    DEF StopTail, Goto, OutsideStops, OutcomeInv, Ongoing, Unsettled, RunsTypeOK, CallsOK, Runs, Callers,
        Terminal, taskVars, requestVars, eventVars, streamVs
<1>25a. ASSUME NEW x \in Stoppers, StopFails(x) PROVE OutcomeInv'
  <2>1. /\ UNCHANGED <<stage, result, stopping, known, forced>>
        /\ call' = [call EXCEPT ![x] = "failed"] /\ call[x] \in {"marking", "forcing", "awaiting"}
        /\ \A r \in Runs : status'[r] # status[r] => r = Subject[x] /\ Unsettled(x)
    BY <1>25a
    DEF StopFails, Goto, OutsideStops, OutcomeInv, RunsTypeOK, taskVars, requestVars, eventVars, streamVs
  <2>2. call[x] = "marking" \/ (forced[x] \in Runs /\ stage[forced[x]] \in {"done", "broken"})
    BY <1>25a DEF StopFails, OutcomeInv, TaskDone
  <2>3. \A r \in Runs : stage[r] \notin {"done", "broken"} /\ Excused(r) => Excused(r)'
    BY <2>1, <2>2 DEF Excused, Unsettled, RunsTypeOK, Callers
  <2>4. Unsettled(x) => Excused(Subject[x])'
    BY <2>1 DEF Excused, Unsettled, RunsTypeOK, Callers
  <2>5. QED
    BY <2>1, <2>2, <2>3, <2>4 DEF OutcomeInv, Ongoing, Unsettled, RunsTypeOK, Callers
<1>26. ASSUME NEW s \in Streamers, StreamRead(s) PROVE OutcomeInv'
  BY <1>26
  DEF StreamRead, Goto, OutsideStreams, OutcomeInv, Ongoing, Unsettled, Excused, RunsTypeOK, CallsOK, Runs,
      Callers, Terminal, taskVars, requestVars, eventVars, streamVs
<1>27. ASSUME NEW s \in Streamers, StreamHistory(s) PROVE OutcomeInv'
  BY <1>27
  DEF StreamHistory, Reply, Goto, OutsideStreams, OutcomeInv, Ongoing, Unsettled, Excused, RunsTypeOK, CallsOK,
      Runs, Callers, Terminal, taskVars, requestVars, eventVars, streamVs
<1>28. ASSUME NEW s \in Streamers, StreamSubscribe(s) PROVE OutcomeInv'
  BY <1>28
  DEF StreamSubscribe, Goto, OutcomeInv, Ongoing, Unsettled, Excused, RunsTypeOK, CallsOK, Runs, Callers,
      Terminal, taskVars, requestVars, eventVars, streamVs
<1>29. ASSUME NEW s \in Streamers, StreamCheck(s) PROVE OutcomeInv'
  BY <1>29
  DEF StreamCheck, Reply, Goto, OutsideStreams, OutcomeInv, Ongoing, Unsettled, Excused, RunsTypeOK, CallsOK,
      Runs, Callers, Terminal, taskVars, requestVars, eventVars, streamVs
<1>30. ASSUME NEW s \in Streamers, StreamNext(s) PROVE OutcomeInv'
  BY <1>30
  DEF StreamNext, Reply, Goto, OutsideStreams, OutcomeInv, Ongoing, Unsettled, Excused, RunsTypeOK, CallsOK,
      Runs, Callers, Terminal, taskVars, requestVars, eventVars, streamVs
<1>31. ASSUME NEW s \in Streamers, StreamTimeout(s) PROVE OutcomeInv'
  BY <1>31
  DEF StreamTimeout, Reply, OutsideStreams, OutcomeInv, Ongoing, Unsettled, Excused, RunsTypeOK, CallsOK, Runs,
      Callers, Terminal, taskVars, requestVars, eventVars, streamVs
<1>32. ASSUME NEW c \in Creators, Persist(c) PROVE OutcomeInv'
  BY <1>32
  DEF Persist, OutcomeInv, Ongoing, Unsettled, Excused, RunsTypeOK, CallsOK, Runs, Callers, Terminal, taskVars,
      requestVars, eventVars, streamVs
<1>33. CASE Crash
  BY <1>33
  DEF Crash, OutcomeInv, Ongoing, Unsettled, Excused, RunsTypeOK, CallsOK, Runs, Callers, Terminal, taskVars,
      requestVars, eventVars, streamVs
<1>34. QED
  BY <1>1, <1>2, <1>3, <1>4, <1>5, <1>6, <1>7, <1>8, <1>9, <1>10, <1>11, <1>12, <1>13, <1>14, <1>15, <1>16,
     <1>17, <1>18, <1>19, <1>20, <1>21, <1>22, <1>23, <1>24, <1>25, <1>25a, <1>26, <1>27, <1>28, <1>29, <1>30, <1>31,
     <1>32, <1>33
  DEF RunsNext, Create, Post, TaskStep, StopStep, StreamStep


LEMMA RunsInvInit == RunsInit => RunsInv
<1>1. SUFFICES ASSUME NEW cast \in Casts, RunsStart(cast) PROVE RunsInv
  BY DEF RunsInit
<1>2. \A q \in Callers : call[q] \in {"idle", "absent"}
  BY <1>1 DEF RunsStart
<1>3. RunsTypeOK
  BY <1>1 DEF RunsStart, RunsTypeOK, Callers, Replies, Terminal
<1>4. StreamsTypeOK
  <2>1. <<>> \in Seq(Events) /\ <<>> \in Seq(Nat) /\ Len(<<>>) = 0
    OBVIOUS
  <2>2. log \in [Creators -> Seq(Events)] /\ view \in [Streamers -> Seq(Nat)]
    BY <1>1, <2>1 DEF RunsStart
  <2>3. \A c \in Creators : persisted[c] <= Len(log[c])
    BY <1>1, <2>1 DEF RunsStart
  <2>4. QED
    BY <1>1, <2>2, <2>3 DEF RunsStart, StreamsTypeOK, Statuses
<1>5. CallsOK
  BY <1>2 DEF CallsOK, Callers, Runs
<1>6. RowsInv
  BY <1>1, <1>2, RunsAssumption DEF RunsStart, RowsInv, Callers, Runs, SameKey
<1>7. OutcomeInv
  BY <1>1, <1>2 DEF RunsStart, OutcomeInv, Callers, Terminal
<1>8. RunPerKey
  BY <1>1, <1>2 DEF RunsStart, RunPerKey
<1>9. QED
  BY <1>3, <1>4, <1>5, <1>6, <1>7, <1>8 DEF RunsInv

LEMMA RunsInvStep == RunsInv /\ [RunsNext]_runsVars => RunsInv'
<1>1. CASE RunsInv /\ RunsNext
  BY <1>1, TypeStep, StreamsTypeStep, RowsStep, OutcomeStep, KeysStep DEF RunsInv
<1>2. CASE RunsInv /\ UNCHANGED runsVars
  BY <1>2
  DEF runsVars, RunsInv, RunsTypeOK, StreamsTypeOK, CallsOK, RowsInv, SameKey, OutcomeInv, Ongoing, Excused,
              Unsettled, RunPerKey
<1>3. QED
  BY <1>1, <1>2

\* Of rows, requests and tasks: the inductive invariant holds for any number of requests,
\* whatever they name and whichever of them overlap (v1.py, create_agent_run to
\* _mark_run_cancelled).
THEOREM RunsInvariant == RunsSpec => []RunsInv
BY RunsInvInit, RunsInvStep, PTL DEF RunsSpec

\* Requests that repeat a key share one run, and the loser of a race leaves no conversation
\* behind (v1.py, _create_public_conversation_run and its IntegrityError).
THEOREM RunsKeyed == RunsSpec => []RunPerKey
<1>1. RunsInv => RunPerKey
  BY DEF RunsInv
<1>2. QED
  BY <1>1, RunsInvariant, PTL

-----------------------------------------------------------------------------
(* Outcomes                                                                *)

\* What one step may do to an outcome that is in the database.
Revised ==
    \A r \in Runs : status[r] \in Terminal /\ status'[r] # status[r] =>
        \/ \E x \in Stoppers : (Subject[x] = r \/ forced[x] = r) /\ known[x] \notin Terminal \cup {"none"}
        \/ stage[r] = "marking" /\ result[r] = "failed" /\ status'[r] = "failed"

LEMMA ExcusedRevision ==
    ASSUME RunsInv, NEW r \in Runs, stage[r] \notin {"done", "broken"},
           stage[r] = "marking" => status'[r] \in {status[r], result[r]},
           \A t \in Runs \ {r} : status'[t] = status[t]
    PROVE  Revised
BY DEF RunsInv, OutcomeInv, Excused, Unsettled, Revised, Terminal

LEMMA OutcomeRevisedStep == RunsInv /\ [RunsNext]_runsVars => Revised
<1> USE RunsAssumption
<1>1. SUFFICES ASSUME RunsInv, RunsNext PROVE Revised
  BY DEF Revised, runsVars
<1>2. ASSUME NEW q \in Creators, CreateLook(q) PROVE Revised
  BY <1>2 DEF Revised, CreateLook
<1>3. ASSUME NEW q \in Creators, CreateThread(q) PROVE Revised
  BY <1>3 DEF Revised, CreateThread
<1>4. ASSUME NEW q \in Creators, CreateRecord(q) PROVE Revised
  <2>1. status[q] = "none" /\ \A t \in Runs : t # q => status'[t] = status[t]
    BY <1>4, <1>1 DEF CreateRecord, RunsInv, RowsInv, Unrecorded, RunsTypeOK, Runs
  <2>2. QED
    BY <2>1 DEF Revised, Terminal
<1>5. ASSUME NEW q \in Creators, CreateUndo(q) PROVE Revised
  BY <1>5 DEF Revised, CreateUndo
<1>6. ASSUME NEW q \in Creators, CreateInstall(q) PROVE Revised
  BY <1>6 DEF Revised, CreateInstall
<1>7. ASSUME NEW q \in Creators, CreateStart(q) PROVE Revised
  BY <1>7 DEF Revised, CreateStart
<1>8. ASSUME NEW q \in Messagers, MessageLook(q) PROVE Revised
  BY <1>8 DEF Revised, MessageLook
<1>9. ASSUME NEW q \in Messagers, MessageLock(q) PROVE Revised
  BY <1>9 DEF Revised, MessageLock
<1>10. ASSUME NEW q \in Messagers, MessageRecord(q) PROVE Revised
  <2>1. status[q] = "none" /\ \A t \in Runs : t # q => status'[t] = status[t]
    BY <1>10, <1>1 DEF MessageRecord, RunsInv, RowsInv, Unrecorded, RunsTypeOK, Runs
  <2>2. QED
    BY <2>1 DEF Revised, Terminal
<1>11. ASSUME NEW r \in Runs, Begin(r) PROVE Revised
  <2>1. /\ stage[r] \notin {"done", "broken"}
        /\ stage[r] = "marking" => status'[r] \in {status[r], result[r]}
        /\ \A t \in Runs : t # r => status'[t] = status[t]
    BY <1>11, <1>1 DEF Begin, RunsInv, RunsTypeOK
  <2>2. QED
    BY <1>1, <2>1, ExcusedRevision
<1>12. ASSUME NEW r \in Runs, EnterRoute(r) PROVE Revised
  BY <1>12 DEF Revised, EnterRoute, OutsideRequests
<1>13. ASSUME NEW r \in Runs, LeaveRoute(r) PROVE Revised
  BY <1>13 DEF Revised, LeaveRoute, OutsideRequests
<1>14. ASSUME NEW r \in Runs, Boot(r) PROVE Revised
  BY <1>14 DEF Revised, Boot, OutsideRequests
<1>15. ASSUME NEW r \in Runs, TurnStart(r) PROVE Revised
  BY <1>15 DEF Revised, TurnStart, OutsideRequests
<1>16. ASSUME NEW r \in Runs, TurnFinal(r) PROVE Revised
  BY <1>16 DEF Revised, TurnFinal, OutsideRequests
<1>17. ASSUME NEW r \in Runs, TurnBreaks(r) PROVE Revised
  BY <1>17 DEF Revised, TurnBreaks, OutsideRequests
<1>18. ASSUME NEW r \in Runs, Record(r) PROVE Revised
  <2>1. /\ stage[r] \notin {"done", "broken"}
        /\ stage[r] = "marking" => status'[r] \in {status[r], result[r]}
        /\ \A t \in Runs : t # r => status'[t] = status[t]
    BY <1>18, <1>1 DEF Record, RunsInv, RunsTypeOK
  <2>2. QED
    BY <1>1, <2>1, ExcusedRevision
<1>19. ASSUME NEW r \in Runs, RecordFails(r) PROVE Revised
  <2>1. /\ stage[r] \notin {"done", "broken"}
        /\ stage[r] = "marking" => status'[r] \in {status[r], result[r]}
        /\ \A t \in Runs : t # r => status'[t] = status[t]
    BY <1>19, <1>1 DEF RecordFails, RunsInv, RunsTypeOK
  <2>2. QED
    BY <1>1, <2>1, ExcusedRevision
<1>20. ASSUME NEW r \in Runs, Stopped(r) PROVE Revised
  <2>1. /\ stage[r] \notin {"done", "broken"}
        /\ stage[r] = "marking" => status'[r] \in {status[r], result[r]}
        /\ \A t \in Runs : t # r => status'[t] = status[t]
    BY <1>20, <1>1 DEF Stopped, RunsInv, RunsTypeOK, OutcomeInv, Ongoing
  <2>2. QED
    BY <1>1, <2>1, ExcusedRevision
<1>21. ASSUME NEW r \in Runs, BeginFails(r) PROVE Revised
  <2>1. /\ stage[r] \notin {"done", "broken"}
        /\ stage[r] = "marking" => status'[r] \in {status[r], result[r]}
        /\ \A t \in Runs : t # r => status'[t] = status[t]
    BY <1>21, <1>1 DEF BeginFails, RunsInv, RunsTypeOK
  <2>2. QED
    BY <1>1, <2>1, ExcusedRevision
<1>22. ASSUME NEW x \in Stoppers, StopRead(x) PROVE Revised
  BY <1>22 DEF Revised, StopRead, OutsideStops
<1>23. ASSUME NEW x \in Stoppers, StopAct(x) PROVE Revised
  BY <1>23 DEF Revised, StopAct, OutsideStops
<1>24. ASSUME NEW x \in Stoppers, StopMark(x) PROVE Revised
  <2>1. /\ Unsettled(x)
        /\ \A t \in Runs : t # Subject[x] => status'[t] = status[t]
    BY <1>24, <1>1 DEF StopMark, RunsInv, OutcomeInv, RunsTypeOK
  <2>2. QED
    BY <2>1 DEF Revised, Unsettled, Terminal
<1>25. ASSUME NEW x \in Stoppers, StopForce(x) PROVE Revised
  BY <1>25 DEF Revised, StopForce, OutsideStops
<1>26. ASSUME NEW x \in Stoppers, StopTail(x) PROVE Revised
  BY <1>26 DEF Revised, StopTail, OutsideStops
<1>26a. ASSUME NEW x \in Stoppers, StopFails(x) PROVE Revised
  <2>1. \A t \in Runs : status'[t] # status[t] => t = Subject[x] /\ Unsettled(x)
    BY <1>26a, <1>1 DEF StopFails, RunsInv, OutcomeInv, RunsTypeOK
  <2>2. QED
    BY <2>1 DEF Revised, Unsettled, Terminal
<1>27. ASSUME NEW s \in Streamers, StreamRead(s) PROVE Revised
  BY <1>27 DEF Revised, StreamRead, OutsideStreams
<1>28. ASSUME NEW s \in Streamers, StreamHistory(s) PROVE Revised
  BY <1>28 DEF Revised, StreamHistory, OutsideStreams
<1>29. ASSUME NEW s \in Streamers, StreamSubscribe(s) PROVE Revised
  BY <1>29 DEF Revised, StreamSubscribe
<1>30. ASSUME NEW s \in Streamers, StreamCheck(s) PROVE Revised
  BY <1>30 DEF Revised, StreamCheck, OutsideStreams
<1>31. ASSUME NEW s \in Streamers, StreamNext(s) PROVE Revised
  BY <1>31 DEF Revised, StreamNext, OutsideStreams
<1>32. ASSUME NEW s \in Streamers, StreamTimeout(s) PROVE Revised
  BY <1>32 DEF Revised, StreamTimeout, OutsideStreams
<1>33. ASSUME NEW c \in Creators, Persist(c) PROVE Revised
  BY <1>33 DEF Revised, Persist
<1>34. CASE Crash
  BY <1>34 DEF Revised, Crash
<1>35. QED
  BY <1>1, <1>2, <1>3, <1>4, <1>5, <1>6, <1>7, <1>8, <1>9, <1>10, <1>11, <1>12, <1>13, <1>14, <1>15, <1>16,
     <1>17, <1>18, <1>19, <1>20, <1>21, <1>22, <1>23, <1>24, <1>25, <1>26, <1>26a, <1>27, <1>28, <1>29, <1>30, <1>31,
     <1>32, <1>33, <1>34
  DEF RunsNext, Create, Post, TaskStep, StopStep, StreamStep

\* An outcome in the database is only revised because of a cancel that read the record before
\* there was one, or as failed by the run's own task after the update that recorded it has
\* raised (v1.py, cancel_agent_run and the handlers of _run_public_initial_turn).
THEOREM RunsOutcomeRevised == RunsSpec => OutcomeRevised
<1>1. RunsInv /\ [RunsNext]_runsVars => [Revised]_runsVars
  BY OutcomeRevisedStep
<1>2. RunsSpec => [][Revised]_runsVars
  BY <1>1, RunsInvariant, PTL DEF RunsSpec
<1>3. QED
  BY <1>2 DEF OutcomeRevised, Revised

-----------------------------------------------------------------------------
(* One turn at a time                                                      *)

LEMMA ApartKept ==
    ASSUME ApartInv, early \subseteq early',
           \A q \in Creators : call[q] = "answered" => call'[q] = "answered",
           \A m \in Messagers : InThread(m)' =>
               InThread(m) \/ call[Thread[m]] = "answered" \/ Thread[m] \in early'
    PROVE  ApartInv'
BY RunsAssumption DEF ApartInv

LEMMA ApartStep ==
    ASSUME RunsTypeOK, CallsOK, RowsInv, OutcomeInv, ApartInv, RunsNext
    PROVE  ApartInv'
<1> USE RunsAssumption
<1>0. \A q \in Callers : q \in Runs => q \notin Stoppers \cup Streamers
  BY DEF Callers
<1>1. ASSUME NEW q \in Creators, CreateLook(q) PROVE ApartInv'
  BY <1>1, <1>0, ApartKept
  DEF CreateLook, Reply, Goto, InThread, Ongoing, RunsTypeOK, Callers, Runs, taskVars, requestVars, eventVars,
      streamVs
<1>2. ASSUME NEW q \in Creators, CreateThread(q) PROVE ApartInv'
  BY <1>2, <1>0, ApartKept
  DEF CreateThread, Goto, InThread, Ongoing, RunsTypeOK, Callers, Runs, taskVars, requestVars, eventVars,
      streamVs
<1>3. ASSUME NEW q \in Creators, CreateRecord(q) PROVE ApartInv'
  BY <1>3, <1>0, ApartKept
  DEF CreateRecord, Goto, InThread, Ongoing, RunsTypeOK, Callers, Runs, taskVars, requestVars, eventVars,
      streamVs
<1>4. ASSUME NEW q \in Creators, CreateUndo(q) PROVE ApartInv'
  BY <1>4, <1>0, ApartKept
  DEF CreateUndo, Reply, InThread, Ongoing, RunsTypeOK, Callers, Runs, taskVars, requestVars, eventVars,
      streamVs
<1>5. ASSUME NEW q \in Creators, CreateInstall(q) PROVE ApartInv'
  BY <1>5, <1>0, ApartKept
  DEF CreateInstall, Goto, InThread, Ongoing, RunsTypeOK, Callers, Runs, taskVars, requestVars, eventVars,
      streamVs
<1>6. ASSUME NEW q \in Creators, CreateStart(q) PROVE ApartInv'
  BY <1>6, <1>0, ApartKept
  DEF CreateStart, StartTask, Reply, InThread, Ongoing, RunsTypeOK, Callers, Runs, taskVars, requestVars,
      eventVars, streamVs
<1>7. ASSUME NEW q \in Messagers, MessageLook(q) PROVE ApartInv'
  BY <1>7, <1>0, ApartKept
  DEF MessageLook, Reply, Goto, InThread, Ongoing, RunsTypeOK, Callers, Runs, taskVars, requestVars, eventVars,
      streamVs
<1>8. ASSUME NEW q \in Messagers, MessageLock(q) PROVE ApartInv'
  BY <1>8, <1>0, ApartKept
  DEF MessageLock, Reply, Goto, InThread, Ongoing, RunsTypeOK, Callers, Runs, taskVars, requestVars, eventVars,
      streamVs
<1>9. ASSUME NEW q \in Messagers, MessageRecord(q) PROVE ApartInv'
  BY <1>9, <1>0, ApartKept
  DEF MessageRecord, Reply, StartTask, InThread, Ongoing, RunsTypeOK, Callers, Runs, taskVars, requestVars,
      eventVars, streamVs
<1>10. ASSUME NEW r \in Runs, Begin(r) PROVE ApartInv'
  BY <1>10, <1>0, ApartKept
  DEF Begin, Move, OutsideRequests, InThread, Ongoing, RunsTypeOK, Callers, Runs, taskVars, requestVars,
      eventVars, streamVs
<1>11. ASSUME NEW r \in Runs, EnterRoute(r) PROVE ApartInv'
  BY <1>11, <1>0, ApartKept
  DEF EnterRoute, Move, Free, OutsideRequests, InThread, Ongoing, RunsTypeOK, Callers, Runs, taskVars,
      requestVars, eventVars, streamVs
<1>12. ASSUME NEW r \in Runs, LeaveRoute(r) PROVE ApartInv'
  BY <1>12, <1>0, ApartKept
  DEF LeaveRoute, Move, Conclude, Release, OutsideRequests, InThread, Ongoing, RunsTypeOK, Callers, Runs,
      taskVars, requestVars, eventVars, streamVs
<1>13. ASSUME NEW r \in Runs, Boot(r) PROVE ApartInv'
  BY <1>13, <1>0, ApartKept
  DEF Boot, Move, Conclude, Says, OutsideRequests, InThread, Ongoing, RunsTypeOK, Callers, Runs, taskVars,
      requestVars, eventVars, streamVs
<1>14. ASSUME NEW r \in Runs, TurnStart(r) PROVE ApartInv'
  BY <1>14, <1>0, ApartKept
  DEF TurnStart, Move, Says, OutsideRequests, InThread, Ongoing, RunsTypeOK, Callers, Runs, taskVars,
      requestVars, eventVars, streamVs
<1>15. ASSUME NEW r \in Runs, TurnFinal(r) PROVE ApartInv'
  BY <1>15, <1>0, ApartKept
  DEF TurnFinal, Move, Conclude, Says, OutsideRequests, InThread, Ongoing, RunsTypeOK, Callers, Runs, taskVars,
      requestVars, eventVars, streamVs
<1>16. ASSUME NEW r \in Runs, TurnBreaks(r) PROVE ApartInv'
  BY <1>16, <1>0, ApartKept
  DEF TurnBreaks, Move, Conclude, Says, OutsideRequests, InThread, Ongoing, RunsTypeOK, Callers, Runs,
      taskVars, requestVars, eventVars, streamVs
<1>17. ASSUME NEW r \in Runs, Record(r) PROVE ApartInv'
  BY <1>17, <1>0, ApartKept
  DEF Record, Move, OutsideRequests, InThread, Ongoing, RunsTypeOK, Callers, Runs, taskVars, requestVars,
      eventVars, streamVs
<1>18. ASSUME NEW r \in Runs, RecordFails(r) PROVE ApartInv'
  BY <1>18, <1>0, ApartKept
  DEF RecordFails, Move, Conclude, OutsideRequests, InThread, Ongoing, RunsTypeOK, Callers, Runs, taskVars,
      requestVars, eventVars, streamVs
<1>19. ASSUME NEW r \in Runs, Stopped(r) PROVE ApartInv'
  BY <1>19, <1>0, ApartKept
  DEF Stopped, Move, Conclude, Says, OutsideRequests, OutcomeInv, InThread, Ongoing, RunsTypeOK, Callers, Runs,
      taskVars, requestVars, eventVars, streamVs
<1>20. ASSUME NEW r \in Runs, BeginFails(r) PROVE ApartInv'
  BY <1>20, <1>0, ApartKept
  DEF BeginFails, Move, OutsideRequests, InThread, Ongoing, RunsTypeOK, Callers, Runs, taskVars, requestVars,
      eventVars, streamVs
<1>21. ASSUME NEW x \in Stoppers, StopRead(x) PROVE ApartInv'
  BY <1>21, <1>0, ApartKept
  DEF StopRead, Goto, OutsideStops, InThread, Ongoing, RunsTypeOK, Callers, Runs, taskVars, requestVars,
      eventVars, streamVs
<1>22. ASSUME NEW x \in Stoppers, StopAct(x) PROVE ApartInv'
  BY <1>22, <1>0, ApartKept
  DEF StopAct, Reply, Goto, Free, OutsideStops, InThread, Ongoing, RunsTypeOK, Callers, Runs, taskVars,
      requestVars, eventVars, streamVs
<1>23. ASSUME NEW x \in Stoppers, StopMark(x) PROVE ApartInv'
  BY <1>23, <1>0, ApartKept
  DEF StopMark, OutsideStops, InThread, Ongoing, RunsTypeOK, Callers, Runs, taskVars, requestVars, eventVars,
      streamVs
<1>24. ASSUME NEW x \in Stoppers, StopForce(x) PROVE ApartInv'
  BY <1>24, <1>0, ApartKept
  DEF StopForce, Goto, OutsideStops, InThread, Ongoing, RunsTypeOK, Callers, Runs, taskVars, requestVars,
      eventVars, streamVs
<1>25. ASSUME NEW x \in Stoppers, StopTail(x) PROVE ApartInv'
  BY <1>25, <1>0, ApartKept
  DEF StopTail, Goto, OutsideStops, InThread, Ongoing, RunsTypeOK, Callers, Runs, taskVars, requestVars,
      eventVars, streamVs
<1>25a. ASSUME NEW x \in Stoppers, StopFails(x) PROVE ApartInv'
  BY <1>25a, <1>0, ApartKept
  DEF StopFails, Goto, OutsideStops, InThread, Ongoing, RunsTypeOK, Callers, Runs, taskVars, requestVars,
      eventVars, streamVs
<1>26. ASSUME NEW s \in Streamers, StreamRead(s) PROVE ApartInv'
  BY <1>26, <1>0, ApartKept
  DEF StreamRead, Goto, OutsideStreams, InThread, Ongoing, RunsTypeOK, Callers, Runs, taskVars, requestVars,
      eventVars, streamVs
<1>27. ASSUME NEW s \in Streamers, StreamHistory(s) PROVE ApartInv'
  BY <1>27, <1>0, ApartKept
  DEF StreamHistory, Reply, Goto, OutsideStreams, InThread, Ongoing, RunsTypeOK, Callers, Runs, taskVars,
      requestVars, eventVars, streamVs
<1>28. ASSUME NEW s \in Streamers, StreamSubscribe(s) PROVE ApartInv'
  BY <1>28, <1>0, ApartKept
  DEF StreamSubscribe, Goto, InThread, Ongoing, RunsTypeOK, Callers, Runs, taskVars, requestVars, eventVars,
      streamVs
<1>29. ASSUME NEW s \in Streamers, StreamCheck(s) PROVE ApartInv'
  BY <1>29, <1>0, ApartKept
  DEF StreamCheck, Reply, Goto, OutsideStreams, InThread, Ongoing, RunsTypeOK, Callers, Runs, taskVars,
      requestVars, eventVars, streamVs
<1>30. ASSUME NEW s \in Streamers, StreamNext(s) PROVE ApartInv'
  BY <1>30, <1>0, ApartKept
  DEF StreamNext, Reply, Goto, OutsideStreams, InThread, Ongoing, RunsTypeOK, Callers, Runs, taskVars,
      requestVars, eventVars, streamVs
<1>31. ASSUME NEW s \in Streamers, StreamTimeout(s) PROVE ApartInv'
  BY <1>31, <1>0, ApartKept
  DEF StreamTimeout, Reply, OutsideStreams, InThread, Ongoing, RunsTypeOK, Callers, Runs, taskVars,
      requestVars, eventVars, streamVs
<1>32. ASSUME NEW c \in Creators, Persist(c) PROVE ApartInv'
  BY <1>32, <1>0, ApartKept
  DEF Persist, InThread, Ongoing, RunsTypeOK, Callers, Runs, taskVars, requestVars, eventVars, streamVs
<1>33. CASE Crash
  BY <1>33, ApartKept DEF Crash, InThread, Ongoing, CallsOK, RunsTypeOK, Callers, Runs, taskVars, requestVars, eventVars, streamVs
<1>34. QED
  BY <1>1, <1>2, <1>3, <1>4, <1>5, <1>6, <1>7, <1>8, <1>9, <1>10, <1>11, <1>12, <1>13, <1>14, <1>15, <1>16,
     <1>17, <1>18, <1>19, <1>20, <1>21, <1>22, <1>23, <1>24, <1>25, <1>25a, <1>26, <1>27, <1>28, <1>29, <1>30, <1>31,
     <1>32, <1>33
  DEF RunsNext, Create, Post, TaskStep, StopStep, StreamStep

\* A step that starts no turn and gives up no lock of a turn leaves turns and locks in order.
LEMMA TurnsKept ==
    ASSUME RunsTypeOK, TurnsInv, UNCHANGED turnTask, early \subseteq early',
           \A m \in Messagers : call'[m] = "recording" => call[m] = "recording",
           \A r \in Runs : Ongoing(r)' => Ongoing(r),
           \A r \in Runs : stage'[r] = "routing" => stage[r] = "routing",
           \A r \in Runs : /\ (r \in Messagers /\ call'[r] = "recording") \/ stage'[r] = "routing"
                           /\ holder[ThreadOf(r)] = r
                           => holder'[ThreadOf(r)] = r
    PROVE  TurnsInv'
<1> USE RunsAssumption
<1>1. ASSUME NEW m \in Messagers, call'[m] = "recording"
      PROVE  holder'[Thread[m]] = m /\ (TaskDone(turnTask[Thread[m]])' \/ Thread[m] \in early')
  <2>1. /\ holder[Thread[m]] = m /\ (TaskDone(turnTask[Thread[m]]) \/ Thread[m] \in early)
        /\ ThreadOf(m) = Thread[m] /\ m \in Runs
    BY <1>1 DEF TurnsInv, ThreadOf, Runs
  <2>2. turnTask[Thread[m]] \in Runs /\ TaskDone(turnTask[Thread[m]]) => ~Ongoing(turnTask[Thread[m]])'
    BY <2>1 DEF TaskDone, Ongoing
  <2>3. QED
    BY <1>1, <2>1, <2>2 DEF TaskDone, Ongoing, RunsTypeOK
<1>2. QED
  BY <1>1 DEF TurnsInv

\* Before a create is answered nothing runs in its conversation, if no message came early.
LEMMA FreshThread ==
    ASSUME RowsInv, ApartInv, NEW q \in Creators \ early, call[q] # "answered",
           NEW r \in Runs, ThreadOf(r) = q
    PROVE  ~Ongoing(r) /\ ~(r \in Messagers /\ call[r] = "recording")
<1>1. CASE r \in Creators
  BY <1>1, RunsAssumption DEF ThreadOf, Ongoing, RowsInv
<1>2. CASE r \in Messagers
  BY <1>2, RunsAssumption DEF ThreadOf, ApartInv, InThread
<1>3. QED
  BY <1>1, <1>2 DEF Runs

LEMMA TurnsStep ==
    ASSUME RunsTypeOK, CallsOK, RowsInv, OutcomeInv, ApartInv, TurnsInv, RunsNext
    PROVE  TurnsInv'
<1> USE RunsAssumption
<1>0. \A q \in Callers : q \in Runs => q \notin Stoppers \cup Streamers
  BY DEF Callers
<1>1. ASSUME NEW q \in Creators, CreateLook(q) PROVE TurnsInv'
  BY <1>1, <1>0, TurnsKept
  DEF CreateLook, Reply, Goto, RunsTypeOK, Callers, Runs, Ongoing, taskVars, requestVars, eventVars, streamVs
<1>2. ASSUME NEW q \in Creators, CreateThread(q) PROVE TurnsInv'
  BY <1>2, <1>0, TurnsKept
  DEF CreateThread, Goto, RunsTypeOK, Callers, Runs, Ongoing, taskVars, requestVars, eventVars, streamVs
<1>3. ASSUME NEW q \in Creators, CreateRecord(q) PROVE TurnsInv'
  BY <1>3, <1>0, TurnsKept
  DEF CreateRecord, Goto, RunsTypeOK, Callers, Runs, Ongoing, taskVars, requestVars, eventVars, streamVs
<1>4. ASSUME NEW q \in Creators, CreateUndo(q) PROVE TurnsInv'
  BY <1>4, <1>0, TurnsKept
  DEF CreateUndo, Reply, RunsTypeOK, Callers, Runs, Ongoing, taskVars, requestVars, eventVars, streamVs
<1>5. ASSUME NEW q \in Creators, CreateInstall(q) PROVE TurnsInv'
  <2>1. /\ call[q] # "answered" /\ UNCHANGED <<holder, stage, early>> /\ turnTask' = [turnTask EXCEPT ![q] = NoRun]
        /\ \A m \in Messagers : call'[m] = call[m]
    BY <1>5 DEF CreateInstall, Goto, RunsTypeOK, Callers, Runs
  <2>2. \A r \in Runs : Ongoing(r)' =>
            /\ Ongoing(r)
            /\ turnTask'[ThreadOf(r)] = turnTask[ThreadOf(r)] \/ ThreadOf(r) \in early
    BY <2>1, FreshThread, ThreadTyped DEF Ongoing, RunsTypeOK
  <2>3. \A m \in Messagers : call'[m] = "recording" =>
            turnTask'[Thread[m]] = turnTask[Thread[m]] \/ Thread[m] \in early
    BY <2>1, FreshThread DEF RunsTypeOK, ThreadOf, Runs
  <2>4. QED
    BY <2>1, <2>2, <2>3 DEF TurnsInv, TaskDone, RunsTypeOK
<1>6. ASSUME NEW q \in Creators, CreateStart(q) PROVE TurnsInv'
  <2>1. /\ call[q] # "answered" /\ UNCHANGED <<holder, early>> /\ q \in Runs /\ ThreadOf(q) = q
        /\ turnTask' = [turnTask EXCEPT ![q] = q] /\ stage' = [stage EXCEPT ![q] = "starting"]
        /\ \A m \in Messagers : call'[m] = call[m]
    BY <1>6 DEF CreateStart, StartTask, Reply, RunsTypeOK, Callers, Runs, ThreadOf
  <2>2. \A r \in Runs : Ongoing(r)' => turnTask'[ThreadOf(r)] = r \/ ThreadOf(r) \in early
    BY <2>1, FreshThread, ThreadTyped DEF Ongoing, RunsTypeOK, TurnsInv
  <2>3. ASSUME NEW m \in Messagers, call'[m] = "recording"
        PROVE  holder'[Thread[m]] = m /\ (TaskDone(turnTask[Thread[m]])' \/ Thread[m] \in early')
    <3>1. CASE Thread[m] \in early
      BY <2>1, <2>3, <3>1 DEF TurnsInv
    <3>2. CASE Thread[m] \notin early
      <4>1. Thread[m] # q /\ call[m] = "recording" /\ Thread[m] \in Creators
        BY <2>1, <2>3, <3>2, FreshThread DEF ThreadOf, Runs
      <4>2. turnTask'[Thread[m]] = turnTask[Thread[m]]
        BY <2>1, <4>1 DEF RunsTypeOK
      <4>3. turnTask[Thread[m]] # q
        BY <4>1, <2>1, RunsAssumption DEF TurnsInv
      <4>4. QED
        BY <2>1, <3>2, <4>1, <4>2, <4>3 DEF TurnsInv, TaskDone, RunsTypeOK
    <3>3. QED
      BY <3>1, <3>2
  <2>4. \A r \in Runs : stage'[r] = "routing" => holder'[ThreadOf(r)] = r
    BY <2>1 DEF TurnsInv, RunsTypeOK
  <2>5. \A c \in Creators : turnTask'[c] # NoRun => ThreadOf(turnTask'[c]) = c
    BY <2>1 DEF TurnsInv, RunsTypeOK
  <2>6. QED
    BY <2>1, <2>2, <2>3, <2>4, <2>5 DEF TurnsInv
<1>7. ASSUME NEW q \in Messagers, MessageLook(q) PROVE TurnsInv'
  BY <1>7, <1>0, TurnsKept
  DEF MessageLook, Reply, Goto, RunsTypeOK, Callers, Runs, Ongoing, taskVars, requestVars, eventVars, streamVs
<1>8. ASSUME NEW q \in Messagers, MessageLock(q) PROVE TurnsInv'
  <2>1. /\ UNCHANGED <<turnTask, stage, early>> /\ holder[Thread[q]] = NoRun
        /\ \A m \in Messagers : m # q => call'[m] = call[m]
        /\ \/ call'[q] = "answered" /\ UNCHANGED holder
           \/ TaskDone(turnTask[Thread[q]]) /\ holder' = [holder EXCEPT ![Thread[q]] = q]
    BY <1>8 DEF MessageLock, Reply, Goto, Free, RunsTypeOK, Callers, Runs, taskVars
  <2>2. ASSUME NEW m \in Messagers, call'[m] = "recording"
        PROVE  holder'[Thread[m]] = m /\ (TaskDone(turnTask[Thread[m]])' \/ Thread[m] \in early')
    <3>1. CASE m = q
      BY <2>1, <2>2, <3>1 DEF TaskDone, RunsTypeOK
    <3>2. CASE m # q
      BY <2>1, <2>2, <3>2 DEF TurnsInv, TaskDone, RunsTypeOK, Runs
    <3>3. QED
      BY <3>1, <3>2
  <2>3. \A r \in Runs : stage'[r] = "routing" => holder'[ThreadOf(r)] = r
    BY <2>1, ThreadTyped DEF TurnsInv, RunsTypeOK, Runs
  <2>4. QED
    BY <2>1, <2>2, <2>3 DEF TurnsInv, Ongoing
<1>9. ASSUME NEW q \in Messagers, MessageRecord(q) PROVE TurnsInv'
  <2>1. /\ q \in Messagers /\ q \in Runs /\ call[q] = "recording" /\ ThreadOf(q) = Thread[q]
        /\ holder' = [holder EXCEPT ![Thread[q]] = NoRun] /\ Thread[q] \in Creators /\ UNCHANGED early
        /\ call' = [call EXCEPT ![q] = "answered"]
        /\ \/ UNCHANGED <<turnTask, stage>>
           \/ /\ turnTask' = [turnTask EXCEPT ![Thread[q]] = q]
              /\ stage' = [stage EXCEPT ![q] = "starting"]
    BY <1>9 DEF MessageRecord, Release, Reply, StartTask, taskVars, ThreadOf, Runs
  <2>2. /\ holder[Thread[q]] = q /\ (TaskDone(turnTask[Thread[q]]) \/ Thread[q] \in early)
        /\ stage[q] = "none"
    BY <2>1 DEF TurnsInv, RowsInv
  <2>3. ASSUME NEW r \in Runs, r # q, stage[r] = "routing" \/ (r \in Messagers /\ call[r] = "recording")
        PROVE  ThreadOf(r) # Thread[q]
    <3>1. r \in Messagers => ThreadOf(r) = Thread[r]
      BY DEF ThreadOf
    <3>2. QED
      BY <2>2, <2>3, <3>1 DEF TurnsInv
  <2>4. ASSUME NEW m \in Messagers, call'[m] = "recording"
        PROVE  holder'[Thread[m]] = m /\ (TaskDone(turnTask[Thread[m]])' \/ Thread[m] \in early')
    <3>1. m # q /\ call[m] = "recording" /\ m \in Runs /\ ThreadOf(m) = Thread[m]
      BY <2>1, <2>4 DEF RunsTypeOK, Callers, Runs, ThreadOf
    <3>2. Thread[m] # Thread[q] /\ Thread[m] \in Creators
      BY <2>3, <3>1
    <3>3. /\ holder'[Thread[m]] = m /\ turnTask'[Thread[m]] = turnTask[Thread[m]]
          /\ TaskDone(turnTask[Thread[m]]) \/ Thread[m] \in early
      BY <2>1, <3>1, <3>2 DEF TurnsInv, RunsTypeOK
    <3>4. turnTask[Thread[m]] # q
      BY <2>1, <3>2, RunsAssumption DEF TurnsInv, Runs
    <3>5. QED
      BY <2>1, <3>3, <3>4 DEF TaskDone, RunsTypeOK
  <2>5. \A r \in Runs : stage'[r] = "routing" => holder'[ThreadOf(r)] = r
    BY <2>1, <2>2, <2>3, ThreadTyped DEF TurnsInv, RunsTypeOK
  <2>6. ASSUME NEW r \in Runs, Ongoing(r)'
        PROVE  turnTask'[ThreadOf(r)] = r \/ ThreadOf(r) \in early'
    <3>1. CASE r = q
      BY <2>1, <2>2, <2>6, <3>1, ThreadTyped DEF TurnsInv, RunsTypeOK, Ongoing
    <3>2. CASE r # q
      <4>1. Ongoing(r) /\ (turnTask[ThreadOf(r)] = r \/ ThreadOf(r) \in early)
        BY <2>1, <2>6, <3>2 DEF TurnsInv, RunsTypeOK, Ongoing
      <4>2. ThreadOf(r) # Thread[q] \/ ThreadOf(r) \in early
        BY <2>2, <4>1, <3>2 DEF TaskDone, Ongoing
      <4>3. QED
        BY <2>1, <4>1, <4>2, ThreadTyped DEF RunsTypeOK
    <3>3. QED
      BY <3>1, <3>2
  <2>7. \A c \in Creators : turnTask'[c] # NoRun => ThreadOf(turnTask'[c]) = c
    BY <2>1 DEF TurnsInv, RunsTypeOK
  <2>8. QED
    BY <2>4, <2>5, <2>6, <2>7 DEF TurnsInv
<1>10. ASSUME NEW r \in Runs, Begin(r) PROVE TurnsInv'
  BY <1>10, <1>0, TurnsKept
  DEF Begin, Move, OutsideRequests, RunsTypeOK, Callers, Runs, Ongoing, taskVars, requestVars, eventVars,
      streamVs
<1>11. ASSUME NEW r \in Runs, EnterRoute(r) PROVE TurnsInv'
  <2>1. /\ UNCHANGED <<turnTask, call, early>> /\ holder[ThreadOf(r)] = NoRun /\ ThreadOf(r) \in Creators
        /\ holder' = [holder EXCEPT ![ThreadOf(r)] = r]
        /\ stage[r] = "queueing" /\ stage' = [stage EXCEPT ![r] = "routing"]
    BY <1>11, ThreadTyped DEF EnterRoute, Move, Free, OutsideRequests, requestVars
  <2>2. \A t \in Runs : Ongoing(t)' => Ongoing(t)
    BY <2>1 DEF Ongoing, RunsTypeOK
  <2>3. \A t \in Runs : TaskDone(t) => TaskDone(t)'
    BY <2>1 DEF TaskDone, RunsTypeOK
  <2>4. \A m \in Messagers : call'[m] = "recording" => holder'[Thread[m]] = m
    BY <2>1 DEF TurnsInv, RunsTypeOK, Runs
  <2>5. \A t \in Runs : stage'[t] = "routing" => holder'[ThreadOf(t)] = t
    BY <2>1, ThreadTyped DEF TurnsInv, RunsTypeOK, Runs
  <2>6. QED
    BY <2>1, <2>2, <2>3, <2>4, <2>5 DEF TurnsInv, TaskDone, RunsTypeOK
<1>12. ASSUME NEW r \in Runs, LeaveRoute(r) PROVE TurnsInv'
  <2>1. /\ UNCHANGED <<turnTask, call, early>> /\ holder' = [holder EXCEPT ![ThreadOf(r)] = NoRun]
        /\ stage[r] = "routing" /\ \E to \in {"setup", "marking"} : stage' = [stage EXCEPT ![r] = to]
    BY <1>12 DEF LeaveRoute, Move, Conclude, Release, OutsideRequests, requestVars
  <2>2. holder[ThreadOf(r)] = r /\ ThreadOf(r) \in Creators /\ call[r] = "answered"
    BY <2>1, ThreadTyped DEF TurnsInv, RowsInv
  <2>3. \A t \in Runs : t # r /\ holder[ThreadOf(t)] = t => holder'[ThreadOf(t)] = t
    BY <2>1, <2>2, ThreadTyped DEF RunsTypeOK
  <2>4. QED
    BY <2>1, <2>2, <2>3, TurnsKept DEF RunsTypeOK, Ongoing
<1>13. ASSUME NEW r \in Runs, Boot(r) PROVE TurnsInv'
  BY <1>13, <1>0, TurnsKept
  DEF Boot, Move, Conclude, Says, OutsideRequests, RunsTypeOK, Callers, Runs, Ongoing, taskVars, requestVars,
      eventVars, streamVs
<1>14. ASSUME NEW r \in Runs, TurnStart(r) PROVE TurnsInv'
  BY <1>14, <1>0, TurnsKept
  DEF TurnStart, Move, Says, OutsideRequests, RunsTypeOK, Callers, Runs, Ongoing, taskVars, requestVars,
      eventVars, streamVs
<1>15. ASSUME NEW r \in Runs, TurnFinal(r) PROVE TurnsInv'
  BY <1>15, <1>0, TurnsKept
  DEF TurnFinal, Move, Conclude, Says, OutsideRequests, RunsTypeOK, Callers, Runs, Ongoing, taskVars,
      requestVars, eventVars, streamVs
<1>16. ASSUME NEW r \in Runs, TurnBreaks(r) PROVE TurnsInv'
  BY <1>16, <1>0, TurnsKept
  DEF TurnBreaks, Move, Conclude, Says, OutsideRequests, RunsTypeOK, Callers, Runs, Ongoing, taskVars,
      requestVars, eventVars, streamVs
<1>17. ASSUME NEW r \in Runs, Record(r) PROVE TurnsInv'
  BY <1>17, <1>0, TurnsKept
  DEF Record, Move, OutsideRequests, RunsTypeOK, Callers, Runs, Ongoing, taskVars, requestVars, eventVars,
      streamVs
<1>18. ASSUME NEW r \in Runs, RecordFails(r) PROVE TurnsInv'
  BY <1>18, <1>0, TurnsKept
  DEF RecordFails, Move, Conclude, OutsideRequests, RunsTypeOK, Callers, Runs, Ongoing, taskVars, requestVars,
      eventVars, streamVs
<1>19. ASSUME NEW r \in Runs, Stopped(r) PROVE TurnsInv'
  <2>1. /\ UNCHANGED <<turnTask, call, early>> /\ Ongoing(r)
        /\ \/ UNCHANGED holder
           \/ holder[ThreadOf(r)] = r /\ holder' = [holder EXCEPT ![ThreadOf(r)] = NoRun]
        /\ \E to \in {"finishing", "marking", "done"} : stage' = [stage EXCEPT ![r] = to]
    BY <1>19 DEF Stopped, Move, Conclude, OutsideRequests, requestVars, OutcomeInv
  <2>2. ThreadOf(r) \in Creators /\ call[r] = "answered"
    BY <2>1, ThreadTyped DEF RowsInv, Ongoing
  <2>3. \A t \in Runs : t # r /\ holder[ThreadOf(t)] = t => holder'[ThreadOf(t)] = t
    BY <2>1, <2>2, ThreadTyped DEF RunsTypeOK
  <2>4. QED
    BY <2>1, <2>2, <2>3, TurnsKept DEF RunsTypeOK, Ongoing
<1>20. ASSUME NEW r \in Runs, BeginFails(r) PROVE TurnsInv'
  BY <1>20, <1>0, TurnsKept
  DEF BeginFails, Move, OutsideRequests, RunsTypeOK, Callers, Runs, Ongoing, taskVars, requestVars, eventVars,
      streamVs
<1>21. ASSUME NEW x \in Stoppers, StopRead(x) PROVE TurnsInv'
  BY <1>21, <1>0, TurnsKept
  DEF StopRead, Goto, OutsideStops, RunsTypeOK, Callers, Runs, Ongoing, taskVars, requestVars, eventVars,
      streamVs
<1>22. ASSUME NEW x \in Stoppers, StopAct(x) PROVE TurnsInv'
  <2>1. /\ UNCHANGED <<turnTask, stage, early>> /\ \A t \in Runs : call'[t] = call[t]
        /\ \/ UNCHANGED holder
           \/ \E c \in Creators : holder[c] = NoRun /\ holder' = [holder EXCEPT ![c] = x]
    BY <1>22, ThreadTyped DEF StopAct, Reply, Goto, Free, OutsideStops, RunsTypeOK, Callers, Runs
  <2>2. \A t \in Runs : holder[ThreadOf(t)] = t => holder'[ThreadOf(t)] = t
    BY <2>1, ThreadTyped DEF RunsTypeOK
  <2>3. QED
    BY <2>1, <2>2, TurnsKept DEF Ongoing, Runs
<1>23. ASSUME NEW x \in Stoppers, StopMark(x) PROVE TurnsInv'
  BY <1>23, <1>0, TurnsKept
  DEF StopMark, OutsideStops, RunsTypeOK, Callers, Runs, Ongoing, taskVars, requestVars, eventVars, streamVs
<1>24. ASSUME NEW x \in Stoppers, StopForce(x) PROVE TurnsInv'
  BY <1>24, <1>0, TurnsKept
  DEF StopForce, Goto, OutsideStops, RunsTypeOK, Callers, Runs, Ongoing, taskVars, requestVars, eventVars,
      streamVs
<1>25. ASSUME NEW x \in Stoppers, StopTail(x) PROVE TurnsInv'
  BY <1>25, <1>0, TurnsKept
  DEF StopTail, Goto, OutsideStops, RunsTypeOK, Callers, Runs, Ongoing, taskVars, requestVars, eventVars,
      streamVs
<1>25a. ASSUME NEW x \in Stoppers, StopFails(x) PROVE TurnsInv'
  <2>1. /\ UNCHANGED <<turnTask, stage, early>> /\ \A t \in Runs : call'[t] = call[t] /\ t # x
        /\ \/ UNCHANGED holder
           \/ \E c \in Creators : holder[c] = x /\ holder' = [holder EXCEPT ![c] = NoRun]
    BY <1>25a, <1>0, ThreadTyped DEF StopFails, Goto, OutsideStops, RunsTypeOK, Callers, Runs
  <2>2. \A t \in Runs : holder[ThreadOf(t)] = t => holder'[ThreadOf(t)] = t
    BY <2>1, ThreadTyped DEF RunsTypeOK
  <2>3. QED
    BY <2>1, <2>2, TurnsKept DEF Ongoing, Runs
<1>26. ASSUME NEW s \in Streamers, StreamRead(s) PROVE TurnsInv'
  BY <1>26, <1>0, TurnsKept
  DEF StreamRead, Goto, OutsideStreams, RunsTypeOK, Callers, Runs, Ongoing, taskVars, requestVars, eventVars,
      streamVs
<1>27. ASSUME NEW s \in Streamers, StreamHistory(s) PROVE TurnsInv'
  BY <1>27, <1>0, TurnsKept
  DEF StreamHistory, Reply, Goto, OutsideStreams, RunsTypeOK, Callers, Runs, Ongoing, taskVars, requestVars,
      eventVars, streamVs
<1>28. ASSUME NEW s \in Streamers, StreamSubscribe(s) PROVE TurnsInv'
  BY <1>28, <1>0, TurnsKept
  DEF StreamSubscribe, Goto, RunsTypeOK, Callers, Runs, Ongoing, taskVars, requestVars, eventVars, streamVs
<1>29. ASSUME NEW s \in Streamers, StreamCheck(s) PROVE TurnsInv'
  BY <1>29, <1>0, TurnsKept
  DEF StreamCheck, Reply, Goto, OutsideStreams, RunsTypeOK, Callers, Runs, Ongoing, taskVars, requestVars,
      eventVars, streamVs
<1>30. ASSUME NEW s \in Streamers, StreamNext(s) PROVE TurnsInv'
  BY <1>30, <1>0, TurnsKept
  DEF StreamNext, Reply, Goto, OutsideStreams, RunsTypeOK, Callers, Runs, Ongoing, taskVars, requestVars,
      eventVars, streamVs
<1>31. ASSUME NEW s \in Streamers, StreamTimeout(s) PROVE TurnsInv'
  BY <1>31, <1>0, TurnsKept
  DEF StreamTimeout, Reply, OutsideStreams, RunsTypeOK, Callers, Runs, Ongoing, taskVars, requestVars,
      eventVars, streamVs
<1>32. ASSUME NEW c \in Creators, Persist(c) PROVE TurnsInv'
  BY <1>32, <1>0, TurnsKept
  DEF Persist, RunsTypeOK, Callers, Runs, Ongoing, taskVars, requestVars, eventVars, streamVs
<1>33. CASE Crash
  <2>1. \A t \in Runs : ~Ongoing(t)' /\ stage'[t] # "routing" /\ call'[t] # "recording"
    BY <1>33 DEF Crash, Ongoing, CallsOK, Callers, Runs
  <2>2. \A c \in Creators : turnTask'[c] = NoRun
    BY <1>33 DEF Crash
  <2>3. QED
    BY <2>1, <2>2 DEF TurnsInv, Runs
<1>34. QED
  BY <1>1, <1>2, <1>3, <1>4, <1>5, <1>6, <1>7, <1>8, <1>9, <1>10, <1>11, <1>12, <1>13, <1>14, <1>15, <1>16,
     <1>17, <1>18, <1>19, <1>20, <1>21, <1>22, <1>23, <1>24, <1>25, <1>25a, <1>26, <1>27, <1>28, <1>29, <1>30, <1>31,
     <1>32, <1>33
  DEF RunsNext, Create, Post, TaskStep, StopStep, StreamStep

-----------------------------------------------------------------------------
(* The logs                                                                *)

LEMMA LogTyped ==
    ASSUME StreamsTypeOK, NEW c \in Creators
    PROVE  /\ log[c] \in Seq(Events) /\ Len(log[c]) \in Nat /\ persisted[c] \in 0..Len(log[c])
           /\ \A i \in 1..Len(log[c]) : log[c][i] \in Events /\ log[c][i].run \in Runs
<1>1. log[c] \in Seq(Events) /\ persisted[c] \in Nat /\ persisted[c] <= Len(log[c])
  BY DEF StreamsTypeOK
<1>2. Len(log[c]) \in Nat /\ \A i \in 1..Len(log[c]) : log[c][i] \in Events
  BY <1>1
<1>3. \A e \in Events : e.run \in Runs
  BY DEF Events
<1>4. QED
  BY <1>1, <1>2, <1>3

\* A step that says nothing and leaves running turns running.
LEMMA LogKept ==
    ASSUME StreamsTypeOK, LogInv, UNCHANGED <<log, crashed>>, early \subseteq early',
           \A r \in Runs : stage[r] = "loop" => stage'[r] = "loop"
    PROVE  LogInv'
<1>1. \A c \in Creators : \A i \in 1..Len(log[c]) : log[c][i].run \in Runs
  BY LogTyped
<1>2. QED
  BY <1>1, SMTT(30) DEF LogInv, EndsIn, Ends

\* The turn of a conversation that goes on says where it starts and where it ends.
LEMMA LogSays ==
    ASSUME StreamsTypeOK, TurnsInv, LogInv, UNCHANGED <<crashed, early>>,
           NEW r \in Runs, NEW what \in {"start", "end", "cut"}, Says(r, what), Ongoing(r),
           what = "start" => stage[r] # "loop" /\ stage'[r] = "loop",
           \A t \in Runs \ {r} : stage'[t] = stage[t]
    PROVE  LogInv'
<1> DEFINE e == [run |-> r, what |-> what]
<1>1. ASSUME NEW c \in Creators
      PROVE  /\ \A i \in 1..Len(log'[c]) : ThreadOf(log'[c][i].run) = c
             /\ crashed \/ c \in early \/ \A f \in 1..Len(log'[c]) :
                log'[c][f].what = "start" =>
                  /\ \A i \in f + 1..Len(log'[c]) :
                        log'[c][i].run # log'[c][f].run => EndsIn(log'[c], log'[c][f].run, f, i)
                  /\ \/ stage'[log'[c][f].run] = "loop"
                     \/ EndsIn(log'[c], log'[c][f].run, f, Len(log'[c]) + 1)
  <2> DEFINE L == Len(log[c])
  <2>1. /\ L \in Nat /\ \A i \in 1..L : log[c][i].run \in Runs
        /\ \A i \in 1..L : ThreadOf(log[c][i].run) = c
    BY LogTyped DEF LogInv
  <2>2. CASE c # ThreadOf(r)
    <3>1. log'[c] = log[c]
      BY <2>2, SaysOne
    <3>2. \A i \in 1..L : log[c][i].run # r
      BY <2>1, <2>2
    <3>3. QED
      BY <2>1, <3>1, <3>2 DEF LogInv
  <2>3. CASE c = ThreadOf(r)
    <3>1. log'[c] = Append(log[c], e) /\ e \in Events
      BY <2>3, SaysOne DEF Events
    <3>2. /\ Len(log'[c]) = L + 1 /\ log'[c][L + 1] = e
          /\ \A i \in 1..L : log'[c][i] = log[c][i]
      <4>1. log[c] \in Seq(Events)
        BY LogTyped
      <4> HIDE DEF e
      <4>2. QED
        BY <3>1, <4>1, AppendProperties
    <3>3. \A i \in 1..L + 1 : ThreadOf(log'[c][i].run) = c
      BY <2>1, <2>3, <3>2
    <3>4. ASSUME ~crashed, c \notin early, NEW f \in 1..L + 1, log'[c][f].what = "start"
          PROVE  /\ \A i \in f + 1..L + 1 :
                      log'[c][i].run # log'[c][f].run => EndsIn(log'[c], log'[c][f].run, f, i)
                 /\ \/ stage'[log'[c][f].run] = "loop"
                    \/ EndsIn(log'[c], log'[c][f].run, f, L + 2)
      <4>1. CASE f = L + 1
        BY <2>1, <3>2, <3>4, <4>1
      <4>2. CASE f # L + 1
        <5> DEFINE q == log[c][f].run
        <5>1. f \in 1..L /\ log'[c][f] = log[c][f] /\ q \in Runs /\ ThreadOf(q) = c
          BY <2>1, <3>2, <4>2
        <5>2. /\ \A i \in f + 1..L : log[c][i].run # q => EndsIn(log[c], q, f, i)
              /\ stage[q] = "loop" \/ EndsIn(log[c], q, f, L + 1)
          BY <3>4, <5>1 DEF LogInv
        <5>3. \A i \in f + 1..L + 1 : 
                EndsIn(log[c], q, f, i) => EndsIn(log'[c], q, f, i) /\ EndsIn(log'[c], q, f, L + 2)
          BY <2>1, <3>2, <5>1, SMTT(30) DEF EndsIn
        <5>4. stage[q] = "loop" => q = r
          <6>1. turnTask[c] = r
            BY <2>3, <3>4 DEF TurnsInv
          <6>2. stage[q] = "loop" => turnTask[c] = q
            BY <3>4, <5>1 DEF TurnsInv, Ongoing
          <6>3. QED
            BY <6>1, <6>2
        <5>5. ASSUME NEW i \in f + 1..L + 1, log'[c][i].run # q
              PROVE  EndsIn(log'[c], q, f, i)
          <6>1. CASE i = L + 1
            BY <2>1, <3>2, <5>1, <5>2, <5>3, <5>4, <5>5, <6>1
          <6>2. CASE i # L + 1
            BY <2>1, <3>2, <5>1, <5>2, <5>3, <5>5, <6>2, SMTT(30)
          <6>3. QED
            BY <6>1, <6>2
        <5>6. stage'[q] = "loop" \/ EndsIn(log'[c], q, f, L + 2)
          <6>1. CASE EndsIn(log[c], q, f, L + 1)
            BY <2>1, <5>1, <5>3, <6>1
          <6>2. CASE stage[q] = "loop" /\ what # "start"
            <7>1. L + 1 \in f + 1..L + 2 - 1 /\ Ends(log'[c][L + 1], q)
              BY <2>1, <3>2, <5>1, <5>4, <6>2 DEF Ends
            <7>2. QED
              BY <7>1 DEF EndsIn
          <6>3. QED
            BY <5>2, <5>4, <6>1, <6>2
        <5>7. QED
          BY <5>1, <5>5, <5>6
      <4>3. QED
        BY <4>1, <4>2
    <3>5. L + 1 + 1 = L + 2
      BY <2>1
    <3>6. QED
      BY <3>2, <3>3, <3>4, <3>5
  <2>4. QED
    BY <2>2, <2>3
<1>2. QED
  BY <1>1 DEF LogInv

LEMMA StoppedSays ==
    ASSUME NEW r \in Runs, Stopped(r)
    PROVE  Says(r, "cut") \/ (log' = log /\ stage[r] # "loop")
<1>1. CASE stage[r] \in {"setup", "loop"}
  BY <1>1 DEF Stopped
<1>2. CASE stage[r] \notin {"setup", "loop"}
  BY <1>2 DEF Stopped
<1>3. QED
  BY <1>1, <1>2

LEMMA LogStep ==
    ASSUME RunsTypeOK, CallsOK, StreamsTypeOK, RowsInv, OutcomeInv, TurnsInv, LogInv, RunsNext
    PROVE  LogInv'
<1> USE RunsAssumption
<1>1. ASSUME NEW q \in Creators, CreateLook(q) PROVE LogInv'
  BY <1>1, LogKept DEF CreateLook, Reply, Goto, RunsTypeOK, Runs, taskVars, requestVars, eventVars, streamVs
<1>2. ASSUME NEW q \in Creators, CreateThread(q) PROVE LogInv'
  BY <1>2, LogKept DEF CreateThread, Goto, RunsTypeOK, Runs, taskVars, requestVars, eventVars, streamVs
<1>3. ASSUME NEW q \in Creators, CreateRecord(q) PROVE LogInv'
  BY <1>3, LogKept DEF CreateRecord, Goto, RunsTypeOK, Runs, taskVars, requestVars, eventVars, streamVs
<1>4. ASSUME NEW q \in Creators, CreateUndo(q) PROVE LogInv'
  BY <1>4, LogKept DEF CreateUndo, Reply, RunsTypeOK, Runs, taskVars, requestVars, eventVars, streamVs
<1>5. ASSUME NEW q \in Creators, CreateInstall(q) PROVE LogInv'
  BY <1>5, LogKept DEF CreateInstall, Goto, RunsTypeOK, Runs, taskVars, requestVars, eventVars, streamVs
<1>6. ASSUME NEW q \in Creators, CreateStart(q) PROVE LogInv'
  <2>1. stage[q] = "none"
    BY <1>6 DEF CreateStart, RowsInv, Runs
  <2>2. QED
    BY <1>6, <2>1, LogKept
    DEF CreateStart, StartTask, Reply, RunsTypeOK, Runs, taskVars, requestVars, eventVars, streamVs
<1>7. ASSUME NEW q \in Messagers, MessageLook(q) PROVE LogInv'
  BY <1>7, LogKept DEF MessageLook, Reply, Goto, RunsTypeOK, Runs, taskVars, requestVars, eventVars, streamVs
<1>8. ASSUME NEW q \in Messagers, MessageLock(q) PROVE LogInv'
  BY <1>8, LogKept
  DEF MessageLock, Reply, Goto, Free, RunsTypeOK, Runs, taskVars, requestVars, eventVars, streamVs
<1>9. ASSUME NEW q \in Messagers, MessageRecord(q) PROVE LogInv'
  <2>1. stage[q] = "none"
    BY <1>9 DEF MessageRecord, RowsInv, Runs
  <2>2. QED
    BY <1>9, <2>1, LogKept
    DEF MessageRecord, Release, Reply, StartTask, RunsTypeOK, Runs, taskVars, requestVars, eventVars, streamVs
<1>10. ASSUME NEW r \in Runs, Begin(r) PROVE LogInv'
  BY <1>10, LogKept
  DEF Begin, Move, OutsideRequests, RunsTypeOK, Runs, taskVars, requestVars, eventVars, streamVs
<1>11. ASSUME NEW r \in Runs, EnterRoute(r) PROVE LogInv'
  BY <1>11, LogKept
  DEF EnterRoute, Move, Free, OutsideRequests, RunsTypeOK, Runs, taskVars, requestVars, eventVars, streamVs
<1>12. ASSUME NEW r \in Runs, LeaveRoute(r) PROVE LogInv'
  BY <1>12, LogKept
  DEF LeaveRoute, Move, Conclude, Release, OutsideRequests, RunsTypeOK, Runs, taskVars, requestVars, eventVars,
      streamVs
<1>13. ASSUME NEW r \in Runs, Boot(r) PROVE LogInv'
  <2>1. Ongoing(r) /\ (Says(r, "end") \/ UNCHANGED log)
    BY <1>13 DEF Boot, Ongoing
  <2>2. QED
    BY <1>13, <2>1, LogKept, LogSays DEF Boot, Conclude, Move, OutsideRequests, RunsTypeOK
<1>14. ASSUME NEW r \in Runs, TurnStart(r) PROVE LogInv'
  <2>1. Says(r, "start") /\ Ongoing(r)
    BY <1>14 DEF TurnStart, Ongoing
  <2>2. QED
    BY <1>14, <2>1, LogSays DEF TurnStart, Move, Conclude, OutsideRequests, RunsTypeOK
<1>15. ASSUME NEW r \in Runs, TurnFinal(r) PROVE LogInv'
  <2>1. (Says(r, "end") \/ Says(r, "cut")) /\ Ongoing(r)
    BY <1>15 DEF TurnFinal, Ongoing
  <2>2. QED
    BY <1>15, <2>1, LogSays DEF TurnFinal, Conclude, Move, OutsideRequests, RunsTypeOK
<1>16. ASSUME NEW r \in Runs, TurnBreaks(r) PROVE LogInv'
  <2>1. Says(r, "end") /\ Ongoing(r)
    BY <1>16 DEF TurnBreaks, Ongoing
  <2>2. QED
    BY <1>16, <2>1, LogSays DEF TurnBreaks, Move, Conclude, OutsideRequests, RunsTypeOK
<1>17. ASSUME NEW r \in Runs, Record(r) PROVE LogInv'
  BY <1>17, LogKept
  DEF Record, Move, OutsideRequests, RunsTypeOK, Runs, taskVars, requestVars, eventVars, streamVs
<1>18. ASSUME NEW r \in Runs, RecordFails(r) PROVE LogInv'
  BY <1>18, LogKept
  DEF RecordFails, Move, Conclude, OutsideRequests, RunsTypeOK, Runs, taskVars, requestVars, eventVars, streamVs
<1>19. ASSUME NEW r \in Runs, Stopped(r) PROVE LogInv'
  <2>1. Ongoing(r)
    BY <1>19 DEF Stopped, OutcomeInv
  <2>2. QED
    BY <1>19, <2>1, StoppedSays, LogKept, LogSays DEF Stopped, Conclude, Move, OutsideRequests, RunsTypeOK
<1>20. ASSUME NEW r \in Runs, BeginFails(r) PROVE LogInv'
  BY <1>20, LogKept
  DEF BeginFails, Move, OutsideRequests, RunsTypeOK, Runs, taskVars, requestVars, eventVars, streamVs
<1>21. ASSUME NEW x \in Stoppers, StopRead(x) PROVE LogInv'
  BY <1>21, LogKept
  DEF StopRead, Goto, OutsideStops, RunsTypeOK, Runs, taskVars, requestVars, eventVars, streamVs
<1>22. ASSUME NEW x \in Stoppers, StopAct(x) PROVE LogInv'
  BY <1>22, LogKept
  DEF StopAct, Reply, Goto, Free, OutsideStops, RunsTypeOK, Runs, taskVars, requestVars, eventVars, streamVs
<1>23. ASSUME NEW x \in Stoppers, StopMark(x) PROVE LogInv'
  BY <1>23, LogKept DEF StopMark, OutsideStops, RunsTypeOK, Runs, taskVars, requestVars, eventVars, streamVs
<1>24. ASSUME NEW x \in Stoppers, StopForce(x) PROVE LogInv'
  BY <1>24, LogKept
  DEF StopForce, Goto, OutsideStops, RunsTypeOK, Runs, taskVars, requestVars, eventVars, streamVs
<1>25. ASSUME NEW x \in Stoppers, StopTail(x) PROVE LogInv'
  BY <1>25, LogKept
  DEF StopTail, Goto, OutsideStops, RunsTypeOK, Runs, taskVars, requestVars, eventVars, streamVs
<1>25a. ASSUME NEW x \in Stoppers, StopFails(x) PROVE LogInv'
  BY <1>25a, LogKept
  DEF StopFails, Goto, OutsideStops, RunsTypeOK, Runs, taskVars, requestVars, eventVars, streamVs
<1>26. ASSUME NEW s \in Streamers, StreamRead(s) PROVE LogInv'
  BY <1>26, LogKept
  DEF StreamRead, Goto, OutsideStreams, RunsTypeOK, Runs, taskVars, requestVars, eventVars, streamVs
<1>27. ASSUME NEW s \in Streamers, StreamHistory(s) PROVE LogInv'
  BY <1>27, LogKept
  DEF StreamHistory, Reply, Goto, OutsideStreams, RunsTypeOK, Runs, taskVars, requestVars, eventVars, streamVs
<1>28. ASSUME NEW s \in Streamers, StreamSubscribe(s) PROVE LogInv'
  BY <1>28, LogKept DEF StreamSubscribe, Goto, RunsTypeOK, Runs, taskVars, requestVars, eventVars, streamVs
<1>29. ASSUME NEW s \in Streamers, StreamCheck(s) PROVE LogInv'
  BY <1>29, LogKept
  DEF StreamCheck, Reply, Goto, OutsideStreams, RunsTypeOK, Runs, taskVars, requestVars, eventVars, streamVs
<1>30. ASSUME NEW s \in Streamers, StreamNext(s) PROVE LogInv'
  BY <1>30, LogKept
  DEF StreamNext, Reply, Goto, OutsideStreams, RunsTypeOK, Runs, taskVars, requestVars, eventVars, streamVs
<1>31. ASSUME NEW s \in Streamers, StreamTimeout(s) PROVE LogInv'
  BY <1>31, LogKept
  DEF StreamTimeout, Reply, OutsideStreams, RunsTypeOK, Runs, taskVars, requestVars, eventVars, streamVs
<1>32. ASSUME NEW c \in Creators, Persist(c) PROVE LogInv'
  BY <1>32, LogKept DEF Persist, RunsTypeOK, Runs, taskVars, requestVars, eventVars, streamVs
<1>33. CASE Crash
  <2>1. ASSUME NEW c \in Creators
        PROVE  \A i \in 1..Len(log'[c]) : ThreadOf(log'[c][i].run) = c
    <3>1. log[c] \in Seq(Events) /\ persisted[c] \in 0..Len(log[c])
      BY LogTyped
    <3>2. log'[c] = SubSeq(log[c], 1, persisted[c])
      BY <1>33 DEF Crash
    <3>3. Len(log'[c]) = persisted[c] /\ \A i \in 1..persisted[c] : log'[c][i] = log[c][i]
      BY <3>1, <3>2, SubSeqProperties
    <3>4. QED
      BY <3>1, <3>3 DEF LogInv
  <2>2. QED
    BY <1>33, <2>1 DEF Crash, LogInv
<1>34. QED
  BY <1>1, <1>2, <1>3, <1>4, <1>5, <1>6, <1>7, <1>8, <1>9, <1>10, <1>11, <1>12, <1>13, <1>14, <1>15, <1>16,
     <1>17, <1>18, <1>19, <1>20, <1>21, <1>22, <1>23, <1>24, <1>25, <1>25a, <1>26, <1>27, <1>28, <1>29, <1>30, <1>31,
     <1>32, <1>33
  DEF RunsNext, Create, Post, TaskStep, StopStep, StreamStep

-----------------------------------------------------------------------------
(* What the streams show                                                   *)

\* Up to what is stored, the history of a run is what it will always be.
LEMMA HistoryGrows ==
    ASSUME StreamsTypeOK, LogGrows, NEW c \in Creators, NEW r \in Runs, NEW n \in 0..persisted[c],
           persisted'[c] \in Nat, persisted[c] <= persisted'[c]
    PROVE  {i \in History(c, r) : i <= n}' = {i \in History(c, r) : i <= n}
<1>1. /\ persisted[c] \in 0..Len(log[c]) /\ Len(log[c]) \in Nat
      /\ \A i \in 1..persisted[c] : log'[c][i] = log[c][i]
  BY LogTyped DEF LogGrows
<1> DEFINE Starts(i) == log[c][i].what = "start"
           First(i, f) == Starts(f) /\ log[c][f].run = r /\ f <= i /\ \A j \in f + 1..i : ~Starts(j)
           Starts2(i) == log'[c][i].what = "start"
           First2(i, f) == Starts2(f) /\ log'[c][f].run = r /\ f <= i /\ \A j \in f + 1..i : ~Starts2(j)
<1>2. \A i : i \in History(c, r) <=> i \in 1..persisted[c] /\ \E f \in 1..persisted[c] : First(i, f)
  BY DEF History, Stored
<1>3. \A i : i \in History(c, r)' <=> i \in 1..persisted'[c] /\ \E f \in 1..persisted'[c] : First2(i, f)
  BY DEF History, Stored
<1>4. \A i \in 1..n, f \in 1..n : First(i, f) <=> First2(i, f)
  <2>1. SUFFICES ASSUME NEW i \in 1..n, NEW f \in 1..n PROVE First(i, f) <=> First2(i, f)
    OBVIOUS
  <2>2. \A j \in f..i : log'[c][j] = log[c][j]
    BY <1>1
  <2>3. log'[c][f] = log[c][f]
    BY <1>1
  <2>4. QED
    BY <2>2, <2>3
<1>5. \A i, f : i <= n /\ i \in Nat /\ f \in Nat /\ (First(i, f) \/ First2(i, f)) => f <= n
  BY <1>1
<1> HIDE DEF First, First2
<1>6. \A i \in 1..n : i \in History(c, r) <=> i \in History(c, r)'
  <2>1. SUFFICES ASSUME NEW i \in 1..n PROVE i \in History(c, r) <=> i \in History(c, r)'
    OBVIOUS
  <2>2. i \in Nat /\ i <= n /\ i \in 1..persisted[c] /\ i \in 1..persisted'[c]
    BY <1>1
  <2>3. ASSUME i \in History(c, r) PROVE i \in History(c, r)'
    <3>1. PICK f \in 1..persisted[c] : First(i, f)
      BY <1>2, <2>3
    <3>2. f \in Nat /\ f <= n
      BY <1>5, <2>2, <3>1
    <3>3. f \in 1..n /\ f \in 1..persisted'[c]
      BY <1>1, <3>2
    <3>4. QED
      BY <1>3, <1>4, <2>2, <3>1, <3>3
  <2>4. ASSUME i \in History(c, r)' PROVE i \in History(c, r)
    <3>1. PICK f \in 1..persisted'[c] : First2(i, f)
      BY <1>3, <2>4
    <3>2. f \in Nat /\ f <= n
      BY <1>5, <2>2, <3>1
    <3>3. f \in 1..n /\ f \in 1..persisted[c]
      BY <1>1, <3>2
    <3>4. QED
      BY <1>2, <1>4, <2>2, <3>1, <3>3
  <2>5. QED
    BY <2>3, <2>4
<1>7. \A i : (i \in History(c, r) \/ i \in History(c, r)') /\ i <= n => i \in 1..n
  BY <1>1, <1>2, <1>3
<1>8. QED
  BY <1>6, <1>7

\* What a history shows of other runs comes after the end of its own.
LEMMA HistoryEnded ==
    ASSUME StreamsTypeOK, LogInv, ~crashed, NEW c \in Creators \ early, NEW r \in Runs,
           NEW i \in History(c, r), log[c][i].run # r
    PROVE  \E j \in 1..i - 1 : Ends(log[c][j], r)
<1>1. persisted[c] \in 0..Len(log[c]) /\ Len(log[c]) \in Nat
  BY LogTyped
<1>2. PICK f \in 1..persisted[c] : log[c][f].what = "start" /\ log[c][f].run = r /\ f <= i
  BY DEF History, Stored
<1>3. i \in 1..Len(log[c]) /\ f \in 1..Len(log[c]) /\ i # f
  BY <1>1, <1>2 DEF History, Stored
<1>4. i \in f + 1..Len(log[c])
  BY <1>1, <1>2, <1>3
<1>5. EndsIn(log[c], r, f, i)
  BY <1>2, <1>3, <1>4 DEF LogInv
<1>6. QED
  BY <1>3, <1>5 DEF EndsIn

LEMMA HistoryBegun ==
    ASSUME StreamsTypeOK, NEW s \in Streamers, History(ThreadOf(Subject[s]), Subject[s]) # {}
    PROVE  BegunBy(s, Len(log[ThreadOf(Subject[s])]))
<1> DEFINE c == ThreadOf(Subject[s])
<1>1. c \in Creators /\ Subject[s] \in Runs
  BY ThreadTyped, RunsAssumption
<1>2. persisted[c] \in 0..Len(log[c]) /\ Len(log[c]) \in Nat
  BY <1>1, LogTyped
<1>3. PICK f \in 1..persisted[c] : log[c][f].what = "start" /\ log[c][f].run = Subject[s]
  BY DEF History, Stored
<1>4. f \in 1..Len(log[c]) /\ log[c][f] \in Events
  BY <1>1, <1>2, <1>3, LogTyped
<1>5. log[c][f] = [run |-> Subject[s], what |-> "start"]
  BY <1>3, <1>4 DEF Events
<1>6. QED
  BY <1>2, <1>4, <1>5 DEF BegunBy

\* A stream that takes no step keeps its view in order, whatever the logs gain.
LEMMA ViewKept ==
    ASSUME StreamsTypeOK, ViewInv, LogGrows, UNCHANGED crashed, early \subseteq early', NEW s \in Streamers,
           \A c \in Creators : persisted'[c] \in Nat /\ Len(log'[c]) \in Nat /\ persisted[c] <= persisted'[c],
           view'[s] = view[s], next'[s] = next[s], begun'[s] = begun[s],
           call'[s] = call[s] \/ call'[s] \in {"idle", "history", "answered"}
    PROVE  ViewOf(s)'
<1> DEFINE c == ThreadOf(Subject[s])
           L == Len(log[c])
<1>1. c \in Creators /\ Subject[s] \in Runs
  BY ThreadTyped, RunsAssumption
<1>2. /\ L \in Nat /\ L <= Len(log'[c]) /\ Len(log'[c]) \in Nat /\ persisted[c] \in Nat
      /\ persisted'[c] \in Nat /\ persisted[c] <= persisted'[c]
      /\ \A i \in 1..L : log'[c][i] = log[c][i]
  BY <1>1, LogTyped DEF LogGrows
<1>3. ViewOf(s)
  BY DEF ViewInv
<1>4. Ascending(view[s])' /\ ShownOf(s)' = ShownOf(s)
  BY <1>3 DEF ViewOf, Ascending, ShownOf
<1>5. ShownOf(s) \subseteq 1..L
  BY <1>3 DEF ViewOf
<1>6. \A i \in ShownOf(s)' : i \in 1..Len(log'[c])
  BY <1>2, <1>4, <1>5
<1>7. ASSUME ~crashed, c \notin early, NEW i \in ShownOf(s), log'[c][i].run # Subject[s]
      PROVE  \E j \in 1..i - 1 : Ends(log'[c][j], Subject[s])
  <2>1. i \in 1..L /\ log'[c][i] = log[c][i]
    BY <1>2, <1>5
  <2>2. \E j \in 1..i - 1 : Ends(log[c][j], Subject[s])
    BY <1>3, <1>7, <2>1 DEF ViewOf
  <2>3. \A j \in 1..i - 1 : log'[c][j] = log[c][j]
    BY <1>2, <2>1
  <2>4. QED
    BY <2>2, <2>3
<1>8. ASSUME call'[s] \in {"subscribing", "checking"}
      PROVE  \E n \in 0..persisted'[c] : ShownOf(s)' = EarlierPart(s, n)'
  <2>1. PICK n \in 0..persisted[c] : ShownOf(s) = EarlierPart(s, n)
    BY <1>3, <1>8 DEF ViewOf
  <2>2. {i \in History(c, Subject[s]) : i <= n}' = {i \in History(c, Subject[s]) : i <= n}
    BY <1>1, <1>2, HistoryGrows
  <2>3. n \in 0..persisted'[c]
    BY <1>2
  <2>4. QED
    BY <1>4, <2>1, <2>2, <2>3 DEF EarlierPart
<1>9. ASSUME NEW n \in Nat, NEW k \in Nat, n <= k, BegunBy(s, n)
      PROVE  \E f \in 1..Len(log'[c]) : f <= k /\ log'[c][f] = [run |-> Subject[s], what |-> "start"]
  <2>1. PICK f \in 1..L : f <= n /\ log[c][f] = [run |-> Subject[s], what |-> "start"]
    BY <1>9 DEF BegunBy
  <2>2. f \in 1..Len(log'[c]) /\ f <= k /\ log'[c][f] = log[c][f]
    BY <1>2, <1>9, <2>1
  <2>3. QED
    BY <2>1, <2>2
<1>10. call'[s] = "subscribing" /\ begun'[s] => BegunBy(s, Len(log[c]))'
  <2>1. SUFFICES ASSUME call'[s] = "subscribing", begun'[s] PROVE BegunBy(s, Len(log[c]))'
    OBVIOUS
  <2>2. BegunBy(s, L)
    BY <1>3, <2>1 DEF ViewOf
  <2>3. QED
    BY <1>2, <1>9, <2>2 DEF BegunBy
<1>11. call'[s] \in {"checking", "live"} =>
         /\ next'[s] \in 0..Len(log'[c]) /\ \A i \in ShownOf(s)' : i <= next'[s]
         /\ begun'[s] => BegunBy(s, next[s])'
  <2>1. SUFFICES ASSUME call'[s] \in {"checking", "live"}
                 PROVE  /\ next'[s] \in 0..Len(log'[c]) /\ \A i \in ShownOf(s)' : i <= next'[s]
                        /\ begun'[s] => BegunBy(s, next[s])'
    OBVIOUS
  <2>2. next[s] \in 0..L /\ (\A i \in ShownOf(s) : i <= next[s]) /\ (begun[s] => BegunBy(s, next[s]))
    BY <1>3, <2>1 DEF ViewOf
  <2>3. next[s] \in Nat /\ next'[s] = next[s]
    BY <1>2, <2>2
  <2>4. BegunBy(s, next[s]) => BegunBy(s, next[s])'
    <3>1. SUFFICES ASSUME BegunBy(s, next[s]) PROVE BegunBy(s, next[s])'
      OBVIOUS
    <3>2. next[s] <= next[s]
      BY <2>3
    <3>3. \E f \in 1..Len(log'[c]) : f <= next[s] /\ log'[c][f] = [run |-> Subject[s], what |-> "start"]
      BY <1>9, <2>3, <3>1, <3>2
    <3>4. QED
      BY <2>3, <3>3 DEF BegunBy
  <2>5. QED
    BY <1>2, <1>4, <2>2, <2>4
<1>12. QED
  BY <1>4, <1>6, <1>7, <1>8, <1>10, <1>11 DEF ViewOf

\* What a stream does to its own view.
ViewedBy(s) ==
    /\ UNCHANGED <<log, persisted, crashed, early>>
    /\ \A t \in Streamers \ {s} :
          view'[t] = view[t] /\ next'[t] = next[t] /\ begun'[t] = begun[t] /\ call'[t] = call[t]

LEMMA ViewedByOne ==
    ASSUME StreamsTypeOK, ViewInv, NEW s \in Streamers, ViewedBy(s), ViewOf(s)'
    PROVE  ViewInv'
<1>1. LogGrows /\ \A c \in Creators : persisted'[c] \in Nat /\ Len(log'[c]) \in Nat /\ persisted[c] <= persisted'[c]
  BY LogTyped DEF LogGrows, ViewedBy
<1>2. \A t \in Streamers \ {s} : ViewOf(t)'
  BY <1>1, ViewKept DEF ViewedBy
<1>3. QED
  BY <1>2 DEF ViewInv

LEMMA HistoryViewed ==
    ASSUME RunsTypeOK, StreamsTypeOK, LogInv, ViewInv, NEW s \in Streamers, StreamHistory(s)
    PROVE  ViewOf(s)'
<1> DEFINE c == ThreadOf(Subject[s])
           past == History(c, Subject[s])
<1>1. c \in Creators /\ Subject[s] \in Runs /\ s \in Callers
  BY ThreadTyped, RunsAssumption DEF Callers
<1>2. /\ UNCHANGED <<log, persisted, crashed, early>> /\ view'[s] = Positions(past)
      /\ begun'[s] = (past # {}) /\ call'[s] \in {"answered", "subscribing"}
  BY <1>1 DEF StreamHistory, Reply, Goto, OutsideStreams, eventVars, RunsTypeOK, StreamsTypeOK
<1>3. ToSet(view'[s]) = past /\ Ascending(view'[s])
  BY <1>1, <1>2, PositionsTyped
<1>4. persisted[c] \in 0..Len(log[c]) /\ Len(log[c]) \in Nat
  BY <1>1, LogTyped
<1>5. past \subseteq 1..persisted[c]
  BY DEF History, Stored
<1>6. \A i \in past : i \in 1..Len(log[c])
  BY <1>4, <1>5
<1>7. crashed \/ c \in early \/ \A i \in past : log[c][i].run # Subject[s] => \E j \in 1..i - 1 : Ends(log[c][j], Subject[s])
  BY <1>1, HistoryEnded
<1>8. past = {i \in past : i <= persisted[c]} /\ persisted[c] \in 0..persisted[c]
  BY <1>4, <1>5
<1>9. past # {} => BegunBy(s, Len(log[c]))
  BY HistoryBegun
<1> HIDE DEF past
<1>10. \E n \in 0..persisted[c] : past = {i \in past : i <= n}
  BY <1>8
<1>11. Ascending(view[s])' /\ ShownOf(s)' = past
  BY <1>3 DEF Ascending, ShownOf
<1>12. \E n \in 0..persisted'[c] : ShownOf(s)' = EarlierPart(s, n)'
  <2>1. \A n \in 0..persisted[c] : EarlierPart(s, n)' = {i \in past : i <= n}
    BY <1>2 DEF EarlierPart, past, History, Stored
  <2>2. QED
    BY <1>2, <1>10, <1>11, <2>1
<1>13. begun'[s] => BegunBy(s, Len(log[c]))'
  BY <1>2, <1>9 DEF BegunBy
<1>14. QED
  BY <1>2, <1>6, <1>7, <1>11, <1>12, <1>13 DEF ViewOf

LEMMA SubscribeViewed ==
    ASSUME RunsTypeOK, StreamsTypeOK, ViewInv, NEW s \in Streamers, StreamSubscribe(s)
    PROVE  ViewOf(s)'
<1> DEFINE c == ThreadOf(Subject[s])
<1>1. c \in Creators /\ Subject[s] \in Runs /\ s \in Callers
  BY ThreadTyped, RunsAssumption DEF Callers
<1>2. /\ UNCHANGED <<log, persisted, crashed, early, view, begun>> /\ next'[s] = Len(log[c])
      /\ call'[s] = "checking" /\ call[s] = "subscribing"
  BY <1>1 DEF StreamSubscribe, Goto, eventVars, RunsTypeOK, StreamsTypeOK
<1>3. Len(log[c]) \in Nat
  BY <1>1, LogTyped
<1>4. ViewOf(s)
  BY DEF ViewInv
<1>5. \E n \in 0..persisted[c] : ShownOf(s) = EarlierPart(s, n)
  BY <1>2, <1>4 DEF ViewOf
<1>6. Ascending(view[s])' /\ ShownOf(s)' = ShownOf(s)
  BY <1>2, <1>4 DEF ViewOf, Ascending, ShownOf
<1>7. \E n \in 0..persisted'[c] : ShownOf(s)' = EarlierPart(s, n)'
  <2>1. \A n \in 0..persisted[c] : EarlierPart(s, n)' = EarlierPart(s, n)
    BY <1>2 DEF EarlierPart, History, Stored
  <2>2. QED
    BY <1>2, <1>5, <1>6, <2>1
<1>8. begun'[s] => BegunBy(s, next[s])'
  BY <1>2, <1>4 DEF ViewOf, BegunBy
<1>9. next'[s] \in 0..Len(log'[c]) /\ \A i \in ShownOf(s)' : i <= next'[s]
  BY <1>2, <1>3, <1>4, <1>6 DEF ViewOf
<1>10. QED
  BY <1>2, <1>4, <1>6, <1>7, <1>8, <1>9 DEF ViewOf

LEMMA AscendingJoin ==
    ASSUME NEW a \in Seq(Nat), NEW b \in Seq(Nat), Ascending(a), Ascending(b),
           \A x \in ToSet(a), y \in ToSet(b) : x < y
    PROVE  a \o b \in Seq(Nat) /\ Ascending(a \o b) /\ ToSet(a \o b) = ToSet(a) \cup ToSet(b)
<1>1. /\ a \o b \in Seq(Nat) /\ Len(a \o b) = Len(a) + Len(b) /\ Len(a) \in Nat /\ Len(b) \in Nat
      /\ \A i \in 1..Len(a) + Len(b) : (a \o b)[i] = IF i <= Len(a) THEN a[i] ELSE b[i - Len(a)]
  BY ConcatProperties
<1>2. DOMAIN a = 1..Len(a) /\ DOMAIN b = 1..Len(b) /\ DOMAIN (a \o b) = 1..Len(a) + Len(b)
  BY <1>1
<1> DEFINE t == a \o b
<1>3. \A i \in 1..Len(a) : i \in DOMAIN t /\ t[i] = a[i]
  BY <1>1, <1>2
<1>4. \A i \in 1..Len(b) : Len(a) + i \in DOMAIN t /\ t[Len(a) + i] = b[i]
  BY <1>1, <1>2
<1>5. \A k \in DOMAIN t : \/ k \in 1..Len(a)
                          \/ \E i \in 1..Len(b) : k = Len(a) + i
  <2>1. SUFFICES ASSUME NEW k \in DOMAIN t, k \notin 1..Len(a) PROVE \E i \in 1..Len(b) : k = Len(a) + i
    OBVIOUS
  <2>2. k - Len(a) \in 1..Len(b) /\ k = Len(a) + (k - Len(a))
    BY <1>1, <1>2, <2>1
  <2>3. QED
    BY <2>2
<1> HIDE DEF t
<1>6. ToSet(t) = ToSet(a) \cup ToSet(b)
  <2>1. \A x : x \in ToSet(t) <=> \E k \in DOMAIN t : t[k] = x
    BY DEF ToSet
  <2>2. \A x : x \in ToSet(a) <=> \E k \in 1..Len(a) : a[k] = x
    BY <1>2 DEF ToSet
  <2>3. \A x : x \in ToSet(b) <=> \E k \in 1..Len(b) : b[k] = x
    BY <1>2 DEF ToSet
  <2>4. ASSUME NEW x \in ToSet(t) PROVE x \in ToSet(a) \cup ToSet(b)
    <3>1. PICK k \in DOMAIN t : t[k] = x
      BY <2>1, <2>4
    <3>2. CASE k \in 1..Len(a)
      BY <1>3, <2>2, <3>1, <3>2
    <3>3. CASE \E i \in 1..Len(b) : k = Len(a) + i
      BY <1>4, <2>3, <3>1, <3>3
    <3>4. QED
      BY <1>5, <3>2, <3>3
  <2>5. ASSUME NEW x \in ToSet(a) \cup ToSet(b) PROVE x \in ToSet(t)
    <3>1. CASE x \in ToSet(a)
      BY <1>3, <2>1, <2>2, <3>1
    <3>2. CASE x \in ToSet(b)
      BY <1>4, <2>1, <2>3, <3>2
    <3>3. QED
      BY <2>5, <3>1, <3>2
  <2>6. QED
    BY <2>4, <2>5
<1>7. ASSUME NEW i \in DOMAIN t, NEW j \in DOMAIN t, i < j PROVE t[i] < t[j]
  <2>1. CASE j \in 1..Len(a)
    <3>1. i \in 1..Len(a)
      BY <1>1, <1>2, <1>7, <2>1 DEF t
    <3>2. QED
      BY <1>2, <1>3, <1>7, <2>1, <3>1 DEF Ascending
  <2>2. CASE \E k \in 1..Len(b) : j = Len(a) + k
    <3>1. PICK k \in 1..Len(b) : j = Len(a) + k
      BY <2>2
    <3>2. CASE i \in 1..Len(a)
      BY <1>2, <1>3, <1>4, <3>1, <3>2 DEF ToSet
    <3>3. CASE \E l \in 1..Len(b) : i = Len(a) + l
      <4>1. PICK l \in 1..Len(b) : i = Len(a) + l
        BY <3>3
      <4>2. l < k
        BY <1>1, <1>7, <3>1, <4>1
      <4>3. QED
        BY <1>2, <1>4, <3>1, <4>1, <4>2 DEF Ascending
    <3>4. QED
      BY <1>5, <3>2, <3>3
  <2>3. QED
    BY <1>5, <2>1, <2>2
<1>8. QED
  BY <1>1, <1>6, <1>7 DEF Ascending, t

LEMMA CheckViewed ==
    ASSUME RunsTypeOK, StreamsTypeOK, LogInv, ViewInv, NEW s \in Streamers, StreamCheck(s)
    PROVE  ViewOf(s)'
<1> DEFINE c == ThreadOf(Subject[s])
           fresh == History(c, Subject[s]) \ ToSet(view[s])
<1>1. c \in Creators /\ Subject[s] \in Runs /\ s \in Callers
  BY ThreadTyped, RunsAssumption DEF Callers
<1>2. /\ UNCHANGED <<log, persisted, crashed, early, next, begun>> /\ call[s] = "checking"
      /\ \/ call'[s] = "answered" /\ view'[s] = view[s] \o Positions(fresh)
         \/ call'[s] = "live" /\ view'[s] = view[s]
  BY <1>1 DEF StreamCheck, Reply, Goto, OutsideStreams, eventVars, RunsTypeOK, StreamsTypeOK
<1>3. ViewOf(s)
  BY DEF ViewInv
<1>4. persisted[c] \in 0..Len(log[c]) /\ Len(log[c]) \in Nat
  BY <1>1, LogTyped
<1>5. CASE call'[s] = "live" /\ view'[s] = view[s]
  <2>1. Ascending(view[s])' /\ ShownOf(s)' = ShownOf(s)
    BY <1>3, <1>5 DEF ViewOf, Ascending, ShownOf
  <2>2. begun'[s] => BegunBy(s, next[s])'
    BY <1>2, <1>3 DEF ViewOf, BegunBy
  <2>3. QED
    BY <1>2, <1>3, <1>5, <2>1, <2>2 DEF ViewOf
<1>6. CASE call'[s] = "answered" /\ view'[s] = view[s] \o Positions(fresh)
  <2>1. Positions(fresh) \in Seq(Nat) /\ ToSet(Positions(fresh)) = fresh /\ Ascending(Positions(fresh))
    BY <1>1, PositionsTyped
  <2>2. PICK n \in 0..persisted[c] : ShownOf(s) = EarlierPart(s, n)
    BY <1>2, <1>3 DEF ViewOf
  <2>3. \A x \in ToSet(view[s]), y \in fresh : x < y
    <3>1. SUFFICES ASSUME NEW x \in ToSet(view[s]), NEW y \in fresh PROVE x < y
      OBVIOUS
    <3>2. x <= n /\ x \in Nat
      BY <2>2 DEF ShownOf, EarlierPart, History, Stored
    <3>3. ~(y <= n) /\ y \in Nat
      BY <2>2 DEF ShownOf, EarlierPart, History, Stored
    <3>4. QED
      BY <1>4, <3>2, <3>3
  <2>4. view[s] \in Seq(Nat) /\ Ascending(view[s])
    BY <1>3 DEF StreamsTypeOK, ViewOf
  <2> HIDE DEF fresh
  <2>5. Ascending(view[s] \o Positions(fresh)) /\ ToSet(view[s] \o Positions(fresh)) = ToSet(view[s]) \cup fresh
    BY <2>1, <2>3, <2>4, AscendingJoin
  <2>6. Ascending(view[s])' /\ ShownOf(s)' = ShownOf(s) \cup fresh
    BY <1>6, <2>5 DEF Ascending, ShownOf
  <2>7. \A i \in fresh : i \in 1..Len(log[c])
    BY <1>4 DEF fresh, History, Stored
  <2>8. crashed \/ c \in early \/ \A i \in fresh :
           log[c][i].run # Subject[s] => \E j \in 1..i - 1 : Ends(log[c][j], Subject[s])
    BY <1>1, HistoryEnded DEF fresh
  <2>9. QED
    BY <1>2, <1>3, <1>6, <2>6, <2>7, <2>8 DEF ViewOf
<1>7. QED
  BY <1>2, <1>5, <1>6

LEMMA NextViewed ==
    ASSUME RunsTypeOK, StreamsTypeOK, LogInv, ViewInv, NEW s \in Streamers, StreamNext(s)
    PROVE  ViewOf(s)'
<1> DEFINE c == ThreadOf(Subject[s])
           i == next[s] + 1
           starts == log[c][i].what = "start"
           own == IF starts THEN log[c][i].run = Subject[s] ELSE begun[s]
<1>1. c \in Creators /\ Subject[s] \in Runs /\ s \in Callers
  BY ThreadTyped, RunsAssumption DEF Callers
<1>2. /\ UNCHANGED <<log, persisted, crashed, early>> /\ call[s] = "live" /\ i <= Len(log[c])
      /\ next'[s] = i /\ begun'[s] = (begun[s] \/ (starts /\ own)) /\ call'[s] \in {"answered", "live"}
      /\ view'[s] = IF own THEN Append(view[s], i) ELSE view[s]
  BY <1>1 DEF StreamNext, Reply, Goto, OutsideStreams, eventVars, RunsTypeOK, StreamsTypeOK
<1>3. ViewOf(s)
  BY DEF ViewInv
<1>4. Len(log[c]) \in Nat
  BY <1>1, LogTyped
<1>5. /\ i \in 1..Len(log[c]) /\ (\A k \in ShownOf(s) : k < i /\ k \in Nat)
      /\ next[s] \in Nat /\ (begun[s] => BegunBy(s, next[s]))
  BY <1>2, <1>3, <1>4 DEF ViewOf
<1>6. log[c][i] \in Events
  BY <1>1, <1>5, LogTyped
<1>7. begun'[s] => BegunBy(s, next[s])'
  <2>1. CASE starts /\ own
    <3>1. log[c][i] = [run |-> Subject[s], what |-> "start"]
      BY <1>6, <2>1 DEF Events
    <3>2. \E f \in 1..Len(log'[c]) : f <= next'[s] /\ log'[c][f] = [run |-> Subject[s], what |-> "start"]
      BY <1>2, <1>4, <1>5, <3>1
    <3>3. QED
      BY <3>2 DEF BegunBy
  <2>2. CASE begun[s]
    <3>1. PICK f \in 1..Len(log[c]) : f <= next[s] /\ log[c][f] = [run |-> Subject[s], what |-> "start"]
      BY <1>5, <2>2 DEF BegunBy
    <3>2. f <= i /\ log'[c][f] = log[c][f] /\ f \in 1..Len(log'[c])
      BY <1>2, <1>4, <1>5, <3>1
    <3>3. QED
      BY <1>2, <3>1, <3>2 DEF BegunBy
  <2>3. QED
    BY <1>2, <2>1, <2>2
<1>8. CASE ~own
  <2>1. Ascending(view[s])' /\ ShownOf(s)' = ShownOf(s)
    BY <1>2, <1>3, <1>8 DEF ViewOf, Ascending, ShownOf
  <2>2. \A k \in ShownOf(s)' : k <= next'[s]
    BY <1>2, <1>5, <2>1
  <2>3. next'[s] \in 0..Len(log'[c])
    BY <1>2, <1>4, <1>5
  <2>4. QED
    BY <1>2, <1>3, <1>7, <2>1, <2>2, <2>3 DEF ViewOf
<1>9. CASE own
  <2> HIDE DEF i, own
  <2>1. view[s] \in Seq(Nat) /\ Ascending(view[s]) /\ <<i>> \in Seq(Nat) /\ Ascending(<<i>>) /\ ToSet(<<i>>) = {i}
    BY <1>3, <1>5 DEF StreamsTypeOK, ViewOf, Ascending, ToSet
  <2>2. Append(view[s], i) = view[s] \o <<i>>
    BY <1>5, <2>1, SMTT(30)
  <2>3. \A x \in ToSet(view[s]), y \in {i} : x < y
    BY <1>5 DEF ShownOf
  <2>4. Ascending(view[s])' /\ ShownOf(s)' = ShownOf(s) \cup {i}
    <3>1. Ascending(view[s] \o <<i>>) /\ ToSet(view[s] \o <<i>>) = ToSet(view[s]) \cup {i}
      <4> DEFINE a == view[s]
                 b == <<i>>
      <4>1. a \in Seq(Nat) /\ Ascending(a) /\ b \in Seq(Nat) /\ Ascending(b) /\ ToSet(b) = {i}
        BY <2>1
      <4>2. \A x \in ToSet(a), y \in ToSet(b) : x < y
        BY <2>3, <4>1
      <4> HIDE DEF a, b
      <4>3. Ascending(a \o b) /\ ToSet(a \o b) = ToSet(a) \cup {i}
        BY <4>1, <4>2, AscendingJoin
      <4>4. QED
        BY <4>3 DEF a, b
    <3>2. view'[s] = view[s] \o <<i>>
      BY <1>2, <1>9, <2>2
    <3>3. QED
      BY <3>1, <3>2 DEF Ascending, ShownOf
  <2>5. ASSUME ~crashed, c \notin early, log[c][i].run # Subject[s]
        PROVE  \E j \in 1..i - 1 : Ends(log[c][j], Subject[s])
    <3>1. begun[s]
      BY <1>9, <2>5 DEF own
    <3>2. PICK f \in 1..Len(log[c]) : f <= next[s] /\ log[c][f] = [run |-> Subject[s], what |-> "start"]
      BY <1>5, <3>1 DEF BegunBy
    <3>3. i \in f + 1..Len(log[c])
      BY <1>4, <1>5, <3>2 DEF i
    <3>4. log[c][f].what = "start" /\ log[c][f].run = Subject[s]
      BY <3>2
    <3>5. EndsIn(log[c], Subject[s], f, i)
      BY <1>1, <2>5, <3>3, <3>4 DEF LogInv
    <3>6. QED
      BY <1>5, <3>5 DEF EndsIn
  <2>6. \A k \in ShownOf(s)' : k \in 1..Len(log'[c])
    BY <1>2, <1>3, <1>5, <2>4 DEF ViewOf
  <2>7. crashed \/ c \in early \/ \A k \in ShownOf(s)' :
           log'[c][k].run # Subject[s] => \E j \in 1..k - 1 : Ends(log'[c][j], Subject[s])
    BY <1>2, <1>3, <2>4, <2>5 DEF ViewOf
  <2>8. \A k \in ShownOf(s)' : k <= next'[s]
    BY <1>2, <1>5, <2>4 DEF ViewOf
  <2>9. next'[s] \in 0..Len(log'[c])
    BY <1>2, <1>4, <1>5
  <2>10. QED
    BY <1>2, <1>7, <2>4, <2>6, <2>7, <2>8, <2>9 DEF ViewOf
<1>10. QED
  BY <1>8, <1>9


LEMMA ViewsKept ==
    ASSUME StreamsTypeOK, StreamsTypeOK', ViewInv, LogGrows \/ UNCHANGED log,
           \A c \in Creators : persisted[c] <= persisted'[c],
           UNCHANGED <<view, next, begun, crashed>>, early \subseteq early',
           \A s \in Streamers : call'[s] = call[s] \/ call'[s] \in {"idle", "history", "answered"}
    PROVE  ViewInv'
<1>1. LogGrows
  BY LogTyped DEF LogGrows
<1>2. \A c \in Creators : persisted'[c] \in Nat /\ Len(log'[c]) \in Nat
  BY DEF StreamsTypeOK
<1>3. QED
  BY <1>1, <1>2, ViewKept DEF ViewInv

LEMMA ViewStep ==
    ASSUME RunsTypeOK, CallsOK, StreamsTypeOK, StreamsTypeOK', LogInv, ViewInv, RunsNext
    PROVE  ViewInv'
<1> USE RunsAssumption
<1>0. /\ \A s \in Streamers : s \in Callers /\ s \notin Runs \cup Stoppers
      /\ \A c \in Creators : persisted[c] <= persisted[c]
  BY DEF Callers, StreamsTypeOK
<1>1. ASSUME NEW q \in Creators, CreateLook(q) PROVE ViewInv'
  BY <1>1, <1>0, ViewsKept
  DEF CreateLook, Reply, Goto, RunsTypeOK, Runs, taskVars, requestVars, eventVars, streamVs
<1>2. ASSUME NEW q \in Creators, CreateThread(q) PROVE ViewInv'
  BY <1>2, <1>0, ViewsKept DEF CreateThread, Goto, RunsTypeOK, Runs, taskVars, requestVars, eventVars, streamVs
<1>3. ASSUME NEW q \in Creators, CreateRecord(q) PROVE ViewInv'
  BY <1>3, <1>0, ViewsKept DEF CreateRecord, Goto, RunsTypeOK, Runs, taskVars, requestVars, eventVars, streamVs
<1>4. ASSUME NEW q \in Creators, CreateUndo(q) PROVE ViewInv'
  BY <1>4, <1>0, ViewsKept DEF CreateUndo, Reply, RunsTypeOK, Runs, taskVars, requestVars, eventVars, streamVs
<1>5. ASSUME NEW q \in Creators, CreateInstall(q) PROVE ViewInv'
  BY <1>5, <1>0, ViewsKept DEF CreateInstall, Goto, RunsTypeOK, Runs, taskVars, requestVars, eventVars, streamVs
<1>6. ASSUME NEW q \in Creators, CreateStart(q) PROVE ViewInv'
  BY <1>6, <1>0, ViewsKept
  DEF CreateStart, StartTask, Reply, RunsTypeOK, Runs, taskVars, requestVars, eventVars, streamVs
<1>7. ASSUME NEW q \in Messagers, MessageLook(q) PROVE ViewInv'
  BY <1>7, <1>0, ViewsKept
  DEF MessageLook, Reply, Goto, RunsTypeOK, Runs, taskVars, requestVars, eventVars, streamVs
<1>8. ASSUME NEW q \in Messagers, MessageLock(q) PROVE ViewInv'
  BY <1>8, <1>0, ViewsKept
  DEF MessageLock, Reply, Goto, Free, RunsTypeOK, Runs, taskVars, requestVars, eventVars, streamVs
<1>9. ASSUME NEW q \in Messagers, MessageRecord(q) PROVE ViewInv'
  BY <1>9, <1>0, ViewsKept
  DEF MessageRecord, Release, Reply, StartTask, RunsTypeOK, Runs, taskVars, requestVars, eventVars, streamVs
<1>10. ASSUME NEW r \in Runs, Begin(r) PROVE ViewInv'
  BY <1>10, <1>0, ViewsKept
  DEF Begin, Move, OutsideRequests, RunsTypeOK, Runs, taskVars, requestVars, eventVars, streamVs
<1>11. ASSUME NEW r \in Runs, EnterRoute(r) PROVE ViewInv'
  BY <1>11, <1>0, ViewsKept
  DEF EnterRoute, Move, Free, OutsideRequests, RunsTypeOK, Runs, taskVars, requestVars, eventVars, streamVs
<1>12. ASSUME NEW r \in Runs, LeaveRoute(r) PROVE ViewInv'
  BY <1>12, <1>0, ViewsKept
  DEF LeaveRoute, Move, Conclude, Release, OutsideRequests, RunsTypeOK, Runs, taskVars, requestVars, eventVars,
      streamVs
<1>13. ASSUME NEW r \in Runs, Boot(r) PROVE ViewInv'
  <2>1. Says(r, "end") \/ UNCHANGED log
    BY <1>13 DEF Boot
  <2>2. LogGrows \/ UNCHANGED log
    BY <2>1, SaysOne
  <2>3. QED
    BY <1>13, <1>0, <2>2, ViewsKept DEF Boot, OutsideRequests, requestVars, streamVs
<1>14. ASSUME NEW r \in Runs, TurnStart(r) PROVE ViewInv'
  <2>1. Says(r, "start") \/ UNCHANGED log
    BY <1>14 DEF TurnStart
  <2>2. LogGrows \/ UNCHANGED log
    BY <2>1, SaysOne
  <2>3. QED
    BY <1>14, <1>0, <2>2, ViewsKept DEF TurnStart, OutsideRequests, requestVars, streamVs
<1>15. ASSUME NEW r \in Runs, TurnFinal(r) PROVE ViewInv'
  <2>1. Says(r, "end") \/ Says(r, "cut")
    BY <1>15 DEF TurnFinal
  <2>2. LogGrows \/ UNCHANGED log
    BY <2>1, SaysOne
  <2>3. QED
    BY <1>15, <1>0, <2>2, ViewsKept DEF TurnFinal, OutsideRequests, requestVars, streamVs
<1>16. ASSUME NEW r \in Runs, TurnBreaks(r) PROVE ViewInv'
  <2>1. Says(r, "end") \/ UNCHANGED log
    BY <1>16 DEF TurnBreaks
  <2>2. LogGrows \/ UNCHANGED log
    BY <2>1, SaysOne
  <2>3. QED
    BY <1>16, <1>0, <2>2, ViewsKept DEF TurnBreaks, OutsideRequests, requestVars, streamVs
<1>17. ASSUME NEW r \in Runs, Record(r) PROVE ViewInv'
  BY <1>17, <1>0, ViewsKept
  DEF Record, Move, OutsideRequests, RunsTypeOK, Runs, taskVars, requestVars, eventVars, streamVs
<1>18. ASSUME NEW r \in Runs, RecordFails(r) PROVE ViewInv'
  BY <1>18, <1>0, ViewsKept
  DEF RecordFails, Move, Conclude, OutsideRequests, RunsTypeOK, Runs, taskVars, requestVars, eventVars, streamVs
<1>19. ASSUME NEW r \in Runs, Stopped(r) PROVE ViewInv'
  <2>1. Says(r, "cut") \/ UNCHANGED log
    BY <1>19, StoppedSays DEF Stopped
  <2>2. LogGrows \/ UNCHANGED log
    BY <2>1, SaysOne
  <2>3. QED
    BY <1>19, <1>0, <2>2, ViewsKept DEF Stopped, OutsideRequests, requestVars, streamVs
<1>20. ASSUME NEW r \in Runs, BeginFails(r) PROVE ViewInv'
  BY <1>20, <1>0, ViewsKept
  DEF BeginFails, Move, OutsideRequests, RunsTypeOK, Runs, taskVars, requestVars, eventVars, streamVs
<1>21. ASSUME NEW x \in Stoppers, StopRead(x) PROVE ViewInv'
  BY <1>21, <1>0, ViewsKept
  DEF StopRead, Goto, OutsideStops, RunsTypeOK, Runs, taskVars, requestVars, eventVars, streamVs
<1>22. ASSUME NEW x \in Stoppers, StopAct(x) PROVE ViewInv'
  BY <1>22, <1>0, ViewsKept
  DEF StopAct, Reply, Goto, Free, OutsideStops, RunsTypeOK, Runs, taskVars, requestVars, eventVars, streamVs
<1>23. ASSUME NEW x \in Stoppers, StopMark(x) PROVE ViewInv'
  BY <1>23, <1>0, ViewsKept
  DEF StopMark, OutsideStops, RunsTypeOK, Runs, taskVars, requestVars, eventVars, streamVs
<1>24. ASSUME NEW x \in Stoppers, StopForce(x) PROVE ViewInv'
  BY <1>24, <1>0, ViewsKept
  DEF StopForce, Goto, OutsideStops, RunsTypeOK, Runs, taskVars, requestVars, eventVars, streamVs
<1>25. ASSUME NEW x \in Stoppers, StopTail(x) PROVE ViewInv'
  BY <1>25, <1>0, ViewsKept
  DEF StopTail, Goto, OutsideStops, RunsTypeOK, Runs, taskVars, requestVars, eventVars, streamVs
<1>25a. ASSUME NEW x \in Stoppers, StopFails(x) PROVE ViewInv'
  BY <1>25a, <1>0, ViewsKept
  DEF StopFails, Goto, OutsideStops, RunsTypeOK, Runs, taskVars, requestVars, eventVars, streamVs
<1>26. ASSUME NEW s \in Streamers, StreamRead(s) PROVE ViewInv'
  BY <1>26, <1>0, ViewsKept
  DEF StreamRead, Goto, OutsideStreams, RunsTypeOK, Runs, taskVars, requestVars, eventVars, streamVs
<1>27. ASSUME NEW s \in Streamers, StreamHistory(s) PROVE ViewInv'
  <2>1. ViewedBy(s)
    BY <1>27, <1>0
    DEF StreamHistory, Reply, Goto, OutsideStreams, ViewedBy, RunsTypeOK, StreamsTypeOK, taskVars, requestVars,
        eventVars, streamVs
  <2>2. QED
    BY <1>27, <2>1, ViewedByOne, HistoryViewed
<1>28. ASSUME NEW s \in Streamers, StreamSubscribe(s) PROVE ViewInv'
  <2>1. ViewedBy(s)
    BY <1>28, <1>0
    DEF StreamSubscribe, Goto, ViewedBy, RunsTypeOK, StreamsTypeOK, taskVars, requestVars, eventVars, streamVs
  <2>2. QED
    BY <1>28, <2>1, ViewedByOne, SubscribeViewed
<1>29. ASSUME NEW s \in Streamers, StreamCheck(s) PROVE ViewInv'
  <2>1. ViewedBy(s)
    BY <1>29, <1>0
    DEF StreamCheck, Reply, Goto, OutsideStreams, ViewedBy, RunsTypeOK, StreamsTypeOK, taskVars, requestVars,
        eventVars, streamVs
  <2>2. QED
    BY <1>29, <2>1, ViewedByOne, CheckViewed
<1>30. ASSUME NEW s \in Streamers, StreamNext(s) PROVE ViewInv'
  <2>1. ViewedBy(s)
    BY <1>30, <1>0
    DEF StreamNext, Reply, Goto, OutsideStreams, ViewedBy, RunsTypeOK, StreamsTypeOK, taskVars, requestVars,
        eventVars, streamVs
  <2>2. QED
    BY <1>30, <2>1, ViewedByOne, NextViewed
<1>31. ASSUME NEW s \in Streamers, StreamTimeout(s) PROVE ViewInv'
  BY <1>31, <1>0, ViewsKept
  DEF StreamTimeout, Reply, OutsideStreams, RunsTypeOK, Runs, taskVars, requestVars, eventVars, streamVs
<1>32. ASSUME NEW c \in Creators, Persist(c) PROVE ViewInv'
  <2>1. \A d \in Creators : persisted[d] <= persisted'[d]
    BY <1>32 DEF Persist, StreamsTypeOK
  <2>2. QED
    BY <1>32, <2>1, ViewsKept DEF Persist, requestVars, streamVs
<1>33. CASE Crash
  <2>1. ASSUME NEW s \in Streamers PROVE ViewOf(s)'
    <3>1. view'[s] = <<>> /\ crashed' = TRUE /\ call'[s] \notin {"subscribing", "checking", "live"}
      BY <1>33, <1>0 DEF Crash
    <3>2. Ascending(view[s])' /\ ShownOf(s)' = {}
      BY <3>1 DEF Ascending, ShownOf, ToSet
    <3>3. QED
      BY <3>1, <3>2 DEF ViewOf
  <2>2. QED
    BY <2>1 DEF ViewInv
<1>34. QED
  BY <1>1, <1>2, <1>3, <1>4, <1>5, <1>6, <1>7, <1>8, <1>9, <1>10, <1>11, <1>12, <1>13, <1>14, <1>15, <1>16,
     <1>17, <1>18, <1>19, <1>20, <1>21, <1>22, <1>23, <1>24, <1>25, <1>25a, <1>26, <1>27, <1>28, <1>29, <1>30, <1>31,
     <1>32, <1>33
  DEF RunsNext, Create, Post, TaskStep, StopStep, StreamStep

LEMMA StreamsInvInit == RunsInit => StreamsInv
<1>1. SUFFICES ASSUME NEW cast \in Casts, RunsStart(cast) PROVE StreamsInv
  BY DEF RunsInit
<1>2. \A q \in Callers : call[q] = IF q \in cast THEN "idle" ELSE "absent"
  BY <1>1 DEF RunsStart
<1>3. ApartInv
  BY <1>1, <1>2 DEF RunsStart, ApartInv, InThread, Callers, Runs, Ongoing
<1>4. TurnsInv
  BY <1>1, <1>2 DEF RunsStart, TurnsInv, Callers, Runs, Ongoing
<1>5. LogInv
  <2>1. \A c \in Creators : log[c] = <<>> /\ 1..Len(log[c]) = {}
    BY <1>1 DEF RunsStart
  <2>2. QED
    BY <2>1 DEF LogInv
<1>6. ViewInv
  <2>1. ASSUME NEW s \in Streamers PROVE ViewOf(s)
    <3>1. view[s] = <<>> /\ call[s] \notin {"subscribing", "checking", "live"}
      BY <1>1, <1>2 DEF RunsStart, Callers
    <3>2. Ascending(view[s]) /\ ShownOf(s) = {}
      BY <3>1 DEF Ascending, ShownOf, ToSet
    <3>3. QED
      BY <3>1, <3>2 DEF ViewOf
  <2>2. QED
    BY <2>1 DEF ViewInv
<1>7. QED
  BY <1>3, <1>4, <1>5, <1>6 DEF StreamsInv

LEMMA StreamsInvStep == RunsInv /\ RunsInv' /\ StreamsInv /\ [RunsNext]_runsVars => StreamsInv'
<1>1. CASE RunsInv /\ RunsInv' /\ StreamsInv /\ RunsNext
  BY <1>1, ApartStep, TurnsStep, LogStep, ViewStep DEF StreamsInv, RunsInv
<1>2. CASE RunsInv /\ StreamsInv /\ UNCHANGED runsVars
  <2>1. ApartInv' /\ TurnsInv' /\ LogInv'
    BY <1>2 DEF runsVars, StreamsInv, ApartInv, InThread, TurnsInv, TaskDone, Ongoing, LogInv
  <2>2. ViewInv'
    BY <1>2, ViewsKept DEF runsVars, StreamsInv, RunsInv, StreamsTypeOK
  <2>3. QED
    BY <2>1, <2>2 DEF StreamsInv
<1>3. QED
  BY <1>1, <1>2

LEMMA StreamsInvFaithful == RunsInv /\ StreamsInv => StreamFaithful
<1>1. SUFFICES ASSUME RunsInv, StreamsInv, NEW s \in Streamers
               PROVE  /\ \A i, j \in DOMAIN view[s] : i < j => view[s][i] < view[s][j]
                      /\ \A i \in ToSet(view[s]) :
                            log[ThreadOf(Subject[s])][i].run # Subject[s] =>
                              crashed \/ ThreadOf(Subject[s]) \in early \/ \E j \in OwnEnd(s) : j < i
  BY DEF StreamFaithful
<1> DEFINE c == ThreadOf(Subject[s])
<1>2. c \in Creators /\ ViewOf(s) /\ StreamsTypeOK
  BY <1>1, ThreadTyped, RunsAssumption DEF RunsInv, StreamsInv, ViewInv
<1>3. log[c] \in Seq(Events) /\ Len(log[c]) \in Nat /\ \A i \in 1..Len(log[c]) : log[c][i] \in Events
  BY <1>2, LogTyped
<1>4. \A i, j \in DOMAIN view[s] : i < j => view[s][i] < view[s][j]
  BY <1>2 DEF ViewOf, Ascending
<1>5. ASSUME NEW i \in ToSet(view[s]), log[c][i].run # Subject[s], ~crashed, c \notin early
      PROVE  \E j \in OwnEnd(s) : j < i
  <2>1. i \in 1..Len(log[c])
    BY <1>2 DEF ViewOf, ShownOf
  <2>2. PICK j \in 1..i - 1 : Ends(log[c][j], Subject[s])
    BY <1>2, <1>5 DEF ViewOf, ShownOf
  <2>3. j \in DOMAIN log[c] /\ j < i /\ log[c][j] \in Events
    BY <1>3, <2>1
  <2>4. log[c][j] \in [run : {Subject[s]}, what : {"end", "cut"}]
    BY <2>2, <2>3 DEF Ends, Events
  <2>5. QED
    BY <2>3, <2>4 DEF OwnEnd
<1>6. QED
  BY <1>4, <1>5

\* A stream shows an event at most once and in order across history, recheck and live queue, and
\* another run's events only after its own run's end, for any number of requests, wherever no
\* message came before the first turn had started (v1.py, _public_event_generator).
THEOREM StreamsFaithful == RunsSpec => []StreamFaithful
<1>1. RunsSpec => []StreamsInv
  BY StreamsInvInit, StreamsInvStep, RunsInvariant, PTL DEF RunsSpec
<1>2. QED
  BY <1>1, StreamsInvFaithful, RunsInvariant, PTL

=============================================================================
