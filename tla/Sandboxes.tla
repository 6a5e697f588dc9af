----------------------------- MODULE Sandboxes ------------------------------
(***************************************************************************)
(* Who holds which sandbox: the sessions of the tool executors             *)
(* (agent/tools/executor.py), the E2B provider (agent/sandbox/             *)
(* e2b_provider.py) and the pool of paused sandboxes it reuses             *)
(* (agent/sandbox/e2b_pool.py).                                            *)
(*                                                                         *)
(* The executors ask for one template, so that they share one list of the  *)
(* pool.  An executor makes one tool call at a time; its cleanup cancels   *)
(* the call that is under way.                                             *)
(***************************************************************************)
EXTENDS Integers, FiniteSets, Sequences, SequencesExt

CONSTANTS
    Executors,
    Boxes,          \* sandboxes that may be created; a bound
    MaxPerKey,      \* max_per_key
    Reserved,       \* the sentinel None of a release in progress
    NoBox, Nobody

ASSUME SandboxAssumption == NoBox \notin Boxes /\ Reserved \notin Boxes /\ MaxPerKey \in Nat

Calls == Executors \X {"call"}
Cleaners == Executors \X {"clean"}
Actors == Calls \cup Cleaners

VARIABLES
    box,        \* what the provider knows: "none", "running", "paused", "dead"
    pool,       \* _entries of the key
    poolLock,   \* who holds _lock across an await
    session,    \* _sandbox_sessions of each executor
    at,         \* where an actor is suspended
    hand,       \* the sandbox it works with
    retried,    \* executors whose call is in its second attempt
    stopping,   \* calls with a CancelledError on its way
    cleanups,   \* how often cleanup has been called
    killing,    \* what drain still has to kill
    drained,
    cut,        \* releases cancelled with their slot reserved
    mishap      \* some step has failed, expired, died or been cancelled

sandboxVars == <<box, pool, poolLock, session, at, hand, retried, stopping, cleanups,
                 killing, drained, cut, mishap>>

-----------------------------------------------------------------------------
Goto(a, where) == at' = [at EXCEPT ![a] = where]
Hold(a, b) == hand' = [hand EXCEPT ![a] = b]
Becomes(b, state) == box' = [box EXCEPT ![b] = state]
LockFree == poolLock = Nobody
Unlock(a) == poolLock' = IF poolLock = a THEN Nobody ELSE poolLock

Fresh == {b \in Boxes : box[b] = "none"}

CallOnly == UNCHANGED <<stopping, cleanups, killing, drained, cut>>

-----------------------------------------------------------------------------
(* A tool call: execute, _get_sandbox_session, create_session, acquire *)

\* The session at hand, or a new one; an executor that was cleaned up gets no calls.
Call(a) ==
    LET e == a[1] IN
    /\ a \in Calls /\ at[a] = "idle" /\ cleanups[e] = 0
    /\ retried' = retried \ {e}
    /\ IF session[e] # NoBox
       THEN Goto(a, "using") /\ Hold(a, session[e])
       ELSE Goto(a, "acquiring") /\ UNCHANGED hand
    /\ UNCHANGED <<box, pool, poolLock, session, mishap>> /\ CallOnly

CallAt(a, where) == a \in Calls /\ at[a] = where /\ a[1] \notin stopping

LockPool(a) ==
    /\ CallAt(a, "acquiring") /\ LockFree
    /\ poolLock' = a
    /\ Goto(a, "looking")
    /\ UNCHANGED <<box, pool, session, hand, retried, mishap>> /\ CallOnly

PoolEmpty(a) ==
    /\ CallAt(a, "looking") /\ pool = <<>>
    /\ Unlock(a)
    /\ Goto(a, "creating")
    /\ UNCHANGED <<box, pool, session, hand, retried, mishap>> /\ CallOnly

\* The newest entry is taken out and connected to, or is too old and forgotten.
PopEntry(a) ==
    /\ CallAt(a, "looking") /\ pool # <<>> /\ Last(pool) # Reserved
    /\ pool' = Front(pool)
    /\ \/ Goto(a, "connecting") /\ Hold(a, Last(pool)) /\ UNCHANGED mishap
       \/ mishap' = TRUE /\ UNCHANGED <<at, hand>>
    /\ UNCHANGED <<box, poolLock, session, retried>> /\ CallOnly

\* The newest entry is the reservation of a release: None has no paused_at, and the
\* AttributeError fails the tool call.
PopReserved(a) ==
    /\ CallAt(a, "looking") /\ pool # <<>> /\ Last(pool) = Reserved
    /\ pool' = Front(pool)
    /\ Unlock(a)
    /\ Goto(a, "idle")
    /\ mishap' = TRUE
    /\ UNCHANGED <<box, session, hand, retried>> /\ CallOnly

\* Mutant: the session is handed out and not remembered.
MutantAdopt(a, b) ==
    /\ Hold(a, b)
    /\ Becomes(b, "running")
    /\ Goto(a, "using")
    /\ UNCHANGED session

Adopt(a, b) ==
    /\ session' = [session EXCEPT ![a[1]] = b]
    /\ Hold(a, b)
    /\ Becomes(b, "running")
    /\ Goto(a, "using")

Connect(a) ==
    /\ CallAt(a, "connecting") /\ box[hand[a]] = "paused"
    /\ Adopt(a, hand[a])
    /\ Unlock(a)
    /\ UNCHANGED <<pool, retried, mishap>> /\ CallOnly

\* Not reached, or reached and not sanitized: it may be left running.
ConnectFails(a) ==
    /\ CallAt(a, "connecting")
    /\ box' \in {box} \cup (IF box[hand[a]] = "paused" THEN {[box EXCEPT ![hand[a]] = "running"]} ELSE {})
    /\ Hold(a, NoBox)
    /\ Goto(a, "looking")
    /\ mishap' = TRUE
    /\ UNCHANGED <<pool, poolLock, session, retried>> /\ CallOnly

Create(a) ==
    /\ CallAt(a, "creating")
    /\ \E b \in Fresh : Adopt(a, b)
    /\ UNCHANGED <<pool, poolLock, retried, mishap>> /\ CallOnly

\* Not created, or created and its setup command has raised.
CreateFails(a) ==
    /\ CallAt(a, "creating")
    /\ box' \in {box} \cup {[box EXCEPT ![b] = "running"] : b \in Fresh}
    /\ Goto(a, "idle")
    /\ mishap' = TRUE
    /\ UNCHANGED <<pool, poolLock, session, hand, retried>> /\ CallOnly

UseEnds(a) ==
    /\ CallAt(a, "using")
    /\ Goto(a, "idle")
    /\ Hold(a, NoBox)
    /\ UNCHANGED <<box, pool, poolLock, session, retried, mishap>> /\ CallOnly

\* A stale session: once per call it is discarded and the call made again.
UseStale(a) ==
    LET e == a[1] IN
    /\ CallAt(a, "using") /\ box[hand[a]] = "dead" /\ e \notin retried
    /\ session' = [session EXCEPT ![e] = IF @ = hand[a] THEN NoBox ELSE @]
    /\ retried' = retried \cup {e}
    /\ Goto(a, "releasing")
    /\ UNCHANGED <<box, pool, poolLock, hand, mishap>> /\ CallOnly

-----------------------------------------------------------------------------
(* SandboxPool.release, for a discarded session or for cleanup *)

Releases(a, where) == a \in Actors /\ at[a] = where /\ ~(a \in Calls /\ a[1] \in stopping)

\* destroy_session returns: the call starts over, the cleanup ends.
Released(a) ==
    /\ Goto(a, IF a \in Calls THEN "acquiring" ELSE "idle")
    /\ Hold(a, NoBox)

ReleaseOnly == UNCHANGED <<poolLock, session, retried, stopping, cleanups, killing, drained, cut>>

Reserve(a) ==
    /\ Releases(a, "releasing") /\ LockFree
    /\ IF Len(pool) < MaxPerKey
       THEN pool' = Append(pool, Reserved) /\ Goto(a, "pausing")
       ELSE Goto(a, "killing") /\ UNCHANGED pool
    /\ UNCHANGED <<box, hand, mishap>> /\ ReleaseOnly

\* E2BSession.close: pause, or kill, and never an exception.
Pause(a) ==
    /\ Releases(a, "pausing")
    /\ IF box[hand[a]] = "dead"
       THEN UNCHANGED <<box, mishap>>
       ELSE \E s \in {"paused", "dead", "running"} :
                Becomes(hand[a], s) /\ mishap' = (mishap \/ s # "paused")
    /\ Goto(a, "storing")
    /\ UNCHANGED <<pool, hand>> /\ ReleaseOnly

\* Mutant: the entry is added beside its reservation.
MutantEntered(b) == Append(pool, b)

\* The reservation becomes the entry, any one's if its own was taken.
Entered(b) ==
    IF Contains(pool, Reserved)
    THEN [pool EXCEPT ![SelectInSeq(pool, LAMBDA x : x = Reserved)] = b]
    ELSE IF Len(pool) < MaxPerKey THEN Append(pool, b) ELSE pool

Enter(a) ==
    /\ Releases(a, "storing") /\ LockFree
    /\ pool' = Entered(hand[a])
    /\ Released(a)
    /\ UNCHANGED <<box, mishap>> /\ ReleaseOnly

Kill(a) ==
    /\ Releases(a, "killing")
    /\ \/ Becomes(hand[a], "dead") /\ UNCHANGED mishap
       \/ mishap' = TRUE /\ UNCHANGED box
    /\ Released(a)
    /\ UNCHANGED pool /\ ReleaseOnly

-----------------------------------------------------------------------------
(* ToolExecutor.cleanup, and cancellation *)

\* Mutant: the session is forgotten only after its sandbox is released, that is never.
MutantCleanup(a) ==
    LET e == a[1] IN
    /\ a \in Cleaners /\ at[a] = "idle" /\ cleanups[e] < 2
    /\ cleanups' = [cleanups EXCEPT ![e] = @ + 1]
    /\ stopping' = IF at[<<e, "call">>] # "idle" THEN stopping \cup {e} ELSE stopping
    /\ session[e] # NoBox /\ Hold(a, session[e]) /\ Goto(a, "releasing")
    /\ UNCHANGED <<box, pool, poolLock, session, retried, killing, drained, cut, mishap>>

\* Once for the conversation or the runner, once more for the manager.
Cleanup(a) ==
    LET e == a[1] IN
    /\ a \in Cleaners /\ at[a] = "idle" /\ cleanups[e] < 2
    /\ cleanups' = [cleanups EXCEPT ![e] = @ + 1]
    /\ stopping' = IF at[<<e, "call">>] # "idle" THEN stopping \cup {e} ELSE stopping
    /\ IF session[e] = NoBox
       THEN UNCHANGED <<session, hand, at>>
       ELSE session' = [session EXCEPT ![e] = NoBox] /\ Hold(a, session[e]) /\ Goto(a, "releasing")
    /\ UNCHANGED <<box, pool, poolLock, retried, killing, drained, cut, mishap>>

\* What the thread of the cancelled await may still do to a sandbox.
Afterwards(a) ==
    CASE at[a] = "connecting" /\ box[hand[a]] = "paused" -> {box, [box EXCEPT ![hand[a]] = "running"]}
      [] at[a] = "creating" -> {box} \cup {[box EXCEPT ![b] = "running"] : b \in Fresh}
      [] at[a] = "pausing" /\ box[hand[a]] = "running" -> {box, [box EXCEPT ![hand[a]] = "paused"]}
      [] at[a] = "killing" -> {box, [box EXCEPT ![hand[a]] = "dead"]}
      [] OTHER -> {box}

\* CancelledError is no Exception: nothing gives the reservation or the sandbox back.
Cancelled(a) ==
    /\ a \in Actors /\ at[a] # "idle"
    /\ a \in Calls => a[1] \in stopping
    /\ box' \in Afterwards(a)
    /\ cut' = IF at[a] \in {"pausing", "storing"} THEN cut + 1 ELSE cut
    /\ stopping' = IF a \in Calls THEN stopping \ {a[1]} ELSE stopping
    /\ Unlock(a)
    /\ Goto(a, "idle")
    /\ Hold(a, NoBox)
    /\ mishap' = TRUE
    /\ UNCHANGED <<pool, session, retried, cleanups, killing, drained>>

-----------------------------------------------------------------------------
(* The pool at shutdown, and the provider *)

Drain ==
    /\ LockFree /\ ~drained
    /\ drained' = TRUE
    /\ killing' = ToSet(pool) \ {Reserved}
    /\ pool' = <<>>
    /\ UNCHANGED <<box, poolLock, session, at, hand, retried, stopping, cleanups, cut, mishap>>

DrainKill(b) ==
    /\ b \in killing
    /\ killing' = killing \ {b}
    /\ \/ Becomes(b, "dead") /\ UNCHANGED mishap
       \/ mishap' = TRUE /\ UNCHANGED box
    /\ UNCHANGED <<pool, poolLock, session, at, hand, retried, stopping, cleanups, drained, cut>>

\* The lifetime of a running sandbox is over.
Expire(b) ==
    /\ box[b] = "running"
    /\ Becomes(b, "dead")
    /\ mishap' = TRUE
    /\ UNCHANGED <<pool, poolLock, session, at, hand, retried, stopping, cleanups, killing, drained, cut>>

-----------------------------------------------------------------------------
SandboxInit ==
    /\ box = [b \in Boxes |-> "none"] /\ pool = <<>> /\ poolLock = Nobody
    /\ session = [e \in Executors |-> NoBox]
    /\ at = [a \in Actors |-> "idle"] /\ hand = [a \in Actors |-> NoBox]
    /\ retried = {} /\ stopping = {} /\ cleanups = [e \in Executors |-> 0]
    /\ killing = {} /\ drained = FALSE /\ cut = 0 /\ mishap = FALSE

Borrow(a) == LockPool(a) \/ PoolEmpty(a) \/ PopEntry(a) \/ PopReserved(a) \/ Connect(a) \/ ConnectFails(a)
Work(a) == Create(a) \/ CreateFails(a) \/ UseEnds(a) \/ UseStale(a)
GiveBack(a) == Reserve(a) \/ Pause(a) \/ Enter(a) \/ Kill(a)

SandboxNext ==
    \/ \E a \in Calls : Call(a) \/ Borrow(a) \/ Work(a)
    \/ \E a \in Actors : GiveBack(a) \/ Cancelled(a)
    \/ \E a \in Cleaners : Cleanup(a)
    \/ Drain
    \/ \E b \in Boxes : DrainKill(b) \/ Expire(b)

SandboxSpec == SandboxInit /\ [][SandboxNext]_sandboxVars

-----------------------------------------------------------------------------
(* Properties *)

SandboxTypeOK ==
    /\ box \in [Boxes -> {"none", "running", "paused", "dead"}]
    /\ pool \in Seq(Boxes \cup {Reserved})
    /\ poolLock \in Calls \cup {Nobody}
    /\ session \in [Executors -> Boxes \cup {NoBox}]
    /\ at \in [Actors -> {"idle", "acquiring", "looking", "connecting", "creating", "using",
                          "releasing", "pausing", "storing", "killing"}]
    /\ hand \in [Actors -> Boxes \cup {NoBox}]
    /\ retried \subseteq Executors /\ stopping \subseteq Executors
    /\ cleanups \in [Executors -> 0..2]
    /\ killing \subseteq Boxes /\ drained \in BOOLEAN
    /\ cut \in Nat /\ mishap \in BOOLEAN

PooledAt(b) == {i \in DOMAIN pool : pool[i] = b}

\* Executors with the sandbox in a session or in hand; a call about to be cancelled
\* makes no further use of it.
Holders(b) ==
    {e \in Executors : \/ session[e] = b
                       \/ hand[<<e, "clean">>] = b
                       \/ hand[<<e, "call">>] = b /\ e \notin stopping}

\* No sandbox is in two conversations, twice in the pool, or in the pool and in use,
\* though sessions are discarded, cleaned up twice and cancelled half-way.
Exclusive ==
    \A b \in Boxes :
        /\ Cardinality(Holders(b)) + Cardinality(PooledAt(b)) <= 1
        /\ b \in killing => Holders(b) = {} /\ PooledAt(b) = {}

InProgress == {a \in Actors : at[a] \in {"pausing", "storing"}}

\* The list never outgrows max_per_key, reservations included, and there are never more
\* reservations than releases in progress and releases cancelled at that point.
SlotsAccounted ==
    /\ Len(pool) <= MaxPerKey
    /\ Cardinality(PooledAt(Reserved)) <= Cardinality(InProgress) + cut

\* As long as nothing fails, expires or is cancelled and the server runs, no sandbox is
\* lost: each is held, pooled or dead.
NothingLost ==
    ~mishap /\ ~drained => \A b \in Boxes :
        box[b] \in {"running", "paused"} =>
            Holders(b) # {} \/ PooledAt(b) # {} \/ \E a \in Calls : hand[a] = b

\* The pool neither shares or loses a sandbox nor outgrows its bound, whoever pauses, stores,
\* acquires and drains at the same time.
PoolKept == Exclusive /\ SlotsAccounted /\ NothingLost

\* What the pool has lent, and to whom, from what it has ever created.
CreatedBoxes == {b \in Boxes : box[b] # "none"}
LentBoxes == [b \in Boxes |-> Holders(b)]
PooledBoxes == {b \in Boxes : PooledAt(b) # {}}

Loans == INSTANCE Lending WITH
    Thing <- Boxes, Reader <- Executors,
    made <- CreatedBoxes, lent <- LentBoxes, shelf <- PooledBoxes

\* A sandbox passes from one executor to another through the pool only, and one that was
\* killed, drained, forgotten or left behind by a cancelled step is nobody's ever after.
ImplementsLending == Loans!LendingSpec

=============================================================================
