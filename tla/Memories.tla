------------------------------ MODULE Memories -------------------------------
(***************************************************************************)
(* What is remembered of one user (agent/memory/store.py): a fact, which   *)
(* the user's messages tell, as ConversationHooks takes it from them after *)
(* a turn and before a compaction, and /forget takes it away; and an entry *)
(* that the agent stores and the user may delete.  One key of each.        *)
(*                                                                         *)
(* Each statement and commit gives up the event loop.  The unique indexes  *)
(* are the database's: one active fact, one entry, per user and key.       *)
(***************************************************************************)
EXTENDS Integers, Sequences, FiniteSets, FiniteSetsExt

CONSTANTS
    Chats,          \* conversations of the user
    Values,         \* what a message can tell
    Storers,        \* calls of memory_store
    Scripts,        \* bounds: what the user says, in which conversations, and /forget; which
                    \* conversations compact; and whether messages are sent again
    FactRetries     \* _FACT_UPSERT_RETRIES, _MEMORY_UPSERT_RETRIES

Nothing == "nothing"                    \* what no message tells

\* What is said in a script: what a message tells, or /forget.  There is a longest one.
Sayings == (Chats \X Values) \cup {<<Nothing, Nothing>>}

ASSUME MemoryAssumption ==
    /\ FactRetries \in Nat \ {0} /\ Nothing \notin Chats \cup Values
    /\ \A c \in Chats : c \notin Nat
    /\ \A s \in Scripts : s.says \in Seq(Sayings)
    /\ \E s \in Scripts : \A t \in Scripts : Len(t.says) <= Len(s.says)

VARIABLES
    script,     \* of Scripts; where nothing is said a behaviour is about the entry
    toldSoFar,  \* history: what the user said, in order; Nothing is /forget
    context,    \* the messages of each conversation, as positions in toldSoFar
    turnOf,     \* of each conversation: what its turn does
    ledger,     \* MemoryFactIngestion: the turns whose message was taken
    facts,      \* MemoryFactEntry, by age: value and status
    upsert,     \* of the message of a turn that is over, or of a compaction
    newest,     \* history: the last of it that reached the store
    faded,      \* history: that kept a fact which had gone stale since it was read
    awry,       \* history: something told was lost, or came out of order
    entry,      \* MemoryEntry: the value, or Nothing
    storer,     \* calls of memory_store
    local,      \* MemoryStore._store, which ends with the process
    lastStored, \* history: what the last call or deletion to end has left
    missed      \* history: a call updated an entry that had been deleted

factVars == <<toldSoFar, context, turnOf, ledger, facts, upsert, newest, faded, awry>>
entryVars == <<entry, storer, local, lastStored, missed>>
memoryVars == <<script, factVars, entryVars>>

-----------------------------------------------------------------------------
(* Turns *)

TellIds == 1..Max({Len(s.says) : s \in Scripts})
Writers == TellIds \cup Chats     \* after_turn of a turn, the compaction in a conversation
NoTurn == [n |-> 0, at |-> "idle", queue |-> <<>>]
NoUpsert == [n |-> 0, at |-> "none", seen |-> {}, tries |-> 0]
Upserts(n) == [NoUpsert EXCEPT !.n = n, !.at = "select"]

Runs(c, n) ==
    /\ turnOf[c].at = "idle"
    /\ turnOf' = [turnOf EXCEPT ![c] = [NoTurn EXCEPT !.n = n, !.at = "runs"]]
    /\ context' = [context EXCEPT ![c] = Append(@, n)]

\* What is told next, and where.
Says(what) ==
    /\ Len(toldSoFar) < Len(script.says) /\ what = script.says[Len(toldSoFar) + 1]
    /\ toldSoFar' = Append(toldSoFar, what[2])

TurnBegins(c, v) ==
    /\ Says(<<c, v>>) /\ Runs(c, Len(toldSoFar) + 1)
    /\ UNCHANGED <<script, ledger, facts, upsert, newest, faded, awry, entryVars>>

\* A message sent again with its idempotency key has the turn id it had.
SentAgain(c, n) ==
    /\ script.again /\ context[c] = <<n>> /\ upsert[n].at = "none" /\ Runs(c, n)
    /\ UNCHANGED <<script, toldSoFar, ledger, facts, upsert, newest, faded, awry, entryVars>>

\* before_context_compaction upserts what any of the messages tells; only then are they
\* summarised, or kept.
Compacts(c) ==
    /\ c \in script.compacts /\ turnOf[c].at = "runs"
    /\ turnOf' = [turnOf EXCEPT ![c].at = "flushes", ![c].queue = context[c]]
    /\ context' \in {context, [context EXCEPT ![c] = <<>>]}
    /\ UNCHANGED <<script, toldSoFar, ledger, facts, upsert, newest, faded, awry, entryVars>>

FlushNext(c) ==
    /\ turnOf[c].at = "flushes" /\ upsert[c].at = "none"
    /\ IF turnOf[c].queue = <<>>
       THEN turnOf' = [turnOf EXCEPT ![c].at = "goes on"] /\ UNCHANGED upsert
       ELSE /\ turnOf' = [turnOf EXCEPT ![c].queue = Tail(@)]
            /\ upsert' = [upsert EXCEPT ![c] = Upserts(Head(turnOf[c].queue))]
    /\ UNCHANGED <<script, toldSoFar, context, ledger, facts, newest, faded, awry, entryVars>>

\* The facts of a turn that has completed are taken in the background, those of another not.
TurnEnds(c, completed) ==
    LET n == turnOf[c].n IN
    /\ turnOf[c].at \in {"runs", "goes on"}
    /\ turnOf' = [turnOf EXCEPT ![c] = NoTurn]
    /\ upsert' = IF completed THEN [upsert EXCEPT ![n] = [Upserts(n) EXCEPT !.at = "mark"]] ELSE upsert
    /\ UNCHANGED <<script, toldSoFar, context, ledger, facts, newest, faded, awry, entryVars>>

-----------------------------------------------------------------------------
(* Facts *)

UpsertAt(w, at) == upsert[w].at = at
Dropped(w) == upsert' = [upsert EXCEPT ![w] = NoUpsert]

MarkFactIngestionSeen(w) ==
    /\ UpsertAt(w, "mark") /\ ledger' = ledger \cup {w}
    /\ IF w \in ledger THEN Dropped(w) ELSE upsert' = [upsert EXCEPT ![w].at = "select"]
    /\ UNCHANGED <<script, toldSoFar, context, turnOf, facts, newest, faded, awry, entryVars>>

ActiveFacts == {i \in DOMAIN facts : facts[i].active}
Value(w) == toldSoFar[upsert[w].n]

SelectActive(w) ==
    /\ UpsertAt(w, "select")
    /\ upsert' = [upsert EXCEPT ![w].at = "commit", ![w].seen = ActiveFacts]
    /\ UNCHANGED <<script, toldSoFar, context, turnOf, ledger, facts, newest, faded, awry, entryVars>>

\* Mutant: whichever fact is active is kept.
MutantKeeper(w) == upsert[w].seen

\* The active fact that says the same, if there is one.
Keeper(w) == {i \in upsert[w].seen : facts[i].value = Value(w)}

Stale(ids) == [i \in DOMAIN facts |-> IF i \in ids THEN [facts[i] EXCEPT !.active = FALSE] ELSE facts[i]]

\* Something told before the newest comes out of order.
NewestIs(n) ==
    /\ newest' = n /\ faded' = FALSE
    /\ awry' = (awry \/ n < newest)

\* A keeper that has gone stale since it was read stays so.
CommitKeeper(w) ==
    /\ UpsertAt(w, "commit") /\ Keeper(w) # {} /\ Dropped(w)
    /\ facts' = Stale(upsert[w].seen \ Keeper(w))
    /\ newest' = upsert[w].n /\ faded' = (Keeper(w) \cap ActiveFacts = {})
    /\ awry' = (awry \/ upsert[w].n < newest \/ faded')
    /\ UNCHANGED <<script, toldSoFar, context, turnOf, ledger, entryVars>>

Clash(w) == ActiveFacts \ upsert[w].seen # {}

CommitNew(w) ==
    /\ UpsertAt(w, "commit") /\ Keeper(w) = {} /\ ~Clash(w) /\ Dropped(w)
    /\ facts' = Append(Stale(upsert[w].seen), [value |-> Value(w), active |-> TRUE])
    /\ NewestIs(upsert[w].n)
    /\ UNCHANGED <<script, toldSoFar, context, turnOf, ledger, entryVars>>

\* Another fact became active: it is tried again, so often.
CommitClashes(w) ==
    /\ UpsertAt(w, "commit") /\ Keeper(w) = {} /\ Clash(w)
    /\ IF upsert[w].tries + 1 < FactRetries
       THEN upsert' = [upsert EXCEPT ![w].at = "select", ![w].tries = @ + 1] /\ UNCHANGED awry
       ELSE Dropped(w) /\ awry' = TRUE
    /\ UNCHANGED <<script, toldSoFar, context, turnOf, ledger, facts, newest, faded, entryVars>>

\* The database fails, which is logged; the ledger keeps the turn.
UpsertFails(w) ==
    /\ upsert[w].at \notin {"none"} /\ Dropped(w) /\ awry' = TRUE
    /\ UNCHANGED <<script, toldSoFar, context, turnOf, ledger, facts, newest, faded, entryVars>>

ForgetFact ==
    /\ Says(<<Nothing, Nothing>>)
    /\ facts' = Stale(ActiveFacts) /\ NewestIs(Len(toldSoFar) + 1)
    /\ UNCHANGED <<script, context, turnOf, ledger, upsert, entryVars>>

-----------------------------------------------------------------------------
(* Entries *)

StorerAt(s, at) == storer' = [storer EXCEPT ![s].at = at]

SelectEntry(s) ==
    /\ storer[s].at = "idle"
    /\ storer' = [storer EXCEPT ![s].at = "commit", ![s].found = entry # Nothing]
    /\ UNCHANGED <<script, factVars, entry, local, lastStored, missed>>

\* An update that finds no row any more is a success, too.
CommitEntry(s) ==
    /\ storer[s].at = "commit" /\ storer[s].found = (entry # Nothing) /\ StorerAt(s, "over")
    /\ entry' = storer[s].value /\ lastStored' = storer[s].value
    /\ UNCHANGED <<script, factVars, local, missed>>

UpdateMisses(s) ==
    /\ storer[s].at = "commit" /\ storer[s].found /\ entry = Nothing /\ StorerAt(s, "over")
    /\ lastStored' = storer[s].value /\ missed' = TRUE
    /\ UNCHANGED <<script, factVars, entry, local>>

InsertClashes(s) ==
    /\ storer[s].at = "commit" /\ ~storer[s].found /\ entry # Nothing
    /\ storer' = [storer EXCEPT ![s].at = "idle"]
    /\ UNCHANGED <<script, factVars, entry, local, lastStored, missed>>

\* Without a database the value is kept in the process.
StoreFalls(s) ==
    /\ storer[s].at = "commit" /\ StorerAt(s, "over") /\ local' = storer[s].value
    /\ UNCHANGED <<script, factVars, entry, lastStored, missed>>

DeleteEntry ==
    /\ entry # Nothing /\ entry' = Nothing /\ lastStored' = Nothing /\ missed' = FALSE
    /\ UNCHANGED <<script, factVars, storer, local>>

-----------------------------------------------------------------------------
MemoryStart(says) ==
    /\ script = says
    /\ toldSoFar = <<>> /\ context = [c \in Chats |-> <<>>] /\ turnOf = [c \in Chats |-> NoTurn]
    /\ ledger = {} /\ facts = <<>> /\ upsert = [w \in Writers |-> NoUpsert] /\ newest = 0
    /\ faded = FALSE /\ awry = FALSE
    /\ entry = Nothing /\ local = Nothing /\ lastStored = Nothing /\ missed = FALSE
    /\ storer \in [Storers -> [at : {"idle"}, value : Values, found : {FALSE}]]

MemoryInit == \E says \in Scripts : MemoryStart(says)

ChatStep(c) ==
    \/ \E v \in Values : TurnBegins(c, v)
    \/ \E n \in TellIds : SentAgain(c, n)
    \/ Compacts(c) \/ FlushNext(c) \/ \E completed \in BOOLEAN : TurnEnds(c, completed)

UpsertStep(w) ==
    \/ MarkFactIngestionSeen(w) \/ SelectActive(w) \/ CommitKeeper(w) \/ CommitNew(w)
    \/ CommitClashes(w) \/ UpsertFails(w)

EntryStep ==
    \/ DeleteEntry
    \/ \E s \in Storers : SelectEntry(s) \/ CommitEntry(s) \/ UpdateMisses(s) \/ InsertClashes(s) \/ StoreFalls(s)

MemoryNext ==
    \/ script.says # <<>> /\ ((\E c \in Chats : ChatStep(c)) \/ (\E w \in Writers : UpsertStep(w)) \/ ForgetFact)
    \/ script.says = <<>> /\ EntryStep

MemorySpec == MemoryInit /\ [][MemoryNext]_memoryVars

-----------------------------------------------------------------------------
\* Facts.  Whatever turns, compactions, clashes, failures and /forget overlap, and in whatever
\* order they commit, at most one fact is active, and it is the one that reached the store
\* last, none if that was /forget - unless that commit kept a fact which another had made
\* stale since it was read: then none may be left.  What reached the store last is what the
\* user said last only if nothing was lost or came out of order, as when a compaction tells
\* again what was said before /forget or in another conversation: then, once what is under
\* way has ended, nothing that a completed turn has told came after it.
FactsKept ==
    /\ Cardinality(ActiveFacts) <= 1
    /\ ~faded => {facts[i].value : i \in ActiveFacts} = (IF newest = 0 THEN {} ELSE {toldSoFar[newest]} \ {Nothing})
    /\ (~awry /\ \A w \in Writers : upsert[w].at = "none") => ledger \subseteq 1..newest

\* Entries: the last call to succeed or the last deletion is what one finds, but for a call
\* that updated an entry just deleted; and of calls that ended something is kept.
EntriesKept ==
    /\ ~missed => entry = lastStored
    /\ entry # Nothing => \E s \in Storers : storer[s].at = "over" /\ storer[s].value = entry

Remembered == FactsKept /\ EntriesKept
=============================================================================
