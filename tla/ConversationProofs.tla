-------------------------- MODULE ConversationProofs --------------------------
(***************************************************************************)
(* Theorems about Conversation, for every value of its constants.  The     *)
(* inductive invariant is IInv.  After the types there are only five       *)
(* shapes of step to look at: a turn moves from one stage to the next, a   *)
(* request moves, a request starts a turn, an entry is reconstructed, and  *)
(* the entry in memory is evicted.  AnsweredOnce needs an invariant of its *)
(* own, OnceInv, about the first entry's cache.                            *)
(***************************************************************************)
EXTENDS Conversation, FiniteSetTheorems, TLAPS

-----------------------------------------------------------------------------
(* Types                                                                   *)

Keys == {Key[m] : m \in Messages}

\* Remember keeps the cache within its limit.
LEMMA RememberOK ==
    ASSUME NEW c \in Seq(Keys), Len(c) <= CacheLimit, NEW k \in Keys
    PROVE  Remember(c, k) \in Seq(Keys) /\ Len(Remember(c, k)) <= CacheLimit
<1> DEFINE kept == IF Len(c) >= CacheLimit THEN Tail(c) ELSE c
<1>1. CacheLimit \in Nat \ {0}
  BY ConversationAssumption DEF ConversationAssumption
<1>2. kept \in Seq(Keys) /\ Len(kept) <= CacheLimit - 1
  <2>1. CASE Len(c) >= CacheLimit
    <3>1. c # <<>>
      BY <1>1, <2>1
    <3>2. Tail(c) \in Seq(Keys) /\ Len(Tail(c)) = Len(c) - 1
      BY <3>1
    <3>3. QED
      BY <1>1, <2>1, <3>2
  <2>2. CASE ~(Len(c) >= CacheLimit)
    BY <1>1, <2>2
  <2>3. QED
    BY <2>1, <2>2
<1>3. Remember(c, k) = IF k \in Remembered(kept) THEN kept ELSE Append(kept, k)
  BY DEF Remember
<1>4. Append(kept, k) \in Seq(Keys) /\ Len(Append(kept, k)) = Len(kept) + 1
  BY <1>2
<1> HIDE DEF kept
<1>5. QED
  BY <1>1, <1>2, <1>3, <1>4

\* The last user message of a history, and the history without it.
LEMMA TakeBackOK ==
    ASSUME NEW h \in Seq(Messages), h # <<>>
    PROVE  h[Len(h)] \in Messages /\ SubSeq(h, 1, Len(h) - 1) \in Seq(Messages)
<1>1. Len(h) \in Nat /\ Len(h) # 0
  OBVIOUS
<1>2. QED
  BY <1>1

LEMMA StoreAnswerOK ==
    ASSUME TypeOK, NEW t \in Turns, StoreAnswer(t)
    PROVE  cache' \in [Entries -> Seq(Keys)] /\ \A e \in Entries : Len(cache'[e]) <= CacheLimit
<1>1. CASE key[t] = NoKey \/ current = 0
  BY <1>1 DEF StoreAnswer, TypeOK, Keys
<1>2. CASE ~(key[t] = NoKey \/ current = 0)
  <2>1. current \in Entries /\ key[t] \in Keys
    BY <1>2, ConversationAssumption DEF ConversationAssumption, TypeOK, Entries, Keys
  <2>2. cache[current] \in Seq(Keys) /\ Len(cache[current]) <= CacheLimit
    BY <2>1 DEF TypeOK, Keys
  <2>3. /\ Remember(cache[current], key[t]) \in Seq(Keys)
        /\ Len(Remember(cache[current], key[t])) <= CacheLimit
    BY <2>1, <2>2, RememberOK
  <2>4. cache' = [cache EXCEPT ![current] = Remember(cache[current], key[t])]
    BY <1>2 DEF StoreAnswer
  <2>5. cache \in [Entries -> Seq(Keys)] /\ \A e \in Entries : Len(cache[e]) <= CacheLimit
    BY DEF TypeOK, Keys
  <2>6. QED
    BY <2>1, <2>3, <2>4, <2>5
<1>3. QED
  BY <1>1, <1>2

LEMMA TypeInit == Init => TypeOK
<1> SUFFICES ASSUME Init PROVE TypeOK
  OBVIOUS
<1>1. /\ 1 \in Entries /\ 1 \in Turns /\ First \in Messages /\ <<>> \in Seq(Messages)
      /\ MaxTurns \in Nat \ {0} /\ 1 \in 0..MaxEntries
  BY ConversationAssumption DEF ConversationAssumption, Entries, Turns, Messages
<1>2. /\ current \in 0..MaxEntries /\ made \in Entries /\ exists \in BOOLEAN
      /\ db \in Seq(Messages) /\ reaper \in BOOLEAN
  <2>1. /\ current = 1 /\ made = 1 /\ exists = TRUE /\ db = <<>> /\ reaper = FALSE
    BY DEF Init
  <2>2. QED
    BY <1>1, <2>1
<1>3. /\ lock \in [Entries -> Requests \cup {"free"}]
      /\ ready \in [Entries -> BOOLEAN] /\ flag \in [Entries -> BOOLEAN]
      /\ history \in [Entries -> Seq(Messages)] /\ base \in [Entries -> Seq(Messages)]
  BY <1>1 DEF Init
<1>4. task \in [Entries -> 0..MaxTurns]
  BY <1>1 DEF Init, Turns
<1>5. /\ cache \in [Entries -> Seq({Key[m] : m \in Messages})]
      /\ \A e \in Entries : Len(cache[e]) <= CacheLimit
  <2>1. cache = [e \in Entries |-> <<>>] /\ Len(<<>>) = 0
    BY DEF Init
  <2>2. QED
    BY <2>1, ConversationAssumption DEF ConversationAssumption
<1>6. /\ turns \in Turns /\ owner \in [Turns -> Entries] /\ text \in [Turns -> Messages]
      /\ key \in [Turns -> {Key[m] : m \in Messages} \cup {NoKey}]
  BY <1>1 DEF Init
<1>7. stage \in [Turns -> Stages] /\ outcome \in [Turns -> Outcomes]
  BY DEF Init, Stages, Live, Outcomes
<1>8. /\ killed \subseteq Turns /\ asked \subseteq Turns
      /\ started \subseteq Turns /\ ended \subseteq Turns
  BY DEF Init
<1>9. /\ rpc \in [Requests -> Rpcs] /\ rEntry \in [Requests -> Entries]
      /\ rTurn \in [Requests -> 0..MaxTurns] /\ rNew \in [Requests -> 0..MaxTurns]
  BY <1>1 DEF Init, Rpcs, Turns
<1>10. QED
  BY <1>2, <1>3, <1>4, <1>5, <1>6, <1>7, <1>8, <1>9 DEF TypeOK

\* What a turn may change of the types: its stage, its outcome and its entry.
LEMMA TypeTurn ==
    ASSUME TypeOK, NEW t \in Turns, TurnStep(t)
    PROVE  TypeOK'
<1>1. owner[t] \in Entries /\ text[t] \in Messages
  BY DEF TypeOK
<1>2. CASE Bootstrapped(t)
  BY <1>1, <1>2 DEF TypeOK, Bootstrapped, orchVars, newVars, stopVars, reqVars, Stages, Live
<1>3. CASE BootstrapFailed(t)
  <2>1. ready' \in [Entries -> BOOLEAN] /\ ended' \subseteq Turns
    BY <1>1, <1>3 DEF TypeOK, BootstrapFailed, EmitTerminal
  <2>2. stage' \in [Turns -> Stages] /\ outcome' \in [Turns -> Outcomes]
    BY <1>3 DEF TypeOK, BootstrapFailed, Finish, Stages, Outcomes
  <2>3. QED
    BY <1>3, <2>1, <2>2 DEF TypeOK, BootstrapFailed, orchVars, newVars, stopVars, reqVars
<1>4. CASE RunTurn(t)
  <2>1. stage' \in [Turns -> Stages] /\ outcome' \in [Turns -> Outcomes]
    BY <1>4 DEF TypeOK, RunTurn, Finish, Stages, Live, Outcomes
  <2>2. QED
    BY <1>4, <2>1 DEF TypeOK, RunTurn, entryVars, orchVars, newVars, stopVars, reqVars
<1>5. CASE RunFailed(t)
  <2>1. /\ stage' \in [Turns -> Stages] /\ outcome' \in [Turns -> Outcomes]
        /\ ended' \subseteq Turns
    BY <1>5 DEF TypeOK, RunFailed, Finish, EmitTerminal, Stages, Outcomes
  <2>2. QED
    BY <1>5, <2>1 DEF TypeOK, RunFailed, entryVars, orchVars, newVars, stopVars, reqVars
<1>6. CASE Begin(t)
  <2>1. db' \in Seq(Messages) /\ base' \in [Entries -> Seq(Messages)]
    BY <1>1, <1>6 DEF TypeOK, Begin
  <2>2. stage' \in [Turns -> Stages] /\ started' \subseteq Turns
    BY <1>6 DEF TypeOK, Begin, Stages, Live
  <2>3. QED
    BY <1>6, <2>1, <2>2 DEF TypeOK, Begin, orchVars, newVars, stopVars, reqVars
<1>7. CASE SetupFailed(t)
  <2>1. /\ stage' \in [Turns -> Stages] /\ outcome' \in [Turns -> Outcomes]
        /\ ended' \subseteq Turns
    BY <1>7 DEF TypeOK, SetupFailed, Finish, EmitTerminal, Stages, Outcomes
  <2>2. cache' \in [Entries -> Seq(Keys)] /\ \A e \in Entries : Len(cache'[e]) <= CacheLimit
    BY <1>7, StoreAnswerOK DEF SetupFailed
  <2>3. QED
    BY <1>7, <2>1, <2>2
       DEF TypeOK, Keys, SetupFailed, entryVars, orchVars, newVars, stopVars, reqVars
<1>8. CASE SetupDone(t)
  <2>1. history' \in [Entries -> Seq(Messages)]
    BY <1>1, <1>8 DEF TypeOK, SetupDone
  <2>2. stage' \in [Turns -> Stages]
    BY <1>8 DEF TypeOK, SetupDone, Stages, Live
  <2>3. QED
    BY <1>8, <2>1, <2>2 DEF TypeOK, SetupDone, entryVars, newVars, stopVars, reqVars
<1>9. CASE EndLoop(t)
  <2>1. stage' \in [Turns -> Stages] /\ flag' \in [Entries -> BOOLEAN]
    BY <1>1, <1>9 DEF TypeOK, EndLoop, Stages, Live
  <2>2. QED
    BY <1>9, <2>1 DEF TypeOK, EndLoop, entryVars, newVars, stopVars, reqVars
<1>10. CASE Answer(t)
  <2>1. /\ stage' \in [Turns -> Stages] /\ outcome' \in [Turns -> Outcomes]
        /\ ended' \subseteq Turns
    BY <1>10 DEF TypeOK, Answer, Finish, EmitTerminal, Stages, Outcomes
  <2>2. cache' \in [Entries -> Seq(Keys)] /\ \A e \in Entries : Len(cache'[e]) <= CacheLimit
    BY <1>10, StoreAnswerOK DEF Answer, TypeOK, Keys
  <2>3. QED
    BY <1>10, <2>1, <2>2
       DEF TypeOK, Keys, Answer, entryVars, orchVars, newVars, stopVars, reqVars
<1>11. CASE Stopped(t)
  <2>1. /\ stage' \in [Turns -> Stages] /\ outcome' \in [Turns -> Outcomes]
        /\ ended' \subseteq Turns
    BY <1>11 DEF TypeOK, Stopped, Finish, EmitTerminal, Stages, Outcomes
  <2>2. cache' \in [Entries -> Seq(Keys)] /\ \A e \in Entries : Len(cache'[e]) <= CacheLimit
    BY <1>11, StoreAnswerOK DEF Stopped, TypeOK, Keys
  <2>3. history' \in [Entries -> Seq(Messages)]
    BY <1>1, <1>11 DEF TypeOK, Stopped
  <2>4. QED
    BY <1>11, <2>1, <2>2, <2>3
       DEF TypeOK, Keys, Stopped, entryVars, newVars, stopVars, reqVars
<1>12. CASE Cancelled(t)
  <2>1. stage' \in [Turns -> Stages] /\ outcome' \in [Turns -> Outcomes]
    BY <1>12 DEF TypeOK, Cancelled, Finish, Stages, Live, Outcomes
  <2>2. ended' \subseteq Turns /\ killed' \subseteq Turns
    BY <1>12 DEF TypeOK, Cancelled, EmitTerminal
  <2>3. QED
    BY <1>12, <2>1, <2>2 DEF TypeOK, Cancelled, entryVars, orchVars, newVars, reqVars
<1>13. CASE CancelReported(t)
  <2>1. /\ stage' \in [Turns -> Stages] /\ outcome' \in [Turns -> Outcomes]
        /\ ended' \subseteq Turns
    BY <1>13 DEF TypeOK, CancelReported, Finish, EmitTerminal, Stages, Outcomes
  <2>2. QED
    BY <1>13, <2>1 DEF TypeOK, CancelReported, entryVars, orchVars, newVars, stopVars, reqVars
<1>14. QED
  BY <1>2, <1>3, <1>4, <1>5, <1>6, <1>7, <1>8, <1>9, <1>10, <1>11, <1>12, <1>13 DEF TurnStep

\* The types a new turn disturbs.
LEMMA TypeStart ==
    ASSUME TypeOK, NEW r \in Requests, NEW e \in Entries, NEW m \in Messages,
           NEW k \in Keys \cup {NoKey}, StartTurn(r, e, m, k)
    PROVE  /\ turns' \in Turns /\ owner' \in [Turns -> Entries]
           /\ text' \in [Turns -> Messages] /\ key' \in [Turns -> Keys \cup {NoKey}]
           /\ stage' \in [Turns -> Stages] /\ task' \in [Entries -> 0..MaxTurns]
           /\ rNew' \in [Requests -> 0..MaxTurns]
<1>1. turns' = turns + 1 /\ turns + 1 \in Turns /\ turns + 1 \in 0..MaxTurns
  BY ConversationAssumption DEF ConversationAssumption, TypeOK, StartTurn, Turns
<1>2. "fresh" \in Stages
  BY DEF Stages, Live
<1>3. QED
  BY <1>1, <1>2 DEF TypeOK, StartTurn, Keys

LEMMA TypeFindEntry ==
    ASSUME TypeOK, NEW r \in Requests, FindEntry(r)
    PROVE  TypeOK'
<1>1. CASE Lookup(r)
  <2>1. rpc' \in [Requests -> Rpcs]
    BY <1>1 DEF TypeOK, Lookup, Goes, Rpcs
  <2>2. rEntry' \in [Requests -> Entries]
    <3>1. current # 0 => current \in Entries
      BY ConversationAssumption DEF ConversationAssumption, TypeOK, Entries
    <3>2. QED
      BY <1>1, <3>1 DEF TypeOK, Lookup
  <2>3. QED
    BY <1>1, <2>1, <2>2 DEF TypeOK, Lookup, entryVars, orchVars, newVars, turnVars, stopVars
<1>2. CASE Rebuilt(r)
  <2>1. made' = made + 1 /\ current' = made + 1 /\ made + 1 \in Entries
    BY <1>2, ConversationAssumption DEF ConversationAssumption, TypeOK, Rebuilt, Entries
  <2>2. current' \in 0..MaxEntries
    BY <2>1, ConversationAssumption DEF ConversationAssumption, Entries
  <2>3. /\ ready' \in [Entries -> BOOLEAN] /\ history' \in [Entries -> Seq(Messages)]
        /\ rEntry' \in [Requests -> Entries]
    BY <1>2, <2>1 DEF TypeOK, Rebuilt
  <2>4. rpc' \in [Requests -> Rpcs]
    BY <1>2 DEF TypeOK, Rebuilt, Goes, Rpcs
  <2>5. QED
    BY <1>2, <2>1, <2>2, <2>3, <2>4 DEF TypeOK, Rebuilt, newVars, turnVars, stopVars
<1>3. CASE RebuildFailed(r)
  BY <1>3 DEF TypeOK, RebuildFailed, Goes, Rpcs, entryVars, orchVars, newVars, turnVars, stopVars
<1>4. QED
  BY <1>1, <1>2, <1>3 DEF FindEntry

\* The messages and keys of the senders.
LEMMA SenderOK ==
    ASSUME NEW r \in Senders
    PROVE  r \in Requests /\ r \in Messages /\ Key[r] \in Keys \cup {NoKey}
BY DEF Requests, Messages, Keys

LEMMA ReplaceOK ==
    ASSUME TypeOK, NEW e \in Entries, Replace(e)
    PROVE  /\ ready' \in [Entries -> BOOLEAN] /\ flag' \in [Entries -> BOOLEAN]
           /\ history' \in [Entries -> Seq(Messages)]
BY DEF TypeOK, Replace

\* A turn that is running is one.
LEMMA RunningOK ==
    ASSUME TypeOK, NEW e \in Entries, Running(task[e])
    PROVE  task[e] \in Turns /\ task[e] \in 0..MaxTurns
BY ConversationAssumption DEF ConversationAssumption, TypeOK, Running, Turns

LEMMA TypeSend ==
    ASSUME TypeOK, NEW r \in Senders, SendStep(r)
    PROVE  TypeOK'
<1>1. r \in Requests /\ r \in Messages /\ Key[r] \in Keys \cup {NoKey}
  BY SenderOK
<1>2. rEntry[r] \in Entries
  BY <1>1 DEF TypeOK
<1>3. CASE SendDuplicate(r)
  BY <1>3 DEF TypeOK, SendDuplicate, Goes, Rpcs, entryVars, orchVars, newVars, turnVars, stopVars
<1>4. CASE SendWaits(r)
  <2>1. task[rEntry[r]] \in 0..MaxTurns
    BY <1>2 DEF TypeOK
  <2>2. QED
    BY <1>4, <2>1
       DEF TypeOK, SendWaits, Goes, Rpcs, entryVars, orchVars, newVars, turnVars, stopVars
<1>5. CASE SendWaited(r)
  BY <1>5 DEF TypeOK, SendWaited, AfterWait, Goes, Rpcs, Holding,
              entryVars, orchVars, newVars, turnVars, stopVars
<1>6. CASE SendStarts(r)
  <2>1. rpc' \in [Requests -> Rpcs]
    BY <1>6 DEF TypeOK, SendStarts, Goes, Rpcs
  <2>2. StartTurn(r, rEntry[r], r, Key[r])
    BY <1>6 DEF SendStarts
  <2>3. QED
    BY <1>1, <1>2, <1>6, <2>1, <2>2, TypeStart
       DEF TypeOK, Keys, SendStarts, entryVars, orchVars, stopVars
<1>7. CASE SendBuilds(r)
  <2>1. rpc' \in [Requests -> Rpcs] /\ lock' \in [Entries -> Requests \cup {"free"}]
    BY <1>1, <1>7 DEF TypeOK, SendBuilds, Goes, Rpcs, Holding
  <2>2. QED
    BY <1>7, <2>1 DEF TypeOK, SendBuilds, entryVars, orchVars, newVars, turnVars, stopVars
<1>8. CASE SendSwitches(r)
  <2>1. rpc' \in [Requests -> Rpcs]
    BY <1>8 DEF TypeOK, SendSwitches, Goes, Rpcs, Holding
  <2>2. QED
    BY <1>8, <2>1 DEF TypeOK, SendSwitches, entryVars, orchVars, newVars, turnVars, stopVars
<1>9. CASE SendBuilt(r)
  <2>1. rpc' \in [Requests -> Rpcs] /\ lock' \in [Entries -> Requests \cup {"free"}]
    BY <1>9 DEF TypeOK, SendBuilt, Unlocks, Goes, Rpcs
  <2>2. StartTurn(r, rEntry[r], r, Key[r])
    BY <1>9 DEF SendBuilt
  <2>3. /\ ready' \in [Entries -> BOOLEAN] /\ flag' \in [Entries -> BOOLEAN]
        /\ history' \in [Entries -> Seq(Messages)]
    BY <1>2, <1>9, ReplaceOK DEF SendBuilt, TypeOK, orchVars
  <2>4. QED
    BY <1>1, <1>2, <1>9, <2>1, <2>2, <2>3, TypeStart DEF TypeOK, Keys, SendBuilt, stopVars
<1>10. CASE SendBuildFailed(r)
  <2>1. rpc' \in [Requests -> Rpcs] /\ lock' \in [Entries -> Requests \cup {"free"}]
    BY <1>10 DEF TypeOK, SendBuildFailed, Unlocks, Goes, Rpcs
  <2>2. /\ ready' \in [Entries -> BOOLEAN] /\ flag' \in [Entries -> BOOLEAN]
        /\ history' \in [Entries -> Seq(Messages)]
    BY <1>2, <1>10, ReplaceOK DEF SendBuildFailed, TypeOK, orchVars
  <2>3. QED
    BY <1>10, <2>1, <2>2 DEF TypeOK, SendBuildFailed, newVars, turnVars, stopVars
<1>11. QED
  BY <1>3, <1>4, <1>5, <1>6, <1>7, <1>8, <1>9, <1>10 DEF SendStep

\* A cancel signals the turn that is running.
LEMMA SignalOK ==
    ASSUME TypeOK, NEW e \in Entries, Running(task[e]), SignalCancel(e)
    PROVE  flag' \in [Entries -> BOOLEAN] /\ asked' \subseteq Turns
<1>1. task[e] \in Turns
  BY RunningOK
<1>2. QED
  BY <1>1 DEF TypeOK, SignalCancel

LEMMA TypeCancel ==
    ASSUME TypeOK, NEW r \in Cancellers, CancelStep(r)
    PROVE  TypeOK'
<1>1. r \in Requests /\ rEntry[r] \in Entries /\ rTurn[r] \in 0..MaxTurns
  BY DEF Requests, TypeOK
<1>2. CASE CancelLocked(r)
  <2>1. rpc' \in [Requests -> Rpcs]
    BY <1>2 DEF TypeOK, CancelLocked, Goes, Rpcs
  <2>2. /\ flag' \in [Entries -> BOOLEAN] /\ asked' \subseteq Turns
        /\ rTurn' \in [Requests -> 0..MaxTurns]
    <3>1. CASE ~Running(task[rEntry[r]])
      BY <1>2, <3>1 DEF TypeOK, CancelLocked
    <3>2. CASE Running(task[rEntry[r]])
      <4>1. SignalCancel(rEntry[r]) /\ rTurn' = [rTurn EXCEPT ![r] = task[rEntry[r]]]
        BY <1>2, <3>2 DEF CancelLocked
      <4>2. QED
        BY <1>1, <3>2, <4>1, SignalOK, RunningOK DEF TypeOK
    <3>3. QED
      BY <3>1, <3>2
  <2>3. QED
    BY <1>2, <2>1, <2>2 DEF TypeOK, CancelLocked, entryVars, newVars, turnVars
<1>3. CASE ForceTurn(r)
  <2>1. rpc' \in [Requests -> Rpcs]
    BY <1>3 DEF TypeOK, ForceTurn, Goes, Rpcs
  <2>2. killed' \subseteq Turns
    <3>1. rTurn[r] \in Turns /\ killed' = killed \cup {rTurn[r]}
      BY <1>1, <1>3, ConversationAssumption
         DEF ConversationAssumption, ForceTurn, Forced, Running, Turns
    <3>2. QED
      BY <3>1 DEF TypeOK
  <2>3. QED
    BY <1>3, <2>1, <2>2 DEF TypeOK, ForceTurn, entryVars, orchVars, newVars, turnVars
<1>4. CASE ForceSpared(r)
  BY <1>4 DEF TypeOK, ForceSpared, Goes, Rpcs, entryVars, orchVars, newVars, turnVars, stopVars
<1>5. QED
  BY <1>2, <1>3, <1>4 DEF CancelStep

\* The types a rerun disturbs.
LEMMA TypeRerun ==
    ASSUME TypeOK, NEW r \in Requests, Rerun(r)
    PROVE  /\ turns' \in Turns /\ owner' \in [Turns -> Entries]
           /\ text' \in [Turns -> Messages] /\ key' \in [Turns -> Keys \cup {NoKey}]
           /\ stage' \in [Turns -> Stages] /\ task' \in [Entries -> 0..MaxTurns]
           /\ rNew' \in [Requests -> 0..MaxTurns] /\ rpc' \in [Requests -> Rpcs]
           /\ flag' \in [Entries -> BOOLEAN] /\ history' \in [Entries -> Seq(Messages)]
<1> DEFINE e == rEntry[r]
           h == history[e]
<1>1. e \in Entries /\ h \in Seq(Messages)
  BY DEF TypeOK
<1>2. rpc' \in [Requests -> Rpcs]
  BY DEF TypeOK, Rerun, Goes, Rpcs
<1>3. CASE ready[e] /\ h # <<>>
  <2>1. /\ history' = [history EXCEPT ![e] = SubSeq(h, 1, Len(h) - 1)]
        /\ flag' = [flag EXCEPT ![e] = FALSE]
        /\ StartTurn(r, e, h[Len(h)], NoKey)
    BY <1>3 DEF Rerun
  <2>2. h[Len(h)] \in Messages /\ SubSeq(h, 1, Len(h) - 1) \in Seq(Messages)
    BY <1>1, <1>3, TakeBackOK
  <2>3. history' \in [Entries -> Seq(Messages)] /\ flag' \in [Entries -> BOOLEAN]
    BY <1>1, <2>1, <2>2 DEF TypeOK
  <2> HIDE DEF e, h
  <2>4. QED
    BY <1>1, <1>2, <2>1, <2>2, <2>3, TypeStart
<1>4. CASE ~(ready[e] /\ h # <<>>)
  BY <1>2, <1>4 DEF TypeOK, Keys, Rerun, orchVars, newVars
<1>5. QED
  BY <1>3, <1>4

LEMMA TypeRetry ==
    ASSUME TypeOK, NEW r \in Retriers, RetryStep(r)
    PROVE  TypeOK'
<1>1. r \in Requests /\ rEntry[r] \in Entries /\ rTurn[r] \in 0..MaxTurns
  BY DEF Requests, TypeOK
<1>2. CASE RetryIdle(r)
  <2>1. Rerun(r)
    BY <1>2 DEF RetryIdle
  <2>2. QED
    BY <1>1, <1>2, <2>1, TypeRerun DEF TypeOK, Keys, RetryIdle, entryVars, stopVars
<1>3. CASE RetryStops(r)
  <2>1. rpc' \in [Requests -> Rpcs] /\ lock' \in [Entries -> Requests \cup {"free"}]
    BY <1>1, <1>3 DEF TypeOK, RetryStops, Goes, Rpcs, Holding
  <2>2. flag' \in [Entries -> BOOLEAN] /\ asked' \subseteq Turns
    BY <1>1, <1>3, SignalOK DEF RetryStops
  <2>3. rTurn' \in [Requests -> 0..MaxTurns]
    BY <1>1, <1>3 DEF TypeOK, RetryStops
  <2>4. QED
    BY <1>3, <2>1, <2>2, <2>3 DEF TypeOK, RetryStops, entryVars, newVars, turnVars
<1>4. CASE RetryForces(r)
  <2>1. rpc' \in [Requests -> Rpcs]
    BY <1>4 DEF TypeOK, RetryForces, Goes, Rpcs, Holding
  <2>2. killed' \subseteq Turns
    <3>1. rTurn[r] \in Turns /\ killed' = killed \cup {rTurn[r]}
      BY <1>1, <1>4, ConversationAssumption
         DEF ConversationAssumption, RetryForces, Running, Turns
    <3>2. QED
      BY <3>1 DEF TypeOK
  <2>3. QED
    BY <1>4, <2>1, <2>2 DEF TypeOK, RetryForces, entryVars, orchVars, newVars, turnVars
<1>5. CASE RetryReruns(r)
  <2>1. Rerun(r) /\ lock' \in [Entries -> Requests \cup {"free"}]
    BY <1>5 DEF TypeOK, RetryReruns, Unlocks
  <2>2. QED
    BY <1>1, <1>5, <2>1, TypeRerun DEF TypeOK, Keys, RetryReruns, entryVars, stopVars
<1>6. CASE RetryRefused(r)
  <2>1. rpc' \in [Requests -> Rpcs] /\ lock' \in [Entries -> Requests \cup {"free"}]
    BY <1>6 DEF TypeOK, RetryRefused, Unlocks, Goes, Rpcs
  <2>2. QED
    BY <1>6, <2>1 DEF TypeOK, RetryRefused, entryVars, orchVars, newVars, turnVars, stopVars
<1>7. QED
  BY <1>2, <1>3, <1>4, <1>5, <1>6 DEF RetryStep

LEMMA TypeEvict ==
    ASSUME TypeOK, Evict
    PROVE  current' \in 0..MaxEntries /\ killed' \subseteq Turns /\ asked' \subseteq Turns
<1>1. 0 \in 0..MaxEntries /\ (current # 0 => current \in Entries)
  BY ConversationAssumption DEF ConversationAssumption, TypeOK, Entries
<1>2. CASE current # 0 /\ Running(task[current])
  <2>1. task[current] \in Turns
    BY <1>1, <1>2, RunningOK
  <2>2. QED
    BY <1>1, <1>2, <2>1 DEF TypeOK, Evict
<1>3. CASE ~(current # 0 /\ Running(task[current]))
  BY <1>1, <1>3 DEF TypeOK, Evict, stopVars
<1>4. QED
  BY <1>2, <1>3

LEMMA TypeNext == TypeOK /\ [Next]_vars => TypeOK'
<1> SUFFICES ASSUME TypeOK, [Next]_vars PROVE TypeOK'
  OBVIOUS
<1>1. CASE ReaperJudges
  BY <1>1 DEF TypeOK, ReaperJudges, orchVars, newVars, turnVars, stopVars, reqVars
<1>2. CASE ReaperEvicts
  BY <1>2, TypeEvict DEF TypeOK, ReaperEvicts, orchVars, newVars, turnVars, reqVars
<1>3. CASE Delete
  <2>1. db' \in Seq(Messages) /\ exists' \in BOOLEAN
    <3>1. db' = <<>> /\ exists' = FALSE /\ <<>> \in Seq(Messages)
      BY <1>3 DEF Delete
    <3>2. QED
      BY <3>1
  <2>2. QED
    BY <1>3, <2>1, TypeEvict DEF TypeOK, Delete, orchVars, newVars, turnVars, reqVars
<1>4. CASE UNCHANGED vars
  BY <1>4 DEF TypeOK, vars, entryVars, orchVars, newVars, turnVars, stopVars, reqVars
<1>5. QED
  BY <1>1, <1>2, <1>3, <1>4, TypeTurn, TypeFindEntry, TypeSend, TypeCancel, TypeRetry
     DEF Next, EvictStep

-----------------------------------------------------------------------------
(* The inductive invariant                                                 *)

\* At most one turn of an entry is live.
LEMMA LiveOnce ==
    ASSUME OneTurn, NEW t \in Turns, NEW u \in Turns, t # u,
           stage[t] \in Live, stage[u] \in Live
    PROVE  owner[t] # owner[u]
BY DEF OneTurn

\* None is while its turn_task is done.
LEMMA IdleEntry ==
    ASSUME OneTurn, NEW t \in Turns, stage[t] \in Live
    PROVE  Running(task[owner[t]])
BY DEF OneTurn, Running, Live, Turns

LEMMA InitInv == Init => IInv
<1> SUFFICES ASSUME Init PROVE IInv
  OBVIOUS
<1>1. TypeOK
  BY TypeInit
<1>2. Numbered
  BY <1>1 DEF Init, Numbered, Turns, Entries, TypeOK
<1>3. \A r \in Requests : Locked(r)
  BY DEF Init, Locked, Holding
<1>4. Unstarted /\ ForcedWasAsked /\ EndAnnounced
  BY DEF Init, Unstarted, ForcedWasAsked, EndAnnounced
<1>5. \A t \in Turns : stage[t] \in Live => t = 1 /\ stage[t] = "boot"
  BY DEF Init, Live
<1>6. 1 \in Entries /\ 1 \in Turns
  BY ConversationAssumption DEF ConversationAssumption, Entries, Turns
<1>7. OneTurn
  BY <1>5, <1>6 DEF Init, OneTurn
<1>8. HistoryKept
  BY DEF Init, HistoryKept
<1>9. QED
  BY <1>1, <1>2, <1>3, <1>4, <1>7, <1>8 DEF IInv

\* A turn moves to stage s.
Moves(t, s) ==
    /\ stage[t] \in Live /\ s \in Live \cup {"done"}
    /\ stage' = [stage EXCEPT ![t] = s]
    /\ UNCHANGED <<current, made, newVars, reqVars, asked>>
    /\ killed' \subseteq killed
    /\ \A e \in Entries \ {owner[t]} : history'[e] = history[e] /\ base'[e] = base[e]
    /\ s = "setup" => history'[owner[t]] = base'[owner[t]]
    /\ s \in {"loop", "final", "stopping"} =>
           history'[owner[t]] = Append(base'[owner[t]], text[t])
    /\ started' \subseteq started \cup {t} /\ ended \subseteq ended'
    /\ t \in started' => s \notin {"none", "boot", "fresh", "hook"}
    /\ \A u \in Turns \ {t} : outcome'[u] = outcome[u]
    /\ t \in started' /\ s = "done" /\ outcome'[t] # "aborted" /\ current = owner[t] =>
           t \in ended'

LEMMA Moved ==
    ASSUME IInv, TypeOK', NEW t \in Turns, NEW s, Moves(t, s)
    PROVE  IInv'
<1>1. /\ TypeOK /\ Numbered /\ Unstarted /\ OneTurn /\ HistoryKept /\ ForcedWasAsked
      /\ EndAnnounced /\ \A r \in Requests : Locked(r)
  BY DEF IInv
<1>2. /\ stage[t] \in Live /\ s \in Live \cup {"done"}
      /\ stage' = [stage EXCEPT ![t] = s] /\ stage \in [Turns -> Stages]
      /\ current' = current /\ made' = made
      /\ turns' = turns /\ owner' = owner /\ text' = text /\ task' = task
      /\ lock' = lock /\ rpc' = rpc /\ rEntry' = rEntry /\ rTurn' = rTurn
      /\ asked' = asked /\ killed' \subseteq killed
  BY <1>1 DEF Moves, newVars, reqVars, TypeOK
<1>3. stage[t] # "none" /\ stage[t] # "done" /\ s # "none"
  BY <1>2 DEF Live
<1>4. stage'[t] = s /\ \A u \in Turns \ {t} : stage'[u] = stage[u]
  BY <1>2
<1>5. Numbered'
  BY <1>1, <1>2, <1>3, <1>4 DEF Numbered
<1>6. ASSUME NEW r \in Requests PROVE Locked(r)'
  <2>1. ~Running(task[rEntry[r]]) => ~Running(task[rEntry[r]])'
    BY <1>2, <1>3 DEF Running
  <2>2. Locked(r)
    BY <1>1
  <2>3. QED
    BY <1>2, <2>1, <2>2 DEF Locked
<1>7. Unstarted'
  BY <1>1, <1>4 DEF Moves, Unstarted
<1>8. OneTurn'
  BY <1>1, <1>2, <1>4 DEF OneTurn
<1>9. HistoryKept'
  <2> SUFFICES ASSUME NEW u \in Turns
               PROVE  /\ stage'[u] = "setup" => history'[owner[u]] = base'[owner[u]]
                      /\ stage'[u] \in {"loop", "final", "stopping"} =>
                             history'[owner[u]] = Append(base'[owner[u]], text[u])
    BY <1>2 DEF HistoryKept
  <2>1. CASE u = t
    BY <1>4, <2>1 DEF Moves
  <2>2. CASE u # t /\ stage[u] \in {"setup", "loop", "final", "stopping"}
    <3>1. stage[u] \in Live
      BY <2>2 DEF Live
    <3>2. owner[u] \in Entries \ {owner[t]}
      BY <1>1, <1>2, <2>2, <3>1, LiveOnce DEF TypeOK
    <3>3. history'[owner[u]] = history[owner[u]] /\ base'[owner[u]] = base[owner[u]]
      BY <3>2 DEF Moves
    <3>4. QED
      BY <1>1, <1>4, <2>2, <3>3 DEF HistoryKept
  <2>3. CASE u # t /\ stage[u] \notin {"setup", "loop", "final", "stopping"}
    BY <1>4, <2>3
  <2>4. QED
    BY <2>1, <2>2, <2>3
<1>10. ForcedWasAsked'
  BY <1>1, <1>2 DEF ForcedWasAsked
<1>11. EndAnnounced'
  <2> SUFFICES ASSUME NEW u \in started', stage'[u] = "done", outcome'[u] # "aborted",
                      current = owner[u]
               PROVE  u \in ended'
    BY <1>2 DEF EndAnnounced
  <2>1. CASE u = t
    BY <1>4, <2>1 DEF Moves
  <2>2. CASE u # t
    <3>1. u \in started /\ u \in Turns
      BY <1>1, <2>2 DEF Moves, TypeOK
    <3>2. stage'[u] = stage[u] /\ outcome'[u] = outcome[u]
      BY <1>4, <2>2, <3>1 DEF Moves
    <3>3. QED
      BY <1>1, <3>1, <3>2 DEF EndAnnounced, Moves
  <2>3. QED
    BY <2>1, <2>2
<1>12. QED
  BY <1>5, <1>6, <1>7, <1>8, <1>9, <1>10, <1>11 DEF IInv

LEMMA TurnMoves ==
    ASSUME IInv, NEW t \in Turns, TurnStep(t)
    PROVE  \E s : Moves(t, s)
<1>1. /\ TypeOK /\ stage \in [Turns -> Stages] /\ outcome \in [Turns -> Outcomes]
      /\ history \in [Entries -> Seq(Messages)] /\ base \in [Entries -> Seq(Messages)]
      /\ owner[t] \in Entries
  BY DEF IInv, TypeOK
<1>2. t \in started => stage[t] \notin {"none", "boot", "fresh", "hook"}
  BY DEF IInv, Unstarted
<1>3. /\ stage[t] = "setup" => history[owner[t]] = base[owner[t]]
      /\ stage[t] \in {"loop", "final", "stopping"} =>
             history[owner[t]] = Append(base[owner[t]], text[t])
  BY DEF IInv, HistoryKept
<1>4. CASE Bootstrapped(t)
  <2>1. Moves(t, "fresh")
    BY <1>1, <1>2, <1>4
       DEF Moves, Bootstrapped, orchVars, newVars, stopVars, reqVars, Live
  <2>2. QED
    BY <2>1
<1>5. CASE BootstrapFailed(t)
  <2>1. Moves(t, "done")
    BY <1>1, <1>2, <1>5
       DEF Moves, BootstrapFailed, Finish, EmitTerminal, orchVars, newVars, stopVars, reqVars, Live
  <2>2. QED
    BY <2>1
<1>6. CASE RunTurn(t)
  <2>1. Moves(t, "done") \/ Moves(t, "hook")
    BY <1>1, <1>2, <1>6
       DEF Moves, RunTurn, Finish, entryVars, orchVars, newVars, stopVars, reqVars, Live
  <2>2. QED
    BY <2>1
<1>7. CASE RunFailed(t)
  <2>1. /\ stage[t] \in Live /\ stage' = [stage EXCEPT ![t] = "done"]
        /\ outcome' = [outcome EXCEPT ![t] = "error"]
        /\ UNCHANGED <<current, made, newVars, reqVars, asked, killed, history, base, started>>
        /\ ended \subseteq ended' /\ (current # 0 => t \in ended')
    BY <1>7 DEF RunFailed, Finish, EmitTerminal, entryVars, orchVars, stopVars, Live
  <2>2. current = owner[t] => current # 0
    BY <1>1 DEF Entries
  <2>3. Moves(t, "done")
    BY <1>1, <2>1, <2>2 DEF Moves, Live
  <2>4. QED
    BY <2>3
<1>8. CASE Begin(t)
  <2>1. Moves(t, "setup")
    BY <1>1, <1>2, <1>8 DEF Moves, Begin, orchVars, newVars, stopVars, reqVars, Live
  <2>2. QED
    BY <2>1
<1>9. CASE SetupFailed(t)
  <2>1. Moves(t, "done")
    BY <1>1, <1>2, <1>9
       DEF Moves, SetupFailed, Finish, EmitTerminal, entryVars, orchVars, newVars, stopVars,
           reqVars, Live
  <2>2. QED
    BY <2>1
<1>10. CASE SetupDone(t)
  <2>1. Moves(t, "loop")
    BY <1>1, <1>2, <1>3, <1>10
       DEF Moves, SetupDone, entryVars, newVars, stopVars, reqVars, Live
  <2>2. QED
    BY <2>1
<1>11. CASE EndLoop(t)
  <2>1. Moves(t, "stopping") \/ Moves(t, "final")
    BY <1>1, <1>2, <1>3, <1>11
       DEF Moves, EndLoop, entryVars, newVars, stopVars, reqVars, Live
  <2>2. QED
    BY <2>1
<1>12. CASE Answer(t)
  <2>1. Moves(t, "done")
    BY <1>1, <1>2, <1>12
       DEF Moves, Answer, Finish, EmitTerminal, entryVars, orchVars, newVars, stopVars,
           reqVars, Live
  <2>2. QED
    BY <2>1
<1>13. CASE Stopped(t)
  <2>1. Moves(t, "done")
    BY <1>1, <1>2, <1>13
       DEF Moves, Stopped, Finish, EmitTerminal, entryVars, newVars, stopVars, reqVars, Live
  <2>2. QED
    BY <2>1
<1>14. CASE Cancelled(t)
  <2>1. /\ UNCHANGED <<current, made, newVars, reqVars, asked, history, base, started>>
        /\ killed' \subseteq killed /\ ended \subseteq ended'
    BY <1>14 DEF Cancelled, EmitTerminal, entryVars, orchVars
  <2>2. CASE stage[t] \in {"boot", "fresh", "cancelling"} /\ Finish(t, "aborted")
    <3>1. Moves(t, "done")
      BY <1>1, <1>2, <2>1, <2>2 DEF Moves, Finish, Live, Outcomes
    <3>2. QED
      BY <3>1
  <2>3. CASE /\ stage[t] \in {"hook", "setup", "loop", "final", "stopping"}
             /\ stage' = [stage EXCEPT ![t] = "cancelling"] /\ UNCHANGED outcome
    <3>1. Moves(t, "cancelling")
      BY <1>1, <1>2, <2>1, <2>3 DEF Moves, Live
    <3>2. QED
      BY <3>1
  <2>4. CASE /\ stage[t] \in {"hook", "setup", "loop", "final", "stopping"}
             /\ ~Reports(t) /\ Finish(t, "cancelled")
    <3>1. current # owner[t]
      BY <1>1, <2>4 DEF Reports, Entries
    <3>2. Moves(t, "done")
      BY <1>1, <1>2, <2>1, <2>4, <3>1 DEF Moves, Finish, Live
    <3>3. QED
      BY <3>2
  <2>5. QED
    BY <1>14, <2>2, <2>3, <2>4 DEF Cancelled
<1>15. CASE CancelReported(t)
  <2>1. Moves(t, "done")
    BY <1>1, <1>2, <1>15
       DEF Moves, CancelReported, Finish, EmitTerminal, entryVars, orchVars, newVars, stopVars,
           reqVars, Live
  <2>2. QED
    BY <2>1
<1>16. QED
  BY <1>4, <1>5, <1>6, <1>7, <1>8, <1>9, <1>10, <1>11, <1>12, <1>13, <1>14, <1>15 DEF TurnStep

\* What request r does leaves the other requests, the entries whose lock somebody
\* else holds and the turns there are alone.
LeavesOthers(r) ==
    /\ \A q \in Requests \ {r} : rpc'[q] = rpc[q] /\ rEntry'[q] = rEntry[q] /\ rTurn'[q] = rTurn[q]
    /\ \A e \in Entries :
           lock[e] \notin {"free", r} => lock'[e] = lock[e] /\ task'[e] = task[e]
    /\ \A t \in Turns : t <= turns => stage'[t] = stage[t]
    /\ asked \subseteq asked'

LEMMA TaskOK ==
    ASSUME TypeOK, Numbered, NEW e \in Entries, task[e] # 0
    PROVE  task[e] \in Turns /\ task[e] <= turns /\ owner[task[e]] = e
<1>1. task[e] \in 0..MaxTurns
  BY DEF TypeOK
<1>2. task[e] \in Turns
  BY <1>1, ConversationAssumption DEF ConversationAssumption, Turns
<1>3. QED
  BY <1>2 DEF Numbered

LEMMA OthersLocked ==
    ASSUME IInv, NEW r \in Requests, LeavesOthers(r), NEW q \in Requests, q # r
    PROVE  Locked(q)'
<1>1. TypeOK /\ Numbered /\ Locked(q)
  BY DEF IInv
<1>2. /\ rpc'[q] = rpc[q] /\ rEntry'[q] = rEntry[q] /\ rTurn'[q] = rTurn[q]
      /\ asked \subseteq asked' /\ rEntry[q] \in Entries
  BY <1>1 DEF LeavesOthers, TypeOK
<1>3. CASE rpc[q] \in Holding
  <2>1. lock[rEntry[q]] = q /\ q # "free"
    BY <1>1, <1>3, ConversationAssumption DEF ConversationAssumption, Locked
  <2>2. lock'[rEntry[q]] = lock[rEntry[q]] /\ task'[rEntry[q]] = task[rEntry[q]]
    BY <1>2, <2>1 DEF LeavesOthers
  <2>3. ~Running(task[rEntry[q]]) => ~Running(task[rEntry[q]])'
    <3>1. task[rEntry[q]] # 0 => task[rEntry[q]] \in Turns /\ task[rEntry[q]] <= turns
      BY <1>1, <1>2, TaskOK
    <3>2. QED
      BY <1>2, <2>2, <3>1 DEF LeavesOthers, Running
  <2>4. QED
    BY <1>1, <1>2, <2>1, <2>2, <2>3 DEF Locked
<1>4. CASE rpc[q] \notin Holding
  BY <1>1, <1>2, <1>4 DEF Locked, Holding
<1>5. QED
  BY <1>3, <1>4

\* A request moves, and starts no turn.
LEMMA RequestMoves ==
    ASSUME IInv, TypeOK', NEW r \in Requests, LeavesOthers(r), Locked(r)',
           UNCHANGED <<current, made, newVars, stage, outcome, base, started, ended, rEntry>>,
           \A t \in Turns : stage[t] \in Live => history'[owner[t]] = history[owner[t]],
           asked \subseteq asked', killed' \subseteq asked'
    PROVE  IInv'
<1>1. /\ TypeOK /\ Numbered /\ Unstarted /\ OneTurn /\ HistoryKept /\ EndAnnounced
  BY DEF IInv
<1>2. \A q \in Requests : Locked(q)'
  BY OthersLocked
<1>3. Numbered'
  BY <1>1 DEF Numbered, newVars
<1>4. Unstarted' /\ EndAnnounced' /\ ForcedWasAsked'
  BY <1>1 DEF Unstarted, EndAnnounced, ForcedWasAsked, newVars
<1>5. OneTurn'
  BY <1>1 DEF OneTurn, newVars
<1>6. HistoryKept'
  <2> SUFFICES ASSUME NEW t \in Turns
               PROVE  /\ stage[t] = "setup" => history'[owner[t]] = base[owner[t]]
                      /\ stage[t] \in {"loop", "final", "stopping"} =>
                             history'[owner[t]] = Append(base[owner[t]], text[t])
    BY DEF HistoryKept, newVars
  <2>1. CASE stage[t] \in Live
    BY <1>1, <2>1 DEF HistoryKept
  <2>2. CASE stage[t] \notin Live
    BY <2>2 DEF Live
  <2>3. QED
    BY <2>1, <2>2
<1>7. QED
  BY <1>2, <1>3, <1>4, <1>5, <1>6 DEF IInv

\* A request that may take the lock, or holds it, starts a turn on an idle entry.
LEMMA RequestStarts ==
    ASSUME IInv, TypeOK', NEW r \in Requests, NEW m, NEW k, StartTurn(r, rEntry[r], m, k),
           ~Running(task[rEntry[r]]), lock[rEntry[r]] \in {"free", r},
           UNCHANGED <<current, made, base, outcome, started, ended, stopVars, rEntry, rTurn>>,
           \A e \in Entries \ {rEntry[r]} : history'[e] = history[e] /\ lock'[e] = lock[e],
           Goes(r, "done")
    PROVE  IInv'
<1> DEFINE e == rEntry[r]
           t == turns + 1
<1>1. /\ TypeOK /\ Numbered /\ Unstarted /\ OneTurn /\ HistoryKept /\ EndAnnounced
      /\ ForcedWasAsked
  BY DEF IInv
<1>2. e \in Entries /\ t \in Turns /\ turns \in Turns /\ turns < t
  BY <1>1, ConversationAssumption DEF ConversationAssumption, TypeOK, StartTurn, Turns
<1>3. /\ turns' = t /\ owner'[t] = e /\ text'[t] = m /\ stage'[t] = "fresh"
      /\ task' = [task EXCEPT ![e] = t] /\ task'[e] = t
      /\ \A u \in Turns \ {t} : owner'[u] = owner[u] /\ text'[u] = text[u] /\ stage'[u] = stage[u]
  BY <1>1, <1>2 DEF StartTurn, TypeOK
<1> HIDE DEF e, t
<1>4. stage[t] = "none"
  BY <1>1, <1>2 DEF Numbered, Turns
<1>5. ASSUME NEW u \in Turns, stage[u] \in Live PROVE owner[u] # e /\ u # t
  BY <1>1, <1>4, <1>5, IdleEntry DEF e, Live
<1>6. \A x \in Entries \ {e} : /\ history'[x] = history[x] /\ lock'[x] = lock[x]
                               /\ task'[x] = task[x]
  BY <1>1, <1>3 DEF e, TypeOK
<1>7. \A q \in Requests : Locked(q)'
  <2>1. rpc'[r] = "done" /\ \A q \in Requests \ {r} : rpc'[q] = rpc[q]
    BY <1>1 DEF Goes, TypeOK
  <2>2. \A u \in Turns : u <= turns => stage'[u] = stage[u]
    BY <1>2, <1>3 DEF Turns
  <2>3. LeavesOthers(r)
    BY <1>6, <2>1, <2>2 DEF LeavesOthers, e, stopVars
  <2>4. Locked(r)'
    BY <2>1 DEF Locked, Holding
  <2>5. QED
    BY <2>3, <2>4, OthersLocked
<1>8. Numbered'
  <2>1. current' \in {0, made'} /\ \A q \in Requests : rEntry'[q] <= made'
    BY <1>1 DEF Numbered
  <2>2. ASSUME NEW u \in Turns PROVE (stage'[u] = "none") = (u > turns') /\ owner'[u] <= made'
    <3>1. CASE u = t
      BY <1>1, <1>2, <1>3, <3>1 DEF Numbered, Turns, e
    <3>2. CASE u # t
      BY <1>1, <1>2, <1>3, <3>2 DEF Numbered, Turns, t
    <3>3. QED
      BY <3>1, <3>2
  <2>3. ASSUME NEW x \in Entries, task'[x] # 0 PROVE task'[x] <= turns' /\ owner'[task'[x]] = x
    <3>1. CASE x = e
      BY <1>2, <1>3, <3>1 DEF Turns
    <3>2. CASE x # e
      <4>1. task'[x] = task[x] /\ task[x] <= turns /\ owner[task[x]] = x
        BY <1>1, <1>6, <2>3, <3>2 DEF Numbered
      <4>2. task[x] \in Turns \ {t}
        BY <1>1, <1>2, <2>3, <4>1, TaskOK DEF Turns
      <4>3. QED
        BY <1>2, <1>3, <4>1, <4>2 DEF Turns
    <3>3. QED
      BY <3>1, <3>2
  <2>4. QED
    BY <2>1, <2>2, <2>3 DEF Numbered
<1>9. t \notin started
  BY <1>1, <1>4 DEF Unstarted
<1>10. Unstarted' /\ EndAnnounced' /\ ForcedWasAsked'
  <2>1. \A u \in started : u \in Turns \ {t}
    BY <1>1, <1>9 DEF TypeOK
  <2>2. QED
    BY <1>1, <1>3, <2>1 DEF Unstarted, EndAnnounced, ForcedWasAsked, stopVars
<1>11. OneTurn'
  <2> SUFFICES ASSUME NEW u \in Turns, stage'[u] \in Live PROVE task'[owner'[u]] = u
    BY DEF OneTurn
  <2>1. CASE u = t
    BY <1>3, <2>1
  <2>2. CASE u # t
    BY <1>1, <1>3, <1>5, <1>6, <2>2 DEF OneTurn, TypeOK
  <2>3. QED
    BY <2>1, <2>2
<1>12. HistoryKept'
  <2> SUFFICES ASSUME NEW u \in Turns,
                      stage'[u] \in {"setup", "loop", "final", "stopping"}
               PROVE  /\ stage'[u] = "setup" => history'[owner'[u]] = base[owner'[u]]
                      /\ stage'[u] # "setup" =>
                             history'[owner'[u]] = Append(base[owner'[u]], text'[u])
    BY DEF HistoryKept
  <2>1. u # t
    BY <1>3
  <2>2. stage[u] \in Live
    BY <1>3, <2>1 DEF Live
  <2>3. owner[u] \in Entries \ {e}
    BY <1>1, <1>5, <2>2 DEF TypeOK
  <2>4. /\ stage'[u] = stage[u] /\ owner'[u] = owner[u] /\ text'[u] = text[u]
        /\ history'[owner[u]] = history[owner[u]]
    BY <1>3, <1>6, <2>1, <2>3
  <2>5. QED
    BY <1>1, <2>4 DEF HistoryKept
<1>13. QED
  BY <1>1, <1>7, <1>8, <1>10, <1>11, <1>12 DEF IInv

LEMMA RebuiltKeeps ==
    ASSUME IInv, TypeOK', NEW r \in Requests, Rebuilt(r)
    PROVE  IInv'
<1>1. /\ TypeOK /\ Numbered /\ Unstarted /\ OneTurn /\ HistoryKept /\ EndAnnounced
      /\ ForcedWasAsked
  BY DEF IInv
<1>2. /\ made' = made + 1 /\ current' = made + 1 /\ made \in Nat
      /\ UNCHANGED <<newVars, turnVars, stopVars, lock, rTurn>>
      /\ history' = [history EXCEPT ![made + 1] = db]
      /\ rEntry' = [rEntry EXCEPT ![r] = made + 1]
  BY <1>1 DEF Rebuilt, TypeOK, Entries
<1>3. rpc'[r] \in {"done", "queued"} /\ \A q \in Requests \ {r} : rpc'[q] = rpc[q]
  BY <1>1 DEF Rebuilt, Goes, TypeOK
<1>4. rEntry'[r] = made + 1 /\ \A q \in Requests \ {r} : rEntry'[q] = rEntry[q]
  BY <1>1, <1>2 DEF TypeOK
<1>5. ASSUME NEW t \in Turns
      PROVE  owner[t] \in Entries /\ owner[t] \in Nat /\ owner[t] < made + 1
  <2>1. owner[t] \in Entries /\ owner[t] <= made
    BY <1>1 DEF Numbered, TypeOK
  <2>2. QED
    BY <1>2, <2>1, ConversationAssumption DEF ConversationAssumption, Entries
<1>6. \A q \in Requests : Locked(q)'
  <2>1. LeavesOthers(r)
    BY <1>2, <1>3, <1>4 DEF LeavesOthers, newVars, turnVars, stopVars
  <2>2. Locked(r)'
    BY <1>3 DEF Locked, Holding
  <2>3. QED
    BY <2>1, <2>2, OthersLocked
<1>7. Numbered'
  <2>1. ASSUME NEW q \in Requests PROVE rEntry'[q] <= made'
    <3>1. rEntry[q] \in Entries /\ rEntry[q] <= made
      BY <1>1 DEF Numbered, TypeOK
    <3>2. QED
      BY <1>2, <1>4, <3>1 DEF Entries
  <2>2. \A t \in Turns : owner[t] <= made'
    BY <1>2, <1>5
  <2>3. QED
    BY <1>1, <1>2, <2>1, <2>2 DEF Numbered, newVars, turnVars
<1>8. Unstarted' /\ ForcedWasAsked' /\ OneTurn'
  BY <1>1, <1>2 DEF Unstarted, ForcedWasAsked, OneTurn, newVars, turnVars, stopVars
<1>9. EndAnnounced'
  <2>1. \A t \in Turns : current' # owner[t]
    BY <1>2, <1>5
  <2>2. QED
    BY <1>1, <1>2, <2>1 DEF EndAnnounced, newVars, turnVars, TypeOK
<1>10. HistoryKept'
  <2>1. \A t \in Turns : history'[owner[t]] = history[owner[t]]
    BY <1>1, <1>2, <1>5 DEF TypeOK
  <2>2. QED
    BY <1>1, <1>2, <2>1 DEF HistoryKept, newVars, turnVars
<1>11. QED
  BY <1>6, <1>7, <1>8, <1>9, <1>10 DEF IInv

LEMMA FindEntryKeeps ==
    ASSUME IInv, TypeOK', NEW r \in Requests, FindEntry(r)
    PROVE  IInv'
<1>1. TypeOK /\ Numbered
  BY DEF IInv
<1>2. CASE Lookup(r)
  <2>1. /\ UNCHANGED <<entryVars, orchVars, newVars, turnVars, stopVars, lock, rTurn>>
        /\ rpc'[r] \in {"queued", "rebuilding", "failed"}
        /\ \A q \in Requests \ {r} : rpc'[q] = rpc[q] /\ rEntry'[q] = rEntry[q]
        /\ rEntry'[r] \in {rEntry[r], made}
    BY <1>1, <1>2, ZenonT(30) DEF Lookup, Goes, Numbered, TypeOK
  <2> made <= made /\ rEntry[r] <= made
    BY <1>1, ConversationAssumption DEF ConversationAssumption, Numbered, TypeOK, Entries
  <2>2. LeavesOthers(r) /\ Locked(r)'
    BY <2>1 DEF LeavesOthers, Locked, Holding, newVars, turnVars, stopVars
  <2>3. \A q \in Requests : Locked(q)'
    BY <2>2, OthersLocked
  <2>4. Numbered'
    BY <1>1, <2>1 DEF Numbered, entryVars, newVars, turnVars
  <2>5. Unstarted' /\ EndAnnounced' /\ ForcedWasAsked' /\ OneTurn' /\ HistoryKept'
    BY <2>1 DEF IInv, Unstarted, EndAnnounced, ForcedWasAsked, OneTurn, HistoryKept,
                entryVars, orchVars, newVars, turnVars, stopVars
  <2>6. QED
    BY <2>3, <2>4, <2>5 DEF IInv
<1>3. CASE Rebuilt(r)
  BY <1>3, RebuiltKeeps
<1>4. CASE RebuildFailed(r)
  <2>1. LeavesOthers(r) /\ Locked(r)'
    BY <1>1, <1>4 DEF RebuildFailed, LeavesOthers, Locked, Holding, Goes, TypeOK, newVars, turnVars, stopVars
  <2>2. QED
    BY <1>4, <2>1, RequestMoves
       DEF RebuildFailed, IInv, ForcedWasAsked, entryVars, orchVars, turnVars, stopVars
<1>5. QED
  BY <1>2, <1>3, <1>4 DEF FindEntry

\* What a request does to itself only.
LEMMA GoesOthers ==
    ASSUME TypeOK, NEW r \in Requests, NEW to, Goes(r, to)
    PROVE  rpc'[r] = to /\ \A q \in Requests \ {r} : rpc'[q] = rpc[q]
BY DEF TypeOK, Goes

\* ... to the lock of its entry, when it may take it or holds it ...
LEMMA LockOthers ==
    ASSUME TypeOK, NEW r \in Requests, NEW x, lock' = [lock EXCEPT ![rEntry[r]] = x]
    PROVE  \A e \in Entries \ {rEntry[r]} : lock'[e] = lock[e]
BY DEF TypeOK

\* ... and to the turn it names.
LEMMA NameOthers ==
    ASSUME TypeOK, NEW r \in Requests, NEW t, rTurn' = [rTurn EXCEPT ![r] = t]
    PROVE  rTurn'[r] = t /\ \A q \in Requests \ {r} : rTurn'[q] = rTurn[q]
BY DEF TypeOK

\* Replacing the orchestrator or taking a message back touches one entry only.
LEMMA ReplaceOthers ==
    ASSUME TypeOK, NEW e \in Entries, Replace(e)
    PROVE  \A x \in Entries \ {e} : history'[x] = history[x]
BY DEF TypeOK, Replace

\* A request that builds its turn holds the lock of an idle entry.
LEMMA BuildingIdle ==
    ASSUME IInv, NEW r \in Requests, rpc[r] \in {"building", "switching"}
    PROVE  lock[rEntry[r]] = r /\ ~Running(task[rEntry[r]])
BY DEF IInv, Locked, Holding

LEMMA SendKeeps ==
    ASSUME IInv, TypeOK', NEW r \in Senders, SendStep(r)
    PROVE  IInv'
<1>1. /\ TypeOK /\ OneTurn /\ killed \subseteq asked
      /\ r \in Requests /\ rEntry[r] \in Entries
  BY SenderOK DEF IInv, ForcedWasAsked, TypeOK
<1>2. CASE SendDuplicate(r)
  <2>1. LeavesOthers(r) /\ Locked(r)'
    BY <1>1, <1>2, GoesOthers
       DEF SendDuplicate, LeavesOthers, Locked, Holding, newVars, turnVars, stopVars
  <2>2. QED
    BY <1>1, <1>2, <2>1, RequestMoves DEF SendDuplicate, entryVars, orchVars, turnVars, stopVars
<1>3. CASE SendWaits(r)
  <2>1. LeavesOthers(r) /\ Locked(r)'
    BY <1>1, <1>3, GoesOthers, NameOthers
       DEF SendWaits, LeavesOthers, Locked, Holding, newVars, turnVars, stopVars
  <2>2. QED
    BY <1>1, <1>3, <2>1, RequestMoves DEF SendWaits, entryVars, orchVars, turnVars, stopVars
<1>4. CASE SendWaited(r)
  <2>1. LeavesOthers(r) /\ Locked(r)'
    BY <1>1, <1>4, GoesOthers
       DEF SendWaited, AfterWait, LeavesOthers, Locked, Holding, newVars, turnVars, stopVars
  <2>2. QED
    BY <1>1, <1>4, <2>1, RequestMoves DEF SendWaited, entryVars, orchVars, turnVars, stopVars
<1>5. CASE SendStarts(r)
  <2>1. /\ StartTurn(r, rEntry[r], r, Key[r]) /\ Goes(r, "done")
        /\ lock[rEntry[r]] = "free" /\ ~Running(task[rEntry[r]])
        /\ UNCHANGED <<entryVars, orchVars, base, outcome, started, ended, stopVars, lock,
                       rEntry, rTurn>>
    BY <1>5 DEF SendStarts, Acquirable
  <2>2. QED
    BY <1>1, <2>1, RequestStarts DEF entryVars, orchVars
<1>6. CASE SendBuilds(r)
  <2>1. lock[rEntry[r]] = "free" /\ ~Running(task[rEntry[r]])
    BY <1>6 DEF SendBuilds, Acquirable
  <2>2. /\ rpc'[r] = "building" /\ \A q \in Requests \ {r} : rpc'[q] = rpc[q]
        /\ \A e \in Entries \ {rEntry[r]} : lock'[e] = lock[e]
        /\ lock'[rEntry[r]] = r
        /\ UNCHANGED <<entryVars, orchVars, newVars, turnVars, stopVars, rEntry, rTurn>>
    BY <1>1, <1>6, GoesOthers, LockOthers DEF SendBuilds, TypeOK
  <2>3. LeavesOthers(r)
    BY <2>1, <2>2 DEF LeavesOthers, newVars, turnVars, stopVars
  <2>4. ~Running(task[rEntry[r]])'
    BY <2>1, <2>2 DEF Running, newVars, turnVars
  <2>5. Locked(r)'
    BY <2>2, <2>4 DEF Locked
  <2>6. QED
    BY <1>1, <2>2, <2>3, <2>5, RequestMoves DEF entryVars, orchVars, turnVars, stopVars
<1>7. CASE SendSwitches(r)
  <2>1. lock[rEntry[r]] = r /\ ~Running(task[rEntry[r]])
    BY <1>1, <1>7, BuildingIdle DEF SendSwitches
  <2>2. /\ rpc'[r] = "switching" /\ \A q \in Requests \ {r} : rpc'[q] = rpc[q]
        /\ UNCHANGED <<entryVars, orchVars, newVars, turnVars, stopVars, lock, rEntry, rTurn>>
    BY <1>1, <1>7, GoesOthers DEF SendSwitches
  <2>3. LeavesOthers(r)
    BY <2>2 DEF LeavesOthers, newVars, turnVars, stopVars
  <2>4. ~Running(task[rEntry[r]])'
    BY <2>1, <2>2 DEF Running, newVars, turnVars
  <2>5. Locked(r)'
    BY <2>1, <2>2, <2>4 DEF Locked
  <2>6. QED
    BY <1>1, <2>2, <2>3, <2>5, RequestMoves DEF entryVars, orchVars, turnVars, stopVars
<1>8. CASE SendBuilt(r)
  <2>1. lock[rEntry[r]] = r /\ ~Running(task[rEntry[r]])
    BY <1>1, <1>8, BuildingIdle DEF SendBuilt
  <2>2. /\ StartTurn(r, rEntry[r], r, Key[r]) /\ Goes(r, "done") /\ Unlocks(r)
        /\ Replace(rEntry[r]) \/ UNCHANGED history
        /\ UNCHANGED <<current, made, base, outcome, started, ended, stopVars, rEntry, rTurn>>
    BY <1>8 DEF SendBuilt, orchVars
  <2>3. \A e \in Entries \ {rEntry[r]} : history'[e] = history[e] /\ lock'[e] = lock[e]
    BY <1>1, <2>2, ReplaceOthers, LockOthers DEF Unlocks
  <2>4. QED
    BY <1>1, <2>1, <2>2, <2>3, RequestStarts
<1>9. CASE SendBuildFailed(r)
  <2>1. lock[rEntry[r]] = r /\ ~Running(task[rEntry[r]])
    BY <1>1, <1>9, BuildingIdle DEF SendBuildFailed
  <2>2. /\ Goes(r, "failed") /\ Unlocks(r)
        /\ Replace(rEntry[r]) \/ UNCHANGED history
        /\ UNCHANGED <<current, made, newVars, turnVars, stopVars, rEntry, rTurn>>
    BY <1>9 DEF SendBuildFailed, orchVars
  <2>3. \A e \in Entries \ {rEntry[r]} : history'[e] = history[e] /\ lock'[e] = lock[e]
    BY <1>1, <2>2, ReplaceOthers, LockOthers DEF Unlocks
  <2>4. rpc'[r] = "failed" /\ \A q \in Requests \ {r} : rpc'[q] = rpc[q]
    BY <1>1, <2>2, GoesOthers
  <2>5. LeavesOthers(r) /\ Locked(r)'
    BY <2>1, <2>2, <2>3, <2>4
       DEF LeavesOthers, Locked, Holding, newVars, turnVars, stopVars
  <2>6. \A t \in Turns : stage[t] \in Live => history'[owner[t]] = history[owner[t]]
    BY <1>1, <2>1, <2>3, IdleEntry DEF TypeOK
  <2>7. QED
    BY <1>1, <2>2, <2>5, <2>6, RequestMoves DEF turnVars, stopVars
<1>10. QED
  BY <1>2, <1>3, <1>4, <1>5, <1>6, <1>7, <1>8, <1>9 DEF SendStep

LEMMA CancelKeeps ==
    ASSUME IInv, TypeOK', NEW r \in Cancellers, CancelStep(r)
    PROVE  IInv'
<1>1. /\ TypeOK /\ killed \subseteq asked
      /\ r \in Requests /\ rEntry[r] \in Entries
  BY DEF IInv, ForcedWasAsked, TypeOK, Requests
<1>2. CASE CancelLocked(r)
  <2>1. /\ UNCHANGED <<entryVars, history, newVars, turnVars, killed, lock, rEntry>>
        /\ asked \subseteq asked'
        /\ \A q \in Requests \ {r} : rTurn'[q] = rTurn[q]
        /\ \E to \in {"done", "forcing"} :
               Goes(r, to) /\ (to = "forcing" => rTurn'[r] \in asked')
    BY <1>1, <1>2, NameOthers DEF CancelLocked, SignalCancel
  <2>2. /\ rpc'[r] \in {"done", "forcing"} /\ \A q \in Requests \ {r} : rpc'[q] = rpc[q]
        /\ rpc'[r] = "forcing" => rTurn'[r] \in asked'
    BY <1>1, <2>1, GoesOthers
  <2>3. LeavesOthers(r) /\ Locked(r)'
    BY <2>1, <2>2 DEF LeavesOthers, Locked, Holding, newVars, turnVars
  <2>4. QED
    BY <1>1, <2>1, <2>3, RequestMoves DEF entryVars, turnVars
<1>3. CASE ForceTurn(r)
  <2>1. rTurn[r] \in asked
    BY <1>1, <1>3 DEF ForceTurn, IInv, Locked
  <2>2. /\ UNCHANGED <<entryVars, orchVars, newVars, turnVars, asked, lock, rEntry, rTurn>>
        /\ killed' = killed \cup {rTurn[r]}
        /\ rpc'[r] = "done" /\ \A q \in Requests \ {r} : rpc'[q] = rpc[q]
    BY <1>1, <1>3, GoesOthers DEF ForceTurn, Forced
  <2>3. LeavesOthers(r) /\ Locked(r)'
    BY <2>2 DEF LeavesOthers, Locked, Holding, newVars, turnVars
  <2>4. QED
    BY <1>1, <2>1, <2>2, <2>3, RequestMoves DEF entryVars, orchVars, turnVars
<1>4. CASE ForceSpared(r)
  <2>1. LeavesOthers(r) /\ Locked(r)'
    BY <1>1, <1>4, GoesOthers
       DEF ForceSpared, LeavesOthers, Locked, Holding, newVars, turnVars, stopVars
  <2>2. QED
    BY <1>1, <1>4, <2>1, RequestMoves DEF ForceSpared, entryVars, orchVars, turnVars, stopVars
<1>5. QED
  BY <1>2, <1>3, <1>4 DEF CancelStep

\* A rerun on an idle entry whose lock is free or the request's own.
LEMMA RerunKeeps ==
    ASSUME IInv, TypeOK', NEW r \in Requests, Rerun(r),
           ~Running(task[rEntry[r]]), lock[rEntry[r]] \in {"free", r},
           UNCHANGED <<entryVars, base, outcome, started, ended, stopVars, rEntry, rTurn>>,
           \A e \in Entries \ {rEntry[r]} : lock'[e] = lock[e]
    PROVE  IInv'
<1>1. TypeOK /\ killed \subseteq asked /\ rEntry[r] \in Entries
  BY DEF IInv, ForcedWasAsked, TypeOK
<1>2. CASE \E m, k : StartTurn(r, rEntry[r], m, k) /\ Goes(r, "done")
  <2>1. PICK m, k : StartTurn(r, rEntry[r], m, k) /\ Goes(r, "done")
    BY <1>2
  <2>2. \A e \in Entries \ {rEntry[r]} : history'[e] = history[e]
    BY <1>1 DEF Rerun, TypeOK, orchVars
  <2>3. QED
    BY <1>1, <2>1, <2>2, RequestStarts DEF entryVars
<1>3. CASE Goes(r, "failed") /\ UNCHANGED <<orchVars, newVars, stage, rNew>>
  <2>1. rpc'[r] = "failed" /\ \A q \in Requests \ {r} : rpc'[q] = rpc[q]
    BY <1>1, <1>3, GoesOthers
  <2>2. LeavesOthers(r) /\ Locked(r)'
    BY <1>3, <2>1 DEF LeavesOthers, Locked, Holding, newVars, stopVars
  <2>3. QED
    BY <1>1, <1>3, <2>2, RequestMoves DEF entryVars, orchVars, stopVars
<1>4. QED
  BY <1>2, <1>3 DEF Rerun

LEMMA RetryKeeps ==
    ASSUME IInv, TypeOK', NEW r \in Retriers, RetryStep(r)
    PROVE  IInv'
<1>1. /\ TypeOK /\ killed \subseteq asked
      /\ r \in Requests /\ rEntry[r] \in Entries /\ Locked(r)
  BY DEF IInv, ForcedWasAsked, TypeOK, Requests
<1>2. CASE RetryIdle(r)
  BY <1>1, <1>2, RerunKeeps DEF RetryIdle, Acquirable
<1>3. CASE RetryStops(r)
  <2>1. /\ lock[rEntry[r]] = "free" /\ lock' = [lock EXCEPT ![rEntry[r]] = r]
        /\ rTurn' = [rTurn EXCEPT ![r] = task[rEntry[r]]]
        /\ asked' = asked \cup {task[rEntry[r]]}
        /\ Goes(r, IF ready[rEntry[r]] THEN "stopping" ELSE "refusing")
        /\ UNCHANGED <<entryVars, history, newVars, turnVars, killed, rEntry>>
    BY <1>3 DEF RetryStops, Acquirable, SignalCancel
  <2>2. /\ rpc'[r] \in {"stopping", "refusing"}
        /\ \A q \in Requests \ {r} : rpc'[q] = rpc[q]
    BY <1>1, <2>1, GoesOthers
  <2>3. /\ rTurn'[r] = task[rEntry[r]] /\ rTurn'[r] \in asked'
        /\ \A q \in Requests \ {r} : rTurn'[q] = rTurn[q]
    BY <1>1, <2>1 DEF TypeOK
  <2>4. /\ lock'[rEntry[r]] = r
        /\ \A e \in Entries \ {rEntry[r]} : lock'[e] = lock[e]
    BY <1>1, <2>1 DEF TypeOK
  <2>5. LeavesOthers(r)
    BY <2>1, <2>2, <2>3, <2>4 DEF LeavesOthers, newVars, turnVars
  <2>6. Locked(r)'
    BY <2>1, <2>2, <2>3, <2>4 DEF Locked, newVars
  <2>7. QED
    BY <1>1, <2>1, <2>5, <2>6, RequestMoves DEF entryVars, turnVars
<1>4. CASE RetryForces(r)
  <2>1. /\ rTurn[r] \in asked /\ lock[rEntry[r]] = r /\ rTurn[r] = task[rEntry[r]]
        /\ killed' = killed \cup {rTurn[r]}
    BY <1>1, <1>4 DEF RetryForces, Locked, Holding
  <2>2. /\ rpc'[r] \in {"forced", "refusingForced"}
        /\ \A q \in Requests \ {r} : rpc'[q] = rpc[q]
        /\ UNCHANGED <<entryVars, orchVars, newVars, turnVars, asked, lock, rEntry, rTurn>>
    BY <1>1, <1>4, GoesOthers DEF RetryForces
  <2>3. LeavesOthers(r) /\ Locked(r)'
    BY <2>1, <2>2 DEF LeavesOthers, Locked, newVars, turnVars
  <2>4. QED
    BY <1>1, <2>1, <2>2, <2>3, RequestMoves DEF entryVars, orchVars, turnVars
<1>5. CASE RetryReruns(r)
  <2>1. lock[rEntry[r]] = r /\ ~Running(task[rEntry[r]])
    BY <1>1, <1>5 DEF RetryReruns, Locked, Holding
  <2>2. \A e \in Entries \ {rEntry[r]} : lock'[e] = lock[e]
    BY <1>1, <1>5, LockOthers DEF RetryReruns, Unlocks
  <2>3. QED
    BY <1>1, <1>5, <2>1, <2>2, RerunKeeps DEF RetryReruns
<1>6. CASE RetryRefused(r)
  <2>1. lock[rEntry[r]] = r
    BY <1>1, <1>6 DEF RetryRefused, Locked, Holding
  <2>2. /\ rpc'[r] = "failed" /\ \A q \in Requests \ {r} : rpc'[q] = rpc[q]
        /\ \A e \in Entries \ {rEntry[r]} : lock'[e] = lock[e]
        /\ UNCHANGED <<entryVars, orchVars, newVars, turnVars, stopVars, rEntry, rTurn>>
    BY <1>1, <1>6, GoesOthers, LockOthers DEF RetryRefused, Unlocks
  <2>3. LeavesOthers(r) /\ Locked(r)'
    BY <2>1, <2>2 DEF LeavesOthers, Locked, Holding, newVars, turnVars, stopVars
  <2>4. QED
    BY <1>1, <2>2, <2>3, RequestMoves DEF entryVars, orchVars, turnVars, stopVars
<1>7. QED
  BY <1>2, <1>3, <1>4, <1>5, <1>6 DEF RetryStep

\* The entry goes and its turn is cancelled: the requests keep what they had.
LEMMA EvictKeeps ==
    ASSUME IInv, TypeOK', Evict,
           UNCHANGED <<made, history, newVars, turnVars, reqVars>>
    PROVE  IInv'
<1>1. /\ TypeOK /\ Numbered /\ Unstarted /\ OneTurn /\ HistoryKept /\ ForcedWasAsked
      /\ \A r \in Requests : Locked(r)
  BY DEF IInv
<1>2. current' = 0 /\ asked \subseteq asked'
  BY DEF Evict, stopVars
<1>3. \A r \in Requests : Locked(r)'
  BY <1>1, <1>2 DEF Locked, Running, newVars, turnVars, reqVars
<1>4. ForcedWasAsked'
  BY <1>1 DEF Evict, ForcedWasAsked, stopVars
<1>5. EndAnnounced'
  <2>1. \A t \in started : owner[t] # 0
    BY <1>1 DEF TypeOK, Entries
  <2>2. QED
    BY <1>2, <2>1 DEF EndAnnounced, newVars, turnVars
<1>6. Numbered' /\ Unstarted' /\ OneTurn' /\ HistoryKept'
  BY <1>1, <1>2 DEF Numbered, Unstarted, OneTurn, HistoryKept, newVars, turnVars, reqVars
<1>7. QED
  BY <1>3, <1>4, <1>5, <1>6 DEF IInv

LEMMA QuietKeeps ==
    ASSUME IInv, TypeOK',
           UNCHANGED <<current, made, history, newVars, turnVars, stopVars, reqVars>>
    PROVE  IInv'
<1>1. /\ TypeOK /\ Numbered /\ Unstarted /\ OneTurn /\ HistoryKept /\ ForcedWasAsked
      /\ EndAnnounced /\ \A r \in Requests : Locked(r)
  BY DEF IInv
<1>2. \A r \in Requests : Locked(r)'
  BY <1>1 DEF Locked, Running, newVars, turnVars, stopVars, reqVars
<1>3. Numbered' /\ Unstarted' /\ OneTurn' /\ HistoryKept'
  BY <1>1 DEF Numbered, Unstarted, OneTurn, HistoryKept, newVars, turnVars, reqVars
<1>4. ForcedWasAsked' /\ EndAnnounced'
  BY <1>1 DEF ForcedWasAsked, EndAnnounced, newVars, turnVars, stopVars
<1>5. QED
  BY <1>2, <1>3, <1>4 DEF IInv

LEMMA NextInv == IInv /\ [Next]_vars => IInv'
<1> SUFFICES ASSUME IInv, [Next]_vars PROVE IInv'
  OBVIOUS
<1>1. TypeOK'
  BY TypeNext DEF IInv
<1>2. ASSUME NEW t \in Turns, TurnStep(t) PROVE IInv'
  <2>1. PICK s : Moves(t, s)
    BY <1>2, TurnMoves
  <2>2. QED
    BY <1>1, <2>1, Moved
<1>3. ASSUME NEW r \in Requests, FindEntry(r) PROVE IInv'
  BY <1>1, <1>3, FindEntryKeeps
<1>4. ASSUME NEW r \in Senders, SendStep(r) PROVE IInv'
  BY <1>1, <1>4, SendKeeps
<1>5. ASSUME NEW r \in Cancellers, CancelStep(r) PROVE IInv'
  BY <1>1, <1>5, CancelKeeps
<1>6. ASSUME NEW r \in Retriers, RetryStep(r) PROVE IInv'
  BY <1>1, <1>6, RetryKeeps
<1>7. CASE ReaperJudges
  BY <1>1, <1>7, QuietKeeps DEF ReaperJudges, orchVars
<1>8. CASE ReaperEvicts \/ Delete
  BY <1>1, <1>8, EvictKeeps DEF ReaperEvicts, Delete, orchVars
<1>9. CASE UNCHANGED vars
  BY <1>1, <1>9, QuietKeeps DEF vars, entryVars, orchVars
<1>10. QED
  BY <1>2, <1>3, <1>4, <1>5, <1>6, <1>7, <1>8, <1>9 DEF Next, EvictStep

-----------------------------------------------------------------------------
(* The theorems                                                            *)

\* The invariant holds in every behaviour of the turns, the requests, the
\* reaper and the deletion, however many of them there are.
THEOREM Invariant == Spec => []IInv
<1>1. QED
  BY InitInv, NextInv, PTL DEF Spec

\* Types, among them the limit of the idempotency cache: it never holds more
\* than _IDEMPOTENCY_CACHE_MAX answers.
THEOREM TypeCorrect == Spec => []TypeOK
<1>1. IInv => TypeOK
  BY DEF IInv
<1>2. QED
  BY <1>1, Invariant, PTL

\* entry.lock and the looks at turn_task.done() keep two turns of one entry
\* from running at once, also across the awaits of a send that builds another
\* orchestrator and of a retry that waits for the turn it stops.
THEOREM OneTurnAtATime == Spec => []OneTurn
<1>1. IInv => OneTurn
  BY DEF IInv
<1>2. QED
  BY <1>1, Invariant, PTL

\* The history a turn began with stays under it until it ends: neither
\* rollback_last_user_message nor a new orchestrator comes in between.
THEOREM HistoryIsKept == Spec => []HistoryKept
<1>1. IInv => HistoryKept
  BY DEF IInv
<1>2. QED
  BY <1>1, Invariant, PTL

\* task.cancel() falls only on a turn that a cancel, a retry or an eviction
\* found running, never on one that was started since.
THEOREM ForcedOnlyWhenAsked == Spec => []ForcedWasAsked
<1>1. IInv => ForcedWasAsked
  BY DEF IInv
<1>2. QED
  BY <1>1, Invariant, PTL

\* A client that saw TURN_START sees an end of the turn, unless the turn was
\* cancelled twice or its entry left the memory.
THEOREM EndIsAnnounced == Spec => []EndAnnounced
<1>1. IInv => EndAnnounced
  BY DEF IInv
<1>2. QED
  BY <1>1, Invariant, PTL

-----------------------------------------------------------------------------
(* Idempotency                                                             *)

\* The turns from t to u that had a key of their own.
Between(t, u) == {v \in t..u : key[v] \notin {NoKey, key[t]}}

\* A key is in the cache, and what came after it there are keys of turns in between; or it
\* has been forgotten, and there were too many.
Followed(t) ==
    \E p \in DOMAIN cache[1] :
        /\ cache[1][p] = key[t]
        /\ \A j \in p + 1..Len(cache[1]) : \E v \in Between(t, turns) : key[v] = cache[1][j]
Forgotten(t) == Cardinality(Between(t, turns)) >= CacheLimit

Answering == {"hook", "setup", "loop", "final", "stopping"}

\* As long as the first entry stays in memory it has all turns, one after the other.
OnceInv ==
    current = 1 =>
        /\ task[1] = turns
        /\ stage[turns] \in Answering => key[turns] \notin Remembered(cache[1])
        /\ NoKey \notin Remembered(cache[1])
        /\ \A i, j \in DOMAIN cache[1] : cache[1][i] = cache[1][j] => i = j
        /\ \A t \in Turns : outcome[t] # "none" => t <= turns
        /\ \A t \in Turns : outcome[t] = "answered" /\ key[t] # NoKey => Followed(t) \/ Forgotten(t)

LEMMA OnceInit == Init => OnceInv
<1> SUFFICES ASSUME Init, current = 1 PROVE OnceInv
  BY DEF OnceInv
<1>1. 1 \in Entries /\ 1 \in Turns
  BY ConversationAssumption DEF ConversationAssumption, Entries, Turns
<1>2. /\ turns = 1 /\ task[1] = 1 /\ cache[1] = <<>> /\ stage[turns] = "boot"
      /\ \A t \in Turns : outcome[t] = "none"
  BY <1>1 DEF Init
<1>3. Remembered(cache[1]) = {} /\ DOMAIN cache[1] = {}
  BY <1>2 DEF Remembered
<1> QED
  BY <1>2, <1>3 DEF OnceInv, Answering

\* While the first entry is in memory it is the only one.
LEMMA OneEntry ==
    ASSUME IInv, OnceInv, current = 1
    PROVE  /\ made = 1 /\ 1 \in Entries /\ turns \in Turns
           /\ cache[1] \in Seq(Keys) /\ Len(cache[1]) <= CacheLimit
           /\ \A t \in Turns : owner[t] = 1
           /\ \A r \in Requests : rEntry[r] = 1
           /\ \A t \in Turns : stage[t] \in Live => t = turns
<1>1. made = 1 /\ 1 \in Entries /\ turns \in Turns
  BY ConversationAssumption DEF ConversationAssumption, IInv, Numbered, TypeOK, Entries
<1>2. cache[1] \in Seq(Keys) /\ Len(cache[1]) <= CacheLimit
  BY <1>1 DEF IInv, TypeOK, Keys
<1>3. \A t \in Turns : owner[t] = 1
  BY <1>1, ConversationAssumption DEF ConversationAssumption, IInv, Numbered, TypeOK, Entries
<1>4. \A r \in Requests : rEntry[r] = 1
  BY SMTT(30), <1>1, ConversationAssumption DEF ConversationAssumption, IInv, Numbered, TypeOK, Entries
<1>5. \A t \in Turns : stage[t] \in Live => t = turns
  BY <1>3 DEF IInv, OneTurn, OnceInv
<1> QED
  BY <1>1, <1>2, <1>3, <1>4, <1>5

LEMMA BetweenFinite ==
    ASSUME TypeOK, NEW t \in Turns
    PROVE  IsFiniteSet(Between(t, turns)) /\ Cardinality(Between(t, turns)) \in Nat
<1>1. turns \in Int /\ t \in Int
  BY ConversationAssumption DEF ConversationAssumption, TypeOK, Turns
<1>2. IsFiniteSet(t..turns)
  BY <1>1, FS_Interval
<1>3. Between(t, turns) \in SUBSET (t..turns)
  BY DEF Between
<1> QED
  BY <1>2, <1>3, FS_Subset, FS_CardinalityType

\* A step that leaves cache, turns and keys alone and in which no turn answers.
LEMMA OnceQuiet ==
    ASSUME IInv, OnceInv, current' = 1 => current = 1, UNCHANGED <<cache, newVars>>,
           \A t \in Turns : outcome'[t] = "answered" => outcome[t] = "answered",
           \A t \in Turns : outcome'[t] # "none" => outcome[t] # "none" \/ stage[t] \in Live,
           \A t \in Turns : stage'[t] \in Answering =>
               \/ stage[t] \in Answering
               \/ stage[t] \in Live /\ (current = 1 => ~Answered(1, key[t]))
    PROVE  OnceInv'
<1> SUFFICES ASSUME current' = 1 PROVE OnceInv'
  BY DEF OnceInv
<1>1. current = 1 /\ turns' = turns /\ key' = key /\ task' = task /\ cache' = cache
  BY DEF newVars
<1>2. turns \in Turns /\ \A t \in Turns : stage[t] \in Live => t = turns
  BY <1>1, OneEntry
<1>3. /\ task[1] = turns
      /\ stage[turns] \in Answering => key[turns] \notin Remembered(cache[1])
      /\ NoKey \notin Remembered(cache[1])
      /\ \A i, j \in DOMAIN cache[1] : cache[1][i] = cache[1][j] => i = j
      /\ \A t \in Turns : outcome[t] # "none" => t <= turns
      /\ \A t \in Turns : outcome[t] = "answered" /\ key[t] # NoKey => Followed(t) \/ Forgotten(t)
  BY <1>1 DEF OnceInv
<1>4. stage'[turns] \in Answering => key[turns] \notin Remembered(cache[1])
  BY <1>1, <1>2, <1>3 DEF Answered
<1>5. \A t \in Turns : outcome'[t] # "none" => t <= turns
  BY <1>2, <1>3 DEF Turns
<1>6. \A t \in Turns : Between(t, turns)' = Between(t, turns)
  BY <1>1 DEF Between
<1>7. \A t \in Turns : (Followed(t)' <=> Followed(t)) /\ (Forgotten(t)' <=> Forgotten(t))
  BY <1>1, <1>6 DEF Followed, Forgotten
<1>8. \A t \in Turns : outcome'[t] = "answered" /\ key'[t] # NoKey => Followed(t)' \/ Forgotten(t)'
  BY <1>1, <1>3, <1>7
<1> QED
  BY <1>1, <1>3, <1>4, <1>5, <1>8 DEF OnceInv

\* So many keys, each of a turn, are the keys of so many turns.
LEMMA DistinctKeys ==
    ASSUME NEW B, IsFiniteSet(B), NEW n \in Nat, NEW c,
           \A j \in 1..n : \E v \in B : key[v] = c[j],
           \A i, j \in 1..n : c[i] = c[j] => i = j
    PROVE  Cardinality(B) >= n
<1> DEFINE f == [j \in 1..n |-> CHOOSE v \in B : key[v] = c[j]]
<1>1. \A j \in 1..n : f[j] \in B /\ key[f[j]] = c[j]
  OBVIOUS
<1>2. f \in [1..n -> B]
  BY <1>1
<1>3. \A i, j \in 1..n : f[i] = f[j] => i = j
  BY <1>1
<1> HIDE DEF f
<1>4. f \in Injection(1..n, B)
  BY <1>2, <1>3 DEF Injection, IsInjective
<1>5. Cardinality(1..n) <= Cardinality(B)
  BY <1>4, FS_Injection
<1>6. Cardinality(1..n) = n
  BY FS_Interval
<1>7. Cardinality(B) \in Nat
  BY FS_CardinalityType
<1> QED
  BY <1>5, <1>6, <1>7

Kept(c) == IF Len(c) >= CacheLimit THEN Tail(c) ELSE c

LEMMA NeitherLess == \A a, b \in Nat : a <= b /\ a >= b => a = b
OBVIOUS

LEMMA KeptOfCache ==
    ASSUME NEW c \in Seq(Keys), Len(c) <= CacheLimit
    PROVE  /\ Kept(c) \in Seq(Keys) /\ Len(Kept(c)) \in Nat /\ DOMAIN Kept(c) = 1..Len(Kept(c))
           /\ \/ Len(Kept(c)) = Len(c) /\ \A i \in 1..Len(c) : Kept(c)[i] = c[i]
              \/ Len(c) = CacheLimit /\ Len(Kept(c)) = Len(c) - 1 /\ \A i \in 1..Len(c) - 1 : Kept(c)[i] = c[i + 1]
           /\ \A i \in 1..Len(Kept(c)) : Kept(c)[i] \in Remembered(c)
<1>1. CacheLimit \in Nat /\ CacheLimit # 0 /\ Len(c) \in Nat /\ DOMAIN c = 1..Len(c)
  BY ConversationAssumption DEF ConversationAssumption
<1>2. /\ Kept(c) \in Seq(Keys)
      /\ \/ Len(Kept(c)) = Len(c) /\ \A i \in 1..Len(c) : Kept(c)[i] = c[i]
         \/ Len(c) = CacheLimit /\ Len(Kept(c)) = Len(c) - 1 /\ \A i \in 1..Len(c) - 1 : Kept(c)[i] = c[i + 1]
  <2>1. CASE Len(c) >= CacheLimit
    <3>0. Len(c) = CacheLimit /\ Kept(c) = Tail(c)
      <4>1. Len(c) = CacheLimit
        BY <1>1, <2>1, NeitherLess, Zenon
      <4>2. Kept(c) = Tail(c)
        BY <2>1 DEF Kept
      <4> QED
        BY <4>1, <4>2
    <3>1. c # <<>>
      BY <1>1, <3>0
    <3>2. /\ Tail(c) \in Seq(Keys) /\ Len(Tail(c)) = Len(c) - 1
          /\ \A i \in 1..Len(c) - 1 : Tail(c)[i] = c[i + 1]
      BY <3>1
    <3> QED
      BY <3>0, <3>2
  <2>2. CASE ~(Len(c) >= CacheLimit)
    BY <2>2 DEF Kept
  <2> QED
    BY <2>1, <2>2
<1>3. Len(Kept(c)) \in Nat /\ DOMAIN Kept(c) = 1..Len(Kept(c))
  BY <1>2
<1>4. ASSUME NEW i \in 1..Len(Kept(c)) PROVE \E j \in DOMAIN c : Kept(c)[i] = c[j]
  <2>1. CASE Len(Kept(c)) = Len(c) /\ \A n \in 1..Len(c) : Kept(c)[n] = c[n]
    BY <1>1, <2>1
  <2>2. CASE Len(c) = CacheLimit /\ Len(Kept(c)) = Len(c) - 1 /\ \A n \in 1..Len(c) - 1 : Kept(c)[n] = c[n + 1]
    BY SMTT(30), <1>1, <2>2
  <2> QED
    BY <1>2, <2>1, <2>2
<1>5. \A i \in 1..Len(Kept(c)) : Kept(c)[i] \in Remembered(c)
  BY <1>4 DEF Remembered
<1> QED
  BY <1>2, <1>3, <1>5

LEMMA RememberNew ==
    ASSUME NEW c \in Seq(Keys), Len(c) <= CacheLimit, NEW k \in Keys, k \notin Remembered(c),
           \A i, j \in DOMAIN c : c[i] = c[j] => i = j
    PROVE  LET d == Remember(c, k) IN
           /\ d \in Seq(Keys) /\ Len(d) \in Nat \ {0} /\ d[Len(d)] = k
           /\ \/ Len(d) = Len(c) + 1 /\ \A i \in 1..Len(c) : d[i] = c[i]
              \/ Len(c) = CacheLimit /\ Len(d) = Len(c) /\ \A i \in 1..Len(c) - 1 : d[i] = c[i + 1]
           /\ Remembered(d) \subseteq Remembered(c) \cup {k}
           /\ \A i, j \in DOMAIN d : d[i] = d[j] => i = j
<1>1. CacheLimit \in Nat \ {0} /\ Len(c) \in Nat /\ DOMAIN c = 1..Len(c)
  BY ConversationAssumption DEF ConversationAssumption
<1>0. PICK kept : kept = Kept(c)
  OBVIOUS
<1>2. /\ kept \in Seq(Keys)
      /\ \/ Len(kept) = Len(c) /\ \A i \in 1..Len(c) : kept[i] = c[i]
         \/ Len(c) = CacheLimit /\ Len(kept) = Len(c) - 1 /\ \A i \in 1..Len(c) - 1 : kept[i] = c[i + 1]
      /\ Len(kept) \in Nat /\ DOMAIN kept = 1..Len(kept)
      /\ \A i \in 1..Len(kept) : kept[i] \in Remembered(c)
  BY <1>0, KeptOfCache
<1>3. Len(kept) \in Nat /\ DOMAIN kept = 1..Len(kept)
  BY <1>2
<1>4. \A i \in 1..Len(kept) : kept[i] \in Remembered(c)
  BY <1>2
<1>5. k \notin Remembered(kept)
  BY <1>3, <1>4 DEF Remembered
<1>d. PICK d : d = Remember(c, k)
  OBVIOUS
<1>6. d = Append(kept, k)
  BY <1>0, <1>d, <1>5 DEF Remember, Kept
<1>7. /\ d \in Seq(Keys) /\ Len(d) = Len(kept) + 1 /\ d[Len(d)] = k /\ DOMAIN d = 1..Len(d)
      /\ \A i \in 1..Len(kept) : d[i] = kept[i]
  BY <1>2, <1>6
<1>8. \/ Len(d) = Len(c) + 1 /\ \A i \in 1..Len(c) : d[i] = c[i]
      \/ Len(c) = CacheLimit /\ Len(d) = Len(c) /\ \A i \in 1..Len(c) - 1 : d[i] = c[i + 1]
  <2>1. CASE Len(kept) = Len(c) /\ \A i \in 1..Len(c) : kept[i] = c[i]
    BY <1>7, <2>1
  <2>2. CASE Len(c) = CacheLimit /\ Len(kept) = Len(c) - 1 /\ \A i \in 1..Len(c) - 1 : kept[i] = c[i + 1]
    <3>1. Len(d) = Len(c)
      BY <1>1, <1>7, <2>2
    <3>2. \A i \in 1..Len(c) - 1 : d[i] = c[i + 1]
      BY <1>7, <2>2
    <3> QED
      BY <2>2, <3>1, <3>2
  <2> QED
    BY <1>2, <2>1, <2>2
<1>9. Remembered(d) \subseteq Remembered(c) \cup {k}
  <2>1. ASSUME NEW i \in 1..Len(d) PROVE d[i] \in Remembered(c) \cup {k}
    <3>1. i = Len(d) \/ i \in 1..Len(kept)
      BY <1>3, <1>7
    <3> QED
      BY <1>4, <1>7, <3>1
  <2> QED
    BY <1>7, <2>1 DEF Remembered
<1>10. \A i, j \in 1..Len(kept) : kept[i] = kept[j] => i = j
  <2> TAKE i, j \in 1..Len(kept)
  <2> HAVE kept[i] = kept[j]
  <2>1. CASE Len(kept) = Len(c) /\ \A n \in 1..Len(c) : kept[n] = c[n]
    BY <1>1, <2>1
  <2>2. CASE Len(c) = CacheLimit /\ Len(kept) = Len(c) - 1 /\ \A n \in 1..Len(c) - 1 : kept[n] = c[n + 1]
    <3>1. i \in 1..Len(c) - 1 /\ j \in 1..Len(c) - 1 /\ i + 1 \in DOMAIN c /\ j + 1 \in DOMAIN c
      BY <1>1, <2>2
    <3>2. c[i + 1] = c[j + 1]
      BY <2>2, <3>1
    <3>3. i + 1 = j + 1
      BY <3>1, <3>2
    <3> QED
      BY <3>3, <3>1
  <2> QED
    BY <1>2, <2>1, <2>2
<1>11. ASSUME NEW i \in DOMAIN d, NEW j \in DOMAIN d, d[i] = d[j] PROVE i = j
  <2>1. (i = Len(d) \/ i \in 1..Len(kept)) /\ (j = Len(d) \/ j \in 1..Len(kept))
    BY <1>3, <1>7
  <2>2. \A n \in 1..Len(kept) : d[n] # k
    BY <1>3, <1>5, <1>7 DEF Remembered
  <2> QED
    BY <1>7, <1>10, <1>11, <2>1, <2>2
<1> QED
  <2>1. Len(d) \in Nat \ {0}
    BY <1>3, <1>7
  <2> QED
    BY <1>d, <1>7, <1>8, <1>9, <1>11, <2>1

\* The turn that runs on the first entry is over and may leave its key in the cache.
LEMMA OnceStores ==
    ASSUME IInv, OnceInv, NEW t \in Turns, stage[t] \in Answering, NEW o, Finish(t, o),
           StoreAnswer(t), UNCHANGED <<current, newVars>>, current = 1
    PROVE  OnceInv'
<1>1. /\ t = turns /\ turns \in Turns /\ 1 \in Entries
      /\ cache[1] \in Seq(Keys) /\ Len(cache[1]) <= CacheLimit
  BY OneEntry DEF Answering, Live
<1>2. TypeOK /\ turns' = turns /\ key' = key /\ task' = task /\ current' = 1 /\ turns \in Nat
  BY <1>1, ConversationAssumption DEF ConversationAssumption, IInv, newVars, Turns
<1>3. /\ task[1] = turns
      /\ key[t] \notin Remembered(cache[1])
      /\ NoKey \notin Remembered(cache[1])
      /\ \A i, j \in DOMAIN cache[1] : cache[1][i] = cache[1][j] => i = j
      /\ \A u \in Turns : outcome[u] # "none" => u <= turns
      /\ \A u \in Turns : outcome[u] = "answered" /\ key[u] # NoKey => Followed(u) \/ Forgotten(u)
  BY <1>1 DEF OnceInv
<1>4. /\ stage'[t] = "done" /\ \A u \in Turns \ {t} : outcome'[u] = outcome[u]
  BY <1>2 DEF Finish, TypeOK
<1>5. \A u \in Turns : outcome'[u] # "none" => u <= turns
  BY <1>1, <1>2, <1>3, <1>4
<1>6. \A u \in Turns : Between(u, turns)' = Between(u, turns) /\ (Forgotten(u)' <=> Forgotten(u))
  BY <1>2 DEF Between, Forgotten
<1>7. CASE key[t] = NoKey
  <2>1. cache' = cache
    BY <1>7 DEF StoreAnswer
  <2>2. \A u \in Turns : (Followed(u)' <=> Followed(u))
    BY <1>2, <1>6, <2>1 DEF Followed
  <2>3. \A u \in Turns : outcome'[u] = "answered" /\ key'[u] # NoKey => Followed(u)' \/ Forgotten(u)'
    BY <1>2, <1>3, <1>4, <1>6, <1>7, <2>2
  <2> QED
    BY <1>1, <1>2, <1>3, <1>4, <1>5, <2>1, <2>3 DEF OnceInv, Answering
<1>8. CASE key[t] # NoKey
  <2>1. key[t] \in Keys
    BY <1>2, <1>8 DEF TypeOK, Keys
  <2>2. PICK d : d = Remember(cache[1], key[t])
    OBVIOUS
  <2>3. /\ d \in Seq(Keys) /\ Len(d) \in Nat \ {0} /\ d[Len(d)] = key[t]
        /\ \/ Len(d) = Len(cache[1]) + 1 /\ \A i \in 1..Len(cache[1]) : d[i] = cache[1][i]
           \/ /\ Len(cache[1]) = CacheLimit /\ Len(d) = Len(cache[1])
              /\ \A i \in 1..Len(cache[1]) - 1 : d[i] = cache[1][i + 1]
        /\ Remembered(d) \subseteq Remembered(cache[1]) \cup {key[t]}
        /\ \A i, j \in DOMAIN d : d[i] = d[j] => i = j
    BY <1>1, <1>3, <2>1, <2>2, RememberNew
  <2>4. cache'[1] = d
    BY <1>1, <1>2, <1>8, <2>2 DEF StoreAnswer, TypeOK
  <2>5. DOMAIN d = 1..Len(d) /\ DOMAIN cache[1] = 1..Len(cache[1]) /\ Len(cache[1]) \in Nat
    BY <1>1, <2>3
  <2>6. ASSUME NEW u \in Turns, outcome'[u] = "answered", key[u] # NoKey
        PROVE  Followed(u)' \/ Forgotten(u)'
    <3>1. CASE u = t
      <4>1. /\ Len(d) \in DOMAIN d /\ d[Len(d)] = key[u]
            /\ \A j \in Len(d) + 1..Len(d) : \E v \in Between(u, turns) : key[v] = d[j]
        <5>1. Len(d) \in DOMAIN d /\ d[Len(d)] = key[u]
          <6>1. Len(d) \in 1..Len(d)
            BY <2>3
          <6> QED
            BY <2>3, <2>5, <3>1, <6>1
        <5>2. Len(d) + 1..Len(d) = {}
          BY <2>3
        <5> QED
          BY <5>1, <5>2
      <4> QED
        BY <1>2, <1>6, <2>4, <4>1 DEF Followed
    <3>2. CASE u # t /\ Forgotten(u)
      BY <1>6, <3>2
    <3>3. CASE u # t /\ Followed(u)
      <4>1. PICK p \in DOMAIN cache[1] :
                /\ cache[1][p] = key[u]
                /\ \A j \in p + 1..Len(cache[1]) : \E v \in Between(u, turns) : key[v] = cache[1][j]
        BY <3>3 DEF Followed
      <4>2. u <= turns /\ u \in Nat
        BY <1>3, <1>4, <2>6, <3>3 DEF Turns
      <4>3. key[u] # key[t]
        BY <1>3, <4>1 DEF Remembered
      <4>4. t \in Between(u, turns)
        BY <1>1, <1>2, <1>8, <4>2, <4>3 DEF Between
      <4>5. CASE Len(d) = Len(cache[1]) + 1 /\ \A i \in 1..Len(cache[1]) : d[i] = cache[1][i]
        <5>1. p \in DOMAIN d /\ d[p] = key[u]
          BY <2>5, <4>1, <4>5
        <5>2. ASSUME NEW j \in p + 1..Len(d) PROVE \E v \in Between(u, turns) : key[v] = d[j]
          <6>1. j = Len(d) \/ (j \in p + 1..Len(cache[1]) /\ d[j] = cache[1][j])
            BY SMTT(30), <2>5, <4>5
          <6> QED
            BY <2>3, <4>1, <4>4, <6>1
        <5> QED
          BY <1>2, <1>6, <2>4, <5>1, <5>2 DEF Followed
      <4>6. CASE /\ Len(cache[1]) = CacheLimit /\ Len(d) = Len(cache[1])
                 /\ \A i \in 1..Len(cache[1]) - 1 : d[i] = cache[1][i + 1]
        <5>1. ASSUME NEW j \in p..Len(d) PROVE \E v \in Between(u, turns) : key[v] = d[j]
          <6>1. j = Len(d) \/ (j + 1 \in p + 1..Len(cache[1]) /\ d[j] = cache[1][j + 1])
            BY <2>5, <4>6
          <6> QED
            BY <2>3, <4>1, <4>4, <6>1
        <5>2. CASE p = 1
          <6>1. \A j \in 1..Len(d) : \E v \in Between(u, turns) : key[v] = d[j]
            BY <5>1, <5>2
          <6>2. Len(d) \in Nat /\ IsFiniteSet(Between(u, turns))
            BY <1>2, <2>3, BetweenFinite
          <6>3. \A i, j \in 1..Len(d) : d[i] = d[j] => i = j
            BY <2>3, <2>5
          <6>4. Cardinality(Between(u, turns)) >= Len(d)
            BY <6>1, <6>2, <6>3, DistinctKeys
          <6>5. Forgotten(u)
            BY <4>6, <6>4 DEF Forgotten
          <6> QED
            BY <1>6, <6>5
        <5>3. CASE p # 1
          <6>1. p - 1 \in DOMAIN d /\ p - 1 \in 1..Len(cache[1]) - 1
            BY <2>5, <4>6, <5>3
          <6>2. d[p - 1] = key[u]
            BY <2>5, <4>1, <4>6, <6>1
          <6>3. \A j \in (p - 1) + 1..Len(d) : \E v \in Between(u, turns) : key[v] = d[j]
            BY <2>5, <5>1
          <6> QED
            BY <1>2, <1>6, <2>4, <6>1, <6>2, <6>3 DEF Followed
        <5> QED
          BY <5>2, <5>3
      <4> QED
        BY <2>3, <4>5, <4>6
    <3> QED
      BY <1>3, <1>4, <2>6, <3>1, <3>2, <3>3
  <2>7. NoKey \notin Remembered(d)
    BY <1>3, <1>8, <2>3
  <2> QED
    BY <1>1, <1>2, <1>3, <1>4, <1>5, <2>3, <2>4, <2>6, <2>7 DEF OnceInv, Answering
<1> QED
  BY <1>7, <1>8

\* What is between two turns that both answered a key is there to stay.
LEMMA OnceFurther ==
    ASSUME AnsweredOnce, turns \in Nat, current' = 1 => current = 1,
           \A t \in Turns : outcome'[t] = "answered" => outcome[t] = "answered" /\ t <= turns,
           \A t \in Turns : t <= turns => key'[t] = key[t]
    PROVE  AnsweredOnce'
<1> SUFFICES ASSUME NEW t \in Turns, NEW u \in Turns, current' = 1, t < u, key'[t] = key'[u],
                    key'[t] # NoKey, outcome'[t] = "answered", outcome'[u] = "answered"
             PROVE  Cardinality({v \in t..u : key'[v] \notin {NoKey, key'[t]}}) >= CacheLimit
  BY DEF AnsweredOnce
<1>1. outcome[t] = "answered" /\ outcome[u] = "answered" /\ t <= turns /\ u <= turns /\ current = 1
  OBVIOUS
<1>2. key'[t] = key[t] /\ key'[u] = key[u]
  BY <1>1
<1>3. Cardinality({v \in t..u : key[v] \notin {NoKey, key[t]}}) >= CacheLimit
  BY <1>1, <1>2 DEF AnsweredOnce
<1>4. ASSUME NEW v \in t..u PROVE key'[v] = key[v]
  <2>1. t \in Nat /\ 1 <= t /\ u \in Nat /\ u <= MaxTurns /\ MaxTurns \in Nat /\ v \in Int
        /\ t <= v /\ v <= u
    BY ConversationAssumption DEF ConversationAssumption, Turns
  <2>2. v \in Turns
    BY <2>1 DEF Turns
  <2> QED
    BY <1>1, <2>1, <2>2
<1>5. {v \in t..u : key'[v] \notin {NoKey, key'[t]}} = {v \in t..u : key[v] \notin {NoKey, key[t]}}
  BY <1>2, <1>4
<1> QED
  BY <1>3, <1>5

\* The turn that answers now finds the key of an earlier answer forgotten.
LEMMA OnceAnswers ==
    ASSUME IInv, OnceInv, AnsweredOnce, NEW t \in Turns, stage[t] \in Answering, NEW o, Finish(t, o),
           UNCHANGED <<current, newVars>>
    PROVE  AnsweredOnce'
<1> SUFFICES ASSUME NEW s \in Turns, NEW u \in Turns, current = 1, s < u, key[s] = key[u],
                    key[s] # NoKey, outcome'[s] = "answered", outcome'[u] = "answered"
             PROVE  Cardinality({v \in s..u : key[v] \notin {NoKey, key[s]}}) >= CacheLimit
  BY DEF AnsweredOnce, newVars
<1>1. t = turns /\ \A v \in Turns \ {t} : outcome'[v] = outcome[v]
  BY OneEntry DEF Answering, Live, Finish, IInv, TypeOK
<1>2. CASE u # t
  <2>1. outcome[u] = "answered"
    BY <1>1, <1>2
  <2>2. u <= turns /\ turns \in Nat /\ s \in Nat /\ u \in Nat
    BY <2>1, OneEntry DEF OnceInv, Turns
  <2>3. s # t
    BY <1>1, <2>2
  <2> QED
    BY <1>1, <2>1, <2>3 DEF AnsweredOnce
<1>3. CASE u = t
  <2>1. s # t /\ outcome[s] = "answered"
    BY <1>1, <1>3 DEF Turns
  <2>2. key[s] \notin Remembered(cache[1])
    BY <1>1, <1>3 DEF OnceInv
  <2>3. ~Followed(s)
    BY <2>2 DEF Followed, Remembered
  <2>4. Forgotten(s)
    BY <2>1, <2>3 DEF OnceInv
  <2> QED
    BY <1>1, <1>3, <2>4 DEF Forgotten, Between
<1> QED
  BY <1>2, <1>3

LEMMA OnceTurn ==
    ASSUME IInv, OnceInv, AnsweredOnce, NEW t \in Turns, TurnStep(t)
    PROVE  OnceInv' /\ AnsweredOnce'
<1>1. TypeOK /\ DOMAIN stage = Turns /\ DOMAIN outcome = Turns
  BY DEF IInv, TypeOK
<1>2. \A u \in Turns : outcome[u] = "answered" /\ current = 1 => u <= turns
  BY DEF OnceInv
<1>3. ASSUME UNCHANGED <<current, cache, newVars>>,
             \/ UNCHANGED outcome
             \/ stage[t] \in Live /\ \E o : o # "answered" /\ outcome' = [outcome EXCEPT ![t] = o],
             \E st : stage' = [stage EXCEPT ![t] = st] /\
                \/ st \notin Answering
                \/ stage[t] \in Answering
                \/ stage[t] \in Live /\ (current = 1 => ~Answered(1, key[t]))
      PROVE  OnceInv' /\ AnsweredOnce'
  <2>1. \A u \in Turns : outcome'[u] = "answered" => outcome[u] = "answered"
    BY <1>1, <1>3
  <2>2. \A u \in Turns : outcome'[u] # "none" => outcome[u] # "none" \/ stage[u] \in Live
    BY <1>1, <1>3
  <2>3. \A u \in Turns : stage'[u] \in Answering =>
               \/ stage[u] \in Answering
               \/ stage[u] \in Live /\ (current = 1 => ~Answered(1, key[u]))
    BY <1>1, <1>3
  <2>4. OnceInv'
    BY <1>3, <2>1, <2>2, <2>3, OnceQuiet
  <2>5. CASE current = 1
    <3>0. turns \in Nat
      BY <1>1, ConversationAssumption DEF ConversationAssumption, TypeOK, Turns
    <3>1. current' = 1 => current = 1
      BY <1>3
    <3>2. \A u \in Turns : u <= turns => key'[u] = key[u]
      BY <1>3 DEF newVars
    <3>3. \A u \in Turns : outcome'[u] = "answered" => outcome[u] = "answered" /\ u <= turns
      BY <1>2, <2>1, <2>5
    <3>4. AnsweredOnce'
      BY <3>0, <3>1, <3>2, <3>3, OnceFurther
    <3> QED
      BY <2>4, <3>4
  <2>6. CASE current # 1
    <3>1. current' # 1
      BY <1>3, <2>6
    <3>2. AnsweredOnce'
      BY <3>1 DEF AnsweredOnce
    <3> QED
      BY <2>4, <3>2
  <2> QED
    BY <2>4, <2>5, <2>6
<1>z. "done" \notin Answering
  BY DEF Answering
<1>4. ASSUME stage[t] \in Answering, StoreAnswer(t), UNCHANGED <<current, newVars>>, NEW o, Finish(t, o)
      PROVE  OnceInv' /\ AnsweredOnce'
  <2>1. CASE current = 1
    BY <1>4, <2>1, OnceStores, OnceAnswers
  <2>2. CASE current # 1
    BY <1>4, <2>2 DEF OnceInv, AnsweredOnce
  <2> QED
    BY <2>1, <2>2
<1>5. CASE Bootstrapped(t)
  <2>1. UNCHANGED <<current, cache, newVars>> /\ UNCHANGED outcome
    BY <1>5 DEF Bootstrapped
  <2>2. stage' = [stage EXCEPT ![t] = "fresh"] /\ "fresh" \notin Answering
    BY <1>5 DEF Bootstrapped, Answering
  <2> QED
    BY <1>3, <2>1, <2>2
<1>6. CASE BootstrapFailed(t)
  <2>1. stage[t] \in Live /\ UNCHANGED <<current, cache, newVars>>
    BY <1>6 DEF BootstrapFailed, Live, entryVars
  <2>2. stage' = [stage EXCEPT ![t] = "done"] /\ outcome' = [outcome EXCEPT ![t] = "error"]
    BY <1>6 DEF BootstrapFailed, Finish
  <2> QED
    BY <1>3, <1>z, <2>1, <2>2
<1>7. CASE RunTurn(t)
  <2>1. stage[t] = "fresh" /\ UNCHANGED <<current, cache, newVars>>
    BY <1>7 DEF RunTurn, entryVars
  <2>2. CASE current # 0 /\ Answered(current, key[t])
    BY <1>3, <1>7, <2>1, <2>2 DEF RunTurn, Finish, Live, Answering
  <2>3. CASE ~(current # 0 /\ Answered(current, key[t]))
    <3>1. stage' = [stage EXCEPT ![t] = "hook"] /\ UNCHANGED outcome
      BY <1>7, <2>3 DEF RunTurn
    <3>2. current = 1 => ~Answered(1, key[t])
      BY <2>3
    <3> QED
      BY <1>3, <2>1, <3>1, <3>2 DEF Live
  <2> QED
    BY <2>2, <2>3
<1>8. CASE RunFailed(t)
  BY <1>3, <1>8 DEF RunFailed, Finish, Live, Answering, entryVars
<1>9. CASE Begin(t)
  BY <1>3, <1>9 DEF Begin, Live, Answering
<1>10. CASE SetupFailed(t)
  BY <1>4, <1>10 DEF SetupFailed, Answering, entryVars
<1>11. CASE SetupDone(t)
  BY <1>3, <1>11 DEF SetupDone, Live, Answering, entryVars
<1>12. CASE EndLoop(t)
  <2>1. PICK st : st = IF flag[owner[t]] THEN "stopping" ELSE "final"
    OBVIOUS
  <2>2. stage' = [stage EXCEPT ![t] = st] /\ stage[t] \in Answering
    BY <1>12, <2>1 DEF EndLoop, Answering
  <2>3. UNCHANGED <<current, cache, newVars, outcome>>
    BY <1>12 DEF EndLoop, entryVars
  <2> QED
    BY <1>3, <2>2, <2>3
<1>13. CASE Answer(t)
  <2>1. stage[t] \in Answering /\ stage[t] \in Live /\ UNCHANGED <<current, newVars>>
    BY <1>13 DEF Answer, Answering, Live, entryVars
  <2>2. CASE Finish(t, "answered") /\ StoreAnswer(t)
    BY <1>4, <2>1, <2>2
  <2>3. CASE Finish(t, "silent") /\ UNCHANGED cache
    BY <1>3, <2>1, <2>3 DEF Finish
  <2> QED
    BY <1>13, <2>2, <2>3 DEF Answer
<1>14. CASE Stopped(t)
  <2>1. stage[t] \in Answering /\ stage[t] \in Live /\ UNCHANGED <<current, newVars>> /\ Finish(t, "stopped")
    BY <1>14 DEF Stopped, Answering, Live, entryVars
  <2>2. CASE StoreAnswer(t)
    BY <1>4, <2>1, <2>2
  <2>3. CASE UNCHANGED cache
    BY <1>3, <2>1, <2>3 DEF Finish
  <2> QED
    BY <1>14, <2>2, <2>3 DEF Stopped
<1>15. CASE Cancelled(t)
  <2>1. UNCHANGED <<current, cache, newVars>>
    BY <1>15 DEF Cancelled, entryVars
  <2>2. CASE stage[t] \in {"boot", "fresh", "cancelling"} /\ Finish(t, "aborted")
    <3>1. stage[t] \in Live
      BY <2>2 DEF Live
    <3>2. stage' = [stage EXCEPT ![t] = "done"] /\ outcome' = [outcome EXCEPT ![t] = "aborted"]
      BY <2>2 DEF Finish
    <3> QED
      BY <1>3, <1>z, <2>1, <3>1, <3>2
  <2>3. CASE /\ stage[t] \in {"hook", "setup", "loop", "final", "stopping"}
             /\ stage' = [stage EXCEPT ![t] = "cancelling"] /\ UNCHANGED outcome
    BY <1>3, <2>1, <2>3 DEF Answering
  <2>4. CASE stage[t] \in {"hook", "setup", "loop", "final", "stopping"} /\ Finish(t, "cancelled")
    BY <1>3, <2>1, <2>4 DEF Finish, Live, Answering
  <2> QED
    BY <1>15, <2>2, <2>3, <2>4 DEF Cancelled
<1>16. CASE CancelReported(t)
  <2>1. stage[t] \in Live /\ UNCHANGED <<current, cache, newVars>>
    BY <1>16 DEF CancelReported, Live, entryVars
  <2>2. stage' = [stage EXCEPT ![t] = "done"] /\ outcome' = [outcome EXCEPT ![t] = "cancelled"]
    BY <1>16 DEF CancelReported, Finish
  <2> QED
    BY <1>3, <1>z, <2>1, <2>2
<1> QED
  BY <1>5, <1>6, <1>7, <1>8, <1>9, <1>10, <1>11, <1>12, <1>13, <1>14, <1>15, <1>16 DEF TurnStep

LEMMA OnceStarts ==
    ASSUME IInv, OnceInv, AnsweredOnce, NEW r \in Requests, NEW m, NEW k,
           StartTurn(r, rEntry[r], m, k), UNCHANGED <<current, cache, outcome>>
    PROVE  OnceInv' /\ AnsweredOnce'
<1>1. CASE current # 1
  BY <1>1 DEF OnceInv, AnsweredOnce
<1>2. CASE current = 1
  <2>1. /\ turns \in Turns /\ turns' = turns + 1 /\ turns + 1 \in Turns /\ rEntry[r] = 1 /\ 1 \in Entries
        /\ turns \in Nat
    BY <1>2, OneEntry, ConversationAssumption DEF ConversationAssumption, StartTurn, Turns
  <2>2. /\ task'[1] = turns + 1 /\ stage'[turns + 1] = "fresh"
        /\ \A t \in Turns : t <= turns => key'[t] = key[t]
    BY <2>1 DEF StartTurn, IInv, TypeOK
  <2>3. \A t \in Turns : outcome[t] # "none" => t <= turns
    BY <1>2 DEF OnceInv
  <2>4. AnsweredOnce'
    BY <1>2, <2>1, <2>2, <2>3, OnceFurther
  <2>5. ASSUME NEW t \in Turns, outcome[t] = "answered", key[t] # NoKey PROVE Followed(t)' \/ Forgotten(t)'
    <3>1. t <= turns /\ t \in Nat
      BY <2>3, <2>5 DEF Turns
    <3>2. ASSUME NEW v \in Between(t, turns) PROVE v \in Between(t, turns)' /\ key'[v] = key[v]
      <4>1. v \in t..turns /\ key[v] \notin {NoKey, key[t]}
        BY DEF Between
      <4>2. v \in Turns /\ v <= turns /\ v \in t..turns + 1
        <5>1. v \in Int /\ t <= v /\ v <= turns
          BY <2>1, <3>1, <4>1
        <5>2. t \in 1..MaxTurns /\ turns \in 1..MaxTurns
          BY <2>1 DEF Turns
        <5>3. MaxTurns \in Nat
          BY ConversationAssumption DEF ConversationAssumption
        <5>4. v \in 1..MaxTurns /\ v \in t..turns + 1
          BY <5>1, <5>2, <5>3
        <5> QED
          BY <5>1, <5>4 DEF Turns
      <4>3. key'[v] = key[v] /\ key'[t] = key[t]
        BY <2>2, <3>1, <4>2
      <4> QED
        BY <2>1, <4>1, <4>2, <4>3 DEF Between
    <3>3. CASE Followed(t)
      <4>1. PICK p \in DOMAIN cache[1] :
                /\ cache[1][p] = key[t]
                /\ \A j \in p + 1..Len(cache[1]) : \E v \in Between(t, turns) : key[v] = cache[1][j]
        BY <3>3 DEF Followed
      <4>2. cache[1][p] = key'[t]
        BY <2>2, <3>1, <4>1
      <4>3. \A j \in p + 1..Len(cache[1]) : \E v \in Between(t, turns)' : key'[v] = cache[1][j]
        BY <3>2, <4>1
      <4> QED
        BY <4>2, <4>3 DEF Followed
    <3>4. CASE Forgotten(t)
      <4>1. IsFiniteSet(t..turns + 1)
        BY <2>1, <3>1, FS_Interval
      <4>2. Between(t, turns)' \in SUBSET (t..turns + 1)
        BY <2>1 DEF Between
      <4>3. IsFiniteSet(Between(t, turns)')
        BY <4>1, <4>2, FS_Subset
      <4>4. Between(t, turns) \in SUBSET (Between(t, turns)')
        BY <3>2
      <4>5. PICK B : B = Between(t, turns)'
        OBVIOUS
      <4>6. IsFiniteSet(B) /\ Between(t, turns) \in SUBSET B
        BY <4>3, <4>4, <4>5
      <4>7. /\ Cardinality(Between(t, turns)) <= Cardinality(B) /\ IsFiniteSet(Between(t, turns))
        BY <4>6, FS_Subset
      <4>8. Cardinality(Between(t, turns)) \in Nat /\ Cardinality(B) \in Nat
        BY <4>6, <4>7, FS_CardinalityType
      <4>9. Cardinality(B) >= CacheLimit
        BY <3>4, <4>7, <4>8, ConversationAssumption DEF ConversationAssumption, Forgotten
      <4> QED
        BY <4>5, <4>9 DEF Forgotten
    <3> QED
      BY <1>2, <2>5, <3>3, <3>4 DEF OnceInv
  <2>6. \A t \in Turns : outcome'[t] = "answered" /\ key'[t] # NoKey => Followed(t)' \/ Forgotten(t)'
    <3>1. \A t \in Turns : outcome[t] = "answered" => key'[t] = key[t]
      BY <2>2, <2>3
    <3> QED
      BY <2>5, <3>1
  <2>7. \A t \in Turns : outcome'[t] # "none" => t <= turns + 1
    BY <2>1, <2>3 DEF Turns
  <2>8. /\ NoKey \notin Remembered(cache[1])
        /\ \A i, j \in DOMAIN cache[1] : cache[1][i] = cache[1][j] => i = j
    BY <1>2 DEF OnceInv
  <2> QED
    BY <2>1, <2>2, <2>4, <2>6, <2>7, <2>8 DEF OnceInv, Answering
<1> QED
  BY <1>1, <1>2

LEMMA OnceElse ==
    ASSUME IInv, OnceInv, AnsweredOnce, UNCHANGED <<newVars, turnVars>>, current' = 1 => current = 1
    PROVE  OnceInv' /\ AnsweredOnce'
<1>1. UNCHANGED <<cache, outcome, stage, key, turns>>
  BY DEF newVars, turnVars
<1>2. OnceInv'
  BY <1>1, OnceQuiet
<1>3. AnsweredOnce'
  BY <1>1 DEF AnsweredOnce
<1> QED
  BY <1>2, <1>3

LEMMA OnceNext ==
    ASSUME IInv, OnceInv, AnsweredOnce, [Next]_vars
    PROVE  OnceInv' /\ AnsweredOnce'
<1>1. ASSUME NEW r \in Requests, FindEntry(r) PROVE OnceInv' /\ AnsweredOnce'
  <2>1. made \in Nat \ {0}
    BY DEF IInv, TypeOK, Entries
  <2>2. current' = 1 => current = 1
    BY <1>1, <2>1 DEF FindEntry, Lookup, Rebuilt, RebuildFailed, entryVars
  <2>3. UNCHANGED <<newVars, turnVars>>
    BY <1>1 DEF FindEntry, Lookup, Rebuilt, RebuildFailed
  <2> QED
    BY <2>2, <2>3, OnceElse
<1>2. ASSUME NEW r \in Senders, SendStep(r) PROVE OnceInv' /\ AnsweredOnce'
  <2>1. r \in Requests
    BY SenderOK
  <2>2. CASE SendStarts(r)
    BY <2>1, <2>2, OnceStarts DEF SendStarts, entryVars
  <2>3. CASE SendBuilt(r)
    BY <2>1, <2>3, OnceStarts DEF SendBuilt
  <2>4. CASE ~SendStarts(r) /\ ~SendBuilt(r)
    <3>1. UNCHANGED <<newVars, turnVars, current>>
      BY <1>2, <2>4 DEF SendStep, SendDuplicate, SendWaits, SendWaited, SendBuilds, SendSwitches,
                        SendBuildFailed, entryVars
    <3> QED
      BY <3>1, OnceElse
  <2> QED
    BY <2>2, <2>3, <2>4
<1>3. ASSUME NEW r \in Cancellers, CancelStep(r) PROVE OnceInv' /\ AnsweredOnce'
  <2>1. UNCHANGED <<newVars, turnVars, current>>
    BY <1>3 DEF CancelStep, CancelLocked, ForceTurn, ForceSpared, entryVars
  <2> QED
    BY <2>1, OnceElse
<1>4. ASSUME NEW r \in Retriers, RetryStep(r) PROVE OnceInv' /\ AnsweredOnce'
  <2>1. r \in Requests
    BY DEF Requests
  <2>2. ASSUME Rerun(r), UNCHANGED <<entryVars, base, outcome, started, ended, cache>>
        PROVE  OnceInv' /\ AnsweredOnce'
    <3>1. CASE \E m, k : StartTurn(r, rEntry[r], m, k)
      BY <2>1, <2>2, <3>1, OnceStarts DEF entryVars
    <3>2. CASE UNCHANGED <<newVars, stage>>
      BY <2>2, <3>2, OnceElse DEF turnVars, entryVars
    <3> QED
      BY <2>2, <3>1, <3>2 DEF Rerun
  <2>3. CASE RetryIdle(r) \/ RetryReruns(r)
    BY <2>2, <2>3 DEF RetryIdle, RetryReruns
  <2>4. CASE RetryStops(r) \/ RetryForces(r) \/ RetryRefused(r)
    <3>1. UNCHANGED <<newVars, turnVars, current>>
      BY <2>4 DEF RetryStops, RetryForces, RetryRefused, entryVars
    <3> QED
      BY <3>1, OnceElse
  <2> QED
    BY <1>4, <2>3, <2>4 DEF RetryStep
<1>5. CASE EvictStep
  <2>1. current' = 1 => current = 1
    BY <1>5 DEF EvictStep, ReaperJudges, ReaperEvicts, Delete, Evict
  <2>2. UNCHANGED <<newVars, turnVars>>
    BY <1>5 DEF EvictStep, ReaperJudges, ReaperEvicts, Delete
  <2> QED
    BY <2>1, <2>2, OnceElse
<1>6. CASE UNCHANGED vars
  BY <1>6, OnceElse DEF vars, entryVars
<1> QED
  BY <1>1, <1>2, <1>3, <1>4, <1>5, <1>6, OnceTurn DEF Next

\* A message that is sent again under its idempotency key is answered once, in a conversation
\* that stays in memory: unless at least CacheLimit turns with other keys came in between.
THEOREM AnsweredAtMostOnce == Spec => []AnsweredOnce
<1>1. Init => OnceInv /\ AnsweredOnce
  <2>1. Init => AnsweredOnce
    BY DEF Init, AnsweredOnce
  <2> QED
    BY <2>1, OnceInit
<1>2. IInv /\ OnceInv /\ AnsweredOnce /\ [Next]_vars => OnceInv' /\ AnsweredOnce'
  BY OnceNext
<1> QED
  BY <1>1, <1>2, Invariant, PTL DEF Spec
=============================================================================
