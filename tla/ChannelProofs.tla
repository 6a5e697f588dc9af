---------------------------- MODULE ChannelProofs -----------------------------
(***************************************************************************)
(* Theorems about Channel, Links and Streaming, for every number of        *)
(* deliveries, answers and questions, of bots, tokens and jobs, and for    *)
(* turns of any length.                                                    *)
(***************************************************************************)
EXTENDS Channel, Links, Streaming, FiniteSetTheorems, SequenceTheorems, TLAPS

-----------------------------------------------------------------------------
(* Prompts and answers.  ChannelInv is the inductive invariant: what is known of a question
   until it is over, of an answer on its way to the row, and of a message once the log has it. *)

-----------------------------------------------------------------------------
(* The inductive invariant                                                 *)

\* A question not yet asked has left nothing.
Unasked ==
    /\ \A a \in Asks : a > asks =>
           row[a] = "none" /\ reply[a] = Nobody /\ waiter[a] = "none" /\ pc[a] = "none" /\ todo[a] = {}
    /\ pending <= asks

\* A row is there as long as the conversation is, and a pending one has no reply.
QuestionRows ==
    /\ \A a \in Asks : a <= asks /\ exists => row[a] # "none"
    /\ \A a \in Asks : row[a] # "none" => exists
    /\ \A a \in Asks : row[a] = "pending" => reply[a] = Nobody
    /\ \A a \in Asks : row[a] = "responded" => reply[a] \in Answerers

\* Who waits has a future, and what it holds is the reply of the row.
Futures ==
    /\ \A a \in Asks : pc[a] \in Asking => waiter[a] # "none"
    /\ \A a \in Asks : waiter[a] \in Answerers /\ exists => waiter[a] = reply[a]
    /\ \A a \in Asks : pc[a] = "answered" => got[a] \in Answerers

\* An answer is for a question that was asked; past the update the row has it.
Aims ==
    /\ \A x \in Answerers : submit[x] \in Submitting => aim[x] \in Asks /\ aim[x] <= asks
    /\ \A x \in Answerers : submit[x] \in {"saving", "logging"} => reply[aim[x]] = x

\* A message that is processed is in the log, one that answers among them.
Logged ==
    /\ \A d \in Deliveries : inbound[d] \in Processed => Message[d] \in logged
    /\ \A d \in Deliveries : submit[d] \in Submitting => inbound[d] \in Processed

Parts == Unasked /\ QuestionRows /\ Futures /\ Aims

ChannelInv == TypeOK /\ Parts /\ AnswersKept /\ Logged /\ ProcessedOnce

-----------------------------------------------------------------------------
(* Types                                                                   *)

LEMMA TypeInit == Init => TypeOK
BY ChannelAssumption
   DEF ChannelAssumption, Init, TypeOK, Asks, Answerers, Processed, Asking, Over, Submitting

\* Whatever an answer ends with, futures and deliveries keep their types.
LEMMA EndsTypes ==
    ASSUME TypeOK, NEW x \in Answerers, NEW status, Ends(x, status)
    PROVE  /\ submit' \in [Answerers -> Submitting \cup {"idle", "over"}]
           /\ inbound' \in [Deliveries -> Processed \cup {"idle", "fresh", "dropped"}]
           /\ waiter' \in [Asks -> Answerers \cup {"none", "open"}]
BY DEF TypeOK, Ends, Resolve, Processed

LEMMA TypeNext == TypeOK /\ Parts /\ [Next]_vars => TypeOK'
<1> SUFFICES ASSUME TypeOK, Parts, [Next]_vars PROVE TypeOK'
  OBVIOUS
<1> USE ChannelAssumption DEF ChannelAssumption
<1>1. ASSUME NEW d \in Deliveries, InboundStep(d) PROVE TypeOK'
  <2>1. CASE Arrives(d)
    BY <2>1 DEF TypeOK, Arrives, rowVars, turnVars, askVars, respVars, submitVars
  <2>2. CASE Logs(d)
    BY <2>2 DEF TypeOK, Logs, Processed, rowVars, turnVars, askVars, respVars, submitVars
  <2>3. CASE Answers(d)
    BY <2>3, SMTT(30) DEF TypeOK, Answers, Processed, Submitting, Answerers, rowVars, turnVars, askVars,
                respVars, submitVars
  <2>4. CASE Subscribes(d)
    BY <2>4 DEF TypeOK, Subscribes, Processed, rowVars, turnVars, askVars, respVars, submitVars
  <2>5. CASE Joins(d)
    BY <2>5 DEF TypeOK, Joins, StartTurn, Processed, rowVars, turnVars, askVars, respVars,
                submitVars
  <2>6. CASE Waited(d)
    BY <2>6 DEF TypeOK, Waited, StartTurn, Processed, rowVars, turnVars, askVars, respVars,
                submitVars
  <2>7. CASE WaitFailed(d)
    BY <2>7 DEF TypeOK, WaitFailed, Processed, rowVars, turnVars, askVars, respVars, submitVars
  <2>8. QED
    BY <1>1, <2>1, <2>2, <2>3, <2>4, <2>5, <2>6, <2>7 DEF InboundStep
<1>2. ASSUME NEW t \in Deliveries, TurnStep(t) PROVE TypeOK'
  <2>1. CASE Announces(t)
    BY <2>1 DEF TypeOK, Announces, rowVars, inVars, askVars, submitVars
  <2>2. CASE TurnDone(t)
    BY <2>2 DEF TypeOK, TurnDone, rowVars, inVars, askVars, respVars, submitVars
  <2>3. CASE TurnCancelled(t)
    <3>1. turn' \in [Deliveries -> {"none", "running", "asking", "announced", "done", "aborted"}]
      BY <2>3 DEF TypeOK, TurnCancelled
    <3>2. /\ pc' \in [Asks -> Asking \cup Over \cup {"none"}]
          /\ todo' \in [Asks -> SUBSET Deliveries]
          /\ waiter' \in [Asks -> Answerers \cup {"none", "open"}]
      BY <2>3 DEF TypeOK, TurnCancelled, Over
    <3>3. QED
      BY <2>3, <3>1, <3>2 DEF TypeOK, TurnCancelled, rowVars, inVars, respVars, submitVars
  <2>4. CASE Ask(t)
    <3>1. asks + 1 \in Asks
      BY <2>4 DEF TypeOK, Ask, Asks
    <3>2. /\ asks' \in 0..MaxAsks
          /\ asker' \in [Asks -> Deliveries \cup {Nobody}]
          /\ row' \in [Asks -> {"none", "pending", "responded"}]
          /\ pc' \in [Asks -> Asking \cup Over \cup {"none"}]
          /\ waiter' \in [Asks -> Answerers \cup {"none", "open"}]
          /\ todo' \in [Asks -> SUBSET Deliveries]
          /\ turn' \in [Deliveries -> {"none", "running", "asking", "announced", "done", "aborted"}]
      BY <2>4, <3>1 DEF TypeOK, Ask, Asking, Asks
    <3>3. QED
      BY <2>4, <3>2 DEF TypeOK, Ask, inVars, respVars, submitVars
  <2>5. QED
    BY <1>2, <2>1, <2>2, <2>3, <2>4 DEF TurnStep
<1>3. ASSUME NEW a \in Asks, WaitStep(a) \/ TimesOut(a) PROVE TypeOK'
  <2>1. ASSUME NEW d \in Deliveries, Asked(d, a) PROVE TypeOK'
    BY <2>1 DEF TypeOK, Asked, Asks, rowVars, turnVars, inVars, submitVars
  <2>2. CASE Looks(a)
    <3>1. pc[a] \in Asking /\ waiter[a] \in Answerers \cup {"open"}
      BY <2>2 DEF TypeOK, Looks, Parts, Futures, Asking
    <3>2. QED
      BY <2>2, <3>1 DEF TypeOK, Looks, Leaves, Asking, Over, rowVars, inVars, respVars, submitVars
  <2>3. CASE Polls(a)
    BY <2>3, SMTT(30) DEF TypeOK, Polls, Leaves, Asking, Over, rowVars, inVars, respVars, submitVars
  <2>4. CASE TimesOut(a)
    BY <2>4 DEF TypeOK, TimesOut, Leaves, Over, rowVars, inVars, respVars, submitVars
  <2>5. QED
    BY <1>3, <2>1, <2>2, <2>3, <2>4 DEF WaitStep
<1>4. ASSUME NEW d \in Deliveries, NEW a \in Asks, Notice(d, a) PROVE TypeOK'
  BY <1>4 DEF TypeOK, Notice, rowVars, turnVars, inVars, askVars, submitVars
<1>5. ASSUME NEW x \in Submits, Submit(x) PROVE TypeOK'
  BY <1>5 DEF TypeOK, Submit, Submitting, Answerers, rowVars, turnVars, inVars, askVars, respVars
<1>6. ASSUME NEW x \in Answerers, SubmitStep(x) PROVE TypeOK'
  <2>1. CASE FindsConversation(x)
    BY <2>1, EndsTypes
       DEF TypeOK, FindsConversation, Submitting, rowVars, turnVars, respVars
  <2>2. CASE Updates(x)
    BY <2>2, EndsTypes, SMTT(30) DEF TypeOK, Updates, Fulfil, Submitting, turnVars, respVars
  <2>3. CASE Saves(x)
    BY <2>3, EndsTypes DEF TypeOK, Saves, Submitting, turnVars, respVars
  <2>4. CASE Fulfilled(x)
    BY <2>4, EndsTypes DEF TypeOK, Fulfilled, rowVars, turnVars, respVars
  <2>5. CASE SubmitFails(x)
    BY <2>5 DEF TypeOK, SubmitFails, Processed, rowVars, turnVars, askVars, respVars
  <2>6. QED
    BY <1>6, <2>1, <2>2, <2>3, <2>4, <2>5 DEF SubmitStep
<1>7. CASE Delete
  BY <1>7 DEF TypeOK, Delete, turnVars, inVars, askVars, respVars, submitVars
<1>8. CASE UNCHANGED vars
  BY <1>8 DEF TypeOK, vars, rowVars, turnVars, inVars, askVars, respVars, submitVars
<1>9. QED
  BY <1>1, <1>2, <1>3, <1>4, <1>5, <1>6, <1>7, <1>8 DEF Next

-----------------------------------------------------------------------------
(* Questions and answers                                                   *)

\* Everything the parts and AnswersKept speak of.
questionVars == <<rowVars, asks, pc, got, waiter, todo, pending, submitVars>>

LEMMA QuestionsKept ==
    ASSUME Parts, AnswersKept, UNCHANGED questionVars
    PROVE  Parts' /\ AnswersKept'
BY DEF Parts, AnswersKept, Unasked, QuestionRows, Futures, Aims, OneAnswer, SavedIsReply, questionVars,
       rowVars, submitVars

\* An answer ends: a future that is open takes it when the row has it or when the
\* conversation is gone.
LEMMA EndsKept ==
    ASSUME TypeOK, Parts, AnswersKept, NEW x \in Answerers, NEW status, submit[x] \in Submitting,
           Ends(x, status),
           ~exists \/ reply[aim[x]] = x \/ status \notin {"fulfilled", "notfound"},
           UNCHANGED <<rowVars, asks, pc, got, todo, pending, aim>>
    PROVE  Parts' /\ AnswersKept'
<1> USE ChannelAssumption DEF ChannelAssumption
<1>1. aim[x] \in Asks /\ aim[x] <= asks
  BY DEF Parts, Aims
<1>2. \/ waiter' = waiter
      \/ /\ waiter[aim[x]] = "open" /\ waiter' = [waiter EXCEPT ![aim[x]] = x]
         /\ ~exists \/ reply[aim[x]] = x
  BY DEF Ends, Resolve
<1>3. Unasked'
  <2>1. \A a \in Asks : a > asks => a # aim[x]
    BY <1>1 DEF TypeOK, Asks
  <2>2. \A a \in Asks : a > asks => waiter'[a] = waiter[a]
    BY <1>1, <1>2, <2>1 DEF TypeOK
  <2>3. QED
    BY <2>2 DEF Parts, Unasked, rowVars
<1>4. QuestionRows'
  BY DEF Parts, QuestionRows, rowVars
<1>5. Futures'
  BY <1>1, <1>2 DEF TypeOK, Parts, Futures, rowVars, Answerers
<1>6. Aims'
  BY DEF TypeOK, Parts, Aims, Ends, Submitting, rowVars
<1>7. AnswersKept'
  BY DEF AnswersKept, OneAnswer, SavedIsReply, rowVars
<1>8. QED
  BY <1>3, <1>4, <1>5, <1>6, <1>7 DEF Parts

LEMMA QuestionsInit == Init => Parts /\ AnswersKept
BY ChannelAssumption
   DEF ChannelAssumption, Init, Parts, AnswersKept, Unasked, QuestionRows, Futures, Aims, OneAnswer,
       SavedIsReply, Asks, Answerers, Asking, Submitting

LEMMA QuestionsNext == TypeOK /\ Parts /\ AnswersKept /\ [Next]_vars => Parts' /\ AnswersKept'
<1> SUFFICES ASSUME TypeOK, Parts, AnswersKept, [Next]_vars PROVE Parts' /\ AnswersKept'
  OBVIOUS
<1> USE ChannelAssumption DEF ChannelAssumption
<1>1. ASSUME NEW d \in Deliveries, InboundStep(d) PROVE Parts' /\ AnswersKept'
  <2>1. CASE Answers(d)
    <3>1. CASE UNCHANGED <<pending, submitVars>>
      BY <2>1, <3>1, QuestionsKept DEF Answers, questionVars, askVars
    <3>2. CASE ~ UNCHANGED <<pending, submitVars>>
      <4>1. /\ pending' = 0 /\ pending \in Asks /\ pending <= asks
            /\ submit' = [submit EXCEPT ![d] = "looking"]
            /\ aim' = [aim EXCEPT ![d] = pending]
            /\ UNCHANGED <<rowVars, askVars>>
        BY <2>1, <3>2 DEF Answers, TypeOK, Parts, Unasked, Asks
      <4>2. Unasked' /\ QuestionRows' /\ Futures' /\ AnswersKept'
        BY <4>1 DEF TypeOK, Parts, Unasked, QuestionRows, Futures, AnswersKept, OneAnswer, SavedIsReply,
                    rowVars, askVars
      <4>3. Aims'
        BY <4>1 DEF TypeOK, Parts, Aims, rowVars, askVars, Submitting, Answerers
      <4>4. QED
        BY <4>2, <4>3 DEF Parts
    <3>3. QED
      BY <3>1, <3>2
  <2>2. CASE ~ Answers(d)
    BY <1>1, <2>2, QuestionsKept
       DEF InboundStep, Arrives, Logs, Subscribes, Joins, Waited, WaitFailed, questionVars,
           askVars, respVars
  <2>3. QED
    BY <2>1, <2>2
<1>2. ASSUME NEW t \in Deliveries, TurnStep(t) PROVE Parts' /\ AnswersKept'
  <2>1. CASE Announces(t) \/ TurnDone(t)
    BY <2>1, QuestionsKept DEF Announces, TurnDone, questionVars, askVars, respVars
  <2>2. CASE TurnCancelled(t)
    <3>1. /\ \A a \in Asks : pc'[a] = pc[a] \/ (pc'[a] = "cancelled" /\ pc[a] \in Asking)
          /\ \A a \in Asks : waiter'[a] = waiter[a]
                             \/ (waiter'[a] = "none" /\ pc'[a] = "cancelled")
          /\ \A a \in Asks : todo'[a] = todo[a] \/ todo'[a] = {}
      BY <2>2 DEF TurnCancelled
    <3> UNCHANGED <<rowVars, asks, got, pending, submitVars>>
      BY <2>2 DEF TurnCancelled, respVars
    <3>2. Unasked' /\ QuestionRows' /\ Aims' /\ SavedIsReply'
      BY <3>1 DEF TypeOK, Parts, Unasked, QuestionRows, Aims, AnswersKept, SavedIsReply, rowVars,
                  submitVars, Asking
    <3>3. Futures' /\ OneAnswer'
      BY <3>1 DEF TypeOK, Parts, Futures, AnswersKept, OneAnswer, rowVars, Asking
    <3>4. QED
      BY <3>2, <3>3 DEF Parts, AnswersKept
  <2>3. CASE Ask(t)
    <3>1. asks' = asks + 1 /\ asks' \in Asks /\ exists /\ pending' = pending
      BY <2>3 DEF Ask, TypeOK, Asks, respVars
    <3>2. /\ row' = [row EXCEPT ![asks'] = "pending"]
          /\ waiter' = [waiter EXCEPT ![asks'] = "open"]
          /\ pc' = [pc EXCEPT ![asks'] = "emitting"]
          /\ todo' = [todo EXCEPT ![asks'] = subs]
          /\ reply[asks'] = Nobody
          /\ UNCHANGED <<exists, reply, saved, got, submitVars>>
      BY <2>3, <3>1 DEF Ask, TypeOK, Parts, Unasked
    <3>3. Unasked' /\ QuestionRows' /\ Aims' /\ SavedIsReply'
      BY <3>1, <3>2 DEF TypeOK, Parts, Unasked, QuestionRows, Aims, AnswersKept, SavedIsReply, submitVars,
                        Asks
    <3>4. Futures' /\ OneAnswer'
      <4>1. "open" \notin Answerers
        OBVIOUS
      <4>2. \A a \in Asks : a # asks' => waiter'[a] = waiter[a] /\ pc'[a] = pc[a]
        BY <3>2 DEF TypeOK
      <4>3. waiter'[asks'] = "open" /\ pc'[asks'] = "emitting"
        BY <3>1, <3>2 DEF TypeOK
      <4>4. QED
        BY <3>2, <4>1, <4>2, <4>3 DEF Parts, Futures, AnswersKept, OneAnswer
    <3>5. QED
      BY <3>3, <3>4 DEF Parts, AnswersKept
  <2>4. QED
    BY <1>2, <2>1, <2>2, <2>3 DEF TurnStep
<1>3. ASSUME NEW a \in Asks, WaitStep(a) \/ TimesOut(a) PROVE Parts' /\ AnswersKept'
  <2>1. ASSUME NEW d \in Deliveries, Asked(d, a) PROVE Parts' /\ AnswersKept'
    <3>1. /\ pending' = a /\ a <= asks
          /\ todo' = [todo EXCEPT ![a] = todo[a] \ {d}]
          /\ UNCHANGED <<rowVars, asks, pc, got, waiter, submitVars>>
      BY <2>1 DEF Asked, TypeOK, Parts, Unasked, Asks
    <3>2. QED
      BY <3>1 DEF TypeOK, Parts, AnswersKept, Unasked, QuestionRows, Futures, Aims, OneAnswer,
                  SavedIsReply, rowVars, submitVars, Asks
  <2>2. ASSUME NEW how \in Over, NEW x, Leaves(a, how, x), pc[a] \in Asking,
               how = "answered" => x \in Answerers /\ (exists => x = reply[a]),
               UNCHANGED <<rowVars, asks, todo, pending, submitVars>>
        PROVE  Parts' /\ AnswersKept'
    <3>1. Unasked' /\ QuestionRows' /\ Aims' /\ SavedIsReply'
      <4>1. Unasked' /\ QuestionRows' /\ Aims'
        <5>1. Unasked'
          BY <2>2 DEF Leaves, TypeOK, Parts, Unasked, rowVars, Asking, Asks
        <5>2. QuestionRows' /\ Aims'
          <6> UNCHANGED <<rowVars, asks, submitVars>>
            BY <2>2
          <6> QED
            BY DEF Parts, QuestionRows, Aims, rowVars, submitVars
        <5> QED
          BY <5>1, <5>2
      <4>2. SavedIsReply'
        BY <2>2 DEF Leaves, TypeOK, Parts, Unasked, AnswersKept, SavedIsReply, rowVars, submitVars, Asking, Asks
      <4> QED
        BY <4>1, <4>2
    <3>2. Futures' /\ OneAnswer'
      BY <2>2 DEF Leaves, TypeOK, Parts, Futures, AnswersKept, OneAnswer, rowVars, Asking, Over
    <3>3. QED
      BY <3>1, <3>2 DEF Parts, AnswersKept
  <2>3. ASSUME NEW state \in {"polling", "sleeping"}, pc[a] \in Asking,
               pc' = [pc EXCEPT ![a] = state],
               UNCHANGED <<rowVars, asks, got, waiter, todo, pending, submitVars>>
        PROVE  Parts' /\ AnswersKept'
    BY <2>3 DEF TypeOK, Parts, AnswersKept, Unasked, QuestionRows, Futures, Aims, OneAnswer, SavedIsReply,
                rowVars, submitVars, Asking
  <2>4. CASE Looks(a)
    <3>1. pc[a] \in Asking /\ waiter[a] \in Answerers \cup {"open"}
      BY <2>4 DEF Looks, TypeOK, Parts, Futures, Asking
    <3>2. UNCHANGED <<rowVars, asks, todo, pending, submitVars>>
      BY <2>4 DEF Looks, respVars
    <3>3. CASE waiter[a] = "open"
      BY <2>3, <2>4, <3>1, <3>2, <3>3 DEF Looks
    <3>4. CASE waiter[a] # "open"
      <4>1. Leaves(a, "answered", waiter[a]) /\ waiter[a] \in Answerers
            /\ (exists => waiter[a] = reply[a])
        BY <2>4, <3>1, <3>4 DEF Looks, Parts, Futures
      <4>2. QED
        BY <2>2, <3>1, <3>2, <4>1 DEF Over
    <3>5. QED
      BY <3>3, <3>4
  <2>5. CASE Polls(a)
    <3>1. pc[a] \in Asking /\ UNCHANGED <<rowVars, asks, todo, pending, submitVars>>
      BY <2>5 DEF Polls, Asking, respVars
    <3>2. CASE row[a] = "responded"
      <4>1. Leaves(a, "answered", reply[a]) /\ reply[a] \in Answerers
        BY <2>5, <3>2 DEF Polls, Parts, QuestionRows
      <4>2. QED
        BY <2>2, <3>1, <4>1 DEF Over
    <3>3. CASE row[a] # "responded"
      BY <2>3, <2>5, <3>1, <3>3 DEF Polls
    <3>4. QED
      BY <3>2, <3>3
  <2>6. CASE TimesOut(a)
    BY <2>2, <2>6 DEF TimesOut, Over, Asking, respVars
  <2>7. QED
    BY <1>3, <2>1, <2>4, <2>5, <2>6 DEF WaitStep
<1>4. ASSUME NEW d \in Deliveries, NEW a \in Asks, Notice(d, a) PROVE Parts' /\ AnswersKept'
  BY <1>4, QuestionsKept DEF Notice, questionVars, askVars
<1>5. ASSUME NEW x \in Submits, Submit(x) PROVE Parts' /\ AnswersKept'
  <2>1. x \in Answerers /\ \E a \in 1..asks : aim' = [aim EXCEPT ![x] = a]
    BY <1>5 DEF Submit, Answerers
  <2>2. Aims'
    BY <1>5, <2>1 DEF Submit, TypeOK, Parts, Aims, Asks, Submitting, rowVars, askVars
  <2>3. QED
    BY <1>5, <2>2 DEF Submit, Parts, AnswersKept, Unasked, QuestionRows, Futures, OneAnswer, SavedIsReply,
                      rowVars, askVars, respVars
<1>6. ASSUME NEW x \in Answerers, SubmitStep(x) PROVE Parts' /\ AnswersKept'
  <2>1. CASE FindsConversation(x)
    <3>1. CASE exists
      BY <2>1, <3>1 DEF FindsConversation, TypeOK, Parts, AnswersKept, Unasked, QuestionRows, Futures,
                        Aims, OneAnswer, SavedIsReply, Submitting, rowVars, respVars
    <3>2. CASE ~exists
      BY <2>1, <3>2, EndsKept DEF FindsConversation, Submitting, respVars
    <3>3. QED
      BY <3>1, <3>2
  <2>2. CASE Updates(x)
    <3>1. aim[x] \in Asks /\ aim[x] <= asks /\ submit[x] \in Submitting
      BY <2>2 DEF Updates, Parts, Aims, Submitting
    <3>2. CASE Accepts(aim[x])
      <4>1. /\ row[aim[x]] = "pending" /\ reply[aim[x]] = Nobody /\ exists
            /\ row' = [row EXCEPT ![aim[x]] = "responded"]
            /\ reply' = [reply EXCEPT ![aim[x]] = x]
            /\ submit' = [submit EXCEPT ![x] = "saving"]
            /\ UNCHANGED <<exists, saved, asks, pc, got, waiter, todo, pending, aim>>
        BY <2>2, <3>1, <3>2 DEF Updates, Accepts, Fulfil, Parts, QuestionRows, respVars
      <4>2. Unasked' /\ QuestionRows' /\ Aims'
        BY <3>1, <4>1 DEF TypeOK, Parts, Unasked, QuestionRows, Aims, Submitting, Asks
      <4>3. Futures' /\ OneAnswer'
        BY <3>1, <4>1 DEF TypeOK, Parts, Futures, AnswersKept, OneAnswer, Asks
      <4>4. SavedIsReply'
        <5>1. saved[aim[x]] = {}
          BY <3>1, <4>1 DEF TypeOK, AnswersKept, SavedIsReply
        <5>2. QED
          BY <3>1, <4>1, <5>1 DEF TypeOK, AnswersKept, SavedIsReply
      <4>5. QED
        BY <4>2, <4>3, <4>4 DEF Parts, AnswersKept
    <3>3. CASE ~Accepts(aim[x])
      <4>1. PICK status \in {"notfound", "already"} :
               Ends(x, status) /\ (status = "notfound" => row[aim[x]] = "none")
        BY <2>2, <3>3 DEF Updates
      <4>2. status = "notfound" => ~exists
        BY <3>1, <4>1 DEF Parts, QuestionRows
      <4>3. QED
        BY <2>2, <3>1, <3>3, <4>1, <4>2, EndsKept DEF Updates, rowVars, respVars
    <3>4. QED
      BY <3>2, <3>3
  <2>3. CASE Saves(x)
    <3>1. aim[x] \in Asks /\ aim[x] <= asks /\ submit[x] \in Submitting /\ reply[aim[x]] = x
      BY <2>3 DEF Saves, Parts, Aims, Submitting
    <3>2. CASE row[aim[x]] # "none"
      <4>1. /\ saved' = [saved EXCEPT ![aim[x]] = saved[aim[x]] \cup {x}]
            /\ submit' = [submit EXCEPT ![x] = "logging"]
            /\ UNCHANGED <<exists, row, reply, asks, pc, got, waiter, todo, pending, aim>>
        BY <2>3, <3>2 DEF Saves, respVars
      <4>2. Unasked' /\ QuestionRows' /\ Futures' /\ Aims' /\ OneAnswer'
        BY <3>1, <4>1 DEF TypeOK, Parts, Unasked, QuestionRows, Futures, Aims, AnswersKept, OneAnswer,
                          Submitting
      <4>3. SavedIsReply'
        BY <3>1, <4>1 DEF TypeOK, AnswersKept, SavedIsReply
      <4>4. QED
        BY <4>2, <4>3 DEF Parts, AnswersKept
    <3>3. CASE row[aim[x]] = "none"
      BY <2>3, <3>1, <3>3, EndsKept DEF Saves, rowVars, respVars
    <3>4. QED
      BY <3>2, <3>3
  <2>4. CASE Fulfilled(x)
    <3>1. reply[aim[x]] = x /\ submit[x] \in Submitting
      BY <2>4 DEF Fulfilled, Parts, Aims, Submitting
    <3>2. QED
      BY <2>4, <3>1, EndsKept DEF Fulfilled, respVars
  <2>5. CASE SubmitFails(x)
    BY <2>5 DEF SubmitFails, TypeOK, Parts, AnswersKept, Unasked, QuestionRows, Futures, Aims, OneAnswer,
                SavedIsReply, Submitting, rowVars, askVars, respVars
  <2>6. QED
    BY <1>6, <2>1, <2>2, <2>3, <2>4, <2>5 DEF SubmitStep
<1>7. CASE Delete
  BY <1>7 DEF Delete, TypeOK, Parts, AnswersKept, Unasked, QuestionRows, Futures, Aims, OneAnswer,
              SavedIsReply, askVars, respVars, submitVars
<1>8. CASE UNCHANGED vars
  BY <1>8, QuestionsKept DEF vars, questionVars, askVars, respVars
<1>9. QED
  BY <1>1, <1>2, <1>3, <1>4, <1>5, <1>6, <1>7, <1>8 DEF Next

-----------------------------------------------------------------------------
(* Inbound messages                                                        *)

LEMMA LogInit == Init => Logged /\ ProcessedOnce
BY ChannelAssumption
   DEF ChannelAssumption, Init, Logged, ProcessedOnce, Answerers, Processed, Submitting

\* A step that moves no delivery but those that are processed already.
LEMMA LogKept ==
    ASSUME TypeOK, Logged, ProcessedOnce, UNCHANGED logged,
           \A d \in Deliveries :
               /\ inbound'[d] = inbound[d] \/ inbound[d] \in Processed
                                           \/ inbound'[d] \notin Processed
               /\ submit'[d] \in Submitting => inbound'[d] \in Processed
    PROVE  Logged' /\ ProcessedOnce'
BY DEF Logged, ProcessedOnce

LEMMA LogNext ==
    TypeOK /\ Logged /\ ProcessedOnce /\ [Next]_vars => Logged' /\ ProcessedOnce'
<1> SUFFICES ASSUME TypeOK, Logged, ProcessedOnce, [Next]_vars PROVE Logged' /\ ProcessedOnce'
  OBVIOUS
<1> USE ChannelAssumption DEF ChannelAssumption
<1>1. ASSUME NEW d \in Deliveries, InboundStep(d) PROVE Logged' /\ ProcessedOnce'
  <2>1. CASE Arrives(d)
    BY <2>1, LogKept DEF Arrives, TypeOK, Logged, Processed, submitVars
  <2>2. CASE Logs(d)
    <3>1. /\ inbound[d] = "fresh" /\ logged' = logged \cup {Message[d]}
          /\ inbound'[d] = (IF Message[d] \in logged THEN "dropped" ELSE "logged")
          /\ \A e \in Deliveries : e # d => inbound'[e] = inbound[e]
          /\ UNCHANGED submit
      BY <2>2 DEF Logs, TypeOK, submitVars
    <3>2. Logged'
      BY <3>1 DEF Logged, Processed
    <3>3. ProcessedOnce'
      BY <3>1 DEF Logged, ProcessedOnce, Processed
    <3>4. QED
      BY <3>2, <3>3
  <2>3. CASE Answers(d)
    <3>1. inbound[d] \in Processed /\ logged' = logged
      BY <2>3 DEF Answers, Processed
    <3>2. \A e \in Deliveries : e # d => inbound'[e] = inbound[e] /\ submit'[e] = submit[e]
      BY <2>3 DEF Answers, TypeOK, Answerers, submitVars
    <3>3. inbound'[d] \in Processed
      BY <2>3 DEF Answers, TypeOK, Processed
    <3>4. QED
      BY <3>1, <3>2, <3>3, LogKept DEF Logged
  <2>4. CASE Subscribes(d) \/ Joins(d) \/ Waited(d) \/ WaitFailed(d)
    <3>1. inbound[d] \in Processed /\ logged' = logged /\ submit' = submit
      BY <2>4 DEF Subscribes, Joins, Waited, WaitFailed, Processed, submitVars
    <3>2. inbound'[d] \in Processed /\ \A e \in Deliveries : e # d => inbound'[e] = inbound[e]
      BY <2>4 DEF Subscribes, Joins, Waited, WaitFailed, StartTurn, TypeOK, Processed
    <3>3. QED
      BY <3>1, <3>2, LogKept DEF Logged
  <2>5. QED
    BY <1>1, <2>1, <2>2, <2>3, <2>4 DEF InboundStep
<1>2. ASSUME NEW t \in Deliveries, TurnStep(t) PROVE Logged' /\ ProcessedOnce'
  BY <1>2 DEF TurnStep, Announces, TurnDone, TurnCancelled, Ask, Logged, ProcessedOnce, inVars,
              submitVars
<1>3. ASSUME NEW a \in Asks, WaitStep(a) \/ TimesOut(a) PROVE Logged' /\ ProcessedOnce'
  BY <1>3 DEF WaitStep, Asked, Looks, Polls, TimesOut, Logged, ProcessedOnce, inVars, respVars,
              submitVars
<1>4. ASSUME NEW d \in Deliveries, NEW a \in Asks, Notice(d, a) PROVE Logged' /\ ProcessedOnce'
  BY <1>4 DEF Notice, Logged, ProcessedOnce, inVars, submitVars
<1>5. ASSUME NEW x \in Submits, Submit(x) PROVE Logged' /\ ProcessedOnce'
  <2>1. \A d \in Deliveries : submit'[d] = submit[d]
    BY <1>5 DEF Submit, TypeOK
  <2>2. QED
    BY <1>5, <2>1 DEF Submit, Logged, ProcessedOnce, inVars
<1>6. ASSUME NEW x \in Answerers, SubmitStep(x) PROVE Logged' /\ ProcessedOnce'
  <2>1. /\ submit[x] \in Submitting /\ logged' = logged
        /\ \A y \in Answerers : y # x => submit'[y] = submit[y]
        /\ \A d \in Deliveries : d # x => inbound'[d] = inbound[d]
        /\ inbound' = inbound \/ (x \in Deliveries /\ inbound'[x] = "processed")
    BY <1>6 DEF SubmitStep, FindsConversation, Updates, Saves, Fulfilled, SubmitFails, Ends,
                TypeOK, Submitting
  <2>2. x \in Deliveries => inbound[x] \in Processed /\ inbound'[x] \in Processed
    BY <2>1 DEF Logged, Processed
  <2>3. QED
    BY <2>1, <2>2, LogKept DEF Logged, Answerers
<1>7. CASE Delete \/ UNCHANGED vars
  BY <1>7 DEF Delete, vars, Logged, ProcessedOnce, inVars, submitVars
<1>8. QED
  BY <1>1, <1>2, <1>3, <1>4, <1>5, <1>6, <1>7 DEF Next

-----------------------------------------------------------------------------
(* Theorems                                                                *)

\* Every reachable state satisfies the inductive invariant.
THEOREM ChannelInvariant == Spec => []ChannelInv
<1>1. Init => ChannelInv
  BY TypeInit, QuestionsInit, LogInit DEF ChannelInv
<1>2. ChannelInv /\ [Next]_vars => ChannelInv'
  BY TypeNext, QuestionsNext, LogNext DEF ChannelInv
<1>3. QED
  BY <1>1, <1>2, PTL DEF Spec

\* The state of a channel conversation keeps its types, however messages, turns,
\* questions and answers interleave.
THEOREM ChannelTypes == Spec => []TypeOK
<1>1. ChannelInv => TypeOK
  BY DEF ChannelInv
<1>2. QED
  BY ChannelInvariant, <1>1, PTL

\* A question is answered once: emit_and_wait returns the response that the
\* prompt's row has, and the history has no other.
THEOREM ChannelAnswers == Spec => []AnswersKept
<1>1. ChannelInv => AnswersKept
  BY DEF ChannelInv
<1>2. QED
  BY ChannelInvariant, <1>1, PTL

\* A message that the provider delivers twice is processed at most once.
THEOREM ChannelProcessed == Spec => []ProcessedOnce
<1>1. ChannelInv => ProcessedOnce
  BY DEF ChannelInv
<1>2. QED
  BY ChannelInvariant, <1>1, PTL

-----------------------------------------------------------------------------
(* Links.  The operations of the chat and those of the bots touch different variables and
   jobs, so each half of the invariant has to be kept by its own half of the steps. *)

-----------------------------------------------------------------------------
(* The inductive invariant                                                 *)

ChatPlaces == {"idle", "over", "arrived", "router", "session", "create", "insert", "unlink",
               "consume", "use", "check", "relink", "link"}
BotPlaces == {"idle", "over", "arrived", "verify", "upsert", "unset", "restart", "start",
              "write", "failing"}

JobsOK ==
    /\ provider \in {"telegram", "discord"}
    /\ DOMAIN job = Jobs
    /\ \A j \in Jobs :
        /\ job[j] = [op |-> job[j].op, at |-> job[j].at, bot |-> job[j].bot, tok |-> job[j].tok,
                     row |-> job[j].row, seen |-> job[j].seen, client |-> job[j].client]
        /\ job[j].op \in ChatOps \cup BotOps
        /\ job[j].op \in ChatOps => job[j].at \in ChatPlaces
        /\ job[j].op \in BotOps => job[j].at \in BotPlaces
        /\ job[j].op \in BotOps /\ job[j].at \in {"restart", "start"} => provider = "discord"

AccountRows == [bot : Bots, user : Bots, status : {"active", "unlinked"}]
SessionRows == [account : Nat, user : Bots, active : BOOLEAN]

ChatTypes ==
    /\ account \in Seq(AccountRows)
    /\ chatSession \in Seq(SessionRows)
    /\ \A s \in DOMAIN chatSession : chatSession[s].account \in DOMAIN account
    /\ token \in [LinkTokens -> [user : Bots \cup {None}, state : {None, "fresh", "used"}]]
    /\ entered \in SUBSET (Bots \X Bots)

BotTypes ==
    /\ bot \in [Bots -> [status : {None, "active", "error", "disabled"}, secret : Sources]]
    /\ hook \in [Bots -> Sources \cup {None}] /\ tabled \in [Bots -> Sources \cup {None}]
    /\ running \in [Bots -> SUBSET Sources]

\* What a job of the chat remembers: its row is of its bot, and the token that got a
\* /start past the check is of its bot's user.
RemembersIn(r, rows, tokens) ==
    /\ r.op \in MessageOps /\ r.at \notin {"idle", "over"} => r.bot \in Bots
    /\ r.op = "start" /\ r.at \notin {"idle", "over"} => r.tok \in LinkTokens
    /\ r.at \in {"session", "create", "insert", "unlink"} \/ (r.at = "link" /\ r.row # 0) =>
          r.row \in DOMAIN rows /\ rows[r.row].bot = r.bot
    /\ r.at \in {"use", "check", "relink", "link"} =>
          r.op = "start" /\ tokens[r.tok].state # None
    /\ r.at \in {"relink", "link"} => tokens[r.tok].user = r.bot

Remembers == \A j \in Jobs : job[j].op \in ChatOps => RemembersIn(job[j], account, token)

ChatInv == ChatTypes /\ Remembers /\ Owned

Linking(j) == job[j].op = "start" /\ job[j].at = "link"
Inserting(j) == job[j].op = "text" /\ job[j].at = "insert"

\* Only overlapping transactions make a second account or session of a bot, because a job
\* that is about to insert one knows the rows there are.
Alone ==
    /\ \A a, c \in DOMAIN account :
           account[a].bot = account[c].bot /\ account[a].bot \notin raced => a = c
    /\ \A i, j \in Jobs : i # j /\ Linking(i) /\ Linking(j) /\ job[i].bot = job[j].bot =>
           provider = "telegram" \/ job[i].bot \in raced
    /\ \A j \in Jobs : Linking(j) /\ job[j].row = 0 /\ provider = "discord" /\ job[j].bot \notin raced =>
           \A a \in DOMAIN account : account[a].bot # job[j].bot

AloneSessions ==
    /\ \A s, t \in DOMAIN chatSession :
           /\ chatSession[s].active /\ chatSession[t].active
           /\ chatSession[s].account = chatSession[t].account
           /\ account[chatSession[s].account].bot \notin raced
           => s = t
    /\ \A i, j \in Jobs : i # j /\ Inserting(i) /\ Inserting(j) /\ job[i].row = job[j].row =>
           job[i].bot \in raced
    /\ \A j \in Jobs : Inserting(j) /\ job[j].bot \notin raced =>
           \A s \in DOMAIN chatSession :
               chatSession[s].active /\ chatSession[s].account = job[j].row => s \in job[j].seen

Changes(j, b) == job[j].op \in {"save", "disable"} /\ job[j].bot = b /\ job[j].at \notin {"idle", "over"}

Settled(b) ==
    /\ bot[b].status = "active" => Reachable(b) \/ \E j \in Jobs : Failing(j, b)
    /\ bot[b].status = "disabled" => running[b] = {}

\* What a request that changes a bot knows of it where it stands.
Knows(j) ==
    LET b == job[j].bot IN
    /\ job[j].at = "arrived" => Settled(b)
    /\ job[j].at \in {"verify", "upsert", "unset"} => job[j].op = "save" /\ provider = "telegram"
    /\ job[j].at = "upsert" => hook[b] = j
    /\ job[j].at \in {"restart", "start"} =>
          job[j].op = "save" /\ provider = "discord" /\ bot[b].status # "disabled"
    /\ job[j].at \in {"start", "write"} => running[b] = {}
    /\ job[j].at = "write" => job[j].op = "disable"

BotInv ==
    /\ BotTypes
    /\ provider = "telegram" => \A b \in Bots : running[b] = {}
    /\ \A b \in Bots \ disturbed :
        /\ running[b] \subseteq {tabled[b]}
        /\ \A i, j \in Jobs : Changes(i, b) /\ Changes(j, b) => i = j
        /\ \A j \in Jobs : Changes(j, b) => Knows(j)
        /\ (\A j \in Jobs : ~Changes(j, b)) => Settled(b)
    /\ \A j \in Jobs : job[j].op \in BotOps /\ job[j].at \notin {"idle", "over"} => job[j].bot \in Bots

LinksInv == JobsOK /\ ChatInv /\ Alone /\ AloneSessions /\ BotInv

-----------------------------------------------------------------------------
(* The two halves                                                          *)

\* A step of the chat leaves the bots and their jobs alone, and the other way round.
LEMMA Halves ==
    ASSUME JobsOK, NEW j \in Jobs
    PROVE  /\ Chat(j) => /\ job[j].op \in ChatOps /\ DOMAIN job' = Jobs
                         /\ \A i \in Jobs : i # j => job'[i] = job[i]
                         /\ UNCHANGED <<provider, botVars>>
           /\ Setup(j) => /\ job[j].op \in BotOps /\ DOMAIN job' = Jobs
                          /\ \A i \in Jobs : job[i].op \in ChatOps => job'[i] = job[i]
                          /\ UNCHANGED <<provider, chatVars>>
<1>1. ASSUME Chat(j)
      PROVE  /\ job[j].op \in ChatOps /\ DOMAIN job' = Jobs
             /\ \A i \in Jobs : i # j => job'[i] = job[i]
             /\ UNCHANGED <<provider, botVars>>
  BY <1>1 DEF Chat, Comes, FindAccount, FindSession, Deactivate, CreateSession, Route, EndSession,
              Unlink, UnlinkChannelAccount, ReadToken, UseToken, CheckBot, FindRow, CreateAccount,
              CreateLinkToken, Is, Proceeds, Done, Finds, Starts, ChatOps, MessageOps, JobsOK,
              botVars
<1>2. ASSUME Setup(j)
      PROVE  /\ job[j].op \in BotOps /\ DOMAIN job' = Jobs
             /\ \A i \in Jobs : job[i].op \in ChatOps => job'[i] = job[i]
             /\ UNCHANGED <<provider, chatVars>>
  <2>1. job[j].op \in BotOps /\ DOMAIN job' = Jobs /\ UNCHANGED <<provider, chatVars>>
    BY <1>2 DEF Setup, ChangeBot, DeleteWebhook, TokenRefused, SetWebhook, Upsert, WriteDisabled,
                StopClient, StartClient, ReportFailure, ClientFails, StopsFor, Is, Proceeds, Done,
                Starts, BotOps, JobsOK
  <2>2. \A i \in Jobs : job[i].op \in ChatOps => job'[i] = job[i]
    <3>1. CASE StopClient(j)
      BY <3>1 DEF StopClient, StopsFor, Failing, Is, BotOps, ChatOps, MessageOps
    <3>2. CASE \E b \in Bots : \E k \in running[b] : ClientFails(j, b, k)
      BY <2>1, <3>2 DEF ClientFails, Is, BotOps, ChatOps, MessageOps
    <3>3. CASE \E op \in {"save", "disable"}, b \in Bots : ChangeBot(j, op, b)
      BY <2>1, <3>3 DEF ChangeBot, Starts, Is, BotOps, ChatOps, MessageOps
    <3>4. CASE \/ DeleteWebhook(j) \/ TokenRefused(j) \/ SetWebhook(j) \/ Upsert(j)
               \/ WriteDisabled(j) \/ StartClient(j) \/ ReportFailure(j)
      BY <2>1, <3>4 DEF DeleteWebhook, TokenRefused, SetWebhook, Upsert, WriteDisabled,
                  StartClient, ReportFailure, Is, Proceeds, Done, BotOps, ChatOps, MessageOps
    <3>5. QED
      BY <1>2, <3>1, <3>2, <3>3, <3>4 DEF Setup
  <2>3. QED
    BY <2>1, <2>2
<1>3. QED
  BY <1>1, <1>2

LEMMA JobsInit == LinksInit => JobsOK
<1> SUFFICES ASSUME LinksInit PROVE JobsOK
  OBVIOUS
<1>1. PICK by \in {"telegram", "discord"}, set \in {{}, Bots}, acts \in Acts :
          LinksStart(by, set, acts)
  BY DEF LinksInit
<1>2. QED
  BY <1>1, LinksAssumption DEF LinksStart, JobsOK, Waits, ChatPlaces, BotPlaces

LEMMA JobsNext ==
    JobsOK /\ [LinksNext]_linkVars => JobsOK' /\ \A i \in Jobs : job'[i].op = job[i].op
<1> DEFINE Goal == JobsOK' /\ \A i \in Jobs : job'[i].op = job[i].op
<1> SUFFICES ASSUME JobsOK, [LinksNext]_linkVars PROVE Goal
  OBVIOUS
<1> DEFINE Whole(r) == r = [op |-> r.op, at |-> r.at, bot |-> r.bot, tok |-> r.tok,
                            row |-> r.row, seen |-> r.seen, client |-> r.client]
           Placed(r) == /\ r.op \in ChatOps \cup BotOps
                        /\ r.op \in ChatOps => r.at \in ChatPlaces
                        /\ r.op \in BotOps => r.at \in BotPlaces
                        /\ r.op \in BotOps /\ r.at \in {"restart", "start"} => provider = "discord"
<1>1. ASSUME NEW j \in Jobs, Chat(j) PROVE Goal
  <2>1. Whole(job'[j]) /\ job'[j].op = job[j].op /\ job'[j].at \in ChatPlaces
    <3>1. CASE \E op \in MessageOps, b \in Bots, t \in LinkTokens \cup {None} : Comes(j, op, b, t)
      BY <3>1 DEF Comes, Starts, Is, JobsOK, ChatPlaces
    <3>2. CASE FindAccount(j) \/ FindSession(j) \/ Route(j) \/ FindRow(j)
      BY <3>2 DEF FindAccount, FindSession, Route, FindRow, Proceeds, Done, Finds, JobsOK, ChatPlaces
    <3>3. CASE Deactivate(j) \/ CreateSession(j) \/ EndSession(j) \/ Unlink(j)
               \/ \E a \in DOMAIN account : UnlinkChannelAccount(j, a)
      BY <3>3 DEF Deactivate, CreateSession, EndSession, Unlink, UnlinkChannelAccount, Proceeds,
                  Done, JobsOK, ChatPlaces
    <3>4. CASE \/ ReadToken(j) \/ UseToken(j) \/ CheckBot(j) \/ CreateAccount(j)
               \/ \E t \in LinkTokens, b \in Bots : CreateLinkToken(j, t, b)
      BY <3>4 DEF ReadToken, UseToken, CheckBot, CreateAccount, CreateLinkToken, Proceeds, Done,
                  JobsOK, ChatPlaces
    <3>5. QED
      BY <1>1, <3>1, <3>2, <3>3, <3>4 DEF Chat
  <2>2. job[j].op \in ChatOps /\ job[j].op \notin BotOps
    BY <1>1, Halves DEF ChatOps, BotOps, MessageOps
  <2>3. QED
    BY <1>1, <2>1, <2>2, Halves DEF JobsOK
<1>2. ASSUME NEW j \in Jobs, Setup(j) PROVE Goal
  <2>1. \A i \in Jobs : job[i].op \in BotOps =>
            Whole(job'[i]) /\ job'[i].op = job[i].op /\ job'[i].at \in BotPlaces
            /\ (job'[i].at \in {"restart", "start"} => provider = "discord")
    <3>1. CASE StopClient(j)
      BY <3>1 DEF StopClient, StopsFor, Is, JobsOK, BotPlaces
    <3>2. CASE \E b \in Bots : \E k \in running[b] : ClientFails(j, b, k)
      <4>1. \A i \in Jobs : i # j => job'[i] = job[i]
        BY <3>2 DEF ClientFails
      <4>2. Whole(job'[j]) /\ job'[j].op = job[j].op /\ job'[j].at \in BotPlaces
            /\ (job'[j].at \in {"restart", "start"} => provider = "discord")
        <5>1. PICK b, k :
                  job' = [job EXCEPT ![j] = [@ EXCEPT !.at = "failing", !.bot = b, !.client = k]]
          BY <3>2 DEF ClientFails, JobsOK
        <5>2. job'[j] = [job[j] EXCEPT !.at = "failing", !.bot = b, !.client = k]
          BY <5>1 DEF JobsOK
        <5>3. QED
          BY <5>2 DEF JobsOK, BotPlaces
      <4>3. QED
        BY <4>1, <4>2 DEF JobsOK
    <3>3. CASE \E op \in {"save", "disable"}, b \in Bots : ChangeBot(j, op, b)
      <4>1. \A i \in Jobs : i # j => job'[i] = job[i]
        BY <3>3 DEF ChangeBot, Starts
      <4>2. Whole(job'[j]) /\ job'[j].op = job[j].op /\ job'[j].at \in BotPlaces
            /\ (job'[j].at \in {"restart", "start"} => provider = "discord")
        BY <3>3, ZenonT(30) DEF ChangeBot, Starts, JobsOK, BotPlaces
      <4>3. QED
        BY <4>1, <4>2 DEF JobsOK
    <3>4. CASE \/ DeleteWebhook(j) \/ TokenRefused(j) \/ SetWebhook(j) \/ Upsert(j)
               \/ WriteDisabled(j) \/ StartClient(j) \/ ReportFailure(j)
      BY <3>4 DEF DeleteWebhook, TokenRefused, SetWebhook, Upsert, WriteDisabled,
                  StartClient, ReportFailure, Proceeds, Done, JobsOK, BotPlaces
    <3>5. QED
      BY <1>2, <3>1, <3>2, <3>3, <3>4 DEF Setup
  <2>2. DOMAIN job' = Jobs /\ UNCHANGED provider
        /\ \A i \in Jobs : job[i].op \in ChatOps => job'[i] = job[i]
    BY <1>2, Halves DEF chatVars
  <2>3. ASSUME NEW i \in Jobs PROVE Whole(job'[i]) /\ Placed(job'[i]) /\ job'[i].op = job[i].op
    <3>1. CASE job[i].op \in ChatOps
      BY <2>2, <3>1 DEF JobsOK
    <3>2. CASE job[i].op \in BotOps
      BY <2>1, <3>2 DEF ChatOps, BotOps, MessageOps
    <3>3. QED
      BY <3>1, <3>2 DEF JobsOK
  <2>4. QED
    BY <2>2, <2>3 DEF JobsOK
<1>3. QED
  BY <1>1, <1>2 DEF LinksNext, JobsOK, linkVars

-----------------------------------------------------------------------------
(* Who owns what                                                           *)

\* Rows keep their bots and tokens their users, so what a job remembers stays true.
LEMMA StillRemembers ==
    ASSUME NEW r, r.op \in ChatOps, RemembersIn(r, account, token),
           DOMAIN account \subseteq DOMAIN account',
           \A a \in DOMAIN account : account'[a].bot = account[a].bot,
           \A t \in LinkTokens : token[t].state # None =>
               token'[t].state # None /\ token'[t].user = token[t].user
    PROVE  RemembersIn(r, account', token')
BY DEF RemembersIn

\* Ending sessions leaves them with their accounts and users.
LEMMA EndedSessions ==
    ASSUME ChatTypes, NEW ss
    PROVE  /\ Ended(ss) \in Seq(SessionRows)
           /\ Len(Ended(ss)) = Len(chatSession)
           /\ \A s \in DOMAIN chatSession : Ended(ss)[s].account = chatSession[s].account
                                            /\ Ended(ss)[s].user = chatSession[s].user
                                            /\ (Ended(ss)[s].active => chatSession[s].active /\ s \notin ss)
<1>1. DOMAIN chatSession = 1..Len(chatSession) /\ Len(chatSession) \in Nat
  BY DEF ChatTypes
<1>2. ASSUME NEW s \in DOMAIN chatSession
      PROVE  /\ Ended(ss)[s] \in SessionRows /\ Ended(ss)[s].account = chatSession[s].account
             /\ Ended(ss)[s].user = chatSession[s].user
             /\ Ended(ss)[s].active => chatSession[s].active /\ s \notin ss
  <2>1. chatSession[s] \in SessionRows
    BY <1>1, ElementOfSeq DEF ChatTypes
  <2>2. CASE s \in ss
    BY <2>1, <2>2 DEF Ended, SessionRows
  <2>3. CASE s \notin ss
    BY <2>1, <2>3 DEF Ended
  <2>4. QED
    BY <2>2, <2>3
<1>3. DOMAIN Ended(ss) = 1..Len(chatSession)
  BY <1>1 DEF Ended
<1>4. Ended(ss) = [s \in 1..Len(chatSession) |-> Ended(ss)[s]]
  BY <1>1 DEF Ended
<1>5. Ended(ss) \in Seq(SessionRows)
  BY <1>1, <1>2, <1>4
<1>6. QED
  BY <1>1, <1>2, <1>3, <1>5

\* A change of one account keeps the table a table.
LEMMA ChangedAccount ==
    ASSUME ChatTypes, NEW a \in DOMAIN account, NEW u \in Bots, NEW st \in {"active", "unlinked"},
           account' = [account EXCEPT ![a] = [bot |-> account[a].bot, user |-> u, status |-> st]]
    PROVE  /\ account' \in Seq(AccountRows)
           /\ DOMAIN account' = DOMAIN account
           /\ \A c \in DOMAIN account : account'[c].bot = account[c].bot
           /\ \A c \in DOMAIN account : c # a => account'[c] = account[c]
           /\ account'[a].user = u
<1>1. a \in 1..Len(account) /\ account[a] \in AccountRows
  BY ElementOfSeq DEF ChatTypes
<1>2. [bot |-> account[a].bot, user |-> u, status |-> st] \in AccountRows
  BY <1>1 DEF AccountRows
<1>3. /\ account' \in Seq(AccountRows)
      /\ \A c \in 1..Len(account) : account'[c] =
             IF c = a THEN [bot |-> account[a].bot, user |-> u, status |-> st] ELSE account[c]
  BY <1>1, <1>2, ExceptSeq DEF ChatTypes
<1>4. DOMAIN account = 1..Len(account) /\ DOMAIN account' = DOMAIN account
  BY DEF ChatTypes
<1>5. QED
  BY <1>3, <1>4

LEMMA FoundRows ==
    ASSUME NEW rows, rows # {} PROVE The(rows) \in rows
BY DEF The

LEMMA ChatInit == LinksInit => ChatInv
<1> SUFFICES ASSUME LinksInit PROVE ChatInv
  OBVIOUS
<1>1. PICK by \in {"telegram", "discord"}, set \in {{}, Bots}, acts \in Acts :
          LinksStart(by, set, acts)
  BY DEF LinksInit
<1>2. account = <<>> \/ \E b \in Bots, st \in {"active", "unlinked"} :
                             account = <<[bot |-> b, user |-> b, status |-> st]>>
  BY <1>1 DEF LinksStart
<1>3. chatSession = <<>> \/ \E a \in DOMAIN account :
          chatSession = <<[account |-> a, user |-> account[a].user, active |-> TRUE]>>
  BY <1>1 DEF LinksStart
<1>4. /\ token = [t \in LinkTokens |-> [user |-> None, state |-> None]] /\ entered = {}
      /\ \A j \in Jobs : job[j].at = "idle"
  BY <1>1 DEF LinksStart, Waits
<1>5. ChatTypes
  <2>1. account \in Seq(AccountRows) /\ \A a \in DOMAIN account : a \in Nat /\ account[a].user \in Bots
    <3>1. CASE account = <<>>
      BY <3>1
    <3>2. ASSUME NEW b \in Bots, NEW st \in {"active", "unlinked"},
                 account = <<[bot |-> b, user |-> b, status |-> st]>>
          PROVE  account \in Seq(AccountRows)
                 /\ \A a \in DOMAIN account : a \in Nat /\ account[a].user \in Bots
      <4>1. [bot |-> b, user |-> b, status |-> st] \in AccountRows
        BY DEF AccountRows
      <4>2. QED
        BY <3>2, <4>1
    <3>3. QED
      BY <1>2, <3>1, <3>2
  <2>2. chatSession \in Seq(SessionRows)
        /\ \A s \in DOMAIN chatSession : chatSession[s].account \in DOMAIN account
    <3>1. CASE chatSession = <<>>
      BY <3>1
    <3>2. ASSUME NEW a \in DOMAIN account,
                 chatSession = <<[account |-> a, user |-> account[a].user, active |-> TRUE]>>
          PROVE  /\ chatSession \in Seq(SessionRows)
                 /\ \A s \in DOMAIN chatSession : chatSession[s].account \in DOMAIN account
      <4>1. a \in Nat /\ account[a].user \in Bots
        BY <2>1
      <4>2. [account |-> a, user |-> account[a].user, active |-> TRUE] \in SessionRows
        BY <4>1 DEF SessionRows
      <4>3. QED
        BY <3>2, <4>2
    <3>3. QED
      BY <1>3, <3>1, <3>2
  <2>3. QED
    BY <1>4, <2>1, <2>2 DEF ChatTypes
<1>6. Remembers
  BY <1>4, LinksAssumption DEF Remembers, RemembersIn
<1>7. Owned
  BY <1>2, <1>3, <1>4 DEF Owned
<1>8. QED
  BY <1>5, <1>6, <1>7 DEF ChatInv

\* A message moves on and the tables stay as they are.
LEMMA QuietChat ==
    ASSUME JobsOK, ChatInv, NEW j \in Jobs, Chat(j), RemembersIn(job'[j], account, token),
           UNCHANGED <<token, account, chatSession, entered>>
    PROVE  ChatInv'
<1>2. \A i \in Jobs : job'[i].op \in ChatOps => RemembersIn(job'[i], account, token)
  BY Halves DEF ChatInv, Remembers
<1>3. Remembers'
  BY <1>2 DEF Remembers
<1>4. QED
  BY <1>3 DEF ChatInv, ChatTypes, Owned

\* The tables change: what the others remember stays true.
LEMMA LoudChat ==
    ASSUME JobsOK, ChatInv, NEW j \in Jobs, Chat(j), RemembersIn(job'[j], account', token'),
           DOMAIN account \subseteq DOMAIN account',
           \A a \in DOMAIN account : account'[a].bot = account[a].bot,
           \A t \in LinkTokens : token[t].state # None =>
               token'[t].state # None /\ token'[t].user = token[t].user
    PROVE  Remembers'
<1>1. \A i \in Jobs : i # j => job'[i] = job[i]
  BY Halves
<1>2. ASSUME NEW i \in Jobs, job'[i].op \in ChatOps, i # j PROVE RemembersIn(job'[i], account', token')
  BY <1>1, <1>2, StillRemembers DEF ChatInv, Remembers
<1>3. QED
  BY <1>2 DEF Remembers

LEMMA ChatNext == JobsOK /\ ChatInv /\ [LinksNext]_linkVars => ChatInv'
<1> SUFFICES ASSUME JobsOK, ChatInv, [LinksNext]_linkVars PROVE ChatInv'
  OBVIOUS
<1>1. ASSUME NEW j \in Jobs, Chat(j) PROVE ChatInv'
  <2> DEFINE r == job[j]
  <2>0. r.op \in ChatOps /\ RemembersIn(r, account, token) /\ ChatTypes /\ Owned
    BY <1>1, Halves DEF ChatInv, Remembers
  <2>1. CASE \E op \in MessageOps, b \in Bots, t \in LinkTokens \cup {None} : Comes(j, op, b, t)
    <3>1. PICK op \in MessageOps, b \in Bots, t \in LinkTokens \cup {None} : Comes(j, op, b, t)
      BY <2>1
    <3>2. RemembersIn(job'[j], account, token)
      BY <3>1 DEF Comes, Starts, Is, JobsOK, RemembersIn, MessageOps
    <3>3. QED
      BY <1>1, <3>1, <3>2, QuietChat DEF Comes, chatVars
  <2>2. CASE FindAccount(j) \/ Route(j)
    <3>1. Linked(r.bot) # {} => The(Linked(r.bot)) \in DOMAIN account
                                /\ account[The(Linked(r.bot))].bot = r.bot
      BY FoundRows DEF Linked, Rows
    <3>2. RemembersIn(job'[j], account, token)
      BY <2>0, <2>2, <3>1 DEF FindAccount, Route, Proceeds, Done, Finds, JobsOK, RemembersIn, MessageOps
    <3>3. QED
      BY <1>1, <2>2, <3>2, QuietChat DEF FindAccount, Route, chatVars
  <2>3. CASE ReadToken(j)
    <3>1. RemembersIn(job'[j], account, token)
      BY <2>0, <2>3 DEF ReadToken, Is, Proceeds, Done, JobsOK, RemembersIn, MessageOps, None
    <3>2. QED
      BY <1>1, <2>3, <3>1, QuietChat DEF ReadToken, chatVars
  <2>4. CASE CheckBot(j)
    <3>1. RemembersIn(job'[j], account, token)
      BY <2>0, <2>4 DEF CheckBot, Allowed, Is, Proceeds, Done, JobsOK, RemembersIn, MessageOps
    <3>2. QED
      BY <1>1, <2>4, <3>1, QuietChat DEF CheckBot, chatVars
  <2>5. CASE FindRow(j)
    <3>1. Rows(r.bot) # {} => The(Rows(r.bot)) \in DOMAIN account
                              /\ account[The(Rows(r.bot))].bot = r.bot
      BY FoundRows DEF Rows
    <3>2. Rows(r.bot) = {} => The(Rows(r.bot)) = 0
      BY DEF The
    <3>3. RemembersIn(job'[j], account, token)
      BY <2>0, <2>5, <3>1, <3>2 DEF FindRow, Is, Proceeds, Done, Finds, JobsOK, RemembersIn, MessageOps
    <3>4. QED
      BY <1>1, <2>5, <3>3, QuietChat DEF FindRow
  <2>6. CASE FindSession(j)
    <3>1. RemembersIn(job'[j], account, token)
      BY <2>0, <2>6 DEF FindSession, Is, Proceeds, Done, JobsOK, RemembersIn, MessageOps
    <3>2. CASE UNCHANGED entered
      BY <1>1, <2>6, <3>1, <3>2, QuietChat DEF FindSession
    <3>3. CASE ~ UNCHANGED entered
      <4> DEFINE open == ActiveSessions(r.row)
      <4>1. open # {} /\ entered' = entered \cup {<<r.bot, chatSession[The(open)].user>>}
            /\ UNCHANGED <<token, account, chatSession>>
        BY <2>6, <3>3 DEF FindSession
      <4>2. The(open) \in DOMAIN chatSession /\ chatSession[The(open)].account = r.row
        BY <4>1, FoundRows DEF ActiveSessions
      <4>3. r.row \in DOMAIN account /\ account[r.row].bot = r.bot /\ r.bot \in Bots
        BY <2>0, <2>6 DEF FindSession, Is, RemembersIn, MessageOps
      <4>4. chatSession[The(open)].user = r.bot
        BY <2>0, <4>2, <4>3 DEF Owned
      <4>5. RemembersIn(job'[j], account', token')
        BY <3>1, <4>1
      <4>6. Remembers'
        BY <1>1, <4>1, <4>5, LoudChat
      <4>7. ChatTypes' /\ Owned'
        BY <2>0, <4>1, <4>3, <4>4 DEF ChatTypes, Owned
      <4>8. QED
        BY <4>6, <4>7 DEF ChatInv
    <3>4. QED
      BY <3>2, <3>3
  <2>7. CASE Deactivate(j)
    <3>1. RemembersIn(job'[j], account, token)
      BY <2>0, <2>7 DEF Deactivate, Is, JobsOK, RemembersIn, MessageOps
    <3>2. QED
      BY <1>1, <2>7, <3>1, QuietChat DEF Deactivate
  <2>8. CASE CreateSession(j)
    <3> DEFINE new == [account |-> r.row, user |-> account[r.row].user, active |-> TRUE]
    <3>1. /\ chatSession' = Append(Ended(r.seen), new)
          /\ entered' = entered \cup {<<r.bot, account[r.row].user>>}
          /\ UNCHANGED <<token, account>>
      BY <2>8 DEF CreateSession
    <3>2. r.row \in DOMAIN account /\ account[r.row].bot = r.bot /\ r.bot \in Bots
          /\ account[r.row].user = r.bot
      BY <2>0, <2>8 DEF CreateSession, Is, RemembersIn, MessageOps, Owned
    <3>3. /\ Ended(r.seen) \in Seq(SessionRows)
          /\ Len(Ended(r.seen)) = Len(chatSession)
          /\ \A s \in DOMAIN chatSession : Ended(r.seen)[s].account = chatSession[s].account
                                           /\ Ended(r.seen)[s].user = chatSession[s].user
      BY <2>0, EndedSessions
    <3>4. new \in SessionRows
      BY <2>0, <3>2, ElementOfSeq DEF ChatTypes, AccountRows, SessionRows
    <3>5. /\ DOMAIN chatSession' = 1..(Len(chatSession) + 1)
          /\ \A s \in DOMAIN chatSession' :
                 IF s \in DOMAIN chatSession
                 THEN chatSession'[s].account = chatSession[s].account
                      /\ chatSession'[s].user = chatSession[s].user
                 ELSE chatSession'[s] = new
      BY <2>0, <3>1, <3>3, <3>4 DEF ChatTypes
    <3>6. ChatTypes'
      BY <2>0, <3>1, <3>2, <3>3, <3>4, <3>5, SMTT(30) DEF ChatTypes
    <3>7. Owned'
      BY <2>0, <3>1, <3>2, <3>5 DEF Owned
    <3>8. RemembersIn(job'[j], account', token')
      BY <2>0, <2>8, <3>1 DEF CreateSession, Is, Proceeds, Done, JobsOK, RemembersIn, MessageOps
    <3>9. QED
      BY <1>1, <3>1, <3>6, <3>7, <3>8, LoudChat DEF ChatInv
  <2>9. CASE EndSession(j)
    <3>1. RemembersIn(job'[j], account, token)
      BY <2>0, <2>9 DEF EndSession, Proceeds, Done, JobsOK, RemembersIn, MessageOps
    <3>2. CASE UNCHANGED chatSession
      BY <1>1, <2>9, <3>1, <3>2, QuietChat DEF EndSession
    <3>3. CASE ~ UNCHANGED chatSession
      <4>1. PICK ss : chatSession' = Ended(ss) /\ UNCHANGED <<token, account, entered>>
        BY <2>9, <3>3 DEF EndSession
      <4>2. /\ chatSession' \in Seq(SessionRows)
            /\ DOMAIN chatSession' = DOMAIN chatSession
            /\ \A s \in DOMAIN chatSession : chatSession'[s].account = chatSession[s].account
                                             /\ chatSession'[s].user = chatSession[s].user
        <5>1. /\ Ended(ss) \in Seq(SessionRows) /\ Len(Ended(ss)) = Len(chatSession)
              /\ \A s \in DOMAIN chatSession : Ended(ss)[s].account = chatSession[s].account
                                               /\ Ended(ss)[s].user = chatSession[s].user
          BY <2>0, EndedSessions
        <5>2. QED
          BY <2>0, <4>1, <5>1 DEF ChatTypes
      <4>3. ChatTypes' /\ Owned'
        BY <2>0, <4>1, <4>2 DEF ChatTypes, Owned
      <4>4. RemembersIn(job'[j], account', token')
        BY <3>1, <4>1
      <4>5. QED
        BY <1>1, <4>1, <4>3, <4>4, LoudChat DEF ChatInv
    <3>4. QED
      BY <3>2, <3>3
  <2>10. CASE Unlink(j) \/ \E a \in DOMAIN account : UnlinkChannelAccount(j, a)
    <3>1. PICK a \in DOMAIN account : account' = [account EXCEPT ![a].status = "unlinked"]
          /\ UNCHANGED <<token, chatSession, entered>>
      BY <2>0, <2>10 DEF Unlink, UnlinkChannelAccount, Unlinks, Is, RemembersIn
    <3>2. /\ account' \in Seq(AccountRows)
          /\ DOMAIN account' = DOMAIN account
          /\ \A c \in DOMAIN account : account'[c].bot = account[c].bot
                                       /\ account'[c].user = account[c].user
      <4>1. account[a] \in AccountRows
        BY <2>0 DEF ChatTypes
      <4>2. account' = [account EXCEPT ![a] =
                [bot |-> account[a].bot, user |-> account[a].user, status |-> "unlinked"]]
            /\ account[a].user \in Bots
        <5>1. [account[a] EXCEPT !.status = "unlinked"] =
                  [bot |-> account[a].bot, user |-> account[a].user, status |-> "unlinked"]
              /\ account[a].user \in Bots
          BY <4>1 DEF AccountRows
        <5>2. QED
          BY <3>1, <5>1
      <4>3. QED
        BY <2>0, <4>1, <4>2, ChangedAccount
    <3>3. ChatTypes' /\ Owned'
      BY <2>0, <3>1, <3>2 DEF ChatTypes, Owned
    <3>4. RemembersIn(job'[j], account', token')
      BY <2>0, <2>10 DEF Unlink, UnlinkChannelAccount, Is, Proceeds, Done, JobsOK, RemembersIn, MessageOps
    <3>5. QED
      BY <1>1, <3>1, <3>2, <3>3, <3>4, LoudChat DEF ChatInv
  <2>11. CASE UseToken(j)
    <3>1. r.op = "start" /\ r.at = "use" /\ r.tok \in LinkTokens /\ token[r.tok].state # None
      BY <2>0, <2>11 DEF UseToken, Is, RemembersIn
    <3>2. /\ token' = [token EXCEPT ![r.tok].state = "used"]
          /\ UNCHANGED <<account, chatSession, entered>>
      BY <2>11 DEF UseToken
    <3>3. ChatTypes' /\ Owned'
      BY <2>0, <3>1, <3>2 DEF ChatTypes, Owned
    <3>4. \A t \in LinkTokens : token[t].state # None =>
              token'[t].state # None /\ token'[t].user = token[t].user
      BY <2>0, <3>1, <3>2 DEF ChatTypes, None
    <3>5. RemembersIn(job'[j], account', token')
      BY <2>0, <2>11, <3>1, <3>4 DEF UseToken, Is, Proceeds, JobsOK, RemembersIn, MessageOps
    <3>6. QED
      BY <1>1, <3>2, <3>3, <3>4, <3>5, LoudChat DEF ChatInv
  <2>12. CASE CreateAccount(j)
    <3> DEFINE new == [bot |-> r.bot, user |-> token[r.tok].user, status |-> "active"]
    <3>1. /\ r.op = "start" /\ r.at = "link" /\ r.tok \in LinkTokens /\ r.bot \in Bots
          /\ token[r.tok].user = r.bot
          /\ r.row # 0 => r.row \in DOMAIN account /\ account[r.row].bot = r.bot
      BY <2>0, <2>12 DEF CreateAccount, Is, RemembersIn, MessageOps
    <3>2. /\ \/ /\ r.row # 0
                /\ account' = [account EXCEPT ![r.row] =
                       [bot |-> @.bot, user |-> token[r.tok].user, status |-> "active"]]
             \/ account' = account
             \/ account' = Append(account, new)
          /\ UNCHANGED <<token, chatSession, entered>>
      BY <2>12 DEF CreateAccount
    <3>3. account \in Seq(AccountRows) /\ new \in AccountRows
      BY <2>0, <3>1 DEF ChatTypes, AccountRows
    <3>4. /\ account' \in Seq(AccountRows)
          /\ DOMAIN account \subseteq DOMAIN account'
          /\ \A a \in DOMAIN account : account'[a].bot = account[a].bot
          /\ \A a \in DOMAIN account' : account'[a].user = account'[a].bot
      <4>1. \A a \in DOMAIN account : account[a].user = account[a].bot /\ account[a] \in AccountRows
        BY <2>0, <3>3 DEF Owned
      <4>2. CASE r.row # 0
                 /\ account' = [account EXCEPT ![r.row] =
                        [bot |-> @.bot, user |-> token[r.tok].user, status |-> "active"]]
        <5>1. account[r.row] \in AccountRows
          BY <3>1, <4>1, <4>2
        <5>2. account' = [account EXCEPT ![r.row] =
                  [bot |-> account[r.row].bot, user |-> r.bot, status |-> "active"]]
          BY <3>1, <4>2, <5>1
        <5>3. QED
          <6>1. /\ account' \in Seq(AccountRows)
                /\ DOMAIN account' = DOMAIN account
                /\ \A c \in DOMAIN account : account'[c].bot = account[c].bot
                /\ \A c \in DOMAIN account : c # r.row => account'[c] = account[c]
                /\ account'[r.row].user = r.bot
            BY <2>0, <3>1, <4>2, <5>2, ChangedAccount, ZenonT(30)
          <6>2. QED
            BY <3>1, <4>1, <4>2, <6>1
      <4>3. CASE account' = account
        BY <3>3, <4>1, <4>3
      <4>4. CASE account' = Append(account, new)
        BY <3>1, <3>3, <4>1, <4>4
      <4>5. QED
        BY <3>2, <4>2, <4>3, <4>4
    <3>5. ChatTypes'
      BY <2>0, <3>2, <3>4 DEF ChatTypes
    <3>6. Owned'
      BY <2>0, <3>2, <3>4 DEF Owned, ChatTypes
    <3>7. RemembersIn(job'[j], account', token')
      BY <2>0, <2>12 DEF CreateAccount, Is, Proceeds, Done, JobsOK, RemembersIn, MessageOps
    <3>8. QED
      BY <1>1, <3>2, <3>4, <3>5, <3>6, <3>7, LoudChat DEF ChatInv
  <2>13. CASE \E t \in LinkTokens, b \in Bots : CreateLinkToken(j, t, b)
    <3>1. PICK t \in LinkTokens, b \in Bots : CreateLinkToken(j, t, b)
      BY <2>13
    <3>2. /\ token[t].state = None /\ token' = [token EXCEPT ![t] = [user |-> b, state |-> "fresh"]]
          /\ UNCHANGED <<account, chatSession, entered>>
      BY <3>1 DEF CreateLinkToken
    <3>3. ChatTypes' /\ Owned'
      BY <2>0, <3>2 DEF ChatTypes, Owned
    <3>4. RemembersIn(job'[j], account', token')
      BY <2>0, <3>1 DEF CreateLinkToken, Is, Proceeds, Done, JobsOK, RemembersIn, MessageOps
    <3>5. \A u \in LinkTokens : token[u].state # None =>
              token'[u].state # None /\ token'[u].user = token[u].user
      BY <2>0, <3>2, ElementOfSeq DEF ChatTypes, AccountRows, SessionRows
    <3>6. QED
      BY <1>1, <3>2, <3>3, <3>4, <3>5, LoudChat DEF ChatInv
  <2>14. QED
    BY <1>1, <2>1, <2>2, <2>3, <2>4, <2>5, <2>6, <2>7, <2>8, <2>9, <2>10, <2>11, <2>12, <2>13
       DEF Chat
<1>2. ASSUME NEW j \in Jobs, Setup(j) PROVE ChatInv'
  <2>1. /\ UNCHANGED chatVars
        /\ \A i \in Jobs : job[i].op \in ChatOps => job'[i] = job[i]
    BY <1>2, Halves
  <2>2. \A i \in Jobs : job'[i].op \in ChatOps => job[i].op \in ChatOps
    BY JobsNext
  <2>4. Remembers'
    BY <2>1, <2>2 DEF ChatInv, Remembers, chatVars
  <2>5. QED
    BY <2>1, <2>4 DEF ChatInv, ChatTypes, Owned, chatVars
<1>3. CASE UNCHANGED linkVars
  BY <1>3 DEF ChatInv, ChatTypes, Remembers, Owned, linkVars, chatVars
<1>4. QED
  BY <1>1, <1>2, <1>3 DEF LinksNext

-----------------------------------------------------------------------------
(* One account, one session                                                *)

LEMMA AloneInit == LinksInit => Alone /\ AloneSessions
<1> SUFFICES ASSUME LinksInit PROVE Alone /\ AloneSessions
  OBVIOUS
<1>1. PICK by \in {"telegram", "discord"}, set \in {{}, Bots}, acts \in Acts :
          LinksStart(by, set, acts)
  BY DEF LinksInit
<1>2. DOMAIN account \subseteq {1} /\ DOMAIN chatSession \subseteq {1}
  BY <1>1 DEF LinksStart
<1>3. \A j \in Jobs : ~Linking(j) /\ ~Inserting(j)
  BY <1>1 DEF LinksStart, Waits, Linking, Inserting
<1>4. QED
  BY <1>2, <1>3 DEF Alone, AloneSessions

LEMMA AloneNext ==
    JobsOK /\ ChatInv /\ Alone /\ AloneSessions /\ [LinksNext]_linkVars => Alone' /\ AloneSessions'
<1> SUFFICES ASSUME JobsOK, ChatInv, Alone, AloneSessions, [LinksNext]_linkVars
             PROVE  Alone' /\ AloneSessions'
  OBVIOUS
<1>0. ChatTypes
  BY DEF ChatInv
<1>1. ASSUME NEW j \in Jobs, Chat(j) PROVE Alone' /\ AloneSessions'
  <2> DEFINE r == job[j]
  <2>0. /\ r.op \in ChatOps /\ DOMAIN job' = Jobs /\ UNCHANGED provider
        /\ \A i \in Jobs : i # j => job'[i] = job[i]
        /\ RemembersIn(r, account, token)
        /\ \A i \in Jobs : Linking(i) \/ Inserting(i) => RemembersIn(job[i], account, token)
    BY <1>1, Halves DEF ChatInv, Remembers, Linking, Inserting, ChatOps, MessageOps
  <2>1. ASSUME UNCHANGED <<account, chatSession, raced>>, ~Linking(j)', ~Inserting(j)'
        PROVE  Alone' /\ AloneSessions'
    BY <2>0, <2>1 DEF Alone, AloneSessions, Linking, Inserting
  <2>2. CASE \/ \E op \in MessageOps, b \in Bots, t \in LinkTokens \cup {None} : Comes(j, op, b, t)
             \/ FindAccount(j) \/ FindSession(j) \/ Route(j)
             \/ ReadToken(j) \/ UseToken(j) \/ CheckBot(j)
             \/ \E t \in LinkTokens, b \in Bots : CreateLinkToken(j, t, b)
    <3>1. UNCHANGED <<account, chatSession, raced>>
      BY <2>2 DEF Comes, FindAccount, FindSession, Route, ReadToken, UseToken, CheckBot,
                  CreateLinkToken, chatVars
    <3>2. job'[j].at \notin {"link", "insert"}
      <4>1. CASE \E op \in MessageOps, b \in Bots, t \in LinkTokens \cup {None} : Comes(j, op, b, t)
        BY <4>1 DEF Comes, Starts, JobsOK
      <4>2. CASE FindAccount(j) \/ FindSession(j) \/ Route(j)
        BY <4>2 DEF FindAccount, FindSession, Route, Proceeds, Done, Finds, JobsOK
      <4>3. CASE \/ ReadToken(j) \/ UseToken(j) \/ CheckBot(j)
                 \/ \E t \in LinkTokens, b \in Bots : CreateLinkToken(j, t, b)
        BY <4>3 DEF ReadToken, UseToken, CheckBot, CreateLinkToken, Proceeds, Done, JobsOK
      <4>4. QED
        BY <2>2, <4>1, <4>2, <4>3
    <3>3. QED
      BY <2>1, <3>1, <3>2 DEF Linking, Inserting
  <2>3. CASE FindRow(j)
    <3>1. /\ UNCHANGED <<account, chatSession>> /\ raced \subseteq raced'
          /\ r.op = "start" /\ r.at = "relink" /\ job'[j].op = "start" /\ job'[j].bot = r.bot
      BY <2>3 DEF FindRow, Is, Done, Proceeds, Finds, JobsOK
    <3>2. job'[j].at = "over" \/ (job'[j].at = "link" /\ job'[j].row = The(Rows(r.bot)))
      BY <2>3 DEF FindRow, Done, Proceeds, Finds, JobsOK
    <3>3. The(Rows(r.bot)) = 0 => \A a \in DOMAIN account : account[a].bot # r.bot
      <4>1. 0 \notin DOMAIN account
        BY <1>0 DEF ChatTypes
      <4>2. Rows(r.bot) # {} => The(Rows(r.bot)) \in DOMAIN account
        BY FoundRows DEF Rows
      <4>3. QED
        BY <4>1, <4>2 DEF Rows
    <3>4. \A i \in Jobs : i # j /\ Linking(i) /\ job[i].bot = r.bot /\ provider = "discord" =>
              r.bot \in raced'
      BY <2>3 DEF FindRow, Linking, Is
    <3>5. provider \in {"telegram", "discord"}
      BY DEF JobsOK
    <3>6. Alone'
      BY <2>0, <3>1, <3>2, <3>3, <3>4, <3>5 DEF Alone, Linking
    <3>7. AloneSessions'
      BY <2>0, <3>1 DEF AloneSessions, Inserting
    <3>8. QED
      BY <3>6, <3>7
  <2>4. CASE Deactivate(j)
    <3>1. /\ UNCHANGED <<account, chatSession>> /\ raced \subseteq raced'
          /\ r.op = "text" /\ r.at = "create"
          /\ job'[j].op = "text" /\ job'[j].bot = r.bot /\ job'[j].row = r.row
          /\ job'[j].seen = ActiveSessions(r.row)
          /\ \A i \in Jobs : job[i].at = "insert" /\ job[i].row = r.row => r.bot \in raced'
      BY <2>4 DEF Deactivate, Is, JobsOK
    <3>2. Alone'
      BY <2>0, <3>1 DEF Alone, Linking
    <3>3. \A i \in Jobs : Inserting(i) /\ job[i].row = r.row => job[i].bot = r.bot
      BY <2>0, <3>1 DEF RemembersIn, Inserting
    <3>4. AloneSessions'
      BY <2>0, <3>1, <3>3 DEF AloneSessions, Inserting, ActiveSessions
    <3>5. QED
      BY <3>2, <3>4
  <2>5. ASSUME NEW ss, chatSession' = Ended(ss), UNCHANGED <<account, raced>>,
               ~Linking(j)', ~Inserting(j)'
        PROVE  Alone' /\ AloneSessions'
    <3>1. /\ DOMAIN chatSession' = DOMAIN chatSession
          /\ \A s \in DOMAIN chatSession : chatSession'[s].account = chatSession[s].account
                                           /\ (chatSession'[s].active => chatSession[s].active)
      BY <1>0, <2>5, EndedSessions DEF ChatTypes
    <3>2. QED
      BY <2>0, <2>5, <3>1 DEF Alone, AloneSessions, Linking, Inserting
  <2>6. CASE EndSession(j)
    <3>1. job'[j].at \notin {"link", "insert"} /\ UNCHANGED <<account, raced>>
      BY <2>6 DEF EndSession, Done, Proceeds, JobsOK
    <3>2. CASE UNCHANGED chatSession
      BY <2>1, <3>1, <3>2 DEF Linking, Inserting
    <3>3. CASE ~ UNCHANGED chatSession
      BY <2>5, <2>6, <3>1, <3>3 DEF EndSession, Linking, Inserting
    <3>4. QED
      BY <3>2, <3>3
  <2>7. CASE CreateSession(j)
    <3> DEFINE new == [account |-> r.row, user |-> account[r.row].user, active |-> TRUE]
    <3>1. /\ chatSession' = Append(Ended(r.seen), new) /\ UNCHANGED <<account, raced>>
          /\ Inserting(j) /\ job'[j].at = "over"
      BY <2>7 DEF CreateSession, Is, Done, Proceeds, JobsOK, Inserting
    <3>2. r.row \in DOMAIN account /\ account[r.row].bot = r.bot
      BY <2>0, <3>1 DEF RemembersIn, Inserting
    <3>3. /\ Ended(r.seen) \in Seq(SessionRows) /\ Len(Ended(r.seen)) = Len(chatSession)
          /\ \A s \in DOMAIN chatSession :
                 /\ Ended(r.seen)[s].account = chatSession[s].account
                 /\ Ended(r.seen)[s].active => chatSession[s].active /\ s \notin r.seen
      BY <1>0, EndedSessions
    <3>4. new \in SessionRows
      <4>1. r.row \in 1..Len(account)
        BY <1>0, <3>2 DEF ChatTypes
      <4>2. account[r.row] \in AccountRows
        BY <1>0, <4>1, ElementOfSeq DEF ChatTypes
      <4>3. QED
        BY <4>1, <4>2 DEF AccountRows, SessionRows
    <3>5. /\ DOMAIN chatSession = 1..Len(chatSession) /\ Len(chatSession) \in Nat
          /\ DOMAIN chatSession' = 1..(Len(chatSession) + 1)
          /\ chatSession'[Len(chatSession) + 1] = new
          /\ \A s \in DOMAIN chatSession : chatSession'[s] = Ended(r.seen)[s]
      BY <1>0, <3>1, <3>3, <3>4, AppendProperties DEF ChatTypes
    <3>6. \A s \in DOMAIN chatSession' :
              /\ s \in DOMAIN chatSession =>
                     /\ chatSession'[s].account = chatSession[s].account
                     /\ chatSession'[s].active => chatSession[s].active /\ s \notin r.seen
              /\ s \notin DOMAIN chatSession =>
                     s = Len(chatSession) + 1 /\ chatSession'[s].account = r.row
      BY <3>3, <3>5
    <3>7. r.bot \notin raced => \A s \in DOMAIN chatSession :
              chatSession'[s].active => chatSession[s].account # r.row
      BY <3>1, <3>3, <3>5 DEF AloneSessions
    <3>8. \A s, t \in DOMAIN chatSession' :
              /\ chatSession'[s].active /\ chatSession'[t].active
              /\ chatSession'[s].account = chatSession'[t].account
              /\ account[chatSession'[s].account].bot \notin raced
              => s = t
      BY <3>2, <3>6, <3>7 DEF AloneSessions
    <3>9. \A i \in Jobs : Inserting(i)' => i # j /\ Inserting(i) /\ job'[i] = job[i]
      BY <2>0, <3>1 DEF Inserting
    <3>10. ASSUME NEW i \in Jobs, Inserting(i)', job'[i].bot \notin raced',
                  NEW s \in DOMAIN chatSession', chatSession'[s].active,
                  chatSession'[s].account = job'[i].row
           PROVE  s \in job'[i].seen
      <4>1. i # j /\ Inserting(i) /\ job'[i] = job[i] /\ job[i].bot \notin raced
        BY <3>1, <3>9, <3>10
      <4>2. job[i].row # r.row
        BY <3>1, <4>1 DEF AloneSessions
      <4>3. s \in DOMAIN chatSession /\ chatSession[s].active /\ chatSession[s].account = job[i].row
        BY <3>6, <3>10, <4>1, <4>2
      <4>4. QED
        BY <4>1, <4>3 DEF AloneSessions
    <3>11. AloneSessions'
      BY <3>1, <3>8, <3>9, <3>10 DEF AloneSessions
    <3>12. Alone'
      BY <2>0, <3>1 DEF Alone, Linking
    <3>13. QED
      BY <3>11, <3>12
  <2>8. CASE Unlink(j) \/ \E a \in DOMAIN account : UnlinkChannelAccount(j, a)
    <3>1. PICK a : account' = [account EXCEPT ![a].status = "unlinked"]
          /\ UNCHANGED <<chatSession, raced>> /\ job'[j].at = "over"
      BY <2>8 DEF Unlink, UnlinkChannelAccount, Unlinks, Done, Proceeds, JobsOK
    <3>2. DOMAIN account' = DOMAIN account
          /\ \A c \in DOMAIN account : account'[c].bot = account[c].bot
      <4>1. \A c \in DOMAIN account : account[c] \in AccountRows
        BY <1>0, ElementOfSeq DEF ChatTypes
      <4>2. \A c \in DOMAIN account : [account[c] EXCEPT !.status = "unlinked"].bot = account[c].bot
        BY <4>1 DEF AccountRows
      <4>3. QED
        BY <3>1, <4>2
    <3>3. Alone'
      BY <2>0, <3>1, <3>2 DEF Alone, Linking
    <3>4. AloneSessions'
      <4>1. \A s \in DOMAIN chatSession :
                account'[chatSession[s].account].bot = account[chatSession[s].account].bot
        BY <1>0, <3>2 DEF ChatTypes
      <4>2. QED
        BY <2>0, <3>1, <4>1 DEF AloneSessions, Inserting
    <3>5. QED
      BY <3>3, <3>4
  <2>9. CASE CreateAccount(j)
    <3> DEFINE new == [bot |-> r.bot, user |-> token[r.tok].user, status |-> "active"]
    <3>1. /\ Linking(j) /\ job'[j].at = "over" /\ UNCHANGED <<chatSession, raced>>
          /\ r.row # 0 => r.row \in DOMAIN account /\ account[r.row].bot = r.bot
          /\ new \in AccountRows
      BY <2>0, <2>9 DEF CreateAccount, Is, Done, Proceeds, JobsOK, Linking, RemembersIn, MessageOps,
                        AccountRows
    <3>2. /\ DOMAIN account = 1..Len(account) /\ Len(account) \in Nat
          /\ \A s \in DOMAIN chatSession : chatSession[s].account \in DOMAIN account
      BY <1>0 DEF ChatTypes
    <3>3. CASE DOMAIN account' = DOMAIN account
               /\ \A a \in DOMAIN account : account'[a].bot = account[a].bot
      <4>1. Alone'
        BY <2>0, <3>1, <3>3 DEF Alone, Linking
      <4>2. AloneSessions'
        BY <2>0, <3>1, <3>2, <3>3 DEF AloneSessions, Inserting
      <4>3. QED
        BY <4>1, <4>2
    <3>4. CASE /\ account' = Append(account, new) /\ r.row = 0
               /\ provider = "telegram" => Rows(r.bot) = {}
      <4>1. /\ DOMAIN account' = 1..(Len(account) + 1)
            /\ account'[Len(account) + 1] = new
            /\ \A a \in DOMAIN account : account'[a] = account[a]
        BY <1>0, <3>1, <3>2, <3>4, AppendProperties DEF ChatTypes
      <4>2. r.bot \notin raced => \A a \in DOMAIN account : account[a].bot # r.bot
        BY <3>1, <3>4 DEF Alone, Rows, JobsOK
      <4>3. \A i \in Jobs : Linking(i)' => i # j /\ Linking(i) /\ job'[i] = job[i]
        BY <2>0, <3>1 DEF Linking
      <4>4. \A a, c \in DOMAIN account' :
                account'[a].bot = account'[c].bot /\ account'[a].bot \notin raced => a = c
        BY <3>2, <4>1, <4>2 DEF Alone
      <4>5. Alone'
        BY <2>0, <3>1, <3>2, <4>1, <4>3, <4>4 DEF Alone, Linking, JobsOK
      <4>6. AloneSessions'
        BY <2>0, <3>1, <3>2, <4>1, SMTT(30) DEF AloneSessions, Inserting
      <4>7. QED
        BY <4>5, <4>6
    <3>5. QED
      <4>1. CASE r.row # 0
        <5>1. account' = [account EXCEPT ![r.row] =
                  [bot |-> account[r.row].bot, user |-> token[r.tok].user, status |-> "active"]]
          BY <2>9, <4>1 DEF CreateAccount
        <5>2. QED
          BY <3>1, <3>3, <4>1, <5>1
      <4>2. CASE r.row = 0
        BY <2>9, <3>3, <3>4, <4>2 DEF CreateAccount
      <4>3. QED
        BY <4>1, <4>2
  <2>10. QED
    BY <1>1, <2>2, <2>3, <2>4, <2>6, <2>7, <2>8, <2>9 DEF Chat
<1>2. ASSUME NEW j \in Jobs, Setup(j) PROVE Alone' /\ AloneSessions'
  <2>1. /\ UNCHANGED <<provider, chatVars>>
        /\ \A i \in Jobs : job[i].op \in ChatOps => job'[i] = job[i]
        /\ \A i \in Jobs : job'[i].op = job[i].op
    BY <1>2, Halves, JobsNext
  <2>2. \A i \in Jobs : Linking(i)' => Linking(i) /\ job'[i] = job[i]
    BY <2>1 DEF Linking, ChatOps, MessageOps
  <2>3. \A i \in Jobs : Inserting(i)' => Inserting(i) /\ job'[i] = job[i]
    BY <2>1 DEF Inserting, ChatOps, MessageOps
  <2>4. QED
    BY <2>1, <2>2, <2>3 DEF Alone, AloneSessions, chatVars
<1>3. CASE UNCHANGED linkVars
  BY <1>3 DEF Alone, AloneSessions, Linking, Inserting, linkVars, chatVars
<1>4. QED
  BY <1>1, <1>2, <1>3 DEF LinksNext

-----------------------------------------------------------------------------
(* Which bots are reached                                                  *)

LEMMA BotInit == LinksInit => BotInv
<1> SUFFICES ASSUME LinksInit PROVE BotInv
  OBVIOUS
<1>1. PICK by \in {"telegram", "discord"}, set \in {{}, Bots}, acts \in Acts :
          LinksStart(by, set, acts)
  BY DEF LinksInit
<1>2. /\ provider = by
      /\ bot = [b \in Bots |-> [status |-> IF b \in set THEN "active" ELSE None, secret |-> First]]
      /\ hook = [b \in Bots |-> IF b \in set /\ provider = "telegram" THEN First ELSE None]
      /\ tabled = [b \in Bots |-> IF b \in set /\ provider = "discord" THEN First ELSE None]
      /\ running = [b \in Bots |-> {tabled[b]} \ {None}]
      /\ \A j \in Jobs : job[j].at = "idle"
  BY <1>1 DEF LinksStart, Waits
<1>3. BotTypes
  BY <1>2 DEF BotTypes, Sources, First, None
<1>4. ASSUME NEW b \in Bots PROVE Settled(b)
  BY <1>2 DEF Settled, Reachable, Enabled, First, None
<1>5. QED
  BY <1>2, <1>3, <1>4 DEF BotInv, Changes, None, First

\* What a step that is not about a bot leaves of it.
Untouched(b) ==
    /\ bot'[b] = bot[b] /\ hook'[b] = hook[b] /\ tabled'[b] = tabled[b] /\ running'[b] = running[b]
    /\ \A i \in Jobs : Changes(i, b)' => Changes(i, b) /\ job'[i] = job[i]
    /\ \A i \in Jobs : Changes(i, b) => Changes(i, b)'
    /\ \A i \in Jobs : Failing(i, b) => Failing(i, b)'

\* The part of the invariant about one bot.
About(b) ==
    /\ running[b] \subseteq {tabled[b]}
    /\ \A i, j \in Jobs : Changes(i, b) /\ Changes(j, b) => i = j
    /\ \A j \in Jobs : Changes(j, b) => Knows(j)
    /\ (\A j \in Jobs : ~Changes(j, b)) => Settled(b)

LEMMA UntouchedKept ==
    ASSUME NEW b \in Bots, About(b), Untouched(b), UNCHANGED provider
    PROVE  About(b)'
<1>1. Settled(b) => Settled(b)'
  BY DEF Settled, Untouched, Reachable, Enabled
<1>2. ASSUME NEW j \in Jobs, Changes(j, b)' PROVE Knows(j)'
  <2>1. Changes(j, b) /\ job'[j] = job[j] /\ job[j].bot = b /\ Knows(j)
    BY <1>2 DEF Untouched, About, Changes
  <2>2. QED
    BY <1>1, <2>1 DEF Knows, Untouched
<1>3. QED
  BY <1>1, <1>2 DEF About, Untouched

\* The request that changes a bot is the only one, and moves on or ends.
LEMMA ChangerMoves ==
    ASSUME NEW b \in Bots, NEW j \in Jobs, About(b), Changes(j, b),
           job'[j].op = job[j].op, job'[j].bot = b,
           \A i \in Jobs : i # j => (Changes(i, b)' => Changes(i, b)),
           running'[b] \subseteq {tabled'[b]},
           IF job'[j].at \in {"idle", "over"} THEN Settled(b)' ELSE Knows(j)'
    PROVE  About(b)'
<1>1. \A i \in Jobs : Changes(i, b)' => i = j
  BY DEF About
<1>2. Changes(j, b)' <=> job'[j].at \notin {"idle", "over"}
  BY DEF Changes
<1>3. QED
  BY <1>1, <1>2 DEF About

\* A step changes nothing of the bots that it is not about.
LEMMA Elsewhere ==
    ASSUME JobsOK, BotTypes, NEW j \in Jobs, Setup(j), NEW b \in Bots, b # job'[j].bot
    PROVE  Untouched(b)
<1>1. CASE \/ \E op \in {"save", "disable"}, c \in Bots : ChangeBot(j, op, c)
           \/ \E c \in Bots : \E k \in running[c] : ClientFails(j, c, k)
  <2>1. /\ \A i \in Jobs : i # j => job'[i] = job[i]
        /\ job[j].at = "idle"
    <3>1. CASE \E op \in {"save", "disable"}, c \in Bots : ChangeBot(j, op, c)
      BY <3>1 DEF ChangeBot, Starts, Is
    <3>2. CASE \E c \in Bots : \E k \in running[c] : ClientFails(j, c, k)
      BY <3>2 DEF ClientFails, Is
    <3>3. QED
      BY <1>1, <3>1, <3>2
  <2>2. /\ UNCHANGED <<bot, hook, tabled>>
        /\ running'[b] = running[b]
    <3>1. CASE \E op \in {"save", "disable"}, c \in Bots : ChangeBot(j, op, c)
      BY <3>1 DEF ChangeBot
    <3>2. ASSUME NEW c \in Bots, NEW k \in running[c], ClientFails(j, c, k)
          PROVE  UNCHANGED <<bot, hook, tabled>> /\ running'[b] = running[b]
      <4>1. job'[j].bot = c
        BY <3>2 DEF ClientFails, JobsOK
      <4>2. QED
        BY <3>2, <4>1 DEF ClientFails, BotTypes
    <3>3. QED
      BY <1>1, <3>1, <3>2
  <2>3. QED
    BY <2>1, <2>2 DEF Untouched, Changes, Failing, Is
<1>2. CASE StopClient(j)
  <2>1. /\ job'[j].bot = job[j].bot /\ b # job[j].bot
        /\ \A i \in Jobs : i # j /\ ~(job[i].op = "fail" /\ job[i].bot = job[j].bot) => job'[i] = job[i]
        /\ \A i \in Jobs : i # j => job'[i].op = job[i].op /\ job'[i].bot = job[i].bot
    BY <1>2 DEF StopClient, StopsFor, Failing, Is, JobsOK
  <2>2. UNCHANGED <<bot, hook>> /\ tabled'[b] = tabled[b] /\ running'[b] = running[b]
    BY <1>2, <2>1 DEF StopClient, BotTypes
  <2>3. QED
    BY <2>1, <2>2 DEF Untouched, Changes, Failing, Is
<1>3. CASE \/ DeleteWebhook(j) \/ TokenRefused(j) \/ SetWebhook(j) \/ Upsert(j)
           \/ WriteDisabled(j) \/ StartClient(j) \/ ReportFailure(j)
  <2>1. /\ job'[j].bot = job[j].bot /\ b # job[j].bot
        /\ \A i \in Jobs : i # j => job'[i] = job[i]
    BY <1>3 DEF DeleteWebhook, TokenRefused, SetWebhook, Upsert, WriteDisabled, StartClient,
                ReportFailure, Done, Proceeds, JobsOK
  <2>2. bot'[b] = bot[b] /\ hook'[b] = hook[b]
    BY <1>3, <2>1 DEF DeleteWebhook, TokenRefused, SetWebhook, Upsert, WriteDisabled, StartClient,
                ReportFailure, Configures, BotTypes
  <2>3. tabled'[b] = tabled[b] /\ running'[b] = running[b]
    BY <1>3, <2>1 DEF DeleteWebhook, TokenRefused, SetWebhook, Upsert, WriteDisabled, StartClient,
                ReportFailure, BotTypes
  <2>4. job'[j].op = job[j].op
    BY JobsNext DEF LinksNext
  <2>5. QED
    BY <2>1, <2>2, <2>3, <2>4 DEF Untouched, Changes, Failing, Is
<1>4. QED
  BY <1>1, <1>2, <1>3 DEF Setup

\* What is left to show of a step: its own bot.
LEMMA Rest ==
    ASSUME JobsOK, BotInv, NEW j \in Jobs, Setup(j), NEW c \in Bots, job'[j].bot = c,
           BotTypes', disturbed \subseteq disturbed',
           provider = "telegram" => running'[c] \subseteq running[c],
           \A i \in Jobs : i # j => job'[i].bot = job[i].bot
                                    /\ (job'[i].at = job[i].at \/ job'[i].at = "over"),
           c \notin disturbed' => About(c)'
    PROVE  BotInv'
<1>1. /\ UNCHANGED provider /\ \A i \in Jobs : job'[i].op = job[i].op
  BY Halves, JobsNext DEF LinksNext
<1>2. ASSUME NEW b \in Bots, b # c PROVE Untouched(b)
  BY <1>2, Elsewhere DEF BotInv
<1>3. ASSUME NEW b \in Bots, b \notin disturbed' PROVE About(b)'
  <2>1. CASE b = c
    BY <1>3, <2>1
  <2>2. CASE b # c
    <3>1. About(b)
      BY <1>3 DEF BotInv, About
    <3>2. QED
      BY <1>1, <1>2, <2>2, <3>1, UntouchedKept
  <2>3. QED
    BY <2>1, <2>2
<1>4. provider' = "telegram" => \A b \in Bots : running'[b] = {}
  BY <1>1, <1>2 DEF BotInv, Untouched
<1>5. \A i \in Jobs : job'[i].op \in BotOps /\ job'[i].at \notin {"idle", "over"} =>
          job'[i].bot \in Bots
  BY <1>1 DEF BotInv
<1>6. \A b \in Bots \ disturbed' : About(b)'
  BY <1>3
<1>7. QED
  BY <1>4, <1>5, <1>6 DEF BotInv, About

LEMMA BotNext == JobsOK /\ BotInv /\ [LinksNext]_linkVars => BotInv'
<1> SUFFICES ASSUME JobsOK, BotInv, [LinksNext]_linkVars PROVE BotInv'
  OBVIOUS
<1>1. ASSUME UNCHANGED <<provider, botVars>>,
             \A i \in Jobs : job[i].op \in BotOps => job'[i] = job[i],
             \A i \in Jobs : job'[i].op = job[i].op
      PROVE  BotInv'
  <2>1. \A b \in Bots : Untouched(b)
    BY <1>1 DEF Untouched, Changes, Failing, Is, botVars, BotOps
  <2>2. \A b \in Bots : About(b) => About(b)'
    BY <1>1, <2>1, UntouchedKept
  <2>3. QED
    BY <1>1, <2>2 DEF BotInv, About, BotTypes, botVars
<1>2. ASSUME NEW j \in Jobs, Chat(j) PROVE BotInv'
  <2>1. \A i \in Jobs : job'[i].op = job[i].op
    BY JobsNext
  <2>2. QED
    BY <1>1, <1>2, <2>1, Halves DEF ChatOps, MessageOps, BotOps
<1>3. ASSUME NEW j \in Jobs, Setup(j) PROVE BotInv'
  <2>0. /\ UNCHANGED provider /\ provider \in {"telegram", "discord"}
        /\ \A i \in Jobs : job'[i].op = job[i].op
        /\ job[j].op \in BotOps
    BY <1>3, Halves, JobsNext DEF JobsOK
  <2>1. CASE \E op \in {"save", "disable"}, b \in Bots : ChangeBot(j, op, b)
    <3>1. PICK op \in {"save", "disable"}, b \in Bots : ChangeBot(j, op, b)
      BY <2>1
    <3>2. /\ job[j].op = op /\ job[j].at = "idle" /\ UNCHANGED <<bot, hook, tabled, running>>
          /\ job'[j].at = "arrived" /\ job'[j].bot = b
          /\ \A i \in Jobs : i # j => job'[i] = job[i]
          /\ disturbed' = IF Changing(b) THEN disturbed \cup {b} ELSE disturbed
      BY <3>1 DEF ChangeBot, Starts, Is, Disturbs, JobsOK
    <3>3. b \notin disturbed' => About(b)'
      <4>1. SUFFICES ASSUME b \notin disturbed' PROVE About(b)'
        OBVIOUS
      <4>2. ~Changing(b) /\ About(b)
        BY <3>2, <4>1 DEF BotInv, About
      <4>3. Settled(b)
        BY <4>2 DEF About, Changing, Changes
      <4>4. Settled(b)'
        BY <2>0, <3>2, <4>3 DEF Settled, Reachable, Enabled, Failing, Is
      <4>5. \A i \in Jobs : Changes(i, b)' => i = j
        BY <2>0, <3>2, <4>2 DEF Changing, Changes
      <4>6. Knows(j)'
        BY <3>2, <4>4 DEF Knows
      <4>7. QED
        BY <3>2, <4>2, <4>4, <4>5, <4>6 DEF About
    <3>4. disturbed \subseteq disturbed' /\ BotTypes'
      BY <3>2 DEF BotInv, BotTypes
    <3>5. QED
      BY <1>3, <2>0, <3>2, <3>3, <3>4, Rest DEF BotInv
  <2>2. CASE \E b \in Bots : \E k \in running[b] : ClientFails(j, b, k)
    <3>1. PICK b \in Bots : \E k \in running[b] : ClientFails(j, b, k)
      BY <2>2
    <3>2. PICK k \in running[b] : ClientFails(j, b, k)
      BY <3>1
    <3>3. /\ job[j].op = "fail" /\ job[j].at = "idle" /\ UNCHANGED <<bot, hook, tabled, disturbed>>
          /\ job'[j].at = "failing" /\ job'[j].bot = b
          /\ running' = [running EXCEPT ![b] = @ \ {k}]
          /\ \A i \in Jobs : i # j => job'[i] = job[i]
      BY <3>2 DEF ClientFails, Is, JobsOK
    <3>4. BotTypes' /\ running'[b] = running[b] \ {k} /\ provider = "discord"
      BY <2>0, <3>3 DEF BotInv, BotTypes
    <3>5. b \notin disturbed' => About(b)'
      <4>1. SUFFICES ASSUME b \notin disturbed PROVE About(b)'
        BY <3>3
      <4>2. About(b)
        BY <4>1 DEF BotInv, About
      <4>3. Failing(j, b)'
        BY <2>0, <3>3 DEF Failing, Is
      <4>4. Settled(b) => Settled(b)'
        BY <3>3, <3>4, <4>3 DEF Settled
      <4>5. \A i \in Jobs : Changes(i, b)' => Changes(i, b) /\ job'[i] = job[i]
        BY <2>0, <3>3 DEF Changes
      <4>6. \A i \in Jobs : Changes(i, b) => Changes(i, b)'
        BY <3>3 DEF Changes
      <4>7. ASSUME NEW i \in Jobs, Changes(i, b)' PROVE Knows(i)'
        <5>1. Knows(i) /\ job'[i] = job[i] /\ job[i].bot = b
          BY <4>2, <4>5, <4>7 DEF About, Changes
        <5>2. QED
          BY <2>0, <3>3, <3>4, <4>4, <5>1 DEF Knows
      <4>8. QED
        BY <3>3, <3>4, <4>2, <4>4, <4>5, <4>6, <4>7 DEF About
    <3>6. QED
      BY <1>3, <3>3, <3>4, <3>5, Rest
  <2>3. ASSUME NEW b \in Bots, job[j].bot = b, job'[j].bot = b, job[j].op \in {"save", "disable"},
               job[j].at \notin {"idle", "over"}, disturbed \subseteq disturbed',
               provider = "telegram" => running'[b] \subseteq running[b],
               BotTypes', job'[j].at # "idle",
               \A i \in Jobs : i # j => job'[i].bot = job[i].bot
                                        /\ (job'[i].at = job[i].at \/ job'[i].at = "over"),
               b \notin disturbed' => running'[b] \subseteq {tabled'[b]},
               b \notin disturbed' => IF job'[j].at = "over" THEN Settled(b)' ELSE Knows(j)'
        PROVE  BotInv'
    <3>1. ASSUME b \notin disturbed' PROVE About(b)'
      <4>1. About(b) /\ Changes(j, b)
        BY <2>3, <3>1 DEF BotInv, About, Changes
      <4>2. \A i \in Jobs : i # j => (Changes(i, b)' => Changes(i, b))
        BY <2>0, <2>3 DEF Changes
      <4>4. QED
        BY <2>0, <2>3, <3>1, <4>1, <4>2, ChangerMoves
    <3>2. QED
      BY <1>3, <2>3, <3>1, Rest
  <2>4. ASSUME NEW b \in Bots, job[j].bot = b, b \notin disturbed,
               job[j].op \in {"save", "disable"}, job[j].at \notin {"idle", "over"}
        PROVE  Knows(j) /\ running[b] \subseteq {tabled[b]}
               /\ (provider = "telegram" => running[b] = {})
    BY <2>4 DEF BotInv, Changes
  <2>5. CASE DeleteWebhook(j)
    <3> DEFINE b == job[j].bot
    <3>1. /\ provider = "telegram" /\ job[j].at = "arrived" /\ b \in Bots
          /\ UNCHANGED <<bot, running, tabled, disturbed>>
          /\ \/ job[j].op = "save" /\ job'[j].at = "verify"
             \/ job[j].op = "disable" /\ job'[j].at = "write"
          /\ job'[j].bot = b /\ \A i \in Jobs : i # j => job'[i] = job[i]
          /\ hook' = hook \/ hook' = [hook EXCEPT ![b] = None]
      BY <2>0, <2>5 DEF DeleteWebhook, Is, Proceeds, JobsOK, BotInv
    <3>2. BotTypes'
      BY <3>1 DEF BotInv, BotTypes
    <3>3. b \notin disturbed' => Knows(j)'
      BY <2>0, <2>4, <3>1 DEF Knows
    <3>4. QED
      BY <2>3, <2>4, <3>1, <3>2, <3>3
  <2>6. CASE TokenRefused(j)
    <3> DEFINE b == job[j].bot
    <3>1. /\ job[j].op = "save" /\ b \in Bots /\ job'[j].at = "over" /\ job'[j].bot = b
          /\ UNCHANGED <<bot, hook, running, tabled>> /\ disturbed \subseteq disturbed'
          /\ job[j].at \notin {"idle", "over"}
          /\ b \notin disturbed' => job[j].at = "arrived"
          /\ \A i \in Jobs : i # j => job'[i] = job[i]
      BY <2>0, <2>6 DEF TokenRefused, Disturbs, Done, Proceeds, JobsOK, BotInv
    <3>2. BotTypes'
      BY <3>1 DEF BotInv, BotTypes
    <3>3. b \notin disturbed' => Settled(b)'
      <4>1. \A i \in Jobs : Failing(i, b) => Failing(i, b)'
        BY <3>1 DEF Failing, Is
      <4>2. b \notin disturbed' => Settled(b)
        BY <2>4, <3>1 DEF Knows
      <4>3. QED
        BY <2>0, <3>1, <4>1, <4>2 DEF Settled, Reachable, Enabled
    <3>4. QED
      BY <2>3, <2>4, <3>1, <3>2, <3>3
  <2>7. CASE SetWebhook(j)
    <3> DEFINE b == job[j].bot
    <3>1. /\ job[j].op = "save" /\ job[j].at = "verify" /\ b \in Bots /\ job'[j].bot = b
          /\ UNCHANGED <<bot, running, tabled, disturbed>>
          /\ \/ hook' = [hook EXCEPT ![b] = j] /\ job'[j].at = "upsert"
             \/ hook' = hook /\ job'[j].at = "unset"
          /\ \A i \in Jobs : i # j => job'[i] = job[i]
      BY <2>0, <2>7 DEF SetWebhook, Is, Proceeds, JobsOK, BotInv
    <3>2. BotTypes' /\ (job'[j].at = "upsert" => hook'[b] = j)
      BY <3>1 DEF BotInv, BotTypes, Sources
    <3>3. b \notin disturbed' => Knows(j)'
      BY <2>0, <2>4, <3>1, <3>2 DEF Knows
    <3>4. QED
      BY <2>3, <2>4, <3>1, <3>2, <3>3
  <2>8. CASE Upsert(j)
    <3> DEFINE b == job[j].bot
    <3>1. /\ job[j].op = "save" /\ b \in Bots /\ job'[j].bot = b
          /\ UNCHANGED <<hook, running, tabled, disturbed>>
          /\ \/ /\ job[j].at = "upsert" /\ job'[j].at = "over"
                /\ bot' = [bot EXCEPT ![b] = [status |-> "active", secret |-> j]]
             \/ /\ job[j].at = "unset" /\ job'[j].at = "over"
                /\ bot' = [bot EXCEPT ![b] = [status |-> "error", secret |-> j]]
             \/ /\ provider = "discord" /\ job[j].at = "arrived" /\ job'[j].at = "restart"
                /\ bot' = [bot EXCEPT ![b] = [status |-> "active", secret |-> First]]
          /\ \A i \in Jobs : i # j => job'[i] = job[i]
      BY <2>0, <2>8 DEF Upsert, Configures, Is, Done, Proceeds, JobsOK, BotInv
    <3>2. BotTypes'
      BY <3>1, SMTT(30) DEF BotInv, BotTypes, Sources
    <3>3. b \notin disturbed' => IF job'[j].at = "over" THEN Settled(b)' ELSE Knows(j)'
      <4>1. CASE job[j].at = "upsert"
        <5>1. b \notin disturbed => hook[b] = j /\ provider = "telegram"
          BY <2>4, <3>1, <4>1 DEF Knows
        <5>2. bot'[b] = [status |-> "active", secret |-> j]
          BY <3>1, <4>1 DEF BotInv, BotTypes
        <5>3. QED
          BY <2>0, <3>1, <4>1, <5>1, <5>2 DEF Settled, Reachable, Enabled
      <4>2. CASE job[j].at = "unset"
        <5>1. bot'[b] = [status |-> "error", secret |-> j]
          BY <3>1, <4>2 DEF BotInv, BotTypes
        <5>2. QED
          BY <3>1, <4>2, <5>1 DEF Settled
      <4>3. CASE job[j].at = "arrived"
        <5>1. bot'[b] = [status |-> "active", secret |-> First]
          BY <3>1, <4>3 DEF BotInv, BotTypes
        <5>2. QED
          BY <2>0, <3>1, <4>3, <5>1 DEF Knows
      <4>4. QED
        BY <3>1, <4>1, <4>2, <4>3
    <3>4. QED
      BY <2>3, <2>4, <3>1, <3>2, <3>3
  <2>9. CASE WriteDisabled(j)
    <3> DEFINE b == job[j].bot
    <3>1. /\ job[j].op = "disable" /\ job[j].at = "write" /\ b \in Bots
          /\ job'[j].bot = b /\ job'[j].at = "over"
          /\ UNCHANGED <<hook, running, tabled, disturbed>>
          /\ bot' = [bot EXCEPT ![b] = [status |-> "disabled", secret |-> bot[b].secret]]
          /\ \A i \in Jobs : i # j => job'[i] = job[i]
      BY <2>0, <2>9 DEF WriteDisabled, Configures, Is, Done, Proceeds, JobsOK, BotInv
    <3>2. BotTypes' /\ bot'[b].status = "disabled"
      BY <3>1 DEF BotInv, BotTypes
    <3>3. b \notin disturbed' => Settled(b)'
      BY <2>4, <3>1, <3>2 DEF Settled, Knows
    <3>4. QED
      BY <2>3, <2>4, <3>1, <3>2, <3>3
  <2>10. CASE StopClient(j)
    <3> DEFINE b == job[j].bot
    <3>1. /\ provider = "discord" /\ b \in Bots /\ job'[j].bot = b
          /\ UNCHANGED <<bot, hook, disturbed>>
          /\ \/ job[j].op = "save" /\ job[j].at = "restart" /\ job'[j].at = "start"
             \/ job[j].op = "disable" /\ job[j].at = "arrived" /\ job'[j].at = "write"
          /\ tabled' = [tabled EXCEPT ![b] = None]
          /\ running' = [running EXCEPT ![b] = running[b] \ {tabled[b]}]
      BY <2>0, <2>10 DEF StopClient, StopsFor, Is, JobsOK, BotInv, BotOps
    <3>2. \A i \in Jobs : i # j => job'[i].bot = job[i].bot
                                   /\ (job'[i].at = job[i].at \/ job'[i].at = "over")
      BY <2>10 DEF StopClient, StopsFor, JobsOK
    <3>3. BotTypes' /\ (b \notin disturbed => running'[b] = {})
      BY <2>4, <3>1 DEF BotInv, BotTypes
    <3>4. b \notin disturbed' => Knows(j)'
      BY <2>0, <2>4, <3>1, <3>3 DEF Knows
    <3>5. QED
      BY <2>3, <3>1, <3>2, <3>3, <3>4
  <2>11. CASE StartClient(j)
    <3> DEFINE b == job[j].bot
    <3>1. /\ job[j].op = "save" /\ job[j].at = "start" /\ b \in Bots /\ provider = "discord"
          /\ job'[j].bot = b /\ job'[j].at = "over"
          /\ UNCHANGED <<bot, hook, disturbed>>
          /\ tabled' = [tabled EXCEPT ![b] = j]
          /\ running' = [running EXCEPT ![b] = running[b] \cup {j}]
          /\ \A i \in Jobs : i # j => job'[i] = job[i]
      BY <2>0, <2>11 DEF StartClient, Is, Done, Proceeds, JobsOK, BotInv
    <3>2. BotTypes' /\ running'[b] = running[b] \cup {j} /\ tabled'[b] = j
      BY <3>1 DEF BotInv, BotTypes, Sources
    <3>3. b \notin disturbed =>
              provider = "discord" /\ bot[b].status # "disabled" /\ running[b] = {}
      BY <2>4, <3>1 DEF Knows
    <3>4. b \notin disturbed' => Settled(b)' /\ running'[b] \subseteq {tabled'[b]}
      BY <2>0, <3>1, <3>2, <3>3 DEF Settled, Reachable
    <3>5. QED
      BY <2>3, <3>1, <3>2, <3>3, <3>4
  <2>12. CASE ReportFailure(j)
    <3>1. /\ job[j].op = "fail" /\ job[j].at = "failing" /\ job[j].bot \in Bots
          /\ job'[j].bot = job[j].bot /\ job'[j].at = "over"
          /\ UNCHANGED <<hook, tabled, running, disturbed>>
          /\ bot' = [bot EXCEPT ![job[j].bot] = [status |-> "error", secret |-> bot[job[j].bot].secret]]
          /\ \A i \in Jobs : i # j => job'[i] = job[i]
      BY <2>0, <2>12 DEF ReportFailure, Configures, Is, Done, Proceeds, JobsOK, BotInv
    <3>2. PICK b \in Bots : b = job[j].bot
      BY <3>1
    <3>3. BotTypes' /\ bot'[b].status = "error"
      BY <3>1, <3>2 DEF BotInv, BotTypes
    <3>4. Settled(b)'
      BY <3>3 DEF Settled
    <3>5. \A i \in Jobs : Changes(i, b)' = Changes(i, b) /\ (Changes(i, b) => job'[i] = job[i])
      BY <2>0, <3>1 DEF Changes
    <3>6. b \notin disturbed' => About(b)'
      <4>1. SUFFICES ASSUME b \notin disturbed PROVE About(b)'
        BY <3>1
      <4>2. About(b)
        BY <4>1 DEF BotInv, About
      <4>3. ASSUME NEW i \in Jobs, Changes(i, b)' PROVE Knows(i)'
        <5>1. Knows(i) /\ job'[i] = job[i] /\ job[i].bot = b
          BY <3>5, <4>2, <4>3 DEF About, Changes
        <5>2. QED
          BY <2>0, <3>1, <3>3, <3>4, <5>1 DEF Knows
      <4>4. QED
        BY <3>1, <3>4, <3>5, <4>2, <4>3 DEF About
    <3>7. QED
      BY <1>3, <3>1, <3>2, <3>3, <3>6, Rest
  <2>13. QED
    BY <1>3, <2>1, <2>2, <2>5, <2>6, <2>7, <2>8, <2>9, <2>10, <2>11, <2>12 DEF Setup
<1>4. CASE UNCHANGED linkVars
  BY <1>1, <1>4 DEF linkVars
<1>5. QED
  BY <1>2, <1>3, <1>4 DEF LinksNext

-----------------------------------------------------------------------------
(* Theorems                                                                *)

\* Every reachable state satisfies the inductive invariant.
THEOREM LinksInvariant == LinksSpec => []LinksInv
<1>1. LinksInit => LinksInv
  BY JobsInit, ChatInit, AloneInit, BotInit DEF LinksInv
<1>2. LinksInv /\ [LinksNext]_linkVars => LinksInv'
  BY JobsNext, ChatNext, AloneNext, BotNext DEF LinksInv
<1>3. QED
  BY <1>1, <1>2, PTL DEF LinksSpec

\* What a chat says to a bot enters conversations of the bot's user only, however
\* tokens, links and sessions interleave.
THEOREM ChatsAreOwned == LinksSpec => []Owned
<1>1. LinksInv => Owned
  BY DEF LinksInv, ChatInv
<1>2. QED
  BY LinksInvariant, <1>1, PTL

LEMMA OneAtMost ==
    ASSUME NEW S, \A x, y \in S : x = y
    PROVE  Cardinality(S) <= 1
<1>1. CASE S = {}
  BY <1>1, FS_EmptySet
<1>2. CASE S # {}
  <2>1. PICK x \in S : S = {x}
    BY <1>2
  <2>2. QED
    BY <2>1, FS_Singleton
<1>3. QED
  BY <1>1, <1>2

\* Chats get where they belong: to their user's conversations, through the one account
\* and session they have, by bots that can be reached.
THEOREM ChatsGetThere == LinksSpec => []ChatsBelong
<1>1. LinksInv => ChatsBelong
  <2> SUFFICES ASSUME LinksInv PROVE ChatsBelong
    OBVIOUS
  <2>1. OneOfEach
    <3>1. ASSUME NEW b \in Bots \ raced
          PROVE  /\ Cardinality(Linked(b)) <= 1
                 /\ \A a \in Rows(b) : Cardinality(ActiveSessions(a)) <= 1
      <4>1. Cardinality(Linked(b)) <= 1
        BY OneAtMost DEF Linked, Rows, LinksInv, Alone
      <4>2. ASSUME NEW a \in Rows(b) PROVE Cardinality(ActiveSessions(a)) <= 1
        BY OneAtMost DEF ActiveSessions, Rows, LinksInv, AloneSessions
      <4>3. QED
        BY <4>1, <4>2
    <3>2. QED
      BY <3>1 DEF OneOfEach
  <2>2. BotsReached
    BY DEF BotsReached, LinksInv, BotInv, Settled, Changing, Changes
  <2>3. QED
    BY <2>1, <2>2 DEF ChatsBelong, LinksInv, ChatInv
<1>2. QED
  BY LinksInvariant, <1>1, PTL

-----------------------------------------------------------------------------
(* Streaming                                                               *)

\* A text lists its deltas as they came.
Text(s) == s \in Seq(Nat) /\ \A i, j \in DOMAIN s : i < j => s[i] < s[j]
Holds(s) == Text(s) /\ \A i \in DOMAIN s : s[i] <= said

\* What the call of the client is made of.
Llm(st, r, a, b) == [stage |-> st, round |-> r, attempt |-> a, before |-> b]

StreamTypes ==
    /\ llm = Llm(llm.stage, llm.round, llm.attempt, llm.before) /\ llm.before \in Nat
    /\ said \in Nat /\ flushes \in Nat /\ llm.before <= said
    /\ Holds(buffer) /\ Holds(answer)
    /\ sending \in Seq(Seq(Nat)) /\ \A k \in DOMAIN sending : Holds(sending[k])
    /\ chat \in Seq(Nat) /\ \A i \in DOMAIN chat : chat[i] <= said
    /\ dropped \subseteq Nat /\ again \subseteq Nat
    /\ \A n \in dropped \cup again : n <= said

\* The end of the turn sends an answer again only if nothing is left, and nothing comes after it.
AgainLast == again # {} => Stage("over") /\ again = Elements(answer) /\ buffer = <<>>

\* What waits in the buffer has a timer or a flush to come.
FlushComes == buffer # <<>> => flushTimer # "none" \/ flushes > 0

Before(m, n) == m < n \/ n \in again

\* What is shown, what is on its way and what waits are in the order of the deltas.
Ordered ==
    /\ ~swapped => \A i, j \in DOMAIN chat : i < j => Before(chat[i], chat[j])
    /\ ~swapped => \A i \in DOMAIN chat, k \in DOMAIN sending :
                       \A j \in DOMAIN sending[k] : Before(chat[i], sending[k][j])
    /\ \A k, l \in DOMAIN sending : k < l =>
           \A i \in DOMAIN sending[k], j \in DOMAIN sending[l] : Before(sending[k][i], sending[l][j])
    /\ \A b \in DOMAIN buffer :
           /\ \A i \in DOMAIN chat : chat[i] < buffer[b]
           /\ \A k \in DOMAIN sending : \A j \in DOMAIN sending[k] : sending[k][j] < buffer[b]

\* A delta is somewhere once, unless it was dropped; what is sent again, twice at most.
Counts ==
    \A n \in Nat : IF n \in again THEN Shown(n) <= 2
                   ELSE Shown(n) = IF n \in 1..said \ dropped THEN 1 ELSE 0

\* The inductive invariant.
StreamInv == StreamTypes /\ AgainLast /\ FlushComes /\ Ordered /\ Counts

-----------------------------------------------------------------------------
(* How often a delta is in a sequence                                      *)

Carriers(n, q) == Cardinality({i \in DOMAIN q : Times(n, q[i]) > 0})

LEMMA PlacesFinite ==
    ASSUME NEW S, NEW s \in Seq(S), NEW P \in SUBSET DOMAIN s
    PROVE  IsFiniteSet(P) /\ Cardinality(P) \in Nat
<1>1. DOMAIN s = 1..Len(s) /\ Len(s) \in Nat
  OBVIOUS
<1>2. IsFiniteSet(DOMAIN s)
  BY <1>1, FS_Interval
<1> QED
  BY <1>2, FS_Subset, FS_CardinalityType

LEMMA TimesNat ==
    ASSUME NEW s \in Seq(Nat), NEW n
    PROVE  Times(n, s) \in Nat
BY PlacesFinite DEF Times

LEMMA CarriersNat ==
    ASSUME NEW q \in Seq(Seq(Nat)), NEW n
    PROVE  Carriers(n, q) \in Nat
BY PlacesFinite DEF Carriers

LEMMA TimesNone ==
    ASSUME NEW s, NEW n, \A i \in DOMAIN s : s[i] # n
    PROVE  Times(n, s) = 0
<1>1. {i \in DOMAIN s : s[i] = n} = {}
  OBVIOUS
<1> QED
  BY <1>1, FS_EmptySet DEF Times

\* A text has a delta once, or it has it not.
LEMMA TimesOnce ==
    ASSUME NEW s, Text(s), NEW i \in DOMAIN s
    PROVE  Times(s[i], s) = 1
<1>1. \A j \in DOMAIN s : s[j] = s[i] => j = i
  BY DEF Text
<1>2. {j \in DOMAIN s : s[j] = s[i]} = {i}
  BY <1>1
<1> QED
  BY <1>2, FS_Singleton DEF Times

LEMMA TimesOfText ==
    ASSUME NEW s, Text(s), NEW n
    PROVE  Times(n, s) = IF n \in Elements(s) THEN 1 ELSE 0
<1>1. CASE n \in Elements(s)
  BY <1>1, TimesOnce DEF Elements
<1>2. CASE n \notin Elements(s)
  BY <1>2, TimesNone DEF Elements
<1> QED
  BY <1>1, <1>2

\* A text behind a sequence adds each of its deltas once.
LEMMA TimesJoined ==
    ASSUME NEW a \in Seq(Nat), NEW b, Text(b), NEW n
    PROVE  Times(n, a \o b) = Times(n, a) + Times(n, b)
<1> DEFINE c == a \o b
           A == {i \in DOMAIN a : a[i] = n}
<1>1. /\ b \in Seq(Nat) /\ c \in Seq(Nat) /\ Len(c) = Len(a) + Len(b)
      /\ DOMAIN a = 1..Len(a) /\ DOMAIN b = 1..Len(b) /\ DOMAIN c = 1..Len(c)
      /\ Len(a) \in Nat /\ Len(b) \in Nat
      /\ \A i \in 1..Len(a) : c[i] = a[i]
      /\ \A i \in 1..Len(b) : c[Len(a) + i] = b[i]
  BY DEF Text
<1> HIDE DEF c
<1>2. IsFiniteSet(A) /\ Times(n, a) = Cardinality(A) /\ Times(n, a) \in Nat
  BY PlacesFinite DEF Times
<1>3. CASE n \in Elements(b)
  <2>1. PICK j \in 1..Len(b) : b[j] = n
    BY <1>1, <1>3 DEF Elements
  <2>2. ASSUME NEW i \in 1..Len(b), b[i] = n, i # j PROVE FALSE
    <3>1. i < j \/ j < i
      BY <1>1, <2>2
    <3>2. b[i] < b[j] \/ b[j] < b[i]
      BY <1>1, <3>1 DEF Text
    <3>3. b[i] \in Nat /\ b[j] = b[i]
      BY SMTT(30), <1>1, <2>1, <2>2
    <3> QED
      BY <3>2, <3>3
  <2>3. ASSUME NEW i \in 1..Len(c), c[i] = n PROVE i \in A \cup {Len(a) + j}
    <3>1. CASE i \in 1..Len(a)
      BY <1>1, <2>3, <3>1
    <3>2. CASE i \notin 1..Len(a)
      <4>1. i - Len(a) \in 1..Len(b) /\ i = Len(a) + (i - Len(a))
        BY <1>1, <3>2
      <4>2. b[i - Len(a)] = n
        BY <1>1, <2>3, <4>1
      <4> QED
        BY <2>2, <4>1, <4>2
    <3> QED
      BY <3>1, <3>2
  <2>4. ASSUME NEW i \in A \cup {Len(a) + j} PROVE i \in 1..Len(c) /\ c[i] = n
    BY SMTT(30), <1>1, <2>1
  <2>5. {i \in DOMAIN c : c[i] = n} = A \cup {Len(a) + j}
    BY <1>1, <2>3, <2>4
  <2>6. Len(a) + j \notin A
    BY <1>1
  <2>7. Cardinality(A \cup {Len(a) + j}) = Cardinality(A) + 1
    BY <1>2, <2>6, FS_AddElement
  <2>8. Times(n, c) = Times(n, a) + 1
    BY <1>2, <2>5, <2>7 DEF Times
  <2> QED
    BY <1>3, <2>8, TimesOfText DEF c
<1>4. CASE n \notin Elements(b)
  <2>1. ASSUME NEW i \in 1..Len(c), c[i] = n PROVE i \in A
    <3>1. CASE i \in 1..Len(a)
      BY <1>1, <2>1, <3>1
    <3>2. CASE i \notin 1..Len(a)
      <4>1. i - Len(a) \in 1..Len(b) /\ i = Len(a) + (i - Len(a))
        BY <1>1, <3>2
      <4>2. b[i - Len(a)] = n
        BY <1>1, <2>1, <4>1
      <4> QED
        BY <1>1, <1>4, <4>1, <4>2 DEF Elements
    <3> QED
      BY <3>1, <3>2
  <2>2. ASSUME NEW i \in A PROVE i \in 1..Len(c) /\ c[i] = n
    BY <1>1
  <2>3. {i \in DOMAIN c : c[i] = n} = A
    BY <1>1, <2>1, <2>2
  <2>4. Times(n, c) = Times(n, a)
    BY <1>2, <2>3 DEF Times
  <2> QED
    BY <1>2, <1>4, <2>4, TimesOfText DEF c
<1> QED
  BY <1>3, <1>4

LEMMA TimesMore ==
    ASSUME NEW s \in Seq(Nat), NEW m \in Nat, NEW n
    PROVE  Times(n, Append(s, m)) = Times(n, s) + IF m = n THEN 1 ELSE 0
<1>1. PICK b : b = <<m>>
  OBVIOUS
<1>2. Text(b) /\ DOMAIN b = {1} /\ b[1] = m
  BY <1>1 DEF Text
<1>3. Append(s, m) = s \o b
  BY <1>1
<1>4. Times(n, b) = IF m = n THEN 1 ELSE 0
  BY <1>2, TimesOfText DEF Elements
<1> QED
  BY <1>2, <1>3, <1>4, TimesJoined

\* One more message carries what it holds.
LEMMA CarriersMore ==
    ASSUME NEW q \in Seq(Seq(Nat)), NEW m, Text(m), NEW n
    PROVE  Carriers(n, Append(q, m)) = Carriers(n, q) + Times(n, m)
<1> DEFINE A == {i \in DOMAIN q : Times(n, q[i]) > 0}
<1>1. PICK r : r = Append(q, m)
  OBVIOUS
<1>2. /\ DOMAIN q = 1..Len(q) /\ DOMAIN r = 1..Len(q) + 1 /\ Len(q) \in Nat
      /\ r[Len(q) + 1] = m /\ \A i \in 1..Len(q) : r[i] = q[i]
  BY <1>1 DEF Text
<1>3. IsFiniteSet(A) /\ Carriers(n, q) = Cardinality(A) /\ Carriers(n, q) \in Nat
  BY PlacesFinite DEF Carriers
<1>4. CASE Times(n, m) = 1
  <2>1. {i \in DOMAIN r : Times(n, r[i]) > 0} = A \cup {Len(q) + 1}
    BY <1>2, <1>4
  <2>2. Len(q) + 1 \notin A
    BY <1>2
  <2>3. Cardinality(A \cup {Len(q) + 1}) = Cardinality(A) + 1
    BY <1>3, <2>2, FS_AddElement
  <2> QED
    BY <1>1, <1>3, <1>4, <2>1, <2>3 DEF Carriers
<1>5. CASE Times(n, m) = 0
  <2>1. {i \in DOMAIN r : Times(n, r[i]) > 0} = A
    BY <1>2, <1>5
  <2> QED
    <3>1. Carriers(n, r) = Cardinality(A)
      BY <2>1 DEF Carriers
    <3> QED
      BY <1>1, <1>3, <1>5, <3>1
<1> QED
  BY <1>4, <1>5, TimesOfText

\* One message less carries no longer what it held.
LEMMA CarriersLess ==
    ASSUME NEW q \in Seq(Seq(Nat)), NEW i \in DOMAIN q, Text(q[i]), NEW n
    PROVE  LET r == [j \in 1..(Len(q) - 1) |-> q[IF j < i THEN j ELSE j + 1]]
           IN  Carriers(n, q) = Carriers(n, r) + Times(n, q[i])
<1> DEFINE r == [j \in 1..(Len(q) - 1) |-> q[IF j < i THEN j ELSE j + 1]]
           Q == {k \in DOMAIN q : Times(n, q[k]) > 0}
           R == {j \in DOMAIN r : Times(n, r[j]) > 0}
           f == [j \in R |-> IF j < i THEN j ELSE j + 1]
<1>1. Len(q) \in Nat /\ DOMAIN q = 1..Len(q) /\ DOMAIN r = 1..(Len(q) - 1) /\ i \in 1..Len(q)
  OBVIOUS
<1>2. \A j \in 1..(Len(q) - 1) : r[j] = q[IF j < i THEN j ELSE j + 1]
  OBVIOUS
<1> HIDE DEF r
<1>3. ASSUME NEW j \in R PROVE f[j] \in Q \ {i}
  <2>1. j \in 1..(Len(q) - 1) /\ Times(n, r[j]) > 0
    BY <1>1
  <2>2. CASE j < i
    <3>1. f[j] = j /\ r[j] = q[j] /\ j \in 1..Len(q) /\ j # i
      BY <1>1, <1>2, <2>1, <2>2
    <3> QED
      BY <1>1, <2>1, <3>1
  <2>3. CASE ~(j < i)
    <3>1. f[j] = j + 1 /\ r[j] = q[j + 1] /\ j + 1 \in 1..Len(q) /\ j + 1 # i
      BY <1>1, <1>2, <2>1, <2>3
    <3> QED
      BY <1>1, <2>1, <3>1
  <2> QED
    BY <2>2, <2>3
<1>4. ASSUME NEW j \in R, NEW k \in R, f[j] = f[k] PROVE j = k
  BY <1>1, <1>4
<1>5. ASSUME NEW k \in Q \ {i} PROVE \E j \in R : f[j] = k
  <2>1. CASE k < i
    <3>1. k \in 1..(Len(q) - 1)
      BY <1>1, <2>1
    <3>2. r[k] = q[k]
      BY <1>2, <2>1, <3>1
    <3>3. k \in R
      BY <1>1, <3>1, <3>2
    <3> QED
      BY <2>1, <3>3
  <2>2. CASE ~(k < i)
    <3>1. k - 1 \in 1..(Len(q) - 1) /\ ~(k - 1 < i) /\ (k - 1) + 1 = k
      BY <1>1, <2>2
    <3>2. r[k - 1] = q[k]
      BY <1>2, <3>1
    <3>3. k - 1 \in R
      BY <1>1, <3>1, <3>2
    <3> QED
      BY <3>1, <3>3
  <2> QED
    BY <2>1, <2>2
<1>6. f \in [R -> Q \ {i}]
  BY <1>3
<1> HIDE DEF f
<1>7. ExistsBijection(R, Q \ {i})
  <2>1. f \in Injection(R, Q \ {i})
    BY <1>4, <1>6 DEF Injection, IsInjective
  <2>2. f \in Surjection(R, Q \ {i})
    BY <1>5, <1>6 DEF Surjection
  <2> QED
    BY <2>1, <2>2 DEF ExistsBijection, Bijection
<1>8. IsFiniteSet(Q) /\ Carriers(n, q) = Cardinality(Q) /\ Carriers(n, q) \in Nat
  BY PlacesFinite DEF Carriers
<1>9. IsFiniteSet(R)
  <2>1. IsFiniteSet(1..(Len(q) - 1))
    BY <1>1, FS_Interval
  <2> QED
    BY <1>1, <2>1, FS_Subset
<1>10. Cardinality(R) = Cardinality(Q \ {i})
  BY <1>7, <1>9, FS_Bijection
<1>11. Carriers(n, r) = Cardinality(Q \ {i})
  BY <1>10 DEF Carriers
<1>12. CASE Times(n, q[i]) = 1
  <2>1. i \in Q
    BY <1>12
  <2>2. Cardinality(Q \ {i}) = Cardinality(Q) - 1
    BY <1>8, <2>1, FS_RemoveElement
  <2> QED
    BY <1>8, <1>11, <1>12, <2>2 DEF r
<1>13. CASE Times(n, q[i]) = 0
  <2>1. Q \ {i} = Q
    BY <1>13
  <2>2. Carriers(n, q) = Carriers(n, r)
    BY <1>8, <1>11, <2>1
  <2> QED
    BY <1>8, <1>13, <2>2 DEF r
<1> QED
  BY <1>12, <1>13, TimesOfText

LEMMA ShownAs ==
    /\ \A n : Shown(n) = Times(n, chat) + Times(n, buffer) + Carriers(n, sending)
    /\ \A n : Shown(n)' = Times(n, chat') + Times(n, buffer') + Carriers(n, sending')
BY DEF Shown, Carriers

LEMMA CountsNat ==
    ASSUME StreamTypes, NEW n
    PROVE  Times(n, chat) \in Nat /\ Times(n, buffer) \in {0, 1} /\ Carriers(n, sending) \in Nat
<1>1. Times(n, chat) \in Nat /\ Carriers(n, sending) \in Nat
  BY TimesNat, CarriersNat DEF StreamTypes
<1>2. Times(n, buffer) \in {0, 1}
  BY TimesOfText DEF StreamTypes, Holds
<1> QED
  BY <1>1, <1>2

\* Only the end of a turn sends something again.
LEMMA FirstOnly ==
    ASSUME StreamInv, ~Stage("over")
    PROVE  again = {}
BY DEF StreamInv, AgainLast

LEMMA StreamInit == StreamingInit => StreamInv
<1> SUFFICES ASSUME StreamingInit PROVE StreamInv
  OBVIOUS
<1> PICK old \in {<<>>, <<0>>} : StreamingStart(old)
  BY DEF StreamingInit
<1>1. /\ said = 0 /\ answer = old /\ buffer = <<>> /\ flushTimer = "none" /\ flushes = 0
      /\ sending = <<>> /\ chat = <<>> /\ dropped = {} /\ again = {} /\ swapped = FALSE
  BY DEF StreamingStart
<1>2. Holds(buffer)
  BY <1>1 DEF Holds, Text
<1>3. Holds(answer)
  <2>1. CASE answer = <<>>
    BY <2>1 DEF Holds, Text
  <2>2. CASE answer = <<0>>
    BY <1>1, <2>2 DEF Holds, Text
  <2> QED
    BY <1>1, <2>1, <2>2
<1>4. llm = Llm(llm.stage, llm.round, llm.attempt, llm.before) /\ llm.before = 0
  <2>1. llm = [stage |-> "ready", round |-> 1, attempt |-> 0, before |-> 0]
    BY DEF StreamingStart
  <2> QED
    BY <2>1 DEF Llm
<1>5. StreamTypes
  BY <1>1, <1>2, <1>3, <1>4 DEF StreamTypes
<1>6. AgainLast /\ FlushComes /\ Ordered
  BY <1>1 DEF AgainLast, FlushComes, Ordered
<1>7. ASSUME NEW n \in Nat PROVE Shown(n) = 0
  <2>1. Times(n, chat) = 0 /\ Times(n, buffer) = 0
    BY <1>1, TimesNone
  <2>2. {i \in DOMAIN sending : Times(n, sending[i]) > 0} = {}
    BY <1>1
  <2>3. Carriers(n, sending) = 0
    BY <2>2, FS_EmptySet DEF Carriers
  <2> QED
    BY <2>1, <2>3, ShownAs
<1>8. 1..said = {}
  BY <1>1
<1>9. Counts
  BY <1>1, <1>7, <1>8 DEF Counts
<1> QED
  BY <1>5, <1>6, <1>9 DEF StreamInv

\* The chat, the buffer and what is on its way stay.
LEMMA Rests ==
    ASSUME StreamInv, UNCHANGED <<said, buffer, chatSide>>
    PROVE  Ordered' /\ Counts'
<1>1. UNCHANGED <<said, buffer, sending, chat, dropped, again, swapped>>
  BY DEF chatSide
<1>2. Ordered'
  BY <1>1 DEF StreamInv, Ordered, Before
<1>3. \A n : Shown(n)' = Shown(n)
  BY <1>1, ShownAs
<1> QED
  BY <1>1, <1>2, <1>3 DEF StreamInv, Counts

LEMMA Collects ==
    ASSUME StreamInv, again = {}, said' = said + 1, buffer' = Append(buffer, said'), UNCHANGED chatSide
    PROVE  Ordered' /\ Counts'
<1>1. UNCHANGED <<sending, chat, dropped, again, swapped>>
  BY DEF chatSide
<1>2. StreamTypes /\ Ordered /\ Counts
  BY DEF StreamInv
<1>3. buffer \in Seq(Nat) /\ said \in Nat /\ said + 1 \in Nat
  BY <1>2 DEF StreamTypes, Holds, Text
<1>4. /\ DOMAIN buffer' = 1..Len(buffer) + 1 /\ buffer'[Len(buffer) + 1] = said + 1
      /\ DOMAIN buffer = 1..Len(buffer) /\ Len(buffer) \in Nat
      /\ \A b \in 1..Len(buffer) : buffer'[b] = buffer[b]
  BY <1>3
<1>5. ASSUME NEW b \in DOMAIN buffer' PROVE (b \in DOMAIN buffer /\ buffer'[b] = buffer[b]) \/ buffer'[b] = said + 1
  BY <1>4
<1>6. /\ \A i \in DOMAIN chat : chat[i] \in Nat /\ chat[i] < said + 1
      /\ \A k \in DOMAIN sending : \A j \in DOMAIN sending[k] :
             sending[k][j] \in Nat /\ sending[k][j] < said + 1
  <2>1. ASSUME NEW i \in DOMAIN chat PROVE chat[i] \in Nat /\ chat[i] < said + 1
    <3>1. chat \in Seq(Nat) /\ chat[i] <= said
      BY <1>2 DEF StreamTypes
    <3>2. chat[i] \in Nat
      BY <3>1
    <3> QED
      BY <1>3, <3>1, <3>2
  <2>2. ASSUME NEW k \in DOMAIN sending, NEW j \in DOMAIN sending[k]
        PROVE  sending[k][j] \in Nat /\ sending[k][j] < said + 1
    <3>1. sending[k] \in Seq(Nat) /\ sending[k][j] <= said
      BY <1>2 DEF StreamTypes, Holds, Text
    <3>2. sending[k][j] \in Nat
      BY <3>1
    <3> QED
      BY <1>3, <3>1, <3>2
  <2> QED
    BY <2>1, <2>2
<1>7. Ordered'
  <2>1. ASSUME NEW b \in DOMAIN buffer'
        PROVE  /\ \A i \in DOMAIN chat : chat[i] < buffer'[b]
               /\ \A k \in DOMAIN sending : \A j \in DOMAIN sending[k] : sending[k][j] < buffer'[b]
    <3>1. CASE b \in DOMAIN buffer /\ buffer'[b] = buffer[b]
      BY <1>2, <3>1 DEF Ordered
    <3>2. CASE buffer'[b] = said + 1
      BY <1>6, <3>2
    <3> QED
      BY <1>5, <3>1, <3>2
  <2> QED
    BY <1>1, <1>2, <2>1 DEF Ordered, Before
<1>8. ASSUME NEW n \in Nat
      PROVE  Shown(n)' = IF n \in 1..said + 1 \ dropped THEN 1 ELSE 0
  <2>1. Times(n, buffer') = Times(n, buffer) + IF said + 1 = n THEN 1 ELSE 0
    BY <1>3, TimesMore
  <2>2. Shown(n)' = Shown(n) + IF said + 1 = n THEN 1 ELSE 0
    BY <1>1, <1>2, <2>1, CountsNat, ShownAs
  <2>3. Shown(n) = IF n \in 1..said \ dropped THEN 1 ELSE 0
    BY <1>2 DEF Counts
  <2>4. said + 1 \notin dropped
    BY <1>2, <1>3 DEF StreamTypes
  <2>5. CASE n = said + 1
    BY <1>3, <2>2, <2>3, <2>4, <2>5
  <2>6. CASE n # said + 1
    <3>1. n \in 1..said + 1 <=> n \in 1..said
      BY <1>3, <2>6
    <3> QED
      BY <2>2, <2>3, <2>6, <3>1
  <2> QED
    BY <2>5, <2>6
<1> QED
  BY <1>1, <1>7, <1>8 DEF Counts

\* The buffer is given up.
LEMMA Discards ==
    ASSUME StreamInv, again = {}, buffer' = <<>>, dropped' = dropped \cup Elements(buffer),
           UNCHANGED <<said, sending, chat, again, swapped>>
    PROVE  Ordered' /\ Counts'
<1>1. StreamTypes /\ Ordered /\ Counts
  BY DEF StreamInv
<1>2. Ordered'
  BY <1>1 DEF Ordered, Before
<1>3. ASSUME NEW n \in Nat PROVE Shown(n)' = IF n \in 1..said \ dropped' THEN 1 ELSE 0
  <2>1. Times(n, buffer') = 0
    BY TimesNone
  <2>2. Times(n, buffer) = IF n \in Elements(buffer) THEN 1 ELSE 0
    BY <1>1, TimesOfText DEF StreamTypes, Holds
  <2>3. Shown(n) = IF n \in 1..said \ dropped THEN 1 ELSE 0
    BY <1>1 DEF Counts
  <2>4. Shown(n)' = Shown(n) - Times(n, buffer) /\ Shown(n)' \in Nat
    BY <1>1, <2>1, CountsNat, ShownAs
  <2>5. CASE n \in Elements(buffer)
    <3>1. Shown(n)' = 0
      BY <2>2, <2>3, <2>4, <2>5
    <3> QED
      BY <2>5, <3>1
  <2>6. CASE n \notin Elements(buffer)
    BY <2>2, <2>3, <2>4, <2>6
  <2> QED
    BY <2>5, <2>6
<1> QED
  BY <1>2, <1>3 DEF Counts

\* One more message on its way, behind all that is shown or on its way.
LEMMA SendsInOrder ==
    ASSUME StreamInv, NEW text, Holds(text), sending' = Append(sending, text), again \subseteq again',
           UNCHANGED <<chat, swapped>>, buffer' = <<>>,
           \A t \in DOMAIN text :
               \/ text[t] \in again'
               \/ /\ \A i \in DOMAIN chat : chat[i] < text[t]
                  /\ \A k \in DOMAIN sending : \A j \in DOMAIN sending[k] : sending[k][j] < text[t]
    PROVE  Ordered'
<1>1. StreamTypes /\ Ordered
  BY DEF StreamInv
<1>2. sending \in Seq(Seq(Nat)) /\ text \in Seq(Nat)
  BY <1>1 DEF StreamTypes, Holds, Text
<1>3. /\ DOMAIN sending = 1..Len(sending) /\ Len(sending) \in Nat
      /\ DOMAIN sending' = 1..Len(sending) + 1 /\ sending'[Len(sending) + 1] = text
      /\ \A k \in 1..Len(sending) : sending'[k] = sending[k]
  BY <1>2
<1> DEFINE After(m, n) == m < n \/ n \in again'
<1>4. \A m, n : Before(m, n) => After(m, n)
  BY DEF Before
<1>5. ASSUME NEW k \in DOMAIN sending'
      PROVE  (k \in DOMAIN sending /\ sending'[k] = sending[k]) \/ (k = Len(sending) + 1 /\ sending'[k] = text)
  <2>1. CASE k \in 1..Len(sending)
    BY <1>3, <2>1
  <2>2. CASE k = Len(sending) + 1
    BY <1>3, <2>2
  <2>3. k \in 1..Len(sending) + 1
    BY <1>3
  <2> QED
    BY <1>3, <2>1, <2>2, <2>3
<1>6. ASSUME ~swapped, NEW i \in DOMAIN chat, NEW k \in DOMAIN sending', NEW j \in DOMAIN sending'[k]
      PROVE  After(chat[i], sending'[k][j])
  <2>1. CASE k \in DOMAIN sending /\ sending'[k] = sending[k]
    <3>1. Before(chat[i], sending[k][j])
      BY <1>1, <1>6, <2>1 DEF Ordered
    <3> QED
      BY <1>4, <2>1, <3>1
  <2>2. CASE sending'[k] = text
    BY <1>6, <2>2
  <2> QED
    BY <1>5, <2>1, <2>2
<1>7. ASSUME NEW k \in DOMAIN sending', NEW l \in DOMAIN sending', k < l,
             NEW i \in DOMAIN sending'[k], NEW j \in DOMAIN sending'[l]
      PROVE  After(sending'[k][i], sending'[l][j])
  <2>1. k \in DOMAIN sending /\ sending'[k] = sending[k]
    BY <1>3, <1>7
  <2>2. CASE l \in DOMAIN sending /\ sending'[l] = sending[l]
    <3>1. Before(sending[k][i], sending[l][j])
      BY <1>1, <1>7, <2>1, <2>2 DEF Ordered
    <3> QED
      BY <1>4, <2>1, <2>2, <3>1
  <2>3. CASE sending'[l] = text
    BY <1>7, <2>1, <2>3
  <2> QED
    BY <1>5, <2>2, <2>3
<1>8. ~swapped => \A i, j \in DOMAIN chat : i < j => After(chat[i], chat[j])
  BY <1>1, <1>4 DEF Ordered
<1>9. DOMAIN buffer' = {}
  OBVIOUS
<1> QED
  BY <1>6, <1>7, <1>8, <1>9 DEF Ordered, Before

LEMMA Flushes ==
    ASSUME StreamInv, buffer' = <<>>, Sends(buffer), UNCHANGED <<said, chat, dropped, again, swapped>>
    PROVE  Ordered' /\ Counts'
<1>1. StreamTypes /\ Ordered /\ Counts
  BY DEF StreamInv
<1>2. CASE buffer = <<>>
  <2>1. UNCHANGED sending
    BY <1>2 DEF Sends
  <2>2. UNCHANGED <<said, buffer, chatSide>>
    BY <1>2, <2>1 DEF chatSide
  <2> QED
    BY <2>2, Rests
<1>3. CASE buffer # <<>>
  <2>1. sending' = Append(sending, buffer) /\ Holds(buffer)
    BY <1>1, <1>3 DEF Sends, StreamTypes
  <2>2. Ordered'
    BY <1>1, <2>1, SendsInOrder DEF Ordered
  <2>3. ASSUME NEW n PROVE Shown(n)' = Shown(n)
    <3>1. Carriers(n, sending') = Carriers(n, sending) + Times(n, buffer)
      BY <1>1, <2>1, CarriersMore DEF StreamTypes, Holds
    <3>2. Times(n, buffer') = 0
      BY TimesNone
    <3> QED
      BY <1>1, <3>1, <3>2, CountsNat, ShownAs
  <2> QED
    BY <1>1, <2>2, <2>3 DEF Counts
<1> QED
  BY <1>2, <1>3

\* The answer once more.
LEMMA Repeats ==
    ASSUME StreamInv, again = {}, buffer = <<>>, buffer' = <<>>, Sends(answer), again' = Elements(answer),
           UNCHANGED <<said, chat, dropped, swapped>>
    PROVE  Ordered' /\ Counts'
<1>1. StreamTypes /\ Ordered /\ Counts
  BY DEF StreamInv
<1>2. CASE answer = <<>>
  <2>1. Elements(answer) = {}
    BY <1>2 DEF Elements
  <2>2. UNCHANGED sending
    BY <1>2 DEF Sends
  <2>3. UNCHANGED <<said, buffer, chatSide>>
    BY <2>1, <2>2 DEF chatSide
  <2> QED
    BY <2>3, Rests
<1>3. CASE answer # <<>>
  <2>1. sending' = Append(sending, answer) /\ Holds(answer)
    BY <1>1, <1>3 DEF Sends, StreamTypes
  <2>2. \A t \in DOMAIN answer : answer[t] \in again'
    BY DEF Elements
  <2>3. Ordered'
    BY <2>1, <2>2, SendsInOrder
  <2>4. ASSUME NEW n PROVE Shown(n)' = Shown(n) + IF n \in again' THEN 1 ELSE 0
    <3>1. Carriers(n, sending') = Carriers(n, sending) + Times(n, answer)
      BY <1>1, <2>1, CarriersMore DEF StreamTypes, Holds
    <3>2. Times(n, answer) = IF n \in again' THEN 1 ELSE 0
      BY <2>1, TimesOfText DEF Holds
    <3> QED
      BY <1>1, <3>1, <3>2, CountsNat, ShownAs
  <2>5. \A n \in Nat : Shown(n) = IF n \in 1..said \ dropped THEN 1 ELSE 0
    BY <1>1 DEF Counts
  <2>6. Counts'
    BY <2>4, <2>5 DEF Counts
  <2> QED
    BY <2>3, <2>6
<1> QED
  BY <1>2, <1>3

Left(i, k) == IF k < i THEN k ELSE k + 1

\* The messages that are left are in the order they were in.
LEMMA LeftOver ==
    ASSUME StreamTypes, NEW i \in DOMAIN sending,
           sending' = [j \in 1..(Len(sending) - 1) |-> sending[IF j < i THEN j ELSE j + 1]]
    PROVE  /\ sending' \in Seq(Seq(Nat))
           /\ \A k \in DOMAIN sending' :
                  /\ Left(i, k) \in DOMAIN sending \ {i} /\ sending'[k] = sending[Left(i, k)]
                  /\ i = 1 => Left(i, k) > i
           /\ \A k, l \in DOMAIN sending' : k < l => Left(i, k) < Left(i, l)
           /\ \A n : Carriers(n, sending) = Carriers(n, sending') + Times(n, sending[i])
<1>1. /\ sending \in Seq(Seq(Nat)) /\ Len(sending) \in Nat /\ DOMAIN sending = 1..Len(sending)
      /\ DOMAIN sending' = 1..(Len(sending) - 1) /\ i \in 1..Len(sending)
  BY DEF StreamTypes
<1>2. ASSUME NEW k \in 1..(Len(sending) - 1)
      PROVE  /\ Left(i, k) \in 1..Len(sending) /\ Left(i, k) # i
             /\ sending'[k] = sending[Left(i, k)]
             /\ i = 1 => Left(i, k) > i
  <2>1. sending'[k] = sending[Left(i, k)]
    BY DEF Left
  <2> QED
    BY <1>1, <2>1 DEF Left
<1>3. ASSUME NEW k \in 1..(Len(sending) - 1), NEW l \in 1..(Len(sending) - 1), k < l
      PROVE  Left(i, k) < Left(i, l)
  BY <1>1, <1>3 DEF Left
<1>4. sending' \in Seq(Seq(Nat))
  <2>1. \A k \in 1..(Len(sending) - 1) : sending'[k] \in Seq(Nat)
    BY <1>1, <1>2
  <2>2. Len(sending) - 1 \in Nat
    BY <1>1
  <2>3. sending' = [k \in 1..(Len(sending) - 1) |-> sending'[k]]
    OBVIOUS
  <2> QED
    BY <2>1, <2>2, <2>3
<1>5. ASSUME NEW n PROVE Carriers(n, sending) = Carriers(n, sending') + Times(n, sending[i])
  BY <1>1, CarriersLess DEF StreamTypes, Holds
<1> QED
  BY <1>1, <1>2, <1>3, <1>4, <1>5

LEMMA Delivers ==
    ASSUME StreamInv, NEW i \in DOMAIN sending, DeliverText(i)
    PROVE  Ordered' /\ Counts'
<1>1. StreamTypes /\ Ordered /\ Counts /\ UNCHANGED <<said, again, buffer>>
  BY DEF StreamInv, DeliverText, clientSide
<1>2. /\ \A k \in DOMAIN sending' :
             /\ Left(i, k) \in DOMAIN sending \ {i} /\ sending'[k] = sending[Left(i, k)]
             /\ i = 1 => Left(i, k) > i
      /\ \A k, l \in DOMAIN sending' : k < l => Left(i, k) < Left(i, l)
      /\ \A n : Carriers(n, sending) = Carriers(n, sending') + Times(n, sending[i])
      /\ sending' \in Seq(Seq(Nat))
  BY <1>1, LeftOver DEF DeliverText
<1>3. Holds(sending[i]) /\ chat \in Seq(Nat) /\ sending[i] \in Seq(Nat)
  BY <1>1 DEF StreamTypes, Holds, Text
<1> DEFINE s == sending[i]
<1>4. ASSUME NEW k \in DOMAIN sending', NEW l \in DOMAIN sending', k < l,
             NEW m \in DOMAIN sending'[k], NEW j \in DOMAIN sending'[l]
      PROVE  Before(sending'[k][m], sending'[l][j])
  <2>1. Left(i, k) < Left(i, l) /\ Left(i, k) \in DOMAIN sending /\ Left(i, l) \in DOMAIN sending
    BY <1>2, <1>4
  <2>2. sending'[k] = sending[Left(i, k)] /\ sending'[l] = sending[Left(i, l)]
    BY <1>2
  <2> QED
    BY <1>1, <1>4, <2>1, <2>2 DEF Ordered
<1>5. ASSUME NEW b \in DOMAIN buffer, NEW k \in DOMAIN sending', NEW j \in DOMAIN sending'[k]
      PROVE  sending'[k][j] < buffer[b]
  <2>1. Left(i, k) \in DOMAIN sending /\ sending'[k] = sending[Left(i, k)]
    BY <1>2
  <2> QED
    BY <1>1, <1>5, <2>1 DEF Ordered
<1>6. CASE chat' = chat \o s /\ swapped' = (swapped \/ i > 1) /\ UNCHANGED dropped
  <2>0. /\ DOMAIN chat = 1..Len(chat) /\ DOMAIN s = 1..Len(s) /\ Len(chat) \in Nat /\ Len(s) \in Nat
        /\ DOMAIN chat' = 1..Len(chat) + Len(s)
        /\ \A d \in 1..Len(chat) : chat'[d] = chat[d]
        /\ \A d \in 1..Len(s) : chat'[Len(chat) + d] = s[d]
    BY <1>3, <1>6
  <2>1. ASSUME NEW c \in DOMAIN chat'
        PROVE  \/ c \in DOMAIN chat /\ chat'[c] = chat[c]
               \/ c - Len(chat) \in DOMAIN s /\ chat'[c] = s[c - Len(chat)] /\ \A d \in DOMAIN chat : d < c
    <3>2. CASE c \in 1..Len(chat)
      BY <2>0, <3>2
    <3>3. CASE c \notin 1..Len(chat)
      <4>1. c - Len(chat) \in 1..Len(s) /\ c = Len(chat) + (c - Len(chat))
        BY <2>0, <3>3
      <4>2. chat'[c] = s[c - Len(chat)]
        BY <2>0, <4>1
      <4>3. \A d \in 1..Len(chat) : d < c
        BY <2>0, <3>3
      <4> QED
        BY <2>0, <4>1, <4>2, <4>3
    <3> QED
      BY <3>2, <3>3
  <2>2. ASSUME NEW c \in DOMAIN chat', NEW d \in DOMAIN chat', c < d, ~swapped'
        PROVE  Before(chat'[c], chat'[d])
    <3>1. ~swapped /\ Len(chat) \in Nat /\ DOMAIN chat = 1..Len(chat) /\ c \in Int /\ d \in Int
      <4>1. ~(swapped \/ i > 1)
        BY <1>6, <2>2
      <4> QED
        BY <2>0, <4>1
    <3>2. CASE d \in DOMAIN chat /\ chat'[d] = chat[d]
      <4>1. c \in DOMAIN chat /\ chat'[c] = chat[c]
        BY <2>1, <2>2, <3>1, <3>2
      <4> QED
        BY <1>1, <2>2, <3>1, <3>2, <4>1 DEF Ordered
    <3>3. CASE d - Len(chat) \in DOMAIN s /\ chat'[d] = s[d - Len(chat)]
      <4>1. CASE c \in DOMAIN chat /\ chat'[c] = chat[c]
        BY <1>1, <3>1, <3>3, <4>1 DEF Ordered
      <4>2. CASE c - Len(chat) \in DOMAIN s /\ chat'[c] = s[c - Len(chat)]
        <5>1. c - Len(chat) < d - Len(chat)
          BY <2>2, <3>1
        <5>2. s[c - Len(chat)] < s[d - Len(chat)]
          BY <1>3, <3>3, <4>2, <5>1 DEF Holds, Text
        <5> QED
          BY <3>3, <4>2, <5>2 DEF Before
      <4> QED
        BY <2>1, <4>1, <4>2
    <3> QED
      BY <2>1, <3>2, <3>3
  <2>3. ASSUME NEW c \in DOMAIN chat', ~swapped', NEW k \in DOMAIN sending', NEW j \in DOMAIN sending'[k]
        PROVE  Before(chat'[c], sending'[k][j])
    <3>1. ~swapped /\ ~(i > 1) /\ i \in Nat /\ i # 0
      <4>1. ~(swapped \/ i > 1)
        BY <1>6, <2>3
      <4>2. sending \in Seq(Seq(Nat))
        BY <1>1 DEF StreamTypes
      <4>3. i \in 1..Len(sending)
        BY <4>2
      <4> QED
        BY <4>1, <4>3
    <3>2. /\ Left(i, k) \in DOMAIN sending /\ sending'[k] = sending[Left(i, k)] /\ i < Left(i, k)
      BY <1>2, <3>1 DEF Left
    <3>3. CASE c \in DOMAIN chat /\ chat'[c] = chat[c]
      BY <1>1, <2>3, <3>1, <3>2, <3>3 DEF Ordered
    <3>4. CASE c - Len(chat) \in DOMAIN s /\ chat'[c] = s[c - Len(chat)]
      BY <1>1, <2>3, <3>2, <3>4 DEF Ordered
    <3> QED
      BY <2>1, <3>3, <3>4
  <2>4. ASSUME NEW b \in DOMAIN buffer, NEW c \in DOMAIN chat' PROVE chat'[c] < buffer[b]
    BY <1>1, <2>1 DEF Ordered
  <2>5. Ordered'
    BY <1>1, <1>4, <1>5, <2>2, <2>3, <2>4 DEF Ordered, Before
  <2>6. ASSUME NEW n PROVE Shown(n)' = Shown(n)
    <3>1. Times(n, chat') = Times(n, chat) + Times(n, s) /\ Times(n, s) \in Nat
      BY <1>3, <1>6, TimesJoined, TimesNat DEF Holds
    <3>2. Carriers(n, sending') \in Nat
      BY <1>2, CarriersNat
    <3>3. Times(n, chat) \in Nat /\ Times(n, buffer) \in {0, 1}
      BY <1>1, CountsNat
    <3>4. Carriers(n, sending) = Carriers(n, sending') + Times(n, s)
      BY <1>2
    <3>5. /\ Shown(n) = Times(n, chat) + Times(n, buffer) + Carriers(n, sending)
          /\ Shown(n)' = Times(n, chat') + Times(n, buffer) + Carriers(n, sending')
      BY <1>1, ShownAs
    <3> QED
      BY <3>1, <3>2, <3>3, <3>4, <3>5
  <2>7. Counts'
    BY <1>1, <1>6, <2>6 DEF Counts
  <2> QED
    BY <2>5, <2>7
<1>7. CASE dropped' = dropped \cup Elements(s) /\ UNCHANGED <<chat, swapped>>
  <2>1. ASSUME NEW c \in DOMAIN chat, ~swapped, NEW k \in DOMAIN sending', NEW j \in DOMAIN sending'[k]
        PROVE  Before(chat[c], sending'[k][j])
    <3>1. /\ Left(i, k) \in DOMAIN sending /\ sending'[k] = sending[Left(i, k)]
      BY <1>2
    <3> QED
      BY <1>1, <2>1, <3>1 DEF Ordered
  <2>2. Ordered'
    BY <1>1, <1>4, <1>5, <1>7, <2>1 DEF Ordered, Before
  <2>3. ASSUME NEW n \in Nat
        PROVE  IF n \in again' THEN Shown(n)' <= 2
               ELSE Shown(n)' = IF n \in 1..said \ dropped' THEN 1 ELSE 0
    <3>1. Times(n, s) = IF n \in Elements(s) THEN 1 ELSE 0
      BY <1>3, TimesOfText DEF Holds
    <3>2. Carriers(n, sending') \in Nat
      BY <1>2, CarriersNat
    <3>3. Shown(n) = Shown(n)' + Times(n, s) /\ Shown(n)' \in Nat
      <4>1. Times(n, chat) \in Nat /\ Times(n, buffer) \in {0, 1}
        BY <1>1, CountsNat
      <4>2. Carriers(n, sending) = Carriers(n, sending') + Times(n, s)
        BY <1>2
      <4>3. /\ Shown(n) = Times(n, chat) + Times(n, buffer) + Carriers(n, sending)
            /\ Shown(n)' = Times(n, chat) + Times(n, buffer) + Carriers(n, sending')
        BY <1>1, <1>7, ShownAs
      <4> QED
        BY <3>1, <3>2, <4>1, <4>2, <4>3
    <3>4. CASE n \in again
      BY <1>1, <3>1, <3>3, <3>4 DEF Counts
    <3>5. CASE n \notin again /\ n \in Elements(s)
      <4>1. Shown(n) = 1 \/ Shown(n) = 0
        BY <1>1, <3>5 DEF Counts
      <4>2. Shown(n)' = 0
        BY <3>1, <3>3, <3>5, <4>1
      <4> QED
        BY <1>1, <1>7, <3>5, <4>2
    <3>6. CASE n \notin again /\ n \notin Elements(s)
      <4>1. Shown(n)' = Shown(n)
        BY <3>1, <3>3, <3>6
      <4> QED
        BY <1>1, <1>7, <3>6, <4>1 DEF Counts
    <3> QED
      BY <3>4, <3>5, <3>6
  <2>4. Counts'
    BY <1>1, <2>3 DEF Counts
  <2> QED
    BY <2>2, <2>4
<1> QED
  BY <1>6, <1>7 DEF DeliverText

LEMMA FromIsText ==
    ASSUME NEW a \in Nat, NEW b \in Nat, a <= b
    PROVE  Text(From(a, b)) /\ \A i \in DOMAIN From(a, b) : From(a, b)[i] <= b
<1>1. b - a \in Nat /\ \A i \in 1..(b - a) : a + i \in Nat /\ a + i <= b
  OBVIOUS
<1>2. From(a, b) \in Seq(Nat) /\ DOMAIN From(a, b) = 1..(b - a)
  BY <1>1 DEF From
<1>3. \A i \in 1..(b - a) : From(a, b)[i] = a + i
  BY DEF From
<1> QED
  BY <1>1, <1>2, <1>3 DEF Text

\* A step of the client, or the timer's.
LEMMA Advances ==
    ASSUME StreamInv, UNCHANGED <<said, buffer, chatSide>>, ~Stage("over") \/ UNCHANGED <<llm, answer>>,
           llm' = Llm(llm'.stage, llm'.round, llm'.attempt, llm'.before), llm'.before \in Nat, llm'.before <= said,
           Holds(answer)', flushes' \in Nat, buffer # <<>> => flushTimer' # "none" \/ flushes' > 0
    PROVE  StreamInv'
<1>1. Ordered' /\ Counts'
  BY Rests
<1>2. UNCHANGED <<sending, chat, dropped, again, swapped>>
  BY DEF chatSide
<1>3. StreamTypes'
  BY <1>2 DEF StreamInv, StreamTypes, Holds
<1>4. AgainLast'
  BY <1>2, FirstOnly DEF StreamInv, AgainLast, Stage
<1>5. FlushComes'
  BY DEF FlushComes
<1> QED
  BY <1>1, <1>3, <1>4, <1>5 DEF StreamInv

\* A step of the responder that leaves the answer and the client, unless the turn is ending.
LEMMA Responds ==
    ASSUME StreamInv, UNCHANGED <<said, answer>>, buffer' = <<>>,
           llm' = Llm(llm'.stage, llm'.round, llm'.attempt, llm'.before), llm'.before = llm.before,
           flushes' \in Nat, Ordered', Counts',
           sending' = sending \/ \E m : Holds(m) /\ sending' = Append(sending, m),
           UNCHANGED chat,
           dropped' = dropped \/ dropped' = dropped \cup Elements(buffer),
           \/ again' = again /\ (Stage("over") => Stage("over")')
           \/ again' = Elements(answer) /\ Stage("over")'
    PROVE  StreamInv'
<1>1. StreamTypes
  BY DEF StreamInv
<1>2. Holds(buffer)'
  BY DEF Holds, Text
<1>3. Holds(answer)'
  BY <1>1 DEF StreamTypes, Holds
<1>4. sending' \in Seq(Seq(Nat)) /\ \A k \in DOMAIN sending' : Holds(sending'[k])
  <2>1. CASE sending' = sending
    BY <1>1, <2>1 DEF StreamTypes
  <2>2. ASSUME NEW m, Holds(m), sending' = Append(sending, m)
        PROVE  sending' \in Seq(Seq(Nat)) /\ \A k \in DOMAIN sending' : Holds(sending'[k])
    <3>1. sending \in Seq(Seq(Nat)) /\ m \in Seq(Nat) /\ \A k \in DOMAIN sending : Holds(sending[k])
      BY <1>1, <2>2 DEF StreamTypes, Holds, Text
    <3>2. /\ DOMAIN sending' = 1..Len(sending) + 1 /\ sending'[Len(sending) + 1] = m
          /\ DOMAIN sending = 1..Len(sending) /\ Len(sending) \in Nat
          /\ \A k \in 1..Len(sending) : sending'[k] = sending[k]
          /\ sending' \in Seq(Seq(Nat))
      BY <2>2, <3>1
    <3>3. ASSUME NEW k \in DOMAIN sending' PROVE Holds(sending'[k])
      <4>1. CASE k \in 1..Len(sending)
        BY <3>1, <3>2, <4>1
      <4>2. CASE k = Len(sending) + 1
        BY <2>2, <3>2, <4>2
      <4>3. k \in 1..Len(sending) + 1
        BY <3>2
      <4> QED
        BY <3>2, <4>1, <4>2, <4>3
    <3> QED
      BY <3>2, <3>3
  <2> QED
    BY <2>1, <2>2
<1>5. \A s : Holds(s) => \A n \in Elements(s) : n \in Nat /\ n <= said
  <2>1. ASSUME NEW s, Holds(s), NEW i \in DOMAIN s PROVE s[i] \in Nat /\ s[i] <= said
    <3>1. s \in Seq(Nat) /\ s[i] <= said
      BY <2>1 DEF Holds, Text
    <3> QED
      BY <3>1
  <2> QED
    BY <2>1 DEF Elements
<1>6. /\ dropped' \subseteq Nat /\ again' \subseteq Nat
      /\ \A n \in dropped' \cup again' : n <= said
  <2>1. /\ dropped \subseteq Nat /\ again \subseteq Nat /\ \A n \in dropped \cup again : n <= said
        /\ Holds(buffer) /\ Holds(answer)
    BY <1>1 DEF StreamTypes
  <2>2. again' = again \/ again' = Elements(answer)
    OBVIOUS
  <2> QED
    BY <1>5, <2>1, <2>2
<1>7. StreamTypes'
  BY <1>1, <1>2, <1>3, <1>4, <1>6 DEF StreamTypes, Holds
<1>8. AgainLast'
  BY DEF StreamInv, AgainLast
<1>9. FlushComes'
  BY DEF FlushComes
<1> QED
  BY <1>7, <1>8, <1>9 DEF StreamInv

LEMMA StreamNext ==
    ASSUME StreamInv, [StreamingNext]_streamVars
    PROVE  StreamInv'
<1>1. /\ StreamTypes /\ FlushComes /\ llm = Llm(llm.stage, llm.round, llm.attempt, llm.before)
      /\ llm.before \in Nat /\ llm.before <= said /\ said \in Nat /\ flushes \in Nat
      /\ Holds(buffer) /\ Holds(answer)
  BY DEF StreamInv, StreamTypes
<1>2. ASSUME NEW st, NEW r, NEW a, NEW b, llm' = Llm(st, r, a, b)
      PROVE  llm' = Llm(llm'.stage, llm'.round, llm'.attempt, llm'.before) /\ llm'.before = b /\ llm'.stage = st
  BY <1>2 DEF Llm
<1>3. ASSUME ~Stage("over"), UNCHANGED <<said, answer, buffer, flushTimer, flushes, chatSide>>,
             NEW st, NEW r, NEW a, NEW b, llm' = Llm(st, r, a, b), b \in {said, llm.before}
      PROVE  StreamInv'
  <2>1. llm' = Llm(llm'.stage, llm'.round, llm'.attempt, llm'.before) /\ llm'.before = b
    BY <1>2, <1>3
  <2>2. Holds(answer)'
    BY <1>1, <1>3 DEF Holds
  <2> QED
    BY <1>1, <1>3, <2>1, <2>2, Advances DEF FlushComes
<1>4. CASE Calls
  <2>1. llm' = Llm("streams", llm.round, 1, said)
    BY <1>1, <1>4 DEF Calls, Llm
  <2> QED
    BY <1>3, <1>4, <2>1 DEF Calls, Stage
<1>5. CASE Delta
  <2>1. /\ ~Stage("over") /\ said' = said + 1 /\ buffer' = Append(buffer, said') /\ UNCHANGED <<llm, answer, chatSide>>
        /\ \/ flushes' = flushes + 1
           \/ flushTimer' # "none" /\ UNCHANGED flushes
    BY <1>5 DEF Delta, Stage
  <2>2. Ordered' /\ Counts' /\ again = {}
    BY <2>1, FirstOnly, Collects
  <2>3. UNCHANGED <<sending, chat, dropped, again, swapped>>
    BY <2>1 DEF chatSide
  <2>4. ASSUME NEW s, Holds(s) PROVE Text(s) /\ \A i \in DOMAIN s : s[i] <= said'
    <3>1. s \in Seq(Nat) /\ \A i \in DOMAIN s : s[i] <= said
      BY <2>4 DEF Holds, Text
    <3>2. \A i \in DOMAIN s : s[i] \in Nat
      BY <3>1
    <3> QED
      BY <1>1, <2>1, <2>4, <3>1, <3>2 DEF Holds
  <2>5. Holds(buffer)'
    <3>1. buffer \in Seq(Nat) /\ Text(buffer) /\ \A i \in DOMAIN buffer : buffer[i] <= said
      BY <1>1 DEF Holds, Text
    <3>2. /\ DOMAIN buffer = 1..Len(buffer) /\ DOMAIN buffer' = 1..Len(buffer) + 1 /\ Len(buffer) \in Nat
          /\ buffer' \in Seq(Nat) /\ buffer'[Len(buffer) + 1] = said + 1
          /\ \A i \in 1..Len(buffer) : buffer'[i] = buffer[i]
      BY <1>1, <2>1, <3>1
    <3>3. ASSUME NEW i \in 1..Len(buffer) PROVE buffer'[i] \in Nat /\ buffer'[i] <= said
      <4>1. i \in DOMAIN buffer /\ buffer'[i] = buffer[i]
        BY <3>2
      <4>2. buffer[i] \in Nat /\ buffer[i] <= said
        BY <3>1, <4>1
      <4> QED
        BY <4>1, <4>2
    <3>4. ASSUME NEW i \in DOMAIN buffer', NEW j \in DOMAIN buffer', i < j PROVE buffer'[i] < buffer'[j]
      <4>1. i \in 1..Len(buffer)
        BY <3>2, <3>4
      <4>2. CASE j \in 1..Len(buffer)
        BY <3>1, <3>2, <3>4, <4>1, <4>2 DEF Text
      <4>3. CASE j = Len(buffer) + 1
        BY <1>1, <3>2, <3>3, <4>1, <4>3
      <4>4. j \in 1..Len(buffer) + 1
        BY <3>2
      <4> QED
        BY <3>2, <4>2, <4>3, <4>4
    <3>5. ASSUME NEW i \in DOMAIN buffer' PROVE buffer'[i] <= said'
      <4>1. CASE i \in 1..Len(buffer)
        BY <1>1, <2>1, <3>3, <4>1
      <4>2. CASE i = Len(buffer) + 1
        BY <1>1, <2>1, <3>2, <4>2
      <4>3. i \in 1..Len(buffer) + 1
        BY <3>2
      <4> QED
        BY <3>2, <4>1, <4>2, <4>3
    <3> QED
      BY <3>2, <3>4, <3>5 DEF Holds, Text
  <2>6. \A n \in Nat : n <= said => n <= said'
    BY <1>1, <2>1
  <2>7. chat \in Seq(Nat) /\ \A i \in DOMAIN chat : chat[i] \in Nat /\ chat[i] <= said
    BY <1>1 DEF StreamTypes
  <2>8. StreamTypes'
    <3>1. llm' = llm /\ said' \in Nat /\ flushes' \in Nat /\ llm'.before <= said'
      BY <1>1, <2>1
    <3>2. Holds(answer)' /\ \A k \in DOMAIN sending' : Holds(sending[k])'
      BY <1>1, <2>1, <2>3, <2>4 DEF StreamTypes, Holds
    <3> QED
      BY <1>1, <2>3, <2>5, <2>6, <2>7, <3>1, <3>2 DEF StreamTypes
  <2>9. AgainLast' /\ FlushComes'
    BY <1>1, <2>1, <2>2, <2>3 DEF AgainLast, FlushComes
  <2> QED
    BY <2>2, <2>8, <2>9 DEF StreamInv
<1>6. CASE StreamBreaks \/ StreamRefused \/ NextRound \/ TurnStops
  <2>1. ~Stage("over") /\ UNCHANGED <<said, answer, buffer, flushTimer, flushes, chatSide>>
    BY <1>6 DEF StreamBreaks, StreamRefused, NextRound, TurnStops, Stage
  <2>2. \E st, r : llm' = [llm EXCEPT !.stage = st, !.round = r]
    <3>1. CASE StreamBreaks \/ StreamRefused \/ TurnStops
      <4>1. \E st : llm' = [llm EXCEPT !.stage = st]
        BY <3>1 DEF StreamBreaks, StreamRefused, TurnStops
      <4>2. PICK st : llm' = [llm EXCEPT !.stage = st]
        BY <4>1
      <4>3. llm' = [llm EXCEPT !.stage = st, !.round = llm.round]
        BY <1>1, <4>2 DEF Llm
      <4> QED
        BY <4>3
    <3>2. CASE NextRound
      <4>1. llm' = [llm EXCEPT !.stage = "ready", !.round = llm.round + 1]
        BY <3>2 DEF NextRound
      <4> QED
        BY <4>1
    <3> QED
      BY <1>6, <3>1, <3>2
  <2>3. PICK st, r : llm' = [llm EXCEPT !.stage = st, !.round = r]
    BY <2>2
  <2>4. llm' = Llm(st, r, llm.attempt, llm.before)
    BY <1>1, <2>3 DEF Llm
  <2> QED
    BY <1>3, <2>1, <2>4
<1>7. CASE RetryStream
  <2>1. llm' = Llm("streams", llm.round, llm.attempt + 1, said)
    BY <1>1, <1>7 DEF RetryStream, Llm
  <2> QED
    BY <1>3, <1>7, <2>1 DEF RetryStream, Stage
<1>8. CASE StreamEnds
  <2>1. llm' = Llm("answered", llm.round, llm.attempt, llm.before)
    BY <1>1, <1>8 DEF StreamEnds, Llm
  <2>2. llm' = Llm(llm'.stage, llm'.round, llm'.attempt, llm'.before) /\ llm'.before = llm.before
    BY <1>2, <2>1
  <2>3. ~Stage("over") /\ UNCHANGED <<said, buffer, flushTimer, flushes, chatSide>>
    BY <1>8 DEF StreamEnds, Stage
  <2>4. Holds(answer)'
    <3>1. CASE answer' = answer
      BY <1>1, <2>3, <3>1 DEF Holds
    <3>2. CASE answer' = From(llm.before, said)
      BY <1>1, <2>3, <3>2, FromIsText DEF Holds
    <3> QED
      BY <1>8, <3>1, <3>2 DEF StreamEnds
  <2> QED
    BY <1>1, <2>2, <2>3, <2>4, Advances DEF FlushComes
<1>9. CASE TimerFires
  <2>1. UNCHANGED <<said, answer, llm, buffer, chatSide>> /\ flushes' = flushes + 1
    BY <1>9 DEF TimerFires, clientSide
  <2>2. Holds(answer)'
    BY <1>1, <2>1 DEF Holds
  <2>3. flushes' \in Nat /\ flushes' > 0
    BY <1>1, <2>1
  <2> QED
    BY <1>1, <2>1, <2>2, <2>3, Advances
<1>10. CASE FlushBuffer
  <2>1. /\ UNCHANGED <<said, answer, llm, chat, dropped, again, swapped>> /\ buffer' = <<>> /\ Sends(buffer)
        /\ flushes' \in Nat
    BY <1>1, <1>10 DEF FlushBuffer, clientSide
  <2>2. Ordered' /\ Counts'
    BY <2>1, Flushes
  <2>3. sending' = sending \/ \E m : Holds(m) /\ sending' = Append(sending, m)
    BY <1>1, <2>1 DEF Sends
  <2>4. Stage("over") => Stage("over")'
    BY <2>1 DEF Stage
  <2> QED
    BY <1>1, <2>1, <2>2, <2>3, <2>4, Responds
<1>11. CASE AsksUser
  <2>1. /\ ~Stage("over") /\ buffer' = <<>> /\ dropped' = dropped \cup Elements(buffer)
        /\ UNCHANGED <<said, answer, llm, flushes, sending, chat, again, swapped>>
    BY <1>11 DEF AsksUser, Discarded, Stage, clientSide
  <2>2. Ordered' /\ Counts'
    BY <2>1, FirstOnly, Discards
  <2> QED
    BY <1>1, <2>1, <2>2, Responds
<1>12. CASE TurnFails
  <2>1. /\ ~Stage("over") /\ buffer' = <<>> /\ dropped' = dropped \cup Elements(buffer)
        /\ UNCHANGED <<said, answer, flushes, sending, chat, again, swapped>>
    BY <1>12 DEF TurnFails, Discarded, Stage
  <2>2. Ordered' /\ Counts'
    BY <2>1, FirstOnly, Discards
  <2>3. llm' = Llm("over", llm.round, llm.attempt, llm.before)
    BY <1>1, <1>12 DEF TurnFails, Llm
  <2>4. llm' = Llm(llm'.stage, llm'.round, llm'.attempt, llm'.before) /\ llm'.before = llm.before
    BY <1>2, <2>3
  <2> QED
    BY <1>1, <2>1, <2>2, <2>4, Responds
<1>13. CASE TurnCompletes
  <2>1. /\ ~Stage("over") /\ buffer' = <<>>
        /\ Sends(IF buffer = <<>> THEN answer ELSE buffer)
        /\ again' = IF buffer = <<>> THEN Elements(answer) ELSE again
        /\ UNCHANGED <<said, answer, flushes, chat, dropped, swapped>>
    BY <1>13 DEF TurnCompletes, Discarded, Stage
  <2>2. llm' = Llm("over", llm.round, llm.attempt, llm.before)
    BY <1>1, <1>13 DEF TurnCompletes, Llm
  <2>3. llm' = Llm(llm'.stage, llm'.round, llm'.attempt, llm'.before) /\ llm'.before = llm.before /\ Stage("over")'
    BY <1>2, <2>2 DEF Stage
  <2>4. CASE buffer = <<>>
    <3>1. Sends(answer) /\ again' = Elements(answer)
      BY <2>1, <2>4
    <3>2. Ordered' /\ Counts'
      BY <2>1, <2>4, <3>1, FirstOnly, Repeats
    <3>3. sending' = sending \/ \E m : Holds(m) /\ sending' = Append(sending, m)
      BY <1>1, <3>1 DEF Sends
    <3> QED
      BY <1>1, <2>1, <2>3, <3>1, <3>2, <3>3, Responds
  <2>5. CASE buffer # <<>>
    <3>1. Sends(buffer) /\ again' = again
      BY <2>1, <2>5
    <3>2. Ordered' /\ Counts'
      BY <2>1, <3>1, Flushes
    <3>3. sending' = sending \/ \E m : Holds(m) /\ sending' = Append(sending, m)
      BY <1>1, <3>1 DEF Sends
    <3> QED
      BY <1>1, <2>1, <2>3, <3>1, <3>2, <3>3, Responds
  <2> QED
    BY <2>4, <2>5
<1>14. ASSUME NEW i \in DOMAIN sending, DeliverText(i) PROVE StreamInv'
  <2>1. Ordered' /\ Counts'
    BY <1>14, Delivers
  <2>2. UNCHANGED <<llm, said, answer, buffer, flushTimer, flushes, again>>
    BY <1>14 DEF DeliverText, clientSide
  <2>3. AgainLast' /\ FlushComes'
    BY <2>2 DEF StreamInv, AgainLast, FlushComes, Stage
  <2>4. /\ sending' \in Seq(Seq(Nat))
        /\ \A k \in DOMAIN sending' : Left(i, k) \in DOMAIN sending /\ sending'[k] = sending[Left(i, k)]
    BY <1>1, <1>14, LeftOver DEF DeliverText
  <2>5. \A k \in DOMAIN sending' : Holds(sending'[k])
    BY <1>1, <2>4 DEF StreamTypes
  <2>6. sending[i] \in Seq(Nat) /\ \A j \in DOMAIN sending[i] : sending[i][j] \in Nat /\ sending[i][j] <= said
    <3>1. sending[i] \in Seq(Nat) /\ \A j \in DOMAIN sending[i] : sending[i][j] <= said
      BY <1>1 DEF StreamTypes, Holds, Text
    <3> QED
      BY <3>1
  <2>7. chat' \in Seq(Nat) /\ \A c \in DOMAIN chat' : chat'[c] <= said
    <3>1. chat \in Seq(Nat) /\ \A c \in DOMAIN chat : chat[c] <= said
      BY <1>1 DEF StreamTypes
    <3>2. CASE UNCHANGED chat
      BY <3>1, <3>2
    <3>3. CASE chat' = chat \o sending[i]
      <4>1. /\ DOMAIN chat = 1..Len(chat) /\ DOMAIN sending[i] = 1..Len(sending[i])
            /\ Len(chat) \in Nat /\ Len(sending[i]) \in Nat
            /\ DOMAIN chat' = 1..Len(chat) + Len(sending[i]) /\ chat' \in Seq(Nat)
            /\ \A d \in 1..Len(chat) : chat'[d] = chat[d]
            /\ \A d \in 1..Len(sending[i]) : chat'[Len(chat) + d] = sending[i][d]
        BY <2>6, <3>1, <3>3
      <4>2. ASSUME NEW c \in DOMAIN chat' PROVE chat'[c] <= said
        <5>1. CASE c \in 1..Len(chat)
          BY <3>1, <4>1, <5>1
        <5>2. CASE c \notin 1..Len(chat)
          <6>1. c - Len(chat) \in 1..Len(sending[i]) /\ c = Len(chat) + (c - Len(chat))
            BY <4>1, <5>2
          <6> QED
            BY <2>6, <4>1, <6>1
        <5> QED
          BY <5>1, <5>2
      <4> QED
        BY <4>1, <4>2
    <3> QED
      BY <1>14, <3>2, <3>3 DEF DeliverText
  <2>8. dropped' \subseteq Nat /\ \A n \in dropped' : n <= said
    <3>1. dropped \subseteq Nat /\ \A n \in dropped : n <= said
      BY <1>1 DEF StreamTypes
    <3>2. dropped' = dropped \/ dropped' = dropped \cup Elements(sending[i])
      BY <1>14 DEF DeliverText
    <3> QED
      BY <2>6, <3>1, <3>2 DEF Elements
  <2>9. StreamTypes'
    BY <1>1, <2>2, <2>4, <2>5, <2>7, <2>8 DEF StreamTypes, Holds
  <2> QED
    BY <2>1, <2>3, <2>9 DEF StreamInv
<1>15. CASE UNCHANGED streamVars
  <2>1. UNCHANGED <<said, answer, llm, buffer, flushTimer, flushes, chatSide>>
    BY <1>15 DEF streamVars, clientSide
  <2>2. Holds(answer)'
    BY <1>1, <2>1 DEF Holds
  <2> QED
    BY <1>1, <2>1, <2>2, Advances DEF FlushComes
<1> QED
  BY <1>4, <1>5, <1>6, <1>7, <1>8, <1>9, <1>10, <1>11, <1>12, <1>13, <1>14, <1>15 DEF StreamingNext

\* Wherever streams break, are tried again or refused, and flushes, questions and the end of the
\* turn interleave: each delta waits, is on its way or is shown once, or else was discarded with the
\* buffer by a question or an error, went with a message that failed, or was sent again as part of
\* the answer a turn ended with (responder.py).
THEOREM TextIsAccountedFor == StreamingSpec => []TextAccounted
<1>1. StreamInv => TextAccounted
  <2> SUFFICES ASSUME StreamInv PROVE TextAccounted
    OBVIOUS
  <2>1. StreamTypes /\ AgainLast /\ FlushComes /\ Ordered /\ Counts /\ said \in Nat
    BY DEF StreamInv, StreamTypes
  <2>2. \A n \in 1..said : n \notin dropped \cup again => Shown(n) = 1
    BY <2>1 DEF Counts
  <2>3. \A n \in dropped \ again : Shown(n) = 0
    BY <2>1 DEF Counts, StreamTypes
  <2>4. \A n \in again : Shown(n) <= 2
    BY <2>1 DEF Counts, StreamTypes
  <2>5. ~swapped => \A i, j \in DOMAIN chat : i < j => chat[i] < chat[j] \/ chat[j] \in again
    BY <2>1 DEF Ordered, Before
  <2> QED
    BY <2>1, <2>2, <2>3, <2>4, <2>5 DEF TextAccounted, AgainLast, FlushComes
<1> QED
  BY <1>1, StreamInit, StreamNext, PTL DEF StreamingSpec
=============================================================================
