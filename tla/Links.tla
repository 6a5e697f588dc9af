------------------------------- MODULE Links --------------------------------
(***************************************************************************)
(* How a chat gets to a conversation: link tokens, linked accounts and the *)
(* sessions of the chat (api/channels/repository.py, router.py), and the   *)
(* bots the messages come in by (api/routes/channels.py, with the Discord  *)
(* clients of api/channels/discord_runtime.py).  What happens to a message *)
(* once it has its conversation is in Channel.                             *)
(*                                                                         *)
(* One person writes to several bots of one provider, each the only bot of *)
(* one user, who goes by its name.  The database is PostgreSQL, whose      *)
(* statements see what was committed before them.                          *)
(***************************************************************************)
EXTENDS Integers, Sequences, FiniteSets

CONSTANTS
    Bots,
    LinkTokens,
    Jobs,       \* messages of the chat, requests of a user, failures of a client
    Acts        \* what each of them may be, [Jobs -> operations]; a bound

None == "none"
First == "first"                        \* what was there before any of the jobs
Sources == Jobs \cup {First}
MessageOps == {"text", "start", "new", "unlink"}
ChatOps == MessageOps \cup {"web", "token"}
BotOps == {"save", "disable", "fail"}

ASSUME LinksAssumption == Acts \subseteq [Jobs -> ChatOps \cup BotOps]

VARIABLES
    provider,   \* "telegram" or "discord"
    bot,        \* the configurations: status, and the secret of the webhook
    hook,       \* the secret that Telegram sends
    tabled, \* the client of DiscordClientManager._clients
    running,    \* the clients that run
    token,      \* ChannelLinkTokenModel: whose, and whether it can be used
    account,    \* ChannelAccountModel: bot, user and status
    chatSession,    \* ChannelSessionModel: account, the user of its conversation, is_active
    job,
    entered,    \* <<bot, user>>: a message to the bot entered a conversation of the user
    raced,      \* bots of which two accounts or sessions were created at the same time
    disturbed   \* bots of which two changes overlapped, or one failed half-way

botVars == <<bot, hook, tabled, running, disturbed>>
chatVars == <<token, account, chatSession, entered, raced>>
linkVars == <<provider, job, botVars, chatVars>>

-----------------------------------------------------------------------------
Waits(op) == [op |-> op, at |-> "idle", bot |-> None, tok |-> None, row |-> 0, seen |-> {}, client |-> None]

Is(j, op, at) == job[j].op = op /\ job[j].at = at
Proceeds(j, at) == job' = [job EXCEPT ![j].at = at]
Done(j) == Proceeds(j, "over")
Finds(j, at, row) == job' = [job EXCEPT ![j].at = at, ![j].row = row]

Enabled(b) == bot[b].status \in {"active", "error"}
Rows(b) == {a \in DOMAIN account : account[a].bot = b}
Linked(b) == {a \in Rows(b) : account[a].status = "active"}
ActiveSessions(a) == {s \in DOMAIN chatSession : chatSession[s].account = a /\ chatSession[s].active}
Ended(ss) == [s \in DOMAIN chatSession |-> IF s \in ss THEN [chatSession[s] EXCEPT !.active = FALSE] ELSE chatSession[s]]

\* scalar_one_or_none: a handler that meets two rows raises.
Ambiguous(rows) == Cardinality(rows) > 1
The(rows) == IF rows = {} THEN 0 ELSE CHOOSE r \in rows : TRUE

\* A message comes with the secret of an enabled bot, or by a client that runs.
Reachable(b) == IF provider = "telegram" THEN Enabled(b) /\ hook[b] = bot[b].secret
                                         ELSE running[b] # {}

Starts(j, op, b, t) ==
    /\ Is(j, op, "idle")
    /\ job' = [job EXCEPT ![j] = [@ EXCEPT !.at = "arrived", !.bot = b, !.tok = t]]

-----------------------------------------------------------------------------
(* Messages *)

Comes(j, op, b, t) ==
    /\ Reachable(b) /\ op \in MessageOps /\ Starts(j, op, b, t)
    /\ t \in (IF op = "start" THEN LinkTokens ELSE {None})
    /\ UNCHANGED <<provider, botVars, chatVars>>

\* _handle_channel_message: a text of a linked chat is for a conversation, anything else
\* for the router, which looks again.
FindAccount(j) ==
    /\ job[j].op \in MessageOps /\ job[j].at = "arrived"
    /\ LET rows == Linked(job[j].bot)
       IN  IF Ambiguous(rows) THEN Done(j)
           ELSE IF job[j].op = "text" /\ rows # {} THEN Finds(j, "session", The(rows))
           ELSE Proceeds(j, "router")
    /\ UNCHANGED <<provider, botVars, chatVars>>

\* The newest session is the conversation; without one a conversation is set up first.
FindSession(j) ==
    /\ Is(j, "text", "session")
    /\ LET open == ActiveSessions(job[j].row)
       IN  IF Ambiguous(open) THEN Done(j) /\ UNCHANGED entered
           ELSE IF open = {} THEN Proceeds(j, "create") /\ UNCHANGED entered
           ELSE /\ entered' = entered \cup {<<job[j].bot, chatSession[The(open)].user>>}
                /\ Done(j)
    /\ UNCHANGED <<provider, botVars, token, account, chatSession, raced>>

\* The first statement of create_session sees what is committed by now.
Deactivate(j) ==
    /\ Is(j, "text", "create")
    /\ job' = [job EXCEPT ![j].at = "insert", ![j].seen = ActiveSessions(job[j].row)]
    /\ raced' = IF \E i \in Jobs : job[i].at = "insert" /\ job[i].row = job[j].row
                THEN raced \cup {job[j].bot} ELSE raced
    /\ UNCHANGED <<provider, botVars, token, account, chatSession, entered>>

\* The message goes to the new conversation, of the user the account had when it was found.
CreateSession(j) ==
    /\ Is(j, "text", "insert") /\ Done(j)
    /\ LET user == account[job[j].row].user
       IN  /\ chatSession' = Append(Ended(job[j].seen), [account |-> job[j].row, user |-> user, active |-> TRUE])
           /\ entered' = entered \cup {<<job[j].bot, user>>}
    /\ UNCHANGED <<provider, botVars, token, account, raced>>

\* ChannelRouter.handle_inbound: a text of a chat that was linked only just now is logged
\* and goes nowhere.  A new session it would make has no conversation to refer to.
Route(j) ==
    /\ job[j].op \in MessageOps /\ job[j].at = "router"
    /\ LET rows == Linked(job[j].bot)
       IN  IF Ambiguous(rows) THEN Done(j)
           ELSE IF job[j].op = "start" THEN IF rows = {} THEN Proceeds(j, "consume") ELSE Done(j)
           ELSE IF job[j].op = "text" \/ rows = {} THEN Done(j)
           ELSE Finds(j, "session", The(rows))
    /\ UNCHANGED <<provider, botVars, chatVars>>

\* /new and /unlink; find_active_session locks the row it deactivates.
EndSession(j) ==
    /\ job[j].op \in {"new", "unlink"} /\ job[j].at = "session"
    /\ LET open == ActiveSessions(job[j].row)
       IN  IF Ambiguous(open) THEN Done(j) /\ UNCHANGED chatSession
           ELSE /\ chatSession' = Ended(open)
                /\ Proceeds(j, IF job[j].op = "new" THEN "over" ELSE "unlink")
    /\ UNCHANGED <<provider, botVars, token, account, entered, raced>>

Unlinks(a) == account' = [account EXCEPT ![a].status = "unlinked"]

Unlink(j) ==
    /\ Is(j, "unlink", "unlink") /\ Done(j) /\ Unlinks(job[j].row)
    /\ UNCHANGED <<provider, botVars, token, chatSession, entered, raced>>

\* From the web page; the session stays active.
UnlinkChannelAccount(j, a) ==
    /\ Is(j, "web", "idle") /\ Done(j) /\ Unlinks(a)
    /\ UNCHANGED <<provider, botVars, token, chatSession, entered, raced>>

-----------------------------------------------------------------------------
(* /start *)

\* A token that is unknown, used or too old is refused.
ReadToken(j) ==
    /\ Is(j, "start", "consume")
    /\ \/ token[job[j].tok].state = "fresh" /\ Proceeds(j, "use")
       \/ Done(j)
    /\ UNCHANGED <<provider, botVars, chatVars>>

UseToken(j) ==
    /\ Is(j, "start", "use") /\ Proceeds(j, "check")
    /\ token' = [token EXCEPT ![job[j].tok].state = "used"]
    /\ UNCHANGED <<provider, botVars, account, chatSession, entered, raced>>

\* Mutant: any enabled bot will do.
MutantAllowed(b, user) == Enabled(user)

\* The bot of the user who made the token, and no other.
Allowed(b, user) == Enabled(user) /\ b = user

CheckBot(j) ==
    /\ Is(j, "start", "check")
    /\ Proceeds(j, IF Allowed(job[j].bot, token[job[j].tok].user) THEN "relink" ELSE "over")
    /\ UNCHANGED <<provider, botVars, chatVars>>

FindRow(j) ==
    /\ Is(j, "start", "relink")
    /\ IF Ambiguous(Rows(job[j].bot)) THEN Done(j) ELSE Finds(j, "link", The(Rows(job[j].bot)))
    /\ raced' = IF provider = "discord" /\ \E i \in Jobs : Is(i, "start", "link") /\ job[i].bot = job[j].bot
                THEN raced \cup {job[j].bot} ELSE raced
    /\ UNCHANGED <<provider, botVars, token, account, chatSession, entered>>

\* The constraint on accounts names bot_config_id, which is NULL for Discord: there a second
\* row goes in, and the chat is never found again.
CreateAccount(j) ==
    /\ Is(j, "start", "link") /\ Done(j)
    /\ LET user == token[job[j].tok].user
           new == [bot |-> job[j].bot, user |-> user, status |-> "active"]
       IN  account' = IF job[j].row # 0
                      THEN [account EXCEPT ![job[j].row] = [bot |-> @.bot, user |-> user, status |-> "active"]]
                      ELSE IF provider = "telegram" /\ Rows(job[j].bot) # {} THEN account
                      ELSE Append(account, new)
    /\ UNCHANGED <<provider, botVars, token, chatSession, entered, raced>>

CreateLinkToken(j, t, user) ==
    /\ Is(j, "token", "idle") /\ Done(j)
    /\ token[t].state = None /\ bot[user].status = "active"
    /\ token' = [token EXCEPT ![t] = [user |-> user, state |-> "fresh"]]
    /\ UNCHANGED <<provider, botVars, account, chatSession, entered, raced>>

-----------------------------------------------------------------------------
(* The bots *)

Changing(b) == \E j \in Jobs : job[j].op \in {"save", "disable"} /\ job[j].bot = b /\ job[j].at \notin {"idle", "over"}
Disturbs(b) == disturbed' = disturbed \cup {b}

\* A request reads the configuration; disable ends if there is none.
ChangeBot(j, op, b) ==
    /\ op \in {"save", "disable"} /\ Starts(j, op, b, None)
    /\ IF Changing(b) THEN Disturbs(b) ELSE UNCHANGED disturbed
    /\ op = "disable" => bot[b].status # None
    /\ UNCHANGED <<provider, bot, hook, tabled, running, chatVars>>

\* delete_webhook may fail, which is only logged.
DeleteWebhook(j) ==
    LET b == job[j].bot IN
    /\ provider = "telegram" /\ job[j].at = "arrived"
    /\ IF job[j].op = "save" /\ ~Enabled(b) THEN UNCHANGED hook
       ELSE hook' \in {hook, [hook EXCEPT ![b] = None]}
    /\ \/ Is(j, "save", "arrived") /\ Proceeds(j, "verify")
       \/ Is(j, "disable", "arrived") /\ Proceeds(j, "write")
    /\ UNCHANGED <<provider, bot, tabled, running, disturbed, chatVars>>

\* The provider does not know the bot's token: the request ends, its webhook deleted.
TokenRefused(j) ==
    /\ job[j].op = "save" /\ job[j].at = (IF provider = "telegram" THEN "verify" ELSE "arrived")
    /\ Done(j)
    /\ IF provider = "telegram" THEN Disturbs(job[j].bot) ELSE UNCHANGED disturbed
    /\ UNCHANGED <<provider, bot, hook, tabled, running, chatVars>>

SetWebhook(j) ==
    /\ Is(j, "save", "verify")
    /\ \/ hook' = [hook EXCEPT ![job[j].bot] = j] /\ Proceeds(j, "upsert")
       \/ UNCHANGED hook /\ Proceeds(j, "unset")
    /\ UNCHANGED <<provider, bot, tabled, running, disturbed, chatVars>>

Configures(b, status, secret) == bot' = [bot EXCEPT ![b] = [status |-> status, secret |-> secret]]

\* The row keeps its id whichever bot it is for.
Upsert(j) ==
    /\ \/ Is(j, "save", "upsert") /\ Configures(job[j].bot, "active", j) /\ Done(j)
       \/ Is(j, "save", "unset") /\ Configures(job[j].bot, "error", j) /\ Done(j)
       \/ /\ provider = "discord" /\ Is(j, "save", "arrived")
          /\ Configures(job[j].bot, "active", First) /\ Proceeds(j, "restart")
    /\ UNCHANGED <<provider, hook, tabled, running, disturbed, chatVars>>

WriteDisabled(j) ==
    /\ Is(j, "disable", "write") /\ Done(j)
    /\ Configures(job[j].bot, "disabled", bot[job[j].bot].secret)
    /\ UNCHANGED <<provider, hook, tabled, running, disturbed, chatVars>>

Failing(i, b) == Is(i, "fail", "failing") /\ job[i].bot = b

\* The task of the client is cancelled, which may be about to report its failure.
StopsFor(j, to) ==
    job' = [i \in Jobs |-> IF i = j THEN [job[j] EXCEPT !.at = to]
                           ELSE IF Failing(i, job[j].bot) /\ job[i].client = tabled[job[j].bot]
                           THEN [job[i] EXCEPT !.at = "over"] ELSE job[i]]

\* DiscordClientManager.stop takes the client out of the table and waits for its end.
StopClient(j) ==
    LET b == job[j].bot IN
    /\ provider = "discord"
    /\ \/ Is(j, "save", "restart") /\ StopsFor(j, "start")
       \/ Is(j, "disable", "arrived") /\ StopsFor(j, "write")
    /\ tabled' = [tabled EXCEPT ![b] = None]
    /\ running' = [running EXCEPT ![b] = @ \ {tabled[b]}]
    /\ UNCHANGED <<provider, bot, hook, disturbed, chatVars>>

StartClient(j) ==
    LET b == job[j].bot IN
    /\ Is(j, "save", "start") /\ Done(j)
    /\ tabled' = [tabled EXCEPT ![b] = j]
    /\ running' = [running EXCEPT ![b] = @ \cup {j}]
    /\ UNCHANGED <<provider, bot, hook, disturbed, chatVars>>

\* A client that fails leaves itself in the table and enables its bot.
ClientFails(j, b, k) ==
    /\ Is(j, "fail", "idle") /\ k \in running[b]
    /\ job' = [job EXCEPT ![j] = [@ EXCEPT !.at = "failing", !.bot = b, !.client = k]]
    /\ running' = [running EXCEPT ![b] = @ \ {k}]
    /\ UNCHANGED <<provider, bot, hook, tabled, disturbed, chatVars>>

ReportFailure(j) ==
    /\ Is(j, "fail", "failing") /\ Done(j)
    /\ Configures(job[j].bot, "error", bot[job[j].bot].secret)
    /\ UNCHANGED <<provider, hook, tabled, running, disturbed, chatVars>>

-----------------------------------------------------------------------------
LinksStart(by, set, acts) ==
    LET up(p) == [b \in Bots |-> IF b \in set /\ provider = p THEN First ELSE None]
        linked == CHOOSE b \in Bots : TRUE
    IN  /\ provider = by
        /\ bot = [b \in Bots |-> [status |-> IF b \in set THEN "active" ELSE None, secret |-> First]]
        /\ hook = up("telegram") /\ tabled = up("discord")
        /\ running = [b \in Bots |-> {tabled[b]} \ {None}]
        /\ account \in {<<>>} \cup {<<[bot |-> b, user |-> b, status |-> st]>> :
                                        b \in set \cap {linked}, st \in {"active", "unlinked"}}
        /\ chatSession \in {<<>>} \cup {<<[account |-> a, user |-> account[a].user, active |-> TRUE]>> : a \in DOMAIN account}
        /\ entered = {} /\ raced = {} /\ disturbed = {}
        /\ token = [t \in LinkTokens |-> [user |-> None, state |-> None]]
        /\ job = [j \in Jobs |-> Waits(acts[j])]

\* The bots are set up or not; the chat may be linked with one, and have a session.
LinksInit == \E by \in {"telegram", "discord"}, set \in {{}, Bots}, acts \in Acts : LinksStart(by, set, acts)

Chat(j) ==
    \/ \E op \in MessageOps, b \in Bots, t \in LinkTokens \cup {None} : Comes(j, op, b, t)
    \/ FindAccount(j) \/ FindSession(j) \/ Deactivate(j) \/ CreateSession(j) \/ Route(j)
    \/ EndSession(j) \/ Unlink(j) \/ \E a \in DOMAIN account : UnlinkChannelAccount(j, a)
    \/ ReadToken(j) \/ UseToken(j) \/ CheckBot(j) \/ FindRow(j) \/ CreateAccount(j)
    \/ \E t \in LinkTokens, b \in Bots : CreateLinkToken(j, t, b)

Setup(j) ==
    \/ \E op \in {"save", "disable"}, b \in Bots : ChangeBot(j, op, b)
    \/ DeleteWebhook(j) \/ TokenRefused(j) \/ SetWebhook(j) \/ Upsert(j) \/ WriteDisabled(j)
    \/ StopClient(j) \/ StartClient(j) \/ ReportFailure(j)
    \/ \E b \in Bots : \E k \in running[b] : ClientFails(j, b, k)

LinksNext == \E j \in Jobs : Chat(j) \/ Setup(j)

LinksSpec == LinksInit /\ [][LinksNext]_linkVars

-----------------------------------------------------------------------------
\* The values of the variables.
LinksTypeOK ==
    /\ bot \in [Bots -> [status : {None, "active", "error", "disabled"}, secret : Sources]]
    /\ hook \in [Bots -> Sources \cup {None}] /\ tabled \in [Bots -> Sources \cup {None}]
    /\ running \in [Bots -> SUBSET Sources]
    /\ account \in Seq([bot : Bots, user : Bots, status : {"active", "unlinked"}])
    /\ chatSession \in Seq([account : DOMAIN account, user : Bots, active : BOOLEAN])

\* What the chat says to a bot enters conversations of its user only, whatever tokens it
\* shows, and however it is linked, unlinked and linked again.
Owned ==
    /\ \A a \in DOMAIN account : account[a].user = account[a].bot
    /\ \A s \in DOMAIN chatSession : chatSession[s].user = account[chatSession[s].account].user
    /\ \A e \in entered : e[1] = e[2]

\* A chat has one account and one open session, or it is lost: only transactions that
\* overlap can leave it two.
OneOfEach ==
    \A b \in Bots \ raced :
        /\ Cardinality(Linked(b)) <= 1
        /\ \A a \in Rows(b) : Cardinality(ActiveSessions(a)) <= 1

\* Between two changes a bot that is called active can be reached, and one that is disabled
\* has no client; unless changes overlapped, or one was refused with the webhook gone.
BotsReached ==
    \A b \in Bots \ disturbed : ~Changing(b) =>
        /\ bot[b].status = "active" => Reachable(b) \/ \E j \in Jobs : Failing(j, b)
        /\ bot[b].status = "disabled" => running[b] = {}

\* The chats get where they belong.
ChatsBelong == Owned /\ OneOfEach /\ BotsReached
=============================================================================
