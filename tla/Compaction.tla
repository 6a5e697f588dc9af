----------------------------- MODULE Compaction -----------------------------
(***************************************************************************)
(* What the Observer of agent/context/compaction.py makes of a history     *)
(* that outgrows its token budget: which messages stay, which are folded   *)
(* into a summary and in which order texts are shortened.                  *)
(*                                                                         *)
(* A text is its weight, an estimate of its tokens in units of the         *)
(* shortest text the code shortens nothing below; halving stops at 1.      *)
(* Whether a summariser answers, and how long, is a choice of the caller.  *)
(***************************************************************************)
EXTENDS Integers, FiniteSets, SequencesExt

CONSTANTS
    TokenBudget,        \* profile.token_budget
    MaxFull,            \* profile.max_full_interactions
    MaxDialogue,        \* profile.max_full_dialogue_turns
    SummaryWeights,     \* how long a summary may be
    PreviewWeight       \* what stays of one result without a summary: fallback_preview_chars

ASSUME CompactionAssumption ==
    /\ MaxFull \in Nat /\ MaxDialogue \in Nat
    /\ SummaryWeights \subseteq Nat /\ PreviewWeight \in Nat
    /\ \E longest \in SummaryWeights : \A w \in SummaryWeights : w <= longest

\* A message: a user's turn (ask), an assistant's text or its tool calls (use), the
\* results of tool calls, and the two synthetic summaries (work, talk).  id is the turn
\* of an ask and the batch of a use or of results; size counts the calls of a batch;
\* bad results are errors, which nothing shortens.
Message(kind, id, size, w, bad) == [kind |-> kind, id |-> id, size |-> size, w |-> w, bad |-> bad]

Ask(turn, w)           == Message("ask", turn, 0, w, FALSE)
Text(w)                == Message("text", 0, 0, w, FALSE)
Use(batch, size)       == Message("use", batch, size, 1, FALSE)
Results(batch, size, w, bad) == Message("results", batch, size, w, bad)
Summary(kind, w)       == Message(kind, 0, 0, w, FALSE)

SmallerOf(a, b) == IF a < b THEN a ELSE b
LargerOf(a, b)  == IF a < b THEN b ELSE a
Least(S)    == CHOOSE i \in S : \A j \in S : i <= j
Greatest(S) == CHOOSE i \in S : \A j \in S : i >= j

-----------------------------------------------------------------------------
Tokens(msgs) == FoldSeq(LAMBDA m, sum : m.w + sum, 0, msgs)
Fits(msgs)   == Tokens(msgs) <= TokenBudget

Shortenable(msgs, kind) == {i \in 2 .. Len(msgs) : msgs[i].kind = kind /\ ~msgs[i].bad /\ msgs[i].w > 1}
Rewritten(m, w) == Message(m.kind, m.id, m.size, w, m.bad)
Halved(msgs, i) == [msgs EXCEPT ![i] = Rewritten(@, @.w \div 2)]

\* One round of _shrink_tool_candidate: the summary first, then the oldest results, then
\* the first message; with nothing left to shorten everything but the first message
\* becomes one summary.
ShrinkTool(msgs) ==
    LET works == Shortenable(msgs, "work")
        results == Shortenable(msgs, "results")
    IN  CASE Fits(msgs)     -> msgs
          [] ~Fits(msgs) /\ works # {} -> Halved(msgs, Least(works))
          [] ~Fits(msgs) /\ works = {} /\ results # {} -> Halved(msgs, Least(results))
          [] OTHER -> IF msgs[1].w > 1 THEN Halved(msgs, 1)
                      ELSE IF Len(msgs) > 2 THEN <<msgs[1], Summary("work", Greatest(SummaryWeights))>>
                      ELSE msgs

\* The same for a dialogue: its summary, then the first message.
ShrinkTalk(msgs) ==
    LET talks == Shortenable(msgs, "talk")
    IN  IF Fits(msgs) THEN msgs
        ELSE IF talks # {} THEN Halved(msgs, Least(talks))
        ELSE IF msgs[1].w > 1 THEN Halved(msgs, 1) ELSE msgs

\* Some rounds of either.
Shrink(style, msgs) == IF style = "tool" THEN ShrinkTool(msgs) ELSE ShrinkTalk(msgs)
Shrunk(style, msgs, rounds) ==
    LET after[k \in 0..rounds] == IF k = 0 THEN msgs ELSE Shrink(style, after[k - 1])
    IN  after[rounds]

ToolShrunk(msgs) == Shrunk("tool", msgs, 32)

TalkShrunk(msgs) ==
    LET shrunk == Shrunk("talk", msgs, 24)
    IN  IF Fits(shrunk) THEN shrunk
        ELSE Shrunk("talk", <<shrunk[1], Summary("talk", Greatest(SummaryWeights))>>, 24)

-----------------------------------------------------------------------------
(* Histories with tool calls *)

\* _compute_full_boundary: how many messages come before the k-th last results and the
\* message that asked for them.
FullBoundary(rest, k) ==
    LET found == {i \in DOMAIN rest : rest[i].kind = "results"}
        followed == {i \in found : Cardinality({j \in found : j > i}) >= k - 1}
    IN  IF Cardinality(found) <= k THEN 0 ELSE LargerOf(0, Greatest(followed) - 2)

\* With nothing to leave out the hot tier is made smaller.
KeepFullFrom(rest) ==
    LET fewer == {k \in 1 .. MaxFull : FullBoundary(rest, k) > 0}
    IN  IF fewer = {} THEN 0 ELSE FullBoundary(rest, Greatest(fewer))

\* _compact_message: what is left of a message without a summariser.  A preview stays of
\* each result that is longer than one.
Preview(m) ==
    IF m.kind = "results" /\ ~m.bad THEN Rewritten(m, SmallerOf(m.w, m.size * PreviewWeight)) ELSE m

\* The first messages of rest summarised, or shortened if the summariser failed (w = 0).
Cut(first, rest, cut, w) ==
    LET warm == SubSeq(rest, 1, cut)
        hot  == SubSeq(rest, cut + 1, Len(rest))
    IN  ToolShrunk(<<first>> \o (IF w > 0 THEN <<Summary("work", w)>>
                                 ELSE [i \in DOMAIN warm |-> Preview(warm[i])]) \o hot)

\* _compact_tool_hot_overflow: a suffix of even length stays, wherever it begins.
HotOverflow(first, rest, w) ==
    LET suffix == SmallerOf(Len(rest), LargerOf(4, 2 * MaxFull))
    IN  IF suffix = Len(rest)
        THEN ToolShrunk(<<first>> \o [i \in DOMAIN rest |-> Preview(rest[i])])
        ELSE Cut(first, rest, Len(rest) - suffix, w)

-----------------------------------------------------------------------------
(* Histories without *)

WithTail(first, rest, n, w) ==
    IF n >= Len(rest) THEN <<first, Summary("talk", w)>>
    ELSE <<first, Summary("talk", w)>> \o SubSeq(rest, Len(rest) - n + 1, Len(rest))

\* _compact_pure_dialogue: the tail is halved until the history fits.  A history that is
\* all tail is folded into the summary whole.
PureDialogue(first, rest, w) ==
    LET most == SmallerOf(LargerOf(2, 2 * MaxDialogue), Len(rest))
        tails == {n \in 2 .. LargerOf(2, most) : \E k \in 0..16 : n = LargerOf(2, most \div 2^k)}
        fitting == {n \in tails : Fits(WithTail(first, rest, n, w))}
    IN  IF most >= Len(rest) THEN TalkShrunk(WithTail(first, rest, most, w))
        ELSE IF fitting # {} THEN WithTail(first, rest, Greatest(fitting), w)
        ELSE TalkShrunk(WithTail(first, rest, 2, w))

-----------------------------------------------------------------------------
\* Observer.compact, for every answer of the summariser; 0 is none, which a dialogue
\* replaces by a truncated transcript.
Compactions(msgs) ==
    LET first == Head(msgs)
        rest  == Tail(msgs)
        from  == KeepFullFrom(rest)
        tools == \E i \in DOMAIN rest : rest[i].kind = "results"
    IN  IF Len(msgs) <= 1 \/ Fits(msgs) THEN {msgs}
        ELSE IF from > 0 THEN {Cut(first, rest, from, w) : w \in {0} \cup SummaryWeights}
        ELSE IF tools THEN {HotOverflow(first, rest, w) : w \in {0} \cup SummaryWeights}
        ELSE {PureDialogue(first, rest, w) : w \in SummaryWeights}

=============================================================================
