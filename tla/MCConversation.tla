--------------------------- MODULE MCConversation ---------------------------
(* Small instances of Conversation for TLC.                                *)
EXTENDS Conversation, TLC

CONSTANTS m0, k0, k1

\* Every sender repeats one keyed message; the first message has a key of its own.
SameKey == [m \in Messages |-> IF m \in Senders THEN k1 ELSE k0]
\* They are alike, and no property of the run is about what must happen.
AlikeSenders == Permutations(Senders)
NoKeys == [m \in Messages |-> NoKey]
=============================================================================
