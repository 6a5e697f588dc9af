------------------------------ MODULE MCEvents ------------------------------
(* Small instances of Delivery and AgentRuns for TLC.  The two share no    *)
(* state: part says which of them a behaviour is about, and the other      *)
(* rests in a state in which nothing fair can happen.                      *)
EXTENDS Delivery, AgentRuns

CONSTANTS c1, c2, m1, x1, t1, k1

VARIABLE part

\* The messager posts to the conversation of c1; the stopper and the streamer name its run.
ToFirst == [r \in Messagers \cup Stoppers \cup Streamers |-> c1]

\* Both creators repeat one key with one payload; the message has none.
SharedKey == [r \in Runs |-> IF r \in Creators THEN k1 ELSE Unkeyed]
SamePayload == [r \in Runs |-> "body"]

\* With both creators a message can come before the first turn has started.
RunCasts == {{c1, c2, x1}, {c1, c2, m1}, {c1, m1, x1}, {c1, m1, t1}, {c1, x1, t1}}

EventsInit ==
    /\ DeliveryInit
    /\ \/ part = "runs" /\ RunsInit
       \/ part = "delivery" /\ RunsStart({})

EventsNext ==
    /\ UNCHANGED part
    /\ \/ part = "delivery" /\ DeliveryNext /\ UNCHANGED runsVars
       \/ part = "runs" /\ RunsNext /\ UNCHANGED deliveryVars

EventsSpec ==
    /\ EventsInit /\ [][EventsNext]_<<part, deliveryVars, runsVars>>
    /\ DeliveryFairness /\ RunsFairness
=============================================================================
