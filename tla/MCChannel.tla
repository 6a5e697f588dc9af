----------------------------- MODULE MCChannel -----------------------------
(* Small instances of Channel, Links and Streaming for TLC.  They share    *)
(* no state: part says which of them a behaviour is about, and the others  *)
(* rest.                                                                   *)
EXTENDS Channel, Links, Streaming

CONSTANTS d1, d2, d3, s1, s2, p, q, j1, j2, j3, Parts

VARIABLE part

\* d2 repeats d1; d3 is another message.
Retried == [d \in Deliveries |-> IF d = d3 THEN q ELSE p]
AllDifferent == [d \in Deliveries |-> d]

\* Three jobs at most, of the operations that can disturb each other.
ActsOf(a, b, c) == [j \in Jobs |-> CASE j = j1 -> a [] j = j2 -> b [] j = j3 -> c]
LinkActs == {
    ActsOf("text", "text", "text"), ActsOf("text", "text", "new"), ActsOf("text", "text", "unlink"),
    ActsOf("text", "unlink", "web"), ActsOf("token", "start", "start"), ActsOf("token", "start", "text"),
    ActsOf("token", "start", "unlink"), ActsOf("token", "start", "disable"), ActsOf("disable", "text", "save"),
    ActsOf("save", "save", "disable"), ActsOf("save", "disable", "fail"), ActsOf("save", "save", "fail")}

ChannelsInit ==
    /\ part \in Parts /\ Init
    /\ IF part = "stream" THEN StreamingInit ELSE StreamingStart(<<>>)
    /\ IF part = "links" THEN LinksInit ELSE LinksStart("telegram", {}, CHOOSE acts \in LinkActs : TRUE)

ChannelsNext ==
    /\ UNCHANGED part
    /\ \/ part = "messages" /\ Next /\ UNCHANGED <<linkVars, streamVars>>
       \/ part = "links" /\ LinksNext /\ UNCHANGED <<vars, streamVars>>
       \/ part = "stream" /\ StreamingNext /\ UNCHANGED <<vars, linkVars>>

ChannelsSpec == ChannelsInit /\ [][ChannelsNext]_<<part, vars, linkVars, streamVars>> /\ PollFairness
=============================================================================
