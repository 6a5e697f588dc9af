------------------------------ MODULE TaskGraph ------------------------------
(***************************************************************************)
(* What a scheduler of dependent tasks promises, whatever its mechanism:   *)
(* a task starts only when everything it needs is settled, and only on     *)
(* successes unless it tolerates failure; a verdict is given once and only *)
(* a task that ran can succeed; tasks are forgotten all together, when     *)
(* every one of them is settled.  SubAgents implements this.               *)
(***************************************************************************)
CONSTANT Task

VARIABLES stage, needs, tolerant, verdict

gvars == <<stage, needs, tolerant, verdict>>

GInit ==
    /\ stage = [t \in Task |-> "absent"]
    /\ needs = [t \in Task |-> {}]
    /\ tolerant = [t \in Task |-> FALSE]
    /\ verdict = [t \in Task |-> "none"]

Submit(t) ==
    /\ stage[t] = "absent"
    /\ stage' = [stage EXCEPT ![t] = "waiting"]
    /\ \E D \in SUBSET {d \in Task : stage[d] # "absent"} :
           needs' = [needs EXCEPT ![t] = D]
    /\ \E b \in BOOLEAN : tolerant' = [tolerant EXCEPT ![t] = b]
    /\ UNCHANGED verdict

Stays(t) == stage'[t] = stage[t] /\ verdict'[t] = verdict[t]

Starts(t) ==
    /\ stage[t] = "waiting" /\ stage'[t] = "running"
    /\ verdict'[t] = verdict[t]
    /\ \A d \in needs[t] : \/ verdict'[d] = "ok"
                           \/ tolerant[t] /\ verdict'[d] # "none"

Stops(t) ==
    /\ stage[t] \in {"waiting", "running"} /\ stage'[t] = "stopped"
    /\ verdict'[t] = verdict[t]

Settles(t) ==
    /\ stage[t] \in {"waiting", "running", "stopped"} /\ stage'[t] = "settled"
    /\ verdict[t] = "none" /\ verdict'[t] # "none"
    /\ verdict'[t] = "ok" => stage[t] = "running"

Advance ==
    /\ \A t \in Task : Stays(t) \/ Starts(t) \/ Stops(t) \/ Settles(t)
    /\ UNCHANGED <<needs, tolerant>>

Forget ==
    /\ \A t \in Task : stage[t] \in {"absent", "settled"}
    /\ stage' = [t \in Task |-> "absent"]
    /\ needs' = [t \in Task |-> {}]
    /\ tolerant' = [t \in Task |-> FALSE]
    /\ verdict' = [t \in Task |-> "none"]

GNext == (\E t \in Task : Submit(t)) \/ Advance \/ Forget

GSpec == GInit /\ [][GNext]_gvars
=============================================================================
