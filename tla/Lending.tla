------------------------------- MODULE Lending -------------------------------
(***************************************************************************)
(* What a lender of things that are used by one reader at a time promises, *)
(* whatever its mechanism: a thing is lent new or from the shelf, to one   *)
(* reader; it passes to another over the shelf only, where it is put by    *)
(* the reader that had it; and what left both readers and shelf is never   *)
(* seen again.  Sandboxes implements this.                                 *)
(***************************************************************************)
CONSTANTS Thing, Reader

VARIABLES
    made,       \* the things that there are, or have been
    lent,       \* the readers that have a thing
    shelf       \* the things that are ready for the next one

lendingVars == <<made, lent, shelf>>

LendingInit == made = {} /\ lent = [t \in Thing |-> {}] /\ shelf = {}

\* A thing is lent to the reader alone.
Lend(t) ==
    /\ t \in made => t \in shelf
    /\ lent[t] = {} /\ \E r \in Reader : lent'[t] = {r}
    /\ t \in made' /\ t \notin shelf'

PutBack(t) ==
    /\ t \notin shelf /\ \E r \in Reader : lent[t] = {r}
    /\ t \in made' /\ lent'[t] = {} /\ t \in shelf'

\* It is given up by whoever has it, even by its maker.
Retire(t) == t \in made' /\ lent'[t] = {} /\ t \notin shelf'

Stay(t) == lent'[t] = lent[t] /\ (t \in made' <=> t \in made) /\ (t \in shelf' <=> t \in shelf)

LendingNext ==
    /\ \A t \in Thing : Stay(t) \/ Lend(t) \/ PutBack(t) \/ Retire(t)
    /\ made' \subseteq Thing /\ lent' \in [Thing -> SUBSET Reader] /\ shelf' \subseteq Thing

LendingSpec == LendingInit /\ [][LendingNext]_lendingVars
=============================================================================
