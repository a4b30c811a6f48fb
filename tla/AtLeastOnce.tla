----------------------------- MODULE AtLeastOnce -----------------------------
(***************************************************************************)
(* What public.outbox_events promises the rest of the system: an event     *)
(* that a transaction committed is delivered, perhaps more than once, and  *)
(* is not forgotten before that.                                           *)
(***************************************************************************)
EXTENDS Naturals

CONSTANTS Event

VARIABLES stage   \* how far each event got

Init == stage = [e \in Event |-> "absent"]

Commit(e) == stage[e] = "absent" /\ stage' = [stage EXCEPT ![e] = "committed"]

\* A poll delivers any set of events, some of them for the first time.
Deliver ==
  \E es \in SUBSET {e \in Event : stage[e] = "committed"} :
    /\ es # {}
    /\ stage' = [e \in Event |-> IF e \in es THEN "delivered" ELSE stage[e]]

Forget(e) == stage[e] = "delivered" /\ stage' = [stage EXCEPT ![e] = "forgotten"]

Next == Deliver \/ \E e \in Event : Commit(e) \/ Forget(e)

Spec == Init /\ [][Next]_stage
==============================================================================
