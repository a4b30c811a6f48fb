------------------------------ MODULE MCDelivery ------------------------------
(***************************************************************************)
(* Instances of Outbox and Jobs for TLC.                                   *)
(*                                                                         *)
(* The two share no variable: Jobs lets an event be emitted any number of  *)
(* times, which is what Outbox promises (AtLeastOnce).  A behaviour runs   *)
(* one of the two and leaves the other in its initial state, so that the   *)
(* state space is the sum of the two and not their product.                *)
(***************************************************************************)
EXTENDS Outbox

CONSTANTS Entry, Copies, LastDay

\* A listener runs at least once for an event, and there is a first day.
ASSUME JobsAssumption == Copies \in Nat \ {0} /\ LastDay \in Nat \ {0}

VARIABLES kind, runs, jobs, handlers, dispatches, rule, notices, day

J == INSTANCE Jobs

VARIABLES focus   \* the component this behaviour runs

jobVars == <<kind, runs, jobs, handlers, dispatches, rule, notices, day>>
allVars == <<vars, jobVars, focus>>

MCInit ==
  /\ Init /\ J!Init
  /\ focus \in {"outbox", "jobs"}
  /\ focus = "outbox" => kind = "payment.created" /\ rule = "absent"

MCNext ==
  \/ focus = "outbox" /\ Next /\ UNCHANGED <<jobVars, focus>>
  \/ focus = "jobs" /\ J!Next /\ UNCHANGED <<vars, focus>>

\* Nothing that is fair is enabled in an initial state, where the other one stays.
MCSpec == MCInit /\ [][MCNext]_allVars /\ PollingLoop /\ J!QueueRuns /\ J!ListenersEnd

\* Every row of the outbox, job and run of a listener holds a value of its type.
TypesOK == TypeOK /\ J!TypeOK

\* An entry is thanked once a day, however often its event is emitted and its job repeated
\* (PaymentThanksProcessor).
ThankedOnceADay == J!ThankedOnceADay

\* Every job of the queue comes to an end (QueueService).
JobsSettle == J!JobsSettle
==============================================================================
