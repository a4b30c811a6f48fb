------------------------------- MODULE Boletos -------------------------------
(***************************************************************************)
(* Bank slips (boletos): the table financial_boletos, one row per entry,   *)
(* the payment gateway they are issued by, and the webhook it reports to.  *)
(*                                                                         *)
(* The gateway is external: it makes a new boleto for every POST it        *)
(* handles, whether or not its answer arrives, cancels only what is not    *)
(* paid, and its reports may be repeated, lost and reordered: the webhook  *)
(* may be told, at any time, any status a boleto has had.                  *)
(***************************************************************************)
EXTENDS Naturals

CONSTANTS
  Entry, Branch,
  Boleto,         \* identifiers the gateway gives
  Request,        \* requests generate and cancel in flight
  MaxAttempts,    \* maxRetries of withRetry
  None

VARIABLES
  row,        \* the row of each entry
  gateway,    \* each boleto at the gateway
  billing,    \* each request in flight
  crossed     \* entries whose row was given a status that is another boleto's (history)

vars == <<row, gateway, billing, crossed>>

Status == {"PENDING", "ACTIVE", "PAID", "CANCELED", "FAILED"}
Idle == [at |-> "idle"]
Cancels == {"deleting", "deleted"}

Init ==
  /\ row = [e \in Entry |-> None]
  /\ gateway = [b \in Boleto |-> [state |-> "new", entry |-> None]]
  /\ billing = [r \in Request |-> Idle]
  /\ crossed = {}

-----------------------------------------------------------------------------
\* findByEntryId: the row of the entry, if it is of the branch the request names.
Found(e, branch) == row[e] # None /\ row[e].branch = branch

\* generate: the check that comes before the gateway is asked.
GenerateCheck(r, e, branch) ==
  /\ billing[r] = Idle
  /\ ~(Found(e, branch) /\ row[e].status = "ACTIVE")
  /\ billing' = [billing EXCEPT ![r] =
       [at |-> "posting", entry |-> e, branch |-> branch, boleto |-> None, attempt |-> 1, answered |-> FALSE]]
  /\ UNCHANGED <<row, gateway, crossed>>

\* Mutant of AfterFailure: when the attempts are used up, the request goes on.
AfterFailureGoOn(q) ==
  IF q.attempt < MaxAttempts THEN [q EXCEPT !.attempt = @ + 1]
  ELSE IF q.at = "deleting" THEN [q EXCEPT !.at = "deleted"] ELSE Idle

\* Mutant of AfterFailure: one attempt too many.
AfterFailureOneMore(q) == IF q.attempt <= MaxAttempts THEN [q EXCEPT !.attempt = @ + 1] ELSE Idle

\* withRetry, after an attempt that failed.
AfterFailure(q) == IF q.attempt < MaxAttempts THEN [q EXCEPT !.attempt = @ + 1] ELSE Idle

\* The gateway is asked in vain, or answers what generateOnGateway refuses.
AttemptFails(r) ==
  /\ billing[r].at \in {"posting", "deleting"}
  /\ billing' = [billing EXCEPT ![r] = AfterFailure(@)]
  /\ UNCHANGED <<row, gateway, crossed>>

\* The timeout of the circuit breaker answers the user; the attempts go on, and what
\* comes of them is dropped.
Answer(r) ==
  /\ billing[r] # Idle /\ ~billing[r].answered
  /\ billing[r].at \in {"posting", "deleting"}
  /\ billing' = [billing EXCEPT ![r].answered = TRUE]
  /\ UNCHANGED <<row, gateway, crossed>>

\* POST /boletos; its answer may be lost, and is of no use once the user was answered.
Post(r, b, lost) ==
  /\ billing[r].at = "posting" /\ gateway[b].state = "new"
  /\ gateway' = [gateway EXCEPT ![b] = [state |-> "live", entry |-> billing[r].entry]]
  /\ billing' = [billing EXCEPT ![r] =
       IF lost THEN AfterFailure(@)
       ELSE IF @.answered THEN Idle ELSE [@ EXCEPT !.at = "posted", !.boleto = b]]
  /\ UNCHANGED <<row, crossed>>

\* upsertGenerated: the row of the entry is replaced whatever it says by now and whatever
\* branch it is of, which it keeps.  The request of another branch ends in an error.
Upsert(r, status) ==
  /\ billing[r].at = "posted"
  /\ LET q == billing[r]
         branch == IF row[q.entry] = None THEN q.branch ELSE row[q.entry].branch
     IN  row' = [row EXCEPT ![q.entry] = [boleto |-> q.boleto, status |-> status, branch |-> branch]]
  /\ crossed' = crossed \ {billing[r].entry}
  /\ billing' = [billing EXCEPT ![r] = Idle]
  /\ UNCHANGED gateway

-----------------------------------------------------------------------------
\* cancel: an entry without a boleto is asked about all the same, under a made-up name.
CancelFind(r, e, branch) ==
  /\ billing[r] = Idle
  /\ billing' = [billing EXCEPT ![r] =
       [at |-> "deleting", entry |-> e, branch |-> branch, attempt |-> 1, answered |-> FALSE,
        boleto |-> IF Found(e, branch) THEN row[e].boleto ELSE None]]
  /\ UNCHANGED <<row, gateway, crossed>>

\* DELETE /boletos/<id>.
Delete(r) ==
  /\ billing[r].at = "deleting"
  /\ LET b == billing[r].boleto
     IN  /\ b # None /\ gateway[b].state \in {"live", "cancelled"}
         /\ gateway' = [gateway EXCEPT ![b].state = "cancelled"]
  /\ billing' = [billing EXCEPT ![r] = IF @.answered THEN Idle ELSE [@ EXCEPT !.at = "deleted"]]
  /\ UNCHANGED <<row, crossed>>

\* A status for boleto b is written into the row of entry e.
Written(e, b, status) ==
  /\ row' = [row EXCEPT ![e].status = status]
  /\ crossed' = IF row[e].boleto = b THEN crossed \ {e} ELSE crossed \cup {e}

\* markCancelled, by entry and branch: perhaps of a boleto generated since.
MarkCancelled(r) ==
  /\ billing[r].at = "deleted"
  /\ LET q == billing[r]
     IN  IF Found(q.entry, q.branch) THEN Written(q.entry, q.boleto, "CANCELED") ELSE UNCHANGED <<row, crossed>>
  /\ billing' = [billing EXCEPT ![r] = Idle]
  /\ UNCHANGED gateway

-----------------------------------------------------------------------------
\* Somebody pays the boleto, at the gateway.
Pay(b) ==
  /\ gateway[b].state = "live"
  /\ gateway' = [gateway EXCEPT ![b].state = "paid"]
  /\ UNCHANGED <<row, billing, crossed>>

\* The statuses a boleto has had, by the state it is in.
Reported(state) ==
  CASE state = "new" -> {} [] state = "live" -> {"PENDING"} [] state = "paid" -> {"PENDING", "PAID"}
    [] state = "cancelled" -> {"PENDING", "CANCELED"}

\* handleWebhook: the row of the entry takes the status, whichever boleto it names.  A
\* report without a row is acknowledged and forgotten.
HandleWebhook(b, status) ==
  /\ status \in Reported(gateway[b].state)
  /\ row[gateway[b].entry] # None
  /\ Written(gateway[b].entry, b, status)
  /\ UNCHANGED <<gateway, billing>>

-----------------------------------------------------------------------------
Next ==
  \/ \E r \in Request :
       \/ \E e \in Entry, branch \in Branch : GenerateCheck(r, e, branch) \/ CancelFind(r, e, branch)
       \/ AttemptFails(r) \/ Answer(r) \/ Delete(r) \/ MarkCancelled(r)
       \/ \E b \in Boleto, lost \in BOOLEAN : Post(r, b, lost)
       \/ \E status \in {"PENDING", "ACTIVE"} : Upsert(r, status)
  \/ \E b \in Boleto : Pay(b) \/ \E status \in Status : HandleWebhook(b, status)

Spec == Init /\ [][Next]_vars

-----------------------------------------------------------------------------
TypeOK ==
  /\ row \in [Entry -> [boleto : Boleto, status : Status, branch : Branch] \cup {None}]
  /\ gateway \in [Boleto -> [state : {"new", "live", "paid", "cancelled"}, entry : Entry \cup {None}]]
  /\ billing \in [Request -> {Idle} \cup
       [at : {"posting", "posted"} \cup Cancels, entry : Entry, branch : Branch,
        boleto : Boleto \cup {None}, attempt : 1 .. MaxAttempts, answered : BOOLEAN]]
  /\ crossed \subseteq Entry

\* A row that says CANCELED or PAID tells what became of the boleto it names, whatever
\* was lost, retried, repeated or reordered, unless the status was another boleto's
\* (cancel after the gateway confirmed; markWebhookStatus and markCancelled by entry).
RowTellsTheGateway ==
  \A e \in Entry : row[e] # None /\ e \notin crossed =>
    /\ row[e].status = "CANCELED" => gateway[row[e].boleto].state = "cancelled"
    /\ row[e].status = "PAID" => gateway[row[e].boleto].state = "paid"
==============================================================================
