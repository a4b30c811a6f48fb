--------------------------------- MODULE Jobs ---------------------------------
(***************************************************************************)
(* What an emitted event causes: the runs of its listeners and the BullMQ  *)
(* jobs they add, with their time limit, attempts and eviction.            *)
(*                                                                         *)
(* An event may be emitted any number of times, as the outbox promises at  *)
(* least once (AtLeastOnce).  Listeners are asynchronous and nobody awaits *)
(* them: each run is an actor of its own that its process may take down    *)
(* with it.  A handler that exceeds its time is an actor too: it is raced  *)
(* against a timer, not stopped.                                           *)
(*                                                                         *)
(* Events of different kinds lead to jobs of different ids and never meet, *)
(* so a behaviour follows the events of one kind.                          *)
(***************************************************************************)
EXTENDS Naturals

CONSTANTS
  Entry,           \* entries the events are about
  Copies,          \* runs of one listener for one event that may overlap
  LastDay          \* days of the model

Attempts == 3

VARIABLES
  kind,        \* the kind of event this behaviour follows
  runs,        \* runs of listeners that have not ended
  jobs,        \* the jobs Redis holds, by job id
  handlers,    \* executions of job handlers that have not ended
  dispatches,  \* collection_dispatches of the rule ON_PAYMENT, by entry and day
  rule,        \* that rule in the branch: absent, without a template, with one
  notices,     \* rows of notifications
  day

vars == <<kind, runs, jobs, handlers, dispatches, rule, notices, day>>

-----------------------------------------------------------------------------
Kinds == {"payment.created", "entry.approved", "entry.rejected", "entry.pending_approval",
          "entry.overdue"}

\* schema: the payload names the tenant's schema.
Run == [listener : {"notification", "audit"}, kind : Kinds, entry : Entry, schema : BOOLEAN,
        copy : 1 .. Copies]

\* Job ids name the queue and the entry, and the day for an overdue entry.
JobId == [queue : {"payment-thanks", "notifications"}, entry : Entry, day : 0 .. LastDay]
NoJob == [state |-> "absent"]
Job == [state : {"waiting", "active", "completed", "failed"}, attempt : 0 .. Attempts]
Handler == [job : JobId, attempt : 1 .. Attempts]

Init ==
  /\ kind \in Kinds
  /\ runs = {}
  /\ jobs = [j \in JobId |-> NoJob]
  /\ handlers = {}
  /\ dispatches = [n \in Entry |-> [d \in 1 .. LastDay |-> 0]]
  /\ rule \in {"absent", "bare", "templated"}
  /\ notices = {}
  /\ day = 1

-----------------------------------------------------------------------------
(* The listeners *)

\* A poll of the outbox emits a committed event, once or again; financial.overdue emits
\* past the outbox, with the schema its own payload names or does not name.
Emitted(k) == IF k = "payment.created" THEN {"notification", "audit"} ELSE {"notification"}
Emit(k, n, schema) ==
  /\ k = kind
  /\ k # "entry.overdue" => schema = (k = "payment.created")
  /\ \E c \in 1 .. (IF k = "entry.overdue" THEN 1 ELSE Copies) :
       LET new == {[listener |-> l, kind |-> k, entry |-> n, schema |-> schema, copy |-> c] : l \in Emitted(k)}
       IN  new \cap runs = {} /\ runs' = runs \cup new
  /\ UNCHANGED <<kind, jobs, handlers, dispatches, rule, notices, day>>

EndRun(r) == runs' = runs \ {r}

\* Mutant of Added: the attempts of a new job are taken for spent.
AddedSpent(j) == [jobs EXCEPT ![j] = [state |-> "waiting", attempt |-> Attempts]]

\* Redis keeps the job it has under an id, whatever its state, and drops the new one.
Added(j) == IF jobs[j] = NoJob THEN [jobs EXCEPT ![j] = [state |-> "waiting", attempt |-> 0]] ELSE jobs
NoticeJob(r, d) == [queue |-> "notifications", entry |-> r.entry, day |-> d]

\* resolveTenantSchema falls back on "tenant_<id>", a schema no code creates: what is
\* then read there fails.
SchemaExists(r) == r.schema

\* document_number is null before the approval, so that the payload is completed by a
\* SELECT; what fails is logged and the run ends.
OnEntryApproved(r) ==
  /\ r.kind = "entry.approved"
  /\ jobs' = IF SchemaExists(r) THEN Added(NoticeJob(r, 0)) ELSE jobs

OnEntryRejected(r) ==
  /\ r.kind = "entry.rejected"
  /\ jobs' = IF SchemaExists(r) THEN Added(NoticeJob(r, 0)) ELSE jobs

\* The SELECT of the approvers names user_roles.deleted_at, which is no column.
OnEntryPendingApproval(r) ==
  /\ r.kind = "entry.pending_approval"
  /\ jobs' = jobs

\* financial.overdue hands over the schema its own payload named, if it did.
OnEntryOverdue(r) ==
  /\ r.kind = "entry.overdue"
  /\ jobs' = IF SchemaExists(r) THEN Added(NoticeJob(r, day)) ELSE jobs

\* The payload names no payment: the job's id is that of the entry.
OnPaymentCreated(r) ==
  /\ r.kind = "payment.created"
  /\ jobs' = Added([queue |-> "payment-thanks", entry |-> r.entry, day |-> 0])

\* writeAuditLog inserts into "tenant_<id>" whatever the payload names: logged, no row.
WriteAuditLog(r) == jobs' = jobs

Listen(r) ==
  /\ r \in runs
  /\ EndRun(r)
  /\ \/ r.listener = "audit" /\ WriteAuditLog(r)
     \/ /\ r.listener = "notification"
        /\ \/ OnEntryApproved(r)
           \/ OnEntryRejected(r)
           \/ OnEntryPendingApproval(r)
           \/ OnEntryOverdue(r)
           \/ OnPaymentCreated(r)
  /\ UNCHANGED <<kind, handlers, dispatches, rule, notices, day>>

\* The process ends, or Redis refuses the job, which is logged.
LoseRun(r) ==
  /\ r \in runs
  /\ EndRun(r)
  /\ UNCHANGED <<kind, jobs, handlers, dispatches, rule, notices, day>>

-----------------------------------------------------------------------------
(* The queue *)

Running(j) == {h \in handlers : h.job = j}

StartAttempt(j) ==
  /\ jobs[j].state = "waiting"
  /\ jobs' = [jobs EXCEPT ![j] = [state |-> "active", attempt |-> @.attempt + 1]]
  /\ handlers' = handlers \cup {[job |-> j, attempt |-> jobs[j].attempt + 1]}
  /\ UNCHANGED <<kind, runs, dispatches, rule, notices, day>>

\* Mutant of AfterFailure: attempts is not looked at.
AfterFailureForever(j) == [jobs[j] EXCEPT !.state = "waiting", !.attempt = 0]

\* A failed attempt is repeated after a backoff, up to the last.
AfterFailure(j) == [jobs[j] EXCEPT !.state = IF jobs[j].attempt < Attempts THEN "waiting" ELSE "failed"]

Current(h) == jobs[h.job].state = "active" /\ jobs[h.job].attempt = h.attempt

\* Thirty seconds pass: the race is lost, the handler goes on.
TimeOut(h) ==
  /\ h \in handlers /\ Current(h)
  /\ jobs' = [jobs EXCEPT ![h.job] = AfterFailure(h.job)]
  /\ UNCHANGED <<kind, runs, handlers, dispatches, rule, notices, day>>

\* What the handler returns or throws settles the attempt it still belongs to.
Settle(h, succeeded) ==
  /\ handlers' = handlers \ {h}
  /\ jobs' = IF Current(h)
               THEN [jobs EXCEPT ![h.job] = IF succeeded THEN [@ EXCEPT !.state = "completed"]
                                                         ELSE AfterFailure(h.job)]
               ELSE jobs

\* Mutant of Conflicts: ON CONFLICT finds no unique (rule, entry, day).
ConflictsNever(n, d) == FALSE

Conflicts(n, d) == dispatches[n][d] > 0

\* financial.payment-thanks: collection_dispatches.email_template_id is NOT NULL.
PaymentThanks(h) ==
  /\ h \in handlers /\ h.job.queue = "payment-thanks"
  /\ Settle(h, rule # "bare")
  /\ dispatches' = IF rule = "templated" /\ ~Conflicts(h.job.entry, day)
                     THEN [dispatches EXCEPT ![h.job.entry][day] = @ + 1] ELSE dispatches
  /\ UNCHANGED <<kind, runs, rule, notices, day>>

\* The database refuses a statement of a handler that lets it throw.
HandlerFails(h) ==
  /\ h \in handlers /\ h.job.queue = "payment-thanks"
  /\ Settle(h, FALSE)
  /\ UNCHANGED <<kind, runs, dispatches, rule, notices, day>>

\* The keys of uq_notifications_idempotency and of the ON CONFLICT that should use it.
UniqueNotice == <<"user_id", "type", "metadata->>'entry_id'", "date_trunc(created_at)">>
ConflictNotice == <<"user_id", "type", "(metadata->>'entry_id')::uuid", "date_trunc(created_at in UTC)">>

\* NotificationsService.create: without a unique index for its ON CONFLICT the INSERT
\* is refused, which is logged.
Create(n, d) == notices' = IF UniqueNotice = ConflictNotice THEN notices \cup {<<n, d>>} ELSE notices

\* financial.notifications catches what it meets: its jobs are never repeated.
Notify(h) ==
  /\ h \in handlers /\ h.job.queue = "notifications"
  /\ Create(h.job.entry, day)
  /\ Settle(h, TRUE)
  /\ UNCHANGED <<kind, runs, dispatches, rule, day>>

\* removeOnComplete, removeOnFail: a hundred later jobs push an ended one out, once
\* no handler of it is left (a bound: each takes a second).
Evict(j) ==
  /\ Running(j) = {}
  /\ jobs[j].state \in {"completed", "failed"}
  /\ jobs' = [jobs EXCEPT ![j] = NoJob]
  /\ UNCHANGED <<kind, runs, handlers, dispatches, rule, notices, day>>

Midnight ==
  /\ day < LastDay
  /\ day' = day + 1
  /\ UNCHANGED <<kind, runs, jobs, handlers, dispatches, rule, notices>>

-----------------------------------------------------------------------------
Next ==
  \/ \E k \in Kinds, n \in Entry, schema \in BOOLEAN : Emit(k, n, schema)
  \/ \E r \in runs : Listen(r) \/ LoseRun(r)
  \/ \E j \in JobId : StartAttempt(j) \/ Evict(j)
  \/ \E h \in handlers : TimeOut(h) \/ PaymentThanks(h) \/ HandlerFails(h) \/ Notify(h)
  \/ Midnight

\* BullMQ starts what waits, and thirty seconds pass for a handler that does not end.
QueueRuns ==
  \A j \in JobId :
    /\ WF_vars(StartAttempt(j))
    /\ WF_vars(\E h \in Running(j) : TimeOut(h) \/ PaymentThanks(h) \/ HandlerFails(h) \/ Notify(h))

\* A run of a listener ends, well or badly.
ListenersEnd == \A r \in Run : WF_vars(Listen(r) \/ LoseRun(r))

Spec == Init /\ [][Next]_vars /\ QueueRuns /\ ListenersEnd

-----------------------------------------------------------------------------
TypeOK ==
  /\ kind \in Kinds
  /\ runs \subseteq Run
  /\ jobs \in [JobId -> Job \cup {NoJob}]
  /\ handlers \subseteq Handler
  /\ dispatches \in [Entry -> [1 .. LastDay -> Nat]]
  /\ rule \in {"absent", "bare", "templated"}
  /\ notices \subseteq Entry \X (1 .. LastDay)
  /\ day \in 1 .. LastDay

\* However many attempts of an entry's job run beside each other, and however often its
\* event is emitted, the entry is thanked once a day (PaymentThanksProcessor).
ThankedOnceADay == \A n \in Entry, d \in 1 .. LastDay : dispatches[n][d] <= 1

\* Every job comes to an end: three attempts, none of which waits for a handler that
\* does not return (QueueService: attempts and timeoutMs).
JobsSettle ==
  \A j \in JobId : jobs[j].state \in {"waiting", "active"} ~> jobs[j].state \in {"completed", "failed", "absent"}

\* NotificationListener: "entry.approved / entry.rejected -> notificacao ao criador do
\* lancamento": a run for an approval that is not cut short leaves a job of the entry in
\* financial.notifications.
Announced(n) == \E j \in JobId : j.queue = "notifications" /\ j.entry = n /\ jobs[j] # NoJob
ApprovalsAnnounced ==
  [][\A r \in runs : r.kind = "entry.approved" /\ Listen(r) => Announced(r.entry)']_vars
==============================================================================
