----------------------------- MODULE ResultCache -----------------------------
(***************************************************************************)
(* @CacheResult over one cache key of the dashboard: concurrent readers, a *)
(* lock in Redis that expires, writes to the data behind the result and    *)
(* the invalidation of the listener.                                       *)
(*                                                                         *)
(* A result is only known to be fresh (what computing it now would give)   *)
(* or stale.                                                               *)
(***************************************************************************)
EXTENDS Naturals, FiniteSets

CONSTANTS
  Reader,      \* concurrent calls of the decorated method
  MaxRetries   \* MAX_RETRIES, 60 in the code

VARIABLES
  connected,   \* the client of the locks is connected to Redis
  entry,       \* the cached result
  locked,      \* the key lock:<key> exists
  reader,      \* where each call stands
  lapsed,      \* callers whose lock is gone before they released it (history)
  announced    \* a payment.created or payment.refunded not yet received

vars == <<connected, entry, locked, reader, lapsed, announced>>

Result == {"fresh", "stale"}
Idle == [at |-> "idle"]
ReaderState ==
  {Idle} \cup [at : {"acquire", "recheck", "compute", "fallback", "release"}]
    \cup [at : {"wait"}, retry : 0 .. MaxRetries]
    \cup [at : {"store", "return"}, result : Result]

\* Inside the try block, between acquireLock and releaseLock.
Holders == {r \in Reader : reader[r].at \in {"recheck", "compute", "store", "release"}}

Init ==
  /\ connected = FALSE /\ entry = "none" /\ locked = FALSE
  /\ reader = [r \in Reader |-> Idle]
  /\ lapsed = {} /\ announced = FALSE

Goto(r, s) == reader' = [reader EXCEPT ![r] = s]

-----------------------------------------------------------------------------
(* The decorated method *)

\* 1. A hit, or on to the lock.
Call(r) ==
  /\ reader[r] = Idle
  /\ Goto(r, IF entry = "none" THEN [at |-> "acquire"] ELSE [at |-> "return", result |-> entry])
  /\ UNCHANGED <<connected, entry, locked, lapsed, announced>>

\* Mutant of Free: SET without NX.
FreeAlways == connected

Free == connected /\ ~locked

\* 2. acquireLock
Acquire(r) ==
  /\ reader[r].at = "acquire"
  /\ IF Free
       THEN Goto(r, [at |-> "recheck"]) /\ locked' = TRUE
       ELSE Goto(r, [at |-> "wait", retry |-> 0]) /\ UNCHANGED locked
  /\ UNCHANGED <<connected, entry, lapsed, announced>>

\* The double check; a result that is there goes through finally.
Recheck(r) ==
  /\ reader[r].at = "recheck"
  /\ Goto(r, [at |-> IF entry = "none" THEN "compute" ELSE "release"])
  /\ UNCHANGED <<connected, entry, locked, lapsed, announced>>

Compute(r) ==
  /\ reader[r].at = "compute"
  /\ Goto(r, [at |-> "store", result |-> "fresh"])
  /\ UNCHANGED <<connected, entry, locked, lapsed, announced>>

\* cache.set, whatever was written or invalidated since the result was computed.
Store(r) ==
  /\ reader[r].at = "store"
  /\ entry' = reader[r].result
  /\ Goto(r, [at |-> "release"])
  /\ UNCHANGED <<connected, locked, lapsed, announced>>

\* finally: the lock has no owner, and is deleted whoever took it.
Release(r) ==
  /\ reader[r].at = "release"
  /\ locked' = FALSE
  /\ lapsed' = (IF r \in lapsed /\ locked THEN lapsed \cup Holders ELSE lapsed) \ {r}
  /\ Goto(r, Idle)
  /\ UNCHANGED <<connected, entry, announced>>

\* The method throws: what holds the lock releases it.
Fail(r) ==
  /\ reader[r].at \in {"compute", "fallback"}
  /\ Goto(r, IF reader[r].at = "compute" THEN [at |-> "release"] ELSE Idle)
  /\ UNCHANGED <<connected, entry, locked, lapsed, announced>>

\* Mutant of AfterRetries: a caller waits for as long as there is no result.
AfterRetriesWait == [at |-> "wait", retry |-> 0]

\* Mutant of AfterRetries: one turn more than there are.
AfterRetriesOneMore == [at |-> "wait", retry |-> MaxRetries + 1]

\* 4. Computed without the lock, and not stored.
AfterRetries == [at |-> "fallback"]

\* 3. One turn of the loop.
Wait(r) ==
  /\ reader[r].at = "wait"
  /\ Goto(r, IF entry # "none" THEN [at |-> "return", result |-> entry]
             ELSE IF reader[r].retry < MaxRetries THEN [reader[r] EXCEPT !.retry = @ + 1]
             ELSE AfterRetries)
  /\ UNCHANGED <<connected, entry, locked, lapsed, announced>>

Fallback(r) ==
  /\ reader[r].at = "fallback"
  /\ Goto(r, [at |-> "return", result |-> "fresh"])
  /\ UNCHANGED <<connected, entry, locked, lapsed, announced>>

Return(r) ==
  /\ reader[r].at = "return"
  /\ Goto(r, Idle)
  /\ UNCHANGED <<connected, entry, locked, lapsed, announced>>

\* The process ends: the lock stays until it expires.
Crash(r) ==
  /\ reader[r] # Idle
  /\ Goto(r, Idle)
  /\ lapsed' = lapsed \ {r}
  /\ UNCHANGED <<connected, entry, locked, announced>>

-----------------------------------------------------------------------------
(* Redis, the writers and the listener *)

Connect ==
  /\ ~connected /\ connected' = TRUE
  /\ UNCHANGED <<entry, locked, reader, lapsed, announced>>

ExpireLock ==
  /\ locked /\ locked' = FALSE
  /\ lapsed' = Holders
  /\ UNCHANGED <<connected, entry, reader, announced>>

ExpireEntry ==
  /\ entry # "none" /\ entry' = "none"
  /\ UNCHANGED <<connected, locked, reader, lapsed, announced>>

\* A write commits: what was computed before is stale.  Only payments announce it.
Write(payment) ==
  /\ entry' = IF entry = "none" THEN "none" ELSE "stale"
  /\ reader' = [r \in Reader |->
       IF reader[r].at \in {"store", "return"} THEN [reader[r] EXCEPT !.result = "stale"] ELSE reader[r]]
  /\ announced' = (announced \/ payment)
  /\ UNCHANGED <<connected, locked, lapsed>>

\* onPaymentCreated, onPaymentRefunded
Invalidate ==
  /\ announced /\ announced' = FALSE
  /\ entry' = "none"
  /\ UNCHANGED <<connected, locked, reader, lapsed>>

Proceed(r) ==
  Acquire(r) \/ Recheck(r) \/ Compute(r) \/ Store(r) \/ Release(r) \/ Fail(r)
    \/ Wait(r) \/ Fallback(r) \/ Return(r)

Next ==
  \/ \E r \in Reader : Call(r) \/ Proceed(r) \/ Crash(r)
  \/ Connect \/ ExpireLock \/ ExpireEntry \/ Invalidate
  \/ \E payment \in BOOLEAN : Write(payment)

\* A call that runs goes on; neither a lock nor a result need ever expire.
Fairness == \A r \in Reader : WF_vars(Proceed(r))

Spec == Init /\ [][Next]_vars /\ Fairness

-----------------------------------------------------------------------------
TypeOK ==
  /\ {connected, locked, announced} \subseteq BOOLEAN
  /\ entry \in Result \cup {"none"}
  /\ reader \in [Reader -> ReaderState]
  /\ lapsed \subseteq Reader

\* Two callers compute under the lock at once only after a lock expired under its
\* holder, which may then delete the next one's (LOCK_TTL_MS, releaseLock).
OneComputesUnlessLapsed == Cardinality(Holders \ lapsed) <= 1

\* Every call is answered, even one that waits for a holder that is gone
\* (MAX_RETRIES and the fallback).
CallsAnswered == \A r \in Reader : reader[r] # Idle ~> reader[r] = Idle
==============================================================================
