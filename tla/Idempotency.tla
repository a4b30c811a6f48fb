----------------------------- MODULE Idempotency -----------------------------
(***************************************************************************)
(* IdempotencyInterceptor around a handler, and the forms whose requests   *)
(* it sees.                                                                *)
(*                                                                         *)
(* A mounted form of entries sends one key with whatever it submits        *)
(* (useMemo), so a form stands for its key; the form of transfers draws a  *)
(* key per submission, which is a form that submits once.  What a response *)
(* tells is the payload it answers.                                        *)
(***************************************************************************)
EXTENDS Naturals

CONSTANTS
  Form,      \* mounted forms, each with its Idempotency-Key
  Payload,   \* method, url and body of a submission
  Request    \* concurrent requests

VARIABLES
  stored,    \* what the cache has for the key of each form
  request,   \* where each request stands
  runs,      \* times the handler committed for the key, up to two
  excused    \* keys whose response was not there to be found (history)

vars == <<stored, request, runs, excused>>

Idle == [at |-> "idle"]
Nothing == [payload |-> "none"]
Stored == [payload : Payload, response : Payload]
RequestState ==
  {Idle} \cup [at : {"lookup", "handle"}, form : Form, payload : Payload]
    \cup [at : {"store", "respond"}, form : Form, payload : Payload, response : Payload \cup {"conflict"}]

Init ==
  /\ stored = [f \in Form |-> Nothing]
  /\ request = [q \in Request |-> Idle]
  /\ runs = [f \in Form |-> 0]
  /\ excused = {}

-----------------------------------------------------------------------------
(* The client: mutations are not retried, a user may submit again *)

Submit(q, f, p) ==
  /\ request[q] = Idle
  /\ request' = [request EXCEPT ![q] = [at |-> "lookup", form |-> f, payload |-> p]]
  /\ UNCHANGED <<stored, runs, excused>>

\* The answer arrives, or is lost on the way through the proxy.
Answer(q) ==
  /\ request[q].at = "respond"
  /\ request' = [request EXCEPT ![q] = Idle]
  /\ UNCHANGED <<stored, runs, excused>>

-----------------------------------------------------------------------------
(* intercept *)

Respond(q, response) ==
  request' = [request EXCEPT ![q] =
    [at |-> "respond", form |-> @.form, payload |-> @.payload, response |-> response]]

Found(q) ==
  /\ request[q].at = "lookup"
  /\ LET cached == stored[request[q].form]
     IN  /\ cached # Nothing
         /\ Respond(q, IF cached.payload = request[q].payload THEN cached.response ELSE "conflict")
  /\ UNCHANGED <<stored, runs, excused>>

\* Requests of the same key that have looked it up and stored nothing yet.
Overlapping(q) ==
  {o \in Request \ {q} : request[o].at \in {"handle", "store"} /\ request[o].form = request[q].form}

Missed(q) ==
  /\ request[q].at = "lookup"
  /\ stored[request[q].form] = Nothing
  /\ request' = [request EXCEPT ![q].at = "handle"]
  /\ excused' = IF Overlapping(q) # {} THEN excused \cup {request[q].form} ELSE excused
  /\ UNCHANGED <<stored, runs>>

\* next.handle(): the handler commits and responds ...
Handle(q) ==
  /\ request[q].at = "handle"
  /\ runs' = [runs EXCEPT ![request[q].form] = IF @ = 2 THEN 2 ELSE @ + 1]
  /\ request' = [request EXCEPT ![q] =
       [at |-> "store", form |-> @.form, payload |-> @.payload, response |-> @.payload]]
  /\ UNCHANGED <<stored, excused>>

\* ... or throws, which stores nothing.
HandlerThrows(q) ==
  /\ request[q].at = "handle"
  /\ request' = [request EXCEPT ![q] = Idle]
  /\ UNCHANGED <<stored, runs, excused>>

\* Mutant of Kept: the response is passed on without being stored.
KeptNothing(s) == Nothing

Kept(s) == [payload |-> s.payload, response |-> s.response]

Store(q) ==
  /\ request[q].at = "store"
  /\ stored' = [stored EXCEPT ![request[q].form] = Kept(request[q])]
  /\ Respond(q, request[q].response)
  /\ UNCHANGED <<runs, excused>>

\* cache.set fails or the process ends, after the handler has committed.
NotStored(q) ==
  /\ request[q].at = "store"
  /\ request' = [request EXCEPT ![q] = Idle]
  /\ excused' = excused \cup {request[q].form}
  /\ UNCHANGED <<stored, runs>>

\* IDEMPOTENT_TTL_MS
Expire(f) ==
  /\ stored[f] # Nothing
  /\ stored' = [stored EXCEPT ![f] = Nothing]
  /\ excused' = excused \cup {f}
  /\ UNCHANGED <<request, runs>>

Next ==
  \/ \E q \in Request :
       \/ \E f \in Form, p \in Payload : Submit(q, f, p)
       \/ Answer(q) \/ Found(q) \/ Missed(q) \/ Handle(q) \/ HandlerThrows(q) \/ Store(q) \/ NotStored(q)
  \/ \E f \in Form : Expire(f)

Spec == Init /\ [][Next]_vars

-----------------------------------------------------------------------------
TypeOK ==
  /\ stored \in [Form -> Stored \cup {Nothing}]
  /\ request \in [Request -> RequestState]
  /\ runs \in [Form -> 0 .. 2]
  /\ excused \subseteq Form

\* A key is handled twice only if its response expired, was never stored, or was not
\* stored yet when the second request looked it up (IdempotencyInterceptor.intercept).
HandledTwiceOnlyIfExcused == \A f \in Form : runs[f] = 2 => f \in excused
==============================================================================
