------------------------------ MODULE Failures ------------------------------
(***************************************************************************)
(* How a call of the browser fails: the rate limit and the exceptions of   *)
(* the API, the answer AllExceptionsFilter makes of them, what ApiClient   *)
(* and the query client do with it, and the text the user reads.           *)
(*                                                                         *)
(* The calls are those of one browser to one route.  All browsers reach    *)
(* the API through one proxy, whose address is what the limit counts by.   *)
(* The clock ticks between any two steps.                                  *)
(***************************************************************************)
EXTENDS Naturals

CONSTANTS
  Call,
  Query,     \* the calls of useQuery; the others are mutations
  Limit,     \* calls of a route per minute: 1000
  Minute,    \* in ticks
  MaxTime    \* ticks of a behaviour

VARIABLES
  now,
  hits,          \* of the last minute
  blockedUntil,
  pause,         \* throttleUntil, and the block that was answered (history)
  call

vars == <<now, hits, blockedUntil, pause, call>>

-----------------------------------------------------------------------------
(* Exceptions and answers *)

\* Codes told apart: RULE is any the mapper knows, NEW_RULE any it does not.
ErrorCodes ==
  {"RULE", "NEW_RULE", "VALIDATION_FIELD", "VALIDATION_ERROR", "AUTH_UNAUTHORIZED",
   "INTERNAL_DUPLICATE_REQUEST", "AUTH_RATE_LIMIT", "INTERNAL_ERROR"}

BusinessException == [kind : {"business"}, status : {422}, code : {"RULE", "NEW_RULE"}]
HttpException == [kind : {"http"}, status : {400, 401, 409}, messages : BOOLEAN]
Exception == BusinessException \cup HttpException \cup {[kind |-> "unknown"]}

\* 403, 404, 413 and the gateway's statuses have a code each, as 409 does.
CodeOf(status) ==
  CASE status = 400 -> "VALIDATION_ERROR"
    [] status = 401 -> "AUTH_UNAUTHORIZED"
    [] status = 409 -> "INTERNAL_DUPLICATE_REQUEST"
    [] status = 429 -> "AUTH_RATE_LIMIT"
    [] OTHER -> "INTERNAL_ERROR"

\* The messages of the ValidationPipe become the code of a field; what else an
\* HttpException says, its code included, is dropped.
ValidationCodes == {"VALIDATION_FIELD", "VALIDATION_ERROR"}

Ok == [status |-> 200, code |-> "none"]
NoResponse == [status |-> 0, code |-> "none"]     \* fetch rejects
NoBackend == [status |-> 500, code |-> "none"]    \* the proxy's own failure: no JSON
Answer(status, code) == [status |-> status, code |-> code]

Catch(x) ==
  CASE x.kind = "business" -> {Answer(x.status, x.code)}
    [] x.kind = "http" /\ x.status = 400 /\ x.messages -> {Answer(400, code) : code \in ValidationCodes}
    [] x.kind = "http" -> {Answer(x.status, CodeOf(x.status))}
    [] x.kind = "unknown" -> {Answer(500, "INTERNAL_ERROR")}

\* What the client throws.
ErrorOf(response) ==
  CASE response = NoResponse -> "network"
    [] response.status = 429 -> "RATE_LIMIT"
    [] response.status = 401 -> "AUTH_UNAUTHORIZED"
    [] response = NoBackend -> "INTERNAL_ERROR"
    [] OTHER -> response.code

\* mapApiError: it knows AUTH_RATE_LIMIT, not the client's own RATE_LIMIT.
Unknown == {"NEW_RULE", "RATE_LIMIT", "INTERNAL_ERROR"}
Text(error) == IF error \in Unknown THEN "unexpected" ELSE error

-----------------------------------------------------------------------------
NoPause == [until |-> 0, block |-> 0]
Idle == [at |-> "idle"]

CallState ==
  {Idle}
    \cup [at : {"waiting", "sent"}, tries : {1, 2}, until : Nat, block : Nat]
    \cup [at : {"answered"}, tries : {1, 2}, block : Nat, response : [status : Nat, code : ErrorCodes \cup {"none"}], by : Nat]
    \cup [at : {"retry"}]
    \cup [at : {"told"}, text : ErrorCodes \cup {"network", "unexpected"}]

Init ==
  /\ now = 0 /\ hits = 0 /\ blockedUntil = 0
  /\ pause = NoPause
  /\ call = [c \in Call |-> Idle]

\* request(): the end of the pause is read once, before the wait.
Begin(c, tries) ==
  call' = [call EXCEPT ![c] =
    IF pause.until > now
    THEN [at |-> "waiting", tries |-> tries, until |-> pause.until, block |-> pause.block]
    ELSE [at |-> "sent", tries |-> tries, until |-> now, block |-> 0]]

Ask(c) ==
  /\ call[c].at = "idle" /\ Begin(c, 1)
  /\ UNCHANGED <<now, hits, blockedUntil, pause>>

Wake(c) ==
  /\ call[c].at = "waiting" /\ call[c].until <= now
  /\ call' = [call EXCEPT ![c].at = "sent"]
  /\ UNCHANGED <<now, hits, blockedUntil, pause>>

-----------------------------------------------------------------------------
(* The rate limit (external: ThrottlerGuard) *)

Blocked == now < blockedUntil

\* A call that is counted; the one above the limit begins a block.
Count ==
  IF Blocked THEN UNCHANGED <<hits, blockedUntil>>
  ELSE IF hits < Limit THEN hits' = hits + 1 /\ UNCHANGED blockedUntil
  ELSE hits' = 0 /\ blockedUntil' = now + Minute

Refused == now < blockedUntil'

Respond(c, response) ==
  call' = [call EXCEPT ![c] = [at |-> "answered", tries |-> @.tries, block |-> @.block,
                               response |-> response, by |-> blockedUntil']]

\* A call reaches the API: refused, handled, or refused further on.
Arrive(c) ==
  /\ call[c].at = "sent"
  /\ Count
  /\ IF Refused THEN Respond(c, Answer(429, CodeOf(429)))
     ELSE \E response \in {Ok} \cup UNION {Catch(x) : x \in Exception} : Respond(c, response)
  /\ UNCHANGED <<now, pause>>

\* The proxy cannot reach the API, or the browser the proxy.
Break(c) ==
  /\ call[c].at = "sent"
  /\ UNCHANGED <<hits, blockedUntil>>
  /\ \E response \in {NoBackend, NoResponse} : Respond(c, response)
  /\ UNCHANGED <<now, pause>>

\* A call of another browser.
OthersArrive ==
  /\ Count
  /\ UNCHANGED <<now, pause, call>>

HitExpires ==
  /\ hits > 0 /\ hits' = hits - 1
  /\ UNCHANGED <<now, blockedUntil, pause, call>>

-----------------------------------------------------------------------------
(* The answer reaches the client *)

\* Mutant of PauseAfter429: Retry-After, had it come, in milliseconds.
PauseAfter429Short == 1

\* The proxy forwards no Retry-After.
PauseAfter429 == Minute

\* One retry for a query, none for a mutation.
Retries(c) == c \in Query /\ call[c].tries = 1

Receive(c) ==
  /\ call[c].at = "answered"
  /\ LET response == call[c].response
     IN  /\ pause' = IF response.status = 429
                     THEN [until |-> now + PauseAfter429, block |-> call[c].by] ELSE pause
         /\ call' = [call EXCEPT ![c] =
              IF response = Ok THEN Idle
              ELSE IF Retries(c) THEN [at |-> "retry"]
              ELSE [at |-> "told", text |-> Text(ErrorOf(response))]]
  /\ UNCHANGED <<now, hits, blockedUntil>>

\* After retryDelay.
Retry(c) ==
  /\ call[c].at = "retry" /\ Begin(c, 2)
  /\ UNCHANGED <<now, hits, blockedUntil, pause>>

\* The user has read the toast.
Dismiss(c) ==
  /\ call[c].at = "told"
  /\ call' = [call EXCEPT ![c] = Idle]
  /\ UNCHANGED <<now, hits, blockedUntil, pause>>

Tick ==
  /\ now < MaxTime /\ now' = now + 1
  /\ UNCHANGED <<hits, blockedUntil, pause, call>>

Next ==
  \/ \E c \in Call : \/ Ask(c) \/ Wake(c) \/ Arrive(c) \/ Break(c)
                     \/ Receive(c) \/ Retry(c) \/ Dismiss(c)
  \/ OthersArrive \/ HitExpires \/ Tick

Spec == Init /\ [][Next]_vars

-----------------------------------------------------------------------------
TypeOK ==
  /\ now \in 0 .. MaxTime /\ hits \in 0 .. Limit
  /\ blockedUntil \in 0 .. MaxTime + Minute
  /\ pause.until \in 0 .. MaxTime + Minute /\ pause.block \in 0 .. MaxTime + Minute
  /\ call \in [Call -> CallState]

\* A call that waited for the end of the client's pause is not refused by the block that
\* the pause answers, whatever answers arrived meanwhile and in which order; a later
\* block, of calls under way or of other browsers, may refuse it.
WaitsOutTheBlock ==
  \A c \in Call :
    call[c].at = "answered" /\ call[c].response.status = 429 => call[c].by # call[c].block
=============================================================================
