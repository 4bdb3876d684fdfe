----------------------------- MODULE WebServer -----------------------------
(***************************************************************************)
(* The HTTP handlers of src/server/web.rs between the clients and the      *)
(* engine: sessions, bearer tokens, the permits that bound the vector API, *)
(* timeouts that leave a command running, clients that go away, and the    *)
(* outbox consumer of doc/agent-vector-memory.en.md that retries what was  *)
(* not acknowledged.  A handler is three steps, for other threads run      *)
(* between them: credentials, permit, try_send to a queue of the engine.   *)
(* The engine is its write queue, first in first out, and the commands its *)
(* readers and its snapshot worker hold, in any order.                     *)
(***************************************************************************)
EXTENDS Naturals, Sequences, FiniteSets

CONSTANTS
    Request,  \* requests in flight or answered; one is reused when it is over
    Token,    \* session tokens, each issued by at most one login
    Limit,    \* max_concurrent_requests
    Capacity, \* bound of each queue of the engine
    Others,   \* how many queues besides the write worker's: the readers', the snapshot worker's
    Event,    \* events 1..Event of the outbox, all of one vector key
    Op        \* what each of them asks for

\* validate_vector_api_limits.
ASSUME WebAssumption ==
    /\ IsFiniteSet(Request) /\ IsFiniteSet(Token)
    /\ Limit \in Nat \ {0} /\ Capacity \in Nat \ {0} /\ Others \in Nat \ {0}
    /\ Event \in Nat /\ Op \in [1..Event -> {"upsert", "delete"}]

VARIABLES
    session, \* keys of WebState.sessions
    issued,  \* tokens ever made by new_session_token
    out,     \* tokens logged out (history)
    free,    \* permits left in vector_api_semaphore
    req,     \* each request: its handler, its command in the engine, its permit
    queue,   \* the write worker's channel
    up,      \* do the engine's workers run?
    next,    \* the event the outbox consumer has to get acknowledged
    row      \* source_version of the key's row, 0 without one

vars == <<session, issued, out, free, req, queue, up, next, row>>

Plain == {"login", "plain", "other"}
Vector == {"read", "write", "maintain"}
Idle == [handler |-> "none", kind |-> "plain", ver |-> 0, tok |-> "none",
         permit |-> "none", cmd |-> "none", answer |-> "none"]

\* Requests that hold a permit, in their handler or in the task a timeout spawned.
Holders == {r \in Request : req[r].permit # "none"}
Queued == {r \in Request : req[r].cmd = "queued"}
\* Which queue a command is for: the write worker's, unless a reader's or the
\* snapshot worker's.
Written(k) == k \notin {"read", "other"}

Init ==
    /\ session = {} /\ issued = {} /\ out = {}
    /\ free = Limit
    /\ req = [r \in Request |-> Idle]
    /\ queue = <<>> /\ up = TRUE
    /\ next = 1 /\ row = 0

-----------------------------------------------------------------------------
(***************************************************************************)
(* Handlers                                                                *)
(***************************************************************************)
\* A request not yet made, or over for its client, its task and the engine.
Over(r) ==
    /\ req[r].handler \in {"none", "answered"}
    /\ req[r].permit = "none" /\ req[r].cmd # "queued"

Arrives(r, kind, ver, tok) ==
    /\ Over(r)
    /\ req' = [req EXCEPT ![r] = [Idle EXCEPT
            !.handler = "checked", !.kind = kind, !.ver = ver, !.tok = tok]]

\* What is left of a request whose handler has ended: the locals are dropped, a
\* command still in the engine keeps its own.  Nobody waits for the end of one whose
\* client is gone or was told REQUEST_TIMEOUT, but the task that holds its permit, and
\* after SERVICE_UNAVAILABLE there is none.
Forgotten == {"gone", "REQUEST_TIMEOUT", "SERVICE_UNAVAILABLE"}
Settled(q) ==
    IF q.cmd = "queued" \/ q.handler = "waiting" THEN q
    ELSE IF q.permit = "none" /\ q.answer \in Forgotten THEN Idle
    ELSE [q EXCEPT !.kind = "plain", !.ver = 0, !.tok = "none"]

Answered(r, code, permit) ==
    req' = [req EXCEPT ![r] = Settled([@ EXCEPT
            !.handler = "answered", !.answer = code, !.permit = permit])]

\* login_handler: no credentials but the ones the engine is asked about.
Login(r) ==
    \E t \in Token \ issued :
        /\ Arrives(r, "login", 0, t)
        /\ issued' = issued \cup {t}
        /\ UNCHANGED <<session, out, free, queue, up, next, row>>

\* logout_handler.
Logout(t) ==
    /\ t \in session
    /\ session' = session \ {t} /\ out' = out \cup {t}
    /\ UNCHANGED <<issued, free, req, queue, up, next, row>>

\* sql_handler, snapshot_handler, parquet_import_handler and the index handlers
\* want a session (session_username); without one the handler ends at once.
BySession(r, kind) ==
    /\ session # {} /\ Arrives(r, kind, 0, "none")
    /\ UNCHANGED <<session, issued, out, free, queue, up, next, row>>

Sql(r) == BySession(r, "plain") \/ BySession(r, "other")
SaveSnapshot(r) == BySession(r, "other")
ImportParquet(r) == BySession(r, "plain")
CreateVectorIndex(r) == BySession(r, "maintain")
IndexMaintenance(r) == BySession(r, "maintain")
IndexStatus(r) == BySession(r, "read")

\* vector_search_handler, with a bearer token whose permissions and scopes cover
\* the request (vector_api_username).
Search(r) ==
    /\ Arrives(r, "read", 0, "none")
    /\ UNCHANGED <<session, issued, out, free, queue, up, next, row>>

\* vector_upsert_handler and vector_delete_handler: the consumer sends its event,
\* whatever became of its earlier requests for it, unless one is in a handler.
Deliver(r) ==
    /\ next <= Event
    /\ \A q \in Request : req[q].kind = "write" => req[q].handler \in {"none", "answered"}
    /\ Arrives(r, "write", next, "none")
    /\ UNCHANGED <<session, issued, out, free, queue, up, next, row>>

\* acquire_vector_api_permit.
Acquire(r) ==
    /\ req[r].handler = "checked" /\ req[r].kind \in Vector
    /\ IF free > 0
       THEN /\ free' = free - 1
            /\ req' = [req EXCEPT ![r].handler = "admitted", ![r].permit = "handler"]
       ELSE /\ Answered(r, "RATE_LIMITED", "none") /\ UNCHANGED free
    /\ UNCHANGED <<session, issued, out, queue, up, next, row>>

\* What the handler's permit is worth when the handler ends: Drop of the permit.
Returned(r) == IF req[r].permit = "handler" THEN free + 1 ELSE free

\* Whether its queue has room, or may have none.  Of the other queues only the sum is
\* kept: a reader is chosen round robin, and any one may be full before the rest.
Aside == Cardinality({q \in Queued : ~Written(req[q].kind)})
HasRoom(r) == IF Written(req[r].kind) THEN Len(queue) < Capacity ELSE Aside < Others * Capacity
MayBeFull(r) == (IF Written(req[r].kind) THEN Len(queue) ELSE Aside) >= Capacity

\* try_send of DbHandle, then the wait for the answer.
Enqueues(r) ==
    /\ up /\ HasRoom(r)
    /\ req' = [req EXCEPT ![r].handler = "waiting", ![r].cmd = "queued"]
    /\ queue' = IF Written(req[r].kind) THEN Append(queue, r) ELSE queue
    /\ UNCHANGED free

\* The permit of a refused command is dropped with the future of run_vector_request.
Refused(r) ==
    /\ up => MayBeFull(r)
    /\ Answered(r, IF up THEN "RATE_LIMITED" ELSE "SERVICE_UNAVAILABLE", "none")
    /\ free' = Returned(r)
    /\ UNCHANGED queue

Submit(r) ==
    /\ \/ req[r].handler = "admitted"
       \/ req[r].handler = "checked" /\ req[r].kind \in Plain
    /\ Enqueues(r) \/ Refused(r)
    /\ UNCHANGED <<session, issued, out, up, next, row>>

\* The consumer acknowledges its event after a success only, or drops one the
\* service calls obsolete (doc/agent-vector-memory.en.md:158, 208).
Acked(r, ans) ==
    IF /\ req[r].kind = "write" /\ req[r].ver = next
       /\ ans \in {"ok", "STALE_SOURCE_VERSION"}
    THEN next + 1 ELSE next

\* run_vector_request and the handlers without a timeout: the engine answered.
Answer(r) ==
    /\ req[r].handler = "waiting"
    /\ req[r].cmd \in {"ok", "STALE_SOURCE_VERSION", "dropped"}
    /\ LET ans == IF req[r].cmd = "dropped" THEN "SERVICE_UNAVAILABLE" ELSE req[r].cmd IN
        /\ Answered(r, ans, "none")
        /\ next' \in {next, Acked(r, ans)} \* the response may be lost
        /\ session' = IF req[r].kind = "login" /\ ans = "ok"
                      THEN session \cup {req[r].tok} ELSE session
    /\ free' = Returned(r)
    /\ UNCHANGED <<issued, out, queue, up, row>>

\* run_vector_request: the timeout moves the permit to a task that waits on.
\* Mutant: the handler returns the permit it gave to the task.
TimeoutTwice(r) ==
    /\ req[r].handler = "waiting" /\ req[r].kind \in Vector
    /\ Answered(r, "REQUEST_TIMEOUT", "task")
    /\ free' = free + 1
    /\ UNCHANGED <<session, issued, out, queue, up, next, row>>

\* Mutant: the permit is dropped with the handler.
TimeoutReleasing(r) ==
    /\ req[r].handler = "waiting" /\ req[r].kind \in Vector
    /\ Answered(r, "REQUEST_TIMEOUT", "none")
    /\ free' = free + 1
    /\ UNCHANGED <<session, issued, out, queue, up, next, row>>

\* Mutant: a timeout is reported as a refusal.
TimeoutRefusing(r) ==
    /\ req[r].handler = "waiting" /\ req[r].kind \in Vector
    /\ Answered(r, "RATE_LIMITED", "task")
    /\ UNCHANGED <<session, issued, out, free, queue, up, next, row>>

Timeout(r) ==
    /\ req[r].handler = "waiting" /\ req[r].kind \in Vector
    /\ Answered(r, "REQUEST_TIMEOUT", "task")
    /\ UNCHANGED <<session, issued, out, free, queue, up, next, row>>

\* The spawned task: request.await, then the permit is dropped.
\* Mutant: the task waits for a success.
TaskEndsOnSuccess(r) ==
    /\ req[r].permit = "task" /\ req[r].cmd = "ok"
    /\ req' = [req EXCEPT ![r] = Settled([@ EXCEPT !.permit = "none"])]
    /\ free' = free + 1
    /\ UNCHANGED <<session, issued, out, queue, up, next, row>>

TaskEnds(r) ==
    /\ req[r].permit = "task" /\ req[r].cmd # "queued"
    /\ req' = [req EXCEPT ![r] = Settled([@ EXCEPT !.permit = "none"])]
    /\ free' = free + 1
    /\ UNCHANGED <<session, issued, out, queue, up, next, row>>

\* The client goes away, or loses patience before the server does: hyper drops the
\* handler's future, with its permit; the command stays in the engine.
Leave(r) ==
    /\ req[r].handler = "waiting"
    /\ req' = [req EXCEPT ![r] = Settled([@ EXCEPT
            !.handler = "answered", !.answer = "gone", !.permit = "none"])]
    /\ free' = Returned(r)
    /\ UNCHANGED <<session, issued, out, queue, up, next, row>>

-----------------------------------------------------------------------------
(***************************************************************************)
(* The engine                                                              *)
(***************************************************************************)
\* The row after an event, or the refusal (vector_upsert_blocking,
\* vector_delete_blocking).
Effect(v) ==
    IF row > v THEN [row |-> row, cmd |-> "STALE_SOURCE_VERSION"]
    ELSE [row |-> IF Op[v] = "upsert" THEN v ELSE 0, cmd |-> "ok"]

Ran(r, result) == req' = [req EXCEPT ![r] = Settled([@ EXCEPT !.cmd = result])]

\* Mutant: two writers share the queue.
RunWriteAny ==
    /\ up
    /\ \E i \in 1..Len(queue) :
        LET r == queue[i] IN
        /\ IF req[r].kind = "write"
           THEN /\ Ran(r, Effect(req[r].ver).cmd)
                /\ row' = Effect(req[r].ver).row
           ELSE Ran(r, "ok") /\ UNCHANGED row
        /\ queue' = SubSeq(queue, 1, i - 1) \o SubSeq(queue, i + 1, Len(queue))
    /\ UNCHANGED <<session, issued, out, free, up, next>>

\* The write worker takes the head of its queue; the caller may be gone.
RunWrite ==
    /\ up /\ queue # <<>>
    /\ LET r == Head(queue) IN
        IF req[r].kind = "write"
        THEN /\ Ran(r, Effect(req[r].ver).cmd)
             /\ row' = Effect(req[r].ver).row
        ELSE Ran(r, "ok") /\ UNCHANGED row
    /\ queue' = Tail(queue)
    /\ UNCHANGED <<session, issued, out, free, up, next>>

\* A reader runs a search, a status request or a query, the snapshot worker a save.
RunRead(r) ==
    /\ up /\ ~Written(req[r].kind) /\ req[r].cmd = "queued"
    /\ Ran(r, "ok")
    /\ UNCHANGED <<session, issued, out, free, queue, up, next, row>>

\* The workers end: what is behind the shutdown command is dropped with its
\* answer channel.
Stop ==
    /\ up /\ up' = FALSE
    /\ req' = [r \in Request |-> IF req[r].cmd = "queued"
                                  THEN Settled([req[r] EXCEPT !.cmd = "dropped"]) ELSE req[r]]
    /\ queue' = <<>>
    /\ UNCHANGED <<session, issued, out, free, next, row>>

Next ==
    \/ \E r \in Request :
        \/ Login(r) \/ Sql(r) \/ SaveSnapshot(r) \/ ImportParquet(r)
        \/ CreateVectorIndex(r) \/ IndexMaintenance(r) \/ IndexStatus(r) \/ Search(r) \/ Deliver(r)
        \/ Acquire(r) \/ Submit(r) \/ Answer(r) \/ Timeout(r) \/ TaskEnds(r)
        \/ Leave(r) \/ RunRead(r)
    \/ \E t \in Token : Logout(t)
    \/ RunWrite \/ Stop

\* The runtime polls the handlers and tasks that can go on; the workers take what
\* is queued.  Clients, and the clock of a timeout, owe nothing.
Fairness ==
    /\ \A r \in Request : WF_vars(Acquire(r)) /\ WF_vars(Submit(r)) /\ WF_vars(Answer(r))
                           /\ WF_vars(TaskEnds(r)) /\ WF_vars(RunRead(r))
    /\ WF_vars(RunWrite)

Spec == Init /\ [][Next]_vars /\ Fairness

-----------------------------------------------------------------------------
(***************************************************************************)
(* Properties                                                              *)
(***************************************************************************)
Answers == {"none", "ok", "gone", "RATE_LIMITED", "REQUEST_TIMEOUT",
            "STALE_SOURCE_VERSION", "SERVICE_UNAVAILABLE"}

\* Every variable has its type.
TypeOK ==
    /\ session \subseteq issued /\ issued \subseteq Token /\ out \subseteq issued
    /\ free \in Nat
    /\ req \in [Request ->
        [handler : {"none", "checked", "admitted", "waiting", "answered"},
         kind : Plain \cup Vector, ver : 0..Event, tok : Token \cup {"none"},
         permit : {"none", "handler", "task"},
         cmd : {"none", "queued", "ok", "STALE_SOURCE_VERSION", "dropped"},
         answer : Answers]]
    /\ queue \in Seq(Request) /\ up \in BOOLEAN
    /\ next \in 1..(Event + 1) /\ row \in 0..Event

\* No permit is lost or made, over refusals, timeouts, clients that leave and
\* workers that stop (src/server/web.rs:752, 760).
PermitsConserved == free + Cardinality(Holders) = Limit

\* "its concurrency permit is not released until actual completion"
\* (doc/agent-vector-memory.en.md:216): what the vector API has in the engine for
\* clients that are still there, or were told REQUEST_TIMEOUT, is within the limit.
WorkBounded ==
    Cardinality({r \in Queued : req[r].kind \in Vector /\ req[r].answer # "gone"}) <= Limit

\* An answer that tells the client to try again, for nothing was done, is given for
\* a command that is not in the engine and never was (doc/agent-vector-memory.en.md:211).
RefusedNotRun ==
    \A r \in Request :
        req[r].answer = "RATE_LIMITED" => req[r].cmd = "none"

\* Success is only reported of a command that ran.
AnsweredRan == \A r \in Request : req[r].answer = "ok" => req[r].cmd = "ok"

\* The row an event leaves.
Left(v) == IF v = 0 \/ Op[v] = "delete" THEN 0 ELSE v

\* The consumer, which repeats each event until it is acknowledged, never loses
\* or undoes one: the row is what the last acknowledged event left, or the one it
\* is about now, however many copies timed out or lost their answer and run late
\* (doc/agent-vector-memory.en.md:158).
OutboxDelivered ==
    row \in {Left(next - 1)} \cup (IF next <= Event THEN {Left(next)} ELSE {})

\* A token logged out is of no use ever after, though its requests and other
\* logins are still in flight.
LogoutFinal == session \cap out = {}

\* A permit is not kept for ever: what holds one lets it go.
PermitsReturn ==
    \A r \in Request : req[r].permit # "none" ~> req[r].permit = "none"
=============================================================================
