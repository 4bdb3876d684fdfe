-------------------------- MODULE WebServerProofs --------------------------
(***************************************************************************)
(* Proofs about WebServer, for every number of requests, permits and       *)
(* events: the permits, what an answer says of its command, and that the   *)
(* outbox consumer loses no event.                                         *)
(***************************************************************************)
EXTENDS WebServer, FiniteSetTheorems, TLAPS

RequestType ==
    [handler : {"none", "checked", "admitted", "waiting", "answered"},
     kind : Plain \cup Vector, ver : 0..Event, tok : Token \cup {"none"},
     permit : {"none", "handler", "task"},
     cmd : {"none", "queued", "ok", "STALE_SOURCE_VERSION", "dropped"},
     answer : Answers]

\* What a request looks like at each stage of its handler.
Shape(q) ==
    /\ q.handler \in {"none", "checked"} =>
        q.permit = "none" /\ q.cmd = "none" /\ q.answer = "none"
    /\ q.handler = "admitted" =>
        q.permit = "handler" /\ q.cmd = "none" /\ q.answer = "none" /\ q.kind \in Vector
    /\ q.handler = "waiting" =>
        /\ q.cmd # "none" /\ q.answer = "none"
        /\ q.permit = IF q.kind \in Vector THEN "handler" ELSE "none"
    /\ q.handler = "answered" =>
        /\ q.permit # "handler"
        /\ q.cmd = "queued" => q.answer \in {"gone", "REQUEST_TIMEOUT"}
    /\ q.cmd = "queued" /\ q.kind \in Vector /\ q.answer # "gone" => q.permit # "none"
    /\ q.answer = "RATE_LIMITED" => q.cmd = "none"
    /\ q.answer = "ok" => q.cmd = "ok"

Shapes == \A r \in Request : Shape(req[r])

\* The write queue holds the queued commands of the write worker, each once.
QueueOK ==
    /\ \A i \in 1..Len(queue) : req[queue[i]].cmd = "queued" /\ Written(req[queue[i]].kind)
    /\ \A i, j \in 1..Len(queue) : queue[i] = queue[j] => i = j
    /\ \A r \in Request : req[r].cmd = "queued" /\ Written(req[r].kind) =>
        \E i \in 1..Len(queue) : queue[i] = r

-----------------------------------------------------------------------------
(***************************************************************************)
(* One request at a time                                                   *)
(***************************************************************************)
\* What Settled keeps of a request.
LEMMA SettledKeeps ==
    ASSUME NEW q \in RequestType
    PROVE  /\ Settled(q) \in RequestType
           /\ Settled(q).permit = q.permit
           /\ (Settled(q).cmd = "queued") <=> (q.cmd = "queued")
           /\ q.cmd = "queued" => Settled(q) = q
           /\ q.handler = "waiting" => Settled(q) = q
           /\ q.handler = "answered" /\ Shape(q) => Shape(Settled(q))
           /\ Settled(q).kind = "write" => Settled(q) = q
           /\ Settled(q).handler \in {q.handler, "none"}
  <1>1. Idle \in RequestType
    BY WebAssumption DEF Idle, RequestType, Plain, Answers
  <1>2. [q EXCEPT !.kind = "plain", !.ver = 0, !.tok = "none"] \in RequestType
    <2>1. "plain" \in Plain \cup Vector /\ 0 \in 0..Event /\ "none" \in Token \cup {"none"}
      BY WebAssumption DEF Plain
    <2> QED BY <2>1, Zenon DEF RequestType
  <1>3. CASE q.cmd = "queued" \/ q.handler = "waiting"
    BY <1>3 DEF Settled
  <1>4. CASE /\ ~(q.cmd = "queued" \/ q.handler = "waiting")
             /\ q.permit = "none" /\ q.answer \in Forgotten
    <2>1. Settled(q) = Idle
      BY <1>4 DEF Settled
    <2> QED BY <1>1, <1>4, <2>1 DEF Idle, Shape
  <1>5. CASE /\ ~(q.cmd = "queued" \/ q.handler = "waiting")
             /\ ~(q.permit = "none" /\ q.answer \in Forgotten)
    <2> DEFINE p == [q EXCEPT !.kind = "plain", !.ver = 0, !.tok = "none"]
    <2>1. Settled(q) = p
      BY <1>5 DEF Settled
    <2>2. /\ p.permit = q.permit /\ p.cmd = q.cmd /\ p.handler = q.handler
          /\ p.answer = q.answer /\ p.kind = "plain"
      BY DEF RequestType
    <2> QED BY <1>2, <1>5, <2>1, <2>2 DEF Shape
  <1> QED BY <1>3, <1>4, <1>5

\* A request that takes its permit is one more holder, one that gives it back one
\* less, and any other step leaves their number alone.
LEMMA HolderTaken ==
    ASSUME NEW S, IsFiniteSet(S), NEW r, r \notin S
    PROVE  IsFiniteSet(S \cup {r}) /\ Cardinality(S \cup {r}) = Cardinality(S) + 1
  BY FS_AddElement

LEMMA HolderGiven ==
    ASSUME NEW S, IsFiniteSet(S), NEW r \in S
    PROVE  IsFiniteSet(S \ {r}) /\ Cardinality(S \ {r}) = Cardinality(S) - 1
  BY FS_RemoveElement

LEMMA HoldersFinite == IsFiniteSet(Holders) /\ Cardinality(Holders) \in Nat
  <1>1. Holders \subseteq Request
    BY DEF Holders
  <1> QED BY <1>1, FS_Subset, FS_CardinalityType, WebAssumption

\* A step that changes one request, and the count of free permits by as much as
\* that request's permit, conserves the permits.
LEMMA OneChange ==
    ASSUME TypeOK, PermitsConserved, NEW r \in Request, NEW x \in RequestType,
           req' = [req EXCEPT ![r] = x],
           \/ free' = free /\ (x.permit = "none" <=> req[r].permit = "none")
           \/ free > 0 /\ free' = free - 1 /\ req[r].permit = "none" /\ x.permit # "none"
           \/ free' = free + 1 /\ req[r].permit # "none" /\ x.permit = "none"
    PROVE  /\ req' \in [Request -> RequestType]
           /\ PermitsConserved'
           /\ free' \in Nat
  <1>1. req \in [Request -> RequestType] /\ free \in Nat /\ Limit \in Nat
    BY WebAssumption DEF TypeOK, RequestType
  <1>2. req' \in [Request -> RequestType] /\ req'[r] = x /\ \A q \in Request \ {r} : req'[q] = req[q]
    BY <1>1
  <1>3. IsFiniteSet(Holders) /\ Cardinality(Holders) \in Nat
    BY HoldersFinite
  <1>4. CASE free' = free /\ (x.permit = "none" <=> req[r].permit = "none")
    <2>1. Holders' = Holders
      BY <1>2, <1>4 DEF Holders
    <2> QED BY <1>1, <1>2, <1>4, <2>1 DEF PermitsConserved
  <1>5. CASE free > 0 /\ free' = free - 1 /\ req[r].permit = "none" /\ x.permit # "none"
    <2>1. Holders' = Holders \cup {r} /\ r \notin Holders
      BY <1>2, <1>5 DEF Holders
    <2>2. Cardinality(Holders') = Cardinality(Holders) + 1
      BY <1>3, <2>1, HolderTaken
    <2> QED BY <1>1, <1>2, <1>3, <1>5, <2>2 DEF PermitsConserved
  <1>6. CASE free' = free + 1 /\ req[r].permit # "none" /\ x.permit = "none"
    <2>1. Holders' = Holders \ {r} /\ r \in Holders
      BY <1>2, <1>6 DEF Holders
    <2>2. Cardinality(Holders') = Cardinality(Holders) - 1
      BY <1>3, <2>1, HolderGiven
    <2> QED BY <1>1, <1>2, <1>3, <1>6, <2>2 DEF PermitsConserved
  <1> QED BY <1>4, <1>5, <1>6

\* A step that leaves the queue alone, and makes no command of the write worker of
\* one that was none, or the reverse.
LEMMA QueueKept ==
    ASSUME TypeOK, QueueOK, NEW r \in Request, NEW x \in RequestType,
           req' = [req EXCEPT ![r] = x], queue' = queue,
           (x.cmd = "queued" /\ Written(x.kind)) <=>
               (req[r].cmd = "queued" /\ Written(req[r].kind))
    PROVE  QueueOK'
  <1>1. /\ \A q \in Request : (req'[q].cmd = "queued" /\ Written(req'[q].kind)) <=>
                (req[q].cmd = "queued" /\ Written(req[q].kind))
    BY DEF TypeOK
  <1>2. Len(queue) \in Nat /\ \A i \in 1..Len(queue) : queue[i] \in Request
    BY DEF TypeOK
  <1> QED BY <1>1, <1>2 DEF QueueOK

\* A login in its handler has a token of its own, not in use and never used.
LoginOK ==
    \A r \in Request :
        req[r].kind = "login" /\ req[r].handler \in {"checked", "waiting"} =>
            /\ req[r].tok \in issued \ (session \cup out)
            /\ \A q \in Request \ {r} :
                req[q].kind = "login" /\ req[q].handler \in {"checked", "waiting"} =>
                    req[q].tok # req[r].tok

Core == TypeOK /\ Shapes /\ QueueOK /\ PermitsConserved

\* A step of one request that leaves the queue, the rest having its type.
LEMMA OneStep ==
    ASSUME Core, NEW r \in Request, NEW x \in RequestType, Shape(x),
           req' = [req EXCEPT ![r] = x], queue' = queue,
           (x.cmd = "queued" /\ Written(x.kind)) <=>
               (req[r].cmd = "queued" /\ Written(req[r].kind)),
           \/ free' = free /\ (x.permit = "none" <=> req[r].permit = "none")
           \/ free > 0 /\ free' = free - 1 /\ req[r].permit = "none" /\ x.permit # "none"
           \/ free' = free + 1 /\ req[r].permit # "none" /\ x.permit = "none",
           session' \subseteq issued', issued' \subseteq Token, out' \subseteq issued',
           up' \in BOOLEAN, next' \in 1..(Event + 1), row' \in 0..Event
    PROVE  Core'
  <1>1. req' \in [Request -> RequestType] /\ PermitsConserved' /\ free' \in Nat
    BY OneChange DEF Core
  <1>2. QueueOK'
    BY QueueKept DEF Core
  <1>3. TypeOK'
    BY <1>1 DEF Core, TypeOK, RequestType
  <1>4. Shapes'
    BY DEF Core, Shapes, TypeOK
  <1> QED BY <1>1, <1>2, <1>3, <1>4 DEF Core

\* The steps that change one request and not the queue.
LEMMA ArriveStep ==
    ASSUME Core, NEW r \in Request, NEW kind \in Plain \cup Vector, NEW ver \in 0..Event,
           NEW tok \in Token \cup {"none"}, Arrives(r, kind, ver, tok),
           session' = session, issued \subseteq issued', issued' \subseteq Token,
           UNCHANGED <<out, free, queue, up, next, row>>
    PROVE  Core'
  <1> DEFINE x == [Idle EXCEPT !.handler = "checked", !.kind = kind, !.ver = ver, !.tok = tok]
  <1>1. x \in RequestType /\ Shape(x) /\ x.cmd = "none" /\ x.permit = "none"
    BY WebAssumption DEF Idle, RequestType, Shape, Answers
  <1>2. req' = [req EXCEPT ![r] = x] /\ req[r].permit = "none" /\ req[r].cmd # "queued"
    BY DEF Arrives, Over
  <1> QED
    <2> HIDE DEF x
    <2> QED BY <1>1, <1>2, OneStep DEF Core, TypeOK

LEMMA AcquireStep ==
    ASSUME Core, NEW r \in Request, Acquire(r)
    PROVE  Core'
  <1>0. req[r] \in RequestType /\ Shape(req[r]) /\ free \in Nat
    BY DEF Core, TypeOK, Shapes, RequestType
  <1>1. CASE free > 0
    <2> DEFINE x == [req[r] EXCEPT !.handler = "admitted", !.permit = "handler"]
    <2>1. req' = [req EXCEPT ![r] = x] /\ free' = free - 1
      BY <1>1 DEF Acquire
    <2>2. /\ x.handler = "admitted" /\ x.permit = "handler" /\ x.cmd = req[r].cmd
          /\ x.answer = req[r].answer /\ x.kind = req[r].kind
      BY <1>0 DEF RequestType
    <2>3. x \in RequestType
      BY <1>0 DEF RequestType
    <2>4. Shape(x) /\ req[r].permit = "none" /\ x.cmd # "queued" /\ req[r].cmd # "queued"
      BY <1>0, <2>2 DEF Acquire, Shape
    <2> HIDE DEF x
    <2> QED BY <1>1, <2>1, <2>2, <2>3, <2>4, OneStep DEF Core, TypeOK, Acquire
  <1>2. CASE ~(free > 0)
    <2> DEFINE y == [req[r] EXCEPT !.handler = "answered", !.answer = "RATE_LIMITED",
                                   !.permit = "none"]
               x == Settled(y)
    <2>1. req' = [req EXCEPT ![r] = x] /\ free' = free
      BY <1>2 DEF Acquire, Answered
    <2>2. /\ y.handler = "answered" /\ y.permit = "none" /\ y.cmd = req[r].cmd
          /\ y.answer = "RATE_LIMITED" /\ y.kind = req[r].kind
      BY <1>0 DEF RequestType
    <2>3. y \in RequestType
      BY <1>0 DEF RequestType, Answers
    <2>4. Shape(y) /\ req[r].permit = "none" /\ y.cmd # "queued" /\ req[r].cmd # "queued"
      BY <1>0, <2>2 DEF Acquire, Shape
    <2> HIDE DEF y
    <2>5. x \in RequestType /\ Shape(x) /\ x.permit = "none" /\ x.cmd # "queued"
      BY <2>2, <2>3, <2>4, SettledKeeps
    <2> HIDE DEF x
    <2> QED BY <2>1, <2>4, <2>5, OneStep DEF Core, TypeOK, Acquire
  <1> QED BY <1>1, <1>2

\* A step that ends a handler, a task or a search: the request becomes Settled(y).
LEMMA EndStep ==
    ASSUME Core, NEW r \in Request, NEW y \in RequestType, Shape(y), y.handler = "answered",
           req' = [req EXCEPT ![r] = Settled(y)], queue' = queue,
           y.kind = req[r].kind,
           (y.cmd = "queued") <=> (req[r].cmd = "queued"),
           \/ free' = free /\ (y.permit = "none" <=> req[r].permit = "none")
           \/ free' = free + 1 /\ req[r].permit # "none" /\ y.permit = "none",
           session' \subseteq issued', issued' = issued, out' = out,
           up' = up, next' \in 1..(Event + 1), row' = row
    PROVE  Core'
  <1> DEFINE x == Settled(y)
  <1>1. x \in RequestType /\ Shape(x) /\ x.permit = y.permit
    BY SettledKeeps
  <1>2. (x.cmd = "queued") <=> (y.cmd = "queued")
    BY SettledKeeps
  <1>3. x.cmd = "queued" => x.kind = y.kind
    BY <1>2, SettledKeeps
  <1> HIDE DEF x
  <1>4. req' = [req EXCEPT ![r] = x]
    BY DEF x
  <1>5. (x.cmd = "queued" /\ Written(x.kind)) <=>
            (req[r].cmd = "queued" /\ Written(req[r].kind))
    BY <1>2, <1>3
  <1>6. /\ out' \subseteq issued' /\ issued' \subseteq Token
        /\ up' \in BOOLEAN /\ row' \in 0..Event
    BY DEF Core, TypeOK
  <1> QED BY <1>1, <1>4, <1>5, <1>6, OneStep

LEMMA AnswerStep ==
    ASSUME Core, LoginOK, NEW r \in Request, Answer(r)
    PROVE  Core'
  <1>0. req[r] \in RequestType /\ Shape(req[r]) /\ free \in Nat
    BY DEF Core, TypeOK, Shapes, RequestType
  <1> DEFINE ans == IF req[r].cmd = "dropped" THEN "SERVICE_UNAVAILABLE" ELSE req[r].cmd
             y == [req[r] EXCEPT !.handler = "answered", !.answer = ans, !.permit = "none"]
  <1>1. req' = [req EXCEPT ![r] = Settled(y)] /\ queue' = queue
    BY DEF Answer, Answered
  <1>2. /\ y.handler = "answered" /\ y.permit = "none" /\ y.cmd = req[r].cmd
        /\ y.answer = ans /\ y.kind = req[r].kind
    BY <1>0 DEF RequestType
  <1>3. y \in RequestType
    BY <1>0 DEF RequestType, Answers, Answer
  <1>4. Shape(y) /\ y.cmd # "queued"
    BY <1>0, <1>2 DEF Answer, Shape
  <1>5. \/ free' = free /\ req[r].permit = "none"
        \/ free' = free + 1 /\ req[r].permit # "none"
    BY <1>0 DEF Answer, Returned, Shape
  <1>6. session' \subseteq issued'
    BY DEF Answer, Core, TypeOK, LoginOK
  <1>7. next' \in 1..(Event + 1)
    <2>1. next' \in {next, Acked(r, ans)}
      BY DEF Answer
    <2>2. next \in 1..(Event + 1) /\ req[r].ver \in 0..Event /\ Event \in Nat
      BY <1>0, WebAssumption DEF Core, TypeOK, RequestType
    <2> QED BY <2>1, <2>2 DEF Acked
  <1> HIDE DEF y, ans
  <1> QED BY <1>1, <1>2, <1>3, <1>4, <1>5, <1>6, <1>7, EndStep DEF Answer, Core, TypeOK

LEMMA TimeoutStep ==
    ASSUME Core, NEW r \in Request, Timeout(r)
    PROVE  Core'
  <1>0. req[r] \in RequestType /\ Shape(req[r])
    BY DEF Core, TypeOK, Shapes, RequestType
  <1> DEFINE y == [req[r] EXCEPT !.handler = "answered", !.answer = "REQUEST_TIMEOUT",
                                 !.permit = "task"]
  <1>1. req' = [req EXCEPT ![r] = Settled(y)]
    BY DEF Timeout, Answered
  <1>2. /\ y.handler = "answered" /\ y.permit = "task" /\ y.cmd = req[r].cmd
        /\ y.answer = "REQUEST_TIMEOUT" /\ y.kind = req[r].kind
    BY <1>0 DEF RequestType
  <1>3. y \in RequestType
    BY <1>0 DEF RequestType, Answers
  <1>4. Shape(y) /\ req[r].permit = "handler"
    BY <1>0, <1>2 DEF Timeout, Shape
  <1> HIDE DEF y
  <1> QED BY <1>1, <1>2, <1>3, <1>4, EndStep DEF Timeout, Core, TypeOK

LEMMA TaskEndsStep ==
    ASSUME Core, NEW r \in Request, TaskEnds(r)
    PROVE  Core'
  <1>0. req[r] \in RequestType /\ Shape(req[r])
    BY DEF Core, TypeOK, Shapes, RequestType
  <1> DEFINE y == [req[r] EXCEPT !.permit = "none"]
  <1>1. req' = [req EXCEPT ![r] = Settled(y)]
    BY DEF TaskEnds
  <1>2. /\ y.handler = req[r].handler /\ y.permit = "none" /\ y.cmd = req[r].cmd
        /\ y.answer = req[r].answer /\ y.kind = req[r].kind
    BY <1>0 DEF RequestType
  <1>3. y \in RequestType
    BY <1>0 DEF RequestType
  <1>4. req[r].handler = "answered"
    BY <1>0 DEF TaskEnds, Shape, RequestType
  <1>5. Shape(y) /\ y.cmd # "queued"
    BY <1>0, <1>2, <1>4 DEF TaskEnds, Shape
  <1> HIDE DEF y
  <1> QED BY <1>1, <1>2, <1>3, <1>4, <1>5, EndStep DEF TaskEnds, Core, TypeOK

LEMMA LeaveStep ==
    ASSUME Core, NEW r \in Request, Leave(r)
    PROVE  Core'
  <1>0. req[r] \in RequestType /\ Shape(req[r])
    BY DEF Core, TypeOK, Shapes, RequestType
  <1> DEFINE y == [req[r] EXCEPT !.handler = "answered", !.answer = "gone", !.permit = "none"]
  <1>1. req' = [req EXCEPT ![r] = Settled(y)]
    BY DEF Leave
  <1>2. /\ y.handler = "answered" /\ y.permit = "none" /\ y.cmd = req[r].cmd
        /\ y.answer = "gone" /\ y.kind = req[r].kind
    BY <1>0 DEF RequestType
  <1>3. y \in RequestType
    BY <1>0 DEF RequestType, Answers
  <1>4. Shape(y)
    BY <1>0, <1>2 DEF Leave, Shape
  <1>5. \/ free' = free /\ req[r].permit = "none"
        \/ free' = free + 1 /\ req[r].permit # "none"
    BY <1>0 DEF Leave, Returned, Shape
  <1> HIDE DEF y
  <1> QED BY <1>1, <1>2, <1>3, <1>4, <1>5, EndStep DEF Leave, Core, TypeOK

\* A command that ran: its request keeps its permit.
LEMMA RanRequest ==
    ASSUME Core, NEW r \in Request, req[r].cmd = "queued",
           NEW c \in {"ok", "STALE_SOURCE_VERSION", "dropped"}
    PROVE  LET x == Settled([req[r] EXCEPT !.cmd = c]) IN
           /\ x \in RequestType /\ Shape(x) /\ x.cmd # "queued"
           /\ x.permit = req[r].permit
  <1>0. req[r] \in RequestType /\ Shape(req[r])
    BY DEF Core, TypeOK, Shapes, RequestType
  <1> DEFINE y == [req[r] EXCEPT !.cmd = c]
  <1>2. /\ y.handler = req[r].handler /\ y.permit = req[r].permit /\ y.cmd = c
        /\ y.answer = req[r].answer /\ y.kind = req[r].kind
    BY <1>0 DEF RequestType
  <1>3. y \in RequestType
    BY <1>0 DEF RequestType
  <1>4. y.handler \in {"waiting", "answered"}
    BY <1>0, <1>2 DEF Shape, RequestType
  <1>5. Shape(y)
    BY <1>0, <1>2, <1>4 DEF Shape
  <1> HIDE DEF y
  <1>6. Settled(y) \in RequestType /\ Settled(y).permit = y.permit /\ Settled(y).cmd # "queued"
    BY <1>2, <1>3, SettledKeeps
  <1>7. Shape(Settled(y))
    BY <1>3, <1>4, <1>5, SettledKeeps
  <1> QED BY <1>2, <1>6, <1>7 DEF y

LEMMA RunReadStep ==
    ASSUME Core, NEW r \in Request, RunRead(r)
    PROVE  Core'
  <1> DEFINE x == Settled([req[r] EXCEPT !.cmd = "ok"])
  <1>1. x \in RequestType /\ Shape(x) /\ x.cmd # "queued" /\ x.permit = req[r].permit
    BY RanRequest DEF RunRead
  <1>2. req' = [req EXCEPT ![r] = x] /\ ~Written(req[r].kind)
    BY DEF RunRead, Ran
  <1> HIDE DEF x
  <1> QED BY <1>1, <1>2, OneStep DEF RunRead, Core, TypeOK

LEMMA RunWriteStep ==
    ASSUME Core, RunWrite
    PROVE  Core'
  <1> DEFINE r == Head(queue)
  <1>1. r \in Request /\ r = queue[1] /\ Len(queue) \in Nat \ {0} /\ queue' = Tail(queue)
    BY DEF RunWrite, Core, TypeOK
  <1>2. req[r].cmd = "queued" /\ Written(req[r].kind)
    BY <1>1 DEF Core, QueueOK
  <1>0. req[r] \in RequestType
    BY <1>1 DEF Core, TypeOK, RequestType
  <1>3. PICK c \in {"ok", "STALE_SOURCE_VERSION"} : Ran(r, c) /\ row' \in 0..Event
    <2>1. Effect(req[r].ver).cmd \in {"ok", "STALE_SOURCE_VERSION"}
      BY DEF Effect
    <2>2. Effect(req[r].ver).row \in 0..Event
      BY <1>0, WebAssumption DEF Effect, Core, TypeOK, RequestType
    <2> QED BY <2>1, <2>2 DEF RunWrite, Core, TypeOK
  <1> DEFINE x == Settled([req[r] EXCEPT !.cmd = c])
  <1>4. x \in RequestType /\ Shape(x) /\ x.cmd # "queued" /\ x.permit = req[r].permit
    BY <1>1, <1>2, RanRequest
  <1>5. req' = [req EXCEPT ![r] = x]
    BY <1>3 DEF Ran
  <1> HIDE DEF x
  <1>6. req' \in [Request -> RequestType] /\ PermitsConserved' /\ free' \in Nat
    <2>1. free' = free
      BY DEF RunWrite
    <2> QED BY <1>1, <1>4, <1>5, <2>1, OneChange DEF Core
  <1>7. TypeOK'
    <2>1. queue' \in Seq(Request)
      BY <1>1 DEF Core, TypeOK, RunWrite
    <2> QED BY <1>3, <1>6, <2>1 DEF Core, TypeOK, RequestType, RunWrite
  <1>8. Shapes'
    BY <1>1, <1>4, <1>5 DEF Core, Shapes, TypeOK
  <1>9. QueueOK'
    <2>1. /\ Len(queue') = Len(queue) - 1
          /\ \A i \in 1..Len(queue') : queue'[i] = queue[i + 1]
      BY <1>1 DEF Core, TypeOK
    <2>2. \A i \in 1..Len(queue) : queue[i] \in Request /\ (queue[i] = r <=> i = 1)
      BY <1>1 DEF Core, QueueOK, TypeOK
    <2>3. req'[r].cmd # "queued" /\ \A q \in Request \ {r} : req'[q] = req[q]
      BY <1>1, <1>4, <1>5 DEF Core, TypeOK
    <2>4. \A i \in 1..Len(queue') : req'[queue'[i]].cmd = "queued" /\ Written(req'[queue'[i]].kind)
      BY <1>1, <2>1, <2>2, <2>3 DEF Core, QueueOK
    <2>5. \A i, j \in 1..Len(queue') : queue'[i] = queue'[j] => i = j
      BY <1>1, <2>1 DEF Core, QueueOK
    <2>6. ASSUME NEW q \in Request, req'[q].cmd = "queued", Written(req'[q].kind)
          PROVE  \E i \in 1..Len(queue') : queue'[i] = q
      <3>1. q # r /\ req[q].cmd = "queued" /\ Written(req[q].kind)
        BY <2>3, <2>6
      <3>2. PICK i \in 1..Len(queue) : queue[i] = q
        BY <3>1 DEF Core, QueueOK
      <3>3. i - 1 \in 1..Len(queue') /\ queue'[i - 1] = q
        BY <1>1, <2>1, <2>2, <3>1, <3>2
      <3> QED BY <3>3
    <2> QED BY <2>4, <2>5, <2>6 DEF QueueOK
  <1> QED BY <1>6, <1>7, <1>8, <1>9 DEF Core

LEMMA SubmitStep ==
    ASSUME Core, NEW r \in Request, Submit(r)
    PROVE  Core'
  <1>0. req[r] \in RequestType /\ Shape(req[r]) /\ free \in Nat
    BY DEF Core, TypeOK, Shapes, RequestType
  <1>1. /\ req[r].cmd = "none" /\ req[r].answer = "none"
        /\ req[r].permit = IF req[r].kind \in Vector THEN "handler" ELSE "none"
    BY <1>0 DEF Submit, Shape, Plain, Vector
  <1>2. CASE Enqueues(r)
    <2> DEFINE x == [req[r] EXCEPT !.handler = "waiting", !.cmd = "queued"]
    <2>1. req' = [req EXCEPT ![r] = x] /\ free' = free
      BY <1>2 DEF Enqueues
    <2>2. /\ x.handler = "waiting" /\ x.permit = req[r].permit /\ x.cmd = "queued"
          /\ x.answer = "none" /\ x.kind = req[r].kind
      BY <1>0, <1>1 DEF RequestType
    <2>3. x \in RequestType
      BY <1>0 DEF RequestType
    <2>4. Shape(x)
      BY <1>1, <2>2 DEF Shape
    <2> HIDE DEF x
    <2>5. req' \in [Request -> RequestType] /\ PermitsConserved' /\ free' \in Nat
      BY <2>1, <2>2, <2>3, OneChange DEF Core
    <2>6. TypeOK'
      <3>0. queue \in Seq(Request) /\ Append(queue, r) \in Seq(Request)
        BY DEF Core, TypeOK
      <3>1. queue' \in Seq(Request)
        BY <1>2, <3>0, Zenon DEF Enqueues
      <3> QED BY <2>5, <3>1 DEF Core, TypeOK, RequestType, Submit
    <2>7. Shapes'
      BY <2>1, <2>4 DEF Core, Shapes, TypeOK
    <2>8. \A q \in Request \ {r} : req'[q] = req[q]
      BY <2>1 DEF Core, TypeOK
    <2>9. req'[r] = x
      BY <2>1 DEF Core, TypeOK
    <2>10. /\ \A i \in 1..Len(queue) : queue[i] \in Request \ {r}
           /\ Len(queue) \in Nat
      BY <1>1 DEF Core, TypeOK, QueueOK
    <2>11. CASE Written(req[r].kind)
      <3>1. /\ Len(queue') = Len(queue) + 1 /\ queue'[Len(queue) + 1] = r
            /\ \A i \in 1..Len(queue) : queue'[i] = queue[i]
        BY <1>2, <2>11 DEF Enqueues, Core, TypeOK
      <3>2. \A i \in 1..Len(queue') : req'[queue'[i]].cmd = "queued" /\ Written(req'[queue'[i]].kind)
        BY <2>2, <2>8, <2>9, <2>10, <2>11, <3>1 DEF Core, QueueOK
      <3>3. \A i, j \in 1..Len(queue') : queue'[i] = queue'[j] => i = j
        BY <2>10, <3>1 DEF Core, QueueOK
      <3>4. ASSUME NEW q \in Request, req'[q].cmd = "queued", Written(req'[q].kind)
            PROVE  \E i \in 1..Len(queue') : queue'[i] = q
        <4>1. CASE q = r
          BY <2>10, <3>1, <4>1
        <4>2. CASE q # r
          <5>1. PICK i \in 1..Len(queue) : queue[i] = q
            BY <2>8, <3>4, <4>2 DEF Core, QueueOK
          <5> QED BY <2>10, <3>1, <5>1
        <4> QED BY <4>1, <4>2
      <3> QED BY <2>5, <2>6, <2>7, <3>2, <3>3, <3>4 DEF Core, QueueOK
    <2>12. CASE ~Written(req[r].kind)
      <3>1. queue' = queue
        BY <1>2, <2>12 DEF Enqueues
      <3>2. QueueOK'
        BY <1>1, <2>1, <2>2, <2>3, <2>12, <3>1, QueueKept DEF Core
      <3> QED BY <2>5, <2>6, <2>7, <3>2 DEF Core
    <2> QED BY <2>11, <2>12
  <1>3. CASE Refused(r)
    <2> DEFINE code == IF up THEN "RATE_LIMITED" ELSE "SERVICE_UNAVAILABLE"
               y == [req[r] EXCEPT !.handler = "answered", !.answer = code, !.permit = "none"]
    <2>1. req' = [req EXCEPT ![r] = Settled(y)] /\ queue' = queue
      BY <1>3 DEF Refused, Answered
    <2>2. /\ y.handler = "answered" /\ y.permit = "none" /\ y.cmd = "none"
          /\ y.answer = code /\ y.kind = req[r].kind
      BY <1>0, <1>1 DEF RequestType
    <2>3. y \in RequestType
      BY <1>0 DEF RequestType, Answers
    <2>4. Shape(y)
      BY <2>2 DEF Shape
    <2>5. \/ free' = free /\ req[r].permit = "none"
          \/ free' = free + 1 /\ req[r].permit # "none"
      BY <1>1, <1>3 DEF Refused, Returned
    <2> HIDE DEF y
    <2> QED BY <1>1, <2>1, <2>2, <2>3, <2>4, <2>5, EndStep DEF Submit, Core, TypeOK
  <1> QED BY <1>2, <1>3 DEF Submit

LEMMA StopStep ==
    ASSUME Core, Stop
    PROVE  Core'
  <1>0. \A r \in Request : req[r] \in RequestType /\ Shape(req[r])
    BY DEF Core, TypeOK, Shapes, RequestType
  <1>1. ASSUME NEW r \in Request
        PROVE  /\ req'[r] \in RequestType /\ Shape(req'[r]) /\ req'[r].cmd # "queued"
               /\ req'[r].permit = req[r].permit
    <2>1. CASE req[r].cmd = "queued"
      <3>1. req'[r] = Settled([req[r] EXCEPT !.cmd = "dropped"])
        BY <2>1 DEF Stop
      <3> QED BY <2>1, <3>1, RanRequest
    <2>2. CASE req[r].cmd # "queued"
      BY <1>0, <2>2 DEF Stop
    <2> QED BY <2>1, <2>2
  <1>2. req' \in [Request -> RequestType]
    <2>1. req' = [r \in Request |-> req'[r]]
      BY DEF Stop
    <2> QED BY <1>1, <2>1
  <1>3. Holders' = Holders
    BY <1>1 DEF Holders
  <1>4. PermitsConserved'
    BY <1>3 DEF Stop, Core, PermitsConserved
  <1>5. queue' = <<>> /\ Len(queue') = 0 /\ queue' \in Seq(Request)
    BY DEF Stop
  <1>6. TypeOK'
    BY <1>2, <1>5 DEF Stop, Core, TypeOK, RequestType
  <1>7. QueueOK'
    BY <1>1, <1>5 DEF QueueOK
  <1> QED BY <1>1, <1>4, <1>6, <1>7 DEF Core, Shapes

LEMMA LogoutStep ==
    ASSUME Core, NEW t \in Token, Logout(t)
    PROVE  Core'
  BY DEF Logout, Core, TypeOK, Shapes, QueueOK, PermitsConserved, Holders

-----------------------------------------------------------------------------
(***************************************************************************)
(* Logins                                                                  *)
(***************************************************************************)
\* A step that makes no login and touches no session.
LEMMA LoginKept ==
    ASSUME LoginOK, UNCHANGED <<session, issued, out>>,
           \A q \in Request :
               req'[q].kind = "login" /\ req'[q].handler \in {"checked", "waiting"} =>
                   /\ req[q].kind = "login" /\ req[q].handler \in {"checked", "waiting"}
                   /\ req'[q].tok = req[q].tok
    PROVE  LoginOK'
  BY DEF LoginOK

LEMMA LoginStep ==
    ASSUME Core, LoginOK, NEW r \in Request, Login(r)
    PROVE  LoginOK'
  <1>1. PICK t \in Token \ issued : Arrives(r, "login", 0, t) /\ issued' = issued \cup {t}
    BY DEF Login
  <1>2. /\ req'[r].tok = t
        /\ \A q \in Request \ {r} : req'[q] = req[q]
    BY <1>1 DEF Arrives, Core, TypeOK, Idle
  <1>3. t \notin session /\ t \notin out /\ UNCHANGED <<session, out>>
    BY <1>1 DEF Login, Core, TypeOK
  <1> QED BY <1>1, <1>2, <1>3 DEF LoginOK

LEMMA LoginAnswered ==
    ASSUME Core, LoginOK, NEW r \in Request, Answer(r)
    PROVE  LoginOK'
  <1>1. \A q \in Request \ {r} : req'[q] = req[q]
    BY DEF Answer, Answered, Core, TypeOK
  <1>2. req'[r].handler \notin {"checked", "waiting"}
    <2>1. req[r] \in RequestType
      BY DEF Core, TypeOK, RequestType
    <2> DEFINE ans == IF req[r].cmd = "dropped" THEN "SERVICE_UNAVAILABLE" ELSE req[r].cmd
               y == [req[r] EXCEPT !.handler = "answered", !.answer = ans, !.permit = "none"]
    <2>2. req'[r] = Settled(y)
      BY DEF Answer, Answered, Core, TypeOK
    <2>3. y \in RequestType /\ y.handler = "answered"
      BY <2>1 DEF RequestType, Answers, Answer
    <2> HIDE DEF y
    <2> QED BY <2>2, <2>3, SettledKeeps
  <1>3. \/ session' = session
        \/ session' = session \cup {req[r].tok} /\ req[r].kind = "login"
    BY DEF Answer
  <1> QED BY <1>1, <1>2, <1>3 DEF Answer, LoginOK

\* The handler that ended is no login any more; another is as it was.
LEMMA LoginEnded ==
    ASSUME Core, LoginOK, NEW r \in Request, NEW y \in RequestType, y.handler = "answered",
           req' = [req EXCEPT ![r] = Settled(y)], UNCHANGED <<session, issued, out>>
    PROVE  LoginOK'
  <1>1. Settled(y).handler \notin {"checked", "waiting"}
    BY SettledKeeps
  <1>2. req'[r] = Settled(y) /\ \A q \in Request \ {r} : req'[q] = req[q]
    BY DEF Core, TypeOK
  <1> QED BY <1>1, <1>2, LoginKept

\* A command that ran: its login waits on, or nobody does.
LEMMA LoginRan ==
    ASSUME Core, LoginOK, NEW r \in Request, req[r].cmd = "queued",
           NEW c \in {"ok", "STALE_SOURCE_VERSION", "dropped"},
           req'[r] = Settled([req[r] EXCEPT !.cmd = c])
    PROVE  req'[r].handler \in {"checked", "waiting"} =>
               /\ req'[r].kind = req[r].kind /\ req'[r].tok = req[r].tok
               /\ req[r].handler = "waiting"
  <1>0. req[r] \in RequestType /\ Shape(req[r])
    BY DEF Core, TypeOK, Shapes, RequestType
  <1> DEFINE y == [req[r] EXCEPT !.cmd = c]
  <1>1. /\ y \in RequestType /\ y.handler = req[r].handler
        /\ y.kind = req[r].kind /\ y.tok = req[r].tok
    BY <1>0 DEF RequestType
  <1>2. req[r].handler \in {"waiting", "answered"}
    BY <1>0 DEF Shape, RequestType
  <1>3. req'[r] = Settled(y)
    OBVIOUS
  <1> HIDE DEF y
  <1> QED BY <1>1, <1>2, <1>3, SettledKeeps

\* A step that changes one request and no session, the request being no login of a
\* handler after it, or the login it was before.
LEMMA LoginOther ==
    ASSUME Core, LoginOK, NEW r \in Request, NEW x,
           req' = [req EXCEPT ![r] = x], UNCHANGED <<session, issued, out>>,
           \/ x.kind # "login"
           \/ x.handler \notin {"checked", "waiting"}
           \/ /\ req[r].kind = "login" /\ req[r].handler \in {"checked", "waiting"}
              /\ x.tok = req[r].tok
    PROVE  LoginOK'
  <1>1. req'[r] = x /\ \A q \in Request \ {r} : req'[q] = req[q]
    BY DEF Core, TypeOK
  <1> QED BY <1>1, LoginKept

LEMMA LoginInvariant ==
    ASSUME Core, LoginOK, [Next]_vars
    PROVE  LoginOK'
  <1>0. \A r \in Request : req[r] \in RequestType /\ Shape(req[r])
    BY DEF Core, TypeOK, Shapes, RequestType
  <1>1. ASSUME NEW r \in Request, Login(r) PROVE LoginOK'
    BY <1>1, LoginStep
  <1>2. ASSUME NEW r \in Request, NEW k \in {"plain", "other", "maintain", "read", "write"},
               NEW v, Arrives(r, k, v, "none"), UNCHANGED <<session, issued, out>>
        PROVE  LoginOK'
    <2> DEFINE x == [Idle EXCEPT !.handler = "checked", !.kind = k, !.ver = v, !.tok = "none"]
    <2>1. x.kind # "login" /\ req' = [req EXCEPT ![r] = x]
      BY <1>2 DEF Arrives, Idle
    <2> HIDE DEF x
    <2> QED BY <1>2, <2>1, LoginOther
  <1>3. ASSUME NEW r \in Request, Acquire(r) PROVE LoginOK'
    <2>1. CASE free > 0
      <3> DEFINE x == [req[r] EXCEPT !.handler = "admitted", !.permit = "handler"]
      <3>1. req' = [req EXCEPT ![r] = x] /\ x.handler = "admitted"
        BY <1>0, <1>3, <2>1 DEF Acquire, RequestType
      <3> HIDE DEF x
      <3> QED BY <1>3, <3>1, LoginOther DEF Acquire
    <2>2. CASE ~(free > 0)
      <3> DEFINE y == [req[r] EXCEPT !.handler = "answered", !.answer = "RATE_LIMITED",
                                     !.permit = "none"]
      <3>1. req' = [req EXCEPT ![r] = Settled(y)]
        BY <1>3, <2>2 DEF Acquire, Answered
      <3>2. y \in RequestType /\ y.handler = "answered"
        BY <1>0 DEF RequestType, Answers
      <3> HIDE DEF y
      <3> QED BY <1>3, <3>1, <3>2, LoginEnded DEF Acquire
    <2> QED BY <2>1, <2>2
  <1>4. ASSUME NEW r \in Request, Submit(r) PROVE LoginOK'
    <2>1. CASE Enqueues(r)
      <3> DEFINE x == [req[r] EXCEPT !.handler = "waiting", !.cmd = "queued"]
      <3>1. req' = [req EXCEPT ![r] = x] /\ x.kind = req[r].kind /\ x.tok = req[r].tok
        BY <1>0, <2>1 DEF Enqueues, RequestType
      <3>2. req[r].handler = "checked" \/ req[r].kind # "login"
        BY <1>0, <1>4 DEF Submit, Shape, Vector
      <3> HIDE DEF x
      <3> QED BY <1>4, <3>1, <3>2, LoginOther DEF Submit
    <2>2. CASE Refused(r)
      <3> DEFINE code == IF up THEN "RATE_LIMITED" ELSE "SERVICE_UNAVAILABLE"
                 y == [req[r] EXCEPT !.handler = "answered", !.answer = code, !.permit = "none"]
      <3>1. req' = [req EXCEPT ![r] = Settled(y)]
        BY <2>2 DEF Refused, Answered
      <3>2. y \in RequestType /\ y.handler = "answered"
        BY <1>0 DEF RequestType, Answers
      <3> HIDE DEF y
      <3> QED BY <1>4, <3>1, <3>2, LoginEnded DEF Submit
    <2> QED BY <1>4, <2>1, <2>2 DEF Submit
  <1>5. ASSUME NEW r \in Request, Answer(r) PROVE LoginOK'
    BY <1>5, LoginAnswered
  <1>6. ASSUME NEW r \in Request, Timeout(r) PROVE LoginOK'
    <2> DEFINE y == [req[r] EXCEPT !.handler = "answered", !.answer = "REQUEST_TIMEOUT",
                                   !.permit = "task"]
    <2>1. req' = [req EXCEPT ![r] = Settled(y)]
      BY <1>6 DEF Timeout, Answered
    <2>2. y \in RequestType /\ y.handler = "answered"
      BY <1>0 DEF RequestType, Answers
    <2> HIDE DEF y
    <2> QED BY <1>6, <2>1, <2>2, LoginEnded DEF Timeout
  <1>7. ASSUME NEW r \in Request, TaskEnds(r) PROVE LoginOK'
    <2> DEFINE y == [req[r] EXCEPT !.permit = "none"]
    <2>1. req' = [req EXCEPT ![r] = Settled(y)]
      BY <1>7 DEF TaskEnds
    <2>2. y \in RequestType /\ y.handler = "answered"
      BY <1>0, <1>7 DEF RequestType, TaskEnds, Shape
    <2> HIDE DEF y
    <2> QED BY <1>7, <2>1, <2>2, LoginEnded DEF TaskEnds
  <1>8. ASSUME NEW r \in Request, Leave(r) PROVE LoginOK'
    <2> DEFINE y == [req[r] EXCEPT !.handler = "answered", !.answer = "gone", !.permit = "none"]
    <2>1. req' = [req EXCEPT ![r] = Settled(y)]
      BY <1>8 DEF Leave
    <2>2. y \in RequestType /\ y.handler = "answered"
      BY <1>0 DEF RequestType, Answers
    <2> HIDE DEF y
    <2> QED BY <1>8, <2>1, <2>2, LoginEnded DEF Leave
  <1>9. ASSUME NEW r \in Request, NEW c \in {"ok", "STALE_SOURCE_VERSION", "dropped"},
               req[r].cmd = "queued", Ran(r, c), UNCHANGED <<session, issued, out>>
        PROVE  LoginOK'
    <2>1. /\ req'[r] = Settled([req[r] EXCEPT !.cmd = c])
          /\ \A q \in Request \ {r} : req'[q] = req[q]
      BY <1>9 DEF Ran, Core, TypeOK
    <2>2. req'[r].handler \in {"checked", "waiting"} =>
             /\ req'[r].kind = req[r].kind /\ req'[r].tok = req[r].tok
             /\ req[r].handler = "waiting"
      BY <1>9, <2>1, LoginRan
    <2> QED BY <1>9, <2>1, <2>2, LoginKept
  <1>10. ASSUME NEW r \in Request, RunRead(r) PROVE LoginOK'
    BY <1>9, <1>10 DEF RunRead
  <1>11. ASSUME RunWrite PROVE LoginOK'
    <2> DEFINE r == Head(queue)
    <2>1. r \in Request /\ req[r].cmd = "queued"
      BY <1>11 DEF RunWrite, Core, TypeOK, QueueOK
    <2>2. \E c \in {"ok", "STALE_SOURCE_VERSION", "dropped"} : Ran(r, c)
      BY <1>11 DEF RunWrite, Effect
    <2> QED BY <1>9, <1>11, <2>1, <2>2 DEF RunWrite
  <1>12. ASSUME Stop PROVE LoginOK'
    <2>1. ASSUME NEW q \in Request,
                 req'[q].kind = "login", req'[q].handler \in {"checked", "waiting"}
          PROVE  /\ req[q].kind = "login" /\ req[q].handler \in {"checked", "waiting"}
                 /\ req'[q].tok = req[q].tok
      <3>1. CASE req[q].cmd = "queued"
        <4>1. req'[q] = Settled([req[q] EXCEPT !.cmd = "dropped"])
          BY <1>12, <3>1 DEF Stop
        <4> QED BY <2>1, <3>1, <4>1, LoginRan
      <3>2. CASE req[q].cmd # "queued"
        BY <1>12, <2>1, <3>2 DEF Stop
      <3> QED BY <3>1, <3>2
    <2> QED BY <1>12, <2>1, LoginKept DEF Stop
  <1>13. ASSUME NEW t \in Token, Logout(t) PROVE LoginOK'
    BY <1>13 DEF Logout, LoginOK
  <1>14. CASE UNCHANGED vars
    BY <1>14 DEF vars, LoginOK
  <1>15. ASSUME NEW r \in Request,
                Sql(r) \/ SaveSnapshot(r) \/ ImportParquet(r) \/ CreateVectorIndex(r)
                   \/ IndexMaintenance(r) \/ IndexStatus(r) \/ Search(r) \/ Deliver(r)
         PROVE  LoginOK'
    <2>1. \E k \in {"plain", "other", "maintain", "read", "write"}, v \in {0, next} : Arrives(r, k, v, "none")
      BY <1>15 DEF Sql, SaveSnapshot, ImportParquet, CreateVectorIndex, IndexMaintenance,
         IndexStatus, BySession, Search, Deliver
    <2>2. UNCHANGED <<session, issued, out>>
      BY <1>15 DEF Sql, SaveSnapshot, ImportParquet, CreateVectorIndex, IndexMaintenance,
         IndexStatus, BySession, Search, Deliver
    <2> QED BY <1>2, <2>1, <2>2
  <1> QED BY <1>1, <1>3, <1>4, <1>5, <1>6, <1>7, <1>8, <1>10, <1>11, <1>12, <1>13, <1>14,
     <1>15 DEF Next

-----------------------------------------------------------------------------
(***************************************************************************)
(* The outbox                                                              *)
(***************************************************************************)
Active(q) == q.kind = "write" /\ q.handler \in {"checked", "admitted", "waiting"}
Pending(q) == q.kind = "write" /\ q.cmd = "queued"

\* The consumer has one delivery in a handler.  Every copy of its event that is still
\* queued is before that one, for the queue is first in first out: when the answer
\* comes none is left.
OutboxOK ==
    /\ OutboxDelivered
    /\ \A r \in Request :
        req[r].kind = "write" =>
            /\ req[r].ver = next /\ next <= Event
            /\ Active(req[r]) \/ Pending(req[r])
    /\ \A r, q \in Request : Active(req[r]) /\ Active(req[q]) => r = q
    /\ \A r \in Request : Active(req[r]) /\ req[r].handler = "waiting" =>
        /\ req[r].cmd # "queued" => \A q \in Request : ~Pending(req[q])
        /\ req[r].cmd = "queued" =>
            \A i, j \in 1..Len(queue) :
                queue[i] = r /\ i < j => req[queue[j]].kind # "write"
        /\ req[r].cmd \in {"queued", "ok", "dropped"}
        /\ req[r].cmd = "ok" => row = Left(next)

\* A request that is over is no write.
LEMMA SettledNotWrite ==
    ASSUME NEW q \in RequestType, q.cmd # "queued", q.handler # "waiting"
    PROVE  Settled(q).kind = "plain"
  BY DEF Settled, Idle, RequestType

\* A step that delivers, runs and acknowledges nothing of the outbox.
LEMMA OutboxOther ==
    ASSUME Core, OutboxOK, UNCHANGED <<queue, next, row>>,
           \A q \in Request :
               /\ req'[q].kind = "write" =>
                      /\ req[q].kind = "write" /\ req'[q].ver = req[q].ver
                      /\ Active(req'[q]) \/ Pending(req'[q])
               /\ Active(req'[q]) => Active(req[q])
               /\ Active(req'[q]) /\ req'[q].handler = "waiting" =>
                      req[q].handler = "waiting" /\ req'[q].cmd = req[q].cmd
               /\ Pending(req'[q]) => Pending(req[q])
    PROVE  OutboxOK'
  <1>1. /\ \A i \in 1..Len(queue) : queue[i] \in Request
        /\ OutboxDelivered'
    BY DEF Core, TypeOK, OutboxOK, OutboxDelivered, Left
  <1>2. \A r \in Request : req'[r].kind = "write" =>
            /\ req'[r].ver = next' /\ next' <= Event
            /\ Active(req'[r]) \/ Pending(req'[r])
    BY DEF OutboxOK
  <1>3. \A r, q \in Request : Active(req'[r]) /\ Active(req'[q]) => r = q
    BY DEF OutboxOK
  <1>4. ASSUME NEW r \in Request, Active(req'[r]), req'[r].handler = "waiting"
        PROVE  /\ req'[r].cmd # "queued" => \A q \in Request : ~Pending(req'[q])
               /\ req'[r].cmd = "queued" =>
                     \A i, j \in 1..Len(queue') :
                         queue'[i] = r /\ i < j => req'[queue'[j]].kind # "write"
               /\ req'[r].cmd \in {"queued", "ok", "dropped"}
               /\ req'[r].cmd = "ok" => row' = Left(next')
    BY <1>1, <1>4 DEF OutboxOK, Left
  <1> QED BY <1>1, <1>2, <1>3, <1>4 DEF OutboxOK

\* The same for one request, which becomes x.
LEMMA OutboxOne ==
    ASSUME Core, OutboxOK, UNCHANGED <<queue, next, row>>, NEW r \in Request, NEW x,
           req' = [req EXCEPT ![r] = x],
           x.kind = "write" =>
               /\ req[r].kind = "write" /\ x.ver = req[r].ver
               /\ Active(x) \/ Pending(x)
               /\ Active(x) => Active(req[r])
               /\ Active(x) /\ x.handler = "waiting" =>
                      req[r].handler = "waiting" /\ x.cmd = req[r].cmd
               /\ Pending(x) => Pending(req[r])
    PROVE  OutboxOK'
  <1>1. req'[r] = x /\ \A q \in Request \ {r} : req'[q] = req[q]
    BY DEF Core, TypeOK
  <1>2. \A q \in Request : req[q].kind = "write" => Active(req[q]) \/ Pending(req[q])
    BY DEF OutboxOK
  <1>3. \A q \in Request :
            /\ req'[q].kind = "write" =>
                   /\ req[q].kind = "write" /\ req'[q].ver = req[q].ver
                   /\ Active(req'[q]) \/ Pending(req'[q])
            /\ Active(req'[q]) => Active(req[q])
            /\ Active(req'[q]) /\ req'[q].handler = "waiting" =>
                   req[q].handler = "waiting" /\ req'[q].cmd = req[q].cmd
            /\ Pending(req'[q]) => Pending(req[q])
    <2>1. Active(x) => x.kind = "write"
      BY DEF Active
    <2>2. Pending(x) => x.kind = "write"
      BY DEF Pending
    <2> QED BY <1>1, <1>2, <2>1, <2>2
  <1> QED BY <1>3, OutboxOther

\* A handler, or the task of one, that ends: y settled.
LEMMA OutboxEnded ==
    ASSUME Core, OutboxOK, UNCHANGED <<queue, next, row>>, NEW r \in Request,
           NEW y \in RequestType, y.handler = "answered", y.cmd = req[r].cmd,
           y.kind = req[r].kind, y.ver = req[r].ver,
           req' = [req EXCEPT ![r] = Settled(y)]
    PROVE  OutboxOK'
  <1> DEFINE x == Settled(y)
  <1>1. x.kind = "write" => x = y
    BY SettledKeeps
  <1>2. x.kind = "write" => x.cmd = "queued"
    <2>1. CASE y.cmd = "queued"
      BY <1>1, <2>1
    <2>2. CASE y.cmd # "queued"
      BY <2>2, SettledNotWrite DEF Settled
    <2> QED BY <2>1, <2>2
  <1>3. req' = [req EXCEPT ![r] = x]
    OBVIOUS
  <1> HIDE DEF x
  <1>4. x.kind = "write" =>
            /\ req[r].kind = "write" /\ x.ver = req[r].ver
            /\ Pending(x) /\ Pending(req[r]) /\ ~Active(x)
    BY <1>1, <1>2 DEF Active, Pending
  <1> QED BY <1>3, <1>4, OutboxOne

LEMMA LeftFacts ==
    /\ Left(0) = 0
    /\ \A v \in 1..Event : Left(v) \in 0..v
    /\ \A v \in 1..Event : row \in Int /\ row <= v => Effect(v) = [row |-> Left(v), cmd |-> "ok"]
  BY WebAssumption DEF Left, Effect

\* The row is no newer than the event under way.
LEMMA RowBehind ==
    ASSUME TypeOK, OutboxDelivered, next <= Event
    PROVE  row <= next
  <1>1. next \in 1..Event
    BY WebAssumption DEF TypeOK
  <1>2. Left(next) <= next
    BY <1>1, LeftFacts, WebAssumption
  <1>3. Left(next - 1) <= next
    <2>1. CASE next = 1
      BY <2>1, LeftFacts
    <2>2. CASE next # 1
      <3>1. next - 1 \in 1..Event
        BY <1>1, <2>2, WebAssumption
      <3> QED BY <1>1, <3>1, LeftFacts, WebAssumption
    <2> QED BY <2>1, <2>2
  <1> QED BY <1>2, <1>3 DEF OutboxDelivered

LEMMA OutboxDeliver ==
    ASSUME Core, OutboxOK, NEW r \in Request, Deliver(r)
    PROVE  OutboxOK'
  <1>1. /\ req'[r].kind = "write" /\ req'[r].handler = "checked" /\ req'[r].ver = next
        /\ req'[r].cmd = "none" /\ \A q \in Request \ {r} : req'[q] = req[q]
    BY DEF Deliver, Arrives, Idle, Core, TypeOK
  <1>2. UNCHANGED <<queue, next, row>> /\ next <= Event
    BY DEF Deliver
  <1>3. \A q \in Request : ~Active(req[q])
    BY DEF Deliver, Active
  <1>4. /\ \A q \in Request \ {r} : ~Active(req'[q])
        /\ Active(req'[r]) /\ req'[r].handler # "waiting"
    BY <1>1, <1>3 DEF Active
  <1>5. OutboxDelivered'
    BY <1>2 DEF OutboxOK, OutboxDelivered, Left
  <1> QED BY <1>1, <1>2, <1>4, <1>5 DEF OutboxOK

LEMMA OutboxSubmit ==
    ASSUME Core, OutboxOK, NEW r \in Request, Submit(r), Enqueues(r)
    PROVE  OutboxOK'
  <1>0. req[r] \in RequestType /\ Shape(req[r])
    BY DEF Core, TypeOK, Shapes, RequestType
  <1>1. /\ req'[r].kind = req[r].kind /\ req'[r].handler = "waiting" /\ req'[r].ver = req[r].ver
        /\ req'[r].cmd = "queued" /\ \A q \in Request \ {r} : req'[q] = req[q]
    BY <1>0 DEF Enqueues, Core, TypeOK, RequestType
  <1>2. UNCHANGED <<next, row>> /\ req[r].handler \in {"checked", "admitted"} /\ req[r].cmd = "none"
    BY <1>0 DEF Submit, Shape
  <1>3. OutboxDelivered'
    BY <1>2 DEF OutboxOK, OutboxDelivered, Left
  <1>4. /\ Len(queue) \in Nat
        /\ \A i \in 1..Len(queue) : queue[i] \in Request \ {r}
    BY <1>2 DEF Core, TypeOK, QueueOK
  <1>5. CASE req[r].kind = "write"
    <2>1. /\ Len(queue') = Len(queue) + 1 /\ queue'[Len(queue) + 1] = r
          /\ \A i \in 1..Len(queue) : queue'[i] = queue[i]
      BY <1>5 DEF Enqueues, Written, Core, TypeOK
    <2>2. Active(req[r]) /\ Active(req'[r]) /\ Pending(req'[r])
      BY <1>1, <1>2, <1>5 DEF Active, Pending
    <2>3. \A q \in Request \ {r} : ~Active(req'[q])
      BY <1>1, <2>2 DEF OutboxOK
    <2>4. \A q \in Request : req'[q].kind = "write" =>
              /\ req'[q].ver = next' /\ next' <= Event
              /\ Active(req'[q]) \/ Pending(req'[q])
      BY <1>1, <1>2, <1>5, <2>2 DEF OutboxOK
    <2>5. \A i, j \in 1..Len(queue') : queue'[i] = r /\ i < j => req'[queue'[j]].kind # "write"
      BY <1>4, <2>1
    <2> QED BY <1>1, <1>3, <2>2, <2>3, <2>4, <2>5 DEF OutboxOK
  <1>6. CASE req[r].kind # "write"
    <2>1. \A q \in Request : /\ Active(req'[q]) => q # r /\ Active(req[q])
                             /\ Pending(req'[q]) => q # r /\ Pending(req[q])
      BY <1>1, <1>6 DEF Active, Pending
    <2>2. \A q \in Request : req'[q].kind = "write" =>
              /\ req'[q].ver = next' /\ next' <= Event
              /\ Active(req'[q]) \/ Pending(req'[q])
      BY <1>1, <1>2, <1>6 DEF OutboxOK
    <2>3. ASSUME NEW q \in Request, Active(req'[q]), req'[q].handler = "waiting",
                 req'[q].cmd = "queued",
                 NEW i \in 1..Len(queue'), NEW j \in 1..Len(queue'), queue'[i] = q, i < j
          PROVE  req'[queue'[j]].kind # "write"
      <3>1. q # r /\ req'[q] = req[q]
        BY <1>1, <2>1, <2>3
      <3>2. \/ queue' = queue
            \/ /\ Len(queue') = Len(queue) + 1 /\ queue'[Len(queue) + 1] = r
               /\ \A k \in 1..Len(queue) : queue'[k] = queue[k]
        BY DEF Enqueues, Core, TypeOK
      <3>3. CASE queue'[j] = r
        BY <1>1, <1>6, <3>3
      <3>4. CASE queue'[j] # r
        <4>1. /\ i \in 1..Len(queue) /\ j \in 1..Len(queue)
              /\ queue'[i] = queue[i] /\ queue'[j] = queue[j]
          BY <1>4, <2>3, <3>1, <3>2, <3>4
        <4>2. req[queue[j]].kind # "write"
          BY <2>1, <2>3, <3>1, <4>1 DEF OutboxOK
        <4> QED BY <1>1, <1>4, <4>1, <4>2
      <3> QED BY <3>3, <3>4
    <2>4. \A q \in Request : Active(req'[q]) /\ req'[q].handler = "waiting" =>
              /\ req'[q].cmd # "queued" => \A p \in Request : ~Pending(req'[p])
              /\ req'[q].cmd \in {"queued", "ok", "dropped"}
              /\ req'[q].cmd = "ok" => row' = Left(next')
      <3>1. Left(next') = Left(next)
        BY <1>2
      <3> QED BY <1>1, <1>2, <2>1, <3>1 DEF OutboxOK
    <2>5. \A q, p \in Request : Active(req'[q]) /\ Active(req'[p]) => q = p
      BY <2>1 DEF OutboxOK
    <2> QED BY <1>3, <2>2, <2>3, <2>4, <2>5 DEF OutboxOK
  <1> QED BY <1>5, <1>6

LEMMA OutboxAnswer ==
    ASSUME Core, OutboxOK, NEW r \in Request, Answer(r)
    PROVE  OutboxOK'
  <1>0. req[r] \in RequestType /\ Shape(req[r]) /\ next \in 1..(Event + 1)
    BY DEF Core, TypeOK, Shapes, RequestType
  <1> DEFINE ans == IF req[r].cmd = "dropped" THEN "SERVICE_UNAVAILABLE" ELSE req[r].cmd
             y == [req[r] EXCEPT !.handler = "answered", !.answer = ans, !.permit = "none"]
  <1>1. req' = [req EXCEPT ![r] = Settled(y)] /\ UNCHANGED <<queue, row>>
    BY DEF Answer, Answered
  <1>2. /\ y \in RequestType /\ y.handler = "answered" /\ y.cmd = req[r].cmd
        /\ y.kind = req[r].kind /\ y.ver = req[r].ver
    BY <1>0 DEF RequestType, Answers, Answer
  <1>3. next' = next \/ next' = Acked(r, ans)
    BY DEF Answer
  <1>4. CASE next' = next
    <2> HIDE DEF y
    <2> QED BY <1>1, <1>2, <1>4, OutboxEnded
  <1>5. CASE next' # next
    <2>1. /\ req[r].kind = "write" /\ req[r].ver = next /\ next' = next + 1
          /\ ans \in {"ok", "STALE_SOURCE_VERSION"}
      BY <1>3, <1>5 DEF Acked
    <2>2. Active(req[r]) /\ req[r].handler = "waiting" /\ req[r].cmd # "queued"
      BY <2>1 DEF Active, Answer
    <2>3. req[r].cmd = "ok" /\ row = Left(next) /\ next <= Event
      BY <2>1, <2>2 DEF OutboxOK, Answer
    <2>4. \A q \in Request \ {r} : req[q].kind # "write"
      BY <2>2 DEF OutboxOK
    <2>5. Settled(y).kind = "plain"
      <3> HIDE DEF y
      <3> QED BY <1>2, <2>2, SettledNotWrite
    <2>6. \A q \in Request : req'[q].kind # "write"
      <3>1. req'[r] = Settled(y) /\ \A q \in Request \ {r} : req'[q] = req[q]
        BY <1>1 DEF Core, TypeOK
      <3> QED BY <2>4, <2>5, <3>1
    <2>7. OutboxDelivered'
      <3>1. next' - 1 = next /\ row' = Left(next)
        BY <1>0, <1>1, <2>1, <2>3
      <3>2. Left(next' - 1) = Left(next)
        BY <3>1
      <3> QED BY <3>1, <3>2 DEF OutboxDelivered
    <2> QED BY <2>6, <2>7 DEF OutboxOK, Active
  <1> QED BY <1>4, <1>5

LEMMA OutboxRun ==
    ASSUME Core, OutboxOK, RunWrite
    PROVE  OutboxOK'
  <1> DEFINE r == Head(queue)
  <1>1. r \in Request /\ r = queue[1] /\ Len(queue) \in Nat \ {0} /\ queue' = Tail(queue)
    BY DEF RunWrite, Core, TypeOK
  <1>2. req[r].cmd = "queued"
    BY <1>1 DEF Core, QueueOK
  <1>3. req[r] \in RequestType /\ Shape(req[r]) /\ UNCHANGED next
    BY <1>1 DEF Core, TypeOK, Shapes, RequestType, RunWrite
  <1>4. /\ Len(queue') = Len(queue) - 1
        /\ \A i \in 1..Len(queue') : queue'[i] = queue[i + 1]
        /\ \A i \in 1..Len(queue) : queue[i] \in Request /\ (queue[i] = r <=> i = 1)
    <2>1. /\ Len(queue') = Len(queue) - 1
          /\ \A i \in 1..Len(queue') : queue'[i] = queue[i + 1]
      BY <1>1 DEF Core, TypeOK
    <2>2. \A i \in 1..Len(queue) : queue[i] \in Request /\ (queue[i] = r <=> i = 1)
      BY <1>1 DEF Core, QueueOK, TypeOK
    <2> QED BY <2>1, <2>2
  <1>5. CASE req[r].kind = "write"
    <2>1. next \in 1..Event /\ req[r].ver = next /\ row <= next /\ row \in Int
      BY <1>1, <1>5, RowBehind, WebAssumption DEF OutboxOK, Core, TypeOK
    <2>2. Effect(next) = [row |-> Left(next), cmd |-> "ok"]
      BY <2>1, LeftFacts
    <2>3. Ran(r, "ok") /\ row' = Left(next)
      BY <1>5, <2>1, <2>2 DEF RunWrite
    <2> DEFINE y == [req[r] EXCEPT !.cmd = "ok"]
    <2>4. /\ y \in RequestType /\ y.kind = "write" /\ y.ver = next /\ y.cmd = "ok"
          /\ y.handler = req[r].handler
      BY <1>3, <1>5, <2>1 DEF RequestType
    <2>5. req'[r] = Settled(y) /\ \A q \in Request \ {r} : req'[q] = req[q]
      BY <1>1, <2>3 DEF Ran, Core, TypeOK
    <2> HIDE DEF y
    <2>6. OutboxDelivered'
      <3>1. Left(next') = Left(next)
        BY <1>3
      <3> QED BY <1>3, <2>1, <2>3, <3>1 DEF OutboxDelivered
    <2>7. CASE req[r].handler = "waiting"
      <3>1. req'[r] = y /\ Active(req[r])
        BY <1>5, <2>4, <2>5, <2>7, SettledKeeps DEF Active
      <3>2. \A q \in Request \ {r} : ~Active(req[q]) /\ ~Pending(req[q])
        <4>1. \A q \in Request \ {r} : ~Active(req[q])
          BY <1>1, <3>1 DEF OutboxOK
        <4>2. \A j \in 1..Len(queue) : 1 < j => req[queue[j]].kind # "write"
          BY <1>1, <1>2, <2>7, <3>1 DEF OutboxOK
        <4>3. ASSUME NEW q \in Request \ {r}, Pending(req[q]) PROVE FALSE
          <5>1. PICK j \in 1..Len(queue) : queue[j] = q
            BY <4>3 DEF Core, QueueOK, Pending, Written
          <5> QED BY <1>1, <4>2, <4>3, <5>1 DEF Pending
        <4> QED BY <4>1, <4>3
      <3>3. \A q \in Request \ {r} : req[q].kind # "write"
        BY <3>2 DEF OutboxOK
      <3>4. \A q \in Request \ {r} : req'[q].kind # "write" /\ ~Active(req'[q]) /\ ~Pending(req'[q])
        BY <2>5, <3>3 DEF Active, Pending
      <3>5. Active(y) /\ ~Pending(y) /\ Left(next') = Left(next)
        BY <1>3, <2>4, <2>7 DEF Active, Pending
      <3> QED BY <1>1, <1>3, <2>1, <2>3, <2>4, <2>6, <3>1, <3>4, <3>5 DEF OutboxOK
    <2>8. CASE req[r].handler # "waiting"
      <3>1. req'[r].kind = "plain"
        BY <2>4, <2>5, <2>8, SettledNotWrite
      <3>2. ~Active(req'[r]) /\ ~Pending(req'[r])
        BY <3>1 DEF Active, Pending
      <3>3. ASSUME NEW q \in Request, Active(req'[q]), req'[q].handler = "waiting"
            PROVE  /\ req'[q].cmd # "queued" => \A p \in Request : ~Pending(req'[p])
                   /\ req'[q].cmd = "queued" =>
                         \A i, j \in 1..Len(queue') :
                             queue'[i] = q /\ i < j => req'[queue'[j]].kind # "write"
                   /\ req'[q].cmd \in {"queued", "ok", "dropped"}
                   /\ req'[q].cmd = "ok" => row' = Left(next')
        <4>1. q # r /\ req'[q] = req[q] /\ Active(req[q])
          BY <2>5, <3>2, <3>3
        <4>2. req[q].cmd = "queued"
          <5>1. Pending(req[r])
            BY <1>2, <1>5 DEF Pending
          <5> QED BY <1>1, <3>3, <4>1, <5>1 DEF OutboxOK
        <4>3. \A i, j \in 1..Len(queue') :
                  queue'[i] = q /\ i < j => req'[queue'[j]].kind # "write"
          <5> SUFFICES ASSUME NEW i \in 1..Len(queue'), NEW j \in 1..Len(queue'),
                              queue'[i] = q, i < j
                       PROVE  req'[queue'[j]].kind # "write"
            OBVIOUS
          <5>1. /\ i + 1 \in 1..Len(queue) /\ j + 1 \in 1..Len(queue) /\ i + 1 < j + 1
                /\ queue[i + 1] = q /\ queue[j + 1] = queue'[j]
            BY <1>1, <1>4
          <5>2. req[queue[j + 1]].kind # "write"
            BY <3>3, <4>1, <4>2, <5>1 DEF OutboxOK
          <5>3. queue'[j] \in Request \ {r}
            BY <1>1, <1>4, <5>1
          <5> QED BY <2>5, <5>1, <5>2, <5>3
        <4> QED BY <4>1, <4>2, <4>3
      <3>4. \A q \in Request : req'[q].kind = "write" =>
                /\ req'[q].ver = next' /\ next' <= Event
                /\ Active(req'[q]) \/ Pending(req'[q])
        BY <1>3, <2>5, <3>1 DEF OutboxOK
      <3>5. \A q, p \in Request : Active(req'[q]) /\ Active(req'[p]) => q = p
        BY <2>5, <3>2 DEF OutboxOK
      <3> QED BY <2>6, <3>3, <3>4, <3>5 DEF OutboxOK
    <2> QED BY <2>7, <2>8
  <1>6. CASE req[r].kind # "write"
    <2> DEFINE y == [req[r] EXCEPT !.cmd = "ok"]
    <2>1. /\ y \in RequestType /\ y.kind = req[r].kind
          /\ req' = [req EXCEPT ![r] = Settled(y)] /\ UNCHANGED row
      BY <1>3, <1>6 DEF RequestType, RunWrite, Ran
    <2>2. req'[r] = Settled(y) /\ \A q \in Request \ {r} : req'[q] = req[q]
      BY <1>1, <2>1 DEF Core, TypeOK
    <2> HIDE DEF y
    <2>3. req'[r].kind # "write"
      BY <1>6, <2>1, <2>2, SettledKeeps
    <2>4. ~Active(req'[r]) /\ ~Pending(req'[r])
      BY <2>3 DEF Active, Pending
    <2>5. OutboxDelivered' /\ Left(next') = Left(next)
      BY <1>3, <2>1 DEF OutboxOK, OutboxDelivered, Left
    <2>6. ASSUME NEW q \in Request, Active(req'[q]), req'[q].handler = "waiting"
          PROVE  /\ req'[q].cmd # "queued" => \A p \in Request : ~Pending(req'[p])
                 /\ req'[q].cmd = "queued" =>
                       \A i, j \in 1..Len(queue') :
                           queue'[i] = q /\ i < j => req'[queue'[j]].kind # "write"
                 /\ req'[q].cmd \in {"queued", "ok", "dropped"}
                 /\ req'[q].cmd = "ok" => row' = Left(next')
      <3>1. q # r /\ req'[q] = req[q] /\ Active(req[q])
        BY <2>2, <2>4, <2>6
      <3>2. req'[q].cmd # "queued" => \A p \in Request : ~Pending(req'[p])
        BY <2>2, <2>4, <2>6, <3>1 DEF OutboxOK
      <3>3. ASSUME req'[q].cmd = "queued", NEW i \in 1..Len(queue'), NEW j \in 1..Len(queue'),
                   queue'[i] = q, i < j
            PROVE  req'[queue'[j]].kind # "write"
        <4>1. /\ i + 1 \in 1..Len(queue) /\ j + 1 \in 1..Len(queue) /\ i + 1 < j + 1
              /\ queue[i + 1] = q /\ queue[j + 1] = queue'[j]
          BY <1>1, <1>4, <3>3
        <4>2. req[queue[j + 1]].kind # "write"
          BY <2>6, <3>1, <3>3, <4>1 DEF OutboxOK
        <4>3. queue'[j] \in Request
          BY <1>4, <4>1
        <4> QED BY <2>2, <2>3, <4>1, <4>2, <4>3
      <3>4. /\ req'[q].cmd \in {"queued", "ok", "dropped"}
            /\ req'[q].cmd = "ok" => row' = Left(next')
        BY <2>1, <2>5, <2>6, <3>1 DEF OutboxOK
      <3> QED BY <3>2, <3>3, <3>4
    <2>7. \A q \in Request : req'[q].kind = "write" =>
              /\ req'[q].ver = next' /\ next' <= Event
              /\ Active(req'[q]) \/ Pending(req'[q])
      BY <1>3, <2>2, <2>3 DEF OutboxOK
    <2>8. \A q, p \in Request : Active(req'[q]) /\ Active(req'[p]) => q = p
      BY <2>2, <2>4 DEF OutboxOK
    <2> QED BY <2>5, <2>6, <2>7, <2>8 DEF OutboxOK
  <1> QED BY <1>5, <1>6

LEMMA OutboxStop ==
    ASSUME Core, OutboxOK, Stop
    PROVE  OutboxOK'
  <1>0. \A q \in Request : req[q] \in RequestType /\ Shape(req[q])
    BY DEF Core, TypeOK, Shapes, RequestType
  <1>1. ASSUME NEW q \in Request
        PROVE  /\ ~Pending(req'[q])
               /\ req'[q].kind = "write" =>
                     /\ req[q].kind = "write" /\ req'[q].ver = req[q].ver /\ Active(req'[q])
               /\ Active(req'[q]) => Active(req[q])
               /\ Active(req'[q]) /\ req'[q].handler = "waiting" =>
                     /\ req[q].handler = "waiting" /\ req'[q].cmd \in {req[q].cmd, "dropped"}
                     /\ req'[q].cmd # "queued"
    <2>1. CASE req[q].cmd = "queued"
      <3> DEFINE y == [req[q] EXCEPT !.cmd = "dropped"]
      <3>1. /\ y \in RequestType /\ y.kind = req[q].kind /\ y.ver = req[q].ver
            /\ y.handler = req[q].handler /\ y.cmd = "dropped"
        BY <1>0 DEF RequestType
      <3>2. req'[q] = Settled(y)
        BY <2>1 DEF Stop
      <3> HIDE DEF y
      <3>3. CASE req[q].handler = "waiting"
        <4>1. req'[q] = y
          BY <3>1, <3>2, <3>3, SettledKeeps
        <4> QED BY <3>1, <3>3, <4>1 DEF Active, Pending
      <3>4. CASE req[q].handler # "waiting"
        <4>1. req'[q].kind = "plain"
          BY <3>1, <3>2, <3>4, SettledNotWrite
        <4> QED BY <4>1 DEF Active, Pending
      <3> QED BY <3>3, <3>4
    <2>2. CASE req[q].cmd # "queued"
      <3>1. req'[q] = req[q]
        BY <2>2 DEF Stop
      <3> QED BY <2>2, <3>1 DEF OutboxOK, Pending
    <2> QED BY <2>1, <2>2
  <1>2. UNCHANGED <<next, row>> /\ OutboxDelivered' /\ Left(next') = Left(next)
    BY DEF Stop, OutboxOK, OutboxDelivered, Left
  <1>3. ASSUME NEW q \in Request, Active(req'[q]), req'[q].handler = "waiting"
        PROVE  /\ req'[q].cmd # "queued"
               /\ req'[q].cmd \in {"queued", "ok", "dropped"}
               /\ req'[q].cmd = "ok" => row' = Left(next')
    BY <1>1, <1>2, <1>3 DEF OutboxOK
  <1> QED BY <1>1, <1>2, <1>3 DEF OutboxOK

LEMMA OutboxInvariant ==
    ASSUME Core, OutboxOK, [Next]_vars
    PROVE  OutboxOK'
  <1>0. \A r \in Request : req[r] \in RequestType /\ Shape(req[r])
    BY DEF Core, TypeOK, Shapes, RequestType
  <1>1. ASSUME NEW r \in Request, NEW k \in {"login", "plain", "other", "maintain", "read"},
               NEW t, Arrives(r, k, 0, t), UNCHANGED <<queue, next, row>>
        PROVE  OutboxOK'
    <2> DEFINE x == [Idle EXCEPT !.handler = "checked", !.kind = k, !.ver = 0, !.tok = t]
    <2>1. x.kind # "write" /\ req' = [req EXCEPT ![r] = x]
      BY <1>1 DEF Arrives, Idle
    <2> HIDE DEF x
    <2> QED BY <1>1, <2>1, OutboxOne
  <1>2. ASSUME NEW r \in Request,
               Login(r) \/ Sql(r) \/ SaveSnapshot(r) \/ ImportParquet(r) \/ CreateVectorIndex(r)
                   \/ IndexMaintenance(r) \/ IndexStatus(r) \/ Search(r)
        PROVE  OutboxOK'
    <2>1. \E k \in {"login", "plain", "other", "maintain", "read"}, t \in Token \cup {"none"} :
              Arrives(r, k, 0, t)
      BY <1>2 DEF Login, Sql, SaveSnapshot, ImportParquet, CreateVectorIndex, IndexMaintenance,
         IndexStatus, BySession, Search
    <2>2. UNCHANGED <<queue, next, row>>
      BY <1>2 DEF Login, Sql, SaveSnapshot, ImportParquet, CreateVectorIndex, IndexMaintenance,
         IndexStatus, BySession, Search
    <2> QED BY <1>1, <2>1, <2>2
  <1>3. ASSUME NEW r \in Request, Deliver(r) PROVE OutboxOK'
    BY <1>3, OutboxDeliver
  <1>4. ASSUME NEW r \in Request, Acquire(r) PROVE OutboxOK'
    <2>1. CASE free > 0
      <3> DEFINE x == [req[r] EXCEPT !.handler = "admitted", !.permit = "handler"]
      <3>1. /\ req' = [req EXCEPT ![r] = x] /\ x.handler = "admitted"
            /\ x.kind = req[r].kind /\ x.ver = req[r].ver /\ x.cmd = req[r].cmd
        BY <1>0, <1>4, <2>1 DEF Acquire, RequestType
      <3> HIDE DEF x
      <3> QED BY <1>4, <3>1, OutboxOne DEF Acquire, Active, Pending
    <2>2. CASE ~(free > 0)
      <3> DEFINE y == [req[r] EXCEPT !.handler = "answered", !.answer = "RATE_LIMITED",
                                     !.permit = "none"]
      <3>1. req' = [req EXCEPT ![r] = Settled(y)]
        BY <1>4, <2>2 DEF Acquire, Answered
      <3>2. /\ y \in RequestType /\ y.handler = "answered"
            /\ y.kind = req[r].kind /\ y.ver = req[r].ver /\ y.cmd = req[r].cmd
        BY <1>0 DEF RequestType, Answers
      <3> HIDE DEF y
      <3> QED BY <1>4, <3>1, <3>2, OutboxEnded DEF Acquire
    <2> QED BY <2>1, <2>2
  <1>5. ASSUME NEW r \in Request, Submit(r) PROVE OutboxOK'
    <2>1. CASE Enqueues(r)
      BY <1>5, <2>1, OutboxSubmit
    <2>2. CASE Refused(r)
      <3> DEFINE code == IF up THEN "RATE_LIMITED" ELSE "SERVICE_UNAVAILABLE"
                 y == [req[r] EXCEPT !.handler = "answered", !.answer = code, !.permit = "none"]
      <3>1. req' = [req EXCEPT ![r] = Settled(y)] /\ UNCHANGED queue
        BY <2>2 DEF Refused, Answered
      <3>2. /\ y \in RequestType /\ y.handler = "answered"
            /\ y.kind = req[r].kind /\ y.ver = req[r].ver /\ y.cmd = req[r].cmd
        BY <1>0 DEF RequestType, Answers
      <3> HIDE DEF y
      <3> QED BY <1>5, <3>1, <3>2, OutboxEnded DEF Submit
    <2> QED BY <1>5, <2>1, <2>2 DEF Submit
  <1>6. ASSUME NEW r \in Request, Answer(r) PROVE OutboxOK'
    BY <1>6, OutboxAnswer
  <1>7. ASSUME NEW r \in Request, Timeout(r) PROVE OutboxOK'
    <2> DEFINE y == [req[r] EXCEPT !.handler = "answered", !.answer = "REQUEST_TIMEOUT",
                                   !.permit = "task"]
    <2>1. req' = [req EXCEPT ![r] = Settled(y)]
      BY <1>7 DEF Timeout, Answered
    <2>2. /\ y \in RequestType /\ y.handler = "answered"
          /\ y.kind = req[r].kind /\ y.ver = req[r].ver /\ y.cmd = req[r].cmd
      BY <1>0 DEF RequestType, Answers
    <2> HIDE DEF y
    <2> QED BY <1>7, <2>1, <2>2, OutboxEnded DEF Timeout
  <1>8. ASSUME NEW r \in Request, TaskEnds(r) PROVE OutboxOK'
    <2> DEFINE y == [req[r] EXCEPT !.permit = "none"]
    <2>1. req' = [req EXCEPT ![r] = Settled(y)]
      BY <1>8 DEF TaskEnds
    <2>2. /\ y \in RequestType /\ y.handler = "answered"
          /\ y.kind = req[r].kind /\ y.ver = req[r].ver /\ y.cmd = req[r].cmd
      BY <1>0, <1>8 DEF RequestType, TaskEnds, Shape
    <2> HIDE DEF y
    <2> QED BY <1>8, <2>1, <2>2, OutboxEnded DEF TaskEnds
  <1>9. ASSUME NEW r \in Request, Leave(r) PROVE OutboxOK'
    <2> DEFINE y == [req[r] EXCEPT !.handler = "answered", !.answer = "gone", !.permit = "none"]
    <2>1. req' = [req EXCEPT ![r] = Settled(y)]
      BY <1>9 DEF Leave
    <2>2. /\ y \in RequestType /\ y.handler = "answered"
          /\ y.kind = req[r].kind /\ y.ver = req[r].ver /\ y.cmd = req[r].cmd
      BY <1>0 DEF RequestType, Answers
    <2> HIDE DEF y
    <2> QED BY <1>9, <2>1, <2>2, OutboxEnded DEF Leave
  <1>10. ASSUME NEW r \in Request, RunRead(r) PROVE OutboxOK'
    <2> DEFINE y == [req[r] EXCEPT !.cmd = "ok"]
               x == Settled(y)
    <2>1. y \in RequestType /\ y.kind # "write"
      BY <1>0, <1>10 DEF RequestType, RunRead, Written
    <2>2. req' = [req EXCEPT ![r] = x]
      BY <1>10 DEF RunRead, Ran
    <2> HIDE DEF y
    <2>3. x.kind # "write"
      BY <2>1, SettledKeeps
    <2> HIDE DEF x
    <2> QED BY <1>10, <2>2, <2>3, OutboxOne DEF RunRead
  <1>11. ASSUME RunWrite PROVE OutboxOK'
    BY <1>11, OutboxRun
  <1>12. ASSUME Stop PROVE OutboxOK'
    BY <1>12, OutboxStop
  <1>13. ASSUME NEW t \in Token, Logout(t) PROVE OutboxOK'
    BY <1>13 DEF Logout, OutboxOK, OutboxDelivered, Active, Pending, Left
  <1>14. CASE UNCHANGED vars
    BY <1>14 DEF vars, OutboxOK, OutboxDelivered, Active, Pending, Left
  <1> QED BY <1>2, <1>3, <1>4, <1>5, <1>6, <1>7, <1>8, <1>9, <1>10, <1>11, <1>12, <1>13,
     <1>14 DEF Next

-----------------------------------------------------------------------------
(***************************************************************************)
(* Theorems                                                                *)
(***************************************************************************)
LEMMA CoreInvariant ==
    ASSUME Core, LoginOK, [Next]_vars
    PROVE  Core'
  <1>1. ASSUME NEW r \in Request, Login(r) PROVE Core'
    <2>1. PICK t \in Token \ issued : Arrives(r, "login", 0, t) /\ issued' = issued \cup {t}
      BY <1>1 DEF Login
    <2>2. issued' \subseteq Token /\ 0 \in 0..Event /\ "login" \in Plain
      BY <2>1, WebAssumption DEF Core, TypeOK, Plain
    <2> QED BY <1>1, <2>1, <2>2, ArriveStep DEF Login
  <1>2. ASSUME NEW r \in Request,
               Sql(r) \/ SaveSnapshot(r) \/ ImportParquet(r) \/ CreateVectorIndex(r)
                   \/ IndexMaintenance(r) \/ IndexStatus(r) \/ Search(r)
                   \/ Deliver(r)
        PROVE  Core'
    <2>1. \E k \in {"plain", "other", "maintain", "read", "write"}, v \in 0..Event : Arrives(r, k, v, "none")
      <3>1. 0 \in 0..Event /\ (next <= Event => next \in 0..Event)
        BY WebAssumption DEF Core, TypeOK
      <3> QED BY <1>2, <3>1 DEF Sql, SaveSnapshot, ImportParquet, CreateVectorIndex,
         IndexMaintenance, IndexStatus, BySession,
                                Search, Deliver
    <2>2. UNCHANGED <<session, issued, out, free, queue, up, next, row>>
      BY <1>2 DEF Sql, SaveSnapshot, ImportParquet, CreateVectorIndex, IndexMaintenance,
         IndexStatus, BySession, Search, Deliver
    <2>3. {"plain", "other", "maintain", "read", "write"} \subseteq Plain \cup Vector
      BY DEF Plain, Vector
    <2>4. issued' \subseteq Token
      BY <2>2 DEF Core, TypeOK
    <2> QED BY <2>1, <2>2, <2>3, <2>4, ArriveStep
  <1>3. CASE UNCHANGED vars
    BY <1>3 DEF vars, Core, TypeOK, Shapes, QueueOK, PermitsConserved, Holders
  <1> QED BY <1>1, <1>2, <1>3, AcquireStep, SubmitStep, AnswerStep, TimeoutStep, TaskEndsStep,
             LeaveStep, RunReadStep, RunWriteStep, StopStep, LogoutStep DEF Next

IInv == Core /\ LoginOK /\ LogoutFinal /\ OutboxOK

LEMMA LogoutInvariant ==
    ASSUME IInv, [Next]_vars
    PROVE  LogoutFinal'
  <1>1. CASE UNCHANGED <<session, out>>
    BY <1>1 DEF IInv, LogoutFinal
  <1>2. ASSUME NEW t \in Token, Logout(t) PROVE LogoutFinal'
    BY <1>2 DEF IInv, LogoutFinal, Logout
  <1>3. ASSUME NEW r \in Request, Answer(r) PROVE LogoutFinal'
    BY <1>3 DEF IInv, LogoutFinal, LoginOK, Answer
  <1> QED BY <1>1, <1>2, <1>3 DEF Next, vars, Login, Sql, SaveSnapshot, ImportParquet,
             CreateVectorIndex, IndexMaintenance, IndexStatus, BySession, Search, Deliver, Acquire, Submit, Timeout, TaskEnds,
             Leave, RunRead, RunWrite, Stop

LEMMA Initially == Init => IInv
  <1> SUFFICES ASSUME Init PROVE IInv
    OBVIOUS
  <1>1. TypeOK
    BY WebAssumption DEF Init, TypeOK, Idle, Plain, Answers
  <1>2. Shapes /\ QueueOK /\ LoginOK /\ LogoutFinal
    BY DEF Init, Shapes, Shape, QueueOK, LoginOK, LogoutFinal, Idle
  <1>3. PermitsConserved
    <2>1. Holders = {}
      BY DEF Init, Holders, Idle
    <2> QED BY <2>1, FS_EmptySet, WebAssumption DEF Init, PermitsConserved
  <1>4. OutboxOK
    <2>1. next - 1 = 0 /\ row = 0
      BY DEF Init
    <2>2. OutboxDelivered
      BY <2>1, LeftFacts DEF OutboxDelivered
    <2> QED BY <2>2 DEF Init, OutboxOK, Active, Pending, Idle
  <1> QED BY <1>1, <1>2, <1>3, <1>4 DEF IInv, Core

\* The inductive invariant of the handlers, the queue and the consumer.
THEOREM Invariant == Spec => []IInv
  <1>1. IInv /\ [Next]_vars => IInv'
    BY CoreInvariant, LoginInvariant, LogoutInvariant, OutboxInvariant DEF IInv
  <1> QED BY <1>1, Initially, PTL DEF Spec

\* What the vector API has in the engine is covered by permits.
LEMMA Bounded ==
    ASSUME IInv
    PROVE  WorkBounded
  <1> DEFINE W == {r \in Queued : req[r].kind \in Vector /\ req[r].answer # "gone"}
  <1>1. W \subseteq Holders
    BY DEF IInv, Core, Shapes, Shape, Queued, Holders
  <1>2. IsFiniteSet(Holders) /\ Cardinality(Holders) \in Nat
    BY HoldersFinite
  <1>3. Cardinality(W) <= Cardinality(Holders)
    BY <1>1, <1>2, FS_Subset
  <1>4. IsFiniteSet(W) /\ Cardinality(W) \in Nat
    BY <1>1, <1>2, FS_Subset, FS_CardinalityType
  <1> HIDE DEF W
  <1>5. Cardinality(W) <= Limit
    BY <1>2, <1>3, <1>4, WebAssumption DEF IInv, Core, PermitsConserved, TypeOK
  <1> QED BY <1>5 DEF W, WorkBounded

\* The types of the state of the web server (src/server/web.rs:118).
THEOREM TypesHold == Spec => []TypeOK
  BY Invariant, PTL DEF IInv, Core

\* Permits are neither lost nor made, on any path of run_vector_request.
THEOREM PermitsHold == Spec => []PermitsConserved
  BY Invariant, PTL DEF IInv, Core

\* max_concurrent_requests bounds the vector commands in the engine of clients that
\* are still there or were told REQUEST_TIMEOUT.
THEOREM WorkIsBounded == Spec => []WorkBounded
  BY Invariant, Bounded, PTL

\* RATE_LIMITED is only said of a command that was never queued, and success only of
\* one that ran.
THEOREM AnswersTrue == Spec => [](RefusedNotRun /\ AnsweredRan)
  <1>1. IInv => RefusedNotRun /\ AnsweredRan
    BY DEF IInv, Core, Shapes, Shape, RefusedNotRun, AnsweredRan
  <1> QED BY <1>1, Invariant, PTL

\* The consumer that retries until it is acknowledged loses and undoes no event.
THEOREM OutboxHolds == Spec => []OutboxDelivered
  BY Invariant, PTL DEF IInv, OutboxOK

\* A session token that was logged out never works again.
THEOREM LogoutHolds == Spec => []LogoutFinal
  BY Invariant, PTL DEF IInv
=============================================================================
