-------------------------- MODULE MySqlSessionProofs --------------------------
(***************************************************************************)
(* Proofs about MySqlSession: whatever statements, databases and ids there *)
(* are, and however many packets without an answer are on their way, the   *)
(* client and the server stay in step, and a handle runs the statement it  *)
(* is for, until the client sends COM_STMT_SEND_LONG_DATA.                 *)
(*                                                                         *)
(* The inductive invariant says where the command the client waits for is: *)
(* behind packets that are not answered, in the engine, answered, or lost  *)
(* with the connection; and that the session's database is the client's.   *)
(* Book, the second one, relates the handles of the client to the table of *)
(* statements of the session.                                              *)
(***************************************************************************)
EXTENDS MySqlSession, TLAPS, SequenceTheorems

(* Packets that get no answer.                                             *)
Unanswered == {"close", "empty"}
Quiet(q) == \E S : q \in Seq(S) /\ \A c \in S : c.op \in Unanswered

Resting == waits = None /\ answers = <<>> /\ job = None /\ Quiet(sent)
Coming == /\ waits # None /\ waits.op \notin Unanswered /\ answers = <<>> /\ job = None
          /\ \E q : Quiet(q) /\ sent = Append(q, waits)
Asked == /\ waits # None /\ answers = <<>> /\ job # None /\ job.of = waits /\ sent = <<>>
         /\ waits.op \in {"login", "query", "execute", "prepare"}
         /\ waits.op = "login" => job.op = "authenticate"
         /\ waits.op = "prepare" => job.op = "describe"
         /\ waits.op \in {"query", "execute"} => job.op = waits.op
Answered == /\ waits # None /\ job = None /\ sent = <<>>
            /\ \E a : /\ answers = <<a>> /\ a.to = waits
                      /\ waits.op = "database" => a.database = chosen
                      /\ waits.op = "init_db" => a.ok
Lost == waits # None /\ answers = <<>> /\ job = None /\ phase = "closed"

Greets == /\ waits = None => sent = <<>> /\ chosen = Nothing
          /\ waits # None => waits.op = "login" /\ (job = None => sent = <<waits>>)
          /\ job # None => job.op = "authenticate"

Chosen == IF answers # <<>> /\ waits.op = "init_db" THEN waits.database ELSE chosen

InStep == /\ Resting \/ Coming \/ Asked \/ Answered \/ Lost
          /\ phase = "greeting" => Greets
          /\ phase = "closed" => job = None
          /\ phase = "loop" => /\ session.database = Chosen
                               /\ job # None => job.op # "authenticate"
                               /\ chosen # Nothing
          /\ waits.op = "login" => waits.database = chosen
          /\ waits.op \in {"login", "init_db"} => waits.database # Nothing

IsSession(ss) == ss = [database |-> ss.database, statements |-> ss.statements, next |-> ss.next]

Shape == /\ IsSession(session)
         /\ phase \in {"greeting", "loop", "closed"}
         /\ gone => answers = <<>>

IInv == /\ Shape
        /\ ~gone /\ ~longData => InStep

-----------------------------------------------------------------------------
LEMMA QuietEmpty == Quiet(<<>>)
<1> DEFINE S == {[op |-> "close"]}
<1>1. <<>> \in Seq(S) /\ \A c \in S : c.op \in Unanswered
  BY DEF Unanswered
<1> HIDE DEF S
<1> QED BY <1>1 DEF Quiet

LEMMA QuietAppend ==
  ASSUME NEW q, Quiet(q), NEW c, c.op \in Unanswered
  PROVE  Quiet(Append(q, c))
<1>1. PICK S : q \in Seq(S) /\ \A x \in S : x.op \in Unanswered
  BY DEF Quiet
<1>2. q \in Seq(S \union {c})
  BY <1>1
<1>3. Append(q, c) \in Seq(S \union {c})
  BY <1>2
<1> QED BY <1>1, <1>3 DEF Quiet

LEMMA QuietHead ==
  ASSUME NEW q, Quiet(q), q # <<>>
  PROVE  Head(q).op \in Unanswered /\ Quiet(Tail(q))
<1>1. PICK S : q \in Seq(S) /\ \A x \in S : x.op \in Unanswered
  BY DEF Quiet
<1>2. Head(q) \in S /\ Tail(q) \in Seq(S)
  BY <1>1
<1> QED BY <1>1, <1>2 DEF Quiet

LEMMA QuietThenOne ==
  ASSUME NEW q, Quiet(q), NEW c
  PROVE  /\ Append(q, c) # <<>>
         /\ q = <<>> => Append(q, c) = <<c>> /\ Head(Append(q, c)) = c /\ Tail(Append(q, c)) = <<>>
         /\ q # <<>> => /\ Head(Append(q, c)) = Head(q)
                        /\ Tail(Append(q, c)) = Append(Tail(q), c)
<1>1. PICK S : q \in Seq(S) /\ \A x \in S : x.op \in Unanswered
  BY DEF Quiet
<1> DEFINE T == S \union {c}
<1>2. q \in Seq(T) /\ c \in T
  BY <1>1
<1>3. Append(q, c) # <<>>
  <2>1. Len(Append(q, c)) = Len(q) + 1 /\ Len(q) \in Nat
    BY <1>2, AppendProperties, LenProperties
  <2> QED BY <2>1
<1>4. q = <<>> => Append(q, c) = <<c>> /\ Head(Append(q, c)) = c /\ Tail(Append(q, c)) = <<>>
  BY <1>2
<1>5. ASSUME q # <<>> PROVE Head(Append(q, c)) = Head(q) /\ Tail(Append(q, c)) = Append(Tail(q), c)
  BY <1>2, <1>5, HeadTailAppend
<1> QED BY <1>3, <1>4, <1>5

(* The command with an answer that the server reads is the awaited one.    *)
LEMMA ReadsTheAwaited ==
  ASSUME IInv, ~gone, ~longData, job = None, sent # <<>>, Head(sent).op \notin Unanswered,
         phase # "closed"
  PROVE  /\ waits # None /\ answers = <<>>
         /\ Head(sent) = waits /\ Tail(sent) = <<>>
<1>1. Resting \/ Coming
  BY DEF IInv, InStep, Resting, Coming, Asked, Answered, Lost
<1>2. ~Resting
  BY QuietHead DEF Resting
<1>3. PICK q : Quiet(q) /\ sent = Append(q, waits)
  BY <1>1, <1>2 DEF Coming
<1>4. q = <<>>
  BY <1>3, QuietHead, QuietThenOne
<1> QED BY <1>1, <1>2, <1>3, <1>4, QuietThenOne DEF Coming

-----------------------------------------------------------------------------
(* The connection of a client that has left; the shape of the session.     *)
LEMMA EndsKeepsShape == ASSUME Ends PROVE IsSession(session') /\ phase' = "closed"
BY DEF Ends, IsSession, NoSession

LEMMA WritesKeepsShape ==
  ASSUME Shape, NEW a, NEW ss, IsSession(ss), Writes(a, ss), UNCHANGED gone
  PROVE  Shape'
BY EndsKeepsShape DEF Shape, Writes, Delivered, IsSession

LEMMA AsksKeepsShape ==
  ASSUME Shape, NEW j, NEW ss, IsSession(ss), Asks(j, ss), UNCHANGED gone
  PROVE  Shape'
BY DEF Shape, Asks, IsSession

LEMMA ClientKeepsShape == ASSUME Shape, Client \/ Receive PROVE Shape'
<1>1. UNCHANGED server
  BY DEF Client, Receive, Leave, LogIn, SendSimple, SendInitDb, SendQuery, SendPrepare,
         SendExecute, SendReset, SendClose, SendLongData, SendEmpty, Sends, SendsUnanswered
<1>2. IsSession(session)' /\ phase' \in {"greeting", "loop", "closed"}
  BY <1>1 DEF Shape, server, IsSession
<1>3. gone' => answers' = <<>>
  BY DEF Shape, Client, Receive, Leave, LogIn, LoggedIn, Idle, SendSimple, SendInitDb, SendQuery,
         SendPrepare, SendExecute, SendReset, SendClose, SendLongData, SendEmpty, Sends,
         SendsUnanswered
<1> QED BY <1>2, <1>3 DEF Shape

LEMMA ServerKeepsShape == ASSUME Shape, Server PROVE Shape'
<1>0. UNCHANGED gone
  BY DEF Server, ReadLogin, ReadQuit, ReadMalformed, ReadSimple, ReadUnsupported, ReadInitDb,
         ReadDatabase, ReadQuery, ReadPrepare, ReadExecute, ReadReset, ReadClose, ReadEmpty, ReadEnd, Reads, client
<1> USE <1>0
<1>1. CASE ReadLogin
  <2>1. CASE Ends /\ UNCHANGED answers
    BY <2>1, EndsKeepsShape DEF Shape
  <2>2. ASSUME NEW a, WritesLast(a) PROVE Shape'
    BY <2>2, EndsKeepsShape DEF Shape, WritesLast, Delivered
  <2>3. ASSUME NEW j, Asks(j, session) PROVE Shape'
    BY <2>3, AsksKeepsShape DEF Shape
  <2> QED BY <1>1, <2>1, <2>2, <2>3 DEF ReadLogin
<1>2. CASE ReadQuit \/ ReadMalformed \/ ReadEnd
  BY <1>2, EndsKeepsShape DEF Shape, ReadQuit, ReadMalformed, ReadEnd
<1>3. CASE ReadSimple \/ ReadUnsupported \/ ReadDatabase
  BY <1>3, WritesKeepsShape DEF Shape, ReadSimple, ReadUnsupported, ReadDatabase
<1>4. CASE ReadInitDb
  <2>1. IsSession([session EXCEPT !.database = Head(sent).database])
    BY DEF Shape, IsSession
  <2> QED BY <1>4, <2>1, WritesKeepsShape DEF ReadInitDb
<1>5. CASE ReadQuery \/ ReadPrepare
  BY <1>5, AsksKeepsShape DEF Shape, ReadQuery, ReadPrepare
<1>6. CASE ReadExecute
  <2>1. \A i, ty : IsSession([session EXCEPT !.statements[i].types = ty])
    BY DEF Shape, IsSession
  <2>2. CASE Ends /\ UNCHANGED answers
    BY <2>2, EndsKeepsShape DEF Shape
  <2>3. ASSUME NEW j, NEW i, NEW ty, Asks(j, [session EXCEPT !.statements[i].types = ty]) PROVE Shape'
    BY <2>1, <2>3, AsksKeepsShape
  <2> QED BY <1>6, <2>2, <2>3 DEF ReadExecute
<1>7. CASE ReadReset
  <2>1. \A i : IsSession([session EXCEPT !.statements[i].types = Nothing])
    BY DEF Shape, IsSession
  <2> QED BY <1>7, <2>1, WritesKeepsShape DEF Shape, ReadReset
<1>8. CASE ReadClose \/ ReadEmpty
  BY <1>8 DEF Shape, IsSession, ReadClose, ReadEmpty, server
<1> QED BY <1>1, <1>2, <1>3, <1>4, <1>5, <1>6, <1>7, <1>8 DEF Server

LEMMA EngineKeepsShape == ASSUME Shape, EngineAnswers PROVE Shape'
<1>0. UNCHANGED gone
  BY DEF EngineAnswers, client
<1> USE <1>0
<1>1. CASE LoginAnswered
  <2>1. IsSession([session EXCEPT !.database = job.of.database])
    BY DEF Shape, IsSession
  <2> QED BY <1>1, <2>1, EndsKeepsShape DEF Shape, LoginAnswered, WritesLast, Delivered, IsSession
<1>2. CASE StatementAnswered
  BY <1>2, WritesKeepsShape DEF Shape, StatementAnswered
<1>3. CASE Described
  <2>1. \A st : IsSession(Prepared(session, session.next, st))
    BY DEF IsSession, Prepared
  <2> QED BY <1>3, <2>1, WritesKeepsShape, EndsKeepsShape DEF Shape, Described
<1> QED BY <1>1, <1>2, <1>3 DEF EngineAnswers

-----------------------------------------------------------------------------
(* The steps of the client                                                 *)

LEMMA SendKeepsInStep ==
  ASSUME IInv, ~longData, Idle, NEW c, Sends(c), c # None, c.op \notin Unanswered,
         chosen = Nothing => c.op = "login" /\ c.database = chosen',
         chosen # Nothing => c.op # "login" /\ UNCHANGED chosen,
         c.op \in {"login", "init_db"} => c.database # Nothing
  PROVE  IInv'
<1>1. Resting
  BY DEF IInv, InStep, Idle, Coming, Asked, Answered, Lost, Resting
<1>2. InStep /\ Shape'
  BY <1>1 DEF IInv, Idle, Shape, Sends, server, IsSession, Resting
<1>3. Coming'
  BY <1>1 DEF Sends, server, Coming, Resting
<1>4. phase = "greeting" => Greets'
  <2>1. phase = "greeting" => sent = <<>> /\ chosen = Nothing
    BY <1>1, <1>2 DEF InStep, Greets, Resting
  <2> QED BY <1>1, <2>1 DEF Greets, Sends, server, Resting
<1>5. phase = "loop" => session.database = Chosen'
  BY <1>1, <1>2 DEF InStep, Chosen, Sends, Resting
<1> QED BY <1>1, <1>2, <1>3, <1>4, <1>5 DEF IInv, InStep, Sends, server, Resting

LEMMA UnansweredKeepsInStep ==
  ASSUME IInv, LoggedIn, NEW c, c.op \in Unanswered, SendsUnanswered(c), UNCHANGED longData
  PROVE  IInv'
<1>1. Resting /\ InStep
  BY DEF IInv, InStep, LoggedIn, Idle, Coming, Asked, Answered, Lost, Resting
<1>2. Shape'
  BY DEF IInv, Shape, SendsUnanswered, server, IsSession
<1>3. Resting'
  BY <1>1, QuietAppend DEF SendsUnanswered, server, Resting
<1>4. phase # "greeting"
  BY <1>1 DEF InStep, Greets, LoggedIn, Resting
<1>5. phase = "loop" => session.database = Chosen'
  BY <1>1 DEF InStep, Chosen, SendsUnanswered, Resting
<1> QED BY <1>1, <1>2, <1>3, <1>4, <1>5 DEF IInv, InStep, SendsUnanswered, server, Resting, None

LEMMA ReceiveKeepsInStep == ASSUME IInv, ~longData, Receive PROVE IInv'
<1>1. Answered /\ InStep /\ Shape'
  BY ClientKeepsShape DEF IInv, InStep, Receive, Resting, Coming, Asked, Answered, Lost
<1>2. PICK a : /\ answers = <<a>> /\ a.to = waits
               /\ waits.op = "init_db" => a.ok
  BY <1>1 DEF Answered
<1>3. Head(answers) = a /\ Tail(answers) = <<>>
  BY <1>2
<1>4. Resting'
  BY <1>1, <1>3, QuietEmpty DEF Answered, Receive, server, Resting
<1>5. chosen' = Chosen
  BY <1>2, <1>3 DEF Receive, Chosen
<1>6. phase # "greeting" \/ Greets'
  BY <1>1, <1>2, <1>3, <1>5 DEF Receive, Greets, Answered, InStep, server
<1> QED BY <1>1, <1>4, <1>5, <1>6 DEF IInv, InStep, Receive, server, Chosen, Resting, None

LEMMA ClientKeepsInv == ASSUME IInv, Client \/ Receive PROVE IInv'
<1> USE DEF Unanswered
<1>0. CASE longData'
  BY <1>0, ClientKeepsShape DEF IInv
<1>1. CASE \E how \in {"good", "bad password", "other plugin", "malformed"} : LogIn(how)
  <2>1. First # Nothing
    BY SqlAssumption, NamesAssumption DEF Nothing
  <2>2. PICK how : LogIn(how)
    BY <1>1
  <2> DEFINE c == [op |-> "login", how |-> how, database |-> First]
  <2>3. /\ Idle /\ Sends(c) /\ chosen = Nothing /\ chosen' = First /\ UNCHANGED longData
        /\ c.op = "login" /\ c.database = First
    BY <2>2 DEF LogIn, Sends
  <2>4. c # None /\ c.op \notin Unanswered
    BY <2>3 DEF None
  <2> HIDE DEF c
  <2>5. CASE ~longData
    BY <2>1, <2>3, <2>4, <2>5, SendKeepsInStep
  <2> QED BY <1>0, <2>3, <2>5
<1>2. CASE \E op \in {"quit", "malformed", "ping", "set", "unsupported", "database"} : SendSimple(op)
  BY <1>0, <1>2, SendKeepsInStep DEF SendSimple, Sends, None
<1>3. CASE \E d \in Database : SendInitDb(d)
  BY <1>3, SendKeepsInStep, NamesAssumption DEF SendInitDb, LoggedIn, None, Nothing
<1>4. CASE \E q \in Sql : SendQuery(q) \/ SendPrepare(q)
  BY <1>4, SendKeepsInStep DEF SendQuery, SendPrepare, LoggedIn, None
<1>5. CASE \E h \in DOMAIN handles, bound \in Type \union {Nothing}, bits \in 0..(2 * Half - 1) :
             SendExecute(h, bound, bits)
  BY <1>5, SendKeepsInStep DEF SendExecute, LoggedIn, None
<1>6. CASE \E h \in DOMAIN handles : SendReset(h)
  BY <1>6, SendKeepsInStep DEF SendReset, LoggedIn, None
<1>7. CASE (\E h \in DOMAIN handles : SendClose(h)) \/ SendEmpty
  <2>1. ASSUME NEW h, SendClose(h) PROVE IInv'
    <3> DEFINE c == [op |-> "close", id |-> handles[h].id]
    <3>1. c.op \in Unanswered /\ LoggedIn /\ SendsUnanswered(c) /\ UNCHANGED longData
      BY <2>1 DEF SendClose
    <3> HIDE DEF c
    <3> QED BY <3>1, UnansweredKeepsInStep
  <2>2. ASSUME SendEmpty PROVE IInv'
    <3> DEFINE c == [op |-> "empty"]
    <3>1. c.op \in Unanswered /\ LoggedIn /\ SendsUnanswered(c) /\ UNCHANGED longData
      BY <2>2 DEF SendEmpty
    <3> HIDE DEF c
    <3> QED BY <3>1, UnansweredKeepsInStep
  <2> QED BY <1>7, <2>1, <2>2
<1>10. CASE \E h \in DOMAIN handles : SendLongData(h)
  BY <1>0, <1>10 DEF SendLongData
<1>8. CASE Leave
  BY <1>8, ClientKeepsShape DEF IInv, Leave, Client
<1>9. CASE Receive
  BY <1>0, <1>9, ReceiveKeepsInStep DEF Receive
<1> QED BY <1>1, <1>2, <1>3, <1>4, <1>5, <1>6, <1>7, <1>8, <1>9, <1>10 DEF Client

-----------------------------------------------------------------------------
(* The steps of the server and of the engine, for a client that is there   *)

LEMMA EndsKeepsInStep ==
  ASSUME InStep, Ends, UNCHANGED <<answers, client>>, waits # None, answers = <<>>
  PROVE  InStep'
BY DEF InStep, Ends, Lost, client

LEMMA WritesKeepsInStep ==
  ASSUME InStep, ~gone, phase = "loop", waits # None, answers = <<>>, sent' = <<>>, UNCHANGED client,
         NEW a, NEW ss, Writes(a, ss), a.to = waits,
         waits.op = "database" => a.database = chosen,
         waits.op = "init_db" => a.ok /\ ss.database = waits.database,
         waits.op # "init_db" => ss.database = chosen
  PROVE  InStep'
<1>1. answers' = <<a>> /\ phase' = "loop" /\ job' = None /\ session' = ss
  BY DEF Writes, Delivered
<1>2. Answered'
  BY <1>1 DEF Answered, client
<1>3. session'.database = Chosen'
  BY <1>1 DEF Chosen, client
<1> QED BY <1>1, <1>2, <1>3 DEF InStep, client

LEMMA AsksKeepsInStep ==
  ASSUME InStep, ~gone, phase = "loop", waits # None, answers = <<>>, sent' = <<>>, UNCHANGED client,
         NEW j, NEW ss, Asks(j, ss), j # None, j.of = waits,
         waits.op \in {"query", "execute", "prepare"},
         waits.op = "prepare" => j.op = "describe",
         waits.op \in {"query", "execute"} => j.op = waits.op,
         ss.database = session.database
  PROVE  InStep'
<1>1. Asked'
  BY DEF Asked, Asks, client
<1>2. session'.database = Chosen'
  BY DEF InStep, Chosen, Asks, client
<1> QED BY <1>1, <1>2 DEF InStep, Asks, client

LEMMA ServerKeepsInStep == ASSUME IInv, ~gone, ~longData, Server PROVE InStep'
<1>0. InStep /\ Shape /\ UNCHANGED client
  BY DEF IInv, Server, ReadLogin, ReadQuit, ReadMalformed, ReadSimple, ReadUnsupported, ReadInitDb,
         ReadDatabase, ReadQuery, ReadPrepare, ReadExecute, ReadReset, ReadClose, ReadEmpty, ReadEnd, Reads
<1>1. ASSUME NEW op, Reads(op), op \notin Unanswered
      PROVE  /\ waits # None /\ answers = <<>> /\ Head(sent) = waits /\ sent' = <<>>
             /\ phase = "loop" /\ waits.op = op /\ session.database = chosen
  <2>1. waits # None /\ answers = <<>> /\ Head(sent) = waits /\ Tail(sent) = <<>>
    BY <1>1, ReadsTheAwaited DEF Reads
  <2> QED BY <1>0, <1>1, <2>1 DEF Reads, InStep, Chosen
<1> DEFINE Ok == Answer(Head(sent), TRUE)
<1> USE DEF Unanswered
<1>2. CASE ReadLogin
  <2>1. sent # <<>> /\ job = None /\ phase = "greeting" /\ sent' = Tail(sent)
    BY <1>2 DEF ReadLogin
  <2>2. waits # None /\ waits.op = "login" /\ sent = <<waits>> /\ answers = <<>>
    BY <1>0, <2>1 DEF InStep, Greets, Resting, Coming, Asked, Answered, Lost
  <2>3. Head(sent) = waits /\ sent' = <<>>
    BY <2>1, <2>2
  <2>4. CASE Ends /\ UNCHANGED answers
    BY <1>0, <2>2, <2>4, EndsKeepsInStep DEF IInv
  <2>5. CASE WritesLast(Answer(Head(sent), FALSE))
    <3>1. Answered' /\ phase' = "closed" /\ job' = None
      BY <1>0, <2>2, <2>3, <2>5 DEF WritesLast, Ends, Delivered, Answer, Answered, client
    <3> QED BY <1>0, <3>1 DEF InStep, client
  <2>6. CASE Asks([op |-> "authenticate", of |-> Head(sent)], session)
    <3>1. Asked' /\ phase' = "greeting" /\ job'.op = "authenticate"
      BY <1>0, <2>1, <2>2, <2>3, <2>6 DEF Asks, Asked, None, client
    <3>2. Greets'
      BY <1>0, <2>2, <3>1 DEF Greets, Asked, client
    <3> QED BY <1>0, <3>1, <3>2 DEF InStep, client
  <2> QED BY <1>2, <2>4, <2>5, <2>6 DEF ReadLogin
<1>3. CASE ReadQuit \/ ReadMalformed
  BY <1>0, <1>1, <1>3, EndsKeepsInStep DEF ReadQuit, ReadMalformed
<1>4. CASE ReadSimple
  <2>1. PICK op \in {"ping", "set"} : Reads(op)
    BY <1>4 DEF ReadSimple
  <2> QED BY <1>0, <1>1, <1>4, <2>1, WritesKeepsInStep DEF ReadSimple, Answer
<1>5. CASE ReadUnsupported \/ ReadDatabase
  <2>1. PICK op \in {"unsupported", "long data", "database"} : Reads(op)
    BY <1>5 DEF ReadUnsupported, ReadDatabase
  <2> QED BY <1>0, <1>1, <1>5, <2>1, WritesKeepsInStep DEF ReadUnsupported, ReadDatabase, Answer, Reads
<1>6. CASE ReadInitDb
  <2>1. Reads("init_db")
    BY <1>6 DEF ReadInitDb
  <2>2. [session EXCEPT !.database = Head(sent).database].database = Head(sent).database
    BY <1>0 DEF Shape, IsSession
  <2>3. ASSUME NEW ss, ss.database = Head(sent).database, Writes(Ok, ss) PROVE InStep'
    BY <1>0, <1>1, <2>1, <2>3, WritesKeepsInStep DEF Answer
  <2> QED BY <1>6, <2>2, <2>3 DEF ReadInitDb
<1>7. CASE ReadQuery \/ ReadPrepare
  <2>1. ASSUME NEW op \in {"query", "prepare"}, Reads(op),
               NEW j, j # None, j.of = Head(sent), Asks(j, session),
               op = "prepare" => j.op = "describe", op = "query" => j.op = "query"
        PROVE  InStep'
    BY <1>0, <1>1, <2>1, AsksKeepsInStep
  <2>2. ASSUME NEW op, NEW c, NEW q, NEW d, NEW ty
        PROVE  LET j == [op |-> op, of |-> c, sql |-> q, database |-> d, param |-> ty]
               IN  j # None /\ j.of = c /\ j.op = op
    BY DEF None
  <2>3. CASE ReadQuery
    BY <2>1, <2>2, <2>3 DEF ReadQuery
  <2>4. CASE ReadPrepare
    BY <2>1, <2>2, <2>4 DEF ReadPrepare
  <2> QED BY <1>7, <2>3, <2>4
<1>8. CASE ReadExecute
  <2>1. Reads("execute")
    BY <1>8 DEF ReadExecute
  <2>2. \A i, ty : [session EXCEPT !.statements[i].types = ty].database = session.database
    BY <1>0 DEF Shape, IsSession
  <2>3. CASE Ends /\ UNCHANGED answers
    BY <1>0, <1>1, <2>1, <2>3, EndsKeepsInStep
  <2>4. ASSUME NEW q, NEW d, NEW i, NEW ty, NEW value,
               Asks([op |-> "execute", of |-> Head(sent), sql |-> q, database |-> d, param |-> value],
                    [session EXCEPT !.statements[i].types = ty])
        PROVE  InStep'
    <3> DEFINE j == [op |-> "execute", of |-> Head(sent), sql |-> q, database |-> d, param |-> value]
    <3>1. j # None /\ j.of = waits /\ j.op = "execute" /\ waits.op = "execute"
      BY <1>1, <2>1 DEF None
    <3> HIDE DEF j
    <3>2. Asks(j, [session EXCEPT !.statements[i].types = ty])
      BY <2>4 DEF j
    <3> QED BY <1>0, <1>1, <2>1, <2>2, <3>1, <3>2, AsksKeepsInStep
  <2> QED BY <1>8, <2>3, <2>4 DEF ReadExecute
<1>9. CASE ReadReset
  <2>1. Reads("reset")
    BY <1>9 DEF ReadReset
  <2>2. \A i : [session EXCEPT !.statements[i].types = Nothing].database = session.database
    BY <1>0 DEF Shape, IsSession
  <2>3. ASSUME NEW ss, ss.database = session.database, Writes(Ok, ss) PROVE InStep'
    BY <1>0, <1>1, <2>1, <2>3, WritesKeepsInStep DEF Answer
  <2> QED BY <1>9, <2>2, <2>3 DEF ReadReset
<1>10. CASE ReadClose \/ ReadEmpty
  <2>1. PICK op \in Unanswered : Reads(op) /\ UNCHANGED <<phase, job, answers>> /\ job = None
    BY <1>10 DEF ReadClose, ReadEmpty, Reads, server
  <2>2. session'.database = session.database
    BY <1>0, <1>10 DEF ReadClose, ReadEmpty, server, Shape, IsSession
  <2>3. Resting \/ Coming
    BY <1>0, <2>1 DEF Reads, InStep, Resting, Coming, Asked, Answered, Lost
  <2>4. CASE Resting
    <3>1. Resting'
      BY <1>0, <2>1, <2>4, QuietHead DEF Reads, Resting, client
    <3> QED BY <1>0, <2>1, <2>2, <2>4, <3>1 DEF InStep, Reads, Resting, Chosen, client
  <2>5. CASE Coming
    <3>1. PICK q : Quiet(q) /\ sent = Append(q, waits)
      BY <2>5 DEF Coming
    <3>2. waits.op \notin Unanswered
      BY <2>5 DEF Coming
    <3>3. q # <<>>
      BY <2>1, <3>1, <3>2, QuietThenOne DEF Reads
    <3>4. Quiet(Tail(q)) /\ sent' = Append(Tail(q), waits)
      BY <2>1, <3>1, <3>3, QuietHead, QuietThenOne DEF Reads
    <3>5. Coming'
      BY <1>0, <2>1, <2>5, <3>4 DEF Coming, client
    <3> QED BY <1>0, <2>1, <2>2, <2>5, <3>5 DEF InStep, Reads, Coming, Chosen, client
  <2> QED BY <2>3, <2>4, <2>5
<1>11. CASE ReadEnd
  BY <1>11 DEF ReadEnd
<1> QED BY <1>2, <1>3, <1>4, <1>5, <1>6, <1>7, <1>8, <1>9, <1>10, <1>11 DEF Server

LEMMA EngineKeepsInStep == ASSUME IInv, ~gone, ~longData, EngineAnswers PROVE InStep'
<1>1. InStep /\ Shape /\ UNCHANGED <<sent, client>>
  BY DEF IInv, EngineAnswers
<1>2. waits # None /\ answers = <<>> /\ job # None /\ job.of = waits /\ sent = <<>>
  BY <1>1 DEF EngineAnswers, InStep, Resting, Coming, Asked, Answered, Lost
<1>3. CASE LoginAnswered
  <2>1. answers' = <<Answer(job.of, TRUE)>> \/ answers' = <<Answer(job.of, FALSE)>>
    <3>1. Append(answers, Answer(job.of, TRUE)) = <<Answer(job.of, TRUE)>>
          /\ Append(answers, Answer(job.of, FALSE)) = <<Answer(job.of, FALSE)>>
      BY <1>2
    <3> QED BY <1>3, <3>1 DEF LoginAnswered, WritesLast, Delivered
  <2>2. job' = None
    BY <1>3 DEF LoginAnswered, WritesLast, Ends
  <2>3. waits.op = "login"
    BY <1>1, <1>2, <1>3 DEF LoginAnswered, InStep, Resting, Coming, Asked, Answered, Lost
  <2>4. Answered'
    BY <1>1, <1>2, <2>1, <2>2, <2>3 DEF Answered, Answer, client
  <2>5. phase' = "loop" => session'.database = Chosen' /\ chosen' # Nothing
    BY <1>1, <1>2, <1>3, <2>3 DEF LoginAnswered, WritesLast, Ends, InStep, Chosen, client, Shape, IsSession
  <2>6. phase' \in {"loop", "closed"}
    BY <1>3 DEF LoginAnswered, WritesLast, Ends
  <2> QED BY <1>1, <2>2, <2>4, <2>5, <2>6 DEF InStep, client
<1>4. ASSUME job.op \in {"query", "execute", "describe"}
      PROVE  phase = "loop" /\ waits.op \notin {"database", "init_db"} /\ session.database = chosen
  <2>1. Asked
    BY <1>1, <1>2 DEF InStep, Resting, Coming, Asked, Answered, Lost
  <2>2. waits.op \in {"query", "execute", "prepare"}
    BY <1>4, <2>1 DEF Asked
  <2>3. phase = "loop"
    BY <1>1, <1>2, <1>4, <2>2 DEF InStep, Greets, Shape
  <2> QED BY <1>1, <1>2, <2>2, <2>3 DEF InStep, Chosen
<1>5. CASE StatementAnswered
  BY <1>1, <1>2, <1>4, <1>5, WritesKeepsInStep DEF StatementAnswered, Answer
<1>6. CASE Described
  BY <1>1, <1>2, <1>4, <1>6, WritesKeepsInStep, EndsKeepsInStep DEF Described, Answer, Prepared
<1> QED BY <1>3, <1>5, <1>6 DEF EngineAnswers

-----------------------------------------------------------------------------
LEMMA Start == Init => IInv
<1> SUFFICES ASSUME Init PROVE IInv
  OBVIOUS
<1>1. Resting /\ Greets
  BY QuietEmpty DEF Init, Resting, Greets
<1>2. waits.op = "none"
  BY DEF Init, None
<1> QED BY <1>1, <1>2 DEF Init, IInv, Shape, InStep, IsSession, NoSession

LEMMA Inductive == IInv /\ [Next]_vars => IInv'
<1> SUFFICES ASSUME IInv, [Next]_vars PROVE IInv'
  OBVIOUS
<1>1. CASE Client \/ Receive
  BY <1>1, ClientKeepsInv
<1>2. CASE Server
  <2>1. UNCHANGED <<gone, longData>>
    BY <1>2 DEF Server, ReadLogin, ReadQuit, ReadMalformed, ReadSimple, ReadUnsupported, ReadInitDb,
         ReadDatabase, ReadQuery, ReadPrepare, ReadExecute, ReadReset, ReadClose, ReadEmpty, ReadEnd, Reads, client
  <2> QED BY <1>2, <2>1, ServerKeepsShape, ServerKeepsInStep DEF IInv
<1>3. CASE EngineAnswers
  BY <1>3, EngineKeepsShape, EngineKeepsInStep DEF IInv, EngineAnswers, client
<1>4. CASE UNCHANGED vars
  BY <1>4 DEF vars, server, client, IInv, Shape, InStep, IsSession, Resting, Coming, Asked, Answered, Lost, Greets, Chosen, Quiet
<1> QED BY <1>1, <1>2, <1>3, <1>4 DEF Next

(* IInv in every reachable state.                                          *)
THEOREM Invariance == Spec => []IInv
BY Start, Inductive, PTL DEF Spec

(* command.rs:19-77: no answer is one to another command than the client   *)
(* waits for, whatever it prepares, executes and closes, before it sends   *)
(* COM_STMT_SEND_LONG_DATA, and SELECT DATABASE() answers what it chose    *)
(* last at login or by COM_INIT_DB.                                        *)
THEOREM StaysInSync == Spec => []InSync
<1>1. IInv => InSync
  <2> SUFFICES ASSUME IInv, answers # <<>>, ~longData PROVE InSync
    BY DEF InSync
  <2>1. Answered
    BY DEF IInv, Shape, InStep, Resting, Coming, Asked, Answered, Lost
  <2>2. PICK a : answers = <<a>> /\ a.to = waits /\ (waits.op = "database" => a.database = chosen)
    BY <2>1 DEF Answered
  <2> QED BY <2>2 DEF InSync
<1> QED BY <1>1, Invariance, PTL

(* command.rs:25-77, 376-400: once logged in and idle, the session is in   *)
(* the database the client chose last at login or by COM_INIT_DB, before   *)
(* it sends COM_STMT_SEND_LONG_DATA.                                       *)
THEOREM SameDatabase ==
  Spec => [](phase = "loop" /\ ~gone /\ ~longData /\ waits = None => session.database = chosen)
<1>1. IInv => (phase = "loop" /\ ~gone /\ ~longData /\ waits = None => session.database = chosen)
  BY DEF IInv, InStep, Chosen, Resting, Coming, Asked, Answered, Lost
<1> QED BY <1>1, Invariance, PTL

-----------------------------------------------------------------------------
(* What a prepared statement runs.  The handles of the client are followed *)
(* from the answer of the server on; their ids run behind next, and two    *)
(* that are open have one id only when the ids have gone round.            *)

Handle ==
  [id : 1..MaxStatementId, sql : Sql, database : Database, types : Type \union {Nothing},
   open : {TRUE}] \union [open : {FALSE}]
Statement == [sql : Sql, database : Database, types : Code \union {Nothing}]

Preparing == waits.op = "prepare" /\ answers # <<>>
PreparedHandle == [id |-> Head(answers).id, sql |-> waits.sql, database |-> chosen,
                   types |-> Nothing, open |-> TRUE]
Known == IF Preparing THEN Append(handles, PreparedHandle) ELSE handles

(* The handle whose execution, with types of its own, is on its way.       *)
Binds == waits.op = "execute" /\ answers = <<>> /\ job = None /\ waits.bound # Nothing
Binding == IF Binds THEN waits.handle ELSE 0

Closes(q, id) == \E i \in 1..Len(q) : q[i] = [op |-> "close", id |-> id]

IdsFollow(H, next) ==
  \A h \in DOMAIN H :
    H[h].open /\ Len(H) + 1 - h < MaxStatementId =>
      \/ H[h].id + (Len(H) + 1 - h) = next
      \/ H[h].id + (Len(H) + 1 - h) = next + MaxStatementId

IdsApart(H) ==
  \A g, h \in DOMAIN H :
    H[g].open /\ H[h].open /\ H[g].id = H[h].id /\ g < h => h - g >= MaxStatementId

Shared(H, h) == \E g \in DOMAIN H : g # h /\ H[g].open /\ H[g].id = H[h].id

(* The table has the statement of a handle, if it has its id and no close  *)
(* of it is on its way, unless another open handle has the id as well.     *)
KeptOne(H, h, table, q, b) ==
  H[h].id \in DOMAIN table =>
    \/ Closes(q, H[h].id)
    \/ /\ table[H[h].id].sql = H[h].sql /\ table[H[h].id].database = H[h].database
       /\ table[H[h].id].types \in {Nothing, Coded(H[h].types)} \/ h = b

Kept(H, table, q, b) ==
  \A h \in DOMAIN H : H[h].open /\ ~Shared(H, h) => KeptOne(H, h, table, q, b)

Untyped(H) == \A h \in DOMAIN H : H[h].open /\ H[h].sql \notin ParamSql => H[h].types = Nothing

(* The command that is executed is about its handle, the job that is asked *)
(* about the command.                                                      *)
ExecuteOf(h) ==
  /\ h \in DOMAIN handles /\ handles[h].open
  /\ waits.id = handles[h].id /\ waits.types = handles[h].types
  /\ waits.bound \in {Nothing, waits.types}
  /\ waits.bound # Nothing => handles[h].sql \in ParamSql
JobOf(h) ==
  job # None /\ ~Shared(handles, h) =>
    /\ job.sql = handles[h].sql /\ job.database = handles[h].database
    /\ job.param = Decoded(Coded(waits.types), waits.bits)

Commands ==
  /\ waits.op = "execute" => ExecuteOf(waits.handle) /\ JobOf(waits.handle)
  /\ waits.op \in {"query", "prepare"} /\ job # None => job.sql = waits.sql /\ job.database = chosen

Names ==
  /\ chosen \in Database \union {Nothing}
  /\ waits.op \in {"login", "init_db"} => waits.database \in Database
  /\ waits.op = "prepare" => waits.sql \in Sql
  /\ waits = None \/ waits.op # "none"

Table ==
  /\ session.next \in 1..MaxStatementId
  /\ \A i \in DOMAIN session.statements : session.statements[i] \in Statement

Handles ==
  /\ Known \in Seq(Handle) /\ handles \in Seq(Handle)
  /\ Preparing => Head(answers).ok
  /\ IdsFollow(Known, session.next) /\ IdsApart(Known) /\ Untyped(Known)
  /\ Kept(Known, session.statements, sent, Binding)

Book == ~gone /\ ~longData /\ phase # "closed" => Names /\ Table /\ Handles /\ Commands

LEMMA CodedTyped ==
  ASSUME NEW t \in Type \union {Nothing}
  PROVE  Coded(t) \in Code \union {Nothing} /\ (Coded(t) = Nothing <=> t = Nothing)
BY TypeAssumption, NamesAssumption DEF Coded, Nothing

LEMMA OpenHandle ==
  ASSUME NEW H \in Seq(Handle), NEW h \in DOMAIN H, H[h].open
  PROVE  /\ h \in 1..Len(H) /\ Len(H) \in Nat
         /\ H[h] \in [id : 1..MaxStatementId, sql : Sql, database : Database,
                      types : Type \union {Nothing}, open : {TRUE}]
         /\ H[h].id \in 1..MaxStatementId
<1>1. H[h] \in Handle /\ h \in 1..Len(H) /\ Len(H) \in Nat
  OBVIOUS
<1>2. H[h] \notin [open : {FALSE}]
  OBVIOUS
<1>3. H[h] \in [id : 1..MaxStatementId, sql : Sql, database : Database,
                types : Type \union {Nothing}, open : {TRUE}]
  BY <1>1, <1>2 DEF Handle
<1> QED BY <1>1, <1>3

(* A new handle has the next id, and what had it before shares it.         *)
LEMMA NewHandle ==
  ASSUME NEW H \in Seq(Handle), NEW next \in 1..MaxStatementId, NEW r \in Handle,
         r.open, r.id = next, IdsFollow(H, next), IdsApart(H)
  PROVE  /\ Append(H, r) \in Seq(Handle)
         /\ IdsFollow(Append(H, r), NextId(next)) /\ NextId(next) \in 1..MaxStatementId
         /\ IdsApart(Append(H, r))
<1> DEFINE G == Append(H, r)
           n == Len(H)
<1>1. /\ n \in Nat /\ G \in Seq(Handle) /\ Len(G) = n + 1 /\ DOMAIN G = 1..(n + 1)
      /\ DOMAIN H = 1..n /\ G[n + 1] = r /\ \A i \in 1..n : G[i] = H[i]
  OBVIOUS
<1>2. /\ MaxStatementId \in Nat \ {0}
      /\ NextId(next) \in 1..MaxStatementId
      /\ NextId(next) = next + 1 \/ (NextId(next) = 1 /\ next = MaxStatementId)
  BY NumberAssumption DEF NextId
<1> HIDE DEF G, n
<1>3. ASSUME NEW h \in 1..n, H[h].open, n + 1 - h < MaxStatementId
      PROVE  /\ H[h].id \in 1..MaxStatementId
             /\ \/ H[h].id + (n + 1 - h) = next
                \/ H[h].id + (n + 1 - h) = next + MaxStatementId
  BY <1>1, <1>3, OpenHandle DEF IdsFollow, n
<1>4. IdsFollow(G, NextId(next))
  <2> SUFFICES ASSUME NEW h \in 1..(n + 1), G[h].open, n + 2 - h < MaxStatementId
               PROVE  \/ G[h].id + (n + 2 - h) = NextId(next)
                      \/ G[h].id + (n + 2 - h) = NextId(next) + MaxStatementId
    BY <1>1 DEF IdsFollow
  <2>1. CASE h = n + 1
    BY <1>1, <1>2, <2>1
  <2>2. CASE h \in 1..n
    <3>1. /\ H[h].id \in 1..MaxStatementId
          /\ \/ H[h].id + (n + 1 - h) = next
             \/ H[h].id + (n + 1 - h) = next + MaxStatementId
      BY <1>1, <1>2, <1>3, <2>2
    <3>2. ASSUME NEW i \in 1..MaxStatementId, NEW k \in Nat, k + 1 < MaxStatementId,
                 i + k = next \/ i + k = next + MaxStatementId
          PROVE  i + (k + 1) = NextId(next) \/ i + (k + 1) = NextId(next) + MaxStatementId
      BY <1>2, <3>2
    <3>3. n + 1 - h \in Nat /\ n + 2 - h = (n + 1 - h) + 1 /\ G[h] = H[h]
      BY <1>1, <2>2
    <3> QED BY <3>1, <3>2, <3>3
  <2> QED BY <1>1, <2>1, <2>2
<1>5. IdsApart(G)
  <2> SUFFICES ASSUME NEW g \in 1..(n + 1), NEW h \in 1..(n + 1), g < h,
                      G[g].open, G[h].open, G[g].id = G[h].id
               PROVE  h - g >= MaxStatementId
    BY <1>1 DEF IdsApart
  <2>1. CASE h \in 1..n
    BY <1>1, <2>1 DEF IdsApart
  <2>2. CASE h = n + 1
    <3>1. g \in 1..n /\ H[g].open /\ H[g].id = next
      BY <1>1, <2>2
    <3> QED BY <1>1, <1>2, <1>3, <2>2, <3>1
  <2> QED BY <1>1, <2>1, <2>2
<1> QED BY <1>1, <1>2, <1>4, <1>5 DEF G

(* Closing a handle, or giving it types, leaves the ids in order.          *)
LEMMA SameIds ==
  ASSUME NEW H \in Seq(Handle), NEW G \in Seq(Handle), NEW next, Len(G) = Len(H),
         \A h \in DOMAIN G : G[h].open => H[h].open /\ G[h].id = H[h].id,
         IdsFollow(H, next), IdsApart(H)
  PROVE  IdsFollow(G, next) /\ IdsApart(G)
<1>1. DOMAIN G = DOMAIN H
  OBVIOUS
<1> QED BY <1>1 DEF IdsFollow, IdsApart

LEMMA NotShared ==
  ASSUME handles \in Seq(Handle), IdsApart(handles), NEW h \in DOMAIN handles, handles[h].open,
         ~WentRound(h)
  PROVE  ~Shared(handles, h)
<1> SUFFICES ASSUME NEW g \in DOMAIN handles, g # h, handles[g].open, handles[g].id = handles[h].id
             PROVE  FALSE
  BY DEF Shared
<1>1. g \in Nat /\ h \in Nat /\ DOMAIN handles = 1..Len(handles)
  OBVIOUS
<1> QED BY <1>1 DEF IdsApart, WentRound

LEMMA ClosesAppend ==
  ASSUME NEW S, NEW q \in Seq(S), NEW c, NEW id
  PROVE  /\ Closes(q, id) => Closes(Append(q, c), id)
         /\ c = [op |-> "close", id |-> id] => Closes(Append(q, c), id)
<1> DEFINE T == S \union {c}
<1>1. q \in Seq(T) /\ c \in T
  OBVIOUS
<1> HIDE DEF T
<1>2. /\ Len(q) \in Nat /\ Len(Append(q, c)) = Len(q) + 1 /\ Append(q, c)[Len(q) + 1] = c
      /\ \A i \in 1..Len(q) : Append(q, c)[i] = q[i]
  BY <1>1
<1> QED BY <1>2 DEF Closes

LEMMA ClosesTail ==
  ASSUME NEW S, NEW q \in Seq(S), q # <<>>, NEW id, Closes(q, id)
  PROVE  Head(q) = [op |-> "close", id |-> id] \/ Closes(Tail(q), id)
<1>1. PICK i \in 1..Len(q) : q[i] = [op |-> "close", id |-> id]
  BY DEF Closes
<1>2. CASE i = 1
  BY <1>1, <1>2
<1>3. CASE i # 1
  <2>1. i - 1 \in 1..Len(Tail(q)) /\ Tail(q)[i - 1] = q[i]
    BY <1>3
  <2> QED BY <1>1, <2>1 DEF Closes
<1> QED BY <1>2, <1>3

LEMMA KeptTail ==
  ASSUME NEW S, NEW q \in Seq(S), q # <<>>, Head(q).op # "close",
         NEW H, NEW table, NEW b, Kept(H, table, q, b)
  PROVE  Kept(H, table, Tail(q), b)
<1>1. \A id : Closes(q, id) => Closes(Tail(q), id)
  <2> SUFFICES ASSUME NEW id, Closes(q, id) PROVE Closes(Tail(q), id)
    OBVIOUS
  <2>1. Head(q) # [op |-> "close", id |-> id]
    OBVIOUS
  <2> QED BY <2>1, ClosesTail
<1> QED BY <1>1 DEF Kept, KeptOne

LEMMA KeptAppend ==
  ASSUME NEW S, NEW q \in Seq(S), NEW c, NEW H, NEW table, NEW b, Kept(H, table, q, b)
  PROVE  Kept(H, table, Append(q, c), b)
<1>1. \A id : Closes(q, id) => Closes(Append(q, c), id)
  BY ClosesAppend
<1> QED BY <1>1 DEF Kept, KeptOne

(* The table without an id a close asked for.                              *)
LEMMA KeptWithout ==
  ASSUME NEW S, NEW q \in Seq(S), q # <<>>, NEW H, NEW table, NEW b, Kept(H, table, q, b)
  PROVE  Kept(H, [i \in DOMAIN table \ {Head(q).id} |-> table[i]], Tail(q), b)
<1> DEFINE new == [i \in DOMAIN table \ {Head(q).id} |-> table[i]]
<1> SUFFICES ASSUME NEW h \in DOMAIN H, H[h].open, ~Shared(H, h), H[h].id \in DOMAIN new
             PROVE  KeptOne(H, h, new, Tail(q), b)
  BY DEF Kept, KeptOne
<1>1. H[h].id \in DOMAIN table /\ H[h].id # Head(q).id /\ new[H[h].id] = table[H[h].id]
  OBVIOUS
<1>2. KeptOne(H, h, table, q, b)
  BY DEF Kept
<1>3. Head(q) # [op |-> "close", id |-> H[h].id]
  BY <1>1
<1>4. Closes(q, H[h].id) => Closes(Tail(q), H[h].id)
  BY <1>3, ClosesTail
<1> HIDE DEF new
<1> QED BY <1>1, <1>2, <1>4 DEF KeptOne

LEMMA KeptReset ==
  ASSUME NEW H, NEW table, NEW q, NEW b, NEW i \in DOMAIN table, table[i] \in Statement,
         Kept(H, table, q, b)
  PROVE  Kept(H, [table EXCEPT ![i] = [table[i] EXCEPT !.types = Nothing]], q, b)
<1> DEFINE new == [table EXCEPT ![i] = [table[i] EXCEPT !.types = Nothing]]
<1>1. /\ DOMAIN new = DOMAIN table
      /\ \A j \in DOMAIN table : /\ new[j].sql = table[j].sql /\ new[j].database = table[j].database
                                 /\ new[j].types \in {Nothing, table[j].types}
  BY DEF Statement
<1> HIDE DEF new
<1>2. ASSUME NEW h \in DOMAIN H, KeptOne(H, h, table, q, b)
      PROVE  KeptOne(H, h, new, q, b)
  BY <1>1, <1>2 DEF KeptOne
<1>3. Kept(H, new, q, b)
  BY <1>2 DEF Kept
<1> QED BY <1>3 DEF new

(* A described statement is that of the new handle.                        *)
LEMMA KeptPrepared ==
  ASSUME NEW H \in Seq(Handle), NEW table, NEW q, NEW r \in Handle, r.open, NEW st,
         st.sql = r.sql, st.database = r.database, st.types = Nothing,
         Kept(H, table, q, 0)
  PROVE  Kept(Append(H, r), [i \in DOMAIN table \union {r.id} |-> IF i = r.id THEN st ELSE table[i]],
              q, 0)
<1> DEFINE new == [i \in DOMAIN table \union {r.id} |-> IF i = r.id THEN st ELSE table[i]]
           n == Len(H)
           G == Append(H, r)
<1>1. /\ n \in Nat /\ DOMAIN G = 1..(n + 1) /\ DOMAIN H = 1..n
      /\ G[n + 1] = r /\ \A i \in 1..n : G[i] = H[i]
  OBVIOUS
<1>2. /\ new[r.id] = st
      /\ \A i : i # r.id => (i \in DOMAIN new <=> i \in DOMAIN table) /\ (i \in DOMAIN new => new[i] = table[i])
  OBVIOUS
<1> HIDE DEF new, n, G
<1> SUFFICES ASSUME NEW h \in DOMAIN G, G[h].open, ~Shared(G, h)
             PROVE  KeptOne(G, h, new, q, 0)
  BY DEF Kept, new, G
<1>3. CASE h = n + 1
  BY <1>1, <1>2, <1>3 DEF KeptOne
<1>4. CASE h \in 1..n
  <2>1. G[h] = H[h] /\ h # n + 1 /\ n + 1 \in DOMAIN G
    BY <1>1, <1>4
  <2>2. H[h].id # r.id
    BY <1>1, <2>1 DEF Shared
  <2>3. ~Shared(H, h)
    BY <1>1, <2>1 DEF Shared
  <2>4. KeptOne(H, h, table, q, 0)
    BY <1>1, <1>4, <2>1, <2>3 DEF Kept
  <2> QED BY <1>2, <2>1, <2>2, <2>4 DEF KeptOne
<1> QED BY <1>1, <1>3, <1>4

(* A closed handle has its close on the way; the others share less.        *)
LEMMA KeptClosing ==
  ASSUME NEW H \in Seq(Handle), NEW h \in DOMAIN H, H[h].open, NEW table, NEW b,
         NEW S, NEW q \in Seq(S), Kept(H, table, q, b)
  PROVE  Kept([H EXCEPT ![h] = [open |-> FALSE]], table,
              Append(q, [op |-> "close", id |-> H[h].id]), b)
<1> DEFINE G == [H EXCEPT ![h] = [open |-> FALSE]]
           c == [op |-> "close", id |-> H[h].id]
<1>1. /\ DOMAIN G = DOMAIN H /\ \A g \in DOMAIN H \ {h} : G[g] = H[g]
      /\ ~G[h].open
  OBVIOUS
<1>2. /\ \A id : Closes(q, id) => Closes(Append(q, c), id)
      /\ Closes(Append(q, c), H[h].id)
  BY ClosesAppend
<1> HIDE DEF G, c
<1> SUFFICES ASSUME NEW g \in DOMAIN G, G[g].open, ~Shared(G, g)
             PROVE  KeptOne(G, g, table, Append(q, c), b)
  BY DEF Kept, G, c
<1>3. g # h /\ g \in DOMAIN H /\ G[g] = H[g]
  BY <1>1
<1>4. CASE H[g].id = H[h].id
  BY <1>2, <1>3, <1>4 DEF KeptOne
<1>5. CASE H[g].id # H[h].id
  <2>1. ~Shared(H, g)
    BY <1>1, <1>3, <1>5 DEF Shared
  <2>2. KeptOne(H, g, table, q, b)
    BY <1>3, <2>1 DEF Kept
  <2> QED BY <1>2, <1>3, <2>2 DEF KeptOne
<1> QED BY <1>4, <1>5

(* Types for a handle, with the execution that has them on its way.        *)
LEMMA KeptBinding ==
  ASSUME NEW H \in Seq(Handle), NEW h \in DOMAIN H, H[h].open, NEW types, NEW table, NEW q,
         Kept(H, table, q, 0)
  PROVE  Kept([H EXCEPT ![h].types = types], table, q, h)
<1> DEFINE G == [H EXCEPT ![h].types = types]
<1>1. /\ DOMAIN G = DOMAIN H /\ \A g \in DOMAIN H \ {h} : G[g] = H[g]
      /\ G[h].open /\ G[h].id = H[h].id /\ G[h].sql = H[h].sql /\ G[h].database = H[h].database
  BY OpenHandle
<1> HIDE DEF G
<1> SUFFICES ASSUME NEW g \in DOMAIN G, G[g].open, ~Shared(G, g)
             PROVE  KeptOne(G, g, table, q, h)
  BY DEF Kept, G
<1>2. H[g].open /\ H[g].id = G[g].id /\ g \in DOMAIN H
  BY <1>1
<1>3. ~Shared(H, g)
  BY <1>1, <1>2 DEF Shared
<1>4. KeptOne(H, g, table, q, 0)
  BY <1>2, <1>3 DEF Kept
<1>5. CASE g = h
  BY <1>1, <1>4, <1>5 DEF KeptOne
<1>6. CASE g # h
  <2>1. G[g] = H[g] /\ g # 0
    BY <1>1, <1>2, <1>6
  <2> QED BY <1>4, <2>1 DEF KeptOne
<1> QED BY <1>5, <1>6

(* The client sends a command and waits for its answer.                    *)
LEMMA SendKeepsBook ==
  ASSUME IInv, Book, ~longData, Idle, NEW c, Sends(c), c # None, c.op # "none",
         handles' \in Seq(Handle), IdsFollow(handles', session.next), IdsApart(handles'),
         Untyped(handles'),
         Kept(handles', session.statements, sent,
              IF c.op = "execute" /\ c.bound # Nothing THEN c.handle ELSE 0),
         chosen' \in Database \union {Nothing},
         c.op \in {"login", "init_db"} => c.database \in Database,
         c.op = "prepare" => c.sql \in Sql,
         c.op = "execute" => ExecuteOf(c.handle)'
  PROVE  Book'
<1>1. Resting /\ Names /\ Table
  BY DEF IInv, InStep, Idle, Coming, Asked, Answered, Lost, Resting, Book
<1>2. /\ waits' = c /\ sent' = Append(sent, c) /\ answers' = <<>> /\ job' = None
      /\ UNCHANGED <<session, phase, job, answers, gone>>
  BY <1>1 DEF Sends, server, Resting
<1>3. Names' /\ Table'
  BY <1>1, <1>2 DEF Names, Table
<1>4. Known' = handles' /\ ~Preparing'
      /\ Binding' = IF c.op = "execute" /\ c.bound # Nothing THEN c.handle ELSE 0
  BY <1>2 DEF Known, Preparing, Binding, Binds
<1>5. PICK S : sent \in Seq(S)
  BY <1>1 DEF Resting, Quiet
<1>6. Kept(handles', session.statements, sent', Binding')
  BY <1>2, <1>4, <1>5, KeptAppend
<1>7. Handles'
  BY <1>2, <1>4, <1>6 DEF Handles
<1>8. Commands'
  BY <1>2 DEF Commands, JobOf
<1> QED BY <1>3, <1>7, <1>8 DEF Book

LEMMA IdleBook ==
  ASSUME IInv, Book, ~longData, Idle
  PROVE  /\ Resting /\ Names /\ Table
         /\ handles \in Seq(Handle) /\ IdsFollow(handles, session.next) /\ IdsApart(handles)
         /\ Untyped(handles) /\ Kept(handles, session.statements, sent, 0)
<1>1. Resting /\ Names /\ Table /\ Handles
  BY DEF IInv, InStep, Idle, Coming, Asked, Answered, Lost, Resting, Book
<1>2. ~Preparing /\ Known = handles /\ Binding = 0
  BY <1>1 DEF Resting, Preparing, Known, Binding, Binds, None
<1> QED BY <1>1, <1>2 DEF Handles

LEMMA ExecuteKeepsBook ==
  ASSUME IInv, Book, NEW h \in DOMAIN handles, NEW bound \in Type \union {Nothing}, NEW bits,
         SendExecute(h, bound, bits)
  PROVE  Book'
<1>1. Idle /\ ~longData /\ handles[h].open /\ chosen' = chosen
  BY DEF SendExecute, LoggedIn
<1>2. /\ Names /\ handles \in Seq(Handle) /\ IdsFollow(handles, session.next) /\ IdsApart(handles)
      /\ Untyped(handles) /\ Kept(handles, session.statements, sent, 0)
  BY <1>1, IdleBook
<1>3. handles[h] \in [id : 1..MaxStatementId, sql : Sql, database : Database,
                      types : Type \union {Nothing}, open : {TRUE}]
  BY <1>1, <1>2, OpenHandle
<1> DEFINE types == IF bound = Nothing THEN handles[h].types ELSE bound
           r == [handles[h] EXCEPT !.types = types]
           H == [handles EXCEPT ![h] = r]
<1>4. PICK c : c = [op |-> "execute", id |-> handles[h].id, bound |-> bound,
                    types |-> types, bits |-> bits, handle |-> h]
  OBVIOUS
<1>5. handles' = H /\ Sends(c)
  BY <1>4 DEF SendExecute
<1>6. /\ c.op = "execute" /\ c.bound = bound /\ c.handle = h /\ c.id = handles[h].id
      /\ c.types = types /\ c # None
  BY <1>4 DEF None
<1>7. /\ types \in Type \union {Nothing}
      /\ bound = Nothing => types = handles[h].types
      /\ bound # Nothing => types = bound /\ handles[h].sql \in ParamSql
  BY <1>3 DEF SendExecute
<1> HIDE DEF types
<1>8. /\ r \in Handle /\ r.open /\ r.id = handles[h].id /\ r.sql = handles[h].sql /\ r.types = types
      /\ types = handles[h].types => r = handles[h]
  BY <1>3, <1>7 DEF Handle
<1>9. Kept(H, session.statements, sent, h)
  BY <1>1, <1>2, KeptBinding
<1> HIDE DEF r
<1>10. /\ H \in Seq(Handle) /\ Len(H) = Len(handles) /\ DOMAIN H = DOMAIN handles
       /\ H[h] = r /\ \A g \in DOMAIN handles \ {h} : H[g] = handles[g]
       /\ r = handles[h] => H = handles
  BY <1>2, <1>8
<1> HIDE DEF H
<1>11. IdsFollow(H, session.next) /\ IdsApart(H)
  <2>1. \A g \in DOMAIN H : H[g].open => handles[g].open /\ H[g].id = handles[g].id
    BY <1>1, <1>8, <1>10
  <2> QED BY <1>2, <1>10, <2>1, SameIds
<1>12. Untyped(H)
  BY <1>1, <1>2, <1>7, <1>8, <1>10 DEF Untyped
<1>13. Kept(H, session.statements, sent, IF c.op = "execute" /\ c.bound # Nothing THEN c.handle ELSE 0)
  <2>1. bound = Nothing => H = handles
    BY <1>7, <1>8, <1>10
  <2> QED BY <1>2, <1>6, <1>9, <2>1
<1>14. waits' = c
  BY <1>5 DEF Sends
<1>15. ExecuteOf(c.handle)'
  <2>1. /\ h \in DOMAIN H /\ H[h].open /\ c.id = H[h].id /\ c.types = H[h].types
        /\ c.bound \in {Nothing, c.types}
        /\ c.bound # Nothing => H[h].sql \in ParamSql
    BY <1>6, <1>7, <1>8, <1>10
  <2> QED BY <1>5, <1>6, <1>14, <2>1 DEF ExecuteOf
<1>16. chosen' \in Database \union {Nothing} /\ c.op = "execute" /\ c # None
  BY <1>1, <1>2, <1>6 DEF Names
<1> QED BY <1>1, <1>5, <1>10, <1>11, <1>12, <1>13, <1>15, <1>16, SendKeepsBook

LEMMA CloseKeepsBook ==
  ASSUME IInv, Book, NEW h \in DOMAIN handles, SendClose(h)
  PROVE  Book'
<1> DEFINE H == [handles EXCEPT ![h] = [open |-> FALSE]]
           c == [op |-> "close", id |-> handles[h].id]
<1>1. /\ Idle /\ ~longData /\ handles[h].open /\ handles' = H /\ sent' = Append(sent, c)
      /\ UNCHANGED <<session, phase, job, answers, gone, waits, chosen>>
  BY DEF SendClose, LoggedIn, SendsUnanswered, server
<1>2. /\ Resting /\ Names /\ Table
      /\ handles \in Seq(Handle) /\ IdsFollow(handles, session.next) /\ IdsApart(handles)
      /\ Untyped(handles) /\ Kept(handles, session.statements, sent, 0)
  BY <1>1, IdleBook
<1>3. /\ H \in Seq(Handle) /\ Len(H) = Len(handles) /\ DOMAIN H = DOMAIN handles
      /\ \A g \in DOMAIN handles : H[g].open => H[g] = handles[g] /\ handles[g].open
  <2>1. [open |-> FALSE] \in Handle
    BY DEF Handle
  <2> QED BY <1>2, <2>1
<1>4. IdsFollow(H, session.next) /\ IdsApart(H)
  BY <1>2, <1>3, SameIds
<1>5. PICK S : sent \in Seq(S)
  BY <1>2 DEF Resting, Quiet
<1>6. Kept(H, session.statements, sent', 0)
  BY <1>1, <1>2, <1>5, KeptClosing
<1> HIDE DEF H, c
<1>7. Untyped(H)
  BY <1>2, <1>3 DEF Untyped
<1>8. waits' = None /\ waits'.op = "none" /\ Known' = handles' /\ ~Preparing' /\ Binding' = 0
  BY <1>1, <1>2 DEF Resting, None, Known, Preparing, Binding, Binds
<1>9. Handles'
  BY <1>1, <1>3, <1>4, <1>6, <1>7, <1>8 DEF Handles
<1>10. Names' /\ Table' /\ Commands'
  BY <1>1, <1>2, <1>8 DEF Names, Table, Commands
<1> QED BY <1>9, <1>10 DEF Book

LEMMA EmptyKeepsBook ==
  ASSUME IInv, Book, SendEmpty
  PROVE  Book'
<1>1. /\ Idle /\ ~longData /\ sent' = Append(sent, [op |-> "empty"])
      /\ UNCHANGED <<session, phase, job, answers, gone, waits, chosen, handles>>
  BY DEF SendEmpty, LoggedIn, SendsUnanswered, server
<1>2. /\ Resting /\ Names /\ Table
      /\ handles \in Seq(Handle) /\ IdsFollow(handles, session.next) /\ IdsApart(handles)
      /\ Untyped(handles) /\ Kept(handles, session.statements, sent, 0)
  BY <1>1, IdleBook
<1>3. PICK S : sent \in Seq(S)
  BY <1>2 DEF Resting, Quiet
<1>4. Kept(handles, session.statements, sent', 0)
  BY <1>1, <1>2, <1>3, KeptAppend
<1>5. waits' = None /\ waits'.op = "none" /\ Known' = handles' /\ ~Preparing' /\ Binding' = 0
  BY <1>1, <1>2 DEF Resting, None, Known, Preparing, Binding, Binds
<1>6. Handles'
  BY <1>1, <1>2, <1>4, <1>5 DEF Handles
<1>7. Names' /\ Table' /\ Commands'
  BY <1>1, <1>2, <1>5 DEF Names, Table, Commands
<1> QED BY <1>6, <1>7 DEF Book

LEMMA ReceiveKeepsBook ==
  ASSUME IInv, Book, ~longData, Receive
  PROVE  Book'
<1> SUFFICES ASSUME phase # "closed" PROVE Book'
  BY DEF Receive, server, Book
<1>1. Answered /\ ~gone /\ UNCHANGED <<session, phase, job, sent, gone>> /\ waits' = None
  BY DEF IInv, InStep, Receive, Resting, Coming, Asked, Answered, Lost, server
<1>2. Names /\ Table /\ Handles
  BY <1>1 DEF Book
<1>3. PICK a : answers = <<a>> /\ a.to = waits
  BY <1>1 DEF Answered
<1>4. Head(answers) = a /\ answers # <<>>
  BY <1>3
<1>5. handles' = Known
  BY <1>2, <1>3, <1>4 DEF Receive, Known, Preparing, PreparedHandle, Handles
<1>6. chosen' \in Database \union {Nothing}
  BY <1>2, <1>3, <1>4 DEF Receive, Names
<1>7. waits'.op = "none" /\ Known' = Known /\ ~Preparing' /\ Binding' = 0
  BY <1>1, <1>5 DEF None, Known, Preparing, Binding, Binds
<1>8. Binding = 0
  BY <1>4 DEF Binding, Binds
<1>9. Handles'
  BY <1>1, <1>2, <1>5, <1>7, <1>8 DEF Handles
<1>10. Names' /\ Table' /\ Commands'
  BY <1>1, <1>2, <1>6, <1>7 DEF Names, Table, Commands
<1> QED BY <1>9, <1>10 DEF Book

LEMMA ClientKeepsBook ==
  ASSUME IInv, Book, Client \/ Receive
  PROVE  Book'
<1>0. CASE longData'
  BY <1>0 DEF Book
<1>1. ASSUME NEW c, ~longData, Idle, Sends(c), c # None, UNCHANGED handles,
             c.op \notin {"none", "execute"},
             chosen' \in Database \union {Nothing} \/ UNCHANGED chosen,
             c.op \in {"login", "init_db"} => c.database \in Database,
             c.op = "prepare" => c.sql \in Sql
      PROVE  Book'
  BY <1>1, IdleBook, SendKeepsBook DEF Names
<1>2. CASE \E how \in {"good", "bad password", "other plugin", "malformed"} : LogIn(how)
  <2>1. PICK how : LogIn(how)
    BY <1>2
  <2> DEFINE c == [op |-> "login", how |-> how, database |-> First]
  <2>2. /\ Idle /\ Sends(c) /\ chosen' = First /\ UNCHANGED <<handles, longData>>
        /\ c.op = "login" /\ c.database = First
    BY <2>1 DEF LogIn, Sends
  <2>3. c # None
    BY <2>2 DEF None
  <2> HIDE DEF c
  <2>4. CASE ~longData
    BY <1>1, <2>2, <2>3, <2>4, SqlAssumption
  <2> QED BY <1>0, <2>2, <2>4
<1>3. CASE \E op \in {"quit", "malformed", "ping", "set", "unsupported", "database"} : SendSimple(op)
  BY <1>0, <1>1, <1>3 DEF SendSimple, Sends, None
<1>4. CASE \E d \in Database : SendInitDb(d)
  BY <1>1, <1>4 DEF SendInitDb, LoggedIn, None
<1>5. CASE \E q \in Sql : SendQuery(q) \/ SendPrepare(q)
  BY <1>1, <1>5 DEF SendQuery, SendPrepare, LoggedIn, None
<1>6. CASE \E h \in DOMAIN handles : SendReset(h)
  BY <1>1, <1>6 DEF SendReset, LoggedIn, None
<1>7. CASE Leave
  BY <1>7 DEF Leave, Book
<1>8. CASE \E h \in DOMAIN handles : SendLongData(h)
  BY <1>0, <1>8 DEF SendLongData
<1>9. CASE Receive
  BY <1>0, <1>9, ReceiveKeepsBook DEF Receive
<1>10. CASE \E h \in DOMAIN handles, bound \in Type \union {Nothing}, bits \in 0..(2 * Half - 1) :
              SendExecute(h, bound, bits)
  BY <1>10, ExecuteKeepsBook
<1> QED
  BY <1>2, <1>3, <1>4, <1>5, <1>6, <1>7, <1>8, <1>9, <1>10, CloseKeepsBook, EmptyKeepsBook DEF Client

LEMMA SentIsSequence ==
  ASSUME IInv, ~gone, ~longData, phase = "loop", job = None, sent # <<>>
  PROVE  \E S : sent \in Seq(S)
<1>1. Resting \/ Coming
  BY DEF IInv, InStep, Resting, Coming, Asked, Answered, Lost
<1>2. CASE Resting
  BY <1>2 DEF Resting, Quiet
<1>3. CASE Coming
  <2>1. PICK q : Quiet(q) /\ sent = Append(q, waits)
    BY <1>3 DEF Coming
  <2>2. PICK T : q \in Seq(T)
    BY <2>1 DEF Quiet
  <2>3. q \in Seq(T \union {waits}) /\ waits \in T \union {waits}
    BY <2>2
  <2>4. sent \in Seq(T \union {waits})
    BY <2>1, <2>3
  <2> QED BY <2>4
<1> QED BY <1>1, <1>2, <1>3

(* The server reads a command that is answered, in the loop.               *)
LEMMA ReadsCommand ==
  ASSUME IInv, Book, ~gone, ~longData, NEW op, Reads(op), op \notin Unanswered
  PROVE  /\ waits # None /\ answers = <<>> /\ job = None /\ Head(sent) = waits /\ sent' = <<>>
         /\ phase = "loop" /\ waits.op = op /\ session.database = chosen
         /\ UNCHANGED client /\ Names /\ Table /\ Commands /\ handles \in Seq(Handle)
         /\ IdsFollow(handles, session.next) /\ IdsApart(handles) /\ Untyped(handles)
         /\ Kept(handles, session.statements, <<>>, Binding)
<1>1. /\ phase = "loop" /\ job = None /\ sent # <<>> /\ Head(sent).op = op /\ sent' = Tail(sent)
      /\ UNCHANGED client
  BY DEF Reads
<1>2. waits # None /\ answers = <<>> /\ Head(sent) = waits /\ Tail(sent) = <<>>
  BY <1>1, ReadsTheAwaited
<1>3. session.database = chosen
  BY <1>1, <1>2 DEF IInv, InStep, Chosen
<1>4. Names /\ Table /\ Handles /\ Commands
  BY <1>1 DEF Book
<1>5. Known = handles
  BY <1>2 DEF Known, Preparing
<1>6. \E S : sent \in Seq(S)
  BY <1>1, SentIsSequence
<1>7. Kept(handles, session.statements, Tail(sent), Binding)
  BY <1>1, <1>4, <1>5, <1>6, KeptTail DEF Handles, Unanswered
<1> QED BY <1>1, <1>2, <1>3, <1>4, <1>5, <1>7 DEF Handles

LEMMA EndsKeepsBook == ASSUME Ends PROVE Book'
BY DEF Ends, Book

LEMMA WritesKeepsBook ==
  ASSUME waits # None, phase # "closed", UNCHANGED client, sent' = <<>>, NEW a, NEW ss, Writes(a, ss),
         ~gone, ~longData, Names, Commands, waits.op # "prepare",
         handles \in Seq(Handle), IdsFollow(handles, session.next), IdsApart(handles),
         Untyped(handles), Kept(handles, ss.statements, <<>>, 0),
         ss.next = session.next, ss.next \in 1..MaxStatementId, answers = <<>>,
         \A i \in DOMAIN ss.statements : ss.statements[i] \in Statement
  PROVE  Book'
<1>1. answers' = <<a>> /\ session' = ss /\ job' = None /\ UNCHANGED <<phase, gone, waits, handles, chosen>>
  BY DEF Writes, Delivered, client
<1>2. Names' /\ Table' /\ Commands'
  BY <1>1 DEF Names, Table, Commands, ExecuteOf, JobOf
<1>3. Known' = handles /\ ~Preparing' /\ Binding' = 0
  BY <1>1 DEF Known, Preparing, Binding, Binds
<1>4. Handles'
  BY <1>1, <1>3 DEF Handles
<1> QED BY <1>2, <1>4 DEF Book

LEMMA AsksKeepsBook ==
  ASSUME phase # "closed", UNCHANGED client, sent' = <<>>, NEW j, NEW ss, Asks(j, ss), j # None,
         ~gone, ~longData, Names, Commands', answers = <<>>,
         handles \in Seq(Handle), IdsFollow(handles, session.next), IdsApart(handles),
         Untyped(handles), Kept(handles, ss.statements, <<>>, 0),
         ss.next = session.next, ss.next \in 1..MaxStatementId,
         \A i \in DOMAIN ss.statements : ss.statements[i] \in Statement
  PROVE  Book'
<1>1. /\ session' = ss /\ job' = j
      /\ UNCHANGED <<phase, gone, answers, waits, handles, chosen>>
  BY DEF Asks, client
<1>2. Names' /\ Table'
  BY <1>1 DEF Names, Table
<1>3. Known' = handles /\ ~Preparing' /\ Binding' = 0
  BY <1>1 DEF Known, Preparing, Binding, Binds
<1>4. Handles'
  BY <1>1, <1>3 DEF Handles
<1> QED BY <1>2, <1>4 DEF Book

LEMMA WithTypes ==
  ASSUME IsSession(session), NEW i, NEW types
  PROVE  LET ss == [session EXCEPT !.statements[i].types = types]
         IN  /\ ss.next = session.next /\ ss.database = session.database
             /\ ss.statements =
                  [session.statements EXCEPT ![i] = [session.statements[i] EXCEPT !.types = types]]
BY DEF IsSession

LEMMA ReadExecuteKeepsBook ==
  ASSUME IInv, Book, ~gone, ~longData, ReadExecute
  PROVE  Book'
<1>1. Reads("execute")
  BY DEF ReadExecute
<1>2. /\ waits # None /\ answers = <<>> /\ job = None /\ Head(sent) = waits /\ sent' = <<>>
      /\ phase = "loop" /\ waits.op = "execute"
      /\ UNCHANGED client /\ Names /\ Table /\ Commands /\ handles \in Seq(Handle)
      /\ IdsFollow(handles, session.next) /\ IdsApart(handles) /\ Untyped(handles)
      /\ Kept(handles, session.statements, <<>>, Binding)
  BY <1>1, ReadsCommand DEF Unanswered
<1> DEFINE c == Head(sent)
           h == waits.handle
           table == session.statements
           st == table[c.id]
           types == ParamTypes(c, st)
<1>3. CASE Ends
  BY <1>3, EndsKeepsBook
<1>4. PICK j : j = [op |-> "execute", of |-> c, sql |-> st.sql, database |-> st.database,
                    param |-> Decoded(types, c.bits)]
  OBVIOUS
<1>5. CASE /\ c.id \in DOMAIN table /\ (st.sql \in ParamSql => types # Nothing)
           /\ Asks(j, [session EXCEPT !.statements[c.id].types = types])
  <2>1. /\ j.sql = st.sql /\ j.database = st.database /\ j.param = Decoded(types, c.bits) /\ j # None
    BY <1>4 DEF None
  <2>2. /\ h \in DOMAIN handles /\ handles[h].open /\ h # 0
        /\ c.id = handles[h].id /\ waits.types = handles[h].types
        /\ waits.bound \in {Nothing, waits.types}
        /\ waits.bound # Nothing => handles[h].sql \in ParamSql
    BY <1>2 DEF Commands, ExecuteOf
  <2>3. Binding = IF waits.bound # Nothing THEN h ELSE 0
    BY <1>2 DEF Binding, Binds
  <2>4. st \in Statement
    BY <1>2, <1>5 DEF Table
  <2>5. \A id : ~Closes(<<>>, id)
    BY DEF Closes
  <2>6. ASSUME ~Shared(handles, h)
        PROVE  /\ st.sql = handles[h].sql /\ st.database = handles[h].database
               /\ types = Coded(waits.types)
    <3>1. KeptOne(handles, h, table, <<>>, Binding)
      BY <1>2, <2>2, <2>6 DEF Kept
    <3>2. /\ st.sql = handles[h].sql /\ st.database = handles[h].database
          /\ st.types \in {Nothing, Coded(handles[h].types)} \/ h = Binding
      BY <1>5, <2>2, <2>5, <3>1 DEF KeptOne
    <3>3. CASE st.sql \notin ParamSql
      BY <1>2, <2>2, <3>2, <3>3 DEF ParamTypes, Untyped, Coded
    <3>4. CASE st.sql \in ParamSql
      BY <1>2, <1>5, <2>2, <2>3, <3>2, <3>4 DEF ParamTypes
    <3> QED BY <3>2, <3>3, <3>4
  <2>7. types \in Code \union {Nothing}
    <3>1. waits.types \in Type \union {Nothing}
      BY <1>2, <2>2, OpenHandle
    <3>2. Coded(waits.bound) \in Code \union {Nothing}
      BY <2>2, <3>1, CodedTyped
    <3> QED BY <1>2, <2>2, <2>4, <3>2 DEF ParamTypes, Statement
  <2> DEFINE new == [table EXCEPT ![c.id] = [st EXCEPT !.types = types]]
  <2>8. /\ DOMAIN new = DOMAIN table /\ \A i \in DOMAIN table : i # c.id => new[i] = table[i]
        /\ new[c.id].sql = st.sql /\ new[c.id].database = st.database /\ new[c.id].types = types
        /\ new[c.id] \in Statement
    BY <1>5, <2>4, <2>7 DEF Statement
  <2>9. PICK ss : ss = [session EXCEPT !.statements[c.id].types = types]
    OBVIOUS
  <2>10. ss.next = session.next /\ ss.statements = new
    BY <2>9, WithTypes DEF IInv, Shape
  <2>11. Asks(j, ss)
    BY <1>5, <2>9
  <2> HIDE DEF c, h, table, st, types, new
  <2>12. Kept(handles, new, <<>>, 0)
    <3> SUFFICES ASSUME NEW g \in DOMAIN handles, handles[g].open, ~Shared(handles, g)
                 PROVE  KeptOne(handles, g, new, <<>>, 0)
      BY DEF Kept
    <3>1. CASE g = h
      BY <2>2, <2>6, <2>8, <3>1 DEF KeptOne
    <3>2. CASE g # h
      <4>1. handles[g].id # c.id
        BY <2>2, <3>2 DEF Shared
      <4>2. KeptOne(handles, g, table, <<>>, Binding) /\ g # Binding
        BY <1>2, <2>2, <2>3, <3>2 DEF Kept, table
      <4> QED BY <2>8, <4>1, <4>2 DEF KeptOne
    <3> QED BY <3>1, <3>2
  <2>13. \A i \in DOMAIN new : new[i] \in Statement
    BY <1>2, <2>8 DEF Table, table
  <2>14. UNCHANGED <<waits, handles>> /\ job' = j
    BY <1>2, <2>11 DEF client, Asks
  <2>15. Commands'
    <3>1. JobOf(waits.handle)'
      BY <1>2, <2>1, <2>6, <2>14 DEF JobOf, Shared, h, c
    <3> QED BY <1>2, <2>14, <3>1 DEF Commands, ExecuteOf
  <2> QED BY <1>2, <2>1, <2>10, <2>11, <2>12, <2>13, <2>15, AsksKeepsBook DEF Table
<1> QED BY <1>3, <1>4, <1>5 DEF ReadExecute

LEMMA ReadCloseKeepsBook ==
  ASSUME IInv, Book, ~gone, ~longData, ReadClose
  PROVE  Book'
<1> DEFINE id == Head(sent).id
           new == [i \in DOMAIN session.statements \ {id} |-> session.statements[i]]
<1>1. /\ phase = "loop" /\ job = None /\ sent # <<>> /\ sent' = Tail(sent)
      /\ UNCHANGED <<phase, job, answers, gone, waits, handles, chosen>>
  BY DEF ReadClose, Reads, client
<1>2. session'.next = session.next /\ session'.statements = new
  BY DEF ReadClose, IInv, Shape, IsSession
<1>3. Names /\ Table /\ Handles /\ Commands
  BY <1>1 DEF Book
<1>4. PICK S : sent \in Seq(S)
  BY <1>1, SentIsSequence
<1>5. Kept(Known, new, Tail(sent), Binding)
  BY <1>1, <1>3, <1>4, KeptWithout DEF Handles
<1>6. \A i \in DOMAIN new : new[i] \in Statement
  BY <1>3 DEF Table
<1> HIDE DEF new, id
<1>7. Known' = Known /\ Preparing' = Preparing /\ Binding' = Binding
  BY <1>1 DEF Known, Preparing, PreparedHandle, Binding, Binds
<1>8. Handles'
  BY <1>1, <1>2, <1>3, <1>5, <1>7 DEF Handles
<1>9. Names' /\ Table' /\ Commands'
  BY <1>1, <1>2, <1>3, <1>6 DEF Names, Table, Commands, ExecuteOf, JobOf
<1> QED BY <1>8, <1>9 DEF Book

LEMMA ReadEmptyKeepsBook ==
  ASSUME IInv, Book, ~gone, ~longData, ReadEmpty
  PROVE  Book'
<1>1. /\ phase = "loop" /\ job = None /\ sent # <<>> /\ Head(sent).op = "empty" /\ sent' = Tail(sent)
      /\ UNCHANGED <<session, phase, job, answers, gone, waits, handles, chosen>>
  BY DEF ReadEmpty, Reads, client, server
<1>2. Names /\ Table /\ Handles /\ Commands
  BY <1>1 DEF Book
<1>3. PICK S : sent \in Seq(S)
  BY <1>1, SentIsSequence
<1>4. Kept(Known, session.statements, Tail(sent), Binding)
  BY <1>1, <1>2, <1>3, KeptTail DEF Handles
<1>5. Known' = Known /\ Preparing' = Preparing /\ Binding' = Binding
  BY <1>1 DEF Known, Preparing, PreparedHandle, Binding, Binds
<1>6. Handles'
  BY <1>1, <1>2, <1>4, <1>5 DEF Handles
<1>7. Names' /\ Table' /\ Commands'
  BY <1>1, <1>2 DEF Names, Table, Commands, ExecuteOf, JobOf
<1> QED BY <1>6, <1>7 DEF Book

LEMMA ReadLoginKeepsBook ==
  ASSUME IInv, Book, ~gone, ~longData, ReadLogin
  PROVE  Book'
<1>1. CASE Ends
  BY <1>1, EndsKeepsBook
<1>2. CASE Asks([op |-> "authenticate", of |-> Head(sent)], session)
  <2>1. sent # <<>> /\ job = None /\ phase = "greeting" /\ sent' = Tail(sent) /\ UNCHANGED client
    BY DEF ReadLogin
  <2>2. waits # None /\ waits.op = "login" /\ sent = <<waits>> /\ answers = <<>>
    BY <2>1 DEF IInv, InStep, Greets, Resting, Coming, Asked, Answered, Lost
  <2>3. sent' = <<>> /\ sent \in Seq({waits}) /\ Head(sent).op # "close"
    BY <2>1, <2>2
  <2>4. Names /\ Table /\ Handles /\ Commands
    BY <2>1 DEF Book
  <2>5. Known = handles /\ Binding = 0
    BY <2>2 DEF Known, Preparing, Binding, Binds
  <2>6. Kept(handles, session.statements, <<>>, 0)
    BY <2>1, <2>2, <2>3, <2>4, <2>5, KeptTail DEF Handles
  <2>7. PICK j : j = [op |-> "authenticate", of |-> Head(sent)]
    OBVIOUS
  <2>8. Asks(j, session) /\ j # None
    BY <1>2, <2>7 DEF None
  <2>9. Commands'
    BY <2>1, <2>2, <2>4 DEF Commands, client
  <2> QED BY <2>1, <2>2, <2>3, <2>4, <2>5, <2>6, <2>8, <2>9, AsksKeepsBook DEF Handles, Table
<1> QED BY <1>1, <1>2 DEF ReadLogin, WritesLast

LEMMA ServerKeepsBook ==
  ASSUME IInv, Book, ~gone, ~longData, Server
  PROVE  Book'
<1> USE DEF Unanswered
<1>1. ASSUME NEW op, Reads(op), op \in {"ping", "set", "unsupported", "long data", "init_db", "database", "reset"},
             NEW a, NEW ss, Writes(a, ss), ss.next = session.next,
             Kept(handles, ss.statements, <<>>, 0),
             \A i \in DOMAIN ss.statements : ss.statements[i] \in Statement
      PROVE  Book'
  <2>1. /\ waits # None /\ answers = <<>> /\ sent' = <<>> /\ phase = "loop" /\ waits.op = op
        /\ UNCHANGED client /\ Names /\ Table /\ Commands /\ handles \in Seq(Handle)
        /\ IdsFollow(handles, session.next) /\ IdsApart(handles) /\ Untyped(handles)
    BY <1>1, ReadsCommand
  <2> QED BY <1>1, <2>1, WritesKeepsBook DEF Table
<1>2. ASSUME NEW op, Reads(op), op \notin {"execute", "close", "empty"}
      PROVE  /\ Kept(handles, session.statements, <<>>, 0)
             /\ \A i \in DOMAIN session.statements : session.statements[i] \in Statement
  <2>1. /\ waits.op = op /\ Table /\ Kept(handles, session.statements, <<>>, Binding)
    BY <1>2, ReadsCommand
  <2>2. Binding = 0
    BY <1>2, <2>1 DEF Binding, Binds
  <2> QED BY <2>1, <2>2 DEF Table
<1>3. CASE ReadQuit \/ ReadMalformed \/ ReadEnd
  BY <1>3, EndsKeepsBook DEF ReadQuit, ReadMalformed, ReadEnd
<1>4. CASE ReadSimple \/ ReadUnsupported \/ ReadDatabase
  BY <1>1, <1>2, <1>4 DEF ReadSimple, ReadUnsupported, ReadDatabase
<1>5. CASE ReadInitDb
  <2>1. PICK ss : ss = [session EXCEPT !.database = Head(sent).database]
    OBVIOUS
  <2>2. ss.next = session.next /\ ss.statements = session.statements
    BY <2>1 DEF IInv, Shape, IsSession
  <2>3. Reads("init_db") /\ Writes(Answer(Head(sent), TRUE), ss)
    BY <1>5, <2>1 DEF ReadInitDb
  <2> QED BY <1>1, <1>2, <2>2, <2>3
<1>6. CASE ReadReset
  <2> DEFINE id == Head(sent).id
             table == session.statements
  <2>1. Reads("reset") /\ Kept(handles, table, <<>>, 0) /\ \A i \in DOMAIN table : table[i] \in Statement
    BY <1>2, <1>6 DEF ReadReset
  <2>2. CASE id \notin DOMAIN table
    BY <1>1, <1>6, <2>1, <2>2 DEF ReadReset
  <2>3. CASE id \in DOMAIN table
    <3>1. PICK ss : ss = [session EXCEPT !.statements[id].types = Nothing]
      OBVIOUS
    <3>2. Writes(Answer(Head(sent), TRUE), ss)
      BY <1>6, <2>3, <3>1 DEF ReadReset
    <3>3. /\ ss.next = session.next
          /\ ss.statements = [table EXCEPT ![id] = [table[id] EXCEPT !.types = Nothing]]
      BY <3>1, WithTypes DEF IInv, Shape
    <3>4. Kept(handles, ss.statements, <<>>, 0)
      BY <2>1, <2>3, <3>3, KeptReset
    <3>5. [table[id] EXCEPT !.types = Nothing] \in Statement
      BY <2>1, <2>3 DEF Statement
    <3> HIDE DEF id, table
    <3>6. \A i \in DOMAIN ss.statements : ss.statements[i] \in Statement
      BY <2>1, <2>3, <3>3, <3>5
    <3> QED BY <1>1, <2>1, <3>2, <3>3, <3>4, <3>6
  <2> QED BY <2>2, <2>3
<1>7. CASE ReadQuery \/ ReadPrepare
  <2>1. PICK op \in {"query", "prepare"} :
           /\ Reads(op)
           /\ \E o \in {"query", "describe"} :
                Asks([op |-> o, of |-> Head(sent), sql |-> Head(sent).sql,
                      database |-> session.database, param |-> Nothing], session)
    BY <1>7 DEF ReadQuery, ReadPrepare
  <2>2. PICK o, j : /\ j = [op |-> o, of |-> Head(sent), sql |-> Head(sent).sql,
                            database |-> session.database, param |-> Nothing]
                    /\ Asks(j, session)
    BY <2>1
  <2>3. j # None /\ j.sql = Head(sent).sql /\ j.database = session.database
    BY <2>2 DEF None
  <2>4. /\ waits # None /\ answers = <<>> /\ Head(sent) = waits /\ sent' = <<>>
        /\ phase = "loop" /\ waits.op = op /\ session.database = chosen
        /\ UNCHANGED client /\ Names /\ Table /\ handles \in Seq(Handle)
        /\ IdsFollow(handles, session.next) /\ IdsApart(handles) /\ Untyped(handles)
    BY <2>1, ReadsCommand
  <2>5. Commands'
    BY <2>1, <2>2, <2>3, <2>4 DEF Commands, Asks, client
  <2> QED BY <1>2, <2>1, <2>2, <2>3, <2>4, <2>5, AsksKeepsBook DEF Table
<1> QED
  BY <1>3, <1>4, <1>5, <1>6, <1>7, ReadLoginKeepsBook, ReadExecuteKeepsBook, ReadCloseKeepsBook,
     ReadEmptyKeepsBook DEF Server

LEMMA EngineKeepsBook ==
  ASSUME IInv, Book, ~gone, ~longData, EngineAnswers
  PROVE  Book'
<1>1. job # None /\ UNCHANGED <<sent, gone, waits, handles, chosen, longData>> /\ UNCHANGED client
  BY DEF EngineAnswers, client
<1>2. /\ Asked /\ phase # "closed" /\ waits # None /\ answers = <<>> /\ sent = <<>>
  BY <1>1 DEF IInv, InStep, Resting, Coming, Asked, Answered, Lost
<1>3. /\ Names /\ Table /\ Commands /\ handles \in Seq(Handle)
      /\ IdsFollow(handles, session.next) /\ IdsApart(handles) /\ Untyped(handles)
      /\ Kept(handles, session.statements, <<>>, 0)
  <2>1. Known = handles /\ Binding = 0
    BY <1>1, <1>2 DEF Known, Preparing, Binding, Binds
  <2> QED BY <1>2, <2>1 DEF Book, Handles
<1>4. CASE LoginAnswered
  <2>1. CASE Ends
    BY <2>1, EndsKeepsBook
  <2>2. CASE /\ phase' = "loop" /\ job' = None
             /\ session' = [session EXCEPT !.database = job.of.database]
             /\ Delivered(Answer(job.of, TRUE))
    <3>1. session'.next = session.next /\ session'.statements = session.statements
      BY <2>2 DEF IInv, Shape, IsSession
    <3>2. waits.op = "login"
      BY <1>2, <1>4 DEF LoginAnswered, Asked
    <3>3. Known' = handles /\ ~Preparing' /\ Binding' = 0
      BY <1>1, <2>2, <3>2 DEF Known, Preparing, Binding, Binds
    <3>4. Names' /\ Table' /\ Commands'
      BY <1>1, <1>3, <3>1, <3>2 DEF Names, Table, Commands
    <3>5. Handles'
      BY <1>1, <1>2, <1>3, <3>1, <3>3 DEF Handles
    <3> QED BY <3>4, <3>5 DEF Book
  <2> QED BY <1>4, <2>1, <2>2 DEF LoginAnswered, WritesLast
<1>5. CASE StatementAnswered
  <2>1. waits.op # "prepare"
    BY <1>2, <1>5 DEF StatementAnswered, Asked
  <2>2. PICK ok \in BOOLEAN : Writes(Answer(job.of, ok), session)
    BY <1>5 DEF StatementAnswered
  <2> QED BY <1>1, <1>2, <1>3, <2>1, <2>2, WritesKeepsBook DEF Table
<1>6. CASE Described
  <2>1. CASE Ends
    BY <2>1, EndsKeepsBook
  <2> DEFINE id == session.next
             st == [sql |-> job.sql, database |-> job.database, types |-> Nothing]
             a == [Answer(job.of, TRUE) EXCEPT !.id = id]
             r == [id |-> id, sql |-> waits.sql, database |-> chosen, types |-> Nothing,
                   open |-> TRUE]
  <2>2. CASE answers' = <<a>> /\ session' = Prepared(session, id, st) /\ job' = None /\ phase' = phase
    <3>1. waits.op = "prepare"
      BY <1>2, <1>6 DEF Described, Asked
    <3>2. job.sql = waits.sql /\ job.database = chosen
      BY <1>1, <1>3, <3>1 DEF Commands
    <3>3. chosen \in Database
      <4>1. phase = "loop"
        BY <1>2, <3>1 DEF IInv, Shape, InStep, Greets
      <4> QED BY <1>3, <4>1 DEF Names, IInv, InStep, Nothing
    <3>4. /\ id \in 1..MaxStatementId /\ r \in Handle /\ r.open /\ r.id = id
          /\ r.sql = waits.sql /\ r.database = chosen
      BY <1>3, <3>1, <3>3 DEF Names, Table, Handle
    <3>5. st \in Statement /\ st.sql = r.sql /\ st.database = r.database /\ st.types = Nothing
      BY <1>3, <3>1, <3>2, <3>3 DEF Names, Statement
    <3>6. a.id = id /\ a.ok
      BY DEF Answer
    <3>7. PICK aa : aa = a /\ answers' = <<aa>>
      BY <2>2
    <3>8. Head(answers') = aa /\ answers' # <<>>
      BY <3>7
    <3>9. Known' = Append(handles, r) /\ Preparing' /\ Head(answers').ok /\ Binding' = 0
      BY <1>1, <3>1, <3>6, <3>7, <3>8 DEF Known, Preparing, PreparedHandle, Binding, Binds
    <3>10. /\ session'.next = NextId(id)
           /\ session'.statements =
                [i \in DOMAIN session.statements \union {id} |->
                   IF i = id THEN st ELSE session.statements[i]]
      BY <2>2 DEF Prepared
    <3> HIDE DEF r, st, a, id
    <3>11. /\ Append(handles, r) \in Seq(Handle)
           /\ IdsFollow(Append(handles, r), NextId(id)) /\ NextId(id) \in 1..MaxStatementId
           /\ IdsApart(Append(handles, r))
      BY <1>3, <3>4, NewHandle DEF id
    <3>12. Kept(Append(handles, r), session'.statements, <<>>, 0)
      <4>1. Kept(Append(handles, r),
                 [i \in DOMAIN session.statements \union {r.id} |->
                    IF i = r.id THEN st ELSE session.statements[i]], <<>>, 0)
        BY <1>3, <3>4, <3>5, KeptPrepared
      <4>2. r.id = id
        BY <3>4
      <4> QED BY <3>10, <4>1, <4>2
    <3>13. Untyped(Append(handles, r))
      <4>1. r.types = Nothing
        BY DEF r
      <4>2. /\ DOMAIN Append(handles, r) = 1..(Len(handles) + 1) /\ DOMAIN handles = 1..Len(handles)
            /\ Append(handles, r)[Len(handles) + 1] = r /\ Len(handles) \in Nat
            /\ \A i \in 1..Len(handles) : Append(handles, r)[i] = handles[i]
        BY <1>3, <3>4
      <4> QED BY <1>3, <4>1, <4>2 DEF Untyped
    <3>14. Handles'
      BY <1>1, <1>2, <1>3, <3>9, <3>10, <3>11, <3>12, <3>13 DEF Handles
    <3>15. Table'
      BY <1>3, <3>5, <3>10, <3>11 DEF Table
    <3>16. Names' /\ Commands'
      BY <1>1, <1>3, <3>1 , <2>2 DEF Names, Commands
    <3> QED BY <3>14, <3>15, <3>16 DEF Book
  <2>3. \/ Ends
        \/ answers' = <<a>> /\ session' = Prepared(session, id, st) /\ job' = None /\ phase' = phase
    <3>1. Append(answers, a) = <<a>>
      BY <1>2
    <3>2. Writes(a, Prepared(session, id, st)) \/ Ends
      BY <1>6 DEF Described
    <3> HIDE DEF a
    <3> QED BY <3>1, <3>2 DEF Writes, Delivered
  <2> QED BY <2>1, <2>2, <2>3
<1> QED BY <1>4, <1>5, <1>6 DEF EngineAnswers

LEMMA StartBook == Init => Book
<1> SUFFICES ASSUME Init PROVE Book
  OBVIOUS
<1>1. waits.op = "none" /\ ~Preparing /\ Known = <<>> /\ handles = <<>> /\ session.next = 1
      /\ session.statements = <<>> /\ chosen = Nothing /\ waits = None
  BY DEF Init, None, Preparing, Known, NoSession
<1>2. Names /\ Table /\ Commands
  BY <1>1, NumberAssumption DEF Names, Table, Commands
<1>3. Handles
  BY <1>1 DEF Handles, IdsFollow, IdsApart, Untyped, Kept
<1> QED BY <1>2, <1>3 DEF Book

LEMMA BookInductive == IInv /\ Book /\ [Next]_vars => Book'
<1> SUFFICES ASSUME IInv, Book, [Next]_vars PROVE Book'
  OBVIOUS
<1>1. CASE Client \/ Receive
  BY <1>1, ClientKeepsBook
<1>2. ASSUME gone \/ longData, Server \/ EngineAnswers PROVE Book'
  <2>1. UNCHANGED <<gone, longData>>
    BY <1>2 DEF Server, ReadLogin, ReadQuit, ReadMalformed, ReadSimple, ReadUnsupported, ReadInitDb,
         ReadDatabase, ReadQuery, ReadPrepare, ReadExecute, ReadReset, ReadClose, ReadEmpty, ReadEnd, Reads,
         EngineAnswers, client
  <2> QED BY <1>2, <2>1 DEF Book
<1>3. CASE UNCHANGED vars
  <2>1. Known' = Known /\ Preparing' = Preparing /\ Binding' = Binding
    BY <1>3 DEF vars, server, client, Known, Preparing, PreparedHandle, Binding, Binds
  <2>2. Handles => Handles'
    BY <1>3, <2>1 DEF vars, server, client, Handles
  <2>3. (Names /\ Table => Names' /\ Table') /\ (Commands => Commands')
    BY <1>3 DEF vars, server, client, Names, Table, Commands, ExecuteOf, JobOf
  <2> QED BY <1>3, <2>2, <2>3 DEF vars, server, client, Book
<1> QED BY <1>1, <1>2, <1>3, ServerKeepsBook, EngineKeepsBook DEF Next

(* Book in every reachable state.                                          *)
THEOREM BookInvariance == Spec => [](IInv /\ Book)
<1>1. IInv /\ [Next]_vars => IInv'
  BY Inductive
<1> QED BY <1>1, Start, StartBook, BookInductive, PTL DEF Spec

(* command.rs:109-201, session.rs:42-46, stmt.rs:107-160: whatever is      *)
(* prepared, executed, reset and closed, a handle runs its own statement   *)
(* for its own database, with the parameter the client meant, as long as   *)
(* the ids have not gone round an open handle, it is not an unsigned       *)
(* integer from Half on, and COM_STMT_SEND_LONG_DATA was not sent.         *)
THEOREM RunsItsOwn == Spec => []RunsWhatWasAsked
<1>1. IInv /\ Book => RunsWhatWasAsked
  <2> SUFFICES ASSUME IInv, Book, ~gone, ~longData PROVE RunsWhatWasAsked
    BY DEF RunsWhatWasAsked
  <2>1. CASE job = None
    BY <2>1 DEF RunsWhatWasAsked, None
  <2>2. CASE job # None
    <3>1. Asked /\ phase # "closed" /\ job.of = waits
      BY <2>2 DEF IInv, InStep, Resting, Coming, Asked, Answered, Lost
    <3>2. Commands /\ Handles
      BY <3>1 DEF Book
    <3>3. CASE job.op = "query"
      <4>1. waits.op = "query"
        BY <3>1, <3>3 DEF Asked
      <4> QED BY <2>2, <3>1, <3>2, <3>3, <4>1 DEF Commands, RunsWhatWasAsked
    <3>4. CASE job.op = "execute" /\ ~WentRound(waits.handle)
      <4>1. waits.op = "execute"
        BY <3>1, <3>4 DEF Asked
      <4>2. ExecuteOf(waits.handle) /\ JobOf(waits.handle)
        BY <3>2, <4>1 DEF Commands
      <4>3. Known = handles
        BY <3>1 DEF Asked, Known, Preparing
      <4>4. ~Shared(handles, waits.handle)
        BY <3>2, <3>4, <4>2, <4>3, NotShared DEF Handles, ExecuteOf
      <4>5. waits.types \in Type \union {Nothing}
        BY <3>2, <4>2, OpenHandle DEF Handles, ExecuteOf
      <4>6. job.param = Decoded(Coded(waits.types), waits.bits)
        BY <2>2, <4>2, <4>4 DEF JobOf
      <4>7. waits.types = Nothing => job.param = Nothing
        BY <4>6 DEF Coded, Decoded
      <4>8. ASSUME waits.types # Nothing, waits.types \in Unsigned => waits.bits < Half
            PROVE  job.param = Meant(waits.types, waits.bits)
        <5>1. Coded(waits.types) = CodeOf[waits.types] /\ Coded(waits.types) # Nothing
          BY <4>5, <4>8, CodedTyped DEF Coded
        <5>2. waits.types \in Unsigned => Signed(waits.bits) = waits.bits
          BY <4>8 DEF Signed
        <5> QED BY <4>6, <5>1, <5>2 DEF Decoded, Meant
      <4> QED BY <2>2, <3>1, <3>4, <4>2, <4>4, <4>7, <4>8 DEF JobOf, RunsWhatWasAsked
    <3> QED BY <3>1, <3>3, <3>4 DEF RunsWhatWasAsked
  <2> QED BY <2>1, <2>2
<1> QED BY <1>1, BookInvariance, PTL
=============================================================================
