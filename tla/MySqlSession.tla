----------------------------- MODULE MySqlSession -----------------------------
(***************************************************************************)
(* One MySQL connection: the client, as a connector that follows the       *)
(* protocol drives it (it waits for the answer of a command that has one), *)
(* the session the server keeps for it, and what it asks of the engine.    *)
(*                                                                         *)
(* A statement is a model value and has at most one parameter; a packet is *)
(* a record; rows, columns, packet numbers and the rewriting of SQL are    *)
(* left out, but a rewritten statement remembers the database it was       *)
(* rewritten for.  A parameter is encoded by a type, which is a code and,  *)
(* for an integer, a sign, and its value is the bits that are sent.        *)
(* Sessions share nothing but the engine, which may refuse any request (a  *)
(* full queue, a failed or forbidden statement, a stop).                   *)
(***************************************************************************)
EXTENDS Integers, Sequences

CONSTANTS Sql,             \* statements
          ParamSql,        \* those with a parameter
          Type,            \* types of a parameter
          Unsigned,        \* those of unsigned integers
          Code,            \* their codes in a packet
          IntegerCode,     \* MYSQL_TYPE_TINY to MYSQL_TYPE_LONGLONG
          CodeOf,          \* the code of each type
          Half,            \* stands for 2^(w-1), an integer having w bits
          Database,        \* names of databases
          First,           \* the one in the handshake
          MaxStatementId,  \* stands for 2^32 - 1
          MaxPrepares,     \* bound: statements a client prepares
          MaxUnanswered    \* bound: unanswered packets on their way at a time

ASSUME SqlAssumption == ParamSql \subseteq Sql /\ First \in Database
ASSUME NamesAssumption == "nothing" \notin Database \union Type \union Code
ASSUME TypeAssumption ==
  CodeOf \in [Type -> Code] /\ Unsigned \subseteq Type /\ IntegerCode \subseteq Code
ASSUME NumberAssumption == MaxStatementId \in Nat \ {0} /\ Half \in Nat \ {0}

VARIABLES phase,    \* "greeting", "loop" or "closed"
          session,  \* MySqlSession: database, statements, next_statement_id
          job,      \* what the session waits for: the engine's answer to it
          sent,     \* packets on their way to the server
          answers,  \* answers on their way to the client
          gone,     \* the client has closed its end
          waits,    \* the command whose answer the client waits for
          handles,  \* the statements the client prepared, in order
          chosen,   \* the database the client last chose, at login or by COM_INIT_DB
          longData  \* history: it has sent COM_STMT_SEND_LONG_DATA

server == <<phase, session, job>>
client == <<gone, waits, handles, chosen, longData>>
vars == <<server, sent, answers, client>>

None == [op |-> "none"]
Nothing == "nothing"
NoSession == [database |-> Nothing, statements |-> <<>>, next |-> 1]

-----------------------------------------------------------------------------
(* The client                                                              *)

Idle == ~gone /\ phase # "closed" /\ waits = None

(* A command that is answered, and a packet that is not.                   *)
Sends(c) == /\ sent' = Append(sent, c)
            /\ waits' = c
            /\ UNCHANGED <<server, answers, gone, longData>>
SendsUnanswered(c) == /\ Len(sent) < MaxUnanswered
                      /\ sent' = Append(sent, c)
                      /\ UNCHANGED <<server, answers, gone, waits, chosen>>

LogIn(how) ==
  /\ Idle /\ chosen = Nothing
  /\ chosen' = First
  /\ Sends([op |-> "login", how |-> how, database |-> First])
  /\ UNCHANGED handles

(* Bound: after COM_STMT_SEND_LONG_DATA only simple commands follow.       *)
LoggedIn == Idle /\ chosen # Nothing /\ ~longData

SendSimple(op) ==
  /\ Idle /\ chosen # Nothing
  /\ Sends([op |-> op])
  /\ UNCHANGED <<handles, chosen>>

SendInitDb(d) ==
  /\ LoggedIn
  /\ Sends([op |-> "init_db", database |-> d])
  /\ UNCHANGED <<handles, chosen>>

(* Any statement, USE among them: that is for the engine, and the session  *)
(* keeps its database.                                                     *)
SendQuery(q) ==
  /\ LoggedIn
  /\ Sends([op |-> "query", sql |-> q])
  /\ UNCHANGED <<handles, chosen>>

SendPrepare(q) ==
  /\ LoggedIn
  /\ Len(handles) < MaxPrepares
  /\ Sends([op |-> "prepare", sql |-> q])
  /\ UNCHANGED <<handles, chosen>>

(* Types go with the first execution, and with others when they change:    *)
(* bound is what is sent, types what the value is encoded by.              *)
SendExecute(h, bound, bits) ==
  /\ LoggedIn
  /\ handles[h].open
  /\ handles[h].sql \notin ParamSql => bits = 0
  /\ bound = Nothing => (handles[h].sql \in ParamSql => handles[h].types # Nothing)
  /\ bound # Nothing => handles[h].sql \in ParamSql
  /\ LET types == IF bound = Nothing THEN handles[h].types ELSE bound
     IN  /\ handles' = [handles EXCEPT ![h].types = types]
         /\ Sends([op |-> "execute", id |-> handles[h].id, bound |-> bound,
                   types |-> types, bits |-> bits, handle |-> h])
  /\ UNCHANGED chosen

SendReset(h) ==
  /\ LoggedIn
  /\ handles[h].open
  /\ Sends([op |-> "reset", id |-> handles[h].id])
  /\ UNCHANGED <<handles, chosen>>

SendClose(h) ==
  /\ LoggedIn
  /\ handles[h].open
  /\ handles' = [handles EXCEPT ![h] = [open |-> FALSE]]
  /\ SendsUnanswered([op |-> "close", id |-> handles[h].id])
  /\ UNCHANGED longData

(* By the protocol it has no answer.  Bound: of one statement.             *)
SendLongData(h) ==
  /\ LoggedIn
  /\ Len(handles) = 1
  /\ handles[h].open /\ handles[h].sql \in ParamSql
  /\ SendsUnanswered([op |-> "long data"])
  /\ longData' = TRUE
  /\ UNCHANGED handles

(* A packet with nothing in it.  Bound: before the first statement.        *)
SendEmpty ==
  /\ LoggedIn
  /\ handles = <<>>
  /\ SendsUnanswered([op |-> "empty"])
  /\ UNCHANGED <<handles, longData>>

(* An answer to another command than the one it waits for: what the client *)
(* takes it for is not followed.                                           *)
Receive ==
  /\ ~gone /\ answers # <<>> /\ waits # None
  /\ LET a == Head(answers)
         done == a.to = waits /\ a.ok
     IN  /\ handles' = IF waits.op = "prepare" /\ done
                       THEN Append(handles, [id |-> a.id, sql |-> waits.sql,
                                             database |-> chosen, types |-> Nothing,
                                             open |-> TRUE])
                       ELSE handles
         /\ chosen' = IF waits.op = "init_db" /\ done THEN waits.database ELSE chosen
  /\ answers' = Tail(answers)
  /\ waits' = None
  /\ UNCHANGED <<server, sent, gone, longData>>

Leave ==
  /\ ~gone
  /\ gone' = TRUE
  /\ waits' = None /\ handles' = <<>> /\ chosen' = Nothing
  /\ longData' = FALSE
  /\ answers' = <<>>
  /\ UNCHANGED <<server, sent>>

-----------------------------------------------------------------------------
(* The server: it reads the next packet when it waits for nothing.         *)

(* The loop ends: the session is dropped, the socket closed.               *)
Ends == phase' = "closed" /\ job' = None /\ session' = NoSession

Delivered(a) == answers' = IF gone THEN answers ELSE Append(answers, a)

(* write_packet: to a client that has left it may fail, and ends the loop. *)
Writes(a, ss) ==
  \/ Delivered(a) /\ session' = ss /\ job' = None /\ UNCHANGED phase
  \/ gone /\ Ends /\ UNCHANGED answers

WritesLast(a) == Ends /\ Delivered(a)

Answer(c, ok) == [to |-> c, ok |-> ok, id |-> 0, database |-> session.database]

(* The packets of the given kind at the head of the connection.            *)
Reads(op) ==
  /\ phase = "loop" /\ job = None
  /\ sent # <<>> /\ Head(sent).op = op
  /\ sent' = Tail(sent)
  /\ UNCHANGED client

Asks(j, ss) == job' = j /\ session' = ss /\ UNCHANGED <<phase, answers>>

(* handle_mysql_socket, authenticate_mysql_client                          *)
ReadLogin ==
  /\ phase = "greeting" /\ job = None
  /\ sent # <<>>
  /\ sent' = Tail(sent)
  /\ LET c == Head(sent)
     IN  CASE c.how = "malformed" -> Ends /\ UNCHANGED answers
           [] c.how = "other plugin" -> WritesLast(Answer(c, FALSE))
           [] OTHER -> Asks([op |-> "authenticate", of |-> c], session)
  /\ UNCHANGED client

ReadQuit ==
  /\ Reads("quit")
  /\ Ends
  /\ UNCHANGED answers

(* A command with a bad payload ends the loop without an answer.           *)
ReadMalformed ==
  /\ Reads("malformed")
  /\ Ends
  /\ UNCHANGED answers

(* is_mysql_session_statement: SET, BEGIN, COMMIT, ROLLBACK.               *)
ReadSimple ==
  /\ \E op \in {"ping", "set"} : Reads(op)
  /\ Writes(Answer(Head(sent), TRUE), session)

(* Unknown commands, and COM_STMT_SEND_LONG_DATA, which nobody waits for.  *)
ReadUnsupported ==
  /\ \E op \in {"unsupported", "long data"} : Reads(op)
  /\ Writes(Answer(Head(sent), FALSE), session)

ReadEmpty ==
  /\ Reads("empty")
  /\ UNCHANGED <<server, answers>>

ReadInitDb ==
  /\ Reads("init_db")
  /\ Writes(Answer(Head(sent), TRUE), [session EXCEPT !.database = Head(sent).database])

(* SELECT DATABASE(), mysql_compat_result                                  *)
ReadDatabase ==
  /\ Reads("database")
  /\ Writes(Answer(Head(sent), TRUE), session)

ReadQuery ==
  /\ Reads("query")
  /\ Asks([op |-> "query", of |-> Head(sent), sql |-> Head(sent).sql,
           database |-> session.database, param |-> Nothing], session)

ReadPrepare ==
  /\ Reads("prepare")
  /\ Asks([op |-> "describe", of |-> Head(sent), sql |-> Head(sent).sql,
           database |-> session.database, param |-> Nothing], session)

(* parse_execute_params: the codes sent, or those of the last execution;   *)
(* what else a type says is skipped.                                       *)
Coded(t) == IF t = Nothing THEN Nothing ELSE CodeOf[t]
ParamTypes(c, st) ==
  IF st.sql \notin ParamSql THEN Nothing
  ELSE IF c.bound # Nothing THEN Coded(c.bound) ELSE st.types

(* parse_binary_param: every integer is read as a signed one.              *)
Signed(bits) == IF bits < Half THEN bits ELSE bits - 2 * Half
Decoded(code, bits) ==
  IF code = Nothing THEN Nothing
  ELSE [code |-> code, value |-> IF code \in IntegerCode THEN Signed(bits) ELSE bits]

(* Mutant: types are kept only from the first execution.                   *)
ReadExecuteKeepingFirst ==
  /\ Reads("execute")
  /\ LET c == Head(sent)
         st == session.statements[c.id]
         types == ParamTypes(c, st)
     IN  IF \/ c.id \notin DOMAIN session.statements
            \/ st.sql \in ParamSql /\ types = Nothing
         THEN Ends /\ UNCHANGED answers
         ELSE Asks([op |-> "execute", of |-> c, sql |-> st.sql,
                    database |-> st.database, param |-> Decoded(types, c.bits)],
                   IF st.types = Nothing THEN [session EXCEPT !.statements[c.id].types = types] ELSE session)

(* handle_stmt_execute: the types are kept before the engine is asked.     *)
ReadExecute ==
  /\ Reads("execute")
  /\ LET c == Head(sent)
         st == session.statements[c.id]
         types == ParamTypes(c, st)
     IN  IF \/ c.id \notin DOMAIN session.statements
            \/ st.sql \in ParamSql /\ types = Nothing
         THEN Ends /\ UNCHANGED answers
         ELSE Asks([op |-> "execute", of |-> c, sql |-> st.sql,
                    database |-> st.database, param |-> Decoded(types, c.bits)],
                   [session EXCEPT !.statements[c.id].types = types])

ReadReset ==
  /\ Reads("reset")
  /\ LET id == Head(sent).id
     IN  Writes(Answer(Head(sent), TRUE),
                IF id \in DOMAIN session.statements
                THEN [session EXCEPT !.statements[id].types = Nothing]
                ELSE session)

(* Mutant: COM_STMT_CLOSE is answered like COM_STMT_RESET.                 *)
ReadCloseAnswering ==
  /\ Reads("close")
  /\ Writes(Answer(Head(sent), TRUE),
            [session EXCEPT !.statements =
               [i \in DOMAIN session.statements \ {Head(sent).id} |-> session.statements[i]]])

ReadClose ==
  /\ Reads("close")
  /\ session' = [session EXCEPT !.statements =
                   [i \in DOMAIN session.statements \ {Head(sent).id} |-> session.statements[i]]]
  /\ UNCHANGED <<phase, job, answers>>

(* read_packet: the end of what the client sent.                           *)
ReadEnd ==
  /\ phase # "closed" /\ job = None
  /\ gone /\ sent = <<>>
  /\ Ends
  /\ UNCHANGED <<answers, sent, client>>

-----------------------------------------------------------------------------
(* The engine's answer, and what the session makes of it                   *)

(* MySqlSession::next_statement_id                                         *)
NextId(id) == IF id = MaxStatementId THEN 1 ELSE id + 1

LoginAnswered ==
  /\ job.op = "authenticate"
  /\ \/ /\ job.of.how = "good"
        /\ phase' = "loop" /\ job' = None
        /\ session' = [session EXCEPT !.database = job.of.database]
        /\ Delivered(Answer(job.of, TRUE))
     \/ WritesLast(Answer(job.of, FALSE))

(* handle_query, handle_stmt_execute, send_result                          *)
StatementAnswered ==
  /\ job.op \in {"query", "execute"}
  /\ \E ok \in BOOLEAN : Writes(Answer(job.of, ok), session)

Prepared(ss, id, st) ==
  [database |-> ss.database, next |-> NextId(id),
   statements |-> [i \in DOMAIN ss.statements \union {id} |-> IF i = id THEN st ELSE ss.statements[i]]]

(* Mutant: an error is logged, and the next packet read.                   *)
DescribedOrIgnored ==
  /\ job.op = "describe"
  /\ LET id == session.next
         st == [sql |-> job.sql, database |-> job.database, types |-> Nothing]
     IN  \/ Writes([Answer(job.of, TRUE) EXCEPT !.id = id], Prepared(session, id, st))
         \/ job' = None /\ UNCHANGED <<phase, session, answers>>

(* handle_stmt_prepare: an error ends the loop without an answer.          *)
Described ==
  /\ job.op = "describe"
  /\ LET id == session.next
         st == [sql |-> job.sql, database |-> job.database, types |-> Nothing]
     IN  \/ Writes([Answer(job.of, TRUE) EXCEPT !.id = id], Prepared(session, id, st))
         \/ Ends /\ UNCHANGED answers

EngineAnswers ==
  /\ job # None
  /\ LoginAnswered \/ StatementAnswered \/ Described
  /\ UNCHANGED <<sent, client>>

-----------------------------------------------------------------------------
Init ==
  /\ phase = "greeting"
  /\ session = NoSession
  /\ job = None
  /\ sent = <<>> /\ answers = <<>>
  /\ gone = FALSE
  /\ waits = None
  /\ handles = <<>>
  /\ chosen = Nothing
  /\ longData = FALSE

Client ==
  \/ \E how \in {"good", "bad password", "other plugin", "malformed"} : LogIn(how)
  \/ \E op \in {"quit", "malformed", "ping", "set", "unsupported", "database"} : SendSimple(op)
  \/ \E d \in Database : SendInitDb(d)
  \/ \E q \in Sql : SendQuery(q) \/ SendPrepare(q)
  \/ \E h \in DOMAIN handles :
       \/ \E bound \in Type \union {Nothing}, bits \in 0..(2 * Half - 1) : SendExecute(h, bound, bits)
       \/ SendReset(h)
       \/ SendClose(h)
       \/ SendLongData(h)
  \/ SendEmpty
  \/ Leave

Server ==
  \/ ReadLogin \/ ReadQuit \/ ReadMalformed \/ ReadSimple \/ ReadUnsupported
  \/ ReadInitDb \/ ReadDatabase \/ ReadQuery \/ ReadPrepare \/ ReadExecute
  \/ ReadReset \/ ReadClose \/ ReadEmpty \/ ReadEnd

Next == Client \/ Receive \/ Server \/ EngineAnswers

Spec == Init /\ [][Next]_vars

(* The task of the connection is scheduled, the engine answers (see        *)
(* Engine!RequestsAnswered), and the client reads what it waits for.       *)
FairSpec == Spec /\ WF_vars(Server) /\ WF_vars(EngineAnswers) /\ WF_vars(Receive)

-----------------------------------------------------------------------------
(* Properties                                                              *)

(* command.rs:19-77: an answer is that of the one command the client waits *)
(* for; none is written for COM_STMT_CLOSE or an empty packet, however     *)
(* many are sent before.  COM_STMT_SEND_LONG_DATA, which is answered, is   *)
(* the exception, for the rest of the connection.  SELECT DATABASE() names *)
(* the database chosen last at login or by COM_INIT_DB.                    *)
InSync ==
  answers # <<>> /\ ~longData =>
    /\ Len(answers) = 1
    /\ Head(answers).to = waits
    /\ waits.op = "database" => Head(answers).database = chosen

(* What the client means by the bits it sends.                             *)
Meant(t, bits) ==
  [code |-> CodeOf[t],
   value |-> IF CodeOf[t] \in IntegerCode /\ t \notin Unsigned THEN Signed(bits) ELSE bits]

(* command.rs:109-201, session.rs:42-46, stmt.rs:107-160: an execution     *)
(* runs the statement its handle was prepared with, for the database of    *)
(* then, with the parameter that was meant, whichever execution its type   *)
(* was sent with; a query runs for the database chosen last at login or by *)
(* COM_INIT_DB.  The exceptions: unsigned integers from Half on, what      *)
(* follows COM_STMT_SEND_LONG_DATA, and a handle left open until the ids   *)
(* have gone round, with the one that got its id then.                     *)
WentRound(n) ==
  \E g \in DOMAIN handles :
    /\ handles[g].open
    /\ (g - n >= MaxStatementId) \/ (n - g >= MaxStatementId)

RunsWhatWasAsked ==
  LET c == job.of
      h == handles[c.handle]
  IN  ~gone /\ ~longData =>
        /\ job.op = "execute" /\ ~WentRound(c.handle) =>
             /\ job.sql = h.sql /\ job.database = h.database
             /\ c.types = Nothing => job.param = Nothing
             /\ c.types # Nothing /\ (c.types \in Unsigned => c.bits < Half) =>
                  job.param = Meant(c.types, c.bits)
        /\ job.op = "query" =>
             job.sql = c.sql /\ job.database = chosen

(* listener.rs:58-80, command.rs:19-77: a command is answered or its       *)
(* connection closed, and the task of a client that left ends.             *)
AnsweredOrClosed ==
  /\ (waits # None) ~> (waits = None \/ phase = "closed")
  /\ gone ~> (phase = "closed")
=============================================================================
